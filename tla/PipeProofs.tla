----------------------------- MODULE PipeProofs ------------------------------
(***************************************************************************)
(* Proofs about kernel/pipe.c, for every size of the buffer, every wrap of *)
(* the counters that the size divides, and any readers and writers: no     *)
(* wakeup is lost, and the pipe is a first-in first-out line of bytes.     *)
(***************************************************************************)
EXTENDS Pipe, TLAPS

\* The number of bytes in the pipe, nwrite - nread in unsigned arithmetic.
Fill == (nwrite - nread) % WRAP

\* pi->lock is held by the one process between acquire() and sleep() or release().
LockInv ==
  \A p \in Proc : pc[p] \in {"loop", "put", "copy", "sleep"} <=> lock = p

\* An end of the pipe is open while a process is in a call on it, and what the
\* places in the calls say of its arguments.
CallInv ==
  \A p \in Proc :
    /\ pc[p] # "idle" => (p \in Writer => writeopen) /\ (p \in Reader => readopen)
    /\ pc[p] = "idle" => i[p] = 0
    /\ pc[p] = "put" => p \in Writer /\ i[p] < n[p] /\ readopen
    /\ pc[p] = "copy" => p \in Reader

\* A reader sleeps, or is about to, on an empty pipe, unless a writer that has
\* filled it has wakeup() before it, or was killed before it got there.
ReaderInv ==
  \A p \in Reader :
    /\ pc[p] = "sleep" => Empty /\ writeopen
    /\ pc[p] = "asleep" =>
         /\ writeopen
         /\ \/ Empty
            \/ \E w \in Writer : killed[w] \/ pc[w] \in {"loop", "put"}

\* A writer sleeps, or is about to, on a full pipe, unless a reader that takes
\* bytes out has wakeup() before it.  It has woken the readers.
WriterInv ==
  \A p \in Writer :
    /\ pc[p] = "sleep" => /\ Full /\ readopen
                          /\ \A r \in Reader : pc[r] # "asleep"
    /\ pc[p] = "asleep" => readopen /\ (Full \/ \E r \in Reader : pc[r] = "copy")

\* The pipe is never overfull.
FillInv == Fill <= PIPESIZE

IInv == TypeOK /\ LockInv /\ CallInv /\ ReaderInv /\ WriterInv /\ FillInv

-----------------------------------------------------------------------------
(* Arithmetic modulo the size of the buffer and the wrap of the counters *)

\* Division with remainder.
LEMMA Division ==
  ASSUME NEW m \in Nat \ {0}, NEW x \in Int
  PROVE  \E q \in Int : \E r \in 0..(m - 1) : x = m * q + r /\ x % m = r
  <1>1. /\ x = m * (x \div m) + (x % m)
        /\ x \div m \in Int /\ x % m \in 0..(m - 1)
    OBVIOUS
  <1> QED
    BY <1>1, Zenon

\* The remainder is the only one.
LEMMA Remainder ==
  ASSUME NEW m \in Nat \ {0}, NEW x \in Int, NEW q \in Int, NEW r \in 0..(m - 1),
         x = m * q + r
  PROVE  x % m = r
  OBVIOUS

\* A multiple of the modulus does not change the remainder.
LEMMA ModShift ==
  ASSUME NEW m \in Nat \ {0}, NEW x \in Int, NEW y \in Int, NEW s \in Int, y = x + s * m
  PROVE  y % m = x % m
  <1>1. PICK q \in Int : \E r \in 0..(m - 1) : x = m * q + r /\ x % m = r
    BY Division, Zenon
  <1>2. PICK r \in 0..(m - 1) : x = m * q + r /\ x % m = r
    BY Zenon, <1>1
  <1>3. PICK t \in Int : t = q + s
    OBVIOUS
  <1>4. y = m * t + r
    BY <1>2, <1>3
  <1> QED
    BY Zenon, <1>2, <1>4, Remainder

\* Numbers less than the modulus apart have different remainders.
LEMMA ModDistinct ==
  ASSUME NEW m \in Nat \ {0}, NEW x \in Int, NEW y \in Int, x < y, y < x + m
  PROVE  x % m # y % m
  <1>1. PICK q \in Int : \E r \in 0..(m - 1) : x = m * q + r /\ x % m = r
    BY Division, Zenon
  <1>2. PICK r \in 0..(m - 1) : x = m * q + r /\ x % m = r
    BY Zenon, <1>1
  <1>3. PICK d \in 1..(m - 1) : y = x + d
    <2>1. y - x \in 1..(m - 1) /\ y = x + (y - x)
      OBVIOUS
    <2> QED
      BY Zenon, <2>1
  <1>4. CASE r + d < m
    <2>1. PICK u \in 0..(m - 1) : u = r + d
      BY <1>4
    <2>2. y = m * q + u
      BY <1>2, <1>3, <2>1
    <2> QED
      BY <1>2, <2>1, <2>2, Remainder
  <1>5. CASE r + d >= m
    <2>1. PICK u \in 0..(m - 1) : u = r + d - m
      BY <1>5
    <2>2. PICK t \in Int : t = q + 1
      OBVIOUS
    <2>3. y = m * t + u
      BY <1>2, <1>3, <2>1, <2>2
    <2> QED
      BY <1>2, <2>1, <2>3, Remainder
  <1> QED
    BY <1>4, <1>5

\* The counters wrap at more than the size of the buffer, a multiple of it.
LEMMA Sizes ==
  /\ PIPESIZE \in Nat \ {0} /\ WRAP \in Nat \ {0} /\ PIPESIZE < WRAP
  /\ \E s \in Int : WRAP = s * PIPESIZE
  <1>1. PICK s \in 2..WRAP : WRAP = s * PIPESIZE
    BY Zenon, PipeAssumption
  <1>2. s * PIPESIZE >= 2 * PIPESIZE
    BY PipeAssumption
  <1> QED
    BY <1>1, <1>2, PipeAssumption

\* Where a number near the range of the counters wraps to.
LEMMA Wrapped ==
  ASSUME NEW x \in Int
  PROVE  /\ x \in 0..(WRAP - 1) => x % WRAP = x
         /\ x >= WRAP /\ x < 2 * WRAP => x % WRAP = x - WRAP
         /\ x < 0 /\ x + WRAP >= 0 => x % WRAP = x + WRAP
  BY Sizes

\* Wrapping does not change the place in the buffer.
LEMMA SamePlace ==
  ASSUME NEW x \in 0..(2 * WRAP - 1)
  PROVE  (x % WRAP) % PIPESIZE = x % PIPESIZE
  <1>1. PICK s \in Int : WRAP = s * PIPESIZE
    BY Zenon, Sizes
  <1>2. CASE x < WRAP
    BY <1>2, Wrapped, Sizes
  <1>3. CASE x >= WRAP
    <2>1. PICK y \in Int : y = x % WRAP /\ x = y + s * PIPESIZE
      BY <1>1, <1>3, Wrapped, Sizes
    <2>2. x \in Int /\ PIPESIZE \in Nat \ {0}
      BY Sizes
    <2>3. y % PIPESIZE = x % PIPESIZE
      BY <2>1, <2>2, ModShift, ZenonT(30)
    <2> QED
      BY Zenon, <2>1, <2>3
  <1> QED
    BY <1>2, <1>3, Sizes

\* The number of bytes between two counters, and how it changes.
LEMMA FillFacts ==
  ASSUME NEW r \in 0..(WRAP - 1), NEW w \in 0..(WRAP - 1), (w - r) % WRAP <= PIPESIZE
  PROVE  /\ (w - r) % WRAP = IF r <= w THEN w - r ELSE w - r + WRAP
         /\ (w - r) % WRAP = 0 <=> r = w
         /\ (w - r) % WRAP = PIPESIZE <=> w = (r + PIPESIZE) % WRAP
         /\ w = (r + ((w - r) % WRAP)) % WRAP
         /\ w # (r + PIPESIZE) % WRAP =>
              (((w + 1) % WRAP) - r) % WRAP = ((w - r) % WRAP) + 1
         /\ r # w => (w - ((r + 1) % WRAP)) % WRAP = ((w - r) % WRAP) - 1
  <1> DEFINE f == IF r <= w THEN w - r ELSE w - r + WRAP
  <1>1. r \in Int /\ w \in Int /\ WRAP \in Int /\ PIPESIZE \in Int /\ 0 < PIPESIZE /\ PIPESIZE < WRAP
    BY Sizes
  <1>2. (w - r) % WRAP = f /\ f \in 0..PIPESIZE
    BY <1>1, Wrapped
  <1>3. (r + PIPESIZE) % WRAP = IF r + PIPESIZE < WRAP THEN r + PIPESIZE ELSE r + PIPESIZE - WRAP
    BY <1>1, Wrapped
  <1>4. (w + 1) % WRAP = IF w + 1 = WRAP THEN 0 ELSE w + 1
    BY <1>1, Wrapped
  <1>5. (r + 1) % WRAP = IF r + 1 = WRAP THEN 0 ELSE r + 1
    BY <1>1, Wrapped
  <1>6. f = 0 <=> r = w
    BY <1>1
  <1>7. f = PIPESIZE <=> w = (r + PIPESIZE) % WRAP
    BY <1>1, <1>2, <1>3
  <1>8. w = (r + f) % WRAP
    BY <1>1, Wrapped
  <1>9. f # PIPESIZE => (((w + 1) % WRAP) - r) % WRAP = f + 1
    BY <1>1, <1>2, <1>4, Wrapped
  <1>10. r # w => (w - ((r + 1) % WRAP)) % WRAP = f - 1
    BY <1>1, <1>2, <1>5, Wrapped
  <1> QED
    BY Zenon, <1>2, <1>6, <1>7, <1>8, <1>9, <1>10

-----------------------------------------------------------------------------
(* The inductive invariant *)

\* The readers, the writers and None are distinct.
LEMMA Names ==
  /\ None \notin Proc /\ Proc = Writer \cup Reader /\ Writer \cap Reader = {}
  /\ Count \subseteq Nat
  BY Zenon, PipeAssumption DEF Proc

\* A process enters pipewrite() or piperead(): only its own arguments change.
LEMMA CallIInv ==
  ASSUME IInv, NEW p \in Proc, NEW count \in Count, Call(p, count)
  PROVE  IInv'
  <1>1. TypeOK'
    <2>1. count \in Nat /\ i[p] = 0
      BY Zenon, Names DEF IInv, CallInv, Call
    <2>2. n' \in [Proc -> Nat] /\ \A q \in Proc : i'[q] <= n'[q]
      BY <2>1 DEF IInv, TypeOK, Call
    <2> QED
      BY Zenon, <2>2 DEF IInv, TypeOK, Call, Goto, pipe
  <1>2. LockInv'
    BY Names DEF IInv, LockInv, Call, Goto
  <1>3. CallInv'
    BY Names DEF IInv, CallInv, Call, Goto, pipe
  <1>4. ReaderInv'
    BY Names DEF IInv, ReaderInv, Empty, Call, Goto, pipe
  <1>5. WriterInv'
    BY Names DEF IInv, WriterInv, Full, Call, Goto, pipe
  <1>6. FillInv'
    BY Zenon, Names DEF IInv, FillInv, Fill, Call, pipe
  <1> QED
    BY Zenon, <1>1, <1>2, <1>3, <1>4, <1>5, <1>6 DEF IInv

\* acquire(&pi->lock), at entry or on return from sleep(): the lock was free.
LEMMA AcquireIInv ==
  ASSUME IInv, NEW p \in Proc, Acquire(p)
  PROVE  IInv'
  <1>1. TypeOK'
    BY Zenon, Names DEF IInv, TypeOK, Acquire, Goto, pipe
  <1>2. LockInv'
    BY Zenon, Names DEF IInv, TypeOK, LockInv, Acquire, Goto
  <1>3. CallInv'
    BY Names DEF IInv, CallInv, Acquire, Goto, pipe
  <1>4. ReaderInv'
    BY Names DEF IInv, ReaderInv, Empty, Acquire, Goto, pipe
  <1>5. WriterInv'
    BY Names DEF IInv, WriterInv, Full, Acquire, Goto, pipe
  <1>6. FillInv'
    BY Zenon, Names DEF IInv, FillInv, Fill, Acquire, pipe
  <1> QED
    BY Zenon, <1>1, <1>2, <1>3, <1>4, <1>5, <1>6 DEF IInv

\* sleep() releases pi->lock: what it slept for was tested with the lock held.
LEMMA SleepIInv ==
  ASSUME IInv, NEW p \in Proc, Sleep(p)
  PROVE  IInv'
  <1>1. TypeOK'
    BY Zenon, Names DEF IInv, TypeOK, Sleep, Goto, pipe
  <1>2. LockInv'
    BY Zenon, Names DEF IInv, TypeOK, LockInv, Sleep, Goto
  <1>3. CallInv'
    BY Names DEF IInv, CallInv, Sleep, Goto, pipe
  <1>4. ReaderInv'
    BY Names DEF IInv, ReaderInv, Empty, Sleep, Goto, pipe
  <1>5. WriterInv'
    BY Names DEF IInv, LockInv, WriterInv, Full, Sleep, Goto, pipe
  <1>6. FillInv'
    BY Zenon, Names DEF IInv, FillInv, Fill, Sleep, pipe
  <1> QED
    BY Zenon, <1>1, <1>2, <1>3, <1>4, <1>5, <1>6 DEF IInv

\* The head of pipewrite()'s loop: the end with its wakeup(), a full pipe, or one more byte.
LEMMA WriteTestIInv ==
  ASSUME IInv, NEW p \in Proc, WriteTest(p)
  PROVE  IInv'
  <1>1. TypeOK'
    <2>1. /\ i' \in [Proc -> Nat] /\ n' \in [Proc -> Nat]
          /\ \A q \in Proc : i'[q] <= n'[q]
      <3>1. i \in [Proc -> Nat] /\ n \in [Proc -> Nat] /\ \A q \in Proc : i[q] <= n[q]
        BY Zenon DEF IInv, TypeOK
      <3>2. \/ UNCHANGED <<i, n>>
            \/ i' = [i EXCEPT ![p] = 0] /\ n' = [n EXCEPT ![p] = 0]
        BY Zenon DEF WriteTest, Return
      <3> QED
        BY <3>1, <3>2
    <2>2. pc' \in [Proc -> {"idle", "acquire", "loop", "put", "copy", "sleep", "asleep"}]
      BY DEF IInv, TypeOK, WriteTest, Return, WakeupAnd, Goto
    <2> QED
      BY Zenon, <2>1, <2>2 DEF IInv, TypeOK, WriteTest, Return, pipe
  <1>2. LockInv'
    BY Names DEF IInv, TypeOK, LockInv, WriteTest, Return, WakeupAnd, Goto
  <1>3. CallInv'
    BY Names DEF IInv, TypeOK, CallInv, WriteTest, Return, WakeupAnd, Goto, pipe
  <1>4. ReaderInv'
    BY Names DEF IInv, TypeOK, CallInv, ReaderInv, Empty, WriteTest, Return, WakeupAnd, Goto, pipe
  <1>5. WriterInv'
    BY Names DEF IInv, TypeOK, LockInv, WriterInv, Full, WriteTest, Return, WakeupAnd, Goto, pipe
  <1>6. FillInv'
    BY Zenon, Names DEF IInv, FillInv, Fill, WriteTest, pipe
  <1> QED
    BY Zenon, <1>1, <1>2, <1>3, <1>4, <1>5, <1>6 DEF IInv

\* A byte goes into the pipe, which was not full; the writer is still to wake the readers.
LEMMA PutByteIInv ==
  ASSUME IInv, NEW p \in Proc, NEW c \in Byte, PutByte(p, c)
  PROVE  IInv'
  <1>1. TypeOK'
    <2>1. nwrite % PIPESIZE \in 0..(PIPESIZE - 1) /\ (nwrite + 1) % WRAP \in 0..(WRAP - 1)
      BY Sizes DEF IInv, TypeOK
    <2>2. data' \in [0..(PIPESIZE - 1) -> Byte] /\ nwrite' \in 0..(WRAP - 1)
      <3>1. data \in [0..(PIPESIZE - 1) -> Byte] /\ nwrite \in 0..(WRAP - 1)
        BY Zenon DEF IInv, TypeOK
      <3>2. \/ UNCHANGED <<data, nwrite>>
            \/ /\ data' = [data EXCEPT ![nwrite % PIPESIZE] = c]
               /\ nwrite' = (nwrite + 1) % WRAP
        BY Zenon DEF PutByte
      <3> QED
        BY Zenon, <2>1, <3>1, <3>2
    <2>3. i' \in [Proc -> Nat] /\ \A q \in Proc : i'[q] <= n'[q]
      <3>1. i \in [Proc -> Nat] /\ n \in [Proc -> Nat] /\ \A q \in Proc : i[q] <= n[q]
        BY Zenon DEF IInv, TypeOK
      <3>2. i[p] < n[p]
        BY Zenon DEF IInv, CallInv, PutByte
      <3>3. n' = n /\ (i' = i \/ i' = [i EXCEPT ![p] = i[p] + 1])
        BY Zenon DEF PutByte
      <3> QED
        BY <3>1, <3>2, <3>3
    <2>4. pc' \in [Proc -> {"idle", "acquire", "loop", "put", "copy", "sleep", "asleep"}]
      BY Zenon DEF IInv, TypeOK, PutByte, WakeupAnd, Goto
    <2> QED
      BY Zenon, <2>2, <2>3, <2>4 DEF IInv, TypeOK, PutByte
  <1>2. LockInv'
    BY Names DEF IInv, TypeOK, LockInv, PutByte, WakeupAnd, Goto
  <1>3. CallInv'
    BY Names DEF IInv, TypeOK, LockInv, CallInv, PutByte, WakeupAnd, Goto
  <1>4. ReaderInv'
    BY Names DEF IInv, TypeOK, LockInv, CallInv, ReaderInv, Empty, PutByte, WakeupAnd, Goto
  <1>5. WriterInv'
    BY Names DEF IInv, TypeOK, LockInv, CallInv, WriterInv, Full, PutByte, WakeupAnd, Goto
  <1>6. FillInv'
    <2>1. nread \in 0..(WRAP - 1) /\ nwrite \in 0..(WRAP - 1) /\ Fill <= PIPESIZE
      BY Zenon DEF IInv, TypeOK, FillInv
    <2>2. CASE Full
      BY Zenon, <2>1, <2>2 DEF PutByte, FillInv, Fill
    <2>3. CASE ~Full
      <3>1. Fill # PIPESIZE /\ Fill' = Fill + 1
        BY <2>1, <2>3, FillFacts DEF PutByte, Full, Fill
      <3>2. Fill \in Int
        BY <2>1, Sizes DEF Fill
      <3> QED
        BY <2>1, <3>1, <3>2, Sizes DEF FillInv
    <2> QED
      BY Zenon, <2>2, <2>3
  <1> QED
    BY Zenon, <1>1, <1>2, <1>3, <1>4, <1>5, <1>6 DEF IInv

\* copyin() fails: pipewrite() leaves the loop through its wakeup().
LEMMA PutFailsIInv ==
  ASSUME IInv, NEW p \in Proc, PutFails(p)
  PROVE  IInv'
  <1>1. TypeOK'
    BY Names DEF IInv, TypeOK, PutFails, Return, WakeupAnd, pipe
  <1>2. LockInv'
    BY Zenon, Names DEF IInv, LockInv, PutFails, Return, WakeupAnd
  <1>3. CallInv'
    BY Zenon, Names DEF IInv, TypeOK, CallInv, PutFails, Return, WakeupAnd, pipe
  <1>4. ReaderInv'
    BY Zenon, Names DEF IInv, ReaderInv, Empty, PutFails, Return, WakeupAnd, pipe
  <1>5. WriterInv'
    BY Zenon, Names DEF IInv, WriterInv, PutFails, Return, WakeupAnd, pipe
  <1>6. FillInv'
    BY Zenon, Names DEF IInv, FillInv, Fill, PutFails, pipe
  <1> QED
    BY Zenon, <1>1, <1>2, <1>3, <1>4, <1>5, <1>6 DEF IInv

\* The head of piperead(): an empty pipe that can still be written is waited for.
LEMMA ReadTestIInv ==
  ASSUME IInv, NEW p \in Proc, ReadTest(p)
  PROVE  IInv'
  <1>1. TypeOK'
    <2>1. /\ i' \in [Proc -> Nat] /\ n' \in [Proc -> Nat]
          /\ \A q \in Proc : i'[q] <= n'[q]
      <3>1. i \in [Proc -> Nat] /\ n \in [Proc -> Nat] /\ \A q \in Proc : i[q] <= n[q]
        BY Zenon DEF IInv, TypeOK
      <3>2. \/ UNCHANGED <<i, n>>
            \/ i' = [i EXCEPT ![p] = 0] /\ n' = [n EXCEPT ![p] = 0]
        BY Zenon DEF ReadTest, Return
      <3> QED
        BY <3>1, <3>2
    <2>2. pc' \in [Proc -> {"idle", "acquire", "loop", "put", "copy", "sleep", "asleep"}]
      <3>1. pc \in [Proc -> {"idle", "acquire", "loop", "put", "copy", "sleep", "asleep"}]
        BY Zenon DEF IInv, TypeOK
      <3> QED
        BY Zenon, <3>1 DEF ReadTest, Return, WakeupAnd, Goto
    <2> QED
      BY Zenon, <2>1, <2>2 DEF IInv, TypeOK, ReadTest, Return, pipe
  <1>2. LockInv'
    BY Names DEF IInv, TypeOK, LockInv, ReadTest, Return, WakeupAnd, Goto
  <1>3. CallInv'
    <2>1. \A q \in Proc : q # p => i'[q] = i[q] /\ n'[q] = n[q] /\ pc'[q] = pc[q]
      BY DEF IInv, TypeOK, ReadTest, Return, WakeupAnd, Goto
    <2>2. \/ pc'[p] = "idle" /\ i'[p] = 0
          \/ pc'[p] \in {"sleep", "copy"} /\ p \in Reader
      BY Zenon DEF IInv, TypeOK, ReadTest, Return, WakeupAnd, Goto
    <2> QED
      BY <2>1, <2>2, Names DEF IInv, CallInv, ReadTest, pipe
  <1>4. ReaderInv'
    BY Names DEF IInv, TypeOK, LockInv, CallInv, ReaderInv, WriterInv, Empty, ReadTest, Goto, pipe
  <1>5. WriterInv'
    BY Names DEF IInv, TypeOK, WriterInv, Full, ReadTest, Return, WakeupAnd, Goto, pipe
  <1>6. FillInv'
    BY Zenon, Names DEF IInv, FillInv, Fill, ReadTest, pipe
  <1> QED
    BY Zenon, <1>1, <1>2, <1>3, <1>4, <1>5, <1>6 DEF IInv

\* A byte comes out of the pipe, or the loop of piperead() ends with its wakeup().
LEMMA GetByteIInv ==
  ASSUME IInv, NEW p \in Proc, GetByte(p)
  PROVE  IInv'
  <1>1. TypeOK'
    <2>1. (nread + 1) % WRAP \in 0..(WRAP - 1)
      BY Sizes DEF IInv, TypeOK
    <2>2. nread' \in 0..(WRAP - 1)
      BY Zenon, <2>1 DEF IInv, TypeOK, GetByte
    <2>3. /\ i' \in [Proc -> Nat] /\ n' \in [Proc -> Nat]
          /\ \A q \in Proc : i'[q] <= n'[q]
      <3>1. i \in [Proc -> Nat] /\ n \in [Proc -> Nat] /\ \A q \in Proc : i[q] <= n[q]
        BY Zenon DEF IInv, TypeOK
      <3>2. \/ UNCHANGED <<i, n>>
            \/ i[p] < n[p] /\ i' = [i EXCEPT ![p] = i[p] + 1] /\ n' = n
            \/ i' = [i EXCEPT ![p] = 0] /\ n' = [n EXCEPT ![p] = 0]
        BY Zenon DEF GetByte, Return
      <3> QED
        BY <3>1, <3>2
    <2>4. pc' \in [Proc -> {"idle", "acquire", "loop", "put", "copy", "sleep", "asleep"}]
      BY DEF IInv, TypeOK, GetByte, Return, WakeupAnd
    <2> QED
      BY Zenon, <2>2, <2>3, <2>4 DEF IInv, TypeOK, GetByte, Return
  <1>2. LockInv'
    BY Names DEF IInv, LockInv, GetByte, Return, WakeupAnd
  <1>3. CallInv'
    <2>1. \A q \in Proc : q # p => /\ i'[q] = i[q] /\ n'[q] = n[q]
                                   /\ pc'[q] = pc[q] \/ (pc[q] = "asleep" /\ pc'[q] = "acquire")
      BY DEF IInv, TypeOK, GetByte, Return, WakeupAnd
    <2>2. \/ pc'[p] = "idle" /\ i'[p] = 0
          \/ pc'[p] = pc[p]
      BY Zenon DEF IInv, TypeOK, GetByte, Return, WakeupAnd
    <2> QED
      BY Zenon, <2>1, <2>2 DEF IInv, CallInv, GetByte
  <1>4. ReaderInv'
    BY SMTT(30), Names DEF IInv, TypeOK, LockInv, CallInv, ReaderInv, WriterInv, Empty, GetByte, Return,
       WakeupAnd, pipe
  <1>5. WriterInv'
    <2>1. \/ pc'[p] = "copy"
          \/ \A q \in Writer : pc'[q] # "asleep"
      BY Names DEF GetByte, Return, WakeupAnd
    <2>2. \A q \in Writer : pc'[q] \in {pc[q], "acquire"} /\ pc[q] # "sleep"
      BY Zenon, Names DEF IInv, LockInv, GetByte, Return, WakeupAnd
    <2> QED
      BY Zenon, <2>1, <2>2 DEF IInv, WriterInv, GetByte
  <1>6. FillInv'
    <2>1. nread \in 0..(WRAP - 1) /\ nwrite \in 0..(WRAP - 1) /\ Fill <= PIPESIZE
      BY Zenon DEF IInv, TypeOK, FillInv
    <2>2. CASE UNCHANGED nread
      BY Zenon, <2>1, <2>2 DEF GetByte, FillInv, Fill
    <2>3. CASE ~Empty /\ nread' = (nread + 1) % WRAP
      <3>1. Fill' = Fill - 1
        BY <2>1, <2>3, FillFacts DEF GetByte, Empty, Fill
      <3>2. Fill \in Int
        BY <2>1, Sizes DEF Fill
      <3> QED
        BY <2>1, <3>1, <3>2, Sizes DEF FillInv
    <2> QED
      BY Zenon, <2>2, <2>3 DEF GetByte
  <1> QED
    BY Zenon, <1>1, <1>2, <1>3, <1>4, <1>5, <1>6 DEF IInv

\* pipeclose() of the write end wakes every reader.
LEMMA CloseWriteIInv ==
  ASSUME IInv, CloseWrite
  PROVE  IInv'
  <1>1. TypeOK'
    <2>1. pc' \in [Proc -> {"idle", "acquire", "loop", "put", "copy", "sleep", "asleep"}]
      BY Names DEF IInv, TypeOK, CloseWrite, WakeupAnd
    <2>2. writeopen' \in BOOLEAN
      BY Zenon DEF CloseWrite
    <2> QED
      BY Zenon, <2>1, <2>2 DEF IInv, TypeOK, CloseWrite
  <1>2. LockInv'
    BY Zenon, Names DEF IInv, LockInv, CloseWrite, WakeupAnd
  <1>3. CallInv'
    BY Zenon, Names DEF IInv, CallInv, CloseWrite, WakeupAnd
  <1>4. ReaderInv'
    BY Zenon, Names DEF IInv, LockInv, ReaderInv, CloseWrite, WakeupAnd
  <1>5. WriterInv'
    BY Zenon, Names DEF WriterInv, CloseWrite, WakeupAnd
  <1>6. FillInv'
    BY Zenon, Names DEF IInv, FillInv, Fill, CloseWrite
  <1> QED
    BY Zenon, <1>1, <1>2, <1>3, <1>4, <1>5, <1>6 DEF IInv

\* pipeclose() of the read end wakes every writer.
LEMMA CloseReadIInv ==
  ASSUME IInv, CloseRead
  PROVE  IInv'
  <1>1. TypeOK'
    <2>1. pc' \in [Proc -> {"idle", "acquire", "loop", "put", "copy", "sleep", "asleep"}]
      BY Names DEF IInv, TypeOK, CloseRead, WakeupAnd
    <2>2. readopen' \in BOOLEAN
      BY Zenon DEF CloseRead
    <2> QED
      BY Zenon, <2>1, <2>2 DEF IInv, TypeOK, CloseRead
  <1>2. LockInv'
    BY Zenon, Names DEF IInv, LockInv, CloseRead, WakeupAnd
  <1>3. CallInv'
    BY Zenon, Names DEF IInv, LockInv, CallInv, CloseRead, WakeupAnd
  <1>4. ReaderInv'
    BY Zenon, Names DEF ReaderInv, CloseRead, WakeupAnd
  <1>5. WriterInv'
    BY Zenon, Names DEF IInv, LockInv, WriterInv, CloseRead, WakeupAnd
  <1>6. FillInv'
    BY Zenon, Names DEF IInv, FillInv, Fill, CloseRead
  <1> QED
    BY Zenon, <1>1, <1>2, <1>3, <1>4, <1>5, <1>6 DEF IInv

\* pipealloc() starts again with an empty pipe that nobody is in.
LEMMA PipeAllocIInv ==
  ASSUME IInv, PipeAlloc
  PROVE  IInv'
  <1>1. TypeOK'
    <2>1. 0 \in 0..(WRAP - 1)
      BY Sizes
    <2> QED
      BY Zenon, <2>1 DEF IInv, TypeOK, PipeAlloc
  <1>2. LockInv'
    BY Zenon, Names DEF IInv, LockInv, PipeAlloc
  <1>3. CallInv'
    BY Zenon, Names DEF IInv, CallInv, PipeAlloc
  <1>4. ReaderInv'
    BY Zenon, Names DEF ReaderInv, Empty, PipeAlloc
  <1>5. WriterInv'
    BY Zenon, Names DEF IInv, WriterInv, PipeAlloc
  <1>6. FillInv'
    <2>1. Fill' = 0
      BY Wrapped, Sizes DEF PipeAlloc, Fill
    <2> QED
      BY <2>1, Sizes DEF FillInv
  <1> QED
    BY Zenon, <1>1, <1>2, <1>3, <1>4, <1>5, <1>6 DEF IInv

\* kill() makes a sleeper runnable and marks it.
LEMMA KillIInv ==
  ASSUME IInv, NEW p \in Proc, Kill(p)
  PROVE  IInv'
  <1>1. TypeOK'
    BY Zenon, Names DEF IInv, TypeOK, Kill, pipe
  <1>2. LockInv'
    BY Names DEF IInv, LockInv, Kill
  <1>3. CallInv'
    BY Names DEF IInv, CallInv, Kill, pipe
  <1>4. ReaderInv'
    BY Names DEF IInv, ReaderInv, Empty, Kill, pipe
  <1>5. WriterInv'
    BY Names DEF IInv, WriterInv, Full, Kill, pipe
  <1>6. FillInv'
    BY Zenon, Names DEF IInv, FillInv, Fill, Kill, pipe
  <1> QED
    BY Zenon, <1>1, <1>2, <1>3, <1>4, <1>5, <1>6 DEF IInv

\* So does every step of Next, and one that changes nothing.
LEMMA NextIInv == IInv /\ [Next]_vars => IInv'
  <1> SUFFICES ASSUME IInv, [Next]_vars PROVE IInv'
    BY Zenon
  <1>1. CASE UNCHANGED vars
    <2>1. TypeOK'
      BY Zenon, <1>1 DEF vars, pipe, IInv, TypeOK
    <2>2. LockInv' /\ CallInv' /\ FillInv'
      BY Zenon, <1>1 DEF vars, pipe, IInv, LockInv, CallInv, FillInv, Fill
    <2>3. ReaderInv' /\ WriterInv'
      BY Zenon, <1>1 DEF vars, pipe, IInv, ReaderInv, WriterInv, Empty, Full
    <2> QED
      BY Zenon, <2>1, <2>2, <2>3 DEF IInv
  <1>2. ASSUME NEW p \in Proc, Step(p)
        PROVE  IInv'
    BY Zenon, <1>2, AcquireIInv, SleepIInv, WriteTestIInv, ReadTestIInv, GetByteIInv, PutByteIInv DEF Step
  <1>3. ASSUME NEW p \in Proc, PutFails(p) \/ Kill(p) \/ \E count \in Count : Call(p, count)
        PROVE  IInv'
    BY Zenon, <1>3, PutFailsIInv, KillIInv, CallIInv
  <1>4. CASE CloseWrite \/ CloseRead \/ PipeAlloc
    BY Zenon, <1>4, CloseWriteIInv, CloseReadIInv, PipeAllocIInv
  <1> QED
    BY Zenon, <1>1, <1>2, <1>3, <1>4 DEF Next

\* A new pipe satisfies the invariant.
LEMMA InitIInv == Init => IInv
  <1> SUFFICES ASSUME Init PROVE IInv
    BY Zenon
  <1>1. TypeOK
    <2>1. i \in [Proc -> Nat] /\ n \in [Proc -> Nat] /\ \A p \in Proc : i[p] <= n[p]
      BY DEF Init, Zero
    <2>2. readopen \in BOOLEAN /\ writeopen \in BOOLEAN /\ killed \in [Proc -> BOOLEAN]
      BY Zenon DEF Init
    <2>3. nread \in 0..(WRAP - 1) /\ nwrite \in 0..(WRAP - 1)
      BY Sizes DEF Init
    <2> QED
      BY Zenon, <2>1, <2>2, <2>3 DEF Init, TypeOK
  <1>2. LockInv /\ CallInv /\ ReaderInv /\ WriterInv
    BY Zenon, Names DEF Init, Zero, LockInv, CallInv, ReaderInv, WriterInv
  <1>3. FillInv
    <2>1. Fill = 0
      BY Wrapped, Sizes DEF Init, Fill
    <2> QED
      BY <2>1, Sizes DEF FillInv
  <1> QED
    BY Zenon, <1>1, <1>2, <1>3 DEF IInv

\* IInv is an invariant of the pipe.
THEOREM PipeInvariant == Spec => []IInv
  BY InitIInv, NextIInv, PTL DEF Spec

\* No wakeup is lost: pipewrite(), piperead() and pipeclose() leave a reader
\* asleep only on an empty pipe and a writer only on a full one, whose other end
\* is open.
THEOREM PipeNoLostWakeup == Spec => []NoLostWakeup
  <1>1. IInv => NoLostWakeup
    <2> SUFFICES ASSUME IInv, lock = None
                 PROVE  /\ \A p \in Reader : pc[p] = "asleep" =>
                             writeopen /\ (Empty \/ \E w \in Writer : killed[w])
                        /\ \A p \in Writer : pc[p] = "asleep" => Full /\ readopen
      BY Zenon DEF IInv, NoLostWakeup
    <2>1. \A p \in Proc : pc[p] \notin {"loop", "put", "copy", "sleep"}
      BY Zenon, Names DEF IInv, LockInv
    <2> QED
      BY Zenon, <2>1, Names DEF IInv, ReaderInv, WriterInv
  <1> QED
    BY <1>1, PipeInvariant, PTL

-----------------------------------------------------------------------------
(* Refinement: the pipe implements ByteFifo *)

\* The place in data[] of byte k of a pipe with this value of nread.
Place(r, k) == ((r + k - 1) % WRAP) % PIPESIZE

\* The places of a pipe's bytes are those of the unwrapped counter.
LEMMA PlaceFacts ==
  ASSUME NEW r \in 0..(WRAP - 1), NEW k \in 1..WRAP
  PROVE  /\ Place(r, k) = (r + k - 1) % PIPESIZE
         /\ Place(r, k) \in 0..(PIPESIZE - 1)
  <1>1. PICK x \in 0..(2 * WRAP - 1) : x = r + k - 1
    BY Sizes
  <1>2. (x % WRAP) % PIPESIZE = x % PIPESIZE
    BY Zenon, SamePlace
  <1>3. x % PIPESIZE \in 0..(PIPESIZE - 1)
    BY Sizes
  <1> QED
    BY Zenon, <1>1, <1>2, <1>3 DEF Place

\* pipewrite() puts a byte behind the others, on top of none of them.
LEMMA PutPlace ==
  ASSUME NEW r \in 0..(WRAP - 1), NEW w, NEW f \in 0..(PIPESIZE - 1), w = (r + f) % WRAP
  PROVE  /\ Place(r, f + 1) = w % PIPESIZE
         /\ \A k \in 1..f : Place(r, k) # w % PIPESIZE
  <1>1. r + f \in 0..(2 * WRAP - 1)
    BY Sizes
  <1>2. PICK y \in 0..(2 * WRAP - 1) : y = r + f
    BY Zenon, <1>1
  <1>3. w % PIPESIZE = y % PIPESIZE
    BY Zenon, <1>2, SamePlace
  <1>4. Place(r, f + 1) = y % PIPESIZE
    <2>1. f + 1 \in 1..WRAP /\ r + (f + 1) - 1 = y
      BY <1>2, Sizes
    <2> QED
      BY Zenon, <2>1, PlaceFacts
  <1>5. ASSUME NEW k \in 1..f
        PROVE  Place(r, k) # y % PIPESIZE
    <2>1. PICK x \in Int : x = r + k - 1 /\ x < y /\ y < x + PIPESIZE
      BY <1>2, Sizes
    <2>2. Place(r, k) = x % PIPESIZE
      BY SMTT(30), <2>1, PlaceFacts, Sizes
    <2>3. y \in Int /\ PIPESIZE \in Nat \ {0}
      BY Sizes
    <2> QED
      BY <2>1, <2>2, <2>3, ModDistinct, Zenon
  <1> QED
    BY Zenon, <1>3, <1>4, <1>5

\* piperead() moves every byte one place to the front.
LEMMA GetPlace ==
  ASSUME NEW r \in 0..(WRAP - 1), NEW k \in 1..PIPESIZE
  PROVE  Place((r + 1) % WRAP, k) = Place(r, k + 1)
  <1>1. CASE r + 1 < WRAP
    <2>1. (r + 1) % WRAP = r + 1
      BY <1>1, Wrapped, Sizes
    <2> QED
      BY <2>1, Sizes DEF Place
  <1>2. CASE r + 1 = WRAP
    <2>1. (r + 1) % WRAP = 0 /\ 0 \in 0..(WRAP - 1) /\ k \in 1..WRAP /\ k + 1 \in 1..WRAP
      BY <1>2, Wrapped, Sizes
    <2>2. PICK s \in Int : WRAP = s * PIPESIZE
      BY Zenon, Sizes
    <2>3. PICK x \in Int, y \in Int : x = 0 + k - 1 /\ y = r + (k + 1) - 1 /\ y = x + s * PIPESIZE
      BY <1>2, <2>2, Sizes
    <2>4. PIPESIZE \in Nat \ {0}
      BY Zenon, Sizes
    <2>5. y % PIPESIZE = x % PIPESIZE
      BY <2>3, <2>4, ModShift, Zenon
    <2>6. Place(0, k) = x % PIPESIZE /\ Place(r, k + 1) = y % PIPESIZE
      BY Zenon, <2>1, <2>3, PlaceFacts
    <2> QED
      BY Zenon, <2>1, <2>5, <2>6
  <1> QED
    BY <1>1, <1>2, Sizes

\* The bytes in the pipe are a sequence as long as the counters say.
LEMMA LineFacts ==
  ASSUME IInv
  PROVE  /\ Fill \in 0..PIPESIZE
         /\ Line = [k \in 1..Fill |-> data[Place(nread, k)]]
         /\ Line \in Seq(Byte) /\ Len(Line) = Fill
  <1>1. /\ nread \in 0..(WRAP - 1) /\ nwrite \in 0..(WRAP - 1)
        /\ data \in [0..(PIPESIZE - 1) -> Byte]
    BY Zenon DEF IInv, TypeOK
  <1>2. Fill \in 0..PIPESIZE
    BY <1>1, Sizes DEF IInv, FillInv, Fill
  <1>3. Line = [k \in 1..Fill |-> data[Place(nread, k)]]
    BY Zenon DEF Line, Fill, Place
  <1>4. \A k \in 1..Fill : data[Place(nread, k)] \in Byte
    BY <1>1, <1>2, PlaceFacts, Sizes
  <1> QED
    BY <1>2, <1>3, <1>4

\* An allocated pipe is empty.
LEMMA EmptyLine ==
  ASSUME nread = nwrite, nread \in 0..(WRAP - 1)
  PROVE  Line = <<>>
  <1>1. (nwrite - nread) % WRAP = 0
    BY Wrapped, Sizes
  <1> QED
    BY <1>1 DEF Line

\* pipewrite() appends a byte, or leaves the pipe as it is when it is full.
LEMMA PutRefines ==
  ASSUME IInv, NEW p \in Proc, NEW c \in Byte, PutByte(p, c)
  PROVE  Fifo!Put(c) \/ UNCHANGED Line
  <1>1. CASE Full
    BY Zenon, <1>1 DEF PutByte, Line
  <1>2. CASE ~Full
    <2>1. /\ nread \in 0..(WRAP - 1) /\ nwrite \in 0..(WRAP - 1)
          /\ data \in [0..(PIPESIZE - 1) -> Byte] /\ PIPESIZE \in Nat
      BY Zenon, Sizes DEF IInv, TypeOK
    <2>2. /\ data' = [data EXCEPT ![nwrite % PIPESIZE] = c]
          /\ nwrite' = (nwrite + 1) % WRAP /\ nread' = nread
      BY Zenon, <1>2 DEF PutByte
    <2>3. Fill \in 0..(PIPESIZE - 1) /\ Fill' = Fill + 1
      BY <1>2, <2>1, <2>2, LineFacts, FillFacts DEF Full, Fill
    <2>4. nwrite = (nread + Fill) % WRAP
      BY Zenon, <2>1, FillFacts DEF IInv, FillInv, Fill
    <2>5. /\ Place(nread, Fill + 1) = nwrite % PIPESIZE
          /\ \A k \in 1..Fill : Place(nread, k) # nwrite % PIPESIZE
      BY <2>1, <2>3, <2>4, PutPlace
    <2>6. \A k \in 1..(Fill + 1) : Place(nread, k) \in 0..(PIPESIZE - 1)
      BY <2>1, <2>3, PlaceFacts, Sizes
    <2>7. /\ \A k \in 1..Fill : data'[Place(nread, k)] = data[Place(nread, k)]
          /\ data'[Place(nread, Fill + 1)] = c
      BY <2>1, <2>2, <2>3, <2>5, <2>6
    <2>8. Line' = [k \in 1..(Fill + 1) |-> data'[Place(nread, k)]]
      BY <2>2, <2>3 DEF Line, Fill, Place
    <2>9. /\ Line = [k \in 1..Fill |-> data[Place(nread, k)]]
          /\ Line \in Seq(Byte) /\ Len(Line) = Fill
      BY Zenon, LineFacts
    <2>10. Line' = Append(Line, c)
      <3>1. Line' = [k \in 1..(Fill + 1) |-> IF k = Fill + 1 THEN c ELSE data[Place(nread, k)]]
        <4>1. \A k \in 1..(Fill + 1) : k # Fill + 1 => k \in 1..Fill
          BY <2>3
        <4>2. \A k \in 1..(Fill + 1) : data'[Place(nread, k)] = IF k = Fill + 1 THEN c ELSE data[Place(nread, k)]
          BY Zenon, <2>7, <4>1
        <4> QED
          BY Zenon, <2>8, <4>2
      <3> QED
        BY <2>3, <2>9, <3>1
    <2> QED
      BY <2>1, <2>3, <2>9, <2>10 DEF Fifo!Put
  <1> QED
    BY Zenon, <1>1, <1>2

\* piperead() takes the oldest byte, or leaves the pipe as it is.
LEMMA GetRefines ==
  ASSUME IInv, NEW p \in Proc, GetByte(p)
  PROVE  Fifo!Get \/ UNCHANGED Line
  <1>1. CASE UNCHANGED nread
    BY Zenon, <1>1 DEF GetByte, Line
  <1>2. CASE ~Empty /\ nread' = (nread + 1) % WRAP
    <2>1. nread \in 0..(WRAP - 1) /\ nwrite \in 0..(WRAP - 1)
      BY Zenon DEF IInv, TypeOK
    <2>2. data' = data /\ nwrite' = nwrite
      BY Zenon DEF GetByte
    <2>3. Fill \in 1..PIPESIZE /\ Fill' = Fill - 1
      BY <1>2, <2>1, <2>2, LineFacts, FillFacts DEF Empty, Fill
    <2>4. \A k \in 1..(Fill - 1) : Place(nread', k) = Place(nread, k + 1)
      BY <1>2, <2>1, <2>3, GetPlace, Sizes
    <2>5. Line' = [k \in 1..(Fill - 1) |-> data[Place(nread', k)]]
      BY Zenon, <2>2, <2>3 DEF Line, Fill, Place
    <2>6. /\ Line = [k \in 1..Fill |-> data[Place(nread, k)]]
          /\ Line \in Seq(Byte) /\ Len(Line) = Fill
      BY Zenon, LineFacts
    <2>7. Line' = Tail(Line)
      BY <2>3, <2>4, <2>5, <2>6
    <2> QED
      BY <2>3, <2>6, <2>7 DEF Fifo!Get
  <1> QED
    BY Zenon, <1>1, <1>2 DEF GetByte

\* Every step of the pipe is a step of the line of bytes or invisible.
LEMMA NextRefines == IInv /\ [Next]_vars => [Fifo!Next]_Line
  <1> SUFFICES ASSUME IInv, [Next]_vars PROVE Fifo!Next \/ UNCHANGED Line
    BY Zenon
  <1>1. CASE UNCHANGED pipe
    BY Zenon, <1>1 DEF pipe, Line
  <1>2. ASSUME NEW p \in Proc, NEW c \in Byte, PutByte(p, c)
        PROVE  Fifo!Next \/ UNCHANGED Line
    BY Zenon, <1>2, PutRefines DEF Fifo!Next
  <1>3. ASSUME NEW p \in Proc, GetByte(p)
        PROVE  Fifo!Next \/ UNCHANGED Line
    BY Zenon, <1>3, GetRefines DEF Fifo!Next
  <1>4. CASE CloseWrite \/ CloseRead
    BY Zenon, <1>4 DEF CloseWrite, CloseRead, Line
  <1>5. CASE PipeAlloc
    <2>1. nread' = 0 /\ nwrite' = 0
      BY Zenon, <1>5 DEF PipeAlloc
    <2>2. (nwrite' - nread') % WRAP = 0
      BY <2>1, Wrapped, Sizes
    <2>3. Line' = <<>>
      BY <2>2 DEF Line
    <2> QED
      BY Zenon, <2>3 DEF Fifo!Next, Fifo!Reset
  <1> QED
    BY Zenon, <1>1, <1>2, <1>3, <1>4, <1>5 DEF Next, Step, vars, Acquire, Sleep, WriteTest, ReadTest,
       PutFails, Kill, Call

\* kernel/pipe.c is a first-in first-out line of at most PIPESIZE bytes: none is
\* lost, invented, reordered or overwritten, across every wrap of the counters
\* and of data[].
THEOREM PipeImplementsFifo == Spec => PipeIsFifo
  <1>1. Init => Fifo!Init
    BY EmptyLine, Sizes DEF Init, Fifo!Init
  <1> QED
    BY <1>1, PipeInvariant, NextRefines, PTL DEF Spec, PipeIsFifo, Fifo!Spec
=============================================================================
