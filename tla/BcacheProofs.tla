---------------------------- MODULE BcacheProofs -----------------------------
(***************************************************************************)
(* Proofs about kernel/bio.c, for any processes, buffers and blocks: the   *)
(* cache is coherent, one process uses a block at a time, and bget() is    *)
(* out of buffers only when all of them are held or pinned.                *)
(***************************************************************************)
EXTENDS Bcache, TLAPS

\* The processes between bget() and brelse() of a buffer.
Users(b) == {p \in Proc : buf[p] = b}

\* b->refcnt counts the users of a buffer and its pins, of which the log has
\* MaxPins at most.
CountInv ==
  /\ \A b \in Buffer : refcnt[b] = Cardinality(Users(b)) + pins[b]
  /\ Cardinality(Pinned) <= MaxPins

\* A process has a buffer, one with a block, exactly between bget() and brelse().
PlaceInv ==
  \A p \in Proc : /\ pc[p] = "idle" <=> buf[p] = None
                  /\ buf[p] # None => blockno[buf[p]] # None

\* The sleep-lock of a buffer is held by the one process that uses it, and a
\* process sleeps only for a lock that is held.
LockInv ==
  /\ \A p \in Using : holder[buf[p]] = p
  /\ \A b \in Buffer : holder[b] # None => holder[b] \in Using /\ buf[holder[b]] = b
  /\ \A p \in Proc : pc[p] = "asleep" => holder[buf[p]] # None

\* A block is in one buffer at most, and a buffer with contents has a block.
BlockInv ==
  /\ \A b, c \in Buffer : blockno[b] = blockno[c] /\ blockno[b] # None => b = c
  /\ \A b \in Buffer : /\ valid[b] => blockno[b] # None
                       /\ pins[b] > 0 => valid[b]

\* The buffer that p uses is valid; the disk has p's request, to write a buffer
\* that is valid or to read into one that is not yet.
Served(p) ==
  /\ pc[p] = "use" => valid[buf[p]]
  /\ pc[p] = "writing" =>
       /\ valid[buf[p]]
       /\ req[buf[p]] = [write |-> TRUE, block |-> blockno[buf[p]]]
  /\ pc[p] = "reading" =>
       /\ ~valid[buf[p]] /\ (done[buf[p]] => Clean(buf[p]))
       /\ req[buf[p]] = [write |-> FALSE, block |-> blockno[buf[p]]]

\* The disk has a request exactly for a process that waits for it.
DiskInv ==
  /\ \A p \in Proc : Served(p)
  /\ \A b \in Buffer : req[b] # None \/ done[b] =>
       \E p \in Proc : buf[p] = b /\ pc[p] \in {"reading", "writing"}

\* What nobody uses and the log has not pinned is on the disk.
CleanInv ==
  \A b \in Buffer : valid[b] /\ pins[b] = 0 /\ holder[b] = None => Clean(b)

IInv == TypeOK /\ CountInv /\ PlaceInv /\ LockInv /\ BlockInv /\ DiskInv /\ CleanInv

-----------------------------------------------------------------------------
(* Processes, buffers and their numbers *)

\* What is used of finite sets and their numbers of elements below.  Lemma Finite
\* proves it from the library, which is instantiated where it is needed.
Counting ==
  /\ \A S : IsFiniteSet(S) => Cardinality(S) \in Nat /\ (Cardinality(S) = 0 <=> S = {})
  /\ \A S, T : IsFiniteSet(S) /\ T \subseteq S =>
                IsFiniteSet(T) /\ Cardinality(T) <= Cardinality(S)
  /\ \A S, x : IsFiniteSet(S) /\ x \notin S => Cardinality(S \cup {x}) = Cardinality(S) + 1
  /\ \A S, x : IsFiniteSet(S) /\ x \in S => Cardinality(S \ {x}) = Cardinality(S) - 1

\* The constants are distinct and finite.
LEMMA Names ==
  /\ None \notin Proc /\ None \notin Block /\ None \notin Buffer
  /\ IsFiniteSet(Proc) /\ IsFiniteSet(Buffer)
  /\ 0 \in Value /\ MaxPins \in Nat
  BY Zenon, BcacheAssumption

\* The users of a buffer, and the pinned buffers, can be counted.
LEMMA Counts ==
  ASSUME Counting
  PROVE  /\ \A b \in Buffer : /\ IsFiniteSet(Users(b)) /\ Cardinality(Users(b)) \in Nat
                              /\ Cardinality(Users(b)) = 0 <=> Users(b) = {}
         /\ IsFiniteSet(Pinned) /\ Cardinality(Pinned) \in Nat
  <1>1. \A b \in Buffer : Users(b) \in SUBSET Proc
    BY Zenon DEF Users
  <1>2. Pinned \in SUBSET Buffer
    BY Zenon DEF Pinned
  <1>3. \A b \in Buffer : IsFiniteSet(Users(b))
    BY Zenon, <1>1, Names DEF Counting
  <1>4. IsFiniteSet(Pinned)
    BY Zenon, <1>2, Names DEF Counting
  <1> QED
    BY Zenon, <1>3, <1>4 DEF Counting

\* bget() gives a buffer one more user.
LEMMA JoinUsers ==
  ASSUME Counting, TypeOK, NEW p \in Proc, NEW b \in Buffer, buf[p] = None, buf' = [buf EXCEPT ![p] = b]
  PROVE  /\ Cardinality(Users(b)') = Cardinality(Users(b)) + 1
         /\ \A c \in Buffer \ {b} : Users(c)' = Users(c)
  <1>1. buf \in [Proc -> Buffer \cup {None}]
    BY Zenon DEF TypeOK
  <1>2. Users(b)' = Users(b) \cup {p} /\ p \notin Users(b)
    BY Zenon, <1>1, Names DEF Users
  <1>3. \A c \in Buffer \ {b} : Users(c)' = Users(c)
    BY Zenon, <1>1, Names DEF Users
  <1>4. Cardinality(Users(b) \cup {p}) = Cardinality(Users(b)) + 1
    BY Zenon, <1>2, Counts DEF Counting
  <1> QED
    BY Zenon, <1>2, <1>3, <1>4

\* brelse() takes one away.
LEMMA LeaveUsers ==
  ASSUME Counting, TypeOK, NEW p \in Proc, NEW b \in Buffer, buf[p] = b, buf' = [buf EXCEPT ![p] = None]
  PROVE  /\ Cardinality(Users(b)') = Cardinality(Users(b)) - 1
         /\ \A c \in Buffer \ {b} : Users(c)' = Users(c)
  <1>1. buf \in [Proc -> Buffer \cup {None}]
    BY Zenon DEF TypeOK
  <1>2. Users(b)' = Users(b) \ {p} /\ p \in Users(b)
    BY Zenon, <1>1, Names DEF Users
  <1>3. \A c \in Buffer \ {b} : Users(c)' = Users(c)
    BY Zenon, <1>1, Names DEF Users
  <1>4. Cardinality(Users(b) \ {p}) = Cardinality(Users(b)) - 1
    BY Zenon, <1>2, Counts DEF Counting
  <1> QED
    BY Zenon, <1>2, <1>3, <1>4

\* A buffer whose refcnt is 0 is in nobody's hands, and on the disk.
LEMMA UnusedFacts ==
  ASSUME Counting, IInv, NEW b \in Unused
  PROVE  /\ b \in Buffer /\ pins[b] = 0 /\ holder[b] = None
         /\ \A p \in Proc : buf[p] # b
         /\ valid[b] => Clean(b)
         /\ Cardinality(Users(b)) = 0
  <1>1. b \in Buffer /\ refcnt[b] = 0
    BY Zenon DEF Unused
  <1>2. pins[b] \in 0..1 /\ Cardinality(Users(b)) \in Nat
    BY Zenon, <1>1, Counts DEF IInv, TypeOK
  <1>3. pins[b] = 0 /\ Cardinality(Users(b)) = 0
    BY <1>1, <1>2 DEF IInv, CountInv
  <1>4. \A p \in Proc : buf[p] # b
    BY Zenon, <1>1, <1>3, Counts DEF Users
  <1>5. holder[b] = None
    BY Zenon, <1>1, <1>4 DEF IInv, LockInv, Using
  <1> QED
    BY Zenon, <1>1, <1>3, <1>4, <1>5 DEF IInv, CleanInv

\* Releasing a buffer keeps every buffer in the list once.
LEMMA MoveToFrontOrder ==
  ASSUME Counting, NEW b \in Buffer, lru \in Order
  PROVE  MoveToFront(b) \in Order
  <1> DEFINE D == 1..Cardinality(Buffer)
             at == CHOOSE i \in D : lru[i] = b
             m == MoveToFront(b)
  <1>1. lru \in [D -> Buffer] /\ \A c \in Buffer : \E i \in D : lru[i] = c
    BY Zenon DEF Order
  <1>2. at \in D /\ lru[at] = b
    BY Zenon, <1>1
  <1>3. Cardinality(Buffer) \in Nat
    BY Zenon, Names DEF Counting
  <1>4. m = [i \in D |-> IF i = 1 THEN b ELSE IF i <= at THEN lru[i - 1] ELSE lru[i]]
    BY Zenon, <1>1 DEF MoveToFront
  <1>5. m \in [D -> Buffer]
    BY <1>1, <1>3, <1>4
  <1>6. ASSUME NEW c \in Buffer
        PROVE  \E i \in D : m[i] = c
    <2>1. PICK i \in D : lru[i] = c
      BY Zenon, <1>1
    <2>2. CASE i = at
      <3>1. 1 \in D
        BY <1>3
      <3> QED
        BY Zenon, <1>2, <1>4, <2>1, <2>2, <3>1
    <2>3. CASE i < at
      <3>1. i + 1 \in D /\ m[i + 1] = lru[i]
        BY <1>2, <1>3, <1>4, <2>3
      <3> QED
        BY Zenon, <2>1, <3>1
    <2>4. CASE i > at
      <3>1. i # 1 /\ ~(i <= at)
        BY <1>2, <1>3, <2>4
      <3> QED
        BY Zenon, <1>4, <2>1, <3>1
    <2> QED
      BY <1>2, <1>3, <2>2, <2>3, <2>4
  <1> QED
    BY Zenon, <1>5, <1>6 DEF Order

-----------------------------------------------------------------------------
(* The inductive invariant *)

\* A process that waits or works has its buffer, with a block, and the lock.
LEMMA UserFacts ==
  ASSUME IInv, NEW p \in Using
  PROVE  /\ p \in Proc /\ buf[p] \in Buffer /\ holder[buf[p]] = p
         /\ blockno[buf[p]] \in Block /\ p \in Users(buf[p])
         /\ \A q \in Using : buf[q] = buf[p] => q = p
  <1>1. p \in Proc /\ pc[p] # "idle"
    BY Zenon DEF Using
  <1>2. buf[p] \in Buffer /\ blockno[buf[p]] \in Block
    BY <1>1 DEF IInv, TypeOK, PlaceInv
  <1> QED
    BY <1>1, <1>2 DEF IInv, LockInv, Users

\* bget() finds the block in a buffer, which has one more user.
LEMMA GetHitIInv ==
  ASSUME Counting, IInv, NEW p \in Proc, NEW n \in Block, GetHit(p, n)
  PROVE  IInv'
  <1>1. TypeOK'
    BY Names DEF IInv, TypeOK, GetHit, Cached, Goto, disk
  <1>2. CountInv'
    <2>1. PICK b \in Buffer : /\ refcnt' = [refcnt EXCEPT ![b] = @ + 1]
                              /\ buf' = [buf EXCEPT ![p] = b]
      BY Zenon DEF GetHit, Cached
    <2>2. buf[p] = None /\ TypeOK
      BY Zenon DEF IInv, PlaceInv, GetHit
    <2>3. /\ Cardinality(Users(b)') = Cardinality(Users(b)) + 1
          /\ \A c \in Buffer \ {b} : Users(c)' = Users(c)
      BY Zenon, <2>1, <2>2, JoinUsers
    <2>4. pins' = pins /\ refcnt \in [Buffer -> Nat] /\ pins \in [Buffer -> 0..1]
      BY Zenon, <2>2 DEF TypeOK, GetHit
    <2>5. \A c \in Buffer : refcnt[c] = Cardinality(Users(c)) + pins[c]
      BY Zenon DEF IInv, CountInv
    <2>6. refcnt'[b] = Cardinality(Users(b)') + pins'[b]
      BY <2>1, <2>3, <2>4, <2>5, Counts
    <2>7. \A c \in Buffer \ {b} : refcnt'[c] = Cardinality(Users(c)') + pins'[c]
      BY Zenon, <2>1, <2>3, <2>4, <2>5
    <2> QED
      BY Zenon, <2>4, <2>6, <2>7 DEF IInv, CountInv, Pinned
  <1>3. PlaceInv'
    BY Names DEF IInv, TypeOK, PlaceInv, GetHit, Cached, Goto
  <1>4. LockInv'
    BY Names DEF IInv, LockInv, Using, GetHit, Goto
  <1>5. BlockInv'
    BY Zenon, Names DEF IInv, BlockInv, GetHit
  <1>6. DiskInv'
    BY Names DEF IInv, DiskInv, Served, Clean, GetHit, Goto, disk
  <1>7. CleanInv'
    BY Zenon, Names DEF IInv, CleanInv, Clean, GetHit, disk
  <1> QED
    BY Zenon, <1>1, <1>2, <1>3, <1>4, <1>5, <1>6, <1>7 DEF IInv

\* A buffer that nobody has gets another block, and is not valid.
LEMMA RecycleIInv ==
  ASSUME Counting, IInv, NEW p \in Proc, NEW n \in Block, NEW b \in Unused, pc[p] = "idle", Cached(n) = {},
         Recycle(p, n, b, FALSE)
  PROVE  IInv'
  <1>1. /\ b \in Buffer /\ pins[b] = 0 /\ holder[b] = None
        /\ \A q \in Proc : buf[q] # b
        /\ Cardinality(Users(b)) = 0
    BY Zenon, UnusedFacts
  <1>2. buf[p] = None
    BY Zenon DEF IInv, PlaceInv
  <1>3. TypeOK'
    BY Zenon, <1>1, <1>2, Names DEF IInv, TypeOK, Recycle, Goto, disk
  <1>4. CountInv'
    <2>1. TypeOK /\ buf' = [buf EXCEPT ![p] = b]
      BY Zenon DEF IInv, Recycle
    <2>2. /\ Cardinality(Users(b)') = Cardinality(Users(b)) + 1
          /\ \A c \in Buffer \ {b} : Users(c)' = Users(c)
      BY Zenon, <1>1, <1>2, <2>1, JoinUsers
    <2>3. /\ pins' = pins /\ refcnt' = [refcnt EXCEPT ![b] = 1]
          /\ refcnt \in [Buffer -> Nat]
      BY Zenon, <2>1 DEF TypeOK, Recycle
    <2>4. refcnt'[b] = Cardinality(Users(b)') + pins'[b]
      BY <1>1, <2>2, <2>3
    <2>5. \A c \in Buffer \ {b} : refcnt'[c] = Cardinality(Users(c)') + pins'[c]
      BY Zenon, <2>2, <2>3 DEF IInv, CountInv
    <2> QED
      BY Zenon, <2>3, <2>4, <2>5 DEF IInv, CountInv, Pinned
  <1>5. PlaceInv'
    BY Zenon, <1>1, <1>2, Names DEF IInv, TypeOK, PlaceInv, Recycle, Goto
  <1>6. LockInv'
    BY <1>1, <1>2, Names DEF IInv, LockInv, Using, Recycle, Goto
  <1>7. BlockInv'
    BY SMTT(30), <1>1, <1>2, Names DEF IInv, BlockInv, Recycle, Cached
  <1>8. DiskInv'
    BY <1>1, <1>2, Names DEF IInv, DiskInv, Served, Clean, Recycle, Goto, disk
  <1>9. CleanInv'
    BY <1>1, <1>2, Names DEF IInv, TypeOK, CleanInv, Clean, Recycle, disk
  <1> QED
    BY Zenon, <1>3, <1>4, <1>5, <1>6, <1>7, <1>8, <1>9 DEF IInv

\* acquiresleep() takes the lock when nobody has it, or sleeps for it.
LEMMA AcquireSleepIInv ==
  ASSUME IInv, NEW p \in Proc, AcquireSleep(p)
  PROVE  IInv'
  <1>1. TypeOK'
    BY SMTT(30), Names DEF IInv, TypeOK, AcquireSleep, Goto, disk, cache
  <1>2. CountInv'
    BY Zenon, Names DEF IInv, CountInv, Users, Pinned, AcquireSleep, cache
  <1>3. PlaceInv'
    BY Names DEF IInv, TypeOK, PlaceInv, AcquireSleep, Goto, cache
  <1>4. LockInv'
    BY SMTT(30), Names DEF IInv, TypeOK, PlaceInv, LockInv, Using, AcquireSleep, Goto
  <1>5. BlockInv'
    BY Zenon, Names DEF IInv, BlockInv, AcquireSleep, cache
  <1>6. DiskInv'
    BY SMTT(30), Names DEF IInv, TypeOK, DiskInv, Served, Clean, AcquireSleep, Goto, disk, cache
  <1>7. CleanInv'
    BY Names DEF IInv, TypeOK, CleanInv, Clean, AcquireSleep, disk, cache
  <1> QED
    BY Zenon, <1>1, <1>2, <1>3, <1>4, <1>5, <1>6, <1>7 DEF IInv

\* kill() sends a sleeper to test the lock again.
LEMMA KillIInv ==
  ASSUME IInv, NEW p \in Proc, Kill(p)
  PROVE  IInv'
  <1>1. TypeOK'
    BY Zenon, Names DEF IInv, TypeOK, Kill, Goto, disk, cache
  <1>2. CountInv'
    BY Zenon, Names DEF IInv, CountInv, Users, Pinned, Kill, cache
  <1>3. PlaceInv'
    BY Names DEF IInv, PlaceInv, Kill, Goto, cache
  <1>4. LockInv'
    BY Names DEF IInv, LockInv, Using, Kill, Goto
  <1>5. BlockInv'
    BY Zenon, Names DEF IInv, BlockInv, Kill, cache
  <1>6. DiskInv'
    BY Names DEF IInv, DiskInv, Served, Clean, Kill, Goto, disk, cache
  <1>7. CleanInv'
    BY Zenon, Names DEF IInv, CleanInv, Clean, Kill, disk, cache
  <1> QED
    BY Zenon, <1>1, <1>2, <1>3, <1>4, <1>5, <1>6, <1>7 DEF IInv

\* bread() uses a valid buffer, or asks the disk for its block.
LEMMA BreadIInv ==
  ASSUME IInv, NEW p \in Proc, Bread(p)
  PROVE  IInv'
  <1>1. /\ p \in Using /\ buf[p] \in Buffer /\ holder[buf[p]] = p
        /\ blockno[buf[p]] \in Block
        /\ \A q \in Using : buf[q] = buf[p] => q = p
    <2>1. p \in Using
      BY Zenon DEF Using, Bread
    <2> QED
      BY Zenon, <2>1, UserFacts
  <1>2. TypeOK'
    <2>1. [write |-> FALSE, block |-> blockno[buf[p]]] \in Disk!Request
      BY Zenon, <1>1 DEF Disk!Request
    <2>2. req' \in [Buffer -> Disk!Request \cup {None}]
      BY ZenonT(30), <1>1, <2>1 DEF IInv, TypeOK, Bread, StartIO, disk
    <2> QED
      BY <2>2 DEF IInv, TypeOK, Bread, StartIO, Goto, disk, cache
  <1>3. CountInv'
    <2>1. UNCHANGED <<refcnt, buf, pins>>
      BY Zenon DEF Bread, StartIO, cache
    <2> QED
      BY Zenon, <2>1 DEF IInv, CountInv, Users, Pinned
  <1>4. PlaceInv'
    BY <1>1, Names DEF IInv, TypeOK, PlaceInv, Bread, StartIO, Goto, cache
  <1>5. LockInv'
    BY <1>1, Names DEF IInv, TypeOK, LockInv, Using, Bread, StartIO, Goto
  <1>6. BlockInv'
    BY Zenon, <1>1, Names DEF IInv, BlockInv, Bread, StartIO, cache
  <1>7. DiskInv'
    <2>1. CASE valid[buf[p]]
      BY <1>1, <2>1 DEF IInv, TypeOK, DiskInv, Served, Bread, Goto, disk, cache, Clean
    <2>2. CASE ~valid[buf[p]]
      <3>1. /\ req' = [req EXCEPT ![buf[p]] = [write |-> FALSE, block |-> blockno[buf[p]]]]
            /\ pc' = [pc EXCEPT ![p] = "reading"]
            /\ UNCHANGED <<store, data, done, valid, blockno, buf>>
        BY Zenon, <2>2 DEF Bread, StartIO, Goto, cache
      <3>2. ~valid[buf[p]] /\ ~done[buf[p]]
        BY <2>2, <1>1 DEF IInv, DiskInv, Bread, Using
      <3>3. \A q \in Proc : q # p /\ pc[q] \in {"reading", "writing"} => buf[q] # buf[p]
        BY Zenon, <1>1 DEF Using
      <3>4. \A c \in Buffer : req'[c] # None \/ done'[c] =>
             \E q \in Proc : buf'[q] = c /\ pc'[q] \in {"reading", "writing"}
        BY <1>1, <3>1 DEF IInv, TypeOK, DiskInv
      <3>5. \A q \in Proc : q # p => pc'[q] = pc[q]
        BY SMTT(30), <3>1
      <3>6. \A q \in Proc : q # p /\ pc[q] \in {"reading", "writing"} => req'[buf[q]] = req[buf[q]]
        BY <3>1, <3>3
      <3>7. /\ req'[buf[p]] = [write |-> FALSE, block |-> blockno[buf[p]]]
            /\ pc'[p] = "reading"
        BY Zenon, <1>1, <3>1 DEF IInv, TypeOK
      <3>8. ASSUME NEW q \in Proc
          PROVE  Served(q)'
        <4>1. CASE q = p
          BY Zenon, <3>1, <3>2, <3>7, <4>1 DEF Served
        <4>2. CASE q # p
          <5>1. pc'[q] = pc[q] /\ Served(q)
            BY Zenon, <3>5, <4>2 DEF IInv, DiskInv
          <5> QED
            BY Zenon, <3>1, <3>6, <4>2, <5>1 DEF Served, Clean
        <4> QED
          BY Zenon, <4>1, <4>2
      <3> QED
        BY Zenon, <3>4, <3>8 DEF DiskInv
    <2> QED
      BY Zenon, <2>1, <2>2
  <1>8. CleanInv'
    BY Zenon, <1>1, Names DEF IInv, CleanInv, Clean, Bread, StartIO, disk, cache
  <1> QED
    BY Zenon, <1>2, <1>3, <1>4, <1>5, <1>6, <1>7, <1>8 DEF IInv

\* bwrite() gives the buffer to the disk.
LEMMA BwriteIInv ==
  ASSUME IInv, NEW p \in Proc, Bwrite(p)
  PROVE  IInv'
  <1>1. /\ p \in Using /\ buf[p] \in Buffer /\ holder[buf[p]] = p
        /\ blockno[buf[p]] \in Block
        /\ \A q \in Using : buf[q] = buf[p] => q = p
    <2>1. p \in Using
      BY Zenon DEF Using, Bwrite
    <2> QED
      BY Zenon, <2>1, UserFacts
  <1>2. TypeOK'
    <2>1. [write |-> TRUE, block |-> blockno[buf[p]]] \in Disk!Request
      BY Zenon, <1>1 DEF Disk!Request
    <2>2. req' \in [Buffer -> Disk!Request \cup {None}]
      BY Zenon, <1>1, <2>1 DEF IInv, TypeOK, Bwrite, StartIO
    <2> QED
      BY Zenon, <2>2 DEF IInv, TypeOK, Bwrite, StartIO, Goto, cache
  <1>3. CountInv'
    BY Zenon, <1>1, Names DEF IInv, CountInv, Users, Pinned, Bwrite, StartIO, cache
  <1>4. PlaceInv'
    BY SMTT(30), <1>1, Names DEF IInv, PlaceInv, Bwrite, StartIO, Goto, cache
  <1>5. LockInv'
    <2>1. /\ pc[p] = "use" /\ pc' = [pc EXCEPT ![p] = "writing"]
          /\ UNCHANGED <<holder, buf>>
      BY Zenon DEF Bwrite, StartIO, Goto
    <2>2. LockInv
      BY Zenon DEF IInv
    <2> QED
      BY <2>1, <2>2 DEF LockInv, Using
  <1>6. BlockInv'
    BY Zenon, <1>1, Names DEF IInv, BlockInv, Bwrite, StartIO, cache
  <1>7. DiskInv'
    <2>1. /\ req' = [req EXCEPT ![buf[p]] = [write |-> TRUE, block |-> blockno[buf[p]]]]
          /\ pc' = [pc EXCEPT ![p] = "writing"]
          /\ UNCHANGED <<store, data, done, valid, blockno, buf>>
      BY Zenon DEF Bwrite, StartIO, Goto, cache
    <2>2. valid[buf[p]] /\ ~done[buf[p]]
      BY ZenonT(30), <1>1 DEF IInv, DiskInv, Served, Bwrite, Using
    <2>3. \A q \in Proc : q # p /\ pc[q] \in {"reading", "writing"} => buf[q] # buf[p]
      BY Zenon, <1>1 DEF Using
    <2>4. \A c \in Buffer : req'[c] # None \/ done'[c] =>
           \E q \in Proc : buf'[q] = c /\ pc'[q] \in {"reading", "writing"}
      BY <1>1, <2>1 DEF IInv, TypeOK, DiskInv
    <2>5. \A q \in Proc : q # p => pc'[q] = pc[q]
      BY SMTT(30), <2>1
    <2>6. \A q \in Proc : q # p /\ pc[q] \in {"reading", "writing"} => req'[buf[q]] = req[buf[q]]
      BY <2>1, <2>3
    <2>7. /\ req'[buf[p]] = [write |-> TRUE, block |-> blockno[buf[p]]]
          /\ pc'[p] = "writing"
      BY Zenon, <1>1, <2>1 DEF IInv, TypeOK
    <2>8. ASSUME NEW q \in Proc
        PROVE  Served(q)'
      <3>1. CASE q = p
        BY Zenon, <2>1, <2>2, <2>7, <3>1 DEF Served
      <3>2. CASE q # p
        <4>1. pc'[q] = pc[q] /\ Served(q)
          BY Zenon, <2>5, <3>2 DEF IInv, DiskInv
        <4> QED
          BY Zenon, <2>1, <2>6, <3>2, <4>1 DEF Served, Clean
      <3> QED
        BY Zenon, <3>1, <3>2
    <2> QED
      BY Zenon, <2>4, <2>8 DEF DiskInv
  <1>8. CleanInv'
    BY Zenon, <1>1, Names DEF IInv, CleanInv, Clean, Bwrite, StartIO, cache
  <1> QED
    BY Zenon, <1>2, <1>3, <1>4, <1>5, <1>6, <1>7, <1>8 DEF IInv

\* The disk is done: the buffer has the block, or the block the buffer's contents.
LEMMA EndIOIInv ==
  ASSUME IInv, NEW p \in Proc, EndIO(p)
  PROVE  IInv'
  <1>1. /\ p \in Using /\ buf[p] \in Buffer /\ holder[buf[p]] = p
        /\ blockno[buf[p]] \in Block
        /\ \A q \in Using : buf[q] = buf[p] => q = p
    <2>1. p \in Using
      BY Zenon DEF Using, EndIO
    <2> QED
      BY Zenon, <2>1, UserFacts
  <1>2. TypeOK'
    BY Zenon, <1>1, Names DEF IInv, TypeOK, EndIO, Disk!Return, Goto
  <1>3. CountInv'
    BY Zenon, <1>1, Names DEF IInv, CountInv, Users, Pinned, EndIO
  <1>4. PlaceInv'
    BY <1>1, Names DEF IInv, PlaceInv, EndIO, Goto
  <1>5. LockInv'
    BY SMTT(30), <1>1, Names DEF IInv, LockInv, Using, EndIO, Goto
  <1>6. BlockInv'
    <2>1. valid' = [valid EXCEPT ![buf[p]] = TRUE] /\ UNCHANGED <<blockno, pins>>
      BY Zenon DEF EndIO
    <2> QED
      BY <1>1, <2>1, Names DEF IInv, BlockInv
  <1>7. DiskInv'
    BY SMTT(30), <1>1, Names DEF IInv, TypeOK, DiskInv, Served, Using, Clean, EndIO, Disk!Return, Goto
  <1>8. CleanInv'
    BY <1>1, Names DEF IInv, CleanInv, Clean, EndIO, Disk!Return
  <1> QED
    BY Zenon, <1>2, <1>3, <1>4, <1>5, <1>6, <1>7, <1>8 DEF IInv

\* The user of a buffer changes it.
LEMMA ModifyIInv ==
  ASSUME IInv, NEW p \in Proc, NEW v \in Value, Modify(p, v)
  PROVE  IInv'
  <1>1. TypeOK'
    BY Zenon, Names DEF IInv, TypeOK, Modify, disk, cache
  <1>2. CountInv'
    BY Zenon, Names DEF IInv, CountInv, Users, Pinned, Modify, cache
  <1>3. PlaceInv'
    BY Zenon, Names DEF IInv, PlaceInv, Modify, cache
  <1>4. LockInv'
    BY Zenon, Names DEF IInv, LockInv, Using, Modify
  <1>5. BlockInv'
    BY Zenon, Names DEF IInv, BlockInv, Modify, cache
  <1>6. DiskInv'
    BY SMTT(30), Names DEF IInv, DiskInv, Served, Clean, Modify, cache
  <1>7. CleanInv'
    BY Names DEF IInv, LockInv, CleanInv, Using, Clean, Modify, cache
  <1> QED
    BY Zenon, <1>1, <1>2, <1>3, <1>4, <1>5, <1>6, <1>7 DEF IInv

\* bpin() keeps the buffer for the log.
LEMMA BpinIInv ==
  ASSUME Counting, IInv, NEW p \in Proc, Bpin(p)
  PROVE  IInv'
  <1>1. p \in Using /\ buf[p] \in Buffer /\ holder[buf[p]] = p
    <2>1. p \in Using
      BY Zenon DEF Using, Bpin
    <2> QED
      BY Zenon, <2>1, UserFacts
  <1>2. TypeOK'
    <2>1. refcnt' \in [Buffer -> Nat] /\ pins' \in [Buffer -> 0..1]
      BY <1>1 DEF IInv, TypeOK, Bpin
    <2> QED
      BY Zenon, <2>1 DEF IInv, TypeOK, Bpin, disk
  <1>3. CountInv'
    <2>1. /\ refcnt' = [refcnt EXCEPT ![buf[p]] = @ + 1] /\ refcnt \in [Buffer -> Nat]
          /\ pins' = [pins EXCEPT ![buf[p]] = 1] /\ pins \in [Buffer -> 0..1]
          /\ pins[buf[p]] = 0 /\ buf' = buf /\ Cardinality(Pinned) < MaxPins
      BY Zenon DEF IInv, TypeOK, Bpin
    <2>2. \A c \in Buffer : refcnt[c] = Cardinality(Users(c)) + pins[c] /\ Users(c)' = Users(c)
      BY Zenon, <2>1 DEF IInv, CountInv, Users
    <2>3. \A c \in Buffer : refcnt'[c] = Cardinality(Users(c)') + pins'[c]
      BY <1>1, <2>1, <2>2, Counts
    <2>4. Pinned' = Pinned \cup {buf[p]} /\ buf[p] \notin Pinned
      BY SMTT(30), <1>1, <2>1 DEF Pinned
    <2>5. Cardinality(Pinned') = Cardinality(Pinned) + 1
      BY Zenon, <2>4, Counts DEF Counting
    <2>6. Cardinality(Pinned') <= MaxPins
      BY SMTT(30), <2>1, <2>5, Counts, Names
    <2> QED
      BY Zenon, <2>3, <2>6 DEF CountInv
  <1>4. PlaceInv'
    BY Zenon, <1>1, Names DEF IInv, PlaceInv, Bpin
  <1>5. LockInv'
    BY Zenon, <1>1, Names DEF IInv, LockInv, Using, Bpin
  <1>6. BlockInv'
    <2>1. valid[buf[p]]
      BY Zenon DEF IInv, DiskInv, Served, Bpin
    <2>2. /\ UNCHANGED <<valid, blockno>>
          /\ pins' = [pins EXCEPT ![buf[p]] = 1] /\ pins \in [Buffer -> 0..1]
      BY Zenon DEF IInv, TypeOK, Bpin
    <2> QED
      BY Zenon, <1>1, <2>1, <2>2 DEF IInv, BlockInv
  <1>7. DiskInv'
    BY Zenon, <1>1, Names DEF IInv, DiskInv, Served, Clean, Bpin, disk
  <1>8. CleanInv'
    BY <1>1, Names DEF IInv, CleanInv, Clean, Bpin, disk
  <1> QED
    BY Zenon, <1>2, <1>3, <1>4, <1>5, <1>6, <1>7, <1>8 DEF IInv

\* bunpin() gives it back, after it was written.
LEMMA BunpinIInv ==
  ASSUME Counting, IInv, NEW p \in Proc, Bunpin(p)
  PROVE  IInv'
  <1>1. /\ p \in Using /\ buf[p] \in Buffer /\ holder[buf[p]] = p
        /\ p \in Users(buf[p])
    <2>1. p \in Using
      BY Zenon DEF Using, Bunpin
    <2> QED
      BY Zenon, <2>1, UserFacts
  <1>2. TypeOK'
    <2>1. refcnt[buf[p]] - 1 \in Nat
      BY <1>1, Counts DEF IInv, CountInv, Bunpin
    <2>2. refcnt' \in [Buffer -> Nat] /\ pins' \in [Buffer -> 0..1]
      BY <1>1, <2>1 DEF IInv, TypeOK, Bunpin
    <2> QED
      BY Zenon, <2>2 DEF IInv, TypeOK, Bunpin, disk
  <1>3. CountInv'
    <2>1. /\ refcnt' = [refcnt EXCEPT ![buf[p]] = @ - 1] /\ refcnt \in [Buffer -> Nat]
          /\ pins' = [pins EXCEPT ![buf[p]] = 0] /\ pins \in [Buffer -> 0..1]
          /\ pins[buf[p]] = 1 /\ buf' = buf
      BY Zenon DEF IInv, TypeOK, Bunpin
    <2>2. \A c \in Buffer : refcnt[c] = Cardinality(Users(c)) + pins[c] /\ Users(c)' = Users(c)
      BY Zenon, <2>1 DEF IInv, CountInv, Users
    <2>3. \A c \in Buffer : refcnt'[c] = Cardinality(Users(c)') + pins'[c]
      BY <1>1, <2>1, <2>2, Counts
    <2>4. Pinned' = Pinned \ {buf[p]}
      BY <1>1, <2>1 DEF Pinned
    <2>5. Cardinality(Pinned') \in Nat /\ Cardinality(Pinned') <= Cardinality(Pinned)
      BY Zenon, <2>4, Counts DEF Counting
    <2>6. Cardinality(Pinned') <= MaxPins
      BY SMTT(30), <2>5, Counts, Names DEF IInv, CountInv
    <2> QED
      BY Zenon, <2>3, <2>6 DEF CountInv
  <1>4. PlaceInv'
    BY Zenon, <1>1, Names DEF IInv, PlaceInv, Bunpin
  <1>5. LockInv'
    BY Zenon, <1>1, Names DEF IInv, LockInv, Using, Bunpin
  <1>6. BlockInv'
    BY SMTT(30), <1>1, Names DEF IInv, BlockInv, Bunpin
  <1>7. DiskInv'
    BY Zenon, <1>1, Names DEF IInv, DiskInv, Served, Clean, Bunpin, disk
  <1>8. CleanInv'
    BY SMTT(30), <1>1, Names DEF IInv, CleanInv, Clean, Bunpin, disk
  <1> QED
    BY Zenon, <1>2, <1>3, <1>4, <1>5, <1>6, <1>7, <1>8 DEF IInv

\* releasesleep() gives up the lock and wakes who sleeps for it.
LEMMA ReleaseSleepIInv ==
  ASSUME IInv, NEW p \in Proc, ReleaseSleep(p)
  PROVE  IInv'
  <1>1. TypeOK'
    BY Zenon, Names DEF IInv, TypeOK, ReleaseSleep, disk, cache
  <1>2. CountInv'
    BY Zenon, Names DEF IInv, CountInv, Users, Pinned, ReleaseSleep, cache
  <1>3. PlaceInv'
    BY Zenon, Names DEF IInv, PlaceInv, ReleaseSleep, cache
  <1>4. LockInv'
    BY SMTT(30), Names DEF IInv, TypeOK, LockInv, Using, ReleaseSleep
  <1>5. BlockInv'
    BY Zenon, Names DEF IInv, BlockInv, ReleaseSleep, cache
  <1>6. DiskInv'
    BY Zenon, Names DEF IInv, DiskInv, Served, Clean, ReleaseSleep, disk, cache
  <1>7. CleanInv'
    BY Names DEF IInv, CleanInv, Clean, Pinned, ReleaseSleep, disk, cache
  <1> QED
    BY Zenon, <1>1, <1>2, <1>3, <1>4, <1>5, <1>6, <1>7 DEF IInv

\* brelse() drops the reference.
LEMMA PutIInv ==
  ASSUME Counting, IInv, NEW p \in Proc, Put(p)
  PROVE  IInv'
  <1>1. PICK b \in Buffer : buf[p] = b /\ p \in Users(b)
    BY Zenon DEF IInv, TypeOK, PlaceInv, Put, Users
  <1>2. TypeOK'
    <2>1. refcnt[b] - 1 \in Nat
      <3>1. Cardinality(Users(b)) \in Nat \ {0} /\ pins[b] \in Nat
        BY <1>1, Counts DEF IInv, TypeOK
      <3> QED
        BY <1>1, <3>1 DEF IInv, CountInv
    <2>2. refcnt' \in [Buffer -> Nat]
      BY Zenon, <1>1, <2>1 DEF IInv, TypeOK, Put
    <2>3. lru' \in Order
      BY Zenon, <1>1, MoveToFrontOrder DEF IInv, TypeOK, Put
    <2> QED
      BY Zenon, <2>2, <2>3 DEF IInv, TypeOK, Put, Goto, disk
  <1>3. CountInv'
    <2>1. /\ refcnt' = [refcnt EXCEPT ![b] = @ - 1] /\ refcnt \in [Buffer -> Nat]
          /\ buf' = [buf EXCEPT ![p] = None] /\ pins' = pins /\ pins \in [Buffer -> 0..1]
          /\ TypeOK
      BY Zenon, <1>1 DEF IInv, TypeOK, Put
    <2>2. /\ Cardinality(Users(b)') = Cardinality(Users(b)) - 1
          /\ \A c \in Buffer \ {b} : Users(c)' = Users(c)
      BY Zenon, <1>1, <2>1, LeaveUsers
    <2>3. \A c \in Buffer : refcnt[c] = Cardinality(Users(c)) + pins[c]
      BY Zenon DEF IInv, CountInv
    <2>4. refcnt'[b] = Cardinality(Users(b)') + pins'[b]
      BY <1>1, <2>1, <2>2, <2>3, Counts
    <2>5. \A c \in Buffer \ {b} : refcnt'[c] = Cardinality(Users(c)') + pins'[c]
      BY Zenon, <2>1, <2>2, <2>3
    <2> QED
      BY Zenon, <2>1, <2>4, <2>5 DEF IInv, CountInv, Pinned
  <1>4. PlaceInv'
    BY Zenon, <1>1, Names DEF IInv, TypeOK, PlaceInv, Put, Goto
  <1>5. LockInv'
    BY SMTT(30), <1>1, Names DEF IInv, LockInv, Using, Put, Goto
  <1>6. BlockInv'
    BY Zenon, <1>1, Names DEF IInv, BlockInv, Put
  <1>7. DiskInv'
    BY SMTT(30), <1>1, Names DEF IInv, DiskInv, Served, Clean, Put, Goto, disk
  <1>8. CleanInv'
    BY Zenon, <1>1, Names DEF IInv, CleanInv, Clean, Put, disk
  <1> QED
    BY Zenon, <1>2, <1>3, <1>4, <1>5, <1>6, <1>7, <1>8 DEF IInv

\* The device moves a block.
LEMMA TransferIInv ==
  ASSUME IInv, NEW b \in Buffer, Transfer(b)
  PROVE  IInv'
  <1>1. PICK p \in Using : buf[p] = b /\ pc[p] \in {"reading", "writing"}
    BY Zenon DEF IInv, DiskInv, Transfer, Disk!Transfer, Using
  <1>2. /\ p \in Proc /\ holder[b] = p /\ blockno[b] \in Block
        /\ \A q \in Using : buf[q] = b => q = p
    BY Zenon, <1>1, UserFacts
  <1>3. /\ done' = [done EXCEPT ![b] = TRUE]
        /\ UNCHANGED <<req, cache, holder, pc, buf, pins, panicked>>
    BY Zenon DEF Transfer, Disk!Transfer
  <1>4. /\ req[b].write => pc[p] = "writing"
        /\ ~req[b].write => pc[p] = "reading"
        /\ req[b].block = blockno[b]
    <2>1. pc[p] = "writing" => req[b] = [write |-> TRUE, block |-> blockno[b]]
      BY Zenon, <1>1, <1>2 DEF IInv, DiskInv, Served
    <2>2. pc[p] = "reading" => req[b] = [write |-> FALSE, block |-> blockno[b]]
      BY Zenon, <1>1, <1>2 DEF IInv, DiskInv, Served
    <2> QED
      BY SMTT(30), <1>1, <2>1, <2>2
  <1>5. \/ /\ pc[p] = "writing" /\ data' = data
           /\ store' = [store EXCEPT ![blockno[b]] = data[b]]
        \/ /\ pc[p] = "reading" /\ store' = store
           /\ data' = [data EXCEPT ![b] = store[blockno[b]]]
    BY Zenon, <1>4 DEF Transfer, Disk!Transfer
  <1>6. TypeOK'
    <2>1. store' \in [Block -> Value] /\ data' \in [Buffer -> Value]
      BY <1>2, <1>5 DEF IInv, TypeOK
    <2> QED
      BY Zenon, <1>3, <2>1 DEF IInv, TypeOK, cache
  <1>7. CountInv'
    BY ZenonT(30), <1>1, <1>2, <1>3, <1>4, <1>5, Names DEF IInv, CountInv, Users, Pinned, cache
  <1>8. PlaceInv'
    BY Zenon, <1>3 DEF IInv, PlaceInv, cache
  <1>9. LockInv'
    BY ZenonT(30), <1>1, <1>2, <1>3, <1>4, <1>5, Names DEF IInv, LockInv, Using
  <1>10. BlockInv'
    BY ZenonT(30), <1>1, <1>2, <1>3, <1>4, <1>5, Names DEF IInv, BlockInv, cache
  <1>11. DiskInv'
    <2>1. ASSUME NEW q \in Proc, pc[q] = "reading"
          PROVE  done'[buf[q]] => Clean(buf[q])'
      <3>1. q \in Using /\ buf[q] \in Buffer /\ blockno[buf[q]] # None
        BY SMTT(30), <2>1, UserFacts, Names DEF Using
      <3>2. CASE q = p
        BY SMTT(30), <1>1, <1>2, <1>3, <1>5, <2>1, <3>2 DEF IInv, TypeOK, Clean, cache
      <3>3. CASE q # p
        <4>1. buf[q] # b /\ blockno[buf[q]] # blockno[b]
          BY Zenon, <1>2, <3>1, <3>3 DEF IInv, BlockInv
        <4>2. done'[buf[q]] = done[buf[q]] /\ data'[buf[q]] = data[buf[q]]
          BY Zenon, <1>3, <1>5, <3>1, <4>1 DEF IInv, TypeOK
        <4>3. store'[blockno[buf[q]]] = store[blockno[buf[q]]]
          BY Zenon, <1>2, <1>5, <3>1, <4>1 DEF IInv, TypeOK
        <4> QED
          BY Zenon, <1>3, <2>1, <4>2, <4>3 DEF IInv, DiskInv, Served, Clean, cache
      <3> QED
        BY Zenon, <3>2, <3>3
    <2>2. \A c \in Buffer : req'[c] # None \/ done'[c] =>
            \E q \in Proc : buf'[q] = c /\ pc'[q] \in {"reading", "writing"}
      BY <1>1, <1>2, <1>3 DEF IInv, DiskInv
    <2> QED
      BY Zenon, <1>3, <2>1, <2>2 DEF IInv, DiskInv, Served, cache
  <1>12. CleanInv'
    <2> SUFFICES ASSUME NEW c \in Buffer, valid[c], pins[c] = 0, holder[c] = None
                 PROVE  data'[c] = store'[blockno[c]]
      BY Zenon, <1>3 DEF CleanInv, Clean, cache
    <2>1. c # b /\ blockno[c] # blockno[b]
      BY Zenon, <1>2, Names DEF IInv, BlockInv
    <2>2. data[c] = store[blockno[c]] /\ blockno[c] \in Block
      BY DEF IInv, TypeOK, BlockInv, CleanInv, Clean
    <2> QED
      BY Zenon, <1>2, <1>5, <2>1, <2>2 DEF IInv, TypeOK
  <1> QED
    BY Zenon, <1>6, <1>7, <1>8, <1>9, <1>10, <1>11, <1>12 DEF IInv

\* bget() finds the block in no buffer: it recycles one, or panics.
LEMMA GetMissIInv ==
  ASSUME Counting, IInv, NEW p \in Proc, NEW n \in Block, GetMiss(p, n)
  PROVE  IInv'
  <1>1. CASE Unused = {}
    <2>1. UNCHANGED <<disk, cache, holder, pc, buf, pins>> /\ panicked' = TRUE
      BY Zenon, <1>1 DEF GetMiss
    <2>2. TypeOK'
      BY Zenon, <2>1 DEF IInv, TypeOK, disk, cache
    <2>3. CountInv' /\ PlaceInv' /\ LockInv' /\ BlockInv'
      BY SMTT(30), <2>1 DEF IInv, CountInv, Users, Pinned, PlaceInv, LockInv, Using, BlockInv, cache
    <2>4. DiskInv' /\ CleanInv'
      BY Zenon, <2>1 DEF IInv, DiskInv, Served, CleanInv, Clean, disk, cache
    <2> QED
      BY Zenon, <2>2, <2>3, <2>4 DEF IInv
  <1>2. ASSUME NEW b \in Buffer, LeastRecent(b), Recycle(p, n, b, FALSE)
        PROVE  IInv'
    <2>1. b \in Unused
      BY Zenon, <1>2 DEF LeastRecent
    <2> QED
      BY ZenonT(30), <1>2, <2>1, RecycleIInv DEF GetMiss
  <1> QED
    BY ZenonT(30), <1>1, <1>2 DEF GetMiss

\* So does every step of Next, and one that changes nothing.
LEMMA NextIInv ==
  ASSUME Counting
  PROVE  IInv /\ [Next]_vars => IInv'
  <1> SUFFICES ASSUME IInv, [Next]_vars PROVE IInv'
    BY Zenon
  <1>1. CASE UNCHANGED vars
    <2>1. TypeOK'
      BY Zenon, <1>1 DEF IInv, TypeOK, vars, disk, cache
    <2>2. CountInv' /\ PlaceInv' /\ LockInv' /\ BlockInv'
      BY SMTT(30), <1>1 DEF IInv, CountInv, Users, Pinned, PlaceInv, LockInv, Using, BlockInv, vars, cache
    <2>3. DiskInv' /\ CleanInv'
      BY Zenon, <1>1 DEF IInv, DiskInv, Served, CleanInv, Clean, vars, disk, cache
    <2> QED
      BY Zenon, <2>1, <2>2, <2>3 DEF IInv
  <1>2. ASSUME NEW p \in Proc, NEW n \in Block, GetHit(p, n) \/ GetMiss(p, n)
        PROVE  IInv'
    BY Zenon, <1>2, GetHitIInv, GetMissIInv
  <1>3. ASSUME NEW p \in Proc, NEW v \in Value, Modify(p, v)
        PROVE  IInv'
    BY Zenon, <1>3, ModifyIInv
  <1>4. ASSUME NEW p \in Proc,
               \/ AcquireSleep(p) \/ Kill(p) \/ Bread(p) \/ Bwrite(p) \/ EndIO(p)
               \/ Bpin(p) \/ Bunpin(p) \/ ReleaseSleep(p) \/ Put(p)
        PROVE  IInv'
    BY Zenon, <1>4, AcquireSleepIInv, KillIInv, BreadIInv, BwriteIInv, EndIOIInv, BpinIInv, BunpinIInv,
       ReleaseSleepIInv, PutIInv
  <1>5. ASSUME NEW b \in Buffer, Transfer(b)
        PROVE  IInv'
    BY Zenon, <1>5, TransferIInv
  <1> QED
    BY Zenon, <1>1, <1>2, <1>3, <1>4, <1>5 DEF Next

-----------------------------------------------------------------------------
(* Coherence *)

\* What a reader of block n would see: the one valid buffer of it, or the disk.
Seen ==
  \A n \in Block :
    /\ \A b \in Buffer : blockno[b] = n /\ valid[b] => Contents(n) = data[b]
    /\ (\A b \in Buffer : blockno[b] = n => ~valid[b]) => Contents(n) = store[n]

\* A block has one valid buffer at most.
LEMMA ContentsSeen == IInv => Seen
  <1> SUFFICES ASSUME IInv, NEW n \in Block
               PROVE  /\ \A b \in Buffer : blockno[b] = n /\ valid[b] => Contents(n) = data[b]
                      /\ (\A b \in Buffer : blockno[b] = n => ~valid[b]) => Contents(n) = store[n]
    BY Zenon DEF Seen
  <1> DEFINE there == {b \in Cached(n) : valid[b]}
  <1>1. there = {b \in Buffer : blockno[b] = n /\ valid[b]}
    BY Zenon DEF Cached
  <1>2. ASSUME NEW b \in Buffer, blockno[b] = n, valid[b]
        PROVE  Contents(n) = data[b]
    <2>1. there = {b}
      BY Zenon, <1>1, <1>2, Names DEF IInv, BlockInv
    <2>2. (CHOOSE c \in there : TRUE) = b
      BY Zenon, <2>1
    <2> QED
      BY Zenon, <2>1, <2>2 DEF Contents
  <1>3. ASSUME \A b \in Buffer : blockno[b] = n => ~valid[b]
        PROVE  Contents(n) = store[n]
    <2>1. there = {}
      BY Zenon, <1>1, <1>3
    <2> QED
      BY Zenon, <2>1 DEF Contents
  <1> QED
    BY Zenon, <1>2, <1>3

\* The steps that touch neither a block nor a buffer's contents change no
\* contents.
LEMMA SteadyContents ==
  ASSUME UNCHANGED <<store, data, blockno, valid>>, NEW n
  PROVE  Contents(n)' = Contents(n)
  BY SMTT(30) DEF Contents, Cached

\* A buffer that is recycled loses nothing: what it had is on the disk.
LEMMA RecycleContents ==
  ASSUME Counting, IInv, Seen, Seen', NEW p \in Proc, NEW n \in Block, NEW b \in Unused, Cached(n) = {},
         Recycle(p, n, b, FALSE), NEW k \in Block
  PROVE  Contents(k)' = Contents(k)
  <1>1. /\ blockno' = [blockno EXCEPT ![b] = n] /\ valid' = [valid EXCEPT ![b] = FALSE]
        /\ UNCHANGED <<store, data>>
    BY Zenon DEF Recycle, disk
  <1>2. b \in Buffer /\ (valid[b] => Clean(b))
    BY Zenon, UnusedFacts
  <1>3. \A c \in Buffer : blockno[c] # n
    BY Zenon DEF Cached
  <1>4. CASE \E c \in Buffer \ {b} : blockno[c] = k /\ valid[c]
    <2>1. PICK c \in Buffer \ {b} : blockno[c] = k /\ valid[c]
      BY Zenon, <1>4
    <2>2. blockno'[c] = k /\ valid'[c]
      BY SMTT(30), <1>1, <2>1
    <2> QED
      BY <1>1, <2>1, <2>2 DEF Seen
  <1>5. CASE ~\E c \in Buffer \ {b} : blockno[c] = k /\ valid[c]
    <2>1. \A c \in Buffer : blockno'[c] = k => ~valid'[c]
      BY Zenon, <1>1, <1>2, <1>5 DEF IInv, TypeOK
    <2>2. Contents(k)' = store[k]
      BY Zenon, <1>1, <2>1 DEF Seen
    <2>3. CASE blockno[b] = k /\ valid[b]
      BY Zenon, <1>2, <2>2, <2>3 DEF Seen, Clean
    <2>4. CASE ~(blockno[b] = k /\ valid[b])
      BY <1>2, <1>5, <2>2, <2>4 DEF Seen
    <2> QED
      BY Zenon, <2>3, <2>4
  <1> QED
    BY Zenon, <1>4, <1>5

\* A buffer becomes valid with what the disk has.
LEMMA EndIOContents ==
  ASSUME IInv, Seen, Seen', NEW p \in Proc, EndIO(p), NEW k \in Block
  PROVE  Contents(k)' = Contents(k)
  <1>1. PICK b \in Buffer : b = buf[p]
    <2>1. p \in Using
      BY Zenon DEF EndIO, Using
    <2> QED
      BY Zenon, <2>1, UserFacts
  <1>2. /\ valid' = [valid EXCEPT ![b] = TRUE]
        /\ UNCHANGED <<store, data, blockno>>
    BY Zenon, <1>1 DEF EndIO, Disk!Return
  <1>3. CASE valid[b]
    BY Zenon, <1>2, <1>3, SteadyContents DEF IInv, TypeOK
  <1>4. CASE ~valid[b]
    <2>1. pc[p] = "reading" /\ done[b]
      BY ZenonT(30), <1>1, <1>4 DEF IInv, DiskInv, Served, EndIO, Disk!Return
    <2>2. data[b] = store[blockno[b]]
      BY ZenonT(30), <1>1, <2>1 DEF IInv, DiskInv, Served, Clean
    <2>3. CASE blockno[b] = k
      <3>1. \A c \in Buffer : blockno[c] = k => c = b
        BY Zenon, <2>3, Names DEF IInv, BlockInv
      <3>2. Contents(k) = store[k]
        BY <1>4, <3>1 DEF Seen
      <3>3. blockno'[b] = k /\ valid'[b]
        BY Zenon, <1>2, <2>3 DEF IInv, TypeOK
      <3>4. Contents(k)' = data'[b]
        BY Zenon, <3>3 DEF Seen
      <3> QED
        BY Zenon, <1>2, <2>2, <2>3, <3>2, <3>4
    <2>4. CASE blockno[b] # k
      <3>1. \A c \in Buffer : blockno[c] = k => valid'[c] = valid[c]
        BY Zenon, <1>2, <2>4 DEF IInv, TypeOK
      <3>2. CASE \E c \in Buffer : blockno[c] = k /\ valid[c]
        BY <1>2, <3>1, <3>2 DEF Seen
      <3>3. CASE \A c \in Buffer : blockno[c] = k => ~valid[c]
        BY Zenon, <1>2, <3>1, <3>3 DEF Seen
      <3> QED
        BY Zenon, <3>2, <3>3
    <2> QED
      BY Zenon, <2>3, <2>4
  <1> QED
    BY Zenon, <1>3, <1>4

\* The disk reads into a buffer that is not valid yet, or gets what the valid
\* buffer of the block has.
LEMMA TransferContents ==
  ASSUME IInv, Seen, Seen', NEW b \in Buffer, Transfer(b), NEW k \in Block
  PROVE  Contents(k)' = Contents(k)
  <1>1. PICK p \in Using : buf[p] = b /\ pc[p] \in {"reading", "writing"}
    BY Zenon DEF IInv, DiskInv, Transfer, Disk!Transfer, Using
  <1>2. p \in Proc /\ blockno[b] \in Block
    BY Zenon, <1>1, UserFacts
  <1>3. UNCHANGED <<blockno, valid>>
    BY Zenon DEF Transfer, cache
  <1>4. CASE pc[p] = "writing"
    <2>1. valid[b] /\ req[b] = [write |-> TRUE, block |-> blockno[b]]
      BY Zenon, <1>1, <1>2, <1>4 DEF IInv, DiskInv, Served
    <2>2. data' = data /\ store' = [store EXCEPT ![blockno[b]] = data[b]]
      BY <2>1 DEF Transfer, Disk!Transfer
    <2>3. CASE blockno[b] = k
      BY <1>3, <2>1, <2>2, <2>3 DEF Seen
    <2>4. CASE blockno[b] # k
      <3>1. store'[k] = store[k]
        BY SMTT(30), <1>2, <2>2, <2>4
      <3> QED
        BY <1>3, <2>2, <3>1 DEF Seen
    <2> QED
      BY Zenon, <2>3, <2>4
  <1>5. CASE pc[p] = "reading"
    <2>1. ~valid[b] /\ req[b] = [write |-> FALSE, block |-> blockno[b]]
      BY Zenon, <1>1, <1>2, <1>5 DEF IInv, DiskInv, Served
    <2>2. store' = store /\ \A c \in Buffer \ {b} : data'[c] = data[c]
      BY <2>1 DEF Transfer, Disk!Transfer, IInv, TypeOK
    <2> QED
      BY SMTT(30), <1>3, <2>1, <2>2 DEF Seen
  <1> QED
    BY Zenon, <1>1, <1>4, <1>5

\* A user changes the contents of its own block only.
LEMMA ModifyContents ==
  ASSUME IInv, Seen, Seen', NEW p \in Proc, NEW v \in Value, Modify(p, v), NEW k \in Block,
         blockno[buf[p]] # k
  PROVE  Contents(k)' = Contents(k)
  <1>1. /\ UNCHANGED <<store, blockno, valid>>
        /\ \A c \in Buffer \ {buf[p]} : data'[c] = data[c]
    BY DEF Modify, cache
  <1> QED
    BY <1>1 DEF Seen

\* A step changes the contents of a block only as Modify.
LEMMA NextContents ==
  ASSUME Counting, IInv, Seen, Seen', Next, NEW n \in Block, Contents(n)' # Contents(n)
  PROVE  \E p \in Proc : pc[p] = "use" /\ pc'[p] = "use" /\ blockno[buf[p]] = n
  <1>1. ~UNCHANGED <<store, data, blockno, valid>>
    BY Zenon, SteadyContents
  <1>2. ASSUME NEW p \in Proc, NEW k \in Block, GetMiss(p, k)
        PROVE  FALSE
    <2>1. PICK b \in Unused : Recycle(p, k, b, FALSE)
      BY Zenon, <1>1, <1>2 DEF GetMiss, LeastRecent, disk, cache
    <2> QED
      BY Zenon, <1>2, <2>1, RecycleContents DEF GetMiss
  <1>3. \A p \in Proc : ~EndIO(p)
    BY Zenon, EndIOContents
  <1>4. \A b \in Buffer : ~Transfer(b)
    BY Zenon, TransferContents
  <1>5. \A p \in Proc :
          /\ \A k \in Block : ~GetHit(p, k)
          /\ ~AcquireSleep(p) /\ ~Kill(p) /\ ~Bread(p) /\ ~Bwrite(p)
          /\ ~Bpin(p) /\ ~Bunpin(p) /\ ~ReleaseSleep(p) /\ ~Put(p)
    BY Zenon, <1>1 DEF GetHit, AcquireSleep, Kill, Bread, Bwrite, StartIO, Bpin, Bunpin,
       ReleaseSleep, Put, disk, cache
  <1>6. PICK p \in Proc, v \in Value : Modify(p, v)
    BY Zenon, <1>2, <1>3, <1>4, <1>5 DEF Next
  <1>7. blockno[buf[p]] = n
    BY Zenon, <1>6, ModifyContents
  <1> QED
    BY Zenon, <1>6, <1>7 DEF Modify

-----------------------------------------------------------------------------
(* bget() without a buffer *)

\* Only bget() panics, and only when every buffer is used.
LEMMA PanicStep ==
  ASSUME Next, ~panicked, panicked'
  PROVE  Unused = {} /\ buf' = buf /\ pins' = pins
  <1>1. PICK p \in Proc, n \in Block : GetMiss(p, n)
    BY Zenon DEF Next, GetHit, AcquireSleep, Kill, Bread, Bwrite, StartIO, EndIO, Modify, Bpin,
       Bunpin, ReleaseSleep, Put, Transfer, cache
  <1> QED
    BY Zenon, <1>1 DEF GetMiss, Recycle

\* A buffer that bget() may not recycle is some process's, or pinned.
LEMMA HeldOrPinned ==
  ASSUME Counting, IInv, Unused = {}, NEW b \in Buffer, b \notin Pinned
  PROVE  \E q \in Proc : buf[q] = b
  <1>1. pins \in [Buffer -> 0..1]
    BY Zenon DEF IInv, TypeOK
  <1>2. refcnt[b] # 0 /\ pins[b] = 0
    BY <1>1 DEF Unused, Pinned
  <1>3. Users(b) # {}
    BY <1>2, Counts DEF IInv, CountInv
  <1> QED
    BY Zenon, <1>3 DEF Users

\* The kernel has not panicked, or every buffer is held or pinned.
Exhausted == panicked => \A b \in Buffer : b \in Pinned \/ \E p \in Proc : buf[p] = b

LEMMA NextExhausted ==
  ASSUME Counting, IInv, Exhausted, [Next]_vars
  PROVE  Exhausted'
  <1>1. CASE UNCHANGED vars
    BY Zenon, <1>1 DEF vars, Exhausted, Pinned
  <1>2. CASE Next /\ panicked'
    <2>1. ~panicked
      BY Zenon, <1>2 DEF Next, GetHit, GetMiss, AcquireSleep, Kill, Bread, Bwrite, EndIO, Modify,
         Bpin, Bunpin, ReleaseSleep, Put, Transfer
    <2>2. Unused = {} /\ buf' = buf /\ pins' = pins
      BY Zenon, <1>2, <2>1, PanicStep
    <2>3. \A b \in Buffer : b \in Pinned \/ \E p \in Proc : buf[p] = b
      BY Zenon, <2>2, HeldOrPinned
    <2> QED
      BY Zenon, <2>2, <2>3 DEF Exhausted, Pinned
  <1>3. CASE ~panicked'
    BY Zenon, <1>3 DEF Exhausted
  <1> QED
    BY Zenon, <1>1, <1>2, <1>3

-----------------------------------------------------------------------------
(* The initial state, and the invariant *)

INSTANCE FiniteSetTheorems

\* Facts of the library about finite sets.
LEMMA Finite == Counting
  <1>1. \A S : IsFiniteSet(S) => Cardinality(S) \in Nat /\ (Cardinality(S) = 0 <=> S = {})
    BY Zenon, FS_CardinalityType, FS_EmptySet
  <1>2. \A S, T : IsFiniteSet(S) /\ T \subseteq S =>
                   IsFiniteSet(T) /\ Cardinality(T) <= Cardinality(S)
    BY Zenon, FS_Subset
  <1>3. \A S, x : IsFiniteSet(S) /\ x \notin S => Cardinality(S \cup {x}) = Cardinality(S) + 1
    BY Zenon, FS_AddElement
  <1>4. \A S, x : IsFiniteSet(S) /\ x \in S => Cardinality(S \ {x}) = Cardinality(S) - 1
    BY Zenon, FS_RemoveElement
  <1> QED
    BY Zenon, <1>1, <1>2, <1>3, <1>4 DEF Counting

\* binit() makes a list of all the buffers.
LEMMA InitOrder == (CHOOSE s \in Order : TRUE) \in Order
  <1>1. ExistsBijection(1..Cardinality(Buffer), Buffer)
    BY Zenon, Names, FS_CardinalityType
  <1>2. PICK s \in Bijection(1..Cardinality(Buffer), Buffer) : TRUE
    BY Zenon, <1>1 DEF ExistsBijection
  <1>3. s \in [1..Cardinality(Buffer) -> Buffer]
    BY Zenon DEF Bijection, Injection
  <1>4. \A b \in Buffer : \E i \in DOMAIN s : s[i] = b
    BY Zenon, <1>3 DEF Bijection, Surjection
  <1>5. s \in Order
    BY Zenon, <1>3, <1>4 DEF Order
  <1> QED
    BY Zenon, <1>5

\* binit() leaves a cache of empty buffers.
LEMMA InitIInv == Init => IInv
  <1> SUFFICES ASSUME Init PROVE IInv
    BY Zenon
  <1>1. TypeOK
    <2>1. store \in [Block -> Value] /\ data \in [Buffer -> Value] /\ lru \in Order
      BY Zenon, Names, InitOrder DEF Init
    <2>2. /\ req \in [Buffer -> Disk!Request \cup {None}] /\ done \in [Buffer -> BOOLEAN]
          /\ valid \in [Buffer -> BOOLEAN] /\ panicked \in BOOLEAN
      BY Zenon DEF Init
    <2> QED
      BY <2>1, <2>2 DEF Init, TypeOK
  <1>2. CountInv
    <2>1. \A b \in Buffer : Users(b) = {}
      BY Zenon, Names DEF Init, Users
    <2>2. Pinned = {}
      BY DEF Init, Pinned
    <2> QED
      BY <2>1, <2>2, FS_EmptySet, Names DEF Init, CountInv
  <1>3. PlaceInv /\ LockInv /\ BlockInv
    BY Names DEF Init, PlaceInv, LockInv, BlockInv, Using
  <1>4. DiskInv /\ CleanInv
    BY Zenon, Names DEF Init, DiskInv, Served, CleanInv
  <1> QED
    BY Zenon, <1>1, <1>2, <1>3, <1>4 DEF IInv

\* IInv is an invariant of the buffer cache.
THEOREM BcacheInvariant == Spec => []IInv
  <1>1. IInv /\ [Next]_vars => IInv'
    BY Zenon, Finite, NextIInv
  <1> QED
    BY InitIInv, <1>1, PTL DEF Spec

-----------------------------------------------------------------------------
(* One user of a block *)

\* However few buffers there are, refcnt is exact, the user of a block is the
\* only one, since it holds the sleep-lock of the only buffer of the block, and
\* bget() panics only when every buffer is held by a process or pinned.
THEOREM BcacheOneUser == Spec => []OneUser
  <1>1. Init => Exhausted
    BY Zenon DEF Init, Exhausted
  <1>2. IInv /\ Exhausted /\ [Next]_vars => Exhausted'
    BY Zenon, Finite, NextExhausted
  <1>3. IInv /\ Exhausted => OneUser
    BY Zenon DEF IInv, OneUser, CountInv, Users, LockInv, BlockInv, Exhausted
  <1> QED
    BY <1>1, <1>2, <1>3, BcacheInvariant, PTL DEF Spec

-----------------------------------------------------------------------------
\* The contents of a block change only at the hands of the process that uses
\* its buffer: bget(), bread(), bwrite(), brelse(), bpin(), bunpin() and the
\* disk lose no update and bring back no old one, however few buffers there are.
THEOREM BcacheCoherent == Spec => Coherent
  <1>1. IInv' => Seen'
    BY ContentsSeen, PTL
  <1>2. ASSUME IInv, IInv', [Next]_vars
        PROVE  [\A n \in Block : Contents(n)' # Contents(n) =>
                  \E p \in Proc : pc[p] = "use" /\ pc'[p] = "use" /\ blockno[buf[p]] = n]_vars
    <2>1. Seen /\ Seen'
      BY Zenon, <1>1, <1>2, ContentsSeen
    <2> QED
      BY Zenon, <1>2, <2>1, Finite, NextContents
  <1> QED
    BY <1>2, BcacheInvariant, PTL DEF Spec, Coherent
=============================================================================
