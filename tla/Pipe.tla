-------------------------------- MODULE Pipe ---------------------------------
(***************************************************************************)
(* kernel/pipe.c: one pipe, its writers and its readers.  pi->lock is held *)
(* from acquire() to sleep() or release(), a byte is copied per step, and  *)
(* nwrite and nread are unsigned counters that wrap at WRAP (2^32 in C,    *)
(* where a multiple of PIPESIZE is what the index arithmetic needs).       *)
(*                                                                         *)
(* fileclose() calls pipeclose() when the last reference to an end is      *)
(* dropped, and a process in read() or write() holds one: an end is closed *)
(* only while no process is in a call on it.                               *)
(***************************************************************************)
EXTENDS Integers, Sequences

CONSTANTS PIPESIZE, WRAP,
          Writer, Reader,
          Byte, None,
          Count         \* bound: the numbers of bytes one call asks for

ASSUME PipeAssumption ==
  /\ PIPESIZE \in Nat \ {0} /\ WRAP \in Nat
  /\ \E m \in 2..WRAP : WRAP = m * PIPESIZE
  /\ Writer \cap Reader = {}
  /\ None \notin Writer \cup Reader
  /\ Count \subseteq Nat

Proc == Writer \cup Reader

VARIABLES data, nread, nwrite, readopen, writeopen,   \* struct pipe
          lock,         \* pi->lock: the process that holds it, or None
          pc, i, n,     \* of every process: its place, bytes done, bytes asked
          killed        \* of every process

pipe == <<data, nread, nwrite, readopen, writeopen>>
vars == <<pipe, lock, pc, i, n, killed>>

Zero == [p \in Proc |-> 0]

Init ==
  /\ data \in [0..(PIPESIZE - 1) -> Byte]
  /\ nread = 0 /\ nwrite = 0
  /\ readopen = TRUE /\ writeopen = TRUE
  /\ lock = None
  /\ pc = [p \in Proc |-> "idle"]
  /\ i = Zero /\ n = Zero
  /\ killed = [p \in Proc |-> FALSE]

Empty == nread = nwrite

FullLate == nwrite = (nread + PIPESIZE + 1) % WRAP

\* pi->nwrite == pi->nread + PIPESIZE, in unsigned arithmetic
Full == nwrite = (nread + PIPESIZE) % WRAP

Goto(p, place) == pc' = [pc EXCEPT ![p] = place]

\* wakeup(&pi->nread) wakes the readers, wakeup(&pi->nwrite) the writers;
\* they go on to acquire pi->lock again.  p goes to the given place.
WakeupAnd(who, p, place) ==
  pc' = [q \in Proc |-> IF q = p THEN place
                        ELSE IF q \in who /\ pc[q] = "asleep" THEN "acquire" ELSE pc[q]]

\* p returns from the system call.
Return(p, who) ==
  /\ lock' = None
  /\ WakeupAnd(who, p, "idle")
  /\ i' = [i EXCEPT ![p] = 0] /\ n' = [n EXCEPT ![p] = 0]

Call(p, count) ==
  /\ pc[p] = "idle" /\ ~killed[p]
  /\ p \in Writer => writeopen
  /\ p \in Reader => readopen
  /\ n' = [n EXCEPT ![p] = count]
  /\ Goto(p, "acquire")
  /\ UNCHANGED <<pipe, lock, i, killed>>

Acquire(p) ==
  /\ pc[p] = "acquire" /\ lock = None
  /\ lock' = p
  /\ Goto(p, "loop")
  /\ UNCHANGED <<pipe, i, n, killed>>

\* sleep() on &pi->nwrite or &pi->nread, with pi->lock
Sleep(p) ==
  /\ pc[p] = "sleep"
  /\ lock' = None
  /\ Goto(p, "asleep")
  /\ UNCHANGED <<pipe, i, n, killed>>

-----------------------------------------------------------------------------
(* pipewrite() *)

\* The head of its loop: done, or given up, or on to the body.
WriteTest(p) ==
  /\ p \in Writer /\ pc[p] = "loop"
  /\ IF i[p] < n[p]
     THEN IF ~readopen \/ killed[p]
          THEN Return(p, {})
          ELSE Goto(p, "put") /\ UNCHANGED <<lock, i, n>>
     ELSE Return(p, Reader)
  /\ UNCHANGED <<pipe, killed>>

PutNoWakeup(p, c) ==
  /\ p \in Writer /\ pc[p] = "put"
  /\ IF Full
     THEN Goto(p, "sleep") /\ UNCHANGED <<data, nwrite, i>>
     ELSE /\ data' = [data EXCEPT ![nwrite % PIPESIZE] = c]
          /\ nwrite' = (nwrite + 1) % WRAP
          /\ i' = [i EXCEPT ![p] = @ + 1]
          /\ Goto(p, "loop")
  /\ UNCHANGED <<nread, readopen, writeopen, lock, n, killed>>

\* Its body, with the byte c copied in.
PutByte(p, c) ==
  /\ p \in Writer /\ pc[p] = "put"
  /\ IF Full
     THEN WakeupAnd(Reader, p, "sleep") /\ UNCHANGED <<data, nwrite, i>>
     ELSE /\ data' = [data EXCEPT ![nwrite % PIPESIZE] = c]
          /\ nwrite' = (nwrite + 1) % WRAP
          /\ i' = [i EXCEPT ![p] = @ + 1]
          /\ Goto(p, "loop")
  /\ UNCHANGED <<nread, readopen, writeopen, lock, n, killed>>

\* Its body when copyin() fails: the loop ends.
PutFails(p) ==
  /\ p \in Writer /\ pc[p] = "put" /\ ~Full
  /\ Return(p, Reader)
  /\ UNCHANGED <<pipe, killed>>

-----------------------------------------------------------------------------
(* piperead() *)

\* The loop that waits for a byte; pr->killed is read before sleep().
ReadTest(p) ==
  /\ p \in Reader /\ pc[p] = "loop"
  /\ IF Empty /\ writeopen
     THEN IF killed[p]
          THEN Return(p, {})
          ELSE Goto(p, "sleep") /\ UNCHANGED <<lock, i, n>>
     ELSE Goto(p, "copy") /\ UNCHANGED <<lock, i, n>>
  /\ UNCHANGED <<pipe, killed>>

\* The loop that copies, and what follows it.  When copyout() fails the byte
\* has been consumed.
GetByte(p) ==
  /\ p \in Reader /\ pc[p] = "copy"
  /\ IF i[p] < n[p] /\ ~Empty
     THEN /\ nread' = (nread + 1) % WRAP
          /\ \/ i' = [i EXCEPT ![p] = @ + 1] /\ UNCHANGED <<lock, pc, n>>
             \/ Return(p, Writer)
     ELSE Return(p, Writer) /\ UNCHANGED nread
  /\ UNCHANGED <<data, nwrite, readopen, writeopen, killed>>

-----------------------------------------------------------------------------
(* pipeclose(), pipealloc() and kill() *)

CloseWriteNoWakeup ==
  /\ writeopen /\ lock = None /\ \A p \in Writer : pc[p] = "idle"
  /\ writeopen' = FALSE
  /\ UNCHANGED <<data, nread, nwrite, readopen, lock, pc, i, n, killed>>

\* pipeclose(pi, 1)
CloseWrite ==
  /\ writeopen /\ lock = None /\ \A p \in Writer : pc[p] = "idle"
  /\ writeopen' = FALSE
  /\ WakeupAnd(Reader, None, None)
  /\ UNCHANGED <<data, nread, nwrite, readopen, lock, i, n, killed>>

\* pipeclose(pi, 0)
CloseRead ==
  /\ readopen /\ lock = None /\ \A p \in Reader : pc[p] = "idle"
  /\ readopen' = FALSE
  /\ WakeupAnd(Writer, None, None)
  /\ UNCHANGED <<data, nread, nwrite, writeopen, lock, i, n, killed>>

\* pipealloc(), after both ends were closed and the page was freed; other
\* processes use the new pipe.
PipeAlloc ==
  /\ ~readopen /\ ~writeopen
  /\ readopen' = TRUE /\ writeopen' = TRUE
  /\ nread' = 0 /\ nwrite' = 0
  /\ killed' = [p \in Proc |-> FALSE]
  /\ UNCHANGED <<data, lock, pc, i, n>>

Kill(p) ==
  /\ ~killed[p]
  /\ killed' = [killed EXCEPT ![p] = TRUE]
  /\ pc' = IF pc[p] = "asleep" THEN [pc EXCEPT ![p] = "acquire"] ELSE pc
  /\ UNCHANGED <<pipe, lock, i, n>>

Step(p) ==
  \/ Acquire(p) \/ Sleep(p) \/ WriteTest(p) \/ ReadTest(p) \/ GetByte(p)
  \/ \E c \in Byte : PutByte(p, c)

Next ==
  \/ \E p \in Proc :
       Step(p) \/ PutFails(p) \/ Kill(p) \/ \E count \in Count : Call(p, count)
  \/ CloseWrite \/ CloseRead \/ PipeAlloc

Spec == Init /\ [][Next]_vars

\* A process in a call goes on, and gets a lock that is free again and again.
FairSpec == Spec /\ \A p \in Proc : SF_vars(Step(p))

-----------------------------------------------------------------------------
(* Properties *)

\* Types; the counters are unsigned integers.
TypeOK ==
  /\ data \in [0..(PIPESIZE - 1) -> Byte]
  /\ nread \in 0..(WRAP - 1) /\ nwrite \in 0..(WRAP - 1)
  /\ readopen \in BOOLEAN /\ writeopen \in BOOLEAN
  /\ lock \in Proc \cup {None}
  /\ pc \in [Proc -> {"idle", "acquire", "loop", "put", "copy", "sleep", "asleep"}]
  /\ i \in [Proc -> Nat] /\ n \in [Proc -> Nat]
  /\ \A p \in Proc : i[p] <= n[p]
  /\ killed \in [Proc -> BOOLEAN]

\* The bytes in the pipe, oldest first.
Line ==
  [k \in 1..((nwrite - nread) % WRAP) |-> data[((nread + k - 1) % WRAP) % PIPESIZE]]

Fifo == INSTANCE ByteFifo WITH line <- Line, Capacity <- PIPESIZE

\* Bytes are read in the order they were written, none lost, invented or
\* overwritten, across every wrap of the counters and of data[].
PipeIsFifo == Fifo!Spec

\* No wakeup is lost: when nobody holds pi->lock, a reader is asleep only if
\* the pipe is empty and may still be written, and a writer only if it is
\* full and may still be read.  (A writer killed between two bytes returns
\* without wakeup(&pi->nread), and so may leave readers asleep.)  Every
\* variable has its type.
NoLostWakeup ==
  TypeOK /\ (lock = None =>
    /\ \A p \in Reader : pc[p] = "asleep" =>
         writeopen /\ (Empty \/ \E w \in Writer : killed[w])
    /\ \A p \in Writer : pc[p] = "asleep" => Full /\ readopen)

\* End of file: once the write end is closed every read() returns.
ReaderReturns ==
  \A p \in Reader : ~writeopen /\ pc[p] # "idle" ~> pc[p] = "idle"
=============================================================================
