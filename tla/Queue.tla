-------------------------------- MODULE Queue --------------------------------
(***************************************************************************)
(* kernel/queue.c: the circular buffer of struct proc pointers that backs  *)
(* one level of the MLFQ scheduler.  push() and pop() are single steps;    *)
(* the loop of qerase() takes one step per iteration, so that what it      *)
(* keeps true from one iteration to the next is an invariant.              *)
(*                                                                         *)
(* qerase() looks its element up by pid.  The processes that are queued    *)
(* are in use, so their pids are distinct and a pid is modelled by the     *)
(* process that has it.                                                    *)
(***************************************************************************)
EXTENDS Integers, ProcSeq, Param

ASSUME NPROCAssumption == NPROC \in Nat \ {0}

VARIABLES head, tail, array, size,   \* struct Queue
          victim, curr,              \* qerase's element and loop index
          panicked                   \* panic() was called

queueVars == <<head, tail, array, size, victim, curr, panicked>>

Slots == 0..NPROC      \* array[NPROC + 1]

\* i + 1 modulo the NPROC + 1 slots of the array.
Succ(i) == IF i + 1 = NPROC + 1 THEN 0 ELSE i + 1

\* tail-- with its wrap from slot 0 to slot NPROC.
Pred(i) == IF i - 1 < 0 THEN NPROC ELSE i - 1

\* The slot k places after slot i, for k at most NPROC.
SlotAt(i, k) == IF i + k > NPROC THEN i + k - (NPROC + 1) ELSE i + k

Contents == [k \in 1..size |-> array[SlotAt(head, k - 1)]]

Queued == Members(Contents)

-----------------------------------------------------------------------------
QueueInit ==
  /\ head = 0 /\ tail = 0 /\ size = 0
  /\ array = [i \in Slots |-> NoProc]
  /\ victim = NoProc /\ curr = 0
  /\ panicked = FALSE

\* The caller is not inside qerase() and the kernel has not stopped.
Idle == victim = NoProc /\ ~panicked

Panic ==
  /\ panicked' = TRUE
  /\ UNCHANGED <<head, tail, array, size, victim, curr>>

\* mlfq_scheduler() pushes a process only when it is not queued.
Push(p) ==
  /\ Idle
  /\ p \notin Queued
  /\ IF size = NPROC
     THEN Panic
     ELSE /\ array' = [array EXCEPT ![tail] = p]
          /\ tail' = Succ(tail)
          /\ size' = size + 1
          /\ UNCHANGED <<head, victim, curr, panicked>>

\* mlfq_scheduler() pops only a queue whose size is not zero; the process it
\* takes is the one front() returned just before.
Pop ==
  /\ Idle
  /\ size # 0
  /\ head' = Succ(head)
  /\ size' = size - 1
  /\ UNCHANGED <<tail, array, victim, curr, panicked>>

EraseStartLate(p) ==
  /\ Idle
  /\ p \in Queued
  /\ victim' = p
  /\ curr' = Succ(head)
  /\ UNCHANGED <<head, tail, array, size, panicked>>

\* ageing() erases a process only when it is queued.
EraseStart(p) ==
  /\ Idle
  /\ p \in Queued
  /\ victim' = p
  /\ curr' = head
  /\ UNCHANGED <<head, tail, array, size, panicked>>

\* One iteration of qerase's loop: the element moves one slot to the tail.
EraseStep ==
  /\ victim # NoProc
  /\ curr # tail
  /\ array' = IF array[curr] = victim
              THEN [array EXCEPT ![curr] = array[Succ(curr)],
                                 ![Succ(curr)] = array[curr]]
              ELSE array
  /\ curr' = Succ(curr)
  /\ UNCHANGED <<head, tail, size, victim, panicked>>

EraseEnd ==
  /\ victim # NoProc
  /\ curr = tail
  /\ tail' = Pred(tail)
  /\ size' = size - 1
  /\ victim' = NoProc
  /\ UNCHANGED <<head, array, curr, panicked>>

QueueNext ==
  \/ \E p \in Proc : Push(p) \/ EraseStart(p)
  \/ Pop
  \/ EraseStep
  \/ EraseEnd

QueueSpec == QueueInit /\ [][QueueNext]_queueVars

-----------------------------------------------------------------------------
\* The fields of struct Queue and the locals of qerase() have their types.
QueueTypeOK ==
  /\ head \in Slots /\ tail \in Slots /\ curr \in Slots
  /\ size \in 0..NPROC
  /\ array \in [Slots -> Proc \cup {NoProc}]
  /\ victim \in Proc \cup {NoProc}
  /\ panicked \in BOOLEAN

\* size and the two indices always agree, through every wrap of head in pop()
\* and of tail in push() and qerase(); so front()'s test head == tail and the
\* callers' test of size mean the same.
RingInv == tail = SlotAt(head, size)

\* push() never reaches panic("Proccess limit exceeded"): NPROC slots are
\* enough for all the processes there are, as long as none is queued twice.
NoPanic == ~panicked

\* The queue as its caller sees it.  While qerase() runs, the element it is
\* moving is already out; after the last iteration it lies in the slot at the
\* tail, and the last slot before it holds what that slot held.
CallerLine ==
  IF victim = NoProc THEN Contents
  ELSE IF curr # tail THEN Remove(Contents, victim)
  ELSE [k \in 1..(size - 1) |-> Contents[k]]

Abs == INSTANCE ProcQueue WITH line <- CallerLine

\* The circular buffer implements the queue mlfq_scheduler() and ageing() rely
\* on: processes leave in the order they were pushed, none is lost, duplicated
\* or invented, and qerase() takes out its own element and keeps the order of
\* the others, wherever head and tail have wrapped to.
FifoWithErase == Abs!Spec
=============================================================================
