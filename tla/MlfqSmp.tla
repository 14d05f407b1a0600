------------------------------- MODULE MlfqSmp -------------------------------
(***************************************************************************)
(* mlfq_scheduler() of kernel/proc.c on several harts.  Nothing locks the  *)
(* queues, p->in_queue or the reads of p->state, so the harts' passes      *)
(* interleave; here they do so between the calls of queue.c, each of which *)
(* is one step.  (The compiler's loads and stores interleave still more.)  *)
(*                                                                         *)
(* One level is modelled, and no ageing: a process is never in two queues  *)
(* at once, and the calls on one queue are those of every other.           *)
(***************************************************************************)
EXTENDS Naturals, ProcSeq

CONSTANTS Hart, NPROC, None

Proc == 0..(NPROC - 1)

VARIABLES state, inQueue,    \* of every process
          line,              \* the queue
          pc, i, p,          \* of every hart: its place, loop index, process
          panicked           \* the argument of panic(), or None

vars == <<state, inQueue, line, pc, i, p, panicked>>

\* userinit() has made the first process.
Init ==
  /\ state = [q \in Proc |-> IF q = 0 THEN "RUNNABLE" ELSE "UNUSED"]
  /\ inQueue = [q \in Proc |-> FALSE]
  /\ line = <<>>
  /\ pc = [h \in Hart |-> "test"]
  /\ i = [h \in Hart |-> 0]
  /\ p = [h \in Hart |-> None]
  /\ panicked = None

Goto(h, place) == pc' = [pc EXCEPT ![h] = place]

\* The end of an iteration of the first loop.
NextProc(h) ==
  IF i[h] + 1 < NPROC
  THEN i' = [i EXCEPT ![h] = @ + 1] /\ Goto(h, "test")
  ELSE i' = [i EXCEPT ![h] = 0] /\ Goto(h, "while")

\* if (p->state == RUNNABLE && p->in_queue == 0)
Test(h) ==
  /\ pc[h] = "test"
  /\ \/ /\ state[i[h]] = "RUNNABLE" /\ ~inQueue[i[h]]
        /\ Goto(h, "push") /\ UNCHANGED i
     \/ /\ ~(state[i[h]] = "RUNNABLE" /\ ~inQueue[i[h]])
        /\ NextProc(h)
  /\ UNCHANGED <<state, inQueue, line, p, panicked>>

\* push(&mlfq[p->level], p)
Push(h) ==
  /\ pc[h] = "push"
  /\ \/ /\ Len(line) = NPROC
        /\ panicked' = "Proccess limit exceeded"
        /\ UNCHANGED <<line, pc>>
     \/ /\ Len(line) # NPROC
        /\ line' = Append(line, i[h])
        /\ Goto(h, "pushed")
        /\ UNCHANGED panicked
  /\ UNCHANGED <<state, inQueue, i, p>>

\* p->in_queue = 1
Pushed(h) ==
  /\ pc[h] = "pushed"
  /\ inQueue' = [inQueue EXCEPT ![i[h]] = TRUE]
  /\ NextProc(h)
  /\ UNCHANGED <<state, line, p, panicked>>

\* while (mlfq[level].size); without a process scheduler() starts over.
While(h) ==
  /\ pc[h] = "while"
  /\ Goto(h, IF line # <<>> THEN "front" ELSE "test")
  /\ UNCHANGED <<state, inQueue, line, i, p, panicked>>

\* front(&mlfq[level])
FrontCall(h) ==
  /\ pc[h] = "front"
  /\ p' = [p EXCEPT ![h] = IF line = <<>> THEN None ELSE Head(line)]
  /\ Goto(h, "pop")
  /\ UNCHANGED <<state, inQueue, line, i, panicked>>

\* pop(&mlfq[level])
Pop(h) ==
  /\ pc[h] = "pop"
  /\ \/ /\ line = <<>>
        /\ panicked' = "Poping from empty queue"
        /\ UNCHANGED <<line, pc>>
     \/ /\ line # <<>>
        /\ line' = Tail(line)
        /\ Goto(h, "popped")
        /\ UNCHANGED panicked
  /\ UNCHANGED <<state, inQueue, i, p>>

\* p->in_queue = 0, a store through a null pointer if front() returned one,
\* then the test of p->state.
Popped(h) ==
  /\ pc[h] = "popped"
  /\ \/ /\ p[h] = None
        /\ panicked' = "kerneltrap"
        /\ UNCHANGED <<inQueue, pc>>
     \/ /\ p[h] # None
        /\ inQueue' = [inQueue EXCEPT ![p[h]] = FALSE]
        /\ Goto(h, IF state[p[h]] = "RUNNABLE" THEN "dispatch" ELSE "while")
        /\ UNCHANGED panicked
  /\ UNCHANGED <<state, line, i, p>>

\* scheduler(), holding p->lock.
Dispatch(h) ==
  /\ pc[h] = "dispatch"
  /\ \/ /\ state[p[h]] = "RUNNABLE"
        /\ state' = [state EXCEPT ![p[h]] = "RUNNING"]
        /\ Goto(h, "run")
     \/ /\ state[p[h]] # "RUNNABLE"
        /\ Goto(h, "test")
        /\ UNCHANGED state
  /\ UNCHANGED <<inQueue, line, i, p, panicked>>

\* The process yields or sleeps, and the hart is back in scheduler().
LeaveCpu(h) ==
  /\ pc[h] = "run"
  /\ \E s \in {"RUNNABLE", "SLEEPING"} : state' = [state EXCEPT ![p[h]] = s]
  /\ Goto(h, "test")
  /\ UNCHANGED <<inQueue, line, i, p, panicked>>

Wakeup(q) ==
  /\ state[q] = "SLEEPING"
  /\ state' = [state EXCEPT ![q] = "RUNNABLE"]
  /\ UNCHANGED <<inQueue, line, pc, i, p, panicked>>

\* fork() by the process that runs on h
Fork(h, q) ==
  /\ pc[h] = "run" /\ state[q] = "UNUSED"
  /\ state' = [state EXCEPT ![q] = "RUNNABLE"]
  /\ UNCHANGED <<inQueue, line, pc, i, p, panicked>>

HartStep(h) ==
  \/ Test(h) \/ Push(h) \/ Pushed(h) \/ While(h) \/ FrontCall(h) \/ Pop(h)
  \/ Popped(h) \/ Dispatch(h) \/ LeaveCpu(h) \/ \E q \in Proc : Fork(h, q)

\* A panic stops the kernel.
Next ==
  \/ /\ panicked = None
     /\ \/ \E h \in Hart : HartStep(h)
        \/ \E q \in Proc : Wakeup(q)
  \/ panicked # None /\ UNCHANGED vars

Spec == Init /\ [][Next]_vars

-----------------------------------------------------------------------------
(* Properties *)

\* panic("Poping from empty queue"): pop() is only called on a queue that has a
\* process, which mlfq_scheduler() tests in its while before it calls front() and
\* pop().
NoEmptyPop == panicked # "Poping from empty queue"
=============================================================================
