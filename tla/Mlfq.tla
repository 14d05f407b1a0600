-------------------------------- MODULE Mlfq ---------------------------------
(***************************************************************************)
(* The multi-level feedback queue scheduler (make SCHEDULER=MLFQ) on one   *)
(* hart: mlfq_scheduler() and ageing() of kernel/proc.c, the dispatch in   *)
(* scheduler(), and the timer interrupt of kernel/trap.c.                  *)
(*                                                                         *)
(* The hart is either in scheduler()'s loop, at the place pc, with         *)
(* interrupts on, or it runs the process cur.  Each iteration of a loop    *)
(* of the scheduler is one step.  The queues are the sequences that        *)
(* Queue.tla is proved to implement; QueueCalls below says that they are   *)
(* used within what that proof assumes.                                    *)
(*                                                                         *)
(* Two fields are abstracted to what the code reads of them.  q_enter is   *)
(* read only in ticks - q_enter >= AGETICK: waited[p] is that difference,  *)
(* capped at AGETICK.  change_queue is read only while its process runs,   *)
(* and set on dispatch: changeQueue is the one of cur, 0 without a cur.    *)
(***************************************************************************)
EXTENDS Integers, ProcSeq, Param

CONSTANTS NMLFQ, AGETICK,
          Mortal       \* the processes that may call exit(); init never does

ASSUME MlfqAssumption ==
  NPROC \in Nat \ {0} /\ NMLFQ \in Nat \ {0} /\ AGETICK \in Nat \ {0}

Level == 0..(NMLFQ - 1)
States == {"UNUSED", "SLEEPING", "RUNNABLE", "RUNNING", "ZOMBIE"}

\* What 1 << level is between: arithmetic that the proofs take from here.
ASSUME PowerAssumption == \A l \in Level : 2 ^ l \in 1..(2 ^ (NMLFQ - 1))

VARIABLES state,       \* p->state
          level,       \* p->level
          inQueue,     \* p->in_queue
          waited,      \* ticks - p->q_enter, at most AGETICK
          mlfq,        \* the queues mlfq[NMLFQ]
          pc,          \* where the hart is
          i,           \* index of the loop the scheduler is in
          cur,         \* the process chosen, and then running, or NoProc
          changeQueue, \* its change_queue
          late         \* a timer interrupt came in this pass of the scheduler

vars == <<state, level, inQueue, waited, mlfq, pc, i, cur, changeQueue, late>>

Init ==
  /\ state = [p \in Proc |-> IF p = 0 THEN "RUNNABLE" ELSE "UNUSED"]
  /\ level = [p \in Proc |-> 0]
  /\ inQueue = [p \in Proc |-> FALSE]
  /\ waited = [p \in Proc |-> 0]
  /\ mlfq = [l \in Level |-> <<>>]
  /\ pc = "age" /\ i = 0 /\ cur = NoProc /\ changeQueue = 0 /\ late = FALSE

\* The next iteration of the loop over n elements, or else the place next.
LoopTo(next, n) ==
  IF i + 1 < n THEN i' = i + 1 /\ pc' = pc ELSE i' = 0 /\ pc' = next

\* Back to the top of scheduler()'s for (;;).
TopOfLoop ==
  pc' = "age" /\ i' = 0 /\ cur' = NoProc /\ changeQueue' = 0 /\ late' = FALSE

-----------------------------------------------------------------------------
(* scheduler() *)

AgeStepNoPromotion ==
  /\ pc = "age"
  /\ \/ /\ state[i] = "RUNNABLE" /\ waited[i] >= AGETICK
        /\ mlfq' = IF inQueue[i] THEN [mlfq EXCEPT ![level[i]] = Remove(@, i)]
                                 ELSE mlfq
        /\ inQueue' = [inQueue EXCEPT ![i] = FALSE]
        /\ waited' = [waited EXCEPT ![i] = 0]
     \/ /\ ~(state[i] = "RUNNABLE" /\ waited[i] >= AGETICK)
        /\ UNCHANGED <<mlfq, inQueue, waited>>
  /\ LoopTo("push", NPROC)
  /\ UNCHANGED <<state, level, cur, changeQueue, late>>

AgeStepNoErase ==
  /\ pc = "age"
  /\ \/ /\ state[i] = "RUNNABLE" /\ waited[i] >= AGETICK
        /\ inQueue' = [inQueue EXCEPT ![i] = FALSE]
        /\ level' = [level EXCEPT ![i] = IF @ = 0 THEN @ ELSE @ - 1]
        /\ waited' = [waited EXCEPT ![i] = 0]
     \/ /\ ~(state[i] = "RUNNABLE" /\ waited[i] >= AGETICK)
        /\ UNCHANGED <<inQueue, level, waited>>
  /\ LoopTo("push", NPROC)
  /\ UNCHANGED <<state, mlfq, cur, changeQueue, late>>

\* ageing(), for proc[i]: a process that has waited AGETICK ticks leaves its
\* queue and moves one level up.
AgeStep ==
  /\ pc = "age"
  /\ \/ /\ state[i] = "RUNNABLE" /\ waited[i] >= AGETICK
        /\ mlfq' = IF inQueue[i] THEN [mlfq EXCEPT ![level[i]] = Remove(@, i)]
                                 ELSE mlfq
        /\ inQueue' = [inQueue EXCEPT ![i] = FALSE]
        /\ level' = [level EXCEPT ![i] = IF @ = 0 THEN @ ELSE @ - 1]
        /\ waited' = [waited EXCEPT ![i] = 0]
     \/ /\ ~(state[i] = "RUNNABLE" /\ waited[i] >= AGETICK)
        /\ UNCHANGED <<mlfq, inQueue, level, waited>>
  /\ LoopTo("push", NPROC)
  /\ UNCHANGED <<state, cur, changeQueue, late>>

PushStepAlways ==
  /\ pc = "push"
  /\ \/ /\ state[i] = "RUNNABLE"
        /\ mlfq' = [mlfq EXCEPT ![level[i]] = Append(@, i)]
        /\ inQueue' = [inQueue EXCEPT ![i] = TRUE]
     \/ /\ state[i] # "RUNNABLE"
        /\ UNCHANGED <<mlfq, inQueue>>
  /\ LoopTo("pop", NPROC)
  /\ UNCHANGED <<state, level, waited, cur, changeQueue, late>>

PushStepTopLevel ==
  /\ pc = "push"
  /\ \/ /\ state[i] = "RUNNABLE" /\ ~inQueue[i]
        /\ mlfq' = [mlfq EXCEPT ![0] = Append(@, i)]
        /\ inQueue' = [inQueue EXCEPT ![i] = TRUE]
     \/ /\ ~(state[i] = "RUNNABLE" /\ ~inQueue[i])
        /\ UNCHANGED <<mlfq, inQueue>>
  /\ LoopTo("pop", NPROC)
  /\ UNCHANGED <<state, level, waited, cur, changeQueue, late>>

\* The first loop of mlfq_scheduler(), for proc[i].
PushStep ==
  /\ pc = "push"
  /\ \/ /\ state[i] = "RUNNABLE" /\ ~inQueue[i]
        /\ mlfq' = [mlfq EXCEPT ![level[i]] = Append(@, i)]
        /\ inQueue' = [inQueue EXCEPT ![i] = TRUE]
     \/ /\ ~(state[i] = "RUNNABLE" /\ ~inQueue[i])
        /\ UNCHANGED <<mlfq, inQueue>>
  /\ LoopTo("pop", NPROC)
  /\ UNCHANGED <<state, level, waited, cur, changeQueue, late>>

\* The second loop of mlfq_scheduler(), at the level i, when its queue is not
\* empty: front() and pop(), and return if the process is runnable.
PopStep ==
  /\ pc = "pop"
  /\ mlfq[i] # <<>>
  /\ LET p == Head(mlfq[i]) IN
       /\ mlfq' = [mlfq EXCEPT ![i] = Tail(@)]
       /\ inQueue' = [inQueue EXCEPT ![p] = FALSE]
       /\ IF state[p] = "RUNNABLE"
          THEN /\ waited' = [waited EXCEPT ![p] = 0]
               /\ cur' = p
               /\ pc' = "dispatch" /\ i' = 0
          ELSE UNCHANGED <<waited, cur, pc, i>>
  /\ UNCHANGED <<state, level, changeQueue, late>>

\* The same loop when the queue is empty; after the last level
\* mlfq_scheduler() returns 0 and scheduler() starts over.
NextLevel ==
  /\ pc = "pop"
  /\ mlfq[i] = <<>>
  /\ IF i + 1 < NMLFQ THEN i' = i + 1 /\ UNCHANGED <<pc, cur, changeQueue, late>>
                      ELSE TopOfLoop
  /\ UNCHANGED <<state, level, inQueue, waited, mlfq>>

\* scheduler() takes p->lock and runs the process if it is still runnable.
Dispatch ==
  /\ pc = "dispatch"
  /\ IF state[cur] = "RUNNABLE"
     THEN /\ changeQueue' = 2 ^ level[cur]
          /\ state' = [state EXCEPT ![cur] = "RUNNING"]
          /\ waited' = [waited EXCEPT ![cur] = 0]
          /\ pc' = "run"
          /\ UNCHANGED <<i, cur, late>>
     ELSE /\ TopOfLoop
          /\ UNCHANGED <<state, waited>>
  /\ UNCHANGED <<level, inQueue, mlfq>>

-----------------------------------------------------------------------------
(* Interrupts *)

\* ticks++ moves every ticks - q_enter.
Later == [p \in Proc |-> IF waited[p] < AGETICK THEN waited[p] + 1 ELSE AGETICK]

\* clockintr() while the hart is in the scheduler: there is no myproc().
\* A pass of the scheduler is shorter than a tick, so at most one timer
\* interrupt comes in it.
TimerInScheduler ==
  /\ pc # "run"
  /\ ~late
  /\ late' = TRUE
  /\ waited' = Later
  /\ UNCHANGED <<state, level, inQueue, mlfq, pc, i, cur, changeQueue>>

\* clockintr() while cur runs, then usertrap() or kerneltrap(): a process
\* that has used up its slice moves one level down and yields.
TimerInProcess ==
  /\ pc = "run"
  /\ waited' = Later
  /\ \/ /\ changeQueue - 1 <= 0
        /\ level' = [level EXCEPT ![cur] = IF @ + 1 # NMLFQ THEN @ + 1 ELSE @]
        /\ state' = [state EXCEPT ![cur] = "RUNNABLE"]
        /\ TopOfLoop
     \/ /\ changeQueue - 1 > 0
        /\ changeQueue' = changeQueue - 1
        /\ UNCHANGED <<state, level, pc, i, cur, late>>
  /\ UNCHANGED <<inQueue, mlfq>>

Timer == TimerInScheduler \/ TimerInProcess

\* wakeup() by an interrupt or by the running process, or its kill().
Wakeup(p) ==
  /\ state[p] = "SLEEPING"
  /\ state' = [state EXCEPT ![p] = "RUNNABLE"]
  /\ UNCHANGED <<level, inQueue, waited, mlfq, pc, i, cur, changeQueue, late>>

-----------------------------------------------------------------------------
(* The running process *)

\* sleep() or exit(): the process leaves the CPU in the state s.
LeaveCpu(s) ==
  /\ pc = "run"
  /\ state' = [state EXCEPT ![cur] = s]
  /\ TopOfLoop
  /\ UNCHANGED <<level, inQueue, waited, mlfq>>

Sleep == LeaveCpu("SLEEPING")

Exit == cur \in Mortal /\ LeaveCpu("ZOMBIE")

\* freeproc(), from wait(), leaves the scheduler's fields as they are.
Reap(p) ==
  /\ pc = "run"
  /\ state[p] = "ZOMBIE"
  /\ state' = [state EXCEPT ![p] = "UNUSED"]
  /\ UNCHANGED <<level, inQueue, waited, mlfq, pc, i, cur, changeQueue, late>>

\* fork(): allocproc() takes the slot over as freeproc() left it.
Fork(p) ==
  /\ pc = "run"
  /\ state[p] = "UNUSED"
  /\ state' = [state EXCEPT ![p] = "RUNNABLE"]
  /\ UNCHANGED <<level, inQueue, waited, mlfq, pc, i, cur, changeQueue, late>>

Scheduler == AgeStep \/ PushStep \/ PopStep \/ NextLevel \/ Dispatch

Next ==
  \/ Scheduler
  \/ Timer
  \/ Sleep
  \/ Exit
  \/ \E p \in Proc : Wakeup(p) \/ Reap(p) \/ Fork(p)

Spec == Init /\ [][Next]_vars

\* The scheduler's loop never stops and the timer keeps interrupting.
FairSpec == Spec /\ WF_vars(Scheduler) /\ WF_vars(Timer)

-----------------------------------------------------------------------------
(* Properties *)

\* Types; p->level stays an index of mlfq[] through every promotion and
\* demotion, and change_queue never becomes negative.
TypeOK ==
  /\ state \in [Proc -> States]
  /\ level \in [Proc -> Level]
  /\ inQueue \in [Proc -> BOOLEAN]
  /\ waited \in [Proc -> 0..AGETICK]
  /\ mlfq \in [Level -> Seq(Proc)]
  /\ pc \in {"age", "push", "pop", "dispatch", "run"}
  /\ i \in Proc \cup Level
  /\ cur \in Proc \cup {NoProc}
  /\ changeQueue \in 0..(2 ^ (NMLFQ - 1))
  /\ late \in BOOLEAN

\* A process is in the queue of its own level exactly when its in_queue flag
\* is set, and in no other, and at most once; a demotion, a promotion or the
\* reuse of a slot never leaves a stale entry behind.  Only runnable processes
\* are queued, so mlfq_scheduler()'s test of p->state after pop() and
\* scheduler()'s test under p->lock never fail on one hart: no process that
\* leaves a queue is dropped.  The hart runs exactly the one RUNNING process, and
\* what is left of its slice is between one tick and the 1 << level ticks it got;
\* every variable has its type.
QueuesExact ==
  /\ \A p \in Proc, l \in Level :
       p \in Members(mlfq[l]) <=> inQueue[p] /\ level[p] = l
  /\ \A l \in Level : \A j, k \in 1..Len(mlfq[l]) :
       mlfq[l][j] = mlfq[l][k] => j = k
  /\ \A p \in Proc : inQueue[p] => state[p] = "RUNNABLE"
  /\ pc = "dispatch" => state[cur] = "RUNNABLE" /\ ~inQueue[cur]
  /\ \A p \in Proc : state[p] = "RUNNING" <=> pc = "run" /\ p = cur
  /\ pc = "run" => ~inQueue[cur] /\ changeQueue \in 1..(2 ^ level[cur])
  /\ TypeOK

\* The queues are used as Queue.tla assumes: push() of a process that is not
\* in the queue, pop() of a queue that is not empty, qerase() of a process
\* that is in the queue, and nothing else changes them.
Line(l) == INSTANCE ProcQueue WITH line <- mlfq[l]

QueueCalls == [][\A l \in Level : Line(l)!Next \/ mlfq'[l] = mlfq[l]]_mlfq

\* mlfq_scheduler() returns a process of the best level among all that were
\* runnable when it filled the queues.
BestLevelFirst ==
  [][pc = "pop" /\ pc' = "dispatch" =>
       \A p \in Proc : inQueue[p] => level[cur'] <= level[p]]_vars

\* "MLFQ scheduler uses the phenomenon of ageing to prevent starvation"
\* (README.md): every runnable process is run, whatever the others do.
NoStarvation ==
  \A p \in Proc : state[p] = "RUNNABLE" ~> state[p] = "RUNNING"
=============================================================================
