-------------------------------- MODULE Sched --------------------------------
(***************************************************************************)
(* The scheduling policies RR, FCFS and PBS (make SCHEDULER=...) and the   *)
(* time and priority accounting they rest on: RoundRobin(), fcfs(),        *)
(* pbs_scheduler() and scheduler() of kernel/proc.c, clockintr() and the   *)
(* yields of kernel/trap.c, set_priority() and waitx().  (MLFQ: Mlfq.tla.) *)
(*                                                                         *)
(* A policy reads the process table without a lock, one slot per step, and *)
(* scheduler() then takes its choice under p->lock.  clockintr(), which    *)
(* runs on Hart0 only, also locks one slot at a time, in each of its two   *)
(* loops.  p->niceness is only used next to where it is computed, so it is *)
(* a value and not state; p->etime is read by waitx()'s report only, and   *)
(* is left out with it.  Who is whose parent is left to the process table: *)
(* here any running process may reap.                                      *)
(*                                                                         *)
(* A build is a value of SCHEDULER and the harts of the machine (CPUS).    *)
(***************************************************************************)
EXTENDS Integers, Param

CONSTANTS Hart, Hart0,   \* the harts; Hart0 is the one that counts ticks
          Build,         \* policies, "RR", "FCFS" or "PBS", with sets of harts
          Requests,      \* the priorities passed to set_priority(), integers
          Mortal,        \* the processes that may exit
          None,
          MaxTicks,      \* bound: ticks counted
          MaxRuns        \* bound: p->n_run stops there

\* Hart0 is one of the harts, and pbs_scheduler() starts from proc[1].
ASSUME SchedAssumption ==
  /\ NPROC \in Nat /\ 2 <= NPROC
  /\ Hart0 \in Hart
  /\ \A b \in Build : b.policy \in {"RR", "FCFS", "PBS"} /\ b.harts \subseteq Hart
  /\ Requests \subseteq Int
  /\ MaxTicks \in Nat /\ MaxRuns \in Nat

Slot == 0..(NPROC - 1)

VARIABLES build,
          state, ctime, rtime, sleepTime, nRun,
          staticPriority, dynamicPriority,   \* fields of struct proc
          ticks,
          alpha,         \* RoundRobin()'s index
          pc, chosen,    \* of every hart: its place and its process
          i, best,       \* of every hart: the index and minimum of its scan
          clock          \* the place of Hart0 in clockintr(): <<loop, slot>>

timeVars == <<ctime, rtime, sleepTime>>
prioVars == <<staticPriority, dynamicPriority, nRun>>
scanVars == <<chosen, i, best>>
vars == <<build, state, timeVars, prioVars, ticks, alpha, pc, scanVars, clock>>

Policy == build.policy

Zero == [p \in Slot |-> 0]
Out == <<"out", 0>>

\* init has been made by userinit(); the other slots are as loaded.
Init ==
  /\ build \in Build
  /\ state = [p \in Slot |-> IF p = 0 THEN "RUNNABLE" ELSE "UNUSED"]
  /\ ctime = Zero /\ rtime = Zero /\ sleepTime = Zero
  /\ nRun = Zero
  /\ staticPriority = [p \in Slot |-> IF p = 0 THEN 60 ELSE 0]
  /\ dynamicPriority = staticPriority
  /\ ticks = 0 /\ alpha = 0
  /\ pc = [h \in Hart |-> IF h \in build.harts THEN "pick" ELSE "off"]
  /\ chosen = [h \in Hart |-> None]
  /\ i = [h \in Hart |-> 0]
  /\ best = [h \in Hart |-> None]
  /\ clock = Out

Runnable == {p \in Slot : state[p] = "RUNNABLE"}

-----------------------------------------------------------------------------
(* The policies *)

RoundRobin == (alpha + 1) % NPROC

FcfsStepNewest(b, p) ==
  IF state[p] = "RUNNABLE" /\ ctime[p] >= b.min
  THEN [index |-> p, min |-> ctime[p]] ELSE b

\* One iteration of fcfs()'s loop; b holds its index and mintime.
FcfsStep(b, p) ==
  IF state[p] = "RUNNABLE" /\ ctime[p] <= b.min
  THEN [index |-> p, min |-> ctime[p]] ELSE b

\* One iteration of pbs_scheduler()'s loop, its three ifs in order; b holds
\* its index and min_priority.
PbsStep(b, p) ==
  LET it == [index |-> p, min |-> dynamicPriority[p]]
      b1 == IF dynamicPriority[p] < b.min THEN it ELSE b
      b2 == IF dynamicPriority[p] = b1.min /\ nRun[p] < nRun[b1.index] THEN it ELSE b1
      b3 == IF /\ dynamicPriority[p] = b2.min
               /\ nRun[p] = nRun[b2.index]
               /\ ctime[p] < ctime[b2.index]
            THEN it ELSE b2
  IN  IF state[p] # "RUNNABLE" THEN b ELSE b3

ScanStart == IF Policy = "FCFS" THEN [index |-> 0, min |-> ticks]
                                ELSE [index |-> 1, min |-> 10000]
ScanStep(b, p) == IF Policy = "FCFS" THEN FcfsStep(b, p) ELSE PbsStep(b, p)

\* What the scan chooses when nothing disturbs it.
Scan ==
  LET After[k \in 0..NPROC] ==
        IF k = 0 THEN ScanStart ELSE ScanStep(After[k - 1], k - 1)
  IN  After[NPROC].index

\* Hart h is at the given place, and clockintr() has not interrupted it.
At(h, place) == pc[h] = place /\ (h = Hart0 => clock = Out)

Goto(h, place) == pc' = [pc EXCEPT ![h] = place]

\* scheduler() calls the policy.  RoundRobin() loads alpha and stores the
\* successor it returns; the others start their scan.
Pick(h) ==
  /\ At(h, "pick")
  /\ IF Policy = "RR"
     THEN /\ chosen' = [chosen EXCEPT ![h] = RoundRobin]
          /\ Goto(h, "store") /\ UNCHANGED <<i, best>>
     ELSE /\ best' = [best EXCEPT ![h] = ScanStart]
          /\ Goto(h, "scan") /\ UNCHANGED <<i, chosen>>
  /\ UNCHANGED <<build, state, timeVars, prioVars, ticks, alpha, clock>>

StoreAlpha(h) ==
  /\ At(h, "store")
  /\ alpha' = chosen[h]
  /\ Goto(h, "take")
  /\ UNCHANGED <<build, state, timeVars, prioVars, ticks, scanVars, clock>>

\* One slot of the scan of fcfs() or pbs_scheduler().
ScanSlot(h) ==
  /\ At(h, "scan")
  /\ LET b == ScanStep(best[h], i[h]) IN
     IF i[h] + 1 < NPROC
     THEN /\ best' = [best EXCEPT ![h] = b]
          /\ i' = [i EXCEPT ![h] = @ + 1]
          /\ UNCHANGED <<chosen, pc>>
     ELSE /\ best' = [best EXCEPT ![h] = None]
          /\ i' = [i EXCEPT ![h] = 0]
          /\ chosen' = [chosen EXCEPT ![h] = b.index]
          /\ Goto(h, "take")
  /\ UNCHANGED <<build, state, timeVars, prioVars, ticks, alpha, clock>>

TakeUnchecked(h) ==
  LET p == chosen[h] IN
  /\ At(h, "take")
  /\ staticPriority' = [staticPriority EXCEPT ![p] = dynamicPriority[p]]
  /\ sleepTime' = [sleepTime EXCEPT ![p] = 0]
  /\ state' = [state EXCEPT ![p] = "RUNNING"]
  /\ nRun' = [nRun EXCEPT ![p] = IF @ < MaxRuns THEN @ + 1 ELSE @]
  /\ pc' = [pc EXCEPT ![h] = "run"]
  /\ UNCHANGED <<build, ctime, rtime, dynamicPriority, ticks, alpha, scanVars, clock>>

\* scheduler() acquires p->lock; actually_set_priority(p->dynamic_priority,
\* p->pid) makes the dynamic priority the static one and clears sleep_time.
Take(h) ==
  LET p == chosen[h] IN
  /\ At(h, "take")
  /\ \/ /\ state[p] = "RUNNABLE"
        /\ staticPriority' = [staticPriority EXCEPT ![p] = dynamicPriority[p]]
        /\ sleepTime' = [sleepTime EXCEPT ![p] = 0]
        /\ state' = [state EXCEPT ![p] = "RUNNING"]
        /\ nRun' = [nRun EXCEPT ![p] = IF @ < MaxRuns THEN @ + 1 ELSE @]
        /\ Goto(h, "run")
        /\ UNCHANGED chosen
     \/ /\ state[p] # "RUNNABLE"
        /\ Goto(h, "pick")
        /\ chosen' = [chosen EXCEPT ![h] = None]
        /\ UNCHANGED <<state, staticPriority, sleepTime, nRun>>
  /\ UNCHANGED <<build, ctime, rtime, dynamicPriority, ticks, alpha, i, best, clock>>

-----------------------------------------------------------------------------
(* The timer interrupt *)

\* The process of h leaves the CPU in the state s.
OffCpu(h, s) ==
  /\ state' = [state EXCEPT ![chosen[h]] = s]
  /\ Goto(h, "pick")
  /\ chosen' = [chosen EXCEPT ![h] = None]
  /\ UNCHANGED <<i, best>>

Ran(p) == IF state[p] = "RUNNING" THEN 1 ELSE 0

\* clockintr(): ticks++.  (Its wakeup(&ticks) is a Wakeup of any sleeper.)
ClockStart ==
  /\ clock = Out
  /\ ticks < MaxTicks
  /\ ticks' = ticks + 1
  /\ clock' = <<"update", 0>>
  /\ UNCHANGED <<build, state, timeVars, prioVars, alpha, pc, scanVars>>

\* One slot of update_time(); after the last one, myproc()->rtime++.
UpdateTime ==
  LET p == clock[2]
      counted == [rtime EXCEPT ![p] = @ + Ran(p)]
  IN
  /\ clock[1] = "update"
  /\ IF p + 1 < NPROC
     THEN clock' = <<"update", p + 1>> /\ rtime' = counted
     ELSE /\ clock' = <<"loop", 0>>
          /\ rtime' = IF pc[Hart0] = "run"
                      THEN [counted EXCEPT ![chosen[Hart0]] = @ + 1] ELSE counted
  /\ UNCHANGED <<build, state, ctime, sleepTime, prioVars, ticks, alpha, pc, scanVars>>

\* C's int division on nonnegative operands; RISC-V divides by zero to -1.
Quotient(a, b) == IF b = 0 THEN -1 ELSE a \div b

\* max(0, min(p->static_priority - p->niceness + 5, 100))
Dynamic(static, niceness) ==
  LET d == static - niceness + 5
  IN  IF d > 100 THEN 100 ELSE IF d < 0 THEN 0 ELSE d

\* One slot of the loop that ends clockintr(); after the last one, the yield
\* of usertrap() or kerneltrap(), except with FCFS.
ClockLoop ==
  LET p == clock[2]
      slept == sleepTime[p] + IF state[p] = "SLEEPING" THEN 1 ELSE 0
      run == rtime[p] + Ran(p)
  IN
  /\ clock[1] = "loop"
  /\ sleepTime' = [sleepTime EXCEPT ![p] = slept]
  /\ rtime' = [rtime EXCEPT ![p] = run]
  /\ dynamicPriority' = [dynamicPriority EXCEPT ![p] =
       Dynamic(staticPriority[p], Quotient(slept, slept + run) * 10)]
  /\ clock' = IF p + 1 < NPROC THEN <<"loop", p + 1>> ELSE Out
  /\ IF p + 1 = NPROC /\ pc[Hart0] = "run" /\ Policy # "FCFS"
     THEN OffCpu(Hart0, "RUNNABLE") ELSE UNCHANGED <<state, pc, scanVars>>
  /\ UNCHANGED <<build, ctime, staticPriority, nRun, ticks, alpha>>

\* A timer interrupt that counts nothing: on another hart, or after MaxTicks.
Preempt(h) ==
  /\ At(h, "run") /\ Policy # "FCFS"
  /\ h = Hart0 => ticks = MaxTicks
  /\ OffCpu(h, "RUNNABLE")
  /\ UNCHANGED <<build, timeVars, prioVars, ticks, alpha, clock>>

-----------------------------------------------------------------------------
(* The processes *)

Sleep(h) ==
  /\ At(h, "run")
  /\ OffCpu(h, "SLEEPING")
  /\ UNCHANGED <<build, timeVars, prioVars, ticks, alpha, clock>>

Wakeup(p) ==
  /\ state[p] = "SLEEPING"
  /\ state' = [state EXCEPT ![p] = "RUNNABLE"]
  /\ UNCHANGED <<build, timeVars, prioVars, ticks, alpha, pc, scanVars, clock>>

Exit(h) ==
  /\ At(h, "run")
  /\ chosen[h] \in Mortal
  /\ OffCpu(h, "ZOMBIE")
  /\ UNCHANGED <<build, timeVars, prioVars, ticks, alpha, clock>>

\* waitx() frees a child; what it reports of its times is not kept.
Waitx(h, p) ==
  /\ At(h, "run")
  /\ state[p] = "ZOMBIE"
  /\ state' = [state EXCEPT ![p] = "UNUSED"]
  /\ UNCHANGED <<build, timeVars, prioVars, ticks, alpha, pc, scanVars, clock>>

ForkKeepsRtime(h, p) ==
  /\ At(h, "run")
  /\ state[p] = "UNUSED"
  /\ state' = [state EXCEPT ![p] = "RUNNABLE"]
  /\ ctime' = [ctime EXCEPT ![p] = ticks]
  /\ staticPriority' = [staticPriority EXCEPT ![p] = 60]
  /\ dynamicPriority' = [dynamicPriority EXCEPT ![p] = 60]
  /\ UNCHANGED <<build, rtime, sleepTime, nRun, ticks, alpha, pc, scanVars, clock>>

\* allocproc() and fork(); sleep_time and n_run keep their old values.  The
\* scan of allocproc() locks one slot at a time, so that a slot it has
\* passed may be free again: any free slot may be the one it takes.
Fork(h, p) ==
  /\ At(h, "run")
  /\ state[p] = "UNUSED"
  /\ state' = [state EXCEPT ![p] = "RUNNABLE"]
  /\ ctime' = [ctime EXCEPT ![p] = ticks]
  /\ rtime' = [rtime EXCEPT ![p] = 0]
  /\ staticPriority' = [staticPriority EXCEPT ![p] = 60]
  /\ dynamicPriority' = [dynamicPriority EXCEPT ![p] = 60]
  /\ UNCHANGED <<build, sleepTime, nRun, ticks, alpha, pc, scanVars, clock>>

\* The first slot with the pid is changed; every unused slot has pid 0.
actually_set_priority(priority, p) ==
  /\ state[p] # "UNUSED" \/ \A q \in 0..(p - 1) : state[q] # "UNUSED"
  /\ staticPriority' = [staticPriority EXCEPT ![p] = priority]
  /\ sleepTime' = [sleepTime EXCEPT ![p] = 0]

\* sys_set_priority(), which refuses a priority out of range and every call
\* when the kernel is not built for PBS.
SetPriority(h, p, priority) ==
  /\ At(h, "run")
  /\ Policy = "PBS" /\ priority >= 0 /\ priority <= 100
  /\ actually_set_priority(priority, p)
  /\ UNCHANGED <<build, state, ctime, rtime, nRun, dynamicPriority, ticks, alpha, pc, scanVars, clock>>

Next ==
  \/ ClockStart
  \/ UpdateTime
  \/ ClockLoop
  \/ \E h \in Hart :
       \/ Pick(h) \/ StoreAlpha(h) \/ ScanSlot(h) \/ Take(h)
       \/ Preempt(h) \/ Sleep(h) \/ Exit(h)
       \/ \E p \in Slot :
            \/ Waitx(h, p) \/ Fork(h, p)
            \/ \E r \in Requests : SetPriority(h, p, r)
  \/ \E p \in Slot : Wakeup(p)

Spec == Init /\ [][Next]_vars

-----------------------------------------------------------------------------
(* Properties *)

\* However stale the choice of an unlocked scan is by the time scheduler()
\* locks it, exactly the RUNNING processes are on a hart, each on one.
OneHart ==
  /\ \A h, g \in Hart : pc[h] = "run" /\ pc[g] = "run" /\ h # g => chosen[h] # chosen[g]
  /\ {p \in Slot : state[p] = "RUNNING"} = {chosen[h] : h \in {g \in Hart : pc[g] = "run"}}

\* A pass of fcfs() or pbs_scheduler() that is about to begin, if it is not
\* disturbed, returns a RUNNABLE process, if there is one, that no other
\* precedes: in creation time for fcfs(), and for pbs_scheduler() in dynamic
\* priority, then in number of runs, then in creation time, although the best so
\* far changes between its three ifs.
ScanBest ==
  LET Before(p, q) ==
        \/ Policy = "PBS" /\ dynamicPriority[p] < dynamicPriority[q]
        \/ /\ Policy = "PBS" => dynamicPriority[p] = dynamicPriority[q]
           /\ \/ Policy = "PBS" /\ nRun[p] < nRun[q]
              \/ (Policy = "PBS" => nRun[p] = nRun[q]) /\ ctime[p] < ctime[q]
  IN  Policy # "RR" /\ (\E h \in Hart : pc[h] = "pick") /\ Runnable # {} =>
        Scan \in Runnable /\ ~\E q \in Runnable : Before(q, Scan)

\* clockintr() adds at most 3 to the rtime of a process for every tick since
\* its creation (once in update_time(), once in its own loop, once more for
\* the process it interrupted), and on other harts at most 2 for the tick
\* during which it was created; with PBS its clamp and the test of
\* sys_set_priority() keep both priorities within 0..100.
AccountingBound ==
  \A p \in Slot :
    /\ rtime[p] <= 3 * (ticks - ctime[p]) + (IF build.harts = {Hart0} THEN 0 ELSE 2)
    /\ Policy = "PBS" => {staticPriority[p], dynamicPriority[p]} \subseteq 0..100
=============================================================================
