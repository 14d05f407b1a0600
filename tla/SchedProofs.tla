----------------------------- MODULE SchedProofs -----------------------------
(***************************************************************************)
(* Proofs about the policies RR, FCFS and PBS and their accounting, for    *)
(* any process table, any harts and any number of ticks: a process runs on *)
(* one hart at a time, what clockintr() adds to a process and to the       *)
(* priorities is bounded, and the scans of fcfs() and pbs_scheduler() find *)
(* the process that their order puts first.                                *)
(***************************************************************************)
EXTENDS Sched, TLAPS

States == {"UNUSED", "SLEEPING", "RUNNABLE", "RUNNING", "ZOMBIE"}

Best == [index : Slot, min : Int]

TypeInv ==
  /\ build \in Build
  /\ state \in [Slot -> States]
  /\ ctime \in [Slot -> Nat] /\ rtime \in [Slot -> Nat] /\ sleepTime \in [Slot -> Nat]
  /\ nRun \in [Slot -> Nat]
  /\ staticPriority \in [Slot -> 0..100] /\ dynamicPriority \in [Slot -> 0..100]
  /\ ticks \in Nat /\ alpha \in Slot
  /\ pc \in [Hart -> {"off", "pick", "store", "scan", "take", "run"}]
  /\ chosen \in [Hart -> Slot \cup {None}]
  /\ i \in [Hart -> Slot]
  /\ best \in [Hart -> Best \cup {None}]
  /\ clock \in {Out} \cup ({"update", "loop"} \X Slot)

\* A hart at the places after the choice has a process, and one that scans has a
\* best so far; a hart that the build does not have stays off.
PlaceInv ==
  \A h \in Hart :
    /\ pc[h] \in {"store", "take", "run"} => chosen[h] \in Slot
    /\ pc[h] = "scan" => best[h] \in Best
    /\ h \notin build.harts => pc[h] = "off"

\* The RUNNING processes are on a hart, each on one.
RunInv ==
  /\ \A h, g \in Hart : pc[h] = "run" /\ pc[g] = "run" /\ chosen[h] = chosen[g] => h = g
  /\ \A h \in Hart : pc[h] = "run" => state[chosen[h]] = "RUNNING"
  /\ \A p \in Slot : state[p] = "RUNNING" => \E h \in Hart : pc[h] = "run" /\ chosen[h] = p

\* What clockintr() may still add to p->rtime for the tick it has counted: in
\* update_time() and in its own loop, where they have not come to p yet, and
\* once more for the process it has interrupted.
Pending(p) ==
  IF clock[1] = "update"
  THEN 1 + (IF p >= clock[2] THEN 1 ELSE 0)
         + (IF pc[Hart0] = "run" /\ chosen[Hart0] = p THEN 1 ELSE 0)
  ELSE IF clock[1] = "loop" /\ p >= clock[2] THEN 1 ELSE 0

Allowance == IF build.harts = {Hart0} THEN 0 ELSE 2

TimeInv ==
  \A p \in Slot : rtime[p] + Pending(p) <= 3 * (ticks - ctime[p]) + Allowance

IInv == TypeInv /\ PlaceInv /\ RunInv /\ TimeInv

-----------------------------------------------------------------------------
(* The invariant *)

\* Where a slot is in the table.
LEMMA SlotFacts ==
  0 \in Slot /\ 1 \in Slot /\ \A p \in Slot : p \in Nat /\ (p + 1 < NPROC => p + 1 \in Slot)
  BY SchedAssumption DEF Slot

\* The places of clockintr()
LEMMA ClockFacts ==
  ASSUME TypeInv
  PROVE  /\ clock = Out => clock[1] = "out"
         /\ clock # Out => clock[1] \in {"update", "loop"} /\ clock[2] \in Slot
         /\ clock = <<clock[1], clock[2]>>
  BY DEF TypeInv, Out

\* A step in which no hart starts or stops running a process.
LEMMA RunKept ==
  ASSUME RunInv, PlaceInv,
         \A h \in Hart : /\ pc'[h] = "run" <=> pc[h] = "run"
                         /\ pc[h] = "run" => chosen'[h] = chosen[h],
         \A p \in Slot : state'[p] = "RUNNING" <=> state[p] = "RUNNING"
  PROVE  RunInv'
  BY DEF RunInv, PlaceInv

\* A process leaves the CPU.
LEMMA OffRun ==
  ASSUME TypeInv, PlaceInv, RunInv, NEW h \in Hart, pc[h] = "run",
         NEW s \in States, s # "RUNNING", OffCpu(h, s)
  PROVE  /\ RunInv'
         /\ state' \in [Slot -> States] /\ chosen' \in [Hart -> Slot \cup {None}]
         /\ pc' \in [Hart -> {"off", "pick", "store", "scan", "take", "run"}]
         /\ pc' = [pc EXCEPT ![h] = "pick"] /\ chosen' = [chosen EXCEPT ![h] = None]
         /\ UNCHANGED <<i, best>>
  <1>1. /\ state' = [state EXCEPT ![chosen[h]] = s] /\ pc' = [pc EXCEPT ![h] = "pick"]
        /\ chosen' = [chosen EXCEPT ![h] = None] /\ UNCHANGED <<i, best>>
    BY Zenon DEF OffCpu, Goto
  <1>2. PICK p \in Slot : p = chosen[h]
    BY Zenon DEF PlaceInv
  <1>3. /\ state'[p] = s /\ \A q \in Slot : q # p => state'[q] = state[q]
        /\ pc'[h] = "pick" /\ \A g \in Hart : g # h => pc'[g] = pc[g] /\ chosen'[g] = chosen[g]
    BY Zenon, <1>1, <1>2 DEF TypeInv
  <1>4. RunInv'
    <2>1. \A g, k \in Hart : pc'[g] = "run" /\ pc'[k] = "run" /\ chosen'[g] = chosen'[k] => g = k
      BY <1>3 DEF RunInv
    <2>2. ASSUME NEW g \in Hart, pc'[g] = "run"
          PROVE  state'[chosen'[g]] = "RUNNING"
      <3>1. g # h /\ pc[g] = "run" /\ chosen'[g] = chosen[g] /\ chosen[g] \in Slot
        BY Zenon, <1>3, <2>2 DEF PlaceInv
      <3>2. chosen[g] # p /\ state[chosen[g]] = "RUNNING"
        BY Zenon, <1>2, <3>1 DEF RunInv
      <3> QED
        BY Zenon, <1>3, <3>1, <3>2
    <2>3. ASSUME NEW q \in Slot, state'[q] = "RUNNING"
          PROVE  \E g \in Hart : pc'[g] = "run" /\ chosen'[g] = q
      <3>1. q # p /\ state[q] = "RUNNING"
        BY Zenon, <1>3, <2>3
      <3>2. PICK g \in Hart : pc[g] = "run" /\ chosen[g] = q
        BY Zenon, <3>1 DEF RunInv
      <3> QED
        BY Zenon, <1>2, <1>3, <3>1, <3>2
    <2> QED
      BY Zenon, <2>1, <2>2, <2>3 DEF RunInv
  <1> QED
    BY Zenon, <1>1, <1>2, <1>4 DEF TypeInv

\* The places after a step of hart h alone.
LEMMA PlaceKept ==
  ASSUME TypeInv, PlaceInv, NEW h \in Hart, build' = build, pc[h] # "off",
         \A g \in Hart : g # h => /\ pc'[g] = pc[g] /\ chosen'[g] = chosen[g]
                                  /\ best'[g] = best[g],
         pc'[h] \in {"store", "take", "run"} => chosen'[h] \in Slot,
         pc'[h] = "scan" => best'[h] \in Best
  PROVE  PlaceInv'
  BY Zenon DEF PlaceInv

\* A step that counts nothing, of a hart that clockintr() does not interrupt.
LEMMA TimeKept ==
  ASSUME TypeInv, TimeInv, UNCHANGED <<build, ctime, rtime, ticks, clock>>,
         clock # Out => pc'[Hart0] = pc[Hart0] /\ chosen'[Hart0] = chosen[Hart0]
  PROVE  TimeInv'
  <1>1. \A p \in Slot : Pending(p)' = Pending(p)
    <2>1. CASE clock = Out
      BY Zenon, <2>1, ClockFacts DEF Pending
    <2>2. CASE clock # Out
      BY Zenon, <2>2 DEF Pending
    <2> QED
      BY Zenon, <2>1, <2>2
  <1> QED
    BY Zenon, <1>1 DEF TimeInv, Allowance

\* scheduler() calls the policy.
LEMMA PickIInv ==
  ASSUME IInv, NEW h \in Hart, Pick(h)
  PROVE  IInv'
  <1>1. /\ pc[h] = "pick" /\ (h = Hart0 => clock = Out)
        /\ UNCHANGED <<build, state, ctime, rtime, sleepTime, staticPriority, dynamicPriority, nRun,
                       ticks, alpha, clock, i>>
    BY Zenon DEF Pick, At, timeVars, prioVars
  <1>2. PICK c \in Slot : c = RoundRobin
    <2>1. PICK a \in Nat, n \in Nat : a = alpha /\ n = NPROC /\ 2 <= n
      BY Zenon, SlotFacts, SchedAssumption DEF IInv, TypeInv
    <2>2. (a + 1) % n \in 0..(n - 1)
      BY <2>1
    <2> QED
      BY Zenon, <2>1, <2>2 DEF Slot, RoundRobin
  <1>3. PICK b \in Best : b = ScanStart
    <2>1. ticks \in Int /\ 10000 \in Int
      BY DEF IInv, TypeInv
    <2> QED
      <3>1. [index |-> 0, min |-> ticks] \in Best /\ [index |-> 1, min |-> 10000] \in Best
        BY <2>1, SlotFacts DEF Best
      <3> QED
        BY <3>1 DEF ScanStart
  <1>4. \/ /\ chosen' = [chosen EXCEPT ![h] = c] /\ pc' = [pc EXCEPT ![h] = "store"] /\ best' = best
        \/ /\ best' = [best EXCEPT ![h] = b] /\ pc' = [pc EXCEPT ![h] = "scan"] /\ chosen' = chosen
    BY Zenon, <1>2, <1>3 DEF Pick, Goto
  <1>5. /\ chosen' \in [Hart -> Slot \cup {None}] /\ best' \in [Hart -> Best \cup {None}]
        /\ pc' \in [Hart -> {"off", "pick", "store", "scan", "take", "run"}]
    BY <1>4 DEF IInv, TypeInv
  <1>6. TypeInv'
    BY Zenon, <1>1, <1>5 DEF IInv, TypeInv
  <1>7. /\ \A g \in Hart : g # h => pc'[g] = pc[g] /\ chosen'[g] = chosen[g] /\ best'[g] = best[g]
        /\ pc'[h] \in {"store", "scan"}
        /\ pc'[h] = "store" => chosen'[h] \in Slot
        /\ pc'[h] = "scan" => best'[h] \in Best
    BY <1>4 DEF IInv, TypeInv
  <1>8. PlaceInv'
    BY Zenon, <1>1, <1>7, PlaceKept DEF IInv
  <1>9. RunInv'
    BY Zenon, <1>1, <1>7, RunKept DEF IInv
  <1>10. TimeInv'
    BY Zenon, <1>1, <1>7, TimeKept, SchedAssumption DEF IInv
  <1> QED
    BY Zenon, <1>6, <1>8, <1>9, <1>10 DEF IInv

\* RoundRobin() stores its index.
LEMMA StoreAlphaIInv ==
  ASSUME IInv, NEW h \in Hart, StoreAlpha(h)
  PROVE  IInv'
  <1>1. /\ pc[h] = "store" /\ (h = Hart0 => clock = Out) /\ chosen[h] \in Slot
        /\ UNCHANGED <<build, state, ctime, rtime, sleepTime, staticPriority, dynamicPriority, nRun,
                       ticks, clock, i, chosen, best>>
        /\ alpha' = chosen[h] /\ pc' = [pc EXCEPT ![h] = "take"]
    BY Zenon DEF IInv, PlaceInv, StoreAlpha, At, Goto, timeVars, prioVars, scanVars
  <1>2. TypeInv'
    BY Zenon, <1>1 DEF IInv, TypeInv
  <1>3. pc'[h] = "take" /\ \A g \in Hart : g # h => pc'[g] = pc[g]
    BY Zenon, <1>1 DEF IInv, TypeInv
  <1>4. PlaceInv'
    BY Zenon, <1>1, <1>3, PlaceKept DEF IInv
  <1>5. RunInv'
    BY Zenon, <1>1, <1>3, RunKept DEF IInv
  <1>6. TimeInv'
    BY <1>1, <1>3, TimeKept DEF IInv
  <1> QED
    BY Zenon, <1>2, <1>4, <1>5, <1>6 DEF IInv

\* One iteration of fcfs() or pbs_scheduler()
LEMMA ScanFacts ==
  ASSUME TypeInv, NEW b \in Best, NEW p \in Slot
  PROVE  ScanStep(b, p) \in Best
  <1>1. ctime[p] \in Int /\ dynamicPriority[p] \in Int
    <2>1. ctime[p] \in Nat /\ dynamicPriority[p] \in 0..100
      BY Zenon DEF TypeInv
    <2> QED
      BY <2>1
  <1>2. [index |-> p, min |-> ctime[p]] \in Best /\ [index |-> p, min |-> dynamicPriority[p]] \in Best
    BY Zenon, <1>1 DEF Best
  <1>3. FcfsStep(b, p) \in Best
    BY Zenon, <1>2 DEF FcfsStep
  <1>4. PbsStep(b, p) \in Best
    BY Zenon, <1>2 DEF PbsStep
  <1> QED
    BY Zenon, <1>3, <1>4 DEF ScanStep

\* One slot of the scan: the best so far changes, or the scan ends and chooses.
LEMMA ScanSlotIInv ==
  ASSUME IInv, NEW h \in Hart, ScanSlot(h)
  PROVE  IInv'
  <1>1. /\ pc[h] = "scan" /\ (h = Hart0 => clock = Out) /\ best[h] \in Best /\ i[h] \in Slot
        /\ UNCHANGED <<build, state, ctime, rtime, sleepTime, staticPriority, dynamicPriority, nRun,
                       ticks, clock, alpha>>
    BY Zenon DEF IInv, TypeInv, PlaceInv, ScanSlot, At, timeVars, prioVars
  <1>2. PICK b \in Best : b = ScanStep(best[h], i[h])
    BY Zenon, <1>1, ScanFacts DEF IInv
  <1>3. b.index \in Slot
    BY Zenon DEF Best
  <1>4. \/ /\ i[h] + 1 < NPROC /\ best' = [best EXCEPT ![h] = b] /\ i' = [i EXCEPT ![h] = i[h] + 1]
           /\ UNCHANGED <<chosen, pc>>
        \/ /\ best' = [best EXCEPT ![h] = None] /\ i' = [i EXCEPT ![h] = 0]
           /\ chosen' = [chosen EXCEPT ![h] = b.index] /\ pc' = [pc EXCEPT ![h] = "take"]
    BY Zenon, <1>2 DEF ScanSlot, Goto
  <1>5. /\ chosen' \in [Hart -> Slot \cup {None}] /\ best' \in [Hart -> Best \cup {None}]
        /\ i' \in [Hart -> Slot]
        /\ pc' \in [Hart -> {"off", "pick", "store", "scan", "take", "run"}]
    <2>1. chosen' \in [Hart -> Slot \cup {None}]
      BY Zenon, <1>3, <1>4 DEF IInv, TypeInv
    <2>2. best' \in [Hart -> Best \cup {None}]
      BY Zenon, <1>4 DEF IInv, TypeInv
    <2>3. i' \in [Hart -> Slot]
      <3>1. i \in [Hart -> Slot] /\ 0 \in Slot /\ (i[h] + 1 < NPROC => i[h] + 1 \in Slot)
        BY Zenon, <1>1, SlotFacts DEF IInv, TypeInv
      <3> QED
        BY Zenon, <1>4, <3>1
    <2>4. pc' \in [Hart -> {"off", "pick", "store", "scan", "take", "run"}]
      BY Zenon, <1>4 DEF IInv, TypeInv
    <2> QED
      BY Zenon, <2>1, <2>2, <2>3, <2>4
  <1>6. TypeInv'
    BY Zenon, <1>1, <1>5 DEF IInv, TypeInv
  <1>7. /\ \A g \in Hart : g # h => pc'[g] = pc[g] /\ chosen'[g] = chosen[g] /\ best'[g] = best[g]
        /\ pc'[h] \in {"scan", "take"}
        /\ pc'[h] = "take" => chosen'[h] \in Slot
        /\ pc'[h] = "scan" => best'[h] \in Best
    BY <1>1, <1>3, <1>4 DEF IInv, TypeInv
  <1>8. PlaceInv'
    BY Zenon, <1>1, <1>7, PlaceKept DEF IInv
  <1>9. RunInv'
    BY Zenon, <1>1, <1>7, RunKept DEF IInv
  <1>10. TimeInv'
    BY Zenon, <1>1, <1>7, TimeKept, SchedAssumption DEF IInv
  <1> QED
    BY Zenon, <1>6, <1>8, <1>9, <1>10 DEF IInv

\* scheduler() takes its choice, when it is still RUNNABLE.
LEMMA TakeIInv ==
  ASSUME IInv, NEW h \in Hart, Take(h)
  PROVE  IInv'
  <1>1. /\ pc[h] = "take" /\ (h = Hart0 => clock = Out) /\ chosen[h] \in Slot
        /\ UNCHANGED <<build, ctime, rtime, dynamicPriority, ticks, alpha, i, best, clock>>
    BY Zenon DEF IInv, PlaceInv, Take, At
  <1>2. PICK p \in Slot : p = chosen[h]
    BY Zenon, <1>1
  <1>3. CASE state[p] # "RUNNABLE"
    <2>1. /\ pc' = [pc EXCEPT ![h] = "pick"] /\ chosen' = [chosen EXCEPT ![h] = None]
          /\ UNCHANGED <<state, staticPriority, sleepTime, nRun>>
      BY Zenon, <1>2, <1>3 DEF Take, Goto
    <2>2. /\ pc'[h] = "pick"
          /\ \A g \in Hart : g # h => pc'[g] = pc[g] /\ chosen'[g] = chosen[g]
      BY Zenon, <2>1 DEF IInv, TypeInv
    <2>3. TypeInv'
      BY Zenon, <1>1, <2>1 DEF IInv, TypeInv
    <2>4. PlaceInv'
      BY Zenon, <1>1, <2>2, PlaceKept DEF IInv
    <2>5. RunInv'
      BY Zenon, <1>1, <2>1, <2>2, RunKept DEF IInv
    <2>6. TimeInv'
      BY Zenon, <1>1, <2>2, TimeKept, SchedAssumption DEF IInv
    <2> QED
      BY Zenon, <2>3, <2>4, <2>5, <2>6 DEF IInv
  <1>4. CASE state[p] = "RUNNABLE"
    <2>1. /\ staticPriority' = [staticPriority EXCEPT ![p] = dynamicPriority[p]]
          /\ sleepTime' = [sleepTime EXCEPT ![p] = 0]
          /\ state' = [state EXCEPT ![p] = "RUNNING"]
          /\ nRun' = [nRun EXCEPT ![p] = IF nRun[p] < MaxRuns THEN nRun[p] + 1 ELSE nRun[p]]
          /\ pc' = [pc EXCEPT ![h] = "run"] /\ chosen' = chosen
      BY Zenon, <1>2, <1>4 DEF Take, Goto
    <2>2. /\ pc'[h] = "run" /\ \A g \in Hart : g # h => pc'[g] = pc[g]
          /\ state'[p] = "RUNNING" /\ \A q \in Slot : q # p => state'[q] = state[q]
      BY Zenon, <2>1 DEF IInv, TypeInv
    <2>3. TypeInv'
      <3>1. /\ staticPriority' \in [Slot -> 0..100] /\ sleepTime' \in [Slot -> Nat]
            /\ nRun' \in [Slot -> Nat]
        BY <2>1 DEF IInv, TypeInv
      <3>2. /\ state' \in [Slot -> States]
            /\ pc' \in [Hart -> {"off", "pick", "store", "scan", "take", "run"}]
        BY Zenon, <2>1 DEF IInv, TypeInv, States
      <3> QED
        BY Zenon, <1>1, <2>1, <3>1, <3>2 DEF IInv, TypeInv
    <2>4. PlaceInv'
      BY Zenon, <1>1, <2>1, <2>2, PlaceKept DEF IInv
    <2>5. RunInv'
      <3>1. \A g \in Hart : pc[g] = "run" => chosen[g] # p /\ chosen[g] \in Slot
        BY Zenon, <1>4 DEF IInv, PlaceInv, RunInv
      <3>2. \A g, k \in Hart : pc'[g] = "run" /\ pc'[k] = "run" /\ chosen'[g] = chosen'[k] => g = k
        BY <1>2, <2>1, <2>2, <3>1 DEF IInv, RunInv
      <3>3. \A g \in Hart : pc'[g] = "run" => state'[chosen'[g]] = "RUNNING"
        BY <1>2, <2>1, <2>2, <3>1 DEF IInv, RunInv
      <3>4. \A q \in Slot : state'[q] = "RUNNING" => \E g \in Hart : pc'[g] = "run" /\ chosen'[g] = q
        BY <1>1, <1>2, <2>1, <2>2 DEF IInv, RunInv
      <3> QED
        BY Zenon, <3>2, <3>3, <3>4 DEF RunInv
    <2>6. TimeInv'
      BY <1>1, <2>1, <2>2, TimeKept DEF IInv
    <2> QED
      BY Zenon, <2>3, <2>4, <2>5, <2>6 DEF IInv
  <1> QED
    BY Zenon, <1>3, <1>4

\* The harts and the processes after a step that counts nothing and in which a
\* process leaves the CPU.
LEMMA OffIInv ==
  ASSUME IInv, NEW h \in Hart, At(h, "run"), NEW s \in States, s # "RUNNING", OffCpu(h, s),
         UNCHANGED <<build, timeVars, prioVars, ticks, alpha, clock>>
  PROVE  IInv'
  <1>1. /\ pc[h] = "run" /\ (h = Hart0 => clock = Out)
        /\ UNCHANGED <<build, ctime, rtime, sleepTime, staticPriority, dynamicPriority, nRun,
                       ticks, alpha, clock>>
    BY Zenon DEF At, timeVars, prioVars
  <1>2. /\ RunInv'
        /\ state' \in [Slot -> States] /\ chosen' \in [Hart -> Slot \cup {None}]
        /\ pc' \in [Hart -> {"off", "pick", "store", "scan", "take", "run"}]
        /\ pc' = [pc EXCEPT ![h] = "pick"] /\ chosen' = [chosen EXCEPT ![h] = None]
        /\ UNCHANGED <<i, best>>
    BY Zenon, <1>1, OffRun DEF IInv
  <1>3. TypeInv'
    BY Zenon, <1>1, <1>2 DEF IInv, TypeInv
  <1>4. pc'[h] = "pick" /\ \A g \in Hart : g # h => pc'[g] = pc[g] /\ chosen'[g] = chosen[g]
    BY Zenon, <1>2
  <1>5. PlaceInv'
    BY Zenon, <1>1, <1>2, <1>4, PlaceKept DEF IInv
  <1>6. TimeInv'
    BY Zenon, <1>1, <1>4, TimeKept, SchedAssumption DEF IInv
  <1> QED
    BY Zenon, <1>2, <1>3, <1>5, <1>6 DEF IInv

\* A process that does not run changes its state, or its priority.
LEMMA SlotIInv ==
  ASSUME IInv, UNCHANGED <<build, ctime, rtime, ticks, alpha, pc, scanVars, clock>>,
         state' \in [Slot -> States], sleepTime' \in [Slot -> Nat], nRun' \in [Slot -> Nat],
         staticPriority' \in [Slot -> 0..100], dynamicPriority' \in [Slot -> 0..100],
         \A p \in Slot : state'[p] = "RUNNING" <=> state[p] = "RUNNING"
  PROVE  IInv'
  <1>1. UNCHANGED <<chosen, i, best>>
    BY Zenon DEF scanVars
  <1>2. TypeInv'
    BY Zenon, <1>1 DEF IInv, TypeInv
  <1>3. PlaceInv'
    BY Zenon, <1>1 DEF IInv, PlaceInv
  <1>4. RunInv'
    BY Zenon, <1>1, RunKept DEF IInv
  <1>5. TimeInv'
    BY Zenon, <1>1, TimeKept DEF IInv
  <1> QED
    BY Zenon, <1>2, <1>3, <1>4, <1>5 DEF IInv

\* A sleeper becomes runnable.
LEMMA WakeupIInv ==
  ASSUME IInv, NEW p \in Slot, Wakeup(p)
  PROVE  IInv'
  <1>1. state' \in [Slot -> States] /\ \A q \in Slot : state'[q] = "RUNNING" <=> state[q] = "RUNNING"
    BY Zenon DEF IInv, TypeInv, States, Wakeup
  <1> QED
    BY Zenon, <1>1, SlotIInv DEF IInv, TypeInv, Wakeup, timeVars, prioVars

\* waitx() frees the slot of a zombie.
LEMMA WaitxIInv ==
  ASSUME IInv, NEW h \in Hart, NEW p \in Slot, Waitx(h, p)
  PROVE  IInv'
  <1>1. state' \in [Slot -> States] /\ \A q \in Slot : state'[q] = "RUNNING" <=> state[q] = "RUNNING"
    BY Zenon DEF IInv, TypeInv, States, Waitx
  <1> QED
    BY Zenon, <1>1, SlotIInv DEF IInv, TypeInv, Waitx, timeVars, prioVars

\* set_priority() gives a process a new static priority.
LEMMA SetPriorityIInv ==
  ASSUME IInv, NEW h \in Hart, NEW p \in Slot, NEW r \in Requests, SetPriority(h, p, r)
  PROVE  IInv'
  <1>1. r \in 0..100
    <2>1. r \in Int /\ r >= 0 /\ r <= 100
      BY Zenon, SchedAssumption DEF SetPriority
    <2> QED
      BY <2>1
  <1>2. staticPriority' \in [Slot -> 0..100] /\ sleepTime' \in [Slot -> Nat]
    BY Zenon, <1>1 DEF IInv, TypeInv, SetPriority, actually_set_priority
  <1> QED
    BY Zenon, <1>2, SlotIInv DEF IInv, TypeInv, SetPriority

\* fork(): during clockintr() only on another hart than Hart0.
LEMMA ForkIInv ==
  ASSUME IInv, NEW h \in Hart, NEW p \in Slot, Fork(h, p)
  PROVE  IInv'
  <1>1. /\ pc[h] = "run" /\ (h = Hart0 => clock = Out) /\ state[p] = "UNUSED"
        /\ state' = [state EXCEPT ![p] = "RUNNABLE"]
        /\ ctime' = [ctime EXCEPT ![p] = ticks] /\ rtime' = [rtime EXCEPT ![p] = 0]
        /\ staticPriority' = [staticPriority EXCEPT ![p] = 60]
        /\ dynamicPriority' = [dynamicPriority EXCEPT ![p] = 60]
        /\ UNCHANGED <<build, sleepTime, nRun, ticks, alpha, pc, chosen, i, best, clock>>
    BY Zenon DEF Fork, At, scanVars
  <1>2. /\ state' \in [Slot -> States] /\ ctime' \in [Slot -> Nat] /\ rtime' \in [Slot -> Nat]
        /\ staticPriority' \in [Slot -> 0..100] /\ dynamicPriority' \in [Slot -> 0..100]
    BY <1>1 DEF IInv, TypeInv, States
  <1>3. TypeInv'
    BY Zenon, <1>1, <1>2 DEF IInv, TypeInv
  <1>4. \A q \in Slot : state'[q] = "RUNNING" <=> state[q] = "RUNNING"
    BY <1>1
  <1>5. PlaceInv'
    BY Zenon, <1>1 DEF IInv, PlaceInv
  <1>6. RunInv'
    BY Zenon, <1>1, <1>4, RunKept DEF IInv
  <1>7. ASSUME NEW q \in Slot
        PROVE  rtime'[q] + Pending(q)' <= 3 * (ticks' - ctime'[q]) + Allowance'
    <2>1. Pending(q)' = Pending(q) /\ Allowance' = Allowance
      BY Zenon, <1>1 DEF Pending, Allowance
    <2>2. CASE q # p
      <3>1. rtime'[q] = rtime[q] /\ ctime'[q] = ctime[q]
        BY <1>1, <2>2
      <3> QED
        BY Zenon, <1>1, <2>1, <3>1 DEF IInv, TimeInv
    <2>3. CASE q = p
      <3>1. rtime'[q] = 0 /\ ctime'[q] = ticks /\ ticks \in Nat
        BY Zenon, <1>1, <2>3 DEF IInv, TypeInv
      <3>2. Pending(q) <= Allowance /\ Pending(q) \in Nat /\ Allowance \in Nat
        <4>1. CASE clock = Out
          BY <4>1, ClockFacts DEF IInv, Pending, Allowance
        <4>2. CASE clock # Out
          <5>1. build.harts # {Hart0}
            BY Zenon, <1>1, <4>2 DEF IInv, PlaceInv
          <5>2. ~(pc[Hart0] = "run" /\ chosen[Hart0] = p)
            BY Zenon, <1>1, SchedAssumption DEF IInv, RunInv
          <5> QED
            BY <2>3, <5>1, <5>2 DEF Pending, Allowance
        <4> QED
          BY Zenon, <4>1, <4>2
      <3> QED
        BY <1>1, <2>1, <3>1, <3>2
    <2> QED
      BY Zenon, <2>2, <2>3
  <1> QED
    BY Zenon, <1>3, <1>5, <1>6, <1>7 DEF IInv, TimeInv

\* clockintr() starts: a tick pays for what it may add.
LEMMA ClockStartIInv ==
  ASSUME IInv, ClockStart
  PROVE  IInv'
  <1>1. /\ clock = Out /\ clock' = <<"update", 0>> /\ ticks' = ticks + 1
        /\ UNCHANGED <<build, state, ctime, rtime, sleepTime, staticPriority, dynamicPriority, nRun,
                       alpha, pc, chosen, i, best>>
    BY Zenon DEF ClockStart, timeVars, prioVars, scanVars
  <1>2. clock' \in {"update", "loop"} \X Slot
    BY Zenon, <1>1, SlotFacts
  <1>3. TypeInv'
    BY <1>1, <1>2 DEF IInv, TypeInv
  <1>4. PlaceInv' /\ RunInv'
    BY <1>1 DEF IInv, PlaceInv, RunInv
  <1>5. ASSUME NEW p \in Slot
        PROVE  rtime'[p] + Pending(p)' <= 3 * (ticks' - ctime'[p]) + Allowance'
    <2>1. rtime[p] <= 3 * (ticks - ctime[p]) + Allowance
      <3>1. Pending(p) = 0 /\ rtime[p] \in Nat
        BY Zenon, <1>1, ClockFacts DEF IInv, TypeInv, Pending
      <3> QED
        BY <3>1 DEF IInv, TimeInv
    <2>2. Pending(p)' \in 0..3
      BY SMTT(30), <1>1 DEF Pending
    <2>3. rtime[p] \in Nat /\ ctime[p] \in Nat /\ ticks \in Nat /\ Allowance \in Nat
      BY Zenon DEF IInv, TypeInv, Allowance
    <2>4. Allowance' = Allowance
      BY Zenon, <1>1 DEF Allowance
    <2> QED
      BY <1>1, <2>1, <2>2, <2>3, <2>4
  <1> QED
    BY Zenon, <1>3, <1>4, <1>5 DEF IInv, TimeInv

\* What a slot is given in one step of clockintr() it no longer has to come.
LEMMA TimeCounted ==
  ASSUME IInv, UNCHANGED <<build, ctime, ticks>>,
         \A p \in Slot : /\ rtime'[p] \in Nat /\ Pending(p) \in Nat /\ Pending(p)' \in Nat
                         /\ rtime'[p] + Pending(p)' <= rtime[p] + Pending(p)
  PROVE  TimeInv'
  <1> SUFFICES ASSUME NEW p \in Slot
               PROVE  rtime'[p] + Pending(p)' <= 3 * (ticks - ctime[p]) + Allowance
    BY Zenon DEF TimeInv, Allowance
  <1>1. PICK a \in Nat, b \in Nat, c \in Nat, d \in Nat :
          a = rtime'[p] /\ b = Pending(p)' /\ c = rtime[p] /\ d = Pending(p)
    BY Zenon DEF IInv, TypeInv
  <1>2. PICK e \in Int : e = 3 * (ticks - ctime[p]) + Allowance
    BY DEF IInv, TypeInv, Allowance
  <1>3. c + d <= e
    BY Zenon, <1>1, <1>2 DEF IInv, TimeInv
  <1>4. a + b <= c + d
    BY Zenon, <1>1
  <1>5. a + b <= e
    BY <1>3, <1>4
  <1> QED
    BY Zenon, <1>1, <1>2, <1>5

\* update_time(), and myproc()->rtime++
LEMMA UpdateTimeIInv ==
  ASSUME IInv, UpdateTime
  PROVE  IInv'
  <1>1. PICK k \in Slot : k = clock[2] /\ clock[1] = "update" /\ clock = <<"update", k>>
    BY Zenon, ClockFacts DEF IInv, UpdateTime
  <1>2. UNCHANGED <<build, state, ctime, sleepTime, staticPriority, dynamicPriority, nRun,
                    ticks, alpha, pc, chosen, i, best>>
    BY Zenon DEF UpdateTime, prioVars, scanVars
  <1>3. PICK c : c = [rtime EXCEPT ![k] = rtime[k] + Ran(k)]
    BY Zenon
  <1>4. /\ c \in [Slot -> Nat] /\ \A p \in Slot : p # k => c[p] = rtime[p]
        /\ c[k] = rtime[k] \/ c[k] = rtime[k] + 1
    BY <1>3 DEF IInv, TypeInv, Ran
  <1>5. \A p \in Slot : /\ rtime[p] \in Nat /\ c[p] \in Nat
                        /\ c[p] <= rtime[p] + IF p = k THEN 1 ELSE 0
    BY <1>4 DEF IInv, TypeInv
  <1>6. PlaceInv' /\ RunInv'
    BY <1>2 DEF IInv, PlaceInv, RunInv
  <1>7. \A p \in Slot :
          Pending(p) = 1 + (IF p >= k THEN 1 ELSE 0)
                         + (IF pc[Hart0] = "run" /\ chosen[Hart0] = p THEN 1 ELSE 0)
    BY Zenon, <1>1 DEF Pending
  <1>8. CASE k + 1 < NPROC
    <2>1. clock' = <<"update", k + 1>> /\ rtime' = c
      BY Zenon, <1>1, <1>3, <1>8 DEF UpdateTime
    <2>2. k + 1 \in Slot
      BY Zenon, <1>8, SlotFacts
    <2>3. TypeInv'
      BY Zenon, <1>2, <1>4, <2>1, <2>2 DEF IInv, TypeInv
    <2>4. \A p \in Slot :
            Pending(p)' = 1 + (IF p >= k + 1 THEN 1 ELSE 0)
                            + (IF pc[Hart0] = "run" /\ chosen[Hart0] = p THEN 1 ELSE 0)
      BY Zenon, <1>2, <2>1 DEF Pending
    <2>5. \A p \in Slot : /\ rtime'[p] \in Nat /\ Pending(p) \in Nat /\ Pending(p)' \in Nat
                          /\ rtime'[p] + Pending(p)' <= rtime[p] + Pending(p)
      BY <1>5, <1>7, <2>1, <2>4, SlotFacts
    <2>6. TimeInv'
      BY Zenon, <1>2, <2>5, TimeCounted
    <2> QED
      BY Zenon, <1>6, <2>3, <2>6 DEF IInv
  <1>9. CASE ~(k + 1 < NPROC)
    <2>1. /\ clock' = <<"loop", 0>>
          /\ rtime' = IF pc[Hart0] = "run" THEN [c EXCEPT ![chosen[Hart0]] = @ + 1] ELSE c
      BY Zenon, <1>1, <1>3, <1>9 DEF UpdateTime
    <2>2. /\ rtime' \in [Slot -> Nat]
          /\ \A p \in Slot : rtime'[p] = c[p] + IF pc[Hart0] = "run" /\ chosen[Hart0] = p THEN 1 ELSE 0
      BY SMTT(30), <1>4, <2>1, SchedAssumption DEF IInv, PlaceInv
    <2>3. TypeInv'
      BY Zenon, <1>2, <2>1, <2>2, SlotFacts DEF IInv, TypeInv
    <2>4. \A p \in Slot : Pending(p)' = 1
      BY <2>1, SlotFacts DEF Pending
    <2>5. \A p \in Slot : /\ rtime'[p] \in Nat /\ Pending(p) \in Nat /\ Pending(p)' \in Nat
                          /\ rtime'[p] + Pending(p)' <= rtime[p] + Pending(p)
      BY <1>5, <1>7, <2>2, <2>4, SlotFacts
    <2>6. TimeInv'
      BY Zenon, <1>2, <2>5, TimeCounted
    <2> QED
      BY Zenon, <1>6, <2>3, <2>6 DEF IInv
  <1> QED
    BY Zenon, <1>8, <1>9

\* The clamp of the dynamic priority
LEMMA DynamicFacts ==
  ASSUME NEW s \in Int, NEW n \in Int
  PROVE  Dynamic(s, n) \in 0..100
  BY DEF Dynamic

\* The niceness is an integer.
LEMMA QuotientFacts ==
  ASSUME NEW a \in Nat, NEW b \in Nat
  PROVE  Quotient(a, b) \in Int
  BY DEF Quotient

\* The loop that ends clockintr()
LEMMA ClockLoopIInv ==
  ASSUME IInv, ClockLoop
  PROVE  IInv'
  <1>1. PICK k \in Slot : k = clock[2] /\ clock[1] = "loop" /\ clock = <<"loop", k>>
    BY Zenon, ClockFacts DEF IInv, ClockLoop
  <1>2. UNCHANGED <<build, ctime, staticPriority, nRun, ticks, alpha>>
    BY Zenon DEF ClockLoop
  <1>3. PICK slept \in Nat : slept = sleepTime[k] + IF state[k] = "SLEEPING" THEN 1 ELSE 0
    BY DEF IInv, TypeInv
  <1>4. PICK run \in Nat : run = rtime[k] + Ran(k) /\ run <= rtime[k] + 1
    BY DEF IInv, TypeInv, Ran
  <1>5. PICK d \in 0..100 : d = Dynamic(staticPriority[k], Quotient(slept, slept + run) * 10)
    <2>1. slept + run \in Nat
      OBVIOUS
    <2>2. PICK q \in Int : q = Quotient(slept, slept + run)
      BY Zenon, <2>1, QuotientFacts
    <2>3. PICK t \in 0..100 : t = staticPriority[k]
      BY Zenon DEF IInv, TypeInv
    <2>4. t \in Int /\ q * 10 \in Int
      OBVIOUS
    <2>5. Dynamic(t, q * 10) \in 0..100
      BY Zenon, <2>4, DynamicFacts
    <2> QED
      BY Zenon, <2>2, <2>3, <2>5
  <1>6. /\ sleepTime' = [sleepTime EXCEPT ![k] = slept]
        /\ rtime' = [rtime EXCEPT ![k] = run]
        /\ dynamicPriority' = [dynamicPriority EXCEPT ![k] = d]
        /\ clock' = IF k + 1 < NPROC THEN <<"loop", k + 1>> ELSE Out
        /\ IF k + 1 = NPROC /\ pc[Hart0] = "run" /\ Policy # "FCFS"
           THEN OffCpu(Hart0, "RUNNABLE") ELSE UNCHANGED <<state, pc, scanVars>>
    BY Zenon, <1>1, <1>3, <1>4, <1>5 DEF ClockLoop
  <1>7. /\ sleepTime' \in [Slot -> Nat] /\ rtime' \in [Slot -> Nat]
        /\ dynamicPriority' \in [Slot -> 0..100]
    BY Zenon, <1>6 DEF IInv, TypeInv
  <1>8. clock' \in {Out} \cup ({"update", "loop"} \X Slot)
    BY Zenon, <1>6, SlotFacts
  <1>9. TimeInv'
    <2>1. \A p \in Slot : Pending(p) = IF p >= k THEN 1 ELSE 0
      BY Zenon, <1>1 DEF Pending
    <2>2. \A p \in Slot : Pending(p)' = IF p >= k + 1 THEN 1 ELSE 0
      <3>1. CASE k + 1 < NPROC
        <4>1. clock'[1] = "loop" /\ clock'[2] = k + 1
          BY Zenon, <1>6, <3>1
        <4> QED
          BY Zenon, <4>1 DEF Pending
      <3>2. CASE ~(k + 1 < NPROC)
        <4>1. clock'[1] = "out"
          BY Zenon, <1>6, <3>2 DEF Out
        <4>2. \A p \in Slot : ~(p >= k + 1)
          BY <3>2, SchedAssumption DEF Slot
        <4> QED
          BY Zenon, <4>1, <4>2 DEF Pending
      <3> QED
        BY Zenon, <3>1, <3>2
    <2>3. \A p \in Slot : rtime[p] \in Nat /\ rtime'[p] \in Nat /\ rtime'[p] <= rtime[p] + IF p = k THEN 1 ELSE 0
      BY <1>4, <1>6, <1>7 DEF IInv, TypeInv
    <2>4. \A p \in Slot : /\ rtime'[p] \in Nat /\ Pending(p) \in Nat /\ Pending(p)' \in Nat
                          /\ rtime'[p] + Pending(p)' <= rtime[p] + Pending(p)
      BY <2>1, <2>2, <2>3, SlotFacts
    <2> QED
      BY Zenon, <1>2, <2>4, TimeCounted
  <1>10. CASE UNCHANGED <<state, pc, scanVars>>
    <2>1. UNCHANGED <<chosen, i, best>>
      BY Zenon, <1>10 DEF scanVars
    <2>2. TypeInv'
      BY Zenon, <1>2, <1>7, <1>8, <1>10, <2>1 DEF IInv, TypeInv
    <2>3. PlaceInv' /\ RunInv'
      BY <1>2, <1>10, <2>1 DEF IInv, PlaceInv, RunInv
    <2> QED
      BY Zenon, <1>9, <2>2, <2>3 DEF IInv
  <1>11. CASE pc[Hart0] = "run" /\ OffCpu(Hart0, "RUNNABLE")
    <2>1. Hart0 \in Hart
      BY Zenon, SchedAssumption
    <2>2. /\ RunInv'
          /\ state' \in [Slot -> States] /\ chosen' \in [Hart -> Slot \cup {None}]
          /\ pc' \in [Hart -> {"off", "pick", "store", "scan", "take", "run"}]
          /\ pc' = [pc EXCEPT ![Hart0] = "pick"] /\ chosen' = [chosen EXCEPT ![Hart0] = None]
          /\ UNCHANGED <<i, best>>
      BY Zenon, <1>11, <2>1, OffRun DEF IInv, States
    <2>3. TypeInv'
      BY Zenon, <1>2, <1>7, <1>8, <2>2 DEF IInv, TypeInv
    <2>4. pc'[Hart0] = "pick" /\ \A g \in Hart : g # Hart0 => pc'[g] = pc[g] /\ chosen'[g] = chosen[g]
      BY Zenon, <2>1, <2>2
    <2>5. PlaceInv'
      BY Zenon, <1>2, <1>11, <2>1, <2>2, <2>4, PlaceKept DEF IInv
    <2> QED
      BY Zenon, <1>9, <2>2, <2>3, <2>5 DEF IInv
  <1> QED
    BY Zenon, <1>6, <1>10, <1>11

\* Every step preserves the invariant.
LEMMA NextIInv == IInv /\ [Next]_vars => IInv'
  <1> SUFFICES ASSUME IInv, [Next]_vars PROVE IInv'
    BY Zenon
  <1>1. CASE ClockStart \/ UpdateTime \/ ClockLoop
    BY Zenon, <1>1, ClockStartIInv, UpdateTimeIInv, ClockLoopIInv
  <1>2. ASSUME NEW h \in Hart, Pick(h) \/ StoreAlpha(h) \/ ScanSlot(h) \/ Take(h)
        PROVE  IInv'
    BY Zenon, <1>2, PickIInv, StoreAlphaIInv, ScanSlotIInv, TakeIInv
  <1>3. ASSUME NEW h \in Hart, Preempt(h) \/ Sleep(h) \/ Exit(h)
        PROVE  IInv'
    <2>1. "RUNNABLE" \in States /\ "SLEEPING" \in States /\ "ZOMBIE" \in States
      BY Zenon DEF States
    <2> QED
      BY Zenon, <1>3, <2>1, OffIInv DEF Preempt, Sleep, Exit
  <1>4. ASSUME NEW h \in Hart, NEW p \in Slot, Waitx(h, p) \/ Fork(h, p)
        PROVE  IInv'
    BY Zenon, <1>4, WaitxIInv, ForkIInv
  <1>5. ASSUME NEW h \in Hart, NEW p \in Slot, NEW r \in Requests, SetPriority(h, p, r)
        PROVE  IInv'
    BY Zenon, <1>5, SetPriorityIInv
  <1>6. ASSUME NEW p \in Slot, Wakeup(p)
        PROVE  IInv'
    BY Zenon, <1>6, WakeupIInv
  <1>7. CASE UNCHANGED vars
    BY Zenon, <1>7, SlotIInv DEF IInv, TypeInv, vars, timeVars, prioVars
  <1> QED
    BY Zenon, <1>1, <1>2, <1>3, <1>4, <1>5, <1>6, <1>7 DEF Next

\* At boot only init's slot is in use.
LEMMA InitIInv == Init => IInv
  <1> SUFFICES ASSUME Init PROVE IInv
    BY Zenon
  <1>1. /\ state \in [Slot -> States]
        /\ ctime \in [Slot -> Nat] /\ rtime \in [Slot -> Nat] /\ sleepTime \in [Slot -> Nat]
        /\ nRun \in [Slot -> Nat]
        /\ staticPriority \in [Slot -> 0..100] /\ dynamicPriority \in [Slot -> 0..100]
    BY DEF Init, Zero, States
  <1>2. /\ pc \in [Hart -> {"off", "pick", "store", "scan", "take", "run"}]
        /\ chosen \in [Hart -> Slot \cup {None}] /\ i \in [Hart -> Slot]
        /\ best \in [Hart -> Best \cup {None}]
    BY Zenon, SlotFacts DEF Init
  <1>3. TypeInv
    BY Zenon, <1>1, <1>2, SlotFacts DEF Init, TypeInv
  <1>4. \A h \in Hart : pc[h] \in {"pick", "off"} /\ (h \notin build.harts => pc[h] = "off")
    BY Zenon DEF Init
  <1>5. \A p \in Slot : state[p] # "RUNNING"
    BY Zenon DEF Init
  <1>6. PlaceInv /\ RunInv
    BY Zenon, <1>4, <1>5 DEF PlaceInv, RunInv
  <1>7. ASSUME NEW p \in Slot
        PROVE  rtime[p] + Pending(p) <= 3 * (ticks - ctime[p]) + Allowance
    <2>1. rtime[p] = 0 /\ ctime[p] = 0 /\ ticks = 0 /\ clock = Out
      BY Zenon DEF Init, Zero
    <2>2. Pending(p) = 0 /\ Allowance \in Nat
      BY Zenon, <1>3, <2>1, ClockFacts DEF Pending, Allowance
    <2> QED
      BY <2>1, <2>2
  <1> QED
    BY Zenon, <1>3, <1>6, <1>7 DEF IInv, TimeInv

\* IInv is an invariant of the schedulers.
THEOREM SchedInvariant ==
  Spec => []IInv
  BY InitIInv, NextIInv, PTL DEF Spec

\* Whatever an unlocked scan of fcfs(), pbs_scheduler() or RoundRobin() has
\* chosen, and however many harts choose, the RUNNING processes are on a hart,
\* each on one: the test under p->lock is enough.
THEOREM SchedOneHart ==
  Spec => []OneHart
  <1>1. IInv => OneHart
    BY DEF IInv, PlaceInv, RunInv, OneHart
  <1> QED
    BY <1>1, SchedInvariant, PTL

\* clockintr() adds at most 3 to a process for every tick since its creation,
\* and at most 2 for the tick in which it was created; the priorities stay in
\* 0..100.
THEOREM SchedAccountingBound ==
  Spec => []AccountingBound
  <1>1. ASSUME IInv, NEW p \in Slot
        PROVE  rtime[p] <= 3 * (ticks - ctime[p]) + (IF build.harts = {Hart0} THEN 0 ELSE 2)
    <2>1. rtime[p] + Pending(p) <= 3 * (ticks - ctime[p]) + Allowance
      BY Zenon, <1>1 DEF IInv, TimeInv
    <2>2. rtime[p] \in Nat /\ Pending(p) \in Nat /\ 3 * (ticks - ctime[p]) \in Int /\ Allowance \in Nat
      BY SMTT(30), <1>1 DEF IInv, TypeInv, Pending, Allowance
    <2> QED
      BY <2>1, <2>2 DEF Allowance
  <1>2. IInv => AccountingBound
    BY SMTT(30), <1>1 DEF IInv, TypeInv, AccountingBound
  <1> QED
    BY <1>2, SchedInvariant, PTL
-----------------------------------------------------------------------------
(* The scan of fcfs() and pbs_scheduler() *)

\* What the scan compares first, and the order it chooses by.
Key(p) == IF Policy = "FCFS" THEN ctime[p] ELSE dynamicPriority[p]
Precedes(p, q) ==
  \/ Policy = "PBS" /\ dynamicPriority[p] < dynamicPriority[q]
  \/ /\ Policy = "PBS" => dynamicPriority[p] = dynamicPriority[q]
     /\ \/ Policy = "PBS" /\ nRun[p] < nRun[q]
        \/ (Policy = "PBS" => nRun[p] = nRun[q]) /\ ctime[p] < ctime[q]

\* The runnable processes among the first k slots, and what the scan knows of
\* them: nothing, if there is none, or one that no other precedes.
Seen(k) == {p \in Runnable : p < k}
BestOf(b, k) ==
  \/ Seen(k) = {} /\ b = ScanStart
  \/ /\ b.index \in Seen(k) /\ b.min = Key(b.index)
     /\ \A q \in Seen(k) : ~Precedes(q, b.index)

\* What is known of the numbers that are compared.
LEMMA NumberFacts ==
  ASSUME IInv, NEW p \in Slot
  PROVE  /\ dynamicPriority[p] \in Int /\ dynamicPriority[p] < 10000 /\ nRun[p] \in Int
         /\ ctime[p] \in Int /\ ticks \in Int /\ ctime[p] <= ticks
  <1>1. /\ dynamicPriority[p] \in 0..100 /\ nRun[p] \in Nat /\ ctime[p] \in Nat /\ ticks \in Nat
        /\ rtime[p] \in Nat /\ Pending(p) \in Nat /\ Allowance \in 0..2
    BY SMTT(30) DEF IInv, TypeInv, Pending, Allowance
  <1>2. rtime[p] + Pending(p) <= 3 * (ticks - ctime[p]) + Allowance
    BY Zenon DEF IInv, TimeInv
  <1>3. ctime[p] <= ticks
    BY <1>1, <1>2
  <1>4. dynamicPriority[p] \in 0..100
    BY Zenon, <1>1
  <1>5. dynamicPriority[p] \in Int /\ dynamicPriority[p] < 10000
    BY <1>4
  <1>6. nRun[p] \in Int /\ ctime[p] \in Int /\ ticks \in Int
    BY <1>1
  <1> QED
    BY <1>3, <1>5, <1>6

\* The order is one: what does not precede stays so along a chain.
LEMMA PrecedesFacts ==
  ASSUME IInv, NEW p \in Slot, NEW q \in Slot, NEW r \in Slot,
         ~Precedes(p, q), ~Precedes(q, r)
  PROVE  ~Precedes(p, r) /\ ~Precedes(p, p)
  <1>1. \A s \in Slot : dynamicPriority[s] \in Int /\ nRun[s] \in Int /\ ctime[s] \in Int
    BY NumberFacts
  <1>2. CASE Policy = "PBS"
    BY <1>1, <1>2 DEF Precedes
  <1>3. CASE Policy # "PBS"
    BY <1>1, <1>3 DEF Precedes
  <1> QED
    BY Zenon, <1>2, <1>3

\* One turn of the loop on a runnable process keeps the best so far or takes
\* this one, and takes it when it is the first.
LEMMA StepChoice ==
  ASSUME IInv, Policy \in {"FCFS", "PBS"}, NEW k \in Slot, state[k] = "RUNNABLE",
         NEW b, NEW it, it = [index |-> k, min |-> Key(k)]
  PROVE  /\ b = ScanStart => ScanStep(b, k) = it
         /\ b.index \in Slot /\ b.min = Key(b.index) =>
              \/ ScanStep(b, k) = it /\ ~Precedes(b.index, k)
              \/ ScanStep(b, k) = b /\ ~Precedes(k, b.index)
  <1>1. /\ dynamicPriority[k] \in Int /\ dynamicPriority[k] < 10000 /\ nRun[k] \in Int
        /\ ctime[k] \in Int /\ ticks \in Int /\ ctime[k] <= ticks
    BY NumberFacts
  <1>2. it.index = k /\ it.min = Key(k)
    BY Zenon
  <1>3. CASE Policy = "FCFS"
    <2>1. /\ Key(k) = ctime[k] /\ ScanStart = [index |-> 0, min |-> ticks]
          /\ ScanStep(b, k) = IF ctime[k] <= b.min THEN it ELSE b
      BY SMTT(30), <1>3 DEF Key, ScanStart, ScanStep, FcfsStep
    <2>2. b = ScanStart => ScanStep(b, k) = it
      BY SMTT(30), <1>1, <2>1
    <2>3. ASSUME b.index \in Slot, b.min = Key(b.index)
          PROVE  \/ ScanStep(b, k) = it /\ ~Precedes(b.index, k)
                 \/ ScanStep(b, k) = b /\ ~Precedes(k, b.index)
      <3>1. b.min = ctime[b.index] /\ ctime[b.index] \in Int
        BY <1>3, <2>3, NumberFacts DEF Key
      <3> QED
        BY SMTT(30), <1>1, <1>3, <2>1, <3>1 DEF Precedes
    <2> QED
      BY <2>2, <2>3
  <1>4. CASE Policy = "PBS"
    <2> DEFINE e == [index |-> k, min |-> dynamicPriority[k]]
               b1 == IF dynamicPriority[k] < b.min THEN e ELSE b
               b2 == IF dynamicPriority[k] = b1.min /\ nRun[k] < nRun[b1.index] THEN e ELSE b1
               b3 == IF /\ dynamicPriority[k] = b2.min
                        /\ nRun[k] = nRun[b2.index]
                        /\ ctime[k] < ctime[b2.index]
                     THEN e ELSE b2
    <2>1. ScanStep(b, k) = b3
      <3>1. ScanStep(b, k) = PbsStep(b, k)
        BY Zenon, <1>4 DEF ScanStep
      <3>2. PbsStep(b, k) = b3
        BY Zenon DEF PbsStep
      <3> QED
        BY Zenon, <3>1, <3>2
    <2>2. e = it /\ e.index = k /\ e.min = dynamicPriority[k]
      BY SMTT(30), <1>4 DEF Key
    <2> HIDE DEF e
    <2>3. b1 = e => b2 = e
      BY <1>1, <2>2
    <2>4. b2 = e => b3 = e
      <3> HIDE DEF b2
      <3> QED
        BY SMTT(30), <1>1, <2>2
    <2>5. b = ScanStart => b3 = it
      <3>1. b = ScanStart => b.min = 10000
        BY SMTT(30), <1>4 DEF ScanStart
      <3>2. b = ScanStart => b1 = e
        BY SMTT(30), <1>1, <3>1
      <3> HIDE DEF b1, b2, b3
      <3> QED
        BY <2>2, <2>3, <2>4, <3>2
    <2>6. ASSUME b.index \in Slot, b.min = Key(b.index)
          PROVE  b3 = IF Precedes(k, b.index) THEN it ELSE b
      <3>1. /\ b.min = dynamicPriority[b.index] /\ dynamicPriority[b.index] \in Int
            /\ nRun[b.index] \in Int /\ ctime[b.index] \in Int
        BY SMTT(30), <1>4, <2>6, NumberFacts DEF Key
      <3>2. CASE dynamicPriority[k] < b.min
        <4>1. Precedes(k, b.index) /\ b1 = e
          BY ZenonT(30), <1>4, <3>1, <3>2 DEF Precedes
        <4> HIDE DEF b1, b2, b3
        <4> QED
          BY ZenonT(30), <2>2, <2>3, <2>4, <4>1
      <3>3. CASE ~(dynamicPriority[k] < b.min)
        <4>1. b1 = b
          BY Zenon, <3>3
        <4> HIDE DEF b1
        <4>2. CASE dynamicPriority[k] = b.min /\ nRun[k] < nRun[b.index]
          <5>1. Precedes(k, b.index) /\ b2 = e
            BY Zenon, <1>4, <3>1, <4>1, <4>2 DEF Precedes
          <5> HIDE DEF b2, b3
          <5> QED
            BY Zenon, <2>2, <2>4, <5>1
        <4>3. CASE ~(dynamicPriority[k] = b.min /\ nRun[k] < nRun[b.index])
          <5>1. b2 = b
            BY SMTT(30), <4>1, <4>3
          <5>2. Precedes(k, b.index) <=> /\ dynamicPriority[k] = b.min
                                         /\ nRun[k] = nRun[b.index]
                                         /\ ctime[k] < ctime[b.index]
            BY SMTT(30), <1>1, <1>4, <3>1, <3>3, <4>3 DEF Precedes
          <5> HIDE DEF b2
          <5> QED
            BY Zenon, <2>2, <5>1, <5>2
        <4> QED
          BY ZenonT(30), <4>2, <4>3
      <3> QED
        BY ZenonT(30), <3>2, <3>3
    <2>7. ASSUME b.index \in Slot, Precedes(k, b.index)
          PROVE  ~Precedes(b.index, k)
      <3>1. dynamicPriority[b.index] \in Int /\ nRun[b.index] \in Int /\ ctime[b.index] \in Int
        BY <2>7, NumberFacts
      <3> QED
        BY SMTT(30), <1>1, <1>4, <2>7, <3>1 DEF Precedes
    <2> HIDE DEF b3
    <2> QED
      BY Zenon, <2>1, <2>5, <2>6, <2>7
  <1> QED
    BY SMTT(30), <1>3, <1>4

\* One turn of the loop keeps what the scan knows.
LEMMA StepBest ==
  ASSUME IInv, Policy \in {"FCFS", "PBS"}, NEW k \in Slot, NEW b, BestOf(b, k)
  PROVE  BestOf(ScanStep(b, k), k + 1)
  <1>1. k \in Int /\ \A p \in Runnable : p \in Slot /\ p \in Int
    BY DEF Slot, Runnable
  <1>2. CASE state[k] # "RUNNABLE"
    <2>1. ScanStep(b, k) = b
      BY Zenon, <1>2 DEF ScanStep, FcfsStep, PbsStep
    <2>2. Seen(k + 1) = Seen(k)
      <3>1. \A p \in Runnable : p < k + 1 <=> p < k
        BY SMTT(30), <1>1, <1>2 DEF Runnable
      <3> QED
        BY Zenon, <3>1 DEF Seen
    <2> QED
      BY Zenon, <2>1, <2>2 DEF BestOf
  <1>3. CASE state[k] = "RUNNABLE"
    <2>1. Seen(k + 1) = Seen(k) \cup {k} /\ Seen(k) \subseteq Slot
      <3>1. k \in Runnable /\ \A p \in Runnable : p < k + 1 <=> p < k \/ p = k
        BY <1>1, <1>3 DEF Runnable
      <3> QED
        BY Zenon, <1>1, <3>1 DEF Seen
    <2>2. PICK it : it = [index |-> k, min |-> Key(k)]
      BY Zenon
    <2>3. it.index = k /\ it.min = Key(k)
      BY Zenon, <2>2
    <2>4. \A p \in Slot : ~Precedes(p, p)
      <3>1. \A p \in Slot : dynamicPriority[p] \in Int /\ nRun[p] \in Int /\ ctime[p] \in Int
        BY NumberFacts
      <3> QED
        BY <3>1 DEF Precedes
    <2>5. CASE Seen(k) = {} /\ b = ScanStart
      <3>1. ScanStep(b, k) = it
        BY Zenon, <1>3, <2>2, <2>5, StepChoice
      <3> QED
        BY Zenon, <2>1, <2>3, <2>4, <2>5, <3>1 DEF BestOf
    <2>6. CASE /\ b.index \in Seen(k) /\ b.min = Key(b.index)
               /\ \A q \in Seen(k) : ~Precedes(q, b.index)
      <3>1. \/ ScanStep(b, k) = it /\ ~Precedes(b.index, k)
            \/ ScanStep(b, k) = b /\ ~Precedes(k, b.index)
        BY Zenon, <1>3, <2>1, <2>2, <2>6, StepChoice
      <3>2. CASE ScanStep(b, k) = it /\ ~Precedes(b.index, k)
        <4>1. \A q \in Seen(k) : ~Precedes(q, k)
          BY Zenon, <2>1, <2>6, <3>2, PrecedesFacts
        <4> QED
          BY Zenon, <2>1, <2>3, <2>4, <3>2, <4>1 DEF BestOf
      <3>3. CASE ScanStep(b, k) = b /\ ~Precedes(k, b.index)
        BY Zenon, <2>1, <2>6, <3>3 DEF BestOf
      <3> QED
        BY Zenon, <3>1, <3>2, <3>3
    <2> QED
      BY Zenon, <2>5, <2>6 DEF BestOf
  <1> QED
    BY Zenon, <1>2, <1>3

INSTANCE FiniteSetTheorems

\* Every set of numbers that has a member has a least one.
LEMMA Least ==
  ASSUME NEW S \in SUBSET Nat, S # {}
  PROVE  \E m \in S : \A x \in S : m <= x
  <1> DEFINE T == {0..k : k \in S}
  <1>1. T \subseteq FiniteSubsetsOf(Nat)
    <2>1. \A k \in S : IsFiniteSet(0..k)
      BY FS_Interval
    <2>2. \A k \in S : 0..k \in SUBSET Nat
      OBVIOUS
    <2> QED
      BY <2>1, <2>2, Zenon DEF FiniteSubsetsOf
  <1>2. T # {}
    BY Zenon
  <1>3. PICK t \in T : \A u \in T : <<u, t>> \notin StrictSubsetOrdering(Nat)
    <2> HIDE DEF T
    <2> QED
      BY <1>1, <1>2, FS_StrictSubsetOrderingWellFounded, WFMin, Zenon
  <1>4. PICK m \in S : t = 0..m
    BY Zenon
  <1>5. ASSUME NEW x \in S, x < m PROVE FALSE
    <2>1. 0..x \in T /\ 0..x \in SUBSET Nat /\ t \in SUBSET Nat
      BY <1>4
    <2>2. 0..x \subseteq t /\ 0..x # t
      <3>1. m \in 0..m /\ m \notin 0..x
        BY <1>5
      <3> QED
        BY <1>4, <1>5, <3>1
    <2> QED
      BY Zenon, <1>3, <2>1, <2>2 DEF StrictSubsetOrdering
  <1> QED
    BY <1>5

\* f is the pass slot by slot, and its last value is what the pass chooses.
IsScan(f) ==
  /\ f[0] = ScanStart
  /\ \A k \in Slot : f[k + 1] = ScanStep(f[k], k)
  /\ Scan = f[NPROC].index

\* The function that Scan defines by recursion exists: it is built up slot by
\* slot.
LEMMA ScanUnfolds ==
  \E f : IsScan(f)
  <1> DEFINE Upto(n) == \E f : f = [k \in 0..n |-> IF k = 0 THEN ScanStart
                                                  ELSE ScanStep(f[k - 1], k - 1)]
             Bad == {n \in 0..NPROC : ~Upto(n)}
  <1>1. NPROC \in Nat /\ NPROC \in 0..NPROC
    BY SchedAssumption
  <1>2. Upto(0)
    <2>1. PICK f : f = [k \in 0..0 |-> ScanStart]
      BY Zenon
    <2>2. f = [k \in 0..0 |-> IF k = 0 THEN ScanStart ELSE ScanStep(f[k - 1], k - 1)]
      <3>1. \A k \in 0..0 : k = 0
        OBVIOUS
      <3> QED
        BY Zenon, <2>1, <3>1
    <2> QED
      BY Zenon, <2>2
  <1>3. ASSUME NEW n \in 0..NPROC, n # 0, Upto(n - 1)
        PROVE  Upto(n)
    <2>1. PICK f : f = [k \in 0..(n - 1) |-> IF k = 0 THEN ScanStart ELSE ScanStep(f[k - 1], k - 1)]
      BY Zenon, <1>3
    <2>2. PICK g : g = [k \in 0..n |-> IF k = n THEN ScanStep(f[n - 1], n - 1) ELSE f[k]]
      BY Zenon
    <2>3. ASSUME NEW k \in 0..n
          PROVE  g[k] = IF k = 0 THEN ScanStart ELSE ScanStep(g[k - 1], k - 1)
      <3>1. g[k] = IF k = n THEN ScanStep(f[n - 1], n - 1) ELSE f[k]
        BY Zenon, <2>2
      <3>2. k # 0 => k - 1 \in 0..n /\ k - 1 # n /\ k - 1 \in 0..(n - 1)
        BY <1>1
      <3>3. k # 0 => g[k - 1] = f[k - 1]
        BY Zenon, <2>2, <3>2
      <3>4. CASE k = n
        BY Zenon, <1>3, <3>1, <3>3, <3>4
      <3>5. CASE k # n
        <4>1. k \in 0..(n - 1)
          BY <3>5
        <4>2. f[k] = IF k = 0 THEN ScanStart ELSE ScanStep(f[k - 1], k - 1)
          BY Zenon, <2>1, <4>1
        <4> QED
          BY Zenon, <3>1, <3>3, <3>5, <4>2
      <3> QED
        BY Zenon, <3>4, <3>5
    <2>4. g = [k \in 0..n |-> IF k = 0 THEN ScanStart ELSE ScanStep(g[k - 1], k - 1)]
      BY Zenon, <2>2, <2>3
    <2> QED
      BY Zenon, <2>4
  <1>4. Bad = {}
    <2> SUFFICES ASSUME Bad # {} PROVE FALSE
      BY Zenon
    <2>1. PICK n \in Bad : \A m \in Bad : n <= m
      <3>1. Bad \in SUBSET Nat
        OBVIOUS
      <3> HIDE DEF Bad
      <3> QED
        BY Zenon, <3>1, Least
    <2> HIDE DEF Upto
    <2>2. n \in 0..NPROC /\ ~Upto(n)
      BY Zenon
    <2>3. n # 0
      BY Zenon, <1>2, <2>2
    <2>4. n - 1 \in 0..NPROC /\ ~(n <= n - 1)
      BY <1>1, <2>2, <2>3
    <2>5. Upto(n - 1)
      BY Zenon, <2>1, <2>4
    <2> QED
      BY Zenon, <1>3, <2>2, <2>3, <2>5
  <1>5. Upto(NPROC)
    <2> HIDE DEF Upto
    <2> QED
      BY Zenon, <1>1, <1>4
  <1>6. PICK f : /\ f = [k \in 0..NPROC |-> IF k = 0 THEN ScanStart ELSE ScanStep(f[k - 1], k - 1)]
                 /\ Scan = f[NPROC].index
    BY Zenon, <1>5 DEF Scan
  <1>7. f[0] = ScanStart
    BY <1>1, <1>6
  <1>8. ASSUME NEW k \in Slot PROVE f[k + 1] = ScanStep(f[k], k)
    <2>1. k + 1 \in 0..NPROC /\ k + 1 # 0 /\ (k + 1) - 1 = k
      BY <1>1 DEF Slot
    <2> QED
      BY Zenon, <1>6, <2>1
  <1>9. IsScan(f)
    BY Zenon, <1>6, <1>7, <1>8 DEF IsScan
  <1> QED
    BY <1>9, Zenon

\* A pass of fcfs() or pbs_scheduler() that nothing disturbs finds a runnable
\* process, if there is one, that no other precedes in the policy's order.
THEOREM SchedScanBest ==
  Spec => []ScanBest
  <1>1. IInv => ScanBest
    <2> SUFFICES ASSUME IInv, Policy # "RR", Runnable # {}
                 PROVE  Scan \in Runnable /\ \A q \in Runnable : ~Precedes(q, Scan)
      BY Zenon DEF ScanBest, Precedes
    <2>1. Policy \in {"FCFS", "PBS"}
      BY Zenon, SchedAssumption DEF IInv, TypeInv, Policy
    <2>2. PICK f : IsScan(f)
      BY ScanUnfolds, Zenon
    <2>3. /\ f[0] = ScanStart
          /\ \A k \in Slot : f[k + 1] = ScanStep(f[k], k)
          /\ Scan = f[NPROC].index
      BY Zenon, <2>2 DEF IsScan
    <2>4. NPROC \in Nat /\ Slot = 0..(NPROC - 1)
      BY Zenon, SchedAssumption DEF Slot
    <2> DEFINE Bad == {k \in 0..NPROC : ~BestOf(f[k], k)}
    <2>5. 0 \notin Bad
      <3>1. Seen(0) = {}
        BY <2>4 DEF Seen, Runnable
      <3> QED
        BY Zenon, <2>3, <3>1 DEF BestOf
    <2>6. Bad = {}
      <3> SUFFICES ASSUME Bad # {} PROVE FALSE
        BY Zenon
      <3>1. PICK n \in Bad : \A m \in Bad : n <= m
        <4>1. Bad \in SUBSET Nat
          OBVIOUS
        <4> HIDE DEF Bad
        <4> QED
          BY Zenon, <4>1, Least
      <3>2. n \in 0..NPROC /\ n # 0 /\ ~BestOf(f[n], n)
        BY Zenon, <2>5, <3>1
      <3>3. PICK k \in Slot : n = k + 1 /\ k \in 0..NPROC /\ ~(n <= k)
        <4>1. n - 1 \in Slot /\ n = (n - 1) + 1 /\ n - 1 \in 0..NPROC /\ ~(n <= n - 1)
          BY <2>4, <3>2
        <4> QED
          BY Zenon, <4>1
      <3>4. BestOf(f[k], k)
        BY Zenon, <3>1, <3>3
      <3> QED
        BY Zenon, <2>1, <2>3, <3>2, <3>3, <3>4, StepBest
    <2>7. BestOf(f[NPROC], NPROC)
      BY <2>4, <2>6
    <2>8. Seen(NPROC) = Runnable
      BY <2>4 DEF Seen, Runnable
    <2>9. PICK b : b = f[NPROC]
      BY Zenon
    <2>10. Scan = b.index
      BY Zenon, <2>3, <2>9
    <2>11. BestOf(b, NPROC)
      BY Zenon, <2>7, <2>9
    <2>12. b.index \in Runnable /\ \A q \in Runnable : ~Precedes(q, b.index)
      BY Zenon, <2>8, <2>11 DEF BestOf
    <2> QED
      BY Zenon, <2>10, <2>12
  <1> QED
    BY <1>1, SchedInvariant, PTL
=============================================================================
