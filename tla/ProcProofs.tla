----------------------------- MODULE ProcProofs ------------------------------
(***************************************************************************)
(* Proofs about Proc, for every number of slots and every set of harts: no *)
(* kernel stack is in use by two harts, and no exit() is lost.             *)
(*                                                                         *)
(* The inductive invariant IInv joins TypeOK with eight conjuncts.         *)
(* LockInv and CurInv say who holds p->lock and who is on a stack,         *)
(* PlaceInv, ForkInv and IndexInv where each process is in its call,       *)
(* WaitLockInv who holds wait_lock, ChildInv what p->parent may be, and    *)
(* WakeInv that sleep() and wakeup() under wait_lock leave no ZOMBIE       *)
(* behind a parent that sleeps.                                            *)
(***************************************************************************)
EXTENDS Proc, TLAPS

Started(p) == state[p] \in {"SLEEPING", "RUNNABLE", "RUNNING", "ZOMBIE"}

\* p->lock is held from one step to the next only by the hart on p's stack,
\* across swtch().
LockInv == \A p \in Slot : lock[p] # None => cur[lock[p]] = p

\* A hart is on the stack of one process, a RUNNING one or one that it has locked.
CurInv ==
  /\ \A h, g \in Hart : cur[h] # None /\ cur[h] = cur[g] => h = g
  /\ \A p \in Slot : state[p] = "RUNNING" => \E h \in Hart : cur[h] = p
  /\ \A h \in Hart : cur[h] # None =>
       /\ state[cur[h]] = "RUNNING" \/ lock[cur[h]] = h
       /\ state[cur[h]] \notin {"UNUSED", "USED"}

\* Where a process is that does not run; init does not exit.
PlaceInv ==
  /\ \A p \in Slot :
       /\ state[p] = "UNUSED" => pc[p] \in {"user", "zombie"}
       /\ state[p] = "USED" => pc[p] = "user"
       /\ state[p] = "ZOMBIE" => pc[p] = "zombie"
       /\ state[p] = "SLEEPING" => pc[p] = "wait" /\ chan[p] = p
  /\ state[initproc] \in {"SLEEPING", "RUNNABLE", "RUNNING"}
  /\ pc[initproc] \notin {"exit", "reparent", "wakeInit", "wakeParent", "zombie"}

\* The slot that fork() is filling belongs to one fork(), and nobody else sees it.
ForkInv ==
  \A p \in Slot : pc[p] \in {"link", "ready"} =>
    /\ state[j[p]] = "USED"
    /\ pc[p] = "ready" => parent[j[p]] = p
    /\ \A q \in Slot : pc[q] \in {"link", "ready"} /\ j[q] = j[p] => q = p

\* The loop indices are 0 outside the loops.
IndexInv ==
  \A p \in Slot :
    /\ pc[p] \notin {"alloc", "link", "ready", "reparent", "wakeInit", "scan"} => j[p] = 0
    /\ pc[p] \notin {"wakeInit", "wakeParent"} => k[p] = 0

\* p is inside exit() or wait() where it holds wait_lock.
Inside(p) ==
  \/ pc[p] \in {"reparent", "wakeInit", "wakeParent", "scan", "scanned", "sleep"}
  \/ pc[p] = "zombie" /\ state[p] \notin {"ZOMBIE", "UNUSED"}

WaitLockInv ==
  /\ \A p \in Slot : Inside(p) => state[p] = "RUNNING" /\ waitLock # None /\ cur[waitLock] = p
  /\ waitLock # None => cur[waitLock] # None /\ Inside(cur[waitLock])

\* A process that has started has a parent and a free slot has none; a slot
\* without a living process is nobody's parent, and an exit() in reparent() is
\* no longer the parent of the slots it has passed.
ChildInv ==
  /\ \A p \in Slot : state[p] = "UNUSED" => parent[p] = None
  /\ \A p \in Slot \ {initproc} : Started(p) => parent[p] # None
  /\ \A p, q \in Slot : parent[q] = p =>
       /\ state[p] \notin {"UNUSED", "USED", "ZOMBIE"}
       /\ pc[p] = "reparent" => j[p] <= q
       /\ pc[p] = "wakeInit" => j[p] < q
       /\ pc[p] \notin {"wakeParent", "zombie"}

\* A parent that has scanned a slot, and is about to sleep, has no ZOMBIE there; a
\* child that is about to become one has woken its parent; and a ZOMBIE whose
\* parent sleeps is one that exit() gave to init, which it will wake next.
WakeInv ==
  /\ \A p, q \in Slot : parent[q] = p /\ state[q] = "ZOMBIE" =>
       /\ pc[p] = "scan" => j[p] <= q
       /\ pc[p] \notin {"scanned", "sleep"}
       /\ state[p] = "SLEEPING" =>
            p = initproc /\ \E x \in Slot : pc[x] = "wakeInit" /\ k[x] = 0
  /\ \A p, q \in Slot : parent[p] = q /\ state[q] = "SLEEPING" =>
       /\ pc[p] = "wakeParent" => k[p] <= q
       /\ pc[p] = "zombie" => state[p] = "ZOMBIE"

IInv ==
  /\ TypeOK /\ LockInv /\ CurInv /\ PlaceInv /\ ForkInv /\ IndexInv
  /\ WaitLockInv /\ ChildInv /\ WakeInv

-----------------------------------------------------------------------------
(* Lemmas about the constants and the locks *)

\* None is neither a slot nor a hart, and init has a slot.
LEMMA Names == initproc \in Slot /\ None \notin Slot /\ None \notin Hart
  BY ProcTableAssumption DEF Slot, initproc

\* A loop over the process table goes on to a slot, or has passed them all.
LEMMA NextSlot ==
  ASSUME NEW x \in Slot
  PROVE  /\ 0 \in Slot /\ x \in Nat
         /\ x + 1 < NPROC => x + 1 \in Slot
         /\ ~(x + 1 < NPROC) => \A y \in Slot : y <= x
  BY ProcTableAssumption DEF Slot

\* wait_lock is a lock: one process is inside.
LEMMA OneInside ==
  ASSUME IInv, NEW p \in Slot, NEW q \in Slot, Inside(p), Inside(q)
  PROVE  p = q
  BY Zenon DEF IInv, WaitLockInv

-----------------------------------------------------------------------------
(* The invariant holds initially and every action preserves it *)

\* Initially only init exists, and it has not run.
LEMMA InitIInv == Init => IInv
  <1> SUFFICES ASSUME Init PROVE IInv
    BY Zenon
  <1>1. TypeOK
    BY Zenon, Names, NextSlot DEF Init, TypeOK, initproc
  <1>2. LockInv /\ CurInv /\ PlaceInv /\ ForkInv
    BY Zenon, Names DEF Init, LockInv, CurInv, PlaceInv, ForkInv
  <1>3. IndexInv /\ WaitLockInv /\ ChildInv /\ WakeInv
    BY Zenon, Names DEF Init, IndexInv, WaitLockInv, Inside, ChildInv, Started, WakeInv
  <1> QED
    BY Zenon, <1>1, <1>2, <1>3 DEF IInv

\* scheduler() takes p->lock and the CPU of one process; nothing else refers to
\* a RUNNABLE process by its state.
LEMMA RunIInv ==
  ASSUME IInv, NEW h \in Hart, NEW p \in Slot, Run(h, p)
  PROVE  IInv'
  <1>1. TypeOK'
    BY Zenon, Names DEF IInv, TypeOK, Run
  <1>2. LockInv'
    BY Names DEF IInv, TypeOK, LockInv, Run
  <1>3. CurInv'
    BY Names DEF IInv, TypeOK, CurInv, Run
  <1>4. PlaceInv'
    BY Names DEF IInv, PlaceInv, Run
  <1>5. ForkInv'
    BY Names DEF IInv, ForkInv, Run
  <1>6. IndexInv'
    BY Zenon, Names DEF IInv, IndexInv, Run
  <1>7. WaitLockInv'
    BY Names DEF IInv, WaitLockInv, Inside, Run
  <1>8. ChildInv'
    BY Names DEF IInv, ChildInv, Started, Run
  <1>9. WakeInv'
    BY Names DEF IInv, WakeInv, Run
  <1> QED
    BY Zenon, <1>1, <1>2, <1>3, <1>4, <1>5, <1>6, <1>7, <1>8, <1>9 DEF IInv

\* After swtch() the process releases the p->lock that scheduler() took.
LEMMA ResumeIInv ==
  ASSUME IInv, NEW h \in Hart, Resume(h)
  PROVE  IInv'
  <1>1. TypeOK'
    BY Zenon, Names DEF IInv, TypeOK, Resume
  <1>2. LockInv'
    BY Names DEF IInv, LockInv, Resume
  <1>3. CurInv'
    BY Names DEF IInv, CurInv, Resume
  <1>4. PlaceInv'
    BY Names DEF IInv, PlaceInv, Resume
  <1>5. ForkInv'
    BY Zenon, Names DEF IInv, ForkInv, Resume
  <1>6. IndexInv'
    BY Zenon, Names DEF IInv, IndexInv, Resume
  <1>7. WaitLockInv'
    BY Zenon, Names DEF IInv, WaitLockInv, Inside, Resume
  <1>8. ChildInv'
    BY Zenon, Names DEF IInv, ChildInv, Started, Resume
  <1>9. WakeInv'
    BY Names DEF IInv, WakeInv, Resume
  <1> QED
    BY Zenon, <1>1, <1>2, <1>3, <1>4, <1>5, <1>6, <1>7, <1>8, <1>9 DEF IInv

\* The process that leaves has handed its p->lock to the scheduler, and holds
\* no wait_lock, which only a RUNNING process does.
LEMMA SwtchOutIInv ==
  ASSUME IInv, NEW h \in Hart, SwtchOut(h)
  PROVE  IInv'
  <1>1. TypeOK'
    BY Zenon, Names DEF IInv, TypeOK, SwtchOut
  <1>2. LockInv'
    BY Zenon, Names DEF IInv, TypeOK, LockInv, SwtchOut
  <1>3. CurInv'
    BY Names DEF IInv, TypeOK, CurInv, SwtchOut
  <1>4. PlaceInv'
    BY Zenon, Names DEF IInv, PlaceInv, SwtchOut
  <1>5. ForkInv'
    BY Zenon, Names DEF IInv, ForkInv, SwtchOut
  <1>6. IndexInv'
    BY Zenon, Names DEF IInv, IndexInv, SwtchOut
  <1>7. WaitLockInv'
    BY Names DEF IInv, TypeOK, WaitLockInv, Inside, SwtchOut
  <1>8. ChildInv'
    BY Zenon, Names DEF IInv, ChildInv, Started, SwtchOut
  <1>9. WakeInv'
    BY Names DEF IInv, WakeInv, SwtchOut
  <1> QED
    BY Zenon, <1>1, <1>2, <1>3, <1>4, <1>5, <1>6, <1>7, <1>8, <1>9 DEF IInv

\* yield() makes p RUNNABLE under p->lock, so that it stays on its stack alone.
LEMMA YieldIInv ==
  ASSUME IInv, NEW h \in Hart, Yield(h)
  PROVE  IInv'
  <1>1. TypeOK'
    BY Zenon, Names DEF IInv, TypeOK, Yield
  <1>2. LockInv'
    BY Names DEF IInv, LockInv, Yield
  <1>3. CurInv'
    BY Names DEF IInv, TypeOK, CurInv, Yield
  <1>4. PlaceInv'
    BY Names DEF IInv, PlaceInv, Yield
  <1>5. ForkInv'
    BY Names DEF IInv, ForkInv, Yield
  <1>6. IndexInv'
    BY Zenon, Names DEF IInv, IndexInv, Yield
  <1>7. WaitLockInv'
    BY Names DEF IInv, TypeOK, CurInv, WaitLockInv, Inside, Yield
  <1>8. ChildInv'
    BY Names DEF IInv, ChildInv, Started, Yield
  <1>9. WakeInv'
    BY Names DEF IInv, WakeInv, Yield
  <1> QED
    BY Zenon, <1>1, <1>2, <1>3, <1>4, <1>5, <1>6, <1>7, <1>8, <1>9 DEF IInv

\* fork() begins.
LEMMA ForkIInv ==
  ASSUME IInv, NEW h \in Hart, NEW p \in Slot, Fork(h, p)
  PROVE  IInv'
  <1>1. TypeOK'
    BY Zenon, Names DEF IInv, TypeOK, Fork, Goto
  <1>2. LockInv'
    BY Zenon, Names DEF IInv, LockInv, Fork
  <1>3. CurInv'
    BY Zenon, Names DEF IInv, CurInv, Fork
  <1>4. PlaceInv'
    BY Names DEF IInv, PlaceInv, Fork, At, Goto
  <1>5. ForkInv'
    BY Names DEF IInv, ForkInv, Fork, Goto
  <1>6. IndexInv'
    BY Names DEF IInv, IndexInv, Fork, At, Goto
  <1>7. WaitLockInv'
    BY Names DEF IInv, WaitLockInv, Inside, Fork, At, Goto
  <1>8. ChildInv'
    BY Names DEF IInv, ChildInv, Started, Fork, Goto
  <1>9. WakeInv'
    BY Names DEF IInv, WakeInv, Fork, At, Goto
  <1> QED
    BY Zenon, <1>1, <1>2, <1>3, <1>4, <1>5, <1>6, <1>7, <1>8, <1>9 DEF IInv

\* allocproc() takes a free slot, which is nobody's parent and has none.
LEMMA AllocIInv ==
  ASSUME IInv, NEW h \in Hart, NEW p \in Slot, Alloc(h, p)
  PROVE  IInv'
  <1>1. TypeOK'
    <2>1. j[p] \in Slot
      BY Zenon DEF IInv, TypeOK
    <2>2. /\ 0 \in Slot
          /\ j[p] + 1 < NPROC => j[p] + 1 \in Slot
      BY Zenon, <2>1, NextSlot
    <2>3. j' \in [Slot -> Slot]
      BY <2>2 DEF IInv, TypeOK, Alloc
    <2>4. pc' \in [Slot -> {"user", "alloc", "link", "ready", "exit", "reparent", "wakeInit",
                         "wakeParent", "zombie", "wait", "scan", "scanned", "sleep"}]
      BY Zenon, <2>1 DEF IInv, TypeOK, Alloc, Goto
    <2>5. /\ parent' \in [Slot -> Slot \cup {None}]
          /\ killed' \in [Slot -> BOOLEAN]
          /\ chan' \in [Slot -> Slot \cup {None}]
      BY ZenonT(30), <2>1 DEF IInv, TypeOK, Alloc, freeproc
    <2>6. state' \in [Slot -> {"UNUSED", "USED", "SLEEPING", "RUNNABLE", "RUNNING", "ZOMBIE"}]
      BY <2>1 DEF IInv, TypeOK, Alloc, freeproc
    <2> QED
      BY Zenon, <2>3, <2>4, <2>5, <2>6 DEF IInv, TypeOK, Alloc
  <1>2. LockInv'
    BY Zenon, Names DEF IInv, LockInv, Alloc
  <1>3. CurInv'
    BY Names DEF IInv, TypeOK, CurInv, Alloc, At, freeproc
  <1>4. PlaceInv'
    BY Names DEF IInv, TypeOK, PlaceInv, Alloc, At, Goto, freeproc
  <1>5. ForkInv'
    BY Names DEF IInv, TypeOK, PlaceInv, ForkInv, Alloc, At, Goto, freeproc
  <1>6. IndexInv'
    BY Names DEF IInv, TypeOK, PlaceInv, IndexInv, Alloc, At, Goto, freeproc
  <1>7. WaitLockInv'
    BY Names DEF IInv, TypeOK, WaitLockInv, Inside, Alloc, At, Goto, freeproc
  <1>8. ChildInv'
    BY Names DEF IInv, TypeOK, IndexInv, ChildInv, Started, Alloc, At, Goto, freeproc
  <1>9. WakeInv'
    <2>1. j[p] \in Slot /\ state[p] = "RUNNING" /\ pc[p] = "alloc"
      BY Zenon DEF IInv, TypeOK, Alloc, At
    <2>2. \A q \in Slot : /\ q # p /\ q # j[p] => pc'[q] = pc[q] /\ j'[q] = j[q]
                          /\ parent'[q] \in Slot => parent'[q] = parent[q]
      BY <2>1, Names DEF IInv, TypeOK, Alloc, Goto, freeproc
    <2>3. CASE state[j[p]] # "UNUSED"
      BY <2>1, <2>3 DEF IInv, TypeOK, WakeInv, Alloc, Goto
    <2>4. CASE state[j[p]] = "UNUSED"
      <3>1. /\ pc'[p] \in {"user", "link"} /\ pc'[j[p]] \in {pc[j[p]], "user"}
            /\ state'[j[p]] \in {"USED", "UNUSED"}
            /\ \A q \in Slot : q # j[p] => state'[q] = state[q]
            /\ UNCHANGED k
        BY <2>1, <2>4 DEF IInv, TypeOK, Alloc, Goto, freeproc
      <3>2. \A q \in Slot : parent[q] # j[p]
        BY Zenon, <2>1, <2>4 DEF IInv, ChildInv
      <3>3. parent[j[p]] = None /\ pc[j[p]] \in {"user", "zombie"}
        BY Zenon, <2>1, <2>4 DEF IInv, ChildInv, PlaceInv
      <3>4. ASSUME NEW r \in Slot, NEW q \in Slot, parent'[q] = r, state'[q] = "ZOMBIE"
            PROVE  /\ pc'[r] = "scan" => j'[r] <= q
                   /\ pc'[r] \notin {"scanned", "sleep"}
                   /\ state'[r] = "SLEEPING" =>
                        r = initproc /\ \E x \in Slot : pc'[x] = "wakeInit" /\ k'[x] = 0
        <4>1. parent[q] = r /\ state[q] = "ZOMBIE" /\ r # j[p]
          BY Zenon, <2>1, <2>2, <3>1, <3>2, <3>4
        <4>2. \A x \in Slot : pc[x] = "wakeInit" => pc'[x] = "wakeInit"
          BY Zenon, <2>1, <2>2, <3>3
        <4> QED
          BY <2>1, <2>2, <3>1, <4>1, <4>2 DEF IInv, WakeInv
      <3>5. ASSUME NEW c \in Slot, NEW q \in Slot, parent'[c] = q, state'[q] = "SLEEPING"
            PROVE  /\ pc'[c] = "wakeParent" => k'[c] <= q
                   /\ pc'[c] = "zombie" => state'[c] = "ZOMBIE"
        <4>1. parent[c] = q /\ state[q] = "SLEEPING" /\ c # j[p]
          BY Zenon, <2>1, <2>2, <3>1, <3>3, <3>5, Names
        <4> QED
          BY <2>1, <2>2, <3>1, <4>1 DEF IInv, WakeInv
      <3> QED
        BY Zenon, <3>4, <3>5 DEF WakeInv
    <2> QED
      BY Zenon, <2>3, <2>4
  <1> QED
    BY Zenon, <1>1, <1>2, <1>3, <1>4, <1>5, <1>6, <1>7, <1>8, <1>9 DEF IInv

\* The child gets its parent, which is RUNNING.
LEMMA LinkIInv ==
  ASSUME IInv, NEW h \in Hart, NEW p \in Slot, Link(h, p)
  PROVE  IInv'
  <1>1. TypeOK'
    BY Zenon, Names DEF IInv, TypeOK, Link, Goto
  <1>2. LockInv'
    BY Zenon, Names DEF IInv, LockInv, Link
  <1>3. CurInv'
    BY Zenon, Names DEF IInv, CurInv, Link
  <1>4. PlaceInv'
    BY Names DEF IInv, PlaceInv, Link, At, Goto
  <1>5. ForkInv'
    BY Names DEF IInv, TypeOK, ForkInv, Link, At, Goto
  <1>6. IndexInv'
    BY Names DEF IInv, IndexInv, Link, At, Goto
  <1>7. WaitLockInv'
    BY Names DEF IInv, WaitLockInv, Inside, Link, Goto
  <1>8. ChildInv'
    BY Names DEF IInv, ForkInv, ChildInv, Started, Link, At, Goto
  <1>9. WakeInv'
    BY Names DEF IInv, WakeInv, Link, At, Goto
  <1> QED
    BY Zenon, <1>1, <1>2, <1>3, <1>4, <1>5, <1>6, <1>7, <1>8, <1>9 DEF IInv

\* The child starts: it has a parent, and no other fork() has the slot.
LEMMA ReadyIInv ==
  ASSUME IInv, NEW h \in Hart, NEW p \in Slot, Ready(h, p)
  PROVE  IInv'
  <1>1. TypeOK'
    BY Zenon, Names DEF IInv, TypeOK, Ready, Goto, initproc
  <1>2. LockInv'
    BY Zenon, Names DEF IInv, LockInv, Ready
  <1>3. CurInv'
    BY Names DEF IInv, CurInv, ForkInv, Ready, At
  <1>4. PlaceInv'
    BY Names DEF IInv, PlaceInv, Ready, At, Goto
  <1>5. ForkInv'
    BY Names DEF IInv, TypeOK, ForkInv, Ready, At, Goto
  <1>6. IndexInv'
    BY Names DEF IInv, TypeOK, IndexInv, Ready, At, Goto
  <1>7. WaitLockInv'
    BY Names DEF IInv, ForkInv, WaitLockInv, Inside, Ready, At, Goto
  <1>8. ChildInv'
    BY Names DEF IInv, ForkInv, ChildInv, Started, Ready, At, Goto
  <1>9. WakeInv'
    BY Names DEF IInv, ForkInv, WakeInv, Ready, At, Goto
  <1> QED
    BY Zenon, <1>1, <1>2, <1>3, <1>4, <1>5, <1>6, <1>7, <1>8, <1>9 DEF IInv

\* exit() begins, not for init.
LEMMA ExitIInv ==
  ASSUME IInv, NEW h \in Hart, NEW p \in Slot, Exit(h, p)
  PROVE  IInv'
  <1>1. TypeOK'
    BY Zenon, Names DEF IInv, TypeOK, Exit, Goto
  <1>2. LockInv'
    BY Zenon, Names DEF IInv, LockInv, Exit
  <1>3. CurInv'
    BY Zenon, Names DEF IInv, CurInv, Exit
  <1>4. PlaceInv'
    BY Names DEF IInv, PlaceInv, Exit, At, Goto
  <1>5. ForkInv'
    BY Names DEF IInv, ForkInv, Exit, Goto
  <1>6. IndexInv'
    BY Names DEF IInv, IndexInv, Exit, At, Goto
  <1>7. WaitLockInv'
    BY Names DEF IInv, WaitLockInv, Inside, Exit, At, Goto
  <1>8. ChildInv'
    BY Names DEF IInv, ChildInv, Started, Exit, Goto
  <1>9. WakeInv'
    BY Names DEF IInv, WakeInv, Exit, At, Goto
  <1> QED
    BY Zenon, <1>1, <1>2, <1>3, <1>4, <1>5, <1>6, <1>7, <1>8, <1>9 DEF IInv

\* exit() takes wait_lock and begins with slot 0.
LEMMA ExitLockIInv ==
  ASSUME IInv, NEW h \in Hart, NEW p \in Slot, ExitLock(h, p)
  PROVE  IInv'
  <1>1. TypeOK'
    BY Zenon, Names DEF IInv, TypeOK, ExitLock, Goto
  <1>2. LockInv'
    BY Zenon, Names DEF IInv, LockInv, ExitLock
  <1>3. CurInv'
    BY Zenon, Names DEF IInv, CurInv, ExitLock
  <1>4. PlaceInv'
    BY Names DEF IInv, PlaceInv, ExitLock, At, Goto
  <1>5. ForkInv'
    BY Names DEF IInv, ForkInv, ExitLock, Goto
  <1>6. IndexInv'
    BY Names DEF IInv, IndexInv, ExitLock, At, Goto
  <1>7. WaitLockInv'
    BY Names DEF IInv, TypeOK, WaitLockInv, Inside, ExitLock, At, Goto
  <1>8. ChildInv'
    <2>1. j[p] = 0
      BY Zenon DEF IInv, IndexInv, ExitLock, At
    <2>2. \A q \in Slot : 0 <= q
      BY DEF Slot
    <2> QED
      BY <2>1, <2>2 DEF IInv, ChildInv, Started, ExitLock, Goto
  <1>9. WakeInv'
    BY Names DEF IInv, WakeInv, ExitLock, At, Goto
  <1> QED
    BY Zenon, <1>1, <1>2, <1>3, <1>4, <1>5, <1>6, <1>7, <1>8, <1>9 DEF IInv

\* reparent() gives one child to init, or passes a slot that is no child.
LEMMA ReparentIInv ==
  ASSUME IInv, NEW h \in Hart, NEW p \in Slot, Reparent(h, p)
  PROVE  IInv'
  <1>1. TypeOK'
    <2>1. j[p] \in Slot
      BY Zenon DEF IInv, TypeOK
    <2>2. /\ 0 \in Slot
          /\ j[p] + 1 < NPROC => j[p] + 1 \in Slot
      BY Zenon, <2>1, NextSlot
    <2>3. j' \in [Slot -> Slot]
      BY <2>2 DEF IInv, TypeOK, Reparent, NextChild
    <2>4. parent' \in [Slot -> Slot \cup {None}]
      BY Names DEF IInv, TypeOK, Reparent
    <2> QED
      BY Zenon, <2>3, <2>4 DEF IInv, TypeOK, Reparent, NextChild, Goto
  <1>2. LockInv'
    BY Zenon, Names DEF IInv, LockInv, Reparent
  <1>3. CurInv'
    BY Zenon, Names DEF IInv, CurInv, Reparent
  <1>4. PlaceInv'
    BY Names DEF IInv, TypeOK, PlaceInv, Reparent, NextChild, At, Goto
  <1>5. ForkInv'
    BY Names DEF IInv, TypeOK, ForkInv, Reparent, NextChild, Goto
  <1>6. IndexInv'
    BY Names DEF IInv, TypeOK, IndexInv, Reparent, NextChild, At, Goto
  <1>7. WaitLockInv'
    BY Names DEF IInv, TypeOK, WaitLockInv, Inside, Reparent, NextChild, At, Goto
  <1>8. ChildInv'
    <2>1. j[p] \in Slot /\ j[p] \in Nat /\ p # initproc
      BY Zenon, NextSlot DEF IInv, TypeOK, PlaceInv, Reparent, At
    <2>2. CASE parent[j[p]] = p
      <3>1. \A q \in Slot : parent'[q] = p => q # j[p] /\ parent[q] = p
        BY Zenon, <2>1, <2>2 DEF IInv, TypeOK, Reparent
      <3>2. \A q \in Slot : parent'[q] = p => j[p] < q
        BY <2>1, <3>1 DEF IInv, ChildInv, Reparent, At, Slot
      <3> QED
        BY <2>1, <2>2, <3>2, Names DEF IInv, TypeOK, PlaceInv, ChildInv, Started, Reparent, Goto
    <2>3. CASE parent[j[p]] # p
      <3>1. \A q \in Slot : parent[q] = p => j[p] < q /\ j[p] + 1 <= q
        BY <2>1, <2>3 DEF IInv, ChildInv, Reparent, At, Slot
      <3>2. ASSUME NEW q \in Slot, parent[q] = p, ~(j[p] + 1 < NPROC)
            PROVE  FALSE
        <4>1. j[p] < q
          BY Zenon, <3>1, <3>2
        <4>2. q \in Nat /\ q <= j[p]
          BY Zenon, <2>1, <3>2, NextSlot
        <4> QED
          BY <2>1, <4>1, <4>2
      <3> QED
        BY SMTT(30), <2>1, <2>3, <3>1, <3>2, Names DEF IInv, TypeOK, ChildInv, Started, Reparent,
           NextChild, Goto
    <2> QED
      BY Zenon, <2>2, <2>3
  <1>9. WakeInv'
    <2>1. Inside(p) /\ j[p] \in Slot /\ p # initproc /\ k[p] = 0
      BY Zenon DEF IInv, TypeOK, PlaceInv, IndexInv, Reparent, At, Inside
    <2>2. \A q \in Slot : q # p => /\ pc[q] \notin {"scan", "scanned", "sleep", "wakeInit", "wakeParent"}
                                   /\ pc[q] = "zombie" => state[q] \in {"ZOMBIE", "UNUSED"}
        BY Zenon, <2>1, OneInside DEF Inside
    <2>3. state[j[p]] = "UNUSED" => parent[j[p]] # p
        BY Zenon, <2>1, Names DEF IInv, ChildInv
    <2>4. \A q \in Slot : 0 <= q
      BY DEF Slot
    <2>5. state[p] = "RUNNING" /\ pc[p] = "reparent" /\ UNCHANGED <<state, k>> BY Zenon DEF Reparent, At
    <2>6. pc'[p] \in {"wakeInit", "reparent", "wakeParent"} /\ (parent[j[p]] = p => pc'[p] = "wakeInit")
          /\ \A q \in Slot : q # p => pc'[q] = pc[q]
       BY DEF Reparent, NextChild, Goto, IInv, TypeOK
    <2>7. \A q \in Slot : parent'[q] = parent[q] \/ (parent'[q] = initproc /\ q = j[p] /\ parent[j[p]] = p)
       BY Zenon DEF Reparent, IInv, TypeOK
    <2>8. ASSUME NEW r \in Slot, NEW q \in Slot, parent'[q] = r, state'[q] = "ZOMBIE"
          PROVE /\ pc'[r] \notin {"scan", "scanned", "sleep"}
                /\ state'[r] = "SLEEPING" => r = initproc /\ pc'[p] = "wakeInit" /\ k'[p] = 0
      BY <2>1, <2>2, <2>5, <2>6, <2>7, <2>8 DEF IInv, WakeInv
    <2>9. ASSUME NEW c \in Slot, NEW q \in Slot, parent'[c] = q, state'[q] = "SLEEPING"
          PROVE 
         /\ pc'[c] = "wakeParent" => k'[c] <= q
         /\ pc'[c] = "zombie" => state'[c] = "ZOMBIE"
      BY <2>1, <2>2, <2>4, <2>3, <2>5, <2>6, <2>7, <2>9, Names DEF IInv, WakeInv
    <2> QED BY Zenon, <2>8, <2>9 DEF WakeInv
  <1> QED
    BY Zenon, <1>1, <1>2, <1>3, <1>4, <1>5, <1>6, <1>7, <1>8, <1>9 DEF IInv

\* wakeup(initproc): init sits in slot 0, so that it is awake after the first step.
LEMMA WakeInitIInv ==
  ASSUME IInv, NEW h \in Hart, NEW p \in Slot, WakeInit(h, p)
  PROVE  IInv'
  <1>1. TypeOK'
    <2>1. j[p] \in Slot /\ k[p] \in Slot
      BY Zenon DEF IInv, TypeOK
    <2>2. /\ 0 \in Slot
          /\ j[p] + 1 < NPROC => j[p] + 1 \in Slot
          /\ k[p] + 1 < NPROC => k[p] + 1 \in Slot
      BY Zenon, <2>1, NextSlot
    <2>3. j' \in [Slot -> Slot]
      BY <2>2 DEF IInv, TypeOK, WakeInit, NextChild
    <2>4. k' \in [Slot -> Slot]
      BY Zenon, <2>2 DEF IInv, TypeOK, WakeInit
    <2>5. state' \in [Slot -> {"UNUSED", "USED", "SLEEPING", "RUNNABLE", "RUNNING", "ZOMBIE"}]
      BY Zenon DEF IInv, TypeOK, WakeInit, WakeSlot
    <2> QED
      BY <2>3, <2>4, <2>5 DEF IInv, TypeOK, WakeInit, NextChild, Goto
  <1>2. LockInv'
    BY Zenon, Names DEF IInv, LockInv, WakeInit
  <1>3. CurInv'
    BY Names DEF IInv, CurInv, WakeInit, WakeSlot
  <1>4. PlaceInv'
    BY Names DEF IInv, TypeOK, PlaceInv, WakeInit, WakeSlot, NextChild, At, Goto
  <1>5. ForkInv'
    BY Names DEF IInv, TypeOK, ForkInv, WakeInit, WakeSlot, NextChild, At, Goto
  <1>6. IndexInv'
    BY Names DEF IInv, TypeOK, IndexInv, WakeInit, NextChild, At, Goto
  <1>7. WaitLockInv'
    BY Names DEF IInv, TypeOK, WaitLockInv, Inside, WakeInit, WakeSlot, NextChild, At, Goto
  <1>8. ChildInv'
    <2>1. j[p] \in Slot /\ j[p] \in Nat /\ k[p] \in Slot
      BY Zenon, NextSlot DEF IInv, TypeOK
    <2>2. \A q \in Slot : parent[q] = p => j[p] < q /\ j[p] + 1 <= q
        BY <2>1 DEF IInv, ChildInv, WakeInit, At, Slot
    <2>3. ASSUME NEW q \in Slot, parent[q] = p, ~(j[p] + 1 < NPROC) PROVE FALSE
        <4>1. j[p] < q BY Zenon, <2>2, <2>3
        <4>2. q \in Nat /\ q <= j[p] BY Zenon, <2>1, <2>3, NextSlot
        <4> QED BY <2>1, <4>1, <4>2
    <2>4. \A q \in Slot : state'[q] # state[q] => state[q] = "SLEEPING" /\ state'[q] = "RUNNABLE"
      BY <2>1 DEF WakeInit, WakeSlot
    <2>5. /\ \A q \in Slot : q # p => pc'[q] = pc[q]
          /\ \/ pc'[p] = "wakeInit" /\ j'[p] = j[p]
             \/ pc'[p] = "reparent" /\ j'[p] = j[p] + 1
             \/ pc'[p] = "wakeParent" /\ ~(j[p] + 1 < NPROC)
          /\ \A q \in Slot : q # p => j'[q] = j[q]
      BY DEF IInv, TypeOK, WakeInit, NextChild, Goto, At
    <2>6. UNCHANGED parent BY Zenon DEF WakeInit
    <2> QED
        BY <2>1, <2>2, <2>3, <2>4, <2>5, <2>6 DEF IInv, ChildInv, Started
  <1>9. WakeInv'
    <2>1. Inside(p) /\ j[p] \in Slot /\ p # initproc /\ k[p] \in Slot
      BY Zenon DEF IInv, TypeOK, PlaceInv, WakeInit, At, Inside
    <2>2. \A q \in Slot : q # p => /\ pc[q] \notin {"scan", "scanned", "sleep", "wakeInit", "wakeParent"}
                                   /\ pc[q] = "zombie" => state[q] \in {"ZOMBIE", "UNUSED"}
        BY Zenon, <2>1, OneInside DEF Inside
    <2>3. \A q \in Slot : state'[q] # state[q] => state[q] = "SLEEPING" /\ state'[q] = "RUNNABLE"
      BY <2>1 DEF WakeInit, WakeSlot
    <2>4. k[p] = 0 => state'[initproc] # "SLEEPING"
      BY Zenon, <2>1, Names DEF IInv, TypeOK, PlaceInv, WakeInit, WakeSlot, initproc
    <2>5. /\ pc'[p] \in {"wakeInit", "reparent", "wakeParent"} /\ (pc'[p] # "wakeInit" => k'[p] = 0)
          /\ \A q \in Slot : q # p => pc'[q] = pc[q]
       BY DEF WakeInit, NextChild, Goto, At, IInv, TypeOK
    <2>6. UNCHANGED parent BY Zenon DEF WakeInit
    <2>7. ASSUME NEW r \in Slot, NEW q \in Slot, parent'[q] = r, state'[q] = "ZOMBIE"
          PROVE /\ pc'[r] \notin {"scan", "scanned", "sleep"}
                /\ state'[r] # "SLEEPING"
      BY <2>1, <2>2, <2>3, <2>4, <2>5, <2>6, <2>7 DEF IInv, WakeInv
    <2>8. ASSUME NEW c \in Slot, NEW q \in Slot, parent'[c] = q, state'[q] = "SLEEPING"
          PROVE 
         /\ pc'[c] = "wakeParent" => k'[c] <= q
         /\ pc'[c] = "zombie" => state'[c] = "ZOMBIE"
      <3>1. 0 <= q BY DEF Slot
      <3> QED BY <3>1, <2>1, <2>2, <2>3, <2>5, <2>6, <2>8 DEF IInv, WakeInv
    <2> QED BY Zenon, <2>7, <2>8 DEF WakeInv
  <1> QED
    BY Zenon, <1>1, <1>2, <1>3, <1>4, <1>5, <1>6, <1>7, <1>8, <1>9 DEF IInv

\* wakeup(p->parent): the parent is awake once its slot has been passed.
LEMMA WakeParentIInv ==
  ASSUME IInv, NEW h \in Hart, NEW p \in Slot, WakeParent(h, p)
  PROVE  IInv'
  <1>1. TypeOK'
    <2>1. k[p] \in Slot
      BY Zenon DEF IInv, TypeOK
    <2>2. /\ 0 \in Slot
          /\ k[p] + 1 < NPROC => k[p] + 1 \in Slot
      BY Zenon, <2>1, NextSlot
    <2>3. k' \in [Slot -> Slot]
      BY <2>2 DEF IInv, TypeOK, WakeParent
    <2>4. state' \in [Slot -> {"UNUSED", "USED", "SLEEPING", "RUNNABLE", "RUNNING", "ZOMBIE"}]
      BY Zenon DEF IInv, TypeOK, WakeParent, WakeSlot
    <2> QED
      BY Zenon, <2>3, <2>4 DEF IInv, TypeOK, WakeParent, Goto
  <1>2. LockInv'
    BY Zenon, Names DEF IInv, LockInv, WakeParent
  <1>3. CurInv'
    BY Names DEF IInv, CurInv, WakeParent, WakeSlot
  <1>4. PlaceInv'
    BY Names DEF IInv, TypeOK, PlaceInv, WakeParent, WakeSlot, At, Goto
  <1>5. ForkInv'
    BY Names DEF IInv, TypeOK, ForkInv, WakeParent, WakeSlot, Goto
  <1>6. IndexInv'
    BY Names DEF IInv, TypeOK, IndexInv, WakeParent, At, Goto
  <1>7. WaitLockInv'
    BY Names DEF IInv, TypeOK, WaitLockInv, Inside, WakeParent, WakeSlot, At, Goto
  <1>8. ChildInv'
    BY Names DEF IInv, TypeOK, ChildInv, Started, WakeParent, WakeSlot, At, Goto
  <1>9. WakeInv'
    <2>1. Inside(p) /\ p # initproc /\ k[p] \in Slot /\ k[p] \in Nat
      BY Zenon, NextSlot DEF IInv, TypeOK, PlaceInv, WakeParent, At, Inside
    <2>2. \A q \in Slot : q # p => /\ pc[q] \notin {"scan", "scanned", "sleep", "wakeInit", "wakeParent"}
                                   /\ pc[q] = "zombie" => state[q] \in {"ZOMBIE", "UNUSED"}
        BY Zenon, <2>1, OneInside DEF Inside
    <2>3. \A q \in Slot : state'[q] # state[q] => state[q] = "SLEEPING" /\ state'[q] = "RUNNABLE"
      BY <2>1 DEF WakeParent, WakeSlot
    <2>4. parent[p] = k[p] => state'[k[p]] # "SLEEPING"
      BY Zenon, <2>1, Names DEF IInv, TypeOK, PlaceInv, WakeParent, WakeSlot, At
    <2>5. /\ pc[p] = "wakeParent"
          /\ \/ pc'[p] = "wakeParent" /\ k'[p] = k[p] + 1
             \/ pc'[p] = "zombie" /\ ~(k[p] + 1 < NPROC)
          /\ \A q \in Slot : q # p => pc'[q] = pc[q] /\ k'[q] = k[q]
       BY Zenon DEF WakeParent, Goto, At, IInv, TypeOK
    <2>6. UNCHANGED parent BY Zenon DEF WakeParent
    <2>7. ASSUME NEW r \in Slot, NEW q \in Slot, parent'[q] = r, state'[q] = "ZOMBIE"
          PROVE /\ pc'[r] \notin {"scan", "scanned", "sleep"}
                /\ state'[r] # "SLEEPING"
      BY <2>1, <2>2, <2>3, <2>5, <2>6, <2>7 DEF IInv, WakeInv
    <2>8. ASSUME NEW c \in Slot, NEW q \in Slot, parent'[c] = q, state'[q] = "SLEEPING"
          PROVE 
         /\ pc'[c] = "wakeParent" => k'[c] <= q
         /\ pc'[c] = "zombie" => state'[c] = "ZOMBIE"
      <3>1. CASE c # p BY <3>1, <2>2, <2>3, <2>5, <2>6, <2>8 DEF IInv, WakeInv
      <3>2. CASE c = p
        <4>1. k[p] <= q /\ q # k[p]
          BY <2>3, <2>4, <2>5, <2>6, <2>8, <3>2 DEF IInv, WakeInv
        <4>2. k[p] + 1 <= q /\ k[p] + 1 < NPROC
          BY <2>1, <4>1, NextSlot, ProcTableAssumption DEF Slot
        <4> QED BY Zenon, <4>2, <2>5, <3>2
      <3> QED BY Zenon, <3>1, <3>2
    <2> QED BY Zenon, <2>7, <2>8 DEF WakeInv
  <1> QED
    BY Zenon, <1>1, <1>2, <1>3, <1>4, <1>5, <1>6, <1>7, <1>8, <1>9 DEF IInv

\* The process becomes a ZOMBIE: its parent is awake, and it has no children.
LEMMA ZombieIInv ==
  ASSUME IInv, NEW h \in Hart, NEW p \in Slot, Zombie(h, p)
  PROVE  IInv'
  <1>1. TypeOK'
    BY Zenon, Names DEF IInv, TypeOK, Zombie
  <1>2. LockInv'
    BY Names DEF IInv, LockInv, Zombie, At
  <1>3. CurInv'
    BY Names DEF IInv, TypeOK, CurInv, Zombie, At
  <1>4. PlaceInv'
    BY Names DEF IInv, PlaceInv, Zombie, At
  <1>5. ForkInv'
    BY Names DEF IInv, ForkInv, Zombie, At
  <1>6. IndexInv'
    BY Zenon, Names DEF IInv, IndexInv, Zombie
  <1>7. WaitLockInv'
    BY Names DEF IInv, TypeOK, WaitLockInv, Inside, Zombie, At
  <1>8. ChildInv'
    BY Names DEF IInv, ChildInv, Started, Zombie, At
  <1>9. WakeInv'
    BY Names DEF IInv, WaitLockInv, Inside, WakeInv, Zombie, At
  <1> QED
    BY Zenon, <1>1, <1>2, <1>3, <1>4, <1>5, <1>6, <1>7, <1>8, <1>9 DEF IInv

\* wait() begins.
LEMMA WaitIInv ==
  ASSUME IInv, NEW h \in Hart, NEW p \in Slot, Wait(h, p)
  PROVE  IInv'
  <1>1. TypeOK'
    BY Zenon, Names DEF IInv, TypeOK, Wait, Goto
  <1>2. LockInv'
    BY Zenon, Names DEF IInv, LockInv, Wait
  <1>3. CurInv'
    BY Zenon, Names DEF IInv, CurInv, Wait
  <1>4. PlaceInv'
    BY SMTT(30), Names DEF IInv, PlaceInv, Wait, At, Goto
  <1>5. ForkInv'
    BY SMTT(30), Names DEF IInv, ForkInv, Wait, Goto
  <1>6. IndexInv'
    BY Names DEF IInv, IndexInv, Wait, At, Goto
  <1>7. WaitLockInv'
    BY Names DEF IInv, WaitLockInv, Inside, Wait, At, Goto
  <1>8. ChildInv'
    BY Names DEF IInv, ChildInv, Started, Wait, Goto
  <1>9. WakeInv'
    BY Names DEF IInv, WakeInv, Wait, At, Goto
  <1> QED
    BY Zenon, <1>1, <1>2, <1>3, <1>4, <1>5, <1>6, <1>7, <1>8, <1>9 DEF IInv

\* wait() takes wait_lock and scans from slot 0.
LEMMA WaitLockIInv ==
  ASSUME IInv, NEW h \in Hart, NEW p \in Slot, WaitLock(h, p)
  PROVE  IInv'
  <1>1. TypeOK'
    BY Zenon, Names DEF IInv, TypeOK, WaitLock, Goto
  <1>2. LockInv'
    BY Zenon, Names DEF IInv, LockInv, WaitLock
  <1>3. CurInv'
    BY Zenon, Names DEF IInv, CurInv, WaitLock
  <1>4. PlaceInv'
    BY Names DEF IInv, PlaceInv, WaitLock, At, Goto
  <1>5. ForkInv'
    BY Names DEF IInv, ForkInv, WaitLock, Goto
  <1>6. IndexInv'
    BY Names DEF IInv, IndexInv, WaitLock, At, Goto
  <1>7. WaitLockInv'
    BY Names DEF IInv, TypeOK, WaitLockInv, Inside, WaitLock, At, Goto
  <1>8. ChildInv'
    BY SMTT(30), Names DEF IInv, ChildInv, Started, WaitLock, Goto
  <1>9. WakeInv'
    <2>1. j[p] = 0
      BY Zenon DEF IInv, IndexInv, WaitLock, At
    <2>2. \A q \in Slot : 0 <= q
      BY DEF Slot
    <2> QED
      BY SMTT(30), <2>1, <2>2 DEF IInv, WakeInv, WaitLock, At, Goto
  <1> QED
    BY Zenon, <1>1, <1>2, <1>3, <1>4, <1>5, <1>6, <1>7, <1>8, <1>9 DEF IInv

\* The scan frees a ZOMBIE child, or passes a slot that holds none.
LEMMA ScanIInv ==
  ASSUME IInv, NEW h \in Hart, NEW p \in Slot, Scan(h, p)
  PROVE  IInv'
  <1>1. TypeOK'
    <2>1. j[p] \in Slot
      BY Zenon DEF IInv, TypeOK
    <2>2. /\ 0 \in Slot
          /\ j[p] + 1 < NPROC => j[p] + 1 \in Slot
      BY Zenon, <2>1, NextSlot
    <2>3. j' \in [Slot -> Slot]
      BY <2>2 DEF IInv, TypeOK, Scan, WaitReturn
    <2>4. haveKids' \in [Slot -> BOOLEAN]
      BY Zenon DEF IInv, TypeOK, Scan, WaitReturn
    <2>5. /\ parent' \in [Slot -> Slot \cup {None}]
          /\ killed' \in [Slot -> BOOLEAN]
          /\ chan' \in [Slot -> Slot \cup {None}]
      BY ZenonT(30), <2>1 DEF IInv, TypeOK, Scan, freeproc
    <2>6. state' \in [Slot -> {"UNUSED", "USED", "SLEEPING", "RUNNABLE", "RUNNING", "ZOMBIE"}]
      BY <2>1 DEF IInv, TypeOK, Scan, freeproc
    <2> QED
      BY <2>3, <2>4, <2>5, <2>6 DEF IInv, TypeOK, Scan, WaitReturn, Goto
  <1>2. LockInv'
    BY Zenon, Names DEF IInv, LockInv, Scan
  <1>3. CurInv'
    BY Names DEF IInv, TypeOK, CurInv, Scan, freeproc
  <1>4. PlaceInv'
    BY Names DEF IInv, TypeOK, PlaceInv, ForkInv, Scan, WaitReturn, freeproc, At, Goto
  <1>5. ForkInv'
    BY SMTT(30), Names DEF IInv, TypeOK, PlaceInv, ForkInv, Scan, WaitReturn, freeproc, At, Goto
  <1>6. IndexInv'
    BY Names DEF IInv, TypeOK, IndexInv, Scan, WaitReturn, At, Goto
  <1>7. WaitLockInv'
    BY Names DEF IInv, TypeOK, WaitLockInv, Inside, Scan, WaitReturn, freeproc, At, Goto
  <1>8. ChildInv'
    <2>1. j[p] \in Slot /\ state[p] = "RUNNING" /\ pc[p] = "scan"
      BY Zenon DEF IInv, TypeOK, Scan, At
    <2>2. /\ pc'[p] \in {"user", "scan", "scanned"}
          /\ \A q \in Slot : q # p => pc'[q] = pc[q] /\ j'[q] = j[q]
      BY <2>1 DEF IInv, TypeOK, Scan, Goto, WaitReturn
    <2>3. CASE UNCHANGED <<state, parent>>
      BY <2>1, <2>2, <2>3 DEF IInv, ChildInv, Started
    <2>4. CASE /\ state[j[p]] = "ZOMBIE"
               /\ state' = [state EXCEPT ![j[p]] = "UNUSED"]
               /\ parent' = [parent EXCEPT ![j[p]] = None]
      BY <2>1, <2>2, <2>4, Names DEF IInv, TypeOK, ChildInv, Started
    <2> QED
      BY Zenon, <2>3, <2>4 DEF Scan, freeproc
  <1>9. WakeInv'
    <2>1. Inside(p) /\ j[p] \in Slot /\ j[p] \in Nat
      BY Zenon, NextSlot DEF IInv, TypeOK, Scan, At, Inside
    <2>2. \A q \in Slot : q # p => /\ pc[q] \notin {"scan", "scanned", "sleep", "wakeInit", "wakeParent"}
                                   /\ pc[q] = "zombie" => state[q] \in {"ZOMBIE", "UNUSED"}
        BY Zenon, <2>1, OneInside DEF Inside
    <2>3. pc[p] = "scan" /\ UNCHANGED k
       /\ \A q \in Slot : q # p => pc'[q] = pc[q]
      BY Zenon DEF IInv, TypeOK, Scan, At, Goto, WaitReturn
    <2>4. \A q \in Slot : /\ parent'[q] # None => parent'[q] = parent[q]
                          /\ state'[q] = state[q] \/ (state'[q] = "UNUSED" /\ parent'[q] = None)
      BY <2>1 DEF IInv, TypeOK, Scan, freeproc
    <2>5. \/ pc'[p] = "user"
          \/ /\ ~(parent[j[p]] = p /\ state[j[p]] = "ZOMBIE")
             /\ \/ pc'[p] = "scan" /\ j'[p] = j[p] + 1
                \/ pc'[p] = "scanned" /\ ~(j[p] + 1 < NPROC)
      BY Zenon DEF IInv, TypeOK, Scan, At, Goto, WaitReturn
    <2>6. ASSUME NEW r \in Slot, NEW q \in Slot, parent'[q] = r, state'[q] = "ZOMBIE"
          PROVE /\ pc'[r] = "scan" => j'[r] <= q
                /\ pc'[r] \notin {"scanned", "sleep"}
                /\ state'[r] # "SLEEPING"
      <3>1. parent[q] = r /\ state[q] = "ZOMBIE"
         BY Zenon, <2>4, <2>6, Names
      <3>2. state'[r] # "SLEEPING"
        BY <2>2, <2>3, <2>4, <3>1 DEF IInv, WakeInv
      <3>3. CASE r # p
        BY Zenon, <2>2, <2>3, <3>2, <3>3
      <3>4. CASE r = p
        <4>1. j[p] <= q
          BY Zenon, <2>3, <3>1, <3>4 DEF IInv, WakeInv
        <4>2. q # j[p] => j[p] + 1 <= q /\ j[p] + 1 < NPROC
          BY <2>1, <4>1, NextSlot, ProcTableAssumption DEF Slot
        <4> QED BY Zenon, <4>2, <2>5, <3>1, <3>2, <3>4
      <3> QED BY Zenon, <3>3, <3>4
    <2>7. ASSUME NEW c \in Slot, NEW q \in Slot, parent'[c] = q, state'[q] = "SLEEPING"
          PROVE /\ pc'[c] # "wakeParent"
                /\ pc'[c] = "zombie" => state'[c] = "ZOMBIE"
      BY <2>2, <2>3, <2>4, <2>5, <2>7, Names DEF IInv, ChildInv
    <2> QED BY Zenon, <2>6, <2>7 DEF WakeInv
  <1> QED
    BY Zenon, <1>1, <1>2, <1>3, <1>4, <1>5, <1>6, <1>7, <1>8, <1>9 DEF IInv

\* wait() returns, or goes on to sleep with wait_lock held.
LEMMA ScannedIInv ==
  ASSUME IInv, NEW h \in Hart, NEW p \in Slot, Scanned(h, p)
  PROVE  IInv'
  <1>1. TypeOK'
    <2>1. haveKids' \in [Slot -> BOOLEAN]
      BY Zenon DEF IInv, TypeOK, Scanned, WaitReturn
    <2>2. j' \in [Slot -> Slot]
      BY ZenonT(30), Names DEF IInv, TypeOK, Scanned, WaitReturn, initproc
    <2> QED
      BY <2>1, <2>2 DEF IInv, TypeOK, Scanned, WaitReturn, Goto
  <1>2. LockInv'
    BY Zenon, Names DEF IInv, LockInv, Scanned
  <1>3. CurInv'
    BY Zenon, Names DEF IInv, CurInv, Scanned
  <1>4. PlaceInv'
    BY Names DEF IInv, TypeOK, CurInv, PlaceInv, Scanned, WaitReturn, At, Goto
  <1>5. ForkInv'
    BY Names DEF IInv, TypeOK, ForkInv, Scanned, WaitReturn, Goto
  <1>6. IndexInv'
    BY Names DEF IInv, TypeOK, IndexInv, Scanned, WaitReturn, At, Goto
  <1>7. WaitLockInv'
    BY Names DEF IInv, TypeOK, WaitLockInv, Inside, Scanned, WaitReturn, At, Goto
  <1>8. ChildInv'
    BY Names DEF IInv, TypeOK, IndexInv, ChildInv, Started, Scanned, WaitReturn, Goto
  <1>9. WakeInv'
    BY Names DEF IInv, TypeOK, WakeInv, Scanned, WaitReturn, At, Goto
  <1> QED
    BY Zenon, <1>1, <1>2, <1>3, <1>4, <1>5, <1>6, <1>7, <1>8, <1>9 DEF IInv

\* The parent sleeps: no child of it is a ZOMBIE or about to become one.
LEMMA SleepIInv ==
  ASSUME IInv, NEW h \in Hart, NEW p \in Slot, Sleep(h, p)
  PROVE  IInv'
  <1>1. TypeOK'
    BY Zenon, Names DEF IInv, TypeOK, Sleep, Goto
  <1>2. LockInv'
    BY Names DEF IInv, LockInv, Sleep, At
  <1>3. CurInv'
    BY Names DEF IInv, TypeOK, CurInv, Sleep, At
  <1>4. PlaceInv'
    BY Zenon, Names DEF IInv, TypeOK, PlaceInv, Sleep, Goto
  <1>5. ForkInv'
    <2>1. /\ state[p] = "RUNNING" /\ state' = [state EXCEPT ![p] = "SLEEPING"]
          /\ pc[p] = "sleep" /\ pc' = [pc EXCEPT ![p] = "wait"] /\ UNCHANGED <<parent, j>>
      BY Zenon DEF Sleep, At, Goto
    <2>2. ForkInv
      BY Zenon DEF IInv
    <2>3. j \in [Slot -> Slot]
      BY Zenon DEF IInv, TypeOK
    <2> QED
      BY <2>1, <2>2, <2>3 DEF ForkInv
  <1>6. IndexInv'
    <2>1. pc[p] = "sleep" /\ pc' = [pc EXCEPT ![p] = "wait"] /\ j' = j /\ k' = k
      BY Zenon DEF Sleep, At, Goto
    <2>2. IndexInv
      BY Zenon DEF IInv
    <2> QED
      BY <2>1, <2>2 DEF IndexInv
  <1>7. WaitLockInv'
    BY Names DEF IInv, TypeOK, WaitLockInv, Inside, Sleep, At, Goto
  <1>8. ChildInv'
    BY Names DEF IInv, ChildInv, Started, Sleep, At, Goto
  <1>9. WakeInv'
    <2>1. Inside(p)
      BY Zenon DEF Sleep, At, Inside
    <2>2. \A q \in Slot : q # p => /\ pc[q] \notin {"wakeInit", "wakeParent"}
                                   /\ pc[q] = "zombie" => state[q] \in {"ZOMBIE", "UNUSED"}
      BY Zenon, <2>1, OneInside DEF Inside
    <2>3. \A q \in Slot : parent[q] = p => state[q] \notin {"ZOMBIE", "UNUSED"}
      BY Zenon, Names DEF IInv, ChildInv, WakeInv, Sleep, At
    <2> QED
      BY <2>2, <2>3 DEF IInv, WakeInv, Sleep, Goto, At
  <1> QED
    BY Zenon, <1>1, <1>2, <1>3, <1>4, <1>5, <1>6, <1>7, <1>8, <1>9 DEF IInv

\* kill() marks a process, and wakes it when it sleeps.
LEMMA KillIInv ==
  ASSUME IInv, NEW h \in Hart, NEW p \in Slot, NEW q \in Slot, Kill(h, p, q)
  PROVE  IInv'
  <1>1. TypeOK'
    BY Zenon, Names DEF IInv, TypeOK, Kill
  <1>2. LockInv'
    BY Zenon, Names DEF IInv, LockInv, Kill
  <1>3. CurInv'
    BY Names DEF IInv, CurInv, Kill
  <1>4. PlaceInv'
    BY Names DEF IInv, PlaceInv, Kill
  <1>5. ForkInv'
    BY SMTT(30), Names DEF IInv, ForkInv, Kill
  <1>6. IndexInv'
    BY Zenon, Names DEF IInv, IndexInv, Kill
  <1>7. WaitLockInv'
    BY Names DEF IInv, WaitLockInv, Inside, Kill
  <1>8. ChildInv'
    BY Names DEF IInv, ChildInv, Started, Kill
  <1>9. WakeInv'
    BY Names DEF IInv, WakeInv, Kill
  <1> QED
    BY Zenon, <1>1, <1>2, <1>3, <1>4, <1>5, <1>6, <1>7, <1>8, <1>9 DEF IInv

\* So does every step of Next, and one that changes nothing.
LEMMA NextIInv == IInv /\ [Next]_vars => IInv'
  <1> SUFFICES ASSUME IInv, [Next]_vars PROVE IInv'
    BY Zenon
  <1>1. CASE UNCHANGED vars
    <2>1. TypeOK' /\ LockInv' /\ CurInv'
      BY Zenon, <1>1 DEF vars, IInv, TypeOK, LockInv, CurInv
    <2>2. PlaceInv' /\ ForkInv' /\ IndexInv'
      BY Zenon, <1>1 DEF vars, IInv, PlaceInv, ForkInv, IndexInv
    <2>3. WaitLockInv' /\ ChildInv'
      BY Zenon, <1>1 DEF vars, IInv, WaitLockInv, Inside, ChildInv, Started
    <2>4. WakeInv'
      BY Zenon, <1>1 DEF vars, IInv, WakeInv
    <2> QED
      BY Zenon, <2>1, <2>2, <2>3, <2>4 DEF IInv
  <1>2. ASSUME NEW h \in Hart, Switch(h) \/ Yield(h)
        PROVE  IInv'
    BY Zenon, <1>2, ResumeIInv, SwtchOutIInv, YieldIInv DEF Switch
  <1>3. ASSUME NEW h \in Hart, NEW p \in Slot, KernelStep(h, p)
        PROVE  IInv'
    BY Zenon, <1>3, AllocIInv, LinkIInv, ReadyIInv, ExitLockIInv, ReparentIInv, WakeInitIInv,
       WakeParentIInv, ZombieIInv, WaitLockIInv, ScanIInv, ScannedIInv, SleepIInv DEF KernelStep
  <1>4. ASSUME NEW h \in Hart, NEW p \in Slot, Run(h, p) \/ Fork(h, p) \/ Exit(h, p) \/ Wait(h, p)
        PROVE  IInv'
    BY Zenon, <1>4, RunIInv, ForkIInv, ExitIInv, WaitIInv
  <1>5. ASSUME NEW h \in Hart, NEW p \in Slot, NEW q \in Slot, Kill(h, p, q)
        PROVE  IInv'
    BY Zenon, <1>5, KillIInv
  <1> QED
    BY Zenon, <1>1, <1>2, <1>3, <1>4, <1>5 DEF Next

\* IInv is an invariant of the process table.
THEOREM ProcInvariant == Spec => []IInv
  BY InitIInv, NextIInv, PTL DEF Spec

-----------------------------------------------------------------------------
(* The theorems *)

\* A kernel stack is never in use by two harts, whatever scheduler(), sched(),
\* yield(), sleep(), exit(), wait() and fork() do on however many harts.
THEOREM ProcOneHart == Spec => []OneHart
  <1>1. IInv => OneHart
    BY Zenon DEF IInv, CurInv, OneHart
  <1> QED
    BY <1>1, ProcInvariant, PTL

\* No exit() is lost: when wait_lock is free, every process has a parent that
\* lives, and that does not sleep in wait() when the process is a ZOMBIE.
THEOREM ProcNoLostExit == Spec => []NoLostExit
  <1>1. IInv => NoLostExit
    <2> SUFFICES ASSUME IInv, waitLock = None, NEW p \in Slot \ {initproc}, Started(p)
                 PROVE  /\ parent[p] # None
                        /\ state[parent[p]] \in {"SLEEPING", "RUNNABLE", "RUNNING"}
                        /\ state[p] = "ZOMBIE" => state[parent[p]] # "SLEEPING"
      BY Zenon DEF NoLostExit, Started
    <2>1. parent[p] \in Slot
      BY Zenon DEF IInv, TypeOK, ChildInv
    <2>2. state[parent[p]] \in {"SLEEPING", "RUNNABLE", "RUNNING"}
      BY Zenon, <2>1 DEF IInv, TypeOK, ChildInv
    <2>3. \A x \in Slot : pc[x] # "wakeInit"
      BY Zenon DEF IInv, WaitLockInv, Inside
    <2> QED
      BY Zenon, <2>1, <2>2, <2>3, Names DEF IInv, WakeInv
  <1> QED
    BY <1>1, ProcInvariant, PTL
=============================================================================
