-------------------------------- MODULE Proc ---------------------------------
(***************************************************************************)
(* The life of a process, on several harts: fork(), exit(), wait(),        *)
(* kill(), sleep(), wakeup(), yield(), sched() and scheduler() of          *)
(* kernel/proc.c, with p->lock, wait_lock and the hand-over of p->lock     *)
(* across swtch().                                                         *)
(*                                                                         *)
(* cur[h] is the process whose kernel stack hart h is on, None in the      *)
(* scheduler.  A process that has changed its state to leave the CPU is on *)
(* its stack until SwtchOut, and one that swtch() has resumed holds its    *)
(* p->lock until Resume.  A critical section under one p->lock that does   *)
(* not switch is one step, and so is each iteration of a loop.             *)
(*                                                                         *)
(* sleep() is modelled for its caller wait(), and kill()'s search by pid   *)
(* by the slot it finds.  init is never killed: exit() would panic.        *)
(***************************************************************************)
EXTENDS Naturals

CONSTANTS NPROC, Hart, None

ASSUME ProcTableAssumption ==
  NPROC \in Nat \ {0} /\ None \notin 0..(NPROC - 1) /\ None \notin Hart

Slot == 0..(NPROC - 1)
initproc == 0

VARIABLES state, parent, killed, chan,   \* fields of struct proc
          lock,          \* p->lock: the hart that holds it, or None
          waitLock,      \* wait_lock, likewise
          cur,           \* of every hart: the process whose stack it is on
          pc, j, k,      \* of every process: its place and loop indices
          haveKids       \* of every process: wait()'s variable

vars == <<state, parent, killed, chan, lock, waitLock, cur, pc, j, k, haveKids>>

Init ==
  /\ state = [p \in Slot |-> IF p = initproc THEN "RUNNABLE" ELSE "UNUSED"]
  /\ parent = [p \in Slot |-> None]
  /\ killed = [p \in Slot |-> FALSE]
  /\ chan = [p \in Slot |-> None]
  /\ lock = [p \in Slot |-> None]
  /\ waitLock = None
  /\ cur = [h \in Hart |-> None]
  /\ pc = [p \in Slot |-> "user"]
  /\ j = [p \in Slot |-> 0]
  /\ k = [p \in Slot |-> 0]
  /\ haveKids = [p \in Slot |-> FALSE]

\* Hart h executes p at the given place, p->lock released.
At(h, p, place) ==
  cur[h] = p /\ state[p] = "RUNNING" /\ lock[p] # h /\ pc[p] = place

Goto(p, place) == pc' = [pc EXCEPT ![p] = place]

freeproc(q) ==
  /\ state' = [state EXCEPT ![q] = "UNUSED"]
  /\ parent' = [parent EXCEPT ![q] = None]
  /\ killed' = [killed EXCEPT ![q] = FALSE]
  /\ chan' = [chan EXCEPT ![q] = None]

-----------------------------------------------------------------------------
(* scheduler(), sched() and yield() *)

\* scheduler() locks a process, whichever the policy has chosen, and runs it
\* if it is RUNNABLE; p->lock stays held across swtch().
Run(h, p) ==
  /\ cur[h] = None
  /\ lock[p] = None
  /\ state[p] = "RUNNABLE"
  /\ state' = [state EXCEPT ![p] = "RUNNING"]
  /\ lock' = [lock EXCEPT ![p] = h]
  /\ cur' = [cur EXCEPT ![h] = p]
  /\ UNCHANGED <<parent, killed, chan, waitLock, pc, j, k, haveKids>>

\* What follows swtch() in yield(), in sleep() (p->chan = 0) and in forkret().
Resume(h) ==
  LET p == cur[h] IN
  /\ p # None
  /\ state[p] = "RUNNING" /\ lock[p] = h
  /\ lock' = [lock EXCEPT ![p] = None]
  /\ chan' = [chan EXCEPT ![p] = None]
  /\ UNCHANGED <<state, parent, killed, waitLock, cur, pc, j, k, haveKids>>

\* sched() switches to scheduler(), which releases p->lock.
SwtchOut(h) ==
  LET p == cur[h] IN
  /\ p # None
  /\ state[p] # "RUNNING"
  /\ cur' = [cur EXCEPT ![h] = None]
  /\ lock' = [lock EXCEPT ![p] = None]
  /\ UNCHANGED <<state, parent, killed, chan, waitLock, pc, j, k, haveKids>>

YieldUnlocked(h) ==
  LET p == cur[h] IN
  /\ p # None
  /\ state[p] = "RUNNING" /\ lock[p] # h /\ waitLock # h
  /\ state' = [state EXCEPT ![p] = "RUNNABLE"]
  /\ UNCHANGED <<parent, killed, chan, lock, waitLock, cur, pc, j, k, haveKids>>

\* yield(), at a timer interrupt: anywhere but under a spinlock.
Yield(h) ==
  LET p == cur[h] IN
  /\ p # None
  /\ state[p] = "RUNNING" /\ lock[p] = None /\ waitLock # h
  /\ lock' = [lock EXCEPT ![p] = h]
  /\ state' = [state EXCEPT ![p] = "RUNNABLE"]
  /\ UNCHANGED <<parent, killed, chan, waitLock, cur, pc, j, k, haveKids>>

-----------------------------------------------------------------------------
(* fork() *)

Fork(h, p) ==
  /\ At(h, p, "user")
  /\ ~killed[p]
  /\ Goto(p, "alloc")
  /\ UNCHANGED <<state, parent, killed, chan, lock, waitLock, cur, j, k, haveKids>>

\* allocproc(), one slot; then fork() up to release(&np->lock).  When an
\* allocation fails the slot is freed again.
Alloc(h, p) ==
  LET np == j[p] IN
  /\ At(h, p, "alloc")
  /\ lock[np] = None
  /\ IF state[np] = "UNUSED"
     THEN \/ /\ state' = [state EXCEPT ![np] = "USED"]
             /\ pc' = [pc EXCEPT ![p] = "link", ![np] = "user"]
             /\ UNCHANGED <<parent, killed, chan, j>>
          \/ /\ freeproc(np)
             /\ Goto(p, "user")
             /\ j' = [j EXCEPT ![p] = 0]
     ELSE /\ IF np + 1 < NPROC
             THEN j' = [j EXCEPT ![p] = np + 1] /\ UNCHANGED pc
             ELSE j' = [j EXCEPT ![p] = 0] /\ Goto(p, "user")
          /\ UNCHANGED <<state, parent, killed, chan>>
  /\ UNCHANGED <<lock, waitLock, cur, k, haveKids>>

\* np->parent = p, under wait_lock
Link(h, p) ==
  /\ At(h, p, "link")
  /\ waitLock = None
  /\ parent' = [parent EXCEPT ![j[p]] = p]
  /\ Goto(p, "ready")
  /\ UNCHANGED <<state, killed, chan, lock, waitLock, cur, j, k, haveKids>>

\* np->state = RUNNABLE, under np->lock
Ready(h, p) ==
  /\ At(h, p, "ready")
  /\ lock[j[p]] = None
  /\ state' = [state EXCEPT ![j[p]] = "RUNNABLE"]
  /\ Goto(p, "user")
  /\ j' = [j EXCEPT ![p] = 0]
  /\ UNCHANGED <<parent, killed, chan, lock, waitLock, cur, k, haveKids>>

-----------------------------------------------------------------------------
(* exit() *)

\* sys_exit(), or usertrap() of a killed process; files are closed before.
Exit(h, p) ==
  /\ At(h, p, "user")
  /\ p # initproc
  /\ Goto(p, "exit")
  /\ UNCHANGED <<state, parent, killed, chan, lock, waitLock, cur, j, k, haveKids>>

ExitLock(h, p) ==
  /\ At(h, p, "exit")
  /\ waitLock = None
  /\ waitLock' = h
  /\ Goto(p, "reparent")
  /\ UNCHANGED <<state, parent, killed, chan, lock, cur, j, k, haveKids>>

\* The next iteration of reparent(), or what follows it.
NextChild(p) ==
  IF j[p] + 1 < NPROC
  THEN j' = [j EXCEPT ![p] = @ + 1] /\ Goto(p, "reparent")
  ELSE j' = [j EXCEPT ![p] = 0] /\ Goto(p, "wakeParent")

\* reparent(), one slot
Reparent(h, p) ==
  /\ At(h, p, "reparent")
  /\ IF parent[j[p]] = p
     THEN /\ parent' = [parent EXCEPT ![j[p]] = initproc]
          /\ Goto(p, "wakeInit") /\ UNCHANGED j
     ELSE NextChild(p) /\ UNCHANGED parent
  /\ UNCHANGED <<state, killed, chan, lock, waitLock, cur, k, haveKids>>

\* wakeup(c), one slot: the slot q of the caller p itself is skipped.
WakeSlot(p, q, c) ==
  /\ q # p => lock[q] = None
  /\ state' = IF q # p /\ state[q] = "SLEEPING" /\ chan[q] = c
              THEN [state EXCEPT ![q] = "RUNNABLE"] ELSE state

\* wakeup(initproc) in reparent()
WakeInit(h, p) ==
  /\ At(h, p, "wakeInit")
  /\ WakeSlot(p, k[p], initproc)
  /\ IF k[p] + 1 < NPROC
     THEN k' = [k EXCEPT ![p] = @ + 1] /\ UNCHANGED <<j, pc>>
     ELSE k' = [k EXCEPT ![p] = 0] /\ NextChild(p)
  /\ UNCHANGED <<parent, killed, chan, lock, waitLock, cur, haveKids>>

\* wakeup(p->parent)
WakeParent(h, p) ==
  /\ At(h, p, "wakeParent")
  /\ WakeSlot(p, k[p], parent[p])
  /\ IF k[p] + 1 < NPROC
     THEN k' = [k EXCEPT ![p] = @ + 1] /\ UNCHANGED pc
     ELSE k' = [k EXCEPT ![p] = 0] /\ Goto(p, "zombie")
  /\ UNCHANGED <<parent, killed, chan, lock, waitLock, cur, j, haveKids>>

\* p becomes a ZOMBIE under p->lock, which sched() hands to the scheduler.
Zombie(h, p) ==
  /\ At(h, p, "zombie")
  /\ lock[p] = None
  /\ lock' = [lock EXCEPT ![p] = h]
  /\ state' = [state EXCEPT ![p] = "ZOMBIE"]
  /\ waitLock' = None
  /\ UNCHANGED <<parent, killed, chan, cur, pc, j, k, haveKids>>

-----------------------------------------------------------------------------
(* wait(), waitx() and the sleep() they call *)

Wait(h, p) ==
  /\ At(h, p, "user")
  /\ ~killed[p]
  /\ Goto(p, "wait")
  /\ UNCHANGED <<state, parent, killed, chan, lock, waitLock, cur, j, k, haveKids>>

\* acquire(&wait_lock), at the start and again at the end of sleep()
WaitLock(h, p) ==
  /\ At(h, p, "wait")
  /\ waitLock = None
  /\ waitLock' = h
  /\ haveKids' = [haveKids EXCEPT ![p] = FALSE]
  /\ Goto(p, "scan")
  /\ UNCHANGED <<state, parent, killed, chan, lock, cur, j, k>>

\* wait() returns.
WaitReturn(p) ==
  /\ waitLock' = None
  /\ Goto(p, "user")
  /\ j' = [j EXCEPT ![p] = 0]
  /\ haveKids' = [haveKids EXCEPT ![p] = FALSE]

\* The scan of wait(), one slot: a child that is a ZOMBIE is freed, unless
\* copyout() fails, which it cannot for init, whose address argument is 0.
\* np->parent is read without np->lock.
Scan(h, p) ==
  LET np == j[p]
      child == parent[np] = p
  IN
  /\ At(h, p, "scan")
  /\ child => lock[np] = None
  /\ IF child /\ state[np] = "ZOMBIE"
     THEN /\ \/ freeproc(np)
             \/ p # initproc /\ UNCHANGED <<state, parent, killed, chan>>
          /\ WaitReturn(p)
     ELSE /\ haveKids' = [haveKids EXCEPT ![p] = @ \/ child]
          /\ IF np + 1 < NPROC
             THEN j' = [j EXCEPT ![p] = np + 1] /\ UNCHANGED pc
             ELSE j' = [j EXCEPT ![p] = 0] /\ Goto(p, "scanned")
          /\ UNCHANGED <<state, parent, killed, chan, waitLock>>
  /\ UNCHANGED <<lock, cur, k>>

ScannedEarlyRelease(h, p) ==
  /\ At(h, p, "scanned")
  /\ waitLock' = None
  /\ haveKids' = [haveKids EXCEPT ![p] = FALSE]
  /\ Goto(p, IF ~haveKids[p] \/ killed[p] THEN "user" ELSE "sleep")
  /\ UNCHANGED <<state, parent, killed, chan, lock, cur, j, k>>

\* if (!havekids || p->killed)
Scanned(h, p) ==
  /\ At(h, p, "scanned")
  /\ IF ~haveKids[p] \/ killed[p]
     THEN WaitReturn(p)
     ELSE /\ Goto(p, "sleep")
          /\ haveKids' = [haveKids EXCEPT ![p] = FALSE]
          /\ UNCHANGED <<j, waitLock>>
  /\ UNCHANGED <<state, parent, killed, chan, lock, cur, k>>

\* sleep(p, &wait_lock) up to sched()
Sleep(h, p) ==
  /\ At(h, p, "sleep")
  /\ lock[p] = None
  /\ lock' = [lock EXCEPT ![p] = h]
  /\ waitLock' = None
  /\ chan' = [chan EXCEPT ![p] = p]
  /\ state' = [state EXCEPT ![p] = "SLEEPING"]
  /\ Goto(p, "wait")
  /\ UNCHANGED <<parent, killed, cur, j, k, haveKids>>

-----------------------------------------------------------------------------
\* kill(), at the slot with the pid.  Unused slots have pid 0, so that they
\* are found too.
Kill(h, p, q) ==
  /\ At(h, p, "user")
  /\ ~killed[p]
  /\ q # initproc
  /\ lock[q] = None
  /\ killed' = [killed EXCEPT ![q] = TRUE]
  /\ state' = [state EXCEPT ![q] = IF @ = "SLEEPING" THEN "RUNNABLE" ELSE @]
  /\ UNCHANGED <<parent, chan, lock, waitLock, cur, pc, j, k, haveKids>>

\* A step of p inside fork(), exit() or wait().
KernelStep(h, p) ==
  \/ Alloc(h, p) \/ Link(h, p) \/ Ready(h, p)
  \/ ExitLock(h, p) \/ Reparent(h, p) \/ WakeInit(h, p) \/ WakeParent(h, p)
  \/ Zombie(h, p)
  \/ WaitLock(h, p) \/ Scan(h, p) \/ Scanned(h, p) \/ Sleep(h, p)

Switch(h) == Resume(h) \/ SwtchOut(h)

Next ==
  \E h \in Hart :
    \/ Switch(h) \/ Yield(h)
    \/ \E p \in Slot :
         \/ Run(h, p) \/ KernelStep(h, p)
         \/ Fork(h, p) \/ Exit(h, p) \/ Wait(h, p)
         \/ \E q \in Slot : Kill(h, p, q)

Spec == Init /\ [][Next]_vars

-----------------------------------------------------------------------------
(* Properties *)

\* Types; parents, channels and lock holders are what they should be.
TypeOK ==
  /\ state \in [Slot -> {"UNUSED", "USED", "SLEEPING", "RUNNABLE", "RUNNING", "ZOMBIE"}]
  /\ parent \in [Slot -> Slot \cup {None}]
  /\ killed \in [Slot -> BOOLEAN]
  /\ chan \in [Slot -> Slot \cup {None}]
  /\ lock \in [Slot -> Hart \cup {None}]
  /\ waitLock \in Hart \cup {None}
  /\ cur \in [Hart -> Slot \cup {None}]
  /\ pc \in [Slot -> {"user", "alloc", "link", "ready", "exit", "reparent", "wakeInit",
                      "wakeParent", "zombie", "wait", "scan", "scanned", "sleep"}]
  /\ j \in [Slot -> Slot] /\ k \in [Slot -> Slot]
  /\ haveKids \in [Slot -> BOOLEAN]

\* A kernel stack is never in use by two harts: a process that has set its
\* state to RUNNABLE or SLEEPING cannot be run elsewhere before swtch() has
\* left its stack, since its p->lock is held until then; and wait() frees, and
\* fork() takes over, no slot whose stack a hart is still on, though exit() makes
\* its process a ZOMBIE before it leaves it.  Every variable has its type.
OneHart ==
  /\ TypeOK
  /\ \A h, g \in Hart : cur[h] # None /\ cur[h] = cur[g] => h = g
  /\ \A p \in Slot : state[p] = "RUNNING" => \E h \in Hart : cur[h] = p
  /\ \A h \in Hart : LET p == cur[h] IN
       p # None => /\ state[p] = "RUNNING" \/ lock[p] = h
                   /\ state[p] \notin {"UNUSED", "USED"}

\* Once wait_lock is free, every process but init that has started has a
\* parent that has not exited and can wait for it, and which is not asleep in
\* wait() when the process is a ZOMBIE: no exit() falls between the parent's
\* scan and its sleep, exit() leaves no orphan, and a slot is never reused
\* while it is someone's parent.
NoLostExit ==
  waitLock = None =>
    \A p \in Slot \ {initproc} :
      state[p] \in {"SLEEPING", "RUNNABLE", "RUNNING", "ZOMBIE"} =>
        /\ parent[p] # None
        /\ state[parent[p]] \in {"SLEEPING", "RUNNABLE", "RUNNING"}
        /\ state[p] = "ZOMBIE" => state[parent[p]] # "SLEEPING"
=============================================================================
