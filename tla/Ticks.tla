-------------------------------- MODULE Ticks --------------------------------
(***************************************************************************)
(* kernel/sysproc.c: sys_sleep(), with the clock interrupt that counts     *)
(* ticks and wakes its sleepers, and kill().  ticks is unsigned and wraps  *)
(* at WRAP, and the int n of the call is compared with it as unsigned.     *)
(* tickslock is held from the test of the loop until sleep() has p->lock,  *)
(* but kill() takes no tickslock.                                          *)
(***************************************************************************)
EXTENDS Integers

CONSTANTS Proc, None,
          WRAP,          \* 2^32
          FirstTick,     \* the first value of ticks
          Sleeps,        \* the values of n
          Late           \* bound: ticks that a runnable process waits for a hart

VARIABLES ticks, tickslock,
          at, n, ticks0, killed,    \* of every process: its place, and locals
          elapsed,                  \* its ticks since it read ticks0, up to WRAP
          late                      \* its ticks since it was woken

ticksVars == <<ticks, tickslock, at, n, ticks0, killed, elapsed, late>>

TicksInit ==
  /\ ticks = FirstTick /\ tickslock = None
  /\ at = [p \in Proc |-> "user"] /\ killed = [p \in Proc |-> FALSE]
  /\ n = [p \in Proc |-> 0] /\ ticks0 = [p \in Proc |-> 0]
  /\ elapsed = [p \in Proc |-> 0] /\ late = [p \in Proc |-> 0]

\* acquire() and the read of ticks0.
SysSleep(p, k) ==
  /\ at[p] = "user" /\ tickslock = None
  /\ tickslock' = p
  /\ at' = [at EXCEPT ![p] = "test"] /\ n' = [n EXCEPT ![p] = k]
  /\ ticks0' = [ticks0 EXCEPT ![p] = ticks] /\ elapsed' = [elapsed EXCEPT ![p] = 0]
  /\ UNCHANGED <<ticks, killed, late>>

Unsigned(k) == k % WRAP

\* Mutant of TooEarly: compares with the tick at which to wake.
TooEarlyAbsolute(p) == ticks < Unsigned(ticks0[p] + n[p])

TooEarly(p) == Unsigned(ticks - ticks0[p]) < Unsigned(n[p])

\* The loop: return 0, return -1, or on to sleep().
Test(p) ==
  /\ at[p] = "test"
  /\ IF TooEarly(p) /\ ~killed[p] THEN at' = [at EXCEPT ![p] = "sleep"] /\ UNCHANGED tickslock
     ELSE at' = [at EXCEPT ![p] = IF TooEarly(p) THEN "failed" ELSE "slept"] /\ tickslock' = None
  /\ UNCHANGED <<ticks, n, ticks0, killed, elapsed, late>>

\* sleep() gives up tickslock when it has p->lock, which makes the process
\* SLEEPING before any wakeup() or kill() can look at it.
Sleep(p) ==
  /\ at[p] = "sleep"
  /\ at' = [at EXCEPT ![p] = "asleep"] /\ tickslock' = None
  /\ UNCHANGED <<ticks, n, ticks0, killed, elapsed, late>>

\* A woken process has a hart again, and takes tickslock.
Reacquire(p) ==
  /\ at[p] = "woken" /\ tickslock = None
  /\ tickslock' = p /\ at' = [at EXCEPT ![p] = "test"] /\ late' = [late EXCEPT ![p] = 0]
  /\ UNCHANGED <<ticks, n, ticks0, killed, elapsed>>

\* The part of clockintr() under tickslock.
Clockintr ==
  /\ tickslock = None
  /\ \A p \in Proc : at[p] = "woken" => late[p] < Late
  /\ ticks' = Unsigned(ticks + 1)
  /\ at' = [p \in Proc |-> IF at[p] = "asleep" THEN "woken" ELSE at[p]]
  /\ late' = [p \in Proc |-> IF at[p] = "woken" THEN late[p] + 1 ELSE 0]
  /\ elapsed' = [p \in Proc |-> IF at[p] \in {"asleep", "woken"} /\ elapsed[p] < WRAP
                                THEN elapsed[p] + 1 ELSE elapsed[p]]
  /\ UNCHANGED <<tickslock, n, ticks0, killed>>

Kill(p) ==
  /\ ~killed[p] /\ at[p] \in {"test", "sleep", "asleep", "woken"}
  /\ killed' = [killed EXCEPT ![p] = TRUE]
  /\ at' = [at EXCEPT ![p] = IF @ = "asleep" THEN "woken" ELSE @]
  /\ UNCHANGED <<ticks, tickslock, n, ticks0, elapsed, late>>

\* usertrap() ends a process that was killed; its slot, and the process after
\* an undisturbed sleep, may call again.
Return(p) ==
  /\ at[p] \in {"slept", "failed"}
  /\ at' = [at EXCEPT ![p] = "user"] /\ killed' = [killed EXCEPT ![p] = FALSE]
  /\ n' = [n EXCEPT ![p] = 0] /\ ticks0' = [ticks0 EXCEPT ![p] = 0]
  /\ elapsed' = [elapsed EXCEPT ![p] = 0]
  /\ UNCHANGED <<ticks, tickslock, late>>

TicksNext ==
  \/ Clockintr
  \/ \E p \in Proc : \/ Test(p) \/ Sleep(p) \/ Reacquire(p) \/ Kill(p) \/ Return(p)
                     \/ \E k \in Sleeps : SysSleep(p, k)

\* sleep(n) returns 0 no sooner than n ticks after it was called and no later
\* than it takes the process to get a hart after the n-th, also when ticks
\* wraps, and a process that falls asleep has not slept enough.  A negative n
\* is a sleep of WRAP + n ticks.  (One so long that the process cannot be late
\* without a wrap is left out: it may sleep on.)
SleepExact ==
  \A p \in Proc :
    Unsigned(n[p]) + Late < WRAP /\ at'[p] # at[p] =>
      /\ at'[p] = "slept" => elapsed[p] \in Unsigned(n[p])..(Unsigned(n[p]) + Late)
      /\ at'[p] = "asleep" => elapsed[p] < Unsigned(n[p])
=============================================================================
