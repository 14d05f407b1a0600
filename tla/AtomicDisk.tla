----------------------------- MODULE AtomicDisk ------------------------------
(***************************************************************************)
(* What the log of kernel/log.c promises the file system: the writes of    *)
(* the operations between begin_op() and end_op() reach the disk in        *)
(* groups, all or nothing, and never while one of them is unfinished.      *)
(***************************************************************************)
CONSTANTS Proc, Block, Value

VARIABLES durable,   \* the disk as it is after a crash and recovery
          cached,    \* the disk as the running system sees it
          open       \* the processes inside an operation

vars == <<durable, cached, open>>

Init ==
  /\ durable \in [Block -> Value]
  /\ cached = durable
  /\ open = {}

Begin(p) ==
  /\ p \notin open
  /\ open' = open \cup {p}
  /\ UNCHANGED <<durable, cached>>

Write(p, b, v) ==
  /\ p \in open
  /\ cached' = [cached EXCEPT ![b] = v]
  /\ UNCHANGED <<durable, open>>

End(p) ==
  /\ p \in open
  /\ open' = open \ {p}
  /\ UNCHANGED <<durable, cached>>

Commit ==
  /\ open = {}
  /\ durable' = cached
  /\ UNCHANGED <<cached, open>>

Crash ==
  /\ cached' = durable
  /\ open' = {}
  /\ UNCHANGED durable

Next ==
  \/ \E p \in Proc : Begin(p) \/ End(p) \/ \E b \in Block, v \in Value : Write(p, b, v)
  \/ Commit
  \/ Crash

Spec == Init /\ [][Next]_vars
=============================================================================
