------------------------------ MODULE ProcQueue ------------------------------
(***************************************************************************)
(* What one feedback queue of the MLFQ scheduler promises its only caller, *)
(* kernel/proc.c: a first-in first-out line of distinct processes, from    *)
(* the middle of which ageing() may take a process out.  Queue.tla, the    *)
(* circular buffer of kernel/queue.c, is shown to implement it.            *)
(***************************************************************************)
EXTENDS ProcSeq

CONSTANT Proc          \* the slots of the process table proc[]

VARIABLE line          \* the queued processes, the next one to run first

Init == line = <<>>

Push(p) ==
  /\ p \notin Members(line)
  /\ line' = Append(line, p)

Pop ==
  /\ line # <<>>
  /\ line' = Tail(line)

Erase(p) ==
  /\ p \in Members(line)
  /\ line' = Remove(line, p)

Next == Pop \/ \E p \in Proc : Push(p) \/ Erase(p)

Spec == Init /\ [][Next]_line
=============================================================================
