------------------------------ MODULE ByteFifo -------------------------------
(***************************************************************************)
(* What a pipe promises: a first-in first-out line of at most Capacity     *)
(* bytes, which is emptied when the pipe is allocated anew.                *)
(***************************************************************************)
EXTENDS Naturals, Sequences

CONSTANTS Byte, Capacity

VARIABLE line

Init == line = <<>>

Put(c) == Len(line) < Capacity /\ line' = Append(line, c)

Get == line # <<>> /\ line' = Tail(line)

Reset == line' = <<>>

Next == Get \/ Reset \/ \E c \in Byte : Put(c)

Spec == Init /\ [][Next]_line
=============================================================================
