------------------------------- MODULE ProcSeq -------------------------------
(***************************************************************************)
(* Sequences of distinct processes.                                        *)
(***************************************************************************)
EXTENDS Naturals, Sequences

Members(s) == {s[k] : k \in 1..Len(s)}

Position(s, p) == CHOOSE k \in 1..Len(s) : s[k] = p

\* s without its element p, the others in their order.
Remove(s, p) ==
  [k \in 1..(Len(s) - 1) |-> IF k < Position(s, p) THEN s[k] ELSE s[k + 1]]
=============================================================================
