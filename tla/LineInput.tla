------------------------------ MODULE LineInput ------------------------------
(***************************************************************************)
(* What the console promises its readers: characters are edited in a line  *)
(* until it is finished, by a newline, by control-D or because there is no *)
(* more room; readers take the characters of finished lines in order, each *)
(* read() at most one line, and a control-D only as an end of file.        *)
(***************************************************************************)
EXTENDS Naturals, Sequences, SequencesExt

CONSTANTS Reader, Char, Capacity

VARIABLES ready, edit,    \* the finished characters, and the line that is edited
          got             \* of every reader: how many bytes its read() has so far

lineVars == <<ready, edit, got>>

Init == ready = <<>> /\ edit = <<>> /\ got = [h \in Reader |-> 0]

Type(c) ==
  /\ Len(ready) + Len(edit) < Capacity
  /\ IF c \in {"nl", "D"} \/ Len(ready) + Len(edit) + 1 = Capacity
     THEN ready' = ready \o Append(edit, c) /\ edit' = <<>>
     ELSE ready' = ready /\ edit' = Append(edit, c)
  /\ UNCHANGED got

Erase == edit # <<>> /\ edit' = Front(edit) /\ UNCHANGED <<ready, got>>

\* A read() ends, for whatever reason.
End(h) == got' = [got EXCEPT ![h] = 0] /\ UNCHANGED <<ready, edit>>

\* A character is taken: read() goes on, or ends with it.
Take(h) ==
  /\ ready # <<>> /\ ready' = Tail(ready)
  /\ \/ Head(ready) \notin {"nl", "D"} /\ got' = [got EXCEPT ![h] = @ + 1]
     \/ (Head(ready) = "D" => got[h] = 0) /\ got' = [got EXCEPT ![h] = 0]
  /\ UNCHANGED edit

Next == Erase \/ (\E c \in Char : Type(c)) \/ \E h \in Reader : End(h) \/ Take(h)

Spec == Init /\ [][Next]_lineVars
=============================================================================
