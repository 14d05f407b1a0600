------------------------------ MODULE MCConsole ------------------------------
(***************************************************************************)
(* Console for TLC: a reader and a writer on two harts.  Either keys are   *)
(* typed while nothing is written, or more is written than the UART and    *)
(* uart_tx_buf hold while a line is typed.  The indices start one below    *)
(* the value at which they wrap.                                           *)
(*                                                                         *)
(* In a part of its own, which takes no step, the shell's parser is        *)
(* evaluated on all short lines.                                           *)
(***************************************************************************)
EXTENDS Console

CONSTANTS MAXARGS, Letter, Word, MaxTokens

VARIABLE part

Sh == INSTANCE ShellParse

Words == {<<"e">>, <<"c", "e">>}

Keys == {"a", "nl", "D", "U", "H"}

MCScript ==
  [keys : {<<"a", k, l>> : k, l \in Keys} \cup {<<"D", "a", "nl">>, <<"U", "H", "nl">>},
   reads : {<<2, 2>>}, writes : {<<>>}] \cup
  [keys : {<<"a", "U">>, <<"nl">>}, reads : {<<1>>}, writes : {<<4>>}]

MCInit == Init /\ part \in {"console", "parse"} /\ (part = "parse" => keys = <<"nl">>)

ConsolePart == part = "console" /\ Next /\ UNCHANGED part
ParsePart == part = "parse" /\ UNCHANGED <<vars, part>>

MCSpec ==
  /\ MCInit /\ [][ConsolePart \/ ParsePart]_<<vars, part>>
  /\ WF_vars(part = "console" /\ Work)

\* The parser accepts the grammar and gives each line its tree (module ShellParse).
ParseExact == part = "parse" => Sh!ParseExact
=============================================================================
