-------------------------------- MODULE MCLog --------------------------------
(***************************************************************************)
(* Log for TLC.  Processes and blocks are model values of the .cfg files,  *)
(* and interchangeable where no liveness is checked.                       *)
(***************************************************************************)
EXTENDS Log, TLC

Symmetric == Permutations(Proc) \cup Permutations(Block)
=============================================================================
