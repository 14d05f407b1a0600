------------------------------- MODULE MCPipe --------------------------------
(* Pipe for TLC.  Processes and None are model values of the .cfg files.      *)
EXTENDS Pipe
=============================================================================
