------------------------------- MODULE MCProc --------------------------------
(* Processes for TLC, in two parts that share nothing: a behaviour is one of  *)
(* Proc, fork(), exit() and wait() under their locks on several harts, or one *)
(* of Files, where the shell's processes fork, exit and wait as single steps  *)
(* and what matters is their descriptors.  The part that is not chosen stays  *)
(* as it is initially.  The harts and None are model values.                  *)
EXTENDS Proc

CONSTANTS NTASK, NFILE, NOFILE, NPIPE, Room, Length, MAXARGS, Letter,
          Command, Output

VARIABLES ftable, ofile, pipes, proc, iref, out, failed, line, part

Sh == INSTANCE Shell WITH Word <- {}, MaxTokens <- 0

\* What is typed: e is echo, c is cat and g is greedy.
Lines ==
  { <<"e", "|", "c", "|", "c">>,
    <<"(", "e", "|", "c", "|", "c", ")", ">", "f">>,
    <<"(", "e", "|", "c", ")", "|", "e">>,
    <<"g">>,
    <<"(", "e", "&", ";", "e", ")", "|", "c">>,
    <<"c", "|", "c", ">", "f", "&">> }

Trees == UNION {Sh!Parsecmd(l) : l \in Lines}

MCCommand == {Sh!Runcmd(c) : c \in Trees}
MCOutput == [r \in MCCommand |-> Sh!Prints(CHOOSE c \in Trees : Sh!Runcmd(c) = r, 0)]

F == INSTANCE Files WITH NPROC <- NTASK

filesVars == <<ftable, ofile, pipes, proc, iref, out, failed, line>>
mcVars == <<vars, filesVars, part>>

MCInit == Init /\ F!FilesInit /\ part \in {"proc", "files"}

ProcPart == part = "proc" /\ Next /\ UNCHANGED <<filesVars, part>>
FilesPart == part = "files" /\ F!FilesNext /\ UNCHANGED <<vars, part>>

\* The scheduler runs every process again: the processes of a command do not
\* run for ever, so it is enough that something goes on.
MCSpec == MCInit /\ [][ProcPart \/ FilesPart]_mcVars /\ WF_mcVars(FilesPart)

\* Reference counts of files, pipe ends and inodes are exact (module Files).
FilesExact == part = "files" => F!FilesExact

\* A command prints what it should (module Files).
OutputExact == part = "files" => F!OutputExact

\* Every command ends and the prompt returns (module Files).
PipelineEnds == F!PipelineEnds
=============================================================================
