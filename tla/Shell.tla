-------------------------------- MODULE Shell --------------------------------
(***************************************************************************)
(* user/sh.c: runcmd(), as the instructions of module Files that a parsed  *)
(* command makes its process execute.  The programs are user/echo.c and    *)
(* user/cat.c.                                                             *)
(***************************************************************************)
EXTENDS ShellParse

CONSTANT Length         \* bytes that echo writes

\* echo writes; cat reads until end of file and writes what it got; greedy,
\* as some of user/usertests.c, takes descriptors until there are no more.
\* Without a word, or when exec() finds no such file, runcmd() exits.
Program(argv) ==
  CASE argv = <<<<"e">>>> -> <<<<"write", Length>>, <<"exit">>>>
    [] argv = <<<<"c">>>> -> <<<<"cat">>>>
    [] argv = <<<<"g">>>> -> <<<<"close", 2>>, <<"close", 2>>, <<"pipe">>, <<"dup", 0>>,
                               <<"dup", 0>>, <<"pipe">>, <<"exit">>>>
    [] OTHER -> <<<<"exit">>>>

\* The descriptors p[0] and p[1] that pipe() returned, as Files names them.
P0 == -1
P1 == -2

CloseBoth == <<<<"close", P0>>, <<"close", P1>>>>

RECURSIVE RuncmdKeepsOutput(_)

\* Mutant of Runcmd: the left side of a pipe does not close its output first.
RuncmdKeepsOutput(c) ==
  CASE c.type = "EXEC"  -> Program(c.argv)
    [] c.type = "REDIR" -> <<<<"close", c.fd>>, <<"open">>>> \o RuncmdKeepsOutput(c.cmd)
    [] c.type = "LIST"  -> <<<<"fork", RuncmdKeepsOutput(c.left)>>, <<"wait">>>> \o
                           RuncmdKeepsOutput(c.right)
    [] c.type = "BACK"  -> <<<<"fork", RuncmdKeepsOutput(c.cmd)>>, <<"exit">>>>
    [] c.type = "PIPE"  ->
         <<<<"pipe">>,
           <<"fork", <<<<"dup", P1>>>> \o CloseBoth \o RuncmdKeepsOutput(c.left)>>,
           <<"fork", <<<<"close", 0>>, <<"dup", P0>>>> \o CloseBoth \o RuncmdKeepsOutput(c.right)>>>>
         \o CloseBoth \o <<<<"wait">>, <<"wait">>, <<"exit">>>>

RECURSIVE Runcmd(_)

\* runcmd(): what a process does to run c.  exec() keeps the descriptors.
Runcmd(c) ==
  CASE c.type = "EXEC"  -> Program(c.argv)
    [] c.type = "REDIR" -> <<<<"close", c.fd>>, <<"open">>>> \o Runcmd(c.cmd)
    [] c.type = "LIST"  -> <<<<"fork", Runcmd(c.left)>>, <<"wait">>>> \o Runcmd(c.right)
    [] c.type = "BACK"  -> <<<<"fork", Runcmd(c.cmd)>>, <<"exit">>>>
    [] c.type = "PIPE"  ->
         <<<<"pipe">>,
           <<"fork", <<<<"close", 1>>, <<"dup", P1>>>> \o CloseBoth \o Runcmd(c.left)>>,
           <<"fork", <<<<"close", 0>>, <<"dup", P0>>>> \o CloseBoth \o Runcmd(c.right)>>>>
         \o CloseBoth \o <<<<"wait">>, <<"wait">>, <<"exit">>>>

\* Whether c reads its descriptor 0.
RECURSIVE Reads(_)

Reads(c) ==
  CASE c.type = "EXEC"  -> c.argv = <<<<"c">>>>
    [] c.type = "REDIR" -> c.fd # 0 /\ Reads(c.cmd)
    [] c.type = "BACK"  -> Reads(c.cmd)
    [] c.type = "PIPE"  -> Reads(c.left)
    [] c.type = "LIST"  -> Reads(c.left) \/ Reads(c.right)

\* The bytes c should write to its descriptor 1 when descriptor 0 gives it in.
RECURSIVE Prints(_, _)

Prints(c, in) ==
  CASE c.type = "EXEC"  -> IF c.argv = <<<<"e">>>> THEN Length ELSE IF Reads(c) THEN in ELSE 0
    [] c.type = "REDIR" -> IF c.fd = 1 THEN 0 ELSE Prints(c.cmd, 0)
    [] c.type = "BACK"  -> Prints(c.cmd, in)
    [] c.type = "PIPE"  -> Prints(c.right, Prints(c.left, in))
    [] c.type = "LIST"  -> Prints(c.left, in) + Prints(c.right, IF Reads(c.left) THEN 0 ELSE in)
=============================================================================
