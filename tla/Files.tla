-------------------------------- MODULE Files --------------------------------
(***************************************************************************)
(* The file table and the descriptors: kernel/file.c, the descriptor calls *)
(* of kernel/sysfile.c, and what fork(), exit() and wait() do to them.  A  *)
(* pipe is what module ByteFifo promises, here with the number of its      *)
(* bytes only.                                                             *)
(*                                                                         *)
(* The code a process still has to run is a sequence of instructions: the  *)
(* system calls of user programs (module Shell has those of runcmd()), and *)
(* the parts of a call that come after a release of ftable.lock.           *)
(***************************************************************************)
EXTENDS Integers, Sequences, FiniteSets

CONSTANTS NPROC,      \* processes, the shell included; process 1 is the shell
          NFILE,      \* entries of ftable
          NOFILE,     \* descriptors of a process
          NPIPE,      \* bound: as many pages as there are pipes at a time
          Room,       \* bytes a pipe holds
          Command,    \* bound: the code of the command lines that are typed
          Output      \* of every command: the bytes it should print

Pid == 1..NPROC
File == 1..NFILE
Desc == 0..(NOFILE - 1)

VARIABLES ftable,     \* of every file: ref, type, pipe and writable
          ofile,      \* of every process and descriptor: a file, or 0
          pipes,      \* of every page: its two ends and its bytes
          proc,       \* of every process: state, parent, code and int p[2]
          iref,       \* ip->ref of the inodes of files, all together
          out,        \* bytes that reached the console since the prompt
          failed,     \* whether a fork(), pipe() or open() failed since then
          line        \* the command that is being run, or was run last

filesVars == <<ftable, ofile, pipes, proc, iref, out, failed, line>>

\* exit(1): what is left to do when the shell panics, or cat has an error.
Panic == <<<<"exit">>>>

Unused == [state |-> "UNUSED", parent |-> 0, code |-> <<>>, p |-> <<0, 0>>]
NoFile == [ref |-> 0, type |-> "FD_NONE", pipe |-> 0, writable |-> FALSE]
NoPipe == [readopen |-> FALSE, writeopen |-> FALSE, bytes |-> 0]

\* init.c opened the console as file 1 and the shell inherited it as 0, 1, 2
\* (the references of init itself are left out).
FilesInit ==
  /\ ftable = [f \in File |-> IF f = 1 THEN [NoFile EXCEPT !.ref = 3, !.type = "FD_DEVICE"]
                              ELSE NoFile]
  /\ ofile = [q \in Pid |-> [fd \in Desc |-> IF q = 1 /\ fd <= 2 THEN 1 ELSE 0]]
  /\ pipes = [k \in 1..NPIPE |-> NoPipe]
  /\ proc = [q \in Pid |-> IF q = 1 THEN [Unused EXCEPT !.state = "USED"] ELSE Unused]
  /\ iref = 1 /\ out = 0 /\ failed = FALSE
  /\ line = <<>>

Smallest(S) == CHOOSE x \in S : \A y \in S : x <= y

\* q is about to execute an instruction of this name.
At(q, op) == proc[q].state = "USED" /\ proc[q].code # <<>> /\ Head(proc[q].code)[1] = op
Arg(q, k) == Head(proc[q].code)[k]
Rest(q) == Tail(proc[q].code)

Continue(q, code) == proc' = [proc EXCEPT ![q].code = code]

\* A descriptor: the number x, or p[0] for -1 and p[1] for -2.
Fd(q, x) == IF x < 0 THEN proc[q].p[-x] ELSE x

FreeFiles == {f \in File : ftable[f].ref = 0}
FreeDesc(q) == {fd \in Desc : ofile[q][fd] = 0}
FreePages == {k \in 1..NPIPE : pipes[k] = NoPipe}

-----------------------------------------------------------------------------
(* file.c and the descriptor calls of sysfile.c *)

\* k more references to f
Dup(f, k) == ftable' = [ftable EXCEPT ![f].ref = @ + k]

FilecloseKeepsType(q, f, code) ==
  IF ftable[f].ref > 1
  THEN Dup(f, -1) /\ Continue(q, code)
  ELSE /\ ftable' = [ftable EXCEPT ![f].ref = 0]
       /\ Continue(q, (CASE ftable[f].type = "FD_PIPE" ->
                              <<<<"pipeclose", ftable[f].pipe, ftable[f].writable>>>>
                         [] ftable[f].type \in {"FD_INODE", "FD_DEVICE"} -> <<<<"iput">>>>
                         [] OTHER -> <<>>) \o code)

\* fileclose(f) up to its release of ftable.lock.  The last reference leaves
\* the end of the pipe, or the inode, to be given up after that; then comes
\* the rest of the code.
Fileclose(q, f, code) ==
  IF ftable[f].ref > 1
  THEN Dup(f, -1) /\ Continue(q, code)
  ELSE /\ ftable' = [ftable EXCEPT ![f].ref = 0, ![f].type = "FD_NONE"]
       /\ Continue(q, (CASE ftable[f].type = "FD_PIPE" ->
                              <<<<"pipeclose", ftable[f].pipe, ftable[f].writable>>>>
                         [] ftable[f].type \in {"FD_INODE", "FD_DEVICE"} -> <<<<"iput">>>>
                         [] OTHER -> <<>>) \o code)

SysClose(q) ==
  /\ At(q, "close")
  /\ LET fd == Fd(q, Arg(q, 2)) IN
     IF ofile[q][fd] = 0
     THEN Continue(q, Rest(q)) /\ UNCHANGED <<ofile, ftable>>
     ELSE /\ ofile' = [ofile EXCEPT ![q][fd] = 0]
          /\ Fileclose(q, ofile[q][fd], Rest(q))
  /\ UNCHANGED <<pipes, iref, out, failed, line>>

\* fileclose() in the failure paths of pipealloc() and sys_pipe()
FailClose(q) ==
  /\ At(q, "fileclose")
  /\ Fileclose(q, Arg(q, 2), Rest(q))
  /\ UNCHANGED <<ofile, pipes, iref, out, failed, line>>

\* pipeclose(), atomic under pi->lock; the page is free when both ends are closed.
Pipeclose(q) ==
  /\ At(q, "pipeclose")
  /\ LET k == Arg(q, 2)
         closed == IF Arg(q, 3) THEN [pipes[k] EXCEPT !.writeopen = FALSE]
                   ELSE [pipes[k] EXCEPT !.readopen = FALSE] IN
     pipes' = [pipes EXCEPT ![k] =
                 IF closed.readopen \/ closed.writeopen THEN closed ELSE NoPipe]
  /\ Continue(q, Rest(q))
  /\ UNCHANGED <<ofile, ftable, iref, out, failed, line>>

Iput(q) ==
  /\ At(q, "iput")
  /\ iref' = iref - 1
  /\ Continue(q, Rest(q))
  /\ UNCHANGED <<ofile, ftable, pipes, out, failed, line>>

SysDup(q) ==
  /\ At(q, "dup")
  /\ LET f == ofile[q][Fd(q, Arg(q, 2))] IN
     IF f = 0 \/ FreeDesc(q) = {}
     THEN UNCHANGED <<ofile, ftable>>
     ELSE /\ ofile' = [ofile EXCEPT ![q][Smallest(FreeDesc(q))] = f]
          /\ Dup(f, 1)
  /\ Continue(q, Rest(q))
  /\ UNCHANGED <<pipes, iref, out, failed, line>>

\* sys_open() of a file: filealloc() and fdalloc(), and their failures.
SysOpen(q) ==
  /\ At(q, "open")
  /\ IF FreeFiles = {} \/ FreeDesc(q) = {}
     THEN /\ Continue(q, Panic) /\ failed' = TRUE
          /\ UNCHANGED <<ofile, ftable, iref>>
     ELSE LET f == Smallest(FreeFiles) IN
          /\ ftable' = [ftable EXCEPT ![f] = [NoFile EXCEPT !.ref = 1, !.type = "FD_INODE"]]
          /\ ofile' = [ofile EXCEPT ![q][Smallest(FreeDesc(q))] = f]
          /\ iref' = iref + 1
          /\ Continue(q, Rest(q))
          /\ UNCHANGED failed
  /\ UNCHANGED <<pipes, out, line>>

\* sys_pipe() and pipealloc(): two filealloc(), then kalloc(), then two
\* fdalloc(); each may be the one that fails.  filealloc() sets ref and keeps
\* what else was in the entry.
PipeFile0(q) ==
  /\ At(q, "pipe")
  /\ IF FreeFiles = {}
     THEN Continue(q, Panic) /\ failed' = TRUE /\ UNCHANGED ftable
     ELSE LET f == Smallest(FreeFiles) IN
          Dup(f, 1) /\ Continue(q, <<<<"pipe1", f>>>> \o Rest(q)) /\ UNCHANGED failed
  /\ UNCHANGED <<ofile, pipes, iref, out, line>>

PipeFile1(q) ==
  /\ At(q, "pipe1")
  /\ IF FreeFiles = {}
     THEN /\ Continue(q, <<<<"fileclose", Arg(q, 2)>>>> \o Panic)
          /\ failed' = TRUE /\ UNCHANGED ftable
     ELSE LET f == Smallest(FreeFiles) IN
          /\ Dup(f, 1)
          /\ Continue(q, <<<<"pipe2", Arg(q, 2), f>>>> \o Rest(q))
          /\ UNCHANGED failed
  /\ UNCHANGED <<ofile, pipes, iref, out, line>>

PipeEnd(k, writable) == [ref |-> 1, type |-> "FD_PIPE", pipe |-> k, writable |-> writable]

\* kalloc() returns 0 when the rest of the system has taken all memory.  fdalloc()
\* may fail, or copyout() to the caller's array; what sys_pipe() has put in
\* p->ofile by then it clears again.
PipeInstall(q) ==
  /\ At(q, "pipe2")
  /\ LET f0 == Arg(q, 2)  f1 == Arg(q, 3)
         k == Smallest(FreePages)
         fd0 == Smallest(FreeDesc(q))
         fd1 == Smallest(FreeDesc(q) \ {fd0})
         undo == <<<<"fileclose", f0>>, <<"fileclose", f1>>>> \o Panic IN
     \/ Continue(q, undo) /\ failed' = TRUE /\ UNCHANGED <<ftable, pipes, ofile>>
     \/ /\ pipes' = [pipes EXCEPT ![k] = [readopen |-> TRUE, writeopen |-> TRUE, bytes |-> 0]]
        /\ ftable' = [ftable EXCEPT ![f0] = PipeEnd(k, FALSE), ![f1] = PipeEnd(k, TRUE)]
        /\ \/ Continue(q, undo) /\ failed' = TRUE /\ UNCHANGED ofile
           \/ /\ Cardinality(FreeDesc(q)) >= 2
              /\ ofile' = [ofile EXCEPT ![q][fd0] = f0, ![q][fd1] = f1]
              /\ proc' = [proc EXCEPT ![q].code = Rest(q), ![q].p = <<fd0, fd1>>]
              /\ UNCHANGED failed
  /\ UNCHANGED <<iref, out, line>>

\* sys_write() of descriptor 1.  A pipe takes what fits, and the writer waits
\* for the rest; without readers write() fails.
SysWrite(q) ==
  /\ At(q, "write")
  /\ LET f == ftable[ofile[q][1]]
         k == f.pipe
         now == Smallest({Arg(q, 2), Room - pipes[k].bytes})
         left == Arg(q, 2) - now IN
     \/ /\ f.type # "FD_PIPE"
        /\ out' = IF f.type = "FD_DEVICE" THEN out + Arg(q, 2) ELSE out
        /\ Continue(q, Rest(q))
        /\ UNCHANGED pipes
     \/ /\ f.type = "FD_PIPE" /\ pipes[k].readopen /\ now > 0
        /\ pipes' = [pipes EXCEPT ![k].bytes = @ + now]
        /\ Continue(q, IF left = 0 THEN Rest(q) ELSE <<<<"write", left>>>> \o Rest(q))
        /\ UNCHANGED out
     \/ /\ f.type = "FD_PIPE" /\ ~pipes[k].readopen
        /\ Continue(q, Panic)
        /\ UNCHANGED <<pipes, out>>
  /\ UNCHANGED <<ofile, ftable, iref, failed, line>>

\* Mutant of Cat: the end of file does not end the loop.
CatLoops(q) ==
  /\ At(q, "cat")
  /\ LET f == ftable[ofile[q][0]]  k == f.pipe IN
     \/ /\ f.type = "FD_PIPE" /\ pipes[k].bytes > 0
        /\ pipes' = [pipes EXCEPT ![k].bytes = 0]
        /\ Continue(q, <<<<"write", pipes[k].bytes>>, <<"cat">>>>)
     \/ /\ f.type = "FD_PIPE" => pipes[k].bytes = 0 /\ ~pipes[k].writeopen
        /\ UNCHANGED <<proc, pipes>>
  /\ UNCHANGED <<ofile, ftable, iref, out, failed, line>>

\* cat's loop: sys_read() of descriptor 0, and the write() of what it got.
\* The console, and the file of a redirection, are at their end.
Cat(q) ==
  /\ At(q, "cat")
  /\ LET f == ftable[ofile[q][0]]  k == f.pipe IN
     \/ /\ f.type = "FD_PIPE" /\ pipes[k].bytes > 0
        /\ pipes' = [pipes EXCEPT ![k].bytes = 0]
        /\ Continue(q, <<<<"write", pipes[k].bytes>>, <<"cat">>>>)
     \/ /\ f.type = "FD_PIPE" => pipes[k].bytes = 0 /\ ~pipes[k].writeopen
        /\ Continue(q, Panic)
        /\ UNCHANGED pipes
  /\ UNCHANGED <<ofile, ftable, iref, out, failed, line>>

-----------------------------------------------------------------------------
(* fork(), exit() and wait() *)

References(q, f) == Cardinality({fd \in Desc : ofile[q][fd] = f})

\* fork1(): the child gets every open descriptor, by filedup(), and p[2].
Fork(q) ==
  /\ At(q, "fork")
  /\ LET free == {c \in Pid : proc[c].state = "UNUSED"} IN
     IF free = {}
     THEN Continue(q, Panic) /\ failed' = TRUE /\ UNCHANGED <<ofile, ftable>>
     ELSE LET c == Smallest(free) IN
          /\ proc' = [proc EXCEPT ![q].code = Rest(q),
                        ![c] = [state |-> "USED", parent |-> q, code |-> Arg(q, 2), p |-> proc[q].p]]
          /\ ofile' = [ofile EXCEPT ![c] = ofile[q]]
          /\ ftable' = [f \in File |-> [ftable[f] EXCEPT !.ref = @ + References(q, f)]]
          /\ UNCHANGED failed
  /\ UNCHANGED <<pipes, iref, out, line>>

\* exit(): close the descriptors from 0 up, then give the children to init
\* (process 0 here) and become a zombie.
Exit(q) ==
  /\ At(q, "exit")
  /\ LET open == Desc \ FreeDesc(q)  fd == Smallest(open) IN
     IF open # {}
     THEN /\ ofile' = [ofile EXCEPT ![q][fd] = 0]
          /\ Fileclose(q, ofile[q][fd], proc[q].code)
     ELSE /\ proc' = [c \in Pid |->
                       IF c = q THEN [proc[q] EXCEPT !.state = "ZOMBIE", !.code = <<>>]
                       ELSE IF proc[c].parent = q THEN [proc[c] EXCEPT !.parent = 0] ELSE proc[c]]
          /\ UNCHANGED <<ofile, ftable>>
  /\ UNCHANGED <<pipes, iref, out, failed, line>>

\* wait(0): reap a child, or return when there is none.
Wait(q) ==
  /\ At(q, "wait")
  /\ LET child == {c \in Pid : proc[c].parent = q} IN
     \/ /\ child = {}
        /\ Continue(q, Rest(q))
     \/ \E c \in child :
          /\ proc[c].state = "ZOMBIE"
          /\ proc' = [proc EXCEPT ![c] = Unused, ![q].code = Rest(q)]
  /\ UNCHANGED <<ofile, ftable, pipes, iref, out, failed, line>>

\* init's wait(0) for the children it was given.
InitReaps(c) ==
  /\ proc[c].state = "ZOMBIE" /\ proc[c].parent = 0
  /\ proc' = [proc EXCEPT ![c] = Unused]
  /\ UNCHANGED <<ofile, ftable, pipes, iref, out, failed, line>>

AllReaped == proc[1].code = <<>> /\ \A q \in Pid \ {1} : proc[q] = Unused

\* main()'s loop: a line is read, a child runs it, and main() waits.  (Bound:
\* the next line is typed when the processes of the last one are gone.)
Prompt ==
  /\ AllReaped
  /\ \E c \in Command : proc' = [proc EXCEPT ![1].code = <<<<"fork", c>>, <<"wait">>>>] /\ line' = c
  /\ out' = 0 /\ failed' = FALSE
  /\ UNCHANGED <<ofile, ftable, pipes, iref>>

FilesNext ==
  \/ \E q \in Pid : \/ SysClose(q) \/ FailClose(q) \/ Pipeclose(q) \/ Iput(q) \/ SysDup(q)
                    \/ SysOpen(q) \/ PipeFile0(q) \/ PipeFile1(q) \/ PipeInstall(q)
                    \/ SysWrite(q) \/ Cat(q) \/ Fork(q) \/ Exit(q) \/ Wait(q) \/ InitReaps(q)
  \/ Prompt

-----------------------------------------------------------------------------
(* Properties *)

\* Types of the file table's parts.
FilesTypeOK ==
  /\ ftable \in [File -> [ref : 0..(NPROC * NOFILE), writable : BOOLEAN, pipe : 0..NPIPE,
                          type : {"FD_NONE", "FD_PIPE", "FD_INODE", "FD_DEVICE"}]]
  /\ ofile \in [Pid -> [Desc -> File \cup {0}]]
  /\ pipes \in [1..NPIPE -> [readopen : BOOLEAN, writeopen : BOOLEAN, bytes : 0..Room]]
  /\ iref \in Nat /\ out \in Nat /\ failed \in BOOLEAN

\* The instructions (with their process) that hold a reference to f, in
\* pipealloc() or on its way out.
InFlight(f) ==
  {<<q, k>> \in Pid \X (1..4) :
     /\ k <= Len(proc[q].code)
     /\ LET ins == proc[q].code[k] IN
        \/ ins[1] \in {"pipe1", "fileclose"} /\ ins[2] = f
        \/ ins[1] = "pipe2" /\ f \in {ins[2], ins[3]}}

Closing(k, writable) ==
  \E q \in Pid : At(q, "pipeclose") /\ Arg(q, 2) = k /\ Arg(q, 3) = writable

EndOpen(k, writable) ==
  \E f \in File : ftable[f].type = "FD_PIPE" /\ ftable[f].pipe = k /\ ftable[f].writable = writable

\* Reference counts of files, ends of pipes and the inode are exact while
\* processes fork, dup, close and exit at once and pipe() fails half-way: an
\* end is open exactly as long as some file is that end, or its last user is
\* on the way to pipeclose(); the page of a pipe is not freed before that.
FilesExact ==
  /\ FilesTypeOK
  /\ \A f \in File :
       /\ ftable[f].ref = Cardinality({x \in Pid \X Desc : ofile[x[1]][x[2]] = f})
                           + Cardinality(InFlight(f))
       /\ ftable[f].ref = 0 => ftable[f].type = "FD_NONE"
  /\ \A k \in 1..NPIPE :
       /\ pipes[k].readopen = (EndOpen(k, FALSE) \/ Closing(k, FALSE))
       /\ pipes[k].writeopen = (EndOpen(k, TRUE) \/ Closing(k, TRUE))
  /\ iref = Cardinality({f \in File : ftable[f].type \in {"FD_INODE", "FD_DEVICE"}})
             + Cardinality({q \in Pid : At(q, "iput")})

\* When the prompt is back, the command has printed what it should: runcmd()
\* connects the programs of a pipeline without losing a byte or ending one
\* early, unless a fork(), pipe() or open() failed.
OutputExact == AllReaped /\ ~failed /\ line # <<>> => out = Output[line]

\* Every command ends and the prompt returns: no reader waits for an end of
\* file that a forgotten descriptor withholds, and no parent for a child, also
\* when pipe() or fork() fails in the middle of a pipeline.
PipelineEnds == []<>AllReaped
=============================================================================
