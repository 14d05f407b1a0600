------------------------------- MODULE MCSched -------------------------------
(***************************************************************************)
(* For TLC, in parts that share no state: the circular buffer of Queue,    *)
(* the policies of Sched, and the pages, the heap and the copy functions   *)
(* of MCMemory.  A part that is not chosen stays as it is initially.       *)
(*                                                                         *)
(* The view leaves out what nothing reads in builds other than PBS: the    *)
(* priorities, what they are computed from, and the times of slots without *)
(* a process, which were checked while it lived and which fork() resets.   *)
(***************************************************************************)
EXTENDS Queue, Sched

CONSTANTS Hart1,
          MemProc, initproc, PGSIZE, PTES, MAXVA, MemSize, Program, Delta, MaxSize, MaxArgs,
          CopyPages, ADDR, MaxLen, Morecore, Limit, HSIZE, Bytes

VARIABLES part,
          npages, freelist, status, sz, table, trapframe, place, call, new, newsz, child, segs,
          argv, base, at, to, mem, halted,
          hdr, freep, brk, owned, gaps

M == INSTANCE MCMemory WITH
       Proc <- MemProc, state <- status, pc <- place, panicked <- halted

ASSUME M!MemoryAssumption

Seg(a, n) == [vaddr |-> a, memsz |-> n]

\* One segment; a second one inside the first's last page; one that is not
\* aligned.
Programs == {<<Seg(0, 1)>>, <<Seg(0, 4), Seg(2, 1)>>, <<Seg(1, 2)>>}

Deltas == {-3, 3}

memoryVars ==
  <<npages, freelist, status, sz, table, trapframe, place, call, new, newsz, child, segs,
    argv, base, at, to, mem, halted, hdr, freep, brk, owned, gaps>>

Builds ==
  { [policy |-> "FCFS", harts |-> {Hart0, Hart1}],
    [policy |-> "RR", harts |-> {Hart0, Hart1}],
    [policy |-> "PBS", harts |-> {Hart0}] }

Lives == {p \in Slot : Policy = "PBS" \/ state[p] \notin {"UNUSED", "ZOMBIE"}}

Relevant ==
  IF part \in {"pages", "heap", "copy"} THEN M!Relevant
  ELSE <<part, queueVars, build, state, ticks, alpha, pc, scanVars, clock,
         [p \in Lives |-> <<ctime[p], rtime[p]>>],
         IF Policy = "PBS" THEN <<sleepTime, prioVars>> ELSE <<>>>>

MCInit ==
  /\ part \in {"queue", "sched", "pages", "heap", "copy"} /\ QueueInit /\ Init /\ M!MemoryInit
  /\ part # "sched" => Policy = "RR"

MCNext ==
  \/ part = "queue" /\ QueueNext /\ UNCHANGED <<part, vars, memoryVars>>
  \/ part = "sched" /\ Next /\ UNCHANGED <<part, queueVars, memoryVars>>
  \/ M!MemoryNext /\ UNCHANGED <<queueVars, vars>>

MCSpec == MCInit /\ [][MCNext]_<<part, queueVars, vars, memoryVars>>

\* See Memory: every page is in one place, and none is lost when memory runs out.
FramesExact == part = "pages" => M!FramesExact

\* See Memory: a process keeps exactly the pages of its size.
ImageExact == part = "pages" => M!ImageExact

\* See UserCopy: copyin(), copyout() and copyinstr() transfer what is the user's.
CopyExact == M!CopyExact

\* See Umalloc: malloc() and free() keep every unit of the heap in one block.
HeapExact == M!HeapExact
=============================================================================
