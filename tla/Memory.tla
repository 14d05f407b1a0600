------------------------------- MODULE Memory --------------------------------
(***************************************************************************)
(* The pages of physical memory: kernel/kalloc.c, the page tables of       *)
(* kernel/vm.c, and the calls that build and destroy them: fork(), exec(), *)
(* sbrk() and freeproc() of a process that wait() has found.               *)
(*                                                                         *)
(* Every kalloc() is a step, since it may fail and other processes         *)
(* allocate in between; a loop that only frees is one step, with what      *)
(* comes after it up to the next kalloc().  Addresses are counted in units *)
(* of which PGSIZE make a page, page-table pages have PTES entries.        *)
(*                                                                         *)
(* new[p] is the page table that p builds: in exec() its local variable,   *)
(* in fork() np->pagetable, which nobody reads before np can run.          *)
(***************************************************************************)
EXTENDS Integers, FiniteSets, FiniteSetsExt, Sequences, SequencesExt, Functions

CONSTANTS Proc, initproc, None,
          PGSIZE, PTES, MAXVA,  \* MAXVA is a page number
          MemSize,      \* the amounts of memory, in pages, that are considered
          Program,      \* the segments, [vaddr, memsz], of the files exec() may get
          Delta,        \* bound: the arguments of sbrk()
          MaxSize,      \* bound: the size to which sbrk() grows a process
          MaxArgs       \* bound: the arguments of exec()

\* The two pages at the end of the addresses, and all others.
TRAMPOLINE == MAXVA - 1
TRAPFRAME == MAXVA - 2
UserPage == 0..(TRAPFRAME - 1)

PGROUNDUP(n) == ((n + PGSIZE - 1) \div PGSIZE) * PGSIZE

\* The pages of a process of size n.
Pages(n) == 0..(PGROUNDUP(n) \div PGSIZE - 1)

\* Sizes stay below the trapframe: memory runs out long before addresses do.
MemoryAssumption ==
  /\ initproc \in Proc /\ None \notin Proc
  /\ PGSIZE \in Nat \ {0} /\ PTES \in Nat \ {0, 1}
  /\ MAXVA \in (PTES * PTES + 1)..(PTES * PTES * PTES) /\ MAXVA % PTES = 0
  /\ \A n \in MemSize : n \in Nat /\ n >= 7
  /\ Pages(MaxSize) \subseteq UserPage
  /\ \A program \in Program : \A s \in ToSet(program) :
        Pages(s.vaddr + s.memsz + 2 * PGSIZE) \subseteq UserPage

\* A page-table page, by its level and the part of the addresses it covers.
Root == <<2, 0>>
Path(v) == << <<1, v \div (PTES * PTES)>>, <<0, v \div PTES>> >>

VARIABLES npages,               \* the pages between end and PHYSTOP
          freelist,             \* kmem.freelist
          state,                \* of every slot: UNUSED, USED, LIVE or ZOMBIE
          sz, table, trapframe, \* p->sz, p->pagetable, p->trapframe
          pc, call,             \* of every process: its place, the call it is in
          new, newsz,           \* of every process: the page table it builds, its size
          child,                \* of every process: np in fork()
          segs,                 \* of every process: the segments exec() has to load
          argv,                 \* of every process: the pages of sys_exec()
          base, at, to,         \* of every process: oldsz, a and newsz in uvmalloc()
          mem,                  \* of every process: the page it is about to map
          panicked

image == <<sz, table, trapframe>>
building == <<new, newsz, child, segs, argv>>
loop == <<base, at, to, mem>>
vars == <<npages, freelist, state, image, pc, call, building, loop, panicked>>

Nothing == [x \in {} |-> x]
NoTable == [node |-> Nothing, leaf |-> Nothing]

\* uvminit(): the table of the first process, with a page at address 0.  Its
\* pages are the first ones of memory.
FirstNodes == <<Root>> \o Path(0) \o Path(TRAMPOLINE)
uvminit ==
  LET n == Len(FirstNodes)
  IN  [node |-> [x \in ToSet(FirstNodes) |-> CHOOSE k \in 1..n : FirstNodes[k] = x],
       leaf |-> (0 :> n + 1) @@ (TRAPFRAME :> n + 2) @@ (TRAMPOLINE :> None)]

\* kinit(): the list of all pages but the first n
kinit(n) == [k \in 1..(npages - n) |-> n + k]

\* userinit()
Init ==
  LET n == Len(FirstNodes)
      first(x, y) == [p \in Proc |-> IF p = initproc THEN x ELSE y]
  IN  /\ npages \in MemSize
      /\ freelist = kinit(n + 2)
      /\ state = first("LIVE", "UNUSED")
      /\ sz = first(PGSIZE, 0)
      /\ table = first(uvminit, NoTable)
      /\ trapframe = first(n + 2, None)
      /\ pc = [p \in Proc |-> "idle"] /\ call = [p \in Proc |-> None]
      /\ new = [p \in Proc |-> NoTable] /\ newsz = [p \in Proc |-> 0]
      /\ child = [p \in Proc |-> None]
      /\ segs = [p \in Proc |-> << >>] /\ argv = [p \in Proc |-> << >>]
      /\ base = [p \in Proc |-> 0] /\ at = [p \in Proc |-> 0] /\ to = [p \in Proc |-> 0]
      /\ mem = [p \in Proc |-> None]
      /\ panicked = FALSE
-----------------------------------------------------------------------------
(* The allocator and the page tables *)

Set(v, p, x) == v' = [v EXCEPT ![p] = x]
Goto(p, place) == Set(pc, p, place)

\* kalloc() succeeds and returns Page, or fails
Page == Head(freelist)
Kalloc == freelist # << >> /\ freelist' = Tail(freelist)
NoMemory == freelist = << >>

\* kfree() of the pages of the sequence s
Kfree(s) == freelist' = s \o freelist

\* The pages that function f holds at the points of d.
Held(f, d) == FoldSet(LAMBDA x, s : Append(s, f[x]), << >>, d)

\* walk(): the page-table pages that are missing on the way to page v
Missing(t, v) == SelectSeq(Path(v), LAMBDA n : n \notin DOMAIN t.node)

AddNode(t, n, f) == [t EXCEPT !.node = @ @@ (n :> f)]
AddLeaf(t, v, f) == [t EXCEPT !.leaf = @ @@ (v :> f)]

\* uvmunmap() of the pages of s: the table, the pages it frees, its panic
Unmapped(t, s) == [t EXCEPT !.leaf = Restrict(@, DOMAIN @ \ s)]
Unmaps(t, s) == Held(t.leaf, s \cap DOMAIN t.leaf)
UnmapPanics(t, s) == ~(s \subseteq DOMAIN t.leaf)

\* freewalk()
Nodes(t) == Held(t.node, DOMAIN t.node)

\* proc_freepagetable(t, size): the pages it frees, and its panics: a page
\* that is not mapped, or a mapping that is left over
Freed(t, size) == Unmaps(t, Pages(size)) \o Nodes(t)
FreePanics(t, size) == DOMAIN t.leaf # Pages(size) \cup {TRAMPOLINE, TRAPFRAME}

\* The table in which p maps pages.
Work(p) == IF call[p] = "sbrk" THEN table[p] ELSE new[p]
SetWork(p, t) ==
  IF call[p] = "sbrk" THEN Set(table, p, t) /\ UNCHANGED new
                      ELSE Set(new, p, t) /\ UNCHANGED table

Runs(p, place) == state[p] = "LIVE" /\ pc[p] = place /\ ~panicked
-----------------------------------------------------------------------------
(* The ends of the calls.  The actions that use them say when they panic.  *)

FreedTable(t, size) == IF t = NoTable THEN << >> ELSE Freed(t, size)

\* freeproc(np) by fork(), after the pages of s, with the table t
FailFork(p, t, s) ==
  LET np == child[p]
      frame == IF trapframe[np] = None THEN << >> ELSE <<trapframe[np]>>
  IN  /\ Kfree(s \o frame \o FreedTable(t, 0))
      /\ Set(trapframe, np, None)
      /\ Set(state, np, "UNUSED")
      /\ Set(new, p, NoTable) /\ Set(child, p, None)
      /\ Goto(p, "idle")
      /\ UNCHANGED <<npages, sz, table, call, newsz, segs, argv, base, at, to>>

\* exec() returns -1, after the pages of s, with the table t; sys_exec()
\* frees argv
FailExec(p, t, s) ==
  /\ Kfree(s \o FreedTable(t, newsz[p]) \o argv[p])
  /\ Set(new, p, NoTable) /\ Set(newsz, p, 0)
  /\ Set(segs, p, << >>) /\ Set(argv, p, << >>)
  /\ Goto(p, "idle")
  /\ UNCHANGED <<npages, state, image, call, child, base, at, to>>

\* growproc() returns -1, with the table t
FailSbrk(p, t, s) ==
  /\ Kfree(s)
  /\ Set(table, p, t)
  /\ Goto(p, "idle")
  /\ UNCHANGED <<npages, state, sz, trapframe, call, building, base, at, to>>

\* proc_pagetable() fails
FailTable(p) ==
  /\ panicked' = (DOMAIN new[p].leaf # {})
  /\ \/ call[p] = "fork" /\ FailFork(p, NoTable, Nodes(new[p]))
     \/ call[p] = "exec" /\ FailExec(p, NoTable, Nodes(new[p]))
  /\ UNCHANGED mem

\* uvmalloc() or uvmcopy() fails: the page that is not mapped yet, those
\* mapped so far, and what the caller frees
FailLoop(p, held) ==
  LET mapped == base[p]..(at[p] - 1)
      t == Unmapped(Work(p), mapped)
      s == held \o Unmaps(Work(p), mapped)
  IN  /\ panicked' = (\/ UnmapPanics(Work(p), mapped)
                      \/ call[p] = "fork" /\ FreePanics(t, 0)
                      \/ call[p] = "exec" /\ FreePanics(t, newsz[p]))
      /\ \/ call[p] = "fork" /\ FailFork(p, t, s)
         \/ call[p] = "exec" /\ FailExec(p, t, s)
         \/ call[p] = "sbrk" /\ FailSbrk(p, t, s)
      /\ Set(mem, p, None)
-----------------------------------------------------------------------------
(* The loop of uvmalloc() and uvmcopy() *)

\* It starts, to map the pages from size old up to size size.
StartLoop(p, old, size) ==
  /\ Set(base, p, PGROUNDUP(old) \div PGSIZE)
  /\ Set(at, p, PGROUNDUP(old) \div PGSIZE)
  /\ Set(to, p, size)
  /\ Goto(p, "page")

InLoop(p) == Runs(p, "page") /\ at[p] * PGSIZE < to[p]

\* kalloc() of a page; uvmcopy() panics if the parent lacks it
LoopPage(p) ==
  /\ InLoop(p)
  /\ Kalloc
  /\ panicked' = (call[p] = "fork" /\ at[p] \notin DOMAIN table[p].leaf)
  /\ Set(mem, p, Page)
  /\ Goto(p, "map")
  /\ UNCHANGED <<npages, state, image, call, building, base, at, to>>

LoopNoPage(p) ==
  /\ InLoop(p)
  /\ NoMemory
  /\ FailLoop(p, << >>)

\* mappages(): walk() allocates a page-table page ...
MapNode(p) ==
  LET missing == Missing(Work(p), at[p])
  IN  /\ Runs(p, "map") /\ missing # << >>
      /\ Kalloc
      /\ SetWork(p, AddNode(Work(p), Head(missing), Page))
      /\ UNCHANGED <<npages, state, sz, trapframe, pc, call, newsz, child, segs, argv, loop,
                     panicked>>

MapNoNodeLeak(p) ==
  /\ Runs(p, "map") /\ Missing(Work(p), at[p]) # << >>
  /\ NoMemory
  /\ FailLoop(p, << >>)

MapNoNode(p) ==
  /\ Runs(p, "map") /\ Missing(Work(p), at[p]) # << >>
  /\ NoMemory
  /\ FailLoop(p, <<mem[p]>>)

\* ... until the page can be mapped; panic("mappages: remap")
MapLeaf(p) ==
  /\ Runs(p, "map") /\ Missing(Work(p), at[p]) = << >>
  /\ panicked' = (at[p] \in DOMAIN Work(p).leaf)
  /\ SetWork(p, AddLeaf(Work(p), at[p], mem[p]))
  /\ Set(mem, p, None)
  /\ Set(at, p, at[p] + 1)
  /\ Goto(p, "page")
  /\ UNCHANGED <<npages, freelist, state, sz, trapframe, call, newsz, child, segs, argv, base, to>>

\* It ends.
LoopDone(p) == Runs(p, "page") /\ at[p] * PGSIZE >= to[p]
-----------------------------------------------------------------------------
(* fork() *)

\* allocproc() finds an unused slot: not always the first, since it looks at
\* one slot after the other
Fork(p, np) ==
  /\ Runs(p, "idle") /\ state[np] = "UNUSED"
  /\ Set(state, np, "USED")
  /\ Set(child, p, np)
  /\ Set(call, p, "fork")
  /\ Goto(p, "trapframe")
  /\ UNCHANGED <<npages, freelist, image, new, newsz, segs, argv, loop, panicked>>

\* allocproc(): the trapframe
AllocTrapframe(p) ==
  /\ Runs(p, "trapframe")
  /\ \/ /\ Kalloc
        /\ Set(trapframe, child[p], Page)
        /\ Goto(p, "root")
        /\ UNCHANGED <<npages, state, sz, table, call, building, loop, panicked>>
     \/ /\ NoMemory
        /\ FailFork(p, NoTable, << >>)
        /\ UNCHANGED <<mem, panicked>>

\* proc_pagetable(): uvmcreate()
AllocRoot(p) ==
  /\ Runs(p, "root")
  /\ \/ /\ Kalloc
        /\ Set(new, p, AddNode(NoTable, Root, Page))
        /\ Goto(p, "top")
        /\ UNCHANGED <<npages, state, image, call, newsz, child, segs, argv, loop, panicked>>
     \/ NoMemory /\ FailTable(p)

\* proc_pagetable(): the page-table pages of the trampoline
AllocTop(p) ==
  LET missing == Missing(new[p], TRAMPOLINE)
  IN  /\ Runs(p, "top") /\ missing # << >>
      /\ \/ /\ Kalloc
            /\ Set(new, p, AddNode(new[p], Head(missing), Page))
            /\ UNCHANGED <<npages, state, image, pc, call, newsz, child, segs, argv, loop,
                           panicked>>
         \/ NoMemory /\ FailTable(p)

\* proc_pagetable() returns: the trampoline, and the trapframe next to it,
\* which needs no page-table page of its own.  fork() goes on to uvmcopy(),
\* exec() to the segments.
Topped(p) ==
  LET owner == IF call[p] = "fork" THEN child[p] ELSE p
      t == AddLeaf(AddLeaf(new[p], TRAMPOLINE, None), TRAPFRAME, trapframe[owner])
  IN  /\ Runs(p, "top") /\ Missing(new[p], TRAMPOLINE) = << >>
      /\ panicked' = (Missing(new[p], TRAPFRAME) # << >>)
      /\ Set(new, p, t)
      /\ IF call[p] = "fork" THEN StartLoop(p, 0, sz[p])
                             ELSE Goto(p, "segment") /\ UNCHANGED <<base, at, to>>
      /\ UNCHANGED <<npages, freelist, state, image, call, newsz, child, segs, argv, mem>>

\* uvmcopy() has copied all pages: the child can run
Forked(p) ==
  LET np == child[p]
  IN  /\ LoopDone(p) /\ call[p] = "fork"
      /\ Set(state, np, "LIVE")
      /\ Set(sz, np, sz[p])
      /\ Set(table, np, new[p])
      /\ Set(new, p, NoTable) /\ Set(child, p, None)
      /\ Goto(p, "idle")
      /\ UNCHANGED <<npages, freelist, trapframe, call, newsz, segs, argv, loop, panicked>>

Exit(p) ==
  /\ Runs(p, "idle") /\ p # initproc
  /\ Set(state, p, "ZOMBIE")
  /\ UNCHANGED <<npages, freelist, image, pc, call, building, loop, panicked>>

\* freeproc(), by wait()
Reap(p) ==
  /\ state[p] = "ZOMBIE" /\ ~panicked
  /\ Kfree(<<trapframe[p]>> \o Freed(table[p], sz[p]))
  /\ panicked' = FreePanics(table[p], sz[p])
  /\ Set(trapframe, p, None) /\ Set(table, p, NoTable) /\ Set(sz, p, 0)
  /\ Set(state, p, "UNUSED")
  /\ UNCHANGED <<npages, pc, call, building, loop>>
-----------------------------------------------------------------------------
(* sbrk() and exec() *)

\* uvmdealloc(): the pages it unmaps; in unsigned arithmetic a size below 0 is
\* a large one, to which it does not shrink
uvmdealloc(old, size) == IF size < 0 THEN {} ELSE Pages(old) \ Pages(size)

\* growproc(n)
Shrink(p, n) ==
  LET gone == uvmdealloc(sz[p], sz[p] + n)
  IN  /\ Runs(p, "idle") /\ n < 0
      /\ Kfree(Unmaps(table[p], gone))
      /\ panicked' = UnmapPanics(table[p], gone)
      /\ Set(table, p, Unmapped(table[p], gone))
      /\ Set(sz, p, IF sz[p] + n < 0 THEN sz[p] ELSE sz[p] + n)
      /\ UNCHANGED <<npages, state, trapframe, pc, call, building, loop>>

Grow(p, n) ==
  /\ Runs(p, "idle") /\ n > 0 /\ sz[p] + n <= MaxSize
  /\ Set(call, p, "sbrk")
  /\ StartLoop(p, sz[p], sz[p] + n)
  /\ UNCHANGED <<npages, freelist, state, image, building, mem, panicked>>

Grown(p) ==
  /\ LoopDone(p) /\ call[p] = "sbrk"
  /\ Set(sz, p, to[p])
  /\ Goto(p, "idle")
  /\ UNCHANGED <<npages, freelist, state, table, trapframe, call, building, loop, panicked>>

\* sys_exec(): of the file that namei() will find
Exec(p, program) ==
  /\ Runs(p, "idle")
  /\ Set(call, p, "exec")
  /\ Set(segs, p, program)
  /\ Goto(p, "argv")
  /\ UNCHANGED <<npages, freelist, state, image, new, newsz, child, argv, loop, panicked>>

\* sys_exec(): a page for an argument, or none
FetchArg(p) ==
  /\ Runs(p, "argv") /\ Len(argv[p]) < MaxArgs
  /\ \/ /\ Kalloc
        /\ Set(argv, p, Append(argv[p], Page))
        /\ UNCHANGED <<npages, state, image, pc, call, new, newsz, child, segs, loop, panicked>>
     \/ /\ NoMemory
        /\ FailExec(p, NoTable, << >>)
        /\ UNCHANGED <<mem, panicked>>

\* sys_exec(): too many arguments or one that cannot be read; exec(): no such
\* file, or no ELF file, before there is a page table
FetchFails(p) ==
  /\ Runs(p, "argv")
  /\ FailExec(p, NoTable, << >>)
  /\ UNCHANGED <<mem, panicked>>

\* sys_exec() has all arguments, and exec() has found an ELF file
Fetched(p) ==
  /\ Runs(p, "argv")
  /\ Goto(p, "root")
  /\ UNCHANGED <<npages, freelist, state, image, call, building, loop, panicked>>

\* exec(): the next segment; uvmalloc() does nothing if it lies below newsz
Segment(p) ==
  /\ Runs(p, "segment") /\ segs[p] # << >>
  /\ LET end == Head(segs[p]).vaddr + Head(segs[p]).memsz
     IN  StartLoop(p, newsz[p], IF end < newsz[p] THEN newsz[p] ELSE end)
  /\ UNCHANGED <<npages, freelist, state, image, call, building, mem, panicked>>

\* exec(): a segment is allocated; loadseg() panics if a page of it is not
\* mapped
Loaded(p) ==
  LET s == Head(segs[p])
      pages == (s.vaddr \div PGSIZE)..((s.vaddr + s.memsz - 1) \div PGSIZE)
  IN  /\ LoopDone(p) /\ call[p] = "exec" /\ segs[p] # << >>
      /\ s.vaddr % PGSIZE = 0 /\ to[p] > 0
      /\ panicked' = ~(pages \subseteq DOMAIN new[p].leaf)
      /\ Set(newsz, p, to[p])
      /\ Set(segs, p, Tail(segs[p]))
      /\ Goto(p, "segment")
      /\ UNCHANGED <<npages, freelist, state, image, call, new, child, argv, loop>>

\* exec(): a segment that is not aligned is refused after the allocation, and
\* one that ends at 0, since uvmalloc() then returns 0
Refused(p) ==
  /\ LoopDone(p) /\ call[p] = "exec" /\ segs[p] # << >>
  /\ Head(segs[p]).vaddr % PGSIZE # 0 \/ to[p] = 0
  /\ Set(newsz, p, to[p])
  /\ Goto(p, "bad")
  /\ UNCHANGED <<npages, freelist, state, image, call, new, child, segs, argv, loop, panicked>>

\* exec(): two pages for the stack, above all segments
Stack(p) ==
  /\ Runs(p, "segment") /\ segs[p] = << >>
  /\ Set(newsz, p, PGROUNDUP(newsz[p]))
  /\ StartLoop(p, newsz[p], PGROUNDUP(newsz[p]) + 2 * PGSIZE)
  /\ UNCHANGED <<npages, freelist, state, image, call, new, child, segs, argv, mem, panicked>>

\* exec(): the stack is there; the guard page and copyout() of the arguments
Stacked(p) ==
  /\ LoopDone(p) /\ call[p] = "exec" /\ segs[p] = << >>
  /\ Set(newsz, p, to[p])
  /\ Goto(p, "commit")
  /\ UNCHANGED <<npages, freelist, state, image, call, new, child, segs, argv, loop, panicked>>

\* exec(): bad, for a header or a segment that cannot be read, or arguments
\* that do not fit
Bad(p) ==
  /\ Runs(p, "segment") \/ Runs(p, "commit") \/ Runs(p, "bad")
  /\ panicked' = FreePanics(new[p], newsz[p])
  /\ FailExec(p, new[p], << >>)
  /\ UNCHANGED mem

CommitOldSize(p) ==
  /\ Runs(p, "commit")
  /\ panicked' = FreePanics(table[p], sz[p])
  /\ Kfree(Freed(table[p], sz[p]) \o argv[p])
  /\ Set(table, p, new[p])
  /\ Set(new, p, NoTable) /\ Set(newsz, p, 0)
  /\ Set(argv, p, << >>)
  /\ Goto(p, "idle")
  /\ UNCHANGED <<npages, state, sz, trapframe, call, child, segs, loop>>

\* exec(): commit, proc_freepagetable() of the old image, and sys_exec()
\* frees argv
Commit(p) ==
  /\ Runs(p, "commit")
  /\ panicked' = FreePanics(table[p], sz[p])
  /\ Kfree(Freed(table[p], sz[p]) \o argv[p])
  /\ Set(table, p, new[p]) /\ Set(sz, p, newsz[p])
  /\ Set(new, p, NoTable) /\ Set(newsz, p, 0)
  /\ Set(argv, p, << >>)
  /\ Goto(p, "idle")
  /\ UNCHANGED <<npages, state, trapframe, call, child, segs, loop>>

Next ==
  \E p \in Proc :
     \/ LoopPage(p) \/ LoopNoPage(p) \/ MapNode(p) \/ MapNoNode(p) \/ MapLeaf(p)
     \/ \E np \in Proc : Fork(p, np)
     \/ AllocTrapframe(p) \/ AllocRoot(p) \/ AllocTop(p) \/ Topped(p) \/ Forked(p)
     \/ Exit(p) \/ Reap(p)
     \/ \E n \in Delta : Shrink(p, n) \/ Grow(p, n)
     \/ Grown(p)
     \/ \E program \in Program : Exec(p, program)
     \/ FetchArg(p) \/ FetchFails(p) \/ Fetched(p) \/ Segment(p) \/ Loaded(p) \/ Refused(p)
     \/ Stack(p) \/ Stacked(p) \/ Bad(p) \/ Commit(p)

Spec == Init /\ [][Next]_vars
-----------------------------------------------------------------------------
Frame == 1..npages

Node == {Root} \cup UNION {ToSet(Path(v)) : v \in 0..TRAMPOLINE}

IsTable(t) ==
  /\ DOMAIN t = {"node", "leaf"}
  /\ DOMAIN t.node \subseteq Node /\ Range(t.node) \subseteq Frame
  /\ DOMAIN t.leaf \subseteq 0..TRAMPOLINE /\ Range(t.leaf) \subseteq Frame \cup {None}

TypeOK ==
  /\ npages \in MemSize
  /\ freelist \in Seq(Frame)
  /\ state \in [Proc -> {"UNUSED", "USED", "LIVE", "ZOMBIE"}]
  /\ sz \in [Proc -> Nat] /\ newsz \in [Proc -> Nat]
  /\ \A p \in Proc : IsTable(table[p]) /\ IsTable(new[p])
  /\ trapframe \in [Proc -> Frame \cup {None}]
  /\ pc \in [Proc -> {"idle", "trapframe", "root", "top", "page", "map", "argv", "segment",
                      "bad", "commit"}]
  /\ call \in [Proc -> {"fork", "exec", "sbrk", None}]
  /\ child \in [Proc -> Proc \cup {None}]
  /\ \A p \in Proc : segs[p] \in Seq([vaddr : Nat, memsz : Nat]) /\ argv[p] \in Seq(Frame)
  /\ base \in [Proc -> Nat] /\ at \in [Proc -> Nat] /\ to \in [Proc -> Nat]
  /\ mem \in [Proc -> Frame \cup {None}]
  /\ panicked \in BOOLEAN

\* The pages that p holds; a trapframe counts where p->trapframe has it.
Holds(p) ==
  LET some(x) == IF x = None THEN << >> ELSE <<x>>
  IN  some(trapframe[p]) \o some(mem[p]) \o argv[p]
      \o Nodes(table[p]) \o Unmaps(table[p], UserPage)
      \o Nodes(new[p]) \o Unmaps(new[p], UserPage)

\* All pages that are free or held, one entry for each place that has one.
Owned == FoldSet(LAMBDA p, s : s \o Holds(p), freelist, Proc)

\* Every page of memory is free or has exactly one owner: a page-table page,
\* a page of one process, a trapframe, an argument of exec().  No call that
\* fails half-way leaks a page or frees one twice, or meets one of the panics of
\* uvmunmap(), freewalk(), uvmcopy(), mappages() and loadseg().  Every variable
\* has its type.
FramesExact == TypeOK /\ ~panicked /\ Len(Owned) = npages /\ ToSet(Owned) = Frame

\* A process, whenever it is not growing, and until it is reaped, has exactly
\* the pages below p->sz mapped, with the trampoline and its own trapframe
\* above: also after a failed sbrk(), fork() or exec().
ImageExact ==
  \A p \in Proc :
     state[p] \in {"LIVE", "ZOMBIE"} /\ ~(pc[p] \in {"page", "map"} /\ call[p] = "sbrk") =>
     /\ DOMAIN table[p].leaf = Pages(sz[p]) \cup {TRAMPOLINE, TRAPFRAME}
     /\ table[p].leaf[TRAPFRAME] = trapframe[p]
=============================================================================
