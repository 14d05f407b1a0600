------------------------------ MODULE MCMemory -------------------------------
(***************************************************************************)
(* Memory for TLC.  The view forgets which page is which: the allocator    *)
(* and its callers treat all pages alike, so that states differ only in    *)
(* the shape of the tables as long as no page has two owners.              *)
(*                                                                         *)
(* There are three parts that share no state: the pages of the kernel, the *)
(* heap of a user program, and, taking no step, the evaluation of the copy *)
(* functions on all small page tables.  MCSched has them as parts.         *)
(***************************************************************************)
EXTENDS Memory

CONSTANTS CopyPages, ADDR, MaxLen, Morecore, Limit, HSIZE, Bytes

VARIABLES part, hdr, freep, brk, owned, gaps

U == INSTANCE UserCopy WITH NPAGE <- CopyPages
H == INSTANCE Umalloc

heapVars == <<hdr, freep, brk, owned, gaps>>

Shape(t) == <<DOMAIN t.node, DOMAIN t.leaf>>

OwnFrame(p) == TRAPFRAME \in DOMAIN table[p].leaf /\ table[p].leaf[TRAPFRAME] = trapframe[p]

Busy == {p \in Proc : pc[p] # "idle"}
Looping == {p \in Proc : pc[p] \in {"page", "map"}}

Relevant ==
  <<part, heapVars, npages, Len(freelist), state, sz, newsz, pc, child, segs, panicked, ToSet(Owned) = Frame,
    [p \in Proc |-> <<Shape(table[p]), Shape(new[p]), trapframe[p] = None, mem[p] = None,
                      Len(argv[p]), OwnFrame(p)>>],
    [p \in Busy |-> call[p]],
    [p \in Looping |-> <<base[p], at[p], to[p]>>]>>

MemoryInit == Init /\ H!HeapInit /\ (part # "pages" => npages = Min(MemSize))

MemoryNext ==
  \/ part = "pages" /\ Next /\ UNCHANGED <<part, heapVars>>
  \/ part = "heap" /\ H!HeapNext /\ UNCHANGED <<part, vars>>
  \/ part = "copy" /\ UNCHANGED <<part, vars, heapVars>>

\* See UserCopy: copyin(), copyout() and copyinstr() transfer what is the user's.
CopyExact == part = "copy" => U!CopyExact

\* See Umalloc: malloc() and free() keep every unit of the heap in one block.
HeapExact == part = "heap" => H!HeapExact
=============================================================================
