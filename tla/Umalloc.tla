------------------------------- MODULE Umalloc -------------------------------
(***************************************************************************)
(* The allocator of user programs, user/umalloc.c: a circular list of free *)
(* blocks in the order of their addresses.  Addresses are counted in units *)
(* of sizeof(Header), base is at 0 and the heap begins at 1.  hdr has the  *)
(* headers of the blocks there are; what is inside a block belongs to the  *)
(* program and is never read as a header.                                  *)
(***************************************************************************)
EXTENDS Integers, Sequences, FiniteSets, TLC, Functions

CONSTANTS Morecore,     \* the least number of units morecore() asks for
          Limit,        \* bound: where sbrk() starts to fail
          HSIZE,        \* sizeof(Header)
          Bytes         \* bound: what malloc() is asked for

Base == 0
Null == -1

VARIABLES hdr, freep, brk,
          owned,        \* the blocks of the program, with the bytes it asked for
          gaps          \* the units the program got from sbrk() itself

heapVars == <<hdr, freep, brk, owned, gaps>>

Nothing == [x \in {} |-> x]

HeapInit ==
  /\ hdr = (Base :> [ptr |-> Null, size |-> 0]) /\ freep = Null /\ brk = 1
  /\ owned = Nothing /\ gaps = {}

RECURSIVE FreePlace(_, _, _)
\* The loop of free(): the block after which bp goes
FreePlace(h, p, bp) ==
  LET next == h[p].ptr IN
  IF \/ bp > p /\ bp < next
     \/ p >= next /\ (bp > p \/ bp < next)
  THEN p ELSE FreePlace(h, next, bp)

FreeJoinsLowerOnly(h, start, bp) ==
  LET p == FreePlace(h, start, bp)
      up == [h EXCEPT ![bp].ptr = h[p].ptr]
  IN IF p + up[p].size = bp
     THEN [hdr |-> Restrict([up EXCEPT ![p] = [ptr |-> up[bp].ptr, size |-> @.size + up[bp].size]],
                            DOMAIN up \ {bp}), freep |-> p]
     ELSE [hdr |-> [up EXCEPT ![p].ptr = bp], freep |-> p]

\* free(): join the block with the free one above it and with the one below it.
Free(h, start, bp) ==
  LET p == FreePlace(h, start, bp)
      above == h[p].ptr
      up == IF bp + h[bp].size = above
            THEN Restrict([h EXCEPT ![bp] = [ptr |-> h[above].ptr, size |-> @.size + h[above].size]],
                          DOMAIN h \ {above})
            ELSE [h EXCEPT ![bp].ptr = above]
  IN IF p + up[p].size = bp
     THEN [hdr |-> Restrict([up EXCEPT ![p] = [ptr |-> up[bp].ptr, size |-> @.size + up[bp].size]],
                            DOMAIN up \ {bp}), freep |-> p]
     ELSE [hdr |-> [up EXCEPT ![p].ptr = bp], freep |-> p]

RECURSIVE FirstFit(_, _, _, _)
\* The loop of malloc(), from the block after prevp: the block before the first
\* that is large enough, or Null when it is back at freep
FirstFit(h, start, prevp, nunits) ==
  LET p == h[prevp].ptr IN
  IF h[p].size >= nunits THEN prevp
  ELSE IF p = start THEN Null ELSE FirstFit(h, start, p, nunits)

\* Take nunits of the block after prevp, from its end.
Carve(h, prevp, nunits) ==
  LET p == h[prevp].ptr
      b == p + h[p].size - nunits
  IN [hdr |-> IF b = p THEN [h EXCEPT ![prevp].ptr = h[p].ptr, ![p].ptr = Null]
              ELSE (b :> [ptr |-> Null, size |-> nunits]) @@ [h EXCEPT ![p].size = @ - nunits],
      freep |-> prevp, block |-> b]

First == IF freep = Null THEN [hdr |-> (Base :> [ptr |-> Base, size |-> 0]) @@ hdr, freep |-> Base]
         ELSE [hdr |-> hdr, freep |-> freep]

Max2(m, n) == IF m < n THEN n ELSE m

\* morecore(): the new units at brk are freed like a block.
More(s, nunits) ==
  LET nu == Max2(nunits, Morecore)
  IN Free((brk :> [ptr |-> Null, size |-> nu]) @@ s.hdr, s.freep, brk)

\* malloc() after it has found its block, or got more from sbrk(), or returned 0
Malloc(nbytes) ==
  LET s == First
      nunits == (nbytes + HSIZE - 1) \div HSIZE + 1
      nu == Max2(nunits, Morecore)
      prevp == FirstFit(s.hdr, s.freep, s.freep, nunits)
      Return(t) == /\ hdr' = t.hdr /\ freep' = t.freep
                   /\ owned' = (t.block :> nbytes) @@ owned /\ UNCHANGED gaps
  IN \/ prevp # Null /\ Return(Carve(s.hdr, prevp, nunits)) /\ UNCHANGED brk
     \/ /\ prevp = Null /\ brk + nu <= Limit
        /\ brk' = brk + nu
        /\ LET t == More(s, nunits)
           IN Return(Carve(t.hdr, FirstFit(t.hdr, t.freep, t.freep, nunits), nunits))
     \/ /\ prevp = Null /\ brk + nu > Limit
        /\ hdr' = s.hdr /\ freep' = s.freep /\ UNCHANGED <<brk, owned, gaps>>

FreeBlock(b) ==
  LET t == Free(hdr, freep, b)
  IN hdr' = t.hdr /\ freep' = t.freep /\ owned' = Restrict(owned, DOMAIN owned \ {b}) /\ UNCHANGED <<brk, gaps>>

\* The program calls sbrk() itself, once in a while.
Sbrk ==
  /\ gaps = {} /\ brk < Limit
  /\ gaps' = {brk} /\ brk' = brk + 1
  /\ UNCHANGED <<hdr, freep, owned>>

HeapNext ==
  \/ \E nbytes \in Bytes : Malloc(nbytes)
  \/ \E b \in DOMAIN owned : FreeBlock(b)
  \/ Sbrk
-----------------------------------------------------------------------------
UnitsOf(b) == b..(b + hdr[b].size - 1)

RECURSIVE Ring(_, _)
\* The blocks of the free list after p, back to base
Ring(h, p) == IF h[p].ptr = Base THEN <<>> ELSE <<h[p].ptr>> \o Ring(h, h[p].ptr)

\* The heap after any sequence of malloc(), free() and sbrk(), some of which
\* fail: every unit of it is in exactly one block, free or handed out, no header
\* is lost or left over, the free blocks are all on the list once and in the
\* order of their addresses, and no two of them are next to each other; a block
\* that was handed out has room for the bytes asked for.
HeapExact ==
  freep # Null =>
    LET free == Ring(hdr, Base)
        blocks == DOMAIN hdr \ {Base}
    IN /\ freep \in {Base} \cup Range(free)
       /\ \A k \in 1..(Len(free) - 1) : free[k] + hdr[free[k]].size < free[k + 1]
       /\ Range(free) \cup DOMAIN owned = blocks /\ Range(free) \cap DOMAIN owned = {}
       /\ \A a \in (1..(brk - 1)) \ gaps : Cardinality({b \in blocks : a \in UnitsOf(b)}) = 1
       /\ \A b \in DOMAIN owned : (hdr[b].size - 1) * HSIZE >= owned[b]
       /\ \A b \in blocks : UnitsOf(b) \subseteq (1..(brk - 1)) \ gaps
=============================================================================
