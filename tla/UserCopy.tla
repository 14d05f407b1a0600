------------------------------ MODULE UserCopy -------------------------------
(***************************************************************************)
(* The kernel's access to user memory: walkaddr(), copyin(), copyout() and *)
(* copyinstr() of kernel/vm.c, on a page table and a physical memory given *)
(* as values.  A page table maps a page number to [v, u, pa]: valid, for   *)
(* the user, and its frame; memory maps a frame to its PGSIZE bytes.       *)
(***************************************************************************)
EXTENDS Integers, Sequences, FiniteSets, FiniteSetsExt

CONSTANTS PGSIZE,
          NPAGE,      \* MAXVA, counted in pages
          ADDR,       \* addresses are modulo ADDR, which is beyond MAXVA
          MaxLen      \* bound: how much is copied

MaxVA == NPAGE * PGSIZE

walkaddrAnyPage(pt, va) ==
  IF va >= MaxVA \/ ~pt[va \div PGSIZE].v THEN 0 ELSE pt[va \div PGSIZE].pa

\* walkaddr(): the frame of a user page, or 0
walkaddr(pt, va) ==
  IF va >= MaxVA \/ ~pt[va \div PGSIZE].v \/ ~pt[va \div PGSIZE].u THEN 0
  ELSE pt[va \div PGSIZE].pa

\* What a round of the loops has: n bytes from offset off of frame pa0 (0: none),
\* and the address of the next round
Round(pt, va, len) ==
  LET off == va % PGSIZE
  IN [pa0 |-> walkaddr(pt, va - off), off |-> off, n |-> Min({PGSIZE - off, len}),
      next |-> (va - off + PGSIZE) % ADDR]

RECURSIVE copyin(_, _, _, _)
\* The bytes that were copied when it returned, and whether it returned 0
copyin(mem, pt, va, len) ==
  LET c == Round(pt, va, len) IN
  IF len = 0 THEN [ok |-> TRUE, bytes |-> <<>>]
  ELSE IF c.pa0 = 0 THEN [ok |-> FALSE, bytes |-> <<>>]
  ELSE LET rest == copyin(mem, pt, c.next, len - c.n)
       IN [ok |-> rest.ok, bytes |-> [k \in 1..c.n |-> mem[c.pa0][c.off + k]] \o rest.bytes]

RECURSIVE copyout(_, _, _, _)
\* The memory that is left, and whether it returned 0
copyout(mem, pt, va, src) ==
  LET c == Round(pt, va, Len(src))
      changed == [k \in 1..PGSIZE |->
                    IF k \in (c.off + 1)..(c.off + c.n) THEN src[k - c.off] ELSE mem[c.pa0][k]]
  IN IF src = <<>> THEN [ok |-> TRUE, mem |-> mem]
     ELSE IF c.pa0 = 0 THEN [ok |-> FALSE, mem |-> mem]
     ELSE copyout([mem EXCEPT ![c.pa0] = changed], pt, c.next, SubSeq(src, c.n + 1, Len(src)))

RECURSIVE copyinstr(_, _, _, _)
\* The string without its null, and whether it returned 0
copyinstr(mem, pt, va, max) ==
  LET c == Round(pt, va, max)
      nulls == {k \in 1..c.n : mem[c.pa0][c.off + k] = 0}
      upto(k) == [j \in 1..k |-> mem[c.pa0][c.off + j]]
  IN IF max = 0 \/ c.pa0 = 0 THEN [ok |-> FALSE, bytes |-> <<>>]
     ELSE IF nulls # {} THEN [ok |-> TRUE, bytes |-> upto(Min(nulls) - 1)]
     ELSE LET rest == copyinstr(mem, pt, c.next, max - c.n)
          IN [ok |-> rest.ok, bytes |-> upto(c.n) \o rest.bytes]
-----------------------------------------------------------------------------
\* Frame k + 1 is of page k, or of page k + 1 when swapped, so that neighbours in
\* virtual memory need not be neighbours in physical memory.
Tables ==
  {[k \in 0..(NPAGE - 1) |-> [v |-> f[k][1], u |-> f[k][2], pa |-> ((k + s) % NPAGE) + 1]] :
     f \in [0..(NPAGE - 1) -> {<<TRUE, TRUE>>, <<TRUE, FALSE>>, <<FALSE, TRUE>>}],
     s \in 0..(NPAGE - 1)}

Memories == [1..NPAGE -> [1..PGSIZE -> {0, 1}]]

User(pt, a) == a < MaxVA /\ pt[a \div PGSIZE].v /\ pt[a \div PGSIZE].u
ByteAt(mem, pt, a) == mem[pt[a \div PGSIZE].pa][(a % PGSIZE) + 1]

Transfers ==
  \A pt \in Tables, va \in 0..(ADDR - 1), len \in 0..MaxLen :
    LET all == \A a \in va..(va + len - 1) : User(pt, a)
        marks == [k \in 1..len |-> 1 + k]
        blank == [f \in 1..NPAGE |-> [k \in 1..PGSIZE |-> 0]]
        reached == {a \in va..(va + len - 1) : \A b \in va..a : User(pt, b)}
        out == copyout(blank, pt, va, marks)
        back == copyin(out.mem, pt, va, len)
    IN /\ out.ok = all
       /\ \A a \in reached : ByteAt(out.mem, pt, a) = a - va + 2
       /\ \A f \in 1..NPAGE, k \in 1..PGSIZE :
            out.mem[f][k] # 0 => \E a \in reached : pt[a \div PGSIZE].pa = f /\ (a % PGSIZE) + 1 = k
       /\ back.ok = all /\ back.bytes = SubSeq(marks, 1, Cardinality(reached))

Strings ==
  \A pt \in {t \in Tables : t[0].pa = 1}, mem \in Memories, va \in 0..(ADDR - 1), max \in 0..MaxLen :
    LET nulls == {a \in va..(va + max - 1) : User(pt, a) /\ ByteAt(mem, pt, a) = 0}
        str == copyinstr(mem, pt, va, max)
        fine == nulls # {} /\ \A a \in va..Min(nulls) : User(pt, a)
    IN /\ str.ok = fine
       /\ fine => str.bytes = [k \in 1..(Min(nulls) - va) |-> ByteAt(mem, pt, va + k - 1)]

\* copyin(), copyout() and copyinstr() at every address and for every length, at
\* page boundaries, across pages that are not mapped or not the user's, and where
\* addresses end: they succeed exactly when every byte they need is the user's,
\* for a string up to a null within max bytes; they transfer those bytes in order,
\* and copyout() changes no other byte of memory, also when it fails after some
\* pages.
CopyExact == Transfers /\ Strings
=============================================================================
