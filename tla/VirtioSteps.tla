----------------------------- MODULE VirtioSteps ----------------------------
(***************************************************************************)
(* The invariant behind the proofs about VirtioDisk, and the actions that  *)
(* keep it without changing the chain of a request, for any number of      *)
(* buffers, any size of the table and any multiple of it at which the      *)
(* indices wrap.                                                           *)
(*                                                                         *)
(* The inductive invariant says whose every descriptor is and what is in   *)
(* it (RequestInv, OwnInv), how the place of a caller goes with the lock,  *)
(* with b->disk and with the status byte (CallerInv), and what the two     *)
(* rings hold between their reader and their writer: the chains the device *)
(* has not taken yet (AvailInv) and the ones it has finished and the       *)
(* handler has not seen (UsedInv), each once.  The rings are what makes it *)
(* necessary: that an index which wraps never overtakes the other end      *)
(* follows from every entry being the chain of another request.            *)
(***************************************************************************)
EXTENDS VirtioDisk, TLAPS

\* How far an index that wraps is behind another, and where in the ring the
\* entry k places on from it is.
Dist(from, to) == IF from <= to THEN to - from ELSE to - from + WRAP
Place(from, k) == (from + k) % NUM

\* The n entries of ring r from index from on are the members of H, each once.
Holds(r, from, n, H) ==
  /\ H = {r[Place(from, k)] : k \in 0..(n - 1)}
  /\ \A j, k \in 0..(n - 1) : r[Place(from, j)] = r[Place(from, k)] => j = k

\* The three descriptors of the request of b: head[b] and these two.
Data(b) == desc[head[b]].next
Status(b) == desc[Data(b)].next
Own(b) == {head[b], Data(b), Status(b)}

\* The chain of a request is what alloc3_desc() found and virtio_disk_rw() wrote.
RequestInv ==
  \A b \in InFlight :
     /\ Own(b) \subseteq Desc \ free
     /\ head[b] # Data(b) /\ head[b] # Status(b) /\ Data(b) # Status(b)
     /\ desc[Data(b)].addr = b /\ desc[Data(b)].writable = ~write[b]
     /\ desc[Status(b)].addr = head[b] /\ desc[Status(b)].next = None
     /\ ops[head[b]] = [write |-> write[b], sector |-> b]
     /\ info[head[b]].b = b /\ info[head[b]].status \in {0, 255}

\* Every descriptor is free or of one request.
OwnInv ==
  /\ \A b, c \in InFlight : b # c => Own(b) \cap Own(c) = {}
  /\ \A d \in Desc \ free : \E b \in InFlight : d \in Own(b)

\* Where a caller is, who has the lock, and what is known of the request then.
CallerAt(b) ==
  /\ head[b] # None <=> pc[b] \in {"publish", "asleep", "woken"}
  /\ lock = b <=> pc[b] = "publish"
  /\ pc[b] = "nodesc" => Cardinality(free) < 3
  /\ busy[b] => head[b] # None
  /\ head[b] # None /\ ~busy[b] => pc[b] = "woken" /\ info[head[b]].status = 0
  /\ pc[b] = "publish" => /\ info[head[b]].status = 255 /\ head[b] \notin taken
                          /\ ring[idx % NUM] = head[b]

\* The chains that the device works on are of requests that are not finished.
TakenInv == \A h \in taken : info[h].status = 255 /\ \E b \in InFlight : head[b] = h

CallerInv ==
  /\ ~panicked
  /\ \A b \in Buf : CallerAt(b)
  /\ TakenInv
  /\ used_idx # usedIdx => irq \/ lock = "intr"

Heads == {head[b] : b \in InFlight}

\* The chains that the avail ring offers, the one about to be published
\* included, are those the device has not taken.
Waiting == {h \in Heads : info[h].status = 255 /\ h \notin taken}
Offered == Dist(lastAvail, idx) + (IF lock \in Buf THEN 1 ELSE 0)
AvailInv == Holds(ring, lastAvail, Offered, Waiting)

\* The chains that the used ring holds are those that are finished and whose
\* caller virtio_disk_intr() has not told.
Answered == {h \in Heads : info[h].status = 0 /\ busy[info[h].b]}
UsedInv == Holds(usedRing, used_idx, Dist(used_idx, usedIdx), Answered)

IInv ==
  TypeOK /\ RequestInv /\ OwnInv /\ CallerInv /\ AvailInv /\ UsedInv
-----------------------------------------------------------------------------
(* Arithmetic: indices that wrap, and their places in a ring *)

\* Division with remainder.
LEMMA Division ==
  ASSUME NEW m \in Nat \ {0}, NEW x \in Int
  PROVE  \E q \in Int : \E r \in 0..(m - 1) : x = m * q + r /\ x % m = r
  <1>1. /\ x = m * (x \div m) + (x % m)
        /\ x \div m \in Int /\ x % m \in 0..(m - 1)
    OBVIOUS
  <1> QED
    BY <1>1, Zenon

\* The remainder is the only one.
LEMMA Remainder ==
  ASSUME NEW m \in Nat \ {0}, NEW x \in Int, NEW q \in Int, NEW r \in 0..(m - 1),
         x = m * q + r
  PROVE  x % m = r
  OBVIOUS

\* A multiple of the modulus does not change the remainder.
LEMMA ModShift ==
  ASSUME NEW m \in Nat \ {0}, NEW x \in Int, NEW y \in Int, NEW s \in Int, y = x + s * m
  PROVE  y % m = x % m
  <1>1. PICK q \in Int : \E r \in 0..(m - 1) : x = m * q + r /\ x % m = r
    BY Division, Zenon
  <1>2. PICK r \in 0..(m - 1) : x = m * q + r /\ x % m = r
    BY Zenon, <1>1
  <1>3. PICK t \in Int : t = q + s
    OBVIOUS
  <1>4. y = m * t + r
    BY <1>2, <1>3
  <1> QED
    BY Zenon, <1>2, <1>4, Remainder

\* Numbers less than the modulus apart have different remainders.
LEMMA ModDistinct ==
  ASSUME NEW m \in Nat \ {0}, NEW x \in Int, NEW y \in Int, x < y, y < x + m
  PROVE  x % m # y % m
  <1>1. PICK q \in Int : \E r \in 0..(m - 1) : x = m * q + r /\ x % m = r
    BY Division, Zenon
  <1>2. PICK r \in 0..(m - 1) : x = m * q + r /\ x % m = r
    BY Zenon, <1>1
  <1>3. PICK d \in 1..(m - 1) : y = x + d
    <2>1. y - x \in 1..(m - 1) /\ y = x + (y - x)
      OBVIOUS
    <2> QED
      BY Zenon, <2>1
  <1>4. CASE r + d < m
    <2>1. PICK u \in 0..(m - 1) : u = r + d
      BY <1>4
    <2>2. y = m * q + u
      BY <1>2, <1>3, <2>1
    <2> QED
      BY <1>2, <2>1, <2>2, Remainder
  <1>5. CASE r + d >= m
    <2>1. PICK u \in 0..(m - 1) : u = r + d - m
      BY <1>5
    <2>2. PICK t \in Int : t = q + 1
      OBVIOUS
    <2>3. y = m * t + u
      BY <1>2, <1>3, <2>1, <2>2
    <2> QED
      BY <1>2, <2>1, <2>3, Remainder
  <1> QED
    BY <1>4, <1>5

\* The table has three descriptors at least, and its size divides the wrap.
LEMMA Sizes ==
  /\ NUM \in Nat /\ NUM >= 3 /\ WRAP \in Nat /\ NUM <= WRAP
  /\ \E m \in Int : WRAP = m * NUM
  <1>1. PICK m \in 1..WRAP : WRAP = m * NUM
    BY Zenon, VirtioAssumption
  <1>2. m * NUM >= NUM
    BY VirtioAssumption
  <1> QED
    BY <1>1, <1>2, VirtioAssumption

\* One more, on an index that wraps.
LEMMA PlusFacts ==
  ASSUME NEW x \in Index
  PROVE  Plus(x) = (IF x + 1 = WRAP THEN 0 ELSE x + 1) /\ Plus(x) \in Index
  BY Sizes DEF Plus, Index

\* A distance is less than the wrap, is zero only to itself, and grows with the
\* index at its end and shrinks with the one at its start.
LEMMA DistFacts ==
  ASSUME NEW x \in Index, NEW y \in Index
  PROVE  /\ Dist(x, y) \in 0..(WRAP - 1)
         /\ Dist(x, y) = 0 <=> x = y
         /\ Dist(x, y) + 1 < WRAP => Dist(x, Plus(y)) = Dist(x, y) + 1
         /\ x # y => Dist(Plus(x), y) = Dist(x, y) - 1
  BY PlusFacts, Sizes DEF Index, Dist

\* The places of a ring.
LEMMA PlaceFacts ==
  ASSUME NEW x \in Index, NEW k \in Nat
  PROVE  /\ Place(x, k) \in Desc
         /\ Place(x, 0) = x % NUM
         /\ Place(Plus(x), k) = Place(x, k + 1)
         /\ \A y \in Index : k = Dist(x, y) => Place(x, k) = y % NUM
  <1>1. Place(x, k) \in Desc /\ Place(x, 0) = x % NUM
    BY Sizes DEF Place, Desc, Index
  <1>2. PICK m \in Int : WRAP = m * NUM
    BY Zenon, Sizes
  <1>3. NUM \in Nat \ {0} /\ x \in Int
    BY Sizes DEF Index
  <1>4. Place(Plus(x), k) = Place(x, k + 1)
    <2>1. CASE x + 1 # WRAP
      BY <2>1, PlusFacts, <1>3 DEF Place
    <2>2. CASE x + 1 = WRAP
      <3>1. PICK z \in Int : z = x + (k + 1) /\ z = k + m * NUM
        BY <1>2, <1>3, <2>2
      <3>2. z % NUM = k % NUM
        BY <1>3, <3>1, ModShift, k \in Int, Zenon
      <3> QED
        BY <2>2, <3>1, <3>2, PlusFacts, <1>3 DEF Place
    <2> QED
      BY Zenon, <2>1, <2>2
  <1>5. ASSUME NEW y \in Index, k = Dist(x, y)
        PROVE  Place(x, k) = y % NUM
    <2>1. CASE x <= y
      BY <1>3, <1>5, <2>1 DEF Place, Dist
    <2>2. CASE ~(x <= y)
      <3>1. y \in Int
        BY Sizes DEF Index
      <3>2. PICK z \in Int : z = x + k /\ z = y + m * NUM
        BY <1>2, <1>3, <1>5, <2>2, <3>1 DEF Dist
      <3>3. z % NUM = y % NUM
        BY <1>3, <3>1, <3>2, ModShift, Zenon
      <3> QED
        BY Zenon, <3>2, <3>3 DEF Place
    <2> QED
      BY Zenon, <2>1, <2>2
  <1> QED
    BY Zenon, <1>1, <1>4, <1>5

\* Entries less than the size of the ring apart are in different places.
LEMMA PlaceDistinct ==
  ASSUME NEW x \in Index, NEW j \in 0..(NUM - 1), NEW k \in 0..(NUM - 1), j # k
  PROVE  Place(x, j) # Place(x, k)
  <1>1. NUM \in Nat \ {0} /\ x + j \in Int /\ x + k \in Int
    BY Sizes DEF Index
  <1>2. CASE j < k
    <2>1. x + j < x + k /\ x + k < (x + j) + NUM
      BY <1>1, <1>2, Sizes DEF Index
    <2> QED
      BY Zenon, <1>1, <2>1, ModDistinct DEF Place
  <1>3. CASE k < j
    <2>1. x + k < x + j /\ x + j < (x + k) + NUM
      BY <1>1, <1>3, Sizes DEF Index
    <2> QED
      BY Zenon, <1>1, <2>1, ModDistinct DEF Place
  <1> QED
    BY <1>2, <1>3
-----------------------------------------------------------------------------
(* What a ring holds *)

\* A new entry behind the last one.
LEMMA HoldsAdd ==
  ASSUME NEW r \in [Desc -> Desc], NEW x \in Index, NEW n \in Nat, n + 1 <= NUM, NEW H,
         Holds(r, x, n, H), NEW h \in Desc, h \notin H, NEW s \in [Desc -> Desc],
         s = [r EXCEPT ![Place(x, n)] = h]
  PROVE  Holds(s, x, n + 1, H \cup {h})
  <1>1. \A k \in 0..n : Place(x, k) \in Desc
    BY PlaceFacts
  <1>2. s[Place(x, n)] = h
    BY <1>1
  <1>3. \A k \in 0..(n - 1) : s[Place(x, k)] = r[Place(x, k)]
    BY <1>1, PlaceDistinct, Sizes
  <1>4. \A k \in 0..(n - 1) : r[Place(x, k)] \in H
    BY Zenon DEF Holds
  <1>5. 0..((n + 1) - 1) = 0..(n - 1) \cup {n}
    OBVIOUS
  <1>6. {s[Place(x, k)] : k \in 0..((n + 1) - 1)} = H \cup {h}
    <2>1. H = {r[Place(x, k)] : k \in 0..(n - 1)}
      BY Zenon DEF Holds
    <2> QED
      BY <1>2, <1>3, <1>5, <2>1
  <1>7. \A j, k \in 0..((n + 1) - 1) : s[Place(x, j)] = s[Place(x, k)] => j = k
    <2>1. \A j, k \in 0..(n - 1) : r[Place(x, j)] = r[Place(x, k)] => j = k
      BY Zenon DEF Holds
    <2> QED
      BY <1>2, <1>3, <1>4, <1>5, <2>1
  <1> QED
    BY Zenon, <1>6, <1>7 DEF Holds

\* The first entry is taken out.
LEMMA HoldsTake ==
  ASSUME NEW r, NEW x \in Index, NEW n \in Nat, n # 0, NEW H, Holds(r, x, n, H)
  PROVE  /\ r[x % NUM] \in H
         /\ Holds(r, Plus(x), n - 1, H \ {r[x % NUM]})
  <1>1. Place(x, 0) = x % NUM /\ 0 \in 0..(n - 1)
    BY PlaceFacts
  <1>2. \A k \in 0..(n - 2) : Place(Plus(x), k) = Place(x, k + 1) /\ k + 1 \in 0..(n - 1)
    BY PlaceFacts
  <1>3. \A k \in 0..(n - 1) : k # 0 => k - 1 \in 0..(n - 2) /\ Place(x, k) = Place(Plus(x), k - 1)
    <2>1. ASSUME NEW k \in 0..(n - 1), k # 0
          PROVE  k - 1 \in 0..(n - 2) /\ (k - 1) + 1 = k
      BY <2>1
    <2> QED
      BY Zenon, <2>1, <1>2
  <1>4. /\ H = {r[Place(x, k)] : k \in 0..(n - 1)}
        /\ \A j, k \in 0..(n - 1) : r[Place(x, j)] = r[Place(x, k)] => j = k
    BY Zenon DEF Holds
  <1>5. H \ {r[x % NUM]} = {r[Place(Plus(x), k)] : k \in 0..(n - 2)}
    <2>1. ASSUME NEW h \in H, h # r[x % NUM]
          PROVE  \E k \in 0..(n - 2) : h = r[Place(Plus(x), k)]
      BY <1>1, <1>3, <1>4, <2>1
    <2>2. ASSUME NEW k \in 0..(n - 2)
          PROVE  r[Place(Plus(x), k)] \in H \ {r[x % NUM]}
      <3>1. k + 1 \in 0..(n - 1) /\ k + 1 # 0
        OBVIOUS
      <3> QED
        BY <1>1, <1>2, <1>4, <3>1
    <2> QED
      BY Zenon, <2>1, <2>2
  <1>6. \A j, k \in 0..(n - 2) : r[Place(Plus(x), j)] = r[Place(Plus(x), k)] => j = k
    <2>1. ASSUME NEW j \in 0..(n - 2), NEW k \in 0..(n - 2),
                 r[Place(Plus(x), j)] = r[Place(Plus(x), k)]
          PROVE  j = k
      <3>1. j + 1 = k + 1
        BY Zenon, <1>2, <1>4, <2>1
      <3> QED
        BY <3>1
    <2> QED
      BY Zenon, <2>1
  <1>7. (n - 1) - 1 = n - 2
    OBVIOUS
  <1> QED
    BY Zenon, <1>1, <1>4, <1>5, <1>6, <1>7 DEF Holds

\* What is used below of finite sets, of their numbers of elements and of the least
\* element of a set of numbers.  Lemma Finite of VirtioProofs proves it.
Sized == \A S : IsFiniteSet(S) => Cardinality(S) \in Nat /\ (Cardinality(S) = 0 <=> S = {})
Smaller == \A S, T : IsFiniteSet(S) /\ T \subseteq S =>
                      IsFiniteSet(T) /\ Cardinality(T) <= Cardinality(S)
OneLess == \A S, x : IsFiniteSet(S) /\ x \in S =>
                      IsFiniteSet(S \ {x}) /\ Cardinality(S \ {x}) = Cardinality(S) - 1
Counted == \A n \in Nat : IsFiniteSet(0..(n - 1)) /\ Cardinality(0..(n - 1)) = n
Listed == \A n \in Nat : \A T : \A f \in [0..(n - 1) -> T] :
            /\ \A j, k \in 0..(n - 1) : f[j] = f[k] => j = k
            /\ \A t \in T : \E k \in 0..(n - 1) : f[k] = t
            => IsFiniteSet(T) /\ Cardinality(T) = n
Ordered == \A S \in SUBSET Nat : S # {} => \E m \in S : \A x \in S : m <= x
Counting == Sized /\ Smaller /\ OneLess /\ Counted /\ Listed /\ Ordered

\* As many entries as members.
LEMMA HoldsSize ==
  ASSUME Counting, NEW r, NEW x, NEW n \in Nat, NEW H, Holds(r, x, n, H)
  PROVE  IsFiniteSet(H) /\ Cardinality(H) = n
  <1> DEFINE f == [k \in 0..(n - 1) |-> r[Place(x, k)]]
  <1>1. /\ f \in [0..(n - 1) -> H]
        /\ \A j, k \in 0..(n - 1) : f[j] = f[k] => j = k
        /\ \A t \in H : \E k \in 0..(n - 1) : f[k] = t
    BY Zenon DEF Holds
  <1> HIDE DEF f
  <1> QED
    BY Zenon, <1>1 DEF Counting, Listed

\* What alloc_desc() finds.
LEMMA LowestFacts ==
  ASSUME Counting, NEW S \in SUBSET Nat, S # {}
  PROVE  AllocDesc(S) \in S /\ \A x \in S : AllocDesc(S) <= x
  BY Zenon DEF Counting, Ordered, AllocDesc

\* The free descriptors can be counted.
LEMMA FreeFinite ==
  ASSUME Counting, free \subseteq Desc
  PROVE  IsFiniteSet(free) /\ free \in SUBSET Nat /\ Cardinality(free) \in Nat
  <1>1. IsFiniteSet(0..(NUM - 1))
    BY Zenon, Sizes DEF Counting, Counted
  <1>2. 0..(NUM - 1) \in SUBSET Nat
    OBVIOUS
  <1>3. IsFiniteSet(free) /\ free \in SUBSET Nat
    BY <1>1, <1>2, Zenon DEF Counting, Smaller, Desc
  <1> QED
    BY Zenon, <1>3 DEF Counting, Sized

\* alloc3_desc() finds three free descriptors.
LEMMA AllocFacts ==
  ASSUME Counting, free \subseteq Desc, Cardinality(free) >= 3
  PROVE  /\ First \in free /\ Second \in free /\ Third \in free
         /\ First # Second /\ First # Third /\ Second # Third
  <1>1. IsFiniteSet(free) /\ free \in SUBSET Nat
    BY Zenon, FreeFinite
  <1>2. PICK n \in Nat : n = Cardinality(free) /\ n >= 3
    BY Zenon, FreeFinite
  <1>3. free # {}
    BY <1>1, <1>2 DEF Counting, Sized
  <1>4. First \in free
    BY Zenon, <1>1, <1>3, LowestFacts DEF First
  <1>5. IsFiniteSet(free \ {First}) /\ Cardinality(free \ {First}) = n - 1
    BY Zenon, <1>1, <1>2, <1>4 DEF Counting, OneLess
  <1>6. free \ {First} # {} /\ free \ {First} \in SUBSET Nat
    <2>1. n - 1 # 0
      BY <1>2
    <2> QED
      BY <1>1, <1>5, <2>1, Zenon DEF Counting, Sized
  <1>7. Second \in free \ {First}
    BY Zenon, <1>6, LowestFacts DEF Second
  <1>8. /\ IsFiniteSet((free \ {First}) \ {Second})
        /\ Cardinality((free \ {First}) \ {Second}) = n - 2
    <2>1. /\ IsFiniteSet((free \ {First}) \ {Second})
          /\ Cardinality((free \ {First}) \ {Second}) = (n - 1) - 1
      BY SMTT(30), <1>5, <1>7 DEF Counting, OneLess
    <2> QED
      BY <2>1
  <1>9. free \ {First, Second} = (free \ {First}) \ {Second}
    BY Zenon
  <1>10. free \ {First, Second} # {} /\ free \ {First, Second} \in SUBSET Nat
    <2>1. n - 2 # 0
      BY <1>2
    <2> QED
      BY <1>1, <1>8, <1>9, <2>1, Zenon DEF Counting, Sized
  <1>11. Third \in free \ {First, Second}
    BY Zenon, <1>10, LowestFacts DEF Third
  <1> QED
    BY Zenon, <1>4, <1>7, <1>11

\* free_chain() visits the descriptors of the request.
LEMMA ChainFacts ==
  ASSUME IInv, NEW b \in InFlight
  PROVE  Chain(head[b]) = Own(b)
  <1> DEFINE h == head[b]
             Grow(some) == some \cup ({desc[d].next : d \in some} \ {None})
             f == [n \in 0..2 |-> IF n = 0 THEN {h} ELSE IF n = 1 THEN {h, Data(b)}
                                                              ELSE Own(b)]
  <1>1. /\ h \in Desc /\ Data(b) \in Desc /\ Status(b) \in Desc
        /\ desc[h].next = Data(b) /\ desc[Data(b)].next = Status(b)
        /\ desc[Status(b)].next = None
    BY ZenonT(30) DEF IInv, RequestInv, Own, Data, Status
  <1>2. Data(b) # None /\ Status(b) # None
    BY Zenon, <1>1, VirtioAssumption
  <1>3. Grow({h}) = {h, Data(b)}
    BY Zenon, <1>1, <1>2
  <1>4. Grow({h, Data(b)}) = Own(b)
    BY Zenon, <1>1, <1>2 DEF Own
  <1>5. f = [n \in 0..2 |-> IF n = 0 THEN {h} ELSE Grow(f[n - 1])]
    <2> HIDE DEF Grow
    <2>1. ASSUME NEW n \in 0..2
          PROVE  f[n] = IF n = 0 THEN {h} ELSE Grow(f[n - 1])
      <3>1. n = 0 \/ n = 1 \/ n = 2
        OBVIOUS
      <3>2. f[0] = {h} /\ f[1] = {h, Data(b)} /\ f[2] = Own(b)
        OBVIOUS
      <3>3. 1 - 1 = 0 /\ 2 - 1 = 1
        OBVIOUS
      <3> HIDE DEF f
      <3> QED
        BY Zenon, <1>3, <1>4, <3>1, <3>2, <3>3
    <2> QED
      BY Zenon, <2>1
  <1>6. PICK g : /\ g = [n \in 0..2 |-> IF n = 0 THEN {h} ELSE Grow(g[n - 1])]
                 /\ Chain(h) = g[2]
    <2> HIDE DEF f, h
    <2> QED
      BY Zenon, <1>5 DEF Chain
  <1>7. g[0] = {h} /\ g[1] = Grow(g[0]) /\ g[2] = Grow(g[1])
    <2> HIDE DEF Grow, h
    <2>1. \A n \in 0..2 : g[n] = IF n = 0 THEN {h} ELSE Grow(g[n - 1])
      BY Zenon, <1>6
    <2>2. 1 - 1 = 0 /\ 2 - 1 = 1
      OBVIOUS
    <2> QED
      BY <2>1, <2>2
  <1> QED
    BY Zenon, <1>3, <1>4, <1>6, <1>7

\* A request is the only one with its head, and the other two descriptors of a
\* request are no heads.
LEMMA HeadFacts ==
  ASSUME IInv, NEW b \in InFlight
  PROVE  /\ head[b] \in Heads /\ Data(b) \notin Heads /\ Status(b) \notin Heads
         /\ \A c \in InFlight : head[c] = head[b] => c = b
  <1>1. /\ head[b] # Data(b) /\ head[b] # Status(b)
        /\ \A c \in InFlight : b # c => Own(b) \cap Own(c) = {}
    BY ZenonT(30) DEF IInv, RequestInv, OwnInv
  <1>2. \A c \in InFlight : b # c => head[c] \notin Own(b)
    BY Zenon, <1>1 DEF Own
  <1> QED
    BY Zenon, <1>1, <1>2 DEF Own, Heads

\* A ring has room for one more chain than it holds.
LEMMA RingRoom ==
  ASSUME Counting, IInv, NEW r, NEW x, NEW n \in Nat, NEW H \in SUBSET Heads, Holds(r, x, n, H)
  PROVE  n + 1 < NUM
  <1>1. CASE H = {}
    <2>1. IsFiniteSet(H) /\ Cardinality(H) = n
      BY Zenon, HoldsSize
    <2>2. n = 0
      BY Zenon, <1>1, <2>1 DEF Counting, Sized
    <2> QED
      BY <2>2, Sizes
  <1>2. CASE H # {}
    <2>1. PICK b \in InFlight : head[b] \in H
      BY Zenon, <1>2 DEF Heads
    <2>2. /\ Data(b) \in Desc /\ Status(b) \in Desc /\ Data(b) # Status(b)
          /\ Data(b) \notin H /\ Status(b) \notin H
      <3>1. Own(b) \subseteq Desc /\ Data(b) # Status(b)
        BY ZenonT(30) DEF IInv, RequestInv
      <3> QED
        BY Zenon, <3>1, HeadFacts DEF Own
    <2>3. Heads \subseteq Desc
      <3>1. \A c \in InFlight : Own(c) \subseteq Desc
        BY ZenonT(30) DEF IInv, RequestInv
      <3> QED
        BY Zenon, <3>1 DEF Own, Heads
    <2>4. IsFiniteSet(Desc) /\ Cardinality(Desc) = NUM
      BY Zenon, Sizes DEF Counting, Counted, Desc
    <2>5. /\ IsFiniteSet(Desc \ {Data(b)})
          /\ Cardinality(Desc \ {Data(b)}) = NUM - 1
      BY Zenon, <2>2, <2>4 DEF Counting, OneLess
    <2>6. /\ IsFiniteSet((Desc \ {Data(b)}) \ {Status(b)})
          /\ Cardinality((Desc \ {Data(b)}) \ {Status(b)}) = (NUM - 1) - 1
      <3>1. Status(b) \in Desc \ {Data(b)}
        BY Zenon, <2>2
      <3> QED
        BY <2>5, <3>1 DEF Counting, OneLess
    <2>7. H \in SUBSET ((Desc \ {Data(b)}) \ {Status(b)})
      BY Zenon, <2>2, <2>3
    <2>8. Cardinality(H) <= (NUM - 1) - 1
      BY <2>6, <2>7 DEF Counting, Smaller
    <2> QED
      BY <2>8, HoldsSize, Sizes
  <1> QED
    BY Zenon, <1>1, <1>2
-----------------------------------------------------------------------------
(* The invariant: its parts that most steps leave alone, then step by step *)

\* Nothing is written in the table.
LEMMA SameRequests ==
  ASSUME IInv, UNCHANGED <<free, desc, ops, info, head>>,
         \A b \in InFlight : write'[b] = write[b]
  PROVE  RequestInv' /\ OwnInv'
  <1>1. InFlight' = InFlight /\ \A b : Own(b)' = Own(b) /\ Data(b)' = Data(b) /\ Status(b)' = Status(b)
    BY Zenon DEF InFlight, Own, Data, Status
  <1>2. RequestInv'
    BY <1>1 DEF IInv, RequestInv
  <1>3. OwnInv'
    BY Zenon, <1>1 DEF IInv, OwnInv
  <1> QED
    BY Zenon, <1>2, <1>3

\* The avail ring and the device's end of it stay as they are.
LEMMA SameAvail ==
  ASSUME IInv, UNCHANGED <<ring, idx, lastAvail, taken, info, head>>,
         lock' \in Buf <=> lock \in Buf
  PROVE  AvailInv'
  BY DEF IInv, AvailInv, Offered, Waiting, Heads, InFlight

\* The used ring and the driver's end of it stay as they are.
LEMMA SameUsed ==
  ASSUME IInv, UNCHANGED <<usedRing, usedIdx, used_idx, busy, info, head>>
  PROVE  UsedInv'
  BY Zenon DEF IInv, UsedInv, Answered, Heads, InFlight

\* The device's chains stay as they are.
LEMMA SameTaken ==
  ASSUME IInv, UNCHANGED <<info, head, taken>>
  PROVE  TakenInv'
  BY DEF IInv, CallerInv, TakenInv, InFlight

\* Callers move between the places of a loop, and nothing else changes.
LEMMA MoveCaller ==
  ASSUME IInv, UNCHANGED <<free, info, ring, idx, head, busy, lock, taken, panicked, used_idx,
                           usedIdx, irq>>,
         \A b \in Buf : \/ pc'[b] = pc[b]
                        \/ pc[b] = "alloc" /\ pc'[b] = "nodesc" /\ Cardinality(free) < 3
                        \/ pc[b] = "nodesc" /\ pc'[b] = "alloc"
                        \/ pc[b] = "woken" /\ pc'[b] = "asleep" /\ busy[b]
                        \/ pc[b] = "asleep" /\ pc'[b] = "woken"
  PROVE  CallerInv'
  <1>1. \A b \in Buf : CallerAt(b)'
    BY DEF IInv, CallerInv, CallerAt
  <1>2. TakenInv'
    BY Zenon, SameTaken
  <1> QED
    BY Zenon, <1>1, <1>2 DEF IInv, CallerInv

\* The lock goes from or to virtio_disk_intr().
LEMMA LockCaller ==
  ASSUME IInv, UNCHANGED <<free, info, head, busy, taken, panicked, pc>>,
         lock \notin Buf, lock' \notin Buf,
         used_idx' # usedIdx' => irq' \/ lock' = "intr"
  PROVE  CallerInv'
  <1>1. \A b \in Buf : pc[b] # "publish"
    BY Zenon DEF IInv, CallerInv, CallerAt
  <1>2. \A b \in Buf : CallerAt(b)'
    BY <1>1 DEF IInv, CallerInv, CallerAt
  <1>3. TakenInv'
    BY Zenon, SameTaken
  <1> QED
    BY Zenon, <1>2, <1>3 DEF IInv, CallerInv

\* The initial state.
LEMMA InitIInv == Init => IInv
  <1> SUFFICES ASSUME Init PROVE IInv
    BY Zenon
  <1>1. InFlight = {} /\ Heads = {} /\ Waiting = {} /\ Answered = {}
    BY Zenon DEF Init, InFlight, Heads, Waiting, Answered
  <1>2. TypeOK
    <2>1. 0 \in Index /\ 0 \in Desc
      BY Sizes DEF Index, Desc
    <2> QED
      BY Zenon, <2>1 DEF Init, TypeOK, Clear
  <1>3. RequestInv /\ OwnInv
    BY Zenon, <1>1 DEF Init, RequestInv, OwnInv
  <1>4. CallerInv
    BY Zenon, VirtioAssumption DEF Init, CallerInv, CallerAt, TakenInv
  <1>5. AvailInv /\ UsedInv
    <2>1. \A r : Holds(r, 0, 0, {})
      BY DEF Holds
    <2>2. Dist(0, 0) = 0 /\ lock \notin Buf
      BY VirtioAssumption DEF Init, Dist
    <2> QED
      BY <1>1, <2>1, <2>2 DEF Init, AvailInv, UsedInv, Offered
  <1> QED
    BY Zenon, <1>2, <1>3, <1>4, <1>5 DEF IInv

\* A caller enters virtio_disk_rw().
LEMMA CallIInv ==
  ASSUME IInv, NEW b \in Buf, NEW w \in BOOLEAN, NEW v \in Value, Call(b, w, v)
  PROVE  IInv'
  <1>1. TypeOK'
    BY Zenon DEF IInv, TypeOK, Call, Goto, table, avail, used, device
  <1>2. RequestInv' /\ OwnInv'
    <2>1. b \notin InFlight
      BY Zenon DEF IInv, CallerInv, CallerAt, InFlight, Call
    <2> QED
      BY <2>1, SameRequests DEF Call, table
  <1>3. CallerInv'
    <2>1. UNCHANGED <<free, info, ring, idx, head, busy, lock, taken, panicked, used_idx, usedIdx, irq>>
      BY Zenon DEF Call, table, avail, used, device
    <2>2. \A c \in Buf : pc'[c] = pc[c] \/ (c = b /\ pc[c] = "idle" /\ pc'[c] = "alloc")
      BY DEF IInv, TypeOK, Call, Goto
    <2>3. \A c \in Buf : CallerAt(c)'
      BY <2>1, <2>2 DEF IInv, CallerInv, CallerAt
    <2>4. TakenInv'
      BY Zenon, <2>1, SameTaken
    <2> QED
      BY Zenon, <2>1, <2>3, <2>4 DEF IInv, CallerInv
  <1>4. AvailInv' /\ UsedInv'
    BY Zenon, SameAvail, SameUsed DEF Call, table, avail, used, device
  <1> QED
    BY Zenon, <1>1, <1>2, <1>3, <1>4 DEF IInv

\* alloc3_desc() fails: some sleepers look again, and this caller sleeps.
LEMMA AllocFailsIInv ==
  ASSUME IInv, NEW b \in Buf, AllocFails(b)
  PROVE  IInv'
  <1>1. /\ pc' \in [Buf -> {"idle", "alloc", "nodesc", "publish", "asleep", "woken"}]
        /\ pc[b] = "alloc" /\ pc'[b] = "nodesc"
        /\ \A c \in Buf : c # b => pc'[c] = pc[c] \/ (pc[c] = "nodesc" /\ pc'[c] = "alloc")
    BY DEF IInv, TypeOK, AllocFails, Goto, WakeFreeAnd
  <1>2. TypeOK'
    BY Zenon, <1>1 DEF IInv, TypeOK, AllocFails, buffers, table, avail, used, device
  <1>3. RequestInv' /\ OwnInv'
    BY Zenon, SameRequests DEF AllocFails, table
  <1>4. CallerInv'
    <2>1. UNCHANGED <<free, info, ring, idx, head, busy, lock, taken, panicked, used_idx, usedIdx, irq>>
      BY Zenon DEF AllocFails, buffers, table, avail, used, device
    <2>2. Cardinality(free) < 3
      BY Zenon DEF AllocFails
    <2> QED
      BY Zenon, <1>1, <2>1, <2>2, MoveCaller
  <1>5. AvailInv' /\ UsedInv'
    BY Zenon, SameAvail, SameUsed DEF AllocFails, buffers, table, avail, used, device
  <1> QED
    BY Zenon, <1>2, <1>3, <1>4, <1>5 DEF IInv

\* A caller that was woken too early sleeps again.
LEMMA WaitAgainIInv ==
  ASSUME IInv, NEW b \in Buf, WaitAgain(b)
  PROVE  IInv'
  <1>1. TypeOK'
    BY Zenon DEF IInv, TypeOK, WaitAgain, Goto, buffers, table, avail, used, device
  <1>2. RequestInv' /\ OwnInv'
    BY Zenon, SameRequests DEF WaitAgain, table
  <1>3. CallerInv'
    <2>1. UNCHANGED <<free, info, ring, idx, head, busy, lock, taken, panicked, used_idx, usedIdx, irq>>
      BY Zenon DEF WaitAgain, buffers, table, avail, used, device
    <2>2. \A c \in Buf : pc'[c] = pc[c] \/ (pc[c] = "woken" /\ pc'[c] = "asleep" /\ busy[c])
      BY DEF IInv, TypeOK, WaitAgain, Goto
    <2> QED
      BY Zenon, <2>1, <2>2, MoveCaller
  <1>4. AvailInv' /\ UsedInv'
    BY Zenon, SameAvail, SameUsed DEF WaitAgain, buffers, table, avail, used, device
  <1> QED
    BY Zenon, <1>1, <1>2, <1>3, <1>4 DEF IInv

\* kill() of a sleeping caller.
LEMMA KillIInv ==
  ASSUME IInv, NEW b \in Buf, Kill(b)
  PROVE  IInv'
  <1>1. /\ pc' \in [Buf -> {"idle", "alloc", "nodesc", "publish", "asleep", "woken"}]
        /\ \/ pc[b] = "nodesc" /\ pc'[b] = "alloc"
           \/ pc[b] = "asleep" /\ pc'[b] = "woken"
        /\ \A c \in Buf : c # b => pc'[c] = pc[c]
    BY SMTT(30) DEF IInv, TypeOK, Kill, Goto
  <1>2. TypeOK'
    BY Zenon, <1>1 DEF IInv, TypeOK, Kill, buffers, table, avail, used, device
  <1>3. RequestInv' /\ OwnInv'
    BY Zenon, SameRequests DEF Kill, table
  <1>4. CallerInv'
    <2>1. UNCHANGED <<free, info, ring, idx, head, busy, lock, taken, panicked, used_idx, usedIdx, irq>>
      BY Zenon DEF Kill, buffers, table, avail, used, device
    <2> QED
      BY Zenon, <1>1, <2>1, MoveCaller
  <1>5. AvailInv' /\ UsedInv'
    BY Zenon, SameAvail, SameUsed DEF Kill, buffers, table, avail, used, device
  <1> QED
    BY Zenon, <1>2, <1>3, <1>4, <1>5 DEF IInv

\* virtio_disk_intr() begins.
LEMMA IntrStartIInv ==
  ASSUME IInv, IntrStart
  PROVE  IInv'
  <1>1. lock = None /\ lock' = "intr" /\ lock \notin Buf /\ lock' \notin Buf
    BY Zenon, VirtioAssumption DEF IntrStart
  <1>2. TypeOK'
    BY Zenon DEF IInv, TypeOK, IntrStart, buffers, table, avail, used, device
  <1>3. RequestInv' /\ OwnInv'
    BY Zenon, SameRequests DEF IntrStart, table
  <1>4. CallerInv'
    BY Zenon, <1>1, LockCaller DEF IntrStart, buffers, table, device
  <1>5. AvailInv' /\ UsedInv'
    BY Zenon, <1>1, SameAvail, SameUsed DEF IntrStart, buffers, table, avail, used, device
  <1> QED
    BY Zenon, <1>2, <1>3, <1>4, <1>5 DEF IInv

\* virtio_disk_intr() finds nothing more in the used ring.
LEMMA IntrTestedIInv ==
  ASSUME IInv, IntrTested
  PROVE  IInv'
  <1>1. lock = "intr" /\ lock' = "leave" /\ lock \notin Buf /\ lock' \notin Buf
    BY Zenon, VirtioAssumption DEF IntrTested
  <1>2. TypeOK'
    BY Zenon DEF IInv, TypeOK, IntrTested, buffers, table, avail, used, device
  <1>3. RequestInv' /\ OwnInv'
    BY Zenon, SameRequests DEF IntrTested, table
  <1>4. CallerInv'
    <2>1. used_idx' # usedIdx' => irq' \/ lock' = "intr"
      BY Zenon, <1>1 DEF IInv, CallerInv, IntrTested, used
    <2> QED
      BY Zenon, <1>1, <2>1, LockCaller DEF IntrTested, buffers, table, device
  <1>5. AvailInv' /\ UsedInv'
    BY Zenon, <1>1, SameAvail, SameUsed DEF IntrTested, buffers, table, avail, used, device
  <1> QED
    BY Zenon, <1>2, <1>3, <1>4, <1>5 DEF IInv

\* virtio_disk_intr() releases the lock.
LEMMA IntrEndIInv ==
  ASSUME IInv, IntrEnd
  PROVE  IInv'
  <1>1. lock = "leave" /\ lock' = None /\ lock \notin Buf /\ lock' \notin Buf
    BY Zenon, VirtioAssumption DEF IntrEnd
  <1>2. TypeOK'
    BY Zenon DEF IInv, TypeOK, IntrEnd, buffers, table, avail, used, device
  <1>3. RequestInv' /\ OwnInv'
    BY Zenon, SameRequests DEF IntrEnd, table
  <1>4. CallerInv'
    <2>1. used_idx' # usedIdx' => irq' \/ lock' = "intr"
      BY Zenon, <1>1 DEF IInv, CallerInv, IntrEnd, used
    <2> QED
      BY Zenon, <1>1, <2>1, LockCaller DEF IntrEnd, buffers, table, device
  <1>5. AvailInv' /\ UsedInv'
    BY Zenon, <1>1, SameAvail, SameUsed DEF IntrEnd, buffers, table, avail, used, device
  <1> QED
    BY Zenon, <1>2, <1>3, <1>4, <1>5 DEF IInv

\* What virtio_disk_intr() finds in the used ring: the chain of a request that
\* is finished, whose caller still waits.
LEMMA AnswerFacts ==
  ASSUME IInv, used_idx # usedIdx, NEW id, id = usedRing[used_idx % NUM]
  PROVE  /\ \E b \in InFlight : /\ head[b] = id /\ info[id].b = b /\ info[id].status = 0
                                /\ busy[b] /\ pc[b] \in {"asleep", "woken"}
         /\ Holds(usedRing, Plus(used_idx), Dist(Plus(used_idx), usedIdx), Answered \ {id})
         /\ Plus(used_idx) \in Index
  <1>1. used_idx \in Index /\ usedIdx \in Index
    BY Zenon DEF IInv, TypeOK
  <1>2. PICK n \in Nat : n = Dist(used_idx, usedIdx) /\ n # 0
    BY <1>1, DistFacts, Sizes
  <1>3. Holds(usedRing, used_idx, n, Answered)
    BY Zenon, <1>2 DEF IInv, UsedInv
  <1>4. id \in Answered /\ Holds(usedRing, Plus(used_idx), n - 1, Answered \ {id})
    BY Zenon, <1>1, <1>2, <1>3, HoldsTake
  <1>5. Dist(Plus(used_idx), usedIdx) = n - 1 /\ Plus(used_idx) \in Index
    BY SMTT(30), <1>1, <1>2, DistFacts, PlusFacts
  <1>6. PICK b \in InFlight : head[b] = id
    BY Zenon, <1>4 DEF Answered, Heads
  <1>7. info[id].b = b /\ info[id].status = 0 /\ busy[b]
    <2>1. info[id].b = b
      BY ZenonT(30), <1>6 DEF IInv, RequestInv
    <2>2. info[id].status = 0 /\ busy[info[id].b]
      BY Zenon, <1>4 DEF Answered
    <2> QED
      BY <2>1, <2>2, Zenon
  <1>8. pc[b] \in {"asleep", "woken"}
    BY <1>6, <1>7 DEF IInv, CallerInv, CallerAt, InFlight
  <1> QED
    BY Zenon, <1>4, <1>5, <1>6, <1>7, <1>8

\* virtio_disk_intr() tells the caller of a finished request.
LEMMA IntrStepIInv ==
  ASSUME IInv, IntrStep
  PROVE  IInv'
  <1>1. PICK id : id = usedRing[used_idx % NUM]
    BY Zenon
  <1>2. PICK b \in InFlight : /\ head[b] = id /\ info[id].b = b /\ info[id].status = 0
                              /\ busy[b] /\ pc[b] \in {"asleep", "woken"}
    BY ZenonT(30), <1>1, AnswerFacts DEF IntrStep
  <1>3. /\ Holds(usedRing, Plus(used_idx), Dist(Plus(used_idx), usedIdx), Answered \ {id})
        /\ Plus(used_idx) \in Index
    BY Zenon, <1>1, AnswerFacts DEF IntrStep
  <1>4. /\ busy' = [busy EXCEPT ![b] = FALSE]
        /\ pc' = [pc EXCEPT ![b] = "woken"]
        /\ used_idx' = Plus(used_idx)
        /\ lock = "intr"
        /\ UNCHANGED <<store, data, free, desc, ops, info, ring, idx, usedRing, usedIdx, lastAvail,
                       taken, irq, lock, head, write, panicked>>
    <2>1. /\ IF info[id].status # 0
               THEN panicked' = TRUE /\ UNCHANGED <<busy, pc, used_idx>>
               ELSE /\ busy' = [busy EXCEPT ![info[id].b] = FALSE]
                    /\ pc' = IF pc[info[id].b] = "asleep" THEN [pc EXCEPT ![info[id].b] = "woken"]
                             ELSE pc
                    /\ used_idx' = Plus(used_idx)
                    /\ UNCHANGED panicked
          /\ lock = "intr"
          /\ UNCHANGED <<store, data, free, desc, ops, info, ring, idx, usedRing, usedIdx, lastAvail,
                         taken, irq, lock, head, write>>
      BY Zenon, <1>1 DEF IntrStep, table, avail, used, device
    <2>2. pc[b] = "woken" => pc = [pc EXCEPT ![b] = "woken"]
      BY DEF IInv, TypeOK
    <2> QED
      BY Zenon, <1>2, <2>1, <2>2
  <1>5. b \in Buf /\ lock \notin Buf
    BY Zenon, <1>4, VirtioAssumption DEF InFlight
  <1>6. TypeOK'
    BY Zenon, <1>3, <1>4, <1>5 DEF IInv, TypeOK
  <1>7. RequestInv' /\ OwnInv'
    BY Zenon, <1>4, SameRequests
  <1>8. CallerInv'
    <2>1. /\ ~busy'[b] /\ pc'[b] = "woken" /\ head[b] # None
          /\ \A c \in Buf : c # b => busy'[c] = busy[c] /\ pc'[c] = pc[c]
      BY <1>2, <1>4 DEF IInv, TypeOK, InFlight
    <2>2. InFlight' = InFlight
      BY Zenon, <1>4 DEF InFlight
    <2>3. \A c \in Buf : CallerAt(c)'
      BY SMTT(30), <1>2, <1>4, <2>1 DEF IInv, CallerInv, CallerAt
    <2>4. TakenInv'
      BY Zenon, <1>4, SameTaken
    <2> QED
      BY Zenon, <1>4, <2>3, <2>4 DEF IInv, CallerInv
  <1>9. AvailInv'
    BY Zenon, <1>4, SameAvail
  <1>10. UsedInv'
    <2>1. Heads' = Heads
      BY Zenon, <1>4 DEF Heads, InFlight
    <2>2. ASSUME NEW h \in Heads
          PROVE  busy'[info[h].b] <=> busy[info[h].b] /\ h # id
      <3>1. PICK c \in InFlight : head[c] = h
        BY Zenon DEF Heads
      <3>2. info[h].b = c /\ c \in Buf
        BY Zenon, <3>1 DEF IInv, RequestInv, InFlight
      <3>3. h = id <=> c = b
        BY Zenon, <1>2, <3>1, HeadFacts
      <3> QED
        BY Zenon, <1>4, <3>2, <3>3 DEF IInv, TypeOK
    <2>3. Answered' = Answered \ {id}
      BY Zenon, <1>4, <2>1, <2>2 DEF Answered
    <2> QED
      BY Zenon, <1>3, <1>4, <2>3 DEF UsedInv
  <1> QED
    BY Zenon, <1>6, <1>7, <1>8, <1>9, <1>10 DEF IInv

\* How many chains the avail ring offers.
LEMMA OfferedFacts ==
  ASSUME Counting, IInv
  PROVE  /\ Offered \in Nat /\ Offered + 1 < NUM
         /\ Offered = IF lock \in Buf THEN Dist(lastAvail, idx) + 1 ELSE Dist(lastAvail, idx)
         /\ idx \in Index /\ lastAvail \in Index /\ Dist(lastAvail, idx) \in Nat
         /\ Dist(lastAvail, idx) + 1 < WRAP
  <1>1. idx \in Index /\ lastAvail \in Index
    BY Zenon DEF IInv, TypeOK
  <1>2. Dist(lastAvail, idx) \in Nat
    BY <1>1, DistFacts, Sizes
  <1>3. Offered \in Nat /\ Offered = IF lock \in Buf THEN Dist(lastAvail, idx) + 1
                                                   ELSE Dist(lastAvail, idx)
    BY <1>2 DEF Offered
  <1>4. Offered + 1 < NUM
    <2>1. Waiting \in SUBSET Heads
      BY Zenon DEF Waiting
    <2> QED
      BY Zenon, <1>3, <2>1, RingRoom DEF IInv, AvailInv
  <1> QED
    BY <1>1, <1>2, <1>3, <1>4, Sizes

\* avail->idx moves over the chain that was put there.
LEMMA PublishIInv ==
  ASSUME Counting, IInv, NEW b \in Buf, Publish(b)
  PROVE  IInv'
  <1>1. /\ pc[b] = "publish" /\ lock = b /\ lock' = None /\ lock' \notin Buf
        /\ pc' = [pc EXCEPT ![b] = "asleep"] /\ idx' = Plus(idx)
        /\ UNCHANGED <<store, data, busy, free, desc, ops, info, ring, usedRing, usedIdx, used_idx,
                       lastAvail, taken, irq, head, write, panicked>>
    BY Zenon, VirtioAssumption DEF IInv, CallerInv, CallerAt, Publish, Goto, buffers, table, used, device
  <1>2. TypeOK'
    BY Zenon, <1>1, PlusFacts DEF IInv, TypeOK
  <1>3. RequestInv' /\ OwnInv'
    BY Zenon, <1>1, SameRequests
  <1>4. CallerInv'
    <2>1. /\ pc'[b] = "asleep" /\ busy[b] /\ head[b] # None
          /\ \A c \in Buf : c # b => pc'[c] = pc[c] /\ pc[c] # "publish" /\ lock' # c
          /\ lock' # b
      BY SMTT(30), <1>1 DEF IInv, TypeOK, CallerInv, CallerAt
    <2>2. InFlight' = InFlight
      BY Zenon, <1>1 DEF InFlight
    <2>3. lock # "intr"
      BY Zenon, <1>1, VirtioAssumption
    <2>4. \A c \in Buf : CallerAt(c)'
      BY SMTT(30), <1>1, <2>1 DEF IInv, CallerInv, CallerAt
    <2>5. TakenInv'
      BY Zenon, <1>1, SameTaken
    <2> QED
      BY Zenon, <1>1, <2>3, <2>4, <2>5 DEF IInv, CallerInv
  <1>5. AvailInv'
    <2>1. Waiting' = Waiting
      BY <1>1 DEF Waiting, Heads, InFlight
    <2>2. Dist(lastAvail, Plus(idx)) = Dist(lastAvail, idx) + 1
      BY Zenon, OfferedFacts, DistFacts
    <2>3. Dist(lastAvail', idx') = Dist(lastAvail, Plus(idx))
      BY Zenon, <1>1
    <2>4. Dist(lastAvail', idx') \in Int /\ Offered' = Dist(lastAvail', idx') + 0
      BY <1>1, <2>2, <2>3, OfferedFacts DEF Offered
    <2>5. Offered' = Offered
      BY <1>1, <2>2, <2>3, <2>4, OfferedFacts
    <2> QED
      BY Zenon, <1>1, <2>1, <2>5 DEF IInv, AvailInv
  <1>6. UsedInv'
    BY Zenon, <1>1, SameUsed
  <1> QED
    BY Zenon, <1>2, <1>3, <1>4, <1>5, <1>6 DEF IInv

\* The device takes the next chain of the avail ring.
LEMMA DeviceTakeIInv ==
  ASSUME Counting, IInv, DeviceTake
  PROVE  IInv'
  <1>1. PICK h : h = ring[lastAvail % NUM]
    BY Zenon
  <1>2. /\ lastAvail # idx /\ taken' = taken \cup {h} /\ lastAvail' = Plus(lastAvail)
        /\ UNCHANGED <<store, data, busy, free, desc, ops, info, ring, idx, usedRing, usedIdx,
                       used_idx, irq, lock, pc, head, write, panicked>>
    BY Zenon, <1>1 DEF DeviceTake, buffers, table, avail, used
  <1>3. PICK n \in Nat : n = Offered
    BY Zenon, OfferedFacts
  <1>4. PICK m \in Nat : m = Dist(lastAvail, idx)
    BY Zenon, OfferedFacts
  <1>5. /\ m # 0 /\ n = (IF lock \in Buf THEN m + 1 ELSE m) /\ n # 0
        /\ Dist(Plus(lastAvail), idx) = m - 1 /\ Plus(lastAvail) \in Index
    BY SMTT(30), <1>2, <1>3, <1>4, OfferedFacts, DistFacts, PlusFacts
  <1>6. /\ Holds(ring, lastAvail, n, Waiting)
        /\ h \in Waiting /\ Holds(ring, Plus(lastAvail), n - 1, Waiting \ {h})
    BY Zenon, <1>1, <1>3, <1>5, OfferedFacts, HoldsTake DEF IInv, AvailInv
  <1>7. h \in Desc /\ info[h].status = 255 /\ \E b \in InFlight : head[b] = h
    <2>1. info[h].status = 255 /\ h \in Heads
      BY Zenon, <1>6 DEF Waiting
    <2>2. PICK b \in InFlight : head[b] = h
      BY SMTT(30), <2>1 DEF Heads
    <2>3. Own(b) \subseteq Desc
      BY ZenonT(30) DEF IInv, RequestInv
    <2> QED
      BY Zenon, <2>1, <2>2, <2>3 DEF Own
  <1>8. TypeOK'
    BY SMTT(30), <1>2, <1>5, <1>7 DEF IInv, TypeOK
  <1>9. RequestInv' /\ OwnInv'
    BY Zenon, <1>2, SameRequests
  <1>10. CallerInv'
    <2>1. ASSUME NEW b \in Buf, pc[b] = "publish"
          PROVE  head[b] # h
      <3>1. lock \in Buf /\ ring[idx % NUM] = head[b]
        BY Zenon, <2>1 DEF IInv, CallerInv, CallerAt
      <3>2. Place(lastAvail, m) = idx % NUM /\ Place(lastAvail, 0) = lastAvail % NUM
        BY SMTT(30), <1>4, OfferedFacts, PlaceFacts
      <3>3. 0 \in 0..(n - 1) /\ m \in 0..(n - 1)
        BY <1>5, <3>1
      <3> QED
        BY Zenon, <1>1, <1>5, <1>6, <3>1, <3>2, <3>3 DEF Holds
    <2>2. InFlight' = InFlight
      BY Zenon, <1>2 DEF InFlight
    <2>3. \A b \in Buf : CallerAt(b)'
      BY SMTT(30), <1>2, <2>1 DEF IInv, CallerInv, CallerAt
    <2>4. TakenInv'
      <3>1. \A d \in taken \cup {h} : info[d].status = 255 /\ \E b \in InFlight : head[b] = d
        <4>1. TakenInv
          BY Zenon DEF IInv, CallerInv
        <4> QED
          BY <1>7, <4>1 DEF TakenInv
      <3>2. UNCHANGED <<info, head>> /\ taken' = taken \cup {h}
        BY Zenon, <1>2
      <3> QED
        BY <2>2, <3>1, <3>2 DEF TakenInv
    <2> QED
      BY Zenon, <1>2, <2>3, <2>4 DEF IInv, CallerInv
  <1>11. AvailInv'
    <2>1. Heads' = Heads
      BY Zenon, <1>2 DEF Heads, InFlight
    <2>2. Waiting' = Waiting \ {h}
      BY Zenon, <1>2, <2>1 DEF Waiting
    <2>3. Dist(lastAvail', idx') = m - 1
      BY Zenon, <1>2, <1>5
    <2>4. Offered' = n - 1
      BY <1>2, <1>5, <2>3 DEF Offered
    <2> QED
      BY Zenon, <1>2, <1>6, <2>2, <2>4 DEF AvailInv
  <1>12. UsedInv'
    BY Zenon, <1>2, SameUsed
  <1> QED
    BY Zenon, <1>8, <1>9, <1>10, <1>11, <1>12 DEF IInv
=============================================================================
