---------------------------- MODULE VirtioProofs ----------------------------
(***************************************************************************)
(* Proofs about VirtioDisk: the actions that write a chain, finish one and *)
(* give it back keep the invariant of VirtioSteps too, and what follows    *)
(* from it.                                                                *)
(***************************************************************************)
EXTENDS VirtioSteps

\* What virtio_disk_rw() writes when alloc3_desc() has found f, s and t.
Written(b, f, s, t) ==
  /\ f # s /\ f # t /\ s # t
  /\ pc[b] = "alloc" /\ lock = None /\ Cardinality(free) >= 3
  /\ lock' = b
  /\ free' = free \ {f, s, t}
  /\ ops' = [ops EXCEPT ![f] = [write |-> write[b], sector |-> b]]
  /\ desc' = [desc EXCEPT ![f] = [addr |-> f, next |-> s, writable |-> FALSE],
                          ![s] = [addr |-> b, next |-> t, writable |-> ~write[b]],
                          ![t] = [addr |-> f, next |-> None, writable |-> TRUE]]
  /\ busy' = [busy EXCEPT ![b] = TRUE]
  /\ info' = [info EXCEPT ![f] = [b |-> b, status |-> 255]]
  /\ ring' = [ring EXCEPT ![idx % NUM] = f]
  /\ head' = [head EXCEPT ![b] = f]
  /\ pc' = [pc EXCEPT ![b] = "publish"]
  /\ UNCHANGED <<store, data, idx, usedRing, usedIdx, used_idx, lastAvail, taken, irq,
                 write, panicked>>

\* What virtio_disk_rw() writes when alloc3_desc() has found three descriptors.
LEMMA FormatFacts ==
  ASSUME Counting, IInv, NEW b \in Buf, Format(b)
  PROVE  \E f, s, t \in free : Written(b, f, s, t)
  <1>1. free \subseteq Desc /\ Cardinality(free) >= 3
    BY Zenon DEF IInv, TypeOK, Format, Submit
  <1>2. PICK f \in free, s \in free, t \in free :
           f = First /\ s = Second /\ t = Third /\ f # s /\ f # t /\ s # t
    BY Zenon, <1>1, AllocFacts
  <1> QED
    BY ZenonT(30), <1>2 DEF Written, Format, Submit, Goto, used, device

\* The request is formatted and put in the avail ring.
LEMMA FormatIInv ==
  ASSUME Counting, IInv, NEW b \in Buf, Format(b)
  PROVE  IInv'
  <1>1. PICK f, s, t \in free : Written(b, f, s, t)
    BY Zenon, FormatFacts
  <1>2. /\ f # s /\ f # t /\ s # t
        /\ pc[b] = "alloc" /\ lock = None /\ Cardinality(free) >= 3
        /\ lock' = b
        /\ free' = free \ {f, s, t}
    BY Zenon, <1>1 DEF Written
  <1>3. /\ ops' = [ops EXCEPT ![f] = [write |-> write[b], sector |-> b]]
        /\ desc' = [desc EXCEPT ![f] = [addr |-> f, next |-> s, writable |-> FALSE],
                                ![s] = [addr |-> b, next |-> t, writable |-> ~write[b]],
                                ![t] = [addr |-> f, next |-> None, writable |-> TRUE]]
        /\ info' = [info EXCEPT ![f] = [b |-> b, status |-> 255]]
    BY Zenon, <1>1 DEF Written
  <1>4. /\ busy' = [busy EXCEPT ![b] = TRUE]
        /\ ring' = [ring EXCEPT ![idx % NUM] = f]
        /\ head' = [head EXCEPT ![b] = f]
        /\ pc' = [pc EXCEPT ![b] = "publish"]
    BY Zenon, <1>1 DEF Written
  <1>5. UNCHANGED <<store, data, idx, usedRing, usedIdx, used_idx, lastAvail, taken, irq,
                    write, panicked>>
    BY Zenon, <1>1 DEF Written
  <1>6. /\ f \in Desc /\ s \in Desc /\ t \in Desc /\ f # None
        /\ b \notin InFlight /\ lock \notin Buf /\ write[b] \in BOOLEAN /\ idx % NUM \in Desc
    <2>1. f \in Desc /\ s \in Desc /\ t \in Desc /\ write[b] \in BOOLEAN
      BY ZenonT(30) DEF IInv, TypeOK
    <2>2. b \notin InFlight
      <3>1. head[b] # None <=> pc[b] \in {"publish", "asleep", "woken"}
        BY Zenon DEF IInv, CallerInv, CallerAt
      <3> QED
        BY Zenon, <1>2, <3>1 DEF InFlight
    <2>3. idx % NUM \in Desc
      BY OfferedFacts, PlaceFacts
    <2> QED
      BY Zenon, <1>2, <2>1, <2>2, <2>3, VirtioAssumption
  <1>7. InFlight' = InFlight \cup {b} /\ head'[b] = f /\ \A c \in InFlight : head'[c] = head[c]
    BY SMTT(30), <1>4, <1>6 DEF IInv, TypeOK, InFlight
  <1>8. /\ desc'[f] = [addr |-> f, next |-> s, writable |-> FALSE]
        /\ desc'[s] = [addr |-> b, next |-> t, writable |-> ~write[b]]
        /\ desc'[t] = [addr |-> f, next |-> None, writable |-> TRUE]
        /\ \A d \in Desc \ free : /\ desc'[d] = desc[d] /\ ops'[d] = ops[d] /\ info'[d] = info[d]
                                  /\ d \notin {f, s, t} /\ d \notin free'
        /\ ops'[f] = [write |-> write[b], sector |-> b]
        /\ info'[f] = [b |-> b, status |-> 255]
    <2>1. DOMAIN desc = Desc /\ DOMAIN ops = Desc /\ DOMAIN info = Desc
      BY ZenonT(30) DEF IInv, TypeOK
    <2>2. \A d \in Desc \ free : d \notin {f, s, t} /\ d \notin free'
      BY ZenonT(30), <1>2
    <2>3. /\ desc'[f] = [addr |-> f, next |-> s, writable |-> FALSE]
          /\ desc'[s] = [addr |-> b, next |-> t, writable |-> ~write[b]]
          /\ desc'[t] = [addr |-> f, next |-> None, writable |-> TRUE]
          /\ \A d \in Desc : d \notin {f, s, t} => desc'[d] = desc[d]
      BY ZenonT(30), <1>2, <1>3, <1>6, <2>1
    <2>4. /\ ops'[f] = [write |-> write[b], sector |-> b]
          /\ info'[f] = [b |-> b, status |-> 255]
          /\ \A d \in Desc : d # f => ops'[d] = ops[d] /\ info'[d] = info[d]
      BY Zenon, <1>3, <1>6, <2>1
    <2> QED
      BY ZenonT(30), <2>2, <2>3, <2>4
  <1>9. \A c \in InFlight : /\ Own(c) \subseteq Desc \ free /\ c # b
                            /\ head[c] \in Own(c) /\ Data(c) \in Own(c) /\ Status(c) \in Own(c)
    <2>1. \A c \in InFlight : Own(c) \subseteq Desc \ free
      BY Zenon DEF IInv, RequestInv
    <2> QED
      BY Zenon, <1>6, <2>1 DEF Own
  <1>10. \A c \in InFlight : /\ Data(c)' = Data(c) /\ Status(c)' = Status(c) /\ Own(c)' = Own(c)
    <2>1. ASSUME NEW c \in InFlight
          PROVE  /\ Data(c)' = Data(c) /\ Status(c)' = Status(c)
      BY SMTT(30), <1>7, <1>8, <1>9 DEF Data, Status
    <2> QED
      BY Zenon, <1>7, <2>1 DEF Own
  <1>11. Data(b)' = s /\ Status(b)' = t /\ Own(b)' = {f, s, t}
    BY SMTT(30), <1>7, <1>8 DEF Data, Status, Own
  <1>12. TypeOK'
    <2>1. desc' \in [Desc -> [addr : Desc \cup Buf \cup {None}, next : Desc \cup {None},
                              writable : BOOLEAN]]
      BY Zenon, <1>3, <1>6 DEF IInv, TypeOK
    <2>2. ops' \in [Desc -> [write : BOOLEAN, sector : Buf] \cup {None}]
      BY ZenonT(30), <1>3, <1>6 DEF IInv, TypeOK
    <2>3. info' \in [Desc -> [b : Buf \cup {None}, status : {0, 1, 255}]]
      BY ZenonT(30), <1>3, <1>6 DEF IInv, TypeOK
    <2>4. busy' \in [Buf -> BOOLEAN] /\ head' \in [Buf -> Desc \cup {None}]
      BY Zenon, <1>4, <1>6 DEF IInv, TypeOK
    <2>5. pc' \in [Buf -> {"idle", "alloc", "nodesc", "publish", "asleep", "woken"}]
      BY ZenonT(30), <1>4 DEF IInv, TypeOK
    <2>6. ring' \in [Desc -> Desc] /\ free' \subseteq Desc
      BY Zenon, <1>2, <1>4, <1>6 DEF IInv, TypeOK
    <2> QED
      BY Zenon, <1>2, <1>5, <2>1, <2>2, <2>3, <2>4, <2>5, <2>6 DEF IInv, TypeOK
  <1>13. RequestInv'
    <2>1. ASSUME NEW c \in InFlight
          PROVE  /\ Own(c)' \subseteq Desc \ free'
                 /\ desc'[Data(c)'].addr = c /\ desc'[Data(c)'].writable = ~write'[c]
                 /\ desc'[Status(c)'].addr = head'[c] /\ desc'[Status(c)'].next = None
                 /\ ops'[head'[c]] = [write |-> write'[c], sector |-> c]
                 /\ info'[head'[c]] = info[head[c]]
      <3>1. write'[c] = write[c] /\ head'[c] = head[c]
        BY Zenon, <1>5, <1>7
      <3>2. desc'[Data(c)] = desc[Data(c)] /\ desc'[Status(c)] = desc[Status(c)]
        BY ZenonT(30), <1>8, <1>9
      <3>3. ops'[head[c]] = ops[head[c]] /\ info'[head[c]] = info[head[c]]
        BY ZenonT(30), <1>8, <1>9
      <3>4. Own(c) \subseteq Desc \ free'
        BY ZenonT(30), <1>8, <1>9
      <3> QED
        BY SMTT(30), <1>10, <3>1, <3>2, <3>3, <3>4 DEF IInv, RequestInv
    <2>2. ASSUME NEW c \in InFlight
          PROVE  /\ head'[c] # Data(c)' /\ head'[c] # Status(c)' /\ Data(c)' # Status(c)'
                 /\ info[head[c]].b = c /\ info[head[c]].status \in {0, 255}
      <3>1. /\ head[c] # Data(c) /\ head[c] # Status(c) /\ Data(c) # Status(c)
            /\ info[head[c]].b = c /\ info[head[c]].status \in {0, 255}
        BY ZenonT(30) DEF IInv, RequestInv
      <3> QED
        BY SMTT(30), <1>7, <1>10, <3>1
    <2>3. /\ Own(b)' \subseteq Desc \ free'
          /\ head'[b] # Data(b)' /\ head'[b] # Status(b)' /\ Data(b)' # Status(b)'
          /\ desc'[Data(b)'].addr = b /\ desc'[Data(b)'].writable = ~write'[b]
          /\ desc'[Status(b)'].addr = head'[b] /\ desc'[Status(b)'].next = None
          /\ ops'[head'[b]] = [write |-> write'[b], sector |-> b]
          /\ info'[head'[b]].b = b /\ info'[head'[b]].status \in {0, 255}
      BY SMTT(30), <1>2, <1>5, <1>6, <1>7, <1>8, <1>11
    <2>4. ASSUME NEW c \in InFlight
          PROVE  info'[head'[c]].b = c /\ info'[head'[c]].status \in {0, 255}
      <3>1. info'[head'[c]] = info[head[c]]
        BY Zenon, <2>1
      <3>2. info[head[c]].b = c /\ info[head[c]].status \in {0, 255}
        BY SMTT(30), <2>2
      <3> QED
        BY Zenon, <3>1, <3>2
    <2>5. ASSUME NEW c \in InFlight'
          PROVE  /\ Own(c)' \subseteq Desc \ free'
                 /\ head'[c] # Data(c)' /\ head'[c] # Status(c)' /\ Data(c)' # Status(c)'
                 /\ desc'[Data(c)'].addr = c /\ desc'[Data(c)'].writable = ~write'[c]
                 /\ desc'[Status(c)'].addr = head'[c] /\ desc'[Status(c)'].next = None
                 /\ ops'[head'[c]] = [write |-> write'[c], sector |-> c]
                 /\ info'[head'[c]].b = c /\ info'[head'[c]].status \in {0, 255}
      <3>1. CASE c \in InFlight
        BY SMTT(30), <2>1, <2>2, <2>4, <3>1
      <3>2. CASE c = b
        BY Zenon, <2>3, <3>2
      <3> QED
        BY ZenonT(30), <1>7, <3>1, <3>2
    <2> QED
      BY ZenonT(30), <2>5 DEF RequestInv
  <1>14. OwnInv'
    <2>1. \A c \in InFlight : Own(c)' \cap Own(b)' = {}
      BY SMTT(30), <1>8, <1>9, <1>10, <1>11
    <2>2. \A c, e \in InFlight : c # e => Own(c)' \cap Own(e)' = {}
      BY Zenon, <1>10 DEF IInv, OwnInv
    <2>3. \A d \in Desc \ free' : \E c \in InFlight' : d \in Own(c)'
      <3>1. ASSUME NEW d \in Desc \ free'
            PROVE  \E c \in InFlight' : d \in Own(c)'
        <4>1. CASE d \in free
          BY ZenonT(30), <1>2, <1>7, <1>11, <4>1
        <4>2. CASE d \notin free
          <5>1. PICK c \in InFlight : d \in Own(c)
            BY Zenon, <4>2 DEF IInv, OwnInv
          <5> QED
            BY Zenon, <1>7, <1>10, <5>1
        <4> QED
          BY Zenon, <4>1, <4>2
      <3> QED
        BY Zenon, <3>1
    <2> QED
      BY Zenon, <1>7, <2>1, <2>2, <2>3 DEF OwnInv
  <1>15. CallerInv'
    <2>1. \A c \in Buf : pc[c] # "publish" /\ pc[c] # "nodesc"
      <3>1. ~(Cardinality(free) < 3)
        BY <1>2, FreeFinite DEF IInv, TypeOK
      <3> QED
        BY Zenon, <1>2, <1>6, <3>1 DEF IInv, CallerInv, CallerAt
    <2>2. /\ pc'[b] = "publish" /\ busy'[b] /\ head'[b] = f /\ info'[f].status = 255
          /\ ring'[idx % NUM] = f
      BY SMTT(30), <1>4, <1>6, <1>8 DEF IInv, TypeOK
    <2>3. \A c \in Buf : c # b => pc'[c] = pc[c] /\ busy'[c] = busy[c] /\ head'[c] = head[c]
      BY SMTT(30), <1>4
    <2>4. \A c \in InFlight : info'[head[c]] = info[head[c]]
      BY ZenonT(30), <1>8, <1>9
    <2>5. \A h \in taken : h # f /\ info'[h].status = 255 /\ \E c \in InFlight' : head'[c] = h
      <3>1. ASSUME NEW h \in taken
            PROVE  h # f /\ info'[h].status = 255 /\ \E c \in InFlight' : head'[c] = h
        <4>1. info[h].status = 255 /\ \E c \in InFlight : head[c] = h
          BY Zenon DEF IInv, CallerInv, TakenInv
        <4>2. PICK c \in InFlight : head[c] = h
          BY Zenon, <4>1
        <4>3. h \in Desc \ free
          BY Zenon, <1>9, <4>2
        <4>4. h # f /\ info'[h] = info[h]
          BY Zenon, <1>8, <4>3
        <4>5. c \in InFlight' /\ head'[c] = h
          BY Zenon, <1>7, <4>2
        <4> QED
          BY Zenon, <4>1, <4>4, <4>5
      <3> QED
        BY Zenon, <3>1
    <2>6. lock' # "intr" /\ lock # "intr"
      BY Zenon, <1>2, VirtioAssumption
    <2>7. ~panicked' /\ (used_idx' # usedIdx' => irq' \/ lock' = "intr")
      BY ZenonT(30), <1>2, <1>5, <2>6 DEF IInv, CallerInv, CallerAt
    <2>8. ASSUME NEW c \in Buf
          PROVE  /\ head'[c] # None <=> pc'[c] \in {"publish", "asleep", "woken"}
                 /\ lock' = c <=> pc'[c] = "publish"
                 /\ pc'[c] # "nodesc"
                 /\ busy'[c] => head'[c] # None
                 /\ head'[c] # None /\ ~busy'[c] => pc'[c] = "woken" /\ info'[head'[c]].status = 0
                 /\ pc'[c] = "publish" => /\ info'[head'[c]].status = 255 /\ head'[c] \notin taken'
                                          /\ ring'[idx' % NUM] = head'[c]
      <3>1. CASE c = b
        BY SMTT(30), <1>2, <1>4, <1>5, <1>6, <2>2, <2>5, <3>1
      <3>2. CASE c # b
        <4>1. /\ head[c] # None <=> pc[c] \in {"publish", "asleep", "woken"}
              /\ busy[c] => head[c] # None
              /\ head[c] # None /\ ~busy[c] => pc[c] = "woken" /\ info[head[c]].status = 0
          BY ZenonT(30) DEF IInv, CallerInv, CallerAt
        <4>2. head[c] # None => c \in InFlight
          BY Zenon DEF InFlight
        <4> QED
          BY Zenon, <1>2, <1>5, <2>1, <2>3, <2>4, <3>2, <4>1, <4>2
      <3> QED
        BY ZenonT(30), <3>1, <3>2
    <2>9. \A c \in Buf : CallerAt(c)'
      BY Zenon, <2>8 DEF CallerAt
    <2>10. TakenInv'
      BY Zenon, <1>5, <2>5 DEF TakenInv
    <2> QED
      BY Zenon, <2>7, <2>9, <2>10 DEF CallerInv
  <1>16. Heads' = Heads \cup {f} /\ Heads \subseteq Desc \ free /\ f \notin Heads
    <2>1. Heads' = Heads \cup {f}
      BY Zenon, <1>7 DEF Heads
    <2>2. Heads \subseteq Desc \ free
      BY Zenon, <1>9 DEF Heads
    <2> QED
      BY Zenon, <2>1, <2>2
  <1>17. \A h \in Heads : info'[h] = info[h] /\ info[h].b \in InFlight
    <2>1. \A c \in InFlight : info'[head[c]] = info[head[c]] /\ info[head[c]].b = c
      BY ZenonT(30), <1>8, <1>9 DEF IInv, RequestInv
    <2> QED
      BY SMTT(30), <2>1 DEF Heads
  <1>18. f \notin taken
    BY SMTT(30), <1>9 DEF IInv, CallerInv, TakenInv
  <1>19. AvailInv'
    <2>1. Waiting' = Waiting \cup {f}
      BY SMTT(30), <1>5, <1>8, <1>16, <1>17, <1>18 DEF Waiting
    <2>2. PICK n \in Nat : n = Offered
      BY Zenon, OfferedFacts
    <2>3. n + 1 <= NUM /\ n = Dist(lastAvail, idx) /\ idx \in Index /\ lastAvail \in Index
      BY <1>6, <2>2, OfferedFacts, Sizes
    <2>4. Place(lastAvail, n) = idx % NUM
      BY Zenon, <2>3, PlaceFacts
    <2>5. Holds(ring, lastAvail, n, Waiting) /\ f \notin Waiting
      BY Zenon, <1>16, <2>2 DEF IInv, AvailInv, Waiting
    <2>6. ring \in [Desc -> Desc] /\ ring' \in [Desc -> Desc]
      BY ZenonT(30), <1>12 DEF IInv, TypeOK
    <2>7. Holds(ring', lastAvail, n + 1, Waiting \cup {f})
      BY ZenonT(30), <1>4, <1>6, <2>3, <2>4, <2>5, <2>6, HoldsAdd
    <2>8. Offered' = n + 1
      BY ZenonT(30), <1>2, <1>5, <2>3 DEF Offered
    <2>9. lastAvail' = lastAvail
      BY Zenon, <1>5
    <2> QED
      BY Zenon, <2>1, <2>7, <2>8, <2>9 DEF AvailInv, Holds, Place
  <1>20. UsedInv'
    <2>1. \A h \in Heads : busy'[info[h].b] <=> busy[info[h].b]
      BY SMTT(30), <1>4, <1>6, <1>17
    <2>2. info'[f].status = 255
      BY SMTT(30), <1>8
    <2>3. Answered' = Answered
      BY <1>16, <1>17, <2>1, <2>2 DEF Answered
    <2>4. UNCHANGED <<usedRing, used_idx, usedIdx>>
      BY Zenon, <1>5
    <2> QED
      BY Zenon, <2>3, <2>4 DEF IInv, UsedInv
  <1> QED
    BY Zenon, <1>12, <1>13, <1>14, <1>15, <1>19, <1>20 DEF IInv

\* The chain h is of the request for c, which the device makes and reports.
Transferred(h, c) ==
  /\ c \in Buf /\ head[c] = h /\ h \in taken /\ info[h].status = 255 /\ busy[c]
  /\ pc[c] \in {"asleep", "woken"}
  /\ IF write[c] THEN store' = [store EXCEPT ![c] = data[c]] /\ data' = data
                 ELSE data' = [data EXCEPT ![c] = store[c]] /\ store' = store
  /\ taken' = taken \ {h}
  /\ info' = [info EXCEPT ![h].status = 0]
  /\ usedRing' = [usedRing EXCEPT ![usedIdx % NUM] = h]
  /\ usedIdx' = Plus(usedIdx)
  /\ irq'
  /\ UNCHANGED <<busy, free, desc, ops, ring, idx, used_idx, lastAvail, lock, pc, head,
                 write, panicked>>

\* What the device does with a chain it has taken: it belongs to a caller that
\* waits, the data descriptor fits the request, and so the transfer is made.
LEMMA DeviceFinishFacts ==
  ASSUME IInv, NEW h \in Desc, DeviceFinish(h)
  PROVE  \E c \in InFlight : Transferred(h, c)
  <1>1. h \in taken /\ info[h].status = 255 /\ \E c \in InFlight : head[c] = h
    <2>1. TakenInv
      BY Zenon DEF IInv, CallerInv
    <2>2. h \in taken
      BY Zenon DEF DeviceFinish
    <2> QED
      BY <2>1, <2>2 DEF TakenInv
  <1>2. PICK c \in InFlight : head[c] = h
    BY Zenon, <1>1
  <1>3. c \in Buf /\ write[c] \in BOOLEAN /\ head[c] # None
    BY Zenon DEF IInv, TypeOK, InFlight
  <1>4. busy[c] /\ pc[c] \in {"asleep", "woken"}
    BY SMTT(30), <1>1, <1>2, <1>3 DEF IInv, CallerInv, CallerAt
  <1>5. /\ desc[h].next = Data(c) /\ desc[Data(c)].addr = c /\ desc[Data(c)].writable = ~write[c]
        /\ desc[desc[Data(c)].next].addr = h
        /\ ops[h] = [write |-> write[c], sector |-> c]
    BY ZenonT(30), <1>2 DEF IInv, RequestInv, Data, Status
  <1>6. ops[h].write = write[c] /\ ops[h].sector = c
    BY <1>5
  <1>7. ops[h].write # desc[Data(c)].writable
    BY <1>3, <1>5, <1>6, Zenon
  <1>8. /\ store' = IF ops[h].write THEN [store EXCEPT ![c] = data[c]] ELSE store
        /\ data' = IF ~ops[h].write THEN [data EXCEPT ![c] = store[c]] ELSE data
        /\ info' = [info EXCEPT ![h].status = 0]
        /\ taken' = taken \ {h}
        /\ usedRing' = [usedRing EXCEPT ![usedIdx % NUM] = h]
        /\ usedIdx' = Plus(usedIdx)
        /\ irq'
        /\ UNCHANGED <<busy, free, desc, ops, ring, idx, used_idx, lastAvail, lock, pc, head,
                       write, panicked>>
    BY Zenon, <1>5, <1>6, <1>7 DEF DeviceFinish, avail
  <1> QED
    BY ZenonT(30), <1>1, <1>2, <1>3, <1>4, <1>6, <1>8 DEF Transferred

\* The device finishes a chain.
LEMMA DeviceFinishIInv ==
  ASSUME Counting, IInv, NEW h \in Desc, DeviceFinish(h)
  PROVE  IInv'
  <1>1. PICK c \in InFlight : Transferred(h, c)
    BY Zenon, DeviceFinishFacts
  <1>2. /\ c \in Buf /\ head[c] = h /\ h \in taken /\ info[h].status = 255 /\ busy[c]
        /\ pc[c] \in {"asleep", "woken"}
    BY Zenon, <1>1 DEF Transferred
  <1>3. IF write[c] THEN store' = [store EXCEPT ![c] = data[c]] /\ data' = data
                    ELSE data' = [data EXCEPT ![c] = store[c]] /\ store' = store
    BY Zenon, <1>1 DEF Transferred
  <1>4. /\ taken' = taken \ {h}
        /\ info' = [info EXCEPT ![h].status = 0]
    BY Zenon, <1>1 DEF Transferred
  <1>5. /\ usedRing' = [usedRing EXCEPT ![usedIdx % NUM] = h]
        /\ usedIdx' = Plus(usedIdx)
        /\ irq'
    BY Zenon, <1>1 DEF Transferred
  <1>6. UNCHANGED <<busy, free, desc, ops, ring, idx, used_idx, lastAvail, lock, pc, head,
                    write, panicked>>
    BY Zenon, <1>1 DEF Transferred
  <1>7. PICK n \in Nat : n = Dist(used_idx, usedIdx)
    BY SMTT(30), DistFacts, Sizes DEF IInv, TypeOK
  <1>8. /\ used_idx \in Index /\ usedIdx \in Index /\ Plus(usedIdx) \in Index
        /\ Place(used_idx, n) = usedIdx % NUM /\ usedIdx % NUM \in Desc
    <2>1. used_idx \in Index /\ usedIdx \in Index
      BY Zenon DEF IInv, TypeOK
    <2> QED
      BY SMTT(30), <1>7, <2>1, PlusFacts, PlaceFacts
  <1>9. Holds(usedRing, used_idx, n, Answered) /\ Answered \in SUBSET Heads
    BY Zenon, <1>7 DEF IInv, UsedInv, Answered
  <1>10. n + 1 < NUM /\ Dist(used_idx, Plus(usedIdx)) = n + 1
    <2>1. n + 1 < NUM
      BY Zenon, <1>9, RingRoom
    <2> QED
      BY <1>7, <1>8, <2>1, DistFacts, Sizes
  <1>11. /\ info'[h].status = 0 /\ info'[h].b = info[h].b
         /\ \A d \in Desc : d # h => info'[d] = info[d]
    BY <1>4 DEF IInv, TypeOK
  <1>12. TypeOK'
    <2>1. info' \in [Desc -> [b : Buf \cup {None}, status : {0, 1, 255}]]
      <3>1. info' = [info EXCEPT ![h].status = 0]
        BY Zenon, <1>4
      <3>2. info \in [Desc -> [b : Buf \cup {None}, status : {0, 1, 255}]]
        BY Zenon DEF IInv, TypeOK
      <3> QED
        BY <3>1, <3>2
    <2>2. store' \in [Buf -> Value] /\ data' \in [Buf -> Value]
      <3>1. store \in [Buf -> Value] /\ data \in [Buf -> Value]
        BY Zenon DEF IInv, TypeOK
      <3>2. CASE write[c]
        BY Zenon, <1>3, <3>1, <3>2
      <3>3. CASE ~write[c]
        BY Zenon, <1>3, <3>1, <3>3
      <3> QED
        BY Zenon, <3>2, <3>3
    <2>3. usedRing' \in [Desc -> Desc] /\ usedIdx' \in Index /\ taken' \subseteq Desc
      BY Zenon, <1>4, <1>5, <1>8 DEF IInv, TypeOK
    <2>4. irq' \in BOOLEAN
      BY Zenon, <1>5
    <2> QED
      BY Zenon, <1>6, <2>1, <2>2, <2>3, <2>4 DEF IInv, TypeOK
  <1>13. /\ InFlight' = InFlight /\ Heads' = Heads
         /\ \A b : Own(b)' = Own(b) /\ Data(b)' = Data(b) /\ Status(b)' = Status(b)
    BY Zenon, <1>6 DEF InFlight, Heads, Own, Data, Status
  <1>14. Heads \subseteq Desc
    <2>1. \A b \in InFlight : head[b] \in Desc
      BY Zenon DEF IInv, TypeOK, InFlight
    <2> QED
      BY Zenon, <2>1 DEF Heads
  <1>15. RequestInv'
    <2>1. \A b \in InFlight : info'[head[b]].b = info[head[b]].b
      BY Zenon, <1>11, <1>14 DEF Heads
    <2>2. \A b \in InFlight : info'[head[b]].status \in {0, 255}
      <3>1. \A b \in InFlight : info[head[b]].status \in {0, 255}
        BY ZenonT(30) DEF IInv, RequestInv
      <3> QED
        BY <1>11, <1>14, <3>1 DEF Heads
    <2>3. UNCHANGED <<free, desc, ops, head, write>>
      BY Zenon, <1>6
    <2> QED
      BY SMTT(30), <1>13, <2>1, <2>2, <2>3 DEF IInv, RequestInv
  <1>16. OwnInv'
    BY Zenon, <1>6, <1>13 DEF IInv, OwnInv
  <1>17. CallerInv'
    <2>1. UNCHANGED <<free, head, pc, busy, lock, ring, idx, panicked>>
      BY Zenon, <1>6
    <2>2. ASSUME NEW b \in Buf, head[b] # None, b # c
          PROVE  info'[head[b]] = info[head[b]] /\ (head[b] \notin taken => head[b] \notin taken')
      <3>1. b \in InFlight
        BY Zenon, <2>2 DEF InFlight
      <3>2. head[b] # h /\ head[b] \in Desc
        BY <1>2, <1>14, <2>2, <3>1, HeadFacts
      <3> QED
        BY Zenon, <1>4, <1>11, <3>2
    <2>3. pc[c] # "publish" /\ busy[c] /\ head[c] # None
      BY Zenon, <1>2 DEF InFlight
    <2>4. \A d \in taken' : info'[d].status = 255 /\ \E b \in InFlight : head[b] = d
      <3>1. \A d \in taken' : d \in taken /\ d # h /\ d \in Desc
        BY Zenon, <1>4 DEF IInv, TypeOK
      <3> QED
        BY SMTT(30), <1>11, <3>1 DEF IInv, CallerInv, TakenInv
    <2>5. irq'
      BY Zenon, <1>5
    <2>6. ASSUME NEW b \in Buf PROVE CallerAt(b)'
      <3>1. CallerAt(b)
        BY Zenon DEF IInv, CallerInv
      <3>2. CASE b = c
        BY Zenon, <2>1, <2>3, <3>1, <3>2 DEF CallerAt
      <3>3. CASE b # c
        BY Zenon, <2>1, <2>2, <3>1, <3>3 DEF CallerAt
      <3> QED
        BY Zenon, <3>2, <3>3
    <2>7. TakenInv'
      BY <1>13, <2>1, <2>4 DEF TakenInv
    <2> QED
      BY Zenon, <2>1, <2>5, <2>6, <2>7 DEF IInv, CallerInv
  <1>18. AvailInv'
    <2>1. Waiting' = Waiting
      <3>1. \A d \in Heads : (info'[d].status = 255 /\ d \notin taken')
                               <=> (info[d].status = 255 /\ d \notin taken)
        BY <1>2, <1>4, <1>11, <1>14
      <3> QED
        BY Zenon, <1>13, <3>1 DEF Waiting
    <2>2. UNCHANGED <<ring, idx, lastAvail, lock>>
      BY Zenon, <1>6
    <2> QED
      BY Zenon, <2>1, <2>2 DEF IInv, AvailInv, Offered
  <1>19. UsedInv'
    <2>1. info[h].b = c
      BY ZenonT(30), <1>2 DEF IInv, RequestInv
    <2>2. h \in Heads /\ h \notin Answered
      BY <1>2 DEF Heads, Answered
    <2>3. \A d \in Heads : info'[d].b = info[d].b
      BY Zenon, <1>11, <1>14
    <2>4. busy' = busy /\ busy[info[h].b]
      BY <1>2, <1>6, <2>1, Zenon
    <2>5. Answered' = Answered \cup {h}
      BY Zenon, <1>11, <1>13, <1>14, <2>2, <2>3, <2>4 DEF Answered
    <2>6. usedRing \in [Desc -> Desc] /\ usedRing' \in [Desc -> Desc]
      BY Zenon, <1>12 DEF IInv, TypeOK
    <2>7. n + 1 <= NUM /\ usedRing' = [usedRing EXCEPT ![Place(used_idx, n)] = h]
      BY SMTT(30), <1>5, <1>8, <1>10, Sizes
    <2>8. Holds(usedRing', used_idx, n + 1, Answered \cup {h})
      BY Zenon, <1>8, <1>9, <2>2, <2>6, <2>7, HoldsAdd
    <2>9. used_idx' = used_idx /\ Dist(used_idx', usedIdx') = n + 1
      BY Zenon, <1>5, <1>6, <1>10
    <2> QED
      BY Zenon, <2>5, <2>8, <2>9 DEF UsedInv
  <1> QED
    BY Zenon, <1>12, <1>15, <1>16, <1>17, <1>18, <1>19 DEF IInv

\* The request for b is finished, its descriptors are free and its caller returns.
Returned(b) ==
  /\ b \in InFlight /\ pc[b] = "woken" /\ lock = None /\ ~busy[b]
  /\ info[head[b]].status = 0
  /\ info' = [info EXCEPT ![head[b]].b = None]
  /\ panicked' = FALSE
  /\ free' = free \cup Own(b)
  /\ desc' = [d \in Desc |-> IF d \in Own(b) THEN Clear ELSE desc[d]]
  /\ head' = [head EXCEPT ![b] = None]
  /\ pc' = [c \in Buf |-> IF c = b THEN "idle"
                          ELSE IF pc[c] = "nodesc" THEN "alloc" ELSE pc[c]]
  /\ UNCHANGED <<store, data, busy, ops, ring, idx, usedRing, usedIdx, used_idx, lastAvail,
                 taken, irq, lock, write>>

\* What free_chain() and the return do to a finished request.
LEMMA FinishFacts ==
  ASSUME IInv, NEW b \in Buf, Finish(b)
  PROVE  Returned(b)
  <1>1. pc[b] = "woken" /\ lock = None /\ ~busy[b]
    BY Zenon DEF Finish, Free
  <1>2. b \in InFlight /\ info[head[b]].status = 0
    BY Zenon, <1>1 DEF IInv, CallerInv, CallerAt, InFlight
  <1>3. Chain(head[b]) = Own(b)
    BY Zenon, <1>2, ChainFacts
  <1>4. free \cap Own(b) = {}
    <2>1. Own(b) \subseteq Desc \ free
      BY Zenon, <1>2 DEF IInv, RequestInv
    <2> QED
      BY Zenon, <2>1
  <1> QED
    BY Zenon, <1>1, <1>2, <1>3, <1>4
       DEF Returned, Finish, Free, WakeFreeAnd, buffers, avail, used, device

\* The descriptors of a finished request are freed, and its caller returns.
LEMMA FinishIInv ==
  ASSUME IInv, NEW b \in Buf, Finish(b)
  PROVE  IInv'
  <1>1. Returned(b)
    BY Zenon, FinishFacts
  <1>2. b \in InFlight /\ pc[b] = "woken" /\ lock = None /\ ~busy[b] /\ info[head[b]].status = 0
    BY Zenon, <1>1 DEF Returned
  <1>3. /\ info' = [info EXCEPT ![head[b]].b = None]
        /\ desc' = [d \in Desc |-> IF d \in Own(b) THEN Clear ELSE desc[d]]
    BY Zenon, <1>1 DEF Returned
  <1>4. /\ panicked' = FALSE
        /\ free' = free \cup Own(b)
        /\ head' = [head EXCEPT ![b] = None]
    BY Zenon, <1>1 DEF Returned
  <1>5. pc' = [c \in Buf |-> IF c = b THEN "idle"
                             ELSE IF pc[c] = "nodesc" THEN "alloc" ELSE pc[c]]
    BY Zenon, <1>1 DEF Returned
  <1>6. UNCHANGED <<store, data, busy, ops, ring, idx, usedRing, usedIdx, used_idx, lastAvail,
                    taken, irq, lock, write>>
    BY Zenon, <1>1 DEF Returned
  <1>7. /\ \A c \in InFlight : Own(c) \subseteq Desc \ free /\ Own(c) \subseteq Desc
        /\ \A c : head[c] \in Own(c) /\ Data(c) \in Own(c) /\ Status(c) \in Own(c)
    <2>1. \A c \in InFlight : Own(c) \subseteq Desc \ free
      BY ZenonT(30) DEF IInv, RequestInv
    <2> QED
      BY Zenon, <2>1 DEF Own
  <1>8. InFlight' = InFlight \ {b} /\ \A c \in InFlight' : head'[c] = head[c]
    BY <1>2, <1>4 DEF IInv, TypeOK, InFlight
  <1>9. \A c \in InFlight' : Own(c) \cap Own(b) = {}
    BY Zenon, <1>2, <1>8 DEF IInv, OwnInv
  <1>10. /\ \A d \in Desc \ Own(b) : desc'[d] = desc[d] /\ info'[d] = info[d]
         /\ \A d \in Own(b) : desc'[d] = Clear
    <2>1. head[b] \in Desc /\ info \in [Desc -> [b : Buf \cup {None}, status : {0, 1, 255}]]
      BY Zenon, <1>2, <1>7 DEF IInv, TypeOK
    <2> QED
      BY <1>2, <1>3, <1>7, <2>1
  <1>11. \A c \in InFlight' : Data(c)' = Data(c) /\ Status(c)' = Status(c) /\ Own(c)' = Own(c)
    <2>1. ASSUME NEW c \in InFlight'
          PROVE  Data(c)' = Data(c) /\ Status(c)' = Status(c)
      <3>1. Own(c) \subseteq Desc \ Own(b) /\ head'[c] = head[c]
        BY Zenon, <1>7, <1>8, <1>9
      <3> QED
        BY ZenonT(30), <1>7, <1>10, <3>1 DEF Data, Status
    <2> QED
      BY Zenon, <1>8, <2>1 DEF Own
  <1>12. TypeOK'
    <2>1. info' \in [Desc -> [b : Buf \cup {None}, status : {0, 1, 255}]]
      <3>1. info \in [Desc -> [b : Buf \cup {None}, status : {0, 1, 255}]]
        BY Zenon DEF IInv, TypeOK
      <3>2. PICK h \in Desc : h = head[b]
        BY Zenon, <1>2, <1>7
      <3>3. info' = [info EXCEPT ![h].b = None]
        BY Zenon, <1>3, <3>2
      <3> QED
        BY SMTT(30), <3>1, <3>3
    <2>2. desc' \in [Desc -> [addr : Desc \cup Buf \cup {None}, next : Desc \cup {None},
                              writable : BOOLEAN]]
      BY Zenon, <1>3 DEF IInv, TypeOK, Clear
    <2>3. head' \in [Buf -> Desc \cup {None}]
      BY Zenon, <1>4 DEF IInv, TypeOK
    <2>4. pc' \in [Buf -> {"idle", "alloc", "nodesc", "publish", "asleep", "woken"}]
      BY Zenon, <1>5 DEF IInv, TypeOK
    <2>5. free' \subseteq Desc
      BY Zenon, <1>2, <1>4, <1>7 DEF IInv, TypeOK
    <2>6. panicked' \in BOOLEAN
      BY ZenonT(30), <1>4
    <2> QED
      BY Zenon, <1>6, <2>1, <2>2, <2>3, <2>4, <2>5, <2>6 DEF IInv, TypeOK
  <1>13. RequestInv'
    <2>1. ASSUME NEW c \in InFlight'
          PROVE  /\ Own(c)' \subseteq Desc \ free'
                 /\ head'[c] # Data(c)' /\ head'[c] # Status(c)' /\ Data(c)' # Status(c)'
                 /\ desc'[Data(c)'].addr = c /\ desc'[Data(c)'].writable = ~write'[c]
                 /\ desc'[Status(c)'].addr = head'[c] /\ desc'[Status(c)'].next = None
                 /\ ops'[head'[c]] = [write |-> write'[c], sector |-> c]
                 /\ info'[head'[c]].b = c /\ info'[head'[c]].status \in {0, 255}
      <3>1. c \in InFlight /\ head'[c] = head[c] /\ write' = write /\ ops' = ops
        BY Zenon, <1>6, <1>8
      <3>2. Own(c) \subseteq Desc \ Own(b)
        BY Zenon, <1>7, <1>9, <3>1
      <3>3. /\ desc'[Data(c)] = desc[Data(c)] /\ desc'[Status(c)] = desc[Status(c)]
            /\ info'[head[c]] = info[head[c]]
        BY Zenon, <1>7, <1>10, <3>2
      <3>4. Own(c) \subseteq Desc \ free'
        BY Zenon, <1>4, <1>7, <3>1, <3>2
      <3>5. /\ head[c] # Data(c) /\ head[c] # Status(c) /\ Data(c) # Status(c)
            /\ desc[Data(c)].addr = c /\ desc[Data(c)].writable = ~write[c]
            /\ desc[Status(c)].addr = head[c] /\ desc[Status(c)].next = None
            /\ ops[head[c]] = [write |-> write[c], sector |-> c]
            /\ info[head[c]].b = c /\ info[head[c]].status \in {0, 255}
        BY ZenonT(30), <3>1 DEF IInv, RequestInv
      <3> QED
        BY SMTT(30), <1>11, <3>1, <3>3, <3>4, <3>5
    <2> QED
      BY Zenon, <2>1 DEF RequestInv
  <1>14. OwnInv'
    <2>1. \A c, e \in InFlight' : c # e => Own(c)' \cap Own(e)' = {}
      BY Zenon, <1>8, <1>11 DEF IInv, OwnInv
    <2>2. ASSUME NEW d \in Desc \ free'
          PROVE  \E c \in InFlight' : d \in Own(c)'
      <3>1. d \in Desc \ free /\ d \notin Own(b)
        BY Zenon, <1>4
      <3>2. PICK c \in InFlight : d \in Own(c)
        BY Zenon, <3>1 DEF IInv, OwnInv
      <3> QED
        BY Zenon, <1>8, <1>11, <3>1, <3>2
    <2> QED
      BY Zenon, <2>1, <2>2 DEF OwnInv
  <1>15. /\ Heads' = Heads \ {head[b]} /\ head[b] \in Heads
         /\ \A h \in Heads' : info'[h] = info[h] /\ info[h].b # b
    <2>1. \A c \in InFlight' : head[c] # head[b]
      BY Zenon, <1>2, <1>8, HeadFacts
    <2>2. Heads' = Heads \ {head[b]} /\ head[b] \in Heads
      BY Zenon, <1>2, <1>8, <2>1 DEF Heads
    <2>3. \A c \in InFlight' : info'[head[c]] = info[head[c]] /\ info[head[c]].b = c
      <3>1. ASSUME NEW c \in InFlight'
            PROVE  info'[head[c]] = info[head[c]] /\ info[head[c]].b = c
        <4>1. c \in InFlight /\ head[c] \in Desc \ Own(b)
          BY Zenon, <1>7, <1>8, <1>9
        <4> QED
          BY ZenonT(30), <1>10, <4>1 DEF IInv, RequestInv
      <3> QED
        BY Zenon, <3>1
    <2> QED
      BY <1>8, <2>2, <2>3 DEF Heads
  <1>16. CallerInv'
    <2>1. lock \notin Buf /\ lock' = lock
      BY Zenon, <1>2, <1>6, VirtioAssumption
    <2>2. \A c \in Buf : pc'[c] # "nodesc" /\ pc[c] # "publish" /\ pc'[c] # "publish"
      BY Zenon, <1>5, <2>1 DEF IInv, CallerInv, CallerAt
    <2>3. pc'[b] = "idle" /\ head'[b] = None
      BY <1>2, <1>4, <1>5 DEF IInv, TypeOK
    <2>4. \A c \in Buf : c # b => /\ head'[c] = head[c]
                                  /\ pc'[c] = pc[c] \/ (pc[c] = "nodesc" /\ pc'[c] = "alloc")
      BY <1>4, <1>5
    <2>5. \A c \in Buf : c # b /\ head[c] # None => info'[head[c]] = info[head[c]]
      BY ZenonT(30), <1>8, <1>15 DEF InFlight, Heads
    <2>6. \A h \in taken : info'[h].status = 255 /\ \E c \in InFlight' : head'[c] = h
      <3>1. ASSUME NEW h \in taken
            PROVE  info'[h].status = 255 /\ \E c \in InFlight' : head'[c] = h
        <4>1. info[h].status = 255 /\ \E c \in InFlight : head[c] = h
          BY Zenon DEF IInv, CallerInv, TakenInv
        <4>2. PICK c \in InFlight : head[c] = h
          BY Zenon, <4>1
        <4>3. c # b
          BY SMTT(30), <1>2, <4>1, <4>2
        <4>4. c \in InFlight' /\ h \in Heads'
          BY Zenon, <1>8, <4>2, <4>3 DEF Heads
        <4> QED
          BY ZenonT(30), <1>8, <1>15, <4>1, <4>2, <4>4
      <3> QED
        BY Zenon, <3>1
    <2>7. busy' = busy /\ ~busy[b] /\ taken' = taken /\ ~panicked'
      BY Zenon, <1>2, <1>4, <1>6
    <2>8. used_idx' # usedIdx' => irq' \/ lock' = "intr"
      BY Zenon, <1>6 DEF IInv, CallerInv, CallerAt
    <2>9. ASSUME NEW c \in Buf
          PROVE  /\ head'[c] # None <=> pc'[c] \in {"publish", "asleep", "woken"}
                 /\ busy'[c] => head'[c] # None
                 /\ head'[c] # None /\ ~busy'[c] => pc'[c] = "woken" /\ info'[head'[c]].status = 0
      <3>1. CASE c = b
        BY Zenon, <2>3, <2>7, <3>1
      <3>2. CASE c # b
        <4>1. /\ head[c] # None <=> pc[c] \in {"publish", "asleep", "woken"}
              /\ busy[c] => head[c] # None
              /\ head[c] # None /\ ~busy[c] => pc[c] = "woken" /\ info[head[c]].status = 0
          BY Zenon DEF IInv, CallerInv, CallerAt
        <4> QED
          BY Zenon, <2>4, <2>5, <2>7, <3>2, <4>1
      <3> QED
        BY Zenon, <3>1, <3>2
    <2>10. \A c \in Buf : CallerAt(c)'
      BY Zenon, <2>1, <2>2, <2>9 DEF CallerAt
    <2>11. TakenInv'
      BY Zenon, <2>6, <2>7 DEF TakenInv
    <2> QED
      BY Zenon, <2>7, <2>8, <2>10, <2>11 DEF CallerInv
  <1>17. AvailInv'
    <2>1. head[b] \notin Waiting
      BY <1>2 DEF Waiting
    <2>2. Waiting' = Waiting
      BY <1>2, <1>6, <1>15, <2>1 DEF Waiting
    <2>3. UNCHANGED <<ring, idx, lastAvail, lock>>
      BY Zenon, <1>6
    <2> QED
      BY Zenon, <2>2, <2>3 DEF IInv, AvailInv, Offered
  <1>18. UsedInv'
    <2>1. busy' = busy /\ ~busy[b] /\ info[head[b]].b = b
      BY ZenonT(30), <1>2, <1>6 DEF IInv, RequestInv
    <2>2. head[b] \notin Answered
      BY <2>1, Zenon DEF Answered
    <2>3. Answered' = Answered
      BY <1>15, <2>1, <2>2 DEF Answered
    <2>4. UNCHANGED <<usedRing, usedIdx, used_idx>>
      BY Zenon, <1>6
    <2> QED
      BY Zenon, <2>3, <2>4 DEF IInv, UsedInv
  <1> QED
    BY Zenon, <1>12, <1>13, <1>14, <1>16, <1>17, <1>18 DEF IInv

\* Every step keeps the invariant.
LEMMA NextIInv ==
  ASSUME Counting, IInv, [Next]_vars
  PROVE  IInv'
  <1>1. CASE UNCHANGED vars
    <2>1. /\ UNCHANGED <<store, data, busy, free, desc, ops, info, ring, idx, usedRing, usedIdx,
                         used_idx, lastAvail, taken, irq, lock, pc, head, write, panicked>>
      BY Zenon, <1>1 DEF vars, buffers, table, avail, used, device
    <2>2. TypeOK'
      BY Zenon, <2>1 DEF IInv, TypeOK
    <2>3. RequestInv' /\ OwnInv'
      BY Zenon, <2>1, SameRequests
    <2>4. CallerInv'
      BY Zenon, <2>1, MoveCaller
    <2>5. AvailInv' /\ UsedInv'
      BY Zenon, <2>1, SameAvail, SameUsed
    <2> QED
      BY Zenon, <2>2, <2>3, <2>4, <2>5 DEF IInv
  <1>2. ASSUME NEW b \in Buf, NEW w \in BOOLEAN, NEW v \in Value, Call(b, w, v)
        PROVE  IInv'
    BY Zenon, <1>2, CallIInv
  <1>3. ASSUME NEW b \in Buf, AllocFails(b) \/ Format(b) \/ Publish(b)
        PROVE  IInv'
    BY Zenon, <1>3, AllocFailsIInv, FormatIInv, PublishIInv
  <1>4. ASSUME NEW b \in Buf, WaitAgain(b) \/ Finish(b) \/ Kill(b)
        PROVE  IInv'
    BY Zenon, <1>4, WaitAgainIInv, FinishIInv, KillIInv
  <1>5. CASE DeviceTake \/ \E h \in Desc : DeviceFinish(h)
    BY Zenon, <1>5, DeviceTakeIInv, DeviceFinishIInv
  <1>6. CASE IntrStart \/ IntrStep \/ IntrTested \/ IntrEnd
    BY Zenon, <1>6, IntrStartIInv, IntrStepIInv, IntrTestedIInv, IntrEndIInv
  <1> QED
    BY Zenon, <1>1, <1>2, <1>3, <1>4, <1>5, <1>6 DEF Next

-----------------------------------------------------------------------------
(* The refinement of BlockDisk *)

\* The two variables of BlockDisk that the driver's state stands for.
Req == [b \in Buf |-> IF pc[b] = "idle" THEN None ELSE [write |-> write[b], block |-> b]]
Done == [b \in Buf |-> IF head[b] = None THEN FALSE ELSE info[head[b]].status = 0]

\* A step that leaves the disk, the data and both of these alone.
LEMMA Stutter ==
  ASSUME UNCHANGED <<store, data>>, Req' = Req, Done' = Done
  PROVE  [Disk!Next]_Disk!vars
  BY Zenon DEF Disk!vars, Req, Done

\* The steps of a caller that waits, and of the handler, are none of the disk's.
LEMMA SameCalls ==
  ASSUME IInv, UNCHANGED <<store, data, head, info, write>>,
         pc' \in [Buf -> {"idle", "alloc", "nodesc", "publish", "asleep", "woken"}],
         \A b \in Buf : pc'[b] = "idle" <=> pc[b] = "idle"
  PROVE  [Disk!Next]_Disk!vars
  <1>1. Req' = Req
    BY Zenon DEF Req
  <1>2. Done' = Done
    BY Zenon DEF Done
  <1> QED
    BY Zenon, <1>1, <1>2, Stutter

\* The call of virtio_disk_rw() is the call.
LEMMA CallRefines ==
  ASSUME IInv, NEW b \in Buf, NEW w \in BOOLEAN, NEW v \in Value, Call(b, w, v)
  PROVE  Disk!Call(b)
  <1>1. /\ pc[b] = "idle" /\ data' = [data EXCEPT ![b] = v] /\ write' = [write EXCEPT ![b] = w]
        /\ pc' = [pc EXCEPT ![b] = "alloc"] /\ UNCHANGED <<store, head, info>>
    BY Zenon DEF Call, Goto, table
  <1>2. PICK r \in [write : BOOLEAN, block : Buf] : r = [write |-> w, block |-> b]
    BY Zenon
  <1>3. Req[b] = None
    BY Zenon, <1>1 DEF Req
  <1>4. Req' = [Req EXCEPT ![b] = r]
    <2>1. \A c \in Buf : Req'[c] = IF c = b THEN r ELSE Req[c]
      BY Zenon, <1>1, <1>2 DEF IInv, TypeOK, Req
    <2> QED
      BY ZenonT(30), <2>1 DEF Req
  <1>5. Done' = Done
    BY Zenon, <1>1 DEF Done
  <1> QED
    BY Zenon, <1>1, <1>2, <1>3, <1>4, <1>5 DEF Disk!Call, Disk!Request, Req, Done

\* Formatting a request is no step of the disk: its status byte says not yet.
LEMMA FormatRefines ==
  ASSUME Counting, IInv, NEW b \in Buf, Format(b)
  PROVE  [Disk!Next]_Disk!vars
  <1>1. PICK f, s, t \in free : Written(b, f, s, t)
    BY Zenon, FormatFacts
  <1>2. /\ pc[b] = "alloc" /\ pc' = [pc EXCEPT ![b] = "publish"]
        /\ head' = [head EXCEPT ![b] = f]
        /\ info' = [info EXCEPT ![f] = [b |-> b, status |-> 255]]
        /\ UNCHANGED <<store, data, write>>
    BY Zenon, <1>1 DEF Written
  <1>3. Req' = Req
    BY <1>2 DEF Req
  <1>4. ASSUME NEW c \in Buf PROVE Done'[c] = Done[c]
    <2>1. f \in Desc /\ f # None /\ head[b] = None
      <3>1. f \in Desc
        BY Zenon DEF IInv, TypeOK
      <3>2. CallerAt(b)
        BY Zenon DEF IInv, CallerInv
      <3> QED
        BY Zenon, <1>2, <3>1, <3>2, VirtioAssumption DEF CallerAt, Desc
    <2>2. CASE c = b
      <3>1. head'[b] = f /\ info'[f].status = 255
        BY SMTT(30), <1>2, <2>1 DEF IInv, TypeOK
      <3>2. Done'[b] = (info'[f].status = 0) /\ Done[b] = FALSE
        BY Zenon, <2>1, <3>1 DEF Done
      <3>3. (info'[f].status = 0) = FALSE
        BY SMTT(30), <3>1
      <3> QED
        BY <2>2, <3>2, <3>3, Zenon
    <2>3. CASE c # b /\ head[c] # None
      <3>1. Own(c) \subseteq Desc \ free
        BY ZenonT(30), <2>3 DEF IInv, RequestInv, InFlight
      <3>2. head[c] # f /\ head[c] \in Desc /\ head'[c] = head[c]
        BY SMTT(30), <1>2, <2>3, <3>1 DEF Own
      <3>3. info'[head[c]] = info[head[c]]
        BY SMTT(30), <1>2, <3>2
      <3> QED
        BY Zenon, <3>2, <3>3 DEF Done
    <2>4. CASE c # b /\ head[c] = None
      BY ZenonT(30), <1>2, <2>4 DEF IInv, TypeOK, Done
    <2> QED
      BY Zenon, <2>2, <2>3, <2>4
  <1>5. Done' = Done
    BY Zenon, <1>4 DEF Done
  <1> QED
    BY Zenon, <1>2, <1>3, <1>5, Stutter

\* The device's work on a chain is the transfer of its caller.
LEMMA DeviceFinishRefines ==
  ASSUME IInv, NEW h \in Desc, DeviceFinish(h)
  PROVE  \E c \in Buf : Disk!Transfer(c)
  <1>1. PICK c \in InFlight : Transferred(h, c)
    BY Zenon, DeviceFinishFacts
  <1>2. /\ c \in Buf /\ head[c] = h /\ info[h].status = 255 /\ pc[c] \in {"asleep", "woken"}
        /\ IF write[c] THEN store' = [store EXCEPT ![c] = data[c]] /\ data' = data
                       ELSE data' = [data EXCEPT ![c] = store[c]] /\ store' = store
        /\ info' = [info EXCEPT ![h].status = 0]
        /\ UNCHANGED <<pc, head, write>>
    BY Zenon, <1>1 DEF Transferred
  <1>3. /\ info'[h].status = 0 /\ \A d \in Desc : d # h => info'[d] = info[d]
        /\ head \in [Buf -> Desc \cup {None}] /\ h # None
    BY <1>2, VirtioAssumption DEF IInv, TypeOK
  <1>4. Req[c] = [write |-> write[c], block |-> c] /\ Req' = Req
    BY <1>2 DEF Req
  <1>5. Req[c] # None /\ Req[c].write = write[c] /\ Req[c].block = c
    <2>1. Req[c] \in [write : BOOLEAN, block : Buf]
      BY <1>2, <1>4 DEF IInv, TypeOK
    <2> QED
      BY <1>4, <2>1, VirtioAssumption
  <1>6. Done[c] = FALSE
    <2>1. Done[c] = (info[h].status = 0)
      BY Zenon, <1>2, <1>3 DEF Done
    <2>2. (info[h].status = 0) = FALSE
      BY <1>2
    <2> QED
      BY <2>1, <2>2, Zenon
  <1>7. Done' = [Done EXCEPT ![c] = TRUE]
    <2>1. ASSUME NEW b \in Buf PROVE Done'[b] = IF b = c THEN TRUE ELSE Done[b]
      <3>1. CASE b = c
        BY ZenonT(30), <1>2, <1>3, <3>1 DEF Done
      <3>2. CASE b # c /\ head[b] # None
        <4>1. b \in InFlight
          BY Zenon, <3>2 DEF InFlight
        <4>2. head[b] # h /\ head[b] \in Desc
          BY <1>2, <1>3, <3>2, <4>1, HeadFacts
        <4>3. info'[head[b]] = info[head[b]] /\ head'[b] = head[b]
          BY <1>2, <1>3, <4>2
        <4> QED
          BY Zenon, <3>2, <4>3 DEF Done
      <3>3. CASE b # c /\ head[b] = None
        BY Zenon, <1>2, <3>3 DEF Done
      <3> QED
        BY Zenon, <3>1, <3>2, <3>3
    <2>2. Done' = [b \in Buf |-> IF b = c THEN TRUE ELSE Done[b]]
      BY Zenon, <2>1 DEF Done
    <2>3. Done = [b \in Buf |-> Done[b]]
      BY Zenon DEF Done
    <2> HIDE DEF Done
    <2> QED
      BY Zenon, <2>2, <2>3
  <1>8. IF Req[c].write THEN store' = [store EXCEPT ![Req[c].block] = data[c]] /\ data' = data
                        ELSE data' = [data EXCEPT ![c] = store[Req[c].block]] /\ store' = store
    BY <1>2, <1>5
  <1> QED
    BY ZenonT(30), <1>2, <1>4, <1>5, <1>6, <1>7, <1>8 DEF Disk!Transfer, Req, Done

\* The return of virtio_disk_rw() is the return.
LEMMA FinishRefines ==
  ASSUME IInv, NEW b \in Buf, Finish(b)
  PROVE  Disk!Return(b)
  <1>1. /\ b \in InFlight /\ pc[b] = "woken" /\ info[head[b]].status = 0
        /\ info' = [info EXCEPT ![head[b]].b = None]
        /\ head' = [head EXCEPT ![b] = None]
        /\ pc' = [c \in Buf |-> IF c = b THEN "idle"
                                ELSE IF pc[c] = "nodesc" THEN "alloc" ELSE pc[c]]
        /\ UNCHANGED <<store, data, write>>
    BY Zenon, FinishFacts DEF Returned
  <1>2. /\ head \in [Buf -> Desc \cup {None}] /\ head[b] \in Desc /\ head[b] # None
    BY Zenon, <1>1, VirtioAssumption DEF IInv, TypeOK, InFlight
  <1>3. Done[b]
    BY ZenonT(30), <1>1, <1>2 DEF Done
  <1>4. Req' = [Req EXCEPT ![b] = None]
    <2>1. \A c \in Buf : Req'[c] = IF c = b THEN None ELSE Req[c]
      BY Zenon, <1>1 DEF Req
    <2>2. Req' = [c \in Buf |-> IF c = b THEN None ELSE Req[c]]
      BY SMTT(30), <2>1 DEF Req
    <2>3. Req = [c \in Buf |-> Req[c]]
      BY Zenon DEF Req
    <2> HIDE DEF Req
    <2> QED
      BY Zenon, <2>2, <2>3
  <1>5. Done' = [Done EXCEPT ![b] = FALSE]
    <2>1. ASSUME NEW c \in Buf PROVE Done'[c] = IF c = b THEN FALSE ELSE Done[c]
      <3>1. CASE c = b
        BY Zenon, <1>1, <1>2, <3>1 DEF Done
      <3>2. CASE c # b
        <4>1. head'[c] = head[c]
          BY Zenon, <1>1, <1>2, <3>2
        <4>2. head[c] # None => head[c] # head[b] /\ head[c] \in Desc
          BY Zenon, <1>1, <1>2, <3>2, HeadFacts DEF InFlight
        <4>3. head[c] # None => info'[head[c]].status = info[head[c]].status
          BY <1>1, <4>2
        <4> QED
          BY Zenon, <3>2, <4>1, <4>3 DEF Done
      <3> QED
        BY Zenon, <3>1, <3>2
    <2>2. Done' = [c \in Buf |-> IF c = b THEN FALSE ELSE Done[c]]
      BY Zenon, <2>1 DEF Done
    <2>3. Done = [c \in Buf |-> Done[c]]
      BY Zenon DEF Done
    <2> HIDE DEF Done
    <2> QED
      BY Zenon, <2>2, <2>3
  <1> QED
    BY Zenon, <1>1, <1>3, <1>4, <1>5 DEF Disk!Return, Req, Done

\* Every step of the driver, the device and the handler is one of BlockDisk or none.
LEMMA NextRefines ==
  ASSUME Counting, IInv, [Next]_vars
  PROVE  [Disk!Next]_Disk!vars
  <1>1. CASE UNCHANGED vars
    <2>1. UNCHANGED <<store, data, head, info, write, pc>>
      BY Zenon, <1>1 DEF vars, buffers, table
    <2> QED
      BY Zenon, <2>1, SameCalls DEF IInv, TypeOK
  <1>2. ASSUME NEW b \in Buf, NEW w \in BOOLEAN, NEW v \in Value, Call(b, w, v)
        PROVE  [Disk!Next]_Disk!vars
    BY Zenon, <1>2, CallRefines DEF Disk!Next
  <1>3. ASSUME NEW b \in Buf, AllocFails(b)
        PROVE  [Disk!Next]_Disk!vars
    <2>1. UNCHANGED <<store, data, head, info, write>>
      BY Zenon, <1>3 DEF AllocFails, buffers, table
    <2>2. /\ pc' \in [Buf -> {"idle", "alloc", "nodesc", "publish", "asleep", "woken"}]
          /\ \A c \in Buf : pc'[c] = "idle" <=> pc[c] = "idle"
      BY <1>3 DEF IInv, TypeOK, AllocFails, Goto, WakeFreeAnd
    <2> QED
      BY Zenon, <2>1, <2>2, SameCalls
  <1>4. ASSUME NEW b \in Buf, Format(b)
        PROVE  [Disk!Next]_Disk!vars
    BY Zenon, <1>4, FormatRefines
  <1>5. ASSUME NEW b \in Buf, Publish(b) \/ WaitAgain(b) \/ Kill(b)
        PROVE  [Disk!Next]_Disk!vars
    <2>1. UNCHANGED <<store, data, head, info, write>>
      BY Zenon, <1>5 DEF Publish, WaitAgain, Kill, buffers, table
    <2>2. /\ pc' \in [Buf -> {"idle", "alloc", "nodesc", "publish", "asleep", "woken"}]
          /\ \A c \in Buf : pc'[c] = "idle" <=> pc[c] = "idle"
      <3>1. PICK p \in {"alloc", "asleep", "woken"} : pc[b] # "idle" /\ pc' = [pc EXCEPT ![b] = p]
        BY Zenon, <1>5 DEF Publish, WaitAgain, Kill, Goto
      <3> QED
        BY Zenon, <3>1 DEF IInv, TypeOK
    <2> QED
      BY Zenon, <2>1, <2>2, SameCalls
  <1>6. ASSUME NEW b \in Buf, Finish(b)
        PROVE  [Disk!Next]_Disk!vars
    BY Zenon, <1>6, FinishRefines DEF Disk!Next
  <1>7. CASE DeviceTake
    <2>1. UNCHANGED <<store, data, head, info, write, pc>>
      BY Zenon, <1>7 DEF DeviceTake, buffers, table
    <2> QED
      BY Zenon, <2>1, SameCalls DEF IInv, TypeOK
  <1>8. ASSUME NEW h \in Desc, DeviceFinish(h)
        PROVE  [Disk!Next]_Disk!vars
    BY Zenon, <1>8, DeviceFinishRefines DEF Disk!Next
  <1>9. CASE IntrStart \/ IntrTested \/ IntrEnd
    <2>1. UNCHANGED <<store, data, head, info, write, pc>>
      BY Zenon, <1>9 DEF IntrStart, IntrTested, IntrEnd, buffers, table
    <2> QED
      BY Zenon, <2>1, SameCalls DEF IInv, TypeOK
  <1>10. CASE IntrStep
    <2>1. UNCHANGED <<store, data, head, info, write>>
      BY Zenon, <1>10 DEF IntrStep, table
    <2>2. PICK id : id = usedRing[used_idx % NUM]
      BY Zenon
    <2>3. PICK c \in InFlight : info[id].b = c /\ pc[c] \in {"asleep", "woken"}
      BY ZenonT(30), <1>10, <2>2, AnswerFacts DEF IntrStep
    <2>4. pc' = pc \/ pc' = [pc EXCEPT ![c] = "woken"]
      BY Zenon, <1>10, <2>2, <2>3 DEF IntrStep
    <2>5. /\ pc' \in [Buf -> {"idle", "alloc", "nodesc", "publish", "asleep", "woken"}]
          /\ \A b \in Buf : pc'[b] = "idle" <=> pc[b] = "idle"
      BY <2>3, <2>4 DEF IInv, TypeOK
    <2> QED
      BY Zenon, <2>1, <2>5, SameCalls
  <1> QED
    BY Zenon, <1>1, <1>2, <1>3, <1>4, <1>5, <1>6, <1>7, <1>8, <1>9, <1>10 DEF Next

-----------------------------------------------------------------------------
(* Finite sets, and the invariant *)

INSTANCE FiniteSetTheorems

\* Every set of numbers that has a member has a least one.
LEMMA Least ==
  ASSUME NEW S \in SUBSET Nat, S # {}
  PROVE  \E m \in S : \A x \in S : m <= x
  <1> DEFINE T == {0..k : k \in S}
  <1>1. T \subseteq FiniteSubsetsOf(Nat)
    <2>1. \A k \in S : IsFiniteSet(0..k)
      BY FS_Interval
    <2>2. \A k \in S : 0..k \in SUBSET Nat
      OBVIOUS
    <2> QED
      BY <2>1, <2>2, Zenon DEF FiniteSubsetsOf
  <1>2. T # {}
    BY Zenon
  <1>3. PICK t \in T : \A u \in T : <<u, t>> \notin StrictSubsetOrdering(Nat)
    <2> HIDE DEF T
    <2> QED
      BY <1>1, <1>2, FS_StrictSubsetOrderingWellFounded, WFMin, Zenon
  <1>4. PICK m \in S : t = 0..m
    BY Zenon
  <1>5. ASSUME NEW x \in S, x < m PROVE FALSE
    <2>1. 0..x \in T /\ 0..x \in SUBSET Nat /\ t \in SUBSET Nat
      BY <1>4
    <2>2. 0..x \subseteq t /\ 0..x # t
      <3>1. m \in 0..m /\ m \notin 0..x
        BY <1>5
      <3> QED
        BY <1>4, <1>5, <3>1
    <2> QED
      BY Zenon, <1>3, <2>1, <2>2 DEF StrictSubsetOrdering
  <1> QED
    BY <1>5

\* Facts of the library about finite sets.
LEMMA Finite == Counting
  <1>1. Sized
    BY Zenon, FS_CardinalityType, FS_EmptySet DEF Sized
  <1>2. Smaller
    BY Zenon, FS_Subset DEF Smaller
  <1>3. OneLess
    BY Zenon, FS_RemoveElement DEF OneLess
  <1>4. Counted
    <2> SUFFICES ASSUME NEW n \in Nat
                 PROVE  IsFiniteSet(0..(n - 1)) /\ Cardinality(0..(n - 1)) = n
      BY Zenon DEF Counted
    <2>1. PICK m \in Int : m = n - 1
      OBVIOUS
    <2>2. IsFiniteSet(0..m) /\ Cardinality(0..m) = IF 0 > m THEN 0 ELSE m - 0 + 1
      BY FS_Interval
    <2> QED
      BY <2>1, <2>2
  <1>5. Listed
    <2> SUFFICES ASSUME NEW n \in Nat, NEW T, NEW f \in [0..(n - 1) -> T],
                        \A j, k \in 0..(n - 1) : f[j] = f[k] => j = k,
                        \A t \in T : \E k \in 0..(n - 1) : f[k] = t
                 PROVE  IsFiniteSet(T) /\ Cardinality(T) = n
      BY Zenon DEF Listed
    <2> DEFINE S == 0..(n - 1)
    <2>1. f \in Bijection(S, T)
      BY Zenon DEF Bijection, Injection, Surjection, IsInjective
    <2>2. ExistsBijection(S, T)
      BY Zenon, <2>1 DEF ExistsBijection
    <2>3. IsFiniteSet(S) /\ Cardinality(S) = n
      BY Zenon, <1>4 DEF Counted
    <2> HIDE DEF S
    <2> QED
      BY Zenon, <2>2, <2>3, FS_Bijection
  <1>6. Ordered
    BY Zenon, Least DEF Ordered
  <1> QED
    BY Zenon, <1>1, <1>2, <1>3, <1>4, <1>5, <1>6 DEF Counting

\* IInv is an invariant of the driver, the device and the interrupt.
THEOREM VirtioInvariant == Spec => []IInv
  <1>1. Init => IInv
    BY Zenon, InitIInv
  <1>2. IInv /\ [Next]_vars => IInv'
    BY Zenon, Finite, NextIInv
  <1> QED
    BY <1>1, <1>2, PTL DEF Spec
-----------------------------------------------------------------------------
(* The descriptors and the wakeups *)

\* A set with one more element.
LEMMA OneMore ==
  ASSUME NEW S, NEW x, IsFiniteSet(S), x \notin S
  PROVE  IsFiniteSet(S \cup {x}) /\ Cardinality(S \cup {x}) = Cardinality(S) + 1
  BY Zenon, FS_AddElement

\* The chains of the requests are three descriptors each, all different.
LEMMA HeldSize ==
  ASSUME IInv
  PROVE  LET held == UNION {Own(b) : b \in InFlight}
         IN  /\ IsFiniteSet(InFlight) /\ Cardinality(held) = 3 * Cardinality(InFlight)
             /\ \A b \in InFlight : Cardinality(Own(b)) = 3
             /\ free = Desc \ held
  <1> DEFINE held == UNION {Own(b) : b \in InFlight}
             Nth(b, n) == IF n = 1 THEN head[b] ELSE IF n = 2 THEN Data(b) ELSE Status(b)
             f == [x \in InFlight \X (1..3) |-> Nth(x[1], x[2])]
  <1>1. IsFiniteSet(InFlight)
    BY Zenon, VirtioAssumption, FS_Subset DEF InFlight
  <1>2. IsFiniteSet(1..3) /\ Cardinality(1..3) = 3
    <2>1. PICK i \in Int, j \in Int : i = 1 /\ j = 3
      OBVIOUS
    <2>2. IsFiniteSet(i..j) /\ Cardinality(i..j) = IF i > j THEN 0 ELSE j - i + 1
      BY Zenon, FS_Interval
    <2> QED
      BY <2>1, <2>2
  <1>3. PICK n \in Nat : n = Cardinality(InFlight)
    BY Zenon, <1>1, FS_CardinalityType
  <1>4. /\ IsFiniteSet(InFlight \X (1..3))
        /\ Cardinality(InFlight \X (1..3)) = n * 3
    BY Zenon, <1>1, <1>2, <1>3, FS_Product
  <1>5. \A b \in InFlight : /\ head[b] # Data(b) /\ head[b] # Status(b) /\ Data(b) # Status(b)
                            /\ Own(b) \subseteq Desc \ free
    BY ZenonT(30) DEF IInv, RequestInv
  <1>6. /\ \A b, c \in InFlight : b # c => Own(b) \cap Own(c) = {}
        /\ \A d \in Desc \ free : \E b \in InFlight : d \in Own(b)
    BY Zenon DEF IInv, OwnInv
  <1>7. \A b \in InFlight : \A k \in 1..3 : Nth(b, k) \in Own(b)
    BY Zenon DEF Own
  <1>8. \A b \in InFlight : \A d \in Own(b) : \E k \in 1..3 : d = Nth(b, k)
    <2>1. 1 \in 1..3 /\ 2 \in 1..3 /\ 3 \in 1..3
      OBVIOUS
    <2> QED
      BY <2>1 DEF Own
  <1>9. \A b \in InFlight : \A j, k \in 1..3 : Nth(b, j) = Nth(b, k) => j = k
    <2>1. \A k \in 1..3 : k = 1 \/ k = 2 \/ k = 3
      OBVIOUS
    <2> QED
      BY Zenon, <1>5, <2>1
  <1>10. f \in Bijection(InFlight \X (1..3), held)
    <2> HIDE DEF Nth
    <2>1. f \in [InFlight \X (1..3) -> held]
      BY Zenon, <1>7
    <2>2. \A x, y \in InFlight \X (1..3) : f[x] = f[y] => x = y
      BY <1>6, <1>7, <1>9
    <2>3. \A d \in held : \E x \in InFlight \X (1..3) : f[x] = d
      <3>1. ASSUME NEW b \in InFlight, NEW d \in Own(b)
            PROVE  \E x \in InFlight \X (1..3) : f[x] = d
        <4>1. PICK k \in 1..3 : d = Nth(b, k)
          BY Zenon, <1>8
        <4>2. <<b, k>> \in InFlight \X (1..3) /\ f[<<b, k>>] = d
          BY Zenon, <4>1
        <4> QED
          BY Zenon, <4>2
      <3> QED
        BY <3>1
    <2> HIDE DEF f, held
    <2> QED
      BY <2>1, <2>2, <2>3 DEF Bijection, Injection, Surjection, IsInjective
  <1>11. Cardinality(held) = n * 3
    <2>1. ExistsBijection(InFlight \X (1..3), held)
      BY Zenon, <1>10 DEF ExistsBijection
    <2> HIDE DEF held
    <2> QED
      BY Zenon, <1>4, <2>1, FS_Bijection
  <1>12. \A b \in InFlight : Cardinality(Own(b)) = 3
    <2>1. ASSUME NEW b \in InFlight
          PROVE  Cardinality(Own(b)) = 3
      <3>1. IsFiniteSet({head[b]}) /\ Cardinality({head[b]}) = 1
        BY Zenon, FS_Singleton
      <3>2. /\ IsFiniteSet({head[b]} \cup {Data(b)})
            /\ Cardinality({head[b]} \cup {Data(b)}) = 1 + 1
        BY Zenon, <1>5, <3>1, OneMore
      <3>3. Cardinality(({head[b]} \cup {Data(b)}) \cup {Status(b)}) = (1 + 1) + 1
        BY Zenon, <1>5, <3>2, OneMore
      <3>4. ({head[b]} \cup {Data(b)}) \cup {Status(b)} = Own(b)
        BY Zenon DEF Own
      <3>5. Cardinality(Own(b)) = (1 + 1) + 1
        BY Zenon, <3>3, <3>4
      <3> QED
        BY <3>5
    <2> QED
      BY Zenon, <2>1
  <1>13. free = Desc \ held
    <2>1. free \subseteq Desc
      BY Zenon DEF IInv, TypeOK
    <2> QED
      BY SMTT(30), <1>5, <1>6, <2>1
  <1> HIDE DEF held
  <1>14. n * 3 = 3 * Cardinality(InFlight)
    BY <1>3
  <1> QED
    BY Zenon, <1>1, <1>11, <1>12, <1>13, <1>14 DEF held

\* alloc3_desc() and free_chain() neither lose a descriptor nor give one out
\* twice, whatever the order in which the device finishes requests, and neither
\* free_desc() nor a status byte makes the driver panic.
THEOREM VirtioDescriptorsExact == Spec => []DescriptorsExact
  <1>1. IInv => DescriptorsExact
    <2> SUFFICES ASSUME IInv PROVE DescriptorsExact
      BY Zenon
    <2>1. TypeOK /\ ~panicked
      BY Zenon DEF IInv, CallerInv, CallerAt
    <2> DEFINE chain == [b \in InFlight |-> Chain(head[b])]
               held == UNION {chain[b] : b \in InFlight}
    <2>2. \A b \in InFlight : chain[b] = Own(b)
      BY Zenon, ChainFacts
    <2>3. held = UNION {Own(b) : b \in InFlight}
      BY Zenon, <2>2
    <2>4. Cardinality(held) = 3 * Cardinality(InFlight) /\ free = Desc \ held
      BY ZenonT(30), <2>3, HeldSize
    <2>5. \A b \in InFlight : Cardinality(chain[b]) = 3
      BY Zenon, <2>2, HeldSize
    <2> QED
      BY Zenon, <2>1, <2>4, <2>5 DEF DescriptorsExact
  <1> QED
    BY <1>1, VirtioInvariant, PTL

\* No caller sleeps for descriptors while there are three, or for its request
\* when virtio_disk_intr() has seen it, and a finished request that it has not
\* seen has an interrupt pending or a handler before its last test.
THEOREM VirtioNoLostWakeup == Spec => []NoLostWakeup
  <1>1. IInv => NoLostWakeup
    BY Zenon DEF IInv, CallerInv, CallerAt, NoLostWakeup
  <1> QED
    BY <1>1, VirtioInvariant, PTL

\* virtio_disk_rw() is an atomic transfer of the caller's own block to or from
\* the caller's own buffer, done exactly once before it returns.
THEOREM VirtioIsDisk == Spec => VirtioImplementsDisk
  <1>1. Init => Disk!Init
    BY Zenon DEF Init, Disk!Init
  <1>2. IInv /\ [Next]_vars => [Disk!Next]_Disk!vars
    BY Zenon, Finite, NextRefines
  <1> QED
    BY <1>1, <1>2, VirtioInvariant, PTL DEF Spec, VirtioImplementsDisk, Disk!Spec
=============================================================================
