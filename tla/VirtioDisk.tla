----------------------------- MODULE VirtioDisk ------------------------------
(***************************************************************************)
(* kernel/virtio_disk.c: the driver, the device behind its three shared    *)
(* structures (descriptors, avail ring, used ring), and the interrupt.     *)
(*                                                                         *)
(* The caller of virtio_disk_rw(b) holds b's sleep-lock, so a buffer       *)
(* stands for its process.  The cache has one buffer per block, so a       *)
(* buffer also names its block; that the header, the data descriptor and   *)
(* the status of a request stay together is what is at stake.              *)
(* disk.vdisk_lock is held over a whole step, and by name over the steps   *)
(* between which the device can act.  avail->idx and used->idx are uint16: *)
(* they wrap at WRAP, a multiple of NUM.                                   *)
(***************************************************************************)
EXTENDS Integers, FiniteSets

CONSTANTS Buf, NUM, WRAP, Value, None,
          Calls         \* bound: the <<buffer, write, its data>> of calls

Desc == 0..(NUM - 1)
Index == 0..(WRAP - 1)

ASSUME VirtioAssumption ==
  /\ NUM \in Nat /\ NUM >= 3
  /\ WRAP \in Nat /\ \E m \in 1..WRAP : WRAP = m * NUM
  /\ IsFiniteSet(Buf) /\ {"intr", "leave"} \cap Buf = {}
  /\ None \notin Buf /\ None \notin Desc /\ None \notin {"intr", "leave"}
  /\ None \notin [write : BOOLEAN, sector : Buf] /\ None \notin [write : BOOLEAN, block : Buf]
  /\ Calls \subseteq Buf \X BOOLEAN \X Value

VARIABLES store,                \* the disk
          data, busy,           \* b->data, b->disk
          free, desc, ops, info,   \* struct disk
          ring, idx,            \* avail->ring, avail->idx
          usedRing, usedIdx,    \* used->ring, used->idx
          used_idx,             \* disk.used_idx: how far the driver has looked
          lastAvail, taken,     \* device: how far it has looked, chains it works on
          irq,                  \* the device's interrupt is raised
          lock,                 \* who holds vdisk_lock: None, a buffer's process, "intr", "leave"
          pc, head,             \* of every caller: its place, idx[0]
          write,                \* of every caller: the argument
          panicked

buffers == <<store, data, busy>>
table   == <<free, desc, ops, info>>
avail   == <<ring, idx>>
used    == <<usedRing, usedIdx>>
device  == <<lastAvail, taken>>
vars == <<buffers, table, avail, used, used_idx, device, irq, lock, pc, head, write, panicked>>

Clear == [addr |-> None, next |-> None, writable |-> FALSE]

\* virtio_disk_init(): memset, and every descriptor free
Init ==
  /\ store \in [Buf -> Value] /\ data \in [Buf -> Value]
  /\ busy = [b \in Buf |-> FALSE]
  /\ free = Desc
  /\ desc = [d \in Desc |-> Clear]
  /\ ops = [d \in Desc |-> None]
  /\ info = [d \in Desc |-> [b |-> None, status |-> 0]]
  /\ ring = [d \in Desc |-> 0] /\ idx = 0
  /\ usedRing = [d \in Desc |-> 0] /\ usedIdx = 0
  /\ used_idx = 0
  /\ lastAvail = 0 /\ taken = {}
  /\ irq = FALSE
  /\ lock = None
  /\ pc = [b \in Buf |-> "idle"]
  /\ head = [b \in Buf |-> None]
  /\ write = [b \in Buf |-> FALSE]
  /\ panicked = FALSE

\* += 1 on a uint16
Plus(n) == (n + 1) % WRAP

Goto(b, place) == pc' = [pc EXCEPT ![b] = place]

Live == ~panicked

\* The holder of b leaves v in it (what b held before, when it is to be
\* read) and calls virtio_disk_rw().
Call(b, w, v) ==
  /\ <<b, w, v>> \in Calls
  /\ pc[b] = "idle" /\ Live
  /\ data' = [data EXCEPT ![b] = v]
  /\ write' = [write EXCEPT ![b] = w]
  /\ Goto(b, "alloc")
  /\ UNCHANGED <<store, busy, table, avail, used, used_idx, device, irq, lock, head, panicked>>

\* wakeup(&disk.free[0]), while b goes to the given place
WakeFreeAnd(b, place) ==
  pc' = [c \in Buf |-> IF c = b THEN place
                       ELSE IF pc[c] = "nodesc" THEN "alloc" ELSE pc[c]]

\* alloc_desc(), of the descriptors that are still free
AllocDesc(descs) == CHOOSE d \in descs : \A e \in descs : d <= e

\* The three descriptors that alloc3_desc() finds
First == AllocDesc(free)
Second == AllocDesc(free \ {First})
Third == AllocDesc(free \ {First, Second})

AllocLeak(b) ==
  /\ pc[b] = "alloc" /\ lock = None /\ Live
  /\ Cardinality(free) < 3
  /\ free' = {}
  /\ Goto(b, "nodesc")
  /\ UNCHANGED <<buffers, desc, ops, info, avail, used, used_idx, device, irq, lock, head,
                 write, panicked>>

\* alloc3_desc() fails: free_desc() on what it got wakes the other
\* sleepers, then sleep(&disk.free[0])
AllocFails(b) ==
  /\ pc[b] = "alloc" /\ lock = None /\ Live
  /\ Cardinality(free) < 3
  /\ IF free = {} THEN Goto(b, "nodesc") ELSE WakeFreeAnd(b, "nodesc")
  /\ UNCHANGED <<buffers, table, avail, used, used_idx, device, irq, lock, head, write, panicked>>

\* alloc3_desc() succeeds; the request is formatted, with the given flag on
\* the data descriptor and the given status byte, and put in the avail ring
Submit(b, writable, status) ==
  /\ pc[b] = "alloc" /\ lock = None /\ Live
  /\ Cardinality(free) >= 3
  /\ lock' = b
  /\ free' = free \ {First, Second, Third}
  /\ ops' = [ops EXCEPT ![First] = [write |-> write[b], sector |-> b]]
  /\ desc' = [desc EXCEPT
       ![First]  = [addr |-> First, next |-> Second, writable |-> FALSE],
       ![Second] = [addr |-> b, next |-> Third, writable |-> writable],
       ![Third]  = [addr |-> First, next |-> None, writable |-> TRUE]]
  /\ busy' = [busy EXCEPT ![b] = TRUE]
  /\ info' = [info EXCEPT ![First] = [b |-> b, status |-> status]]
  /\ ring' = [ring EXCEPT ![idx % NUM] = First]
  /\ head' = [head EXCEPT ![b] = First]
  /\ Goto(b, "publish")
  /\ UNCHANGED <<store, data, idx, used, used_idx, device, irq, write, panicked>>

FormatStaleStatus(b) == Submit(b, ~write[b], info[First].status)

Format(b) == Submit(b, ~write[b], 255)

\* avail->idx += 1 and QUEUE_NOTIFY; b->disk is still 1, so sleep(b)
Publish(b) ==
  /\ pc[b] = "publish" /\ Live
  /\ idx' = Plus(idx)
  /\ lock' = None
  /\ Goto(b, "asleep")
  /\ UNCHANGED <<buffers, table, ring, used, used_idx, device, irq, head, write, panicked>>

\* while(b->disk == 1) sleep(b, ...), after a wakeup
WaitAgain(b) ==
  /\ pc[b] = "woken" /\ lock = None /\ Live
  /\ busy[b]
  /\ Goto(b, "asleep")
  /\ UNCHANGED <<buffers, table, avail, used, used_idx, device, irq, lock, head, write, panicked>>

\* The descriptors that free_chain(h) visits: no chain is longer than three.
Chain(h) ==
  LET reach[n \in 0..2] ==
        IF n = 0 THEN {h}
        ELSE LET some == reach[n - 1]
             IN  some \cup ({desc[d].next : d \in some} \ {None})
  IN  reach[2]

\* info[].b = 0, and free_chain() with its panic
Free(b) ==
  /\ pc[b] = "woken" /\ lock = None /\ Live
  /\ ~busy[b]
  /\ info' = [info EXCEPT ![head[b]].b = None]
  /\ panicked' = (free \cap Chain(head[b]) # {})
  /\ free' = free \cup Chain(head[b])
  /\ desc' = [d \in Desc |-> IF d \in Chain(head[b]) THEN Clear ELSE desc[d]]
  /\ head' = [head EXCEPT ![b] = None]
  /\ UNCHANGED <<buffers, ops, avail, used, used_idx, device, irq, lock, write>>

FinishNoWakeup(b) == Free(b) /\ Goto(b, "idle")

\* the wakeups of free_desc(), and the return
Finish(b) == Free(b) /\ WakeFreeAnd(b, "idle")

\* kill() makes a sleeping process runnable without a wakeup().
Kill(b) ==
  /\ pc[b] \in {"nodesc", "asleep"} /\ Live
  /\ Goto(b, IF pc[b] = "nodesc" THEN "alloc" ELSE "woken")
  /\ UNCHANGED <<buffers, table, avail, used, used_idx, device, irq, lock, head, write, panicked>>
-----------------------------------------------------------------------------
\* The device takes the chains in the order of the avail ring ...
DeviceTake ==
  /\ lastAvail # idx /\ Live
  /\ taken' = taken \cup {ring[lastAvail % NUM]}
  /\ lastAvail' = Plus(lastAvail)
  /\ UNCHANGED <<buffers, table, avail, used, used_idx, irq, lock, pc, head, write, panicked>>

\* ... and finishes them in any order: the transfer, the status byte (not 0
\* when the data descriptor does not fit the request), the used ring, the
\* interrupt.
DeviceFinish(h) ==
  LET second == desc[h].next
      b == desc[second].addr
      status == desc[desc[second].next].addr
      op == ops[h]
      fits == op.write # desc[second].writable
  IN  /\ h \in taken /\ Live
      /\ taken' = taken \ {h}
      /\ store' = IF fits /\ op.write THEN [store EXCEPT ![op.sector] = data[b]] ELSE store
      /\ data' = IF fits /\ ~op.write THEN [data EXCEPT ![b] = store[op.sector]] ELSE data
      /\ info' = [info EXCEPT ![status].status = IF fits THEN 0 ELSE 1]
      /\ usedRing' = [usedRing EXCEPT ![usedIdx % NUM] = h]
      /\ usedIdx' = Plus(usedIdx)
      /\ irq' = TRUE
      /\ UNCHANGED <<busy, free, desc, ops, avail, used_idx, lastAvail, lock, pc, head,
                     write, panicked>>
-----------------------------------------------------------------------------
\* virtio_disk_intr(): acquire, then acknowledge the interrupt
IntrStart ==
  /\ irq /\ lock = None /\ Live
  /\ lock' = "intr"
  /\ irq' = FALSE
  /\ UNCHANGED <<buffers, table, avail, used, used_idx, device, pc, head, write, panicked>>

\* one turn of the loop over the used ring; wakeup(b)
IntrStep ==
  /\ lock = "intr" /\ used_idx # usedIdx /\ Live
  /\ LET id == usedRing[used_idx % NUM]
         b == info[id].b
     IN  IF info[id].status # 0
           THEN panicked' = TRUE /\ UNCHANGED <<busy, pc, used_idx>>
           ELSE /\ busy' = [busy EXCEPT ![b] = FALSE]
                /\ pc' = IF pc[b] = "asleep" THEN [pc EXCEPT ![b] = "woken"] ELSE pc
                /\ used_idx' = Plus(used_idx)
                /\ UNCHANGED panicked
  /\ UNCHANGED <<store, data, table, avail, used, device, irq, lock, head, write>>

\* used->idx is read for the last time ...
IntrTested ==
  /\ lock = "intr" /\ used_idx = usedIdx /\ Live
  /\ lock' = "leave"
  /\ UNCHANGED <<buffers, table, avail, used, used_idx, device, irq, pc, head, write, panicked>>

\* ... and the lock is released later: the device may have gone on meanwhile.
IntrEnd ==
  /\ lock = "leave" /\ Live
  /\ lock' = None
  /\ UNCHANGED <<buffers, table, avail, used, used_idx, device, irq, pc, head, write, panicked>>

Next ==
  \/ \E b \in Buf :
       \/ \E w \in BOOLEAN, v \in Value : Call(b, w, v)
       \/ AllocFails(b) \/ Format(b) \/ Publish(b)
       \/ WaitAgain(b) \/ Finish(b) \/ Kill(b)
  \/ DeviceTake
  \/ \E h \in Desc : DeviceFinish(h)
  \/ IntrStart \/ IntrStep \/ IntrTested \/ IntrEnd

Spec == Init /\ [][Next]_vars
-----------------------------------------------------------------------------
TypeOK ==
  /\ store \in [Buf -> Value] /\ data \in [Buf -> Value]
  /\ busy \in [Buf -> BOOLEAN]
  /\ free \subseteq Desc
  /\ desc \in [Desc -> [addr : Desc \cup Buf \cup {None}, next : Desc \cup {None},
                        writable : BOOLEAN]]
  /\ ops \in [Desc -> [write : BOOLEAN, sector : Buf] \cup {None}]
  /\ info \in [Desc -> [b : Buf \cup {None}, status : {0, 1, 255}]]
  /\ ring \in [Desc -> Desc] /\ usedRing \in [Desc -> Desc]
  /\ idx \in Index /\ usedIdx \in Index /\ used_idx \in Index /\ lastAvail \in Index
  /\ taken \subseteq Desc
  /\ irq \in BOOLEAN
  /\ lock \in Buf \cup {None, "intr", "leave"}
  /\ pc \in [Buf -> {"idle", "alloc", "nodesc", "publish", "asleep", "woken"}]
  /\ head \in [Buf -> Desc \cup {None}]
  /\ write \in [Buf -> BOOLEAN]
  /\ panicked \in BOOLEAN

InFlight == {b \in Buf : head[b] # None}

\* Every descriptor is free or in the chain of exactly one request, whose
\* three descriptors are its own: alloc3_desc() and free_chain() neither
\* lose a descriptor nor give one out twice, and neither free_desc() nor a
\* status byte makes the driver panic.  Every variable has its type.
DescriptorsExact ==
  LET chain == [b \in InFlight |-> Chain(head[b])]
      held == UNION {chain[b] : b \in InFlight}
  IN  /\ TypeOK /\ ~panicked
      /\ Cardinality(held) = 3 * Cardinality(InFlight)
      /\ \A b \in InFlight : Cardinality(chain[b]) = 3
      /\ free = Desc \ held

\* A process sleeps for descriptors only while there are fewer than three,
\* and for its request only while the device or the interrupt handler still
\* has it: no wakeup() of free_desc() or of virtio_disk_intr() is lost.
\* A finished request that virtio_disk_intr() has not seen has its interrupt
\* pending or a handler before its last test, so no caller waits for ever: it
\* acknowledges the interrupt before it reads used->idx, and the device may
\* add to the used ring at any point of the handler.
NoLostWakeup ==
  /\ \A b \in Buf :
       /\ pc[b] = "nodesc" => Cardinality(free) < 3
       /\ pc[b] = "asleep" => busy[b]
  /\ used_idx # usedIdx => irq \/ lock = "intr"

Disk == INSTANCE BlockDisk WITH
  Buffer <- Buf, Block <- Buf,
  req <- [b \in Buf |-> IF pc[b] = "idle" THEN None ELSE [write |-> write[b], block |-> b]],
  done <- [b \in Buf |-> IF head[b] = None THEN FALSE ELSE info[head[b]].status = 0]

\* virtio_disk_rw() is an atomic transfer of the caller's own block to or
\* from the caller's own buffer, done exactly once before it returns, in
\* whatever order the device finishes requests and interrupts arrive.
VirtioImplementsDisk == Disk!Spec

=============================================================================
