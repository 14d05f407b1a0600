------------------------------- MODULE Bcache --------------------------------
(***************************************************************************)
(* kernel/bio.c and kernel/sleeplock.c over the disk of BlockDisk, which   *)
(* VirtioDisk implements: processes that get, use, write, pin and release  *)
(* the buffers of the cache.  bcache.lock, and the spinlock inside a       *)
(* sleep-lock, are held over a whole step.                                 *)
(*                                                                         *)
(* A process stands for a use of one buffer: one that holds two at once,   *)
(* as bmap() and write_log() do, is two processes here.                    *)
(*                                                                         *)
(* The callers' rule, which log.c keeps: a buffer that was changed is      *)
(* written or pinned before brelse(), and unpinned after it was written.   *)
(* (writei() breaks it when a copy fails: see Blocks.)                     *)
(***************************************************************************)
EXTENDS Integers, FiniteSets

CONSTANTS Proc, Buffer, Block, Value, None,
          MaxPins       \* bound: blocks the log keeps pinned

ASSUME BcacheAssumption ==
  /\ IsFiniteSet(Proc) /\ IsFiniteSet(Buffer) /\ 0 \in Value
  /\ None \notin Proc \cup Block \cup Buffer
  /\ MaxPins \in Nat

VARIABLES store, data, req, done,         \* BlockDisk; data is b->data
          lru,                            \* the list from bcache.head.next on
          blockno, refcnt, valid,         \* struct buf
          holder,                         \* b->lock: who has it, or None
          pc, buf,                        \* of every process: its place, its buffer
          pins,                           \* bpin()s of every buffer without bunpin()
          panicked

Disk == INSTANCE BlockDisk

disk  == <<store, data, req, done>>
cache == <<lru, blockno, refcnt, valid>>
vars  == <<disk, cache, holder, pc, buf, pins, panicked>>

\* The orders in which the list may have the buffers.
Order ==
  {s \in [1..Cardinality(Buffer) -> Buffer] : \A b \in Buffer : \E i \in DOMAIN s : s[i] = b}

\* binit(): the list is built by insertion at the head, in the order of the array
Init ==
  /\ store \in [Block -> Value]
  /\ data = [b \in Buffer |-> 0]
  /\ req = [b \in Buffer |-> None] /\ done = [b \in Buffer |-> FALSE]
  /\ lru = CHOOSE s \in Order : TRUE
  /\ blockno = [b \in Buffer |-> None]
  /\ refcnt = [b \in Buffer |-> 0]
  /\ valid = [b \in Buffer |-> FALSE]
  /\ holder = [b \in Buffer |-> None]
  /\ pc = [p \in Proc |-> "idle"]
  /\ buf = [p \in Proc |-> None]
  /\ pins = [b \in Buffer |-> 0]
  /\ panicked = FALSE

Goto(p, place) == pc' = [pc EXCEPT ![p] = place]

\* The buffers that the first loop of bget() would return.
Cached(n) == {b \in Buffer : blockno[b] = n}

Unused == {b \in Buffer : refcnt[b] = 0}

\* The buffer that the second loop of bget() returns, from the end of the list.
LeastRecent(b) ==
  \E i \in DOMAIN lru : /\ lru[i] = b /\ b \in Unused
                       /\ \A j \in DOMAIN lru : j > i => lru[j] \notin Unused

\* bget(): a hit
GetHit(p, n) ==
  /\ pc[p] = "idle" /\ ~panicked
  /\ \E b \in Cached(n) :
        /\ refcnt' = [refcnt EXCEPT ![b] = @ + 1]
        /\ buf' = [buf EXCEPT ![p] = b]
  /\ Goto(p, "lock")
  /\ UNCHANGED <<disk, lru, blockno, valid, holder, pins, panicked>>

\* b becomes the buffer of block n, which p gets.
Recycle(p, n, b, isValid) ==
  /\ blockno' = [blockno EXCEPT ![b] = n]
  /\ valid' = [valid EXCEPT ![b] = isValid]
  /\ refcnt' = [refcnt EXCEPT ![b] = 1]
  /\ buf' = [buf EXCEPT ![p] = b]
  /\ Goto(p, "lock")
  /\ UNCHANGED <<disk, lru, holder, pins, panicked>>

GetMissKeepValid(p, n) ==
  /\ pc[p] = "idle" /\ ~panicked
  /\ Cached(n) = {}
  /\ IF Unused = {}
       THEN panicked' = TRUE /\ UNCHANGED <<disk, cache, holder, pc, buf, pins>>
       ELSE \E b \in Buffer : LeastRecent(b) /\ Recycle(p, n, b, valid[b])

\* bget(): the block is not cached, the last unused buffer is recycled for
\* it; panic("bget: no buffers")
GetMiss(p, n) ==
  /\ pc[p] = "idle" /\ ~panicked
  /\ Cached(n) = {}
  /\ IF Unused = {}
       THEN panicked' = TRUE /\ UNCHANGED <<disk, cache, holder, pc, buf, pins>>
       ELSE \E b \in Buffer : LeastRecent(b) /\ Recycle(p, n, b, FALSE)

AcquireUnchecked(p) ==
  /\ pc[p] = "lock" /\ ~panicked
  /\ holder' = [holder EXCEPT ![buf[p]] = p]
  /\ Goto(p, "test")
  /\ UNCHANGED <<disk, cache, buf, pins, panicked>>

\* acquiresleep(&b->lock): take the lock, or sleep until it is released
AcquireSleep(p) ==
  /\ pc[p] = "lock" /\ ~panicked
  /\ IF holder[buf[p]] = None
       THEN holder' = [holder EXCEPT ![buf[p]] = p] /\ Goto(p, "test")
       ELSE Goto(p, "asleep") /\ UNCHANGED holder
  /\ UNCHANGED <<disk, cache, buf, pins, panicked>>

\* kill() makes a sleeping process runnable; acquiresleep() tests again.
Kill(p) ==
  /\ pc[p] = "asleep" /\ ~panicked
  /\ Goto(p, "lock")
  /\ UNCHANGED <<disk, cache, holder, buf, pins, panicked>>

\* p calls virtio_disk_rw(b, write) and waits at the given place.
StartIO(p, write, place) ==
  /\ req' = [req EXCEPT ![buf[p]] = [write |-> write, block |-> blockno[buf[p]]]]
  /\ Goto(p, place)
  /\ UNCHANGED <<store, data, done, cache, holder, buf, pins, panicked>>

\* bread(): read the block unless the buffer is valid
Bread(p) ==
  /\ pc[p] = "test" /\ ~panicked
  /\ IF valid[buf[p]]
       THEN Goto(p, "use") /\ UNCHANGED <<disk, cache, holder, buf, pins, panicked>>
       ELSE StartIO(p, FALSE, "reading")

\* bwrite()
Bwrite(p) ==
  /\ pc[p] = "use" /\ ~panicked
  /\ StartIO(p, TRUE, "writing")

\* virtio_disk_rw() returns into bread(), which sets valid, or into bwrite()
EndIO(p) ==
  /\ pc[p] \in {"reading", "writing"} /\ ~panicked
  /\ Disk!Return(buf[p])
  /\ valid' = [valid EXCEPT ![buf[p]] = TRUE]
  /\ Goto(p, "use")
  /\ UNCHANGED <<lru, blockno, refcnt, holder, buf, pins, panicked>>

Transfer(b) ==
  /\ ~panicked
  /\ Disk!Transfer(b)
  /\ UNCHANGED <<cache, holder, pc, buf, pins, panicked>>

\* The holder changes b->data.
Modify(p, v) ==
  /\ pc[p] = "use" /\ ~panicked
  /\ data' = [data EXCEPT ![buf[p]] = v]
  /\ UNCHANGED <<store, req, done, cache, holder, pc, buf, pins, panicked>>

Clean(b) == data[b] = store[blockno[b]]

Pinned == {b \in Buffer : pins[b] > 0}

\* bpin(), by log_write() for a block that is not in the log yet
Bpin(p) ==
  /\ pc[p] = "use" /\ ~panicked
  /\ pins[buf[p]] = 0 /\ Cardinality(Pinned) < MaxPins
  /\ refcnt' = [refcnt EXCEPT ![buf[p]] = @ + 1]
  /\ pins' = [pins EXCEPT ![buf[p]] = 1]
  /\ UNCHANGED <<disk, lru, blockno, valid, holder, pc, buf, panicked>>

\* bunpin(), by install_trans() after bwrite()
Bunpin(p) ==
  /\ pc[p] = "use" /\ ~panicked
  /\ pins[buf[p]] = 1 /\ Clean(buf[p])
  /\ refcnt' = [refcnt EXCEPT ![buf[p]] = @ - 1]
  /\ pins' = [pins EXCEPT ![buf[p]] = 0]
  /\ UNCHANGED <<disk, lru, blockno, valid, holder, pc, buf, panicked>>

\* brelse(), first half: releasesleep() with its wakeup()
ReleaseSleep(p) ==
  /\ pc[p] = "use" /\ ~panicked
  /\ Clean(buf[p]) \/ buf[p] \in Pinned
  /\ holder' = [holder EXCEPT ![buf[p]] = None]
  /\ pc' = [q \in Proc |-> IF q = p THEN "put"
                           ELSE IF pc[q] = "asleep" /\ buf[q] = buf[p] THEN "lock" ELSE pc[q]]
  /\ UNCHANGED <<disk, cache, buf, pins, panicked>>

\* b is taken out of the list and put in again at the head.
MoveToFront(b) ==
  LET at == CHOOSE i \in DOMAIN lru : lru[i] = b
  IN  [i \in DOMAIN lru |-> IF i = 1 THEN b ELSE IF i <= at THEN lru[i - 1] ELSE lru[i]]

\* brelse(), second half: refcnt--, and to the front when nobody waits for it
Put(p) ==
  LET b == buf[p]
  IN  /\ pc[p] = "put" /\ ~panicked
      /\ refcnt' = [refcnt EXCEPT ![b] = @ - 1]
      /\ lru' = IF refcnt[b] = 1 THEN MoveToFront(b) ELSE lru
      /\ buf' = [buf EXCEPT ![p] = None]
      /\ Goto(p, "idle")
      /\ UNCHANGED <<disk, blockno, valid, holder, pins, panicked>>

Next ==
  \/ \E p \in Proc :
       \/ \E n \in Block : GetHit(p, n) \/ GetMiss(p, n)
       \/ AcquireSleep(p) \/ Kill(p)
       \/ Bread(p) \/ Bwrite(p) \/ EndIO(p)
       \/ \E v \in Value : Modify(p, v)
       \/ Bpin(p) \/ Bunpin(p)
       \/ ReleaseSleep(p) \/ Put(p)
  \/ \E b \in Buffer : Transfer(b)

Spec == Init /\ [][Next]_vars
-----------------------------------------------------------------------------
TypeOK ==
  /\ store \in [Block -> Value] /\ data \in [Buffer -> Value]
  /\ req \in [Buffer -> Disk!Request \cup {None}] /\ done \in [Buffer -> BOOLEAN]
  /\ lru \in Order
  /\ blockno \in [Buffer -> Block \cup {None}]
  /\ refcnt \in [Buffer -> Nat]
  /\ valid \in [Buffer -> BOOLEAN]
  /\ holder \in [Buffer -> Proc \cup {None}]
  /\ pc \in [Proc -> {"idle", "lock", "asleep", "test", "reading", "use", "writing", "put"}]
  /\ buf \in [Proc -> Buffer \cup {None}]
  /\ pins \in [Buffer -> 0..1]
  /\ panicked \in BOOLEAN

Using == {p \in Proc : pc[p] \in {"test", "reading", "use", "writing"}}

\* b->refcnt counts exactly the processes between bget() and brelse() and the
\* pins of the log: a buffer in use is never recycled, and none stays in use, so
\* that bget() panics only when every buffer is held or pinned.  Two processes
\* never use the same block at once ("only one process at a time can use a
\* buffer"): the one that uses it holds its sleep-lock, and a block is in at most
\* one buffer, though bget() releases bcache.lock before it sleeps for the buffer
\* it found.  It sleeps in acquiresleep() only while somebody has the lock.
\* Every variable has its type.
OneUser ==
  /\ TypeOK
  /\ \A b \in Buffer : refcnt[b] = Cardinality({p \in Proc : buf[p] = b}) + pins[b]
  /\ panicked => \A b \in Buffer : b \in Pinned \/ \E p \in Proc : buf[p] = b
  /\ \A p \in Using : holder[buf[p]] = p
  /\ \A b, c \in Buffer : blockno[b] = blockno[c] /\ blockno[b] # None => b = c
  /\ \A p \in Proc : pc[p] = "asleep" => holder[buf[p]] # None

\* What a process that reads block n now would see.
Contents(n) ==
  LET there == {b \in Cached(n) : valid[b]}
  IN  IF there = {} THEN store[n] ELSE data[CHOOSE b \in there : TRUE]

\* The contents of a block change only when the process that has its buffer
\* changes them: neither recycling, reading, writing, pinning nor releasing
\* loses an update or brings back an old one.
Coherent ==
  [][\A n \in Block : Contents(n)' # Contents(n) =>
        \E p \in Proc : pc[p] = "use" /\ pc'[p] = "use" /\ blockno[buf[p]] = n]_vars
=============================================================================
