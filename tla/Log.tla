--------------------------------- MODULE Log ---------------------------------
(***************************************************************************)
(* The redo log of kernel/log.c: begin_op(), log_write(), end_op() with    *)
(* its group commit, and recovery after a crash at any point.              *)
(*                                                                         *)
(* A write of one disk block is atomic, and a crash keeps home, logBlock   *)
(* and header only.  The buffer cache is modelled by what the log needs of *)
(* it: a block that is not pinned may leave the cache at any time and is   *)
(* then read again from its home.  The log's own blocks and its header are *)
(* written through, so that their cached copies equal the disk's.          *)
(*                                                                         *)
(* An operation's bread(), change of the data, log_write() and brelse()    *)
(* are one step: the buffer's sleep-lock is held throughout.               *)
(***************************************************************************)
EXTENDS Naturals, FiniteSets, ProcSeq

CONSTANTS Proc, Block, Value, None,
          MAXOPBLOCKS, LOGSIZE,
          LogBlocks,    \* sb.nlog: blocks of the on-disk log, with its header
          OpBlocks      \* the most blocks that an operation writes

ASSUME LogAssumption ==
  /\ MAXOPBLOCKS \in Nat \ {0} /\ OpBlocks \in Nat
  /\ LOGSIZE \in Nat /\ LOGSIZE >= MAXOPBLOCKS
  /\ LogBlocks \in Nat \ {0}
  /\ None \notin Value
  /\ IsFiniteSet(Proc) /\ IsFiniteSet(Block)

VARIABLES home,                 \* the disk blocks of the file system
          logBlock, header,     \* the on-disk log and its header
          cache,                \* the buffer cache: contents, or None
          lh,                   \* the in-memory header: its block numbers
          outstanding, committing,
          pc,                   \* of every process
          wrote,                \* of every process: the blocks of its operation
          tail,                 \* index of the loop in write_log or install_trans
          boot,                 \* "up", or the step of recover_from_log()
          panicked

disk == <<home, logBlock, header>>
vars == <<disk, cache, lh, outstanding, committing, pc, wrote, tail, boot, panicked>>

Idle == [p \in Proc |-> "idle"]
Nothing == [b \in Block |-> None]

Init ==
  /\ home \in [Block -> Value]
  /\ logBlock = <<>> /\ header = <<>>
  /\ cache = Nothing
  /\ lh = <<>> /\ outstanding = 0 /\ committing = FALSE
  /\ pc = Idle
  /\ wrote = [p \in Proc |-> {}]
  /\ tail = 0
  /\ boot = "up"
  /\ panicked = FALSE

\* The system runs, and p is at the given place.
At(p, place) == boot = "up" /\ ~panicked /\ pc[p] = place

Goto(p, place) == pc' = [pc EXCEPT ![p] = place]

\* wakeup(&log), and p goes to the given place.
WakeupAnd(p, place) ==
  pc' = [q \in Proc |-> IF q = p THEN place
                        ELSE IF pc[q] = "asleep" THEN "begin" ELSE pc[q]]

\* bread(): from the cache, or else from the disk.
Contents(b) == IF cache[b] = None THEN home[b] ELSE cache[b]

\* s with v at the index i, one past its end at most.
Put(s, i, v) == [k \in 1..(IF i > Len(s) THEN i ELSE Len(s)) |-> IF k = i THEN v ELSE s[k]]

-----------------------------------------------------------------------------
(* A file system call *)

Call(p) ==
  /\ At(p, "idle")
  /\ Goto(p, "begin")
  /\ UNCHANGED <<disk, cache, lh, outstanding, committing, wrote, tail, boot, panicked>>

BeginUnreserved(p) ==
  /\ At(p, "begin")
  /\ IF committing
     THEN Goto(p, "asleep") /\ UNCHANGED outstanding
     ELSE Goto(p, "op") /\ outstanding' = outstanding + 1
  /\ UNCHANGED <<disk, cache, lh, committing, wrote, tail, boot, panicked>>

\* An iteration of begin_op()'s loop; log.lock makes the test and the sleep
\* one step.
BeginOp(p) ==
  /\ At(p, "begin")
  /\ IF committing \/ Len(lh) + (outstanding + 1) * MAXOPBLOCKS > LOGSIZE
     THEN Goto(p, "asleep") /\ UNCHANGED outstanding
     ELSE Goto(p, "op") /\ outstanding' = outstanding + 1
  /\ UNCHANGED <<disk, cache, lh, committing, wrote, tail, boot, panicked>>

\* The operation changes block b, and log_write() records it, once.
LogWrite(p, b, v) ==
  /\ At(p, "op")
  /\ Cardinality(wrote[p] \cup {b}) <= OpBlocks
  /\ cache' = [cache EXCEPT ![b] = v]
  /\ IF Len(lh) >= LOGSIZE \/ Len(lh) >= LogBlocks - 1
     THEN panicked' = TRUE /\ UNCHANGED <<lh, wrote>>
     ELSE /\ lh' = IF b \in Members(lh) THEN lh ELSE Append(lh, b)
          /\ wrote' = [wrote EXCEPT ![p] = @ \cup {b}]
          /\ UNCHANGED panicked
  /\ UNCHANGED <<disk, outstanding, committing, pc, tail, boot>>

\* end_op() up to release(&log.lock); the last operation commits.
EndOp(p) ==
  /\ At(p, "op")
  /\ outstanding' = outstanding - 1
  /\ wrote' = [wrote EXCEPT ![p] = {}]
  /\ IF committing
     THEN panicked' = TRUE /\ UNCHANGED <<pc, committing>>
     ELSE /\ IF outstanding = 1
             THEN Goto(p, "commit") /\ committing' = TRUE
             ELSE WakeupAnd(p, "idle") /\ UNCHANGED committing
          /\ UNCHANGED panicked
  /\ UNCHANGED <<disk, cache, lh, tail, boot>>

-----------------------------------------------------------------------------
(* commit() *)

\* if (log.lh.n > 0)
CommitStart(p) ==
  /\ At(p, "commit")
  /\ Goto(p, IF lh = <<>> THEN "done" ELSE "writeLog")
  /\ UNCHANGED <<disk, cache, lh, outstanding, committing, wrote, tail, boot, panicked>>

\* The end of an iteration of a loop over log.lh: on to the place next.
NextBlock(p, next) ==
  IF tail + 1 < Len(lh)
  THEN tail' = tail + 1 /\ UNCHANGED pc
  ELSE tail' = 0 /\ Goto(p, next)

\* write_log(), one block
WriteLog(p) ==
  LET b == lh[tail + 1] IN
  /\ At(p, "writeLog")
  /\ logBlock' = Put(logBlock, tail + 1, Contents(b))
  /\ cache' = [cache EXCEPT ![b] = Contents(b)]
  /\ NextBlock(p, "writeHead")
  /\ UNCHANGED <<home, header, lh, outstanding, committing, wrote, boot, panicked>>

WriteHead(p) ==
  /\ At(p, "writeHead")
  /\ header' = lh
  /\ Goto(p, "install")
  /\ UNCHANGED <<home, logBlock, cache, lh, outstanding, committing, wrote, tail, boot, panicked>>

\* An iteration of install_trans(): the block reaches its home and, the first
\* time, is unpinned.
InstallBlock ==
  LET b == lh[tail + 1] IN
  /\ cache' = [cache EXCEPT ![b] = logBlock[tail + 1]]
  /\ home' = [home EXCEPT ![b] = logBlock[tail + 1]]

InstallTrans(p) ==
  /\ At(p, "install")
  /\ InstallBlock
  /\ NextBlock(p, "clearHead")
  /\ UNCHANGED <<logBlock, header, lh, outstanding, committing, wrote, boot, panicked>>

\* log.lh.n = 0; write_head()
ClearHead(p) ==
  /\ At(p, "clearHead")
  /\ lh' = <<>> /\ header' = <<>>
  /\ Goto(p, "done")
  /\ UNCHANGED <<home, logBlock, cache, outstanding, committing, wrote, tail, boot, panicked>>

CommitDoneNoWakeup(p) ==
  /\ At(p, "done")
  /\ committing' = FALSE
  /\ Goto(p, "idle")
  /\ UNCHANGED <<disk, cache, lh, outstanding, wrote, tail, boot, panicked>>

\* The end of end_op()
CommitDone(p) ==
  /\ At(p, "done")
  /\ committing' = FALSE
  /\ WakeupAnd(p, "idle")
  /\ UNCHANGED <<disk, cache, lh, outstanding, wrote, tail, boot, panicked>>

-----------------------------------------------------------------------------
(* The buffer cache and crashes *)

\* The blocks that log_write() has pinned and install_trans() has not yet
\* unpinned.
Pinned ==
  IF \E p \in Proc : pc[p] = "clearHead" THEN {}
  ELSE IF \E p \in Proc : pc[p] = "install" THEN {lh[i] : i \in (tail + 1)..Len(lh)}
  ELSE Members(lh)

EvictPinned(b) ==
  /\ boot = "up" /\ ~panicked
  /\ cache[b] # None
  /\ cache' = [cache EXCEPT ![b] = None]
  /\ UNCHANGED <<disk, lh, outstanding, committing, pc, wrote, tail, boot, panicked>>

\* bget() recycles a buffer that nobody refers to.
Evict(b) ==
  /\ boot = "up" /\ ~panicked
  /\ cache[b] # None
  /\ b \notin Pinned
  /\ cache' = [cache EXCEPT ![b] = None]
  /\ UNCHANGED <<disk, lh, outstanding, committing, pc, wrote, tail, boot, panicked>>

Crash ==
  /\ cache' = Nothing /\ lh' = <<>>
  /\ outstanding' = 0 /\ committing' = FALSE
  /\ pc' = Idle /\ wrote' = [p \in Proc |-> {}]
  /\ tail' = 0
  /\ boot' = "read" /\ panicked' = FALSE
  /\ UNCHANGED disk

\* recover_from_log(): read_head() ...
ReadHead ==
  /\ boot = "read"
  /\ lh' = header
  /\ boot' = IF header = <<>> THEN "clear" ELSE "install"
  /\ UNCHANGED <<disk, cache, outstanding, committing, pc, wrote, tail, panicked>>

\* ... install_trans(1), one block ...
Reinstall ==
  /\ boot = "install"
  /\ InstallBlock
  /\ IF tail + 1 < Len(lh) THEN tail' = tail + 1 /\ UNCHANGED boot
                           ELSE tail' = 0 /\ boot' = "clear"
  /\ UNCHANGED <<logBlock, header, lh, outstanding, committing, pc, wrote, panicked>>

\* ... and write_head() with an empty header.
Recovered ==
  /\ boot = "clear"
  /\ lh' = <<>> /\ header' = <<>>
  /\ boot' = "up"
  /\ UNCHANGED <<home, logBlock, cache, outstanding, committing, pc, wrote, tail, panicked>>

Step(p) ==
  \/ BeginOp(p) \/ EndOp(p)
  \/ CommitStart(p) \/ WriteLog(p) \/ WriteHead(p) \/ InstallTrans(p)
  \/ ClearHead(p) \/ CommitDone(p)

Recover == ReadHead \/ Reinstall \/ Recovered

Next ==
  \/ \E p \in Proc :
       Call(p) \/ Step(p) \/ \E b \in Block, v \in Value : LogWrite(p, b, v)
  \/ \E b \in Block : Evict(b)
  \/ Crash
  \/ Recover

Spec == Init /\ [][Next]_vars

\* An operation that has begun ends, and commit() and recovery go on.
FairSpec == Spec /\ WF_vars(Recover) /\ \A p \in Proc : WF_vars(Step(p))

-----------------------------------------------------------------------------
(* Properties *)

\* Types; the log never holds more than its blocks, nor a block twice.
TypeOK ==
  /\ home \in [Block -> Value]
  /\ cache \in [Block -> Value \cup {None}]
  /\ Len(logBlock) <= LOGSIZE /\ Members(logBlock) \subseteq Value
  /\ \A h \in {lh, header} :
       Members(h) \subseteq Block /\ Cardinality(Members(h)) = Len(h) /\ Len(h) <= LOGSIZE
  /\ outstanding = Cardinality({p \in Proc : pc[p] = "op"})
  /\ committing \in BOOLEAN
  /\ wrote \in [Proc -> SUBSET Block]
  /\ tail \in 0..LOGSIZE
  /\ boot \in {"up", "read", "install", "clear"}
  /\ panicked \in BOOLEAN

\* What recovery would make of the disk.
Durable ==
  [b \in Block |-> IF b \in Members(header) THEN logBlock[Position(header, b)] ELSE home[b]]

Disk ==
  INSTANCE AtomicDisk WITH
    durable <- Durable,
    cached <- IF boot = "up" THEN [b \in Block |-> Contents(b)] ELSE Durable,
    open <- {p \in Proc : pc[p] = "op"}

\* The log is an atomic disk: wherever a crash comes, in an operation, in
\* commit() or in a recovery, the disk holds all the writes of the groups
\* that had committed and none of the others; and reading never returns
\* stale data, whichever buffers are recycled.
LogImplementsAtomicDisk == Disk!Spec

\* The space that begin_op() reserves suffices for what log_write() needs, for
\* any interleaving of operations that write fewer than MAXOPBLOCKS blocks,
\* and no operation is open during a commit: neither panic is reached.  When
\* no operation runs and no commit is under way, everything written is
\* durable: the last end_op() returns after its commit.  Every variable has
\* its type; the log holds no block twice.
LogSafe ==
  /\ TypeOK /\ ~panicked
  /\ boot = "up" /\ outstanding = 0 /\ ~committing =>
       \A b \in Block : Contents(b) = Durable[b]

\* An operation that begin_op() has put to sleep is woken: each test that
\* lets it sleep has a wakeup(&log) that comes after.
SleeperWoken == \A p \in Proc : pc[p] = "asleep" ~> pc[p] # "asleep"

\* "max # of blocks any FS op writes" is MAXOPBLOCKS, and begin_op() lets in as many
\* operations as LOGSIZE has room for: operations that write up to MAXOPBLOCKS
\* blocks fit the log, and log_write() does not panic.
LogHoldsOps == ~panicked
=============================================================================
