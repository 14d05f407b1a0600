------------------------------ MODULE MCBcache -------------------------------
(***************************************************************************)
(* For TLC, in parts that share nothing: the buffer cache with its         *)
(* sleep-locks; the processes in sys_sleep(); and above the cache the      *)
(* names of MCFs and the contents of Blocks.  A part that is not chosen    *)
(* stays as it is initially.  Interchangeable processes.                   *)
(***************************************************************************)
EXTENDS Bcache, FsPaths, TLC

CONSTANTS WRAP, FirstTick, Sleeps, Late,
          NINODES, Name, Path, MaxLink, NINODE,
          File, NBLOCK, BPB, BSIZE, NDIRECT, MAXOPBLOCKS, UINT, MaxCalls

VARIABLES part,
          ticks, tickslock, at, n, ticks0, killed, elapsed, late,
          dinode, dir, inode, place, call, rest, up, cur, ip, puts, stage, file, halted,
          used, cells, saved, addrs, size, logged, broken, content, calls

T == INSTANCE Ticks
F == INSTANCE MCFs WITH pc <- place, panicked <- halted
B == INSTANCE Blocks WITH data <- cells

ASSUME F!FsAssumption

SleepFor == {-2, -1, 0, 1}

Symmetric == Permutations(Proc)

ticksVars == <<ticks, tickslock, at, n, ticks0, killed, elapsed, late>>
namesVars == <<dinode, dir, inode, place, call, rest, up, cur, ip, puts, stage, file, halted>>
contents == <<used, cells, saved, addrs, size, logged, broken, content, calls>>
fsVars == <<namesVars, contents>>

Relevant ==
  <<part, IF part = "names" THEN F!Relevant ELSE <<vars, ticksVars, contents>>>>

MCInit ==
  /\ part \in {"buffers", "ticks", "names", "contents"} /\ Init /\ T!TicksInit
  /\ F!Init /\ B!BlocksInit
  /\ part # "buffers" => store \in [Block -> {0}]

MCNext ==
  \/ part = "buffers" /\ Next /\ UNCHANGED <<part, ticksVars, fsVars>>
  \/ part = "buffers" /\ panicked /\ UNCHANGED <<part, vars, ticksVars, fsVars>>
  \/ part = "ticks" /\ T!TicksNext /\ UNCHANGED <<part, vars, fsVars>>
  \/ part = "names" /\ F!Next /\ UNCHANGED <<part, vars, ticksVars, contents>>
  \/ part = "contents" /\ B!BlocksNext /\ UNCHANGED <<part, vars, ticksVars, namesVars>>
  \/ part = "contents" /\ calls = MaxCalls /\ UNCHANGED <<part, vars, ticksVars, fsVars>>

MCSpec == MCInit /\ [][MCNext]_<<part, vars, ticksVars, fsVars>>

\* See Ticks: sleep(n) takes n ticks and no more, also when ticks wraps.
SleepExact == [][T!SleepExact]_ticksVars

\* See Fs: references, locks and types of inodes are exact, and no inode that is
\* named or used is free.
RefsExact == part = "names" => F!RefsExact

\* See Fs: an iput() that frees an inode never waits for its lock.
PutNeverBlocks == part = "names" => F!PutNeverBlocks

\* See Fs: an inode has at least as many links as names.
LinksCover == part = "names" => F!LinksCover

\* See Blocks: every block is held by one file in one place, and none is lost by
\* writei(), its failures and itrunc().
BlocksOwned == part = "contents" => B!BlocksOwned

\* See Blocks: readi() returns what writei() put there, for every offset and length,
\* also after copies that failed and buffers that were recycled.
ReadsBack == part = "contents" => B!ReadsBack

\* See Blocks: a piece of filewrite() logs at most MAXOPBLOCKS blocks, and fewer
\* when the bitmap is one block.
PieceFits == part = "contents" => B!PieceFits
=============================================================================
