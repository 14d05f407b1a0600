------------------------------- MODULE Blocks --------------------------------
(***************************************************************************)
(* The contents of files: the block bitmap, bmap(), itrunc(), readi() and  *)
(* writei() of kernel/fs.c, and the pieces filewrite() cuts a write into   *)
(* so that each fits a transaction.  A call runs with the inode locked, in *)
(* one step and a transaction of its own, whose commit() writes the        *)
(* buffers of the blocks it logged, as they are then.  A block has BSIZE   *)
(* cells, each a byte of a file or, in an indirect block, a block number;  *)
(* a new block may have been either.                                       *)
(***************************************************************************)
EXTENDS Integers, Sequences, FiniteSets, SequencesExt, FiniteSetsExt

CONSTANTS File,            \* the inodes
          NBLOCK, BPB,     \* the data blocks 1..NBLOCK, and bits in a bitmap block
          BSIZE, NDIRECT,
          MAXOPBLOCKS,
          UINT,            \* uint counts modulo UINT
          MaxCalls         \* bound: how many calls there are

NINDIRECT == BSIZE
MAXFILE == NDIRECT + NINDIRECT
DataBlock == 1..NBLOCK
Cell == 0..(BSIZE - 1)
Zero == [k \in Cell |-> 0]

VARIABLES used,            \* the bitmap
          data,            \* of every block, its cells in the buffer cache
          saved,           \* of every block, its cells on the disk
          addrs, size,     \* of every inode
          logged,          \* the blocks log_write() saw in the last call
          broken,          \* a call of bfree() or balloc() panicked
          content,         \* of every byte of a file, what a reader may find there
          calls            \* how many calls there were

\* What a call works on: ret is the block that bmap() returns, off where the loop
\* of writei() is, stop whether it was left.
Call(off) ==
  [used |-> used, data |-> data, addrs |-> addrs, log |-> {}, panic |-> FALSE, ret |-> 0,
   off |-> off, stop |-> FALSE]

BlocksInit ==
  /\ used = {} /\ data = [b \in DataBlock |-> Zero] /\ saved = data
  /\ addrs = [f \in File |-> [k \in 0..NDIRECT |-> 0]] /\ size = [f \in File |-> 0]
  /\ logged = {} /\ broken = FALSE
  /\ content = [f \in File |-> <<>>] /\ calls = 0

LogWrite(s, x) == [s EXCEPT !.log = @ \cup {x}]

Bitmap(b) == <<"bitmap", b \div BPB>>

\* balloc(): the first free block, zeroed; out of blocks is a panic.
Balloc(s) ==
  IF s.used = DataBlock THEN [s EXCEPT !.panic = TRUE]
  ELSE LET b == Min(DataBlock \ s.used)
       IN [LogWrite(LogWrite(s, Bitmap(b)), <<"data", b>>)
             EXCEPT !.used = @ \cup {b}, !.data[b] = Zero, !.ret = b]

Bfree(s, b) ==
  [LogWrite(s, Bitmap(b)) EXCEPT !.panic = @ \/ b \notin s.used, !.used = @ \ {b}]

BmapDirect(s, f, bn) ==
  LET t == IF s.addrs[f][bn] # 0 THEN [s EXCEPT !.ret = s.addrs[f][bn]] ELSE Balloc(s)
  IN [t EXCEPT !.addrs[f][bn] = t.ret]

\* bmap(): the block of the file's block bn, allocated when there is none, and
\* the indirect block too.  The result is ret.
Bmap(s, f, bn) ==
  IF bn < NDIRECT THEN BmapDirect(s, f, bn)
  ELSE LET t == BmapDirect(s, f, NDIRECT)
           i == bn - NDIRECT
       IN IF t.data[t.ret][i] # 0 THEN [t EXCEPT !.ret = t.data[t.ret][i]]
          ELSE LET u == Balloc(t)
               IN LogWrite([u EXCEPT !.data[t.ret][i] = u.ret], <<"data", t.ret>>)

-----------------------------------------------------------------------------
\* The blocks that bytes off, ..., off + n - 1 of a file are in
Pieces(off, n) ==
  IF n = 0 THEN <<>>
  ELSE LET first == off \div BSIZE
           last == (off + n - 1) \div BSIZE
       IN [k \in 1..(last - first + 1) |-> first + k - 1]

WritePieceCountsAll(s, f, off, n, good, byte, bn) ==
  LET t == Bmap(s, f, bn)
      end == Min({off + n, (bn + 1) * BSIZE})
      u == [t EXCEPT !.data[t.ret] =
              [k \in Cell |-> IF bn * BSIZE + k \in off..(off + good - 1) THEN byte ELSE @[k]]]
  IN IF s.stop THEN s
     ELSE [LogWrite(u, <<"data", t.ret>>) EXCEPT !.off = end, !.stop = end > off + good]

\* One round of the loop of writei(), which copies the bytes below good into
\* block bn.  either_copyin() fails when the piece goes beyond good, after it has
\* copied what there is into the buffer; the loop is over then, and the piece
\* neither counted nor logged.
WritePiece(s, f, off, n, good, byte, bn) ==
  LET t == Bmap(s, f, bn)
      end == Min({off + n, (bn + 1) * BSIZE})
      u == [t EXCEPT !.data[t.ret] =
              [k \in Cell |-> IF bn * BSIZE + k \in off..(off + good - 1) THEN byte ELSE @[k]]]
  IN IF s.stop THEN s
     ELSE IF end <= off + good THEN [LogWrite(u, <<"data", t.ret>>) EXCEPT !.off = end]
     ELSE [u EXCEPT !.stop = TRUE]

\* The loop of writei(): off of the result is where it ended.
WriteLoop(f, off, n, good, byte) ==
  FoldLeft(LAMBDA s, bn : WritePiece(s, f, off, n, good, byte, bn), Call(off), Pieces(off, n))

MaxChunkNoSlop == ((MAXOPBLOCKS - 1 - 1) \div 2) * BSIZE

\* What filewrite() writes in one transaction at most
MaxChunk == ((MAXOPBLOCKS - 1 - 1 - 2) \div 2) * BSIZE

\* The reference: the count bytes from off that writei() returns as written are
\* byte, and the file is at least that long.  Others that were copied before the
\* copy failed may be byte or what they were.
Overwrite(old, off, good, byte, count) ==
  [k \in 1..Max({Len(old), off + count}) |->
     IF k - 1 \in off..(off + count - 1) THEN {byte}
     ELSE IF k - 1 \in off..(off + good - 1) THEN old[k] \cup {byte}
     ELSE old[k]]

\* end_op(): commit() writes what the buffers of the logged blocks hold now
Saved(s) == [b \in DataBlock |-> IF <<"data", b>> \in s.log THEN s.data[b] ELSE saved[b]]

\* writei() of n times the same byte, another one in every call, of which the
\* user's memory has the first good.  It returns -1 beyond the end of the file or of MAXFILE.
Writei(f, off, n, good, byte) ==
  /\ off <= size[f] /\ off + n <= MAXFILE * BSIZE
  /\ LET s == WriteLoop(f, off, n, good, byte)
     IN /\ used' = s.used /\ data' = s.data /\ saved' = Saved(s) /\ addrs' = s.addrs
        /\ size' = [size EXCEPT ![f] = Max({@, s.off})]
        /\ logged' = s.log \cup {<<"inode">>} /\ broken' = s.panic
        /\ content' = [content EXCEPT ![f] = Overwrite(@, off, good, byte, s.off - off)]

ItruncForgetsIndirect(f) ==
  LET a == addrs[f]
      s == FoldLeft(Bfree, Call(0), SetToSeq({a[k] : k \in 0..NDIRECT} \ {0}))
  IN /\ used' = s.used
     /\ addrs' = [addrs EXCEPT ![f] = [k \in 0..NDIRECT |-> 0]]
     /\ size' = [size EXCEPT ![f] = 0]
     /\ logged' = s.log \cup {<<"inode">>} /\ broken' = s.panic
     /\ content' = [content EXCEPT ![f] = <<>>]
     /\ UNCHANGED <<data, saved>>

\* itrunc()
Itrunc(f) ==
  LET a == addrs[f]
      direct == {a[k] : k \in 0..(NDIRECT - 1)} \ {0}
      indirect == IF a[NDIRECT] = 0 THEN {}
                  ELSE {a[NDIRECT]} \cup ({data[a[NDIRECT]][k] : k \in Cell} \ {0})
      s == FoldLeft(Bfree, Call(0), SetToSeq(direct \cup indirect))
  IN /\ used' = s.used
     /\ addrs' = [addrs EXCEPT ![f] = [k \in 0..NDIRECT |-> 0]]
     /\ size' = [size EXCEPT ![f] = 0]
     /\ logged' = s.log \cup {<<"inode">>} /\ broken' = s.panic
     /\ content' = [content EXCEPT ![f] = <<>>]
     /\ UNCHANGED <<data, saved>>

\* bget() takes the buffer of block b, which no transaction pins, for another
\* block: what was not saved is gone.
Recycle(b) ==
  /\ data[b] # saved[b] /\ data' = [data EXCEPT ![b] = saved[b]]
  /\ UNCHANGED <<used, saved, addrs, size, logged, broken, content, calls>>

BlocksNext ==
  \/ /\ calls < MaxCalls /\ calls' = calls + 1
     /\ \E f \in File :
       \/ Itrunc(f)
       \/ \E off \in 0..size[f], n \in 1..MaxChunk :
            \E good \in 0..n : Writei(f, off, n, good, calls + 1)
  \/ \E b \in DataBlock : Recycle(b)

\* readi() of n bytes, where off + n is a uint; the bytes of all rounds of its loop
Readi(f, off, n) ==
  LET end == Min({off + n, size[f]})
      byte(k) == data[Bmap(Call(0), f, k \div BSIZE).ret][k % BSIZE]
  IN IF off > size[f] \/ (off + n) % UINT < off THEN <<>>
     ELSE [k \in 1..(end - off) |-> byte(off + k - 1)]

-----------------------------------------------------------------------------
Indirect(f) ==
  IF addrs[f][NDIRECT] = 0 THEN <<>> ELSE [k \in 1..BSIZE |-> data[addrs[f][NDIRECT]][k - 1]]

\* The blocks an inode holds, as itrunc() finds them
Holds(f) ==
  SelectSeq([k \in 1..(NDIRECT + 1) |-> addrs[f][k - 1]] \o Indirect(f), LAMBDA b : b # 0)

\* Every block the bitmap marks is held by one file in one place, and no block is
\* lost, after any sequence of writes, of writes that fail half way and of
\* truncations; so bfree() never frees a free block.
BlocksOwned ==
  LET all == FoldLeft(LAMBDA s, f : s \o Holds(f), <<>>, SetToSeq(File))
  IN /\ ~broken
     /\ used = Range(all) /\ Len(all) = Cardinality(used)

\* A file reads back as it was written: for every offset and length readi()
\* returns, up to the end of the file, the byte that the last writei() to count
\* it put there, or one that a later write left there when its copy failed (until
\* the buffer is recycled, or for good if another write logs it); whichever blocks
\* they are in, whatever those held before and whichever buffers are recycled.
\* The file is as long as the bytes counted; readi() never makes bmap() allocate.
ReadsBack ==
  \A f \in File :
    /\ Len(content[f]) = size[f]
    /\ \A bn \in 0..(MAXFILE - 1) : bn * BSIZE < size[f] => Bmap(Call(0), f, bn).used = used
    /\ \A off \in 0..(size[f] + 1), n \in 0..(UINT - 1) :
         LET bytes == Readi(f, off, n)
         IN /\ Len(bytes) = IF off + n >= UINT THEN 0
                            ELSE Max({0, Min({off + n, size[f]}) - off})
            /\ \A k \in DOMAIN bytes : bytes[k] \in content[f][off + k]

\* A piece of filewrite() fits what begin_op() reserved for it, wherever it starts
\* in a block: with the data blocks, a bitmap block for each block allocated, the
\* indirect block and the inode it logs at most MAXOPBLOCKS blocks; and fewer when
\* the bitmap is one block, as mkfs makes it (FSSIZE is below BPB).
PieceFits ==
  /\ Cardinality(logged) <= MAXOPBLOCKS
  /\ Cardinality({x \in logged : x[1] # "bitmap"}) + 1 < MAXOPBLOCKS
=============================================================================
