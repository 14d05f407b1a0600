------------------------------ MODULE LogProofs ------------------------------
(***************************************************************************)
(* Proofs about kernel/log.c, for any processes, blocks and sizes: the log *)
(* makes an atomic disk out of one that writes block by block, whenever    *)
(* the machine stops; and with a log that is large enough for what the     *)
(* operations write, begin_op() reserves the space that log_write() needs. *)
(***************************************************************************)
EXTENDS Integers, Log, TLAPS

Ops == {p \in Proc : pc[p] = "op"}

\* The places in end_op() from committing = 1 on.
CommitPlace == {"commit", "writeLog", "writeHead", "install", "clearHead", "done"}

Committer == {p \in Proc : pc[p] \in CommitPlace}

\* No block is in s twice.
Distinct(s) == \A i, j \in 1..Len(s) : s[i] = s[j] => i = j

TypeInv ==
  /\ home \in [Block -> Value]
  /\ cache \in [Block -> Value \cup {None}]
  /\ logBlock \in Seq(Value)
  /\ lh \in Seq(Block) /\ Distinct(lh)
  /\ header \in Seq(Block) /\ Distinct(header)
  /\ committing \in BOOLEAN /\ panicked \in BOOLEAN
  /\ pc \in [Proc -> {"idle", "begin", "asleep", "op"} \cup CommitPlace]
  /\ wrote \in [Proc -> SUBSET Block]
  /\ tail \in Nat
  /\ boot \in {"up", "read", "install", "clear"}

\* log.outstanding counts the open operations; the one process that commits is
\* alone, and without operation or commit the log is empty.
CommitInv ==
  /\ outstanding = Cardinality(Ops)
  /\ committing <=> Committer # {}
  /\ \A p, q \in Committer : p = q
  /\ committing => Ops = {}
  /\ boot = "up" /\ Ops = {} /\ ~committing => lh = <<>>
  /\ \A p \in Proc : pc[p] = "done" => lh = <<>>
  /\ boot # "up" => pc = Idle /\ ~committing /\ ~panicked

\* The index of a loop over log.lh is in it, and starts at 0; what is
\* committed is not empty.
TailInv ==
  /\ IF boot = "install" \/ \E p \in Proc : pc[p] \in {"writeLog", "install"}
     THEN tail < Len(lh)
     ELSE tail = 0
  /\ \A p \in Proc : pc[p] = "writeHead" => 0 < Len(lh)

\* The header on the disk is empty, or that of the group that is installed.
HeaderInv ==
  /\ boot = "up" => header = IF \E p \in Proc : pc[p] \in {"install", "clearHead"}
                             THEN lh ELSE <<>>
  /\ boot \in {"install", "clear"} => header = lh
  /\ Len(header) <= Len(logBlock)

\* The log on the disk has the contents of the first n blocks of the group.
Logged(n) ==
  n <= Len(logBlock) /\ \A i \in 1..n : logBlock[i] = Contents(lh[i])

\* The first n blocks of the group are in their homes.
Installed(n) == \A i \in 1..n : home[lh[i]] = logBlock[i]

\* How far write_log() and install_trans() are.
LogInv ==
  /\ \A p \in Proc :
       /\ pc[p] = "writeLog" => Logged(tail)
       /\ pc[p] \in {"writeHead", "install", "clearHead"} => Logged(Len(lh))
       /\ pc[p] = "install" => Installed(tail)
       /\ pc[p] = "clearHead" => Installed(Len(lh))
  /\ boot = "install" => Installed(tail)
  /\ boot = "clear" => Installed(Len(lh))

\* A block that is not pinned may be read from its home.
HomeInv ==
  ~panicked => \A b \in Block : (boot = "up" /\ b \in Pinned) \/ Contents(b) = home[b]

IInv == TypeInv /\ CommitInv /\ TailInv /\ HeaderInv /\ LogInv /\ HomeInv

-----------------------------------------------------------------------------
\* The operations write fewer than MAXOPBLOCKS blocks, and the log on the disk
\* is large enough for them.
EnoughLog ==
  /\ OpBlocks < MAXOPBLOCKS /\ OpBlocks < LogBlocks - 1
  /\ LOGSIZE < LogBlocks - 1 + 2 * (MAXOPBLOCKS - OpBlocks)

\* The blocks that the open operations may still write.
Reserve == {r \in Ops \X (1..OpBlocks) : r[2] > Cardinality(wrote[r[1]])}

\* There is room in the log for the open operations.  One that was alone when it
\* began has the log for itself; with the second one, begin_op() has reserved
\* MAXOPBLOCKS for each.
SpaceInv ==
  /\ ~panicked
  /\ Len(lh) <= LOGSIZE /\ Len(header) <= LOGSIZE /\ Len(logBlock) <= LOGSIZE
  /\ \A p \in Proc : /\ wrote[p] \subseteq Members(lh)
                     /\ Cardinality(wrote[p]) <= OpBlocks
                     /\ pc[p] # "op" => wrote[p] = {}
  /\ \/ Ops = {}
     \/ \E p \in Proc : Ops = {p} /\ Len(lh) <= Cardinality(wrote[p])
     \/ Len(lh) + Cardinality(Reserve) + 2 * (MAXOPBLOCKS - OpBlocks) <= LOGSIZE

-----------------------------------------------------------------------------
(* The inductive invariant *)

\* What is used below of finite sets and their numbers of elements.  Lemma Finite
\* proves it.
Sized ==
  /\ IsFiniteSet({}) /\ Cardinality({}) = 0
  /\ \A S : IsFiniteSet(S) => Cardinality(S) \in Nat /\ (Cardinality(S) = 0 <=> S = {})
Smaller == \A S, T : IsFiniteSet(S) /\ T \subseteq S =>
                      IsFiniteSet(T) /\ Cardinality(T) <= Cardinality(S)
OneMore == \A S, x : IsFiniteSet(S) /\ x \notin S => Cardinality(S \cup {x}) = Cardinality(S) + 1
OneLess == \A S, x : IsFiniteSet(S) /\ x \in S =>
                      IsFiniteSet(S \ {x}) /\ Cardinality(S \ {x}) = Cardinality(S) - 1
Spread == \A S : \A n \in Nat : IsFiniteSet(S) =>
            /\ IsFiniteSet(S \X (1..n))
            /\ Cardinality(S \X (1..n)) = Cardinality(S) * n
Listed == \A n \in Nat : \A T : \A f \in [1..n -> T] :
            /\ \A j, k \in 1..n : f[j] = f[k] => j = k
            /\ \A t \in T : \E k \in 1..n : f[k] = t
            => Cardinality(T) = n
Counting == Sized /\ Smaller /\ OneMore /\ OneLess /\ Spread /\ Listed

\* What the assumption says of the constants.
LEMMA Names ==
  /\ None \notin Value /\ IsFiniteSet(Proc) /\ IsFiniteSet(Block)
  BY Zenon, LogAssumption

\* The open operations can be counted.
LEMMA OpsFinite ==
  ASSUME Counting
  PROVE  IsFiniteSet(Ops) /\ Cardinality(Ops) \in Nat
  <1>1. Ops \in SUBSET Proc
    BY Zenon DEF Ops
  <1> QED
    BY Zenon, <1>1, Names DEF Counting, Smaller, Sized

\* log_write() enters a block that the log does not have.
LEMMA LogAppend ==
  ASSUME NEW s \in Seq(Block), Distinct(s), NEW b \in Block
  PROVE  /\ b \in Members(s) => Members(s) = Members(s) \cup {b}
         /\ b \notin Members(s) => Append(s, b) \in Seq(Block) /\ Distinct(Append(s, b))
         /\ Members(Append(s, b)) = Members(s) \cup {b}
  <1> DEFINE t == Append(s, b)
  <1>1. /\ t \in Seq(Block) /\ Len(t) = Len(s) + 1 /\ Len(s) \in Nat
        /\ t[Len(s) + 1] = b /\ \A i \in 1..Len(s) : t[i] = s[i]
    OBVIOUS
  <1>2. Members(t) = Members(s) \cup {b}
    <2>1. \A i \in 1..Len(t) : i \in 1..Len(s) \/ i = Len(s) + 1
      BY <1>1
    <2>2. \A i \in 1..Len(s) : i \in 1..Len(t)
      BY <1>1
    <2>3. Len(s) + 1 \in 1..Len(t)
      BY <1>1
    <2> QED
      BY Zenon, <1>1, <2>1, <2>2, <2>3 DEF Members
  <1>3. ASSUME b \notin Members(s), NEW i \in 1..Len(t), NEW j \in 1..Len(t), t[i] = t[j]
        PROVE  i = j
    <2>1. \A k \in 1..Len(s) : s[k] # b
      BY Zenon, <1>3 DEF Members
    <2> QED
      BY <1>1, <1>3, <2>1 DEF Distinct
  <1> QED
    BY Zenon, <1>1, <1>2, <1>3 DEF Distinct

\* An empty log.
LEMMA EmptyLog == <<>> \in Seq(Block) /\ Distinct(<<>>)
  BY DEF Distinct

\* Every block has contents.
LEMMA ContentsValue ==
  ASSUME TypeInv, NEW b \in Block
  PROVE  Contents(b) \in Value
  BY Zenon DEF TypeInv, Contents

\* write_log() writes one block of the log.
LEMMA PutFacts ==
  ASSUME NEW s \in Seq(Value), NEW t \in Nat, t <= Len(s), NEW v \in Value
  PROVE  /\ Put(s, t + 1, v) \in Seq(Value)
         /\ Len(Put(s, t + 1, v)) >= Len(s) /\ Len(Put(s, t + 1, v)) > t
         /\ Len(Put(s, t + 1, v)) \in {Len(s), t + 1}
         /\ Put(s, t + 1, v)[t + 1] = v
         /\ \A i \in 1..t : Put(s, t + 1, v)[i] = s[i]
  <1> DEFINE n == IF t + 1 > Len(s) THEN t + 1 ELSE Len(s)
             f == [k \in 1..n |-> IF k = t + 1 THEN v ELSE s[k]]
  <1>1. n \in Nat /\ n >= Len(s) /\ n > t /\ n \in {Len(s), t + 1} /\ Len(s) \in Nat
    OBVIOUS
  <1>2. \A k \in 1..n : k = t + 1 \/ k \in 1..Len(s)
    OBVIOUS
  <1>3. f \in [1..n -> Value]
    BY <1>2
  <1>4. f \in Seq(Value) /\ Len(f) = n
    BY <1>1, <1>3
  <1>5. f[t + 1] = v /\ \A i \in 1..t : f[i] = s[i]
    BY <1>1
  <1> QED
    BY Zenon, <1>1, <1>4, <1>5 DEF Put

\* An operation is called.
LEMMA CallIInv ==
  ASSUME IInv, NEW p \in Proc, Call(p)
  PROVE  IInv'
  <1>1. Ops' = Ops /\ Committer' = Committer /\ boot = "up" /\ pc[p] \notin CommitPlace
    BY DEF Ops, Committer, CommitPlace, Call, At, Goto
  <1>2. TypeInv'
    BY Zenon, <1>1, Names DEF IInv, TypeInv, Call, Goto, disk
  <1>3. CommitInv'
    <2>1. \A q \in Proc : pc'[q] = "done" => pc[q] = "done"
      BY DEF Call, Goto
    <2> QED
      BY Zenon, <1>1, <2>1 DEF IInv, CommitInv, Call
  <1>4. TailInv'
    BY <1>1, Names DEF IInv, TailInv, Call, At, Goto
  <1>5. HeaderInv'
    BY <1>1, Names DEF IInv, HeaderInv, Call, At, Goto, disk
  <1>6. LogInv'
    BY <1>1, Names DEF IInv, LogInv, Logged, Installed, Contents, Call, Goto, disk
  <1>7. HomeInv'
    <2>1. \A q \in Proc : pc'[q] \in {"install", "clearHead"} \/ pc[q] \in {"install", "clearHead"}
                          => pc'[q] = pc[q]
      BY DEF Call, At, Goto
    <2>2. Pinned' = Pinned
      BY Zenon, <2>1 DEF Pinned, Call
    <2> QED
      BY Zenon, <2>2 DEF IInv, HomeInv, Contents, Call, disk
  <1> QED
    BY Zenon, <1>2, <1>3, <1>4, <1>5, <1>6, <1>7 DEF IInv

\* begin_op() opens an operation, or sleeps.
LEMMA BeginOpIInv ==
  ASSUME Counting, IInv, NEW p \in Proc, BeginOp(p)
  PROVE  IInv'
  <1>1. /\ boot = "up" /\ pc[p] \notin CommitPlace /\ p \notin Ops
        /\ Committer' = Committer
        /\ \/ Ops' = Ops /\ outstanding' = outstanding
           \/ Ops' = Ops \cup {p} /\ outstanding' = outstanding + 1 /\ ~committing
    BY Zenon DEF IInv, TypeInv, Ops, Committer, CommitPlace, BeginOp, At, Goto
  <1>2. TypeInv'
    BY Zenon, <1>1, Names DEF IInv, TypeInv, CommitPlace, Idle, BeginOp, At, Goto, disk
  <1>3. CommitInv'
    <2>1. outstanding' = Cardinality(Ops')
      <3>1. Cardinality(Ops \cup {p}) = Cardinality(Ops) + 1
        BY Zenon, <1>1, OpsFinite DEF Counting, OneMore
      <3> QED
        BY Zenon, <1>1, <3>1 DEF IInv, CommitInv
    <2>2. \A q \in Proc : pc'[q] = "done" => pc[q] = "done"
      BY Zenon DEF IInv, TypeInv, BeginOp, Goto
    <2> QED
      BY Zenon, <1>1, <2>1, <2>2 DEF IInv, CommitInv, BeginOp
  <1>4. TailInv'
    BY Zenon, <1>1, Names DEF IInv, TypeInv, TailInv, BeginOp, At, Goto
  <1>5. HeaderInv'
    BY Zenon, <1>1, Names DEF IInv, TypeInv, HeaderInv, BeginOp, Goto, disk
  <1>6. LogInv'
    BY <1>1, Names DEF IInv, TypeInv, LogInv, Logged, Installed, Contents, BeginOp, Goto, disk
  <1>7. HomeInv'
    <2>1. \A q \in Proc : pc'[q] \in {"install", "clearHead"} \/ pc[q] \in {"install", "clearHead"}
                          => pc'[q] = pc[q]
      BY Zenon DEF IInv, TypeInv, BeginOp, At, Goto
    <2>2. Pinned' = Pinned
      BY Zenon, <2>1 DEF Pinned, BeginOp
    <2> QED
      BY Zenon, <2>2 DEF IInv, HomeInv, Contents, BeginOp, disk
  <1> QED
    BY Zenon, <1>2, <1>3, <1>4, <1>5, <1>6, <1>7 DEF IInv

\* log_write() pins the block it records.
LEMMA LogWriteIInv ==
  ASSUME IInv, NEW p \in Proc, NEW b \in Block, NEW v \in Value, LogWrite(p, b, v)
  PROVE  IInv'
  <1>1. /\ boot = "up" /\ ~panicked /\ p \in Ops /\ ~committing
        /\ \A q \in Proc : pc[q] \notin CommitPlace
    BY Zenon DEF IInv, CommitInv, Committer, Ops, LogWrite, At
  <1>2. /\ lh' \in Seq(Block) /\ Distinct(lh')
        /\ panicked' \/ Members(lh') = Members(lh) \cup {b}
    <2>1. lh \in Seq(Block) /\ Distinct(lh)
      BY Zenon DEF IInv, TypeInv
    <2>2. \/ lh' = lh /\ (panicked' \/ b \in Members(lh))
          \/ lh' = Append(lh, b) /\ b \notin Members(lh)
      BY Zenon DEF LogWrite
    <2>3. CASE lh' = lh /\ (panicked' \/ b \in Members(lh))
      BY <2>1, <2>3, LogAppend, Zenon
    <2>4. CASE lh' = Append(lh, b) /\ b \notin Members(lh)
      BY <2>1, <2>4, LogAppend, Zenon
    <2> QED
      BY Zenon, <2>2, <2>3, <2>4
  <1>3. TypeInv'
    <2>1. cache' \in [Block -> Value \cup {None}]
      BY Zenon DEF IInv, TypeInv, LogWrite
    <2>2. wrote' \in [Proc -> SUBSET Block]
      <3>1. wrote \in [Proc -> SUBSET Block]
        BY Zenon DEF IInv, TypeInv
      <3>2. wrote' = wrote \/ wrote' = [wrote EXCEPT ![p] = @ \cup {b}]
        BY Zenon DEF LogWrite
      <3> QED
        BY Zenon, <3>1, <3>2
    <2>3. panicked' \in BOOLEAN
      <3>1. panicked' = TRUE \/ panicked' = panicked
        BY Zenon DEF LogWrite
      <3> QED
        BY Zenon, <3>1 DEF IInv, TypeInv
    <2>4. UNCHANGED <<disk, committing, pc, tail, boot>>
      BY Zenon DEF LogWrite
    <2> QED
      BY Zenon, <1>2, <2>1, <2>2, <2>3, <2>4 DEF IInv, TypeInv, disk
  <1>4. CommitInv'
    BY Zenon, <1>1, <1>2, Names DEF IInv, CommitInv, Ops, Committer, CommitPlace, LogWrite
  <1>5. TailInv'
    BY Zenon, <1>1, <1>2, Names DEF IInv, CommitPlace, TailInv, LogWrite
  <1>6. HeaderInv'
    BY Zenon, <1>1, <1>2, Names DEF IInv, CommitPlace, HeaderInv, LogWrite, disk
  <1>7. LogInv'
    BY Zenon, <1>1, <1>2, Names DEF CommitPlace, LogInv, LogWrite
  <1>8. HomeInv'
    <2> SUFFICES ASSUME ~panicked', NEW c \in Block, c \notin Pinned'
                 PROVE  Contents(c)' = home'[c]
      BY Zenon, <1>1 DEF HomeInv, LogWrite
    <2>1. Pinned = Members(lh) /\ Pinned' = Members(lh')
      BY Zenon, <1>1 DEF Pinned, LogWrite, CommitPlace
    <2>2. c # b /\ c \notin Pinned
      BY Zenon, <1>2, <2>1
    <2>3. cache'[c] = cache[c] /\ home' = home
      BY <2>2 DEF LogWrite, disk
    <2> QED
      BY Zenon, <1>1, <2>2, <2>3 DEF IInv, HomeInv, Contents
  <1> QED
    BY Zenon, <1>3, <1>4, <1>5, <1>6, <1>7, <1>8 DEF IInv

\* end_op(): the last operation commits the group.
LEMMA EndOpIInv ==
  ASSUME Counting, IInv, NEW p \in Proc, EndOp(p)
  PROVE  IInv'
  <1>1. /\ boot = "up" /\ ~panicked /\ p \in Ops /\ ~committing
        /\ \A q \in Proc : pc[q] \notin CommitPlace
    BY Zenon DEF IInv, CommitInv, Committer, Ops, EndOp, At
  <1>2. /\ Ops' = Ops \ {p} /\ outstanding' = outstanding - 1
        /\ UNCHANGED <<disk, cache, lh, tail, boot, panicked>>
    BY Zenon, <1>1 DEF IInv, TypeInv, Ops, EndOp, Goto, WakeupAnd
  <1>3. \/ /\ outstanding = 1 /\ committing' = TRUE
           /\ pc'[p] = "commit" /\ \A q \in Proc : q # p => pc'[q] \notin CommitPlace
        \/ /\ outstanding # 1 /\ committing' = FALSE
           /\ \A q \in Proc : pc'[q] \notin CommitPlace
    BY <1>1 DEF IInv, TypeInv, EndOp, Goto, WakeupAnd, CommitPlace
  <1>4. TypeInv'
    BY Zenon, <1>1, <1>2, <1>3, Names DEF IInv, TypeInv, CommitPlace, Idle, EndOp, WakeupAnd, At, Goto,
       disk
  <1>5. CommitInv'
    <2>1. /\ outstanding' = Cardinality(Ops')
          /\ outstanding' = 0 <=> Ops' = {}
      <3>1. Cardinality(Ops \ {p}) = Cardinality(Ops) - 1 /\ IsFiniteSet(Ops \ {p})
        BY Zenon, <1>1, OpsFinite DEF Counting, OneLess
      <3>2. Cardinality(Ops \ {p}) = 0 <=> Ops \ {p} = {}
        BY Zenon, <3>1 DEF Counting, Sized
      <3> QED
        BY Zenon, <1>2, <3>1, <3>2 DEF IInv, CommitInv
    <2>2. CASE outstanding = 1
      <3>1. Ops' = {}
        BY <1>2, <2>1, <2>2
      <3> QED
        BY Zenon, <1>1, <1>2, <1>3, <2>1, <2>2, <3>1 DEF CommitInv, Committer, CommitPlace
    <2>3. CASE outstanding # 1
      <3>1. Ops' # {}
        BY <1>2, <2>1, <2>3, OpsFinite
      <3> QED
        BY Zenon, <1>1, <1>2, <1>3, <2>1, <2>3, <3>1 DEF CommitInv, Committer, CommitPlace
    <2> QED
      BY Zenon, <2>2, <2>3
  <1>6. TailInv'
    BY Zenon, <1>1, <1>2, <1>3, Names DEF IInv, CommitPlace, TailInv
  <1>7. HeaderInv'
    BY Zenon, <1>1, <1>2, <1>3, Names DEF IInv, CommitPlace, HeaderInv, disk
  <1>8. LogInv'
    BY Zenon, <1>1, <1>2, <1>3, Names DEF CommitPlace, LogInv
  <1>9. HomeInv'
    <2>1. Pinned = Members(lh) /\ Pinned' = Members(lh)
      BY Zenon, <1>1, <1>2, <1>3 DEF Pinned, CommitPlace
    <2> QED
      BY Zenon, <1>1, <1>2, <2>1 DEF IInv, HomeInv, Contents, disk
  <1> QED
    BY Zenon, <1>4, <1>5, <1>6, <1>7, <1>8, <1>9 DEF IInv

\* commit() starts, with an empty log on the disk.
LEMMA CommitStartIInv ==
  ASSUME IInv, NEW p \in Proc, CommitStart(p)
  PROVE  IInv'
  <1>1. /\ p \in Committer /\ committing /\ Ops = {} /\ ~panicked /\ boot = "up"
        /\ \A q \in Proc : q # p => pc[q] \notin CommitPlace
    BY Zenon DEF IInv, CommitInv, Committer, CommitPlace, CommitStart, At
  <1>2. TypeInv'
    BY Zenon, <1>1, Names DEF IInv, TypeInv, CommitPlace, CommitStart, Goto, disk
  <1>3. CommitInv'
    <2>1. Ops' = Ops /\ Committer' = Committer
      BY <1>1 DEF Ops, Committer, CommitPlace, CommitStart, Goto
    <2>2. \A q \in Proc : pc'[q] = "done" => lh' = <<>>
      BY <1>1 DEF CommitPlace, CommitStart, At, Goto
    <2> QED
      BY Zenon, <1>1, <2>1, <2>2 DEF IInv, CommitInv, CommitStart
  <1>4. TailInv'
    BY <1>1, Names DEF IInv, TailInv, CommitStart, At, Goto
  <1>5. HeaderInv'
    BY <1>1, Names DEF IInv, HeaderInv, CommitStart, At, Goto, disk
  <1>6. LogInv'
    BY <1>1, Names DEF IInv, CommitPlace, TailInv, LogInv, Logged, CommitStart, At, Goto
  <1>7. HomeInv'
    BY <1>1, Names DEF IInv, HomeInv, Contents, Pinned, CommitStart, At, Goto, disk
  <1> QED
    BY Zenon, <1>2, <1>3, <1>4, <1>5, <1>6, <1>7 DEF IInv

\* write_log() copies a block of the group to the log.
LEMMA WriteLogIInv ==
  ASSUME IInv, NEW p \in Proc, WriteLog(p)
  PROVE  IInv'
  <1>1. /\ p \in Committer /\ committing /\ Ops = {} /\ ~panicked /\ boot = "up"
        /\ \A q \in Proc : q # p => pc[q] \notin CommitPlace
    BY Zenon DEF IInv, CommitInv, Committer, CommitPlace, WriteLog, At
  <1>2. PICK b \in Block : b = lh[tail + 1] /\ tail + 1 \in 1..Len(lh)
    <2>1. tail < Len(lh) /\ tail \in Nat /\ lh \in Seq(Block)
      BY Zenon, <1>1 DEF IInv, TypeInv, TailInv, WriteLog, At
    <2> QED
      BY <2>1
  <1>3. /\ logBlock' \in Seq(Value) /\ Len(logBlock') >= Len(logBlock) /\ Len(logBlock') > tail
        /\ logBlock'[tail + 1] = Contents(b)
        /\ \A i \in 1..tail : logBlock'[i] = logBlock[i]
    <2>1. logBlock \in Seq(Value) /\ tail \in Nat /\ tail <= Len(logBlock)
      BY Zenon DEF IInv, TypeInv, LogInv, Logged, WriteLog, At
    <2>2. Contents(b) \in Value
      BY Zenon, ContentsValue DEF IInv
    <2>3. logBlock' = Put(logBlock, tail + 1, Contents(b))
      BY Zenon, <1>2 DEF WriteLog
    <2> QED
      BY Zenon, <2>1, <2>2, <2>3, PutFacts
  <1>4. /\ cache' \in [Block -> Value \cup {None}] /\ home' = home
        /\ \A c \in Block : (IF cache'[c] = None THEN home'[c] ELSE cache'[c]) = Contents(c)
    <2>1. Contents(b) \in Value /\ Contents(b) # None
      BY Zenon, ContentsValue, Names DEF IInv
    <2>2. cache' = [cache EXCEPT ![b] = Contents(b)] /\ home' = home
      BY Zenon, <1>2 DEF WriteLog
    <2> QED
      BY Zenon, <2>1, <2>2 DEF IInv, TypeInv, Contents
  <1>5. /\ UNCHANGED <<header, lh, boot, panicked>>
        /\ \/ tail + 1 < Len(lh) /\ tail' = tail + 1 /\ pc' = pc
           \/ tail + 1 = Len(lh) /\ tail' = 0 /\ pc' = [pc EXCEPT ![p] = "writeHead"]
    <2>1. tail + 1 < Len(lh) \/ tail + 1 = Len(lh)
      BY SMTT(30), <1>2
    <2> QED
      BY Zenon, <2>1 DEF WriteLog, NextBlock, Goto
  <1>6. TypeInv'
    <2>1. tail' \in Nat /\ pc' \in [Proc -> {"idle", "begin", "asleep", "op"} \cup CommitPlace]
      BY SMTT(30), <1>5 DEF IInv, TypeInv, CommitPlace
    <2> QED
      BY Zenon, <1>3, <1>4, <1>5, <2>1 DEF IInv, TypeInv, WriteLog
  <1>7. CommitInv'
    <2>1. Ops' = Ops /\ Committer' = Committer
      BY Zenon, <1>1 DEF IInv, TypeInv, Ops, Committer, CommitPlace, WriteLog, NextBlock, Goto
    <2>2. \A q \in Proc : pc'[q] = "done" => lh' = <<>>
      BY Zenon, <1>1 DEF IInv, TypeInv, CommitPlace, WriteLog, NextBlock, At, Goto
    <2> QED
      BY Zenon, <1>1, <2>1, <2>2 DEF IInv, CommitInv, WriteLog
  <1>8. TailInv'
    BY SMTT(30), <1>1, <1>2, <1>3, <1>4, <1>5, Names DEF TailInv, WriteLog, At
  <1>9. HeaderInv'
    BY SMTT(30), <1>1, <1>2, <1>3, <1>4, <1>5, Names DEF IInv, TypeInv, HeaderInv, WriteLog, At
  <1>10. LogInv'
    <2>1. /\ tail + 1 <= Len(logBlock')
          /\ \A i \in 1..(tail + 1) :
               logBlock'[i] = IF cache'[lh[i]] = None THEN home'[lh[i]] ELSE cache'[lh[i]]
      <3>1. tail \in Nat /\ lh \in Seq(Block) /\ \A i \in 1..tail : logBlock[i] = Contents(lh[i])
        BY Zenon DEF IInv, TypeInv, LogInv, Logged, WriteLog, At
      <3>2. \A i \in 1..(tail + 1) : lh[i] \in Block /\ (i \in 1..tail \/ i = tail + 1)
        BY <1>2, <3>1
      <3>3. \A i \in 1..(tail + 1) : logBlock'[i] = Contents(lh[i])
        BY Zenon, <1>2, <1>3, <3>1, <3>2
      <3> QED
        BY SMTT(30), <1>3, <1>4, <3>1, <3>2, <3>3
    <2>2. \A q \in Proc : q # p => pc'[q] \notin CommitPlace
      BY Zenon, <1>1, <1>5 DEF IInv, TypeInv
    <2>3. \/ tail' = tail + 1 /\ pc'[p] = "writeLog"
          \/ tail + 1 = Len(lh) /\ pc'[p] = "writeHead"
      BY Zenon, <1>5 DEF IInv, TypeInv, WriteLog, At
    <2>4. lh' = lh /\ boot' = "up"
      BY Zenon, <1>1, <1>5
    <2> QED
      BY Zenon, <2>1, <2>2, <2>3, <2>4 DEF LogInv, Logged, Contents, CommitPlace
  <1>11. HomeInv'
    <2>1. Pinned' = Members(lh) /\ Pinned = Members(lh)
      BY Zenon, <1>1, <1>5 DEF IInv, TypeInv, Pinned, CommitPlace, WriteLog, At
    <2> QED
      BY Zenon, <1>1, <1>4, <1>5, <2>1 DEF IInv, HomeInv, Contents
  <1> QED
    BY Zenon, <1>6, <1>7, <1>8, <1>9, <1>10, <1>11 DEF IInv

\* write_head(): the group has committed.
LEMMA WriteHeadIInv ==
  ASSUME IInv, NEW p \in Proc, WriteHead(p)
  PROVE  IInv'
  <1>1. /\ p \in Committer /\ committing /\ Ops = {} /\ ~panicked /\ boot = "up"
        /\ \A q \in Proc : q # p => pc[q] \notin CommitPlace
    BY Zenon DEF IInv, CommitInv, Committer, CommitPlace, WriteHead, At
  <1>2. TypeInv'
    BY Zenon, <1>1, Names DEF IInv, TypeInv, CommitPlace, WriteHead, Goto
  <1>3. CommitInv'
    <2>1. Ops' = Ops /\ Committer' = Committer
      BY <1>1 DEF Ops, Committer, CommitPlace, WriteHead, Goto
    <2>2. \A q \in Proc : pc'[q] = "done" => lh' = <<>>
      BY <1>1 DEF CommitPlace, WriteHead, At, Goto
    <2> QED
      BY Zenon, <1>1, <2>1, <2>2 DEF IInv, CommitInv, WriteHead
  <1>4. TailInv'
    BY <1>1, Names DEF IInv, TailInv, WriteHead, At, Goto
  <1>5. HeaderInv'
    <2>1. pc'[p] = "install" /\ header' = lh /\ UNCHANGED <<lh, logBlock, boot>>
      BY Zenon DEF IInv, TypeInv, WriteHead, Goto
    <2>2. Len(lh) <= Len(logBlock)
      BY Zenon DEF IInv, LogInv, Logged, WriteHead, At
    <2> QED
      BY Zenon, <1>1, <2>1, <2>2 DEF HeaderInv
  <1>6. LogInv'
    BY <1>1, Names DEF IInv, CommitPlace, TailInv, LogInv, Logged, Installed, Contents,
       WriteHead, At, Goto
  <1>7. HomeInv'
    <2>1. Pinned' = Pinned
      <3>1. tail = 0 /\ lh \in Seq(Block)
        BY Zenon, <1>1 DEF IInv, TypeInv, TailInv, WriteHead, At
      <3>2. Pinned = Members(lh)
        BY Zenon, <1>1 DEF Pinned, CommitPlace, WriteHead, At
      <3>3. Pinned' = {lh[i] : i \in 1..Len(lh)}
        BY <1>1, <3>1 DEF Pinned, CommitPlace, WriteHead, Goto, IInv, TypeInv
      <3> QED
        BY Zenon, <3>2, <3>3 DEF Members
    <2> QED
      BY Zenon, <2>1 DEF IInv, HomeInv, Contents, WriteHead
  <1> QED
    BY Zenon, <1>2, <1>3, <1>4, <1>5, <1>6, <1>7 DEF IInv

\* install_trans() copies a block home.
LEMMA InstallTransIInv ==
  ASSUME IInv, NEW p \in Proc, InstallTrans(p)
  PROVE  IInv'
  <1>1. /\ p \in Committer /\ committing /\ Ops = {} /\ ~panicked /\ boot = "up"
        /\ \A q \in Proc : q # p => pc[q] \notin CommitPlace
    BY Zenon DEF IInv, CommitInv, Committer, CommitPlace, InstallTrans, At
  <1>2. PICK b \in Block : b = lh[tail + 1] /\ tail + 1 \in 1..Len(lh)
    <2>1. tail < Len(lh) /\ tail \in Nat /\ lh \in Seq(Block)
      BY Zenon, <1>1 DEF IInv, TypeInv, TailInv, InstallTrans, At
    <2> QED
      BY <2>1
  <1>3. /\ home' = [home EXCEPT ![b] = logBlock[tail + 1]]
        /\ cache' = [cache EXCEPT ![b] = logBlock[tail + 1]]
        /\ logBlock[tail + 1] \in Value /\ logBlock[tail + 1] # None
    <2>1. logBlock \in Seq(Value) /\ Len(lh) <= Len(logBlock) /\ lh \in Seq(Block)
      BY Zenon DEF IInv, TypeInv, LogInv, Logged, InstallTrans, At
    <2>2. logBlock[tail + 1] \in Value
      BY <1>2, <2>1
    <2> QED
      BY Zenon, <1>2, <2>2, Names DEF InstallTrans, InstallBlock
  <1>4. /\ UNCHANGED <<logBlock, header, lh, boot, panicked>>
        /\ \/ tail + 1 < Len(lh) /\ tail' = tail + 1 /\ pc' = pc
           \/ tail + 1 = Len(lh) /\ tail' = 0 /\ pc' = [pc EXCEPT ![p] = "clearHead"]
    <2>1. tail + 1 < Len(lh) \/ tail + 1 = Len(lh)
      BY <1>2
    <2> QED
      BY Zenon, <2>1 DEF InstallTrans, NextBlock, Goto
  <1>5. TypeInv'
    <2>1. tail' \in Nat /\ pc' \in [Proc -> {"idle", "begin", "asleep", "op"} \cup CommitPlace]
      BY <1>4 DEF IInv, TypeInv, CommitPlace
    <2>2. home' \in [Block -> Value] /\ cache' \in [Block -> Value \cup {None}]
      BY Zenon, <1>3 DEF IInv, TypeInv
    <2> QED
      BY Zenon, <1>4, <2>1, <2>2 DEF IInv, TypeInv, InstallTrans
  <1>6. CommitInv'
    <2>1. Ops' = Ops /\ Committer' = Committer
      BY Zenon, <1>1 DEF IInv, TypeInv, Ops, Committer, CommitPlace, InstallTrans, NextBlock, Goto
    <2>2. \A q \in Proc : pc'[q] = "done" => lh' = <<>>
      BY Zenon, <1>1 DEF IInv, TypeInv, CommitPlace, InstallTrans, NextBlock, At, Goto
    <2> QED
      BY Zenon, <1>1, <2>1, <2>2 DEF IInv, CommitInv, InstallTrans
  <1>7. TailInv'
    BY SMTT(30), <1>1, <1>2, <1>3, <1>4, Names DEF TailInv, InstallTrans, At
  <1>8. HeaderInv'
    BY Zenon, <1>1, <1>2, <1>3, <1>4, Names DEF IInv, TypeInv, HeaderInv, InstallTrans, At
  <1>9. LogInv'
    <2>1. /\ Len(lh) <= Len(logBlock) /\ tail \in Nat /\ lh \in Seq(Block) /\ Distinct(lh)
          /\ \A i \in 1..Len(lh) : logBlock[i] = Contents(lh[i])
          /\ \A i \in 1..tail : home[lh[i]] = logBlock[i]
      BY Zenon DEF IInv, TypeInv, LogInv, Logged, Installed, InstallTrans, At
    <2>2. \A i \in 1..Len(lh) : lh[i] \in Block /\ (lh[i] = b => i = tail + 1)
      BY <1>2, <2>1 DEF Distinct
    <2>3. \A i \in 1..Len(lh) :
            logBlock[i] = IF cache'[lh[i]] = None THEN home'[lh[i]] ELSE cache'[lh[i]]
      BY <1>2, <1>3, <2>1, <2>2 DEF Contents
    <2>4. \A i \in 1..(tail + 1) : home'[lh[i]] = logBlock[i]
      <3>1. \A i \in 1..(tail + 1) : i \in 1..Len(lh) /\ (i \in 1..tail \/ i = tail + 1)
        BY <1>2, <2>1
      <3> QED
        BY Zenon, <1>2, <1>3, <2>1, <2>2, <3>1 DEF IInv, TypeInv
    <2>5. \A q \in Proc : q # p => pc'[q] \notin CommitPlace
      BY Zenon, <1>1, <1>4 DEF IInv, TypeInv
    <2>6. \/ tail' = tail + 1 /\ pc'[p] = "install"
          \/ tail + 1 = Len(lh) /\ pc'[p] = "clearHead"
      BY Zenon, <1>4 DEF IInv, TypeInv, InstallTrans, At
    <2>7. logBlock' = logBlock /\ lh' = lh /\ boot' = "up"
      BY Zenon, <1>1, <1>4
    <2> QED
      BY Zenon, <2>1, <2>3, <2>4, <2>5, <2>6, <2>7 DEF LogInv, Logged, Installed, Contents, CommitPlace
  <1>10. HomeInv'
    BY SMTT(30), <1>1, <1>2, <1>3, <1>4, Names DEF IInv, TypeInv, HomeInv, Contents, Pinned, InstallTrans, At
  <1> QED
    BY Zenon, <1>5, <1>6, <1>7, <1>8, <1>9, <1>10 DEF IInv

\* The group is home, and the header is cleared.
LEMMA ClearHeadIInv ==
  ASSUME IInv, NEW p \in Proc, ClearHead(p)
  PROVE  IInv'
  <1>1. /\ p \in Committer /\ committing /\ Ops = {} /\ ~panicked /\ boot = "up"
        /\ \A q \in Proc : q # p => pc[q] \notin CommitPlace
    BY Zenon DEF IInv, CommitInv, Committer, CommitPlace, ClearHead, At
  <1>2. TypeInv'
    <2>1. pc' \in [Proc -> {"idle", "begin", "asleep", "op"} \cup CommitPlace]
      BY Zenon DEF IInv, TypeInv, CommitPlace, ClearHead, Goto
    <2> QED
      BY Zenon, <2>1, EmptyLog DEF IInv, TypeInv, ClearHead
  <1>3. CommitInv'
    <2>1. Ops' = Ops /\ Committer' = Committer
      BY <1>1 DEF Ops, Committer, CommitPlace, ClearHead, Goto
    <2>2. \A q \in Proc : pc'[q] = "done" => lh' = <<>>
      BY Zenon, <1>1 DEF ClearHead
    <2> QED
      BY Zenon, <1>1, <2>1, <2>2 DEF IInv, CommitInv, ClearHead
  <1>4. TailInv'
    BY <1>1, Names DEF IInv, CommitPlace, TailInv, ClearHead, At, Goto
  <1>5. HeaderInv'
    BY <1>1, Names DEF HeaderInv, ClearHead
  <1>6. LogInv'
    BY <1>1, Names DEF CommitPlace, LogInv, Logged, Installed, ClearHead, At, Goto
  <1>7. HomeInv'
    BY Zenon, <1>1, Names DEF IInv, HomeInv, Contents, Pinned, ClearHead, At
  <1> QED
    BY Zenon, <1>2, <1>3, <1>4, <1>5, <1>6, <1>7 DEF IInv

\* end_op() is done, and wakes who waits in begin_op().
LEMMA CommitDoneIInv ==
  ASSUME IInv, NEW p \in Proc, CommitDone(p)
  PROVE  IInv'
  <1>1. /\ p \in Committer /\ committing /\ Ops = {} /\ ~panicked /\ boot = "up"
        /\ \A q \in Proc : q # p => pc[q] \notin CommitPlace
    BY Zenon DEF IInv, CommitInv, Committer, CommitPlace, CommitDone, At
  <1>2. TypeInv'
    BY Zenon, <1>1, Names DEF IInv, TypeInv, CommitPlace, Idle, CommitDone, WakeupAnd, At, Goto, disk
  <1>3. CommitInv'
    <2>1. Ops' = Ops /\ Committer' = {}
      BY Zenon, <1>1 DEF Ops, Committer, CommitPlace, CommitDone, WakeupAnd
    <2>2. lh = <<>> /\ lh' = lh
      BY Zenon DEF IInv, CommitInv, CommitDone, At
    <2> QED
      BY Zenon, <1>1, <2>1, <2>2 DEF IInv, CommitInv, CommitDone
  <1>4. TailInv'
    BY Zenon, <1>1, Names DEF IInv, TailInv, CommitDone, WakeupAnd, At
  <1>5. HeaderInv'
    BY Zenon, <1>1, Names DEF IInv, HeaderInv, CommitDone, WakeupAnd, At, disk
  <1>6. LogInv'
    BY Zenon, <1>1, Names DEF CommitPlace, LogInv, CommitDone, WakeupAnd
  <1>7. HomeInv'
    BY Zenon, <1>1, Names DEF IInv, HomeInv, Contents, Pinned, CommitDone, WakeupAnd, At, disk
  <1> QED
    BY Zenon, <1>2, <1>3, <1>4, <1>5, <1>6, <1>7 DEF IInv

\* A buffer that is not pinned leaves the cache.
LEMMA EvictIInv ==
  ASSUME IInv, NEW b \in Block, Evict(b)
  PROVE  IInv'
  <1>1. TypeInv'
    BY Zenon, Names DEF IInv, TypeInv, Evict, disk
  <1>2. CommitInv'
    BY Zenon, Names DEF IInv, CommitInv, Ops, Committer, Evict
  <1>3. TailInv'
    BY Zenon, Names DEF IInv, TailInv, Evict
  <1>4. HeaderInv'
    BY Zenon, Names DEF IInv, HeaderInv, Evict, disk
  <1>5. LogInv'
    <2>1. home' = home /\ cache' = [cache EXCEPT ![b] = None]
      BY Zenon DEF Evict, disk
    <2>2. Contents(b) = home[b]
      BY Zenon DEF IInv, HomeInv, Evict
    <2>3. \A c \in Block : (IF cache'[c] = None THEN home'[c] ELSE cache'[c]) = Contents(c)
      BY <2>1, <2>2 DEF Contents
    <2>4. lh \in Seq(Block) /\ tail \in Nat /\ \A i \in 1..Len(lh) : lh[i] \in Block
      BY DEF IInv, TypeInv
    <2>5. \A p \in Proc : pc[p] = "writeLog" => \A i \in 1..tail : i \in 1..Len(lh)
      BY SMTT(30), <2>4 DEF IInv, TailInv
    <2>6. \A p \in Proc : pc[p] = "writeLog" => Logged(tail)'
      BY SMTT(30), <2>3, <2>4, <2>5 DEF IInv, LogInv, Logged, Contents, Evict, disk
    <2>7. \A p \in Proc : pc[p] \in {"writeHead", "install", "clearHead"} => Logged(Len(lh))'
      BY SMTT(30), <2>3, <2>4 DEF IInv, LogInv, Logged, Contents, Evict, disk
    <2> QED
      BY Zenon, <2>1, <2>6, <2>7 DEF IInv, LogInv, Installed, Evict, disk
  <1>6. HomeInv'
    BY Names DEF IInv, HomeInv, Contents, Pinned, Evict, disk
  <1> QED
    BY Zenon, <1>1, <1>2, <1>3, <1>4, <1>5, <1>6 DEF IInv

\* The machine stops and starts again.
LEMMA CrashIInv ==
  ASSUME Counting, IInv, Crash
  PROVE  IInv'
  <1>1. TypeInv'
    <2>1. cache' \in [Block -> Value \cup {None}] /\ wrote' \in [Proc -> SUBSET Block]
      BY Zenon DEF Crash, Nothing
    <2>2. pc' \in [Proc -> {"idle", "begin", "asleep", "op"} \cup CommitPlace]
      BY Zenon DEF Crash, Idle
    <2> QED
      BY Zenon, <2>1, <2>2, EmptyLog DEF IInv, TypeInv, Crash, disk
  <1>2. CommitInv'
    <2>1. \A p \in Proc : pc'[p] = "idle"
      BY Zenon DEF Crash, Idle
    <2>2. Ops' = {} /\ Committer' = {}
      BY Zenon, <2>1 DEF Ops, Committer, CommitPlace
    <2> QED
      BY Zenon, <2>1, <2>2 DEF Counting, Sized, CommitInv, Crash
  <1>3. TailInv'
    BY Zenon, Names DEF Idle, TailInv, Crash
  <1>4. HeaderInv'
    BY Zenon, Names DEF IInv, HeaderInv, Crash, disk
  <1>5. LogInv'
    BY Names DEF LogInv, Logged, Installed, Crash
  <1>6. HomeInv'
    BY Zenon, Names DEF HomeInv, Contents, Crash, Nothing
  <1> QED
    BY Zenon, <1>1, <1>2, <1>3, <1>4, <1>5, <1>6 DEF IInv

\* recover_from_log() reads the header.
LEMMA ReadHeadIInv ==
  ASSUME IInv, ReadHead
  PROVE  IInv'
  <1>1. TypeInv'
    BY Zenon, Names DEF IInv, TypeInv, ReadHead, disk
  <1>2. CommitInv'
    BY Zenon, Names DEF IInv, CommitInv, Ops, Committer, Idle, ReadHead
  <1>3. TailInv'
    BY Names DEF IInv, CommitInv, Idle, TailInv, ReadHead
  <1>4. HeaderInv'
    BY Zenon, Names DEF IInv, HeaderInv, ReadHead, disk
  <1>5. LogInv'
    BY Names DEF IInv, CommitInv, Idle, TailInv, LogInv, Installed, ReadHead
  <1>6. HomeInv'
    BY Zenon, Names DEF IInv, HomeInv, Contents, ReadHead, disk
  <1> QED
    BY Zenon, <1>1, <1>2, <1>3, <1>4, <1>5, <1>6 DEF IInv

\* recover_from_log() copies a block home.
LEMMA ReinstallIInv ==
  ASSUME IInv, Reinstall
  PROVE  IInv'
  <1>1. PICK b \in Block : b = lh[tail + 1] /\ tail + 1 \in 1..Len(lh)
    <2>1. tail < Len(lh) /\ tail \in Nat /\ lh \in Seq(Block)
      BY Zenon DEF IInv, TypeInv, TailInv, Reinstall
    <2> QED
      BY <2>1
  <1>2. /\ home' = [home EXCEPT ![b] = logBlock[tail + 1]]
        /\ cache' = [cache EXCEPT ![b] = logBlock[tail + 1]]
        /\ logBlock[tail + 1] \in Value /\ logBlock[tail + 1] # None
    <2>1. logBlock \in Seq(Value) /\ Len(lh) <= Len(logBlock) /\ lh \in Seq(Block)
      BY Zenon DEF IInv, TypeInv, HeaderInv, Reinstall
    <2>2. logBlock[tail + 1] \in Value
      BY <1>1, <2>1
    <2> QED
      BY Zenon, <1>1, <2>2, Names DEF Reinstall, InstallBlock
  <1>3. /\ UNCHANGED <<logBlock, header, lh, pc, panicked>>
        /\ \/ tail + 1 < Len(lh) /\ tail' = tail + 1 /\ boot' = "install"
           \/ tail + 1 = Len(lh) /\ tail' = 0 /\ boot' = "clear"
    <2>1. tail + 1 < Len(lh) \/ tail + 1 = Len(lh)
      BY <1>1
    <2> QED
      BY Zenon, <2>1 DEF Reinstall
  <1>4. TypeInv'
    <2>1. tail' \in Nat /\ boot' \in {"up", "read", "install", "clear"}
      BY <1>3 DEF IInv, TypeInv
    <2>2. home' \in [Block -> Value] /\ cache' \in [Block -> Value \cup {None}]
      BY Zenon, <1>2 DEF IInv, TypeInv
    <2> QED
      BY Zenon, <1>3, <2>1, <2>2 DEF IInv, TypeInv, Reinstall
  <1>5. CommitInv'
    BY <1>1, <1>2, <1>3, Names DEF IInv, CommitInv, Ops, Committer, Reinstall
  <1>6. TailInv'
    BY <1>1, <1>2, <1>3, Names DEF TailInv
  <1>7. HeaderInv'
    BY Zenon, <1>1, <1>2, <1>3, Names DEF IInv, HeaderInv, Reinstall
  <1>8. LogInv'
    <2>1. /\ tail \in Nat /\ lh \in Seq(Block) /\ Distinct(lh)
          /\ \A i \in 1..tail : home[lh[i]] = logBlock[i]
      BY Zenon DEF IInv, TypeInv, LogInv, Installed, Reinstall
    <2>2. \A i \in 1..Len(lh) : lh[i] \in Block /\ (lh[i] = b => i = tail + 1)
      BY <1>1, <2>1 DEF Distinct
    <2>3. \A i \in 1..(tail + 1) : home'[lh[i]] = logBlock[i]
      <3>1. \A i \in 1..(tail + 1) : i \in 1..Len(lh) /\ (i \in 1..tail \/ i = tail + 1)
        BY <1>1, <2>1
      <3> QED
        BY Zenon, <1>1, <1>2, <2>1, <2>2, <3>1 DEF IInv, TypeInv
    <2>4. \A p \in Proc : pc'[p] = "idle"
      BY Zenon, <1>3 DEF IInv, CommitInv, Idle, Reinstall
    <2> QED
      BY Zenon, <1>3, <2>3, <2>4 DEF LogInv, Installed
  <1>9. HomeInv'
    BY SMTT(30), <1>1, <1>2, <1>3, Names DEF IInv, TypeInv, HomeInv, Contents, Reinstall
  <1> QED
    BY Zenon, <1>4, <1>5, <1>6, <1>7, <1>8, <1>9 DEF IInv

\* recover_from_log() clears the header.
LEMMA RecoveredIInv ==
  ASSUME IInv, Recovered
  PROVE  IInv'
  <1>1. TypeInv'
    BY Zenon, EmptyLog DEF IInv, TypeInv, Recovered
  <1>2. CommitInv'
    BY Zenon, Names DEF IInv, CommitInv, Ops, Committer, Recovered
  <1>3. TailInv'
    BY Zenon, Names DEF IInv, CommitInv, Idle, TailInv, Recovered
  <1>4. HeaderInv'
    BY Names DEF HeaderInv, Recovered
  <1>5. LogInv'
    BY Zenon, Names DEF IInv, CommitInv, Idle, LogInv, Recovered
  <1>6. HomeInv'
    BY Zenon, Names DEF IInv, HomeInv, Contents, Recovered
  <1> QED
    BY Zenon, <1>1, <1>2, <1>3, <1>4, <1>5, <1>6 DEF IInv

\* So does every step of Next, and one that changes nothing.
LEMMA NextIInv ==
  ASSUME Counting
  PROVE  IInv /\ [Next]_vars => IInv'
  <1> SUFFICES ASSUME IInv, [Next]_vars PROVE IInv'
    BY Zenon
  <1>1. CASE UNCHANGED vars
    <2>1. TypeInv' /\ CommitInv'
      BY Zenon, <1>1 DEF IInv, TypeInv, CommitInv, Ops, Committer, vars, disk
    <2>2. TailInv' /\ HeaderInv' /\ HomeInv'
      BY ZenonT(30), <1>1 DEF IInv, TailInv, HeaderInv, HomeInv, Pinned, Contents, vars, disk
    <2>3. LogInv'
      BY Zenon, <1>1 DEF IInv, LogInv, Logged, Installed, Contents, vars, disk
    <2> QED
      BY Zenon, <2>1, <2>2, <2>3 DEF IInv
  <1>2. ASSUME NEW p \in Proc, Call(p) \/ Step(p)
        PROVE  IInv'
    BY Zenon, <1>2, CallIInv, BeginOpIInv, EndOpIInv, CommitStartIInv, WriteLogIInv, WriteHeadIInv,
       InstallTransIInv, ClearHeadIInv, CommitDoneIInv DEF Step
  <1>3. ASSUME NEW p \in Proc, NEW b \in Block, NEW v \in Value, LogWrite(p, b, v)
        PROVE  IInv'
    BY Zenon, <1>3, LogWriteIInv
  <1>4. ASSUME NEW b \in Block, Evict(b)
        PROVE  IInv'
    BY Zenon, <1>4, EvictIInv
  <1>5. CASE Crash \/ Recover
    BY Zenon, <1>5, CrashIInv, ReadHeadIInv, ReinstallIInv, RecoveredIInv DEF Recover
  <1> QED
    BY Zenon, <1>1, <1>2, <1>3, <1>4, <1>5 DEF Next

\* A file system with an empty log satisfies it.
LEMMA InitIInv ==
  ASSUME Counting
  PROVE  Init => IInv
  <1> SUFFICES ASSUME Init PROVE IInv
    BY Zenon
  <1>1. \A p \in Proc : pc[p] = "idle"
    BY Zenon DEF Init, Idle
  <1>2. TypeInv
    <2>1. panicked \in BOOLEAN /\ committing \in BOOLEAN
      BY Zenon DEF Init
    <2>2. /\ cache \in [Block -> Value \cup {None}] /\ wrote \in [Proc -> SUBSET Block]
          /\ pc \in [Proc -> {"idle", "begin", "asleep", "op"} \cup CommitPlace]
      BY Zenon DEF Init, Nothing, Idle
    <2> QED
      BY <2>1, <2>2, EmptyLog DEF Init, TypeInv
  <1>3. CommitInv
    <2>1. Ops = {} /\ Committer = {}
      BY Zenon, <1>1 DEF Ops, Committer, CommitPlace
    <2> QED
      BY Zenon, <1>1, <2>1 DEF Counting, Sized, Init, CommitInv
  <1>4. TailInv /\ HeaderInv /\ LogInv
    BY <1>1 DEF Init, TailInv, HeaderInv, LogInv
  <1>5. HomeInv
    BY Zenon DEF Init, Nothing, HomeInv, Contents
  <1> QED
    BY Zenon, <1>2, <1>3, <1>4, <1>5 DEF IInv

-----------------------------------------------------------------------------
(* Refinement: the log implements AtomicDisk *)

\* The disk as the running system sees it.
Cached == IF boot = "up" THEN [b \in Block |-> Contents(b)] ELSE Durable

\* What recovery finds: the log for the blocks of the header, the homes for the
\* others.
LEMMA DurableFacts ==
  ASSUME TypeInv
  PROVE  /\ Durable \in [Block -> {Durable[b] : b \in Block}]
         /\ \A i \in 1..Len(header) : Durable[header[i]] = logBlock[i]
         /\ \A b \in Block : b \notin Members(header) => Durable[b] = home[b]
  <1>1. ASSUME NEW i \in 1..Len(header)
        PROVE  Durable[header[i]] = logBlock[i]
    <2>1. header[i] \in Block /\ header[i] \in Members(header)
      BY DEF TypeInv, Members
    <2>2. Position(header, header[i]) = i
      BY DEF Position
    <2> QED
      BY Zenon, <2>1, <2>2 DEF Durable
  <1> QED
    BY Zenon, <1>1 DEF Durable

\* What recovery makes of the disk is the blocks in their homes, when the log
\* is empty or installed.
LEMMA DurableHome ==
  ASSUME IInv, \A i \in 1..Len(header) : home[header[i]] = logBlock[i]
  PROVE  Durable = home
  <1>1. TypeInv
    BY Zenon DEF IInv
  <1>2. ASSUME NEW b \in Block
        PROVE  Durable[b] = home[b]
    <2>1. CASE b \notin Members(header)
      BY Zenon, <1>1, <2>1, DurableFacts
    <2>2. CASE b \in Members(header)
      <3>1. PICK i \in 1..Len(header) : header[i] = b
        BY Zenon, <2>2 DEF Members
      <3> QED
        BY Zenon, <1>1, <3>1, DurableFacts
    <2> QED
      BY Zenon, <2>1, <2>2
  <1>3. Durable = [b \in Block |-> Durable[b]]
    BY Zenon DEF Durable
  <1> QED
    BY Zenon, <1>1, <1>2, <1>3 DEF TypeInv

\* A step that leaves the disk alone.
LEMMA SameDurable ==
  ASSUME UNCHANGED disk
  PROVE  Durable' = Durable
  BY Zenon DEF Durable, disk

\* A step that leaves the disk and the cache alone.
LEMMA SameCached ==
  ASSUME UNCHANGED <<disk, cache>>, boot = "up", boot' = "up"
  PROVE  Cached' = Cached
  BY Zenon DEF Cached, Contents, disk

\* A step after which every block reads the same.
LEMMA EqualCached ==
  ASSUME boot = "up", boot' = "up",
         \A b \in Block : (IF cache'[b] = None THEN home'[b] ELSE cache'[b]) = Contents(b)
  PROVE  Cached' = Cached
  BY Zenon DEF Cached, Contents

\* begin_op() opens an operation.
LEMMA BeginOpRefines ==
  ASSUME IInv, NEW p \in Proc, BeginOp(p)
  PROVE  Disk!Begin(p) \/ UNCHANGED <<Durable, Cached, Ops>>
  <1>1. /\ p \notin Ops
        /\ Ops' = Ops \/ Ops' = Ops \cup {p}
    BY Zenon DEF IInv, TypeInv, Ops, BeginOp, At, Goto
  <1>2. Durable' = Durable /\ Cached' = Cached
    BY Zenon, SameDurable, SameCached DEF BeginOp, At
  <1> QED
    BY Zenon, <1>1, <1>2 DEF Disk!Begin, Cached, Ops

\* log_write() is a write of the operation.
LEMMA LogWriteRefines ==
  ASSUME IInv, NEW p \in Proc, NEW b \in Block, NEW v \in Value, LogWrite(p, b, v)
  PROVE  Disk!Write(p, b, v)
  <1>1. /\ p \in Ops /\ boot = "up" /\ UNCHANGED <<disk, boot, pc>>
        /\ cache' = [cache EXCEPT ![b] = v]
    BY Zenon DEF Ops, LogWrite, At
  <1>2. Durable' = Durable /\ Ops' = Ops
    BY Zenon, <1>1, SameDurable DEF Ops
  <1>3. Cached' = [Cached EXCEPT ![b] = v]
    BY Zenon, <1>1, Names DEF IInv, TypeInv, Cached, Contents, disk
  <1> QED
    BY Zenon, <1>1, <1>2, <1>3 DEF Disk!Write, Cached, Ops

\* end_op() ends one.
LEMMA EndOpRefines ==
  ASSUME IInv, NEW p \in Proc, EndOp(p)
  PROVE  Disk!End(p)
  <1>1. p \in Ops /\ ~committing
    BY Zenon DEF IInv, CommitInv, Ops, EndOp, At
  <1>2. Ops' = Ops \ {p}
    BY Zenon, <1>1 DEF IInv, TypeInv, Ops, EndOp, Goto, WakeupAnd
  <1>3. Durable' = Durable /\ Cached' = Cached
    BY Zenon, SameDurable, SameCached DEF EndOp, At
  <1> QED
    BY Zenon, <1>1, <1>2, <1>3 DEF Disk!End, Cached, Ops

\* write_log() shows nobody anything: the header is still empty.
LEMMA WriteLogRefines ==
  ASSUME IInv, NEW p \in Proc, WriteLog(p)
  PROVE  UNCHANGED <<Durable, Cached, Ops>>
  <1>1. /\ p \in Committer /\ boot = "up" /\ boot' = "up" /\ UNCHANGED <<home, header, lh>>
        /\ \A q \in Proc : q # p => pc[q] \notin CommitPlace
    BY Zenon DEF IInv, CommitInv, Committer, CommitPlace, WriteLog, At
  <1>2. header = <<>>
    BY Zenon, <1>1 DEF IInv, HeaderInv, CommitPlace, WriteLog, At
  <1>3. Durable' = Durable
    BY SMTT(30), <1>1, <1>2 DEF Durable, Members
  <1>4. lh[tail + 1] \in Block
    BY <1>1 DEF IInv, TypeInv, TailInv, WriteLog, At
  <1>5. Contents(lh[tail + 1]) # None
    BY Zenon, <1>4, ContentsValue, Names DEF IInv
  <1>6. Cached' = Cached
    BY SMTT(30), <1>1, <1>4, <1>5, EqualCached DEF WriteLog, Contents
  <1>7. Ops' = Ops
    BY Zenon DEF IInv, TypeInv, Ops, WriteLog, NextBlock, Goto, At
  <1> QED
    BY Zenon, <1>3, <1>6, <1>7

\* write_head() commits: what the log and the homes have together is what the
\* system sees, and no operation is open.
LEMMA WriteHeadRefines ==
  ASSUME IInv, IInv', NEW p \in Proc, WriteHead(p)
  PROVE  Disk!Commit
  <1>1. /\ p \in Committer /\ Ops = {} /\ boot = "up" /\ boot' = "up" /\ ~panicked
        /\ UNCHANGED <<home, logBlock, cache>> /\ header' = lh
        /\ \A q \in Proc : q # p => pc[q] \notin CommitPlace
    BY Zenon DEF IInv, CommitInv, Committer, CommitPlace, WriteHead, At
  <1>2. Ops' = Ops
    BY DEF Ops, WriteHead, Goto, At
  <1>3. Cached' = Cached
    BY Zenon, <1>1, EqualCached DEF Contents
  <1>4. /\ lh \in Seq(Block) /\ Distinct(lh)
        /\ \A i \in 1..Len(lh) : logBlock[i] = Contents(lh[i])
    BY Zenon DEF IInv, TypeInv, LogInv, Logged, WriteHead, At
  <1>5. Pinned = Members(lh)
    BY ZenonT(30), <1>1 DEF Pinned, CommitPlace, WriteHead, At
  <1>6. Durable' = [b \in Block |-> IF b \in Members(lh) THEN logBlock[Position(lh, b)] ELSE home[b]]
    BY Zenon, <1>1 DEF Durable
  <1>7. ASSUME NEW b \in Block
        PROVE  (IF b \in Members(lh) THEN logBlock[Position(lh, b)] ELSE home[b]) = Contents(b)
    <2>1. CASE b \in Members(lh)
      <3>1. PICK i \in 1..Len(lh) : lh[i] = b
        BY Zenon, <2>1 DEF Members
      <3>2. Position(lh, b) = i
        BY SMTT(30), <1>4, <3>1 DEF Position
      <3> QED
        BY Zenon, <1>4, <2>1, <3>1, <3>2
    <2>2. CASE b \notin Members(lh)
      BY Zenon, <1>1, <1>5, <2>2 DEF IInv, HomeInv
    <2> QED
      BY Zenon, <2>1, <2>2
  <1>8. Durable' = Cached
    BY Zenon, <1>1, <1>6, <1>7 DEF Cached
  <1> QED
    BY Zenon, <1>1, <1>2, <1>3, <1>8 DEF Disk!Commit, Cached, Ops

\* install_trans() copies home what recovery would: also a crash in the middle
\* of it, and a second recovery, changes nothing.
LEMMA InstallDurable ==
  ASSUME IInv, InstallBlock, tail + 1 \in 1..Len(lh), header = lh, UNCHANGED <<header, logBlock>>
  PROVE  Durable' = Durable
  <1>1. PICK b \in Block : b = lh[tail + 1] /\ b \in Members(header)
    BY DEF IInv, TypeInv, Members
  <1>2. home' = [home EXCEPT ![b] = logBlock[tail + 1]]
    BY Zenon, <1>1 DEF InstallBlock
  <1>3. \A c \in Block : c \notin Members(header) => home'[c] = home[c]
    BY <1>1, <1>2
  <1> QED
    BY Zenon, <1>3 DEF Durable

\* install_trans() in commit()
LEMMA InstallTransRefines ==
  ASSUME IInv, NEW p \in Proc, InstallTrans(p)
  PROVE  UNCHANGED <<Durable, Cached, Ops>>
  <1>1. boot = "up" /\ boot' = "up" /\ pc[p] = "install" /\ header = lh /\ UNCHANGED <<header, logBlock>>
    BY Zenon DEF IInv, HeaderInv, InstallTrans, At
  <1>2. /\ lh \in Seq(Block) /\ tail \in Nat /\ tail < Len(lh)
        /\ logBlock \in Seq(Value) /\ Logged(Len(lh))
    BY Zenon, <1>1 DEF IInv, TypeInv, TailInv, LogInv
  <1>3. PICK b \in Block : b = lh[tail + 1] /\ tail + 1 \in 1..Len(lh)
    BY <1>2
  <1>4. logBlock[tail + 1] = Contents(b) /\ Contents(b) # None
    BY SMTT(30), <1>2, <1>3, ContentsValue, Names DEF Logged
  <1>5. Durable' = Durable
    BY Zenon, <1>1, <1>3, InstallDurable DEF InstallTrans
  <1>6. Cached' = Cached
    <2>1. /\ home' = [home EXCEPT ![b] = Contents(b)]
          /\ cache' = [cache EXCEPT ![b] = Contents(b)]
      BY Zenon, <1>3, <1>4 DEF InstallTrans, InstallBlock
    <2>2. \A c \in Block : (IF cache'[c] = None THEN home'[c] ELSE cache'[c]) = Contents(c)
      BY <1>4, <2>1 DEF Contents
    <2> QED
      BY Zenon, <1>1, <2>2, EqualCached
  <1>7. Ops' = Ops
    BY Zenon, <1>1 DEF IInv, TypeInv, Ops, InstallTrans, NextBlock, Goto
  <1> QED
    BY Zenon, <1>5, <1>6, <1>7

\* The header is cleared when every block is home.
LEMMA ClearHeadRefines ==
  ASSUME IInv, IInv', NEW p \in Proc, ClearHead(p)
  PROVE  UNCHANGED <<Durable, Cached, Ops>>
  <1>1. /\ boot = "up" /\ boot' = "up" /\ header = lh /\ Installed(Len(lh))
        /\ UNCHANGED <<home, logBlock, cache>> /\ header' = <<>>
    BY Zenon DEF IInv, HeaderInv, LogInv, ClearHead, At
  <1>2. Durable = home
    BY Zenon, <1>1, DurableHome DEF Installed
  <1>3. Durable' = home
    BY <1>1 DEF Durable, Members, IInv, TypeInv
  <1>4. Cached' = Cached
    BY Zenon, <1>1, EqualCached DEF Contents
  <1>5. Ops' = Ops
    BY DEF Ops, ClearHead, Goto, At
  <1> QED
    BY Zenon, <1>2, <1>3, <1>4, <1>5

\* What leaves the cache is read again as it was.
LEMMA EvictRefines ==
  ASSUME IInv, NEW b \in Block, Evict(b)
  PROVE  UNCHANGED <<Durable, Cached, Ops>>
  <1>1. /\ boot = "up" /\ boot' = "up" /\ UNCHANGED <<disk, pc>>
        /\ cache' = [cache EXCEPT ![b] = None] /\ Contents(b) = home[b]
    BY Zenon DEF IInv, HomeInv, Evict
  <1>2. \A c \in Block : (IF cache'[c] = None THEN home'[c] ELSE cache'[c]) = Contents(c)
    BY <1>1 DEF Contents, disk
  <1>3. Durable' = Durable /\ Cached' = Cached
    BY Zenon, <1>1, <1>2, SameDurable, EqualCached
  <1> QED
    BY Zenon, <1>1, <1>3 DEF Ops

\* A crash loses what has not committed, and nothing else.
LEMMA CrashRefines ==
  ASSUME Crash
  PROVE  Disk!Crash
  <1>1. Durable' = Durable
    BY Zenon, SameDurable DEF Crash
  <1>2. Ops' = {}
    BY Zenon DEF Crash, Idle, Ops
  <1>3. Cached' = Durable
    BY Zenon, <1>1 DEF Crash, Cached
  <1> QED
    BY Zenon, <1>1, <1>2, <1>3 DEF Disk!Crash, Cached, Ops

\* Nobody sees the steps of recover_from_log().
LEMMA RecoverRefines ==
  ASSUME IInv, IInv', Recover
  PROVE  UNCHANGED <<Durable, Cached, Ops>>
  <1>1. CASE ReadHead
    <2>1. Durable' = Durable /\ boot # "up" /\ boot' # "up" /\ pc' = pc
      BY Zenon, <1>1, SameDurable DEF ReadHead
    <2> QED
      BY Zenon, <2>1 DEF Cached, Ops
  <1>2. CASE Reinstall
    <2>1. header = lh /\ tail < Len(lh) /\ lh \in Seq(Block) /\ tail \in Nat
      BY Zenon, <1>2 DEF IInv, TypeInv, HeaderInv, TailInv, Reinstall
    <2>2. Durable' = Durable
      BY <1>2, <2>1, InstallDurable DEF Reinstall
    <2>3. boot # "up" /\ boot' # "up" /\ pc' = pc
      BY Zenon, <1>2 DEF Reinstall
    <2> QED
      BY Zenon, <2>2, <2>3 DEF Cached, Ops
  <1>3. CASE Recovered
    <2>1. /\ boot = "clear" /\ boot' = "up" /\ header = lh /\ Installed(Len(lh))
          /\ UNCHANGED <<home, logBlock, cache, pc>> /\ header' = <<>>
      BY Zenon, <1>3 DEF IInv, HeaderInv, LogInv, Recovered
    <2>2. Durable = home
      BY Zenon, <2>1, DurableHome DEF Installed
    <2>3. Durable' = home
      BY SMTT(30), <2>1 DEF Durable, Members, IInv, TypeInv
    <2>4. \A b \in Block : Contents(b) = home[b]
      BY Zenon, <2>1 DEF IInv, CommitInv, HomeInv
    <2>5. Cached' = home
      BY Zenon, <2>1, <2>4 DEF Cached, Contents, IInv, TypeInv
    <2> QED
      BY Zenon, <2>1, <2>2, <2>3, <2>5 DEF Cached, Ops
  <1> QED
    BY Zenon, <1>1, <1>2, <1>3 DEF Recover

\* Every step of the log is a step of the atomic disk or invisible.
LEMMA NextRefines == IInv /\ IInv' /\ [Next]_vars => [Disk!Next]_(Disk!vars)
  <1> SUFFICES ASSUME IInv, IInv', [Next]_vars
               PROVE  Disk!Next \/ UNCHANGED <<Durable, Cached, Ops>>
    BY Zenon DEF Disk!vars, Cached, Ops
  <1>1. ASSUME NEW p \in Proc, BeginOp(p) \/ EndOp(p)
        PROVE  Disk!Next \/ UNCHANGED <<Durable, Cached, Ops>>
    BY Zenon, <1>1, BeginOpRefines, EndOpRefines DEF Disk!Next
  <1>2. ASSUME NEW p \in Proc, Call(p) \/ CommitStart(p) \/ CommitDone(p)
        PROVE  UNCHANGED <<Durable, Cached, Ops>>
    <2>1. boot = "up" /\ boot' = "up" /\ UNCHANGED <<disk, cache>>
      BY Zenon, <1>2 DEF Call, CommitStart, CommitDone, At
    <2>2. Ops' = Ops
      BY Zenon, <1>2 DEF IInv, TypeInv, Ops, Call, CommitStart, CommitDone, Goto, WakeupAnd, At
    <2> QED
      BY Zenon, <2>1, <2>2, SameDurable, SameCached
  <1>3. ASSUME NEW p \in Proc, WriteLog(p) \/ InstallTrans(p) \/ ClearHead(p)
        PROVE  UNCHANGED <<Durable, Cached, Ops>>
    BY Zenon, <1>3, WriteLogRefines, InstallTransRefines, ClearHeadRefines
  <1>4. ASSUME NEW p \in Proc, WriteHead(p)
        PROVE  Disk!Next
    BY Zenon, <1>4, WriteHeadRefines DEF Disk!Next
  <1>5. ASSUME NEW p \in Proc, NEW b \in Block, NEW v \in Value, LogWrite(p, b, v)
        PROVE  Disk!Next
    BY Zenon, <1>5, LogWriteRefines DEF Disk!Next
  <1>6. ASSUME NEW b \in Block, Evict(b)
        PROVE  UNCHANGED <<Durable, Cached, Ops>>
    BY Zenon, <1>6, EvictRefines
  <1>7. CASE Crash \/ Recover
    BY Zenon, <1>7, CrashRefines, RecoverRefines DEF Disk!Next
  <1>8. CASE UNCHANGED vars
    <2>1. UNCHANGED <<disk, cache, boot, pc>>
      BY Zenon, <1>8 DEF vars
    <2> QED
      BY Zenon, <2>1, SameDurable DEF Cached, Contents, Ops, disk
  <1> QED
    BY Zenon, <1>1, <1>2, <1>3, <1>4, <1>5, <1>6, <1>7, <1>8 DEF Next, Step

-----------------------------------------------------------------------------
(* The space that begin_op() reserves *)

\* What the assumption says of the sizes.
LEMMA Sizes ==
  /\ MAXOPBLOCKS \in Nat /\ OpBlocks \in Nat /\ LOGSIZE \in Nat /\ LogBlocks \in Nat
  /\ 1 <= MAXOPBLOCKS /\ MAXOPBLOCKS <= LOGSIZE
  BY LogAssumption

\* What an operation has written, and what the operations may still write, can
\* be counted.
LEMMA ReserveFinite ==
  ASSUME Counting
  PROVE  /\ IsFiniteSet(Reserve) /\ Cardinality(Reserve) \in Nat
         /\ Cardinality(Reserve) <= Cardinality(Ops) * OpBlocks
  <1>1. /\ IsFiniteSet(Ops \X (1..OpBlocks))
        /\ Cardinality(Ops \X (1..OpBlocks)) = Cardinality(Ops) * OpBlocks
    BY Zenon, OpsFinite, Sizes DEF Counting, Spread
  <1>2. Reserve \in SUBSET (Ops \X (1..OpBlocks))
    BY Zenon DEF Reserve
  <1>3. IsFiniteSet(Reserve) /\ Cardinality(Reserve) <= Cardinality(Ops \X (1..OpBlocks))
    BY Zenon, <1>1, <1>2 DEF Counting, Smaller
  <1>4. Cardinality(Reserve) \in Nat
    BY Zenon, <1>3 DEF Counting, Sized
  <1> QED
    BY Zenon, <1>1, <1>3, <1>4

\* What a transaction has written is finite.
LEMMA WroteFinite ==
  ASSUME Counting, NEW w \in SUBSET Block
  PROVE  IsFiniteSet(w) /\ Cardinality(w) \in Nat
  BY Zenon, Names DEF Counting, Smaller, Sized

\* Fewer reservations are not more.
LEMMA ReserveLess ==
  ASSUME Counting, IsFiniteSet(Reserve), NEW R \in SUBSET Reserve
  PROVE  Cardinality(R) \in Nat /\ Cardinality(R) <= Cardinality(Reserve)
  BY Zenon DEF Counting, Smaller, Sized

\* A log without a block twice has as many blocks as entries.
LEMMA DistinctLen ==
  ASSUME Counting, NEW s \in Seq(Block), Distinct(s)
  PROVE  Members(s) \subseteq Block /\ Cardinality(Members(s)) = Len(s)
  <1>1. PICK n \in Nat : n = Len(s) /\ s \in [1..n -> Block]
    OBVIOUS
  <1>2. /\ s \in [1..n -> Members(s)]
        /\ \A j, k \in 1..n : s[j] = s[k] => j = k
        /\ \A t \in Members(s) : \E k \in 1..n : s[k] = t
    BY Zenon, <1>1 DEF Distinct, Members
  <1>3. Cardinality(Members(s)) = n
    BY Zenon, <1>2 DEF Counting, Listed
  <1> QED
    BY Zenon, <1>1, <1>3 DEF Members

\* begin_op()'s arithmetic: with two operations or more, every one leaves
\* MAXOPBLOCKS - OpBlocks blocks of its reservation unused.
LEMMA Reserved ==
  ASSUME NEW l \in Nat, NEW n \in Nat, n >= 2, NEW c \in Nat, OpBlocks < MAXOPBLOCKS,
         l + n * MAXOPBLOCKS <= LOGSIZE, c <= n * OpBlocks
  PROVE  l + c + 2 * (MAXOPBLOCKS - OpBlocks) <= LOGSIZE
  <1>1. PICK d \in Nat : d = MAXOPBLOCKS - OpBlocks
    BY Sizes
  <1>2. MAXOPBLOCKS = OpBlocks + d
    BY <1>1, Sizes
  <1>3. n * MAXOPBLOCKS = n * OpBlocks + n * d
    BY <1>2, Sizes
  <1>4. PICK k \in Nat : n = k + 2
    <2>1. n - 2 \in Nat /\ n = (n - 2) + 2
      OBVIOUS
    <2> QED
      BY Zenon, <2>1
  <1>5. n * d = k * d + 2 * d /\ k * d \in Nat
    BY <1>4
  <1>6. n * OpBlocks \in Nat
    BY SMTT(30), Sizes
  <1> QED
    BY <1>1, <1>3, <1>5, <1>6, Sizes

\* A step that leaves the operations, what they have written and the log in
\* memory alone.
LEMMA SpaceKept ==
  ASSUME SpaceInv, Ops' = Ops, UNCHANGED <<wrote, lh, panicked>>,
         Len(header') <= LOGSIZE, Len(logBlock') <= LOGSIZE
  PROVE  SpaceInv'
  <1>1. Reserve' = Reserve
    BY Zenon DEF Reserve
  <1>2. \A p \in Proc : pc'[p] # "op" => pc[p] # "op"
    BY Zenon DEF Ops
  <1> QED
    BY Zenon, <1>1, <1>2 DEF SpaceInv

\* A step after which no operation is open.
LEMMA SpaceNoOps ==
  ASSUME Counting, Ops' = {}, ~panicked', \A p \in Proc : wrote'[p] = {},
         Len(lh') <= LOGSIZE, Len(header') <= LOGSIZE, Len(logBlock') <= LOGSIZE
  PROVE  SpaceInv'
  <1>1. ASSUME NEW p \in Proc
        PROVE  wrote'[p] \subseteq Members(lh') /\ Cardinality(wrote'[p]) <= OpBlocks
    <2>1. wrote'[p] = {} /\ Cardinality({}) = 0
      BY Zenon DEF Counting, Sized
    <2> QED
      BY <2>1, Sizes
  <1> QED
    BY Zenon, <1>1 DEF SpaceInv

\* begin_op()
LEMMA BeginOpSpace ==
  ASSUME Counting, EnoughLog, IInv, SpaceInv, NEW p \in Proc, BeginOp(p)
  PROVE  SpaceInv'
  <1>1. /\ p \notin Ops /\ boot = "up" /\ UNCHANGED <<wrote, lh, header, logBlock, panicked>>
        /\ lh \in Seq(Block) /\ wrote \in [Proc -> SUBSET Block]
        /\ \/ Ops' = Ops
           \/ /\ Ops' = Ops \cup {p} /\ ~committing
              /\ ~(Len(lh) + (outstanding + 1) * MAXOPBLOCKS > LOGSIZE)
    BY Zenon DEF IInv, TypeInv, Ops, BeginOp, At, Goto, disk
  <1>2. CASE Ops' = Ops
    BY Zenon, <1>1, <1>2, SpaceKept DEF SpaceInv
  <1>3. CASE /\ Ops' = Ops \cup {p} /\ ~committing
             /\ ~(Len(lh) + (outstanding + 1) * MAXOPBLOCKS > LOGSIZE)
    <2>1. /\ outstanding = Cardinality(Ops) /\ Cardinality(Ops') = outstanding + 1
          /\ outstanding \in Nat
      BY ZenonT(30), <1>1, <1>3, OpsFinite DEF Counting, OneMore, IInv, CommitInv
    <2>2. /\ ~panicked' /\ Len(lh') <= LOGSIZE /\ Len(header') <= LOGSIZE /\ Len(logBlock') <= LOGSIZE
          /\ \A q \in Proc : /\ wrote'[q] \subseteq Members(lh')
                             /\ Cardinality(wrote'[q]) <= OpBlocks
                             /\ pc'[q] # "op" => wrote'[q] = {}
      BY Zenon, <1>1, <1>3 DEF SpaceInv, Ops
    <2>3. CASE Ops = {}
      <3>1. Ops' = {p} /\ Len(lh') = 0 /\ wrote'[p] \in SUBSET Block
        BY Zenon, <1>1, <1>3, <2>3 DEF IInv, CommitInv
      <3>2. Cardinality(wrote'[p]) \in Nat
        BY Zenon, <3>1, WroteFinite
      <3> QED
        BY SMTT(30), <2>2, <3>1, <3>2 DEF SpaceInv
    <2>4. CASE Ops # {}
      <3>1. outstanding + 1 \in Nat /\ outstanding + 1 >= 2
        BY <2>1, <2>4, OpsFinite DEF Counting, Sized
      <3>2. PICK c \in Nat : c = Cardinality(Reserve') /\ c <= (outstanding + 1) * OpBlocks
        <4>1. (Cardinality(Reserve) \in Nat /\ Cardinality(Reserve) <= Cardinality(Ops) * OpBlocks)'
          BY ReserveFinite, PTL
        <4> QED
          BY Zenon, <2>1, <4>1
      <3>3. Len(lh) + (outstanding + 1) * MAXOPBLOCKS <= LOGSIZE
        <4>1. (outstanding + 1) * MAXOPBLOCKS \in Nat /\ Len(lh) \in Nat
          BY SMTT(30), <1>1, <3>1, Sizes
        <4> QED
          BY <1>3, <4>1, Sizes
      <3>4. Len(lh) + c + 2 * (MAXOPBLOCKS - OpBlocks) <= LOGSIZE
        <4>1. PICK n \in Nat : n = outstanding + 1
          BY Zenon, <3>1
        <4> QED
          BY <1>1, <3>1, <3>2, <3>3, <4>1, Reserved DEF EnoughLog
      <3> QED
        BY Zenon, <1>1, <2>2, <3>2, <3>4 DEF SpaceInv
    <2> QED
      BY Zenon, <2>3, <2>4
  <1> QED
    BY Zenon, <1>1, <1>2, <1>3

\* log_write()
LEMMA LogWriteSpace ==
  ASSUME Counting, EnoughLog, IInv, SpaceInv,
         NEW p \in Proc, NEW b \in Block, NEW v \in Value, LogWrite(p, b, v)
  PROVE  SpaceInv'
  <1>1. /\ p \in Ops /\ Ops' = Ops /\ UNCHANGED <<header, logBlock, pc>>
        /\ lh \in Seq(Block) /\ Distinct(lh) /\ wrote \in [Proc -> SUBSET Block]
        /\ wrote[p] \subseteq Members(lh) /\ Cardinality(wrote[p] \cup {b}) <= OpBlocks
    BY Zenon DEF IInv, TypeInv, SpaceInv, Ops, LogWrite, At, disk
  <1>2. PICK n \in Nat : n = Cardinality(wrote[p])
    BY Zenon, <1>1, WroteFinite
  <1>3. Cardinality(wrote[p] \cup {b}) = IF b \in wrote[p] THEN n ELSE n + 1
    <2>1. b \in wrote[p] => wrote[p] \cup {b} = wrote[p]
      BY Zenon
    <2>2. b \notin wrote[p] => Cardinality(wrote[p] \cup {b}) = Cardinality(wrote[p]) + 1
      BY Zenon, <1>1, WroteFinite DEF Counting, OneMore
    <2> QED
      BY Zenon, <1>2, <2>1, <2>2
  <1>4. n <= OpBlocks
    BY Zenon, <1>2 DEF SpaceInv
  <1>5. \/ Ops = {p} /\ Len(lh) <= n
        \/ Len(lh) + Cardinality(Reserve) + 2 * (MAXOPBLOCKS - OpBlocks) <= LOGSIZE
    BY Zenon, <1>1, <1>2 DEF SpaceInv
  <1>6. ~(Len(lh) >= LOGSIZE \/ Len(lh) >= LogBlocks - 1)
    BY SMTT(30), <1>1, <1>4, <1>5, Sizes, ReserveFinite DEF EnoughLog
  <1>7. /\ lh' = IF b \in Members(lh) THEN lh ELSE Append(lh, b)
        /\ wrote' = [wrote EXCEPT ![p] = @ \cup {b}] /\ panicked' = panicked
    BY Zenon, <1>6 DEF LogWrite
  <1>8. /\ Len(lh') = IF b \in Members(lh) THEN Len(lh) ELSE Len(lh) + 1
        /\ Members(lh') = Members(lh) \cup {b} /\ Len(lh) \in Nat
    BY SMTT(30), <1>1, <1>7, LogAppend
  <1>9. \A q \in Proc : /\ wrote'[q] \subseteq Members(lh')
                        /\ Cardinality(wrote'[q]) <= OpBlocks
                        /\ pc'[q] # "op" => wrote'[q] = {}
    BY Zenon, <1>1, <1>7, <1>8 DEF SpaceInv, Ops
  <1>10. /\ ~panicked' /\ Len(header') <= LOGSIZE /\ Len(logBlock') <= LOGSIZE
         /\ Len(lh') <= LOGSIZE
    BY SMTT(30), <1>1, <1>6, <1>7, <1>8, Sizes DEF SpaceInv
  <1>11. wrote'[p] = wrote[p] \cup {b} /\ \A q \in Proc : q # p => wrote'[q] = wrote[q]
    BY Zenon, <1>1, <1>7
  <1>12. CASE Ops = {p} /\ Len(lh) <= n
    <2>1. Len(lh') <= Cardinality(wrote'[p])
      BY SMTT(30), <1>1, <1>3, <1>8, <1>11, <1>12
    <2> QED
      BY ZenonT(30), <1>1, <1>9, <1>10, <1>12, <2>1 DEF SpaceInv
  <1>13. CASE Len(lh) + Cardinality(Reserve) + 2 * (MAXOPBLOCKS - OpBlocks) <= LOGSIZE
    <2>1. CASE b \in wrote[p]
      <3>1. wrote' = wrote
        BY Zenon, <1>1, <1>7, <2>1
      <3>2. Reserve' = Reserve
        BY Zenon, <1>1, <3>1 DEF Reserve
      <3> QED
        BY ZenonT(30), <1>1, <1>8, <1>9, <1>10, <1>13, <2>1, <3>2 DEF SpaceInv
    <2>2. CASE b \notin wrote[p]
      <3>1. <<p, n + 1>> \in Reserve
        BY SMTT(30), <1>1, <1>2, <1>3, <2>2 DEF Reserve
      <3>2. Reserve' \in SUBSET (Reserve \ {<<p, n + 1>>})
        <4>1. Cardinality(wrote'[p]) = n + 1
          BY Zenon, <1>3, <1>11, <2>2
        <4>2. ASSUME NEW q \in Ops, NEW i \in 1..OpBlocks, i > Cardinality(wrote'[q])
              PROVE  i > Cardinality(wrote[q]) /\ <<q, i>> # <<p, n + 1>>
          <5>1. CASE q = p
            BY SMTT(30), <1>2, <4>1, <4>2, <5>1
          <5>2. CASE q # p
            BY Zenon, <1>11, <4>2, <5>2 DEF Ops
          <5> QED
            BY Zenon, <5>1, <5>2
        <4> QED
          BY SMTT(30), <1>1, <4>2 DEF Reserve
      <3>3. PICK c \in Nat, d \in Nat :
              /\ c = Cardinality(Reserve) /\ d = Cardinality(Reserve') /\ d <= c - 1
        <4>1. /\ IsFiniteSet(Reserve \ {<<p, n + 1>>})
              /\ Cardinality(Reserve \ {<<p, n + 1>>}) = Cardinality(Reserve) - 1
          BY Zenon, <3>1, ReserveFinite DEF Counting, OneLess
        <4>2. IsFiniteSet(Reserve') /\ Cardinality(Reserve') <= Cardinality(Reserve) - 1
          BY SMTT(30), <3>2, <4>1 DEF Counting, Smaller
        <4> QED
          BY Zenon, <4>2, ReserveFinite DEF Counting, Sized
      <3>4. Len(lh') + d + 2 * (MAXOPBLOCKS - OpBlocks) <= LOGSIZE
        <4>1. PICK l \in Nat, k \in Nat : l = Len(lh) /\ k = Len(lh') /\ k <= l + 1
          BY <1>8
        <4>2. l + c + 2 * (MAXOPBLOCKS - OpBlocks) <= LOGSIZE
          BY Zenon, <1>13, <3>3, <4>1
        <4>3. k + d + 2 * (MAXOPBLOCKS - OpBlocks) <= LOGSIZE
          <5>1. PICK x \in Int : x = 2 * (MAXOPBLOCKS - OpBlocks)
            BY Sizes
          <5>2. l + c + x <= LOGSIZE
            BY Zenon, <4>2, <5>1
          <5>3. k + d + x <= LOGSIZE
            <6>1. k <= l + 1 /\ d <= c - 1 /\ LOGSIZE \in Nat
              BY Zenon, <3>3, <4>1, Sizes
            <6> QED
              BY <5>2, <6>1
          <5> QED
            BY Zenon, <5>1, <5>3
        <4> QED
          BY Zenon, <3>3, <4>1, <4>3
      <3> QED
        BY Zenon, <1>9, <1>10, <3>3, <3>4 DEF SpaceInv
    <2> QED
      BY Zenon, <2>1, <2>2
  <1> QED
    BY Zenon, <1>5, <1>12, <1>13

\* end_op()
LEMMA EndOpSpace ==
  ASSUME Counting, EnoughLog, IInv, SpaceInv, NEW p \in Proc, EndOp(p)
  PROVE  SpaceInv'
  <1>1. p \in Ops /\ ~committing
    BY Zenon DEF IInv, CommitInv, Ops, EndOp, At
  <1>2. /\ Ops' = Ops \ {p} /\ UNCHANGED <<lh, header, logBlock, panicked>>
        /\ wrote' = [wrote EXCEPT ![p] = {}] /\ wrote \in [Proc -> SUBSET Block]
    BY Zenon, <1>1 DEF IInv, TypeInv, Ops, EndOp, Goto, WakeupAnd, disk
  <1>3. /\ ~panicked' /\ Len(lh') <= LOGSIZE /\ Len(header') <= LOGSIZE /\ Len(logBlock') <= LOGSIZE
        /\ wrote'[p] = {} /\ \A q \in Proc : q # p => wrote'[q] = wrote[q]
    BY Zenon, <1>2 DEF SpaceInv
  <1>4. \A q \in Proc : /\ wrote'[q] \subseteq Members(lh')
                        /\ Cardinality(wrote'[q]) <= OpBlocks
                        /\ pc'[q] # "op" => wrote'[q] = {}
    <2>1. \A q \in Proc : pc'[q] # "op" => q = p \/ pc[q] # "op"
      BY Zenon, <1>2 DEF Ops
    <2>2. Cardinality({}) <= OpBlocks
      BY SMTT(30), Sizes DEF Counting, Sized
    <2> QED
      BY ZenonT(30), <1>2, <1>3, <2>1, <2>2 DEF SpaceInv
  <1>5. CASE Ops = {p}
    BY ZenonT(30), <1>2, <1>3, <1>4, <1>5 DEF SpaceInv
  <1>6. CASE Len(lh) + Cardinality(Reserve) + 2 * (MAXOPBLOCKS - OpBlocks) <= LOGSIZE
    <2>1. Reserve' \in SUBSET Reserve
      BY SMTT(30), <1>2, <1>3 DEF Reserve
    <2>2. PICK c \in Nat, d \in Nat :
            c = Cardinality(Reserve) /\ d = Cardinality(Reserve') /\ d <= c
      BY Zenon, <2>1, ReserveFinite, ReserveLess
    <2>3. Len(lh) \in Nat
      OBVIOUS
    <2>4. Len(lh') + d + 2 * (MAXOPBLOCKS - OpBlocks) <= LOGSIZE
      BY SMTT(30), <1>2, <1>6, <2>2, <2>3, Sizes
    <2> QED
      BY Zenon, <1>3, <1>4, <2>2, <2>4 DEF SpaceInv
  <1> QED
    BY Zenon, <1>1, <1>5, <1>6 DEF SpaceInv

\* write_log() does not write past the log.
LEMMA WriteLogSpace ==
  ASSUME IInv, SpaceInv, NEW p \in Proc, WriteLog(p)
  PROVE  SpaceInv'
  <1>1. /\ lh \in Seq(Block) /\ tail \in Nat /\ tail < Len(lh)
        /\ logBlock \in Seq(Value) /\ tail <= Len(logBlock)
    BY Zenon DEF IInv, TypeInv, TailInv, LogInv, Logged, WriteLog, At
  <1>2. Contents(lh[tail + 1]) \in Value
    BY SMTT(30), <1>1, ContentsValue DEF IInv
  <1>3. Len(logBlock') \in {Len(logBlock), tail + 1}
    BY ZenonT(30), <1>1, <1>2, PutFacts DEF WriteLog
  <1>4. Len(header') <= LOGSIZE /\ Len(logBlock') <= LOGSIZE
    <2>1. Len(lh) <= LOGSIZE /\ Len(header) <= LOGSIZE /\ Len(logBlock) <= LOGSIZE
      BY Zenon DEF SpaceInv
    <2>2. header' = header
      BY Zenon DEF WriteLog
    <2> QED
      BY <1>1, <1>3, <2>1, <2>2, Sizes
  <1>5. Ops' = Ops /\ UNCHANGED <<wrote, lh, panicked>>
    BY Zenon DEF IInv, TypeInv, Ops, WriteLog, NextBlock, Goto, At
  <1> QED
    BY Zenon, <1>4, <1>5, SpaceKept

\* The rest of commit(), and what does not concern the log.
LEMMA CommitSpace ==
  ASSUME IInv, SpaceInv, NEW p \in Proc,
         Call(p) \/ CommitStart(p) \/ WriteHead(p) \/ InstallTrans(p) \/ CommitDone(p)
  PROVE  SpaceInv'
  <1>1. Ops' = Ops
    BY Zenon DEF IInv, TypeInv, Ops, Call, CommitStart, WriteHead, InstallTrans, CommitDone,
       NextBlock, Goto, WakeupAnd, At
  <1>2. /\ UNCHANGED <<wrote, lh, panicked, logBlock>>
        /\ header' = header \/ header' = lh
    BY Zenon DEF Call, CommitStart, WriteHead, InstallTrans, CommitDone, disk
  <1> QED
    BY ZenonT(30), <1>1, <1>2, SpaceKept DEF SpaceInv

\* The log is emptied when no operation is open.
LEMMA ClearHeadSpace ==
  ASSUME Counting, IInv, SpaceInv, NEW p \in Proc, ClearHead(p)
  PROVE  SpaceInv'
  <1>1. Ops = {}
    BY Zenon DEF IInv, CommitInv, Committer, CommitPlace, ClearHead, At
  <1>2. Ops' = {} /\ \A q \in Proc : wrote'[q] = {}
    <2>1. pc' = [pc EXCEPT ![p] = "done"] /\ wrote' = wrote
      BY Zenon DEF ClearHead, Goto
    <2>2. \A q \in Proc : wrote[q] = {}
      BY Zenon, <1>1 DEF SpaceInv, Ops
    <2> QED
      BY <1>1, <2>1, <2>2 DEF Ops
  <1>3. /\ ~panicked' /\ Len(lh') = 0 /\ Len(header') = 0 /\ Len(logBlock') <= LOGSIZE
    BY Zenon DEF SpaceInv, ClearHead
  <1> QED
    BY SMTT(30), <1>2, <1>3, SpaceNoOps, Sizes

\* A crash, and recovery.
LEMMA RecoverSpace ==
  ASSUME Counting, IInv, SpaceInv, Crash \/ Recover
  PROVE  SpaceInv'
  <1>1. CASE Crash
    <2>1. Ops' = {} /\ \A q \in Proc : wrote'[q] = {}
      BY Zenon, <1>1 DEF Ops, Idle, Crash
    <2>2. /\ ~panicked' /\ Len(lh') = 0 /\ Len(header') <= LOGSIZE /\ Len(logBlock') <= LOGSIZE
      BY Zenon, <1>1 DEF SpaceInv, Crash, disk
    <2> QED
      BY <2>1, <2>2, SpaceNoOps, Sizes
  <1>2. CASE Recover
    <2>1. pc = Idle /\ UNCHANGED <<pc, wrote, panicked, logBlock>>
      BY Zenon, <1>2 DEF IInv, CommitInv, Recover, ReadHead, Reinstall, Recovered, disk
    <2>2. Ops' = {} /\ \A q \in Proc : wrote'[q] = {}
      BY ZenonT(30), <2>1 DEF SpaceInv, Ops, Idle
    <2>3. /\ lh' \in {lh, header, <<>>} /\ header' \in {header, <<>>}
      BY Zenon, <1>2 DEF Recover, ReadHead, Reinstall, Recovered, disk
    <2>4. /\ ~panicked' /\ Len(lh') <= LOGSIZE /\ Len(header') <= LOGSIZE
          /\ Len(logBlock') <= LOGSIZE
      BY SMTT(30), <2>1, <2>3, Sizes DEF SpaceInv
    <2> QED
      BY Zenon, <2>2, <2>4, SpaceNoOps
  <1> QED
    BY Zenon, <1>1, <1>2

\* The space is preserved by every step.
LEMMA NextSpace ==
  ASSUME Counting
  PROVE  EnoughLog /\ IInv /\ SpaceInv /\ [Next]_vars => SpaceInv'
  <1> SUFFICES ASSUME EnoughLog, IInv, SpaceInv, [Next]_vars PROVE SpaceInv'
    BY Zenon
  <1>1. ASSUME NEW p \in Proc, Call(p) \/ Step(p)
        PROVE  SpaceInv'
    BY Zenon, <1>1, BeginOpSpace, EndOpSpace, WriteLogSpace, CommitSpace, ClearHeadSpace DEF Step
  <1>2. ASSUME NEW p \in Proc, NEW b \in Block, NEW v \in Value, LogWrite(p, b, v)
        PROVE  SpaceInv'
    BY Zenon, <1>2, LogWriteSpace
  <1>3. ASSUME UNCHANGED <<disk, lh, pc, wrote, panicked>>
        PROVE  SpaceInv'
    <2>1. Ops' = Ops
      BY Zenon, <1>3 DEF Ops
    <2> QED
      BY Zenon, <1>3, <2>1, SpaceKept DEF SpaceInv, disk
  <1>4. ASSUME (\E b \in Block : Evict(b)) \/ UNCHANGED vars
        PROVE  SpaceInv'
    BY Zenon, <1>3, <1>4 DEF Evict, vars
  <1>5. CASE Crash \/ Recover
    BY Zenon, <1>5, RecoverSpace
  <1> QED
    BY Zenon, <1>1, <1>2, <1>4, <1>5 DEF Next

\* At boot nothing is reserved.
LEMMA InitSpace ==
  ASSUME Counting
  PROVE  Init => SpaceInv
  <1> SUFFICES ASSUME Init PROVE SpaceInv
    BY Zenon
  <1>1. /\ Ops = {} /\ ~panicked /\ \A p \in Proc : wrote[p] = {}
        /\ Len(lh) = 0 /\ Len(header) = 0 /\ Len(logBlock) = 0
    BY Zenon DEF Init, Idle, Ops
  <1>2. Cardinality({}) <= OpBlocks /\ 0 <= LOGSIZE
    BY Sizes DEF Counting, Sized
  <1> QED
    BY Zenon, <1>1, <1>2 DEF SpaceInv

\* The two invariants imply what the runs check of the log.
LEMMA SpaceSafe ==
  ASSUME Counting
  PROVE  IInv /\ SpaceInv => LogSafe
  <1> SUFFICES ASSUME IInv, SpaceInv PROVE LogSafe
    BY Zenon
  <1>1. ASSUME NEW h \in {lh, header}
        PROVE  Members(h) \subseteq Block /\ Cardinality(Members(h)) = Len(h) /\ Len(h) <= LOGSIZE
    <2>1. h \in Seq(Block) /\ Distinct(h) /\ Len(h) <= LOGSIZE
      BY Zenon DEF IInv, TypeInv, SpaceInv
    <2> QED
      BY Zenon, <2>1, DistinctLen
  <1>2. Len(logBlock) <= LOGSIZE /\ Members(logBlock) \subseteq Value
    BY DEF IInv, TypeInv, SpaceInv, Members
  <1>3. tail \in 0..LOGSIZE
    <2>1. tail \in Nat /\ Len(lh) \in Nat /\ Len(lh) <= LOGSIZE /\ (tail < Len(lh) \/ tail = 0)
      BY SMTT(30) DEF IInv, TypeInv, TailInv, SpaceInv
    <2> QED
      BY SMTT(30), <2>1, Sizes
  <1>4. TypeOK
    BY Zenon, <1>1, <1>2, <1>3 DEF IInv, TypeInv, CommitInv, Ops, TypeOK
  <1>5. ASSUME boot = "up", outstanding = 0, ~committing, NEW b \in Block
        PROVE  Contents(b) = Durable[b]
    <2>1. Ops = {} /\ \A p \in Proc : pc[p] \notin CommitPlace
      BY Zenon, <1>5, OpsFinite DEF Counting, Sized, IInv, CommitInv, Committer
    <2>2. lh = <<>> /\ header = <<>>
      BY Zenon, <1>5, <2>1 DEF IInv, CommitInv, HeaderInv
    <2>3. Durable = home
      BY <2>2, DurableHome
    <2>4. b \notin Pinned
      BY SMTT(30), <2>1, <2>2 DEF Pinned, CommitPlace, Members
    <2>5. Contents(b) = home[b]
      BY Zenon, <1>5, <2>4 DEF IInv, HomeInv, SpaceInv
    <2> QED
      BY Zenon, <2>3, <2>5
  <1> QED
    BY Zenon, <1>4, <1>5 DEF LogSafe, SpaceInv

-----------------------------------------------------------------------------
(* Finite sets, and the theorems *)

INSTANCE FiniteSetTheorems

\* Facts of the library about finite sets.
LEMMA Finite == Counting
  <1>1. Sized
    BY Zenon, FS_CardinalityType, FS_EmptySet DEF Sized
  <1>2. Smaller
    BY Zenon, FS_Subset DEF Smaller
  <1>3. OneMore
    BY Zenon, FS_AddElement DEF OneMore
  <1>4. OneLess
    BY Zenon, FS_RemoveElement DEF OneLess
  <1>5. \A n \in Nat : IsFiniteSet(1..n) /\ Cardinality(1..n) = n
    BY FS_Interval
  <1>6. Spread
    <2> SUFFICES ASSUME NEW S, NEW n \in Nat, IsFiniteSet(S)
                 PROVE  /\ IsFiniteSet(S \X (1..n))
                        /\ Cardinality(S \X (1..n)) = Cardinality(S) * n
      BY Zenon DEF Spread
    <2>1. IsFiniteSet(1..n) /\ Cardinality(1..n) = n
      BY Zenon, <1>5
    <2> QED
      BY Zenon, <2>1, FS_Product
  <1>7. Listed
    <2> SUFFICES ASSUME NEW n \in Nat, NEW T, NEW f \in [1..n -> T],
                        \A j, k \in 1..n : f[j] = f[k] => j = k,
                        \A t \in T : \E k \in 1..n : f[k] = t
                 PROVE  Cardinality(T) = n
      BY Zenon DEF Listed
    <2> DEFINE S == 1..n
    <2>1. f \in Bijection(S, T)
      BY Zenon DEF Bijection, Injection, Surjection, IsInjective
    <2>2. ExistsBijection(S, T)
      BY Zenon, <2>1 DEF ExistsBijection
    <2>3. IsFiniteSet(S) /\ Cardinality(S) = n
      BY Zenon, <1>5
    <2> HIDE DEF S
    <2> QED
      BY Zenon, <2>2, <2>3, FS_Bijection
  <1> QED
    BY Zenon, <1>1, <1>2, <1>3, <1>4, <1>6, <1>7 DEF Counting

\* IInv is an invariant of the log.
THEOREM LogInvariant == Spec => []IInv
  <1>1. Init => IInv
    BY Zenon, Finite, InitIInv
  <1>2. IInv /\ [Next]_vars => IInv'
    BY Zenon, Finite, NextIInv
  <1> QED
    BY <1>1, <1>2, PTL DEF Spec

\* kernel/log.c implements an atomic disk: wherever a crash comes, in an
\* operation, in commit() or in a recovery, the disk has all the writes of the
\* groups that had committed and none of the others, and reading never returns
\* stale data.
THEOREM LogIsAtomicDisk == Spec => LogImplementsAtomicDisk
  <1>1. Init => Disk!Init
    <2> SUFFICES ASSUME Init PROVE Disk!Init
      BY Zenon
    <2>1. IInv /\ header = <<>> /\ boot = "up"
      BY Zenon, Finite, InitIInv DEF Init
    <2>2. Durable = home /\ home \in [Block -> Value]
      BY <2>1, DurableHome DEF IInv, TypeInv
    <2>3. Cached = home
      BY Zenon, <2>1, <2>2 DEF Init, Cached, Contents, Nothing
    <2>4. Ops = {}
      BY Zenon DEF Init, Idle, Ops
    <2> QED
      BY Zenon, <2>2, <2>3, <2>4 DEF Disk!Init, Cached, Ops
  <1> QED
    BY <1>1, LogInvariant, NextRefines, PTL DEF Spec, LogImplementsAtomicDisk, Disk!Spec

\* With a log that is large enough for operations of fewer than MAXOPBLOCKS
\* blocks, begin_op()'s test reserves what log_write() needs: neither of the
\* panics of kernel/log.c is reached, no block is in the log twice, and when the
\* last end_op() has returned everything written is durable.
THEOREM LogIsSafe ==
  ASSUME EnoughLog
  PROVE  Spec => []LogSafe
  <1>1. Init => SpaceInv
    BY Zenon, Finite, InitSpace
  <1>2. IInv /\ SpaceInv /\ [Next]_vars => SpaceInv'
    BY Zenon, Finite, NextSpace
  <1>3. IInv /\ SpaceInv => LogSafe
    BY Zenon, Finite, SpaceSafe
  <1> QED
    BY <1>1, <1>2, <1>3, LogInvariant, PTL DEF Spec
=============================================================================
