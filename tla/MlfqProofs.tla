----------------------------- MODULE MlfqProofs ------------------------------
(***************************************************************************)
(* Proofs about kernel/queue.c and the MLFQ scheduler of kernel/proc.c     *)
(* that uses it.  The first part is about the scheduler on one hart, for   *)
(* any number of processes, levels and ticks: the queues, the flags and    *)
(* the levels of the processes agree, the calls of kernel/queue.c are      *)
(* those that the second part assumes, and the process that is chosen has  *)
(* the best level of all that are queued.  The second part is about the    *)
(* circular buffer, for every length of the process table: it implements a *)
(* FIFO line with erasure.                                                 *)
(***************************************************************************)
EXTENDS Queue, Mlfq, TLAPS

-----------------------------------------------------------------------------
(* The scheduler *)

\* No process is in s twice.
Distinct(s) == \A j, k \in 1..Len(s) : s[j] = s[k] => j = k

\* A process is in the queue of its level when its in_queue is set.
Placed == \A p \in Proc, l \in Level : p \in Members(mlfq[l]) <=> inQueue[p] /\ level[p] = l

Once == \A l \in Level : Distinct(mlfq[l])

QueuedInv == \A p \in Proc : inQueue[p] => state[p] = "RUNNABLE"

\* The process that is chosen or runs.
CurInv ==
  /\ pc = "dispatch" => cur \in Proc /\ state[cur] = "RUNNABLE" /\ ~inQueue[cur]
  /\ \A p \in Proc : state[p] = "RUNNING" <=> pc = "run" /\ p = cur
  /\ pc = "run" => cur \in Proc /\ ~inQueue[cur] /\ changeQueue \in 1..(2 ^ level[cur])

\* The index of each loop is in its range, and the levels that the loop over the
\* queues has passed are empty.
IndexInv ==
  /\ pc \in {"age", "push"} => i \in Proc
  /\ pc = "pop" => i \in Level /\ \A l \in Level : l < i => mlfq[l] = <<>>

IInv == TypeOK /\ Placed /\ Once /\ QueuedInv /\ CurInv /\ IndexInv

-----------------------------------------------------------------------------
(* Sequences of distinct processes *)

\* push()
LEMMA AppendFacts ==
  ASSUME NEW s \in Seq(Proc), Distinct(s), NEW p \in Proc, p \notin Members(s)
  PROVE  /\ Append(s, p) \in Seq(Proc) /\ Distinct(Append(s, p))
         /\ Members(Append(s, p)) = Members(s) \cup {p}
  <1> DEFINE t == Append(s, p)
  <1>1. /\ t \in Seq(Proc) /\ Len(t) = Len(s) + 1 /\ Len(s) \in Nat
        /\ t[Len(s) + 1] = p /\ \A k \in 1..Len(s) : t[k] = s[k]
    OBVIOUS
  <1>2. Members(t) = Members(s) \cup {p}
    <2>1. \A k \in 1..Len(t) : k \in 1..Len(s) \/ k = Len(s) + 1
      BY <1>1
    <2>2. \A k \in 1..Len(s) : k \in 1..Len(t)
      BY <1>1
    <2>3. Len(s) + 1 \in 1..Len(t)
      BY <1>1
    <2> QED
      BY Zenon, <1>1, <2>1, <2>2, <2>3 DEF Members
  <1>3. ASSUME NEW j \in 1..Len(t), NEW k \in 1..Len(t), t[j] = t[k]
        PROVE  j = k
    <2>1. \A x \in 1..Len(s) : s[x] # p
      BY Zenon DEF Members
    <2> QED
      BY <1>1, <1>3, <2>1 DEF Distinct
  <1> QED
    BY Zenon, <1>1, <1>2, <1>3 DEF Distinct

\* pop()
LEMMA TailFacts ==
  ASSUME NEW s \in Seq(Proc), Distinct(s), s # <<>>
  PROVE  /\ Tail(s) \in Seq(Proc) /\ Distinct(Tail(s))
         /\ Head(s) \in Members(s) /\ Head(s) \in Proc
         /\ Members(Tail(s)) = Members(s) \ {Head(s)}
  <1> DEFINE t == Tail(s)
  <1>1. /\ Len(s) \in Nat /\ 1 <= Len(s)
        /\ t \in Seq(Proc) /\ Len(t) = Len(s) - 1 /\ Head(s) = s[1]
        /\ \A k \in 1..(Len(s) - 1) : t[k] = s[k + 1]
    OBVIOUS
  <1>2. 1 \in 1..Len(s) /\ s[1] \in Proc
    BY <1>1
  <1>3. Distinct(t)
    BY <1>1 DEF Distinct
  <1>4. ASSUME NEW x \in Members(t)
        PROVE  x \in Members(s) /\ x # s[1]
    <2>1. PICK k \in 1..Len(t) : x = t[k]
      BY Zenon DEF Members
    <2>2. k + 1 \in 1..Len(s) /\ x = s[k + 1] /\ k + 1 # 1
      BY <1>1, <2>1
    <2> QED
      BY Zenon, <1>2, <2>2 DEF Members, Distinct
  <1>5. ASSUME NEW x \in Members(s), x # s[1]
        PROVE  x \in Members(t)
    <2>1. PICK k \in 1..Len(s) : x = s[k]
      BY Zenon DEF Members
    <2>2. k - 1 \in 1..Len(t) /\ t[k - 1] = x
      BY <1>1, <1>5, <2>1
    <2> QED
      BY Zenon, <2>2 DEF Members
  <1> QED
    BY Zenon, <1>1, <1>2, <1>3, <1>4, <1>5 DEF Members

\* qerase()
LEMMA RemoveFacts ==
  ASSUME NEW s \in Seq(Proc), Distinct(s), NEW p \in Members(s)
  PROVE  /\ Remove(s, p) \in Seq(Proc) /\ Distinct(Remove(s, p))
         /\ Members(Remove(s, p)) = Members(s) \ {p}
  <1> DEFINE t == Remove(s, p)
  <1>1. PICK a \in 1..Len(s) : s[a] = p /\ Position(s, p) = a
    <2>1. \E k \in 1..Len(s) : s[k] = p
      BY Zenon DEF Members
    <2> QED
      BY Zenon, <2>1 DEF Position
  <1>2. PICK m \in Nat : m = Len(s) - 1 /\ Len(s) = m + 1
    BY <1>1
  <1>3. t = [k \in 1..m |-> IF k < a THEN s[k] ELSE s[k + 1]]
    BY Zenon, <1>1, <1>2 DEF Remove
  <1>4. \A k \in 1..m : k \in 1..Len(s) /\ k + 1 \in 1..Len(s)
    BY <1>2
  <1>5. \A k \in 1..m : t[k] \in Proc
    BY <1>3, <1>4
  <1>6. t \in Seq(Proc) /\ Len(t) = m
    BY <1>3, <1>5
  <1>7. Distinct(t)
    <2>1. SUFFICES ASSUME NEW j \in 1..m, NEW k \in 1..m, t[j] = t[k] PROVE j = k
      BY Zenon, <1>6 DEF Distinct
    <2> QED
      BY <1>3, <1>4, <2>1 DEF Distinct
  <1>8. ASSUME NEW x \in Members(t)
        PROVE  x \in Members(s) /\ x # p
    <2>1. PICK k \in 1..m : x = t[k]
      BY Zenon, <1>6 DEF Members
    <2>2. PICK j \in 1..Len(s) : x = s[j] /\ j # a
      BY <1>3, <1>4, <2>1
    <2> QED
      BY Zenon, <1>1, <2>2 DEF Members, Distinct
  <1>9. ASSUME NEW x \in Members(s), x # p
        PROVE  x \in Members(t)
    <2>1. PICK j \in 1..Len(s) : x = s[j]
      BY Zenon DEF Members
    <2>2. j # a
      BY Zenon, <1>1, <1>9, <2>1
    <2>3. PICK k \in 1..m : t[k] = x
      <3>1. CASE j < a
        BY <1>2, <1>3, <2>1, <3>1
      <3>2. CASE j > a
        <4>1. j - 1 \in 1..m /\ ~(j - 1 < a) /\ (j - 1) + 1 = j
          BY <1>2, <3>2
        <4> QED
          BY Zenon, <1>3, <2>1, <4>1
      <3> QED
        BY <2>2, <3>1, <3>2
    <2> QED
      BY Zenon, <1>6, <2>3 DEF Members
  <1> QED
    BY Zenon, <1>6, <1>7, <1>8, <1>9

-----------------------------------------------------------------------------
(* The invariant *)

\* What the assumptions say of the constants.
LEMMA Sizes ==
  /\ NPROC \in Nat /\ 1 <= NPROC /\ NMLFQ \in Nat /\ 1 <= NMLFQ /\ AGETICK \in Nat /\ 1 <= AGETICK
  /\ 0 \in Proc /\ 0 \in Level /\ NoProc \notin Proc
  BY MlfqAssumption DEF Proc, Level, NoProc

\* A step that touches neither the queues nor the flags, and the level of no
\* process that is queued.
LEMMA QueuesKept ==
  ASSUME Placed, Once, UNCHANGED <<mlfq, inQueue>>,
         \A p \in Proc : inQueue[p] => level'[p] = level[p]
  PROVE  Placed' /\ Once'
  BY Zenon DEF Placed, Once

\* The loops go on, or to the next one.
LEMMA LoopFacts ==
  ASSUME i \in Proc, NEW next, LoopTo(next, NPROC)
  PROVE  (i' \in Proc /\ pc' = pc) \/ (i' = 0 /\ pc' = next)
  BY Sizes DEF LoopTo, Proc

\* ageing()
LEMMA AgeStepIInv ==
  ASSUME IInv, AgeStep
  PROVE  IInv'
  <1>1. PICK q \in Proc : q = i /\ pc = "age" /\ UNCHANGED <<state, cur, changeQueue, late>>
    BY Zenon DEF IInv, IndexInv, AgeStep
  <1>2. PICK l \in Level : l = level[q]
    BY Zenon DEF IInv, TypeOK
  <1>3. (i' \in Proc /\ pc' = "age") \/ (i' = 0 /\ pc' = "push")
    BY Zenon, <1>1, LoopFacts DEF AgeStep
  <1>4. i' \in Proc /\ pc' \in {"age", "push"}
    BY Zenon, <1>3, Sizes
  <1>5. IndexInv'
    BY Zenon, <1>4 DEF IndexInv
  <1>6. CASE ~(state[q] = "RUNNABLE" /\ waited[q] >= AGETICK)
    <2>1. UNCHANGED <<mlfq, inQueue, level, waited>>
      BY Zenon, <1>1, <1>6 DEF AgeStep
    <2>2. TypeOK'
      BY Zenon, <1>1, <1>4, <2>1 DEF IInv, TypeOK
    <2>3. Placed' /\ Once'
      BY Zenon, <2>1, QueuesKept DEF IInv
    <2>4. QueuedInv' /\ CurInv'
      BY Zenon, <1>1, <1>4, <2>1 DEF IInv, QueuedInv, CurInv
    <2> QED
      BY Zenon, <1>5, <2>2, <2>3, <2>4 DEF IInv
  <1>7. CASE state[q] = "RUNNABLE" /\ waited[q] >= AGETICK
    <2>1. /\ mlfq' = IF inQueue[q] THEN [mlfq EXCEPT ![l] = Remove(@, q)] ELSE mlfq
          /\ inQueue' = [inQueue EXCEPT ![q] = FALSE]
          /\ level' = [level EXCEPT ![q] = IF l = 0 THEN l ELSE l - 1]
          /\ waited' = [waited EXCEPT ![q] = 0]
      BY Zenon, <1>1, <1>2, <1>7 DEF AgeStep
    <2>2. mlfq[l] \in Seq(Proc) /\ Distinct(mlfq[l]) /\ mlfq \in [Level -> Seq(Proc)]
      BY Zenon DEF IInv, TypeOK, Once
    <2>3. \A k \in Level : /\ mlfq'[k] \in Seq(Proc) /\ Distinct(mlfq'[k])
                           /\ Members(mlfq'[k]) = Members(mlfq[k]) \ {q}
      <3>1. CASE inQueue[q]
        <4>1. q \in Members(mlfq[l])
          BY Zenon, <1>2, <3>1 DEF IInv, Placed
        <4>2. \A k \in Level : k # l => mlfq'[k] = mlfq[k] /\ q \notin Members(mlfq[k])
          BY Zenon, <1>2, <2>1, <2>2, <3>1 DEF IInv, Placed
        <4>3. mlfq'[l] = Remove(mlfq[l], q)
          BY Zenon, <2>1, <2>2, <3>1
        <4> QED
          BY <2>2, <4>1, <4>2, <4>3, RemoveFacts DEF IInv, Once
      <3>2. CASE ~inQueue[q]
        BY <2>1, <2>2, <3>2 DEF IInv, Placed, Once
      <3> QED
        BY Zenon, <3>1, <3>2
    <2>4. mlfq' \in [Level -> Seq(Proc)]
      <3>1. mlfq' = [k \in Level |-> mlfq'[k]]
        BY Zenon, <2>1, <2>2
      <3> QED
        BY Zenon, <2>3, <3>1
    <2>5. level' \in [Proc -> Level]
      BY <2>1, Sizes DEF IInv, TypeOK, Level
    <2>6. waited' \in [Proc -> 0..AGETICK]
      BY <2>1, Sizes DEF IInv, TypeOK
    <2>7. inQueue' \in [Proc -> BOOLEAN]
      BY Zenon, <2>1 DEF IInv, TypeOK
    <2>8. TypeOK'
      BY Zenon, <1>1, <1>4, <2>4, <2>5, <2>6, <2>7 DEF IInv, TypeOK
    <2>9. \A p \in Proc : p # q => (inQueue'[p] <=> inQueue[p]) /\ level'[p] = level[p]
      BY <2>1
    <2>10. ~inQueue'[q]
      BY Zenon, <2>1 DEF IInv, TypeOK
    <2>11. Placed'
      <3> SUFFICES ASSUME NEW p \in Proc, NEW k \in Level
                   PROVE  p \in Members(mlfq'[k]) <=> inQueue'[p] /\ level'[p] = k
        BY Zenon DEF Placed
      <3>1. CASE p = q
        BY Zenon, <2>3, <2>10, <3>1
      <3>2. CASE p # q
        <4>1. p \in Members(mlfq'[k]) <=> p \in Members(mlfq[k])
          BY Zenon, <2>3, <3>2
        <4>2. p \in Members(mlfq[k]) <=> inQueue[p] /\ level[p] = k
          BY Zenon DEF IInv, Placed
        <4> QED
          BY Zenon, <2>9, <3>2, <4>1, <4>2
      <3> QED
        BY Zenon, <3>1, <3>2
    <2>12. Once' /\ QueuedInv'
      BY Zenon, <1>1, <2>3, <2>9, <2>10 DEF IInv, Once, QueuedInv
    <2>13. CurInv'
      BY Zenon, <1>1, <1>4 DEF IInv, CurInv
    <2> QED
      BY Zenon, <1>5, <2>8, <2>11, <2>12, <2>13 DEF IInv
  <1> QED
    BY Zenon, <1>6, <1>7

\* The first loop of mlfq_scheduler()
LEMMA PushStepIInv ==
  ASSUME IInv, PushStep
  PROVE  IInv'
  <1>1. PICK q \in Proc : q = i /\ pc = "push" /\ UNCHANGED <<state, level, waited, cur, changeQueue, late>>
    BY Zenon DEF IInv, IndexInv, PushStep
  <1>2. PICK l \in Level : l = level[q]
    BY Zenon DEF IInv, TypeOK
  <1>3. (i' \in Proc /\ pc' = "push") \/ (i' = 0 /\ pc' = "pop")
    BY Zenon, <1>1, LoopFacts DEF PushStep
  <1>4. i' \in Proc /\ pc' \in {"push", "pop"} /\ (pc' = "pop" => i' = 0)
    BY Zenon, <1>3, Sizes
  <1>5. IndexInv'
    BY <1>4, Sizes DEF IndexInv, Level
  <1>6. CurInv' <=> \A p \in Proc : state[p] # "RUNNING"
    BY Zenon, <1>1, <1>4 DEF CurInv
  <1>7. CurInv'
    BY Zenon, <1>1, <1>6 DEF IInv, CurInv
  <1>8. CASE ~(state[q] = "RUNNABLE" /\ ~inQueue[q])
    <2>1. UNCHANGED <<mlfq, inQueue>>
      BY Zenon, <1>1, <1>8 DEF PushStep
    <2>2. TypeOK'
      BY Zenon, <1>1, <1>4, <2>1 DEF IInv, TypeOK
    <2>3. Placed' /\ Once'
      BY Zenon, <1>1, <2>1, QueuesKept DEF IInv
    <2>4. QueuedInv'
      BY Zenon, <1>1, <2>1 DEF IInv, QueuedInv
    <2> QED
      BY Zenon, <1>5, <1>7, <2>2, <2>3, <2>4 DEF IInv
  <1>9. CASE state[q] = "RUNNABLE" /\ ~inQueue[q]
    <2>1. /\ mlfq' = [mlfq EXCEPT ![l] = Append(@, q)]
          /\ inQueue' = [inQueue EXCEPT ![q] = TRUE]
      BY Zenon, <1>1, <1>2, <1>9 DEF PushStep
    <2>2. mlfq[l] \in Seq(Proc) /\ Distinct(mlfq[l]) /\ mlfq \in [Level -> Seq(Proc)]
      BY Zenon DEF IInv, TypeOK, Once
    <2>3. \A k \in Level : q \notin Members(mlfq[k])
      BY Zenon, <1>9 DEF IInv, Placed
    <2>4. \A k \in Level : k # l => mlfq'[k] = mlfq[k]
      BY Zenon, <2>1, <2>2
    <2>5. /\ mlfq'[l] \in Seq(Proc) /\ Distinct(mlfq'[l])
          /\ Members(mlfq'[l]) = Members(mlfq[l]) \cup {q}
      BY Zenon, <2>1, <2>2, <2>3, AppendFacts
    <2>6. mlfq' \in [Level -> Seq(Proc)]
      BY Zenon, <2>1, <2>2, <2>5
    <2>7. inQueue' \in [Proc -> BOOLEAN]
      BY Zenon, <2>1 DEF IInv, TypeOK
    <2>8. TypeOK'
      BY Zenon, <1>1, <1>4, <2>6, <2>7 DEF IInv, TypeOK
    <2>9. \A p \in Proc : p # q => (inQueue'[p] <=> inQueue[p])
      BY <2>1
    <2>10. inQueue'[q]
      BY Zenon, <2>1 DEF IInv, TypeOK
    <2>11. Placed'
      <3> SUFFICES ASSUME NEW p \in Proc, NEW k \in Level
                   PROVE  p \in Members(mlfq'[k]) <=> inQueue'[p] /\ level[p] = k
        BY Zenon, <1>1 DEF Placed
      <3>1. CASE p = q
        BY Zenon, <1>2, <2>3, <2>4, <2>5, <2>10, <3>1
      <3>2. CASE p # q
        BY <2>4, <2>5, <2>9, <3>2 DEF IInv, Placed
      <3> QED
        BY Zenon, <3>1, <3>2
    <2>12. Once' /\ QueuedInv'
      BY Zenon, <1>1, <1>9, <2>4, <2>5, <2>9 DEF IInv, Once, QueuedInv
    <2> QED
      BY Zenon, <1>5, <1>7, <2>8, <2>11, <2>12 DEF IInv
  <1> QED
    BY Zenon, <1>8, <1>9

\* front() and pop(): the process is runnable.
LEMMA PopStepIInv ==
  ASSUME IInv, PopStep
  PROVE  IInv'
  <1>1. PICK l \in Level : /\ l = i /\ pc = "pop" /\ mlfq[l] # <<>>
                           /\ UNCHANGED <<state, level, changeQueue, late>>
    BY Zenon DEF IInv, IndexInv, PopStep
  <1>2. mlfq[l] \in Seq(Proc) /\ Distinct(mlfq[l]) /\ mlfq \in [Level -> Seq(Proc)]
    BY Zenon DEF IInv, TypeOK, Once
  <1>3. PICK q \in Proc : /\ q = Head(mlfq[l]) /\ q \in Members(mlfq[l])
                          /\ Tail(mlfq[l]) \in Seq(Proc) /\ Distinct(Tail(mlfq[l]))
                          /\ Members(Tail(mlfq[l])) = Members(mlfq[l]) \ {q}
    BY Zenon, <1>1, <1>2, TailFacts
  <1>4. inQueue[q] /\ level[q] = l /\ state[q] = "RUNNABLE"
    BY Zenon, <1>3 DEF IInv, Placed, QueuedInv
  <1>5. /\ mlfq' = [mlfq EXCEPT ![l] = Tail(@)]
        /\ inQueue' = [inQueue EXCEPT ![q] = FALSE]
        /\ waited' = [waited EXCEPT ![q] = 0]
        /\ cur' = q /\ pc' = "dispatch" /\ i' = 0
    BY Zenon, <1>1, <1>3, <1>4 DEF PopStep
  <1>6. \A k \in Level : k # l => mlfq'[k] = mlfq[k] /\ q \notin Members(mlfq[k])
    BY Zenon, <1>2, <1>4, <1>5 DEF IInv, Placed
  <1>7. mlfq'[l] = Tail(mlfq[l])
    BY Zenon, <1>2, <1>5
  <1>8. mlfq' \in [Level -> Seq(Proc)]
    BY Zenon, <1>2, <1>3, <1>5
  <1>9. inQueue' \in [Proc -> BOOLEAN]
    BY Zenon, <1>5 DEF IInv, TypeOK
  <1>10. waited' \in [Proc -> 0..AGETICK]
    BY <1>5, Sizes DEF IInv, TypeOK
  <1>11. TypeOK'
    BY Zenon, <1>1, <1>5, <1>8, <1>9, <1>10, Sizes DEF IInv, TypeOK
  <1>12. /\ ~inQueue'[q]
         /\ \A p \in Proc : p # q => (inQueue'[p] <=> inQueue[p])
    BY Zenon, <1>5 DEF IInv, TypeOK
  <1>13. Placed'
    <2> SUFFICES ASSUME NEW p \in Proc, NEW k \in Level
                 PROVE  p \in Members(mlfq'[k]) <=> inQueue'[p] /\ level[p] = k
      BY Zenon, <1>1 DEF Placed
    <2>1. CASE p = q
      BY Zenon, <1>3, <1>6, <1>7, <1>12, <2>1
    <2>2. CASE p # q
      BY <1>3, <1>6, <1>7, <1>12, <2>2 DEF IInv, Placed
    <2> QED
      BY Zenon, <2>1, <2>2
  <1>14. Once' /\ QueuedInv'
    BY Zenon, <1>1, <1>3, <1>6, <1>7, <1>12 DEF IInv, Once, QueuedInv
  <1>15. CurInv'
    BY Zenon, <1>1, <1>4, <1>5, <1>12 DEF IInv, CurInv
  <1>16. IndexInv'
    BY Zenon, <1>5 DEF IndexInv
  <1> QED
    BY Zenon, <1>11, <1>13, <1>14, <1>15, <1>16 DEF IInv

\* The top of scheduler()'s loop: no process is chosen.
LEMMA TopFacts ==
  ASSUME TopOfLoop
  PROVE  /\ IndexInv' /\ i' \in Proc \cup Level /\ pc' = "age" /\ cur' = NoProc
         /\ changeQueue' = 0 /\ late' \in BOOLEAN
  <1>1. late' \in BOOLEAN
    BY Zenon DEF TopOfLoop
  <1> QED
    BY Zenon, <1>1, Sizes DEF TopOfLoop, IndexInv

\* What 1 << level is: at most the slice of the last level.
LEMMA PowerFacts ==
  /\ 2 ^ (NMLFQ - 1) \in Nat
  /\ \A l \in Level : 2 ^ l \in Nat /\ 1 <= 2 ^ l /\ 2 ^ l <= 2 ^ (NMLFQ - 1)
  <1>1. \A l \in Level : 2 ^ l \in 1..(2 ^ (NMLFQ - 1))
    BY Zenon, PowerAssumption
  <1>2. NMLFQ - 1 \in Level
    BY Sizes DEF Level
  <1> QED
    BY <1>1, <1>2

\* mlfq_scheduler() goes to the next level, or returns 0.
LEMMA NextLevelIInv ==
  ASSUME IInv, NextLevel
  PROVE  IInv'
  <1>1. /\ pc = "pop" /\ i \in Level /\ mlfq[i] = <<>>
        /\ UNCHANGED <<state, level, inQueue, waited, mlfq>>
        /\ \A l \in Level : l < i => mlfq[l] = <<>>
    BY Zenon DEF IInv, IndexInv, NextLevel
  <1>2. Placed' /\ Once' /\ QueuedInv'
    BY Zenon, <1>1, QueuesKept DEF IInv, QueuedInv
  <1>3. \A p \in Proc : state[p] # "RUNNING"
    BY Zenon, <1>1 DEF IInv, CurInv
  <1>4. CASE i + 1 < NMLFQ
    <2>1. i' = i + 1 /\ UNCHANGED <<pc, cur, changeQueue, late>>
      BY Zenon, <1>4 DEF NextLevel
    <2>2. i' \in Level
      BY <1>1, <1>4, <2>1, Sizes DEF Level
    <2>3. \A l \in Level : l < i' => l < i \/ l = i
      BY <1>1, <2>1 DEF Level
    <2>4. IndexInv'
      BY Zenon, <1>1, <2>1, <2>2, <2>3 DEF IndexInv
    <2>5. TypeOK' /\ CurInv'
      BY Zenon, <1>1, <2>1, <2>2 DEF IInv, TypeOK, CurInv
    <2> QED
      BY Zenon, <1>2, <2>4, <2>5 DEF IInv
  <1>5. CASE ~(i + 1 < NMLFQ)
    <2>1. TopOfLoop
      BY Zenon, <1>5 DEF NextLevel
    <2>2. TypeOK' /\ CurInv'
      BY <1>1, <1>3, <2>1, TopFacts, PowerFacts DEF IInv, TypeOK, CurInv
    <2> QED
      BY Zenon, <1>2, <2>1, <2>2, TopFacts DEF IInv
  <1> QED
    BY Zenon, <1>4, <1>5

\* scheduler() runs the process.
LEMMA DispatchIInv ==
  ASSUME IInv, Dispatch
  PROVE  IInv'
  <1>1. PICK q \in Proc : /\ q = cur /\ pc = "dispatch" /\ state[q] = "RUNNABLE" /\ ~inQueue[q]
                          /\ UNCHANGED <<level, inQueue, mlfq>>
    BY Zenon DEF IInv, CurInv, Dispatch
  <1>2. PICK l \in Level : l = level[q]
    BY Zenon DEF IInv, TypeOK
  <1>3. /\ changeQueue' = 2 ^ l
        /\ state' = [state EXCEPT ![q] = "RUNNING"]
        /\ waited' = [waited EXCEPT ![q] = 0]
        /\ pc' = "run" /\ UNCHANGED <<i, cur, late>>
    BY Zenon, <1>1, <1>2 DEF Dispatch
  <1>4. state' \in [Proc -> States] /\ waited' \in [Proc -> 0..AGETICK]
    BY <1>3, Sizes DEF IInv, TypeOK, States
  <1>5. changeQueue' \in 0..(2 ^ (NMLFQ - 1)) /\ changeQueue' \in 1..(2 ^ l)
    BY <1>3, PowerFacts
  <1>6. TypeOK'
    BY Zenon, <1>1, <1>3, <1>4, <1>5 DEF IInv, TypeOK
  <1>7. Placed' /\ Once'
    BY Zenon, <1>1, QueuesKept DEF IInv
  <1>8. /\ state'[q] = "RUNNING" /\ \A p \in Proc : p # q => state'[p] = state[p]
    BY Zenon, <1>3 DEF IInv, TypeOK
  <1>9. QueuedInv'
    BY Zenon, <1>1, <1>8 DEF IInv, QueuedInv
  <1>10. CurInv'
    BY Zenon, <1>1, <1>2, <1>3, <1>5, <1>8 DEF IInv, CurInv
  <1>11. IndexInv'
    BY Zenon, <1>3 DEF IndexInv
  <1> QED
    BY Zenon, <1>6, <1>7, <1>9, <1>10, <1>11 DEF IInv

\* A tick
LEMMA LaterFacts ==
  ASSUME TypeOK
  PROVE  Later \in [Proc -> 0..AGETICK]
  <1>1. \A p \in Proc : waited[p] \in 0..AGETICK
    BY Zenon DEF TypeOK
  <1>2. \A p \in Proc : (IF waited[p] < AGETICK THEN waited[p] + 1 ELSE AGETICK) \in 0..AGETICK
    BY <1>1, Sizes
  <1> QED
    BY Zenon, <1>2 DEF Later

\* A timer interrupt in the scheduler moves no process.
LEMMA TimerInSchedulerIInv ==
  ASSUME IInv, TimerInScheduler
  PROVE  IInv'
  <1>1. /\ UNCHANGED <<state, level, inQueue, mlfq, pc, i, cur, changeQueue>>
        /\ waited' \in [Proc -> 0..AGETICK]
    BY Zenon, LaterFacts DEF IInv, TimerInScheduler
  <1>2. late' \in BOOLEAN
    BY Zenon DEF TimerInScheduler
  <1>3. TypeOK'
    BY Zenon, <1>1, <1>2 DEF IInv, TypeOK
  <1>4. Placed' /\ Once'
    BY Zenon, <1>1, QueuesKept DEF IInv
  <1> QED
    BY Zenon, <1>1, <1>3, <1>4 DEF IInv, QueuedInv, CurInv, IndexInv

\* A process leaves the CPU, for the state s.
LEMMA OffCpu ==
  ASSUME IInv, pc = "run", NEW s \in States, s # "RUNNING", TopOfLoop,
         state' = [state EXCEPT ![cur] = s], UNCHANGED <<inQueue, mlfq>>,
         waited' \in [Proc -> 0..AGETICK], level' \in [Proc -> Level],
         \A p \in Proc : p # cur => level'[p] = level[p]
  PROVE  IInv'
  <1>1. cur \in Proc /\ ~inQueue[cur]
    BY Zenon DEF IInv, CurInv
  <1>2. TypeOK'
    <2>1. state' \in [Proc -> States]
      BY Zenon, <1>1 DEF IInv, TypeOK
    <2>2. changeQueue' \in 0..(2 ^ (NMLFQ - 1))
      BY TopFacts, PowerFacts
    <2> QED
      BY Zenon, <2>1, <2>2, TopFacts DEF IInv, TypeOK
  <1>3. Placed' /\ Once'
    BY Zenon, <1>1, QueuesKept DEF IInv
  <1>4. state'[cur] = s /\ \A p \in Proc : p # cur => state'[p] = state[p]
    BY Zenon, <1>1 DEF IInv, TypeOK
  <1>5. QueuedInv'
    BY Zenon, <1>1, <1>4 DEF IInv, QueuedInv
  <1>6. CurInv'
    BY Zenon, <1>4, TopFacts DEF IInv, CurInv
  <1> QED
    BY Zenon, <1>2, <1>3, <1>5, <1>6, TopFacts DEF IInv

\* A timer interrupt in a process: its slice shrinks, or is over and it yields.
LEMMA TimerInProcessIInv ==
  ASSUME IInv, TimerInProcess
  PROVE  IInv'
  <1>1. PICK q \in Proc : q = cur /\ pc = "run" /\ changeQueue \in 1..(2 ^ level[q])
    BY Zenon DEF IInv, CurInv, TimerInProcess
  <1>2. PICK l \in Level : l = level[q]
    BY Zenon DEF IInv, TypeOK
  <1>3. waited' \in [Proc -> 0..AGETICK] /\ UNCHANGED <<inQueue, mlfq>>
    BY Zenon, LaterFacts DEF IInv, TimerInProcess
  <1>4. CASE changeQueue - 1 <= 0
    <2>1. /\ level' = [level EXCEPT ![q] = IF l + 1 # NMLFQ THEN l + 1 ELSE l]
          /\ state' = [state EXCEPT ![cur] = "RUNNABLE"] /\ TopOfLoop
      BY <1>1, <1>2, <1>4, PowerFacts DEF TimerInProcess
    <2>2. (IF l + 1 # NMLFQ THEN l + 1 ELSE l) \in Level
      BY Sizes DEF Level
    <2>3. level' \in [Proc -> Level] /\ \A p \in Proc : p # cur => level'[p] = level[p]
      BY Zenon, <1>1, <2>1, <2>2 DEF IInv, TypeOK
    <2> QED
      BY Zenon, <1>1, <1>3, <2>1, <2>3, OffCpu DEF States
  <1>5. CASE changeQueue - 1 > 0
    <2>1. changeQueue' = changeQueue - 1 /\ UNCHANGED <<state, level, pc, i, cur, late>>
      BY <1>1, <1>5, PowerFacts DEF TimerInProcess
    <2>2. changeQueue' \in 1..(2 ^ l) /\ changeQueue' \in 0..(2 ^ (NMLFQ - 1))
      BY <1>1, <1>2, <1>5, <2>1, PowerFacts
    <2>3. TypeOK'
      BY Zenon, <1>3, <2>1, <2>2 DEF IInv, TypeOK
    <2>4. Placed' /\ Once'
      BY Zenon, <1>3, <2>1, QueuesKept DEF IInv
    <2>5. CurInv'
      BY Zenon, <1>1, <1>2, <1>3, <2>1, <2>2 DEF IInv, CurInv
    <2> QED
      BY Zenon, <1>1, <1>3, <2>1, <2>3, <2>4, <2>5 DEF IInv, QueuedInv, IndexInv
  <1> QED
    BY <1>1, <1>4, <1>5, PowerFacts

\* sleep() and exit()
LEMMA LeaveCpuIInv ==
  ASSUME IInv, NEW s \in {"SLEEPING", "ZOMBIE"}, LeaveCpu(s)
  PROVE  IInv'
  <1>1. waited' \in [Proc -> 0..AGETICK] /\ level' \in [Proc -> Level] /\ level' = level
    BY Zenon DEF IInv, TypeOK, LeaveCpu
  <1> QED
    BY Zenon, <1>1, OffCpu DEF LeaveCpu, States

\* A process that is not queued and does not run changes its state.
LEMMA OtherState ==
  ASSUME IInv, NEW p \in Proc, state[p] \notin {"RUNNABLE", "RUNNING"},
         NEW s \in {"RUNNABLE", "UNUSED"}, state' = [state EXCEPT ![p] = s],
         UNCHANGED <<level, inQueue, waited, mlfq, pc, i, cur, changeQueue, late>>
  PROVE  IInv'
  <1>1. ~inQueue[p] /\ (pc \in {"dispatch", "run"} => p # cur)
    BY Zenon DEF IInv, QueuedInv, CurInv
  <1>2. state'[p] = s /\ \A q \in Proc : q # p => state'[q] = state[q]
    BY Zenon DEF IInv, TypeOK
  <1>3. TypeOK'
    BY Zenon DEF IInv, TypeOK, States
  <1>4. Placed' /\ Once'
    BY Zenon, QueuesKept DEF IInv
  <1>5. QueuedInv'
    BY Zenon, <1>1, <1>2 DEF IInv, QueuedInv
  <1>6. CurInv'
    BY Zenon, <1>1, <1>2 DEF IInv, CurInv
  <1>7. IndexInv'
    BY Zenon DEF IInv, IndexInv
  <1> QED
    BY Zenon, <1>3, <1>4, <1>5, <1>6, <1>7 DEF IInv

\* Every step preserves the invariant.
LEMMA NextIInv == IInv /\ [Next]_vars => IInv'
  <1> SUFFICES ASSUME IInv, [Next]_vars PROVE IInv'
    BY Zenon
  <1>1. CASE Scheduler
    BY Zenon, <1>1, AgeStepIInv, PushStepIInv, PopStepIInv, NextLevelIInv, DispatchIInv DEF Scheduler
  <1>2. CASE Timer
    BY Zenon, <1>2, TimerInSchedulerIInv, TimerInProcessIInv DEF Timer
  <1>3. CASE Sleep \/ Exit
    BY Zenon, <1>3, LeaveCpuIInv DEF Sleep, Exit
  <1>4. ASSUME NEW p \in Proc, Wakeup(p) \/ Reap(p) \/ Fork(p)
        PROVE  IInv'
    BY Zenon, <1>4, OtherState DEF Wakeup, Reap, Fork
  <1>5. CASE UNCHANGED vars
    <2>1. UNCHANGED <<state, level, inQueue, waited, mlfq, pc, i, cur, changeQueue, late>>
      BY Zenon, <1>5 DEF vars
    <2>2. TypeOK'
      BY Zenon, <2>1 DEF IInv, TypeOK
    <2>3. Placed' /\ Once'
      BY Zenon, <2>1, QueuesKept DEF IInv
    <2> QED
      BY Zenon, <2>1, <2>2, <2>3 DEF IInv, QueuedInv, CurInv, IndexInv
  <1> QED
    BY Zenon, <1>1, <1>2, <1>3, <1>4, <1>5 DEF Next

\* At boot the queues are empty.
LEMMA InitIInv == Init => IInv
  <1> SUFFICES ASSUME Init PROVE IInv
    BY Zenon
  <1>1. inQueue \in [Proc -> BOOLEAN] /\ late \in BOOLEAN
    BY Zenon DEF Init
  <1>2. /\ state \in [Proc -> States] /\ level \in [Proc -> Level] /\ waited \in [Proc -> 0..AGETICK]
        /\ mlfq \in [Level -> Seq(Proc)]
    BY Sizes DEF Init
  <1>3. TypeOK
    BY <1>1, <1>2, Sizes, PowerFacts DEF Init, TypeOK
  <1>4. \A p \in Proc : ~inQueue[p]
    BY Zenon DEF Init
  <1>5. \A l \in Level : mlfq[l] = <<>> /\ Members(mlfq[l]) = {}
    BY DEF Init, Members
  <1>6. Placed /\ Once /\ QueuedInv
    BY <1>4, <1>5 DEF Placed, Once, Distinct, QueuedInv
  <1>7. CurInv /\ IndexInv
    BY Sizes DEF Init
  <1> QED
    BY Zenon, <1>3, <1>6, <1>7 DEF IInv

\* IInv is an invariant of the scheduler.
THEOREM MlfqInvariant == Spec => []IInv
  BY InitIInv, NextIInv, PTL DEF Spec

\* The queues of the MLFQ scheduler, in_queue and level agree: a process is in
\* the queue of its own level, once, exactly when its flag is set; only runnable
\* processes are queued, the one that is taken out is runnable and runs, and its
\* slice is between one tick and 1 << level ticks.
THEOREM MlfqQueuesExact == Spec => []QueuesExact
  <1>1. IInv => QueuesExact
    BY Zenon DEF IInv, Placed, Once, Distinct, QueuedInv, CurInv, QueuesExact
  <1> QED
    BY <1>1, MlfqInvariant, PTL

\* A step changes one queue, as Queue.tla assumes.
LEMMA NextQueues ==
  IInv /\ [Next]_vars => [\A l \in Level : Line(l)!Next \/ mlfq'[l] = mlfq[l]]_mlfq
  <1> SUFFICES ASSUME IInv, Next PROVE \A l \in Level : Line(l)!Next \/ mlfq'[l] = mlfq[l]
    BY Zenon DEF vars
  <1> SUFFICES ASSUME NEW k \in Level PROVE Line(k)!Next \/ mlfq'[k] = mlfq[k]
    BY Zenon
  <1>1. mlfq \in [Level -> Seq(Proc)]
    BY Zenon DEF IInv, TypeOK
  <1>2. CASE AgeStep
    <2>1. PICK q \in Proc, l \in Level : q = i /\ l = level[q]
      BY Zenon, <1>2 DEF IInv, TypeOK, IndexInv, AgeStep
    <2>2. CASE inQueue[q] /\ mlfq' = [mlfq EXCEPT ![l] = Remove(@, q)]
      <3>1. q \in Members(mlfq[l])
        BY Zenon, <2>1, <2>2 DEF IInv, Placed
      <3>2. mlfq'[l] = Remove(mlfq[l], q) /\ (k # l => mlfq'[k] = mlfq[k])
        BY Zenon, <1>1, <2>2
      <3>3. Line(l)!Erase(q)
        BY Zenon, <3>1, <3>2 DEF Line!Erase, Line!Members, Line!Remove, Line!Position, Members, Remove,
           Position
      <3> QED
        BY Zenon, <3>2, <3>3 DEF Line!Next
    <2>3. CASE mlfq' = mlfq
      BY Zenon, <2>3
    <2> QED
      BY Zenon, <1>2, <2>1, <2>2, <2>3 DEF AgeStep
  <1>3. CASE PushStep
    <2>1. PICK q \in Proc, l \in Level : q = i /\ l = level[q]
      BY Zenon, <1>3 DEF IInv, TypeOK, IndexInv, PushStep
    <2>2. CASE ~inQueue[q] /\ mlfq' = [mlfq EXCEPT ![l] = Append(@, q)]
      <3>1. q \notin Members(mlfq[l])
        BY Zenon, <2>2 DEF IInv, Placed
      <3>2. mlfq'[l] = Append(mlfq[l], q) /\ (k # l => mlfq'[k] = mlfq[k])
        BY Zenon, <1>1, <2>2
      <3>3. Line(l)!Push(q)
        BY Zenon, <3>1, <3>2 DEF Line!Push, Line!Members, Members
      <3> QED
        BY Zenon, <3>2, <3>3 DEF Line!Next
    <2>3. CASE mlfq' = mlfq
      BY Zenon, <2>3
    <2> QED
      BY Zenon, <1>3, <2>1, <2>2, <2>3 DEF PushStep
  <1>4. CASE PopStep
    <2>1. PICK l \in Level : l = i /\ mlfq[l] # <<>> /\ mlfq' = [mlfq EXCEPT ![l] = Tail(@)]
      BY Zenon, <1>4 DEF IInv, IndexInv, PopStep
    <2>2. mlfq'[l] = Tail(mlfq[l]) /\ (k # l => mlfq'[k] = mlfq[k])
      BY Zenon, <1>1, <2>1
    <2>3. Line(l)!Pop
      BY Zenon, <2>1, <2>2 DEF Line!Pop
    <2> QED
      BY Zenon, <2>2, <2>3 DEF Line!Next
  <1>5. CASE ~AgeStep /\ ~PushStep /\ ~PopStep
    <2>1. mlfq' = mlfq
      BY Zenon, <1>5 DEF Next, Scheduler, Timer, TimerInScheduler, TimerInProcess, NextLevel, Dispatch,
         Sleep, Exit, LeaveCpu, Wakeup, Reap, Fork
    <2> QED
      BY Zenon, <2>1
  <1> QED
    BY Zenon, <1>2, <1>3, <1>4, <1>5

\* Mlfq calls kernel/queue.c within what Queue.tla assumes of its caller, so that
\* the theorem QueueImplementsFifo applies to every queue of the scheduler.
THEOREM MlfqQueueCalls == Spec => QueueCalls
  BY MlfqInvariant, NextQueues, PTL DEF Spec, QueueCalls

\* The process that mlfq_scheduler() chooses has the best level of those queued.
THEOREM MlfqBestLevel == Spec => BestLevelFirst
  <1>1. ASSUME IInv, Next, pc = "pop", pc' = "dispatch", NEW p \in Proc, inQueue[p]
        PROVE  level[cur'] <= level[p]
    <2>1. PopStep
      BY Zenon, <1>1 DEF Next, Scheduler, AgeStep, PushStep, NextLevel, Dispatch, TopOfLoop, Timer,
         TimerInScheduler, TimerInProcess, Sleep, Exit, LeaveCpu, Wakeup, Reap, Fork
    <2>2. PICK l \in Level : /\ l = i /\ mlfq[l] # <<>> /\ \A k \in Level : k < l => mlfq[k] = <<>>
      BY Zenon, <1>1, <2>1 DEF IInv, IndexInv, PopStep
    <2>3. Head(mlfq[l]) \in Members(mlfq[l]) /\ Head(mlfq[l]) \in Proc
      BY Zenon, <1>1, <2>2, TailFacts DEF IInv, TypeOK, Once
    <2>4. level[cur'] = l
      BY Zenon, <1>1, <2>1, <2>2, <2>3 DEF IInv, Placed, PopStep
    <2>5. level[p] \in Level /\ p \in Members(mlfq[level[p]])
      BY Zenon, <1>1 DEF IInv, TypeOK, Placed
    <2>6. mlfq[level[p]] # <<>>
      BY <2>5 DEF Members
    <2> QED
      BY <2>2, <2>4, <2>5, <2>6 DEF Level
  <1>2. IInv /\ [Next]_vars =>
          [pc = "pop" /\ pc' = "dispatch" =>
             \A p \in Proc : inQueue[p] => level[cur'] <= level[p]]_vars
    BY Zenon, <1>1
  <1> QED
    BY <1>2, MlfqInvariant, PTL DEF Spec, BestLevelFirst

-----------------------------------------------------------------------------
(* The circular buffer *)

\* The element k places after the head.
At(k) == array[SlotAt(head, k)]

\* The places from the head that hold queued processes.  After the last
\* iteration of qerase() the last of them holds a stale pointer.
Live == 0..((IF victim # NoProc /\ curr = tail THEN size - 1 ELSE size) - 1)

\* The live places hold distinct processes.
LiveDistinct ==
  /\ \A k \in Live : At(k) \in Proc
  /\ \A j, k \in Live : At(j) = At(k) => j = k

\* qerase()'s loop: the element it moves has not been passed over, and once
\* the loop is done it is in no live place.
EraseInv ==
  victim # NoProc =>
    /\ size # 0
    /\ \E c \in 0..size :
         /\ curr = SlotAt(head, c)
         /\ c < size => \E k \in c..(size - 1) : At(k) = victim
    /\ curr = tail => \A k \in Live : At(k) # victim

QueueInv == QueueTypeOK /\ RingInv /\ NoPanic /\ LiveDistinct /\ EraseInv

\* The null pointer is no process.
LEMMA ProcFacts == NoProc \notin Proc
  BY NPROCAssumption DEF Proc, NoProc

\* SlotAt() walks through the array without meeting a slot twice.
LEMMA SlotAtFacts ==
  ASSUME NEW s \in Slots
  PROVE  /\ \A k \in Slots : SlotAt(s, k) \in Slots
         /\ \A j, k \in Slots : SlotAt(s, j) = SlotAt(s, k) => j = k
         /\ SlotAt(s, 0) = s
         /\ \A k \in 0..(NPROC - 1) : Succ(SlotAt(s, k)) = SlotAt(s, k + 1)
         /\ \A k \in 0..(NPROC - 1) : SlotAt(Succ(s), k) = SlotAt(s, k + 1)
         /\ \A k \in 1..NPROC : Pred(SlotAt(s, k)) = SlotAt(s, k - 1)
         /\ Succ(s) \in Slots /\ Pred(s) \in Slots
  BY NPROCAssumption DEF Slots, SlotAt, Succ, Pred

\* The members of the contents are the elements at the places 0..size-1.
LEMMA QueuedFacts ==
  ASSUME size \in Nat
  PROVE  /\ Contents \in [1..size -> {At(k) : k \in 0..(size - 1)}]
         /\ Len(Contents) = size
         /\ \A k \in 0..(size - 1) : Contents[k + 1] = At(k)
         /\ Queued = {At(k) : k \in 0..(size - 1)}
  <1>1. /\ Contents \in [1..size -> {At(k) : k \in 0..(size - 1)}]
        /\ \A k \in 0..(size - 1) : Contents[k + 1] = At(k)
    BY DEF Contents, At
  <1>2. Len(Contents) = size
    BY DEF Contents
  <1>3. Queued = {At(k) : k \in 0..(size - 1)}
    BY SMTT(30), <1>1, <1>2 DEF Queued, Members
  <1> QED BY Zenon, <1>1, <1>2, <1>3

\* NPROC places with a process each, none of them twice, leave no process out.
\* Lemma NoneLeftOut proves it.
Pigeonhole ==
  \A f \in [0..(NPROC - 1) -> Proc] :
    (\A j, k \in 0..(NPROC - 1) : f[j] = f[k] => j = k) =>
      \A p \in Proc : \E k \in 0..(NPROC - 1) : f[k] = p

\* A full queue of distinct processes holds every process there is.
LEMMA FullQueue ==
  ASSUME Pigeonhole, QueueTypeOK, LiveDistinct, victim = NoProc, size = NPROC
  PROVE  \A p \in Proc : p \in Queued
  <1> DEFINE S == 0..(NPROC - 1)
             f == [k \in S |-> At(k)]
  <1>1. f \in [S -> Proc] /\ \A j, k \in S : f[j] = f[k] => j = k
    BY Zenon DEF LiveDistinct, Live
  <1>2. \A p \in Proc : \E k \in S : At(k) = p
    BY Zenon, <1>1 DEF Pigeonhole
  <1> QED
    BY <1>2, QueuedFacts DEF QueueTypeOK

-----------------------------------------------------------------------------
\* The initial queue satisfies the inductive invariant.
LEMMA QueueInitInv == QueueInit => QueueInv
  <1> SUFFICES ASSUME QueueInit PROVE QueueInv
    BY Zenon
  <1> USE NPROCAssumption, ProcFacts
  <1>1. 0 \in Slots /\ 0 \in 0..NPROC /\ SlotAt(0, 0) = 0
    BY DEF Slots, SlotAt
  <1>2. QueueTypeOK
    BY Zenon, <1>1 DEF QueueInit, QueueTypeOK
  <1>3. RingInv /\ NoPanic
    BY Zenon, <1>1 DEF QueueInit, RingInv, NoPanic
  <1>4. LiveDistinct /\ EraseInv
    BY DEF QueueInit, LiveDistinct, Live, EraseInv
  <1> QED BY Zenon, <1>2, <1>3, <1>4 DEF QueueInv

\* push() keeps the invariant: it never finds the queue full, and the slot at
\* the tail is the place after the last queued process.
LEMMA PushIInv ==
  ASSUME Pigeonhole, QueueInv, NEW p \in Proc, Push(p)
  PROVE  QueueInv'
  <1> USE NPROCAssumption, ProcFacts DEF QueueInv
  <1>1. head \in Slots /\ size \in 0..NPROC /\ victim = NoProc /\ ~panicked
    BY Zenon DEF Push, Idle, QueueTypeOK
  <1>2. size # NPROC
    BY Zenon, <1>1, FullQueue DEF Push
  <1>3. /\ array' = [array EXCEPT ![tail] = p]
        /\ tail' = Succ(tail)
        /\ size' = size + 1
        /\ UNCHANGED <<head, victim, curr, panicked>>
    BY Zenon, <1>2 DEF Push
  <1>4. tail = SlotAt(head, size)
    BY Zenon DEF RingInv
  <1>5. Slots = 0..NPROC
    BY Zenon DEF Slots
  <1>6. QueueTypeOK'
    BY <1>1, <1>2, <1>3, <1>5, SlotAtFacts DEF QueueTypeOK
  <1>7. RingInv'
    BY <1>1, <1>2, <1>3, <1>4, SlotAtFacts DEF RingInv
  <1>8. Live = 0..(size - 1) /\ Live' = 0..size
    BY <1>1, <1>3 DEF Live
  <1>9. \A k \in Slots : k = size => At(k)' = p
    BY Zenon, <1>1, <1>3, <1>4, <1>5 DEF At, QueueTypeOK
  <1>10. \A k \in 0..(size - 1) : At(k)' = At(k)
    BY <1>1, <1>3, <1>4, <1>5, SlotAtFacts DEF At, QueueTypeOK
  <1>11. \A k \in 0..(size - 1) : At(k) # p
    BY <1>1, QueuedFacts DEF Push
  <1>12. LiveDistinct'
    <2>1. \A k \in 0..size : At(k)' \in Proc
      BY <1>1, <1>5, <1>8, <1>9, <1>10 DEF LiveDistinct
    <2>2. \A j, k \in 0..size : At(j)' = At(k)' => j = k
      BY <1>1, <1>5, <1>8, <1>9, <1>10, <1>11 DEF LiveDistinct
    <2> QED BY Zenon, <1>8, <2>1, <2>2 DEF LiveDistinct
  <1>13. NoPanic' /\ EraseInv'
    BY Zenon, <1>1, <1>3 DEF NoPanic, EraseInv
  <1> QED BY Zenon, <1>6, <1>7, <1>12, <1>13

\* pop() keeps the invariant: every place moves one towards the head.
LEMMA PopIInv ==
  ASSUME QueueInv, Pop
  PROVE  QueueInv'
  <1> USE NPROCAssumption, ProcFacts DEF QueueInv
  <1>1. head \in Slots /\ size \in 1..NPROC /\ victim = NoProc /\ ~panicked
    BY DEF Pop, Idle, QueueTypeOK
  <1>2. /\ head' = Succ(head)
        /\ size' = size - 1
        /\ UNCHANGED <<tail, array, victim, curr, panicked>>
    BY Zenon DEF Pop
  <1>3. QueueTypeOK'
    BY <1>1, <1>2, SlotAtFacts DEF QueueTypeOK
  <1>4. RingInv'
    BY <1>1, <1>2, SlotAtFacts DEF RingInv
  <1>5. Live = 0..(size - 1) /\ Live' = 0..(size - 2)
    BY <1>1, <1>2 DEF Live
  <1>6. \A k \in 0..(size - 2) : At(k)' = At(k + 1)
    BY <1>1, <1>2, SlotAtFacts DEF At
  <1>7. LiveDistinct'
    <2>1. \A k \in 0..(size - 2) : At(k)' \in Proc
      BY <1>1, <1>5, <1>6 DEF LiveDistinct
    <2>2. \A j, k \in 0..(size - 2) : At(j)' = At(k)' => j = k
      BY <1>1, <1>5, <1>6 DEF LiveDistinct
    <2> QED BY Zenon, <1>5, <2>1, <2>2 DEF LiveDistinct
  <1>8. NoPanic' /\ EraseInv'
    BY Zenon, <1>1, <1>2 DEF NoPanic, EraseInv
  <1> QED BY Zenon, <1>3, <1>4, <1>7, <1>8

\* Entering qerase() establishes its loop invariant at the head.
LEMMA EraseStartIInv ==
  ASSUME QueueInv, NEW p \in Proc, EraseStart(p)
  PROVE  QueueInv'
  <1> USE NPROCAssumption, ProcFacts DEF QueueInv
  <1>1. head \in Slots /\ size \in 0..NPROC /\ victim = NoProc /\ ~panicked
    BY Zenon DEF EraseStart, Idle, QueueTypeOK
  <1>2. victim' = p /\ curr' = head /\ UNCHANGED <<head, tail, array, size, panicked>>
    BY Zenon DEF EraseStart
  <1>3. PICK k \in 0..(size - 1) : At(k) = p
    BY <1>1, QueuedFacts DEF EraseStart
  <1>4. tail # head
    BY <1>1, <1>3, SlotAtFacts DEF RingInv, Slots
  <1>5. Live = 0..(size - 1) /\ Live' = 0..(size - 1)
    BY Zenon, <1>1, <1>2, <1>4 DEF Live
  <1>6. \A j \in 0..(size - 1) : At(j)' = At(j)
    BY Zenon, <1>2 DEF At
  <1>7. QueueTypeOK' /\ RingInv' /\ NoPanic'
    BY Zenon, <1>1, <1>2 DEF QueueTypeOK, RingInv, NoPanic
  <1>8. LiveDistinct'
    BY <1>5, <1>6 DEF LiveDistinct
  <1>9. EraseInv'
    <2>1. size' # 0 /\ curr' # tail'
      BY <1>1, <1>2, <1>3, <1>4
    <2>2. curr' = SlotAt(head, 0)' /\ 0 \in 0..size'
      BY <1>1, <1>2, SlotAtFacts
    <2>3. \E j \in 0..(size' - 1) : At(j)' = victim'
      BY Zenon, <1>2, <1>3, <1>6
    <2> QED BY Zenon, <2>1, <2>2, <2>3 DEF EraseInv
  <1> QED BY Zenon, <1>7, <1>8, <1>9

\* One iteration of qerase()'s loop keeps its invariant.  At the place c of
\* curr the element either is there, and moves to the place c + 1, or it is
\* further on.
LEMMA EraseStepIInv ==
  ASSUME QueueInv, EraseStep
  PROVE  QueueInv'
  <1> USE NPROCAssumption, ProcFacts DEF QueueInv
  <1>1. /\ head \in Slots /\ tail = SlotAt(head, size) /\ size \in 1..NPROC
        /\ victim # NoProc /\ victim \in Proc /\ curr # tail /\ ~panicked
        /\ array \in [Slots -> Proc \cup {NoProc}]
    BY DEF EraseStep, QueueTypeOK, EraseInv, RingInv, NoPanic
  <1>2. curr' = Succ(curr) /\ UNCHANGED <<head, tail, size, victim, panicked>>
    BY Zenon DEF EraseStep
  <1>3. Slots = 0..NPROC
    BY Zenon DEF Slots
  <1>4. PICK c \in 0..(size - 1) :
          curr = SlotAt(head, c) /\ \E k \in c..(size - 1) : At(k) = victim
    BY <1>1 DEF EraseInv
  <1>5. Succ(curr) = SlotAt(head, c + 1)
    BY <1>1, <1>4, SlotAtFacts
  <1>6. Live = 0..(size - 1)
    BY Zenon, <1>1 DEF Live
  <1>7. /\ curr' = tail' <=> c + 1 = size
        /\ Live' = 0..((IF c + 1 = size THEN size - 1 ELSE size) - 1)
    <2>1. \A j, k \in Slots : SlotAt(head, j) = SlotAt(head, k) => j = k
      BY Zenon, <1>1, SlotAtFacts
    <2>2. curr' = tail' <=> c + 1 = size
      BY <1>1, <1>2, <1>3, <1>4, <1>5, <2>1
    <2> QED BY Zenon, <1>1, <1>2, <2>2 DEF Live
  <1>8. QueueTypeOK'
    <2>1. curr' \in Slots
      <3>1. \A k \in Slots : SlotAt(head, k) \in Slots
        BY Zenon, <1>1, SlotAtFacts
      <3>2. c + 1 \in Slots
        BY <1>1, <1>3, <1>4
      <3> QED BY Zenon, <1>2, <1>5, <3>1, <3>2
    <2>2. array' \in [Slots -> Proc \cup {NoProc}]
      BY Zenon, <1>1, <2>1, <1>2 DEF EraseStep
    <2> QED BY Zenon, <1>1, <1>2, <2>1, <2>2 DEF QueueTypeOK
  <1>9. RingInv' /\ NoPanic'
    BY Zenon, <1>1, <1>2 DEF RingInv, NoPanic
  <1>10. CASE At(c) = victim
    <2>1. array' = [array EXCEPT ![curr] = array[Succ(curr)], ![Succ(curr)] = array[curr]]
      BY Zenon, <1>4, <1>10 DEF EraseStep, At
    <2>2. \A k \in Slots : At(k)' = IF k = c THEN At(c + 1)
                                   ELSE IF k = c + 1 THEN victim ELSE At(k)
      <3>1. /\ \A j, k \in Slots : SlotAt(head, j) = SlotAt(head, k) => j = k
            /\ \A k \in Slots : SlotAt(head, k) \in Slots
        BY Zenon, <1>1, SlotAtFacts
      <3>2. c \in Slots /\ c + 1 \in Slots /\ c # c + 1
        BY <1>1, <1>3, <1>4
      <3> QED
        BY Zenon, <1>1, <1>2, <1>4, <1>5, <1>10, <2>1, <3>1, <3>2 DEF At
    <2>3. LiveDistinct'
      <3>1. \A k \in Live' : At(k)' \in Proc
        BY <1>1, <1>3, <1>4, <1>6, <1>7, <2>2 DEF LiveDistinct
      <3>2. \A j, k \in Live' : At(j)' = At(k)' => j = k
        BY <1>1, <1>3, <1>4, <1>6, <1>7, <1>10, <2>2 DEF LiveDistinct
      <3> QED BY Zenon, <3>1, <3>2 DEF LiveDistinct
    <2>4. EraseInv'
      <3>1. c + 1 < size => \E k \in (c + 1)..(size - 1) : At(k)' = victim
        BY <1>1, <1>3, <1>4, <2>2
      <3>2. curr' = tail' => c + 1 = size
        BY Zenon, <1>7
      <3>3. c + 1 = size => \A k \in Live' : At(k)' # victim
        BY SMTT(30), <1>1, <1>3, <1>4, <1>6, <1>7, <1>10, <2>2 DEF LiveDistinct
      <3>4. curr' = SlotAt(head, c + 1) /\ c + 1 \in 0..size
        BY <1>1, <1>2, <1>4, <1>5
      <3> QED BY Zenon, <1>1, <1>2, <3>1, <3>2, <3>3, <3>4 DEF EraseInv
    <2> QED BY Zenon, <1>8, <1>9, <2>3, <2>4
  <1>11. CASE At(c) # victim
    <2>1. array' = array
      BY Zenon, <1>4, <1>11 DEF EraseStep, At
    <2>2. \A k \in Slots : At(k)' = At(k)
      BY Zenon, <1>2, <2>1 DEF At
    <2>3. c + 1 < size /\ \E k \in (c + 1)..(size - 1) : At(k) = victim
      BY <1>1, <1>4, <1>11
    <2>4. LiveDistinct'
      BY <1>1, <1>3, <1>6, <1>7, <2>2, <2>3 DEF LiveDistinct
    <2>5. EraseInv'
      <3>1. curr' # tail'
        BY SMTT(30), <1>1, <1>2, <1>3, <1>4, <1>5, <2>3, SlotAtFacts
      <3>2. curr' = SlotAt(head, c + 1) /\ c + 1 \in 0..size
        BY <1>1, <1>2, <1>4, <1>5
      <3>3. \E k \in (c + 1)..(size - 1) : At(k)' = victim
        BY <1>1, <1>3, <1>4, <2>2, <2>3
      <3> QED BY Zenon, <1>1, <1>2, <3>1, <3>2, <3>3 DEF EraseInv
    <2> QED BY Zenon, <1>8, <1>9, <2>4, <2>5
  <1> QED BY Zenon, <1>10, <1>11

\* The end of qerase() takes the last place away, which is no longer live.
LEMMA EraseEndIInv ==
  ASSUME QueueInv, EraseEnd
  PROVE  QueueInv'
  <1> USE NPROCAssumption, ProcFacts DEF QueueInv
  <1>1. /\ head \in Slots /\ tail = SlotAt(head, size) /\ size \in 1..NPROC
        /\ victim # NoProc /\ curr = tail /\ ~panicked
    BY DEF EraseEnd, QueueTypeOK, EraseInv, RingInv, NoPanic
  <1>2. /\ tail' = Pred(tail) /\ size' = size - 1 /\ victim' = NoProc
        /\ UNCHANGED <<head, array, curr, panicked>>
    BY Zenon DEF EraseEnd
  <1>3. tail' = SlotAt(head, size - 1) /\ tail' \in Slots
    BY <1>1, <1>2, SlotAtFacts DEF Slots
  <1>4. QueueTypeOK'
    BY <1>1, <1>2, <1>3 DEF QueueTypeOK
  <1>5. RingInv' /\ NoPanic'
    BY Zenon, <1>1, <1>2, <1>3 DEF RingInv, NoPanic
  <1>6. Live = 0..(size - 2) /\ Live' = 0..(size - 2)
    BY <1>1, <1>2 DEF Live
  <1>7. \A k \in Live : At(k)' = At(k)
    BY Zenon, <1>2 DEF At
  <1>8. LiveDistinct'
    BY <1>6, <1>7 DEF LiveDistinct
  <1>9. EraseInv'
    BY Zenon, <1>2 DEF EraseInv
  <1> QED BY Zenon, <1>4, <1>5, <1>8, <1>9

\* Every step of the queue keeps the inductive invariant.
LEMMA QueueNextInv ==
  ASSUME Pigeonhole
  PROVE  QueueInv /\ [QueueNext]_queueVars => QueueInv'
  <1> SUFFICES ASSUME QueueInv, [QueueNext]_queueVars PROVE QueueInv'
    BY Zenon
  <1>1. CASE \E p \in Proc : Push(p)
    BY Zenon, <1>1, PushIInv
  <1>2. CASE \E p \in Proc : EraseStart(p)
    BY Zenon, <1>2, EraseStartIInv
  <1>3. CASE Pop
    BY Zenon, <1>3, PopIInv
  <1>4. CASE EraseStep
    BY Zenon, <1>4, EraseStepIInv
  <1>5. CASE EraseEnd
    BY Zenon, <1>5, EraseEndIInv
  <1>6. CASE UNCHANGED queueVars
    BY Zenon, <1>6 DEF queueVars, QueueInv, QueueTypeOK, RingInv, NoPanic, LiveDistinct, EraseInv, Live, At
  <1> QED BY Zenon, <1>1, <1>2, <1>3, <1>4, <1>5, <1>6 DEF QueueNext

-----------------------------------------------------------------------------
\* Refinement: the circular buffer implements ProcQueue.

\* The contents as a function of the places.
LEMMA ContentsFacts ==
  ASSUME size \in Nat
  PROVE  /\ Contents = [k \in 1..size |-> At(k - 1)]
         /\ Len(Contents) = size
  BY DEF Contents, At

\* The contents are a sequence of distinct processes whenever all the places
\* are live.
LEMMA ContentsSeq ==
  ASSUME QueueInv, victim = NoProc \/ curr # tail
  PROVE  /\ Contents \in Seq(Proc)
         /\ Contents \in [1..size -> Proc]
  <1>1. size \in Nat /\ \A k \in 1..size : At(k - 1) \in Proc
    BY DEF QueueInv, QueueTypeOK, LiveDistinct, Live
  <1>2. Contents \in [1..size -> Proc]
    BY Zenon, <1>1, ContentsFacts
  <1> QED BY <1>1, <1>2

\* The empty buffer is the empty queue.
LEMMA InitRefines == QueueInit => Abs!Init
  BY DEF QueueInit, Abs!Init, CallerLine, Contents

\* push() appends to the queue.
LEMMA PushRefines ==
  ASSUME Pigeonhole, QueueInv, NEW p \in Proc, Push(p)
  PROVE  Abs!Push(p)
  <1>1. /\ head \in Slots /\ size \in 0..(NPROC - 1) /\ Slots = 0..NPROC
        /\ victim = NoProc /\ tail = SlotAt(head, size)
        /\ array \in [Slots -> Proc \cup {NoProc}]
    BY FullQueue, NPROCAssumption DEF QueueInv, QueueTypeOK, Push, Idle, RingInv, Slots
  <1>2. /\ array' = [array EXCEPT ![tail] = p]
        /\ size' = size + 1 /\ head' = head /\ victim' = NoProc
    BY <1>1 DEF Push
  <1>3. \A k \in 0..size : At(k)' = IF k = size THEN p ELSE At(k)
    <2>1. /\ \A j, k \in Slots : SlotAt(head, j) = SlotAt(head, k) => j = k
          /\ \A k \in Slots : SlotAt(head, k) \in Slots
      BY Zenon, <1>1, SlotAtFacts
    <2>2. size \in Slots /\ \A k \in 0..size : k \in Slots
      BY <1>1, NPROCAssumption
    <2> QED BY Zenon, <1>1, <1>2, <2>1, <2>2 DEF At
  <1>4. Contents' = [k \in 1..(size + 1) |-> IF k = size + 1 THEN p ELSE At(k - 1)]
    <2>1. Contents' = [k \in 1..(size + 1) |-> At(k - 1)']
      BY Zenon, <1>1, <1>2 DEF Contents, At
    <2> QED BY <1>1, <1>3, <2>1
  <1>5. Contents \in Seq(Proc) /\ Contents = [k \in 1..size |-> At(k - 1)]
    BY <1>1, ContentsSeq, ContentsFacts
  <1>6. Contents' = Append(Contents, p)
    BY <1>1, <1>4, <1>5
  <1>7. p \notin Members(Contents)
    BY Zenon DEF Push, Queued
  <1> QED BY Zenon, <1>1, <1>2, <1>6, <1>7 DEF Abs!Push, Abs!Members, Members, CallerLine

\* pop() takes the first element away.
LEMMA PopRefines ==
  ASSUME QueueInv, Pop
  PROVE  Abs!Pop
  <1>1. /\ head \in Slots /\ size \in 1..NPROC /\ victim = NoProc
        /\ head' = Succ(head) /\ size' = size - 1 /\ array' = array
        /\ victim' = NoProc
    BY DEF QueueInv, QueueTypeOK, Pop, Idle
  <1>2. \A k \in 0..(size - 2) : At(k)' = At(k + 1)
    BY <1>1, SlotAtFacts, NPROCAssumption DEF At
  <1>3. Contents' = [k \in 1..(size - 1) |-> At(k)]
    <2>1. Contents' = [k \in 1..(size - 1) |-> At(k - 1)']
      BY Zenon, <1>1 DEF Contents, At
    <2> QED BY <1>1, <1>2, <2>1
  <1>4. Contents \in Seq(Proc) /\ Contents = [k \in 1..size |-> At(k - 1)]
        /\ Len(Contents) = size
    BY <1>1, ContentsSeq, ContentsFacts
  <1>5. Contents' = Tail(Contents)
    BY <1>1, <1>3, <1>4
  <1>6. Contents # <<>>
    BY <1>1, <1>4
  <1> QED BY Zenon, <1>1, <1>5, <1>6 DEF Abs!Pop, CallerLine

\* Entering qerase() is the erasure the caller sees.
LEMMA EraseStartRefines ==
  ASSUME QueueInv, NEW p \in Proc, EraseStart(p)
  PROVE  Abs!Erase(p)
  <1>1. /\ head \in Slots /\ size \in 0..NPROC /\ Slots = 0..NPROC
        /\ victim = NoProc /\ p # NoProc /\ tail = SlotAt(head, size)
        /\ p \in Members(Contents)
        /\ victim' = p /\ curr' = head /\ UNCHANGED <<head, tail, array, size>>
    BY Zenon, ProcFacts DEF QueueInv, QueueTypeOK, EraseStart, Idle, RingInv, Queued, Slots
  <1>2. size # 0
    BY <1>1, ContentsFacts DEF Members
  <1>3. head # tail
    BY <1>1, <1>2, SlotAtFacts, NPROCAssumption
  <1>4. Contents' = Contents
    BY Zenon, <1>1 DEF Contents
  <1>5. CallerLine = Contents /\ CallerLine' = Remove(Contents, p)
    BY Zenon, <1>1, <1>3, <1>4 DEF CallerLine
  <1> QED
    BY Zenon, <1>1, <1>5
    DEF Abs!Erase, Abs!Members, Abs!Remove, Abs!Position, Members, Remove, Position

\* An iteration of qerase() is invisible to the caller.
LEMMA EraseStepRefines ==
  ASSUME QueueInv, EraseStep
  PROVE  CallerLine' = CallerLine
  <1>1. /\ head \in Slots /\ tail = SlotAt(head, size) /\ size \in 1..NPROC
        /\ victim # NoProc /\ curr # tail /\ Slots = 0..NPROC
        /\ array \in [Slots -> Proc \cup {NoProc}] /\ Live = 0..(size - 1)
        /\ curr' = Succ(curr) /\ UNCHANGED <<head, tail, size, victim>>
    BY DEF QueueInv, EraseStep, QueueTypeOK, EraseInv, RingInv, Live, Slots
  <1>2. PICK c \in 0..(size - 1) :
          curr = SlotAt(head, c) /\ \E k \in c..(size - 1) : At(k) = victim
    BY <1>1 DEF QueueInv, EraseInv
  <1>3. /\ \A j, k \in Slots : SlotAt(head, j) = SlotAt(head, k) => j = k
        /\ \A k \in Slots : SlotAt(head, k) \in Slots
        /\ \A k \in 0..(NPROC - 1) : Succ(SlotAt(head, k)) = SlotAt(head, k + 1)
    BY Zenon, <1>1, SlotAtFacts
  <1>4. c \in Slots /\ c + 1 \in Slots /\ size \in Slots /\ c # c + 1
    BY <1>1, <1>2, NPROCAssumption
  <1>5. Succ(curr) = SlotAt(head, c + 1)
    <2>1. c \in 0..(NPROC - 1)
      BY <1>1, <1>2, NPROCAssumption
    <2> QED BY Zenon, <1>2, <1>3, <2>1
  <1>6. curr' = tail' <=> c + 1 = size
    BY Zenon, <1>1, <1>2, <1>3, <1>4, <1>5
  <1>7. Contents' = [k \in 1..size |-> At(k - 1)']
    BY Zenon, <1>1 DEF Contents, At
  <1>8. CASE At(c) = victim
    <2>1. array' = [array EXCEPT ![curr] = array[Succ(curr)], ![Succ(curr)] = array[curr]]
      BY Zenon, <1>2, <1>8 DEF EraseStep, At
    <2>2. \A k \in Slots : At(k)' = IF k = c THEN At(c + 1)
                                   ELSE IF k = c + 1 THEN victim ELSE At(k)
      BY Zenon, <1>1, <1>2, <1>3, <1>4, <1>5, <1>8, <2>1 DEF At
    <2>3. CallerLine = [k \in 1..(size - 1) |-> IF k < c + 1 THEN At(k - 1) ELSE At(k)]
      <3>1. Contents = [k \in 1..size |-> At(k - 1)] /\ Len(Contents) = size
        BY <1>1, ContentsFacts
      <3>2. \A k \in 1..size : Contents[k] = victim <=> k = c + 1
        BY <1>1, <1>2, <1>8, <3>1 DEF QueueInv, LiveDistinct
      <3>3. Remove(Contents, victim) = [k \in 1..(size - 1) |->
               IF k < c + 1 THEN Contents[k] ELSE Contents[k + 1]]
        <4>1. Position(Contents, victim) = c + 1
          BY <1>1, <1>2, <3>1, <3>2 DEF Position
        <4> QED BY SMTT(30), <1>1, <3>1, <4>1 DEF Remove
      <3>4. CallerLine = Remove(Contents, victim)
        BY Zenon, <1>1 DEF CallerLine
      <3> QED BY <1>1, <1>2, <3>1, <3>3, <3>4
    <2>4. CASE c + 1 = size
      <3>1. CallerLine' = [k \in 1..(size - 1) |-> Contents'[k]]
        BY Zenon, <1>1, <1>6, <2>4 DEF CallerLine
      <3>2. \A k \in 1..(size - 1) : Contents'[k] = At(k - 1)
        BY <1>1, <1>2, <1>7, <2>2, <2>4, NPROCAssumption
      <3>3. \A k \in 1..(size - 1) : k < c + 1
        BY SMTT(30), <1>1, <1>2, <2>4
      <3> QED BY Zenon, <2>3, <3>1, <3>2, <3>3
    <2>5. CASE c + 1 # size
      <3>1. \A k \in 1..size : Contents'[k] = victim <=> k = c + 2
        <4>1. \A k \in 0..(size - 1) : At(k) = victim <=> k = c
          BY Zenon, <1>1, <1>2, <1>8 DEF QueueInv, LiveDistinct
        <4>2. \A k \in 1..size : Contents'[k] = At(k - 1)'
          BY Zenon, <1>1, <1>7
        <4>3. c + 1 < size
          BY <1>1, <1>2, <2>5
        <4>4. \A k \in 0..(size - 1) : At(k)' = victim <=> k = c + 1
          BY <1>1, <1>2, <2>2, <4>1, <4>3, NPROCAssumption
        <4> QED BY SMTT(30), <1>1, <1>2, <4>2, <4>3, <4>4
      <3>2. CallerLine' = Remove(Contents', victim)
        BY Zenon, <1>1, <1>6, <2>5 DEF CallerLine, Remove, Position
      <3>3. Remove(Contents', victim) =
              [k \in 1..(size - 1) |-> IF k < c + 2 THEN At(k - 1)' ELSE At(k)']
        <4>1. Len(Contents') = size /\ size \in Nat /\ c + 2 \in 1..size
          BY <1>1, <1>2, <1>7, <2>5
        <4>2. Position(Contents', victim) = c + 2
          BY Zenon, <4>1, <3>1 DEF Position
        <4>3. \A k \in 1..(size - 1) :
                Contents'[k] = At(k - 1)' /\ Contents'[k + 1] = At(k)'
          BY <1>1, <1>7
        <4> QED BY Zenon, <4>1, <4>2, <4>3 DEF Remove
      <3>4. \A k \in 1..(size - 1) :
              (IF k < c + 2 THEN At(k - 1)' ELSE At(k)') =
              (IF k < c + 1 THEN At(k - 1) ELSE At(k))
        BY <1>1, <1>2, <2>2, NPROCAssumption
      <3> QED BY Zenon, <2>3, <3>2, <3>3, <3>4
    <2> QED BY Zenon, <2>4, <2>5
  <1>9. CASE At(c) # victim
    <2>1. array' = array
      BY Zenon, <1>2, <1>9 DEF EraseStep, At
    <2>2. c + 1 # size
      BY <1>1, <1>2, <1>9
    <2>3. Contents' = Contents
      BY Zenon, <1>1, <2>1 DEF Contents
    <2> QED BY Zenon, <1>1, <1>6, <2>2, <2>3 DEF CallerLine
  <1> QED BY Zenon, <1>8, <1>9

\* The end of qerase() is invisible too.
LEMMA EraseEndRefines ==
  ASSUME QueueInv, EraseEnd
  PROVE  CallerLine' = CallerLine
  <1>1. /\ size \in 1..NPROC /\ victim # NoProc /\ curr = tail
        /\ size' = size - 1 /\ victim' = NoProc /\ UNCHANGED <<head, array>>
    BY DEF QueueInv, EraseEnd, QueueTypeOK, EraseInv
  <1>2. Contents' = [k \in 1..(size - 1) |-> Contents[k]]
    BY <1>1, NPROCAssumption DEF Contents
  <1> QED BY Zenon, <1>1, <1>2 DEF CallerLine

\* Every step of the buffer is a step of the queue or invisible.
LEMMA NextRefines ==
  ASSUME Pigeonhole
  PROVE  QueueInv /\ [QueueNext]_queueVars => [Abs!Next]_CallerLine
  <1> SUFFICES ASSUME QueueInv, [QueueNext]_queueVars PROVE [Abs!Next]_CallerLine
    BY Zenon
  <1>1. CASE \E p \in Proc : Push(p)
    BY Zenon, <1>1, PushRefines DEF Abs!Next
  <1>2. CASE \E p \in Proc : EraseStart(p)
    BY Zenon, <1>2, EraseStartRefines DEF Abs!Next
  <1>3. CASE Pop
    BY Zenon, <1>3, PopRefines DEF Abs!Next
  <1>4. CASE EraseStep
    BY Zenon, <1>4, EraseStepRefines
  <1>5. CASE EraseEnd
    BY Zenon, <1>5, EraseEndRefines
  <1>6. CASE UNCHANGED queueVars
    BY <1>6 DEF queueVars, CallerLine, Contents, Remove, Position
  <1> QED BY Zenon, <1>1, <1>2, <1>3, <1>4, <1>5, <1>6 DEF QueueNext

-----------------------------------------------------------------------------
(* The theorems about the circular buffer *)

INSTANCE FiniteSetTheorems

\* There are as many processes as places.
LEMMA NoneLeftOut == Pigeonhole
  <1> DEFINE S == 0..(NPROC - 1)
  <1>1. S = Proc /\ IsFiniteSet(S)
    BY FS_Interval, NPROCAssumption DEF Proc
  <1> SUFFICES ASSUME NEW f \in [S -> S], \A j, k \in S : f[j] = f[k] => j = k
               PROVE  \A p \in S : \E k \in S : f[k] = p
    BY Zenon, <1>1 DEF Pigeonhole
  <1>2. f \in Injection(S, S)
    BY Zenon DEF Injection, IsInjective
  <1>3. f \in Surjection(S, S)
    BY Zenon, <1>1, <1>2, FS_Injection
  <1> QED
    BY Zenon, <1>3 DEF Surjection

\* Every step keeps the invariant, and is one of the abstract queue or none.
LEMMA QueueStep == QueueInv /\ [QueueNext]_queueVars => QueueInv' /\ [Abs!Next]_CallerLine
  BY Zenon, NoneLeftOut, QueueNextInv, NextRefines

\* The fields of the circular buffer keep their types and ranges.
THEOREM QueueTypeCorrect == QueueSpec => []QueueTypeOK
  BY QueueInitInv, QueueStep, PTL DEF QueueSpec, QueueInv

\* size, head and tail agree for ever, so front() returns null exactly when
\* the queue is empty.
THEOREM QueueRingSafe == QueueSpec => []RingInv
  BY QueueInitInv, QueueStep, PTL DEF QueueSpec, QueueInv

\* push() never panics: NPROC + 1 slots hold all processes.
THEOREM QueueNeverFull == QueueSpec => []NoPanic
  BY QueueInitInv, QueueStep, PTL DEF QueueSpec, QueueInv

\* kernel/queue.c implements the queue of processes that mlfq_scheduler() and
\* ageing() use, for every length of the process table.
THEOREM QueueImplementsFifo == QueueSpec => FifoWithErase
  BY QueueInitInv, QueueStep, InitRefines, PTL
  DEF QueueSpec, FifoWithErase, Abs!Spec
=============================================================================
