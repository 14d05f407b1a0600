------------------------------ MODULE BlockDisk ------------------------------
(***************************************************************************)
(* What virtio_disk_rw() promises the buffer cache: a call moves one block *)
(* between the disk and the caller's buffer, once, between the call and    *)
(* its return, and touches no other block and no other buffer.             *)
(***************************************************************************)
CONSTANTS Buffer, Block, Value, None

VARIABLES store,   \* the blocks on the disk
          data,    \* b->data of every buffer
          req,     \* the call in progress on every buffer, or None
          done     \* has its transfer happened?

vars == <<store, data, req, done>>

Request == [write : BOOLEAN, block : Block]

Init ==
  /\ store \in [Block -> Value]
  /\ data \in [Buffer -> Value]
  /\ req = [b \in Buffer |-> None]
  /\ done = [b \in Buffer |-> FALSE]

\* The holder of the buffer leaves a value in it and calls virtio_disk_rw().
Call(b) ==
  /\ req[b] = None
  /\ \E r \in Request : req' = [req EXCEPT ![b] = r]
  /\ \E v \in Value : data' = [data EXCEPT ![b] = v]
  /\ UNCHANGED <<store, done>>

Transfer(b) ==
  /\ req[b] # None /\ ~done[b]
  /\ done' = [done EXCEPT ![b] = TRUE]
  /\ IF req[b].write
       THEN store' = [store EXCEPT ![req[b].block] = data[b]] /\ UNCHANGED data
       ELSE data' = [data EXCEPT ![b] = store[req[b].block]] /\ UNCHANGED store
  /\ UNCHANGED req

Return(b) ==
  /\ done[b]
  /\ req' = [req EXCEPT ![b] = None]
  /\ done' = [done EXCEPT ![b] = FALSE]
  /\ UNCHANGED <<store, data>>

Next ==
  \E b \in Buffer :
     \/ Call(b)
     \/ Transfer(b)
     \/ Return(b)

Spec == Init /\ [][Next]_vars
=============================================================================
