---------------------------- MODULE MCVirtioDisk -----------------------------
(***************************************************************************)
(* VirtioDisk for TLC: a buffer that is written and two that are read.     *)
(* The view leaves out what is never read before it is written again: the  *)
(* entries of the two rings outside the window between reader and writer,  *)
(* and the data, header, status and argument of requests that have         *)
(* returned.                                                               *)
(***************************************************************************)
EXTENDS VirtioDisk

CONSTANTS b1, b2, b3

Bufs == {b1, b2, b3}

Requests == ({b1} \X {TRUE} \X Value) \cup ({b2, b3} \X {FALSE} \X {0})

\* The slots of a ring from index from up to, but not including, index to.
Window(from, to) == {k % NUM : k \in from..((IF to < from THEN to + WRAP ELSE to) - 1)}

\* The avail ring that the device will read, with the entry being published.
Offered == Window(lastAvail, IF lock \in Buf THEN Plus(idx) ELSE idx)

Heads == {head[b] : b \in InFlight}

Relevant ==
  <<store, busy, free, desc, idx, usedIdx, used_idx, device, irq, lock, pc, head, panicked,
    [k \in Offered |-> ring[k]],
    [k \in Window(used_idx, usedIdx) |-> usedRing[k]],
    [h \in Heads |-> <<ops[h], info[h]>>],
    [b \in {c \in Buf : pc[c] # "idle"} |-> <<write[b], data[b]>>]>>
=============================================================================
