-------------------------------- MODULE Param --------------------------------
(***************************************************************************)
(* What the schedulers and their queues share: NPROC of kernel/param.h,    *)
(* the slots of the process table proc[NPROC], which stand for pointers    *)
(* into it, and the null pointer.                                          *)
(***************************************************************************)
EXTENDS Integers

CONSTANT NPROC       \* length of the process table

Proc == 0..(NPROC - 1)
NoProc == NPROC
=============================================================================
