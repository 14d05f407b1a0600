------------------------------- MODULE MCMlfq --------------------------------
EXTENDS Mlfq
=============================================================================
