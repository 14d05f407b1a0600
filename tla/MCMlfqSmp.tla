------------------------------ MODULE MCMlfqSmp ------------------------------
EXTENDS MlfqSmp
=============================================================================
