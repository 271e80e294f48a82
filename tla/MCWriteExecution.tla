-------------------------- MODULE MCWriteExecution --------------------------
(* Small instances of WriteExecution for TLC.                              *)
EXTENDS WriteExecution, TLC

Symmetric == Permutations(Workers)
=============================================================================
