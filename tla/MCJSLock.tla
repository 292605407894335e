------------------------------ MODULE MCJSLock ------------------------------
(***************************************************************************)
(* Small instances of JSLock.                                              *)
(***************************************************************************)
EXTENDS JSLock, TLC

CONSTANTS t1, t2, t3

Symmetry == Permutations(Threads)
=============================================================================
