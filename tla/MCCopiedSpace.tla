--------------------------- MODULE MCCopiedSpace ---------------------------
(***************************************************************************)
(* Small instances of CopiedSpace.                                         *)
(***************************************************************************)
EXTENDS CopiedSpace, TLC

CONSTANTS b1, b2, s1, s2

Symmetry == Permutations(Blocks) \cup Permutations(Stores)
=============================================================================
