--------------------------- MODULE MCMarkedSpace ---------------------------
(***************************************************************************)
(* Small instances of MarkedSpace: one size class with destructors and one *)
(* without, that compete for the blocks.                                   *)
(***************************************************************************)
EXTENDS MarkedSpace

CONSTANTS b1, b2
=============================================================================
