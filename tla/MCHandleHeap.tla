---------------------------- MODULE MCHandleHeap ----------------------------
(***************************************************************************)
(* Small instances of HandleHeap.                                          *)
(***************************************************************************)
EXTENDS HandleHeap

CONSTANTS n1, n2, n3, c1, c2
=============================================================================
