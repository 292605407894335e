---------------------------- MODULE MCJSCDebugger ---------------------------
(***************************************************************************)
(* Small instances of JSCDebugger.                                         *)
(***************************************************************************)
EXTENDS JSCDebugger

CONSTANTS f1, f2, f3, f4
=============================================================================
