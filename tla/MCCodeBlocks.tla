---------------------------- MODULE MCCodeBlocks ----------------------------
(* Two functions and three code blocks: a function can have a baseline      *)
(* block, a DFG block and a jettisoned one that still executes, or optimized *)
(* code that calls, inlines or refers to the other function.                *)
EXTENDS CodeBlocks
CONSTANTS f1, f2
Symmetry == Permutations(Functions)
=============================================================================
