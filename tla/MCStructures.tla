---------------------------- MODULE MCStructures ----------------------------
(***************************************************************************)
(* Model checking of Structures: objects, keys and functions are           *)
(* interchangeable.                                                        *)
(***************************************************************************)
EXTENDS Structures, TLC

\* What can be observed of a state: the structures in use and the slots that hold
\* a property.
UsedSlots(o) == {Properties(o).entries[i].offset : i \in DOMAIN Properties(o).entries}

View ==
    <<[s \in InUse |-> structures[s]], structureOf,
      [o \in Objects |-> [n \in UsedSlots(o) |-> storage[o][n]]], props, LiveCaches>>

Symmetry ==
    Permutations(Objects \ Reshaped) \cup Permutations(Keys \ Methods) \cup Permutations(Functions)
=============================================================================
