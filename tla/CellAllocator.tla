---------------------------- MODULE CellAllocator ----------------------------
(***************************************************************************)
(* What MarkedSpace promises the program: a cell is handed out only while  *)
(* nobody uses it and no destructor is owed to the object that was in it,  *)
(* a collection keeps at least what the program holds, and a destructor    *)
(* runs once, for an object that is dead.                                  *)
(***************************************************************************)
CONSTANT Cells

VARIABLES
    held,    \* the cells the program can reach
    live,    \* the cells that count as allocated
    objects  \* the cells whose object has a destructor that has not run

cellVars == <<held, live, objects>>

Init == held = {} /\ live = {} /\ objects = {}

\* Hands out a free cell, for an object with or without a destructor.
Allocate(c) ==
    /\ c \notin live \cup objects
    /\ held' = held \cup {c}
    /\ live' = live \cup {c}
    /\ objects' \in {objects, objects \cup {c}}

Release ==
    /\ held' \subseteq held
    /\ UNCHANGED <<live, objects>>

Collect ==
    /\ held \subseteq live'
    /\ live' \subseteq live
    /\ UNCHANGED <<held, objects>>

Destroy ==
    /\ objects' \subseteq objects
    /\ live \cap objects \subseteq objects'
    /\ UNCHANGED <<held, live>>

Next == (\E c \in Cells : Allocate(c)) \/ Release \/ Collect \/ Destroy

Spec == Init /\ [][Next]_cellVars
=============================================================================
