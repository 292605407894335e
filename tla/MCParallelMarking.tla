------------------------- MODULE MCParallelMarking -------------------------
(***************************************************************************)
(* Small instances of ParallelMarking: object graphs chosen so that two    *)
(* threads race for the same cell, a backing store needs a second block,   *)
(* and weak handles and harvesters only fire in a later weak pass.         *)
(***************************************************************************)
EXTENDS ParallelMarking

CONSTANTS m1, s1, s2, a, b, c, d, e, o1, o2

NoOpaque == [x \in Cells |-> {}]

Edges(pairs) == [x \in Cells |-> {p[2] : p \in {q \in pairs : q[1] = x}}]

\* Two paths lead to d and to e; b, d and e own backing stores.
Diamond ==
    [edges      |-> Edges({<<a, b>>, <<a, c>>, <<b, d>>, <<c, d>>, <<b, e>>, <<c, e>>}),
     roots      |-> [g \in 1..NumRootGroups |-> IF g = 1 THEN {a} ELSE {c}],
     opaque     |-> NoOpaque,
     storage    |-> {b, d, e},
     context    |-> NoOpaque,
     harvesters |-> {}]

DiamondHeaps == {Diamond}

\* a adds o1, which keeps b; b and a's code block then keep c; c adds o2,
\* which keeps d; e is garbage.
WeakChain ==
    [edges      |-> Edges({}),
     roots      |-> [g \in 1..NumRootGroups |-> IF g = 2 THEN {a} ELSE {}],
     opaque     |-> [x \in Cells |-> CASE x = a -> {o1} [] x = c -> {o2} [] OTHER -> {}],
     storage    |-> {a, c},
     context    |-> [x \in Cells |-> CASE x = b -> {o1} [] x = d -> {o2} [] OTHER -> {}],
     harvesters |-> {[owner |-> a, needs |-> {b}, gives |-> {c}],
                     [owner |-> e, needs |-> {a}, gives |-> {e}]}]

\* The same cells after the program dropped a: e and its code block live on.
WeakRest ==
    [edges      |-> Edges({<<e, b>>}),
     roots      |-> [g \in 1..NumRootGroups |-> IF g = 1 THEN {e} ELSE {}],
     opaque     |-> [x \in Cells |-> IF x = a THEN {o1} ELSE {}],
     storage    |-> {},
     context    |-> [x \in Cells |-> IF x = c THEN {o1} ELSE {}],
     harvesters |-> {[owner |-> e, needs |-> {b}, gives |-> {d}],
                     [owner |-> a, needs |-> {b}, gives |-> {c}]}]

WeakHeaps == {WeakChain, WeakRest}
=============================================================================
