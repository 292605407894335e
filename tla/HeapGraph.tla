----------------------------- MODULE HeapGraph -----------------------------
(***************************************************************************)
(* What the collector finds in memory when a collection starts, and which  *)
(* of it is live.                                                          *)
(***************************************************************************)
EXTENDS Integers

CONSTANTS
    Cells,         \* the garbage-collected cells
    OpaqueRoots,   \* the opaque roots that cells may add
    NumRootGroups, \* how many times Heap::markRoots appends roots and drains
    Heaps          \* the object graphs a collection may find

(***************************************************************************)
(* A heap gives the strong references of each cell, the roots of each root *)
(* group, the opaque roots a cell adds when it is visited, the cells that  *)
(* own a backing store in the copied space, the opaque roots that keep a   *)
(* weakly held cell alive (WeakHandleOwner::isReachableFromOpaqueRoots),   *)
(* and the harvesters: when the cell h.owner is live and all of h.needs    *)
(* are marked, h.gives is live (the weak transitions and weak references   *)
(* of a DFG CodeBlock).                                                    *)
(***************************************************************************)
Harvesters == [owner : Cells, needs : SUBSET Cells, gives : SUBSET Cells]

IsHeap(h) ==
    /\ h.edges \in [Cells -> SUBSET Cells]
    /\ h.roots \in [1..NumRootGroups -> SUBSET Cells]
    /\ h.opaque \in [Cells -> SUBSET OpaqueRoots]
    /\ h.storage \in SUBSET Cells
    /\ h.context \in [Cells -> SUBSET OpaqueRoots]
    /\ h.harvesters \in SUBSET Harvesters

ASSUME HeapsAssumption == \A h \in Heaps : IsHeap(h)

ASSUME RootGroupsAssumption == NumRootGroups \in Nat \ {0}

HarvestersOf(h, c) == {w \in h.harvesters : w.owner = c}

Fires(w, marks) == w.needs \subseteq marks

OpaqueRootsOf(h, s) == UNION {h.opaque[c] : c \in s}

(***************************************************************************)
(* A set of cells that contains the roots and everything its members keep  *)
(* alive: their strong references, the weak handles that their opaque      *)
(* roots reach, and what their harvesters give.                            *)
(***************************************************************************)
Closed(h, s) ==
    /\ \A g \in 1..NumRootGroups : h.roots[g] \subseteq s
    /\ \A c \in s : h.edges[c] \subseteq s
    /\ \A c \in Cells : h.context[c] \cap OpaqueRootsOf(h, s) # {} => c \in s
    /\ \A w \in h.harvesters : w.owner \in s /\ Fires(w, s) => w.gives \subseteq s

\* The least such set.
Live(h) == {c \in Cells : \A s \in SUBSET Cells : Closed(h, s) => c \in s}
=============================================================================
