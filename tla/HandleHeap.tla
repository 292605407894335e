----------------------------- MODULE HandleHeap -----------------------------
(***************************************************************************)
(* Strong and weak handles: HandleHeap with its three intrusive lists and  *)
(* its free list, and the finalization of weak handles, in which owners    *)
(* run code that frees handles of the list that is being walked.           *)
(*                                                                         *)
(* The lists are modelled link by link, as the walk and the test for a     *)
(* freed node read the links.  Nodes come from one block that grow()       *)
(* made.                                                                   *)
(***************************************************************************)
EXTENDS Integers, FiniteSets, Functions

CONSTANTS
    Nodes, \* handle nodes; their number is a bound
    Cells, \* cells a handle may refer to
    Null   \* the null link

ASSUME HandleAssumption ==
    /\ Null \notin Nodes
    /\ IsFiniteSet(Nodes)
    /\ Nodes # {}
    /\ "empty" \notin Cells
    /\ "number" \notin Cells

VARIABLES
    links,          \* m_next and m_prev of nodes and sentinels
    freeHead,       \* the head of m_freeList, linked by m_next
    value,          \* m_value of each node
    weakness,       \* m_weakOwner: "strong", "ownerless" or "owned"
    held,           \* the nodes allocated to clients
    alive,          \* the cells that exist, and are marked during finalization
    nextToFinalize, \* m_nextToFinalize
    cursor,         \* the node finalizeWeakHandles is at
    stage,          \* "idle", "walk", or "owner" while WeakHandleOwner::finalize runs
    doomed          \* held weak handles of dead cells whose owners were not told yet

vars == <<links, freeHead, value, weakness, held, alive, nextToFinalize, cursor, stage, doomed>>
nodeVars == <<links, value, weakness>>
walkVars == <<nextToFinalize, cursor, stage>>

Lists == {"strong", "weak", "immediate"}
HeadOf(list) == <<list, "head">>
TailOf(list) == <<list, "tail">>
Sentinels == {HeadOf(list) : list \in Lists} \cup {TailOf(list) : list \in Lists}
Values == Cells \cup {"empty", "number"}

\* Sentinels and the null link are no nodes of the block.
ASSUME NodeAssumption == (Nodes \cup {Null}) \cap Sentinels = {}

-----------------------------------------------------------------------------
(***************************************************************************)
(* SentinelLinkedList, and the list a node belongs to.                     *)
(***************************************************************************)
Removed(k, n) ==
    [next |-> [k.next EXCEPT ![k.prev[n]] = k.next[n], ![n] = Null],
     prev |-> [k.prev EXCEPT ![k.next[n]] = k.prev[n], ![n] = Null]]

Pushed(k, list, n) ==
    LET first == k.next[HeadOf(list)]
    IN  [next |-> [k.next EXCEPT ![n] = first, ![HeadOf(list)] = n],
         prev |-> [k.prev EXCEPT ![first] = n, ![n] = HeadOf(list)]]

Moved(k, list, n) == Pushed(Removed(k, n), list, n)

ListFor(v, w) ==
    CASE v \notin Cells -> "immediate"
      [] v \in Cells /\ w = "strong" -> "strong"
      [] OTHER -> "weak"

\* Mutant: a number is not told from a cell.
BarrierEmptiness(k, n, w, old, new) ==
    IF (old = "empty") = (new = "empty") THEN k ELSE Moved(k, ListFor(new, w), n)

\* HandleHeap::writeBarrier moves the node unless the old and the new value are
\* both empty, both cells, or both something else.
Barrier(k, n, w, old, new) ==
    IF (old = "empty") = (new = "empty") /\ (old \in Cells) = (new \in Cells)
    THEN k
    ELSE Moved(k, ListFor(new, w), n)

\* grow() has pushed the nodes of its block on the free list.
Init ==
    /\ \E order \in Bijection(1..Cardinality(Nodes), Nodes) :
          /\ freeHead = order[1]
          /\ links = [next |-> [p \in Nodes \cup Sentinels |->
                                  CASE p \in Nodes ->
                                         LET i == CHOOSE i \in DOMAIN order : order[i] = p
                                         IN  IF i + 1 \in DOMAIN order THEN order[i + 1] ELSE Null
                                    [] p \in Sentinels /\ p[2] = "head" -> TailOf(p[1])
                                    [] OTHER -> Null],
                      prev |-> [p \in Nodes \cup Sentinels |->
                                  IF p \in Sentinels /\ p[2] = "tail" THEN HeadOf(p[1]) ELSE Null]]
    /\ value = [n \in Nodes |-> "empty"]
    /\ weakness = [n \in Nodes |-> "strong"]
    /\ held = {}
    /\ alive = {}
    /\ nextToFinalize = Null
    /\ cursor = Null
    /\ stage = "idle"
    /\ doomed = {}

-----------------------------------------------------------------------------
(***************************************************************************)
(* The clients: Strong, Weak, PassWeak and WeakGCMap.                      *)
(***************************************************************************)

\* A Strong or a Weak is constructed: allocate, makeWeak, writeBarrier and the
\* assignment.  Each of them is a CRASH during finalization.
NewHandle(w, v) ==
    LET n == freeHead
        fresh == [next |-> [links.next EXCEPT ![n] = Null], prev |-> [links.prev EXCEPT ![n] = Null]]
        allocated == Pushed(fresh, "immediate", n)
    IN  /\ nextToFinalize = Null
        /\ stage = "idle"
        /\ n # Null
        /\ freeHead' = links.next[n]
        /\ links' = Barrier(allocated, n, w, "empty", v)
        /\ value' = [value EXCEPT ![n] = v]
        /\ weakness' = [weakness EXCEPT ![n] = w]
        /\ held' = held \cup {n}
        /\ UNCHANGED <<alive, walkVars, doomed>>

\* Strong::set and WeakGCMap::set.
SetHandle(n, v) ==
    /\ nextToFinalize = Null
    /\ stage = "idle"
    /\ n \in held
    /\ links' = Barrier(links, n, weakness[n], value[n], v)
    /\ value' = [value EXCEPT ![n] = v]
    /\ UNCHANGED <<freeHead, weakness, held, alive, walkVars, doomed>>

\* Mutant: m_nextToFinalize is left at a node that is freed.
DeallocateNext(n) ==
    LET k == Removed(links, n)
    IN  /\ links' = [k EXCEPT !.next[n] = freeHead]
        /\ UNCHANGED nextToFinalize

\* Mutant: the node is unlinked before its successor is read.
DeallocateUnlinked(n) ==
    LET k == Removed(links, n)
    IN  /\ nextToFinalize' = IF n = nextToFinalize THEN k.next[n] ELSE nextToFinalize
        /\ links' = [k EXCEPT !.next[n] = freeHead]

\* HandleHeap::deallocate: the walk is sent past a node that it would visit next.
Deallocate(n) ==
    LET k == Removed(links, n)
    IN  /\ nextToFinalize' = IF n = nextToFinalize THEN links.next[n] ELSE nextToFinalize
        /\ links' = [k EXCEPT !.next[n] = freeHead]

\* A client, or the code of an owner, frees a handle.  The node keeps its value
\* and its owner until allocate constructs it again.
FreeHandle(n) ==
    /\ stage \in {"idle", "owner"}
    /\ n \in held
    /\ Deallocate(n)
    /\ freeHead' = n
    /\ held' = held \ {n}
    /\ doomed' = doomed \ {n}
    /\ UNCHANGED <<value, weakness, alive, cursor, stage>>

NewCell(c) ==
    /\ stage = "idle"
    /\ c \notin alive
    /\ alive' = alive \cup {c}
    /\ UNCHANGED <<nodeVars, freeHead, held, walkVars, doomed>>

-----------------------------------------------------------------------------
(***************************************************************************)
(* HandleHeap::finalizeWeakHandles.                                        *)
(***************************************************************************)

\* A collection has marked the cells of strong handles and any others.
BeginFinalization(marked) ==
    /\ stage = "idle"
    /\ \A n \in held : value[n] \in Cells /\ weakness[n] = "strong" => value[n] \in marked
    /\ alive' = marked
    /\ cursor' = links.next[HeadOf("weak")]
    /\ stage' = "walk"
    /\ doomed' = {n \in held : weakness[n] = "owned" /\ value[n] \in Cells \ marked}
    /\ UNCHANGED <<nodeVars, freeHead, held, nextToFinalize>>

Walking == stage = "walk" /\ cursor # TailOf("weak")

\* Mutant: the walk continues without going on to the next node.
SkipLiveStays ==
    /\ Walking
    /\ value[cursor] \in alive
    /\ nextToFinalize' = links.next[cursor]
    /\ UNCHANGED <<nodeVars, freeHead, held, alive, cursor, stage, doomed>>

\* The cell is marked.
SkipLive ==
    /\ Walking
    /\ value[cursor] \in alive
    /\ nextToFinalize' = links.next[cursor]
    /\ cursor' = nextToFinalize'
    /\ UNCHANGED <<nodeVars, freeHead, held, alive, stage, doomed>>

\* The handle is emptied and the walk goes on at m_nextToFinalize.
EmptyHandle(n) ==
    /\ links' = Moved(links, "immediate", n)
    /\ value' = [value EXCEPT ![n] = "empty"]

ClearOwnerless ==
    /\ Walking
    /\ value[cursor] \notin alive
    /\ weakness[cursor] # "owned"
    /\ EmptyHandle(cursor)
    /\ nextToFinalize' = links.next[cursor]
    /\ cursor' = nextToFinalize'
    /\ UNCHANGED <<freeHead, weakness, held, alive, stage, doomed>>

\* WeakHandleOwner::finalize is called.
CallOwner ==
    /\ Walking
    /\ value[cursor] \notin alive
    /\ weakness[cursor] = "owned"
    /\ nextToFinalize' = links.next[cursor]
    /\ doomed' = doomed \ {cursor}
    /\ stage' = "owner"
    /\ UNCHANGED <<nodeVars, freeHead, held, alive, cursor>>

\* Mutant: the walk does not notice that the owner freed the node.
OwnerReturnsBlindly ==
    /\ stage = "owner"
    /\ EmptyHandle(cursor)
    /\ cursor' = nextToFinalize
    /\ stage' = "walk"
    /\ UNCHANGED <<freeHead, weakness, held, alive, nextToFinalize, doomed>>

\* It returns.  The owner has freed the node if the node's link no longer leads
\* to m_nextToFinalize.
OwnerReturns ==
    /\ stage = "owner"
    /\ IF nextToFinalize # links.next[cursor]
       THEN UNCHANGED <<links, value>>
       ELSE EmptyHandle(cursor)
    /\ cursor' = nextToFinalize
    /\ stage' = "walk"
    /\ UNCHANGED <<freeHead, weakness, held, alive, nextToFinalize, doomed>>

EndFinalization ==
    /\ stage = "walk"
    /\ cursor = TailOf("weak")
    /\ nextToFinalize' = Null
    /\ cursor' = Null
    /\ stage' = "idle"
    /\ UNCHANGED <<nodeVars, freeHead, held, alive, doomed>>

Walk == SkipLive \/ ClearOwnerless \/ CallOwner \/ OwnerReturns \/ EndFinalization

Next ==
    \/ \E w \in {"strong", "ownerless", "owned"}, v \in alive \cup {"empty", "number"} : NewHandle(w, v)
    \/ \E n \in Nodes, v \in alive \cup {"empty", "number"} : SetHandle(n, v)
    \/ \E n \in Nodes : FreeHandle(n)
    \/ \E c \in Cells : NewCell(c)
    \/ \E marked \in SUBSET alive : BeginFinalization(marked)
    \/ Walk

Spec == Init /\ [][Next]_vars

\* The collector does not stop in the middle of finalization, and owners return.
FairSpec == Spec /\ WF_vars(Walk)

-----------------------------------------------------------------------------
(***************************************************************************)
(* Properties.                                                             *)
(***************************************************************************)

\* A set of nodes that has p, if p is a node, and that no link between nodes leaves.
Closed(p, S) ==
    /\ p \in Nodes => p \in S
    /\ \A q \in S : links.next[q] \in Nodes => links.next[q] \in S

\* What the links from p lead to: the nodes of every closed set, and the end.
Reached(p) ==
    LET passed == {n \in Nodes : \A S \in SUBSET Nodes : Closed(p, S) => n \in S}
    IN  {p} \cup passed \cup {links.next[n] : n \in passed}

\* Every variable has its type; a walk is at a node or at the end of the weak list,
\* and it knows where to go on while an owner runs.
TypeOK ==
    /\ links.next \in [Nodes \cup Sentinels -> Nodes \cup Sentinels \cup {Null}]
    /\ links.prev \in [Nodes \cup Sentinels -> Nodes \cup Sentinels \cup {Null}]
    /\ value \in [Nodes -> Values]
    /\ weakness \in [Nodes -> {"strong", "ownerless", "owned"}]
    /\ held \subseteq Nodes
    /\ alive \subseteq Cells
    /\ freeHead \in Nodes \cup {Null}
    /\ stage \in {"idle", "walk", "owner"}
    /\ doomed \subseteq held
    /\ stage # "idle" => cursor \in Nodes \cup {TailOf("weak")}
    /\ stage = "owner" => nextToFinalize \in Nodes \cup {TailOf("weak")}

\* The lists agree with the values, at every moment of a finalization too: a
\* handle is on the list that its value and its owner call for and on no other,
\* linked in both directions, and the free list holds all other nodes.
ListsAgree ==
    /\ \A list \in Lists :
          /\ Reached(links.next[HeadOf(list)]) =
                {n \in held : ListFor(value[n], weakness[n]) = list} \cup {TailOf(list)}
          /\ \A p \in Reached(links.next[HeadOf(list)]) : links.next[links.prev[p]] = p
    /\ Reached(freeHead) \subseteq (Nodes \ held) \cup {Null}
    /\ Nodes \ held \subseteq Reached(freeHead)

\* Between two collections no handle refers to a cell that was not marked: what
\* owners free during the walk makes it miss none.
HandlesAlive == stage = "idle" => \A n \in held : value[n] \in Cells => value[n] \in alive

\* When finalization is over, every owner of a dead cell was told, unless its
\* handle was freed before its turn came.
OwnersTold == stage = "idle" => doomed = {}

\* An owner is told of a handle that clients still hold and of which it has not
\* been told: the walk is never led back or on to the free list.
ToldOnce == [][stage = "walk" /\ stage' = "owner" => cursor \in doomed]_vars

\* Finalization ends, whatever handles owners free.
FinalizationEnds == stage = "walk" ~> stage = "idle"
=============================================================================
