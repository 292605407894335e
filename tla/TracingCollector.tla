-------------------------- MODULE TracingCollector --------------------------
(***************************************************************************)
(* What Heap::markRoots promises the rest of the collector: the marks are  *)
(* cleared, only live cells are marked and only their backing stores are   *)
(* moved, each once, and tracing ends with the live cells marked and no    *)
(* live backing store left in from-space.                                  *)
(***************************************************************************)
EXTENDS HeapGraph

VARIABLES heap, tracing, marked, evacuated

tracerVars == <<heap, tracing, marked, evacuated>>

Init ==
    /\ heap \in Heaps
    /\ tracing = FALSE
    /\ marked = {}
    /\ evacuated = {}

Begin ==
    /\ ~tracing
    /\ heap' \in Heaps
    /\ tracing' = TRUE
    /\ marked' = {}
    /\ evacuated' = {}

\* Marks some live cells, or moves the backing store of one marked cell.
Trace ==
    /\ tracing
    /\ marked \subseteq marked'
    /\ marked' \subseteq Live(heap)
    /\ \/ evacuated' = evacuated
       \/ \E c \in (marked \cap heap.storage) \ evacuated :
             evacuated' = evacuated \cup {c}
    /\ UNCHANGED <<heap, tracing>>

End ==
    /\ tracing
    /\ marked = Live(heap)
    /\ evacuated = marked \cap heap.storage
    /\ tracing' = FALSE
    /\ UNCHANGED <<heap, marked, evacuated>>

Next == Begin \/ Trace \/ End

Spec == Init /\ [][Next]_tracerVars
=============================================================================
