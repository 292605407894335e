-------------------------- MODULE ParallelMarking --------------------------
(***************************************************************************)
(* The marking phase of the collector: the master thread runs              *)
(* Heap::markRoots, the slaves run markingThreadMain, and both share the   *)
(* MarkStackThreadSharedData (heap/MarkStack.cpp, heap/SlotVisitor.h,      *)
(* heap/Heap.cpp).                                                         *)
(*                                                                         *)
(* A critical section on m_markingLock, m_opaqueRootsLock or               *)
(* m_loanedBlocksLock is one action, and so is one test-and-set of a mark  *)
(* bit.  A mark stack is the set of the cells on it: a cell is pushed only *)
(* by the thread that set its mark bit, and nothing depends on the order.  *)
(***************************************************************************)
EXTENDS HeapGraph, FiniteSets

CONSTANTS
    Slaves,          \* the marking threads of m_markingThreads
    Master,          \* the thread that calls Heap::collect
    BlockCapacity,   \* how many backing stores fit in a CopiedBlock
    WakeupThreshold, \* Options::sharedStackWakeupThreshold
    MergeThreshold,  \* Options::opaqueRootMergeThreshold
    MaxCollections   \* bound: how many collections a behaviour starts

ASSUME ThreadsAssumption == IsFiniteSet(Slaves) /\ Master \notin Slaves

ASSUME BoundsAssumption ==
    /\ BlockCapacity \in Nat \ {0}
    /\ WakeupThreshold \in Nat
    /\ MergeThreshold \in Nat \ {0}
    /\ MaxCollections \in Nat

VARIABLES
    heap,         \* the object graph of the current collection
    pc,           \* where each thread is
    group,        \* the master's position in markRoots, see Converging
    marked,       \* the cells whose mark bit is set
    stack,        \* m_stack of each thread's SlotVisitor
    pending,      \* the references the thread has yet to pass to internalAppend
    visiting,     \* the cell whose backing store the thread is copying, as a set
    shared,       \* m_sharedMarkStack
    active,       \* m_numberOfActiveParallelMarkers
    sleepers,     \* the threads blocked on m_markingCondition
    shouldExit,   \* m_parallelMarkersShouldExit
    localOpaque,  \* m_opaqueRoots of each visitor
    sharedOpaque, \* m_opaqueRoots of the shared data
    registered,   \* m_weakReferenceHarvesters, by owner
    harvesting,   \* the harvesters this pass has yet to visit
    copyBlock,    \* backing stores in the thread's borrowed block, 0 for none
    loaned,       \* CopiedSpace::m_numberOfLoanedBlocks
    evacuated,    \* the cells whose backing store is in to-space
    collections   \* how many collections have been started

stackVars == <<stack, pending, visiting, shared>>
syncVars  == <<active, sleepers, shouldExit>>
weakVars  == <<localOpaque, sharedOpaque, registered, harvesting>>
copyVars  == <<copyBlock, loaned, evacuated>>
gcVars    == <<heap, group, collections>>

vars == <<heap, pc, group, marked, stack, pending, visiting, shared, active,
          sleepers, shouldExit, localOpaque, sharedOpaque, registered,
          harvesting, copyBlock, loaned, evacuated, collections>>

Threads == Slaves \cup {Master}

\* Values of group beyond the root groups: the master drains what the weak
\* passes found, or is inside drainFromShared.
WeakDrain  == NumRootGroups + 1
Converging == NumRootGroups + 2

SlavePCs  == {"start", "check", "wait", "drain", "scan", "copy", "exited"}
MasterPCs == {"idle", "enter", "check", "wait", "drain", "scan", "copy", "weak",
              "harvest", "finish", "loans", "join", "exited"}

-----------------------------------------------------------------------------
Init ==
    /\ heap \in Heaps
    /\ pc = [t \in Threads |-> IF t = Master THEN "idle" ELSE "start"]
    /\ group = 0
    /\ marked = {}
    /\ stack = [t \in Threads |-> {}]
    /\ pending = [t \in Threads |-> {}]
    /\ visiting = [t \in Threads |-> {}]
    /\ shared = {}
    /\ active = 0
    /\ sleepers = {}
    /\ shouldExit = FALSE
    /\ localOpaque = [t \in Threads |-> {}]
    /\ sharedOpaque = {}
    /\ registered = {}
    /\ harvesting = {}
    /\ copyBlock = [t \in Threads |-> 0]
    /\ loaned = 0
    /\ evacuated = {}
    /\ collections = 0

Goto(t, l) == pc' = [pc EXCEPT ![t] = l]

(***************************************************************************)
(* SlotVisitor::doneCopying, for the thread t: the borrowed block, if any, *)
(* goes to to-space and the loan is returned.                              *)
(***************************************************************************)
DoneCopying(t) ==
    /\ loaned' = IF copyBlock[t] = 0 THEN loaned ELSE loaned - 1
    /\ copyBlock' = [copyBlock EXCEPT ![t] = 0]
    /\ UNCHANGED evacuated

-----------------------------------------------------------------------------
(***************************************************************************)
(* SlotVisitor::drain, for any thread.  Between two cells the thread is in *)
(* "drain", where it may not donate, or in "scan" with nothing pending,    *)
(* where it may.                                                           *)
(***************************************************************************)
BetweenCells(t) == pc[t] \in {"drain", "scan"} /\ pending[t] = {}

(***************************************************************************)
(* Take a cell off the stack and start visitChildren on it.  A code block  *)
(* also runs one round of its weak transitions, and registers itself when  *)
(* some of them are not yet live.                                          *)
(***************************************************************************)
AddOpaqueRoots(t, roots) ==
    IF roots # {} /\ Cardinality(localOpaque[t]) >= MergeThreshold
    THEN /\ sharedOpaque' = sharedOpaque \cup localOpaque[t]
         /\ localOpaque' = [localOpaque EXCEPT ![t] = roots]
    ELSE /\ localOpaque' = [localOpaque EXCEPT ![t] = @ \cup roots]
         /\ UNCHANGED sharedOpaque

VisitCell(t, c) ==
    /\ BetweenCells(t)
    /\ c \in stack[t]
    /\ stack' = [stack EXCEPT ![t] = @ \ {c}]
    /\ LET harvesters == HarvestersOf(heap, c)
           live == {w \in harvesters : Fires(w, marked)}
       IN /\ pending' = [pending EXCEPT ![t] =
                            heap.edges[c] \cup UNION {w.gives : w \in live}]
          /\ registered' = IF live = harvesters THEN registered
                                                ELSE registered \cup {c}
    /\ AddOpaqueRoots(t, heap.opaque[c])
    /\ IF c \in heap.storage
       THEN Goto(t, "copy") /\ visiting' = [visiting EXCEPT ![t] = {c}]
       ELSE Goto(t, "scan") /\ UNCHANGED visiting
    /\ UNCHANGED <<gcVars, marked, shared, syncVars, harvesting, copyVars>>

\* Mutant: the mark bit is set without testing it.
InternalAppendUntested(t, c) ==
    /\ pc[t] = "scan"
    /\ c \in pending[t]
    /\ pending' = [pending EXCEPT ![t] = @ \ {c}]
    /\ marked' = marked \cup {c}
    /\ stack' = [stack EXCEPT ![t] = @ \cup {c}]
    /\ UNCHANGED <<gcVars, pc, visiting, shared, syncVars, weakVars, copyVars>>

(***************************************************************************)
(* MarkStack::internalAppend of one reference: test-and-set, then push.    *)
(***************************************************************************)
InternalAppend(t, c) ==
    /\ pc[t] = "scan"
    /\ c \in pending[t]
    /\ pending' = [pending EXCEPT ![t] = @ \ {c}]
    /\ marked' = marked \cup {c}
    /\ stack' = IF c \in marked THEN stack
                                ELSE [stack EXCEPT ![t] = @ \cup {c}]
    /\ UNCHANGED <<gcVars, pc, visiting, shared, syncVars, weakVars, copyVars>>

(***************************************************************************)
(* SlotVisitor::allocateNewSpace and the copy that follows.  A full block  *)
(* is given back before a new one is borrowed, in two critical sections.   *)
(***************************************************************************)
CopyStorage(t) ==
    /\ pc[t] = "copy"
    /\ copyBlock[t] < BlockCapacity
    /\ loaned' = IF copyBlock[t] = 0 THEN loaned + 1 ELSE loaned
    /\ copyBlock' = [copyBlock EXCEPT ![t] = @ + 1]
    /\ evacuated' = evacuated \cup visiting[t]
    /\ visiting' = [visiting EXCEPT ![t] = {}]
    /\ Goto(t, "scan")
    /\ UNCHANGED <<gcVars, marked, stack, pending, shared, syncVars, weakVars>>

ReturnFullBlock(t) ==
    /\ pc[t] = "copy"
    /\ copyBlock[t] = BlockCapacity
    /\ DoneCopying(t)
    /\ UNCHANGED <<gcVars, pc, marked, stackVars, syncVars, weakVars>>

(***************************************************************************)
(* SlotVisitor::donateSlow.  The unlocked size test and the segment limit  *)
(* only decide whether the thread donates at all, which is left open, as   *)
(* is how many cells the segments hand over (at least one).                *)
(***************************************************************************)
Donate(t, cells) ==
    /\ pc[t] = "scan"
    /\ pending[t] = {}
    /\ cells # {}
    /\ cells \subseteq stack[t]
    /\ stack' = [stack EXCEPT ![t] = @ \ cells]
    /\ shared' = shared \cup cells
    /\ sleepers' = IF Cardinality(shared') >= WakeupThreshold THEN {} ELSE sleepers
    /\ Goto(t, "drain")
    /\ UNCHANGED <<gcVars, marked, pending, visiting, active, shouldExit,
                   weakVars, copyVars>>

\* The end of drain(): mergeOpaqueRootsIfNecessary.
MergeOpaqueRoots(t) ==
    /\ BetweenCells(t)
    /\ stack[t] = {}
    /\ sharedOpaque' = sharedOpaque \cup localOpaque[t]
    /\ localOpaque' = [localOpaque EXCEPT ![t] = {}]
    /\ UNCHANGED <<registered, harvesting>>

Drain(t) ==
    \/ \E c \in stack[t] : VisitCell(t, c)
    \/ \E c \in pending[t] : InternalAppend(t, c)
    \/ CopyStorage(t)
    \/ ReturnFullBlock(t)
    \/ \E cells \in SUBSET stack[t] : Donate(t, cells)

-----------------------------------------------------------------------------
(***************************************************************************)
(* SlotVisitor::drainFromShared.                                           *)
(***************************************************************************)
\* MarkStackArray::stealSomeCellsFrom: at least one cell of a non-empty
\* shared stack, how many depends on the segments.
StealSomeCells(t) ==
    /\ \E cells \in SUBSET shared \ {{}} :
          /\ stack' = [stack EXCEPT ![t] = @ \cup cells]
          /\ shared' = shared \ cells
    /\ Goto(t, "drain")

Wait(t, sleeping) ==
    /\ sleepers' = sleeping \cup {t}
    /\ Goto(t, "wait")

(***************************************************************************)
(* One round of the slave's loop under m_markingLock, with n other active  *)
(* markers and the set sleeping of threads still blocked.                  *)
(***************************************************************************)
SlaveRound(t, n, sleeping) ==
    \/ /\ shouldExit
       /\ active' = n
       /\ DoneCopying(t)
       /\ sleepers' = sleeping
       /\ Goto(t, "exited")
       /\ UNCHANGED <<stack, shared>>
    \/ /\ shared = {}
       /\ ~shouldExit
       /\ active' = n
       /\ IF n = 0 THEN DoneCopying(t) ELSE UNCHANGED copyVars
       /\ Wait(t, sleeping)
       /\ UNCHANGED <<stack, shared>>
    \/ /\ shared # {}
       /\ ~shouldExit
       /\ active' = n + 1
       /\ StealSomeCells(t)
       /\ sleepers' = sleeping
       /\ UNCHANGED copyVars

SlaveEnter(t) ==
    /\ pc[t] = "start"
    /\ active' = active + 1
    /\ Goto(t, "check")
    /\ UNCHANGED <<gcVars, marked, stackVars, sleepers, shouldExit, weakVars,
                   copyVars>>

\* Mutant: the last active slave goes to sleep without telling the master.
SlaveCheckSilent(t) ==
    /\ pc[t] = "check"
    /\ SlaveRound(t, active - 1, sleepers)
    /\ UNCHANGED <<gcVars, marked, pending, visiting, shouldExit, weakVars>>

SlaveCheck(t) ==
    /\ pc[t] = "check"
    /\ SlaveRound(t, active - 1,
                  IF active = 1 /\ shared = {} THEN {} ELSE sleepers)
    /\ UNCHANGED <<gcVars, marked, pending, visiting, shouldExit, weakVars>>

SlaveWake(t) ==
    /\ pc[t] = "wait"
    /\ t \notin sleepers
    /\ SlaveRound(t, active, sleepers)
    /\ UNCHANGED <<gcVars, marked, pending, visiting, shouldExit, weakVars>>

SlaveDrained(t) ==
    /\ MergeOpaqueRoots(t)
    /\ Goto(t, "check")
    /\ UNCHANGED <<gcVars, marked, stackVars, syncVars, copyVars>>

SlaveStep(t) ==
    \/ SlaveEnter(t)
    \/ SlaveCheck(t)
    \/ SlaveWake(t)
    \/ SlaveDrained(t)
    \/ Drain(t)

\* A condition variable may wake a thread that nobody signalled.
SpuriousWakeup(t) ==
    /\ t \in sleepers
    /\ sleepers' = sleepers \ {t}
    /\ UNCHANGED <<gcVars, pc, marked, stackVars, active, shouldExit, weakVars,
                   copyVars>>

-----------------------------------------------------------------------------
(***************************************************************************)
(* Heap::markRoots, on the master.  While it appends roots and drains them *)
(* the master is not counted in active.                                    *)
(***************************************************************************)
\* Mutant: the mark bits of the previous collection are not cleared.
StartCollectionUncleared ==
    /\ pc[Master] = "idle"
    /\ collections < MaxCollections
    /\ collections' = collections + 1
    /\ heap' \in Heaps
    /\ evacuated' = {}
    /\ group' = 1
    /\ pending' = [pending EXCEPT ![Master] = heap'.roots[1]]
    /\ Goto(Master, "scan")
    /\ UNCHANGED <<marked, stack, visiting, shared, syncVars, weakVars, copyBlock,
                   loaned>>

StartCollection ==
    /\ pc[Master] = "idle"
    /\ collections < MaxCollections
    /\ collections' = collections + 1
    /\ heap' \in Heaps
    /\ marked' = {}
    /\ evacuated' = {}
    /\ group' = 1
    /\ pending' = [pending EXCEPT ![Master] = heap'.roots[1]]
    /\ Goto(Master, "scan")
    /\ UNCHANGED <<stack, visiting, shared, syncVars, weakVars, copyBlock, loaned>>

\* A donateAndDrain is over and the next root group is appended.
NextRootGroup ==
    /\ group < NumRootGroups
    /\ MergeOpaqueRoots(Master)
    /\ group' = group + 1
    /\ pending' = [pending EXCEPT ![Master] = heap.roots[group + 1]]
    /\ Goto(Master, "scan")
    /\ UNCHANGED <<heap, collections, marked, stack, visiting, shared, syncVars,
                   copyVars>>

\* The last donateAndDrain before a drainFromShared(MasterDrain) is over.
RootsDrained ==
    /\ group \in {NumRootGroups, WeakDrain}
    /\ MergeOpaqueRoots(Master)
    /\ Goto(Master, "enter")
    /\ UNCHANGED <<gcVars, marked, stackVars, syncVars, copyVars>>

\* Mutant: the master is not counted when it enters drainFromShared.
MasterEnterUncounted ==
    /\ pc[Master] = "enter"
    /\ group' = Converging
    /\ Goto(Master, "check")
    /\ UNCHANGED <<heap, collections, marked, stackVars, syncVars, weakVars, copyVars>>

MasterEnter ==
    /\ pc[Master] = "enter"
    /\ active' = active + 1
    /\ group' = Converging
    /\ Goto(Master, "check")
    /\ UNCHANGED <<heap, collections, marked, stackVars, sleepers, shouldExit,
                   weakVars, copyVars>>

\* Mutant: an empty shared stack alone is taken for termination.
MasterRoundEager(n) ==
    \/ /\ shared = {}
       /\ active' = n
       /\ sleepers' = {}
       /\ Goto(Master, "weak")
       /\ UNCHANGED <<stack, shared>>
    \/ /\ shared # {}
       /\ active' = n + 1
       /\ StealSomeCells(Master)
       /\ UNCHANGED sleepers

MasterRound(n) ==
    \/ /\ n = 0
       /\ shared = {}
       /\ active' = n
       /\ sleepers' = {}
       /\ Goto(Master, "weak")
       /\ UNCHANGED <<stack, shared>>
    \/ /\ shared # {}
       /\ active' = n + 1
       /\ StealSomeCells(Master)
       /\ UNCHANGED sleepers
    \/ /\ n # 0
       /\ shared = {}
       /\ active' = n
       /\ Wait(Master, sleepers)
       /\ UNCHANGED <<stack, shared>>

MasterCheck ==
    /\ pc[Master] = "check"
    /\ MasterRound(active - 1)
    /\ UNCHANGED <<gcVars, marked, pending, visiting, shouldExit, weakVars, copyVars>>

MasterWake ==
    /\ pc[Master] = "wait"
    /\ Master \notin sleepers
    /\ MasterRound(active)
    /\ UNCHANGED <<gcVars, marked, pending, visiting, shouldExit, weakVars, copyVars>>

MasterDrained ==
    /\ group = Converging
    /\ MergeOpaqueRoots(Master)
    /\ Goto(Master, "check")
    /\ UNCHANGED <<gcVars, marked, stackVars, syncVars, copyVars>>

(***************************************************************************)
(* HandleHeap::visitWeakHandles: every unmarked weakly held cell that its  *)
(* owner finds reachable from the merged opaque roots is marked.           *)
(***************************************************************************)
VisitWeakHandles ==
    /\ pc[Master] = "weak"
    /\ LET live == {c \in Cells \ marked : heap.context[c] \cap sharedOpaque # {}}
       IN /\ marked' = marked \cup live
          /\ stack' = [stack EXCEPT ![Master] = @ \cup live]
    /\ harvesting' = {w \in heap.harvesters : w.owner \in registered}
    /\ Goto(Master, "harvest")
    /\ UNCHANGED <<gcVars, pending, visiting, shared, syncVars, localOpaque,
                   sharedOpaque, registered, copyVars>>

\* SlotVisitor::harvestWeakReferences, one harvester at a time.
HarvestWeakReference(w) ==
    /\ pc[Master] = "harvest"
    /\ w \in harvesting
    /\ harvesting' = harvesting \ {w}
    /\ LET live == IF Fires(w, marked) THEN w.gives \ marked ELSE {}
       IN /\ marked' = marked \cup live
          /\ stack' = [stack EXCEPT ![Master] = @ \cup live]
    /\ UNCHANGED <<gcVars, pc, pending, visiting, shared, syncVars, localOpaque,
                   sharedOpaque, registered, copyVars>>

\* Mutant: the weak loop runs once, so what it found is never visited.
WeakPassDoneOnce ==
    /\ pc[Master] = "harvest"
    /\ harvesting = {}
    /\ Goto(Master, "finish")
    /\ UNCHANGED <<gcVars, marked, stackVars, syncVars, weakVars, copyVars>>

\* The end of the weak pass: stop if it found nothing, else drain once more.
WeakPassDone ==
    /\ pc[Master] = "harvest"
    /\ harvesting = {}
    /\ IF stack[Master] = {}
       THEN Goto(Master, "finish") /\ UNCHANGED group
       ELSE Goto(Master, "scan") /\ group' = WeakDrain
    /\ UNCHANGED <<heap, collections, marked, stackVars, syncVars, weakVars, copyVars>>

\* visitor.doneCopying, visitor.reset and m_sharedData.reset.
ResetVisitors ==
    /\ pc[Master] = "finish"
    /\ DoneCopying(Master)
    /\ sharedOpaque' = {}
    /\ registered' = {}
    /\ Goto(Master, "loans")
    /\ UNCHANGED <<gcVars, marked, stackVars, syncVars, localOpaque, harvesting>>

\* Mutant: from-space is freed without waiting for the loans.
FinishCopyingEarly ==
    /\ pc[Master] = "loans"
    /\ group' = 0
    /\ Goto(Master, "idle")
    /\ UNCHANGED <<heap, collections, marked, stackVars, syncVars, weakVars, copyVars>>

\* CopiedSpace::doneCopying waits for the loans, then frees from-space.
FinishCopying ==
    /\ pc[Master] = "loans"
    /\ loaned = 0
    /\ group' = 0
    /\ Goto(Master, "idle")
    /\ UNCHANGED <<heap, collections, marked, stackVars, syncVars, weakVars, copyVars>>

\* Mutant: the flag is set but nobody is woken.
ShutdownSilent ==
    /\ pc[Master] = "idle"
    /\ shouldExit' = TRUE
    /\ Goto(Master, "join")
    /\ UNCHANGED <<gcVars, marked, stackVars, active, sleepers, weakVars, copyVars>>

\* ~MarkStackThreadSharedData: tell the slaves to exit, then join them.
Shutdown ==
    /\ pc[Master] = "idle"
    /\ shouldExit' = TRUE
    /\ sleepers' = {}
    /\ Goto(Master, "join")
    /\ UNCHANGED <<gcVars, marked, stackVars, active, weakVars, copyVars>>

JoinSlaves ==
    /\ pc[Master] = "join"
    /\ \A t \in Slaves : pc[t] = "exited"
    /\ Goto(Master, "exited")
    /\ UNCHANGED <<gcVars, marked, stackVars, syncVars, weakVars, copyVars>>

MasterStep ==
    \/ NextRootGroup
    \/ RootsDrained
    \/ MasterEnter
    \/ MasterCheck
    \/ MasterWake
    \/ MasterDrained
    \/ VisitWeakHandles
    \/ \E w \in harvesting : HarvestWeakReference(w)
    \/ WeakPassDone
    \/ ResetVisitors
    \/ FinishCopying
    \/ JoinSlaves
    \/ Drain(Master)

\* The heap is gone and nothing runs any more.
Terminated ==
    /\ pc[Master] = "exited"
    /\ UNCHANGED vars

Next ==
    \/ \E t \in Slaves : SlaveStep(t)
    \/ \E t \in Threads : SpuriousWakeup(t)
    \/ StartCollection
    \/ Shutdown
    \/ MasterStep
    \/ Terminated

Spec == Init /\ [][Next]_vars

(***************************************************************************)
(* Every thread keeps being scheduled, and the mutexes are not starved.    *)
(* Whether a collection or a shutdown is ever requested is up to the       *)
(* program, and no wakeup may be counted on that nobody signalled.         *)
(***************************************************************************)
Fairness == WF_vars(MasterStep) /\ \A t \in Slaves : WF_vars(SlaveStep(t))

FairSpec == Spec /\ Fairness

-----------------------------------------------------------------------------
Idle == pc[Master] \in {"idle", "join", "exited"}

\* What the marking threads implement.
Tracer == INSTANCE TracingCollector WITH tracing <- ~Idle

\* Tracing is over: the master has left the weak loop of markRoots.
Traced == pc[Master] \in {"finish", "loans"}

\* No thread but the master may be in drain().
Quiescent == pc[Master] \in {"weak", "harvest", "finish", "loans"}

Counted(t) ==
    \/ pc[t] = "check"
    \/ pc[t] \in {"drain", "scan", "copy"} /\ (t = Master => group = Converging)

\* Every variable has its type; the counters that the code decrements without a
\* test, m_numberOfActiveParallelMarkers and m_numberOfLoanedBlocks, stay natural.
TypeOK ==
    /\ heap \in Heaps
    /\ pc \in [Threads -> SlavePCs \cup MasterPCs]
    /\ pc[Master] \in MasterPCs
    /\ \A t \in Slaves : pc[t] \in SlavePCs
    /\ group \in 0..Converging
    /\ marked \subseteq Cells
    /\ stack \in [Threads -> SUBSET Cells]
    /\ pending \in [Threads -> SUBSET Cells]
    /\ visiting \in [Threads -> SUBSET Cells]
    /\ shared \subseteq Cells
    /\ active \in Nat
    /\ sleepers \subseteq Threads
    /\ shouldExit \in BOOLEAN
    /\ localOpaque \in [Threads -> SUBSET OpaqueRoots]
    /\ sharedOpaque \subseteq OpaqueRoots
    /\ registered \subseteq Cells
    /\ harvesting \subseteq heap.harvesters
    /\ copyBlock \in [Threads -> 0..BlockCapacity]
    /\ loaned \in Nat
    /\ evacuated \subseteq Cells
    /\ collections \in 0..MaxCollections

(***************************************************************************)
(* When the master leaves the weak loop of markRoots the mark bits are     *)
(* exactly the live cells: termination is never declared while a cell is   *)
(* still grey somewhere, and no stale opaque root or harvester keeps       *)
(* garbage alive.                                                          *)
(***************************************************************************)
MarksExactlyLive == Traced => marked = Live(heap)

(***************************************************************************)
(* Whatever drainFromShared(MasterDrain) returns to finds every slave with *)
(* an empty stack, no half-visited cell and merged opaque roots, as        *)
(* containsOpaqueRoot and MarkStack::reset assert.                         *)
(***************************************************************************)
SlavesQuiescent ==
    Quiescent =>
        /\ shared = {}
        /\ \A t \in Threads : pending[t] = {} /\ visiting[t] = {} /\ localOpaque[t] = {}
        /\ \A t \in Slaves : stack[t] = {}

(***************************************************************************)
(* A cell is grey in one place only and its backing store is copied once,  *)
(* although every thread may reach it: the test-and-set decides who pushes *)
(* it, and donating and stealing move it.                                  *)
(***************************************************************************)
GreyOnce ==
    /\ \A t \in Threads :
          /\ stack[t] \cap shared = {}
          /\ visiting[t] \cap (shared \cup evacuated) = {}
          /\ \A u \in Threads :
                /\ visiting[t] \cap stack[u] = {}
                /\ t # u => /\ stack[t] \cap stack[u] = {}
                            /\ visiting[t] \cap visiting[u] = {}

(***************************************************************************)
(* When from-space is freed no thread still fills a borrowed block, and    *)
(* every live backing store has left from-space.                           *)
(***************************************************************************)
NoLiveStorageInFromSpace ==
    Idle /\ collections > 0 =>
        /\ \A t \in Threads : copyBlock[t] = 0
        /\ Live(heap) \cap heap.storage \subseteq evacuated

(***************************************************************************)
(* Seen from the rest of the heap, the marking threads together behave as  *)
(* one tracing collector: markRoots may be taken for a step that marks the *)
(* live cells and moves each of their backing stores once.                 *)
(***************************************************************************)
ImplementsTracing == Tracer!Spec

(***************************************************************************)
(* A collection that has started ends: the master is never left waiting    *)
(* for a marker that sleeps, nor for a borrowed block that a sleeping      *)
(* marker keeps.                                                           *)
(***************************************************************************)
CollectionEnds == ~Idle ~> Idle

\* The destructor's join returns: no slave sleeps through m_parallelMarkersShouldExit.
ShutdownJoins == pc[Master] = "join" ~> pc[Master] = "exited"
=============================================================================
