----------------------- MODULE ParallelMarkingProofs -----------------------
(***************************************************************************)
(* The safety properties of ParallelMarking for every number of slaves,    *)
(* every set of cells and every set of heaps.                              *)
(***************************************************************************)
EXTENDS ParallelMarking, FiniteSetTheorems, TLAPS

Working(t) == pc[t] \in {"drain", "scan", "copy"}

\* The master is outside the parallel part of markRoots.
Resting == Idle \/ Quiescent

Grey(c)       == c \in shared \/ \E t \in Threads : c \in stack[t]
Referenced(c) == \E t \in Threads : c \in pending[t]

(***************************************************************************)
(* Where each thread is determines what its visitor may hold, and active   *)
(* counts the threads that may hold anything.                              *)
(***************************************************************************)
MasterControl ==
    /\ Idle <=> group = 0
    /\ Working(Master) => group \in 1..Converging
    /\ pc[Master] = "enter" => group \in {NumRootGroups, WeakDrain}
    /\ pc[Master] \in {"check", "wait"} \/ Quiescent => group = Converging
    /\ shouldExit <=> pc[Master] \in {"join", "exited"}
    /\ pc[Master] # "harvest" => harvesting = {}

VisitorControl ==
    \A t \in Threads :
        /\ t \in sleepers => pc[t] = "wait"
        /\ pc[t] # "scan" /\ pc[t] # "copy" => pending[t] = {}
        /\ pc[t] # "copy" => visiting[t] = {}
        /\ pc[t] = "copy" => \E c \in Cells : visiting[t] = {c}
        /\ ~Working(t) => localOpaque[t] = {}
        /\ ~Working(t) /\ (t = Master => pc[t] # "harvest") => stack[t] = {}

RestControl ==
    Resting => shared = {} /\ \A t \in Slaves : ~Working(t)

CountControl == active = Cardinality({t \in Threads : Counted(t)})

LoanControl ==
    /\ loaned = Cardinality({t \in Threads : copyBlock[t] # 0})
    /\ Idle => loaned = 0

Control ==
    /\ TypeOK
    /\ MasterControl
    /\ VisitorControl
    /\ RestControl
    /\ CountControl
    /\ LoanControl

(***************************************************************************)
(* Nothing is reached that is not live.                                    *)
(***************************************************************************)
Sound ==
    /\ marked \subseteq Live(heap)
    /\ \A c \in Cells : Grey(c) => c \in marked
    /\ \A t \in Threads :
          /\ pending[t] \subseteq Live(heap)
          /\ visiting[t] \subseteq marked \cap heap.storage
          /\ localOpaque[t] \subseteq OpaqueRootsOf(heap, Live(heap))
    /\ sharedOpaque \subseteq OpaqueRootsOf(heap, Live(heap))
    /\ registered \subseteq marked
    /\ evacuated \subseteq marked \cap heap.storage
    /\ \A w \in harvesting : w.owner \in registered
    /\ Idle \/ pc[Master] = "loans" => sharedOpaque = {} /\ registered = {}

(***************************************************************************)
(* What a marked cell keeps alive is marked, or some thread is yet to get  *)
(* to it.                                                                  *)
(***************************************************************************)
RootsCovered ==
    ~Idle => \A g \in 1..NumRootGroups : \A c \in heap.roots[g] :
        g <= group => c \in marked \/ c \in pending[Master]

EdgesCovered ==
    \A c \in marked : \A x \in heap.edges[c] :
        Grey(c) \/ x \in marked \/ Referenced(x)

OpaqueCovered ==
    ~Idle /\ pc[Master] # "loans" =>
        \A c \in marked : \A o \in heap.opaque[c] :
            Grey(c) \/ o \in sharedOpaque \/ \E t \in Threads : o \in localOpaque[t]

HarvestersCovered ==
    ~Idle /\ pc[Master] # "loans" =>
        \A w \in heap.harvesters : w.owner \in marked =>
            \/ Grey(w.owner)
            \/ w.owner \in registered
            \/ \A x \in w.gives : x \in marked \/ Referenced(x)

WeakCovered ==
    pc[Master] = "harvest" =>
        /\ \A c \in Cells : heap.context[c] \cap sharedOpaque # {} => c \in marked
        /\ stack[Master] = {} =>
              \A w \in heap.harvesters :
                  w.owner \in registered /\ w \notin harvesting /\ Fires(w, marked)
                      => w.gives \subseteq marked

TracedClosed ==
    Traced \/ (Idle /\ collections > 0) => Closed(heap, marked)

Complete ==
    /\ RootsCovered
    /\ EdgesCovered
    /\ OpaqueCovered
    /\ HarvestersCovered
    /\ WeakCovered
    /\ TracedClosed

(***************************************************************************)
(* A backing store is in to-space, or some thread has yet to move it.      *)
(***************************************************************************)
StorageCovered ==
    /\ \A c \in Cells : Grey(c) => c \notin evacuated
    /\ \A c \in marked \cap heap.storage :
          Grey(c) \/ c \in evacuated \/ \E t \in Threads : c \in visiting[t]

IndInv == Control /\ Sound /\ Complete /\ GreyOnce /\ StorageCovered

-----------------------------------------------------------------------------
(***************************************************************************)
(* Counting threads.                                                       *)
(***************************************************************************)

\* The threads are finitely many.
LEMMA ThreadsFinite == IsFiniteSet(Threads)
  BY ThreadsAssumption, FS_AddElement DEF Threads

\* A set of threads has a cardinality, which is 0 only for the empty set.
LEMMA CountNat ==
  ASSUME NEW S \in SUBSET Threads
  PROVE  /\ IsFiniteSet(S)
         /\ Cardinality(S) \in Nat
         /\ Cardinality(S) = 0 <=> S = {}
  BY ThreadsFinite, FS_Subset, FS_CardinalityType, FS_EmptySet

\* Counting one thread more.
LEMMA CountAdd ==
  ASSUME NEW S \in SUBSET Threads, NEW t \in Threads, t \notin S
  PROVE  Cardinality(S \cup {t}) = Cardinality(S) + 1
  BY CountNat, FS_AddElement

\* Counting one thread less.
LEMMA CountRemove ==
  ASSUME NEW S \in SUBSET Threads, NEW t \in S
  PROVE  Cardinality(S \ {t}) = Cardinality(S) - 1
  BY CountNat, FS_RemoveElement

-----------------------------------------------------------------------------
(***************************************************************************)
(* Control is inductive: types.                                            *)
(***************************************************************************)
USE DEF Threads, gcVars, stackVars, syncVars, weakVars, copyVars, Goto

\* Whoever is counted, or holds a block, is in the cardinality.
LEMMA Positive ==
  ASSUME Control, NEW t \in Threads
  PROVE  /\ Counted(t) => active >= 1
         /\ copyBlock[t] # 0 => loaned >= 1
<1>1. Counted(t) => active >= 1
  BY CountNat, t \in {u \in Threads : Counted(u)} \/ ~Counted(t)
     DEF Control, CountControl
<1>2. copyBlock[t] # 0 => loaned >= 1
  BY CountNat DEF Control, LoanControl
<1> QED BY <1>1, <1>2

\* Every action keeps the types; that the counters stay natural needs their meaning.
LEMMA TypeStep == Control /\ [Next]_vars => TypeOK'
<1> SUFFICES ASSUME Control, [Next]_vars PROVE TypeOK'
  OBVIOUS
<1> USE HeapsAssumption, RootGroupsAssumption, ThreadsAssumption, BoundsAssumption
<1>t. TypeOK BY DEF Control
<1>h. IsHeap(heap) BY <1>t DEF TypeOK
<1>1. ASSUME NEW t \in Threads, NEW c \in stack[t], VisitCell(t, c) PROVE TypeOK'
  <2> DEFINE harvesters == HarvestersOf(heap, c)
             live == {w \in harvesters : Fires(w, marked)}
             refs == heap.edges[c] \cup UNION {w.gives : w \in live}
  <2>c. c \in Cells
    BY <1>t DEF TypeOK
  <2>1. refs \in SUBSET Cells
    BY <1>h, <2>c DEF IsHeap, HarvestersOf, Harvesters
  <2>2. pending' \in [Threads -> SUBSET Cells]
    <3>1. pending' = [pending EXCEPT ![t] = refs]
      BY <1>1 DEF VisitCell
    <3> HIDE DEF refs
    <3> QED BY <1>t, <2>1, <3>1 DEF TypeOK
  <2>3. registered' \subseteq Cells
    BY <1>t, <1>1, <2>c DEF TypeOK, VisitCell
  <2>4. localOpaque' \in [Threads -> SUBSET OpaqueRoots] /\ sharedOpaque' \subseteq OpaqueRoots
    <3>1. heap.opaque[c] \in SUBSET OpaqueRoots
      BY <1>h, <2>c DEF IsHeap
    <3> QED BY <1>t, <1>1, <3>1 DEF TypeOK, VisitCell, AddOpaqueRoots
  <2>5. /\ pc' \in [Threads -> SlavePCs \cup MasterPCs]
        /\ pc'[Master] \in MasterPCs
        /\ \A u \in Slaves : pc'[u] \in SlavePCs
        /\ visiting' \in [Threads -> SUBSET Cells]
    BY <1>t, <1>1, <2>c DEF TypeOK, VisitCell, SlavePCs, MasterPCs
  <2> QED BY <1>t, <1>1, <2>2, <2>3, <2>4, <2>5 DEF TypeOK, VisitCell
<1>2. ASSUME NEW t \in Threads, NEW c \in pending[t], InternalAppend(t, c) PROVE TypeOK'
  BY <1>t, <1>h, <1>2 DEF TypeOK, InternalAppend
<1>3. ASSUME NEW t \in Threads, CopyStorage(t) PROVE TypeOK'
  BY <1>t, <1>h, <1>3 DEF TypeOK, CopyStorage, SlavePCs, MasterPCs
<1>4. ASSUME NEW t \in Threads, ReturnFullBlock(t) PROVE TypeOK'
  BY <1>t, <1>h, <1>4, Positive DEF TypeOK, ReturnFullBlock, DoneCopying
<1>5. ASSUME NEW t \in Threads, NEW cells \in SUBSET stack[t], Donate(t, cells) PROVE TypeOK'
  BY <1>t, <1>5 DEF TypeOK, Donate, SlavePCs, MasterPCs
<1>6. ASSUME NEW t \in Slaves, SlaveEnter(t) PROVE TypeOK'
  BY <1>t, <1>6 DEF TypeOK, SlaveEnter, SlavePCs
<1>7. ASSUME NEW t \in Slaves, SlaveCheck(t) PROVE TypeOK'
  <2>1. active >= 1
    BY <1>7, Positive DEF SlaveCheck, Counted
  <2> QED BY <1>t, <1>7, <2>1, Positive
          DEF TypeOK, SlaveCheck, SlaveRound, DoneCopying, StealSomeCells, Wait, SlavePCs
<1>8. ASSUME NEW t \in Slaves, SlaveWake(t) PROVE TypeOK'
  BY <1>t, <1>8, Positive
     DEF TypeOK, SlaveWake, SlaveRound, DoneCopying, StealSomeCells, Wait, SlavePCs
<1>9. ASSUME NEW t \in Slaves, SlaveDrained(t) PROVE TypeOK'
  BY <1>t, <1>9 DEF TypeOK, SlaveDrained, MergeOpaqueRoots, SlavePCs
<1>10. ASSUME NEW t \in Threads, SpuriousWakeup(t) PROVE TypeOK'
  BY <1>t, <1>10 DEF TypeOK, SpuriousWakeup
<1>11. ASSUME StartCollection PROVE TypeOK'
  <2>1. heap'.roots[1] \in SUBSET Cells
    BY <1>11 DEF StartCollection, IsHeap
  <2>2. harvesting = {}
    BY <1>11 DEF Control, MasterControl, StartCollection
  <2> QED BY <1>t, <1>11, <2>1, <2>2 DEF TypeOK, StartCollection, MasterPCs, SlavePCs, Converging
<1>12. ASSUME NextRootGroup PROVE TypeOK'
  <2>1. heap.roots[group + 1] \in SUBSET Cells
    <3>1. group + 1 \in 1..NumRootGroups
      BY <1>t, <1>12 DEF NextRootGroup, TypeOK, Converging
    <3> QED BY <1>h, <3>1 DEF IsHeap
  <2> QED BY <1>t, <1>12, <2>1
          DEF TypeOK, NextRootGroup, MergeOpaqueRoots, MasterPCs, SlavePCs, Converging
<1>13. ASSUME RootsDrained PROVE TypeOK'
  BY <1>t, <1>13 DEF TypeOK, RootsDrained, MergeOpaqueRoots, MasterPCs, SlavePCs
<1>14. ASSUME MasterEnter PROVE TypeOK'
  BY <1>t, <1>14 DEF TypeOK, MasterEnter, MasterPCs, SlavePCs, Converging
<1>15. ASSUME MasterCheck PROVE TypeOK'
  <2>1. active >= 1
    BY <1>15, Positive DEF MasterCheck, Counted
  <2> QED BY <1>t, <1>15, <2>1
          DEF TypeOK, MasterCheck, MasterRound, StealSomeCells, Wait, MasterPCs, SlavePCs
<1>16. ASSUME MasterWake PROVE TypeOK'
  BY <1>t, <1>16
     DEF TypeOK, MasterWake, MasterRound, StealSomeCells, Wait, MasterPCs, SlavePCs
<1>17. ASSUME MasterDrained PROVE TypeOK'
  BY <1>t, <1>17 DEF TypeOK, MasterDrained, MergeOpaqueRoots, MasterPCs, SlavePCs
<1>18. ASSUME VisitWeakHandles PROVE TypeOK'
  BY <1>t, <1>18 DEF TypeOK, VisitWeakHandles, MasterPCs, SlavePCs
<1>19. ASSUME NEW w \in harvesting, HarvestWeakReference(w) PROVE TypeOK'
  <2>1. w.gives \subseteq Cells
    BY <1>t, <1>h DEF TypeOK, IsHeap, Harvesters
  <2> QED BY <1>t, <1>19, <2>1 DEF TypeOK, HarvestWeakReference
<1>20. ASSUME WeakPassDone PROVE TypeOK'
  BY <1>t, <1>20 DEF TypeOK, WeakPassDone, MasterPCs, SlavePCs, Converging, WeakDrain
<1>21. ASSUME ResetVisitors PROVE TypeOK'
  BY <1>t, <1>21, Positive DEF TypeOK, ResetVisitors, DoneCopying, MasterPCs, SlavePCs
<1>22. ASSUME FinishCopying PROVE TypeOK'
  BY <1>t, <1>22 DEF TypeOK, FinishCopying, MasterPCs, SlavePCs, Converging
<1>23. ASSUME Shutdown PROVE TypeOK'
  BY <1>t, <1>23 DEF TypeOK, Shutdown, MasterPCs, SlavePCs
<1>24. ASSUME JoinSlaves PROVE TypeOK'
  BY <1>t, <1>24 DEF TypeOK, JoinSlaves, MasterPCs, SlavePCs
<1>25. ASSUME UNCHANGED vars PROVE TypeOK'
  BY <1>t, <1>25 DEF TypeOK, vars
<1> QED
  BY <1>1, <1>2, <1>3, <1>4, <1>5, <1>6, <1>7, <1>8, <1>9, <1>10, <1>11, <1>12, <1>13,
     <1>14, <1>15, <1>16, <1>17, <1>18, <1>19, <1>20, <1>21, <1>22, <1>23,
     <1>24, <1>25 DEF Next, SlaveStep, MasterStep, Drain, Terminated

(***************************************************************************)
(* Control is inductive: program counters and what the visitors hold.      *)
(***************************************************************************)
\* The master's position in markRoots matches its program counter.
LEMMA MasterControlStep == Control /\ [Next]_vars => MasterControl'
<1> SUFFICES ASSUME Control, [Next]_vars PROVE MasterControl'
  OBVIOUS
<1> USE RootGroupsAssumption, ThreadsAssumption
<1>c. TypeOK /\ MasterControl /\ RestControl
  BY DEF Control
<1>1. ASSUME NEW t \in Threads, NEW c \in stack[t], VisitCell(t, c) PROVE MasterControl'
  BY <1>c, <1>1
     DEF TypeOK, MasterControl, Working, Idle, Quiescent, Converging, WeakDrain, VisitCell,
         BetweenCells, AddOpaqueRoots
<1>2. ASSUME NEW t \in Threads, NEW c \in pending[t], InternalAppend(t, c) PROVE MasterControl'
  BY <1>c, <1>2
     DEF TypeOK, MasterControl, Working, Idle, Quiescent, Converging, WeakDrain,
         InternalAppend
<1>3. ASSUME NEW t \in Threads, CopyStorage(t) PROVE MasterControl'
  BY <1>c, <1>3
     DEF TypeOK, MasterControl, Working, Idle, Quiescent, Converging, WeakDrain, CopyStorage
<1>4. ASSUME NEW t \in Threads, ReturnFullBlock(t) PROVE MasterControl'
  BY <1>c, <1>4
     DEF TypeOK, MasterControl, Working, Idle, Quiescent, Converging, WeakDrain,
         ReturnFullBlock, DoneCopying
<1>5. ASSUME NEW t \in Threads, NEW cells \in SUBSET stack[t], Donate(t, cells) PROVE MasterControl'
  BY <1>c, <1>5
     DEF TypeOK, MasterControl, Working, Idle, Quiescent, Converging, WeakDrain, Donate
<1>6. ASSUME NEW t \in Slaves, SlaveEnter(t) PROVE MasterControl'
  BY <1>c, <1>6
     DEF TypeOK, MasterControl, Working, Idle, Quiescent, Converging, WeakDrain, SlaveEnter
<1>7. ASSUME NEW t \in Slaves, SlaveCheck(t) PROVE MasterControl'
  BY <1>c, <1>7
     DEF TypeOK, MasterControl, Working, Idle, Quiescent, Converging, WeakDrain, SlaveCheck,
         SlaveRound, DoneCopying, StealSomeCells, Wait
<1>8. ASSUME NEW t \in Slaves, SlaveWake(t) PROVE MasterControl'
  BY <1>c, <1>8
     DEF TypeOK, MasterControl, Working, Idle, Quiescent, Converging, WeakDrain, SlaveWake,
         SlaveRound, DoneCopying, StealSomeCells, Wait
<1>9. ASSUME NEW t \in Slaves, SlaveDrained(t) PROVE MasterControl'
  BY <1>c, <1>9
     DEF TypeOK, MasterControl, Working, Idle, Quiescent, Converging, WeakDrain,
         SlaveDrained, MergeOpaqueRoots, BetweenCells
<1>10. ASSUME NEW t \in Threads, SpuriousWakeup(t) PROVE MasterControl'
  BY <1>c, <1>10
     DEF TypeOK, MasterControl, Working, Idle, Quiescent, Converging, WeakDrain,
         SpuriousWakeup
<1>11. ASSUME StartCollection PROVE MasterControl'
  BY <1>c, <1>11
     DEF TypeOK, MasterControl, Working, Idle, Quiescent, Converging, WeakDrain,
         StartCollection
<1>12. ASSUME NextRootGroup PROVE MasterControl'
  BY <1>c, <1>12
     DEF TypeOK, MasterControl, Working, Idle, Quiescent, Converging, WeakDrain,
         NextRootGroup, MergeOpaqueRoots, BetweenCells
<1>13. ASSUME RootsDrained PROVE MasterControl'
  BY <1>c, <1>13
     DEF TypeOK, MasterControl, Working, Idle, Quiescent, Converging, WeakDrain,
         RootsDrained, MergeOpaqueRoots, BetweenCells
<1>14. ASSUME MasterEnter PROVE MasterControl'
  BY <1>c, <1>14
     DEF TypeOK, MasterControl, Working, Idle, Quiescent, Converging, WeakDrain, MasterEnter
<1>15. ASSUME MasterCheck PROVE MasterControl'
  BY <1>c, <1>15
     DEF TypeOK, MasterControl, Working, Idle, Quiescent, Converging, WeakDrain,
         MasterCheck, MasterRound, StealSomeCells, Wait
<1>16. ASSUME MasterWake PROVE MasterControl'
  BY <1>c, <1>16
     DEF TypeOK, MasterControl, Working, Idle, Quiescent, Converging, WeakDrain, MasterWake,
         MasterRound, StealSomeCells, Wait
<1>17. ASSUME MasterDrained PROVE MasterControl'
  BY <1>c, <1>17
     DEF TypeOK, MasterControl, Working, Idle, Quiescent, Converging, WeakDrain,
         MasterDrained, MergeOpaqueRoots, BetweenCells
<1>18. ASSUME VisitWeakHandles PROVE MasterControl'
  BY <1>c, <1>18
     DEF TypeOK, MasterControl, Working, Idle, Quiescent, Converging, WeakDrain,
         VisitWeakHandles
<1>19. ASSUME NEW w \in harvesting, HarvestWeakReference(w) PROVE MasterControl'
  BY <1>c, <1>19
     DEF TypeOK, MasterControl, Working, Idle, Quiescent, Converging, WeakDrain,
         HarvestWeakReference
<1>20. ASSUME WeakPassDone PROVE MasterControl'
  BY <1>c, <1>20
     DEF TypeOK, MasterControl, Working, Idle, Quiescent, Converging, WeakDrain,
         WeakPassDone
<1>21. ASSUME ResetVisitors PROVE MasterControl'
  BY <1>c, <1>21
     DEF TypeOK, MasterControl, Working, Idle, Quiescent, Converging, WeakDrain,
         ResetVisitors, DoneCopying
<1>22. ASSUME FinishCopying PROVE MasterControl'
  BY <1>c, <1>22
     DEF TypeOK, MasterControl, Working, Idle, Quiescent, Converging, WeakDrain,
         FinishCopying
<1>23. ASSUME Shutdown PROVE MasterControl'
  BY <1>c, <1>23
     DEF TypeOK, MasterControl, Working, Idle, Quiescent, Converging, WeakDrain, Shutdown
<1>24. ASSUME JoinSlaves PROVE MasterControl'
  BY <1>c, <1>24
     DEF TypeOK, MasterControl, Working, Idle, Quiescent, Converging, WeakDrain, JoinSlaves
<1>25. ASSUME UNCHANGED vars PROVE MasterControl'
  BY <1>c, <1>25
     DEF TypeOK, MasterControl, Working, Idle, Quiescent, Converging, WeakDrain, vars
<1> QED
  BY <1>1, <1>2, <1>3, <1>4, <1>5, <1>6, <1>7, <1>8, <1>9, <1>10, <1>11, <1>12, <1>13,
     <1>14, <1>15, <1>16, <1>17, <1>18, <1>19, <1>20, <1>21, <1>22, <1>23, <1>24, <1>25
     DEF Next, SlaveStep, MasterStep, Drain, Terminated

\* A thread outside drain() holds nothing.
LEMMA VisitorControlStep == Control /\ [Next]_vars => VisitorControl'
<1> SUFFICES ASSUME Control, [Next]_vars PROVE VisitorControl'
  OBVIOUS
<1> USE RootGroupsAssumption, ThreadsAssumption
<1>c. TypeOK /\ MasterControl /\ VisitorControl
  BY DEF Control
<1>1. ASSUME NEW t \in Threads, NEW c \in stack[t], VisitCell(t, c) PROVE VisitorControl'
  BY <1>c, <1>1
     DEF TypeOK, VisitorControl, Working, VisitCell, BetweenCells, AddOpaqueRoots
<1>2. ASSUME NEW t \in Threads, NEW c \in pending[t], InternalAppend(t, c) PROVE VisitorControl'
  BY <1>c, <1>2
     DEF TypeOK, VisitorControl, Working, InternalAppend
<1>3. ASSUME NEW t \in Threads, CopyStorage(t) PROVE VisitorControl'
  BY <1>c, <1>3
     DEF TypeOK, VisitorControl, Working, CopyStorage
<1>4. ASSUME NEW t \in Threads, ReturnFullBlock(t) PROVE VisitorControl'
  BY <1>c, <1>4
     DEF TypeOK, VisitorControl, Working, ReturnFullBlock, DoneCopying
<1>5. ASSUME NEW t \in Threads, NEW cells \in SUBSET stack[t], Donate(t, cells) PROVE VisitorControl'
  BY <1>c, <1>5
     DEF TypeOK, VisitorControl, Working, Donate
<1>6. ASSUME NEW t \in Slaves, SlaveEnter(t) PROVE VisitorControl'
  BY <1>c, <1>6
     DEF TypeOK, VisitorControl, Working, SlaveEnter
<1>7. ASSUME NEW t \in Slaves, SlaveCheck(t) PROVE VisitorControl'
  BY <1>c, <1>7
     DEF TypeOK, VisitorControl, Working, SlaveCheck, SlaveRound, DoneCopying,
         StealSomeCells, Wait
<1>8. ASSUME NEW t \in Slaves, SlaveWake(t) PROVE VisitorControl'
  BY <1>c, <1>8
     DEF TypeOK, VisitorControl, Working, SlaveWake, SlaveRound, DoneCopying,
         StealSomeCells, Wait
<1>9. ASSUME NEW t \in Slaves, SlaveDrained(t) PROVE VisitorControl'
  BY <1>c, <1>9
     DEF TypeOK, VisitorControl, Working, SlaveDrained, MergeOpaqueRoots, BetweenCells
<1>10. ASSUME NEW t \in Threads, SpuriousWakeup(t) PROVE VisitorControl'
  BY <1>c, <1>10
     DEF TypeOK, VisitorControl, Working, SpuriousWakeup
<1>11. ASSUME StartCollection PROVE VisitorControl'
  BY <1>c, <1>11
     DEF TypeOK, VisitorControl, Working, StartCollection
<1>12. ASSUME NextRootGroup PROVE VisitorControl'
  BY <1>c, <1>12
     DEF TypeOK, VisitorControl, Working, NextRootGroup, MergeOpaqueRoots, BetweenCells
<1>13. ASSUME RootsDrained PROVE VisitorControl'
  BY <1>c, <1>13
     DEF TypeOK, VisitorControl, Working, RootsDrained, MergeOpaqueRoots, BetweenCells
<1>14. ASSUME MasterEnter PROVE VisitorControl'
  BY <1>c, <1>14
     DEF TypeOK, VisitorControl, Working, MasterEnter, MasterControl
<1>15. ASSUME MasterCheck PROVE VisitorControl'
  BY <1>c, <1>15
     DEF TypeOK, VisitorControl, Working, MasterCheck, MasterRound, StealSomeCells, Wait
<1>16. ASSUME MasterWake PROVE VisitorControl'
  BY <1>c, <1>16
     DEF TypeOK, VisitorControl, Working, MasterWake, MasterRound, StealSomeCells, Wait
<1>17. ASSUME MasterDrained PROVE VisitorControl'
  BY <1>c, <1>17
     DEF TypeOK, VisitorControl, Working, MasterDrained, MergeOpaqueRoots, BetweenCells
<1>18. ASSUME VisitWeakHandles PROVE VisitorControl'
  BY <1>c, <1>18
     DEF TypeOK, VisitorControl, Working, VisitWeakHandles
<1>19. ASSUME NEW w \in harvesting, HarvestWeakReference(w) PROVE VisitorControl'
  BY <1>c, <1>19
     DEF TypeOK, VisitorControl, Working, HarvestWeakReference
<1>20. ASSUME WeakPassDone PROVE VisitorControl'
  BY <1>c, <1>20
     DEF TypeOK, VisitorControl, Working, WeakPassDone
<1>21. ASSUME ResetVisitors PROVE VisitorControl'
  BY <1>c, <1>21
     DEF TypeOK, VisitorControl, Working, ResetVisitors, DoneCopying
<1>22. ASSUME FinishCopying PROVE VisitorControl'
  BY <1>c, <1>22
     DEF TypeOK, VisitorControl, Working, FinishCopying
<1>23. ASSUME Shutdown PROVE VisitorControl'
  BY <1>c, <1>23
     DEF TypeOK, VisitorControl, Working, Shutdown
<1>24. ASSUME JoinSlaves PROVE VisitorControl'
  BY <1>c, <1>24
     DEF TypeOK, VisitorControl, Working, JoinSlaves
<1>25. ASSUME UNCHANGED vars PROVE VisitorControl'
  BY <1>c, <1>25
     DEF TypeOK, VisitorControl, Working, vars
<1> QED
  BY <1>1, <1>2, <1>3, <1>4, <1>5, <1>6, <1>7, <1>8, <1>9, <1>10, <1>11, <1>12, <1>13,
     <1>14, <1>15, <1>16, <1>17, <1>18, <1>19, <1>20, <1>21, <1>22, <1>23, <1>24, <1>25
     DEF Next, SlaveStep, MasterStep, Drain, Terminated

(***************************************************************************)
(* Control is inductive: termination.  The master leaves drainFromShared   *)
(* only when no slave is counted, hence none is in drain(); afterwards the *)
(* shared stack is empty and no slave can get work.                        *)
(***************************************************************************)

\* A count of zero, or of the master alone, means that no slave is working.
LEMMA NobodyCounted ==
  ASSUME Control
  PROVE  /\ active = 0 => \A t \in Slaves : ~Working(t)
         /\ active = 1 /\ Counted(Master) => \A t \in Slaves : ~Working(t)
<1> DEFINE S == {t \in Threads : Counted(t)}
<1>1. S \subseteq Threads /\ active = Cardinality(S)
  BY DEF Control, CountControl
<1>2. \A t \in Slaves : Working(t) => t \in S
  BY ThreadsAssumption DEF Working, Counted
<1>3. active = 0 => S = {}
  BY <1>1, CountNat
<1>4. active = 1 /\ Master \in S => S = {Master}
  <2> SUFFICES ASSUME active = 1, Master \in S PROVE S \ {Master} = {}
    OBVIOUS
  <2> HIDE DEF S
  <2>1. Cardinality(S \ {Master}) = 0
    BY <1>1, CountRemove
  <2> QED BY <1>1, <2>1, CountNat
<1> QED BY <1>2, <1>3, <1>4, ThreadsAssumption

\* Outside the parallel part nothing is shared and no slave works.
LEMMA RestControlStep == Control /\ [Next]_vars => RestControl'
<1> SUFFICES ASSUME Control, [Next]_vars PROVE RestControl'
  OBVIOUS
<1> USE RootGroupsAssumption, ThreadsAssumption
<1>c. TypeOK /\ MasterControl /\ RestControl /\ VisitorControl
  BY DEF Control
<1>1. ASSUME NEW t \in Threads, NEW c \in stack[t], VisitCell(t, c) PROVE RestControl'
  BY <1>c, <1>1
     DEF TypeOK, RestControl, Resting, Idle, Quiescent, Working, VisitCell, BetweenCells,
         AddOpaqueRoots
<1>2. ASSUME NEW t \in Threads, NEW c \in pending[t], InternalAppend(t, c) PROVE RestControl'
  BY <1>c, <1>2
     DEF TypeOK, RestControl, Resting, Idle, Quiescent, Working, InternalAppend
<1>3. ASSUME NEW t \in Threads, CopyStorage(t) PROVE RestControl'
  BY <1>c, <1>3
     DEF TypeOK, RestControl, Resting, Idle, Quiescent, Working, CopyStorage
<1>4. ASSUME NEW t \in Threads, ReturnFullBlock(t) PROVE RestControl'
  BY <1>c, <1>4
     DEF TypeOK, RestControl, Resting, Idle, Quiescent, Working, ReturnFullBlock,
         DoneCopying
<1>5. ASSUME NEW t \in Threads, NEW cells \in SUBSET stack[t], Donate(t, cells) PROVE RestControl'
  BY <1>c, <1>5
     DEF TypeOK, RestControl, Resting, Idle, Quiescent, Working, Donate
<1>6. ASSUME NEW t \in Slaves, SlaveEnter(t) PROVE RestControl'
  BY <1>c, <1>6
     DEF TypeOK, RestControl, Resting, Idle, Quiescent, Working, SlaveEnter
<1>7. ASSUME NEW t \in Slaves, SlaveCheck(t) PROVE RestControl'
  BY <1>c, <1>7
     DEF TypeOK, RestControl, Resting, Idle, Quiescent, Working, SlaveCheck, SlaveRound,
         DoneCopying, StealSomeCells, Wait
<1>8. ASSUME NEW t \in Slaves, SlaveWake(t) PROVE RestControl'
  BY <1>c, <1>8
     DEF TypeOK, RestControl, Resting, Idle, Quiescent, Working, SlaveWake, SlaveRound,
         DoneCopying, StealSomeCells, Wait
<1>9. ASSUME NEW t \in Slaves, SlaveDrained(t) PROVE RestControl'
  BY <1>c, <1>9
     DEF TypeOK, RestControl, Resting, Idle, Quiescent, Working, SlaveDrained,
         MergeOpaqueRoots, BetweenCells
<1>10. ASSUME NEW t \in Threads, SpuriousWakeup(t) PROVE RestControl'
  BY <1>c, <1>10
     DEF TypeOK, RestControl, Resting, Idle, Quiescent, Working, SpuriousWakeup
<1>11. ASSUME StartCollection PROVE RestControl'
  BY <1>c, <1>11
     DEF TypeOK, RestControl, Resting, Idle, Quiescent, Working, StartCollection
<1>12. ASSUME NextRootGroup PROVE RestControl'
  BY <1>c, <1>12
     DEF TypeOK, RestControl, Resting, Idle, Quiescent, Working, NextRootGroup,
         MergeOpaqueRoots, BetweenCells
<1>13. ASSUME RootsDrained PROVE RestControl'
  BY <1>c, <1>13
     DEF TypeOK, RestControl, Resting, Idle, Quiescent, Working, RootsDrained,
         MergeOpaqueRoots, BetweenCells
<1>14. ASSUME MasterEnter PROVE RestControl'
  BY <1>c, <1>14
     DEF TypeOK, RestControl, Resting, Idle, Quiescent, Working, MasterEnter
<1>15. ASSUME MasterCheck PROVE RestControl'
  <2>1. Counted(Master)
    BY <1>15 DEF MasterCheck, Counted
  <2>2. active = 1 => \A t \in Slaves : ~Working(t)
    BY <2>1, NobodyCounted
  <2> QED BY <1>c, <1>15, <2>2
          DEF TypeOK, RestControl, Resting, Idle, Quiescent, Working, MasterCheck, MasterRound, StealSomeCells, Wait
<1>16. ASSUME MasterWake PROVE RestControl'
  BY <1>c, <1>16, NobodyCounted
     DEF TypeOK, RestControl, Resting, Idle, Quiescent, Working, MasterWake, MasterRound, StealSomeCells, Wait
<1>17. ASSUME MasterDrained PROVE RestControl'
  BY <1>c, <1>17
     DEF TypeOK, RestControl, Resting, Idle, Quiescent, Working, MasterDrained,
         MergeOpaqueRoots, BetweenCells
<1>18. ASSUME VisitWeakHandles PROVE RestControl'
  BY <1>c, <1>18
     DEF TypeOK, RestControl, Resting, Idle, Quiescent, Working, VisitWeakHandles
<1>19. ASSUME NEW w \in harvesting, HarvestWeakReference(w) PROVE RestControl'
  BY <1>c, <1>19
     DEF TypeOK, RestControl, Resting, Idle, Quiescent, Working, HarvestWeakReference
<1>20. ASSUME WeakPassDone PROVE RestControl'
  BY <1>c, <1>20
     DEF TypeOK, RestControl, Resting, Idle, Quiescent, Working, WeakPassDone
<1>21. ASSUME ResetVisitors PROVE RestControl'
  BY <1>c, <1>21
     DEF TypeOK, RestControl, Resting, Idle, Quiescent, Working, ResetVisitors, DoneCopying
<1>22. ASSUME FinishCopying PROVE RestControl'
  BY <1>c, <1>22
     DEF TypeOK, RestControl, Resting, Idle, Quiescent, Working, FinishCopying
<1>23. ASSUME Shutdown PROVE RestControl'
  BY <1>c, <1>23
     DEF TypeOK, RestControl, Resting, Idle, Quiescent, Working, Shutdown
<1>24. ASSUME JoinSlaves PROVE RestControl'
  BY <1>c, <1>24
     DEF TypeOK, RestControl, Resting, Idle, Quiescent, Working, JoinSlaves
<1>25. ASSUME UNCHANGED vars PROVE RestControl'
  BY <1>c, <1>25
     DEF TypeOK, RestControl, Resting, Idle, Quiescent, Working, vars
<1> QED
  BY <1>1, <1>2, <1>3, <1>4, <1>5, <1>6, <1>7, <1>8, <1>9, <1>10, <1>11, <1>12, <1>13,
     <1>14, <1>15, <1>16, <1>17, <1>18, <1>19, <1>20, <1>21, <1>22, <1>23, <1>24, <1>25
     DEF Next, SlaveStep, MasterStep, Drain, Terminated

(***************************************************************************)
(* Control is inductive: the counters.                                     *)
(***************************************************************************)

\* How the number of counted threads changes when one thread moves.
LEMMA CountStep ==
  ASSUME Control, NEW t \in Threads,
         \A u \in Threads \ {t} : Counted(u)' <=> Counted(u),
         active' = IF Counted(t) THEN IF Counted(t)' THEN active ELSE active - 1
                                 ELSE IF Counted(t)' THEN active + 1 ELSE active
  PROVE  CountControl'
<1> DEFINE S == {u \in Threads : Counted(u)}
           T == {u \in Threads : Counted(u)'}
<1>1. S \subseteq Threads /\ T \subseteq Threads /\ active = Cardinality(S)
  BY DEF Control, CountControl
<1>2. Cardinality(S) \in Nat /\ Cardinality(T) \in Nat
  BY <1>1, CountNat
<1>3. CASE Counted(t) <=> Counted(t)'
  <2>1. S = T BY <1>3
  <2> QED BY <1>1, <1>3, <2>1 DEF CountControl
<1>4. CASE Counted(t) /\ ~Counted(t)'
  <2>1. T = S \ {t} /\ t \in S BY <1>4
  <2> HIDE DEF S, T
  <2>2. Cardinality(T) = Cardinality(S) - 1
    BY <1>1, <2>1, CountRemove
  <2> QED BY <1>1, <1>4, <2>2 DEF CountControl, T
<1>5. CASE ~Counted(t) /\ Counted(t)'
  <2>1. T = S \cup {t} /\ t \notin S BY <1>5
  <2> HIDE DEF S, T
  <2>2. Cardinality(T) = Cardinality(S) + 1
    BY <1>1, <2>1, CountAdd
  <2> QED BY <1>1, <1>5, <2>2 DEF CountControl, T
<1> QED BY <1>3, <1>4, <1>5

\* active counts the threads in drain() and at the top of its loop.
LEMMA CountControlStep == Control /\ [Next]_vars => CountControl'
<1> SUFFICES ASSUME Control, [Next]_vars PROVE CountControl'
  OBVIOUS
<1> USE RootGroupsAssumption, ThreadsAssumption
<1>c. TypeOK /\ MasterControl /\ VisitorControl
  BY DEF Control
<1>1. ASSUME NEW t \in Threads, NEW c \in stack[t], VisitCell(t, c) PROVE CountControl'
  <2>1. /\ \A u \in Threads \ {t} : Counted(u)' <=> Counted(u)
        /\ active' = IF Counted(t) THEN IF Counted(t)' THEN active ELSE active - 1
                                   ELSE IF Counted(t)' THEN active + 1 ELSE active
    BY <1>c, <1>1 DEF TypeOK, MasterControl, Counted, Idle, Quiescent, Converging, WeakDrain,
             VisitCell, BetweenCells, AddOpaqueRoots
  <2> QED BY <2>1, CountStep
<1>2. ASSUME NEW t \in Threads, NEW c \in pending[t], InternalAppend(t, c) PROVE CountControl'
  <2>1. /\ \A u \in Threads \ {t} : Counted(u)' <=> Counted(u)
        /\ active' = IF Counted(t) THEN IF Counted(t)' THEN active ELSE active - 1
                                   ELSE IF Counted(t)' THEN active + 1 ELSE active
    BY <1>c, <1>2 DEF TypeOK, MasterControl, Counted, Idle, Quiescent, Converging, WeakDrain,
             InternalAppend
  <2> QED BY <2>1, CountStep
<1>3. ASSUME NEW t \in Threads, CopyStorage(t) PROVE CountControl'
  <2>1. /\ \A u \in Threads \ {t} : Counted(u)' <=> Counted(u)
        /\ active' = IF Counted(t) THEN IF Counted(t)' THEN active ELSE active - 1
                                   ELSE IF Counted(t)' THEN active + 1 ELSE active
    BY <1>c, <1>3 DEF TypeOK, MasterControl, Counted, Idle, Quiescent, Converging, WeakDrain,
             CopyStorage
  <2> QED BY <2>1, CountStep
<1>4. ASSUME NEW t \in Threads, ReturnFullBlock(t) PROVE CountControl'
  <2>1. /\ \A u \in Threads \ {t} : Counted(u)' <=> Counted(u)
        /\ active' = IF Counted(t) THEN IF Counted(t)' THEN active ELSE active - 1
                                   ELSE IF Counted(t)' THEN active + 1 ELSE active
    BY <1>c, <1>4 DEF TypeOK, MasterControl, Counted, Idle, Quiescent, Converging, WeakDrain,
             ReturnFullBlock, DoneCopying
  <2> QED BY <2>1, CountStep
<1>5. ASSUME NEW t \in Threads, NEW cells \in SUBSET stack[t], Donate(t, cells) PROVE CountControl'
  <2>1. /\ \A u \in Threads \ {t} : Counted(u)' <=> Counted(u)
        /\ active' = IF Counted(t) THEN IF Counted(t)' THEN active ELSE active - 1
                                   ELSE IF Counted(t)' THEN active + 1 ELSE active
    BY <1>c, <1>5 DEF TypeOK, MasterControl, Counted, Idle, Quiescent, Converging, WeakDrain, Donate
  <2> QED BY <2>1, CountStep
<1>6. ASSUME NEW t \in Slaves, SlaveEnter(t) PROVE CountControl'
  <2>1. /\ \A u \in Threads \ {t} : Counted(u)' <=> Counted(u)
        /\ active' = IF Counted(t) THEN IF Counted(t)' THEN active ELSE active - 1
                                   ELSE IF Counted(t)' THEN active + 1 ELSE active
    BY <1>c, <1>6 DEF TypeOK, MasterControl, Counted, Idle, Quiescent, Converging, WeakDrain,
             SlaveEnter
  <2> QED BY <2>1, CountStep
<1>7. ASSUME NEW t \in Slaves, SlaveCheck(t) PROVE CountControl'
  <2>1. /\ \A u \in Threads \ {t} : Counted(u)' <=> Counted(u)
        /\ active' = IF Counted(t) THEN IF Counted(t)' THEN active ELSE active - 1
                                   ELSE IF Counted(t)' THEN active + 1 ELSE active
    BY <1>c, <1>7 DEF TypeOK, MasterControl, Counted, Idle, Quiescent, Converging, WeakDrain,
             SlaveCheck, SlaveRound, DoneCopying, StealSomeCells, Wait
  <2> QED BY <2>1, CountStep
<1>8. ASSUME NEW t \in Slaves, SlaveWake(t) PROVE CountControl'
  <2>1. /\ \A u \in Threads \ {t} : Counted(u)' <=> Counted(u)
        /\ active' = IF Counted(t) THEN IF Counted(t)' THEN active ELSE active - 1
                                   ELSE IF Counted(t)' THEN active + 1 ELSE active
    BY <1>c, <1>8 DEF TypeOK, MasterControl, Counted, Idle, Quiescent, Converging, WeakDrain,
             SlaveWake, SlaveRound, DoneCopying, StealSomeCells, Wait
  <2> QED BY <2>1, CountStep
<1>9. ASSUME NEW t \in Slaves, SlaveDrained(t) PROVE CountControl'
  <2>1. /\ \A u \in Threads \ {t} : Counted(u)' <=> Counted(u)
        /\ active' = IF Counted(t) THEN IF Counted(t)' THEN active ELSE active - 1
                                   ELSE IF Counted(t)' THEN active + 1 ELSE active
    BY <1>c, <1>9 DEF TypeOK, MasterControl, Counted, Idle, Quiescent, Converging, WeakDrain,
             SlaveDrained, MergeOpaqueRoots, BetweenCells
  <2> QED BY <2>1, CountStep
<1>10. ASSUME NEW t \in Threads, SpuriousWakeup(t) PROVE CountControl'
  <2>1. /\ \A u \in Threads \ {t} : Counted(u)' <=> Counted(u)
        /\ active' = IF Counted(t) THEN IF Counted(t)' THEN active ELSE active - 1
                                   ELSE IF Counted(t)' THEN active + 1 ELSE active
    BY <1>c, <1>10 DEF TypeOK, MasterControl, Counted, Idle, Quiescent, Converging, WeakDrain,
             SpuriousWakeup
  <2> QED BY <2>1, CountStep
<1>11. ASSUME StartCollection PROVE CountControl'
  <2>1. /\ \A u \in Threads \ {Master} : Counted(u)' <=> Counted(u)
        /\ active' = IF Counted(Master) THEN IF Counted(Master)' THEN active ELSE active - 1
                                   ELSE IF Counted(Master)' THEN active + 1 ELSE active
    BY <1>c, <1>11 DEF TypeOK, MasterControl, Counted, Idle, Quiescent, Converging, WeakDrain,
             StartCollection
  <2> QED BY <2>1, CountStep
<1>12. ASSUME NextRootGroup PROVE CountControl'
  <2>1. /\ \A u \in Threads \ {Master} : Counted(u)' <=> Counted(u)
        /\ active' = IF Counted(Master) THEN IF Counted(Master)' THEN active ELSE active - 1
                                   ELSE IF Counted(Master)' THEN active + 1 ELSE active
    BY <1>c, <1>12 DEF TypeOK, MasterControl, Counted, Idle, Quiescent, Converging, WeakDrain,
             NextRootGroup, MergeOpaqueRoots, BetweenCells
  <2> QED BY <2>1, CountStep
<1>13. ASSUME RootsDrained PROVE CountControl'
  <2>1. /\ \A u \in Threads \ {Master} : Counted(u)' <=> Counted(u)
        /\ active' = IF Counted(Master) THEN IF Counted(Master)' THEN active ELSE active - 1
                                   ELSE IF Counted(Master)' THEN active + 1 ELSE active
    BY <1>c, <1>13 DEF TypeOK, MasterControl, Counted, Idle, Quiescent, Converging, WeakDrain,
             RootsDrained, MergeOpaqueRoots, BetweenCells
  <2> QED BY <2>1, CountStep
<1>14. ASSUME MasterEnter PROVE CountControl'
  <2>1. /\ \A u \in Threads \ {Master} : Counted(u)' <=> Counted(u)
        /\ active' = IF Counted(Master) THEN IF Counted(Master)' THEN active ELSE active - 1
                                   ELSE IF Counted(Master)' THEN active + 1 ELSE active
    BY <1>c, <1>14 DEF TypeOK, MasterControl, Counted, Idle, Quiescent, Converging, WeakDrain,
             MasterEnter
  <2> QED BY <2>1, CountStep
<1>15. ASSUME MasterCheck PROVE CountControl'
  <2>1. /\ \A u \in Threads \ {Master} : Counted(u)' <=> Counted(u)
        /\ active' = IF Counted(Master) THEN IF Counted(Master)' THEN active ELSE active - 1
                                   ELSE IF Counted(Master)' THEN active + 1 ELSE active
    BY <1>c, <1>15 DEF TypeOK, MasterControl, Counted, Idle, Quiescent, Converging, WeakDrain,
             MasterCheck, MasterRound, StealSomeCells, Wait
  <2> QED BY <2>1, CountStep
<1>16. ASSUME MasterWake PROVE CountControl'
  <2>1. /\ \A u \in Threads \ {Master} : Counted(u)' <=> Counted(u)
        /\ active' = IF Counted(Master) THEN IF Counted(Master)' THEN active ELSE active - 1
                                   ELSE IF Counted(Master)' THEN active + 1 ELSE active
    BY <1>c, <1>16 DEF TypeOK, MasterControl, Counted, Idle, Quiescent, Converging, WeakDrain,
             MasterWake, MasterRound, StealSomeCells, Wait
  <2> QED BY <2>1, CountStep
<1>17. ASSUME MasterDrained PROVE CountControl'
  <2>1. /\ \A u \in Threads \ {Master} : Counted(u)' <=> Counted(u)
        /\ active' = IF Counted(Master) THEN IF Counted(Master)' THEN active ELSE active - 1
                                   ELSE IF Counted(Master)' THEN active + 1 ELSE active
    BY <1>c, <1>17 DEF TypeOK, MasterControl, Counted, Idle, Quiescent, Converging, WeakDrain,
             MasterDrained, MergeOpaqueRoots, BetweenCells
  <2> QED BY <2>1, CountStep
<1>18. ASSUME VisitWeakHandles PROVE CountControl'
  <2>1. /\ \A u \in Threads \ {Master} : Counted(u)' <=> Counted(u)
        /\ active' = IF Counted(Master) THEN IF Counted(Master)' THEN active ELSE active - 1
                                   ELSE IF Counted(Master)' THEN active + 1 ELSE active
    BY <1>c, <1>18 DEF TypeOK, MasterControl, Counted, Idle, Quiescent, Converging, WeakDrain,
             VisitWeakHandles
  <2> QED BY <2>1, CountStep
<1>19. ASSUME NEW w \in harvesting, HarvestWeakReference(w) PROVE CountControl'
  <2>1. /\ \A u \in Threads \ {Master} : Counted(u)' <=> Counted(u)
        /\ active' = IF Counted(Master) THEN IF Counted(Master)' THEN active ELSE active - 1
                                   ELSE IF Counted(Master)' THEN active + 1 ELSE active
    BY <1>c, <1>19 DEF TypeOK, MasterControl, Counted, Idle, Quiescent, Converging, WeakDrain,
             HarvestWeakReference
  <2> QED BY <2>1, CountStep
<1>20. ASSUME WeakPassDone PROVE CountControl'
  <2>1. /\ \A u \in Threads \ {Master} : Counted(u)' <=> Counted(u)
        /\ active' = IF Counted(Master) THEN IF Counted(Master)' THEN active ELSE active - 1
                                   ELSE IF Counted(Master)' THEN active + 1 ELSE active
    BY <1>c, <1>20 DEF TypeOK, MasterControl, Counted, Idle, Quiescent, Converging, WeakDrain,
             WeakPassDone
  <2> QED BY <2>1, CountStep
<1>21. ASSUME ResetVisitors PROVE CountControl'
  <2>1. /\ \A u \in Threads \ {Master} : Counted(u)' <=> Counted(u)
        /\ active' = IF Counted(Master) THEN IF Counted(Master)' THEN active ELSE active - 1
                                   ELSE IF Counted(Master)' THEN active + 1 ELSE active
    BY <1>c, <1>21 DEF TypeOK, MasterControl, Counted, Idle, Quiescent, Converging, WeakDrain,
             ResetVisitors, DoneCopying
  <2> QED BY <2>1, CountStep
<1>22. ASSUME FinishCopying PROVE CountControl'
  <2>1. /\ \A u \in Threads \ {Master} : Counted(u)' <=> Counted(u)
        /\ active' = IF Counted(Master) THEN IF Counted(Master)' THEN active ELSE active - 1
                                   ELSE IF Counted(Master)' THEN active + 1 ELSE active
    BY <1>c, <1>22 DEF TypeOK, MasterControl, Counted, Idle, Quiescent, Converging, WeakDrain,
             FinishCopying
  <2> QED BY <2>1, CountStep
<1>23. ASSUME Shutdown PROVE CountControl'
  <2>1. /\ \A u \in Threads \ {Master} : Counted(u)' <=> Counted(u)
        /\ active' = IF Counted(Master) THEN IF Counted(Master)' THEN active ELSE active - 1
                                   ELSE IF Counted(Master)' THEN active + 1 ELSE active
    BY <1>c, <1>23 DEF TypeOK, MasterControl, Counted, Idle, Quiescent, Converging, WeakDrain,
             Shutdown
  <2> QED BY <2>1, CountStep
<1>24. ASSUME JoinSlaves PROVE CountControl'
  <2>1. /\ \A u \in Threads \ {Master} : Counted(u)' <=> Counted(u)
        /\ active' = IF Counted(Master) THEN IF Counted(Master)' THEN active ELSE active - 1
                                   ELSE IF Counted(Master)' THEN active + 1 ELSE active
    BY <1>c, <1>24 DEF TypeOK, MasterControl, Counted, Idle, Quiescent, Converging, WeakDrain,
             JoinSlaves
  <2> QED BY <2>1, CountStep
<1>25. ASSUME UNCHANGED vars PROVE CountControl'
  BY <1>25 DEF Control, CountControl, Counted, vars
<1> QED
  BY <1>1, <1>2, <1>3, <1>4, <1>5, <1>6, <1>7, <1>8, <1>9, <1>10, <1>11, <1>12, <1>13,
     <1>14, <1>15, <1>16, <1>17, <1>18, <1>19, <1>20, <1>21, <1>22, <1>23, <1>24, <1>25
     DEF Next, SlaveStep, MasterStep, Drain, Terminated

\* How the number of loans changes when one thread borrows or returns.
LEMMA LoanStep ==
  ASSUME Control, NEW t \in Threads,
         \A u \in Threads \ {t} : copyBlock'[u] = copyBlock[u],
         loaned' = IF copyBlock[t] # 0
                   THEN IF copyBlock'[t] # 0 THEN loaned ELSE loaned - 1
                   ELSE IF copyBlock'[t] # 0 THEN loaned + 1 ELSE loaned
  PROVE  loaned' = Cardinality({u \in Threads : copyBlock'[u] # 0})
<1> DEFINE S == {u \in Threads : copyBlock[u] # 0}
           T == {u \in Threads : copyBlock'[u] # 0}
<1>1. S \subseteq Threads /\ T \subseteq Threads /\ loaned = Cardinality(S)
  BY DEF Control, LoanControl
<1>2. Cardinality(S) \in Nat /\ Cardinality(T) \in Nat
  BY <1>1, CountNat
<1>3. CASE copyBlock[t] # 0 <=> copyBlock'[t] # 0
  <2>1. S = T BY <1>3
  <2> QED BY <1>1, <1>3, <2>1
<1>4. CASE copyBlock[t] # 0 /\ copyBlock'[t] = 0
  <2>1. T = S \ {t} /\ t \in S BY <1>4
  <2> HIDE DEF S, T
  <2>2. Cardinality(T) = Cardinality(S) - 1
    BY <1>1, <2>1, CountRemove
  <2> QED BY <1>1, <1>4, <2>2 DEF T
<1>5. CASE copyBlock[t] = 0 /\ copyBlock'[t] # 0
  <2>1. T = S \cup {t} /\ t \notin S BY <1>5
  <2> HIDE DEF S, T
  <2>2. Cardinality(T) = Cardinality(S) + 1
    BY <1>1, <2>1, CountAdd
  <2> QED BY <1>1, <1>5, <2>2 DEF T
<1> QED BY <1>3, <1>4, <1>5

\* loaned counts the threads that hold a block, and nobody does between collections.
LEMMA LoanControlStep == Control /\ [Next]_vars => LoanControl'
<1> SUFFICES ASSUME Control, [Next]_vars PROVE LoanControl'
  OBVIOUS
<1> USE RootGroupsAssumption, ThreadsAssumption, BoundsAssumption
<1>c. TypeOK /\ MasterControl /\ RestControl /\ LoanControl
  BY DEF Control
<1>1. ASSUME NEW t \in Threads, NEW c \in stack[t], VisitCell(t, c) PROVE LoanControl'
  BY <1>c, <1>1
     DEF TypeOK, LoanControl, Idle, VisitCell, BetweenCells, AddOpaqueRoots
<1>2. ASSUME NEW t \in Threads, NEW c \in pending[t], InternalAppend(t, c) PROVE LoanControl'
  BY <1>c, <1>2
     DEF TypeOK, LoanControl, Idle, InternalAppend
<1>3. ASSUME NEW t \in Threads, CopyStorage(t) PROVE LoanControl'
  <2>1. /\ \A u \in Threads \ {t} : copyBlock'[u] = copyBlock[u]
        /\ loaned' = IF copyBlock[t] # 0
                     THEN IF copyBlock'[t] # 0 THEN loaned ELSE loaned - 1
                     ELSE IF copyBlock'[t] # 0 THEN loaned + 1 ELSE loaned
    BY <1>c, <1>3 DEF TypeOK, CopyStorage
  <2>2. Idle' => loaned' = 0
    BY <1>c, <1>3, Positive DEF TypeOK, LoanControl, RestControl, Resting, Working, Idle, CopyStorage
  <2> QED BY <2>1, <2>2, LoanStep DEF LoanControl
<1>4. ASSUME NEW t \in Threads, ReturnFullBlock(t) PROVE LoanControl'
  <2>1. /\ \A u \in Threads \ {t} : copyBlock'[u] = copyBlock[u]
        /\ loaned' = IF copyBlock[t] # 0
                     THEN IF copyBlock'[t] # 0 THEN loaned ELSE loaned - 1
                     ELSE IF copyBlock'[t] # 0 THEN loaned + 1 ELSE loaned
    BY <1>c, <1>4 DEF TypeOK, ReturnFullBlock, DoneCopying
  <2>2. Idle' => loaned' = 0
    BY <1>c, <1>4, Positive DEF TypeOK, LoanControl, RestControl, Resting, Working, Idle, ReturnFullBlock,
           DoneCopying
  <2> QED BY <2>1, <2>2, LoanStep DEF LoanControl
<1>5. ASSUME NEW t \in Threads, NEW cells \in SUBSET stack[t], Donate(t, cells) PROVE LoanControl'
  BY <1>c, <1>5
     DEF TypeOK, LoanControl, Idle, Donate
<1>6. ASSUME NEW t \in Slaves, SlaveEnter(t) PROVE LoanControl'
  BY <1>c, <1>6
     DEF TypeOK, LoanControl, Idle, SlaveEnter
<1>7. ASSUME NEW t \in Slaves, SlaveCheck(t) PROVE LoanControl'
  <2>1. /\ \A u \in Threads \ {t} : copyBlock'[u] = copyBlock[u]
        /\ loaned' = IF copyBlock[t] # 0
                     THEN IF copyBlock'[t] # 0 THEN loaned ELSE loaned - 1
                     ELSE IF copyBlock'[t] # 0 THEN loaned + 1 ELSE loaned
    BY <1>c, <1>7 DEF TypeOK, SlaveCheck, SlaveRound, DoneCopying, StealSomeCells, Wait
  <2>2. Idle' => loaned' = 0
    <3>1. Idle => loaned = 0 /\ copyBlock[t] = 0
      BY <1>c, Positive DEF LoanControl
    <3>2. Idle' => Idle /\ loaned' \in {loaned, IF copyBlock[t] = 0 THEN loaned ELSE loaned - 1}
      BY <1>c, <1>7 DEF TypeOK, Idle, SlaveCheck, SlaveRound, DoneCopying, StealSomeCells, Wait
    <3> QED BY <3>1, <3>2
  <2> QED BY <2>1, <2>2, LoanStep DEF LoanControl
<1>8. ASSUME NEW t \in Slaves, SlaveWake(t) PROVE LoanControl'
  <2>1. /\ \A u \in Threads \ {t} : copyBlock'[u] = copyBlock[u]
        /\ loaned' = IF copyBlock[t] # 0
                     THEN IF copyBlock'[t] # 0 THEN loaned ELSE loaned - 1
                     ELSE IF copyBlock'[t] # 0 THEN loaned + 1 ELSE loaned
    BY <1>c, <1>8 DEF TypeOK, SlaveWake, SlaveRound, DoneCopying, StealSomeCells, Wait
  <2>2. Idle' => loaned' = 0
    BY <1>c, <1>8, Positive DEF TypeOK, LoanControl, RestControl, Resting, Working, Idle, SlaveWake, SlaveRound,
           DoneCopying, StealSomeCells, Wait
  <2> QED BY <2>1, <2>2, LoanStep DEF LoanControl
<1>9. ASSUME NEW t \in Slaves, SlaveDrained(t) PROVE LoanControl'
  BY <1>c, <1>9
     DEF TypeOK, LoanControl, Idle, SlaveDrained, MergeOpaqueRoots, BetweenCells
<1>10. ASSUME NEW t \in Threads, SpuriousWakeup(t) PROVE LoanControl'
  BY <1>c, <1>10
     DEF TypeOK, LoanControl, Idle, SpuriousWakeup
<1>11. ASSUME StartCollection PROVE LoanControl'
  BY <1>c, <1>11
     DEF TypeOK, LoanControl, Idle, StartCollection
<1>12. ASSUME NextRootGroup PROVE LoanControl'
  BY <1>c, <1>12
     DEF TypeOK, LoanControl, Idle, NextRootGroup, MergeOpaqueRoots, BetweenCells
<1>13. ASSUME RootsDrained PROVE LoanControl'
  BY <1>c, <1>13
     DEF TypeOK, LoanControl, Idle, RootsDrained, MergeOpaqueRoots, BetweenCells
<1>14. ASSUME MasterEnter PROVE LoanControl'
  BY <1>c, <1>14
     DEF TypeOK, LoanControl, Idle, MasterEnter
<1>15. ASSUME MasterCheck PROVE LoanControl'
  BY <1>c, <1>15
     DEF TypeOK, LoanControl, Idle, MasterCheck, MasterRound, StealSomeCells, Wait
<1>16. ASSUME MasterWake PROVE LoanControl'
  BY <1>c, <1>16
     DEF TypeOK, LoanControl, Idle, MasterWake, MasterRound, StealSomeCells, Wait
<1>17. ASSUME MasterDrained PROVE LoanControl'
  BY <1>c, <1>17
     DEF TypeOK, LoanControl, Idle, MasterDrained, MergeOpaqueRoots, BetweenCells
<1>18. ASSUME VisitWeakHandles PROVE LoanControl'
  BY <1>c, <1>18
     DEF TypeOK, LoanControl, Idle, VisitWeakHandles
<1>19. ASSUME NEW w \in harvesting, HarvestWeakReference(w) PROVE LoanControl'
  BY <1>c, <1>19
     DEF TypeOK, LoanControl, Idle, HarvestWeakReference
<1>20. ASSUME WeakPassDone PROVE LoanControl'
  BY <1>c, <1>20
     DEF TypeOK, LoanControl, Idle, WeakPassDone
<1>21. ASSUME ResetVisitors PROVE LoanControl'
  <2>1. /\ \A u \in Threads \ {Master} : copyBlock'[u] = copyBlock[u]
        /\ loaned' = IF copyBlock[Master] # 0
                     THEN IF copyBlock'[Master] # 0 THEN loaned ELSE loaned - 1
                     ELSE IF copyBlock'[Master] # 0 THEN loaned + 1 ELSE loaned
    BY <1>c, <1>21 DEF TypeOK, ResetVisitors, DoneCopying
  <2>2. Idle' => loaned' = 0
    BY <1>c, <1>21, Positive DEF TypeOK, LoanControl, RestControl, Resting, Working, Idle, ResetVisitors,
           DoneCopying
  <2> QED BY <2>1, <2>2, LoanStep DEF LoanControl
<1>22. ASSUME FinishCopying PROVE LoanControl'
  BY <1>c, <1>22
     DEF TypeOK, LoanControl, Idle, FinishCopying
<1>23. ASSUME Shutdown PROVE LoanControl'
  BY <1>c, <1>23
     DEF TypeOK, LoanControl, Idle, Shutdown
<1>24. ASSUME JoinSlaves PROVE LoanControl'
  BY <1>c, <1>24
     DEF TypeOK, LoanControl, Idle, JoinSlaves
<1>25. ASSUME UNCHANGED vars PROVE LoanControl'
  BY <1>c, <1>25
     DEF TypeOK, LoanControl, Idle, vars
<1> QED
  BY <1>1, <1>2, <1>3, <1>4, <1>5, <1>6, <1>7, <1>8, <1>9, <1>10, <1>11, <1>12, <1>13,
     <1>14, <1>15, <1>16, <1>17, <1>18, <1>19, <1>20, <1>21, <1>22, <1>23, <1>24, <1>25
     DEF Next, SlaveStep, MasterStep, Drain, Terminated

\* Control is inductive.
LEMMA ControlInit == Init => Control
<1> USE RootGroupsAssumption, ThreadsAssumption, BoundsAssumption
<1> SUFFICES ASSUME Init PROVE Control
  OBVIOUS
<1>1. TypeOK
  <2>1. 0 \in 0..Converging /\ 0 \in 0..BlockCapacity /\ 0 \in 0..MaxCollections
    BY DEF Converging
  <2>2. /\ pc \in [Threads -> SlavePCs \cup MasterPCs]
        /\ pc[Master] \in MasterPCs
        /\ \A t \in Slaves : pc[t] \in SlavePCs
    BY DEF Init, SlavePCs, MasterPCs
  <2> QED BY <2>1, <2>2 DEF Init, TypeOK
<1>2. MasterControl /\ VisitorControl /\ RestControl
  BY DEF Init, MasterControl, VisitorControl, RestControl, Resting, Idle, Quiescent,
         Working, Converging
<1>3. CountControl
  <2>1. {t \in Threads : Counted(t)} = {}
    BY DEF Init, Counted
  <2> QED BY <2>1, CountNat DEF CountControl, Init
<1>4. LoanControl
  <2>1. {t \in Threads : copyBlock[t] # 0} = {}
    BY DEF Init
  <2> QED BY <2>1, CountNat DEF LoanControl, Init
<1> QED BY <1>1, <1>2, <1>3, <1>4 DEF Control

\* Control is inductive.
LEMMA ControlStep == Control /\ [Next]_vars => Control'
  BY TypeStep, MasterControlStep, VisitorControlStep, RestControlStep, CountControlStep,
     LoanControlStep DEF Control

-----------------------------------------------------------------------------
(***************************************************************************)
(* Live(h) is the least closed set.                                        *)
(***************************************************************************)

\* The live cells are closed under everything that keeps a cell alive.
LEMMA LiveClosed ==
  ASSUME NEW h, IsHeap(h)
  PROVE  Live(h) \subseteq Cells /\ Closed(h, Live(h))
<1>1. Live(h) \subseteq Cells
  BY DEF Live
<1>2. \A s \in SUBSET Cells : Closed(h, s) => Live(h) \subseteq s
  BY DEF Live
<1>3. \A g \in 1..NumRootGroups : h.roots[g] \subseteq Live(h)
  BY DEF Live, Closed, IsHeap
<1>4. \A c \in Live(h) : h.edges[c] \subseteq Live(h)
  BY DEF Live, Closed, IsHeap
<1>5. \A c \in Cells : h.context[c] \cap OpaqueRootsOf(h, Live(h)) # {} => c \in Live(h)
  <2> SUFFICES ASSUME NEW c \in Cells, h.context[c] \cap OpaqueRootsOf(h, Live(h)) # {},
                      NEW s \in SUBSET Cells, Closed(h, s)
               PROVE  c \in s
    BY DEF Live
  <2>1. OpaqueRootsOf(h, Live(h)) \subseteq OpaqueRootsOf(h, s)
    BY <1>2 DEF OpaqueRootsOf
  <2> QED BY <2>1 DEF Closed
<1>6. \A w \in h.harvesters :
         w.owner \in Live(h) /\ Fires(w, Live(h)) => w.gives \subseteq Live(h)
  <2> SUFFICES ASSUME NEW w \in h.harvesters, w.owner \in Live(h), Fires(w, Live(h)),
                      NEW x \in w.gives
               PROVE  x \in Live(h)
    OBVIOUS
  <2>1. x \in Cells
    BY DEF IsHeap, Harvesters
  <2>2. ASSUME NEW s \in SUBSET Cells, Closed(h, s) PROVE x \in s
    <3>1. w.owner \in s /\ Fires(w, s)
      BY <1>2, <2>2 DEF Fires
    <3> QED BY <2>2, <3>1 DEF Closed
  <2> QED BY <2>1, <2>2 DEF Live
<1> QED BY <1>1, <1>3, <1>4, <1>5, <1>6 DEF Closed

\* A closed set contains the live cells.
LEMMA LiveLeast ==
  ASSUME NEW h, NEW s \in SUBSET Cells, Closed(h, s)
  PROVE  Live(h) \subseteq s
  BY DEF Live

(***************************************************************************)
(* Marking is sound: nothing is marked, pushed or registered that is not   *)
(* live.                                                                   *)
(***************************************************************************)
LEMMA SoundStep == Control /\ Sound /\ [Next]_vars => Sound'
<1> SUFFICES ASSUME Control, Sound, [Next]_vars PROVE Sound'
  OBVIOUS
<1> USE RootGroupsAssumption, ThreadsAssumption
<1>c. TypeOK /\ MasterControl /\ VisitorControl /\ RestControl
  BY DEF Control
<1>h. IsHeap(heap)
  BY <1>c, HeapsAssumption DEF TypeOK
<1>l. Live(heap) \subseteq Cells /\ Closed(heap, Live(heap))
  BY <1>h, LiveClosed
<1>1. ASSUME NEW t \in Threads, NEW c \in stack[t], VisitCell(t, c) PROVE Sound'
  <2>1. c \in marked /\ c \in Live(heap)
    BY <1>c DEF TypeOK, Sound, Grey
  <2>2. heap.edges[c] \subseteq Live(heap)
    BY <1>l, <2>1 DEF Closed
  <2>3. \A w \in HarvestersOf(heap, c) : Fires(w, marked) => w.gives \subseteq Live(heap)
    BY <1>l, <2>1 DEF Closed, HarvestersOf, Fires, Sound
  <2>4. heap.opaque[c] \subseteq OpaqueRootsOf(heap, Live(heap))
    BY <2>1 DEF OpaqueRootsOf
  <2>5. pending'[t] \subseteq Live(heap) /\ \A u \in Threads \ {t} : pending'[u] = pending[u]
    BY <1>c, <1>1, <2>2, <2>3 DEF VisitCell, TypeOK
  <2>6. registered' \subseteq marked
    BY <1>1, <2>1 DEF Sound, VisitCell
  <2>7. /\ sharedOpaque' \subseteq OpaqueRootsOf(heap, Live(heap))
        /\ \A u \in Threads : localOpaque'[u] \subseteq OpaqueRootsOf(heap, Live(heap))
    BY <1>c, <1>1, <2>4 DEF Sound, TypeOK, VisitCell, AddOpaqueRoots
  <2>8. registered \subseteq registered'
    BY <1>1 DEF VisitCell
  <2>9. ~(Idle \/ pc[Master] = "loans")'
    BY <1>c, <1>1 DEF TypeOK, RestControl, Resting, Idle, Quiescent, Working, VisitCell, BetweenCells
  <2> QED BY <1>c, <1>1, <2>1, <2>5, <2>6, <2>7, <2>8, <2>9 DEF Sound, Grey, TypeOK, VisitCell
<1>2. ASSUME NEW t \in Threads, NEW c \in pending[t], InternalAppend(t, c) PROVE Sound'
  BY <1>c, <1>2
     DEF TypeOK, Sound, Grey, Idle, InternalAppend
<1>3. ASSUME NEW t \in Threads, CopyStorage(t) PROVE Sound'
  BY <1>c, <1>3
     DEF TypeOK, Sound, Grey, Idle, CopyStorage
<1>4. ASSUME NEW t \in Threads, ReturnFullBlock(t) PROVE Sound'
  BY <1>c, <1>4
     DEF TypeOK, Sound, Grey, Idle, ReturnFullBlock, DoneCopying
<1>5. ASSUME NEW t \in Threads, NEW cells \in SUBSET stack[t], Donate(t, cells) PROVE Sound'
  BY <1>c, <1>5
     DEF TypeOK, Sound, Grey, Idle, Donate
<1>6. ASSUME NEW t \in Slaves, SlaveEnter(t) PROVE Sound'
  BY <1>c, <1>6
     DEF TypeOK, Sound, Grey, Idle, SlaveEnter
<1>7. ASSUME NEW t \in Slaves, SlaveCheck(t) PROVE Sound'
  BY <1>c, <1>7
     DEF TypeOK, Sound, Grey, Idle, SlaveCheck, SlaveRound, DoneCopying, StealSomeCells,
         Wait, RestControl, Resting
<1>8. ASSUME NEW t \in Slaves, SlaveWake(t) PROVE Sound'
  BY <1>c, <1>8
     DEF TypeOK, Sound, Grey, Idle, SlaveWake, SlaveRound, DoneCopying, StealSomeCells,
         Wait, RestControl, Resting
<1>9. ASSUME NEW t \in Slaves, SlaveDrained(t) PROVE Sound'
  BY <1>c, <1>9
     DEF TypeOK, Sound, Grey, Idle, SlaveDrained, MergeOpaqueRoots, BetweenCells,
         RestControl, Resting, Quiescent, Working
<1>10. ASSUME NEW t \in Threads, SpuriousWakeup(t) PROVE Sound'
  BY <1>c, <1>10
     DEF TypeOK, Sound, Grey, Idle, SpuriousWakeup
<1>11. ASSUME StartCollection PROVE Sound'
  <2>1. heap' \in Heaps /\ IsHeap(heap')
    BY <1>11, HeapsAssumption DEF StartCollection
  <2>2. heap'.roots[1] \subseteq Live(heap')
    BY <2>1, LiveClosed DEF Closed
  <2>3. shared = {} /\ \A t \in Threads : pending[t] = {} /\ stack[t] = {} /\ visiting[t] = {}
                                      /\ localOpaque[t] = {}
    BY <1>c, <1>11 DEF RestControl, VisitorControl, StartCollection, Resting, Idle, Working
  <2>4. sharedOpaque = {} /\ registered = {} /\ harvesting = {}
    BY <1>c, <1>11 DEF Sound, MasterControl, StartCollection, Idle
  <2> QED BY <1>c, <1>11, <2>2, <2>3, <2>4 DEF Sound, Grey, TypeOK, StartCollection, Idle
<1>12. ASSUME NextRootGroup PROVE Sound'
  <2>1. group + 1 \in 1..NumRootGroups
    BY <1>c, <1>12 DEF TypeOK, NextRootGroup, Converging
  <2>2. heap.roots[group + 1] \subseteq Live(heap)
    BY <1>l, <2>1 DEF Closed
  <2> QED BY <1>c, <1>12, <2>2
          DEF Sound, Grey, Idle, TypeOK, NextRootGroup, MergeOpaqueRoots, BetweenCells
<1>13. ASSUME RootsDrained PROVE Sound'
  BY <1>c, <1>13
     DEF TypeOK, Sound, Grey, Idle, RootsDrained, MergeOpaqueRoots, BetweenCells
<1>14. ASSUME MasterEnter PROVE Sound'
  BY <1>c, <1>14
     DEF TypeOK, Sound, Grey, Idle, MasterEnter
<1>15. ASSUME MasterCheck PROVE Sound'
  BY <1>c, <1>15
     DEF TypeOK, Sound, Grey, Idle, MasterCheck, MasterRound, StealSomeCells, Wait
<1>16. ASSUME MasterWake PROVE Sound'
  BY <1>c, <1>16
     DEF TypeOK, Sound, Grey, Idle, MasterWake, MasterRound, StealSomeCells, Wait
<1>17. ASSUME MasterDrained PROVE Sound'
  BY <1>c, <1>17
     DEF TypeOK, Sound, Grey, Idle, MasterDrained, MergeOpaqueRoots, BetweenCells
<1>18. ASSUME VisitWeakHandles PROVE Sound'
  <2>1. \A c \in Cells : heap.context[c] \cap sharedOpaque # {} => c \in Live(heap)
    BY <1>l DEF Closed, Sound
  <2> QED BY <1>c, <1>18, <2>1 DEF Sound, Grey, Idle, TypeOK, VisitWeakHandles
<1>19. ASSUME NEW w \in harvesting, HarvestWeakReference(w) PROVE Sound'
  <2>1. w \in heap.harvesters /\ w.owner \in Live(heap)
    BY <1>c DEF TypeOK, Sound
  <2>2. Fires(w, marked) => w.gives \subseteq Live(heap)
    BY <1>l, <2>1 DEF Closed, Fires, Sound
  <2>3. w.gives \subseteq Cells
    BY <1>h, <2>1 DEF IsHeap, Harvesters
  <2> QED BY <1>c, <1>19, <2>2, <2>3 DEF Sound, Grey, Idle, TypeOK, HarvestWeakReference
<1>20. ASSUME WeakPassDone PROVE Sound'
  BY <1>c, <1>20
     DEF TypeOK, Sound, Grey, Idle, WeakPassDone, MasterControl
<1>21. ASSUME ResetVisitors PROVE Sound'
  BY <1>c, <1>21
     DEF TypeOK, Sound, Grey, Idle, ResetVisitors, DoneCopying, MasterControl
<1>22. ASSUME FinishCopying PROVE Sound'
  BY <1>c, <1>22
     DEF TypeOK, Sound, Grey, Idle, FinishCopying
<1>23. ASSUME Shutdown PROVE Sound'
  BY <1>c, <1>23
     DEF TypeOK, Sound, Grey, Idle, Shutdown
<1>24. ASSUME JoinSlaves PROVE Sound'
  BY <1>c, <1>24
     DEF TypeOK, Sound, Grey, Idle, JoinSlaves
<1>25. ASSUME UNCHANGED vars PROVE Sound'
  BY <1>c, <1>25
     DEF TypeOK, Sound, Grey, Idle, vars
<1> QED
  BY <1>1, <1>2, <1>3, <1>4, <1>5, <1>6, <1>7, <1>8, <1>9, <1>10, <1>11, <1>12, <1>13,
     <1>14, <1>15, <1>16, <1>17, <1>18, <1>19, <1>20, <1>21, <1>22, <1>23, <1>24, <1>25
     DEF Next, SlaveStep, MasterStep, Drain, Terminated

-----------------------------------------------------------------------------
(***************************************************************************)
(* Marking is complete: no reference is lost between the mark bit, the     *)
(* stacks and the visitors.                                                *)
(***************************************************************************)

\* The roots appended so far are marked, or about to be.
LEMMA RootsCoveredStep == Control /\ Sound /\ Complete /\ [Next]_vars => RootsCovered'
<1> SUFFICES ASSUME Control, Sound, Complete, [Next]_vars PROVE RootsCovered'
  OBVIOUS
<1> USE RootGroupsAssumption, ThreadsAssumption
<1>c. TypeOK /\ MasterControl /\ VisitorControl /\ RestControl
  BY DEF Control
<1>h. IsHeap(heap)
  BY <1>c, HeapsAssumption DEF TypeOK
<1>i. RootsCovered
  BY DEF Complete
<1>1. ASSUME NEW t \in Threads, NEW c \in stack[t], VisitCell(t, c) PROVE RootsCovered'
  BY <1>c, <1>i, <1>1
     DEF TypeOK, MasterControl, RootsCovered, Idle, Converging, WeakDrain, VisitCell,
         BetweenCells, AddOpaqueRoots
<1>2. ASSUME NEW t \in Threads, NEW c \in pending[t], InternalAppend(t, c) PROVE RootsCovered'
  BY <1>c, <1>i, <1>2
     DEF TypeOK, MasterControl, RootsCovered, Idle, Converging, WeakDrain, InternalAppend
<1>3. ASSUME NEW t \in Threads, CopyStorage(t) PROVE RootsCovered'
  BY <1>c, <1>i, <1>3
     DEF TypeOK, MasterControl, RootsCovered, Idle, Converging, WeakDrain, CopyStorage
<1>4. ASSUME NEW t \in Threads, ReturnFullBlock(t) PROVE RootsCovered'
  BY <1>c, <1>i, <1>4
     DEF TypeOK, MasterControl, RootsCovered, Idle, Converging, WeakDrain, ReturnFullBlock,
         DoneCopying
<1>5. ASSUME NEW t \in Threads, NEW cells \in SUBSET stack[t], Donate(t, cells) PROVE RootsCovered'
  BY <1>c, <1>i, <1>5
     DEF TypeOK, MasterControl, RootsCovered, Idle, Converging, WeakDrain, Donate
<1>6. ASSUME NEW t \in Slaves, SlaveEnter(t) PROVE RootsCovered'
  BY <1>c, <1>i, <1>6
     DEF TypeOK, MasterControl, RootsCovered, Idle, Converging, WeakDrain, SlaveEnter
<1>7. ASSUME NEW t \in Slaves, SlaveCheck(t) PROVE RootsCovered'
  BY <1>c, <1>i, <1>7
     DEF TypeOK, MasterControl, RootsCovered, Idle, Converging, WeakDrain, SlaveCheck,
         SlaveRound, DoneCopying, StealSomeCells, Wait
<1>8. ASSUME NEW t \in Slaves, SlaveWake(t) PROVE RootsCovered'
  BY <1>c, <1>i, <1>8
     DEF TypeOK, MasterControl, RootsCovered, Idle, Converging, WeakDrain, SlaveWake,
         SlaveRound, DoneCopying, StealSomeCells, Wait
<1>9. ASSUME NEW t \in Slaves, SlaveDrained(t) PROVE RootsCovered'
  BY <1>c, <1>i, <1>9
     DEF TypeOK, MasterControl, RootsCovered, Idle, Converging, WeakDrain, SlaveDrained,
         MergeOpaqueRoots, BetweenCells
<1>10. ASSUME NEW t \in Threads, SpuriousWakeup(t) PROVE RootsCovered'
  BY <1>c, <1>i, <1>10
     DEF TypeOK, MasterControl, RootsCovered, Idle, Converging, WeakDrain, SpuriousWakeup
<1>11. ASSUME StartCollection PROVE RootsCovered'
  <2>1. marked' = {} /\ group' = 1 /\ pending'[Master] = heap'.roots[1]
    BY <1>c, <1>11 DEF TypeOK, StartCollection
  <2>2. \A g \in 1..NumRootGroups : g <= 1 => g = 1
    OBVIOUS
  <2> QED BY <2>1, <2>2 DEF RootsCovered
<1>12. ASSUME NextRootGroup PROVE RootsCovered'
  <2>1. /\ group + 1 \in 1..NumRootGroups /\ group' = group + 1 /\ heap' = heap /\ ~Idle
        /\ pending[Master] = {} /\ pending'[Master] = heap.roots[group + 1] /\ marked' = marked
    BY <1>c, <1>12
       DEF TypeOK, NextRootGroup, MergeOpaqueRoots, BetweenCells, Idle, Converging
  <2>2. \A g \in 1..NumRootGroups : g <= group' => g <= group \/ g = group + 1
    BY <1>c, <2>1 DEF TypeOK
  <2> QED BY <1>i, <2>1, <2>2 DEF RootsCovered
<1>13. ASSUME RootsDrained PROVE RootsCovered'
  BY <1>c, <1>i, <1>13
     DEF TypeOK, MasterControl, RootsCovered, Idle, Converging, WeakDrain, RootsDrained,
         MergeOpaqueRoots, BetweenCells
<1>14. ASSUME MasterEnter PROVE RootsCovered'
  <2>1. /\ group \in {NumRootGroups, WeakDrain} /\ heap' = heap /\ ~Idle
        /\ pending' = pending /\ marked' = marked
    BY <1>c, <1>14 DEF TypeOK, MasterControl, MasterEnter, Idle
  <2>2. \A g \in 1..NumRootGroups : g <= group
    BY <2>1 DEF WeakDrain
  <2> QED BY <1>i, <2>1, <2>2 DEF RootsCovered
<1>15. ASSUME MasterCheck PROVE RootsCovered'
  BY <1>c, <1>i, <1>15
     DEF TypeOK, MasterControl, RootsCovered, Idle, Converging, WeakDrain, MasterCheck,
         MasterRound, StealSomeCells, Wait
<1>16. ASSUME MasterWake PROVE RootsCovered'
  BY <1>c, <1>i, <1>16
     DEF TypeOK, MasterControl, RootsCovered, Idle, Converging, WeakDrain, MasterWake,
         MasterRound, StealSomeCells, Wait
<1>17. ASSUME MasterDrained PROVE RootsCovered'
  BY <1>c, <1>i, <1>17
     DEF TypeOK, MasterControl, RootsCovered, Idle, Converging, WeakDrain, MasterDrained,
         MergeOpaqueRoots, BetweenCells
<1>18. ASSUME VisitWeakHandles PROVE RootsCovered'
  BY <1>c, <1>i, <1>18
     DEF TypeOK, MasterControl, RootsCovered, Idle, Converging, WeakDrain, VisitWeakHandles
<1>19. ASSUME NEW w \in harvesting, HarvestWeakReference(w) PROVE RootsCovered'
  BY <1>c, <1>i, <1>19
     DEF TypeOK, MasterControl, RootsCovered, Idle, Converging, WeakDrain,
         HarvestWeakReference
<1>20. ASSUME WeakPassDone PROVE RootsCovered'
  <2>1. group = Converging /\ heap' = heap /\ ~Idle /\ pending' = pending /\ marked' = marked
    BY <1>c, <1>20 DEF TypeOK, MasterControl, WeakPassDone, Idle, Quiescent
  <2>2. \A g \in 1..NumRootGroups : g <= group
    BY <2>1 DEF Converging
  <2> QED BY <1>i, <2>1, <2>2 DEF RootsCovered
<1>21. ASSUME ResetVisitors PROVE RootsCovered'
  BY <1>c, <1>i, <1>21
     DEF TypeOK, MasterControl, RootsCovered, Idle, Converging, WeakDrain, ResetVisitors,
         DoneCopying
<1>22. ASSUME FinishCopying PROVE RootsCovered'
  BY <1>c, <1>i, <1>22
     DEF TypeOK, MasterControl, RootsCovered, Idle, Converging, WeakDrain, FinishCopying
<1>23. ASSUME Shutdown PROVE RootsCovered'
  BY <1>c, <1>i, <1>23
     DEF TypeOK, MasterControl, RootsCovered, Idle, Converging, WeakDrain, Shutdown
<1>24. ASSUME JoinSlaves PROVE RootsCovered'
  BY <1>c, <1>i, <1>24
     DEF TypeOK, MasterControl, RootsCovered, Idle, Converging, WeakDrain, JoinSlaves
<1>25. ASSUME UNCHANGED vars PROVE RootsCovered'
  BY <1>c, <1>i, <1>25
     DEF TypeOK, MasterControl, RootsCovered, Idle, Converging, WeakDrain, vars
<1> QED
  BY <1>1, <1>2, <1>3, <1>4, <1>5, <1>6, <1>7, <1>8, <1>9, <1>10, <1>11, <1>12, <1>13,
     <1>14, <1>15, <1>16, <1>17, <1>18, <1>19, <1>20, <1>21, <1>22, <1>23, <1>24, <1>25
     DEF Next, SlaveStep, MasterStep, Drain, Terminated

\* The references of a visited cell are marked, or about to be.
LEMMA EdgesCoveredStep == Control /\ Sound /\ Complete /\ [Next]_vars => EdgesCovered'
<1> SUFFICES ASSUME Control, Sound, Complete, [Next]_vars PROVE EdgesCovered'
  OBVIOUS
<1> USE RootGroupsAssumption, ThreadsAssumption
<1>c. TypeOK /\ MasterControl /\ VisitorControl /\ RestControl
  BY DEF Control
<1>h. IsHeap(heap)
  BY <1>c, HeapsAssumption DEF TypeOK
<1>i. EdgesCovered
  BY DEF Complete
<1>1. ASSUME NEW t \in Threads, NEW c \in stack[t], VisitCell(t, c) PROVE EdgesCovered'
  BY <1>c, <1>i, <1>1
     DEF TypeOK, VisitorControl, EdgesCovered, Grey, Referenced, VisitCell, BetweenCells,
         AddOpaqueRoots
<1>2. ASSUME NEW t \in Threads, NEW c \in pending[t], InternalAppend(t, c) PROVE EdgesCovered'
  BY <1>c, <1>i, <1>2
     DEF TypeOK, VisitorControl, EdgesCovered, Grey, Referenced, InternalAppend
<1>3. ASSUME NEW t \in Threads, CopyStorage(t) PROVE EdgesCovered'
  BY <1>c, <1>i, <1>3
     DEF TypeOK, VisitorControl, EdgesCovered, Grey, Referenced, CopyStorage
<1>4. ASSUME NEW t \in Threads, ReturnFullBlock(t) PROVE EdgesCovered'
  BY <1>c, <1>i, <1>4
     DEF TypeOK, VisitorControl, EdgesCovered, Grey, Referenced, ReturnFullBlock,
         DoneCopying
<1>5. ASSUME NEW t \in Threads, NEW cells \in SUBSET stack[t], Donate(t, cells) PROVE EdgesCovered'
  BY <1>c, <1>i, <1>5
     DEF TypeOK, VisitorControl, EdgesCovered, Grey, Referenced, Donate
<1>6. ASSUME NEW t \in Slaves, SlaveEnter(t) PROVE EdgesCovered'
  BY <1>c, <1>i, <1>6
     DEF TypeOK, VisitorControl, EdgesCovered, Grey, Referenced, SlaveEnter
<1>7. ASSUME NEW t \in Slaves, SlaveCheck(t) PROVE EdgesCovered'
  BY <1>c, <1>i, <1>7
     DEF TypeOK, VisitorControl, EdgesCovered, Grey, Referenced, SlaveCheck, SlaveRound,
         DoneCopying, StealSomeCells, Wait
<1>8. ASSUME NEW t \in Slaves, SlaveWake(t) PROVE EdgesCovered'
  BY <1>c, <1>i, <1>8
     DEF TypeOK, VisitorControl, EdgesCovered, Grey, Referenced, SlaveWake, SlaveRound,
         DoneCopying, StealSomeCells, Wait
<1>9. ASSUME NEW t \in Slaves, SlaveDrained(t) PROVE EdgesCovered'
  BY <1>c, <1>i, <1>9
     DEF TypeOK, VisitorControl, EdgesCovered, Grey, Referenced, SlaveDrained,
         MergeOpaqueRoots, BetweenCells
<1>10. ASSUME NEW t \in Threads, SpuriousWakeup(t) PROVE EdgesCovered'
  BY <1>c, <1>i, <1>10
     DEF TypeOK, VisitorControl, EdgesCovered, Grey, Referenced, SpuriousWakeup
<1>11. ASSUME StartCollection PROVE EdgesCovered'
  BY <1>c, <1>i, <1>11
     DEF TypeOK, VisitorControl, EdgesCovered, Grey, Referenced, StartCollection
<1>12. ASSUME NextRootGroup PROVE EdgesCovered'
  BY <1>c, <1>i, <1>12
     DEF TypeOK, VisitorControl, EdgesCovered, Grey, Referenced, NextRootGroup,
         MergeOpaqueRoots, BetweenCells
<1>13. ASSUME RootsDrained PROVE EdgesCovered'
  BY <1>c, <1>i, <1>13
     DEF TypeOK, VisitorControl, EdgesCovered, Grey, Referenced, RootsDrained,
         MergeOpaqueRoots, BetweenCells
<1>14. ASSUME MasterEnter PROVE EdgesCovered'
  BY <1>c, <1>i, <1>14
     DEF TypeOK, VisitorControl, EdgesCovered, Grey, Referenced, MasterEnter
<1>15. ASSUME MasterCheck PROVE EdgesCovered'
  BY <1>c, <1>i, <1>15
     DEF TypeOK, VisitorControl, EdgesCovered, Grey, Referenced, MasterCheck, MasterRound,
         StealSomeCells, Wait
<1>16. ASSUME MasterWake PROVE EdgesCovered'
  BY <1>c, <1>i, <1>16
     DEF TypeOK, VisitorControl, EdgesCovered, Grey, Referenced, MasterWake, MasterRound,
         StealSomeCells, Wait
<1>17. ASSUME MasterDrained PROVE EdgesCovered'
  BY <1>c, <1>i, <1>17
     DEF TypeOK, VisitorControl, EdgesCovered, Grey, Referenced, MasterDrained,
         MergeOpaqueRoots, BetweenCells
<1>18. ASSUME VisitWeakHandles PROVE EdgesCovered'
  BY <1>c, <1>i, <1>18
     DEF TypeOK, VisitorControl, EdgesCovered, Grey, Referenced, VisitWeakHandles
<1>19. ASSUME NEW w \in harvesting, HarvestWeakReference(w) PROVE EdgesCovered'
  BY <1>c, <1>i, <1>19
     DEF TypeOK, VisitorControl, EdgesCovered, Grey, Referenced, HarvestWeakReference
<1>20. ASSUME WeakPassDone PROVE EdgesCovered'
  BY <1>c, <1>i, <1>20
     DEF TypeOK, VisitorControl, EdgesCovered, Grey, Referenced, WeakPassDone
<1>21. ASSUME ResetVisitors PROVE EdgesCovered'
  BY <1>c, <1>i, <1>21
     DEF TypeOK, VisitorControl, EdgesCovered, Grey, Referenced, ResetVisitors, DoneCopying
<1>22. ASSUME FinishCopying PROVE EdgesCovered'
  BY <1>c, <1>i, <1>22
     DEF TypeOK, VisitorControl, EdgesCovered, Grey, Referenced, FinishCopying
<1>23. ASSUME Shutdown PROVE EdgesCovered'
  BY <1>c, <1>i, <1>23
     DEF TypeOK, VisitorControl, EdgesCovered, Grey, Referenced, Shutdown
<1>24. ASSUME JoinSlaves PROVE EdgesCovered'
  BY <1>c, <1>i, <1>24
     DEF TypeOK, VisitorControl, EdgesCovered, Grey, Referenced, JoinSlaves
<1>25. ASSUME UNCHANGED vars PROVE EdgesCovered'
  BY <1>c, <1>i, <1>25
     DEF TypeOK, VisitorControl, EdgesCovered, Grey, Referenced, vars
<1> QED
  BY <1>1, <1>2, <1>3, <1>4, <1>5, <1>6, <1>7, <1>8, <1>9, <1>10, <1>11, <1>12, <1>13,
     <1>14, <1>15, <1>16, <1>17, <1>18, <1>19, <1>20, <1>21, <1>22, <1>23, <1>24, <1>25
     DEF Next, SlaveStep, MasterStep, Drain, Terminated

\* The opaque roots of a visited cell are in some set of opaque roots.
LEMMA OpaqueCoveredStep == Control /\ Sound /\ Complete /\ [Next]_vars => OpaqueCovered'
<1> SUFFICES ASSUME Control, Sound, Complete, [Next]_vars PROVE OpaqueCovered'
  OBVIOUS
<1> USE RootGroupsAssumption, ThreadsAssumption
<1>c. TypeOK /\ MasterControl /\ VisitorControl /\ RestControl
  BY DEF Control
<1>h. IsHeap(heap)
  BY <1>c, HeapsAssumption DEF TypeOK
<1>i. OpaqueCovered
  BY DEF Complete
<1>1. ASSUME NEW t \in Threads, NEW c \in stack[t], VisitCell(t, c) PROVE OpaqueCovered'
  BY <1>c, <1>i, <1>1
     DEF TypeOK, OpaqueCovered, Grey, Idle, VisitCell, BetweenCells, AddOpaqueRoots
<1>2. ASSUME NEW t \in Threads, NEW c \in pending[t], InternalAppend(t, c) PROVE OpaqueCovered'
  BY <1>c, <1>i, <1>2
     DEF TypeOK, OpaqueCovered, Grey, Idle, InternalAppend
<1>3. ASSUME NEW t \in Threads, CopyStorage(t) PROVE OpaqueCovered'
  BY <1>c, <1>i, <1>3
     DEF TypeOK, OpaqueCovered, Grey, Idle, CopyStorage
<1>4. ASSUME NEW t \in Threads, ReturnFullBlock(t) PROVE OpaqueCovered'
  BY <1>c, <1>i, <1>4
     DEF TypeOK, OpaqueCovered, Grey, Idle, ReturnFullBlock, DoneCopying
<1>5. ASSUME NEW t \in Threads, NEW cells \in SUBSET stack[t], Donate(t, cells) PROVE OpaqueCovered'
  BY <1>c, <1>i, <1>5
     DEF TypeOK, OpaqueCovered, Grey, Idle, Donate
<1>6. ASSUME NEW t \in Slaves, SlaveEnter(t) PROVE OpaqueCovered'
  BY <1>c, <1>i, <1>6
     DEF TypeOK, OpaqueCovered, Grey, Idle, SlaveEnter
<1>7. ASSUME NEW t \in Slaves, SlaveCheck(t) PROVE OpaqueCovered'
  BY <1>c, <1>i, <1>7
     DEF TypeOK, OpaqueCovered, Grey, Idle, SlaveCheck, SlaveRound, DoneCopying,
         StealSomeCells, Wait
<1>8. ASSUME NEW t \in Slaves, SlaveWake(t) PROVE OpaqueCovered'
  BY <1>c, <1>i, <1>8
     DEF TypeOK, OpaqueCovered, Grey, Idle, SlaveWake, SlaveRound, DoneCopying,
         StealSomeCells, Wait
<1>9. ASSUME NEW t \in Slaves, SlaveDrained(t) PROVE OpaqueCovered'
  BY <1>c, <1>i, <1>9
     DEF TypeOK, OpaqueCovered, Grey, Idle, SlaveDrained, MergeOpaqueRoots, BetweenCells
<1>10. ASSUME NEW t \in Threads, SpuriousWakeup(t) PROVE OpaqueCovered'
  BY <1>c, <1>i, <1>10
     DEF TypeOK, OpaqueCovered, Grey, Idle, SpuriousWakeup
<1>11. ASSUME StartCollection PROVE OpaqueCovered'
  BY <1>c, <1>i, <1>11
     DEF TypeOK, OpaqueCovered, Grey, Idle, StartCollection
<1>12. ASSUME NextRootGroup PROVE OpaqueCovered'
  BY <1>c, <1>i, <1>12
     DEF TypeOK, OpaqueCovered, Grey, Idle, NextRootGroup, MergeOpaqueRoots, BetweenCells
<1>13. ASSUME RootsDrained PROVE OpaqueCovered'
  BY <1>c, <1>i, <1>13
     DEF TypeOK, OpaqueCovered, Grey, Idle, RootsDrained, MergeOpaqueRoots, BetweenCells
<1>14. ASSUME MasterEnter PROVE OpaqueCovered'
  BY <1>c, <1>i, <1>14
     DEF TypeOK, OpaqueCovered, Grey, Idle, MasterEnter
<1>15. ASSUME MasterCheck PROVE OpaqueCovered'
  BY <1>c, <1>i, <1>15
     DEF TypeOK, OpaqueCovered, Grey, Idle, MasterCheck, MasterRound, StealSomeCells, Wait
<1>16. ASSUME MasterWake PROVE OpaqueCovered'
  BY <1>c, <1>i, <1>16
     DEF TypeOK, OpaqueCovered, Grey, Idle, MasterWake, MasterRound, StealSomeCells, Wait
<1>17. ASSUME MasterDrained PROVE OpaqueCovered'
  BY <1>c, <1>i, <1>17
     DEF TypeOK, OpaqueCovered, Grey, Idle, MasterDrained, MergeOpaqueRoots, BetweenCells
<1>18. ASSUME VisitWeakHandles PROVE OpaqueCovered'
  BY <1>c, <1>i, <1>18
     DEF TypeOK, OpaqueCovered, Grey, Idle, VisitWeakHandles
<1>19. ASSUME NEW w \in harvesting, HarvestWeakReference(w) PROVE OpaqueCovered'
  BY <1>c, <1>i, <1>19
     DEF TypeOK, OpaqueCovered, Grey, Idle, HarvestWeakReference
<1>20. ASSUME WeakPassDone PROVE OpaqueCovered'
  BY <1>c, <1>i, <1>20
     DEF TypeOK, OpaqueCovered, Grey, Idle, WeakPassDone
<1>21. ASSUME ResetVisitors PROVE OpaqueCovered'
  BY <1>c, <1>i, <1>21
     DEF TypeOK, OpaqueCovered, Grey, Idle, ResetVisitors, DoneCopying
<1>22. ASSUME FinishCopying PROVE OpaqueCovered'
  BY <1>c, <1>i, <1>22
     DEF TypeOK, OpaqueCovered, Grey, Idle, FinishCopying
<1>23. ASSUME Shutdown PROVE OpaqueCovered'
  BY <1>c, <1>i, <1>23
     DEF TypeOK, OpaqueCovered, Grey, Idle, Shutdown
<1>24. ASSUME JoinSlaves PROVE OpaqueCovered'
  BY <1>c, <1>i, <1>24
     DEF TypeOK, OpaqueCovered, Grey, Idle, JoinSlaves
<1>25. ASSUME UNCHANGED vars PROVE OpaqueCovered'
  BY <1>c, <1>i, <1>25
     DEF TypeOK, OpaqueCovered, Grey, Idle, vars
<1> QED
  BY <1>1, <1>2, <1>3, <1>4, <1>5, <1>6, <1>7, <1>8, <1>9, <1>10, <1>11, <1>12, <1>13,
     <1>14, <1>15, <1>16, <1>17, <1>18, <1>19, <1>20, <1>21, <1>22, <1>23, <1>24, <1>25
     DEF Next, SlaveStep, MasterStep, Drain, Terminated

\* The harvesters of a visited cell are registered, or have fired.
LEMMA HarvestersCoveredStep == Control /\ Sound /\ Complete /\ [Next]_vars => HarvestersCovered'
<1> SUFFICES ASSUME Control, Sound, Complete, [Next]_vars PROVE HarvestersCovered'
  OBVIOUS
<1> USE RootGroupsAssumption, ThreadsAssumption
<1>c. TypeOK /\ MasterControl /\ VisitorControl /\ RestControl
  BY DEF Control
<1>h. IsHeap(heap)
  BY <1>c, HeapsAssumption DEF TypeOK
<1>i. HarvestersCovered
  BY DEF Complete
<1>1. ASSUME NEW t \in Threads, NEW c \in stack[t], VisitCell(t, c) PROVE HarvestersCovered'
  <2>1. \A w \in heap.harvesters : w.owner = c =>
           c \in registered' \/ \A x \in w.gives : x \in pending'[t]
    <3> DEFINE live == {w \in HarvestersOf(heap, c) : Fires(w, marked)}
    <3>1. pending'[t] = heap.edges[c] \cup UNION {w.gives : w \in live}
      BY <1>c, <1>1 DEF VisitCell, TypeOK
    <3>2. live # HarvestersOf(heap, c) => c \in registered'
      BY <1>1 DEF VisitCell
    <3> QED BY <3>1, <3>2 DEF HarvestersOf
  <2>2. registered \subseteq registered'
    BY <1>1 DEF VisitCell
  <2>3. \A x \in Cells : Grey(x) => Grey(x)' \/ x = c
    BY <1>c, <1>1 DEF Grey, VisitCell, TypeOK
  <2>4. \A x : Referenced(x) => Referenced(x)'
    BY <1>c, <1>1 DEF Referenced, VisitCell, BetweenCells, TypeOK
  <2>5. /\ heap' = heap /\ marked' = marked /\ marked \subseteq Cells
        /\ (~Idle /\ pc[Master] # "loans")' => ~Idle /\ pc[Master] # "loans"
    BY <1>c, <1>1 DEF VisitCell, BetweenCells, TypeOK, Idle
  <2> SUFFICES ASSUME ~Idle /\ pc[Master] # "loans",
                      NEW w \in heap.harvesters, w.owner \in marked
               PROVE  \/ Grey(w.owner)'
                      \/ w.owner \in registered'
                      \/ \A x \in w.gives : x \in marked \/ Referenced(x)'
    BY <2>5 DEF HarvestersCovered
  <2>6. CASE w.owner = c
    BY <2>1, <2>6 DEF Referenced
  <2>7. CASE w.owner # c
    BY <1>i, <2>2, <2>3, <2>4, <2>5, <2>7 DEF HarvestersCovered
  <2> QED BY <2>6, <2>7
<1>2. ASSUME NEW t \in Threads, NEW c \in pending[t], InternalAppend(t, c) PROVE HarvestersCovered'
  BY <1>c, <1>i, <1>2
     DEF TypeOK, HarvestersCovered, Grey, Referenced, Idle, InternalAppend
<1>3. ASSUME NEW t \in Threads, CopyStorage(t) PROVE HarvestersCovered'
  BY <1>c, <1>i, <1>3
     DEF TypeOK, HarvestersCovered, Grey, Referenced, Idle, CopyStorage
<1>4. ASSUME NEW t \in Threads, ReturnFullBlock(t) PROVE HarvestersCovered'
  BY <1>c, <1>i, <1>4
     DEF TypeOK, HarvestersCovered, Grey, Referenced, Idle, ReturnFullBlock, DoneCopying
<1>5. ASSUME NEW t \in Threads, NEW cells \in SUBSET stack[t], Donate(t, cells) PROVE HarvestersCovered'
  BY <1>c, <1>i, <1>5
     DEF TypeOK, HarvestersCovered, Grey, Referenced, Idle, Donate
<1>6. ASSUME NEW t \in Slaves, SlaveEnter(t) PROVE HarvestersCovered'
  BY <1>c, <1>i, <1>6
     DEF TypeOK, HarvestersCovered, Grey, Referenced, Idle, SlaveEnter
<1>7. ASSUME NEW t \in Slaves, SlaveCheck(t) PROVE HarvestersCovered'
  BY <1>c, <1>i, <1>7
     DEF TypeOK, HarvestersCovered, Grey, Referenced, Idle, SlaveCheck, SlaveRound,
         DoneCopying, StealSomeCells, Wait
<1>8. ASSUME NEW t \in Slaves, SlaveWake(t) PROVE HarvestersCovered'
  BY <1>c, <1>i, <1>8
     DEF TypeOK, HarvestersCovered, Grey, Referenced, Idle, SlaveWake, SlaveRound,
         DoneCopying, StealSomeCells, Wait
<1>9. ASSUME NEW t \in Slaves, SlaveDrained(t) PROVE HarvestersCovered'
  BY <1>c, <1>i, <1>9
     DEF TypeOK, HarvestersCovered, Grey, Referenced, Idle, SlaveDrained, MergeOpaqueRoots,
         BetweenCells
<1>10. ASSUME NEW t \in Threads, SpuriousWakeup(t) PROVE HarvestersCovered'
  BY <1>c, <1>i, <1>10
     DEF TypeOK, HarvestersCovered, Grey, Referenced, Idle, SpuriousWakeup
<1>11. ASSUME StartCollection PROVE HarvestersCovered'
  BY <1>c, <1>i, <1>11
     DEF TypeOK, HarvestersCovered, Grey, Referenced, Idle, StartCollection
<1>12. ASSUME NextRootGroup PROVE HarvestersCovered'
  BY <1>c, <1>i, <1>12
     DEF TypeOK, HarvestersCovered, Grey, Referenced, Idle, NextRootGroup, MergeOpaqueRoots,
         BetweenCells
<1>13. ASSUME RootsDrained PROVE HarvestersCovered'
  BY <1>c, <1>i, <1>13
     DEF TypeOK, HarvestersCovered, Grey, Referenced, Idle, RootsDrained, MergeOpaqueRoots,
         BetweenCells
<1>14. ASSUME MasterEnter PROVE HarvestersCovered'
  BY <1>c, <1>i, <1>14
     DEF TypeOK, HarvestersCovered, Grey, Referenced, Idle, MasterEnter
<1>15. ASSUME MasterCheck PROVE HarvestersCovered'
  BY <1>c, <1>i, <1>15
     DEF TypeOK, HarvestersCovered, Grey, Referenced, Idle, MasterCheck, MasterRound,
         StealSomeCells, Wait
<1>16. ASSUME MasterWake PROVE HarvestersCovered'
  BY <1>c, <1>i, <1>16
     DEF TypeOK, HarvestersCovered, Grey, Referenced, Idle, MasterWake, MasterRound,
         StealSomeCells, Wait
<1>17. ASSUME MasterDrained PROVE HarvestersCovered'
  BY <1>c, <1>i, <1>17
     DEF TypeOK, HarvestersCovered, Grey, Referenced, Idle, MasterDrained, MergeOpaqueRoots,
         BetweenCells
<1>18. ASSUME VisitWeakHandles PROVE HarvestersCovered'
  BY <1>c, <1>i, <1>18
     DEF TypeOK, HarvestersCovered, Grey, Referenced, Idle, VisitWeakHandles
<1>19. ASSUME NEW w \in harvesting, HarvestWeakReference(w) PROVE HarvestersCovered'
  BY <1>c, <1>i, <1>19
     DEF TypeOK, HarvestersCovered, Grey, Referenced, Idle, HarvestWeakReference
<1>20. ASSUME WeakPassDone PROVE HarvestersCovered'
  BY <1>c, <1>i, <1>20
     DEF TypeOK, HarvestersCovered, Grey, Referenced, Idle, WeakPassDone
<1>21. ASSUME ResetVisitors PROVE HarvestersCovered'
  BY <1>c, <1>i, <1>21
     DEF TypeOK, HarvestersCovered, Grey, Referenced, Idle, ResetVisitors, DoneCopying
<1>22. ASSUME FinishCopying PROVE HarvestersCovered'
  BY <1>c, <1>i, <1>22
     DEF TypeOK, HarvestersCovered, Grey, Referenced, Idle, FinishCopying
<1>23. ASSUME Shutdown PROVE HarvestersCovered'
  BY <1>c, <1>i, <1>23
     DEF TypeOK, HarvestersCovered, Grey, Referenced, Idle, Shutdown
<1>24. ASSUME JoinSlaves PROVE HarvestersCovered'
  BY <1>c, <1>i, <1>24
     DEF TypeOK, HarvestersCovered, Grey, Referenced, Idle, JoinSlaves
<1>25. ASSUME UNCHANGED vars PROVE HarvestersCovered'
  BY <1>c, <1>i, <1>25
     DEF TypeOK, HarvestersCovered, Grey, Referenced, Idle, vars
<1> QED
  BY <1>1, <1>2, <1>3, <1>4, <1>5, <1>6, <1>7, <1>8, <1>9, <1>10, <1>11, <1>12, <1>13,
     <1>14, <1>15, <1>16, <1>17, <1>18, <1>19, <1>20, <1>21, <1>22, <1>23, <1>24, <1>25
     DEF Next, SlaveStep, MasterStep, Drain, Terminated

\* A weak pass that found nothing had nothing to find.
LEMMA WeakCoveredStep == Control /\ Sound /\ Complete /\ [Next]_vars => WeakCovered'
<1> SUFFICES ASSUME Control, Sound, Complete, [Next]_vars PROVE WeakCovered'
  OBVIOUS
<1> USE RootGroupsAssumption, ThreadsAssumption
<1>c. TypeOK /\ MasterControl /\ VisitorControl /\ RestControl
  BY DEF Control
<1>h. IsHeap(heap)
  BY <1>c, HeapsAssumption DEF TypeOK
<1>i. WeakCovered
  BY DEF Complete
<1>1. ASSUME NEW t \in Threads, NEW c \in stack[t], VisitCell(t, c) PROVE WeakCovered'
  BY <1>c, <1>i, <1>1
     DEF TypeOK, WeakCovered, RestControl, Resting, Quiescent, Working, VisitCell,
         BetweenCells, AddOpaqueRoots
<1>2. ASSUME NEW t \in Threads, NEW c \in pending[t], InternalAppend(t, c) PROVE WeakCovered'
  BY <1>c, <1>i, <1>2
     DEF TypeOK, WeakCovered, RestControl, Resting, Quiescent, Working, InternalAppend
<1>3. ASSUME NEW t \in Threads, CopyStorage(t) PROVE WeakCovered'
  BY <1>c, <1>i, <1>3
     DEF TypeOK, WeakCovered, RestControl, Resting, Quiescent, Working, CopyStorage
<1>4. ASSUME NEW t \in Threads, ReturnFullBlock(t) PROVE WeakCovered'
  BY <1>c, <1>i, <1>4
     DEF TypeOK, WeakCovered, RestControl, Resting, Quiescent, Working, ReturnFullBlock,
         DoneCopying
<1>5. ASSUME NEW t \in Threads, NEW cells \in SUBSET stack[t], Donate(t, cells) PROVE WeakCovered'
  BY <1>c, <1>i, <1>5
     DEF TypeOK, WeakCovered, RestControl, Resting, Quiescent, Working, Donate
<1>6. ASSUME NEW t \in Slaves, SlaveEnter(t) PROVE WeakCovered'
  BY <1>c, <1>i, <1>6
     DEF TypeOK, WeakCovered, RestControl, Resting, Quiescent, Working, SlaveEnter
<1>7. ASSUME NEW t \in Slaves, SlaveCheck(t) PROVE WeakCovered'
  BY <1>c, <1>i, <1>7
     DEF TypeOK, WeakCovered, RestControl, Resting, Quiescent, Working, SlaveCheck,
         SlaveRound, DoneCopying, StealSomeCells, Wait
<1>8. ASSUME NEW t \in Slaves, SlaveWake(t) PROVE WeakCovered'
  BY <1>c, <1>i, <1>8
     DEF TypeOK, WeakCovered, RestControl, Resting, Quiescent, Working, SlaveWake,
         SlaveRound, DoneCopying, StealSomeCells, Wait
<1>9. ASSUME NEW t \in Slaves, SlaveDrained(t) PROVE WeakCovered'
  BY <1>c, <1>i, <1>9
     DEF TypeOK, WeakCovered, RestControl, Resting, Quiescent, Working, SlaveDrained,
         MergeOpaqueRoots, BetweenCells
<1>10. ASSUME NEW t \in Threads, SpuriousWakeup(t) PROVE WeakCovered'
  BY <1>c, <1>i, <1>10
     DEF TypeOK, WeakCovered, RestControl, Resting, Quiescent, Working, SpuriousWakeup
<1>11. ASSUME StartCollection PROVE WeakCovered'
  BY <1>c, <1>i, <1>11
     DEF TypeOK, WeakCovered, RestControl, Resting, Quiescent, Working, StartCollection
<1>12. ASSUME NextRootGroup PROVE WeakCovered'
  BY <1>c, <1>i, <1>12
     DEF TypeOK, WeakCovered, RestControl, Resting, Quiescent, Working, NextRootGroup,
         MergeOpaqueRoots, BetweenCells
<1>13. ASSUME RootsDrained PROVE WeakCovered'
  BY <1>c, <1>i, <1>13
     DEF TypeOK, WeakCovered, RestControl, Resting, Quiescent, Working, RootsDrained,
         MergeOpaqueRoots, BetweenCells
<1>14. ASSUME MasterEnter PROVE WeakCovered'
  BY <1>c, <1>i, <1>14
     DEF TypeOK, WeakCovered, RestControl, Resting, Quiescent, Working, MasterEnter
<1>15. ASSUME MasterCheck PROVE WeakCovered'
  BY <1>c, <1>i, <1>15
     DEF TypeOK, WeakCovered, RestControl, Resting, Quiescent, Working, MasterCheck,
         MasterRound, StealSomeCells, Wait
<1>16. ASSUME MasterWake PROVE WeakCovered'
  BY <1>c, <1>i, <1>16
     DEF TypeOK, WeakCovered, RestControl, Resting, Quiescent, Working, MasterWake,
         MasterRound, StealSomeCells, Wait
<1>17. ASSUME MasterDrained PROVE WeakCovered'
  BY <1>c, <1>i, <1>17
     DEF TypeOK, WeakCovered, RestControl, Resting, Quiescent, Working, MasterDrained,
         MergeOpaqueRoots, BetweenCells
<1>18. ASSUME VisitWeakHandles PROVE WeakCovered'
  BY <1>c, <1>i, <1>18
     DEF TypeOK, WeakCovered, RestControl, Resting, Quiescent, Working, VisitWeakHandles
<1>19. ASSUME NEW w \in harvesting, HarvestWeakReference(w) PROVE WeakCovered'
  <2>1. /\ pc[Master] = "harvest" /\ UNCHANGED <<heap, sharedOpaque, registered>>
        /\ marked \subseteq marked' /\ harvesting' = harvesting \ {w}
    BY <1>19 DEF HarvestWeakReference
  <2>2. stack'[Master] = {} =>
           /\ stack[Master] = {} /\ marked' = marked
           /\ Fires(w, marked) => w.gives \subseteq marked
    BY <1>c, <1>19 DEF TypeOK, HarvestWeakReference
  <2> QED BY <1>c, <1>i, <2>1, <2>2 DEF WeakCovered
<1>20. ASSUME WeakPassDone PROVE WeakCovered'
  BY <1>c, <1>i, <1>20
     DEF TypeOK, WeakCovered, RestControl, Resting, Quiescent, Working, WeakPassDone
<1>21. ASSUME ResetVisitors PROVE WeakCovered'
  BY <1>c, <1>i, <1>21
     DEF TypeOK, WeakCovered, RestControl, Resting, Quiescent, Working, ResetVisitors,
         DoneCopying
<1>22. ASSUME FinishCopying PROVE WeakCovered'
  BY <1>c, <1>i, <1>22
     DEF TypeOK, WeakCovered, RestControl, Resting, Quiescent, Working, FinishCopying
<1>23. ASSUME Shutdown PROVE WeakCovered'
  BY <1>c, <1>i, <1>23
     DEF TypeOK, WeakCovered, RestControl, Resting, Quiescent, Working, Shutdown
<1>24. ASSUME JoinSlaves PROVE WeakCovered'
  BY <1>c, <1>i, <1>24
     DEF TypeOK, WeakCovered, RestControl, Resting, Quiescent, Working, JoinSlaves
<1>25. ASSUME UNCHANGED vars PROVE WeakCovered'
  BY <1>c, <1>i, <1>25
     DEF TypeOK, WeakCovered, RestControl, Resting, Quiescent, Working, vars
<1> QED
  BY <1>1, <1>2, <1>3, <1>4, <1>5, <1>6, <1>7, <1>8, <1>9, <1>10, <1>11, <1>12, <1>13,
     <1>14, <1>15, <1>16, <1>17, <1>18, <1>19, <1>20, <1>21, <1>22, <1>23, <1>24, <1>25
     DEF Next, SlaveStep, MasterStep, Drain, Terminated

\* When the weak loop stops, the marks are closed.
LEMMA WeakPassCloses ==
  ASSUME Control, Sound, Complete, pc[Master] = "harvest", harvesting = {}, stack[Master] = {}
  PROVE  Closed(heap, marked)
<1> USE RootGroupsAssumption, ThreadsAssumption
<1>c. TypeOK /\ MasterControl /\ VisitorControl /\ RestControl
  BY DEF Control
<1>h. IsHeap(heap)
  BY <1>c, HeapsAssumption DEF TypeOK
<1>1. /\ \A c : ~Grey(c) /\ ~Referenced(c)
      /\ \A t \in Threads : localOpaque[t] = {}
  BY <1>c DEF VisitorControl, RestControl, Resting, Quiescent, Working, Grey, Referenced
<1>2. \A g \in 1..NumRootGroups : heap.roots[g] \subseteq marked
  <2>1. \A g \in 1..NumRootGroups : g <= group
    BY <1>c DEF MasterControl, Quiescent, Converging
  <2> QED BY <1>1, <2>1 DEF Complete, RootsCovered, Idle, Referenced
<1>3. \A c \in marked : heap.edges[c] \subseteq marked
  BY <1>1 DEF Complete, EdgesCovered
<1>4. \A c \in Cells : heap.context[c] \cap OpaqueRootsOf(heap, marked) # {} => c \in marked
  <2>1. OpaqueRootsOf(heap, marked) \subseteq sharedOpaque
    BY <1>1 DEF Complete, OpaqueCovered, OpaqueRootsOf, Idle
  <2> QED BY <2>1 DEF Complete, WeakCovered
<1>5. \A w \in heap.harvesters : w.owner \in marked /\ Fires(w, marked) => w.gives \subseteq marked
  BY <1>1 DEF Complete, HarvestersCovered, WeakCovered, Idle
<1> QED BY <1>2, <1>3, <1>4, <1>5 DEF Closed

\* The marks are closed from the end of the weak loop to the next collection.
LEMMA TracedClosedStep == Control /\ Sound /\ Complete /\ [Next]_vars => TracedClosed'
<1> SUFFICES ASSUME Control, Sound, Complete, [Next]_vars PROVE TracedClosed'
  OBVIOUS
<1> USE RootGroupsAssumption, ThreadsAssumption
<1>c. TypeOK /\ MasterControl /\ VisitorControl /\ RestControl
  BY DEF Control
<1>h. IsHeap(heap)
  BY <1>c, HeapsAssumption DEF TypeOK
<1>i. TracedClosed
  BY DEF Complete
<1>1. ASSUME NEW t \in Threads, NEW c \in stack[t], VisitCell(t, c) PROVE TracedClosed'
  BY <1>c, <1>i, <1>1
     DEF TypeOK, TracedClosed, Traced, Idle, RestControl, Resting, Quiescent, Working,
         VisitCell, BetweenCells, AddOpaqueRoots
<1>2. ASSUME NEW t \in Threads, NEW c \in pending[t], InternalAppend(t, c) PROVE TracedClosed'
  BY <1>c, <1>i, <1>2
     DEF TypeOK, TracedClosed, Traced, Idle, RestControl, Resting, Quiescent, Working,
         InternalAppend
<1>3. ASSUME NEW t \in Threads, CopyStorage(t) PROVE TracedClosed'
  BY <1>c, <1>i, <1>3
     DEF TypeOK, TracedClosed, Traced, Idle, RestControl, Resting, Quiescent, Working,
         CopyStorage
<1>4. ASSUME NEW t \in Threads, ReturnFullBlock(t) PROVE TracedClosed'
  BY <1>c, <1>i, <1>4
     DEF TypeOK, TracedClosed, Traced, Idle, RestControl, Resting, Quiescent, Working,
         ReturnFullBlock, DoneCopying
<1>5. ASSUME NEW t \in Threads, NEW cells \in SUBSET stack[t], Donate(t, cells) PROVE TracedClosed'
  BY <1>c, <1>i, <1>5
     DEF TypeOK, TracedClosed, Traced, Idle, RestControl, Resting, Quiescent, Working,
         Donate
<1>6. ASSUME NEW t \in Slaves, SlaveEnter(t) PROVE TracedClosed'
  BY <1>c, <1>i, <1>6
     DEF TypeOK, TracedClosed, Traced, Idle, RestControl, Resting, Quiescent, Working,
         SlaveEnter
<1>7. ASSUME NEW t \in Slaves, SlaveCheck(t) PROVE TracedClosed'
  BY <1>c, <1>i, <1>7
     DEF TypeOK, TracedClosed, Traced, Idle, RestControl, Resting, Quiescent, Working,
         SlaveCheck, SlaveRound, DoneCopying, StealSomeCells, Wait
<1>8. ASSUME NEW t \in Slaves, SlaveWake(t) PROVE TracedClosed'
  BY <1>c, <1>i, <1>8
     DEF TypeOK, TracedClosed, Traced, Idle, RestControl, Resting, Quiescent, Working,
         SlaveWake, SlaveRound, DoneCopying, StealSomeCells, Wait
<1>9. ASSUME NEW t \in Slaves, SlaveDrained(t) PROVE TracedClosed'
  BY <1>c, <1>i, <1>9
     DEF TypeOK, TracedClosed, Traced, Idle, RestControl, Resting, Quiescent, Working,
         SlaveDrained, MergeOpaqueRoots, BetweenCells
<1>10. ASSUME NEW t \in Threads, SpuriousWakeup(t) PROVE TracedClosed'
  BY <1>c, <1>i, <1>10
     DEF TypeOK, TracedClosed, Traced, Idle, RestControl, Resting, Quiescent, Working,
         SpuriousWakeup
<1>11. ASSUME StartCollection PROVE TracedClosed'
  BY <1>c, <1>i, <1>11
     DEF TypeOK, TracedClosed, Traced, Idle, RestControl, Resting, Quiescent, Working,
         StartCollection
<1>12. ASSUME NextRootGroup PROVE TracedClosed'
  BY <1>c, <1>i, <1>12
     DEF TypeOK, TracedClosed, Traced, Idle, RestControl, Resting, Quiescent, Working,
         NextRootGroup, MergeOpaqueRoots, BetweenCells
<1>13. ASSUME RootsDrained PROVE TracedClosed'
  BY <1>c, <1>i, <1>13
     DEF TypeOK, TracedClosed, Traced, Idle, RestControl, Resting, Quiescent, Working,
         RootsDrained, MergeOpaqueRoots, BetweenCells
<1>14. ASSUME MasterEnter PROVE TracedClosed'
  BY <1>c, <1>i, <1>14
     DEF TypeOK, TracedClosed, Traced, Idle, RestControl, Resting, Quiescent, Working,
         MasterEnter
<1>15. ASSUME MasterCheck PROVE TracedClosed'
  BY <1>c, <1>i, <1>15
     DEF TypeOK, TracedClosed, Traced, Idle, RestControl, Resting, Quiescent, Working,
         MasterCheck, MasterRound, StealSomeCells, Wait
<1>16. ASSUME MasterWake PROVE TracedClosed'
  BY <1>c, <1>i, <1>16
     DEF TypeOK, TracedClosed, Traced, Idle, RestControl, Resting, Quiescent, Working,
         MasterWake, MasterRound, StealSomeCells, Wait
<1>17. ASSUME MasterDrained PROVE TracedClosed'
  BY <1>c, <1>i, <1>17
     DEF TypeOK, TracedClosed, Traced, Idle, RestControl, Resting, Quiescent, Working,
         MasterDrained, MergeOpaqueRoots, BetweenCells
<1>18. ASSUME VisitWeakHandles PROVE TracedClosed'
  BY <1>c, <1>i, <1>18
     DEF TypeOK, TracedClosed, Traced, Idle, RestControl, Resting, Quiescent, Working,
         VisitWeakHandles
<1>19. ASSUME NEW w \in harvesting, HarvestWeakReference(w) PROVE TracedClosed'
  BY <1>c, <1>i, <1>19
     DEF TypeOK, TracedClosed, Traced, Idle, RestControl, Resting, Quiescent, Working,
         HarvestWeakReference
<1>20. ASSUME WeakPassDone PROVE TracedClosed'
  BY <1>c, <1>i, <1>20, WeakPassCloses DEF TypeOK, TracedClosed, Traced, Idle, WeakPassDone
<1>21. ASSUME ResetVisitors PROVE TracedClosed'
  BY <1>c, <1>i, <1>21
     DEF TypeOK, TracedClosed, Traced, Idle, RestControl, Resting, Quiescent, Working,
         ResetVisitors, DoneCopying
<1>22. ASSUME FinishCopying PROVE TracedClosed'
  BY <1>c, <1>i, <1>22
     DEF TypeOK, TracedClosed, Traced, Idle, RestControl, Resting, Quiescent, Working,
         FinishCopying
<1>23. ASSUME Shutdown PROVE TracedClosed'
  BY <1>c, <1>i, <1>23
     DEF TypeOK, TracedClosed, Traced, Idle, RestControl, Resting, Quiescent, Working,
         Shutdown
<1>24. ASSUME JoinSlaves PROVE TracedClosed'
  BY <1>c, <1>i, <1>24
     DEF TypeOK, TracedClosed, Traced, Idle, RestControl, Resting, Quiescent, Working,
         JoinSlaves
<1>25. ASSUME UNCHANGED vars PROVE TracedClosed'
  BY <1>c, <1>i, <1>25
     DEF TypeOK, TracedClosed, Traced, Idle, RestControl, Resting, Quiescent, Working, vars
<1> QED
  BY <1>1, <1>2, <1>3, <1>4, <1>5, <1>6, <1>7, <1>8, <1>9, <1>10, <1>11, <1>12, <1>13,
     <1>14, <1>15, <1>16, <1>17, <1>18, <1>19, <1>20, <1>21, <1>22, <1>23, <1>24, <1>25
     DEF Next, SlaveStep, MasterStep, Drain, Terminated

-----------------------------------------------------------------------------
(***************************************************************************)
(* A cell is grey once, and its backing store is moved once.               *)
(***************************************************************************)

\* The test-and-set, donating and stealing keep the stacks disjoint.
LEMMA GreyOnceStep == Control /\ Sound /\ GreyOnce /\ StorageCovered /\ [Next]_vars => GreyOnce'
<1> SUFFICES ASSUME Control, Sound, GreyOnce, StorageCovered, [Next]_vars PROVE GreyOnce'
  OBVIOUS
<1> USE RootGroupsAssumption, ThreadsAssumption
<1>c. TypeOK /\ MasterControl /\ VisitorControl /\ RestControl
  BY DEF Control
<1>1. ASSUME NEW t \in Threads, NEW c \in stack[t], VisitCell(t, c) PROVE GreyOnce'
  BY <1>c, <1>1
     DEF TypeOK, VisitorControl, Sound, GreyOnce, StorageCovered, Grey, VisitCell,
         BetweenCells, AddOpaqueRoots
<1>2. ASSUME NEW t \in Threads, NEW c \in pending[t], InternalAppend(t, c) PROVE GreyOnce'
  BY <1>c, <1>2
     DEF TypeOK, VisitorControl, Sound, GreyOnce, StorageCovered, Grey, InternalAppend
<1>3. ASSUME NEW t \in Threads, CopyStorage(t) PROVE GreyOnce'
  BY <1>c, <1>3
     DEF TypeOK, VisitorControl, Sound, GreyOnce, StorageCovered, Grey, CopyStorage
<1>4. ASSUME NEW t \in Threads, ReturnFullBlock(t) PROVE GreyOnce'
  BY <1>c, <1>4
     DEF TypeOK, VisitorControl, Sound, GreyOnce, StorageCovered, Grey, ReturnFullBlock,
         DoneCopying
<1>5. ASSUME NEW t \in Threads, NEW cells \in SUBSET stack[t], Donate(t, cells) PROVE GreyOnce'
  BY <1>c, <1>5
     DEF TypeOK, VisitorControl, Sound, GreyOnce, StorageCovered, Grey, Donate
<1>6. ASSUME NEW t \in Slaves, SlaveEnter(t) PROVE GreyOnce'
  BY <1>c, <1>6
     DEF TypeOK, VisitorControl, Sound, GreyOnce, StorageCovered, Grey, SlaveEnter
<1>7. ASSUME NEW t \in Slaves, SlaveCheck(t) PROVE GreyOnce'
  BY <1>c, <1>7
     DEF TypeOK, VisitorControl, Sound, GreyOnce, StorageCovered, Grey, SlaveCheck,
         SlaveRound, DoneCopying, StealSomeCells, Wait
<1>8. ASSUME NEW t \in Slaves, SlaveWake(t) PROVE GreyOnce'
  BY <1>c, <1>8
     DEF TypeOK, VisitorControl, Sound, GreyOnce, StorageCovered, Grey, SlaveWake,
         SlaveRound, DoneCopying, StealSomeCells, Wait
<1>9. ASSUME NEW t \in Slaves, SlaveDrained(t) PROVE GreyOnce'
  BY <1>c, <1>9
     DEF TypeOK, VisitorControl, Sound, GreyOnce, StorageCovered, Grey, SlaveDrained,
         MergeOpaqueRoots, BetweenCells
<1>10. ASSUME NEW t \in Threads, SpuriousWakeup(t) PROVE GreyOnce'
  BY <1>c, <1>10
     DEF TypeOK, VisitorControl, Sound, GreyOnce, StorageCovered, Grey, SpuriousWakeup
<1>11. ASSUME StartCollection PROVE GreyOnce'
  BY <1>c, <1>11
     DEF TypeOK, VisitorControl, Sound, GreyOnce, StorageCovered, Grey, StartCollection,
         RestControl, Resting, Idle
<1>12. ASSUME NextRootGroup PROVE GreyOnce'
  BY <1>c, <1>12
     DEF TypeOK, VisitorControl, Sound, GreyOnce, StorageCovered, Grey, NextRootGroup,
         MergeOpaqueRoots, BetweenCells
<1>13. ASSUME RootsDrained PROVE GreyOnce'
  BY <1>c, <1>13
     DEF TypeOK, VisitorControl, Sound, GreyOnce, StorageCovered, Grey, RootsDrained,
         MergeOpaqueRoots, BetweenCells
<1>14. ASSUME MasterEnter PROVE GreyOnce'
  BY <1>c, <1>14
     DEF TypeOK, VisitorControl, Sound, GreyOnce, StorageCovered, Grey, MasterEnter
<1>15. ASSUME MasterCheck PROVE GreyOnce'
  BY <1>c, <1>15
     DEF TypeOK, VisitorControl, Sound, GreyOnce, StorageCovered, Grey, MasterCheck,
         MasterRound, StealSomeCells, Wait
<1>16. ASSUME MasterWake PROVE GreyOnce'
  BY <1>c, <1>16
     DEF TypeOK, VisitorControl, Sound, GreyOnce, StorageCovered, Grey, MasterWake,
         MasterRound, StealSomeCells, Wait
<1>17. ASSUME MasterDrained PROVE GreyOnce'
  BY <1>c, <1>17
     DEF TypeOK, VisitorControl, Sound, GreyOnce, StorageCovered, Grey, MasterDrained,
         MergeOpaqueRoots, BetweenCells
<1>18. ASSUME VisitWeakHandles PROVE GreyOnce'
  BY <1>c, <1>18
     DEF TypeOK, VisitorControl, Sound, GreyOnce, StorageCovered, Grey, VisitWeakHandles
<1>19. ASSUME NEW w \in harvesting, HarvestWeakReference(w) PROVE GreyOnce'
  BY <1>c, <1>19
     DEF TypeOK, VisitorControl, Sound, GreyOnce, StorageCovered, Grey, HarvestWeakReference
<1>20. ASSUME WeakPassDone PROVE GreyOnce'
  BY <1>c, <1>20
     DEF TypeOK, VisitorControl, Sound, GreyOnce, StorageCovered, Grey, WeakPassDone
<1>21. ASSUME ResetVisitors PROVE GreyOnce'
  BY <1>c, <1>21
     DEF TypeOK, VisitorControl, Sound, GreyOnce, StorageCovered, Grey, ResetVisitors,
         DoneCopying
<1>22. ASSUME FinishCopying PROVE GreyOnce'
  BY <1>c, <1>22
     DEF TypeOK, VisitorControl, Sound, GreyOnce, StorageCovered, Grey, FinishCopying
<1>23. ASSUME Shutdown PROVE GreyOnce'
  BY <1>c, <1>23
     DEF TypeOK, VisitorControl, Sound, GreyOnce, StorageCovered, Grey, Shutdown
<1>24. ASSUME JoinSlaves PROVE GreyOnce'
  BY <1>c, <1>24
     DEF TypeOK, VisitorControl, Sound, GreyOnce, StorageCovered, Grey, JoinSlaves
<1>25. ASSUME UNCHANGED vars PROVE GreyOnce'
  BY <1>c, <1>25
     DEF TypeOK, VisitorControl, Sound, GreyOnce, StorageCovered, Grey, vars
<1> QED
  BY <1>1, <1>2, <1>3, <1>4, <1>5, <1>6, <1>7, <1>8, <1>9, <1>10, <1>11, <1>12, <1>13,
     <1>14, <1>15, <1>16, <1>17, <1>18, <1>19, <1>20, <1>21, <1>22, <1>23, <1>24, <1>25
     DEF Next, SlaveStep, MasterStep, Drain, Terminated

\* A backing store stays in from-space only while its cell is yet to be visited.
LEMMA StorageCoveredStep == Control /\ Sound /\ GreyOnce /\ StorageCovered /\ [Next]_vars => StorageCovered'
<1> SUFFICES ASSUME Control, Sound, GreyOnce, StorageCovered, [Next]_vars PROVE StorageCovered'
  OBVIOUS
<1> USE RootGroupsAssumption, ThreadsAssumption
<1>c. TypeOK /\ MasterControl /\ VisitorControl /\ RestControl
  BY DEF Control
<1>1. ASSUME NEW t \in Threads, NEW c \in stack[t], VisitCell(t, c) PROVE StorageCovered'
  BY <1>c, <1>1
     DEF TypeOK, VisitorControl, Sound, GreyOnce, StorageCovered, Grey, VisitCell,
         BetweenCells, AddOpaqueRoots
<1>2. ASSUME NEW t \in Threads, NEW c \in pending[t], InternalAppend(t, c) PROVE StorageCovered'
  BY <1>c, <1>2
     DEF TypeOK, VisitorControl, Sound, GreyOnce, StorageCovered, Grey, InternalAppend
<1>3. ASSUME NEW t \in Threads, CopyStorage(t) PROVE StorageCovered'
  BY <1>c, <1>3
     DEF TypeOK, VisitorControl, Sound, GreyOnce, StorageCovered, Grey, CopyStorage
<1>4. ASSUME NEW t \in Threads, ReturnFullBlock(t) PROVE StorageCovered'
  BY <1>c, <1>4
     DEF TypeOK, VisitorControl, Sound, GreyOnce, StorageCovered, Grey, ReturnFullBlock,
         DoneCopying
<1>5. ASSUME NEW t \in Threads, NEW cells \in SUBSET stack[t], Donate(t, cells) PROVE StorageCovered'
  BY <1>c, <1>5
     DEF TypeOK, VisitorControl, Sound, GreyOnce, StorageCovered, Grey, Donate
<1>6. ASSUME NEW t \in Slaves, SlaveEnter(t) PROVE StorageCovered'
  BY <1>c, <1>6
     DEF TypeOK, VisitorControl, Sound, GreyOnce, StorageCovered, Grey, SlaveEnter
<1>7. ASSUME NEW t \in Slaves, SlaveCheck(t) PROVE StorageCovered'
  BY <1>c, <1>7
     DEF TypeOK, VisitorControl, Sound, GreyOnce, StorageCovered, Grey, SlaveCheck,
         SlaveRound, DoneCopying, StealSomeCells, Wait
<1>8. ASSUME NEW t \in Slaves, SlaveWake(t) PROVE StorageCovered'
  BY <1>c, <1>8
     DEF TypeOK, VisitorControl, Sound, GreyOnce, StorageCovered, Grey, SlaveWake,
         SlaveRound, DoneCopying, StealSomeCells, Wait
<1>9. ASSUME NEW t \in Slaves, SlaveDrained(t) PROVE StorageCovered'
  BY <1>c, <1>9
     DEF TypeOK, VisitorControl, Sound, GreyOnce, StorageCovered, Grey, SlaveDrained,
         MergeOpaqueRoots, BetweenCells
<1>10. ASSUME NEW t \in Threads, SpuriousWakeup(t) PROVE StorageCovered'
  BY <1>c, <1>10
     DEF TypeOK, VisitorControl, Sound, GreyOnce, StorageCovered, Grey, SpuriousWakeup
<1>11. ASSUME StartCollection PROVE StorageCovered'
  BY <1>c, <1>11
     DEF TypeOK, VisitorControl, Sound, GreyOnce, StorageCovered, Grey, StartCollection,
         RestControl, Resting, Idle
<1>12. ASSUME NextRootGroup PROVE StorageCovered'
  BY <1>c, <1>12
     DEF TypeOK, VisitorControl, Sound, GreyOnce, StorageCovered, Grey, NextRootGroup,
         MergeOpaqueRoots, BetweenCells
<1>13. ASSUME RootsDrained PROVE StorageCovered'
  BY <1>c, <1>13
     DEF TypeOK, VisitorControl, Sound, GreyOnce, StorageCovered, Grey, RootsDrained,
         MergeOpaqueRoots, BetweenCells
<1>14. ASSUME MasterEnter PROVE StorageCovered'
  BY <1>c, <1>14
     DEF TypeOK, VisitorControl, Sound, GreyOnce, StorageCovered, Grey, MasterEnter
<1>15. ASSUME MasterCheck PROVE StorageCovered'
  BY <1>c, <1>15
     DEF TypeOK, VisitorControl, Sound, GreyOnce, StorageCovered, Grey, MasterCheck,
         MasterRound, StealSomeCells, Wait
<1>16. ASSUME MasterWake PROVE StorageCovered'
  BY <1>c, <1>16
     DEF TypeOK, VisitorControl, Sound, GreyOnce, StorageCovered, Grey, MasterWake,
         MasterRound, StealSomeCells, Wait
<1>17. ASSUME MasterDrained PROVE StorageCovered'
  BY <1>c, <1>17
     DEF TypeOK, VisitorControl, Sound, GreyOnce, StorageCovered, Grey, MasterDrained,
         MergeOpaqueRoots, BetweenCells
<1>18. ASSUME VisitWeakHandles PROVE StorageCovered'
  BY <1>c, <1>18
     DEF TypeOK, VisitorControl, Sound, GreyOnce, StorageCovered, Grey, VisitWeakHandles
<1>19. ASSUME NEW w \in harvesting, HarvestWeakReference(w) PROVE StorageCovered'
  BY <1>c, <1>19
     DEF TypeOK, VisitorControl, Sound, GreyOnce, StorageCovered, Grey, HarvestWeakReference
<1>20. ASSUME WeakPassDone PROVE StorageCovered'
  BY <1>c, <1>20
     DEF TypeOK, VisitorControl, Sound, GreyOnce, StorageCovered, Grey, WeakPassDone
<1>21. ASSUME ResetVisitors PROVE StorageCovered'
  BY <1>c, <1>21
     DEF TypeOK, VisitorControl, Sound, GreyOnce, StorageCovered, Grey, ResetVisitors,
         DoneCopying
<1>22. ASSUME FinishCopying PROVE StorageCovered'
  BY <1>c, <1>22
     DEF TypeOK, VisitorControl, Sound, GreyOnce, StorageCovered, Grey, FinishCopying
<1>23. ASSUME Shutdown PROVE StorageCovered'
  BY <1>c, <1>23
     DEF TypeOK, VisitorControl, Sound, GreyOnce, StorageCovered, Grey, Shutdown
<1>24. ASSUME JoinSlaves PROVE StorageCovered'
  BY <1>c, <1>24
     DEF TypeOK, VisitorControl, Sound, GreyOnce, StorageCovered, Grey, JoinSlaves
<1>25. ASSUME UNCHANGED vars PROVE StorageCovered'
  BY <1>c, <1>25
     DEF TypeOK, VisitorControl, Sound, GreyOnce, StorageCovered, Grey, vars
<1> QED
  BY <1>1, <1>2, <1>3, <1>4, <1>5, <1>6, <1>7, <1>8, <1>9, <1>10, <1>11, <1>12, <1>13,
     <1>14, <1>15, <1>16, <1>17, <1>18, <1>19, <1>20, <1>21, <1>22, <1>23, <1>24, <1>25
     DEF Next, SlaveStep, MasterStep, Drain, Terminated

-----------------------------------------------------------------------------
(***************************************************************************)
(* The inductive invariant and what follows from it.                       *)
(***************************************************************************)

\* The conjunction of the parts holds initially and is preserved.
LEMMA IndInvHolds == Spec => []IndInv
<1>1. Init => IndInv
  <2> SUFFICES ASSUME Init PROVE IndInv
    OBVIOUS
  <2>1. Control
    BY ControlInit
  <2>2. Sound /\ GreyOnce /\ StorageCovered
    BY ThreadsAssumption DEF Init, Sound, GreyOnce, StorageCovered, Grey
  <2>3. Complete
    BY ThreadsAssumption DEF Init, Complete, RootsCovered, EdgesCovered, OpaqueCovered, HarvestersCovered,
           WeakCovered, TracedClosed, Idle, Traced
  <2> QED BY <2>1, <2>2, <2>3 DEF IndInv
<1>2. IndInv /\ [Next]_vars => IndInv'
  BY ControlStep, SoundStep, RootsCoveredStep, EdgesCoveredStep, OpaqueCoveredStep,
     HarvestersCoveredStep, WeakCoveredStep, TracedClosedStep, GreyOnceStep,
     StorageCoveredStep DEF IndInv, Complete
<1> QED BY <1>1, <1>2, PTL DEF Spec

\* Every variable keeps its type: in particular the two counters never go below zero.
THEOREM TypeCorrect == Spec => []TypeOK
<1>1. IndInv => TypeOK
  BY DEF IndInv, Control
<1> QED BY <1>1, IndInvHolds, PTL

\* The marks that markRoots hands to the rest of the collection are the live cells.
THEOREM MarkingExact == Spec => []MarksExactlyLive
<1>1. IndInv => MarksExactlyLive
  BY LiveLeast DEF IndInv, Control, TypeOK, Sound, Complete, TracedClosed, MarksExactlyLive
<1> QED BY <1>1, IndInvHolds, PTL

\* drainFromShared(MasterDrain) returns to a quiescent system.
THEOREM DrainQuiescent == Spec => []SlavesQuiescent
<1>1. IndInv => SlavesQuiescent
  BY ThreadsAssumption
     DEF IndInv, Control, VisitorControl, RestControl, Resting, Quiescent, Working, SlavesQuiescent
<1> QED BY <1>1, IndInvHolds, PTL

\* A cell is on one stack, and a backing store is never copied twice.
THEOREM VisitedOnce == Spec => []GreyOnce
<1>1. IndInv => GreyOnce
  BY DEF IndInv
<1> QED BY <1>1, IndInvHolds, PTL

\* From-space is only freed when nothing live is left in it.
THEOREM FromSpaceDead == Spec => []NoLiveStorageInFromSpace
<1>1. IndInv => NoLiveStorageInFromSpace
  <2> SUFFICES ASSUME IndInv, Idle, collections > 0
               PROVE  /\ \A t \in Threads : copyBlock[t] = 0
                      /\ Live(heap) \cap heap.storage \subseteq evacuated
    BY DEF NoLiveStorageInFromSpace
  <2>1. \A t \in Threads : copyBlock[t] = 0
    <3>1. loaned = 0 /\ \A t \in Threads : copyBlock[t] # 0 => loaned >= 1
      BY Positive DEF IndInv, Control, LoanControl
    <3> QED BY <3>1
  <2>2. Live(heap) \subseteq marked
    BY LiveLeast DEF IndInv, Control, TypeOK, Complete, TracedClosed
  <2>3. \A c : ~Grey(c) /\ \A t \in Threads : visiting[t] = {}
    BY ThreadsAssumption
       DEF IndInv, Control, VisitorControl, RestControl, Resting, Idle, Working, Grey
  <2> QED BY <2>1, <2>2, <2>3 DEF IndInv, StorageCovered
<1> QED BY <1>1, IndInvHolds, PTL

-----------------------------------------------------------------------------
(***************************************************************************)
(* The marking threads implement one tracing collector.                    *)
(***************************************************************************)

\* The tracer's notion of liveness is the same.
LEMMA TracerLive == \A h : Tracer!Live(h) = Live(h)
<1>1. \A h, s : Tracer!Closed(h, s) <=> Closed(h, s)
  BY DEF Tracer!Closed, Closed, Tracer!OpaqueRootsOf, OpaqueRootsOf, Tracer!Fires, Fires
<1> QED BY <1>1 DEF Tracer!Live, Live

\* A step that only marks live cells is a step of the tracer.
LEMMA TraceMarks ==
  ASSUME IndInv, Sound', ~Idle, ~Idle', heap' = heap, marked \subseteq marked',
         \/ evacuated' = evacuated
         \/ \E c \in (marked \cap heap.storage) \ evacuated : evacuated' = evacuated \cup {c}
  PROVE  Tracer!Trace
<1>1. marked' \subseteq Tracer!Live(heap)
  BY TracerLive DEF Sound
<1>2. UNCHANGED Idle
  BY DEF Idle
<1> QED BY <1>1, <1>2 DEF Tracer!Trace

\* When from-space is freed the tracer may end.
LEMMA TraceEnds ==
  ASSUME IndInv, pc[Master] = "loans"
  PROVE  marked = Tracer!Live(heap) /\ evacuated = marked \cap heap.storage
<1>1. marked = Live(heap)
  BY LiveLeast DEF IndInv, Control, TypeOK, Sound, Complete, TracedClosed, Traced
<1>2. \A c : ~Grey(c) /\ \A t \in Threads : visiting[t] = {}
  BY ThreadsAssumption
     DEF IndInv, Control, VisitorControl, RestControl, Resting, Quiescent, Working, Grey
<1> QED BY <1>1, <1>2, TracerLive DEF IndInv, StorageCovered, Sound

\* Every step is a step of the tracer, or leaves it alone.
LEMMA TracerStep == IndInv /\ [Next]_vars => [Tracer!Next]_(Tracer!tracerVars)
<1> SUFFICES ASSUME IndInv, [Next]_vars PROVE [Tracer!Next]_(Tracer!tracerVars)
  OBVIOUS
<1> USE RootGroupsAssumption, ThreadsAssumption
<1>c. TypeOK /\ MasterControl /\ VisitorControl /\ RestControl
  BY DEF IndInv, Control
<1>s. Sound'
  BY ControlStep, SoundStep DEF IndInv
<1>1. ASSUME NEW t \in Threads, NEW c \in stack[t], VisitCell(t, c) PROVE [Tracer!Next]_(Tracer!tracerVars)
  BY <1>c, <1>s, <1>1
     DEF TypeOK, Idle, Tracer!Begin, Tracer!Trace, Tracer!End, Tracer!Next,
         Tracer!tracerVars, VisitCell, BetweenCells, AddOpaqueRoots
<1>2. ASSUME NEW t \in Threads, NEW c \in pending[t], InternalAppend(t, c) PROVE [Tracer!Next]_(Tracer!tracerVars)
  <2>1. /\ ~Idle /\ ~Idle' /\ heap' = heap
        /\ marked \subseteq marked' /\ evacuated' = evacuated
    BY <1>c, <1>2 DEF TypeOK, RestControl, Resting, Idle, Working, InternalAppend
  <2> QED BY <1>s, <2>1, TraceMarks DEF Tracer!Next
<1>3. ASSUME NEW t \in Threads, CopyStorage(t) PROVE [Tracer!Next]_(Tracer!tracerVars)
  <2>1. /\ ~Idle /\ ~Idle' /\ heap' = heap
        /\ marked' = marked /\ evacuated' = evacuated \cup visiting[t]
    BY <1>c, <1>3 DEF TypeOK, RestControl, Resting, Idle, Working, CopyStorage
  <2>2. PICK c \in Cells : visiting[t] = {c}
    BY <1>c, <1>3 DEF VisitorControl, CopyStorage
  <2>3. c \in (marked \cap heap.storage) \ evacuated
    BY <2>2 DEF IndInv, Sound, GreyOnce
  <2> QED BY <1>s, <2>1, <2>2, <2>3, TraceMarks DEF Tracer!Next
<1>4. ASSUME NEW t \in Threads, ReturnFullBlock(t) PROVE [Tracer!Next]_(Tracer!tracerVars)
  BY <1>c, <1>s, <1>4
     DEF TypeOK, Idle, Tracer!Begin, Tracer!Trace, Tracer!End, Tracer!Next,
         Tracer!tracerVars, ReturnFullBlock, DoneCopying
<1>5. ASSUME NEW t \in Threads, NEW cells \in SUBSET stack[t], Donate(t, cells) PROVE [Tracer!Next]_(Tracer!tracerVars)
  BY <1>c, <1>s, <1>5
     DEF TypeOK, Idle, Tracer!Begin, Tracer!Trace, Tracer!End, Tracer!Next,
         Tracer!tracerVars, Donate
<1>6. ASSUME NEW t \in Slaves, SlaveEnter(t) PROVE [Tracer!Next]_(Tracer!tracerVars)
  BY <1>c, <1>s, <1>6
     DEF TypeOK, Idle, Tracer!Begin, Tracer!Trace, Tracer!End, Tracer!Next,
         Tracer!tracerVars, SlaveEnter
<1>7. ASSUME NEW t \in Slaves, SlaveCheck(t) PROVE [Tracer!Next]_(Tracer!tracerVars)
  BY <1>c, <1>s, <1>7
     DEF TypeOK, Idle, Tracer!Begin, Tracer!Trace, Tracer!End, Tracer!Next,
         Tracer!tracerVars, SlaveCheck, SlaveRound, DoneCopying, StealSomeCells, Wait
<1>8. ASSUME NEW t \in Slaves, SlaveWake(t) PROVE [Tracer!Next]_(Tracer!tracerVars)
  BY <1>c, <1>s, <1>8
     DEF TypeOK, Idle, Tracer!Begin, Tracer!Trace, Tracer!End, Tracer!Next,
         Tracer!tracerVars, SlaveWake, SlaveRound, DoneCopying, StealSomeCells, Wait
<1>9. ASSUME NEW t \in Slaves, SlaveDrained(t) PROVE [Tracer!Next]_(Tracer!tracerVars)
  BY <1>c, <1>s, <1>9
     DEF TypeOK, Idle, Tracer!Begin, Tracer!Trace, Tracer!End, Tracer!Next,
         Tracer!tracerVars, SlaveDrained, MergeOpaqueRoots, BetweenCells
<1>10. ASSUME NEW t \in Threads, SpuriousWakeup(t) PROVE [Tracer!Next]_(Tracer!tracerVars)
  BY <1>c, <1>s, <1>10
     DEF TypeOK, Idle, Tracer!Begin, Tracer!Trace, Tracer!End, Tracer!Next,
         Tracer!tracerVars, SpuriousWakeup
<1>11. ASSUME StartCollection PROVE [Tracer!Next]_(Tracer!tracerVars)
  BY <1>c, <1>s, <1>11
     DEF TypeOK, Idle, Tracer!Begin, Tracer!Trace, Tracer!End, Tracer!Next,
         Tracer!tracerVars, StartCollection
<1>12. ASSUME NextRootGroup PROVE [Tracer!Next]_(Tracer!tracerVars)
  BY <1>c, <1>s, <1>12
     DEF TypeOK, Idle, Tracer!Begin, Tracer!Trace, Tracer!End, Tracer!Next,
         Tracer!tracerVars, NextRootGroup, MergeOpaqueRoots, BetweenCells
<1>13. ASSUME RootsDrained PROVE [Tracer!Next]_(Tracer!tracerVars)
  BY <1>c, <1>s, <1>13
     DEF TypeOK, Idle, Tracer!Begin, Tracer!Trace, Tracer!End, Tracer!Next,
         Tracer!tracerVars, RootsDrained, MergeOpaqueRoots, BetweenCells
<1>14. ASSUME MasterEnter PROVE [Tracer!Next]_(Tracer!tracerVars)
  BY <1>c, <1>s, <1>14
     DEF TypeOK, Idle, Tracer!Begin, Tracer!Trace, Tracer!End, Tracer!Next,
         Tracer!tracerVars, MasterEnter
<1>15. ASSUME MasterCheck PROVE [Tracer!Next]_(Tracer!tracerVars)
  BY <1>c, <1>s, <1>15
     DEF TypeOK, Idle, Tracer!Begin, Tracer!Trace, Tracer!End, Tracer!Next,
         Tracer!tracerVars, MasterCheck, MasterRound, StealSomeCells, Wait
<1>16. ASSUME MasterWake PROVE [Tracer!Next]_(Tracer!tracerVars)
  BY <1>c, <1>s, <1>16
     DEF TypeOK, Idle, Tracer!Begin, Tracer!Trace, Tracer!End, Tracer!Next,
         Tracer!tracerVars, MasterWake, MasterRound, StealSomeCells, Wait
<1>17. ASSUME MasterDrained PROVE [Tracer!Next]_(Tracer!tracerVars)
  BY <1>c, <1>s, <1>17
     DEF TypeOK, Idle, Tracer!Begin, Tracer!Trace, Tracer!End, Tracer!Next,
         Tracer!tracerVars, MasterDrained, MergeOpaqueRoots, BetweenCells
<1>18. ASSUME VisitWeakHandles PROVE [Tracer!Next]_(Tracer!tracerVars)
  <2>1. /\ ~Idle /\ ~Idle' /\ heap' = heap
        /\ marked \subseteq marked' /\ evacuated' = evacuated
    BY <1>c, <1>18 DEF TypeOK, RestControl, Resting, Idle, Working, VisitWeakHandles
  <2> QED BY <1>s, <2>1, TraceMarks DEF Tracer!Next
<1>19. ASSUME NEW w \in harvesting, HarvestWeakReference(w) PROVE [Tracer!Next]_(Tracer!tracerVars)
  <2>1. /\ ~Idle /\ ~Idle' /\ heap' = heap
        /\ marked \subseteq marked' /\ evacuated' = evacuated
    BY <1>c, <1>19 DEF TypeOK, RestControl, Resting, Idle, Working, HarvestWeakReference
  <2> QED BY <1>s, <2>1, TraceMarks DEF Tracer!Next
<1>20. ASSUME WeakPassDone PROVE [Tracer!Next]_(Tracer!tracerVars)
  BY <1>c, <1>s, <1>20
     DEF TypeOK, Idle, Tracer!Begin, Tracer!Trace, Tracer!End, Tracer!Next,
         Tracer!tracerVars, WeakPassDone
<1>21. ASSUME ResetVisitors PROVE [Tracer!Next]_(Tracer!tracerVars)
  BY <1>c, <1>s, <1>21
     DEF TypeOK, Idle, Tracer!Begin, Tracer!Trace, Tracer!End, Tracer!Next,
         Tracer!tracerVars, ResetVisitors, DoneCopying
<1>22. ASSUME FinishCopying PROVE [Tracer!Next]_(Tracer!tracerVars)
  <2>1. /\ pc[Master] = "loans" /\ ~Idle /\ Idle'
        /\ UNCHANGED <<heap, marked, evacuated>>
    BY <1>c, <1>22 DEF TypeOK, Idle, FinishCopying
  <2>2. marked = Tracer!Live(heap) /\ evacuated = marked \cap heap.storage
    BY <2>1, TraceEnds
  <2> QED BY <2>1, <2>2 DEF Tracer!End, Tracer!Next
<1>23. ASSUME Shutdown PROVE [Tracer!Next]_(Tracer!tracerVars)
  BY <1>c, <1>s, <1>23
     DEF TypeOK, Idle, Tracer!Begin, Tracer!Trace, Tracer!End, Tracer!Next,
         Tracer!tracerVars, Shutdown
<1>24. ASSUME JoinSlaves PROVE [Tracer!Next]_(Tracer!tracerVars)
  BY <1>c, <1>s, <1>24
     DEF TypeOK, Idle, Tracer!Begin, Tracer!Trace, Tracer!End, Tracer!Next,
         Tracer!tracerVars, JoinSlaves
<1>25. ASSUME UNCHANGED vars PROVE [Tracer!Next]_(Tracer!tracerVars)
  BY <1>c, <1>s, <1>25
     DEF TypeOK, Idle, Tracer!Begin, Tracer!Trace, Tracer!End, Tracer!Next,
         Tracer!tracerVars, vars
<1> QED
  BY <1>1, <1>2, <1>3, <1>4, <1>5, <1>6, <1>7, <1>8, <1>9, <1>10, <1>11, <1>12, <1>13,
     <1>14, <1>15, <1>16, <1>17, <1>18, <1>19, <1>20, <1>21, <1>22, <1>23, <1>24, <1>25
     DEF Next, SlaveStep, MasterStep, Drain, Terminated

\* For every number of slaves, every heap and every block size, marking refines
\* the abstract tracing collector.
THEOREM MarkingImplementsTracing == Spec => ImplementsTracing
<1>1. Init => Tracer!Init
  BY DEF Init, Tracer!Init, Idle
<1>2. IndInv /\ [Next]_vars => [Tracer!Next]_(Tracer!tracerVars)
  BY TracerStep
<1> QED BY <1>1, <1>2, IndInvHolds, PTL DEF Spec, ImplementsTracing, Tracer!Spec
=============================================================================
