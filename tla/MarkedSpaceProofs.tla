------------------------- MODULE MarkedSpaceProofs -------------------------
(***************************************************************************)
(* The safety properties of MarkedSpace for every number of blocks, cells  *)
(* and size classes.                                                       *)
(***************************************************************************)
EXTENDS MarkedSpace, TLAPS

(***************************************************************************)
(* Who may be in which phase, and what the phases of a collection have     *)
(* already done to the blocks.                                             *)
(***************************************************************************)
PhaseControl ==
    /\ phase \in {"try", "retry"} => request \in Allocators
    /\ phase = "swept" => request \in {"full", "destroy"}
    /\ phase \in {"marked", "reset"} => \A b \in InUse : state[b] = "Marked"
    /\ phase = "swept" /\ request = "full" =>
          \A b \in InUse : owner[b] \in Destructing => state[b] = "Zapped"
    /\ phase = "swept" /\ request = "destroy" => \A b \in InUse : marks[b] = {}
    /\ phase = "destroyCanonical" => held = {} /\ request = "destroy"
    /\ phase = "swept" /\ request = "destroy" => held = {}
    /\ phase \in {"release", "destroyed"} => InUse = {}
    /\ phase \in {"collect", "canonical", "marked", "reset"} => request # "destroy"

\* A block in use has been swept at least once; only a current block is
\* FreeListed, and those behind it are yet to be swept.
ListControl ==
    /\ \A b \in InUse : state[b] # "New"
    /\ \A b \in InUse : state[b] = "FreeListed" => current[owner[b]] = b
    /\ \A a \in Allocators : \A b \in ahead[a] : state[b] \in {"Marked", "Zapped"}

\* A live cell has a class pointer in its first word, and marks are only set on
\* live cells.
WordControl ==
    \A b \in InUse : zapped[b] \cap LiveSlots(b) = {} /\ marks[b] \subseteq LiveSlots(b)

\* Once the blocks are swept their marks are their live cells, so that shrink
\* may judge a block by its marks.
SweptControl == phase = "swept" => \A b \in InUse : LiveSlots(b) = marks[b]

\* The objects with a destructor to run are the live cells of the destructor
\* space and, in a Marked block, its dead cells that no sweep has zapped.
Owed(b) == LiveSlots(b) \cup (IF state[b] = "Marked" THEN Slots \ zapped[b] ELSE {})

ObjectControl ==
    /\ \A b \in Blocks : \A i \in Slots :
          <<b, i>> \in objects => owner[b] \in Destructing /\ i \in Owed(b)
    /\ \A b \in Blocks : \A i \in Owed(b) :
          owner[b] \in Destructing => <<b, i>> \in objects

HeldControl == \A b \in Blocks : \A i \in Slots : <<b, i>> \in held => i \in LiveSlots(b)

SpaceInv ==
    /\ TypeOK
    /\ BlockAssertions
    /\ PhaseControl
    /\ ListControl
    /\ WordControl
    /\ SweptControl
    /\ ObjectControl
    /\ HeldControl

-----------------------------------------------------------------------------
\* zapFreeList changes how a block tells its live cells, not which they are.
LEMMA CanonicalizeLive ==
    ASSUME SpaceInv, Canonicalize, NEW b \in Blocks
    PROVE  LiveSlots(b)' = LiveSlots(b)
<1> USE DEF SpaceInv, InUse
<1>1. CASE owner[b] = Nobody
  BY <1>1 DEF Canonicalize, LiveSlots
<1>2. CASE owner[b] # Nobody /\ state[b] # "FreeListed"
  BY <1>2 DEF Canonicalize, LiveSlots, IsLive, TypeOK
<1>3. CASE owner[b] # Nobody /\ state[b] = "FreeListed"
  <2>1. current[owner[b]] = b /\ zapped[b] \cap LiveSlots(b) = {}
    BY <1>3 DEF ListControl, WordControl
  <2>2. LiveSlots(b) = Slots \ freeList[owner[b]]
    BY <1>3 DEF LiveSlots
  <2>3. state'[b] = "Zapped" /\ zapped'[b] = zapped[b] \cup freeList[owner[b]] /\ owner' = owner
    BY <1>3, <2>1 DEF Canonicalize
  <2>4. LiveSlots(b)' = Slots \ zapped'[b]
    BY <1>3, <2>3 DEF LiveSlots, IsLive
  <2> QED
    BY <2>1, <2>2, <2>3, <2>4 DEF TypeOK
<1> QED
  BY <1>1, <1>2, <1>3

\* A step that touches no block, no list and none of the program's cells.
LEMMA QuietStep ==
    ASSUME SpaceInv, UNCHANGED <<blockVars, listVars, held, objects>>
    PROVE  ListControl' /\ WordControl' /\ ObjectControl' /\ HeldControl'
<1> USE DEF SpaceInv, InUse
<1>1. \A b \in Blocks : LiveSlots(b)' = LiveSlots(b) /\ Owed(b)' = Owed(b)
  BY DEF blockVars, listVars, LiveSlots, IsLive, Owed
<1> QED
  BY <1>1 DEF blockVars, listVars, ListControl, WordControl, ObjectControl, HeldControl

\* AllocateFast preserves the invariant.
LEMMA AllocateFastInv ==
    ASSUME SpaceInv, NEW a \in Allocators, AllocateFast(a)
    PROVE  SpaceInv'
<1> USE SpaceAssumption DEF SpaceInv, InUse
<1>1. TypeOK'
  BY SMTT(30) DEF TypeOK, Requests, Phases, BlockStates, Cells, BlockAssertions,
     PhaseControl, AllocateFast, TakeFreeCell, stepVars, heapVars
<1>2. BlockAssertions'
  BY SMTT(30) DEF BlockAssertions, TypeOK, AllocateFast, TakeFreeCell, stepVars,
     heapVars
<1>3. PhaseControl'
  BY SMTT(30) DEF PhaseControl, TypeOK, AllocateFast, TakeFreeCell, stepVars, heapVars
<1>4. ListControl'
  BY SMTT(30) DEF ListControl, TypeOK, AllocateFast, TakeFreeCell, stepVars, heapVars
<1>5. WordControl'
  BY SMTT(30) DEF WordControl, LiveSlots, IsLive, TypeOK, BlockAssertions, ListControl,
     HeldControl, PhaseControl, AllocateFast, TakeFreeCell, stepVars, heapVars
<1>6. SweptControl'
  BY SMTT(30) DEF SweptControl, LiveSlots, IsLive, TypeOK, AllocateFast, TakeFreeCell,
     stepVars, heapVars
<1>7. ObjectControl'
  BY SMTT(30) DEF ObjectControl, Owed, LiveSlots, IsLive, TypeOK, BlockAssertions,
     ListControl, WordControl, PhaseControl, AllocateFast, TakeFreeCell, stepVars,
     heapVars
<1>8. HeldControl'
  BY SMTT(30) DEF HeldControl, LiveSlots, IsLive, TypeOK, BlockAssertions, ListControl,
     PhaseControl, AllocateFast, TakeFreeCell, stepVars, heapVars
<1> QED
  BY <1>1, <1>2, <1>3, <1>4, <1>5, <1>6, <1>7, <1>8

\* AllocateSlowCase preserves the invariant.
LEMMA AllocateSlowCaseInv ==
    ASSUME SpaceInv, NEW a \in Allocators, AllocateSlowCase(a)
    PROVE  SpaceInv'
<1> USE SpaceAssumption DEF SpaceInv, InUse
<1>0. UNCHANGED <<blockVars, listVars, held, objects>>
  BY DEF AllocateSlowCase, userVars
<1>1. TypeOK'
  BY SMTT(30) DEF TypeOK, Requests, Phases, BlockStates, Cells, AllocateSlowCase,
     Settle, blockVars, listVars, heapVars, userVars
<1>2. BlockAssertions'
  BY SMTT(30) DEF BlockAssertions, TypeOK, AllocateSlowCase, Settle, blockVars,
     listVars, heapVars, userVars
<1>3. PhaseControl'
  BY SMTT(30) DEF PhaseControl, TypeOK, AllocateSlowCase, Settle, blockVars, listVars,
     heapVars, userVars
<1>4. SweptControl'
  BY SMTT(30) DEF SweptControl, LiveSlots, IsLive, TypeOK, AllocateSlowCase, Settle,
     blockVars, listVars, heapVars, userVars
<1> QED
  BY <1>0, <1>1, <1>2, <1>3, <1>4, QuietStep

\* TryAllocateSucceeds preserves the invariant.
LEMMA TryAllocateSucceedsInv ==
    ASSUME SpaceInv, TryAllocateSucceeds
    PROVE  SpaceInv'
<1> USE SpaceAssumption DEF SpaceInv, InUse
<1>1. TypeOK'
  BY SMTT(30) DEF TypeOK, Requests, Phases, BlockStates, Cells, BlockAssertions,
     PhaseControl, TryAllocateSucceeds, TakeFreeCell, Allocating, Settle, heapVars
<1>2. BlockAssertions'
  BY SMTT(30) DEF BlockAssertions, TypeOK, TryAllocateSucceeds, TakeFreeCell,
     Allocating, Settle, heapVars
<1>3. PhaseControl'
  BY SMTT(30) DEF PhaseControl, TypeOK, TryAllocateSucceeds, TakeFreeCell, Allocating,
     Settle, heapVars
<1>4. ListControl'
  BY SMTT(30) DEF ListControl, TypeOK, TryAllocateSucceeds, TakeFreeCell, Allocating,
     Settle, heapVars
<1>5. WordControl'
  BY SMTT(30) DEF WordControl, LiveSlots, IsLive, TypeOK, BlockAssertions, ListControl,
     HeldControl, PhaseControl, TryAllocateSucceeds, TakeFreeCell, Allocating, Settle,
     heapVars
<1>6. SweptControl'
  BY SMTT(30) DEF SweptControl, LiveSlots, IsLive, TypeOK, TryAllocateSucceeds,
     TakeFreeCell, Allocating, Settle, heapVars
<1>7. ObjectControl'
  BY SMTT(30) DEF ObjectControl, Owed, LiveSlots, IsLive, TypeOK, BlockAssertions,
     ListControl, WordControl, PhaseControl, TryAllocateSucceeds, TakeFreeCell,
     Allocating, Settle, heapVars
<1>8. HeldControl'
  BY SMTT(30) DEF HeldControl, LiveSlots, IsLive, TypeOK, BlockAssertions, ListControl,
     PhaseControl, TryAllocateSucceeds, TakeFreeCell, Allocating, Settle, heapVars
<1> QED
  BY <1>1, <1>2, <1>3, <1>4, <1>5, <1>6, <1>7, <1>8

\* SweepCurrent preserves the invariant.
LEMMA SweepCurrentInv ==
    ASSUME SpaceInv, SweepCurrent
    PROVE  SpaceInv'
<1> USE SpaceAssumption DEF SpaceInv, InUse
<1>1. TypeOK'
  BY SMTT(30) DEF TypeOK, Requests, Phases, BlockStates, Cells, SweepCurrent,
     Allocating, SweptSlots, Destructed, LinkedWords, CellsOf, stepVars, heapVars
<1>2. BlockAssertions'
  BY SMTT(30) DEF BlockAssertions, TypeOK, SweepCurrent, Allocating, SweptSlots,
     Destructed, LinkedWords, CellsOf, stepVars, heapVars
<1>3. PhaseControl'
  BY SMTT(30) DEF PhaseControl, TypeOK, SweepCurrent, Allocating, SweptSlots,
     Destructed, LinkedWords, CellsOf, stepVars, heapVars
<1>4. ListControl'
  BY SMTT(30) DEF ListControl, TypeOK, SweepCurrent, Allocating, SweptSlots, Destructed,
     LinkedWords, CellsOf, stepVars, heapVars
<1>5. WordControl'
  BY SMTT(30) DEF WordControl, LiveSlots, IsLive, TypeOK, BlockAssertions, ListControl,
     HeldControl, PhaseControl, SweepCurrent, Allocating, SweptSlots, Destructed,
     LinkedWords, CellsOf, stepVars, heapVars
<1>6. SweptControl'
  BY SMTT(30) DEF SweptControl, LiveSlots, IsLive, TypeOK, SweepCurrent, Allocating,
     SweptSlots, Destructed, LinkedWords, CellsOf, stepVars, heapVars
<1>7. ObjectControl'
  BY SMTT(60) DEF ObjectControl, Owed, LiveSlots, IsLive, TypeOK, BlockAssertions,
     ListControl, WordControl, PhaseControl, SweepCurrent, Allocating, SweptSlots,
     Destructed, LinkedWords, CellsOf, stepVars, heapVars
<1>8. HeldControl'
  BY SMTT(30) DEF HeldControl, LiveSlots, IsLive, TypeOK, BlockAssertions, ListControl,
     PhaseControl, SweepCurrent, Allocating, SweptSlots, Destructed, LinkedWords,
     CellsOf, stepVars, heapVars
<1> QED
  BY <1>1, <1>2, <1>3, <1>4, <1>5, <1>6, <1>7, <1>8

\* ConsumeBlock preserves the invariant.
LEMMA ConsumeBlockInv ==
    ASSUME SpaceInv, ConsumeBlock
    PROVE  SpaceInv'
<1> USE SpaceAssumption DEF SpaceInv, InUse
<1>1. TypeOK'
  BY SMTT(30) DEF TypeOK, Requests, Phases, BlockStates, Cells, ConsumeBlock,
     Allocating, SweptSlots, stepVars, heapVars, userVars
<1>2. BlockAssertions'
  BY SMTT(30) DEF BlockAssertions, TypeOK, ListControl, PhaseControl, ConsumeBlock,
     Allocating, SweptSlots, stepVars, heapVars, userVars
<1>3. PhaseControl'
  BY SMTT(30) DEF PhaseControl, TypeOK, ConsumeBlock, Allocating, SweptSlots, stepVars,
     heapVars, userVars
<1>4. ListControl'
  BY SMTT(30) DEF ListControl, TypeOK, ConsumeBlock, Allocating, SweptSlots, stepVars,
     heapVars, userVars
<1>5. WordControl'
  BY SMTT(30) DEF WordControl, LiveSlots, IsLive, TypeOK, BlockAssertions, ListControl,
     HeldControl, PhaseControl, ConsumeBlock, Allocating, SweptSlots, stepVars,
     heapVars, userVars
<1>6. SweptControl'
  BY SMTT(30) DEF SweptControl, LiveSlots, IsLive, TypeOK, ConsumeBlock, Allocating,
     SweptSlots, stepVars, heapVars, userVars
<1>7. ObjectControl'
  BY SMTT(30) DEF ObjectControl, Owed, LiveSlots, IsLive, TypeOK, BlockAssertions,
     ListControl, WordControl, PhaseControl, ConsumeBlock, Allocating, SweptSlots,
     stepVars, heapVars, userVars
<1>8. HeldControl'
  BY SMTT(30) DEF HeldControl, LiveSlots, IsLive, TypeOK, ConsumeBlock, Allocating,
     SweptSlots, stepVars, heapVars, userVars
<1> QED
  BY <1>1, <1>2, <1>3, <1>4, <1>5, <1>6, <1>7, <1>8

\* AddBlock preserves the invariant.
LEMMA AddBlockInv ==
    ASSUME SpaceInv, NEW b \in Blocks, AddBlock(b)
    PROVE  SpaceInv'
<1> USE SpaceAssumption DEF SpaceInv, InUse
<1>1. TypeOK'
  BY SMTT(30) DEF TypeOK, Requests, Phases, BlockStates, Cells, AddBlock,
     TryAllocateFails, Allocating, LinkedWords, stepVars, userVars
<1>2. BlockAssertions'
  BY SMTT(30) DEF BlockAssertions, TypeOK, AddBlock, TryAllocateFails, Allocating,
     LinkedWords, stepVars, userVars
<1>3. PhaseControl'
  BY SMTT(30) DEF PhaseControl, TypeOK, AddBlock, TryAllocateFails, Allocating,
     LinkedWords, stepVars, userVars
<1>4. ListControl'
  BY SMTT(30) DEF ListControl, TypeOK, AddBlock, TryAllocateFails, Allocating,
     LinkedWords, stepVars, userVars
<1>5. WordControl'
  BY SMTT(30) DEF WordControl, LiveSlots, IsLive, TypeOK, BlockAssertions, ListControl,
     HeldControl, PhaseControl, AddBlock, TryAllocateFails, Allocating, LinkedWords,
     stepVars, userVars
<1>6. SweptControl'
  BY SMTT(30) DEF SweptControl, LiveSlots, IsLive, TypeOK, AddBlock, TryAllocateFails,
     Allocating, LinkedWords, stepVars, userVars
<1>7. ObjectControl'
  BY SMTT(30) DEF ObjectControl, Owed, LiveSlots, IsLive, TypeOK, BlockAssertions,
     ListControl, WordControl, PhaseControl, AddBlock, TryAllocateFails, Allocating,
     LinkedWords, stepVars, userVars
<1>8. HeldControl'
  <2>1. owner[b] = Nobody /\ current[request] = NoBlock /\ request \in Allocators
    BY DEF AddBlock, TryAllocateFails, Allocating, TypeOK
  <2>2. \A i \in Slots : <<b, i>> \notin held
    BY <2>1 DEF HeldControl, LiveSlots
  <2>3. \A x \in Blocks \ {b} : LiveSlots(x)' = LiveSlots(x)
    <3> TAKE x \in Blocks \ {b}
    <3>1. owner'[x] = owner[x] /\ state'[x] = state[x] /\ marks'[x] = marks[x] /\ zapped'[x] = zapped[x]
      BY DEF AddBlock, TypeOK
    <3>2. owner[x] # Nobody /\ state[x] = "FreeListed" => freeList'[owner[x]] = freeList[owner[x]]
      BY <2>1 DEF AddBlock, TypeOK, ListControl
    <3> QED
      BY <3>1, <3>2 DEF LiveSlots, IsLive
  <2> QED
    BY <2>2, <2>3 DEF HeldControl, AddBlock, userVars
<1> QED
  BY <1>1, <1>2, <1>3, <1>4, <1>5, <1>6, <1>7, <1>8

\* OutOfMemory preserves the invariant.
LEMMA OutOfMemoryInv ==
    ASSUME SpaceInv, OutOfMemory
    PROVE  SpaceInv'
<1> USE SpaceAssumption DEF SpaceInv, InUse
<1>0. UNCHANGED <<blockVars, listVars, held, objects>>
  BY DEF OutOfMemory, userVars
<1>1. TypeOK'
  BY SMTT(30) DEF TypeOK, Requests, Phases, BlockStates, Cells, OutOfMemory,
     TryAllocateFails, Allocating, Settle, blockVars, listVars, heapVars, userVars
<1>2. BlockAssertions'
  BY SMTT(30) DEF BlockAssertions, TypeOK, OutOfMemory, TryAllocateFails, Allocating,
     Settle, blockVars, listVars, heapVars, userVars
<1>3. PhaseControl'
  BY SMTT(30) DEF PhaseControl, TypeOK, OutOfMemory, TryAllocateFails, Allocating,
     Settle, blockVars, listVars, heapVars, userVars
<1>4. SweptControl'
  BY SMTT(30) DEF SweptControl, LiveSlots, IsLive, TypeOK, OutOfMemory,
     TryAllocateFails, Allocating, Settle, blockVars, listVars, heapVars, userVars
<1> QED
  BY <1>0, <1>1, <1>2, <1>3, <1>4, QuietStep

\* CollectToAllocate preserves the invariant.
LEMMA CollectToAllocateInv ==
    ASSUME SpaceInv, CollectToAllocate
    PROVE  SpaceInv'
<1> USE SpaceAssumption DEF SpaceInv, InUse
<1>0. UNCHANGED <<blockVars, listVars, held, objects>>
  BY DEF CollectToAllocate, userVars
<1>1. TypeOK'
  BY SMTT(30) DEF TypeOK, Requests, Phases, BlockStates, Cells, CollectToAllocate,
     TryAllocateFails, Allocating, Settle, blockVars, listVars, heapVars, userVars
<1>2. BlockAssertions'
  BY SMTT(30) DEF BlockAssertions, TypeOK, CollectToAllocate, TryAllocateFails,
     Allocating, Settle, blockVars, listVars, heapVars, userVars
<1>3. PhaseControl'
  BY SMTT(30) DEF PhaseControl, TypeOK, CollectToAllocate, TryAllocateFails, Allocating,
     Settle, blockVars, listVars, heapVars, userVars
<1>4. SweptControl'
  BY SMTT(30) DEF SweptControl, LiveSlots, IsLive, TypeOK, CollectToAllocate,
     TryAllocateFails, Allocating, Settle, blockVars, listVars, heapVars, userVars
<1> QED
  BY <1>0, <1>1, <1>2, <1>3, <1>4, QuietStep

\* CollectAllGarbage preserves the invariant.
LEMMA CollectAllGarbageInv ==
    ASSUME SpaceInv, CollectAllGarbage
    PROVE  SpaceInv'
<1> USE SpaceAssumption DEF SpaceInv, InUse
<1>0. UNCHANGED <<blockVars, listVars, held, objects>>
  BY DEF CollectAllGarbage, userVars
<1>1. TypeOK'
  BY SMTT(30) DEF TypeOK, Requests, Phases, BlockStates, Cells, CollectAllGarbage,
     Settle, blockVars, listVars, heapVars, userVars
<1>2. BlockAssertions'
  BY SMTT(30) DEF BlockAssertions, TypeOK, CollectAllGarbage, Settle, blockVars,
     listVars, heapVars, userVars
<1>3. PhaseControl'
  BY SMTT(30) DEF PhaseControl, TypeOK, CollectAllGarbage, Settle, blockVars, listVars,
     heapVars, userVars
<1>4. SweptControl'
  BY SMTT(30) DEF SweptControl, LiveSlots, IsLive, TypeOK, CollectAllGarbage, Settle,
     blockVars, listVars, heapVars, userVars
<1> QED
  BY <1>0, <1>1, <1>2, <1>3, <1>4, QuietStep

\* CanonicalizeForCollection preserves the invariant.
LEMMA CanonicalizeForCollectionInv ==
    ASSUME SpaceInv, CanonicalizeForCollection
    PROVE  SpaceInv'
<1> USE SpaceAssumption DEF SpaceInv, InUse
<1>1. TypeOK'
  BY SMTT(30) DEF TypeOK, Requests, Phases, BlockStates, Cells,
     CanonicalizeForCollection, Canonicalize, Settle, heapVars, userVars
<1>2. BlockAssertions'
  BY SMTT(30) DEF BlockAssertions, TypeOK, ListControl, PhaseControl, WordControl,
     LiveSlots, IsLive, CanonicalizeForCollection, Canonicalize, Settle, heapVars,
     userVars
<1>3. PhaseControl'
  BY SMTT(30) DEF PhaseControl, TypeOK, CanonicalizeForCollection, Canonicalize, Settle,
     heapVars, userVars
<1>4. ListControl'
  BY SMTT(30) DEF ListControl, TypeOK, CanonicalizeForCollection, Canonicalize, Settle,
     heapVars, userVars
<1>5. WordControl'
  BY SMTT(30) DEF WordControl, LiveSlots, IsLive, TypeOK, BlockAssertions, ListControl,
     HeldControl, PhaseControl, CanonicalizeForCollection, Canonicalize, Settle,
     heapVars, userVars
<1>6. SweptControl'
  BY SMTT(30) DEF SweptControl, LiveSlots, IsLive, TypeOK, CanonicalizeForCollection,
     Canonicalize, Settle, heapVars, userVars
<1>7. ObjectControl'
  BY SMTT(30) DEF ObjectControl, Owed, LiveSlots, IsLive, TypeOK, BlockAssertions,
     ListControl, WordControl, PhaseControl, CanonicalizeForCollection, Canonicalize,
     Settle, heapVars, userVars
<1>8. HeldControl'
  BY CanonicalizeLive DEF HeldControl, CanonicalizeForCollection, userVars
<1> QED
  BY <1>1, <1>2, <1>3, <1>4, <1>5, <1>6, <1>7, <1>8

\* MarkRoots preserves the invariant.
LEMMA MarkRootsInv ==
    ASSUME SpaceInv, NEW stale \in SUBSET Cells, MarkRoots(stale)
    PROVE  SpaceInv'
<1> USE SpaceAssumption DEF SpaceInv, InUse
<1>1. TypeOK'
  BY SMTT(30) DEF TypeOK, Requests, Phases, BlockStates, Cells, MarkRoots, Settle,
     listVars, heapVars, userVars
<1>2. BlockAssertions'
  BY SMTT(30) DEF BlockAssertions, TypeOK, MarkRoots, Settle, listVars, heapVars,
     userVars
<1>3. PhaseControl'
  BY SMTT(30) DEF PhaseControl, TypeOK, MarkRoots, Settle, listVars, heapVars, userVars
<1>4. ListControl'
  BY SMTT(30) DEF ListControl, TypeOK, MarkRoots, Settle, listVars, heapVars, userVars
<1>5. WordControl'
  BY SMTT(30) DEF WordControl, LiveSlots, IsLive, TypeOK, MarkRoots, Settle, listVars,
     heapVars, userVars
<1>6. SweptControl'
  BY SMTT(30) DEF SweptControl, LiveSlots, IsLive, TypeOK, MarkRoots, Settle, listVars,
     heapVars, userVars
<1>7. ObjectControl'
  <2>1. ASSUME NEW b \in InUse
        PROVE  Owed(b)' = Owed(b)
    <3>1. state[b] \in {"Allocated", "Zapped", "Marked"} /\ state'[b] = "Marked"
      BY DEF TypeOK, BlockStates, BlockAssertions, MarkRoots
    <3>2. marks'[b] \subseteq IsLive(b) /\ IsLive(b) = LiveSlots(b) /\ LiveSlots(b)' = marks'[b]
      BY <3>1 DEF TypeOK, MarkRoots, LiveSlots, IsLive, listVars
    <3>3. zapped[b] \cap LiveSlots(b) = {} /\ zapped'[b] = zapped[b]
      BY DEF WordControl, MarkRoots
    <3>4. LiveSlots(b) \subseteq Slots /\ (state[b] # "Marked" => LiveSlots(b) = Slots \ zapped[b])
      BY <3>1, <3>2, <3>3 DEF TypeOK, IsLive
    <3> QED
      BY <3>1, <3>2, <3>3, <3>4 DEF Owed
  <2>2. owner' = owner /\ objects' = objects
    BY DEF MarkRoots, userVars
  <2> QED
    BY <2>1, <2>2 DEF ObjectControl, TypeOK
<1>8. HeldControl'
  BY SMTT(30) DEF HeldControl, LiveSlots, IsLive, TypeOK, BlockAssertions, ListControl,
     PhaseControl, MarkRoots, Settle, listVars, heapVars, userVars
<1> QED
  BY <1>1, <1>2, <1>3, <1>4, <1>5, <1>6, <1>7, <1>8

\* ResetAllocators preserves the invariant.
LEMMA ResetAllocatorsInv ==
    ASSUME SpaceInv, ResetAllocators
    PROVE  SpaceInv'
<1> USE SpaceAssumption DEF SpaceInv, InUse
<1>1. TypeOK'
  BY SMTT(30) DEF TypeOK, BlocksOf, Requests, Phases, BlockStates, Cells,
     ResetAllocators, Settle, blockVars, heapVars, userVars
<1>2. BlockAssertions'
  BY SMTT(30) DEF BlockAssertions, TypeOK, ListControl, PhaseControl, ResetAllocators,
     Settle, BlocksOf, blockVars, heapVars, userVars
<1>3. PhaseControl'
  BY SMTT(30) DEF PhaseControl, TypeOK, ResetAllocators, Settle, BlocksOf, blockVars,
     heapVars, userVars
<1>4. ListControl'
  BY SMTT(30) DEF ListControl, TypeOK, BlockAssertions, PhaseControl, ResetAllocators,
     Settle, BlocksOf, blockVars, heapVars, userVars
<1>5. WordControl'
  BY SMTT(30) DEF WordControl, LiveSlots, IsLive, TypeOK, ResetAllocators, Settle,
     BlocksOf, blockVars, heapVars, userVars
<1>6. SweptControl'
  BY SMTT(30) DEF SweptControl, LiveSlots, IsLive, TypeOK, ResetAllocators, Settle,
     BlocksOf, blockVars, heapVars, userVars
<1>7. ObjectControl'
  BY SMTT(30) DEF ObjectControl, Owed, LiveSlots, IsLive, TypeOK, ResetAllocators,
     Settle, BlocksOf, blockVars, heapVars, userVars
<1>8. HeldControl'
  BY SMTT(30) DEF HeldControl, LiveSlots, IsLive, TypeOK, ResetAllocators, Settle,
     BlocksOf, blockVars, heapVars, userVars
<1> QED
  BY <1>1, <1>2, <1>3, <1>4, <1>5, <1>6, <1>7, <1>8

\* FinishWithoutSweep preserves the invariant.
LEMMA FinishWithoutSweepInv ==
    ASSUME SpaceInv, FinishWithoutSweep
    PROVE  SpaceInv'
<1> USE SpaceAssumption DEF SpaceInv, InUse
<1>0. UNCHANGED <<blockVars, listVars, held, objects>>
  BY DEF FinishWithoutSweep, userVars
<1>1. TypeOK'
  BY SMTT(30) DEF TypeOK, Requests, Phases, BlockStates, Cells, FinishWithoutSweep,
     Settle, blockVars, listVars, heapVars, userVars
<1>2. BlockAssertions'
  BY SMTT(30) DEF BlockAssertions, TypeOK, FinishWithoutSweep, Settle, blockVars,
     listVars, heapVars, userVars
<1>3. PhaseControl'
  BY SMTT(30) DEF PhaseControl, TypeOK, FinishWithoutSweep, Settle, blockVars, listVars,
     heapVars, userVars
<1>4. SweptControl'
  BY SMTT(30) DEF SweptControl, LiveSlots, IsLive, TypeOK, FinishWithoutSweep, Settle,
     blockVars, listVars, heapVars, userVars
<1> QED
  BY <1>0, <1>1, <1>2, <1>3, <1>4, QuietStep

\* SweepAll preserves the invariant.
LEMMA SweepAllInv ==
    ASSUME SpaceInv, SweepAll
    PROVE  SpaceInv'
<1> USE SpaceAssumption DEF SpaceInv, InUse
<1>1. TypeOK'
  BY SMTT(30) DEF TypeOK, Requests, Phases, BlockStates, Cells, SweepAll, Settle,
     Destructed, SweptSlots, CellsOf, listVars, heapVars
<1>2. BlockAssertions'
  <2> DEFINE swept == {x \in InUse : owner[x] \in Destructing}
  <2>1. ASSUME NEW b \in swept
        PROVE  /\ state[b] \in {"Marked", "Zapped"} /\ state'[b] = "Zapped"
               /\ zapped'[b] = Slots \ LiveSlots(b)
               /\ LiveSlots(b) \subseteq Slots /\ LiveSlots(b)' = LiveSlots(b)
               /\ Destructed(b) = {b} \X (Owed(b) \ LiveSlots(b))
    <3>1. state[b] \in {"Marked", "Zapped"} /\ state'[b] = "Zapped"
      BY DEF BlockAssertions, SweepAll
    <3>2. /\ zapped'[b] = zapped[b] \cup SweptSlots(b) /\ owner'[b] = owner[b]
          /\ zapped[b] \cap LiveSlots(b) = {} /\ zapped[b] \subseteq Slots
          /\ marks[b] \subseteq Slots /\ owner[b] # Nobody
      BY DEF TypeOK, SweepAll, WordControl
    <3>3. CASE state[b] = "Marked"
      <4>1. SweptSlots(b) = Slots \ marks[b] /\ LiveSlots(b) = marks[b]
        BY <3>2, <3>3 DEF SweptSlots, LiveSlots, IsLive
      <4>2. zapped'[b] = Slots \ marks[b]
        BY <3>2, <4>1
      <4>3. LiveSlots(b)' = marks[b]
        BY <3>1, <3>2, <4>2 DEF LiveSlots, IsLive
      <4>4. Destructed(b) = {b} \X ((Slots \ marks[b]) \ zapped[b])
        BY <3>3, <4>1 DEF Destructed, CellsOf
      <4> QED
        BY <3>1, <3>2, <3>3, <4>1, <4>2, <4>3, <4>4 DEF Owed
    <3>4. CASE state[b] = "Zapped"
      <4>1. SweptSlots(b) = zapped[b] /\ LiveSlots(b) = Slots \ zapped[b]
        BY <3>2, <3>4 DEF SweptSlots, LiveSlots, IsLive
      <4>2. zapped'[b] = zapped[b]
        BY <3>2, <4>1
      <4>3. LiveSlots(b)' = Slots \ zapped[b]
        BY <3>1, <3>2, <4>2 DEF LiveSlots, IsLive
      <4>4. Destructed(b) = {b} \X {}
        BY <3>4, <4>1 DEF Destructed, CellsOf
      <4> QED
        BY <3>1, <3>2, <3>4, <4>1, <4>2, <4>3, <4>4 DEF Owed
    <3> QED
      BY <3>1, <3>3, <3>4
  <2>2. ASSUME NEW b \in Blocks \ swept
        PROVE  /\ LiveSlots(b)' = LiveSlots(b) /\ state'[b] = state[b] /\ zapped'[b] = zapped[b]
               /\ Owed(b)' = Owed(b)
    BY DEF SweepAll, LiveSlots, IsLive, listVars, TypeOK, Owed
  <2>3. owner' = owner /\ held' = held /\ marks' = marks
    BY DEF SweepAll
  <2>4. ASSUME NEW b \in InUse', state'[b] = "Zapped"
        PROVE  zapped'[b] \cap marks'[b] = {}
    BY <2>1, <2>2, <2>3, <2>4 DEF WordControl, BlockAssertions
  <2>5. \A b \in InUse : state'[b] \in {"Marked", "Zapped"}
    BY <2>1, <2>2 DEF BlockAssertions, SweepAll
  <2>6. \A a \in Allocators : freeList[a] = {}
    BY DEF BlockAssertions, SweepAll, TypeOK
  <2>7. current' = current /\ freeList' = freeList /\ phase' = "swept"
    BY DEF SweepAll, listVars, Settle
  <2> QED
    BY <2>3, <2>4, <2>5, <2>6, <2>7 DEF BlockAssertions, TypeOK
<1>3. PhaseControl'
  BY SMTT(30) DEF PhaseControl, TypeOK, SweepAll, Settle, Destructed, SweptSlots,
     CellsOf, listVars, heapVars
<1>4. ListControl'
  BY SMTT(30) DEF ListControl, TypeOK, SweepAll, Settle, Destructed, SweptSlots,
     CellsOf, listVars, heapVars
<1>5. WordControl'
  BY SMTT(30) DEF WordControl, LiveSlots, IsLive, TypeOK, SweepAll, Settle, Destructed,
     SweptSlots, CellsOf, listVars, heapVars
<1>6. SweptControl'
  BY SMTT(30) DEF SweptControl, LiveSlots, IsLive, TypeOK, BlockAssertions, ListControl,
     WordControl, PhaseControl, SweepAll, Settle, Destructed, SweptSlots, CellsOf,
     listVars, heapVars
<1>7. ObjectControl'
  <2> DEFINE swept == {x \in InUse : owner[x] \in Destructing}
  <2>1. ASSUME NEW b \in swept
        PROVE  /\ state[b] \in {"Marked", "Zapped"} /\ state'[b] = "Zapped"
               /\ zapped'[b] = Slots \ LiveSlots(b)
               /\ LiveSlots(b) \subseteq Slots /\ LiveSlots(b)' = LiveSlots(b)
               /\ Destructed(b) = {b} \X (Owed(b) \ LiveSlots(b))
    <3>1. state[b] \in {"Marked", "Zapped"} /\ state'[b] = "Zapped"
      BY DEF BlockAssertions, SweepAll
    <3>2. /\ zapped'[b] = zapped[b] \cup SweptSlots(b) /\ owner'[b] = owner[b]
          /\ zapped[b] \cap LiveSlots(b) = {} /\ zapped[b] \subseteq Slots
          /\ marks[b] \subseteq Slots /\ owner[b] # Nobody
      BY DEF TypeOK, SweepAll, WordControl
    <3>3. CASE state[b] = "Marked"
      <4>1. SweptSlots(b) = Slots \ marks[b] /\ LiveSlots(b) = marks[b]
        BY <3>2, <3>3 DEF SweptSlots, LiveSlots, IsLive
      <4>2. zapped'[b] = Slots \ marks[b]
        BY <3>2, <4>1
      <4>3. LiveSlots(b)' = marks[b]
        BY <3>1, <3>2, <4>2 DEF LiveSlots, IsLive
      <4>4. Destructed(b) = {b} \X ((Slots \ marks[b]) \ zapped[b])
        BY <3>3, <4>1 DEF Destructed, CellsOf
      <4> QED
        BY <3>1, <3>2, <3>3, <4>1, <4>2, <4>3, <4>4 DEF Owed
    <3>4. CASE state[b] = "Zapped"
      <4>1. SweptSlots(b) = zapped[b] /\ LiveSlots(b) = Slots \ zapped[b]
        BY <3>2, <3>4 DEF SweptSlots, LiveSlots, IsLive
      <4>2. zapped'[b] = zapped[b]
        BY <3>2, <4>1
      <4>3. LiveSlots(b)' = Slots \ zapped[b]
        BY <3>1, <3>2, <4>2 DEF LiveSlots, IsLive
      <4>4. Destructed(b) = {b} \X {}
        BY <3>4, <4>1 DEF Destructed, CellsOf
      <4> QED
        BY <3>1, <3>2, <3>4, <4>1, <4>2, <4>3, <4>4 DEF Owed
    <3> QED
      BY <3>1, <3>3, <3>4
  <2>2. ASSUME NEW b \in Blocks \ swept
        PROVE  /\ LiveSlots(b)' = LiveSlots(b) /\ state'[b] = state[b] /\ zapped'[b] = zapped[b]
               /\ Owed(b)' = Owed(b)
    BY DEF SweepAll, LiveSlots, IsLive, listVars, TypeOK, Owed
  <2>3. owner' = owner /\ held' = held /\ marks' = marks
    BY DEF SweepAll
  <2>4. objects' = objects \ UNION {Destructed(x) : x \in swept}
    BY DEF SweepAll
  <2>5. ASSUME NEW b \in swept, NEW i \in Slots
        PROVE  <<b, i>> \in objects' <=> <<b, i>> \in objects /\ i \in LiveSlots(b)
    <3>1. <<b, i>> \in objects => (i \in LiveSlots(b) \/ i \in Owed(b) \ LiveSlots(b))
      BY <2>1 DEF ObjectControl
    <3>2. i \in LiveSlots(b) => \A x \in swept : <<b, i>> \notin Destructed(x)
      BY <2>1
    <3> QED
      BY <2>1, <2>4, <3>1, <3>2
  <2>6. ASSUME NEW b \in Blocks \ swept, NEW i \in Slots
        PROVE  <<b, i>> \in objects' <=> <<b, i>> \in objects
    BY <2>1, <2>4
  <2>7. ASSUME NEW b \in swept
        PROVE  Owed(b)' = LiveSlots(b)
    BY <2>1 DEF Owed
  <2>8. \A b \in swept : LiveSlots(b) \subseteq Owed(b)
    BY DEF Owed
  <2>9. \A b \in Blocks : Owed(b) \subseteq Slots
    BY DEF Owed, LiveSlots, IsLive, TypeOK
  <2> QED
    BY <2>1, <2>2, <2>3, <2>5, <2>6, <2>7, <2>8, <2>9 DEF ObjectControl
<1>8. HeldControl'
  <2> DEFINE swept == {x \in InUse : owner[x] \in Destructing}
  <2>1. ASSUME NEW b \in swept
        PROVE  /\ state[b] \in {"Marked", "Zapped"} /\ state'[b] = "Zapped"
               /\ zapped'[b] = Slots \ LiveSlots(b)
               /\ LiveSlots(b) \subseteq Slots /\ LiveSlots(b)' = LiveSlots(b)
               /\ Destructed(b) = {b} \X (Owed(b) \ LiveSlots(b))
    <3>1. state[b] \in {"Marked", "Zapped"} /\ state'[b] = "Zapped"
      BY DEF BlockAssertions, SweepAll
    <3>2. /\ zapped'[b] = zapped[b] \cup SweptSlots(b) /\ owner'[b] = owner[b]
          /\ zapped[b] \cap LiveSlots(b) = {} /\ zapped[b] \subseteq Slots
          /\ marks[b] \subseteq Slots /\ owner[b] # Nobody
      BY DEF TypeOK, SweepAll, WordControl
    <3>3. CASE state[b] = "Marked"
      <4>1. SweptSlots(b) = Slots \ marks[b] /\ LiveSlots(b) = marks[b]
        BY <3>2, <3>3 DEF SweptSlots, LiveSlots, IsLive
      <4>2. zapped'[b] = Slots \ marks[b]
        BY <3>2, <4>1
      <4>3. LiveSlots(b)' = marks[b]
        BY <3>1, <3>2, <4>2 DEF LiveSlots, IsLive
      <4>4. Destructed(b) = {b} \X ((Slots \ marks[b]) \ zapped[b])
        BY <3>3, <4>1 DEF Destructed, CellsOf
      <4> QED
        BY <3>1, <3>2, <3>3, <4>1, <4>2, <4>3, <4>4 DEF Owed
    <3>4. CASE state[b] = "Zapped"
      <4>1. SweptSlots(b) = zapped[b] /\ LiveSlots(b) = Slots \ zapped[b]
        BY <3>2, <3>4 DEF SweptSlots, LiveSlots, IsLive
      <4>2. zapped'[b] = zapped[b]
        BY <3>2, <4>1
      <4>3. LiveSlots(b)' = Slots \ zapped[b]
        BY <3>1, <3>2, <4>2 DEF LiveSlots, IsLive
      <4>4. Destructed(b) = {b} \X {}
        BY <3>4, <4>1 DEF Destructed, CellsOf
      <4> QED
        BY <3>1, <3>2, <3>4, <4>1, <4>2, <4>3, <4>4 DEF Owed
    <3> QED
      BY <3>1, <3>3, <3>4
  <2>2. ASSUME NEW b \in Blocks \ swept
        PROVE  /\ LiveSlots(b)' = LiveSlots(b) /\ state'[b] = state[b] /\ zapped'[b] = zapped[b]
               /\ Owed(b)' = Owed(b)
    BY DEF SweepAll, LiveSlots, IsLive, listVars, TypeOK, Owed
  <2>3. owner' = owner /\ held' = held /\ marks' = marks
    BY DEF SweepAll
  <2> QED
    BY <2>1, <2>2, <2>3 DEF HeldControl
<1> QED
  BY <1>1, <1>2, <1>3, <1>4, <1>5, <1>6, <1>7, <1>8

\* Shrink preserves the invariant.
LEMMA ShrinkInv ==
    ASSUME SpaceInv, Shrink
    PROVE  SpaceInv'
<1> USE SpaceAssumption DEF SpaceInv, InUse
<1>1. TypeOK'
  BY SMTT(30) DEF TypeOK, Requests, Phases, BlockStates, Cells, Shrink, Settle,
     FreeEmptyBlocks, Destructed, SweptSlots, CellsOf
<1>2. BlockAssertions'
  BY SMTT(30) DEF BlockAssertions, TypeOK, Shrink, Settle, FreeEmptyBlocks, Destructed,
     SweptSlots, CellsOf
<1>3. PhaseControl'
  BY SMTT(30) DEF PhaseControl, TypeOK, Shrink, Settle, FreeEmptyBlocks, Destructed,
     SweptSlots, CellsOf
<1>4. ListControl'
  BY SMTT(30) DEF ListControl, TypeOK, Shrink, Settle, FreeEmptyBlocks, Destructed,
     SweptSlots, CellsOf
<1>5. WordControl'
  BY SMTT(30) DEF WordControl, LiveSlots, IsLive, TypeOK, Shrink, Settle,
     FreeEmptyBlocks, Destructed, SweptSlots, CellsOf
<1>6. SweptControl'
  BY SMTT(30) DEF SweptControl, LiveSlots, IsLive, TypeOK, Shrink, Settle,
     FreeEmptyBlocks, Destructed, SweptSlots, CellsOf
<1>7. ObjectControl'
  <2> DEFINE empty == {x \in InUse : marks[x] = {}}
  <2>1. /\ FreeEmptyBlocks(empty)
        /\ \A b \in InUse : state[b] \in {"Marked", "Zapped"}
    BY DEF Shrink, BlockAssertions
  <2>2. ASSUME NEW b \in Blocks \ empty
        PROVE  /\ LiveSlots(b)' = LiveSlots(b) /\ owner'[b] = owner[b]
               /\ Owed(b)' = Owed(b)
    BY <2>1 DEF FreeEmptyBlocks, LiveSlots, IsLive, TypeOK, Owed
  <2>3. objects' = objects \ UNION {Destructed(x) : x \in empty}
    BY <2>1 DEF FreeEmptyBlocks
  <2>4. ASSUME NEW b \in empty, NEW i \in Slots
        PROVE  <<b, i>> \notin objects'
    <3>1. LiveSlots(b) = {} /\ marks[b] = {}
      BY DEF Shrink, SweptControl
    <3>2. ASSUME <<b, i>> \in objects
          PROVE  <<b, i>> \in Destructed(b)
      <4>1. owner[b] \in Destructing /\ state[b] = "Marked" /\ i \notin zapped[b]
        BY <3>1, <3>2 DEF ObjectControl, Owed
      <4>2. SweptSlots(b) = Slots
        BY <3>1, <4>1 DEF SweptSlots
      <4> QED
        BY <4>1, <4>2 DEF Destructed, CellsOf
    <3> QED
      BY <2>3, <3>2
  <2>5. ASSUME NEW b \in Blocks \ empty, NEW i \in Slots
        PROVE  <<b, i>> \in objects' <=> <<b, i>> \in objects
    <3>1. \A x \in empty : Destructed(x) \subseteq {x} \X Slots
      BY DEF Destructed, CellsOf, SweptSlots, TypeOK
    <3> QED
      BY <2>3, <3>1
  <2>6. \A b \in empty : owner'[b] = Nobody
    BY <2>1 DEF FreeEmptyBlocks, TypeOK
  <2>7. \A b \in Blocks : Owed(b) \subseteq Slots
    BY DEF Owed, LiveSlots, IsLive, TypeOK
  <2> QED
    BY <2>2, <2>4, <2>5, <2>6, <2>7, SpaceAssumption DEF ObjectControl
<1>8. HeldControl'
  <2> DEFINE empty == {x \in InUse : marks[x] = {}}
  <2>1. /\ FreeEmptyBlocks(empty)
        /\ \A b \in InUse : state[b] \in {"Marked", "Zapped"}
    BY DEF Shrink, BlockAssertions
  <2>2. ASSUME NEW b \in Blocks \ empty
        PROVE  /\ LiveSlots(b)' = LiveSlots(b) /\ owner'[b] = owner[b]
               /\ Owed(b)' = Owed(b)
    BY <2>1 DEF FreeEmptyBlocks, LiveSlots, IsLive, TypeOK, Owed
  <2>3. \A b \in empty : LiveSlots(b) = {}
    BY DEF Shrink, SweptControl
  <2> QED
    BY <2>1, <2>2, <2>3 DEF FreeEmptyBlocks, HeldControl
<1> QED
  BY <1>1, <1>2, <1>3, <1>4, <1>5, <1>6, <1>7, <1>8

\* NotifyIsSafeToCollect preserves the invariant.
LEMMA NotifyIsSafeToCollectInv ==
    ASSUME SpaceInv, NotifyIsSafeToCollect
    PROVE  SpaceInv'
<1> USE SpaceAssumption DEF SpaceInv, InUse
<1>0. UNCHANGED <<blockVars, listVars, held, objects>>
  BY DEF NotifyIsSafeToCollect, userVars
<1>1. TypeOK'
  BY SMTT(30) DEF TypeOK, Requests, Phases, BlockStates, Cells, NotifyIsSafeToCollect,
     blockVars, listVars, stepVars, userVars
<1>2. BlockAssertions'
  BY SMTT(30) DEF BlockAssertions, TypeOK, NotifyIsSafeToCollect, blockVars, listVars,
     stepVars, userVars
<1>3. PhaseControl'
  BY SMTT(30) DEF PhaseControl, TypeOK, NotifyIsSafeToCollect, blockVars, listVars,
     stepVars, userVars
<1>4. SweptControl'
  BY SMTT(30) DEF SweptControl, LiveSlots, IsLive, TypeOK, NotifyIsSafeToCollect,
     blockVars, listVars, stepVars, userVars
<1> QED
  BY <1>0, <1>1, <1>2, <1>3, <1>4, QuietStep

\* ForEachCell preserves the invariant.
LEMMA ForEachCellInv ==
    ASSUME SpaceInv, ForEachCell
    PROVE  SpaceInv'
<1> USE SpaceAssumption DEF SpaceInv, InUse
<1>1. TypeOK'
  BY SMTT(30) DEF TypeOK, Requests, Phases, BlockStates, Cells, ForEachCell,
     Canonicalize, stepVars, heapVars, userVars
<1>2. BlockAssertions'
  BY SMTT(30) DEF BlockAssertions, TypeOK, ListControl, PhaseControl, WordControl,
     LiveSlots, IsLive, ForEachCell, Canonicalize, stepVars, heapVars, userVars
<1>3. PhaseControl'
  BY SMTT(30) DEF PhaseControl, TypeOK, ForEachCell, Canonicalize, stepVars, heapVars,
     userVars
<1>4. ListControl'
  BY SMTT(30) DEF ListControl, TypeOK, ForEachCell, Canonicalize, stepVars, heapVars,
     userVars
<1>5. WordControl'
  BY SMTT(30) DEF WordControl, LiveSlots, IsLive, TypeOK, BlockAssertions, ListControl,
     HeldControl, PhaseControl, ForEachCell, Canonicalize, stepVars, heapVars, userVars
<1>6. SweptControl'
  BY SMTT(30) DEF SweptControl, LiveSlots, IsLive, TypeOK, ForEachCell, Canonicalize,
     stepVars, heapVars, userVars
<1>7. ObjectControl'
  BY SMTT(30) DEF ObjectControl, Owed, LiveSlots, IsLive, TypeOK, BlockAssertions,
     ListControl, WordControl, PhaseControl, ForEachCell, Canonicalize, stepVars,
     heapVars, userVars
<1>8. HeldControl'
  BY CanonicalizeLive DEF HeldControl, ForEachCell, userVars
<1> QED
  BY <1>1, <1>2, <1>3, <1>4, <1>5, <1>6, <1>7, <1>8

\* GetConservativeRegisterRoots preserves the invariant.
LEMMA GetConservativeRegisterRootsInv ==
    ASSUME SpaceInv, NEW stale \in SUBSET Cells, GetConservativeRegisterRoots(stale)
    PROVE  SpaceInv'
<1> USE SpaceAssumption DEF SpaceInv, InUse
<1>1. TypeOK'
  BY SMTT(30) DEF TypeOK, Requests, Phases, BlockStates, Cells,
     GetConservativeRegisterRoots, Settle, listVars, heapVars
<1>2. BlockAssertions'
  BY SMTT(30) DEF BlockAssertions, TypeOK, ListControl, PhaseControl, WordControl,
     LiveSlots, IsLive, GetConservativeRegisterRoots, Settle, listVars, heapVars
<1>3. PhaseControl'
  BY SMTT(30) DEF PhaseControl, TypeOK, GetConservativeRegisterRoots, Settle, listVars,
     heapVars
<1>4. ListControl'
  BY SMTT(30) DEF ListControl, TypeOK, GetConservativeRegisterRoots, Settle, listVars,
     heapVars
<1>5. WordControl'
  BY SMTT(30) DEF WordControl, LiveSlots, IsLive, TypeOK, GetConservativeRegisterRoots,
     Settle, listVars, heapVars
<1>6. SweptControl'
  BY SMTT(30) DEF SweptControl, LiveSlots, IsLive, TypeOK, GetConservativeRegisterRoots,
     Settle, listVars, heapVars
<1>7. ObjectControl'
  BY SMTT(30) DEF ObjectControl, Owed, LiveSlots, IsLive, TypeOK,
     GetConservativeRegisterRoots, Settle, listVars, heapVars
<1>8. HeldControl'
  BY SMTT(30) DEF HeldControl, LiveSlots, IsLive, TypeOK, GetConservativeRegisterRoots,
     Settle, listVars, heapVars
<1> QED
  BY <1>1, <1>2, <1>3, <1>4, <1>5, <1>6, <1>7, <1>8

\* DiscardCode preserves the invariant.
LEMMA DiscardCodeInv ==
    ASSUME SpaceInv, DiscardCode
    PROVE  SpaceInv'
<1> USE SpaceAssumption DEF SpaceInv, InUse
<1>1. TypeOK'
  BY SMTT(30) DEF TypeOK, Requests, Phases, BlockStates, Cells, DiscardCode,
     Canonicalize, Settle, heapVars
<1>2. BlockAssertions'
  BY SMTT(30) DEF BlockAssertions, TypeOK, ListControl, PhaseControl, WordControl,
     LiveSlots, IsLive, DiscardCode, Canonicalize, Settle, heapVars
<1>3. PhaseControl'
  BY SMTT(30) DEF PhaseControl, TypeOK, DiscardCode, Canonicalize, Settle, heapVars
<1>4. ListControl'
  BY SMTT(30) DEF ListControl, TypeOK, DiscardCode, Canonicalize, Settle, heapVars
<1>5. WordControl'
  BY SMTT(30) DEF WordControl, LiveSlots, IsLive, TypeOK, BlockAssertions, ListControl,
     HeldControl, PhaseControl, DiscardCode, Canonicalize, Settle, heapVars
<1>6. SweptControl'
  BY SMTT(30) DEF SweptControl, LiveSlots, IsLive, TypeOK, DiscardCode, Canonicalize,
     Settle, heapVars
<1>7. ObjectControl'
  BY SMTT(30) DEF ObjectControl, Owed, LiveSlots, IsLive, TypeOK, BlockAssertions,
     ListControl, WordControl, PhaseControl, DiscardCode, Canonicalize, Settle, heapVars
<1>8. HeldControl'
  BY CanonicalizeLive DEF HeldControl, DiscardCode, userVars
<1> QED
  BY <1>1, <1>2, <1>3, <1>4, <1>5, <1>6, <1>7, <1>8

\* Release preserves the invariant.
LEMMA ReleaseInv ==
    ASSUME SpaceInv, NEW c \in Cells, Release(c)
    PROVE  SpaceInv'
<1> USE SpaceAssumption DEF SpaceInv, InUse
<1>1. TypeOK'
  BY SMTT(30) DEF TypeOK, Requests, Phases, BlockStates, Cells, Release, blockVars,
     listVars, stepVars, heapVars
<1>2. BlockAssertions'
  BY SMTT(30) DEF BlockAssertions, TypeOK, Release, blockVars, listVars, stepVars,
     heapVars
<1>3. PhaseControl'
  BY SMTT(30) DEF PhaseControl, TypeOK, Release, blockVars, listVars, stepVars, heapVars
<1>4. ListControl'
  BY SMTT(30) DEF ListControl, TypeOK, Release, blockVars, listVars, stepVars, heapVars
<1>5. WordControl'
  BY SMTT(30) DEF WordControl, LiveSlots, IsLive, TypeOK, Release, blockVars, listVars,
     stepVars, heapVars
<1>6. SweptControl'
  BY SMTT(30) DEF SweptControl, LiveSlots, IsLive, TypeOK, Release, blockVars, listVars,
     stepVars, heapVars
<1>7. ObjectControl'
  BY SMTT(30) DEF ObjectControl, Owed, LiveSlots, IsLive, TypeOK, Release, blockVars,
     listVars, stepVars, heapVars
<1>8. HeldControl'
  BY SMTT(30) DEF HeldControl, LiveSlots, IsLive, TypeOK, Release, blockVars, listVars,
     stepVars, heapVars
<1> QED
  BY <1>1, <1>2, <1>3, <1>4, <1>5, <1>6, <1>7, <1>8

\* TakeFreeBlock preserves the invariant.
LEMMA TakeFreeBlockInv ==
    ASSUME SpaceInv, NEW b \in Blocks, TakeFreeBlock(b)
    PROVE  SpaceInv'
<1> USE SpaceAssumption DEF SpaceInv, InUse
<1>0. UNCHANGED <<blockVars, listVars, held, objects>>
  BY DEF TakeFreeBlock, userVars
<1>1. TypeOK'
  BY SMTT(30) DEF TypeOK, Requests, Phases, BlockStates, Cells, TakeFreeBlock,
     blockVars, listVars, stepVars, userVars
<1>2. BlockAssertions'
  BY SMTT(30) DEF BlockAssertions, TypeOK, TakeFreeBlock, blockVars, listVars, stepVars,
     userVars
<1>3. PhaseControl'
  BY SMTT(30) DEF PhaseControl, TypeOK, TakeFreeBlock, blockVars, listVars, stepVars,
     userVars
<1>4. SweptControl'
  BY SMTT(30) DEF SweptControl, LiveSlots, IsLive, TypeOK, TakeFreeBlock, blockVars,
     listVars, stepVars, userVars
<1> QED
  BY <1>0, <1>1, <1>2, <1>3, <1>4, QuietStep

\* GiveFreeBlock preserves the invariant.
LEMMA GiveFreeBlockInv ==
    ASSUME SpaceInv, NEW b \in Blocks, GiveFreeBlock(b)
    PROVE  SpaceInv'
<1> USE SpaceAssumption DEF SpaceInv, InUse
<1>0. UNCHANGED <<blockVars, listVars, held, objects>>
  BY DEF GiveFreeBlock, userVars
<1>1. TypeOK'
  BY SMTT(30) DEF TypeOK, Requests, Phases, BlockStates, Cells, GiveFreeBlock,
     blockVars, listVars, stepVars, userVars
<1>2. BlockAssertions'
  BY SMTT(30) DEF BlockAssertions, TypeOK, GiveFreeBlock, blockVars, listVars, stepVars,
     userVars
<1>3. PhaseControl'
  BY SMTT(30) DEF PhaseControl, TypeOK, GiveFreeBlock, blockVars, listVars, stepVars,
     userVars
<1>4. SweptControl'
  BY SMTT(30) DEF SweptControl, LiveSlots, IsLive, TypeOK, GiveFreeBlock, blockVars,
     listVars, stepVars, userVars
<1> QED
  BY <1>0, <1>1, <1>2, <1>3, <1>4, QuietStep

\* BeginDestroy preserves the invariant.
LEMMA BeginDestroyInv ==
    ASSUME SpaceInv, BeginDestroy
    PROVE  SpaceInv'
<1> USE SpaceAssumption DEF SpaceInv, InUse
<1>1. TypeOK'
  BY SMTT(30) DEF TypeOK, Requests, Phases, BlockStates, Cells, BeginDestroy,
     Canonicalize, Settle, heapVars
<1>2. BlockAssertions'
  BY SMTT(30) DEF BlockAssertions, TypeOK, ListControl, PhaseControl, WordControl,
     LiveSlots, IsLive, BeginDestroy, Canonicalize, Settle, heapVars
<1>3. PhaseControl'
  BY SMTT(30) DEF PhaseControl, TypeOK, BeginDestroy, Canonicalize, Settle, heapVars
<1>4. ListControl'
  BY SMTT(30) DEF ListControl, TypeOK, BeginDestroy, Canonicalize, Settle, heapVars
<1>5. WordControl'
  BY SMTT(30) DEF WordControl, LiveSlots, IsLive, TypeOK, BlockAssertions, ListControl,
     HeldControl, PhaseControl, BeginDestroy, Canonicalize, Settle, heapVars
<1>6. SweptControl'
  BY SMTT(30) DEF SweptControl, LiveSlots, IsLive, TypeOK, BeginDestroy, Canonicalize,
     Settle, heapVars
<1>7. ObjectControl'
  BY SMTT(30) DEF ObjectControl, Owed, LiveSlots, IsLive, TypeOK, BlockAssertions,
     ListControl, WordControl, PhaseControl, BeginDestroy, Canonicalize, Settle,
     heapVars
<1>8. HeldControl'
  BY CanonicalizeLive DEF HeldControl, BeginDestroy, userVars
<1> QED
  BY <1>1, <1>2, <1>3, <1>4, <1>5, <1>6, <1>7, <1>8

\* ClearMarksToDestroy preserves the invariant.
LEMMA ClearMarksToDestroyInv ==
    ASSUME SpaceInv, ClearMarksToDestroy
    PROVE  SpaceInv'
<1> USE SpaceAssumption DEF SpaceInv, InUse
<1>1. TypeOK'
  BY SMTT(30) DEF TypeOK, Requests, Phases, BlockStates, Cells, ClearMarksToDestroy,
     Settle, listVars, heapVars, userVars
<1>2. BlockAssertions'
  BY SMTT(30) DEF BlockAssertions, TypeOK, ClearMarksToDestroy, Settle, listVars,
     heapVars, userVars
<1>3. PhaseControl'
  BY SMTT(30) DEF PhaseControl, TypeOK, ClearMarksToDestroy, Settle, listVars, heapVars,
     userVars
<1>4. ListControl'
  BY SMTT(30) DEF ListControl, TypeOK, ClearMarksToDestroy, Settle, listVars, heapVars,
     userVars
<1>5. WordControl'
  BY SMTT(30) DEF WordControl, LiveSlots, IsLive, TypeOK, ClearMarksToDestroy, Settle,
     listVars, heapVars, userVars
<1>6. SweptControl'
  BY SMTT(30) DEF SweptControl, LiveSlots, IsLive, TypeOK, ClearMarksToDestroy, Settle,
     listVars, heapVars, userVars
<1>7. ObjectControl'
  <2>1. ASSUME NEW b \in InUse
        PROVE  Owed(b)' = Owed(b)
    <3>1. state[b] \in {"Allocated", "Zapped", "Marked"} /\ state'[b] = "Marked"
      BY DEF TypeOK, BlockStates, BlockAssertions, ClearMarksToDestroy
    <3>2. IsLive(b) = LiveSlots(b) /\ LiveSlots(b)' = {}
      BY <3>1 DEF TypeOK, ClearMarksToDestroy, LiveSlots, IsLive, listVars
    <3>3. zapped[b] \cap LiveSlots(b) = {} /\ zapped'[b] = zapped[b]
      BY DEF WordControl, ClearMarksToDestroy
    <3>4. LiveSlots(b) \subseteq Slots /\ (state[b] # "Marked" => LiveSlots(b) = Slots \ zapped[b])
      BY <3>1, <3>2, <3>3 DEF TypeOK, IsLive
    <3> QED
      BY <3>1, <3>2, <3>3, <3>4 DEF Owed
  <2>2. owner' = owner /\ objects' = objects
    BY DEF ClearMarksToDestroy, userVars
  <2> QED
    BY <2>1, <2>2 DEF ObjectControl, TypeOK
<1>8. HeldControl'
  BY SMTT(30) DEF HeldControl, LiveSlots, IsLive, TypeOK, BlockAssertions, ListControl,
     PhaseControl, ClearMarksToDestroy, Settle, listVars, heapVars, userVars
<1> QED
  BY <1>1, <1>2, <1>3, <1>4, <1>5, <1>6, <1>7, <1>8

\* ReleaseFreeBlocks preserves the invariant.
LEMMA ReleaseFreeBlocksInv ==
    ASSUME SpaceInv, ReleaseFreeBlocks
    PROVE  SpaceInv'
<1> USE SpaceAssumption DEF SpaceInv, InUse
<1>0. UNCHANGED <<blockVars, listVars, held, objects>>
  BY DEF ReleaseFreeBlocks, userVars
<1>1. TypeOK'
  BY SMTT(30) DEF TypeOK, Requests, Phases, BlockStates, Cells, ReleaseFreeBlocks,
     Settle, blockVars, listVars, userVars
<1>2. BlockAssertions'
  BY SMTT(30) DEF BlockAssertions, TypeOK, ReleaseFreeBlocks, Settle, blockVars,
     listVars, userVars
<1>3. PhaseControl'
  BY SMTT(30) DEF PhaseControl, TypeOK, ReleaseFreeBlocks, Settle, blockVars, listVars,
     userVars
<1>4. SweptControl'
  BY SMTT(30) DEF SweptControl, LiveSlots, IsLive, TypeOK, ReleaseFreeBlocks, Settle,
     blockVars, listVars, userVars
<1> QED
  BY <1>0, <1>1, <1>2, <1>3, <1>4, QuietStep

-----------------------------------------------------------------------------
\* The invariant holds in every reachable state.
THEOREM SpaceInvariant == Spec => []SpaceInv
<1>1. Init => SpaceInv
  <2> SUFFICES ASSUME Init
               PROVE  SpaceInv
    OBVIOUS
  <2>1. InUse = {}
    BY DEF Init, InUse
  <2>2. \A b \in Blocks : LiveSlots(b) = {} /\ Owed(b) = {}
    BY DEF Init, LiveSlots, Owed
  <2>3. TypeOK
    BY <2>1 DEF Init, TypeOK, BlockStates, Phases, Requests
  <2> QED
    BY <2>1, <2>2, <2>3
    DEF Init, SpaceInv, BlockAssertions, PhaseControl, ListControl, WordControl, SweptControl,
        ObjectControl, HeldControl
<1>2. SpaceInv /\ [Next]_vars => SpaceInv'
  <2> SUFFICES ASSUME SpaceInv, [Next]_vars
               PROVE  SpaceInv'
    OBVIOUS
  <2>1. CASE Allocation
    BY <2>1, AllocateFastInv, AllocateSlowCaseInv, TryAllocateSucceedsInv, SweepCurrentInv,
       ConsumeBlockInv, AddBlockInv, OutOfMemoryInv, CollectToAllocateInv
    DEF Allocation
  <2>2. CASE Collection
    BY <2>2, CollectAllGarbageInv, CanonicalizeForCollectionInv, MarkRootsInv,
       ResetAllocatorsInv, FinishWithoutSweepInv, SweepAllInv, ShrinkInv
    DEF Collection
  <2>3. CASE Environment
    BY <2>3, NotifyIsSafeToCollectInv, ForEachCellInv, GetConservativeRegisterRootsInv,
       DiscardCodeInv, ReleaseInv, TakeFreeBlockInv, GiveFreeBlockInv, BeginDestroyInv,
       ClearMarksToDestroyInv, ReleaseFreeBlocksInv
    DEF Environment
  <2>4. CASE UNCHANGED vars
    BY <2>4
    DEF vars, SpaceInv, TypeOK, BlockAssertions, PhaseControl, ListControl, WordControl,
        SweptControl, ObjectControl, HeldControl, InUse, LiveSlots, IsLive, Owed
  <2> QED
    BY <2>1, <2>2, <2>3, <2>4 DEF Next
<1> QED
  BY <1>1, <1>2, PTL DEF Spec

\* Every variable keeps its type, and the allocators only point at blocks of
\* their own lists (MarkedAllocator::addBlock, removeBlock, reset).
THEOREM SpaceTypeCorrect == Spec => []TypeOK
<1>1. SpaceInv => TypeOK
  BY DEF SpaceInv
<1> QED
  BY <1>1, SpaceInvariant, PTL

\* The assertions of MarkedBlock and MarkedAllocator never fail.
THEOREM AssertionsHold == Spec => []BlockAssertions
<1>1. SpaceInv => BlockAssertions
  BY DEF SpaceInv
<1> QED
  BY <1>1, SpaceInvariant, PTL

\* No cell the program can reach is freed, zapped or given away with its block.
THEOREM HeldKept == Spec => []HeldCellsKept
<1>1. SpaceInv => HeldCellsKept
  <2> SUFFICES ASSUME SpaceInv, NEW c \in held
               PROVE  c \in LiveCells /\ c[2] \notin zapped[c[1]]
    BY DEF HeldCellsKept
  <2>1. PICK b \in Blocks, i \in Slots : c = <<b, i>>
    BY DEF SpaceInv, TypeOK, Cells
  <2>2. i \in LiveSlots(b)
    BY <2>1 DEF SpaceInv, HeldControl
  <2>3. b \in InUse
    BY <2>2 DEF LiveSlots, InUse
  <2> QED
    BY <2>1, <2>2, <2>3 DEF SpaceInv, WordControl, LiveCells, Cells
<1> QED
  BY <1>1, SpaceInvariant, PTL

\* callDestructor runs for the dead objects that are owed one, and for them only.
THEOREM DestructorOnce == Spec => []DestroyedOnce
<1>1. SpaceInv => DestroyedOnce
  <2> SUFFICES ASSUME SpaceInv, NEW b \in InUse
               PROVE  Destructed(b) = {c \in objects \ LiveCells : c[1] = b}
    BY DEF DestroyedOnce
  <2> USE DEF SpaceInv, InUse
  <2> DEFINE due == {c \in objects \ LiveCells : c[1] = b}
  <2>1. due \subseteq {b} \X Slots
    BY DEF TypeOK, Cells
  <2>2. ASSUME NEW i \in Slots
        PROVE  <<b, i>> \in due <=> owner[b] \in Destructing /\ i \in Owed(b) \ LiveSlots(b)
    <3>1. <<b, i>> \in LiveCells <=> i \in LiveSlots(b)
      BY DEF LiveCells, Cells
    <3>2. <<b, i>> \in objects <=> owner[b] \in Destructing /\ i \in Owed(b)
      BY DEF ObjectControl
    <3> QED
      BY <3>1, <3>2
  <2>3. Destructed(b) = IF owner[b] \in Destructing THEN {b} \X (Owed(b) \ LiveSlots(b)) ELSE {}
    <3>1. CASE state[b] = "Marked"
      <4>1. SweptSlots(b) = Slots \ marks[b] /\ LiveSlots(b) = marks[b]
        BY <3>1 DEF SweptSlots, LiveSlots, IsLive
      <4>2. (Slots \ marks[b]) \ zapped[b] = Owed(b) \ LiveSlots(b)
        BY <3>1, <4>1 DEF Owed
      <4> QED
        BY <3>1, <4>1, <4>2 DEF Destructed, CellsOf
    <3>2. CASE state[b] # "Marked"
      <4>1. Owed(b) = LiveSlots(b)
        BY <3>2 DEF Owed
      <4>2. SweptSlots(b) \ zapped[b] = {}
        BY <3>2 DEF SweptSlots, ListControl
      <4> QED
        BY <4>1, <4>2 DEF Destructed, CellsOf
    <3> QED
      BY <3>1, <3>2
  <2>4. Owed(b) \subseteq Slots
    BY DEF Owed, LiveSlots, IsLive, TypeOK
  <2> QED
    BY <2>1, <2>2, <2>3, <2>4
<1> QED
  BY <1>1, SpaceInvariant, PTL

\* The eager sweep and Heap::destroy leave no destructor to run.
THEOREM AllDestructed == Spec => []DestructorsRun
<1>1. SpaceInv => DestructorsRun
  <2> SUFFICES ASSUME SpaceInv
               PROVE  DestructorsRun
    OBVIOUS
  <2> USE DEF SpaceInv, InUse
  <2>1. ASSUME phase = "swept", request = "full", NEW c \in objects
        PROVE  c \in LiveCells
    <3>1. PICK b \in Blocks, i \in Slots : c = <<b, i>>
      BY DEF TypeOK, Cells
    <3>2. owner[b] \in Destructing /\ i \in Owed(b)
      BY <3>1 DEF ObjectControl
    <3>3. state[b] = "Zapped"
      BY <2>1, <3>2, SpaceAssumption DEF PhaseControl
    <3> QED
      BY <3>1, <3>2, <3>3 DEF Owed, LiveCells, Cells
  <2>2. ASSUME phase = "destroyed"
        PROVE  objects = {}
    <3>1. \A b \in Blocks : owner[b] \notin Destructing
      BY <2>2, SpaceAssumption DEF PhaseControl
    <3> QED
      BY <3>1 DEF ObjectControl, TypeOK, Cells
  <2> QED
    BY <2>1, <2>2 DEF DestructorsRun
<1> QED
  BY <1>1, SpaceInvariant, PTL

-----------------------------------------------------------------------------
(***************************************************************************)
(* MarkedSpace implements CellAllocator.  Each action is matched with the  *)
(* abstract step it takes; most leave the live cells as they are.          *)
(***************************************************************************)
\* Live cells change exactly when the live slots of some block do.
LEMMA SameLiveCells ==
    ASSUME \A b \in Blocks : LiveSlots(b)' = LiveSlots(b)
    PROVE  LiveCells' = LiveCells
BY DEF LiveCells, Cells

\* Taking the head of the free list is an allocation of a cell that is free.
LEMMA TakeFreeCellAllocates ==
    ASSUME SpaceInv, NEW a \in Allocators, TakeFreeCell(a)
    PROVE  \E c \in Cells : Allocator!Allocate(c)
<1> USE SpaceAssumption DEF SpaceInv, InUse
<1>0. PICK b \in Blocks \cup {NoBlock} : b = current[a]
  BY DEF TypeOK
<1>1. PICK i \in freeList[a] :
        /\ freeList' = [freeList EXCEPT ![a] = @ \ {i}]
        /\ held' = held \cup {<<b, i>>}
        /\ objects' = IF a \in Destructing THEN objects \cup {<<b, i>>} ELSE objects
        /\ UNCHANGED <<owner, state, marks>>
        /\ zapped' = [zapped EXCEPT ![b] = @ \ {i}]
  BY <1>0 DEF TakeFreeCell
<1>2. b \in Blocks /\ owner[b] = a /\ state[b] = "FreeListed" /\ i \in Slots
  BY <1>0, <1>1 DEF BlockAssertions, TypeOK
<1>3. LiveSlots(b) = Slots \ freeList[a] /\ LiveSlots(b)' = LiveSlots(b) \cup {i}
  BY <1>1, <1>2 DEF LiveSlots, TypeOK
<1>4. ASSUME NEW x \in Blocks \ {b}
      PROVE  LiveSlots(x)' = LiveSlots(x)
  <2>1. state[x] = "FreeListed" /\ owner[x] # Nobody => owner[x] # a
    BY <1>0 DEF ListControl
  <2>2. owner'[x] = owner[x] /\ state'[x] = state[x] /\ marks'[x] = marks[x] /\ zapped'[x] = zapped[x]
    BY <1>1 DEF TypeOK
  <2>3. state[x] = "FreeListed" /\ owner[x] # Nobody => freeList'[owner[x]] = freeList[owner[x]]
    BY <1>1, <2>1 DEF TypeOK
  <2> QED
    BY <2>2, <2>3 DEF LiveSlots, IsLive
<1>5. LiveCells' = LiveCells \cup {<<b, i>>}
  <2>1. ASSUME NEW x \in Blocks, NEW j \in Slots
        PROVE  <<x, j>> \in LiveCells' <=> <<x, j>> \in LiveCells \cup {<<b, i>>}
    <3>1. (<<x, j>> \in LiveCells <=> j \in LiveSlots(x)) /\ (<<x, j>> \in LiveCells' <=> j \in LiveSlots(x)')
      BY DEF LiveCells, Cells
    <3>2. CASE x = b
      BY <1>3, <3>1, <3>2
    <3>3. CASE x # b
      BY <1>4, <3>1, <3>3
    <3> QED
      BY <3>2, <3>3
  <2>2. LiveCells' \subseteq Blocks \X Slots /\ LiveCells \cup {<<b, i>>} \subseteq Blocks \X Slots
    BY <1>2 DEF LiveCells, Cells
  <2> QED
    BY <2>1, <2>2
<1>6. <<b, i>> \notin LiveCells \cup objects
  BY <1>1, <1>2, <1>3 DEF LiveCells, ObjectControl, Owed
<1>7. <<b, i>> \in Cells
  BY <1>2 DEF Cells
<1> QED
  BY <1>1, <1>5, <1>6, <1>7 DEF Allocator!Allocate

\* A step that keeps the live cells and their objects and loses other objects
\* is a run of destructors.
LEMMA DestructorsAreDestroy ==
    ASSUME SpaceInv, SpaceInv', held' = held, objects' \subseteq objects,
           \A b \in Blocks : LiveSlots(b)' = LiveSlots(b),
           \A b \in Blocks : LiveSlots(b) # {} => owner'[b] = owner[b]
    PROVE  Allocator!Destroy
<1>1. LiveCells' = LiveCells
  BY SameLiveCells
<1>2. ASSUME NEW c \in LiveCells \cap objects
      PROVE  c \in objects'
  <2>1. PICK b \in Blocks, i \in Slots : c = <<b, i>>
    BY DEF LiveCells, Cells
  <2>2. i \in LiveSlots(b) /\ owner[b] \in Destructing
    BY <2>1 DEF LiveCells, SpaceInv, ObjectControl
  <2>3. owner'[b] \in Destructing /\ i \in Owed(b)'
    BY <2>2 DEF Owed
  <2> QED
    BY <2>1, <2>3 DEF SpaceInv, ObjectControl
<1> QED
  BY <1>1, <1>2 DEF Allocator!Destroy

\* The sweep of the allocator's current block frees no live cell.
LEMMA SweepCurrentDestroys ==
    ASSUME SpaceInv, SpaceInv', SweepCurrent
    PROVE  Allocator!Destroy
<1> USE SpaceAssumption DEF SpaceInv, InUse
<1>0. PICK b \in Blocks, free \in SUBSET Slots : b = current[request] /\ free = SweptSlots(b)
  <2>1. current[request] \in Blocks
    BY DEF TypeOK, SweepCurrent, Allocating
  <2>2. SweptSlots(current[request]) \subseteq Slots
    BY <2>1 DEF TypeOK, SweptSlots
  <2> QED
    BY <2>1, <2>2
<1>1. /\ request \in Allocators /\ b \in Blocks /\ owner[b] = request /\ free # {}
      /\ state' = [state EXCEPT ![b] = "FreeListed"]
      /\ freeList' = [freeList EXCEPT ![request] = free]
      /\ zapped' = [zapped EXCEPT ![b] = LinkedWords(b, free)]
      /\ objects' = objects \ Destructed(b)
      /\ UNCHANGED <<owner, marks, held>>
  BY <1>0 DEF SweepCurrent, Allocating, TypeOK
<1>2. LiveSlots(b)' = Slots \ free
  BY <1>1 DEF LiveSlots, TypeOK
<1>3. state[b] \in {"Marked", "Zapped"} /\ marks[b] \subseteq Slots
  BY <1>0, <1>1 DEF SweptSlots, BlockAssertions, TypeOK
<1>4. LiveSlots(b) = Slots \ free
  BY <1>0, <1>1, <1>3 DEF LiveSlots, IsLive, SweptSlots
<1>5. ASSUME NEW x \in Blocks \ {b}
      PROVE  LiveSlots(x)' = LiveSlots(x)
  <2>1. state[x] = "FreeListed" /\ owner[x] # Nobody => owner[x] # request
    BY <1>0, <1>1 DEF ListControl
  <2>2. owner'[x] = owner[x] /\ state'[x] = state[x] /\ marks'[x] = marks[x] /\ zapped'[x] = zapped[x]
    BY <1>1 DEF TypeOK
  <2>3. state[x] = "FreeListed" /\ owner[x] # Nobody => freeList'[owner[x]] = freeList[owner[x]]
    BY <1>1, <2>1 DEF TypeOK
  <2> QED
    BY <2>2, <2>3 DEF LiveSlots, IsLive
<1> QED
  BY <1>1, <1>2, <1>4, <1>5, DestructorsAreDestroy

\* A block with no free cell left keeps all its cells live.
LEMMA ConsumeBlockStutters ==
    ASSUME SpaceInv, ConsumeBlock
    PROVE  UNCHANGED <<held, LiveCells, objects>>
<1> USE SpaceAssumption DEF SpaceInv, InUse
<1>0. PICK b \in Blocks \cup {NoBlock} : b = current[request]
  BY DEF TypeOK, ConsumeBlock, Allocating
<1>1. /\ request \in Allocators /\ b \in Blocks /\ owner[b] = request
      /\ freeList[request] = {} /\ SweptSlots(b) = {}
      /\ state' = [state EXCEPT ![b] = "Allocated"]
      /\ UNCHANGED <<owner, marks, zapped, freeList, held, objects>>
  BY <1>0 DEF ConsumeBlock, Allocating, TypeOK, userVars
<1>2. LiveSlots(b)' = Slots
  BY <1>1 DEF LiveSlots, IsLive, TypeOK
<1>3. state[b] \in {"FreeListed", "Marked", "Zapped"} /\ marks[b] \subseteq Slots
  BY <1>0, <1>1 DEF BlockAssertions, TypeOK
<1>4. LiveSlots(b) = Slots
  BY <1>1, <1>3 DEF LiveSlots, IsLive, SweptSlots
<1>5. \A x \in Blocks \ {b} : LiveSlots(x)' = LiveSlots(x)
  BY <1>1 DEF LiveSlots, IsLive, TypeOK
<1>6. LiveCells' = LiveCells
  BY <1>2, <1>4, <1>5, SameLiveCells
<1> QED
  BY <1>1, <1>6

\* A new block has no live cell.
LEMMA AddBlockStutters ==
    ASSUME SpaceInv, NEW b \in Blocks, AddBlock(b)
    PROVE  UNCHANGED <<held, LiveCells, objects>>
<1> USE SpaceAssumption DEF SpaceInv, InUse
<1>1. /\ owner[b] = Nobody /\ current[request] = NoBlock /\ request \in Allocators
      /\ owner' = [owner EXCEPT ![b] = request]
      /\ state' = [state EXCEPT ![b] = "FreeListed"]
      /\ marks' = [marks EXCEPT ![b] = {}]
      /\ freeList' = [freeList EXCEPT ![request] = Slots]
      /\ held' = held /\ objects' = objects
      /\ zapped' = [zapped EXCEPT ![b] = LinkedWords(b, Slots)]
  BY DEF AddBlock, TryAllocateFails, Allocating, TypeOK, userVars
<1>2. LiveSlots(b) = {} /\ LiveSlots(b)' = {}
  BY <1>1 DEF LiveSlots, TypeOK
<1>3. ASSUME NEW x \in Blocks \ {b}
      PROVE  LiveSlots(x)' = LiveSlots(x)
  <2>1. state[x] = "FreeListed" /\ owner[x] # Nobody => owner[x] # request
    BY <1>1 DEF ListControl
  <2>2. owner'[x] = owner[x] /\ state'[x] = state[x] /\ marks'[x] = marks[x] /\ zapped'[x] = zapped[x]
    BY <1>1 DEF TypeOK
  <2>3. state[x] = "FreeListed" /\ owner[x] # Nobody => freeList'[owner[x]] = freeList[owner[x]]
    BY <1>1, <2>1 DEF TypeOK
  <2> QED
    BY <2>2, <2>3 DEF LiveSlots, IsLive
<1>4. LiveCells' = LiveCells
  BY <1>2, <1>3, SameLiveCells
<1> QED
  BY <1>1, <1>4

\* markRoots keeps what the program holds, and nothing that was dead.
LEMMA MarkRootsCollects ==
    ASSUME SpaceInv, SpaceInv', NEW stale \in SUBSET Cells, MarkRoots(stale)
    PROVE  Allocator!Collect
<1> USE DEF SpaceInv, InUse
<1>1. held' = held /\ objects' = objects /\ owner' = owner
  BY DEF MarkRoots, userVars
<1>2. ASSUME NEW b \in Blocks
      PROVE  LiveSlots(b)' \subseteq LiveSlots(b)
  <2>1. CASE owner[b] = Nobody
    BY <1>1, <2>1 DEF LiveSlots
  <2>2. CASE owner[b] # Nobody
    <3>1. state'[b] = "Marked" /\ marks'[b] \subseteq IsLive(b) /\ state[b] # "FreeListed"
      BY <2>2 DEF MarkRoots, BlockAssertions, IsLive
    <3> QED
      BY <1>1, <2>2, <3>1 DEF LiveSlots, IsLive
  <2> QED
    BY <2>1, <2>2
<1>3. LiveCells' \subseteq LiveCells
  BY <1>2 DEF LiveCells, Cells
<1>4. held \subseteq LiveCells'
  BY <1>1 DEF TypeOK, HeldControl, LiveCells, Cells
<1> QED
  BY <1>1, <1>3, <1>4 DEF Allocator!Collect

\* Heap::destroy clears all marks when nothing is held.
LEMMA ClearMarksCollects ==
    ASSUME SpaceInv, ClearMarksToDestroy
    PROVE  Allocator!Collect
<1> USE DEF SpaceInv, InUse
<1>1. held' = held /\ objects' = objects /\ owner' = owner /\ held = {}
  BY DEF ClearMarksToDestroy, userVars, PhaseControl
<1>2. \A b \in Blocks : LiveSlots(b)' = {}
  BY <1>1 DEF LiveSlots, IsLive, ClearMarksToDestroy, TypeOK
<1>3. LiveCells' \subseteq LiveCells
  BY <1>2 DEF LiveCells, Cells
<1> QED
  BY <1>1, <1>3 DEF Allocator!Collect

\* The eager sweep frees no live cell.
LEMMA SweepAllDestroys ==
    ASSUME SpaceInv, SpaceInv', SweepAll
    PROVE  Allocator!Destroy
<1> USE DEF SpaceInv, InUse
<1>1. held' = held /\ objects' \subseteq objects /\ owner' = owner /\ marks' = marks /\ freeList' = freeList
  BY DEF SweepAll, listVars
<1>2. ASSUME NEW b \in InUse
      PROVE  LiveSlots(b)' = LiveSlots(b)
  <2>1. state[b] = "Marked" /\ LiveSlots(b) = marks[b]
    BY DEF PhaseControl, SweepAll, LiveSlots, IsLive
  <2>2. phase' = "swept"
    BY DEF SweepAll, Settle
  <2>3. LiveSlots(b)' = marks'[b]
    BY <1>1, <2>2 DEF SweptControl
  <2> QED
    BY <1>1, <2>1, <2>3
<1>3. \A b \in Blocks \ InUse : LiveSlots(b)' = LiveSlots(b)
  BY <1>1 DEF LiveSlots
<1> QED
  BY <1>1, <1>2, <1>3, DestructorsAreDestroy

\* shrink gives away only blocks without a live cell.
LEMMA ShrinkDestroys ==
    ASSUME SpaceInv, SpaceInv', Shrink
    PROVE  Allocator!Destroy
<1> USE DEF SpaceInv, InUse
<1> DEFINE empty == {x \in InUse : marks[x] = {}}
<1>1. /\ held' = held /\ objects' \subseteq objects /\ freeList' = freeList /\ marks' = marks
      /\ owner' = [b \in Blocks |-> IF b \in empty THEN Nobody ELSE owner[b]]
      /\ state' = [b \in Blocks |-> IF b \in empty THEN "New" ELSE state[b]]
      /\ zapped' = [b \in Blocks |-> IF b \in empty THEN {} ELSE zapped[b]]
  BY DEF Shrink, FreeEmptyBlocks
<1>2. ASSUME NEW b \in empty
      PROVE  LiveSlots(b) = {} /\ LiveSlots(b)' = {}
  BY <1>1 DEF Shrink, SweptControl, LiveSlots
<1>3. ASSUME NEW b \in Blocks \ empty
      PROVE  LiveSlots(b)' = LiveSlots(b) /\ owner'[b] = owner[b]
  BY <1>1 DEF LiveSlots, IsLive, TypeOK
<1> QED
  BY <1>1, <1>2, <1>3, DestructorsAreDestroy

\* The program sees a CellAllocator, whatever the blocks go through.
THEOREM SpaceImplementsCellAllocator == Spec => ImplementsCellAllocator
<1>1. Init => Allocator!Init
  BY DEF Init, Allocator!Init, LiveCells, LiveSlots, Cells
<1>2. SpaceInv /\ SpaceInv' /\ [Next]_vars => [Allocator!Next]_<<held, LiveCells, objects>>
  <2> SUFFICES ASSUME SpaceInv, SpaceInv', [Next]_vars
               PROVE  Allocator!Next \/ UNCHANGED <<held, LiveCells, objects>>
    OBVIOUS
  <2>1. ASSUME UNCHANGED <<blockVars, freeList, held, objects>>
        PROVE  UNCHANGED <<held, LiveCells, objects>>
    <3>1. \A b \in Blocks : LiveSlots(b)' = LiveSlots(b)
      BY <2>1 DEF blockVars, LiveSlots, IsLive
    <3> QED
      BY <2>1, <3>1, SameLiveCells
  <2>2. ASSUME Canonicalize
        PROVE  LiveCells' = LiveCells
    BY <2>2, CanonicalizeLive, SameLiveCells
  <2>3. CASE Allocation
    <3>1. ASSUME NEW a \in Allocators, AllocateFast(a)
          PROVE  Allocator!Next
      BY <3>1, TakeFreeCellAllocates DEF AllocateFast, Allocator!Next
    <3>2. CASE TryAllocateSucceeds
      BY <3>2, TakeFreeCellAllocates DEF TryAllocateSucceeds, Allocating, Allocator!Next
    <3>3. CASE SweepCurrent
      BY <3>3, SweepCurrentDestroys DEF Allocator!Next
    <3>4. ASSUME NEW a \in Allocators, AllocateSlowCase(a)
          PROVE  UNCHANGED <<held, LiveCells, objects>>
      BY <3>4, <2>1 DEF AllocateSlowCase, listVars, userVars
    <3>5. CASE OutOfMemory \/ CollectToAllocate
      BY <3>5, <2>1 DEF OutOfMemory, CollectToAllocate, listVars, userVars
    <3> QED
      BY <2>3, <3>1, <3>2, <3>3, <3>4, <3>5, ConsumeBlockStutters, AddBlockStutters DEF Allocation
  <2>4. CASE Collection
    <3>1. CASE CollectAllGarbage
      BY <3>1, <2>1 DEF CollectAllGarbage, listVars, userVars
    <3>2. CASE CanonicalizeForCollection
      BY <3>2, <2>2 DEF CanonicalizeForCollection, userVars
    <3>3. CASE ResetAllocators
      BY <3>3, <2>1 DEF ResetAllocators, userVars
    <3>4. CASE FinishWithoutSweep
      BY <3>4, <2>1 DEF FinishWithoutSweep, listVars, userVars
    <3> QED
      BY <2>4, <3>1, <3>2, <3>3, <3>4, MarkRootsCollects, SweepAllDestroys, ShrinkDestroys
      DEF Collection, Allocator!Next
  <2>5. CASE Environment
    <3>1. CASE NotifyIsSafeToCollect \/ ReleaseFreeBlocks
      BY <3>1, <2>1 DEF NotifyIsSafeToCollect, ReleaseFreeBlocks, listVars, userVars
    <3>2. CASE ForEachCell \/ DiscardCode
      BY <3>2, <2>2 DEF ForEachCell, DiscardCode, userVars
    <3>3. ASSUME NEW stale \in SUBSET Cells, GetConservativeRegisterRoots(stale)
          PROVE  UNCHANGED <<held, LiveCells, objects>>
      <4>1. ASSUME NEW b \in Blocks
            PROVE  LiveSlots(b)' = LiveSlots(b)
        <5>1. /\ owner' = owner /\ state' = state /\ zapped' = zapped /\ freeList' = freeList
              /\ b \in InUse /\ state[b] = "Marked" => marks'[b] = marks[b]
          BY <3>3 DEF GetConservativeRegisterRoots, listVars, IsLive, SpaceInv, TypeOK, Cells, InUse
        <5> QED
          BY <5>1 DEF LiveSlots, IsLive, InUse
      <4> QED
        BY <3>3, <4>1, SameLiveCells DEF GetConservativeRegisterRoots
    <3>4. ASSUME NEW c \in Cells, Release(c)
          PROVE  Allocator!Release
      <4>1. \A b \in Blocks : LiveSlots(b)' = LiveSlots(b)
        BY <3>4 DEF Release, blockVars, listVars, LiveSlots, IsLive
      <4> QED
        BY <3>4, <4>1, SameLiveCells DEF Release, Allocator!Release
    <3>5. ASSUME NEW b \in Blocks, TakeFreeBlock(b) \/ GiveFreeBlock(b)
          PROVE  UNCHANGED <<held, LiveCells, objects>>
      BY <3>5, <2>1 DEF TakeFreeBlock, GiveFreeBlock, listVars, userVars
    <3>6. CASE BeginDestroy
      BY <3>6, <2>2 DEF BeginDestroy, Allocator!Release, Allocator!Next
    <3> QED
      BY <2>5, <3>1, <3>2, <3>3, <3>4, <3>5, <3>6, ClearMarksCollects DEF Environment, Allocator!Next
  <2>6. CASE UNCHANGED vars
    BY <2>6, <2>1 DEF vars, blockVars
  <2> QED
    BY <2>3, <2>4, <2>5, <2>6 DEF Next
<1> QED
  BY <1>1, <1>2, SpaceInvariant, PTL DEF Spec, ImplementsCellAllocator, Allocator!Spec, Allocator!cellVars
=============================================================================
