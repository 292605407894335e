----------------------------- MODULE CopiedSpace -----------------------------
(***************************************************************************)
(* The backing stores of arrays and objects: CopiedSpace, the free block   *)
(* list it shares with MarkedSpace, the block freeing thread, and the      *)
(* water marks that start a collection.                                    *)
(*                                                                         *)
(* The thread that holds the JSLock allocates and collects; the block      *)
(* freeing thread runs beside it.  That marking visits every store with a  *)
(* live owner, and once, is ParallelMarking; here one marker copies them.  *)
(* Sizes are in units of the smallest store; size_t arithmetic wraps at    *)
(* SizeRange.  A block list is the set of its blocks.  What MarkedSpace      *)
(* does with the free list is in MarkedSpace; here blocks only leave it.    *)
(***************************************************************************)
EXTENDS Integers, FiniteSets

CONSTANTS
    Blocks,        \* the 64 KB blocks the process can map
    NoBlock,       \* the null block pointer
    Stores,        \* backing stores
    Sizes,         \* sizes a store may have
    MaxAllocation, \* s_maxAllocationSize: larger stores are oversize
    Capacity,      \* what a block holds must stay below this
    SizeRange,     \* 2 to the width of size_t
    MinPerCycle,   \* m_minBytesPerCycle
    AssertionsEnabled, \* a debug build
    MaxObjects     \* bound: size of the object space

ASSUME CopyAssumption ==
    /\ {NoBlock, "oversize", "none"} \cap Blocks = {}
    /\ Sizes \subseteq Nat \ {0}
    /\ MaxAllocation \in Nat /\ MaxAllocation < Capacity
    /\ Capacity \in Nat /\ SizeRange \in Nat /\ Capacity < SizeRange
    /\ MinPerCycle \in 1..(SizeRange - 1) /\ MaxObjects \in Nat
    /\ AssertionsEnabled \in BOOLEAN

VARIABLES
    place,     \* the block of a store, "oversize" or "none"
    offset,    \* its distance from the block's payload
    size,      \* its size
    owned,     \* the stores whose owner is reachable
    pointer,   \* the address of the store that is on the machine stack
    where,     \* "os", "free", "to", "from" or "loaned" for each block
    fill,      \* CopiedBlock::m_offset, from the payload
    pinned,    \* the blocks with m_isPinned set
    set,       \* m_toSpaceSet
    filter,    \* the blocks added to m_toSpaceFilter since its reset
    current,   \* m_currentBlock
    copyBlock, \* the marker's borrowed block
    visited,   \* the stores this collection has copied or pinned
    utilized,  \* m_totalMemoryUtilized
    cellMark,  \* MarkedSpace::waterMark
    highWater, \* Heap::m_highWaterMark
    phase,     \* where the thread with the lock is
    request,   \* the allocation that waits for a block
    freeing,   \* the block freeing thread: "asleep" or "freeing"
    desired    \* its desiredNumberOfFreeBlocks

storeVars == <<place, offset, size, owned, pointer>>
blockVars == <<where, fill, pinned, set, filter, current>>
gcVars    == <<copyBlock, visited>>
sizeVars  == <<utilized, cellMark, highWater>>
stepVars  == <<phase, request>>
threadVars == <<freeing, desired>>

vars == <<place, offset, size, owned, pointer, where, fill, pinned, set, filter, current,
          copyBlock, visited, utilized, cellMark, highWater, phase, request, freeing, desired>>

NoPointer == <<"none", 0>>
NoRequest == [store |-> "none", size |-> 0]
Cells     == [store |-> "cells", size |-> 0]
Storage(s, n) == [store |-> s, size |-> n]

Phases == {"idle", "fresh", "insist", "collect", "copying", "freeing", "current", "end",
           "retry", "crashed"}

In(list) == {b \in Blocks : where[b] = list}
Address(s) == <<place[s], offset[s]>>
Oversize(n) == n > MaxAllocation

\* Mutant: a block may be filled to the last byte.
FitsExactly(b, n) == fill[b] + n <= Capacity

\* fitsInBlock: strictly below the end of the block.
Fits(b, n) == fill[b] + n < Capacity
Add(x, y) == (x + y) % SizeRange
Subtract(x, y) == (x - y) % SizeRange

HeapWaterMark == Add(cellMark, utilized)
\* m_isSafeToCollect is set once and for all when the JSGlobalData has been made.
WantsCollection == HeapWaterMark >= highWater

\* Heap::Heap and CopiedSpace::init: the first block comes from addNewBlock.
Init ==
    /\ place = [s \in Stores |-> "none"]
    /\ offset = [s \in Stores |-> 0]
    /\ size = [s \in Stores |-> 0]
    /\ owned = {}
    /\ pointer = [s \in Stores |-> NoPointer]
    /\ current \in Blocks
    /\ where = [b \in Blocks |-> IF b = current THEN "to" ELSE "os"]
    /\ fill = [b \in Blocks |-> 0]
    /\ pinned = {}
    /\ set = {}
    /\ filter = {}
    /\ copyBlock = NoBlock
    /\ visited = {}
    /\ utilized = 0
    /\ cellMark = 0
    /\ highWater = MinPerCycle
    /\ phase = "idle"
    /\ request = NoRequest
    /\ freeing = "asleep"
    /\ desired = 0

-----------------------------------------------------------------------------
(***************************************************************************)
(* Blocks.                                                                 *)
(***************************************************************************)

\* getFreshBlock(AllocationMustSucceed): from the free list, else from the OS.
Fresh(b) == IF In("free") # {} THEN b \in In("free") ELSE b \in In("os")

NeedsBlock == phase \in {"fresh", "insist"}

\* getFreshBlock(AllocationCanFail) collects when the free list is empty and the
\* water mark is reached, and insists afterwards.
GetFreshBlockCollects ==
    /\ phase = "fresh"
    /\ In("free") = {}
    /\ WantsCollection
    /\ phase' = "collect"
    /\ UNCHANGED <<storeVars, blockVars, gcVars, sizeVars, request, threadVars>>

\* Puts a store of n units at the end of block b, whose fill was at.
PutStore(s, n, b, at) ==
    /\ place' = [place EXCEPT ![s] = b]
    /\ offset' = [offset EXCEPT ![s] = at]
    /\ size' = [size EXCEPT ![s] = n]

\* The name of a store that is gone may be given to a new one.
ForgetStore(s) == PutStore(s, 0, "none", 0)

\* The rest of tryAllocateSlowCase: addNewBlock makes b the current block, and
\* the set and the filter learn of it.  A store that is reallocated is copied.
AddNewBlock(b) ==
    /\ NeedsBlock
    /\ phase = "fresh" => ~(In("free") = {} /\ WantsCollection)
    /\ Fresh(b)
    /\ where' = [where EXCEPT ![b] = "to"]
    /\ fill' = [fill EXCEPT ![b] = request.size]
    /\ current' = b
    /\ set' = set \cup {b}
    /\ filter' = filter \cup {b}
    /\ PutStore(request.store, request.size, b, 0)
    /\ owned' = owned \cup {request.store}
    /\ pointer' = [pointer EXCEPT ![request.store] = NoPointer]
    /\ phase' = "idle"
    /\ request' = NoRequest
    /\ UNCHANGED <<pinned, gcVars, sizeVars, threadVars>>

\* allocateNewBlock fails.  A build with assertions stops in getFreshBlock; in
\* another one a new store's owner crashes, as does an object whose properties
\* grow, while an array that grows keeps its store and turns to a sparse map.
AllocationFails ==
    /\ NeedsBlock
    /\ phase = "fresh" => ~WantsCollection
    /\ In("free") \cup In("os") = {}
    /\ phase' \in {"crashed"} \cup
         {label \in {"idle"} : ~AssertionsEnabled /\ request.store \in owned}
    /\ request' = NoRequest
    /\ pointer' = [pointer EXCEPT ![request.store] = NoPointer]
    /\ UNCHANGED <<place, offset, size, owned, blockVars, gcVars, sizeVars, threadVars>>

-----------------------------------------------------------------------------
(***************************************************************************)
(* tryAllocate and tryReallocate.                                          *)
(***************************************************************************)
AllocateStore(s, n) ==
    /\ phase = "idle"
    /\ place[s] = "none"
    /\ \/ /\ Oversize(n)
          /\ PutStore(s, n, "oversize", 0)
          /\ owned' = owned \cup {s}
          /\ utilized' = Add(utilized, n)
          /\ UNCHANGED <<fill, phase, request>>
       \/ /\ ~Oversize(n) /\ Fits(current, n)
          /\ PutStore(s, n, current, fill[current])
          /\ fill' = [fill EXCEPT ![current] = @ + n]
          /\ owned' = owned \cup {s}
          /\ UNCHANGED <<utilized, phase, request>>
       \/ /\ ~Oversize(n) /\ ~Fits(current, n)
          /\ utilized' = Add(utilized, fill[current])
          /\ phase' = "fresh"
          /\ request' = Storage(s, n)
          /\ UNCHANGED <<place, offset, size, owned, fill>>
    /\ UNCHANGED <<pointer, where, pinned, set, filter, current, gcVars, cellMark, highWater,
                   threadVars>>

\* Mutant: any store of the current block is taken for its last one.
LastInCurrentLoose(s) == place[s] = current

\* The store ends where the current block's free space begins.
LastInCurrent(s) == place[s] = current /\ offset[s] + size[s] = fill[current]

Reallocatable(s, n) ==
    /\ phase = "idle"
    /\ s \in owned
    /\ pointer[s] = NoPointer
    /\ n > size[s]

\* tryReallocate grows the last store of the current block in place.
GrowInPlace(s, n) ==
    /\ Reallocatable(s, n)
    /\ ~Oversize(n)
    /\ LastInCurrent(s)
    /\ offset[s] + n < Capacity
    /\ utilized' = Add(utilized, n - size[s])
    /\ size' = [size EXCEPT ![s] = n]
    /\ fill' = [fill EXCEPT ![current] = offset[s] + n]
    /\ UNCHANGED <<place, offset, owned, pointer, where, pinned, set, filter, current, gcVars,
                   cellMark, highWater, stepVars, threadVars>>

\* Otherwise it rolls the current block back if the store is its last, and
\* allocates anew: in the current block, or in a fresh one while the old address
\* is on the stack.
ReallocateByCopy(s, n) ==
    LET last == LastInCurrent(s)
        end  == IF last THEN offset[s] ELSE fill[current]
        less == Subtract(utilized, size[s])
    IN  /\ Reallocatable(s, n)
        /\ ~Oversize(n)
        /\ ~(last /\ offset[s] + n < Capacity)
        /\ IF end + n < Capacity
           THEN /\ PutStore(s, n, current, end)
                /\ fill' = [fill EXCEPT ![current] = end + n]
                /\ utilized' = less
                /\ UNCHANGED <<pointer, stepVars>>
           ELSE /\ fill' = [fill EXCEPT ![current] = end]
                /\ utilized' = Add(less, end)
                /\ pointer' = [pointer EXCEPT ![s] = Address(s)]
                /\ phase' = "fresh"
                /\ request' = Storage(s, n)
                /\ UNCHANGED <<place, offset, size>>
        /\ UNCHANGED <<owned, where, pinned, set, filter, current, gcVars, cellMark, highWater,
                       threadVars>>

\* tryReallocateOversize: the new store always has a block of its own.
ReallocateOversize(s, n) ==
    /\ Reallocatable(s, n)
    /\ Oversize(n)
    /\ PutStore(s, n, "oversize", 0)
    /\ utilized' = Subtract(Add(utilized, n), size[s])
    /\ UNCHANGED <<owned, pointer, blockVars, gcVars, cellMark, highWater, stepVars, threadVars>>

-----------------------------------------------------------------------------
(***************************************************************************)
(* Collection.                                                             *)
(***************************************************************************)

\* contains() asks the Bloom filter first.  A block that was not added since
\* the filter's reset may or may not pass it.
MayContain == {S \in SUBSET set : set \cap filter \subseteq S}

\* The conservative scan pins the blocks the stack points into; startedCopying
\* then swaps the spaces.
StartCollection ==
    /\ phase = "collect"
    /\ \E contained \in MayContain :
          pinned' = pinned \cup {b \in contained : \E s \in Stores : pointer[s][1] = b}
    /\ where' = [b \in Blocks |-> IF where[b] = "to" THEN "from" ELSE where[b]]
    /\ filter' = {}
    /\ utilized' = 0
    /\ phase' = "copying"
    /\ UNCHANGED <<storeVars, fill, set, current, gcVars, cellMark, highWater, request,
                   threadVars>>

ToCopy(s) == phase = "copying" /\ s \in owned \ visited

\* allocateNewSpace leaves an oversize store, which it pins, and a store of a
\* pinned block where they are.
KeepStore(s) ==
    /\ ToCopy(s)
    /\ place[s] \in pinned \cup {"oversize"}
    /\ visited' = visited \cup {s}
    /\ UNCHANGED <<storeVars, blockVars, copyBlock, sizeVars, stepVars, threadVars>>

\* It moves any other store into the borrowed block, if it fits.
CopyStore(s) ==
    /\ ToCopy(s)
    /\ place[s] \in Blocks \ pinned
    /\ copyBlock # NoBlock
    /\ Fits(copyBlock, size[s])
    /\ PutStore(s, size[s], copyBlock, fill[copyBlock])
    /\ fill' = [fill EXCEPT ![copyBlock] = @ + size[s]]
    /\ visited' = visited \cup {s}
    /\ UNCHANGED <<owned, pointer, where, pinned, set, filter, current, copyBlock, sizeVars,
                   stepVars, threadVars>>

NeedsCopyBlock(s) ==
    /\ ToCopy(s)
    /\ place[s] \in Blocks \ pinned
    /\ copyBlock # NoBlock => ~Fits(copyBlock, size[s])

\* doneFillingBlock, for a block that holds something.
ReturnCopyBlock ==
    IF copyBlock = NoBlock
    THEN UNCHANGED <<set, filter, utilized>>
    ELSE /\ set' = set \cup {copyBlock}
         /\ filter' = filter \cup {copyBlock}
         /\ utilized' = Add(utilized, fill[copyBlock])

\* If it does not, the borrowed block is returned and a fresh one borrowed.
BorrowBlock(s, b) ==
    /\ NeedsCopyBlock(s)
    /\ Fresh(b)
    /\ ReturnCopyBlock
    /\ where' = [c \in Blocks |->
                   IF c = b THEN "loaned" ELSE IF c = copyBlock THEN "to" ELSE where[c]]
    /\ fill' = [fill EXCEPT ![b] = 0]
    /\ copyBlock' = b
    /\ UNCHANGED <<storeVars, pinned, current, visited, cellMark, highWater, stepVars, threadVars>>

\* The marker has no memory for its copies: CRASH().
CopyFails ==
    /\ \E s \in Stores : NeedsCopyBlock(s)
    /\ In("free") \cup In("os") = {}
    /\ phase' = "crashed"
    /\ UNCHANGED <<storeVars, blockVars, gcVars, sizeVars, request, threadVars>>

DoneMarking ==
    /\ phase = "copying"
    /\ owned = visited
    /\ ReturnCopyBlock
    /\ where' = [b \in Blocks |-> IF where[b] = "loaned" THEN "to" ELSE where[b]]
    /\ copyBlock' = NoBlock
    /\ phase' = "freeing"
    /\ UNCHANGED <<storeVars, fill, pinned, current, visited, cellMark, highWater, request, threadVars>>

\* Mutant: a freed block is left in m_toSpaceSet.
FreeFromSpaceBlockInSet(b) ==
    /\ phase = "freeing"
    /\ b \in In("from")
    /\ where' = [where EXCEPT ![b] = IF b \in pinned THEN "to" ELSE "free"]
    /\ fill' = [fill EXCEPT ![b] = IF b \in pinned THEN @ ELSE 0]
    /\ pinned' = pinned \ {b}
    /\ UNCHANGED <<storeVars, set, filter, current, gcVars, sizeVars, stepVars, threadVars>>

\* One turn of doneCopying's loop over from-space.  What a free block contains
\* does not matter: getFreshBlock constructs the block anew.
FreeFromSpaceBlock(b) ==
    /\ phase = "freeing"
    /\ b \in In("from")
    /\ where' = [where EXCEPT ![b] = IF b \in pinned THEN "to" ELSE "free"]
    /\ fill' = [fill EXCEPT ![b] = IF b \in pinned THEN @ ELSE 0]
    /\ set' = IF b \in pinned THEN set ELSE set \ {b}
    /\ pinned' = pinned \ {b}
    /\ UNCHANGED <<storeVars, filter, current, gcVars, sizeVars, stepVars, threadVars>>

\* The names of the stores in m_oversizeBlocks whose block is not pinned.
DeadOversize == {s \in Stores : place[s] = "oversize"} \ visited

\* One turn of its loop over m_oversizeBlocks.
FreeOversize(s) ==
    /\ phase = "freeing"
    /\ In("from") = {}
    /\ s \in DeadOversize
    /\ ForgetStore(s)
    /\ utilized' = Subtract(utilized, size[s])
    /\ UNCHANGED <<owned, pointer, blockVars, gcVars, cellMark, highWater, stepVars, threadVars>>

\* Mutant: m_currentBlock is kept when to-space is not empty.
ChooseCurrentStale ==
    /\ phase = "freeing"
    /\ In("from") = {}
    /\ DeadOversize = {}
    /\ phase' = IF In("to") # {} THEN "end" ELSE "current"
    /\ visited' = {}
    /\ UNCHANGED <<storeVars, blockVars, copyBlock, sizeVars, request, threadVars>>

\* The end of doneCopying: the head of to-space is current, if there is one.
ChooseCurrent ==
    /\ phase = "freeing"
    /\ In("from") = {}
    /\ DeadOversize = {}
    /\ IF In("to") # {}
       THEN current' \in In("to") /\ phase' = "end"
       ELSE current' = NoBlock /\ phase' = "current"
    /\ visited' = {}
    /\ UNCHANGED <<storeVars, where, fill, pinned, set, filter, copyBlock, sizeVars, request,
                   threadVars>>

\* Otherwise doneCopying calls addNewBlock, which may fail in its way: when the
\* free list is empty again, getFreshBlock may call Heap::collect inside this
\* collection, where markRoots crashes.
AddFirstBlock ==
    /\ phase = "current"
    /\ IF In("free") = {} /\ WantsCollection
       THEN phase' = "crashed" /\ UNCHANGED <<where, fill, current>>
       ELSE \E b \in Blocks :
              /\ Fresh(b)
              /\ where' = [where EXCEPT ![b] = "to"]
              /\ fill' = [fill EXCEPT ![b] = 0]
              /\ current' = b
              /\ phase' = "end"
    /\ UNCHANGED <<storeVars, pinned, set, filter, gcVars, sizeVars, request, threadVars>>

\* The end of Heap::collect.  n units of objects survived; an allocation of cells
\* then walks over the blocks that are full.
EndCollection(n, full) ==
    LET newSize == Add(n, utilized)
        proportional == Add(newSize, newSize)
    IN  /\ phase = "end"
        /\ full <= n
        /\ highWater' = IF proportional > MinPerCycle THEN proportional ELSE MinPerCycle
        /\ cellMark' = IF request = Cells THEN full ELSE 0
        /\ phase' = CASE request = NoRequest -> "idle" [] request = Cells -> "retry"
                      [] OTHER -> "insist"
        /\ UNCHANGED <<storeVars, blockVars, gcVars, utilized, request, threadVars>>

-----------------------------------------------------------------------------
(***************************************************************************)
(* The program, MarkedSpace and the block freeing thread.                  *)
(***************************************************************************)
CollectAllGarbage ==
    /\ phase = "idle"
    /\ phase' = "collect"
    /\ UNCHANGED <<storeVars, blockVars, gcVars, sizeVars, request, threadVars>>

\* MarkedAllocator fills a block with cells.
ConsumeCells ==
    /\ phase = "idle"
    /\ cellMark < MaxObjects
    /\ cellMark' = cellMark + 1
    /\ UNCHANGED <<storeVars, blockVars, gcVars, utilized, highWater, stepVars, threadVars>>

\* allocateSlowCase finds neither a block nor room below the high water mark.
CollectForCells ==
    /\ phase = "idle"
    /\ In("free") = {}
    /\ WantsCollection
    /\ phase' = "collect"
    /\ request' = Cells
    /\ UNCHANGED <<storeVars, blockVars, gcVars, sizeVars, threadVars>>

RetryCells ==
    /\ phase = "retry"
    /\ phase' = "idle"
    /\ request' = NoRequest
    /\ UNCHANGED <<storeVars, blockVars, gcVars, sizeVars, threadVars>>

\* The program loads or drops the address of a store.
LoadPointer(s) ==
    /\ phase = "idle"
    /\ s \in owned
    /\ pointer' = [pointer EXCEPT ![s] = IF @ = NoPointer THEN Address(s) ELSE NoPointer]
    /\ UNCHANGED <<place, offset, size, owned, blockVars, gcVars, sizeVars, stepVars, threadVars>>

\* It loses the owner of a store: garbage in a block, which stays as full as it
\* is, or an oversize block to be freed.
DropOwner(s) ==
    /\ phase = "idle"
    /\ s \in owned
    /\ pointer[s] = NoPointer
    /\ owned' = owned \ {s}
    /\ IF place[s] = "oversize"
       THEN UNCHANGED <<place, offset, size>>
       ELSE ForgetStore(s)
    /\ UNCHANGED <<pointer, blockVars, gcVars, sizeVars, stepVars, threadVars>>

\* blockFreeingThreadMain wakes up after a second and reads the length of the
\* free list without the lock.
FreeingThreadWakes ==
    /\ freeing = "asleep"
    /\ In("free") # {}
    /\ desired' = Cardinality(In("free")) \div 2
    /\ freeing' = "freeing"
    /\ UNCHANGED <<storeVars, blockVars, gcVars, sizeVars, stepVars>>

FreeingThreadFrees(b) ==
    /\ freeing = "freeing"
    /\ b \in In("free")
    /\ Cardinality(In("free")) > desired
    /\ where' = [where EXCEPT ![b] = "os"]
    /\ UNCHANGED <<storeVars, fill, pinned, set, filter, current, gcVars, sizeVars, stepVars,
                   threadVars>>

FreeingThreadSleeps ==
    /\ freeing = "freeing"
    /\ Cardinality(In("free")) <= desired
    /\ freeing' = "asleep"
    /\ desired' = 0
    /\ UNCHANGED <<storeVars, blockVars, gcVars, sizeVars, stepVars>>

Mutator ==
    \/ GetFreshBlockCollects
    \/ \E b \in Blocks : AddNewBlock(b)
    \/ AllocationFails
    \/ \E s \in Stores, n \in Sizes :
          \/ AllocateStore(s, n)
          \/ GrowInPlace(s, n)
          \/ ReallocateByCopy(s, n)
          \/ ReallocateOversize(s, n)
    \/ CollectAllGarbage
    \/ ConsumeCells
    \/ CollectForCells
    \/ RetryCells
    \/ \E s \in Stores : LoadPointer(s) \/ DropOwner(s)

Collector ==
    \/ StartCollection
    \/ \E s \in Stores : KeepStore(s) \/ CopyStore(s) \/ \E b \in Blocks : BorrowBlock(s, b)
    \/ CopyFails
    \/ DoneMarking
    \/ \E b \in Blocks : FreeFromSpaceBlock(b)
    \/ \E s \in Stores : FreeOversize(s)
    \/ ChooseCurrent
    \/ AddFirstBlock
    \/ \E n, full \in 0..MaxObjects : EndCollection(n, full)

FreeingThread ==
    \/ FreeingThreadWakes
    \/ \E b \in Blocks : FreeingThreadFrees(b)
    \/ FreeingThreadSleeps

Next == Mutator \/ Collector \/ FreeingThread

Spec == Init /\ [][Next]_vars

-----------------------------------------------------------------------------
(***************************************************************************)
(* Properties.                                                             *)
(***************************************************************************)

\* Every variable has its type; m_totalMemoryUtilized is a size_t, and only
\* blocks of CopiedSpace carry a fill that an allocation could exceed.
TypeOK ==
    /\ place \in [Stores -> Blocks \cup {"oversize", "none"}]
    /\ \A s \in Stores : offset[s] \in 0..Capacity /\ size[s] \in Sizes \cup {0}
    /\ owned \subseteq Stores
    /\ visited \subseteq Stores
    /\ where \in [Blocks -> {"os", "free", "to", "from", "loaned"}]
    /\ \A b \in Blocks : fill[b] \in 0..(Capacity - 1)
    /\ pinned \subseteq Blocks
    /\ filter \subseteq Blocks
    /\ current \in Blocks \cup {NoBlock}
    /\ copyBlock \in Blocks \cup {NoBlock}
    /\ utilized \in 0..(SizeRange - 1)
    /\ highWater \in 0..(SizeRange - 1)
    /\ phase \in Phases

\* Between two collections a store with a live owner lies in to-space, or has a
\* block of its own, below the block's fill, and shares no unit with another
\* such store: rolling a block back for tryReallocate must not cut one off.
LiveStoresDisjoint ==
    phase = "idle" =>
        \A s \in owned :
            /\ place[s] \in In("to") \cup {"oversize"}
            /\ place[s] \in Blocks => offset[s] + size[s] <= fill[place[s]]
            /\ \A t \in owned \ {s} :
                  place[t] = place[s] /\ place[s] \in Blocks =>
                      offset[s] + size[s] <= offset[t] \/ offset[t] + size[t] <= offset[s]

\* m_toSpaceSet never names a block that CopiedSpace gave away: the conservative
\* scan writes the pin flag of every block it names.
SetBlocksOwned == set \subseteq In("to") \cup In("from")

\* When no collection runs, m_currentBlock is a block of to-space, and pins of
\* the last collection are gone.
CurrentBlockOwned ==
    phase = "idle" => current \in In("to") /\ pinned = {}
=============================================================================
