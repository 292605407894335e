----------------------------- MODULE MarkedSpace -----------------------------
(***************************************************************************)
(* The cells of the collected heap: MarkedBlock's five states, the         *)
(* MarkedAllocator of each size class, MarkedSpace, and the order in which *)
(* Heap::collect, Heap::destroy, the heap scans and                        *)
(* JSGlobalData::releaseExecutableMemory drive them.                       *)
(*                                                                         *)
(* The thread that holds the JSLock runs all of this except the block      *)
(* freeing thread, which only takes blocks from m_freeBlocks.  A           *)
(* collection is split at the points where the code reads what an earlier  *)
(* step left behind.  Marking itself is ParallelMarking: here it marks     *)
(* what the program holds and what the conservative roots add.             *)
(*                                                                         *)
(* A block list is the set of its blocks, of which ahead[a] are those that *)
(* follow m_currentBlock; which comes next is left open.  Slots are        *)
(* numbered in address order.  A cell's first word is zero exactly when    *)
(* its slot is in zapped.                                                  *)
(***************************************************************************)
EXTENDS Integers

CONSTANTS
    Blocks,          \* the 64 KB blocks the process can map
    NoBlock,         \* the null block pointer
    Allocators,      \* the size classes
    Destructing,     \* the size classes of m_destructorSpace
    Nobody,          \* the owner of a block that is in no block list
    CellsPerBlock    \* cells of a block

Slots == 1..CellsPerBlock
Cells == Blocks \X Slots

ASSUME SpaceAssumption ==
    /\ NoBlock \notin Blocks
    /\ Nobody \notin Allocators
    /\ Allocators \cap {"full", "storage", "destroy"} = {}
    /\ Destructing \subseteq Allocators

ASSUME SizeAssumption == CellsPerBlock \in Nat \ {0}

VARIABLES
    owner,           \* the allocator whose m_blockList holds the block
    state,           \* MarkedBlock::m_state
    marks,           \* MarkedBlock::m_marks
    zapped,          \* the slots whose first word is zero
    current,         \* MarkedAllocator::m_currentBlock
    ahead,           \* the blocks behind m_currentBlock in m_blockList
    freeList,        \* the list at MarkedAllocator::m_firstFreeCell
    freeBlocks,      \* Heap::m_freeBlocks
    held,            \* the cells the program can reach
    objects,         \* the cells whose object has a destructor yet to run
    registerRoots,   \* what getConservativeRegisterRoots returned
    phase,           \* where the thread that holds the lock is
    request,         \* who called Heap::collect, or is allocating
    isSafeToCollect  \* Heap::m_isSafeToCollect

blockVars == <<owner, state, marks, zapped>>
listVars  == <<current, ahead, freeList>>
stepVars  == <<phase, request>>
heapVars  == <<freeBlocks, isSafeToCollect>>
userVars  == <<held, objects, registerRoots>>

vars == <<owner, state, marks, zapped, current, ahead, freeList, freeBlocks,
          held, objects, registerRoots, phase, request, isSafeToCollect>>

BlockStates == {"New", "FreeListed", "Allocated", "Marked", "Zapped"}

\* "try" and "retry" are the calls of tryAllocate in allocateSlowCase before
\* and after its collection; "recompile" is inside releaseExecutableMemory.
Phases == {"idle", "try", "retry", "recompile", "collect", "canonical", "marked",
           "reset", "swept", "destroyCanonical", "release", "destroyed", "crashed"}

Requests == Allocators \cup {"full", "storage", "destroy"}

BlocksOf(a) == {b \in Blocks : owner[b] = a}
InUse == {b \in Blocks : owner[b] # Nobody}
CellsOf(b, slots) == {b} \X slots

Init ==
    /\ owner = [b \in Blocks |-> Nobody]
    /\ state = [b \in Blocks |-> "New"]
    /\ marks = [b \in Blocks |-> {}]
    /\ zapped = [b \in Blocks |-> {}]
    /\ current = [a \in Allocators |-> NoBlock]
    /\ ahead = [a \in Allocators |-> {}]
    /\ freeList = [a \in Allocators |-> {}]
    /\ freeBlocks = {}
    /\ held = {}
    /\ objects = {}
    /\ registerRoots = {}
    /\ phase = "idle"
    /\ request = "full"
    /\ isSafeToCollect = FALSE

-----------------------------------------------------------------------------
(***************************************************************************)
(* MarkedBlock.                                                            *)
(***************************************************************************)

\* The cells a sweep of b visits: the unmarked ones of a Marked block, the
\* zapped ones of a Zapped block, all of a New one.
SweptSlots(b) ==
    CASE state[b] = "Marked" -> Slots \ marks[b]
      [] state[b] = "Zapped" -> zapped[b]
      [] state[b] = "New"    -> Slots
      [] OTHER               -> {}

\* Mutant: callDestructor does not look for a zapped cell.
DestructedAgain(b) ==
    IF owner[b] \in Destructing /\ state[b] # "New"
    THEN CellsOf(b, SweptSlots(b))
    ELSE {}

\* callDestructor skips a zapped cell: an earlier sweep ran its destructor.
Destructed(b) ==
    IF owner[b] \in Destructing /\ state[b] # "New"
    THEN CellsOf(b, SweptSlots(b) \ zapped[b])
    ELSE {}

\* The slots of a live cell as the block's state tells them; m_state New and
\* FreeListed are ASSERT_NOT_REACHED and answer no.
IsLive(b) ==
    CASE state[b] = "Allocated" -> Slots
      [] state[b] = "Zapped"    -> Slots \ zapped[b]
      [] state[b] = "Marked"    -> marks[b]
      [] OTHER                  -> {}

\* The words of a block after its free cells are linked: the first free cell
\* of the block ends the list, and its link is zero.
LinkedWords(b, free) ==
    (zapped[b] \ free) \cup {i \in free : \A j \in free : i <= j}

-----------------------------------------------------------------------------
(***************************************************************************)
(* Allocation.                                                             *)
(***************************************************************************)
Settle(newPhase, newRequest) == phase' = newPhase /\ request' = newRequest

\* Takes the head of the free list, which a sweep builds in falling address
\* order; the constructor then writes the cell.
TakeFreeCell(a) ==
    \E i \in freeList[a] :
        /\ \A j \in freeList[a] : j <= i
        /\ freeList' = [freeList EXCEPT ![a] = @ \ {i}]
        /\ zapped' = [zapped EXCEPT ![current[a]] = @ \ {i}]
        /\ held' = held \cup {<<current[a], i>>}
        /\ objects' = IF a \in Destructing THEN objects \cup {<<current[a], i>>} ELSE objects
        /\ UNCHANGED <<owner, state, marks, current, ahead, registerRoots, heapVars>>

\* The fast path of MarkedAllocator::allocate.
AllocateFast(a) ==
    /\ phase = "idle"
    /\ TakeFreeCell(a)
    /\ UNCHANGED stepVars

AllocateSlowCase(a) ==
    /\ phase = "idle"
    /\ freeList[a] = {}
    /\ Settle("try", a)
    /\ UNCHANGED <<blockVars, listVars, heapVars, userVars>>

Allocating == phase \in {"try", "retry"} /\ request \in Allocators

\* tryAllocateHelper found a free list, or addBlock made one.
TryAllocateSucceeds ==
    /\ Allocating
    /\ TakeFreeCell(request)
    /\ Settle("idle", "full")

\* Mutant: the destructors of the dead cells are left to a later sweep.
SweepCurrentForgetful ==
    LET a == request
        b == current[a]
        free == SweptSlots(b)
    IN  /\ Allocating
        /\ freeList[a] = {} /\ b # NoBlock /\ free # {}
        /\ state' = [state EXCEPT ![b] = "FreeListed"]
        /\ zapped' = [zapped EXCEPT ![b] = LinkedWords(b, free)]
        /\ freeList' = [freeList EXCEPT ![a] = free]
        /\ UNCHANGED <<owner, marks, current, ahead, held, registerRoots, objects, heapVars, stepVars>>

\* One turn of tryAllocateHelper's loop: the sweep of m_currentBlock yields
\* free cells.
SweepCurrent ==
    LET a == request
        b == current[a]
        free == SweptSlots(b)
    IN  /\ Allocating
        /\ freeList[a] = {}
        /\ b # NoBlock
        /\ free # {}
        /\ objects' = objects \ Destructed(b)
        /\ state' = [state EXCEPT ![b] = "FreeListed"]
        /\ zapped' = [zapped EXCEPT ![b] = LinkedWords(b, free)]
        /\ freeList' = [freeList EXCEPT ![a] = free]
        /\ UNCHANGED <<owner, marks, current, ahead, held, registerRoots, heapVars, stepVars>>

\* Mutant: a block that gave its last cell keeps its FreeListed state.
ConsumeBlockStateless ==
    LET a == request
        b == current[a]
    IN  /\ Allocating
        /\ freeList[a] = {} /\ b # NoBlock /\ SweptSlots(b) = {}
        /\ \/ ahead[a] = {} /\ current' = [current EXCEPT ![a] = NoBlock] /\ ahead' = ahead
           \/ \E n \in ahead[a] :
                 /\ current' = [current EXCEPT ![a] = n]
                 /\ ahead' = [ahead EXCEPT ![a] = @ \ {n}]
        /\ UNCHANGED <<blockVars, freeList, userVars, heapVars, stepVars>>

\* The other turn of that loop: no free cell, so the block is Allocated and
\* the next one in the list is current.
ConsumeBlock ==
    LET a == request
        b == current[a]
    IN  /\ Allocating
        /\ freeList[a] = {}
        /\ b # NoBlock
        /\ SweptSlots(b) = {}
        /\ state' = [state EXCEPT ![b] = "Allocated"]
        /\ \/ /\ ahead[a] = {}
              /\ current' = [current EXCEPT ![a] = NoBlock]
              /\ UNCHANGED ahead
           \/ \E n \in ahead[a] :
                 /\ current' = [current EXCEPT ![a] = n]
                 /\ ahead' = [ahead EXCEPT ![a] = @ \ {n}]
        /\ UNCHANGED <<owner, marks, zapped, freeList, userVars, heapVars, stepVars>>

TryAllocateFails == Allocating /\ freeList[request] = {} /\ current[request] = NoBlock

\* allocateBlock returns a block of the free list if there is one, else a new
\* one; its constructor makes it New, and addBlock sweeps it at once.  Whether
\* the water marks ask for a collection instead is left open here.
AddBlock(b) ==
    LET a == request
    IN  /\ TryAllocateFails
        /\ IF freeBlocks # {} THEN b \in freeBlocks ELSE b \notin InUse
        /\ freeBlocks' = freeBlocks \ {b}
        /\ owner' = [owner EXCEPT ![b] = a]
        /\ marks' = [marks EXCEPT ![b] = {}]
        /\ state' = [state EXCEPT ![b] = "FreeListed"]
        /\ zapped' = [zapped EXCEPT ![b] = LinkedWords(b, Slots)]
        /\ current' = [current EXCEPT ![a] = b]
        /\ freeList' = [freeList EXCEPT ![a] = Slots]
        /\ UNCHANGED <<ahead, userVars, stepVars, isSafeToCollect>>

\* PageAllocationAligned::allocate has no memory left: CRASH().
OutOfMemory ==
    /\ TryAllocateFails
    /\ freeBlocks = {}
    /\ InUse = Blocks
    /\ Settle("crashed", request)
    /\ UNCHANGED <<blockVars, listVars, heapVars, userVars>>

\* allocateBlock(AllocationCanFail) found no block: collect without sweeping.
\* After that collection allocateSlowCase insists on a block.
CollectToAllocate ==
    /\ TryAllocateFails
    /\ phase = "try"
    /\ freeBlocks = {}
    /\ isSafeToCollect
    /\ Settle("collect", request)
    /\ UNCHANGED <<blockVars, listVars, heapVars, userVars>>

-----------------------------------------------------------------------------
(***************************************************************************)
(* Collection.                                                             *)
(***************************************************************************)

\* MarkedAllocator::zapFreeList of every allocator: the cells left on a free
\* list are zapped, so that the state of the block tells live from dead.
Canonicalize ==
    LET open == {b \in InUse : current[owner[b]] = b /\ state[b] = "FreeListed"}
    IN  /\ zapped' = [b \in Blocks |-> IF b \in open THEN zapped[b] \cup freeList[owner[b]]
                                       ELSE zapped[b]]
        /\ state' = [b \in Blocks |-> IF b \in open THEN "Zapped" ELSE state[b]]
        /\ freeList' = [a \in Allocators |-> {}]
        /\ UNCHANGED <<owner, marks, current, ahead>>

\* The JSGlobalData is complete enough for a collection.
NotifyIsSafeToCollect ==
    /\ phase = "idle"
    /\ ~isSafeToCollect
    /\ isSafeToCollect' = TRUE
    /\ UNCHANGED <<blockVars, listVars, stepVars, userVars, freeBlocks>>

\* A scan of all live cells between two collections (objectTypeCounts,
\* recompileAllJSFunctions).
ForEachCell ==
    /\ phase = "idle"
    /\ Canonicalize
    /\ UNCHANGED <<heapVars, stepVars, userVars>>

\* collectAllGarbage, and the collection CopiedSpace::getFreshBlock asks for.
CollectAllGarbage ==
    /\ phase = "idle"
    /\ isSafeToCollect
    /\ \E r \in {"full", "storage"} : Settle("collect", r)
    /\ UNCHANGED <<blockVars, listVars, heapVars, userVars>>

\* releaseExecutableMemory while JavaScript runs.  getConservativeRegisterRoots
\* looks the register file's words up, the program's and stale ones, and marks
\* the cells it finds.
GetConservativeRegisterRoots(stale) ==
    /\ phase = "idle"
    /\ isSafeToCollect
    /\ registerRoots' = {c \in held \cup stale : c[1] \in InUse /\ c[2] \in IsLive(c[1])}
    /\ marks' = [b \in Blocks |-> marks[b] \cup {i \in Slots : <<b, i>> \in registerRoots'}]
    /\ Settle("recompile", "full")
    /\ UNCHANGED <<owner, state, zapped, listVars, heapVars, held, objects>>

\* It then discards the code of every function it did not find, in a heap
\* scan, and collects.
DiscardCode ==
    /\ phase = "recompile"
    /\ Canonicalize
    /\ registerRoots' = {}
    /\ Settle("collect", "full")
    /\ UNCHANGED <<heapVars, held, objects>>

CanonicalizeForCollection ==
    /\ phase = "collect"
    /\ Canonicalize
    /\ Settle("canonical", request)
    /\ UNCHANGED <<heapVars, userVars>>

\* Mutant: the marks are cleared before the conservative roots are gathered,
\* so that no cell of a Marked block counts as live.
MarkRootsClearedFirst(stale) ==
    /\ phase = "canonical"
    /\ marks' = [b \in Blocks |-> IF b \in InUse THEN {} ELSE marks[b]]
    /\ state' = [b \in Blocks |-> IF b \in InUse THEN "Marked" ELSE state[b]]
    /\ Settle("marked", request)
    /\ UNCHANGED <<owner, zapped, listVars, heapVars, userVars>>

\* markRoots: the words of the machine stacks that are live cells are found
\* before the marks are cleared; marking then keeps them and what the program
\* holds.  clearMarks leaves every block Marked.
MarkRoots(stale) ==
    LET reached == {c \in held \cup stale : c[1] \in InUse /\ c[2] \in IsLive(c[1])}
    IN  /\ phase = "canonical"
        /\ marks' = [b \in Blocks |-> IF b \in InUse THEN {i \in Slots : <<b, i>> \in reached}
                                      ELSE marks[b]]
        /\ state' = [b \in Blocks |-> IF b \in InUse THEN "Marked" ELSE state[b]]
        /\ Settle("marked", request)
        /\ UNCHANGED <<owner, zapped, listVars, heapVars, userVars>>

\* Every allocator starts again at the head of its list.
ResetAllocators ==
    /\ phase = "marked"
    /\ current' \in [Allocators -> Blocks \cup {NoBlock}]
    /\ \A a \in Allocators :
          IF BlocksOf(a) = {} THEN current'[a] = NoBlock ELSE current'[a] \in BlocksOf(a)
    /\ ahead' = [a \in Allocators |-> BlocksOf(a) \ {current'[a]}]
    /\ Settle("reset", request)
    /\ UNCHANGED <<blockVars, freeList, userVars, heapVars>>

\* collect(DoNotSweep) returns to the allocation that asked for it.
FinishWithoutSweep ==
    /\ phase = "reset"
    /\ request # "full"
    /\ IF request \in Allocators THEN Settle("retry", request) ELSE Settle("idle", "full")
    /\ UNCHANGED <<blockVars, listVars, userVars, heapVars>>

\* Mutant: the eager sweep skips blocks it does not mean to allocate from.
SweepCurrentOnly ==
    LET swept == {b \in InUse : owner[b] \in Destructing /\ current[owner[b]] = b}
    IN  /\ phase = "reset" /\ request = "full"
        /\ objects' = objects \ UNION {Destructed(b) : b \in swept}
        /\ zapped' = [b \in Blocks |-> IF b \in swept THEN zapped[b] \cup SweptSlots(b) ELSE zapped[b]]
        /\ state' = [b \in Blocks |-> IF b \in swept THEN "Zapped" ELSE state[b]]
        /\ Settle("swept", request)
        /\ UNCHANGED <<owner, marks, listVars, heapVars, held, registerRoots>>

\* Heap::sweep: SweepOnly, which returns at once for a block whose cells need
\* no destruction.
SweepAll ==
    LET swept == {b \in InUse : owner[b] \in Destructing}
    IN  /\ phase = "reset"
        /\ request = "full"
        /\ objects' = objects \ UNION {Destructed(b) : b \in swept}
        /\ zapped' = [b \in Blocks |-> IF b \in swept THEN zapped[b] \cup SweptSlots(b)
                                       ELSE zapped[b]]
        /\ state' = [b \in Blocks |-> IF b \in swept THEN "Zapped" ELSE state[b]]
        /\ Settle("swept", request)
        /\ UNCHANGED <<owner, marks, listVars, heapVars, held, registerRoots>>

\* Mutant: removeBlock leaves a removed m_currentBlock in place.
FreeEmptyBlocksDangling(empty) ==
    /\ objects' = objects \ UNION {Destructed(b) : b \in empty}
    /\ owner' = [b \in Blocks |-> IF b \in empty THEN Nobody ELSE owner[b]]
    /\ state' = [b \in Blocks |-> IF b \in empty THEN "New" ELSE state[b]]
    /\ zapped' = [b \in Blocks |-> IF b \in empty THEN {} ELSE zapped[b]]
    /\ ahead' = [a \in Allocators |-> ahead[a] \ empty]
    /\ freeBlocks' = freeBlocks \cup empty
    /\ UNCHANGED <<marks, current, freeList, held, registerRoots, isSafeToCollect>>

\* TakeIfUnmarked and freeBlocks: blocks with no mark leave their allocator,
\* are swept and go to the free block list.  removeBlock clears an
\* m_currentBlock it removes, which leaves the rest of the list unused until
\* the next collection.  The header of a freed block is dead memory: it is
\* shown as New and unmarked.
FreeEmptyBlocks(empty) ==
    /\ objects' = objects \ UNION {Destructed(b) : b \in empty}
    /\ owner' = [b \in Blocks |-> IF b \in empty THEN Nobody ELSE owner[b]]
    /\ state' = [b \in Blocks |-> IF b \in empty THEN "New" ELSE state[b]]
    /\ zapped' = [b \in Blocks |-> IF b \in empty THEN {} ELSE zapped[b]]
    /\ current' = [a \in Allocators |-> IF current[a] \in empty THEN NoBlock ELSE current[a]]
    /\ ahead' = [a \in Allocators |-> IF current[a] \in empty THEN {} ELSE ahead[a] \ empty]
    /\ freeBlocks' = freeBlocks \cup empty
    /\ UNCHANGED <<marks, freeList, held, registerRoots, isSafeToCollect>>

Shrink ==
    /\ phase = "swept"
    /\ FreeEmptyBlocks({b \in InUse : marks[b] = {}})
    /\ IF request = "destroy" THEN Settle("release", request) ELSE Settle("idle", "full")

-----------------------------------------------------------------------------
(***************************************************************************)
(* The program, the other users of the block list, and Heap::destroy.      *)
(***************************************************************************)
Release(c) ==
    /\ phase = "idle"
    /\ c \in held
    /\ held' = held \ {c}
    /\ UNCHANGED <<blockVars, listVars, stepVars, heapVars, objects, registerRoots>>

\* The block freeing thread unmaps a free block, or CopiedSpace takes it.
TakeFreeBlock(b) ==
    /\ b \in freeBlocks
    /\ freeBlocks' = freeBlocks \ {b}
    /\ UNCHANGED <<blockVars, listVars, stepVars, userVars, isSafeToCollect>>

\* CopiedSpace frees a from-space block.
GiveFreeBlock(b) ==
    /\ phase = "canonical"
    /\ b \notin InUse \cup freeBlocks
    /\ freeBlocks' = freeBlocks \cup {b}
    /\ UNCHANGED <<blockVars, listVars, stepVars, userVars, isSafeToCollect>>

\* Heap::destroy, when the JSGlobalData goes: nothing is held any more.
BeginDestroy ==
    /\ phase = "idle"
    /\ Canonicalize
    /\ held' = {}
    /\ Settle("destroyCanonical", "destroy")
    /\ UNCHANGED <<heapVars, objects, registerRoots>>

\* clearMarks with nothing marked after it; shrink then takes every block.
ClearMarksToDestroy ==
    /\ phase = "destroyCanonical"
    /\ marks' = [b \in Blocks |-> {}]
    /\ state' = [b \in Blocks |-> IF b \in InUse THEN "Marked" ELSE state[b]]
    /\ Settle("swept", request)
    /\ UNCHANGED <<owner, zapped, listVars, heapVars, userVars>>

ReleaseFreeBlocks ==
    /\ phase = "release"
    /\ freeBlocks' = {}
    /\ Settle("destroyed", request)
    /\ UNCHANGED <<blockVars, listVars, userVars, isSafeToCollect>>

Allocation ==
    \/ \E a \in Allocators : AllocateFast(a) \/ AllocateSlowCase(a)
    \/ TryAllocateSucceeds
    \/ SweepCurrent
    \/ ConsumeBlock
    \/ \E b \in Blocks : AddBlock(b)
    \/ OutOfMemory
    \/ CollectToAllocate

Collection ==
    \/ CollectAllGarbage
    \/ CanonicalizeForCollection
    \/ \E stale \in SUBSET Cells : MarkRoots(stale)
    \/ ResetAllocators
    \/ FinishWithoutSweep
    \/ SweepAll
    \/ Shrink

Environment ==
    \/ NotifyIsSafeToCollect
    \/ ForEachCell
    \/ \E stale \in SUBSET Cells : GetConservativeRegisterRoots(stale)
    \/ DiscardCode
    \/ \E c \in Cells : Release(c)
    \/ \E b \in Blocks : TakeFreeBlock(b) \/ GiveFreeBlock(b)
    \/ BeginDestroy
    \/ ClearMarksToDestroy
    \/ ReleaseFreeBlocks

Next == Allocation \/ Collection \/ Environment

Spec == Init /\ [][Next]_vars

-----------------------------------------------------------------------------
(***************************************************************************)
(* Properties.                                                             *)
(***************************************************************************)

\* The live cells of a block in use.  A FreeListed block is the current block
\* of its allocator, and all but the free list is live.
LiveSlots(b) ==
    IF owner[b] = Nobody THEN {}
    ELSE IF state[b] = "FreeListed" THEN Slots \ freeList[owner[b]] ELSE IsLive(b)

LiveCells == {c \in Cells : c[2] \in LiveSlots(c[1])}

\* Every variable has its type; m_currentBlock and the blocks behind it are in
\* the allocator's own list (removeBlock, addBlock), and no block is both in a
\* list and free.
TypeOK ==
    /\ owner \in [Blocks -> Allocators \cup {Nobody}]
    /\ state \in [Blocks -> BlockStates]
    /\ marks \in [Blocks -> SUBSET Slots]
    /\ zapped \in [Blocks -> SUBSET Slots]
    /\ current \in [Allocators -> Blocks \cup {NoBlock}]
    /\ ahead \in [Allocators -> SUBSET Blocks]
    /\ freeList \in [Allocators -> SUBSET Slots]
    /\ freeBlocks \in SUBSET Blocks
    /\ held \in SUBSET Cells
    /\ objects \in SUBSET Cells
    /\ registerRoots \in SUBSET Cells
    /\ phase \in Phases
    /\ request \in Requests
    /\ isSafeToCollect \in BOOLEAN
    /\ freeBlocks \cap InUse = {}
    /\ \A a \in Allocators :
          /\ current[a] # NoBlock => owner[current[a]] = a
          /\ \A b \in ahead[a] : owner[b] = a /\ b # current[a]

\* The assertions of MarkedBlock and MarkedAllocator hold where they are
\* evaluated: a free list belongs to a FreeListed current block, which is never
\* Allocated when it is swept; clearMarks and isLive meet no New or FreeListed
\* block; the eager sweep meets only Marked and Zapped ones; a zapped cell of a
\* Zapped block is unmarked.
BlockAssertions ==
    /\ \A a \in Allocators :
          IF current[a] = NoBlock
          THEN freeList[a] = {}
          ELSE /\ state[current[a]] \in {"FreeListed", "Marked", "Zapped"}
               /\ freeList[a] # {} => state[current[a]] = "FreeListed"
    /\ phase \in {"canonical", "destroyCanonical"} =>
          \A b \in InUse : state[b] \notin {"New", "FreeListed"}
    /\ phase \in {"reset", "swept"} => \A b \in InUse : state[b] \in {"Marked", "Zapped"}
    /\ \A b \in InUse : state[b] = "Zapped" => zapped[b] \cap marks[b] = {}

\* A cell the program can reach is live in a block in use: no sequence of
\* sweeps, scans, collections and shrinks puts it on a free list, zaps it or
\* gives its block away.
HeldCellsKept == \A c \in held : c \in LiveCells /\ c[2] \notin zapped[c[1]]

\* A sweep would call the destructor of exactly the dead objects of the block
\* that are owed one: never of a free cell, of an object already destroyed, or
\* of the memory of a recycled block.
DestroyedOnce ==
    \A b \in InUse : Destructed(b) = {c \in objects \ LiveCells : c[1] = b}

\* After the eager sweep of collectAllGarbage, and after Heap::destroy, no dead
\* object still waits for its destructor.
DestructorsRun ==
    /\ phase = "swept" /\ request = "full" => objects \subseteq LiveCells
    /\ phase = "destroyed" => objects = {}

\* What the program sees is a CellAllocator.
Allocator == INSTANCE CellAllocator WITH live <- LiveCells

ImplementsCellAllocator == Allocator!Spec

\* releaseExecutableMemory must find the functions on the stack, or it throws
\* away code that is running; MarkedBlock::isLive says it is never asked about a
\* FreeListed block.
RunningFunctionsFound == phase = "recompile" => held \subseteq registerRoots
=============================================================================
