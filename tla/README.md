# TLA+ models of JavaScriptCore

This directory holds TLA+ modules that model the concurrent and the
protocol-heavy parts of this repository, TLC configurations that check them on
small instances, and TLAPS proofs of the properties that matter most. Source
paths are relative to the root of the repository. `PROJECT.json` says for each
definition which lines it models.

To check something, in this directory:

    tlc -workers 2 -config SpaceAllocators.cfg MCMarkedSpace
    tlapm MarkedSpaceProofs.tla

## 1. The system

JavaScriptCore is a JavaScript engine. A thread enters it through the C API
under a global lock, parses and compiles a script to bytecode, and interprets it
or compiles it further. Objects are cells of a garbage-collected heap, and
the elements of arrays are backing stores in a copied space. Scripts are
sequential. What is concurrent, or proceeds in many small steps with state left
in between, lies below them: the collector with its marking threads and its
block freeing thread, the allocators with lazily swept blocks, weak handles with
callbacks, and the lock that lets threads share a context. Scripts themselves
meet protocols of that kind too: their code is replaced, abandoned and deleted
while it runs, their objects share descriptions that change under compiled code
which relies on them, and a debugger follows them call by call.

| component | state it keeps | operations | what makes it correct |
|---|---|---|---|
| parallel marking (`heap/MarkStack.*`, `SlotVisitor.h`, `Heap::markRoots`) | mark bits, mark stacks of each thread and a shared one, opaque roots, harvesters, the count of active markers, copy blocks on loan | visit, append, donate, steal, wait, terminate, weak pass, reset, shut down | marks are exact; nothing is visited or copied twice; every collection ends |
| cells (`MarkedBlock`, `MarkedAllocator`, `MarkedSpace`, `Heap::collect`, `Heap::destroy`) | block states, mark bits, zero words, free lists, block lists, free blocks | allocate, sweep lazily and eagerly, scan, canonicalize, collect, shrink, destroy | a reachable cell is never reused; a destructor runs once |
| backing stores (`CopiedSpace`, block freeing thread, water marks) | to- and from-space, the set and filter of its blocks, pins, offsets, water marks | allocate, reallocate, pin, copy, finish a copy, free blocks | live stores do not overlap; what the stack points to does not move |
| handles (`HandleHeap`, `Strong`, `Weak`, `WeakGCMap`) | three linked lists and a free list, the position of the finalizing walk | allocate, assign, free, finalize | no handle of a dead cell is missed or told twice |
| locking (`JSLock`, `DropAllLocks`, API shims, register file) | a mutex, lock counts, `lockDropDepth`, identifier tables, JS frames | enter, leave, call out, drop, take again | one thread executes in a context, and stacks are not corrupted |
| conservative stack scan (`MachineThreads`) | the list of threads | register, remove, suspend, scan | finds all roots without a deadlock |
| code blocks (`CodeBlock`, `DFGCodeBlocks`, `Executable`) | the current block of each function, alternatives, linked calls, weak references, frames | compile, tier up, enter and exit by OSR, jettison, link, unlink, collect, release | code that is executing is not freed, calls lead to current code, speculation is sound |
| hidden classes (`Structure`, `JSObject`, inline caches) | structures with their tables, transitions and pins, slots of objects, caches | put, delete, flatten, despecify, cache, collect | an object behaves as a map; what compiled code assumes of a structure is true |
| debugger (`JSCDebugger/`, `debugger/`) | call frames, pause flags, breakpoints, the session | call, return, throw, step, pause, evaluate, continue | pauses where it was asked to, and evaluating changes nothing |
| WTF | threads, queues, allocators, containers, text | | the usual contracts |
| parser, bytecompiler, interpreter, JIT, DFG, assembler, Yarr, runtime library | trees, instructions, machine code | | the ECMAScript specification |

The components meet in the heap. An API entry takes the lock; allocation of a
cell or a backing store may collect; a collection canonicalizes the cells,
scans the stack (pinning backing stores), marks in parallel (copying backing
stores into blocks it borrows from the copied space), finalizes weak handles
(whose owners call back into the engine), sweeps, and returns empty blocks to a
list from which both spaces take blocks and which a thread of its own empties.
Native functions called by a script drop the lock, and other threads enter.

What is hard to test here, with the line where it bites, is listed under
"hazards" in `PROJECT.json`.

## 2. The modules

| module | models | main sources |
|---|---|---|
| `HeapGraph` | an object graph and its live cells, the reference definition for marking | `CodeBlock.cpp`, `HandleHeap.cpp` for weak liveness |
| `TracingCollector` | what marking promises: an abstract tracing collector | |
| `ParallelMarking` | the markers | `MarkStack.cpp`, `MarkStack.h`, `SlotVisitor.h`, `Heap.cpp` |
| `CellAllocator` | what the cell space promises the program | |
| `MarkedSpace` | blocks, allocators and the order of a collection | `MarkedBlock.*`, `MarkedAllocator.*`, `MarkedSpace.*`, `Heap.cpp` |
| `CopiedSpace` | backing stores and block recycling | `CopiedSpace*`, `ConservativeRoots.cpp`, `Heap.cpp` |
| `HandleHeap` | handles and finalization | `HandleHeap.*`, `Weak.h`, `Strong.h`, `SentinelLinkedList.h` |
| `JSLock` | API entry, callbacks and the lock | `JSLock.*`, `APIShims.h`, `Interpreter.cpp`, `RegisterFile.h`, `TimeoutChecker.h` |
| `CodeBlocks` | the life of compiled code | `CodeBlock.*`, `DFGCodeBlocks.*`, `Executable.cpp`, `JITStubs.cpp`, `JITDriver.h`, `dfg/DFGOSR*`, `JSGlobalData.cpp`, `Heap.cpp` |
| `Structures` | hidden classes and the caches that rely on them | `Structure.*`, `JSObject.*`, `PropertyMapHashTable.h`, `JITStubs.cpp`, `StructureStubInfo.*`, `GetByIdStatus.cpp` |
| `JSCDebugger` | the remote debugger | `JSCDebugger/*`, `Interpreter.cpp` |
| `ParallelMarkingProofs`, `MarkedSpaceProofs`, `CopiedSpaceProofs`, `HandleHeapProofs`, `JSLockProofs`, `CodeBlocksProofs`, `StructuresProofs`, `JSCDebuggerProofs` | theorems (section 5) | |
| `MC*` | small instances | |

A definition whose comment begins with "Mutant" is a faulty variant of the
definition after it. It is not part of a specification: replacing the
definition by it must break a property, which shows that the property looks at
that code.

### ParallelMarking

A critical section on one of the three locks is an action, and so is each
test-and-set of a mark bit. `pc` says where a thread is in `drain` and
`drainFromShared`; `sleepers` are the threads blocked on `m_markingCondition`,
and spurious wakeups happen. `group` is the master's position in
`Heap::markRoots`. Mark stacks are sets: a cell is pushed only by the thread that
set its mark bit, and nothing depends on the order. How many cells a donation
or a theft moves depends on the segments of `MarkStackArray` and is left open, as
is whether a thread donates. Each collection finds a heap of `Heaps`, chosen
anew. `CopyStorage` and `ReturnFullBlock` borrow and return copy blocks.

Abstract view: `TracingCollector` marks some live cells, or moves the backing
store of one marked cell, and ends when exactly the live cells are marked.
`Live(h)` is the least set closed under references, weak handles that opaque
roots keep and harvesters.

### MarkedSpace

`state`, `marks` and `zapped` are a block's `m_state`, its mark bits and the
cells whose first word is zero. The free list of an allocator is the set of its
slots; a sweep builds it in falling address order, and `LinkedWords` records that
the last link of a free list is zero, which makes a *free* cell look *zapped*.
`phase` splits allocation and collection where the code reads what an earlier
step left behind; `request` is who asked. The destruction of the heap, heap
scans (`forEachCell`), `releaseExecutableMemory`, and the freeing thread with
CopiedSpace as another client of the free blocks, are actions of their own.

`held` is what the program can reach, and `objects` the cells whose destructor is
yet to run: both exist for the properties. What `CellAllocator` calls live is
`LiveCells`, computed from the block's state.

### CopiedSpace

Memory is a set of blocks, each in one list (`where`), with a fill (`m_offset`)
counted in units; a store has a place, an offset and a size. `set` and `filter`
are `m_toSpaceSet` and `m_toSpaceFilter`; the filter has false positives, so a
scan may take a block for one of the set that is not in the filter (`MayContain`).
`pointer` is a word on the machine stack that leads to a store. Sizes are unsigned
and wrap at `SizeRange`. `utilized`, `cellMark` and `highWater` are the
water marks; they decide when an allocation collects (`m_isSafeToCollect`, which the
constructor of `JSGlobalData` sets once and for all, is taken to be set). The freeing thread reads
the count of free blocks without the lock (`FreeingThreadWakes`) and then frees one
block after the other. One marker copies; several are in ParallelMarking.

### HandleHeap

The lists are modelled link by link, since the walk of `finalizeWeakHandles`
tells from a link whether its node was freed, and the free list uses the same
link. `CallOwner` and `OwnerReturns` are the two ends of
`WeakHandleOwner::finalize`; in between, `FreeHandle` may free any handles.
Assignments and allocations crash there, so they are not enabled. `alive` is
the set of cells that exist, which finalization begins by reducing to the
marked ones. What a list holds, for the properties, is what its links lead to
(`Reached`): the least set of nodes with the head's successor that no link leaves.

### JSLock

A thread's native stack is a sequence of shims: an entry (with the end of the
register file it returns to and the identifier table it restores) or a callback
(with the lock count it dropped). Increments and decrements of the counters that
no lock protects, `lockDropDepth` and the start count of the `TimeoutChecker`, are a
read and a write. A context belongs to the shared instance
(`JSGlobalData::sharedInstance`) and is locked "for real", or to a group of its
own, where a lock only counts, and in debug builds only. A script is a frame of
the register file. `lockDropDepth` has `Width` values and wraps.

### CodeBlocks

`heap` is the part of the heap that matters to code: the live functions, the
current block of each, the `CodeBlock` objects with their owner, tier and
alternative, and the linked calls. Nearly every operation of the source is a
function from such a heap to the next one (`Jettison`, `ClearCode`, `Collected`), so
that the order in which `Heap::collect` runs its phases can be read off one
definition. Where a collection does the same to several code blocks, the function takes
the set of them (`Jettison`, `UnlinkIncomingCalls`). `frames` is the register file. A
function and its executable are one cell, with code for calls only. A DFG block refers
to functions it was specialised for (`weakReferences`) and to functions it inlined
(`inlined`); `Marked` is the least set that tracing with the harvesters reaches, given
the blocks that the scan of the register file took for executing, and a scan may take
more blocks for executing than are (`stale` slots). Counters and thresholds are left
open: a compilation, an OSR entry, an exit and a reoptimization may happen whenever the
code allows them.

A compilation by the DFG has a beginning and an end. `CompileOptimized` stands for all up
to the linking of the code: the inlining is decided, the weak references are there, and the
new block, whose tier is `Compiling`, is the current one of its function and owns the
baseline block. `FinishCompilation` is `setJITCode` and the unlinking of the calls to the
baseline code. In between the compiler asks for executable memory (`LinkBuffer.h:225`), and
if there is none the allocator releases the code of other functions and collects: that is the
one other action which is enabled while `compiling`. What can become of the compilation:

* a function that it inlines loses its baseline code. The block is then installed all
  the same, and `forgotten` has the pair;
* an object that the block refers to dies. The block is jettisoned before it is in
  `DFGCodeBlocks` (section 4), and the compiler goes on with the baseline block in its
  hands;
* the function itself is missed by the release, and its blocks are deleted under the compiler.

In the last two cases `FinishCompilation` is not enabled any more: what the compiler does
then is undefined, and cut off. A compilation that fails does so before it links, and puts
the alternative back: it changes nothing. A release in the middle of a *first* compilation
is the same as one right before the call, since `discardCode` returns early for a function
without code that has a block, and one while the code of an OSR exit is compiled is the same
as one right before the exit. An ordinary collection while the DFG parses is the same as one
before `CompileOptimized`, as far as code blocks go; what it may do to the cells in the
compiler's graph is not modelled.

`releaseExecutableMemory` during a script is not safe, and its consequences are open
exceptions in the properties:

* it looks for the functions on the stack before it canonicalizes the heap, and may miss any
  of them (`found` is any set of live functions; `space_recompile` shows that it happens).
  The code of a function that is missed is deleted while a frame is in it. Such a frame is in
  the block `Freed`. What it does next is undefined and cut off, for good; only the native
  code that it has called, and what this calls, goes on;
* code that was jettisoned and is still on the stack keeps calls that are linked to what is
  thrown away, since only `executable->unlinkCalls()` of the current code is called;
* code that inlines a function whose code is thrown away, or that was jettisoned and whose own
  function's code is, has no baseline code to exit to. `forgotten` has these pairs of
  block and function, as well as those of the point before; the two steps through them
  (`CallLinked` to `Freed`, `OSRExit`) are not taken.

So `ExecutingCodeKept` says of the frames of functions that were *not* missed that they keep
their code whatever happens to the others, and `LinksCurrent` and `SpeculationSound` say the same of
all but these pairs. Program and eval code is compiled, linked and jettisoned in the same way,
and is not modelled.

### Structures

`structures` maps identities to what a `Structure` holds: the predecessor with the
name, offset and function of the transition, the property table or none, whether
the table is pinned, the kind of dictionary, the count of despecifications and the
transitions. Stealing a table (`AddPropertyTransition`), rebuilding one
(`PropertyMap`), pinning a copy and editing in place are as in the source; a property
table is the sequence of its entries with the deleted offsets, without the hash
index. `props` is what each object should contain, and is only there for the
properties. Each branch of `JSObject::putDirectInternal` is an action, and each ends
with the attempt to cache it. `caches` are inline caches of compiled code and the
slots that the DFG took from the profile (`Profile`); `CachedPut` is what a cached
write does to an object whose structure passes the check. Both loops of the code are
functions of the number of rounds: `Collected` is what `materializePropertyMap` has
collected, and `Reached` what marking has found, after as many rounds as there are
structures, when neither grows any more.

`materializePropertyMap` leaves out the property of the first structure after a
pinned one, since the last structure it collects adds no entry. Nothing comes of it, as
section 5 shows: a structure behind a pinned one belongs to one object, which keeps
its table until it moves on, and for a profile of a structure that no object has or
can get again a missing entry only means that no cache is made.

`Flatten(o)` stands for any access that caches a property through `o` as a prototype.
`SetPrototype` stands for all changes that move an object to a pinned copy with the
same table (`preventExtensions`, `seal` and `freeze` too). An identity of which no
object, transition or cache in use leads anything back is free for use again:
`Collect` is only needed for what weak references still lead to.

### JSCDebugger

`stack` are the frames of the interpreter with their kind and whether their code
has debug hooks: code compiled before the debugger was attached has none. `chain`
are the `JavaScriptCallFrame`s; when one is destroyed its address may be taken by
a later one. Exceptions are told to the debugger whatever the code, and so are
the frames they unwind. `pause` is the state of a session: the depth at which the
debugger paused, and whether `returnEvent` still has to pop a frame. An evaluation
pushes an eval on top of the paused frame, and its events find `m_paused` set. Each handler
has its own guard, as in the code: `callEvent` and `willExecuteProgram` (`CallEvent`),
`atStatement`, `didReachBreakpoint`, `exception`, `returnEvent`, and `pauseIfNeeded` again
(`PauseNow`). A missing one either pauses within the pause or shows the evaluated code
instead of the paused frame, in which the next evaluation is to run: `shown`, a part of
`pause`, is the frame that `m_currentCallFrame` shows meanwhile.

What the code does, and the model with it:

* the frame of a program is never popped (`didExecuteProgram` is empty), and an
  exception that unwinds a function without hooks pops the frame of another
  function. `step`, the promise that a step over makes, is withdrawn in both cases;
* `shouldExit` of the command parser is static: after one "continue" no command of
  any later session is read;
* the line of a breakpoint is an uninitialized field, not the line asked for, so
  that `SetBreakpoint` adds any line;
* the grammar knows no command for stepping into or out of a function.

## 3. The runs

| run | configuration | asks | states |
|---|---|---|---|
| `mark_diamond` | `MarkDiamond.cfg` | Do two slaves and a master that race over a diamond implement the abstract collector? Is nothing visited or copied twice? | 211,655 |
| `mark_weak` | `MarkWeak.cfg` | Are marks exact when weak handles and harvesters fire in later passes, over two collections? Do collections and the shutdown end? | 16,542 |
| `space_allocators` | `SpaceAllocators.cfg` | Do two size classes that share blocks give the program a plain cell allocator, and run each destructor once? | 132,073 |
| `space_recompile` | `SpaceRecompile.cfg` | Does `releaseExecutableMemory` find the functions on the stack? (violated) | |
| `copy_stores` | `CopyStores.cfg` | Do live stores stay apart, and do the set and the current block name blocks of the space only? | 1,856,990 |
| `lock_shared` | `LockShared.cfg` | Three threads in the shared context: do frames stay intact, and are there never three threads in it? | 191,512 |
| `lock_mixed` | `LockMixed.cfg` | Two threads, shared and private contexts, a release build: does who executes own the mutex, with the right identifier table, and does every call return? | 34,688 |
| `handles` | `Handles.cfg` | Do the lists agree with the values, and does the walk miss no handle, tell none twice, and end, whatever owners free? | 295,884 |
| `code_blocks` | `CodeBlocks.cfg` | Does no frame of a function that was not missed execute deleted code, does every linked call lead to current code, and does speculative code outlive none of its assumptions, in whatever order code is optimized, jettisoned, collected and released, in the middle of a compilation too? | 288,266 |
| `structures_sharing` | `StructuresSharing.cfg` | Does every object behave as a map, though it shares structures whose tables are stolen, rebuilt, pinned, renumbered and collected? | about 131,000 |
| `structures_caches` | `StructuresCaches.cfg` | The same with compiled code that writes past the tables: are all caches true of the objects that pass their check? | about 209,000 |
| `debugger` | `Debugger.cfg` | Does the pointer to the frame to pause on never dangle, does a step over stop where it should, and does an evaluation neither pause again nor change the pause it runs in? | 465,424 |

### Bounds, and why they are enough

* Marking: two slaves and the master are the fewest threads of which one can
  sleep, one work and one decide on termination. Five cells give two paths to
  the same cell (`Diamond`) and chains in which a weak handle fires only after a
  harvester did (`WeakChain`). A block holds one backing store, so that loans
  change hands; two collections show what the first leaves behind. The proofs
  remove these bounds.
* Cells: two blocks, so that one can be current and the other swept, shrunk or
  taken by the other size class; two cells to a block, so that it can be partly
  live. The proofs remove these bounds.
* Backing stores: two blocks and two stores of up to three units in blocks of
  four, stores above two units being oversize: a reallocation can fit, not fit, or
  become oversize, and a copy needs a second block. `SizeRange` makes the
  unsigned counters wrap within a few steps. `MaxObjects` bounds what the cell
  space adds to the water mark.
* Locking: three threads, the fewest for which "at most two" says something; two
  where private contexts multiply the states. `MaxNesting` and `MaxCalls` bound
  the nesting on a thread's stack and the calls of a behaviour: a thread can
  enter, call out, enter again and call out again.
* Code: two functions, so that one calls, inlines or refers to the other; three
  blocks and frames, enough for a baseline block with its replacement and a
  jettisoned block that still executes; one linked call at a time, since links
  do not affect each other. Optimized code has one reference, inlined or weak: that is
  enough for what it refers to, or inlines, to die or lose its code while the code runs
  or is compiled. Code with both kinds is left to the proofs.
* Structures: two objects, one of which (`Reshaped`) is overwritten, deleted from and
  given a prototype. Every such change takes an object from shared structures to one
  of its own, so that the other only has to share. `MaxTransitionLength` and
  `MaxThrashCount` are 64 and 3 in the source and small here, so that dictionaries
  and the end of specialisation come within a few steps. `structures_sharing` has
  three keys, a chain of two transitions and no caches; `structures_caches` has two
  keys, chains of one transition and two caches. Chains of two transitions together
  with caches are not covered. Prototypes are set in unpinned structures only
  (`Reprototyped` is empty).
  Both runs compare states by a `VIEW` that leaves out structures no object can
  reach any more and slots that hold no property: no action and no property reads
  them, except to reuse them.
* Debugger: three frames of the interpreter and four of the debugger, so that
  frames that were never popped meet new ones; two lines, one with a breakpoint
  and one without.
* Handles: three nodes, so that an owner can free the node before, at and after
  the walk; two cells, one that lives and one that dies.

The safety properties of all of these are also proved, for any value of these constants
that satisfies the assumptions of section 5: longer chains with caches, and prototypes set
at any time, in `Structures` for one. TLC's bounds are then about the liveness properties.

### Deadlock

TLC looks for deadlocks in all modules but two; the final states of
`ParallelMarking` and `JSLock` have a stuttering action (`Terminated`, `AllOut`).
`MarkedSpace` ends when the heap is destroyed or out of memory, and `CopiedSpace`
when an allocation that must succeed crashes: there it is off.

### Fairness

* `ParallelMarking`: weak fairness of the master's and of each slave's steps.
  They are threads of the operating system, and critical sections are short. No
  fairness for spurious wakeups, nor for starting a collection or the shutdown.
* `JSLock`: weak fairness of `Continue(t)`, a thread that is in the API goes on
  and leaves; no fairness for entering or calling out. A call that waits for
  the mutex is enabled whenever the mutex is free, and with bounded calls nobody
  can take it for ever, so weak fairness suffices.
* `HandleHeap`: weak fairness of the walk. Owners return.

## 4. What disagrees with the code's own words

One run ends in a violation; "findings" in `PROJECT.json` quotes the lines.

* `space_recompile`: `getConservativeRegisterRoots` asks blocks in state
  FreeListed for the liveness of their cells, which is `ASSERT_NOT_REACHED`.

Seen while modelling, without a run:

* `MarkStack.cpp:267`: `reset` asserts `!m_numberOfActiveParallelMarkers` without the
  lock, and a marking thread that starts late violates it. No harm follows.
* `CopiedSpaceInlineMethods.h:65`: the first block of the copied space is in no set,
  and pinned blocks that survive a collection are not in the filter. Pointers to
  them on the stack do not pin them, and their stores move.
* `CopiedSpaceInlineMethods.h:333`: `tryReallocate` does not undo its roll back when
  the allocation fails. In a release build in which the caller survives this, live
  stores overlap (`copy_stores` is a debug build, which stops there).
* `JSLock.cpp:178`: contexts that are not shared change `lockDropDepth` without a
  lock. A lost update lets two threads drop the lock of the shared context, and
  one returns over the frames of the other (`lock_shared` has the shared context
  alone).
* `JSGlobalData.cpp:457`: `releaseExecutableMemory` leaves calls of jettisoned code
  that is still executing linked to deleted code, throws away baseline code to
  which inlining code may have to exit, and with `space_recompile` the code of functions
  that are running (see CodeBlocks above).
* `DFGCodeBlocks.cpp:62`: "We should have this block already", says `jettison`, but a block
  that is being compiled enters the set in `setJITCode` (`CodeBlock.h:369`) only, and is
  the current block of its function before. If its code does not fit into executable memory,
  the release collects (`LinkBuffer.h:225`); if a weak reference of the block is dead then,
  `finalizeUnconditionally` jettisons the block, and nobody will delete it. The model has
  these blocks, jettisoned and still `Compiling`, and no property excludes them.
* `JSCDebugger.cpp`: what section 2 lists under JSCDebugger.
* `CopiedSpace::doneCopying` asks for a new block if none is left
  (`AddFirstBlock`). If the freeing thread has emptied the list in between and the
  water mark is reached, this starts a collection inside the collection, which
  crashes (phase "crashed").
* `startedCopying` sets `m_totalMemoryUtilized` to zero and `doneCopying`
  subtracts dead oversize blocks from it. The counter wraps, and the water mark
  is then above the mark that `MarkedAllocator.cpp:77` asserts it to be below.
* `JSLock.cpp:155` says that a thread drops the locks the first time it exits.
  The counter is one for all contexts: the thread keeps the lock of the shared
  context if any other thread is in a callback of a context of its own.
* In a debug build a lock that is not for real counts too, and a thread that goes
  on into the shared context finds a lock count above zero and does not take the
  mutex. `lock_mixed` therefore is about release builds.
* `TimeoutChecker::start` and `stop` run outside of the lock (`APIShims.h:46`,
  `51`): a lost start makes the last stop fail `ASSERT(m_startCount)`.

## 5. What is proved

All theorems are checked by TLAPS to the last leaf. They hold for every value
of the constants that satisfies the named assumptions.

### ParallelMarkingProofs

Assumptions: `ThreadsAssumption` (finitely many slaves, the master is none of
them), `BoundsAssumption` (thresholds and capacities are numbers),
`HeapsAssumption` (a heap is well-formed), `RootGroupsAssumption`. Cells may be
infinitely many and the heaps any set.

| theorem | says |
|---|---|
| `TypeCorrect` | types, and the two counters are never negative |
| `DrainQuiescent` | when `drainFromShared` returns to the master no slave holds anything |
| `MarkingExact` | the marks after the weak loop are exactly `Live(heap)` |
| `VisitedOnce` | a cell is grey in one place and its store moved once |
| `FromSpaceDead` | from-space is freed only when no live store is in it |
| `MarkingImplementsTracing` | the markers refine `TracingCollector` |

The inductive invariant `IndInv` has four parts. `Control` ties `pc` to what a
visitor may hold, and the counters to the number of threads in certain places:
`active` is the number of threads that may have work, `loaned` the number of
those with a copy block. That is what termination needs: when `active` is zero
and the shared stack empty, nobody holds a cell. `Sound` says that all that is
marked, pending or an opaque root is live. `Complete` says that what a marked
cell keeps alive is marked, or the cell is still grey, or the reference is in
some thread's hands. Together, at the end of the weak loop, the marks are a
closed set of live cells, and `Live` is the least closed set (`LiveClosed`,
`LiveLeast`). `GreyOnce` and `StorageCovered` account for stores.

### MarkedSpaceProofs

Assumptions: `SpaceAssumption` (null values and request names are distinct from
blocks and allocators, the destructor classes are classes) and `SizeAssumption`
(a block has at least one cell).

| theorem | says |
|---|---|
| `SpaceInvariant` | the inductive invariant `SpaceInv` |
| `SpaceTypeCorrect` | types; allocators point at blocks of their own list |
| `AssertionsHold` | no assertion of `MarkedBlock` or `MarkedAllocator` fails |
| `HeldKept` | a reachable cell is never freed, zapped or given away |
| `DestructorOnce` | a sweep destroys exactly the dead objects that are owed it |
| `AllDestructed` | a full collection and `Heap::destroy` leave no destructor to run |
| `SpaceImplementsCellAllocator` | the space refines `CellAllocator` |

`SpaceInv` adds to the properties what they depend on: `PhaseControl` (which
states blocks have in which phase), `ListControl` (only a current block is
FreeListed, those behind it await their sweep), `WordControl` (live cells are not
zapped, and marks are on live cells), `SweptControl` (after the sweep a block may
be judged by its marks, as shrink does) and `ObjectControl` (which objects are owed
a destructor, block state by block state). One lemma per action shows that it
is preserved; for the refinement one lemma per action shows which abstract step it
is.

### CopiedSpaceProofs

Assumption: `CopyAssumption` (the null value and the two other places of a store
are no blocks, stores are not empty, a block holds the largest store that is not
oversize, and `SizeRange`, the number of values of `size_t`, exceeds a block). There
may be any number of blocks and stores.

| theorem | says |
|---|---|
| `Typed` | types; no block is filled beyond its capacity |
| `SetBlocksAreOwned` | `m_toSpaceSet` names blocks of the space only |
| `CurrentBlockIsOwned` | the program allocates in a block of to-space, and nothing stays pinned |
| `LiveStoresAreDisjoint` | live stores do not overlap, if the program ends when an allocation fails |
| `LiveStoresAreDisjointInDebugBuilds` | the same without the condition, with assertions compiled in |

`BlockInv` adds to the types where blocks are in each phase (`BlockControl`:
from-space, pins and loans exist during a collection only) and who may ask for a
block then (`RequestControl`). `StoreInv` is about stores: a live one is in from-space
until the marker has visited it, and out of it or pinned afterwards
(`PlaceControl`); it lies below the fill of its block (`FillControl`); and no two share
a unit (`Disjoint`). `FillControl` has an exception which is the point of the proof:
`tryReallocate` rolls the block back over the store before it asks for memory, so
between the two the store that is being reallocated may lie above the fill. If the
allocation fails and the program goes on, the next store is put on top of it.
`FailureStops` excludes these steps; with `AssertionsEnabled = FALSE` and without it,
TLC finds two live stores that overlap (section 4).

### HandleHeapProofs

Assumptions: `HandleAssumption` (finitely many nodes, at least one, and the null value
and values that are no cells are distinct) and `NodeAssumption` (sentinels are no
nodes).

| theorem | says |
|---|---|
| `HandleInvariance` | the inductive invariant `HandleInv` |
| `Typed` | types; a walk is never led to the free list |
| `ListsAgreeWithValues` | a handle is on the list that its value and owner call for, linked both ways, and on no other |
| `NoHandleToADeadCell` | between collections no handle refers to a dead cell |
| `EveryOwnerIsTold` | at the end of the walk every owner of a dead cell was told or had freed its handle |
| `OwnersAreToldOnce` | an owner is told once, and only of a handle that it still holds |

The properties follow links, but the proof cannot, since it would be an induction
over a list. `Ranked` says instead that there is a rank, a number for each node and
sentinel, that grows along the links of a list and skips no node of the list. Then
the nodes which the walk has passed are those of lower rank than `cursor`, a removed
node leaves the ranks of the others in order, and a pushed node takes the rank of
the sentinel, which moves down by one. `FreeRanked` is the same for the free list.
What it has passed refers to live cells (`WalkControl`). `DoomControl` says that the
owners that are still to be told are those of handles to dead cells, and
`AliveControl` that a strong handle, and between collections any handle, refers to a
live cell. What the links lead to
(`Reached`) is then exactly the nodes of the list (`ListsAgreeWithValues`): the nodes of
a list are a closed set, and of a closed set that misses a node the one with the
lowest rank has a predecessor that it does not miss.

### JSLockProofs

Assumption: `LockAssumption` (nobody is not a thread, a context is shared or private,
bounds are numbers). There may be any number of threads.

| theorem | says | if |
|---|---|---|
| `LockInvariance` | the inductive invariant `LockInv` | |
| `TablesFollow` | a thread has the identifier table of the context it is in | |
| `ExecutingThreadsOwnTheMutex` | who executes in the shared context owns the mutex | `OneKindOfLock` |
| `StackInvariance` | the inductive invariant `StackControl` | `SharedOnly` |
| `RegisterFileIsIntact` | a thread finds its frames on the common stack where it left them | `SharedOnly` |
| `TwoThreadsShareTheRegisterFile` | at most two threads have frames there | `SharedOnly` |

The two conditions are what the code needs, and section 4 says what happens
otherwise. `OneKindOfLock`: in a debug build, in which a lock that is not for real counts
too, there are no private contexts. `SharedOnly`: there are no private contexts, which
change `lockDropDepth` without a lock, and the nesting stays below the `Width` of that
counter.

`LockInv` says that entries and callbacks alternate on a thread's stack and which of
them is on top at each `pc` (`ShimControl`), that the table is that of the context or,
in native code, the default one (`TableControl`), and that the lock count is the sum
of what the shims have locked and dropped: `CountControl` says that there is a
level for each shim, which a step adds or takes away at the top. `MutexControl`: a
thread owns the mutex exactly when its count is positive.

`StackControl` is the argument for the policy of `DropAllLocks`: there is at most one
thread `a` that has dropped its lock, and it did so in its outermost callback. All
other callbacks kept theirs, `a`'s inner ones included, because `lockDropDepth` was not zero.
`DepthControl` shows that it was not: it is the number of callbacks of `a` and of the owner of the mutex.
`FrameControl` draws the register file from that: a frame of `a`, then those of the
owner of the mutex. A third thread never has one, and `a` only returns over its own.

### CodeBlocksProofs

Assumption: `CodeAssumption` (finitely many functions, bounds are numbers, no code and
deleted code are distinct from blocks and functions). There may be any number of
blocks.

| theorem | says |
|---|---|
| `CodeInvariance` | the inductive invariant `CodeInv` |
| `Typed` | types; a block has one owner: an executable, a block it is the alternative of, or `DFGCodeBlocks` |
| `ExecutingCodeIsKept` | no frame executes deleted code, unless the release missed its function |
| `LinksAreCurrent` | calls of code that may run lead to the newest code of a live callee |
| `SpeculationIsSound` | what optimized code relies on lives as long as the code may run or is compiled |

The last two except the pairs in `forgotten` (section 2). No theorem assumes that the
release finds any function on the stack, or that it leaves a compilation alone. `CodeInv` is a property
`HeapInv` of a heap, because `Collected` goes through heaps that are no states: jettison
the dead blocks, unlink, clear code, delete. For each of the functions there is a lemma
that says what of `HeapInv` it keeps and what it establishes. The parts are: the
current code of a function is its own and not jettisoned (`CodeControl`); every block is
jettisoned, current, or the alternative of a current one (`OwnerControl`); all that
optimized code refers to is live, even when the code is jettisoned
(`ReferenceControl`); a frame is in a block of its function, the current one, its
alternative or a jettisoned one, unless that was discarded under it (`FrameControl`); and the
two properties for all code that may run (`LinkControl`, `ExitControl`). The core is `MarkedIsClosed` with `CollectedKeeps`: what is marked
from the blocks that are found executing is closed under what those blocks refer
to, so that the code which survives refers to survivors only.

### StructuresProofs

Assumptions: `StructuresAssumption` (finitely many keys, bounds are numbers) and
`NullAssumption` (a null pointer is no structure, value or table). There may be any number
of objects, functions, structures and caches, chains of any length, and any limits for
dictionaries and despecification.

| theorem | says |
|---|---|
| `StructuresInvariance` | the inductive invariant `StructInv` |
| `LookupsAreCorrect` | every object behaves as a map |
| `CachesAreTruthful` | what compiled code assumes of a structure is true of every object that has it |

`LookupCorrect` alone is not inductive: it speaks of the table an object's structure has or
rebuilds now, and a step changes what would be rebuilt for others. `StructInv` says that
there is a set `A` of structures and a table `T[s]` for each structure an object has or can
get, independent of who holds it at the moment, with which the state has a `Shape`:

* `Shared`: the structures in `A` are a tree with the root as its root. They are
  unpinned and no dictionaries, `T` of a child is that of its parent with one entry more, at
  the next offset, and each holds `T[s]` or nothing. Stealing a table changes what a
  structure holds and not `T`;
* `Private`: any other structure has at most one object, and as long as it has one it holds
  its table and has no transitions. So editing a dictionary in place concerns no other object, and so
  does what `materializePropertyMap` would leave out behind a pinned structure;
* `Described`: `T` of its structure describes every object: the properties are in the slots
  it names, and a specific value is the property's value. `Good` tables have no key and no
  slot twice, reused and deleted ones included;
* `Remembered`: a cache of a structure an object has or can get agrees with `T`; a cached
  transition is an edge of the tree to a structure that specialises nothing;
* `Holds`: what structures and caches in use lead to is in use.

`Rebuilt` shows that the table rebuilt from a shared structure is `T[s]`. It is an induction
over data, which the prover has no rule for; the module does it with least natural numbers
(`LeastNatural`, `NaturalSteps`) over explicit ways back to the root (`WayBack`): the way has
as many steps as the table has entries, it never repeats a structure, so it is no longer
than there are structures (`NoRepetition`), and `Collected` has followed it to its end after
`MaxStructures` rounds (`CollectedIsWayBack`). In the same way `ReachedIsLeast` shows that as many rounds
of `Reached` find everything, so that no structure that an object leads to is reused or
collected. The rest are lemmas on the operations on tables (`PutInTable`, `RemoveFromTable`,
`DespecifyOne`, `DespecifyAll`, `Renumbering`), on what is kept when an object moves
(`ObjectMoves`), gets a shared or private structure (`NewShared`, `NewPrivate`) or its
dictionary is edited (`EditedInPlace`), and one lemma for each action.

### JSCDebuggerProofs

Assumptions: `DebuggerAssumption` (finitely many frames of the debugger, null is none of
them, the stack has room for a frame) and `RunningAssumption`.

| theorem | says |
|---|---|
| `DebuggerInvariance` | the inductive invariant `DebuggerInv` |
| `Typed` | types; no frame is twice in the chain, and a pause belongs to a frame of the stack |
| `PauseTargetsLive` | `m_pauseOnCallFrame` never outlives its frame |
| `StepsOverStop` | a step over stops at the next statement of its frame or of a caller |
| `EvaluationsAreIsolated` | an evaluation opens no pause in the pause, and changes neither its frames, nor what is shown, nor what to pause on |

Where a step over has to stop is a depth of the interpreter's stack, but what the code
compares is a pointer to a frame of the chain, and the two have no common length:
frames without hooks are on the stack only, and frames that were never popped are in
the chain only. `StepControl` says that the hooked frames at and above the step's depth have
places in the chain, from its top down, in the same order, and that
`m_pauseOnCallFrame` is the place of the step's depth. `Places` is kept by a call, a
return and the unwinding of a frame; where an exception disturbs it, `step` was withdrawn.

### Only model-checked

* Liveness (`CollectionEnds`, `ShutdownJoins`, `EveryCallReturns`, `FinalizationEnds`):
  fairness is beyond the prover.
* `RunningFunctionsFound`, which does not hold (section 4).

The theorems of `JSLock` and `CopiedSpace` that have a condition say nothing without it.
`lock_mixed` checks what `TablesFollow` and `ExecutingThreadsOwnTheMutex` state with both
kinds of contexts.

## 6. What is not modelled

"components" in `PROJECT.json` lists every part with its reason. In short:

* the compilers, the interpreter, the parser, the assemblers and the library of
  built-in objects are sequential programs over large data, specified by
  ECMAScript, and tested by the Mozilla suite. They are most of the repository's
  lines: translations between large data structures without a protocol, in which
  a model would repeat the program. What they leave behind for others (linked
  calls, caches, frames, debug events) is in CodeBlocks, Structures and JSCDebugger;
* generational collection (`ENABLE(GGC)`) is never compiled;
* FastMalloc, ICU and dtoa are third-party code;
* construction of a cell is atomic with its allocation; the segments of mark
  stacks are sets; the order of block lists is left open;
* `HandleHeap` has one block of nodes, and `Heap::destroy`'s finalization of all
  handles is not in it;
* the quit flag of the freeing thread, and `~Heap`, are not modelled.

## 7. Plan

Done, in this order: `ParallelMarking` with its proofs, `MarkedSpace` with its
proofs, `CopiedSpace`, `JSLock`, `HandleHeap`, `JSCDebugger`, `CodeBlocks`,
`Structures`.

Next:

1. `MachineThreads`: threads that come and go while another one collects; no scan
   of a thread that has left, no deadlock with a suspended one. With it the
   shutdown of the freeing thread, whose quit flag is read again under the lock.
2. `JSArray`'s vector and sparse map; structures with attributes and with caches
   through prototypes.
3. The Yarr interpreter against a reference matcher.
4. WTF: `MessageQueue`, the function queue of the main thread, `MetaAllocator`,
   `HashTable` with deleted buckets.
5. `CopiedSpace` with several markers; `HandleHeap` with the finalization in
   `Heap::destroy`; program code in `CodeBlocks`.

Proofs. Done: every safety property that a run checks. Left: the invariants of the modules
above, as they come.
