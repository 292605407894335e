----------------------------- MODULE CodeBlocks -----------------------------
(***************************************************************************)
(* The life of compiled code.  An executable has one current code block:    *)
(* the one of the baseline JIT or, after tier-up, one of the DFG JIT, which *)
(* owns the baseline block as its alternative.  Calls are linked to the     *)
(* code of the callee, frames execute a block until they return, and a DFG  *)
(* block is jettisoned when its speculation fails too often or when an      *)
(* object it refers to weakly dies.  Collections delete what is neither     *)
(* current nor executed.  An allocator that is out of executable memory     *)
(* releases the code of all functions that it does not find on the stack,   *)
(* also in the middle of a compilation.                                    *)
(*                                                                         *)
(* A function and its executable are one cell here, with code for calls     *)
(* only.  A call site is named by the block it is in and by its callee.     *)
(***************************************************************************)
EXTENDS Integers, FiniteSets, Sequences, SequencesExt, TLC

CONSTANTS
    Functions,  \* cells of functions; their code is compiled when first called
    None,       \* the null pointer
    Freed,      \* the code that was deleted, for a call or a frame that leads to it
    MaxBlocks,  \* bounds the code blocks that exist at a time
    MaxDepth,   \* bounds the stack
    MaxReferences, \* bounds the functions that a DFG block refers to
    MaxLinks    \* bounds the calls that are linked at a time

Blocks == Functions \X (1..MaxBlocks)  \* addresses, by the owner of the block

ASSUME CodeAssumption ==
    /\ IsFiniteSet(Functions)
    /\ {MaxBlocks, MaxDepth, MaxReferences, MaxLinks} \subseteq Nat
    /\ {None, Freed} \cap (Functions \cup Blocks) = {} /\ None # Freed

(* A block is Compiling while the DFG JIT has not linked its code yet.      *)
CodeBlock == [owner : Functions, tier : {"Baseline", "Compiling", "DFG"},
              alternative : Blocks \cup {None},
              isJettisoned : BOOLEAN,
              weakReferences : SUBSET Functions,  \* objects the code was specialised for
              inlined : SUBSET Functions]         \* the executables of inlineCallFrames

VARIABLES
    heap,       \* live: cells; code: current blocks; blocks: CodeBlock objects; links: calls
    frames,     \* the register file, the running frame last
    forgotten,  \* <<b, f>>: the code of f was released although b calls it or exits to it
    compiling   \* the running frame is in the DFG JIT
vars == <<heap, frames, forgotten, compiling>>

BlocksOf(h) == DOMAIN h.blocks
(* The blocks with speculative code, and those of them in DFGCodeBlocks. *)
Speculative(h) == {b \in BlocksOf(h) : h.blocks[b].tier # "Baseline"}
DFGBlocks(h) == {b \in BlocksOf(h) : h.blocks[b].tier = "DFG"}
Top == Last(frames)
Executing == {frames[i].block : i \in DOMAIN frames} \ {Freed}
OnStack == {frames[i].cell : i \in DOMAIN frames}

(* The block and, for one of the DFG, the block it owns. *)
WithAlternative(h, b) ==
    IF b = None THEN {} ELSE {b} \cup ({h.blocks[b].alternative} \ {None})

(* CodeBlock::baselineVersion and FunctionExecutable::baselineCodeBlockFor *)
BaselineVersion(h, e) ==
    LET b == h.code[e]
    IN  IF b = None \/ h.blocks[b].tier = "Baseline" THEN b ELSE h.blocks[b].alternative

(* The block of m_jitCodeForCall, which changes when a compilation ends. *)
JITCodeFor(h, e) ==
    LET b == h.code[e]
    IN  IF b = None \/ h.blocks[b].tier # "Compiling" THEN b ELSE h.blocks[b].alternative

TypeOK ==
    /\ heap.live \subseteq Functions
    /\ heap.code \in [Functions -> Blocks \cup {None}]
    /\ BlocksOf(heap) \subseteq Blocks
    /\ \A b \in BlocksOf(heap) : heap.blocks[b] \in CodeBlock
    /\ \A l \in heap.links :
         l.caller \in BlocksOf(heap) /\ l.callee \in Functions /\ l.target \in Blocks \cup {Freed}
    /\ frames \in Seq([cell : Functions, block : Blocks \cup {Freed}]) /\ Len(frames) <= MaxDepth
    /\ forgotten \subseteq Blocks \X Functions
    /\ compiling \in BOOLEAN
    (* who owns a block: exactly one executable or block, or DFGCodeBlocks *)
    /\ \A b \in BlocksOf(heap) :
         Cardinality({e \in heap.live : heap.code[e] = b}
                       \cup {c \in BlocksOf(heap) : heap.blocks[c].alternative = b})
           = IF heap.blocks[b].isJettisoned THEN 0 ELSE 1

Init ==
    /\ heap = [live |-> {}, code |-> [e \in Functions |-> None],
               blocks |-> <<>>, links |-> {}]
    /\ frames = <<>>
    /\ forgotten = {}
    /\ compiling = FALSE

-----------------------------------------------------------------------------
(***************************************************************************)
(* What happens to code blocks, as functions of the heap.                  *)
(***************************************************************************)
NewBlock(h, block) ==
    LET n == CHOOSE n \in 1..MaxBlocks : <<block.owner, n>> \notin BlocksOf(h)
        b == <<block.owner, n>>
    IN  [h EXCEPT !.blocks = [c \in BlocksOf(h) \cup {b} |-> IF c = b THEN block ELSE h.blocks[c]],
                  !.code[block.owner] = b]

(* A first compilation, if there is memory for the block. *)
CompileFor(h, e) ==
    IF h.code[e] # None THEN h
    ELSE NewBlock(h, [owner |-> e, tier |-> "Baseline", alternative |-> None,
                      isJettisoned |-> FALSE, weakReferences |-> {}, inlined |-> {}])

(* m_incomingCalls of a block has all calls that are linked to it. *)
UnlinkIncomingCalls(h, bs) == [h EXCEPT !.links = {l \in @ : l.target \notin bs}]

UnlinkCalls(h, bs) == [h EXCEPT !.links = {l \in @ : l.caller \notin bs}]

(* ~CodeBlock: the calls into the block leave its list, still linked. *)
Delete(h, bs) ==
    [h EXCEPT !.blocks = Restrict(@, BlocksOf(h) \ bs),
              !.links = {[l EXCEPT !.target = IF @ \in bs THEN Freed ELSE @] :
                           l \in {k \in @ : k.caller \notin bs}}]

(* The code of e once the blocks bs have given their alternatives back. *)
Reverted(h, bs, e) == IF h.code[e] \in bs THEN h.blocks[h.code[e]].alternative ELSE h.code[e]

(* Mutant: the blocks keep their alternatives too. *)
JettisonKeepingAlternative(h, bs) ==
    [UnlinkIncomingCalls(h, bs) EXCEPT
       !.code = [e \in Functions |-> Reverted(h, bs, e)],
       !.blocks = [b \in BlocksOf(h) |->
                     IF b \in bs THEN [h.blocks[b] EXCEPT !.isJettisoned = TRUE] ELSE h.blocks[b]]]

(* jettisonCodeBlock of the blocks bs: the executable takes the alternative *)
(* back, the block is left to DFGCodeBlocks.                                *)
Jettison(h, bs) ==
    [UnlinkIncomingCalls(h, bs) EXCEPT
       !.code = [e \in Functions |-> Reverted(h, bs, e)],
       !.blocks = [b \in BlocksOf(h) |->
                     IF b \in bs THEN [h.blocks[b] EXCEPT !.alternative = None, !.isJettisoned = TRUE]
                     ELSE h.blocks[b]]]

(* clearCode of the executables es. *)
ClearCode(h, es) ==
    LET g == Delete(h, UNION {WithAlternative(h, h.code[e]) : e \in es})
    IN  [g EXCEPT !.code = [e \in Functions |-> IF e \in es THEN None ELSE g.code[e]]]

-----------------------------------------------------------------------------
(***************************************************************************)
(* A collection.  executing are the DFG blocks whose address the scan of    *)
(* the register file has seen.                                              *)
(***************************************************************************)
(* Mutant: a block that executes is not scanned unless its owner is. *)
MarkedWithoutTrace(h, roots, executing) ==
    {e \in h.live : \A S \in SUBSET h.live :
       (/\ roots \subseteq S
        /\ \A c \in S : LET b == h.code[c] IN
             /\ b \in executing => h.blocks[b].weakReferences \cup h.blocks[b].inlined \subseteq S
             /\ b \in Speculative(h) /\ h.blocks[b].weakReferences \subseteq S
                  => h.blocks[b].inlined \subseteq S) => e \in S}

(* What markRoots marks: traceMarkedCodeBlocks visits all that a block      *)
(* refers to which may execute; any other such code of a marked executable  *)
(* keeps what it inlines once the fixpoint has proved it live.              *)
Marked(h, roots, executing) ==
    {e \in h.live : \A S \in SUBSET h.live :
       (/\ roots \subseteq S
        /\ \A b \in executing :
             {h.blocks[b].owner} \cup h.blocks[b].weakReferences \cup h.blocks[b].inlined \subseteq S
        /\ \A c \in S : LET b == h.code[c] IN
             b \in Speculative(h) /\ h.blocks[b].weakReferences \subseteq S
               => h.blocks[b].inlined \subseteq S) => e \in S}

(* Mutant: forgets the calls in code that executes and is not current. *)
VisitedCurrent(h, marked, executing) ==
    UNION {WithAlternative(h, h.code[e]) : e \in marked}

(* The blocks that visitAggregate has seen. *)
Visited(h, marked, executing) ==
    executing \cup UNION {WithAlternative(h, h.code[e]) : e \in marked}

(* Mutant: code that is not linked yet is left alone. *)
ProvedDeadInDFGCodeBlocks(h, marked, executing) ==
    {b \in Visited(h, marked, executing) \cap DFGBlocks(h) :
       b \notin executing /\ ~(h.blocks[b].weakReferences \subseteq marked)}

(* The blocks that finalizeUnconditionally jettisons, with one that is still *)
(* being compiled: its weak references are there before its code.           *)
ProvedDead(h, marked, executing) ==
    {b \in Visited(h, marked, executing) \cap Speculative(h) :
       b \notin executing /\ ~(h.blocks[b].weakReferences \subseteq marked)}

(* finalizeUnconditionally of the blocks that stay: calls of functions      *)
(* that were not marked are unlinked.                                       *)
UnlinkDeadCallees(h, bs, marked) ==
    [h EXCEPT !.links = {l \in @ : l.caller \in bs => l.callee \in marked}]

(* Mutant: does not ask whether the block may be executing. *)
DeleteJettisoned(h, executing) ==
    Delete(h, {b \in DFGBlocks(h) : h.blocks[b].isJettisoned})

DeleteUnmarkedJettisonedCodeBlocks(h, executing) ==
    Delete(h, {b \in DFGBlocks(h) : h.blocks[b].isJettisoned /\ b \notin executing})

(* Heap::collect: mark, finalize, destroy what was not marked, delete.     *)
Collected(h, roots, executing) ==
    LET marked == Marked(h, roots, executing)
        dead   == ProvedDead(h, marked, executing)
        kept   == Visited(h, marked, executing) \ dead
        final  == ClearCode(UnlinkDeadCallees(Jettison(h, dead), kept, marked), h.live \ marked)
    IN  DeleteUnmarkedJettisonedCodeBlocks([final EXCEPT !.live = marked], executing)

(* Heap::collect: any further cells may be reachable, and a stale slot of   *)
(* the register file may hold the address of any DFG block.                 *)
Collect(h, pairs) ==
    \E roots \in SUBSET (h.live \ OnStack), stale \in SUBSET (DFGBlocks(h) \ Executing) :
      /\ heap' = Collected(h, roots \cup OnStack, stale \cup (Executing \cap DFGBlocks(h)))
      /\ forgotten' = {p \in pairs : p[1] \in BlocksOf(heap')}

-----------------------------------------------------------------------------
(***************************************************************************)
(* Running code.  What a frame does whose code was deleted is undefined and *)
(* cut off: only the native code that it has called goes on.                *)
(***************************************************************************)
HasMemory == Cardinality(BlocksOf(heap)) < MaxBlocks
HasRoom == Len(frames) < MaxDepth
LinksTo(f) == {l \in heap.links : l.caller = Top.block /\ l.callee = f}
Push(e, b) == Append(frames, [cell |-> e, block |-> b])

CreateFunction(f) ==
    /\ ~compiling /\ f \notin heap.live
    /\ heap' = [heap EXCEPT !.live = @ \cup {f}]
    /\ UNCHANGED <<frames, forgotten, compiling>>

(* A call that is not linked compiles the callee and, once it has been      *)
(* seen before, links the call: lazyLinkFor, linkFor of the DFG, and calls  *)
(* from native code, which link nothing and may be the first frame.         *)
CallUnlinked(f, link) ==
    /\ ~compiling /\ HasRoom /\ f \in heap.live
    /\ IF frames = <<>> THEN ~link ELSE LinksTo(f) = {}
    /\ link => Top.block # Freed /\ Cardinality(heap.links) < MaxLinks
    /\ heap.code[f] = None => HasMemory
    /\ LET h == CompileFor(heap, f)
           b == JITCodeFor(h, f)
           l == [caller |-> Top.block, callee |-> f, target |-> b]
       IN  /\ heap' = IF link THEN [h EXCEPT !.links = @ \cup {l}] ELSE h
           /\ frames' = Push(f, b)
    /\ UNCHANGED <<forgotten, compiling>>

(* A linked call jumps to the code it is linked to. *)
CallLinked(f) ==
    /\ ~compiling /\ frames # <<>> /\ HasRoom
    /\ \E l \in LinksTo(f) : l.target \in Blocks /\ frames' = Push(f, l.target)
    /\ UNCHANGED <<heap, forgotten, compiling>>

Return ==
    /\ ~compiling /\ frames # <<>> /\ Top.block # Freed
    /\ frames' = Front(frames)
    /\ UNCHANGED <<heap, forgotten, compiling>>

In(tier) == frames # <<>> /\ Top.block # Freed /\ heap.blocks[Top.block].tier = tier
HasOptimizedReplacement == heap.blocks[heap.code[Top.cell]].tier = "DFG"

(* optimize_from_loop and optimize_from_ret without a replacement, up to    *)
(* the linking of the code: what is inlined and referred to has been        *)
(* decided, and the block is current with the baseline block as its         *)
(* alternative.  A compilation that fails earlier puts that block back.     *)
CompileOptimized(weak, inlined) ==
    /\ ~compiling /\ In("Baseline") /\ HasMemory
    /\ heap.blocks[heap.code[Top.cell]].tier = "Baseline"
    /\ Cardinality(weak) + Cardinality(inlined) <= MaxReferences
    /\ \A f \in inlined : BaselineVersion(heap, f) # None
    /\ heap' = NewBlock(heap,
                  [owner |-> Top.cell, tier |-> "Compiling", alternative |-> Top.block,
                   isJettisoned |-> FALSE, weakReferences |-> weak, inlined |-> inlined])
    /\ compiling' = TRUE
    /\ UNCHANGED <<frames, forgotten>>

(* setJITCode of the block b, and the calls of the alternative are unlinked. *)
Install(h, b) ==
    [UnlinkIncomingCalls(h, {h.blocks[b].alternative}) EXCEPT !.blocks[b].tier = "DFG"]

(* The end of a compilation: jitCompileFunctionIfAppropriate.  LinkBuffer   *)
(* may have released code since its begin.  What the compiler does to a     *)
(* block that was deleted or jettisoned under it is cut off.                *)
FinishCompilation ==
    /\ compiling /\ frames # <<>>
    /\ LET b == heap.code[Top.cell] IN
         /\ b # None /\ heap.blocks[b].tier = "Compiling"
         /\ heap' = Install(heap, b)
    /\ compiling' = FALSE
    /\ UNCHANGED <<frames, forgotten>>

(* prepareOSREntry: the frame goes on in the replacement. *)
PrepareOSREntry ==
    /\ ~compiling /\ In("Baseline") /\ HasOptimizedReplacement
    /\ frames' = [frames EXCEPT ![Len(frames)].block = heap.code[Top.cell]]
    /\ UNCHANGED <<heap, forgotten, compiling>>

(* CodeBlock::reoptimize: the replacement failed too often. *)
Reoptimize ==
    /\ ~compiling /\ In("Baseline") /\ HasOptimizedReplacement
    /\ heap' = Jettison(heap, {heap.code[Top.cell]})
    /\ UNCHANGED <<frames, forgotten, compiling>>

(* OSR exit: the frame, and one for each function whose inlined code is     *)
(* being executed, go on in baseline code.                                  *)
OSRExit(inner) ==
    /\ ~compiling /\ In("DFG")
    /\ inner \subseteq heap.blocks[Top.block].inlined
    /\ Len(frames) + Cardinality(inner) <= MaxDepth
    /\ \A f \in inner \cup {Top.cell} : <<Top.block, f>> \notin forgotten
    /\ \E order \in SetToSeqs(inner) :
         frames' = Front(frames) \o
           [i \in 1..(Len(order) + 1) |->
              LET e == IF i = 1 THEN Top.cell ELSE order[i - 1]
              IN  [cell |-> e, block |-> BaselineVersion(heap, e)]]
    /\ UNCHANGED <<heap, forgotten, compiling>>

-----------------------------------------------------------------------------
(***************************************************************************)
(* Collections, and the release of code.                                   *)
(***************************************************************************)
(* An allocation collects.  While JavaScript runs, collectAllGarbage does   *)
(* no more than that.                                                       *)
CollectSome ==
    /\ ~compiling /\ frames = <<>>
    /\ Collect(heap, forgotten)
    /\ UNCHANGED <<frames, compiling>>

RecompileAllJSFunctions ==
    IF frames = <<>> THEN ClearCode(heap, heap.live) ELSE heap

CollectAllGarbage ==
    /\ ~compiling
    /\ Collect(RecompileAllJSFunctions, forgotten)
    /\ UNCHANGED <<frames, compiling>>

(* StackPreservingRecompiler, for the functions found in the register file: *)
(* the calls in their code are unlinked, the code of all others is          *)
(* discarded.                                                               *)
PreserveStack(h, found) ==
    ClearCode(UnlinkCalls(h, UNION {WithAlternative(h, h.code[f]) : f \in found}),
              h.live \ found)

(* The frames once the code of functions that were not found is gone. *)
FramesAfter(h, found) ==
    [i \in DOMAIN frames |->
       IF frames[i].cell \notin found /\ frames[i].block \notin BlocksOf(h)
       THEN [frames[i] EXCEPT !.block = Freed] ELSE frames[i]]

(* releaseExecutableMemory while JavaScript runs, and while LinkBuffer      *)
(* allocates.  The scan of the register file reports functions on the stack *)
(* and in stale slots, but none in a block of the heap that is allocated    *)
(* from: it runs before canonicalizeCellLivenessData, and may miss any      *)
(* function.  The calls in jettisoned code stay linked, and code that       *)
(* inlines what is lost stays.                                              *)
ReleaseExecutableMemory ==
    /\ frames # <<>>
    /\ \E found \in SUBSET heap.live :
         LET h    == PreserveStack(heap, found)
             lost == {f \in Functions : heap.code[f] # None /\ h.code[f] = None}
         IN  /\ frames' = FramesAfter(h, found)
             /\ Collect(h, forgotten \cup {p \in BlocksOf(h) \X lost :
                          h.blocks[p[1]].isJettisoned \/ p[2] \in h.blocks[p[1]].inlined})
    /\ UNCHANGED compiling

Next ==
    \/ \E f \in Functions : CreateFunction(f) \/ CallLinked(f)
    \/ \E f \in Functions, link \in BOOLEAN : CallUnlinked(f, link)
    \/ Return
    \/ \E weak, inlined \in SUBSET heap.live : CompileOptimized(weak, inlined)
    \/ FinishCompilation
    \/ PrepareOSREntry
    \/ Reoptimize
    \/ \E inner \in SUBSET Functions : OSRExit(inner)
    \/ CollectSome
    \/ CollectAllGarbage
    \/ ReleaseExecutableMemory

Spec == Init /\ [][Next]_vars

-----------------------------------------------------------------------------
(***************************************************************************)
(* Properties.                                                             *)
(***************************************************************************)
(* The code that may still run: what frames execute, and the code of        *)
(* functions.                                                               *)
MayRun ==
    Executing \cup UNION {WithAlternative(heap, heap.code[e]) :
                            e \in heap.live}

(* No frame executes code that was deleted, or whose address has been used  *)
(* for another block since; and a frame in baseline code is in the baseline *)
(* version of its executable, which reoptimize, hasOptimizedReplacement and *)
(* prepareOSREntry assert.  The one exception is Freed: the frame of a      *)
(* function that releaseExecutableMemory has missed on the stack.           *)
ExecutingCodeKept ==
    \A i \in DOMAIN frames : LET e == frames[i].cell  b == frames[i].block IN
      /\ e \in heap.live
      /\ b # Freed =>
           /\ b \in BlocksOf(heap) /\ heap.blocks[b].owner = e
           /\ heap.blocks[b].tier # "Compiling"
           /\ heap.blocks[b].tier = "Baseline" => b = BaselineVersion(heap, e)
           /\ heap.blocks[b].tier = "DFG" => b = heap.code[e] \/ heap.blocks[b].isJettisoned

(* A call is linked to the newest code of a live callee, and never to code  *)
(* that was jettisoned or deleted, in whatever order the caller, the callee *)
(* and what they inline are optimized, jettisoned and collected: the        *)
(* destructor of a block does not unlink the calls into it.  The exception  *)
(* is what releaseExecutableMemory has forgotten: the calls in jettisoned   *)
(* code to functions whose code it has discarded.                           *)
LinksCurrent ==
    \A l \in heap.links : l.caller \in MayRun =>
      IF l.target = Freed THEN <<l.caller, l.callee>> \in forgotten
                          ELSE l.callee \in heap.live /\ l.target = JITCodeFor(heap, l.callee)

(* Code that was specialised for objects runs only while they live, and can *)
(* always leave: its function and each one it inlines have baseline code to *)
(* exit to, also when code was released between the choice of what is       *)
(* inlined and the end of the compilation.  The exception is what           *)
(* releaseExecutableMemory has forgotten, now or in such a window: it       *)
(* discards the code of functions that other code inlines.                  *)
SpeculationSound ==
    \A b \in MayRun \cap Speculative(heap) :
      /\ heap.blocks[b].weakReferences \cup heap.blocks[b].inlined \subseteq heap.live
      /\ \A f \in heap.blocks[b].inlined \cup {heap.blocks[b].owner} :
           BaselineVersion(heap, f) # None \/ <<b, f>> \in forgotten
=============================================================================
