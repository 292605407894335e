-------------------------- MODULE CodeBlocksProofs --------------------------
(***************************************************************************)
(* The safety properties of CodeBlocks, for any number of functions, code   *)
(* blocks, frames and links.                                               *)
(*                                                                         *)
(* The operations on code blocks are functions of the heap, so that the     *)
(* invariant is one too: of a heap h, of the pairs p that were forgotten    *)
(* and of the set R of the frames.  A collection passes through heaps that  *)
(* no state has, and the lemmas say what each of its steps leaves.          *)
(***************************************************************************)
EXTENDS CodeBlocks, FiniteSetTheorems, SequenceTheorems, TLAPS

-----------------------------------------------------------------------------
(***************************************************************************)
(* The invariant.                                                          *)
(***************************************************************************)
Owner(h, b) == h.blocks[b].owner
Tier(h, b) == h.blocks[b].tier
Alternative(h, b) == h.blocks[b].alternative
Jettisoned(h, b) == h.blocks[b].isJettisoned
Weak(h, b) == h.blocks[b].weakReferences
Inlined(h, b) == h.blocks[b].inlined

LinkTypes == [caller : Blocks, callee : Functions, target : Blocks \cup {Freed}]
FrameTypes == [cell : Functions, block : Blocks \cup {Freed}]

\* A heap is a record, its code and its blocks are functions.
HeapTypes(h) ==
    /\ h = [live |-> h.live, code |-> h.code, blocks |-> h.blocks, links |-> h.links]
    /\ h.live \in SUBSET Functions
    /\ h.code \in [Functions -> Blocks \cup {None}]
    /\ BlocksOf(h) \in SUBSET Blocks
    /\ h.blocks \in [BlocksOf(h) -> CodeBlock]
    /\ h.links \in SUBSET LinkTypes
    /\ \A l \in h.links : l.caller \in BlocksOf(h)

\* The current code of a function is its own.
CodeControl(h) ==
    \A e \in Functions : h.code[e] # None =>
      /\ e \in h.live
      /\ h.code[e] \in BlocksOf(h)
      /\ Owner(h, h.code[e]) = e
      /\ ~Jettisoned(h, h.code[e])

\* A block is jettisoned, current, or the alternative of the current one.
OwnerControl(h) ==
    \A b \in BlocksOf(h) :
      /\ Tier(h, b) = "Baseline" => Alternative(h, b) = None /\ ~Jettisoned(h, b)
      /\ Jettisoned(h, b) => Alternative(h, b) = None
      /\ Tier(h, b) # "Baseline" /\ ~Jettisoned(h, b) => Alternative(h, b) # None
      /\ Alternative(h, b) # None =>
           /\ Alternative(h, b) \in BlocksOf(h)
           /\ Tier(h, Alternative(h, b)) = "Baseline"
           /\ Owner(h, Alternative(h, b)) = Owner(h, b)
      /\ ~Jettisoned(h, b) =>
           /\ h.code[Owner(h, b)] # None
           /\ b = h.code[Owner(h, b)] \/ b = Alternative(h, h.code[Owner(h, b)])

\* All that optimized code refers to is live, also when the code was jettisoned: a
\* collection that does not find it executing deletes it.  The one that was jettisoned while it
\* was compiled is not in DFGCodeBlocks; nothing refers to it any more.
Refers(h, b) == Tier(h, b) = "DFG" \/ (Tier(h, b) = "Compiling" /\ ~Jettisoned(h, b))
ReferenceControl(h) ==
    \A b \in BlocksOf(h) : Refers(h, b) =>
      Owner(h, b) \in h.live /\ Weak(h, b) \subseteq h.live /\ Inlined(h, b) \subseteq h.live

\* A frame is in a block of its function, unless that was discarded under it.
FrameControl(h, R) ==
    \A r \in R : /\ r \in FrameTypes
                 /\ r.cell \in h.live
                 /\ r.block # Freed =>
                      /\ r.block \in BlocksOf(h)
                      /\ Owner(h, r.block) = r.cell
                      /\ Tier(h, r.block) # "Compiling"

\* The code that may still run.
Runs(h, R, b) == b \in BlocksOf(h) /\ (~Jettisoned(h, b) \/ \E r \in R : r.block = b)

LinkControl(h, p, R) ==
    \A l \in h.links : Runs(h, R, l.caller) =>
      IF l.target = Freed THEN <<l.caller, l.callee>> \in p
                          ELSE l.callee \in h.live /\ l.target = JITCodeFor(h, l.callee)

\* The functions to whose baseline code a block exits.
Exits(h, b) == Inlined(h, b) \cup {Owner(h, b)}

ExitControl(h, p, R) ==
    \A b \in BlocksOf(h) : Tier(h, b) # "Baseline" /\ Runs(h, R, b) =>
      \A f \in Exits(h, b) : h.code[f] # None \/ <<b, f>> \in p

HeapInv(h, p, R) ==
    /\ HeapTypes(h)
    /\ CodeControl(h)
    /\ OwnerControl(h)
    /\ ReferenceControl(h)
    /\ FrameControl(h, R)
    /\ LinkControl(h, p, R)
    /\ ExitControl(h, p, R)

CodeInv ==
    /\ HeapInv(heap, forgotten, ToSet(frames))
    /\ frames \in Seq(FrameTypes) /\ Len(frames) <= MaxDepth
    /\ forgotten \in SUBSET (Blocks \X Functions)
    /\ compiling \in BOOLEAN

-----------------------------------------------------------------------------
(***************************************************************************)
(* What the operations on code blocks do to the parts of a heap.           *)
(***************************************************************************)
\* The parts of a block have their types.
LEMMA BlockTypes ==
    ASSUME NEW h, HeapTypes(h), NEW b \in BlocksOf(h)
    PROVE  /\ Owner(h, b) \in Functions /\ Tier(h, b) \in {"Baseline", "Compiling", "DFG"}
           /\ Alternative(h, b) \in Blocks \cup {None} /\ Jettisoned(h, b) \in BOOLEAN
           /\ Weak(h, b) \in SUBSET Functions /\ Inlined(h, b) \in SUBSET Functions
<1>1. h.blocks[b] \in CodeBlock
  BY DEF HeapTypes
<1> QED
  BY <1>1 DEF CodeBlock, Owner, Tier, Alternative, Jettisoned, Weak, Inlined

\* The parts of a link have their types.
LEMMA LinkParts ==
    ASSUME NEW l \in LinkTypes
    PROVE  l.caller \in Blocks /\ l.callee \in Functions /\ l.target \in Blocks \cup {Freed}
BY DEF LinkTypes

\* The code that calls of a function lead to, by the parts of its current block.
LEMMA JITCode ==
    ASSUME NEW h, NEW e
    PROVE  JITCodeFor(h, e) = IF h.code[e] = None \/ Tier(h, h.code[e]) # "Compiling" THEN h.code[e]
                              ELSE Alternative(h, h.code[e])
BY DEF JITCodeFor, Tier, Alternative

\* It is a block of the function that has been compiled.
LEMMA JITCodeBlocks ==
    ASSUME NEW h, HeapTypes(h), CodeControl(h), OwnerControl(h), NEW e \in Functions, h.code[e] # None
    PROVE  LET b == JITCodeFor(h, e) IN
           /\ b \in Blocks /\ b \in BlocksOf(h) /\ Owner(h, b) = e /\ ~Jettisoned(h, b)
           /\ Tier(h, b) # "Compiling"
<1> DEFINE c == h.code[e]
<1>1. c \in BlocksOf(h) /\ Owner(h, c) = e /\ ~Jettisoned(h, c) /\ BlocksOf(h) \subseteq Blocks
  BY DEF CodeControl, HeapTypes
<1>2. JITCodeFor(h, e) = IF Tier(h, c) # "Compiling" THEN c ELSE Alternative(h, c)
  BY JITCode
<1> HIDE DEF c
<1>3. CASE Tier(h, c) # "Compiling"
  BY <1>1, <1>2, <1>3
<1>4. CASE Tier(h, c) = "Compiling"
  <2> DEFINE a == Alternative(h, c)
  <2>1. a \in BlocksOf(h) /\ Tier(h, a) = "Baseline" /\ Owner(h, a) = e
    BY <1>1, <1>4 DEF OwnerControl
  <2> HIDE DEF a
  <2>2. ~Jettisoned(h, a)
    BY <2>1 DEF OwnerControl
  <2> QED
    BY <1>1, <1>2, <1>4, <2>1, <2>2 DEF a
<1> QED
  BY <1>3, <1>4

\* No block has the name of a null pointer.
LEMMA Pointers == None \notin Blocks /\ Freed \notin Blocks /\ None # Freed
BY CodeAssumption

\* Two heaps with the same blocks.
SameBlocks(g, h) ==
    /\ BlocksOf(g) = BlocksOf(h)
    /\ \A b \in BlocksOf(h) : /\ Owner(g, b) = Owner(h, b) /\ Tier(g, b) = Tier(h, b)
                              /\ Alternative(g, b) = Alternative(h, b) /\ Jettisoned(g, b) = Jettisoned(h, b)
                              /\ Weak(g, b) = Weak(h, b) /\ Inlined(g, b) = Inlined(h, b)

\* Calls are linked or unlinked.
LEMMA LinksReplaced ==
    ASSUME NEW h, HeapTypes(h), NEW X, \A l \in X : l \in LinkTypes /\ l.caller \in BlocksOf(h),
           NEW g, g = [h EXCEPT !.links = X]
    PROVE  /\ HeapTypes(g) /\ g.live = h.live /\ g.code = h.code /\ g.links = X
           /\ g.blocks = h.blocks /\ SameBlocks(g, h)
<1>1. g = [live |-> h.live, code |-> h.code, blocks |-> h.blocks, links |-> X]
  BY DEF HeapTypes
<1>2. g.live = h.live /\ g.code = h.code /\ g.blocks = h.blocks /\ g.links = X
  BY <1>1
<1>3. BlocksOf(g) = BlocksOf(h)
  BY <1>2 DEF BlocksOf
<1> QED
  BY <1>1, <1>2, <1>3 DEF HeapTypes, SameBlocks, Owner, Tier, Alternative, Jettisoned, Weak, Inlined

\* Calls are unlinked.
LEMMA FewerLinks ==
    ASSUME NEW h, NEW p, NEW R, HeapInv(h, p, R), NEW X \in SUBSET h.links,
           NEW g, g = [h EXCEPT !.links = X]
    PROVE  HeapInv(g, p, R) /\ g.live = h.live /\ g.code = h.code /\ g.links = X /\ SameBlocks(g, h)
<1>1. /\ HeapTypes(g) /\ g.live = h.live /\ g.code = h.code /\ g.links = X /\ SameBlocks(g, h)
      /\ g.blocks = h.blocks
  <2>1. (\A l \in X : l \in LinkTypes /\ l.caller \in BlocksOf(h)) /\ HeapTypes(h)
    BY DEF HeapInv, HeapTypes
  <2> QED
    BY <2>1, LinksReplaced
<1>2. CodeControl(g) /\ OwnerControl(g) /\ ReferenceControl(g) /\ FrameControl(g, R) /\ ExitControl(g, p, R)
  <2>1. \A b : /\ Owner(g, b) = Owner(h, b) /\ Tier(g, b) = Tier(h, b)
               /\ Alternative(g, b) = Alternative(h, b) /\ Jettisoned(g, b) = Jettisoned(h, b)
               /\ Weak(g, b) = Weak(h, b) /\ Inlined(g, b) = Inlined(h, b)
    BY <1>1 DEF Owner, Tier, Alternative, Jettisoned, Weak, Inlined
  <2>2. BlocksOf(g) = BlocksOf(h)
    BY <1>1 DEF BlocksOf
  <2>3. CodeControl(g) /\ FrameControl(g, R)
    BY <1>1, <2>1, <2>2 DEF HeapInv, CodeControl, FrameControl
  <2>4. OwnerControl(g)
    BY <1>1, <2>1, <2>2 DEF HeapInv, OwnerControl
  <2>5. ReferenceControl(g) /\ ExitControl(g, p, R)
    BY <1>1, <2>1, <2>2 DEF HeapInv, ReferenceControl, Refers, ExitControl, Exits, Runs
  <2> QED
    BY <2>3, <2>4, <2>5
<1>3. LinkControl(g, p, R)
  <2>1. \A e : JITCodeFor(g, e) = JITCodeFor(h, e)
    BY <1>1 DEF JITCodeFor
  <2> QED
    BY <1>1, <2>1 DEF HeapInv, LinkControl, Runs, SameBlocks
<1> QED
  BY <1>1, <1>2, <1>3 DEF HeapInv

\* The parts of a heap after its blocks bs were deleted.
DeletedParts(g, h, bs) ==
    /\ g.live = h.live /\ g.code = h.code
    /\ BlocksOf(g) = BlocksOf(h) \ bs
    /\ \A b \in BlocksOf(g) :
         /\ Owner(g, b) = Owner(h, b) /\ Tier(g, b) = Tier(h, b)
         /\ Alternative(g, b) = Alternative(h, b) /\ Jettisoned(g, b) = Jettisoned(h, b)
         /\ Weak(g, b) = Weak(h, b) /\ Inlined(g, b) = Inlined(h, b)
    /\ \A k \in g.links : \E l \in h.links :
         /\ l.caller \notin bs /\ k.caller = l.caller /\ k.callee = l.callee
         /\ k.target = IF l.target \in bs THEN Freed ELSE l.target

\* ~CodeBlock leaves a heap with these parts.
LEMMA DeleteParts ==
    ASSUME NEW h, HeapTypes(h), NEW bs, NEW g, g = Delete(h, bs)
    PROVE  HeapTypes(g) /\ DeletedParts(g, h, bs)
<1> DEFINE blocks == Restrict(h.blocks, BlocksOf(h) \ bs)
           Cut(l) == [l EXCEPT !.target = IF @ \in bs THEN Freed ELSE @]
           X == {Cut(l) : l \in {k \in h.links : k.caller \notin bs}}
<1>1. g = [h EXCEPT !.blocks = blocks, !.links = X]
  BY DEF Delete
<1>2. ASSUME NEW l \in h.links, l.caller \notin bs
      PROVE  /\ Cut(l) \in LinkTypes /\ Cut(l).caller = l.caller /\ Cut(l).callee = l.callee
             /\ Cut(l).target = IF l.target \in bs THEN Freed ELSE l.target
             /\ l.caller \in BlocksOf(h)
  <2>1. l \in LinkTypes /\ l.caller \in BlocksOf(h)
    BY DEF HeapTypes
  <2> QED
    BY <2>1 DEF LinkTypes
<1>3. \A k \in X : \E l \in h.links : l.caller \notin bs /\ k = Cut(l)
  OBVIOUS
<1> HIDE DEF Cut, X, blocks
<1>4. g = [live |-> h.live, code |-> h.code, blocks |-> blocks, links |-> X]
  BY <1>1 DEF HeapTypes
<1>5. g.live = h.live /\ g.code = h.code /\ g.blocks = blocks /\ g.links = X
  BY <1>4
<1>6. BlocksOf(g) = BlocksOf(h) \ bs /\ \A b \in BlocksOf(h) \ bs : g.blocks[b] = h.blocks[b]
  BY <1>5 DEF BlocksOf, blocks, Restrict
<1>7. g.blocks \in [BlocksOf(g) -> CodeBlock]
  <2>1. \A b \in BlocksOf(h) \ bs : h.blocks[b] \in CodeBlock
    BY DEF HeapTypes
  <2> QED
    BY <1>5, <1>6, <2>1 DEF blocks, Restrict
<1>8. ASSUME NEW k \in g.links
      PROVE  /\ k \in LinkTypes /\ k.caller \in BlocksOf(g)
             /\ \E l \in h.links :
                  /\ l.caller \notin bs /\ k.caller = l.caller /\ k.callee = l.callee
                  /\ k.target = IF l.target \in bs THEN Freed ELSE l.target
  <2>1. PICK l \in h.links : l.caller \notin bs /\ k = Cut(l)
    BY <1>3, <1>5
  <2> QED
    BY <1>2, <1>6, <2>1
<1>9. HeapTypes(g)
  BY <1>4, <1>5, <1>6, <1>7, <1>8 DEF HeapTypes
<1> QED
  BY <1>5, <1>6, <1>8, <1>9 DEF DeletedParts, Owner, Tier, Alternative, Jettisoned, Weak, Inlined

-----------------------------------------------------------------------------
(***************************************************************************)
(* Jettisoning, compiling and linking keep the invariant.                  *)
(***************************************************************************)
\* Blocks that stay as they are.
Keeps(g, h, b) ==
    /\ Owner(g, b) = Owner(h, b) /\ Tier(g, b) = Tier(h, b)
    /\ Weak(g, b) = Weak(h, b) /\ Inlined(g, b) = Inlined(h, b)

\* The parts of a heap after its blocks bs were jettisoned.
JettisonedParts(g, h, bs) ==
    /\ g.live = h.live /\ BlocksOf(g) = BlocksOf(h)
    /\ \A e \in Functions : g.code[e] = Reverted(h, bs, e)
    /\ \A b \in BlocksOf(h) :
         /\ Keeps(g, h, b)
         /\ Alternative(g, b) = IF b \in bs THEN None ELSE Alternative(h, b)
         /\ Jettisoned(g, b) <=> Jettisoned(h, b) \/ b \in bs
    /\ \A l \in g.links : l \in h.links /\ l.target \notin bs

\* jettisonCodeBlock leaves a heap with these parts.
LEMMA JettisonAccess ==
    ASSUME NEW h, HeapTypes(h), NEW bs \in SUBSET BlocksOf(h), NEW g, g = Jettison(h, bs)
    PROVE  HeapTypes(g) /\ JettisonedParts(g, h, bs)
<1> DEFINE X == {l \in h.links : l.target \notin bs}
           u == UnlinkIncomingCalls(h, bs)
           code == [e \in Functions |-> Reverted(h, bs, e)]
           blocks == [b \in BlocksOf(h) |->
                       IF b \in bs THEN [h.blocks[b] EXCEPT !.alternative = None, !.isJettisoned = TRUE]
                       ELSE h.blocks[b]]
<1>1. u = [h EXCEPT !.links = X]
  BY DEF UnlinkIncomingCalls
<1>2. u = [live |-> h.live, code |-> h.code, blocks |-> h.blocks, links |-> X]
  BY <1>1 DEF HeapTypes
<1>3. g = [u EXCEPT !.code = code, !.blocks = blocks]
  BY DEF Jettison
<1> HIDE DEF code, blocks, u, X
<1>4. g = [live |-> h.live, code |-> code, blocks |-> blocks, links |-> X]
  BY <1>2, <1>3
<1>5. g.live = h.live /\ g.code = code /\ g.blocks = blocks /\ g.links = X
  BY <1>4
<1>6. BlocksOf(g) = BlocksOf(h)
  BY <1>5 DEF BlocksOf, blocks
<1>7. ASSUME NEW b \in BlocksOf(h)
      PROVE  /\ g.blocks[b] \in CodeBlock
             /\ Keeps(g, h, b)
             /\ Alternative(g, b) = IF b \in bs THEN None ELSE Alternative(h, b)
             /\ Jettisoned(g, b) <=> Jettisoned(h, b) \/ b \in bs
  <2>1. h.blocks[b] \in CodeBlock
    BY DEF HeapTypes
  <2>2. g.blocks[b] = IF b \in bs THEN [h.blocks[b] EXCEPT !.alternative = None, !.isJettisoned = TRUE]
                      ELSE h.blocks[b]
    BY <1>5 DEF blocks
  <2>3. CASE b \in bs
    BY ZenonT(60), <2>1, <2>2, <2>3 DEF CodeBlock, Keeps, Owner, Tier, Alternative, Jettisoned, Weak, Inlined
  <2>4. CASE b \notin bs
    BY <2>1, <2>2, <2>4 DEF CodeBlock, Keeps, Owner, Tier, Alternative, Jettisoned, Weak, Inlined
  <2> QED
    BY <2>3, <2>4
<1>8. ASSUME NEW e \in Functions
      PROVE  g.code[e] = Reverted(h, bs, e) /\ Reverted(h, bs, e) \in Blocks \cup {None}
  <2>1. g.code[e] = Reverted(h, bs, e)
    BY <1>5 DEF code
  <2>2. h.code[e] \in Blocks \cup {None}
    BY DEF HeapTypes
  <2>3. h.code[e] \in bs => Alternative(h, h.code[e]) \in Blocks \cup {None}
    BY BlockTypes
  <2> QED
    BY <2>1, <2>2, <2>3 DEF Reverted, Alternative
<1>9. HeapTypes(g)
  <2>1. g.code \in [Functions -> Blocks \cup {None}]
    BY <1>5, <1>8 DEF code
  <2>2. g.blocks \in [BlocksOf(g) -> CodeBlock]
    BY <1>5, <1>6, <1>7 DEF blocks
  <2> QED
    BY <1>4, <1>5, <1>6, <2>1, <2>2 DEF HeapTypes, X
<1> QED
  BY <1>5, <1>6, <1>7, <1>8, <1>9 DEF JettisonedParts, X

\* Optimized code that is jettisoned was the current code, and leaves its alternative as such.
LEMMA JettisonKeeps ==
    ASSUME NEW h, NEW p, NEW R, HeapInv(h, p, R), NEW bs \in SUBSET BlocksOf(h),
           \A b \in bs : Tier(h, b) # "Baseline" /\ ~Jettisoned(h, b), NEW g, g = Jettison(h, bs)
    PROVE  HeapInv(g, p, R) /\ JettisonedParts(g, h, bs)
           /\ \A e \in Functions : g.code[e] = None <=> h.code[e] = None
<1>0. HeapTypes(h) /\ CodeControl(h) /\ OwnerControl(h)
  BY DEF HeapInv
<1>1. HeapTypes(g) /\ JettisonedParts(g, h, bs)
  BY <1>0, JettisonAccess
<1>2. \A b \in BlocksOf(h) : Owner(h, b) \in Functions
  BY <1>0, BlockTypes
<1>3. ASSUME NEW e \in Functions
      PROVE  /\ g.code[e] = IF h.code[e] \in bs THEN Alternative(h, h.code[e]) ELSE h.code[e]
             /\ h.code[e] \in bs =>
                  /\ Alternative(h, h.code[e]) # None /\ Alternative(h, h.code[e]) \in BlocksOf(h)
                  /\ Tier(h, Alternative(h, h.code[e])) = "Baseline"
                  /\ Owner(h, Alternative(h, h.code[e])) = e
                  /\ h.code[e] # None
  <2>1. g.code[e] = Reverted(h, bs, e)
    BY <1>1 DEF JettisonedParts
  <2>2. g.code[e] = IF h.code[e] \in bs THEN Alternative(h, h.code[e]) ELSE h.code[e]
    BY <2>1 DEF Reverted, Alternative
  <2>3. ASSUME h.code[e] \in bs
        PROVE  /\ Alternative(h, h.code[e]) # None /\ Alternative(h, h.code[e]) \in BlocksOf(h)
               /\ Tier(h, Alternative(h, h.code[e])) = "Baseline"
               /\ Owner(h, Alternative(h, h.code[e])) = e
               /\ h.code[e] # None
    <3>1. h.code[e] \in Blocks
      BY <1>0, <2>3 DEF HeapTypes
    <3>2. h.code[e] # None
      BY <3>1, Pointers
    <3>3. Owner(h, h.code[e]) = e
      BY <1>0, <3>2 DEF CodeControl
    <3> QED
      BY <1>0, <2>3, <3>2, <3>3 DEF OwnerControl
  <2> QED
    BY <2>2, <2>3
<1>4. CodeControl(g)
  <2> SUFFICES ASSUME NEW e \in Functions, g.code[e] # None
               PROVE  /\ e \in g.live /\ g.code[e] \in BlocksOf(g)
                      /\ Owner(g, g.code[e]) = e /\ ~Jettisoned(g, g.code[e])
    BY DEF CodeControl
  <2>1. CASE h.code[e] \in bs
    <3>1. g.code[e] = Alternative(h, h.code[e])
      BY <1>3, <2>1
    <3>2. h.code[e] # None /\ e \in h.live
      BY <1>0, <1>3, <2>1 DEF CodeControl
    <3>3. g.code[e] \in BlocksOf(h) /\ Tier(h, g.code[e]) = "Baseline" /\ Owner(h, g.code[e]) = e
      BY <1>3, <2>1, <3>1
    <3>4. ~Jettisoned(h, g.code[e]) /\ g.code[e] \notin bs
      BY <1>0, <3>3 DEF OwnerControl
    <3> QED
      BY <1>1, <3>2, <3>3, <3>4 DEF JettisonedParts, Keeps
  <2>2. CASE h.code[e] \notin bs
    BY <1>0, <1>1, <1>3, <2>2 DEF CodeControl, JettisonedParts, Keeps
  <2> QED
    BY <2>1, <2>2
<1>5. OwnerControl(g)
  <2> SUFFICES ASSUME NEW b \in BlocksOf(h)
      PROVE  /\ Tier(g, b) = "Baseline" => Alternative(g, b) = None /\ ~Jettisoned(g, b)
             /\ Jettisoned(g, b) => Alternative(g, b) = None
             /\ Tier(g, b) # "Baseline" /\ ~Jettisoned(g, b) => Alternative(g, b) # None
             /\ Alternative(g, b) # None =>
                  /\ Alternative(g, b) \in BlocksOf(g)
                  /\ Tier(g, Alternative(g, b)) = "Baseline"
                  /\ Owner(g, Alternative(g, b)) = Owner(g, b)
             /\ ~Jettisoned(g, b) =>
                  /\ g.code[Owner(g, b)] # None
                  /\ b = g.code[Owner(g, b)] \/ b = Alternative(g, g.code[Owner(g, b)])
    BY <1>1 DEF OwnerControl, JettisonedParts
  <2>1. Owner(g, b) = Owner(h, b) /\ Tier(g, b) = Tier(h, b)
        /\ Alternative(g, b) = (IF b \in bs THEN None ELSE Alternative(h, b))
        /\ (Jettisoned(g, b) <=> Jettisoned(h, b) \/ b \in bs)
    BY <1>1 DEF JettisonedParts, Keeps
  <2>2. /\ Tier(g, b) = "Baseline" => Alternative(g, b) = None /\ ~Jettisoned(g, b)
        /\ Jettisoned(g, b) => Alternative(g, b) = None
        /\ Tier(g, b) # "Baseline" /\ ~Jettisoned(g, b) => Alternative(g, b) # None
    BY <1>0, <2>1 DEF OwnerControl
  <2>3. ASSUME Alternative(g, b) # None
        PROVE  /\ Alternative(g, b) \in BlocksOf(g)
               /\ Tier(g, Alternative(g, b)) = "Baseline"
               /\ Owner(g, Alternative(g, b)) = Owner(g, b)
    <3>1. Alternative(g, b) = Alternative(h, b)
      BY <2>1, <2>3
    <3> QED
      BY <1>0, <1>1, <2>1, <2>3, <3>1 DEF OwnerControl, JettisonedParts, Keeps
  <2>4. ASSUME ~Jettisoned(g, b)
        PROVE  /\ g.code[Owner(g, b)] # None
               /\ b = g.code[Owner(g, b)] \/ b = Alternative(g, g.code[Owner(g, b)])
    <3> DEFINE e == Owner(h, b)
    <3>1. b \notin bs /\ ~Jettisoned(h, b) /\ e \in Functions /\ Owner(g, b) = e
      BY <1>2, <2>1, <2>4
    <3>2. h.code[e] # None /\ (b = h.code[e] \/ b = Alternative(h, h.code[e]))
      BY <1>0, <3>1 DEF OwnerControl
    <3>3. h.code[e] \in BlocksOf(h)
      BY <1>0, <3>1, <3>2 DEF CodeControl
    <3> HIDE DEF e
    <3>4. CASE h.code[e] \in bs
      BY <1>3, <3>1, <3>2, <3>4
    <3>5. CASE h.code[e] \notin bs
      BY <1>1, <1>3, <3>1, <3>2, <3>3, <3>5 DEF JettisonedParts
    <3> QED
      BY <3>4, <3>5
  <2> QED
    BY <2>2, <2>3, <2>4
<1>6. ReferenceControl(g) /\ FrameControl(g, R)
  <2>1. ReferenceControl(g)
    BY <1>1 DEF HeapInv, ReferenceControl, Refers, JettisonedParts, Keeps
  <2> QED
    BY <1>1, <2>1 DEF HeapInv, FrameControl, JettisonedParts, Keeps
<1>7. \A b : Runs(g, R, b) => Runs(h, R, b)
  BY <1>1 DEF Runs, JettisonedParts
<1>8. LinkControl(g, p, R)
  <2> SUFFICES ASSUME NEW l \in g.links, Runs(g, R, l.caller)
               PROVE  IF l.target = Freed THEN <<l.caller, l.callee>> \in p
                      ELSE l.callee \in g.live /\ l.target = JITCodeFor(g, l.callee)
    BY DEF LinkControl
  <2>1. l \in h.links /\ l.target \notin bs /\ Runs(h, R, l.caller)
    BY <1>1, <1>7 DEF JettisonedParts
  <2>2. IF l.target = Freed THEN <<l.caller, l.callee>> \in p
        ELSE l.callee \in h.live /\ l.target = JITCodeFor(h, l.callee)
    BY <2>1 DEF HeapInv, LinkControl
  <2>3. l.callee \in Functions /\ l.target # None
    BY <1>0, <2>1, LinkParts, Pointers DEF HeapTypes
  <2>4. CASE l.target # Freed
    <3> DEFINE e == l.callee
               a == h.code[e]
    <3>1. e \in Functions /\ e \in g.live /\ l.target = JITCodeFor(h, e) /\ l.target \notin bs
      BY <1>1, <2>1, <2>2, <2>3, <2>4 DEF JettisonedParts
    <3>2. a # None
      BY <2>3, <3>1, JITCode
    <3>3. a \in BlocksOf(h) /\ g.code[e] = IF a \in bs THEN Alternative(h, a) ELSE a
      BY <1>0, <1>3, <3>1, <3>2 DEF CodeControl
    <3> HIDE DEF a, e
    <3>4. CASE a \in bs
      <4>1. JITCodeFor(h, e) = Alternative(h, a)
        BY <3>1, <3>2, <3>4, JITCode DEF a
      <4>2. g.code[e] = Alternative(h, a) /\ Alternative(h, a) \in BlocksOf(h)
            /\ Tier(h, Alternative(h, a)) = "Baseline"
        BY <1>3, <3>1, <3>3, <3>4 DEF a
      <4>3. Tier(g, g.code[e]) = "Baseline"
        BY <1>1, <4>2 DEF JettisonedParts, Keeps
      <4>4. JITCodeFor(g, e) = g.code[e]
        BY <4>3, JITCode
      <4> QED
        BY <2>4, <3>1, <4>1, <4>2, <4>4 DEF e
    <3>5. CASE a \notin bs
      <4>1. g.code[e] = a /\ Tier(g, a) = Tier(h, a) /\ Alternative(g, a) = Alternative(h, a)
        BY <1>1, <3>3, <3>5 DEF JettisonedParts, Keeps
      <4>2. JITCodeFor(g, e) = JITCodeFor(h, e)
        BY <4>1, JITCode DEF a
      <4> QED
        BY <2>4, <3>1, <4>2 DEF e
    <3> QED
      BY <3>4, <3>5
  <2> QED
    BY <2>2, <2>4
<1>9. \A e \in Functions : g.code[e] = None <=> h.code[e] = None
  BY <1>3
<1>10. ExitControl(g, p, R)
  <2> SUFFICES ASSUME NEW b \in BlocksOf(h), Tier(g, b) # "Baseline", Runs(g, R, b), NEW f \in Exits(g, b)
               PROVE  g.code[f] # None \/ <<b, f>> \in p
    BY <1>1 DEF ExitControl, JettisonedParts
  <2>1. Tier(h, b) # "Baseline" /\ Runs(h, R, b) /\ f \in Exits(h, b)
    BY <1>1, <1>7 DEF JettisonedParts, Keeps, Exits
  <2>2. h.code[f] # None \/ <<b, f>> \in p
    BY <2>1 DEF HeapInv, ExitControl
  <2>3. f \in Functions
    BY <1>0, <2>1, BlockTypes DEF Exits
  <2> QED
    BY <1>9, <2>2, <2>3
<1> QED
  BY <1>1, <1>4, <1>5, <1>6, <1>8, <1>9, <1>10 DEF HeapInv

\* A function has a free address while there is memory.
LEMMA FreshAddress ==
    ASSUME NEW h, HeapTypes(h), Cardinality(BlocksOf(h)) < MaxBlocks, NEW e \in Functions
    PROVE  \E n \in 1..MaxBlocks : <<e, n>> \notin BlocksOf(h)
<1>1. IsFiniteSet(1..MaxBlocks) /\ Cardinality(1..MaxBlocks) = MaxBlocks /\ MaxBlocks \in Nat
  <2>1. MaxBlocks \in Nat
    BY CodeAssumption
  <2> QED
    BY <2>1, FS_Interval
<1>2. IsFiniteSet(Blocks)
  BY <1>1, CodeAssumption, FS_Product DEF Blocks
<1>3. IsFiniteSet(BlocksOf(h))
  BY <1>2, FS_Subset DEF HeapTypes
<1> SUFFICES ASSUME \A n \in 1..MaxBlocks : <<e, n>> \in BlocksOf(h)
             PROVE  FALSE
  OBVIOUS
<1> DEFINE name == [n \in 1..MaxBlocks |-> <<e, n>>]
<1>4. name \in [1..MaxBlocks -> BlocksOf(h)]
  OBVIOUS
<1>5. \A m, n \in 1..MaxBlocks : name[m] = name[n] => m = n
  OBVIOUS
<1>6. name \in Injection(1..MaxBlocks, BlocksOf(h))
  BY <1>4, <1>5 DEF Injection, IsInjective
<1>7. Cardinality(1..MaxBlocks) <= Cardinality(BlocksOf(h))
  BY <1>3, <1>6, FS_Injection
<1>8. Cardinality(BlocksOf(h)) \in Nat
  BY <1>3, FS_CardinalityType
<1> QED
  BY <1>1, <1>7, <1>8

\* The parts of a heap with a new block b, which is the current code of its owner.
NewParts(g, h, b, block) ==
    /\ b \in Blocks /\ b \notin BlocksOf(h)
    /\ g.live = h.live /\ BlocksOf(g) = BlocksOf(h) \cup {b}
    /\ g.code[block.owner] = b
    /\ \A e \in Functions \ {block.owner} : g.code[e] = h.code[e]
    /\ \A c \in BlocksOf(h) : /\ Keeps(g, h, c) /\ Alternative(g, c) = Alternative(h, c)
                              /\ Jettisoned(g, c) = Jettisoned(h, c)
    /\ Owner(g, b) = block.owner /\ Tier(g, b) = block.tier /\ Weak(g, b) = block.weakReferences
    /\ Inlined(g, b) = block.inlined /\ Alternative(g, b) = block.alternative
    /\ Jettisoned(g, b) = block.isJettisoned

\* A block is created.
LEMMA NewBlockParts ==
    ASSUME NEW h, HeapTypes(h), Cardinality(BlocksOf(h)) < MaxBlocks, NEW block \in CodeBlock,
           NEW g, g = NewBlock(h, block)
    PROVE  /\ HeapTypes(g) /\ g.links = h.links
           /\ \E b \in Blocks : NewParts(g, h, b, block)
<1> DEFINE o == block.owner
           n == CHOOSE n \in 1..MaxBlocks : <<o, n>> \notin BlocksOf(h)
           b == <<o, n>>
           blocks == [c \in BlocksOf(h) \cup {b} |-> IF c = b THEN block ELSE h.blocks[c]]
           code == [h.code EXCEPT ![o] = b]
<1>1. o \in Functions
  BY DEF CodeBlock
<1>2. n \in 1..MaxBlocks /\ b \notin BlocksOf(h)
  BY <1>1, FreshAddress
<1>3. b \in Blocks
  <2> HIDE DEF n
  <2> QED
    BY <1>1, <1>2 DEF Blocks
<1>4. g = [h EXCEPT !.blocks = blocks, !.code = code]
  BY DEF NewBlock, HeapTypes
<1> HIDE DEF n, b
<1>5. DOMAIN blocks = BlocksOf(h) \cup {b} /\ blocks[b] = block
      /\ \A c \in BlocksOf(h) : blocks[c] = h.blocks[c]
  BY <1>2
<1>6. blocks = [c \in BlocksOf(h) \cup {b} |-> blocks[c]]
  OBVIOUS
<1>7. h.code \in [Functions -> Blocks \cup {None}]
  BY DEF HeapTypes
<1>8. code \in [Functions -> Blocks \cup {None}] /\ code[o] = b
      /\ \A e \in Functions \ {o} : code[e] = h.code[e]
  BY <1>1, <1>3, <1>7
<1> HIDE DEF blocks, code
<1>9. g = [live |-> h.live, code |-> code, blocks |-> blocks, links |-> h.links]
  BY <1>4 DEF HeapTypes
<1>10. g.live = h.live /\ g.code = code /\ g.blocks = blocks /\ g.links = h.links
  BY <1>9
<1>11. BlocksOf(g) = BlocksOf(h) \cup {b}
  BY <1>5, <1>10 DEF BlocksOf
<1>12. HeapTypes(g)
  <2>1. \A c \in BlocksOf(h) \cup {b} : blocks[c] \in CodeBlock
    BY <1>5 DEF HeapTypes
  <2>2. blocks \in [BlocksOf(h) \cup {b} -> CodeBlock]
    BY <1>6, <2>1
  <2> QED
    BY <1>3, <1>8, <1>9, <1>10, <1>11, <2>2 DEF HeapTypes
<1>13. NewParts(g, h, b, block)
  BY <1>2, <1>3, <1>5, <1>8, <1>10, <1>11
     DEF NewParts, Keeps, Owner, Tier, Alternative, Jettisoned, Weak, Inlined
<1> QED
  BY <1>3, <1>10, <1>12, <1>13

\* A new block takes the place of the current one and owns that as its alternative, if there was
\* one; the calls of that stay linked to it.
LEMMA NewBlockKeeps ==
    ASSUME NEW h, NEW p, NEW R, HeapInv(h, p, R), NEW g, HeapTypes(g), NEW b,
           NEW block \in CodeBlock, NewParts(g, h, b, block),
           g.links = h.links, block.owner \in h.live, block.alternative = h.code[block.owner], ~block.isJettisoned,
           block.weakReferences \subseteq h.live, block.inlined \subseteq h.live,
           \A f \in block.inlined : h.code[f] # None,
           block.tier = "Baseline" => block.alternative = None,
           block.tier # "Baseline" => /\ block.tier = "Compiling" /\ block.alternative # None
                                      /\ Tier(h, block.alternative) = "Baseline"
    PROVE  HeapInv(g, p, R)
<1> DEFINE o == block.owner
<1>0. HeapTypes(h) /\ CodeControl(h) /\ OwnerControl(h)
  BY DEF HeapInv
<1>1. o \in Functions /\ block.tier \in {"Baseline", "Compiling", "DFG"} /\ b # None
  BY Pointers DEF CodeBlock, NewParts
<1>2. \A c \in BlocksOf(h) : Owner(h, c) \in Functions /\ c # b
  BY <1>0, BlockTypes DEF NewParts
<1>3. block.alternative # None =>
        /\ block.alternative \in BlocksOf(h) /\ Tier(h, block.alternative) = "Baseline"
        /\ Owner(h, block.alternative) = o
  BY <1>0, <1>1 DEF CodeControl
<1>4. CodeControl(g)
  <2> SUFFICES ASSUME NEW e \in Functions, g.code[e] # None
               PROVE  /\ e \in g.live /\ g.code[e] \in BlocksOf(g)
                      /\ Owner(g, g.code[e]) = e /\ ~Jettisoned(g, g.code[e])
    BY DEF CodeControl
  <2>1. CASE e = o
    BY <2>1 DEF NewParts
  <2>2. CASE e # o
    <3>1. g.code[e] = h.code[e]
      BY <2>2 DEF NewParts
    <3> QED
      BY <1>0, <3>1 DEF CodeControl, NewParts, Keeps
  <2> QED
    BY <2>1, <2>2
<1>5. OwnerControl(g)
  <2> SUFFICES ASSUME NEW c \in BlocksOf(g)
      PROVE  /\ Tier(g, c) = "Baseline" => Alternative(g, c) = None /\ ~Jettisoned(g, c)
             /\ Jettisoned(g, c) => Alternative(g, c) = None
             /\ Tier(g, c) # "Baseline" /\ ~Jettisoned(g, c) => Alternative(g, c) # None
             /\ Alternative(g, c) # None =>
                  /\ Alternative(g, c) \in BlocksOf(g)
                  /\ Tier(g, Alternative(g, c)) = "Baseline"
                  /\ Owner(g, Alternative(g, c)) = Owner(g, c)
             /\ ~Jettisoned(g, c) =>
                  /\ g.code[Owner(g, c)] # None
                  /\ c = g.code[Owner(g, c)] \/ c = Alternative(g, g.code[Owner(g, c)])
    BY DEF OwnerControl
  <2>1. CASE c = b
    <3>1. /\ Tier(g, c) = block.tier /\ Alternative(g, c) = block.alternative /\ ~Jettisoned(g, c)
          /\ Owner(g, c) = o /\ g.code[o] = c /\ c # None
      BY <1>1, <2>1 DEF NewParts
    <3>2. block.alternative # None =>
            /\ block.alternative \in BlocksOf(g) /\ Tier(g, block.alternative) = "Baseline"
            /\ Owner(g, block.alternative) = o
      BY <1>3 DEF NewParts, Keeps
    <3> QED
      BY <1>1, <3>1, <3>2
  <2>2. CASE c # b
    <3>1. /\ c \in BlocksOf(h) /\ Tier(g, c) = Tier(h, c) /\ Owner(g, c) = Owner(h, c)
          /\ Alternative(g, c) = Alternative(h, c) /\ Jettisoned(g, c) = Jettisoned(h, c)
      BY <2>2 DEF NewParts, Keeps
    <3>2. /\ Tier(g, c) = "Baseline" => Alternative(g, c) = None /\ ~Jettisoned(g, c)
          /\ Jettisoned(g, c) => Alternative(g, c) = None
          /\ Tier(g, c) # "Baseline" /\ ~Jettisoned(g, c) => Alternative(g, c) # None
      BY <1>0, <3>1 DEF OwnerControl
    <3>3. Alternative(g, c) # None =>
            /\ Alternative(g, c) \in BlocksOf(h) /\ Tier(h, Alternative(g, c)) = "Baseline"
            /\ Owner(h, Alternative(g, c)) = Owner(g, c)
      BY <1>0, <3>1 DEF OwnerControl
    <3>4. Alternative(g, c) # None =>
            /\ Alternative(g, c) \in BlocksOf(g) /\ Tier(g, Alternative(g, c)) = "Baseline"
            /\ Owner(g, Alternative(g, c)) = Owner(g, c)
      BY <3>3 DEF NewParts, Keeps
    <3>5. ASSUME ~Jettisoned(g, c)
          PROVE  /\ g.code[Owner(g, c)] # None
                 /\ c = g.code[Owner(g, c)] \/ c = Alternative(g, g.code[Owner(g, c)])
      <4> DEFINE e == Owner(h, c)
      <4>1. e \in Functions /\ Owner(g, c) = e
        BY <1>2, <3>1
      <4>2. h.code[e] # None /\ (c = h.code[e] \/ c = Alternative(h, h.code[e]))
        BY <1>0, <3>1, <3>5 DEF OwnerControl
      <4>3. h.code[e] \in BlocksOf(h)
        BY <1>0, <4>1, <4>2 DEF CodeControl
      <4> HIDE DEF e
      <4>4. CASE e = o
        <5>1. block.alternative = h.code[e] /\ block.alternative # None
          BY <4>2, <4>4
        <5>2. Alternative(h, h.code[e]) = None
          BY <1>0, <1>3, <4>3, <5>1 DEF OwnerControl
        <5>3. c = block.alternative
          BY <1>0, <3>1, <4>2, <5>1, <5>2, Pointers DEF HeapTypes
        <5>4. g.code[e] = b /\ Alternative(g, b) = block.alternative
          BY <4>4 DEF NewParts
        <5> QED
          BY <1>1, <4>1, <5>3, <5>4
      <4>5. CASE e # o
        <5>1. g.code[e] = h.code[e]
          BY <4>1, <4>5 DEF NewParts
        <5> QED
          BY <4>1, <4>2, <4>3, <5>1 DEF NewParts
      <4> QED
        BY <4>4, <4>5
    <3> QED
      BY <3>2, <3>4, <3>5
  <2> QED
    BY <2>1, <2>2
<1>6. ReferenceControl(g)
  <2> SUFFICES ASSUME NEW c \in BlocksOf(g), Refers(g, c)
               PROVE  Owner(g, c) \in g.live /\ Weak(g, c) \subseteq g.live /\ Inlined(g, c) \subseteq g.live
    BY DEF ReferenceControl
  <2>1. CASE c = b
    BY <2>1 DEF NewParts
  <2>2. CASE c # b
    BY <2>2 DEF NewParts, Keeps, HeapInv, ReferenceControl, Refers
  <2> QED
    BY <2>1, <2>2
<1>7. FrameControl(g, R)
  BY DEF HeapInv, FrameControl, NewParts, Keeps
<1>8. \A c \in BlocksOf(h) : Runs(g, R, c) => Runs(h, R, c)
  BY DEF Runs, NewParts
<1>9. LinkControl(g, p, R)
  <2> SUFFICES ASSUME NEW l \in g.links, Runs(g, R, l.caller)
               PROVE  IF l.target = Freed THEN <<l.caller, l.callee>> \in p
                      ELSE l.callee \in g.live /\ l.target = JITCodeFor(g, l.callee)
    BY DEF LinkControl
  <2>1. l \in h.links
    OBVIOUS
  <2>2. Runs(h, R, l.caller) /\ l.callee \in Functions /\ l.target # None
    BY <1>0, <1>8, <2>1, LinkParts, Pointers DEF HeapTypes
  <2>3. IF l.target = Freed THEN <<l.caller, l.callee>> \in p
        ELSE l.callee \in h.live /\ l.target = JITCodeFor(h, l.callee)
    BY <2>1, <2>2 DEF HeapInv, LinkControl
  <2>4. CASE l.target # Freed
    <3> DEFINE e == l.callee
               c == h.code[e]
    <3>1. e \in Functions /\ e \in h.live /\ l.target = JITCodeFor(h, e)
      BY <2>2, <2>3, <2>4
    <3>2. c # None
      BY <2>2, <3>1, JITCode
    <3>3. c \in BlocksOf(h)
      BY <1>0, <3>1, <3>2 DEF CodeControl
    <3> HIDE DEF c, e
    <3>4. Tier(g, c) = Tier(h, c) /\ Alternative(g, c) = Alternative(h, c)
      BY <3>3 DEF NewParts, Keeps
    <3>5. CASE e # o
      <4>1. g.code[e] = c
        BY <3>1, <3>5 DEF NewParts, c
      <4>2. JITCodeFor(g, e) = JITCodeFor(h, e)
        BY <3>4, <4>1, JITCode DEF c
      <4> QED
        BY <2>4, <3>1, <4>2 DEF NewParts, e
    <3>6. CASE e = o
      <4>1. block.alternative = c /\ block.tier = "Compiling" /\ Tier(h, c) = "Baseline"
        BY <3>2, <3>6 DEF c
      <4>2. g.code[e] = b /\ Tier(g, b) = "Compiling" /\ Alternative(g, b) = c
        BY <3>6, <4>1 DEF NewParts
      <4>3. JITCodeFor(g, e) = c /\ JITCodeFor(h, e) = c
        BY <1>1, <4>1, <4>2, JITCode DEF c
      <4> QED
        BY <2>4, <3>1, <4>3 DEF NewParts, e
    <3> QED
      BY <3>5, <3>6
  <2> QED
    BY <2>3, <2>4
<1>10. ExitControl(g, p, R)
  <2> SUFFICES ASSUME NEW c \in BlocksOf(g), Tier(g, c) # "Baseline", Runs(g, R, c), NEW f \in Exits(g, c)
               PROVE  g.code[f] # None \/ <<c, f>> \in p
    BY DEF ExitControl
  <2>1. f \in Functions
    BY BlockTypes DEF Exits
  <2>2. f = o \/ h.code[f] # None \/ <<c, f>> \in p
    <3>1. CASE c = b
      BY <3>1 DEF NewParts, Exits
    <3>2. CASE c # b
      BY <1>8, <3>2 DEF NewParts, Keeps, HeapInv, ExitControl, Exits
    <3> QED
      BY <3>1, <3>2
  <2>3. CASE f = o
    BY <1>1, <2>3 DEF NewParts
  <2>4. CASE f # o
    BY <2>1, <2>2, <2>4 DEF NewParts
  <2> QED
    BY <2>3, <2>4
<1> QED
  BY <1>4, <1>5, <1>6, <1>7, <1>9, <1>10 DEF HeapInv

\* A first compilation.
LEMMA CompileForKeeps ==
    ASSUME NEW h, NEW p, NEW R, HeapInv(h, p, R), NEW e \in h.live, NEW g, g = CompileFor(h, e),
           h.code[e] = None => Cardinality(BlocksOf(h)) < MaxBlocks
    PROVE  /\ HeapInv(g, p, R) /\ g.live = h.live /\ g.code[e] # None
           /\ BlocksOf(h) \subseteq BlocksOf(g)
<1>0. HeapTypes(h) /\ e \in Functions
  BY DEF HeapInv, HeapTypes
<1>1. CASE h.code[e] # None
  BY <1>1 DEF CompileFor
<1>2. CASE h.code[e] = None
  <2> DEFINE block == [owner |-> e, tier |-> "Baseline", alternative |-> None,
                       isJettisoned |-> FALSE, weakReferences |-> {}, inlined |-> {}]
  <2>1. block \in CodeBlock
    BY <1>0 DEF CodeBlock
  <2>2. /\ block.owner = e /\ block.tier = "Baseline" /\ block.alternative = None
        /\ block.isJettisoned = FALSE /\ block.weakReferences = {} /\ block.inlined = {}
    OBVIOUS
  <2>3. g = NewBlock(h, block)
    BY <1>2 DEF CompileFor
  <2> HIDE DEF block
  <2>4. HeapTypes(g) /\ g.links = h.links /\ \E b \in Blocks : NewParts(g, h, b, block)
    BY <1>0, <1>2, <2>1, <2>3, NewBlockParts
  <2>5. PICK b \in Blocks : NewParts(g, h, b, block)
    BY <2>4
  <2>7. HeapInv(g, p, R)
    BY <1>2, <2>1, <2>2, <2>4, <2>5, NewBlockKeeps
  <2> QED
    BY <2>2, <2>5, <2>7, Pointers DEF NewParts
<1> QED
  BY <1>1, <1>2

\* The begin of a tier-up.
LEMMA CompileKeeps ==
    ASSUME NEW h, NEW p, NEW R, HeapInv(h, p, R), Cardinality(BlocksOf(h)) < MaxBlocks,
           NEW block \in CodeBlock, NEW g, g = NewBlock(h, block),
           block.owner \in h.live, block.alternative = h.code[block.owner], ~block.isJettisoned,
           block.weakReferences \subseteq h.live, block.inlined \subseteq h.live,
           \A f \in block.inlined : h.code[f] # None, block.tier = "Compiling",
           block.alternative # None, Tier(h, block.alternative) = "Baseline"
    PROVE  HeapInv(g, p, R)
<1>1. HeapTypes(h)
  BY DEF HeapInv
<1>2. HeapTypes(g) /\ g.links = h.links /\ \E b \in Blocks : NewParts(g, h, b, block)
  BY <1>1, NewBlockParts
<1>3. PICK b \in Blocks : NewParts(g, h, b, block)
  BY <1>2
<1> QED
  BY <1>2, <1>3, NewBlockKeeps

\* The parts of a heap in which the code of the block b was linked.
InstalledParts(g, h, b) ==
    /\ g.live = h.live /\ g.code = h.code /\ BlocksOf(g) = BlocksOf(h) /\ Tier(g, b) = "DFG"
    /\ \A c \in BlocksOf(h) : /\ Owner(g, c) = Owner(h, c) /\ (c # b => Tier(g, c) = Tier(h, c))
                              /\ Weak(g, c) = Weak(h, c) /\ Inlined(g, c) = Inlined(h, c)
                              /\ Alternative(g, c) = Alternative(h, c)
                              /\ Jettisoned(g, c) = Jettisoned(h, c)
    /\ \A l \in g.links : l \in h.links /\ l.target # Alternative(h, b)

\* setJITCode leaves a heap with these parts.
LEMMA InstallAccess ==
    ASSUME NEW h, HeapTypes(h), NEW b \in BlocksOf(h), NEW g, g = Install(h, b)
    PROVE  HeapTypes(g) /\ InstalledParts(g, h, b)
<1> DEFINE X == {l \in h.links : l.target \notin {h.blocks[b].alternative}}
           u == UnlinkIncomingCalls(h, {h.blocks[b].alternative})
           block == [h.blocks[b] EXCEPT !.tier = "DFG"]
           blocks == [h.blocks EXCEPT ![b] = block]
<1>1. u = [h EXCEPT !.links = X]
  BY DEF UnlinkIncomingCalls
<1>2. (\A l \in X : l \in LinkTypes /\ l.caller \in BlocksOf(h))
      /\ \A l \in X : l \in h.links /\ l.target # Alternative(h, b)
  BY DEF HeapTypes, Alternative
<1> HIDE DEF X, u
<1>3. HeapTypes(u) /\ u.live = h.live /\ u.code = h.code /\ u.links = X /\ u.blocks = h.blocks
  <2>1. \A l \in X : l \in LinkTypes /\ l.caller \in BlocksOf(h)
    BY <1>2
  <2> QED
    BY <1>1, <2>1, LinksReplaced
<1>4. g = [u EXCEPT !.blocks[b].tier = "DFG"]
  BY DEF Install, u
<1>5. g = [u EXCEPT !.blocks = blocks]
  BY <1>3, <1>4
<1>6. h.blocks \in [BlocksOf(h) -> CodeBlock] /\ h.blocks[b] \in CodeBlock
  BY DEF HeapTypes
<1>7. /\ block \in CodeBlock /\ block.tier = "DFG" /\ block.owner = h.blocks[b].owner
      /\ block.alternative = h.blocks[b].alternative /\ block.isJettisoned = h.blocks[b].isJettisoned
      /\ block.weakReferences = h.blocks[b].weakReferences /\ block.inlined = h.blocks[b].inlined
  BY <1>6 DEF CodeBlock
<1> HIDE DEF block
<1>8. /\ blocks \in [BlocksOf(h) -> CodeBlock] /\ blocks[b] = block
      /\ \A c \in BlocksOf(h) : c # b => blocks[c] = h.blocks[c]
  BY <1>6, <1>7
<1>9. DOMAIN blocks = BlocksOf(h)
  BY <1>8
<1> HIDE DEF blocks
<1>10. g = [live |-> h.live, code |-> h.code, blocks |-> blocks, links |-> X]
  BY <1>3, <1>5 DEF HeapTypes
<1>11. g.live = h.live /\ g.code = h.code /\ g.blocks = blocks /\ g.links = X
  BY <1>10
<1>12. BlocksOf(g) = BlocksOf(h)
  BY <1>9, <1>11 DEF BlocksOf
<1>13. HeapTypes(g)
  BY <1>2, <1>8, <1>10, <1>11, <1>12 DEF HeapTypes
<1>14. \A c \in BlocksOf(h) : /\ Owner(g, c) = Owner(h, c) /\ (c # b => Tier(g, c) = Tier(h, c))
                              /\ Weak(g, c) = Weak(h, c) /\ Inlined(g, c) = Inlined(h, c)
                              /\ Alternative(g, c) = Alternative(h, c)
                              /\ Jettisoned(g, c) = Jettisoned(h, c)
  BY <1>7, <1>8, <1>11 DEF Owner, Tier, Alternative, Jettisoned, Weak, Inlined
<1>15. Tier(g, b) = "DFG"
  BY <1>7, <1>8, <1>11 DEF Tier
<1> QED
  BY <1>2, <1>11, <1>12, <1>13, <1>14, <1>15 DEF InstalledParts

\* The end of a tier-up, of the current block of a function.
LEMMA InstallKeeps ==
    ASSUME NEW h, NEW p, NEW R, HeapInv(h, p, R), NEW o \in Functions, NEW b, b = h.code[o],
           b # None, Tier(h, b) = "Compiling", NEW g, g = Install(h, b)
    PROVE  HeapInv(g, p, R)
<1>0. HeapTypes(h) /\ CodeControl(h) /\ OwnerControl(h)
  BY DEF HeapInv
<1>1. b \in BlocksOf(h) /\ Owner(h, b) = o /\ ~Jettisoned(h, b)
  BY <1>0 DEF CodeControl
<1>2. HeapTypes(g) /\ InstalledParts(g, h, b)
  BY <1>0, <1>1, InstallAccess
<1>3. \A c \in BlocksOf(h) : Tier(g, c) = "Baseline" <=> Tier(h, c) = "Baseline"
  BY <1>2 DEF InstalledParts
<1>4. CodeControl(g)
  BY <1>0, <1>2 DEF CodeControl, InstalledParts
<1>5. OwnerControl(g)
  <2>1. \A e \in Functions : h.code[e] # None => h.code[e] \in BlocksOf(h)
    BY <1>0 DEF CodeControl
  <2>2. \A c \in BlocksOf(h) : Owner(h, c) \in Functions
    BY <1>0, BlockTypes
  <2> SUFFICES ASSUME NEW c \in BlocksOf(h)
      PROVE  /\ Tier(g, c) = "Baseline" => Alternative(g, c) = None /\ ~Jettisoned(g, c)
             /\ Jettisoned(g, c) => Alternative(g, c) = None
             /\ Tier(g, c) # "Baseline" /\ ~Jettisoned(g, c) => Alternative(g, c) # None
             /\ Alternative(g, c) # None =>
                  /\ Alternative(g, c) \in BlocksOf(g)
                  /\ Tier(g, Alternative(g, c)) = "Baseline"
                  /\ Owner(g, Alternative(g, c)) = Owner(g, c)
             /\ ~Jettisoned(g, c) =>
                  /\ g.code[Owner(g, c)] # None
                  /\ c = g.code[Owner(g, c)] \/ c = Alternative(g, g.code[Owner(g, c)])
    BY <1>2 DEF OwnerControl, InstalledParts
  <2>3. /\ Owner(g, c) = Owner(h, c) /\ Alternative(g, c) = Alternative(h, c)
        /\ Jettisoned(g, c) = Jettisoned(h, c) /\ (Tier(g, c) = "Baseline" <=> Tier(h, c) = "Baseline")
    BY <1>2, <1>3 DEF InstalledParts
  <2>4. /\ Tier(h, c) = "Baseline" => Alternative(h, c) = None /\ ~Jettisoned(h, c)
        /\ Jettisoned(h, c) => Alternative(h, c) = None
        /\ Tier(h, c) # "Baseline" /\ ~Jettisoned(h, c) => Alternative(h, c) # None
    BY <1>0 DEF OwnerControl
  <2>5. Alternative(h, c) # None =>
          /\ Alternative(h, c) \in BlocksOf(h) /\ Tier(h, Alternative(h, c)) = "Baseline"
          /\ Owner(h, Alternative(h, c)) = Owner(h, c)
    BY <1>0 DEF OwnerControl
  <2>6. Alternative(g, c) # None =>
          /\ Alternative(g, c) \in BlocksOf(g) /\ Tier(g, Alternative(g, c)) = "Baseline"
          /\ Owner(g, Alternative(g, c)) = Owner(g, c)
    BY <1>2, <1>3, <2>3, <2>5 DEF InstalledParts
  <2>7. ~Jettisoned(h, c) =>
          /\ h.code[Owner(h, c)] # None
          /\ c = h.code[Owner(h, c)] \/ c = Alternative(h, h.code[Owner(h, c)])
    BY <1>0 DEF OwnerControl
  <2>8. ~Jettisoned(g, c) =>
          /\ g.code[Owner(g, c)] # None
          /\ c = g.code[Owner(g, c)] \/ c = Alternative(g, g.code[Owner(g, c)])
    BY <1>2, <2>1, <2>2, <2>3, <2>7 DEF InstalledParts
  <2> QED
    BY <2>3, <2>4, <2>6, <2>8
<1>6. ReferenceControl(g)
  <2> SUFFICES ASSUME NEW c \in BlocksOf(h), Refers(g, c)
               PROVE  Owner(g, c) \in g.live /\ Weak(g, c) \subseteq g.live /\ Inlined(g, c) \subseteq g.live
    BY <1>2 DEF ReferenceControl, InstalledParts
  <2>1. Refers(h, c)
    BY <1>1, <1>2 DEF Refers, InstalledParts
  <2> QED
    BY <1>2, <2>1 DEF HeapInv, ReferenceControl, InstalledParts
<1>7. FrameControl(g, R)
  BY <1>2 DEF HeapInv, FrameControl, InstalledParts
<1>8. \A c : Runs(g, R, c) => Runs(h, R, c)
  BY <1>2 DEF Runs, InstalledParts
<1>9. LinkControl(g, p, R)
  <2> SUFFICES ASSUME NEW l \in g.links, Runs(g, R, l.caller)
               PROVE  IF l.target = Freed THEN <<l.caller, l.callee>> \in p
                      ELSE l.callee \in g.live /\ l.target = JITCodeFor(g, l.callee)
    BY DEF LinkControl
  <2>1. l \in h.links /\ l.target # Alternative(h, b) /\ Runs(h, R, l.caller)
    BY <1>2, <1>8 DEF InstalledParts
  <2>2. IF l.target = Freed THEN <<l.caller, l.callee>> \in p
        ELSE l.callee \in h.live /\ l.target = JITCodeFor(h, l.callee)
    BY <2>1 DEF HeapInv, LinkControl
  <2>3. l.callee \in Functions /\ l.target # None
    BY <1>0, <2>1, LinkParts, Pointers DEF HeapTypes
  <2>4. CASE l.target # Freed
    <3> DEFINE e == l.callee
               c == h.code[e]
    <3>1. e \in Functions /\ e \in g.live /\ l.target = JITCodeFor(h, e)
      BY <1>2, <2>2, <2>3, <2>4 DEF InstalledParts
    <3>2. c # None
      BY <2>3, <3>1, JITCode
    <3>3. c \in BlocksOf(h) /\ g.code[e] = c
      BY <1>0, <1>2, <3>1, <3>2 DEF CodeControl, InstalledParts
    <3> HIDE DEF c, e
    <3>4. c # b
      BY <2>1, <3>1, <3>2, JITCode DEF c
    <3>5. JITCodeFor(g, e) = JITCodeFor(h, e)
      BY <1>2, <3>3, <3>4, JITCode DEF InstalledParts, c
    <3> QED
      BY <2>4, <3>1, <3>5 DEF e
  <2> QED
    BY <2>2, <2>4
<1>10. ExitControl(g, p, R)
  BY <1>2, <1>3, <1>8 DEF HeapInv, ExitControl, Exits, InstalledParts
<1> QED
  BY <1>2, <1>4, <1>5, <1>6, <1>7, <1>9, <1>10 DEF HeapInv

\* A call is linked to the code of its callee.
LEMMA LinkKeeps ==
    ASSUME NEW h, NEW p, NEW R, HeapInv(h, p, R), NEW l \in LinkTypes, l.caller \in BlocksOf(h),
           l.callee \in h.live, l.target = JITCodeFor(h, l.callee),
           l.target # Freed,
           NEW g, g = [h EXCEPT !.links = @ \cup {l}]
    PROVE  HeapInv(g, p, R) /\ g.live = h.live /\ g.code = h.code /\ g.blocks = h.blocks
<1>1. HeapTypes(h)
  BY DEF HeapInv
<1>2. \A k \in h.links \cup {l} : k \in LinkTypes /\ k.caller \in BlocksOf(h)
  BY <1>1 DEF HeapTypes
<1>3. g = [h EXCEPT !.links = h.links \cup {l}]
  BY <1>1 DEF HeapTypes
<1>4. /\ HeapTypes(g) /\ g.live = h.live /\ g.code = h.code /\ g.links = h.links \cup {l}
      /\ g.blocks = h.blocks /\ BlocksOf(g) = BlocksOf(h)
  <2>1. /\ HeapTypes(g) /\ g.live = h.live /\ g.code = h.code /\ g.links = h.links \cup {l}
        /\ g.blocks = h.blocks
    BY <1>1, <1>2, <1>3, LinksReplaced
  <2> QED
    BY <2>1 DEF BlocksOf
<1>5. CodeControl(g) /\ OwnerControl(g) /\ ReferenceControl(g) /\ FrameControl(g, R) /\ ExitControl(g, p, R)
  <2>1. CodeControl(h) /\ OwnerControl(h) /\ ReferenceControl(h) /\ FrameControl(h, R) /\ ExitControl(h, p, R)
    BY DEF HeapInv
  <2>2. CodeControl(g) /\ ReferenceControl(g) /\ FrameControl(g, R)
    <3>1. \A b : /\ Owner(g, b) = Owner(h, b) /\ Tier(g, b) = Tier(h, b) /\ Jettisoned(g, b) = Jettisoned(h, b)
                 /\ Weak(g, b) = Weak(h, b) /\ Inlined(g, b) = Inlined(h, b)
      BY <1>4 DEF Owner, Tier, Jettisoned, Weak, Inlined
    <3> QED
      BY <1>4, <2>1, <3>1 DEF CodeControl, ReferenceControl, Refers, FrameControl
  <2>3. OwnerControl(g)
    <3>1. \A b : /\ Owner(g, b) = Owner(h, b) /\ Tier(g, b) = Tier(h, b)
                 /\ Alternative(g, b) = Alternative(h, b) /\ Jettisoned(g, b) = Jettisoned(h, b)
      BY <1>4 DEF Owner, Tier, Alternative, Jettisoned
    <3> QED
      BY <1>4, <2>1, <3>1 DEF OwnerControl
  <2>4. ExitControl(g, p, R)
    BY <1>4, <2>1 DEF ExitControl, Exits, Runs, Owner, Tier, Jettisoned, Inlined
  <2> QED
    BY <2>2, <2>3, <2>4
<1>6. LinkControl(g, p, R)
  <2> SUFFICES ASSUME NEW k \in g.links, Runs(g, R, k.caller)
               PROVE  IF k.target = Freed THEN <<k.caller, k.callee>> \in p
                      ELSE k.callee \in g.live /\ k.target = JITCodeFor(g, k.callee)
    BY DEF LinkControl
  <2>0. \A e : JITCodeFor(g, e) = JITCodeFor(h, e)
    BY <1>4 DEF JITCodeFor
  <2>1. CASE k = l
    BY <1>4, <2>0, <2>1
  <2>2. CASE k # l
    <3>1. k \in h.links /\ Runs(h, R, k.caller)
      BY <1>4, <2>2 DEF Runs, Jettisoned
    <3> QED
      BY <1>4, <2>0, <3>1 DEF HeapInv, LinkControl
  <2> QED
    BY <2>1, <2>2
<1> QED
  BY <1>4, <1>5, <1>6 DEF HeapInv

-----------------------------------------------------------------------------
(***************************************************************************)
(* The release of code.                                                    *)
(***************************************************************************)
\* A function owns its code and the alternative of that: all its blocks that were not jettisoned.
LEMMA CodeOfFunction ==
    ASSUME NEW h, HeapTypes(h), CodeControl(h), OwnerControl(h), NEW e \in Functions, NEW b
    PROVE  b \in WithAlternative(h, h.code[e])
             <=> b \in BlocksOf(h) /\ ~Jettisoned(h, b) /\ Owner(h, b) = e
<1> DEFINE c == h.code[e]
<1>1. b \in WithAlternative(h, c) <=> c # None /\ (b = c \/ (b = Alternative(h, c) /\ b # None))
  BY DEF WithAlternative, Alternative
<1>2. c # None => c \in BlocksOf(h) /\ Owner(h, c) = e /\ ~Jettisoned(h, c)
  BY DEF CodeControl
<1>3. ASSUME c # None, b = Alternative(h, c), b # None
      PROVE  b \in BlocksOf(h) /\ ~Jettisoned(h, b) /\ Owner(h, b) = e
  <2>1. b \in BlocksOf(h) /\ Tier(h, b) = "Baseline" /\ Owner(h, b) = e
    BY <1>2, <1>3 DEF OwnerControl
  <2> QED
    BY <2>1 DEF OwnerControl
<1>4. ASSUME b \in BlocksOf(h), ~Jettisoned(h, b), Owner(h, b) = e
      PROVE  c # None /\ (b = c \/ (b = Alternative(h, c) /\ b # None))
  BY <1>4, Pointers DEF OwnerControl, HeapTypes
<1> QED
  BY <1>1, <1>2, <1>3, <1>4

\* The blocks that clearCode deletes.
Released(h, es, b) == b \in BlocksOf(h) /\ ~Jettisoned(h, b) /\ Owner(h, b) \in es

\* The parts of a heap after clearCode.
ClearedParts(g, h, es) ==
    /\ g.live = h.live
    /\ \A e \in Functions : g.code[e] = IF e \in es THEN None ELSE h.code[e]
    /\ \A b : b \in BlocksOf(g) <=> b \in BlocksOf(h) /\ ~Released(h, es, b)
    /\ \A b \in BlocksOf(g) : /\ Keeps(g, h, b) /\ Alternative(g, b) = Alternative(h, b)
                              /\ Jettisoned(g, b) = Jettisoned(h, b)
    /\ \A k \in g.links : \E l \in h.links :
         /\ k.caller = l.caller /\ k.callee = l.callee
         /\ k.target = IF Released(h, es, l.target) THEN Freed ELSE l.target

\* clearCode leaves a heap with these parts.
LEMMA ClearCodeParts ==
    ASSUME NEW h, HeapTypes(h), CodeControl(h), OwnerControl(h), NEW es \in SUBSET Functions,
           NEW g, g = ClearCode(h, es)
    PROVE  HeapTypes(g) /\ ClearedParts(g, h, es)
<1> DEFINE D == UNION {WithAlternative(h, h.code[e]) : e \in es}
           d == Delete(h, D)
           code == [e \in Functions |-> IF e \in es THEN None ELSE d.code[e]]
<1>1. g = [d EXCEPT !.code = code]
  BY DEF ClearCode
<1>2. \A b : b \in D <=> Released(h, es, b)
  <2> TAKE b
  <2>1. b \in D <=> \E e \in es : b \in WithAlternative(h, h.code[e])
    OBVIOUS
  <2>2. \A e \in es : b \in WithAlternative(h, h.code[e])
                      <=> b \in BlocksOf(h) /\ ~Jettisoned(h, b) /\ Owner(h, b) = e
    BY CodeOfFunction
  <2> QED
    BY <2>1, <2>2 DEF Released
<1> HIDE DEF D
<1>3. /\ HeapTypes(d) /\ d.live = h.live /\ d.code = h.code
      /\ BlocksOf(d) = BlocksOf(h) \ D
      /\ \A b \in BlocksOf(d) :
           /\ Owner(d, b) = Owner(h, b) /\ Tier(d, b) = Tier(h, b)
           /\ Alternative(d, b) = Alternative(h, b) /\ Jettisoned(d, b) = Jettisoned(h, b)
           /\ Weak(d, b) = Weak(h, b) /\ Inlined(d, b) = Inlined(h, b)
      /\ \A k \in d.links : \E l \in h.links :
           /\ k.caller = l.caller /\ k.callee = l.callee
           /\ k.target = IF l.target \in D THEN Freed ELSE l.target
  <2> HIDE DEF d
  <2>1. HeapTypes(d) /\ DeletedParts(d, h, D)
    BY DeleteParts DEF d
  <2> QED
    BY <2>1 DEF DeletedParts
<1> HIDE DEF d
<1>4. g = [live |-> d.live, code |-> code, blocks |-> d.blocks, links |-> d.links]
  BY <1>1, <1>3 DEF HeapTypes
<1>5. code \in [Functions -> Blocks \cup {None}]
  BY <1>3 DEF HeapTypes
<1>6. \A e \in Functions : code[e] = IF e \in es THEN None ELSE h.code[e]
  BY <1>3
<1> HIDE DEF code
<1>7. g.live = d.live /\ g.code = code /\ g.blocks = d.blocks /\ g.links = d.links
  BY <1>4
<1>8. BlocksOf(g) = BlocksOf(d)
  BY <1>7 DEF BlocksOf
<1>9. HeapTypes(g)
  BY <1>3, <1>4, <1>5, <1>7, <1>8 DEF HeapTypes
<1>10. \A b \in BlocksOf(g) : /\ Keeps(g, h, b) /\ Alternative(g, b) = Alternative(h, b)
                              /\ Jettisoned(g, b) = Jettisoned(h, b)
  <2>1. \A b \in BlocksOf(g) : /\ Owner(g, b) = Owner(d, b) /\ Tier(g, b) = Tier(d, b)
                               /\ Alternative(g, b) = Alternative(d, b) /\ Jettisoned(g, b) = Jettisoned(d, b)
                               /\ Weak(g, b) = Weak(d, b) /\ Inlined(g, b) = Inlined(d, b)
    BY <1>7 DEF Owner, Tier, Alternative, Jettisoned, Weak, Inlined
  <2> QED
    BY <1>3, <1>8, <2>1 DEF Keeps
<1>11. ASSUME NEW k \in g.links
       PROVE  \E l \in h.links : /\ k.caller = l.caller /\ k.callee = l.callee
                                 /\ k.target = IF Released(h, es, l.target) THEN Freed ELSE l.target
  <2>1. PICK l \in h.links : /\ k.caller = l.caller /\ k.callee = l.callee
                             /\ k.target = IF l.target \in D THEN Freed ELSE l.target
    BY <1>3, <1>7
  <2> QED
    BY <1>2, <2>1
<1>12. \A b : b \in BlocksOf(g) <=> b \in BlocksOf(h) /\ ~Released(h, es, b)
  BY <1>2, <1>3, <1>8
<1> QED
  BY <1>3, <1>6, <1>7, <1>9, <1>10, <1>11, <1>12 DEF ClearedParts

\* The code of functions may be cleared: what still calls or inlines them has been forgotten,
\* and no frame Q is left in code that is gone.
LEMMA ClearCodeKeeps ==
    ASSUME NEW h, NEW p, NEW R, HeapInv(h, p, R), NEW es \in SUBSET Functions, NEW g, g = ClearCode(h, es),
           NEW Q, \A r \in Q : \/ r \in R /\ ~Released(h, es, r.block)
                               \/ r \in FrameTypes /\ r.cell \in h.live /\ r.block = Freed,
           NEW q, p \subseteq q,
           \A l \in h.links : Runs(g, Q, l.caller) /\ l.callee \in es /\ h.code[l.callee] # None
             => <<l.caller, l.callee>> \in q,
           \A b \in BlocksOf(h) : Tier(h, b) # "Baseline" /\ Runs(g, Q, b) =>
             \A f \in Exits(h, b) \cap es : h.code[f] # None => <<b, f>> \in q
    PROVE  HeapInv(g, q, Q) /\ ClearedParts(g, h, es)
<1>0. HeapTypes(h) /\ CodeControl(h) /\ OwnerControl(h)
  BY DEF HeapInv
<1>1. HeapTypes(g) /\ ClearedParts(g, h, es)
  BY <1>0, ClearCodeParts
<1>2. \A b \in BlocksOf(h) : Owner(h, b) \in Functions
  BY <1>0, BlockTypes
<1>3. \A b \in BlocksOf(h) : ~Jettisoned(h, b) /\ Owner(h, b) \notin es => b \in BlocksOf(g)
  BY <1>1 DEF ClearedParts, Released
<1>4. CodeControl(g)
  <2> SUFFICES ASSUME NEW e \in Functions, g.code[e] # None
               PROVE  /\ e \in g.live /\ g.code[e] \in BlocksOf(g)
                      /\ Owner(g, g.code[e]) = e /\ ~Jettisoned(g, g.code[e])
    BY DEF CodeControl
  <2>1. e \notin es /\ g.code[e] = h.code[e]
    BY <1>1 DEF ClearedParts
  <2>2. /\ e \in h.live /\ h.code[e] \in BlocksOf(h)
        /\ Owner(h, h.code[e]) = e /\ ~Jettisoned(h, h.code[e])
    BY <1>0, <2>1 DEF CodeControl
  <2> QED
    BY <1>1, <1>3, <2>1, <2>2 DEF ClearedParts, Keeps
<1>5. OwnerControl(g)
  <2> SUFFICES ASSUME NEW b \in BlocksOf(g)
      PROVE  /\ Tier(g, b) = "Baseline" => Alternative(g, b) = None /\ ~Jettisoned(g, b)
             /\ Jettisoned(g, b) => Alternative(g, b) = None
             /\ Tier(g, b) # "Baseline" /\ ~Jettisoned(g, b) => Alternative(g, b) # None
             /\ Alternative(g, b) # None =>
                  /\ Alternative(g, b) \in BlocksOf(g)
                  /\ Tier(g, Alternative(g, b)) = "Baseline"
                  /\ Owner(g, Alternative(g, b)) = Owner(g, b)
             /\ ~Jettisoned(g, b) =>
                  /\ g.code[Owner(g, b)] # None
                  /\ b = g.code[Owner(g, b)] \/ b = Alternative(g, g.code[Owner(g, b)])
    BY DEF OwnerControl
  <2>1. /\ b \in BlocksOf(h) /\ (~Jettisoned(h, b) => Owner(h, b) \notin es)
        /\ Owner(g, b) = Owner(h, b) /\ Tier(g, b) = Tier(h, b)
        /\ Alternative(g, b) = Alternative(h, b) /\ Jettisoned(g, b) = Jettisoned(h, b)
    BY <1>1 DEF ClearedParts, Keeps, Released
  <2>2. /\ Tier(g, b) = "Baseline" => Alternative(g, b) = None /\ ~Jettisoned(g, b)
        /\ Jettisoned(g, b) => Alternative(g, b) = None
        /\ Tier(g, b) # "Baseline" /\ ~Jettisoned(g, b) => Alternative(g, b) # None
    BY <1>0, <2>1 DEF OwnerControl
  <2>3. ASSUME Alternative(g, b) # None
        PROVE  /\ Alternative(g, b) \in BlocksOf(g)
               /\ Tier(g, Alternative(g, b)) = "Baseline"
               /\ Owner(g, Alternative(g, b)) = Owner(g, b)
    <3> DEFINE a == Alternative(h, b)
    <3>1. a \in BlocksOf(h) /\ Tier(h, a) = "Baseline" /\ Owner(h, a) = Owner(h, b) /\ ~Jettisoned(h, b)
      BY <1>0, <2>1, <2>3 DEF OwnerControl
    <3>2. ~Jettisoned(h, a)
      BY <1>0, <3>1 DEF OwnerControl
    <3> HIDE DEF a
    <3>3. a \in BlocksOf(g)
      BY <1>3, <2>1, <3>1, <3>2
    <3> QED
      BY <1>1, <2>1, <3>1, <3>3 DEF ClearedParts, Keeps, a
  <2>4. ASSUME ~Jettisoned(g, b)
        PROVE  /\ g.code[Owner(g, b)] # None
               /\ b = g.code[Owner(g, b)] \/ b = Alternative(g, g.code[Owner(g, b)])
    <3> DEFINE e == Owner(h, b)
    <3>1. e \in Functions /\ e \notin es /\ Owner(g, b) = e /\ ~Jettisoned(h, b)
      BY <1>2, <2>1, <2>4
    <3>2. h.code[e] # None /\ (b = h.code[e] \/ b = Alternative(h, h.code[e]))
      BY <1>0, <2>1, <3>1 DEF OwnerControl
    <3> HIDE DEF e
    <3>3. g.code[e] = h.code[e]
      BY <1>1, <3>1 DEF ClearedParts
    <3>4. g.code[e] \in BlocksOf(g)
      BY <1>4, <3>1, <3>2, <3>3 DEF CodeControl
    <3> QED
      BY <1>1, <3>1, <3>2, <3>3, <3>4 DEF ClearedParts
  <2> QED
    BY <2>2, <2>3, <2>4
<1>6. ReferenceControl(g)
  BY <1>1 DEF HeapInv, ReferenceControl, Refers, ClearedParts, Keeps
<1>7. FrameControl(g, Q)
  <2> SUFFICES ASSUME NEW r \in Q
               PROVE  /\ r \in FrameTypes /\ r.cell \in g.live
                      /\ r.block # Freed => /\ r.block \in BlocksOf(g) /\ Owner(g, r.block) = r.cell
                                            /\ Tier(g, r.block) # "Compiling"
    BY DEF FrameControl
  <2>1. CASE r \in FrameTypes /\ r.cell \in h.live /\ r.block = Freed
    BY <1>1, <2>1 DEF ClearedParts
  <2>2. CASE r \in R /\ ~Released(h, es, r.block)
    <3>1. /\ r \in FrameTypes /\ r.cell \in h.live
          /\ r.block # Freed => /\ r.block \in BlocksOf(h) /\ Owner(h, r.block) = r.cell
                                /\ Tier(h, r.block) # "Compiling"
      BY <2>2 DEF HeapInv, FrameControl
    <3> QED
      BY <1>1, <2>2, <3>1 DEF ClearedParts, Keeps
  <2> QED
    BY <2>1, <2>2
<1>8. \A b : Runs(g, Q, b) => Runs(h, R, b)
  <2>1. Freed \notin BlocksOf(h)
    BY <1>0, Pointers DEF HeapTypes
  <2> QED
    BY <1>1, <2>1 DEF Runs, ClearedParts
<1>9. LinkControl(g, q, Q)
  <2> SUFFICES ASSUME NEW k \in g.links, Runs(g, Q, k.caller)
               PROVE  IF k.target = Freed THEN <<k.caller, k.callee>> \in q
                      ELSE k.callee \in g.live /\ k.target = JITCodeFor(g, k.callee)
    BY DEF LinkControl
  <2>1. PICK l \in h.links : /\ k.caller = l.caller /\ k.callee = l.callee
                             /\ k.target = IF Released(h, es, l.target) THEN Freed ELSE l.target
    BY <1>1 DEF ClearedParts
  <2>2. Runs(h, R, l.caller) /\ l.callee \in Functions /\ l.target \in Blocks \cup {Freed}
    BY <1>0, <1>8, <2>1, LinkParts DEF HeapTypes
  <2>3. IF l.target = Freed THEN <<l.caller, l.callee>> \in p
        ELSE l.callee \in h.live /\ l.target = JITCodeFor(h, l.callee)
    BY <2>2 DEF HeapInv, LinkControl
  <2>4. CASE l.target = Freed
    <3>1. ~Released(h, es, Freed)
      BY <1>0, Pointers DEF Released, HeapTypes
    <3> QED
      BY <2>1, <2>3, <2>4, <3>1
  <2>5. CASE l.target # Freed
    <3>1. l.callee \in h.live /\ l.target = JITCodeFor(h, l.callee) /\ l.target # None
      BY <2>2, <2>3, <2>5, Pointers
    <3>2. h.code[l.callee] # None
      BY <3>1, JITCode
    <3>3. l.target \in BlocksOf(h) /\ Owner(h, l.target) = l.callee /\ ~Jettisoned(h, l.target)
      BY <1>0, <2>2, <3>1, <3>2, JITCodeBlocks
    <3>4. Released(h, es, l.target) <=> l.callee \in es
      BY <3>3 DEF Released
    <3>5. CASE l.callee \in es
      BY <2>1, <3>2, <3>4, <3>5
    <3>6. CASE l.callee \notin es
      <4>1. g.code[l.callee] = h.code[l.callee] /\ h.code[l.callee] \in BlocksOf(g)
        BY <1>1, <1>4, <2>2, <3>2, <3>6 DEF ClearedParts, CodeControl
      <4>2. JITCodeFor(g, l.callee) = JITCodeFor(h, l.callee)
        BY <1>1, <4>1, JITCode DEF ClearedParts, Keeps
      <4> QED
        BY <1>1, <2>1, <2>5, <3>1, <3>4, <3>6, <4>2 DEF ClearedParts
    <3> QED
      BY <3>5, <3>6
  <2> QED
    BY <2>4, <2>5
<1>10. ExitControl(g, q, Q)
  <2> SUFFICES ASSUME NEW b \in BlocksOf(g), Tier(g, b) # "Baseline", Runs(g, Q, b), NEW f \in Exits(g, b)
               PROVE  g.code[f] # None \/ <<b, f>> \in q
    BY DEF ExitControl
  <2>1. b \in BlocksOf(h) /\ Tier(h, b) # "Baseline" /\ Runs(h, R, b) /\ f \in Exits(h, b)
    BY <1>1, <1>8 DEF ClearedParts, Keeps, Exits
  <2>2. h.code[f] # None \/ <<b, f>> \in p
    BY <2>1 DEF HeapInv, ExitControl
  <2>3. f \in Functions
    BY <1>0, <2>1, BlockTypes DEF Exits
  <2>4. CASE f \in es
    BY <2>1, <2>2, <2>4
  <2>5. CASE f \notin es
    BY <1>1, <2>2, <2>3, <2>5 DEF ClearedParts
  <2> QED
    BY <2>4, <2>5
<1> QED
  BY <1>1, <1>4, <1>5, <1>6, <1>7, <1>9, <1>10 DEF HeapInv

-----------------------------------------------------------------------------
(***************************************************************************)
(* A collection.                                                           *)
(***************************************************************************)
\* What is marked is closed under what markRoots follows.
MarkedFacts(h, roots, executing, M) ==
    /\ M \subseteq h.live /\ roots \subseteq M
    /\ \A b \in executing : Owner(h, b) \in M /\ Weak(h, b) \subseteq M /\ Inlined(h, b) \subseteq M
    /\ \A e \in M : h.code[e] \in Speculative(h) /\ Weak(h, h.code[e]) \subseteq M
                      => Inlined(h, h.code[e]) \subseteq M

\* markRoots marks the least set of that kind, which is one itself.
LEMMA MarkedIsClosed ==
    ASSUME NEW h, HeapTypes(h), CodeControl(h), ReferenceControl(h), NEW roots \in SUBSET h.live,
           NEW executing \in SUBSET DFGBlocks(h),
           NEW M, M = Marked(h, roots, executing)
    PROVE  MarkedFacts(h, roots, executing, M)
<1> DEFINE Closed(S) ==
             /\ roots \subseteq S
             /\ \A b \in executing :
                  {h.blocks[b].owner} \cup h.blocks[b].weakReferences \cup h.blocks[b].inlined \subseteq S
             /\ \A c \in S : LET b == h.code[c] IN
                  b \in Speculative(h) /\ h.blocks[b].weakReferences \subseteq S => h.blocks[b].inlined \subseteq S
<1>1. M = {e \in h.live : \A S \in SUBSET h.live : Closed(S) => e \in S}
  BY DEF Marked
<1>2. \A e : e \in M <=> e \in h.live /\ \A S \in SUBSET h.live : Closed(S) => e \in S
  BY <1>1
<1>3. \A S \in SUBSET h.live : Closed(S) =>
        /\ roots \subseteq S
        /\ \A b \in executing : Owner(h, b) \in S /\ Weak(h, b) \subseteq S /\ Inlined(h, b) \subseteq S
        /\ \A c \in S : h.code[c] \in Speculative(h) /\ Weak(h, h.code[c]) \subseteq S
                           => Inlined(h, h.code[c]) \subseteq S
  BY DEF Owner, Weak, Inlined
<1>4. \A b \in DFGBlocks(h) :
        Owner(h, b) \in h.live /\ Weak(h, b) \subseteq h.live /\ Inlined(h, b) \subseteq h.live
  BY DEF ReferenceControl, Refers, DFGBlocks, Tier
<1> HIDE DEF Closed
<1>5. roots \subseteq M
  BY <1>2, <1>3
<1>6. ASSUME NEW b \in executing
      PROVE  Owner(h, b) \in M /\ Weak(h, b) \subseteq M /\ Inlined(h, b) \subseteq M
  <2>1. Owner(h, b) \in h.live /\ Weak(h, b) \subseteq h.live /\ Inlined(h, b) \subseteq h.live
    BY <1>4
  <2>2. \A S \in SUBSET h.live : Closed(S) =>
          Owner(h, b) \in S /\ Weak(h, b) \subseteq S /\ Inlined(h, b) \subseteq S
    BY <1>3
  <2> QED
    BY <1>2, <2>1, <2>2
<1>7. ASSUME NEW e \in M, h.code[e] \in Speculative(h), Weak(h, h.code[e]) \subseteq M,
             NEW f \in Inlined(h, h.code[e])
      PROVE  f \in M
  <2>1. f \in h.live
    <3> DEFINE b == h.code[e]
    <3>1. e \in Functions /\ b \in BlocksOf(h) /\ Tier(h, b) # "Baseline"
      BY <1>2, <1>7 DEF HeapTypes, Speculative, Tier
    <3>2. b # None
      BY <3>1, Pointers DEF HeapTypes
    <3>3. ~Jettisoned(h, b) /\ Tier(h, b) \in {"Baseline", "Compiling", "DFG"}
      BY <3>1, <3>2, BlockTypes DEF CodeControl
    <3> QED
      BY <1>7, <3>1, <3>3 DEF ReferenceControl, Refers
  <2>2. ASSUME NEW S \in SUBSET h.live, Closed(S)
        PROVE  f \in S
    <3>1. M \subseteq S
      BY <1>2, <2>2
    <3>2. e \in S /\ Weak(h, h.code[e]) \subseteq S
      BY <1>7, <3>1
    <3> QED
      BY <1>3, <1>7, <2>2, <3>2
  <2> QED
    BY <1>2, <2>1, <2>2
<1>8. M \subseteq h.live
  BY <1>2
<1> QED
  BY <1>5, <1>6, <1>7, <1>8 DEF MarkedFacts

\* The last steps of a collection: the cells that were not marked go, and jettisoned blocks
\* that do not execute.
LEMMA ReclaimKeeps ==
    ASSUME NEW h, NEW p, NEW R, HeapInv(h, p, R), NEW M \in SUBSET h.live, NEW D,
           NEW g, g = Delete([h EXCEPT !.live = M], D),
           \A b \in D : b \in BlocksOf(h) /\ Tier(h, b) = "DFG" /\ Jettisoned(h, b),
           \A r \in R : (r.block # Freed => r.block \notin D) /\ r.cell \in M,
           \A e \in Functions : h.code[e] # None => e \in M,
           \A b \in BlocksOf(h) \ D : Refers(h, b) =>
             Owner(h, b) \in M /\ Weak(h, b) \subseteq M /\ Inlined(h, b) \subseteq M
    PROVE  HeapInv(g, {x \in p : x[1] \in BlocksOf(g)}, R)
<1> DEFINE u == [h EXCEPT !.live = M]
           q == {x \in p : x[1] \in BlocksOf(g)}
<1>0. HeapTypes(h) /\ CodeControl(h) /\ OwnerControl(h)
  BY DEF HeapInv
<1>1. u = [live |-> M, code |-> h.code, blocks |-> h.blocks, links |-> h.links]
  BY <1>0 DEF HeapTypes
<1>2. u.live = M /\ u.code = h.code /\ u.blocks = h.blocks /\ u.links = h.links /\ BlocksOf(u) = BlocksOf(h)
  BY <1>1 DEF BlocksOf
<1>3. HeapTypes(u)
  BY <1>0, <1>1, <1>2 DEF HeapTypes
<1>4. g = Delete(u, D)
  OBVIOUS
<1> HIDE DEF u
<1>5. HeapTypes(g) /\ DeletedParts(g, u, D)
  BY <1>3, <1>4, DeleteParts
<1>6. g.live = M /\ g.code = h.code /\ BlocksOf(g) = BlocksOf(h) \ D
  BY <1>2, <1>5 DEF DeletedParts
<1>7. \A b \in BlocksOf(g) : /\ Keeps(g, h, b) /\ Alternative(g, b) = Alternative(h, b)
                             /\ Jettisoned(g, b) = Jettisoned(h, b)
  BY <1>2, <1>5 DEF DeletedParts, Keeps, Owner, Tier, Alternative, Jettisoned, Weak, Inlined
<1>8. \A k \in g.links : \E l \in h.links :
        /\ k.caller = l.caller /\ k.callee = l.callee
        /\ k.target = IF l.target \in D THEN Freed ELSE l.target
  BY <1>2, <1>5 DEF DeletedParts
<1>9. \A b \in BlocksOf(h) : ~Jettisoned(h, b) => b \in BlocksOf(g)
  BY <1>6
<1>10. CodeControl(g)
  BY <1>0, <1>6, <1>7, <1>9 DEF CodeControl, Keeps
<1>11. OwnerControl(g)
  <2> SUFFICES ASSUME NEW b \in BlocksOf(g)
      PROVE  /\ Tier(g, b) = "Baseline" => Alternative(g, b) = None /\ ~Jettisoned(g, b)
             /\ Jettisoned(g, b) => Alternative(g, b) = None
             /\ Tier(g, b) # "Baseline" /\ ~Jettisoned(g, b) => Alternative(g, b) # None
             /\ Alternative(g, b) # None =>
                  /\ Alternative(g, b) \in BlocksOf(g)
                  /\ Tier(g, Alternative(g, b)) = "Baseline"
                  /\ Owner(g, Alternative(g, b)) = Owner(g, b)
             /\ ~Jettisoned(g, b) =>
                  /\ g.code[Owner(g, b)] # None
                  /\ b = g.code[Owner(g, b)] \/ b = Alternative(g, g.code[Owner(g, b)])
    BY DEF OwnerControl
  <2>1. /\ b \in BlocksOf(h) /\ Owner(g, b) = Owner(h, b) /\ Tier(g, b) = Tier(h, b)
        /\ Alternative(g, b) = Alternative(h, b) /\ Jettisoned(g, b) = Jettisoned(h, b)
    BY <1>6, <1>7 DEF Keeps
  <2>2. /\ Tier(g, b) = "Baseline" => Alternative(g, b) = None /\ ~Jettisoned(g, b)
        /\ Jettisoned(g, b) => Alternative(g, b) = None
        /\ Tier(g, b) # "Baseline" /\ ~Jettisoned(g, b) => Alternative(g, b) # None
    BY <1>0, <2>1 DEF OwnerControl
  <2>3. ASSUME Alternative(g, b) # None
        PROVE  /\ Alternative(g, b) \in BlocksOf(g)
               /\ Tier(g, Alternative(g, b)) = "Baseline"
               /\ Owner(g, Alternative(g, b)) = Owner(g, b)
    <3> DEFINE a == Alternative(h, b)
    <3>1. a \in BlocksOf(h) /\ Tier(h, a) = "Baseline" /\ Owner(h, a) = Owner(h, b)
      BY <1>0, <2>1, <2>3 DEF OwnerControl
    <3> HIDE DEF a
    <3>2. a \in BlocksOf(g)
      BY <1>6, <3>1
    <3> QED
      BY <1>7, <2>1, <3>1, <3>2 DEF Keeps, a
  <2>4. ASSUME ~Jettisoned(g, b)
        PROVE  /\ g.code[Owner(g, b)] # None
               /\ b = g.code[Owner(g, b)] \/ b = Alternative(g, g.code[Owner(g, b)])
    <3> DEFINE e == Owner(h, b)
    <3>1. e \in Functions /\ Owner(g, b) = e /\ ~Jettisoned(h, b)
      BY <1>0, <2>1, <2>4, BlockTypes
    <3>2. h.code[e] # None /\ (b = h.code[e] \/ b = Alternative(h, h.code[e]))
      BY <1>0, <2>1, <3>1 DEF OwnerControl
    <3> HIDE DEF e
    <3>3. g.code[e] = h.code[e] /\ g.code[e] \in BlocksOf(g)
      BY <1>6, <1>10, <3>1, <3>2 DEF CodeControl
    <3> QED
      BY <1>7, <3>1, <3>2, <3>3
  <2> QED
    BY <2>2, <2>3, <2>4
<1>12. ReferenceControl(g) /\ FrameControl(g, R)
  <2>1. ReferenceControl(g)
    BY <1>6, <1>7 DEF ReferenceControl, Refers, Keeps
  <2>2. FrameControl(g, R)
    BY <1>6, <1>7 DEF HeapInv, FrameControl, Keeps
  <2> QED
    BY <2>1, <2>2
<1>13. \A b : Runs(g, R, b) => Runs(h, R, b) /\ b \in BlocksOf(g)
  BY <1>6, <1>7 DEF Runs
<1>14. LinkControl(g, q, R)
  <2> SUFFICES ASSUME NEW k \in g.links, Runs(g, R, k.caller)
               PROVE  IF k.target = Freed THEN <<k.caller, k.callee>> \in q
                      ELSE k.callee \in g.live /\ k.target = JITCodeFor(g, k.callee)
    BY DEF LinkControl
  <2>1. PICK l \in h.links : /\ k.caller = l.caller /\ k.callee = l.callee
                             /\ k.target = IF l.target \in D THEN Freed ELSE l.target
    BY <1>8
  <2>2. Runs(h, R, l.caller) /\ l.callee \in Functions /\ l.target \in Blocks \cup {Freed}
    BY <1>0, <1>13, <2>1, LinkParts DEF HeapTypes
  <2>3. IF l.target = Freed THEN <<l.caller, l.callee>> \in p
        ELSE l.callee \in h.live /\ l.target = JITCodeFor(h, l.callee)
    BY <2>2 DEF HeapInv, LinkControl
  <2>4. CASE l.target = Freed
    <3>1. k.target = Freed /\ <<k.caller, k.callee>> \in p /\ k.caller \in BlocksOf(g)
      BY <1>13, <2>1, <2>3, <2>4
    <3> QED
      BY <3>1
  <2>5. CASE l.target # Freed
    <3>1. l.target = JITCodeFor(h, l.callee) /\ l.target # None
      BY <2>2, <2>3, <2>5, Pointers
    <3>2. h.code[l.callee] # None
      BY <3>1, JITCode
    <3>3. l.target \notin D /\ l.callee \in M
      BY <1>0, <2>2, <3>1, <3>2, JITCodeBlocks
    <3>4. h.code[l.callee] \in BlocksOf(g) /\ g.code[l.callee] = h.code[l.callee]
      BY <1>6, <1>10, <2>2, <3>2 DEF CodeControl
    <3>5. JITCodeFor(g, l.callee) = JITCodeFor(h, l.callee)
      BY <1>7, <3>4, JITCode DEF Keeps
    <3> QED
      BY <1>6, <2>1, <2>5, <3>1, <3>3, <3>5
  <2> QED
    BY <2>4, <2>5
<1>15. ExitControl(g, q, R)
  <2> SUFFICES ASSUME NEW b \in BlocksOf(g), Tier(g, b) # "Baseline", Runs(g, R, b), NEW f \in Exits(g, b)
               PROVE  g.code[f] # None \/ <<b, f>> \in q
    BY DEF ExitControl
  <2>1. b \in BlocksOf(h) /\ Tier(h, b) # "Baseline" /\ Runs(h, R, b) /\ f \in Exits(h, b)
    BY <1>6, <1>7, <1>13 DEF Keeps, Exits
  <2>2. h.code[f] # None \/ <<b, f>> \in p
    BY <2>1 DEF HeapInv, ExitControl
  <2> QED
    BY <1>6, <2>2
<1> QED
  BY <1>5, <1>10, <1>11, <1>12, <1>14, <1>15 DEF HeapInv

\* What visitAggregate sees: the code of marked functions, and code that executes.
LEMMA VisitedBlocks ==
    ASSUME NEW h, HeapTypes(h), CodeControl(h), OwnerControl(h), NEW M \in SUBSET Functions,
           NEW executing \in SUBSET DFGBlocks(h), NEW b
    PROVE  /\ b \in Visited(h, M, executing)
                <=> b \in executing \/ (b \in BlocksOf(h) /\ ~Jettisoned(h, b) /\ Owner(h, b) \in M)
           /\ b \in ProvedDead(h, M, executing)
                <=> /\ b \in BlocksOf(h) /\ ~Jettisoned(h, b) /\ Owner(h, b) \in M
                    /\ Tier(h, b) # "Baseline" /\ b \notin executing /\ ~(Weak(h, b) \subseteq M)
<1>1. b \in Visited(h, M, executing)
        <=> b \in executing \/ \E e \in M : b \in WithAlternative(h, h.code[e])
  BY DEF Visited
<1>2. \A e \in M : b \in WithAlternative(h, h.code[e])
                   <=> b \in BlocksOf(h) /\ ~Jettisoned(h, b) /\ Owner(h, b) = e
  BY CodeOfFunction
<1>3. b \in Visited(h, M, executing)
        <=> b \in executing \/ (b \in BlocksOf(h) /\ ~Jettisoned(h, b) /\ Owner(h, b) \in M)
  BY <1>1, <1>2
<1>4. b \in ProvedDead(h, M, executing)
        <=> /\ b \in Visited(h, M, executing) /\ b \in Speculative(h)
            /\ b \notin executing /\ ~(Weak(h, b) \subseteq M)
  BY DEF ProvedDead, Weak
<1>5. b \in Speculative(h) <=> b \in BlocksOf(h) /\ Tier(h, b) # "Baseline"
  BY DEF Speculative, Tier
<1> QED
  BY <1>3, <1>4, <1>5

\* A collection that takes the cells and the optimized code of all frames for roots.
LEMMA CollectedKeeps ==
    ASSUME NEW h, NEW p, NEW R, HeapInv(h, p, R), NEW roots \in SUBSET h.live,
           NEW executing \in SUBSET DFGBlocks(h),
           \A r \in R : /\ r.cell \in roots
                        /\ r.block # Freed /\ Tier(h, r.block) = "DFG" => r.block \in executing,
           NEW g, g = Collected(h, roots, executing)
    PROVE  HeapInv(g, {x \in p : x[1] \in BlocksOf(g)}, R)
<1> DEFINE M == Marked(h, roots, executing)
           dead == ProvedDead(h, M, executing)
           kept == Visited(h, M, executing) \ dead
           j == Jettison(h, dead)
           u == UnlinkDeadCallees(j, kept, M)
           es == h.live \ M
           c == ClearCode(u, es)
           w == [c EXCEPT !.live = M]
           D == {b \in DFGBlocks(w) : w.blocks[b].isJettisoned /\ b \notin executing}
<1>0. HeapTypes(h) /\ CodeControl(h) /\ OwnerControl(h) /\ ReferenceControl(h) /\ FrameControl(h, R)
  BY DEF HeapInv
<1>1. g = Delete(w, D)
  BY DEF Collected, DeleteUnmarkedJettisonedCodeBlocks
<1> HIDE DEF M
<1>2. MarkedFacts(h, roots, executing, M)
  BY <1>0, MarkedIsClosed DEF M
<1>3. M \in SUBSET h.live /\ M \in SUBSET Functions /\ roots \subseteq M /\ es \in SUBSET Functions
  BY <1>0, <1>2 DEF MarkedFacts, HeapTypes
<1>4. ASSUME NEW b
      PROVE  /\ b \in Visited(h, M, executing)
                   <=> b \in executing \/ (b \in BlocksOf(h) /\ ~Jettisoned(h, b) /\ Owner(h, b) \in M)
             /\ b \in dead
                   <=> /\ b \in BlocksOf(h) /\ ~Jettisoned(h, b) /\ Owner(h, b) \in M
                       /\ Tier(h, b) # "Baseline" /\ b \notin executing /\ ~(Weak(h, b) \subseteq M)
  BY <1>0, <1>3, VisitedBlocks
<1>5. \A b : b \in kept <=> b \in Visited(h, M, executing) /\ b \notin dead
  OBVIOUS
<1> HIDE DEF dead, kept
<1>6. HeapInv(j, p, R) /\ JettisonedParts(j, h, dead)
  <2>1. dead \in SUBSET BlocksOf(h) /\ \A b \in dead : Tier(h, b) # "Baseline" /\ ~Jettisoned(h, b)
    BY <1>4
  <2> QED
    BY <2>1, JettisonKeeps
<1> HIDE DEF j
<1>7. /\ HeapInv(u, p, R) /\ u.live = h.live /\ SameBlocks(u, j)
      /\ \A l \in u.links : l.caller \in kept => l.callee \in M
  <2> DEFINE X == {l \in j.links : l.caller \in kept => l.callee \in M}
  <2>1. u = [j EXCEPT !.links = X]
    BY DEF UnlinkDeadCallees
  <2>2. X \in SUBSET j.links /\ \A l \in X : l.caller \in kept => l.callee \in M
    OBVIOUS
  <2> HIDE DEF u, X
  <2>3. HeapInv(u, p, R) /\ u.live = j.live /\ u.links = X /\ SameBlocks(u, j)
    BY <1>6, <2>1, <2>2, FewerLinks
  <2> QED
    BY <1>6, <2>2, <2>3 DEF JettisonedParts
<1> HIDE DEF u
<1>8. BlocksOf(u) = BlocksOf(h)
      /\ \A b \in BlocksOf(h) : Keeps(u, h, b) /\ (Jettisoned(u, b) <=> Jettisoned(h, b) \/ b \in dead)
  BY <1>6, <1>7 DEF SameBlocks, JettisonedParts, Keeps
<1>9. HeapTypes(u) /\ CodeControl(u) /\ OwnerControl(u)
  BY <1>7 DEF HeapInv
<1>10. HeapTypes(c) /\ ClearedParts(c, u, es)
  BY <1>3, <1>9, ClearCodeParts
<1>11. ASSUME NEW b \in BlocksOf(c), ~Jettisoned(c, b) \/ b \in executing
       PROVE  /\ b \in kept
              /\ Tier(h, b) # "Baseline" =>
                   Owner(h, b) \in M /\ Weak(h, b) \subseteq M /\ Inlined(h, b) \subseteq M
  <2>1. b \in BlocksOf(h)
    BY <1>8, <1>10 DEF ClearedParts
  <2>2. CASE b \in executing
    BY <1>2, <1>4, <1>5, <2>2 DEF MarkedFacts
  <2>3. CASE b \notin executing
    <3>1. ~Jettisoned(u, b) /\ ~Released(u, es, b)
      BY <1>10, <1>11, <2>3 DEF ClearedParts
    <3>2. ~Jettisoned(h, b) /\ b \notin dead /\ Owner(h, b) \notin es
      BY <1>8, <2>1, <3>1 DEF Released, Keeps
    <3> DEFINE e == Owner(h, b)
    <3>3. e \in Functions /\ h.code[e] # None /\ (b = h.code[e] \/ b = Alternative(h, h.code[e]))
      BY <1>0, <2>1, <3>2, BlockTypes DEF OwnerControl
    <3>4. e \in h.live /\ h.code[e] \in BlocksOf(h)
      BY <1>0, <3>3 DEF CodeControl
    <3>5. e \in M
      BY <3>2, <3>4
    <3>6. b \in kept
      BY <1>4, <1>5, <2>1, <3>2, <3>5
    <3>7. ASSUME Tier(h, b) # "Baseline"
          PROVE  Weak(h, b) \subseteq M /\ Inlined(h, b) \subseteq M
      <4>1. Weak(h, b) \subseteq M
        BY <1>4, <2>1, <2>3, <3>2, <3>5, <3>7
      <4>2. b # Alternative(h, h.code[e])
        <5>1. Alternative(h, h.code[e]) # None => Tier(h, Alternative(h, h.code[e])) = "Baseline"
          BY <1>0, <3>4 DEF OwnerControl
        <5>2. b # None
          BY <1>0, <2>1, Pointers DEF HeapTypes
        <5> QED
          BY <3>7, <5>1, <5>2
      <4>3. b = h.code[e] /\ b \in Speculative(h)
        BY <2>1, <3>3, <3>7, <4>2 DEF Speculative, Tier
      <4> QED
        BY <1>2, <3>5, <4>1, <4>3 DEF MarkedFacts
    <3> QED
      BY <3>5, <3>6, <3>7
  <2> QED
    BY <2>2, <2>3
<1>12. ASSUME NEW b, Runs(c, R, b)
       PROVE  b \in BlocksOf(c) /\ (~Jettisoned(c, b) \/ b \in executing)
  <2>1. b \in BlocksOf(c) /\ (~Jettisoned(c, b) \/ \E r \in R : r.block = b)
    BY <1>12 DEF Runs
  <2>2. ASSUME Jettisoned(c, b), NEW r \in R, r.block = b
        PROVE  b \in executing
    <3>1. b \in BlocksOf(h) /\ Jettisoned(u, b) /\ b # Freed
      BY <1>0, <1>8, <1>10, <2>1, <2>2, Pointers DEF ClearedParts, HeapTypes
    <3>2. Tier(u, b) # "Baseline" /\ Tier(u, b) = Tier(h, b)
      BY <1>8, <1>9, <3>1 DEF OwnerControl, Keeps
    <3>3. Tier(h, b) # "Compiling"
      BY <1>0, <2>2, <3>1 DEF FrameControl
    <3>4. Tier(h, b) = "DFG"
      BY <1>0, <3>1, <3>2, <3>3, BlockTypes
    <3> QED
      BY <2>2, <3>1, <3>4
  <2> QED
    BY <2>1, <2>2
<1>13. HeapInv(c, p, R)
  <2>1. \A r \in R : r \in R /\ ~Released(u, es, r.block)
    <3> SUFFICES ASSUME NEW r \in R, Released(u, es, r.block)
                 PROVE  FALSE
      OBVIOUS
    <3>1. r.cell \in M /\ r.block \in BlocksOf(u) /\ Owner(u, r.block) \in es
      BY <1>3 DEF Released
    <3>2. r.block # Freed
      BY <1>9, <3>1, Pointers DEF HeapTypes
    <3>3. Owner(h, r.block) = r.cell /\ Owner(u, r.block) = Owner(h, r.block)
      BY <1>0, <1>8, <3>1, <3>2 DEF FrameControl, Keeps
    <3> QED
      BY <3>1, <3>3
  <2>2. \A l \in u.links : Runs(c, R, l.caller) /\ l.callee \in es /\ u.code[l.callee] # None
          => <<l.caller, l.callee>> \in p
    BY <1>7, <1>11, <1>12
  <2>3. \A b \in BlocksOf(u) : Tier(u, b) # "Baseline" /\ Runs(c, R, b) =>
          \A f \in Exits(u, b) \cap es : u.code[f] # None => <<b, f>> \in p
    BY <1>8, <1>11, <1>12 DEF Keeps, Exits
  <2> HIDE DEF es
  <2> QED
    BY <1>3, <1>7, <2>1, <2>2, <2>3, ClearCodeKeeps
<1>14. c.live = h.live /\ \A b \in BlocksOf(c) : Keeps(c, h, b) /\ b \in BlocksOf(h)
  BY <1>7, <1>8, <1>10 DEF ClearedParts, Keeps
<1>15. \A e \in Functions : c.code[e] # None => e \in M
  <2> SUFFICES ASSUME NEW e \in Functions, c.code[e] # None
               PROVE  e \in M
    OBVIOUS
  <2>1. e \notin es
    BY <1>10 DEF ClearedParts
  <2>2. e \in c.live
    BY <1>13 DEF HeapInv, CodeControl
  <2> QED
    BY <1>14, <2>1, <2>2
<1> HIDE DEF c, es
<1>16. w = [live |-> M, code |-> c.code, blocks |-> c.blocks, links |-> c.links]
  BY <1>10 DEF HeapTypes
<1>17. w.blocks = c.blocks
  BY <1>16
<1>18. \A b : b \in D <=> b \in BlocksOf(c) /\ Tier(c, b) = "DFG" /\ Jettisoned(c, b) /\ b \notin executing
  BY <1>17 DEF DFGBlocks, BlocksOf, Tier, Jettisoned
<1> HIDE DEF D
<1>19. ASSUME NEW r \in R
       PROVE  (r.block # Freed => r.block \notin D) /\ r.cell \in M
  <2>1. r.cell \in M
    BY <1>3
  <2>2. r.block \in D => Tier(h, r.block) = "DFG" /\ r.block \notin executing
    BY <1>14, <1>18 DEF Keeps
  <2> QED
    BY <2>1, <2>2
<1>20. ASSUME NEW b \in BlocksOf(c) \ D, Refers(c, b)
       PROVE  Owner(c, b) \in M /\ Weak(c, b) \subseteq M /\ Inlined(c, b) \subseteq M
  <2>1. Tier(c, b) # "Baseline" /\ (~Jettisoned(c, b) \/ b \in executing)
    BY <1>18, <1>20 DEF Refers
  <2> QED
    BY <1>11, <1>14, <2>1 DEF Keeps
<1>21. \A b \in D : b \in BlocksOf(c) /\ Tier(c, b) = "DFG" /\ Jettisoned(c, b)
  BY <1>18
<1>22. M \in SUBSET c.live
  BY <1>3, <1>14
<1> QED
  BY <1>1, <1>13, <1>15, <1>19, <1>20, <1>21, <1>22, ReclaimKeeps

-----------------------------------------------------------------------------
(***************************************************************************)
(* Frames.                                                                 *)
(***************************************************************************)
\* The frames may be replaced by others in code that may run.
LEMMA FramesKeep ==
    ASSUME NEW h, NEW p, NEW R, HeapInv(h, p, R), NEW Q,
           \A r \in Q : \/ r \in R
                       \/ /\ r \in FrameTypes /\ r.cell \in h.live /\ r.block \in BlocksOf(h)
                          /\ Owner(h, r.block) = r.cell /\ ~Jettisoned(h, r.block)
                          /\ Tier(h, r.block) # "Compiling"
    PROVE  HeapInv(h, p, Q)
<1>1. \A b : Runs(h, Q, b) => Runs(h, R, b)
  BY DEF Runs
<1>2. FrameControl(h, Q)
  BY DEF HeapInv, FrameControl
<1> QED
  BY <1>1, <1>2 DEF HeapInv, LinkControl, ExitControl

\* The baseline version of a function is a block of it that was not jettisoned.
LEMMA BaselineVersions ==
    ASSUME NEW h, HeapTypes(h), CodeControl(h), OwnerControl(h), NEW e \in Functions, h.code[e] # None
    PROVE  /\ BaselineVersion(h, e) \in BlocksOf(h) /\ BaselineVersion(h, e) \in Blocks
           /\ Owner(h, BaselineVersion(h, e)) = e /\ ~Jettisoned(h, BaselineVersion(h, e))
           /\ BaselineVersion(h, e) # None /\ Tier(h, BaselineVersion(h, e)) = "Baseline"
<1> DEFINE b == h.code[e]
<1>1. b \in BlocksOf(h) /\ Owner(h, b) = e /\ ~Jettisoned(h, b)
  BY DEF CodeControl
<1>3. BaselineVersion(h, e) = IF Tier(h, b) = "Baseline" THEN b ELSE Alternative(h, b)
  BY DEF BaselineVersion, Tier, Alternative
<1>4. Tier(h, b) # "Baseline" =>
        /\ Alternative(h, b) \in BlocksOf(h) /\ Tier(h, Alternative(h, b)) = "Baseline"
        /\ Owner(h, Alternative(h, b)) = e
  BY <1>1 DEF OwnerControl
<1>5. Tier(h, b) # "Baseline" => ~Jettisoned(h, Alternative(h, b))
  BY <1>4 DEF OwnerControl
<1>6. BlocksOf(h) \subseteq Blocks
  BY DEF HeapTypes
<1> QED
  BY <1>1, <1>3, <1>4, <1>5, <1>6, Pointers

\* The running frame.
LEMMA TopFrame ==
    ASSUME CodeInv, frames # <<>>
    PROVE  /\ Top \in ToSet(frames) /\ Top = frames[Len(frames)] /\ Len(frames) \in Nat \ {0}
           /\ Top \in FrameTypes /\ Top.cell \in Functions /\ Top.cell \in heap.live
           /\ Top.block # Freed =>
                /\ Top.block \in Blocks /\ Top.block \in BlocksOf(heap)
                /\ Owner(heap, Top.block) = Top.cell /\ Tier(heap, Top.block) # "Compiling"
<1>1. frames \in Seq(FrameTypes) /\ Len(frames) \in Nat \ {0}
  BY EmptySeq DEF CodeInv
<1>2. Top = frames[Len(frames)] /\ Top \in ToSet(frames)
  BY <1>1 DEF Top, Last, ToSet
<1>3. FrameControl(heap, ToSet(frames))
  BY DEF CodeInv, HeapInv
<1>4. Top \in FrameTypes /\ Top.cell \in Functions /\ Top.block \in Blocks \cup {Freed}
  BY <1>2, <1>3 DEF FrameControl, FrameTypes
<1> QED
  BY <1>1, <1>2, <1>3, <1>4 DEF FrameControl

\* The frames, as a set.
LEMMA FrameSet ==
    ASSUME CodeInv
    PROVE  /\ Executing = {r.block : r \in ToSet(frames)} \ {Freed} /\ OnStack = {r.cell : r \in ToSet(frames)}
           /\ OnStack \subseteq heap.live
<1>1. Executing = {r.block : r \in ToSet(frames)} \ {Freed} /\ OnStack = {r.cell : r \in ToSet(frames)}
  BY DEF Executing, OnStack, ToSet
<1>2. \A r \in ToSet(frames) : r.cell \in heap.live
  BY DEF CodeInv, HeapInv, FrameControl
<1> QED
  BY <1>1, <1>2

\* A frame of the code of a function is pushed.
LEMMA PushKeeps ==
    ASSUME CodeInv, HasRoom, NEW h, NEW e \in Functions,
           HeapInv(h, forgotten, ToSet(frames)), h.code[e] # None, NEW s, s = Push(e, JITCodeFor(h, e))
    PROVE  HeapInv(h, forgotten, ToSet(s)) /\ s \in Seq(FrameTypes) /\ Len(s) <= MaxDepth
<1> DEFINE b == JITCodeFor(h, e)
           r == [cell |-> e, block |-> b]
<1>1. HeapTypes(h) /\ CodeControl(h) /\ OwnerControl(h)
  BY DEF HeapInv
<1>2. /\ b \in Blocks /\ b \in BlocksOf(h) /\ Owner(h, b) = e /\ ~Jettisoned(h, b)
      /\ Tier(h, b) # "Compiling" /\ e \in h.live
  BY <1>1, JITCodeBlocks DEF CodeControl
<1> HIDE DEF b
<1>3. r \in FrameTypes /\ r.cell = e /\ r.block = b
  BY <1>2 DEF FrameTypes
<1> HIDE DEF r
<1>4. s = Append(frames, r) /\ frames \in Seq(FrameTypes)
  BY DEF Push, CodeInv, r, b
<1>5. /\ s \in Seq(FrameTypes) /\ Len(s) = Len(frames) + 1
      /\ \A i \in 1..Len(frames) : s[i] = frames[i]
      /\ s[Len(frames) + 1] = r
  BY <1>3, <1>4, AppendProperties
<1>6. Len(frames) \in Nat /\ MaxDepth \in Nat
  BY <1>4, LenProperties, CodeAssumption
<1>7. \A x \in ToSet(s) : x \in ToSet(frames) \/ x = r
  BY <1>4, <1>5, <1>6 DEF ToSet
<1>8. \A x \in ToSet(s) : \/ x \in ToSet(frames)
                          \/ /\ x \in FrameTypes /\ x.cell \in h.live /\ x.block \in BlocksOf(h)
                             /\ Owner(h, x.block) = x.cell /\ ~Jettisoned(h, x.block)
                             /\ Tier(h, x.block) # "Compiling"
  BY <1>2, <1>3, <1>7
<1>9. HeapInv(h, forgotten, ToSet(s))
  BY <1>8, FramesKeep
<1> QED
  BY <1>5, <1>6, <1>9 DEF HasRoom

-----------------------------------------------------------------------------
(***************************************************************************)
(* The steps.                                                              *)
(***************************************************************************)
\* A function is created.
LEMMA CreateFunctionStep ==
    ASSUME CodeInv, NEW f \in Functions, CreateFunction(f)
    PROVE  CodeInv'
<1> DEFINE R == ToSet(frames)
<1>1. HeapInv(heap, forgotten, R) /\ HeapTypes(heap)
  BY DEF CodeInv, HeapInv
<1>2. heap' = [live |-> heap.live \cup {f}, code |-> heap.code, blocks |-> heap.blocks, links |-> heap.links]
  BY <1>1 DEF CreateFunction, HeapTypes
<1>3. heap'.live = heap.live \cup {f} /\ heap'.code = heap.code /\ heap'.blocks = heap.blocks
      /\ heap'.links = heap.links
  BY <1>2
<1> DEFINE g == heap'
<1>4. BlocksOf(g) = BlocksOf(heap)
  BY <1>3 DEF BlocksOf
<1>5. HeapTypes(g)
  BY <1>1, <1>2, <1>3, <1>4 DEF HeapTypes
<1>6. CodeControl(g) /\ OwnerControl(g) /\ ReferenceControl(g) /\ FrameControl(g, R)
  <2>1. CodeControl(g) /\ FrameControl(g, R)
    BY <1>1, <1>3, <1>4 DEF HeapInv, CodeControl, FrameControl, Owner, Tier, Jettisoned
  <2>2. OwnerControl(g)
    BY <1>1, <1>3, <1>4 DEF HeapInv, OwnerControl, Owner, Tier, Alternative, Jettisoned
  <2>3. ReferenceControl(g)
    BY <1>1, <1>3, <1>4 DEF HeapInv, ReferenceControl, Refers, Owner, Tier, Jettisoned, Weak, Inlined
  <2> QED
    BY <2>1, <2>2, <2>3
<1>7. LinkControl(g, forgotten, R) /\ ExitControl(g, forgotten, R)
  <2>1. \A e : JITCodeFor(g, e) = JITCodeFor(heap, e)
    BY <1>3 DEF JITCodeFor
  <2>2. LinkControl(g, forgotten, R)
    BY <1>1, <1>3, <1>4, <2>1 DEF HeapInv, LinkControl, Runs, Jettisoned
  <2>3. ExitControl(g, forgotten, R)
    BY <1>1, <1>3, <1>4 DEF HeapInv, ExitControl, Exits, Runs, Owner, Tier, Jettisoned, Inlined
  <2> QED
    BY <2>2, <2>3
<1>8. HeapInv(g, forgotten, R)
  BY <1>5, <1>6, <1>7 DEF HeapInv
<1> QED
  BY <1>8 DEF CodeInv, CreateFunction

\* A call that is not linked.
LEMMA CallUnlinkedStep ==
    ASSUME CodeInv, NEW f \in Functions, NEW link \in BOOLEAN, CallUnlinked(f, link)
    PROVE  CodeInv'
<1> DEFINE R == ToSet(frames)
           h == CompileFor(heap, f)
           b == JITCodeFor(h, f)
           l == [caller |-> Top.block, callee |-> f, target |-> b]
<1>1. HeapInv(heap, forgotten, R)
  BY DEF CodeInv
<1>2. f \in heap.live /\ (heap.code[f] = None => Cardinality(BlocksOf(heap)) < MaxBlocks)
  BY DEF CallUnlinked, HasMemory
<1> HIDE DEF h
<1>3. HeapInv(h, forgotten, R) /\ h.live = heap.live /\ h.code[f] # None /\ BlocksOf(heap) \subseteq BlocksOf(h)
  BY <1>1, <1>2, CompileForKeeps DEF h
<1>4. HasRoom /\ frames' = Push(f, b) /\ forgotten' = forgotten /\ compiling' = compiling
      /\ heap' = IF link THEN [h EXCEPT !.links = @ \cup {l}] ELSE h
  BY DEF CallUnlinked, h
<1>5. HeapInv(heap', forgotten, R) /\ heap'.code = h.code /\ JITCodeFor(heap', f) = b
  <2>1. CASE link
    <3>1. frames # <<>> /\ Top.block # Freed
      BY <2>1 DEF CallUnlinked
    <3>2. Top.block \in Blocks /\ Top.block \in BlocksOf(h)
      BY <1>3, <3>1, TopFrame
    <3>3. b \in Blocks /\ b # Freed
      BY <1>3, JITCodeBlocks, Pointers DEF HeapInv
    <3> HIDE DEF b
    <3>4. /\ l \in LinkTypes /\ l.caller \in BlocksOf(h) /\ l.callee \in h.live /\ l.target = b
          /\ l.callee = f
      BY <1>2, <1>3, <3>2, <3>3 DEF LinkTypes
    <3>5. heap' = [h EXCEPT !.links = @ \cup {l}]
      BY <1>4, <2>1
    <3> HIDE DEF l
    <3>6. l.target = JITCodeFor(h, l.callee)
      BY <3>4 DEF b
    <3>7. HeapInv(heap', forgotten, R) /\ heap'.code = h.code /\ heap'.blocks = h.blocks
      BY <1>3, <3>3, <3>4, <3>5, <3>6, LinkKeeps
    <3>8. JITCodeFor(heap', f) = JITCodeFor(h, f)
      BY <3>7 DEF JITCodeFor
    <3> QED
      BY <3>7, <3>8 DEF b
  <2>2. CASE ~link
    BY <1>3, <1>4, <2>2
  <2> QED
    BY <2>1, <2>2
<1>6. HeapInv(heap', forgotten, ToSet(frames')) /\ frames' \in Seq(FrameTypes) /\ Len(frames') <= MaxDepth
  <2>1. frames' = Push(f, JITCodeFor(heap', f)) /\ heap'.code[f] # None
    BY <1>3, <1>4, <1>5
  <2> HIDE DEF b, l
  <2> QED
    BY <1>4, <1>5, <2>1, PushKeeps
<1> QED
  BY <1>4, <1>6 DEF CodeInv

\* A linked call.
LEMMA CallLinkedStep ==
    ASSUME CodeInv, NEW f \in Functions, CallLinked(f)
    PROVE  CodeInv'
<1> DEFINE R == ToSet(frames)
<1>1. HeapInv(heap, forgotten, R)
  BY DEF CodeInv
<1>2. frames # <<>> /\ HasRoom /\ heap' = heap /\ forgotten' = forgotten /\ compiling' = compiling
  BY DEF CallLinked
<1>3. PICK l \in LinksTo(f) : l.target \in Blocks /\ frames' = Push(f, l.target)
  BY DEF CallLinked
<1>4. l \in heap.links /\ l.caller = Top.block /\ l.callee = f
  BY <1>3 DEF LinksTo
<1>5. Top \in R /\ Top.block \in BlocksOf(heap)
  <2>1. l.caller \in BlocksOf(heap) /\ l.caller # Freed
    BY <1>1, <1>4, Pointers DEF HeapInv, HeapTypes
  <2> QED
    BY <1>2, <1>4, <2>1, TopFrame
<1>6. Runs(heap, R, l.caller)
  BY <1>4, <1>5 DEF Runs
<1>7. l.target # Freed
  BY <1>3, Pointers
<1>8. l.target = JITCodeFor(heap, f) /\ heap.code[f] # None
  <2>1. l.target = JITCodeFor(heap, f)
    BY <1>1, <1>4, <1>6, <1>7 DEF HeapInv, LinkControl
  <2> QED
    BY <1>3, <2>1, JITCode, Pointers
<1>9. HeapInv(heap, forgotten, ToSet(frames')) /\ frames' \in Seq(FrameTypes) /\ Len(frames') <= MaxDepth
  BY <1>1, <1>2, <1>3, <1>8, PushKeeps
<1> QED
  BY <1>2, <1>9 DEF CodeInv

\* The frames below the running one.
LEMMA FrontFrames ==
    ASSUME CodeInv, frames # <<>>
    PROVE  /\ Front(frames) \in Seq(FrameTypes) /\ Len(Front(frames)) = Len(frames) - 1
           /\ \A i \in 1..(Len(frames) - 1) : Front(frames)[i] = frames[i]
           /\ ToSet(Front(frames)) \subseteq ToSet(frames)
<1>1. frames \in Seq(FrameTypes) /\ Len(frames) \in Nat \ {0} /\ DOMAIN frames = 1..Len(frames)
  BY EmptySeq, LenProperties DEF CodeInv
<1>2. \A i \in 1..(Len(frames) - 1) : frames[i] \in FrameTypes
  BY <1>1, ElementOfSeq
<1>3. /\ Front(frames) \in Seq(FrameTypes) /\ Len(Front(frames)) = Len(frames) - 1
      /\ \A i \in 1..(Len(frames) - 1) : Front(frames)[i] = frames[i]
  <2>1. 1 \in Int /\ Len(frames) - 1 \in Int /\ Len(frames) - 1 - 1 + 1 = Len(frames) - 1
    BY <1>1
  <2>2. /\ SubSeq(frames, 1, Len(frames) - 1) \in Seq(FrameTypes)
        /\ Len(SubSeq(frames, 1, Len(frames) - 1)) = IF 1 <= Len(frames) - 1 THEN Len(frames) - 1 - 1 + 1 ELSE 0
        /\ \A i \in 1..(Len(frames) - 1 - 1 + 1) : SubSeq(frames, 1, Len(frames) - 1)[i] = frames[1 + i - 1]
    BY <1>2, <2>1, SubSeqProperties
  <2> QED
    BY <1>1, <2>1, <2>2 DEF Front
<1>4. DOMAIN Front(frames) = 1..(Len(frames) - 1)
  BY <1>3, LenProperties
<1> QED
  BY <1>1, <1>3, <1>4 DEF ToSet

\* A return.
LEMMA ReturnStep ==
    ASSUME CodeInv, Return
    PROVE  CodeInv'
<1>1. frames # <<>> /\ frames' = Front(frames) /\ heap' = heap /\ forgotten' = forgotten
      /\ compiling' = compiling
  BY DEF Return
<1>2. /\ frames' \in Seq(FrameTypes) /\ Len(frames') = Len(frames) - 1 /\ ToSet(frames') \subseteq ToSet(frames)
  BY <1>1, FrontFrames
<1>3. HeapInv(heap, forgotten, ToSet(frames))
  BY DEF CodeInv
<1>4. HeapInv(heap, forgotten, ToSet(frames'))
  BY <1>2, <1>3, FramesKeep
<1>5. Len(frames) \in Nat /\ Len(frames) <= MaxDepth /\ MaxDepth \in Nat
  BY LenProperties, CodeAssumption DEF CodeInv
<1> QED
  BY <1>1, <1>2, <1>4, <1>5 DEF CodeInv

\* A frame in baseline code is in the current code of its function, or in the alternative of that.
LEMMA BaselineFrame ==
    ASSUME CodeInv, In("Baseline")
    PROVE  /\ frames # <<>> /\ Tier(heap, Top.block) = "Baseline" /\ ~Jettisoned(heap, Top.block)
           /\ Top.block \in Blocks /\ Top.block \in BlocksOf(heap)
           /\ heap.code[Top.cell] # None /\ heap.code[Top.cell] \in BlocksOf(heap)
           /\ HasOptimizedReplacement <=> Tier(heap, heap.code[Top.cell]) = "DFG"
           /\ Tier(heap, heap.code[Top.cell]) = "Baseline" => Top.block = heap.code[Top.cell]
<1>1. frames # <<>> /\ Top.block # Freed /\ Tier(heap, Top.block) = "Baseline"
  BY DEF In, Tier
<1>2. HasOptimizedReplacement <=> Tier(heap, heap.code[Top.cell]) = "DFG"
  BY DEF HasOptimizedReplacement, Tier
<1>3. /\ Top.block \in BlocksOf(heap) /\ Owner(heap, Top.block) = Top.cell /\ Top.block \in Blocks
      /\ Top.cell \in Functions
  BY <1>1, TopFrame
<1>4. HeapTypes(heap) /\ CodeControl(heap) /\ OwnerControl(heap)
  BY DEF CodeInv, HeapInv
<1>5. ~Jettisoned(heap, Top.block)
  BY <1>1, <1>3, <1>4 DEF OwnerControl
<1>6. /\ heap.code[Top.cell] # None
      /\ Top.block = heap.code[Top.cell] \/ Top.block = Alternative(heap, heap.code[Top.cell])
  BY <1>3, <1>4, <1>5 DEF OwnerControl
<1>7. heap.code[Top.cell] \in BlocksOf(heap)
  BY <1>3, <1>4, <1>6 DEF CodeControl
<1>8. Tier(heap, heap.code[Top.cell]) = "Baseline" => Alternative(heap, heap.code[Top.cell]) = None
  BY <1>4, <1>7 DEF OwnerControl
<1> QED
  BY <1>1, <1>2, <1>3, <1>5, <1>6, <1>7, <1>8, Pointers

\* A tier-up.
LEMMA CompileOptimizedStep ==
    ASSUME CodeInv, NEW weak \in SUBSET heap.live, NEW inlined \in SUBSET heap.live,
           CompileOptimized(weak, inlined)
    PROVE  CodeInv'
<1> DEFINE R == ToSet(frames)
           block == [owner |-> Top.cell, tier |-> "Compiling", alternative |-> Top.block,
                     isJettisoned |-> FALSE, weakReferences |-> weak, inlined |-> inlined]
<1>1. HeapInv(heap, forgotten, R) /\ HeapTypes(heap)
  BY DEF CodeInv, HeapInv
<1>2. /\ In("Baseline") /\ Tier(heap, heap.code[Top.cell]) = "Baseline" /\ HasMemory
      /\ \A f \in inlined : BaselineVersion(heap, f) # None
      /\ heap' = NewBlock(heap, block) /\ frames' = frames /\ forgotten' = forgotten
      /\ compiling' \in BOOLEAN
  BY DEF CompileOptimized, Tier
<1>3. Top.cell \in Functions /\ Top.block \in Blocks /\ Top.cell \in heap.live
  BY <1>2, BaselineFrame, TopFrame
<1>4. weak \in SUBSET Functions /\ inlined \in SUBSET Functions
  BY <1>1 DEF HeapTypes
<1>5. block \in CodeBlock
  BY <1>3, <1>4 DEF CodeBlock
<1>6. /\ block.owner = Top.cell /\ block.tier = "Compiling" /\ block.alternative = Top.block
      /\ block.isJettisoned = FALSE /\ block.weakReferences = weak /\ block.inlined = inlined
  OBVIOUS
<1> HIDE DEF block
<1>7. Top.block = heap.code[Top.cell] /\ Tier(heap, Top.block) = "Baseline"
  BY <1>2, BaselineFrame
<1>8. \A f \in inlined : heap.code[f] # None
  BY <1>2 DEF BaselineVersion
<1>9. HeapInv(heap', forgotten, R)
  <2>1. Cardinality(BlocksOf(heap)) < MaxBlocks
    BY <1>2 DEF HasMemory
  <2>2. block.owner \in heap.live /\ block.alternative = heap.code[block.owner] /\ ~block.isJettisoned
    BY <1>3, <1>6, <1>7
  <2>3. /\ block.weakReferences \subseteq heap.live /\ block.inlined \subseteq heap.live
        /\ \A f \in block.inlined : heap.code[f] # None
    BY <1>6, <1>8
  <2>4. block.tier = "Compiling" /\ block.alternative # None /\ Tier(heap, block.alternative) = "Baseline"
    BY <1>3, <1>6, <1>7, Pointers
  <2> QED
    BY <1>1, <1>2, <1>5, <2>1, <2>2, <2>3, <2>4, CompileKeeps
<1> QED
  BY <1>2, <1>9 DEF CodeInv

\* The end of a tier-up.
LEMMA FinishCompilationStep ==
    ASSUME CodeInv, FinishCompilation
    PROVE  CodeInv'
<1> DEFINE b == heap.code[Top.cell]
<1>1. /\ frames # <<>> /\ b # None /\ Tier(heap, b) = "Compiling" /\ heap' = Install(heap, b)
      /\ frames' = frames /\ forgotten' = forgotten /\ compiling' \in BOOLEAN
  BY DEF FinishCompilation, Tier
<1>2. HeapInv(heap, forgotten, ToSet(frames))
  BY DEF CodeInv
<1>3. Top.cell \in Functions
  BY <1>1, TopFrame
<1> HIDE DEF b
<1>4. HeapInv(heap', forgotten, ToSet(frames))
  BY <1>1, <1>2, <1>3, InstallKeeps DEF b
<1> QED
  BY <1>1, <1>4 DEF CodeInv

\* OSR entry.
LEMMA PrepareOSREntryStep ==
    ASSUME CodeInv, PrepareOSREntry
    PROVE  CodeInv'
<1> DEFINE R == ToSet(frames)
           n == Len(frames)
           r == [cell |-> Top.cell, block |-> heap.code[Top.cell]]
<1>1. /\ HeapInv(heap, forgotten, R) /\ HeapTypes(heap) /\ CodeControl(heap)
      /\ frames \in Seq(FrameTypes) /\ Len(frames) <= MaxDepth
  BY DEF CodeInv, HeapInv
<1>2. In("Baseline") /\ HasOptimizedReplacement
      /\ heap' = heap /\ forgotten' = forgotten /\ compiling' = compiling
  BY DEF PrepareOSREntry
<1>3. /\ Top = frames[n] /\ n \in Nat \ {0} /\ Top \in FrameTypes /\ Top.cell \in Functions
      /\ Top.cell \in heap.live /\ heap.code[Top.cell] # None /\ heap.code[Top.cell] \in BlocksOf(heap)
      /\ Tier(heap, heap.code[Top.cell]) = "DFG"
  BY <1>2, BaselineFrame, TopFrame
<1>4. heap.code[Top.cell] \in Blocks
  BY <1>1, <1>3 DEF HeapTypes
<1>5. r = [Top EXCEPT !.block = heap.code[Top.cell]]
  BY <1>3 DEF FrameTypes
<1>6. frames' = [frames EXCEPT ![n] = r]
  BY <1>3, <1>5 DEF PrepareOSREntry
<1>7. r \in FrameTypes /\ r.cell = Top.cell /\ r.block = heap.code[Top.cell]
  BY <1>3, <1>4 DEF FrameTypes
<1> HIDE DEF r, n
<1>8. n \in 1..Len(frames)
  BY <1>3 DEF n
<1>9. /\ frames' \in Seq(FrameTypes) /\ Len(frames') = Len(frames)
      /\ \A i \in 1..Len(frames) : frames'[i] = IF i = n THEN r ELSE frames[i]
  BY <1>1, <1>6, <1>7, <1>8, ExceptSeq
<1>10. DOMAIN frames = 1..Len(frames) /\ DOMAIN frames' = 1..Len(frames)
  BY <1>1, <1>9, LenProperties
<1>11. \A x \in ToSet(frames') : x \in R \/ x = r
  BY <1>9, <1>10 DEF ToSet
<1>12. Owner(heap, r.block) = r.cell /\ ~Jettisoned(heap, r.block) /\ Tier(heap, r.block) # "Compiling"
  BY <1>1, <1>3, <1>7 DEF CodeControl
<1>13. \A x \in ToSet(frames') :
         \/ x \in R
         \/ /\ x \in FrameTypes /\ x.cell \in heap.live /\ x.block \in BlocksOf(heap)
            /\ Owner(heap, x.block) = x.cell /\ ~Jettisoned(heap, x.block)
            /\ Tier(heap, x.block) # "Compiling"
  BY <1>3, <1>7, <1>11, <1>12
<1>14. HeapInv(heap, forgotten, ToSet(frames'))
  BY <1>1, <1>13, FramesKeep
<1> QED
  BY <1>1, <1>2, <1>9, <1>14 DEF CodeInv

\* A reoptimization.
LEMMA ReoptimizeStep ==
    ASSUME CodeInv, Reoptimize
    PROVE  CodeInv'
<1> DEFINE R == ToSet(frames)
           bs == {heap.code[Top.cell]}
<1>1. HeapInv(heap, forgotten, R) /\ CodeControl(heap)
  BY DEF CodeInv, HeapInv
<1>2. /\ In("Baseline") /\ HasOptimizedReplacement /\ compiling' = compiling
      /\ heap' = Jettison(heap, bs) /\ frames' = frames /\ forgotten' = forgotten
  BY DEF Reoptimize
<1>3. Top.cell \in Functions /\ heap.code[Top.cell] # None /\ heap.code[Top.cell] \in BlocksOf(heap)
  BY <1>2, BaselineFrame, TopFrame
<1>4. Tier(heap, heap.code[Top.cell]) = "DFG"
  BY <1>2, BaselineFrame
<1>5. bs \in SUBSET BlocksOf(heap) /\ \A b \in bs : Tier(heap, b) # "Baseline" /\ ~Jettisoned(heap, b)
  BY <1>1, <1>3, <1>4 DEF CodeControl
<1> HIDE DEF bs
<1>6. HeapInv(heap', forgotten, R)
  BY <1>1, <1>2, <1>5, JettisonKeeps
<1> QED
  BY <1>2, <1>6 DEF CodeInv

\* OSR exit: each function that was inlined has baseline code, or had it taken away.
LEMMA OSRExitStep ==
    ASSUME CodeInv, NEW inner \in SUBSET Functions, OSRExit(inner)
    PROVE  CodeInv'
<1> DEFINE R == ToSet(frames)
           Frame(e) == [cell |-> e, block |-> BaselineVersion(heap, e)]
<1>1. /\ HeapInv(heap, forgotten, R) /\ HeapTypes(heap) /\ CodeControl(heap) /\ OwnerControl(heap)
      /\ ReferenceControl(heap) /\ ExitControl(heap, forgotten, R)
  BY DEF CodeInv, HeapInv
<1>2. /\ frames # <<>> /\ Top.block # Freed /\ Tier(heap, Top.block) = "DFG" /\ inner \subseteq Inlined(heap, Top.block)
      /\ Len(frames) + Cardinality(inner) <= MaxDepth
      /\ \A f \in inner \cup {Top.cell} : <<Top.block, f>> \notin forgotten
      /\ heap' = heap /\ forgotten' = forgotten /\ compiling' = compiling
  BY DEF OSRExit, In, Tier, Inlined
<1>3. /\ Top \in R /\ Len(frames) \in Nat \ {0} /\ Top.cell \in Functions /\ Top.cell \in heap.live
      /\ Top.block \in BlocksOf(heap) /\ Owner(heap, Top.block) = Top.cell
  BY <1>2, TopFrame
<1>4. Runs(heap, R, Top.block)
  BY <1>3 DEF Runs
<1>5. \A f \in inner \cup {Top.cell} : f \in heap.live /\ heap.code[f] # None
  <2>1. inner \cup {Top.cell} \subseteq Exits(heap, Top.block)
    BY <1>2, <1>3 DEF Exits
  <2>2. Inlined(heap, Top.block) \subseteq heap.live
    BY <1>1, <1>2, <1>3 DEF ReferenceControl, Refers
  <2>3. \A f \in inner \cup {Top.cell} : heap.code[f] # None
    BY <1>1, <1>2, <1>3, <1>4, <2>1 DEF ExitControl
  <2> QED
    BY <1>2, <1>3, <2>2, <2>3
<1>6. PICK order \in SetToSeqs(inner) :
        frames' = Front(frames) \o
          [i \in 1..(Len(order) + 1) |->
             LET e == IF i = 1 THEN Top.cell ELSE order[i - 1]
             IN  [cell |-> e, block |-> BaselineVersion(heap, e)]]
  BY DEF OSRExit
<1>7. IsFiniteSet(inner) /\ Cardinality(inner) \in Nat
  BY CodeAssumption, FS_Subset, FS_CardinalityType
<1>8. order \in [1..Cardinality(inner) -> inner] /\ Len(order) = Cardinality(inner)
  BY <1>7 DEF SetToSeqs
<1> DEFINE cell(i) == IF i = 1 THEN Top.cell ELSE order[i - 1]
           entered == [i \in 1..(Len(order) + 1) |-> Frame(cell(i))]
<1>9. ASSUME NEW i \in 1..(Len(order) + 1)
      PROVE  cell(i) \in Functions /\ cell(i) \in heap.live /\ heap.code[cell(i)] # None
  BY <1>3, <1>5, <1>7, <1>8
<1> HIDE DEF cell
<1>10. ASSUME NEW i \in 1..(Len(order) + 1)
       PROVE  LET x == Frame(cell(i)) IN
              /\ x \in FrameTypes /\ x.cell \in heap.live /\ x.block \in BlocksOf(heap)
              /\ Owner(heap, x.block) = x.cell /\ ~Jettisoned(heap, x.block)
              /\ Tier(heap, x.block) # "Compiling"
  <2>1. cell(i) \in Functions /\ cell(i) \in heap.live /\ heap.code[cell(i)] # None
    BY <1>9
  <2>2. /\ BaselineVersion(heap, cell(i)) \in BlocksOf(heap) /\ BaselineVersion(heap, cell(i)) \in Blocks
        /\ Owner(heap, BaselineVersion(heap, cell(i))) = cell(i)
        /\ ~Jettisoned(heap, BaselineVersion(heap, cell(i)))
        /\ Tier(heap, BaselineVersion(heap, cell(i))) = "Baseline"
    BY <1>1, <2>1, BaselineVersions
  <2> QED
    BY <2>1, <2>2 DEF FrameTypes
<1>11. frames' = Front(frames) \o entered
  BY <1>6 DEF cell
<1>12. entered \in Seq(FrameTypes) /\ Len(entered) = Len(order) + 1
       /\ \A i \in 1..(Len(order) + 1) : entered[i] = Frame(cell(i))
  <2>1. Len(order) + 1 \in Nat
    BY <1>7, <1>8
  <2>2. entered \in [1..(Len(order) + 1) -> FrameTypes]
    BY <1>10
  <2> QED
    BY <2>1, <2>2
<1> HIDE DEF entered, Frame
<1>13. /\ Front(frames) \in Seq(FrameTypes) /\ Len(Front(frames)) = Len(frames) - 1
       /\ ToSet(Front(frames)) \subseteq R
  BY <1>2, FrontFrames
<1>14. /\ frames' \in Seq(FrameTypes) /\ Len(frames') = Len(Front(frames)) + Len(entered)
       /\ \A i \in 1..(Len(Front(frames)) + Len(entered)) : frames'[i] =
            IF i <= Len(Front(frames)) THEN Front(frames)[i] ELSE entered[i - Len(Front(frames))]
  BY <1>11, <1>12, <1>13, ConcatProperties
<1>15. Len(frames') <= MaxDepth
  BY <1>2, <1>3, <1>7, <1>8, <1>12, <1>13, <1>14
<1>16. \A x \in ToSet(frames') : x \in R \/ \E i \in 1..(Len(order) + 1) : x = Frame(cell(i))
  <2> SUFFICES ASSUME NEW x \in ToSet(frames')
               PROVE  x \in R \/ \E i \in 1..(Len(order) + 1) : x = Frame(cell(i))
    OBVIOUS
  <2>1. DOMAIN frames' = 1..(Len(Front(frames)) + Len(entered))
        /\ DOMAIN Front(frames) = 1..Len(Front(frames))
    BY <1>13, <1>14, LenProperties
  <2>2. PICK i \in 1..(Len(Front(frames)) + Len(entered)) : x = frames'[i]
    BY <2>1 DEF ToSet
  <2>3. CASE i <= Len(Front(frames))
    <3>1. x = Front(frames)[i] /\ i \in DOMAIN Front(frames)
      BY <1>3, <1>13, <1>14, <2>1, <2>2, <2>3
    <3> QED
      BY <1>13, <3>1 DEF ToSet
  <2>4. CASE ~(i <= Len(Front(frames)))
    <3>1. x = entered[i - Len(Front(frames))] /\ i - Len(Front(frames)) \in 1..(Len(order) + 1)
      BY <1>3, <1>7, <1>8, <1>12, <1>13, <1>14, <2>2, <2>4
    <3> QED
      BY <1>12, <3>1
  <2> QED
    BY <2>3, <2>4
<1>17. \A x \in ToSet(frames') :
         \/ x \in R
         \/ /\ x \in FrameTypes /\ x.cell \in heap.live /\ x.block \in BlocksOf(heap)
            /\ Owner(heap, x.block) = x.cell /\ ~Jettisoned(heap, x.block)
              /\ Tier(heap, x.block) # "Compiling"
  BY <1>10, <1>16
<1>18. HeapInv(heap, forgotten, ToSet(frames'))
  BY <1>1, <1>17, FramesKeep
<1> QED
  BY <1>2, <1>14, <1>15, <1>18 DEF CodeInv

\* Heap::collect, of a heap in which the functions of all frames are still live.
LEMMA CollectStep ==
    ASSUME CodeInv, NEW h, NEW pairs \in SUBSET (Blocks \X Functions),
           HeapInv(h, pairs, ToSet(frames')), Collect(h, pairs), compiling' = compiling,
           OnStack = {r.cell : r \in ToSet(frames')}, frames' \in Seq(FrameTypes), Len(frames') <= MaxDepth,
           \A r \in ToSet(frames') : r.block \in Executing \/ r.block = Freed
    PROVE  CodeInv'
<1> DEFINE R == ToSet(frames')
<1>1. PICK roots \in SUBSET (h.live \ OnStack), stale \in SUBSET (DFGBlocks(h) \ Executing) :
        /\ heap' = Collected(h, roots \cup OnStack, stale \cup (Executing \cap DFGBlocks(h)))
        /\ forgotten' = {p \in pairs : p[1] \in BlocksOf(heap')}
  BY DEF Collect
<1> DEFINE all == roots \cup OnStack
           executing == stale \cup (Executing \cap DFGBlocks(h))
<1>2. OnStack = {r.cell : r \in R}
  OBVIOUS
<1>3. \A r \in R : r.cell \in h.live /\ (r.block # Freed => r.block \in BlocksOf(h))
  BY DEF HeapInv, FrameControl
<1>4. all \in SUBSET h.live /\ executing \in SUBSET DFGBlocks(h)
  BY <1>2, <1>3
<1>5. ASSUME NEW r \in R
      PROVE  r.cell \in all /\ (r.block # Freed /\ Tier(h, r.block) = "DFG" => r.block \in executing)
  <2>1. r.cell \in OnStack /\ (r.block # Freed => r.block \in Executing)
    BY <1>2
  <2>2. r.block # Freed /\ Tier(h, r.block) = "DFG" => r.block \in DFGBlocks(h)
    BY <1>3 DEF DFGBlocks, Tier
  <2> QED
    BY <2>1, <2>2
<1> HIDE DEF all, executing, R
<1>6. heap' = Collected(h, all, executing)
  BY <1>1 DEF all, executing
<1>7. HeapInv(heap', {p \in pairs : p[1] \in BlocksOf(heap')}, R)
  <2>1. \A r \in R : /\ r.cell \in all
                     /\ r.block # Freed /\ Tier(h, r.block) = "DFG" => r.block \in executing
    BY <1>5
  <2>2. HeapInv(h, pairs, R)
    BY DEF R
  <2> QED
    BY <1>4, <1>6, <2>1, <2>2, CollectedKeeps
<1>8. HeapInv(heap', forgotten', R) /\ forgotten' \in SUBSET (Blocks \X Functions)
  BY <1>1, <1>7
<1> QED
  BY <1>8 DEF CodeInv, R

\* The same frames go on.
LEMMA CollectInPlace ==
    ASSUME CodeInv, NEW h, HeapInv(h, forgotten, ToSet(frames)), Collect(h, forgotten),
           frames' = frames, compiling' = compiling
    PROVE  CodeInv'
<1>1. OnStack = {r.cell : r \in ToSet(frames')} /\ \A r \in ToSet(frames') : r.block \in Executing \/ r.block = Freed
  BY FrameSet
<1> QED
  BY <1>1, CollectStep DEF CodeInv

\* Without frames all code may be cleared.
LEMMA RecompileAllKeeps ==
    ASSUME CodeInv
    PROVE  HeapInv(RecompileAllJSFunctions, forgotten, ToSet(frames))
<1>1. HeapInv(heap, forgotten, ToSet(frames))
  BY DEF CodeInv
<1>2. CASE frames # <<>>
  BY <1>1, <1>2 DEF RecompileAllJSFunctions
<1>3. CASE frames = <<>>
  <2> DEFINE g == ClearCode(heap, heap.live)
             R == ToSet(frames)
  <2>1. \A r : r \notin R
    BY <1>3 DEF ToSet
  <2>2. HeapTypes(heap) /\ CodeControl(heap) /\ OwnerControl(heap) /\ heap.live \in SUBSET Functions
    BY <1>1 DEF HeapInv, HeapTypes
  <2> HIDE DEF g, R
  <2>3. ClearedParts(g, heap, heap.live)
    BY <2>2, ClearCodeParts DEF g
  <2>4. ASSUME NEW b, Runs(g, R, b)
        PROVE  FALSE
    <3>1. b \in BlocksOf(g) /\ ~Jettisoned(g, b)
      BY <2>1, <2>4 DEF Runs
    <3>2. b \in BlocksOf(heap) /\ ~Jettisoned(heap, b) /\ Owner(heap, b) \notin heap.live
      BY <2>3, <3>1 DEF ClearedParts, Released
    <3>3. Owner(heap, b) \in Functions /\ heap.code[Owner(heap, b)] # None
      BY <2>2, <3>2, BlockTypes DEF OwnerControl
    <3> QED
      BY <2>2, <3>2, <3>3 DEF CodeControl
  <2>5. HeapInv(g, forgotten, R)
    <3>1. HeapInv(heap, forgotten, R) /\ heap.live \in SUBSET Functions /\ g = ClearCode(heap, heap.live)
      BY <1>1, <2>2 DEF g, R
    <3> QED
      BY <2>1, <2>4, <3>1, ClearCodeKeeps
  <2>6. RecompileAllJSFunctions = g
    BY <1>3 DEF RecompileAllJSFunctions, g
  <2> QED
    BY <2>5, <2>6 DEF R
<1> QED
  BY <1>2, <1>3

\* The pairs that StackPreservingRecompiler forgets.
Forgotten(g, h) ==
    {x \in BlocksOf(g) \X {f \in Functions : h.code[f] # None /\ g.code[f] = None} :
       g.blocks[x[1]].isJettisoned \/ x[2] \in g.blocks[x[1]].inlined}

\* The code of the functions found is kept, with the calls in it unlinked; the frames Q have lost
\* the code of the others.
LEMMA PreserveStackKeeps ==
    ASSUME NEW h, NEW p, NEW R, HeapInv(h, p, R), NEW found \in SUBSET h.live,
           NEW g, g = PreserveStack(h, found),
           NEW Q, \A r \in Q : \/ r \in R /\ (r.cell \in found \/ r.block \in BlocksOf(g))
                               \/ r \in FrameTypes /\ r.cell \in h.live /\ r.block = Freed
    PROVE  HeapInv(g, p \cup Forgotten(g, h), Q)
<1> DEFINE C == UNION {WithAlternative(h, h.code[f]) : f \in found}
           u == UnlinkCalls(h, C)
           es == h.live \ found
           q == p \cup Forgotten(g, h)
<1>0. HeapTypes(h) /\ CodeControl(h) /\ OwnerControl(h) /\ h.live \in SUBSET Functions
  BY DEF HeapInv, HeapTypes
<1>1. ASSUME NEW b, b \in BlocksOf(h), ~Jettisoned(h, b), Owner(h, b) \in found
      PROVE  b \in C
  <2>1. Owner(h, b) \in Functions
    BY <1>0, <1>1
  <2>2. b \in WithAlternative(h, h.code[Owner(h, b)])
    BY <1>0, <1>1, <2>1, CodeOfFunction
  <2> QED
    BY <1>1, <2>2
<1>2. /\ HeapInv(u, p, R) /\ u.live = h.live /\ u.code = h.code /\ SameBlocks(u, h)
      /\ \A l \in u.links : l \in h.links /\ l.caller \notin C
  <2> DEFINE X == {l \in h.links : l.caller \notin C}
  <2>1. u = [h EXCEPT !.links = X]
    BY DEF UnlinkCalls
  <2>2. X \in SUBSET h.links /\ \A l \in X : l \in h.links /\ l.caller \notin C
    OBVIOUS
  <2> HIDE DEF u, X
  <2>3. HeapInv(u, p, R) /\ u.live = h.live /\ u.code = h.code /\ u.links = X /\ SameBlocks(u, h)
    BY <2>1, <2>2, FewerLinks
  <2> QED
    BY <2>2, <2>3
<1>3. g = ClearCode(u, es)
  BY DEF PreserveStack
<1> HIDE DEF C, u
<1>4. HeapTypes(u) /\ CodeControl(u) /\ OwnerControl(u) /\ es \in SUBSET Functions
  BY <1>0, <1>2 DEF HeapInv
<1>5. HeapTypes(g) /\ ClearedParts(g, u, es)
  BY <1>3, <1>4, ClearCodeParts
<1>6. \A b, f : b \in BlocksOf(g) /\ f \in es /\ u.code[f] # None
                 /\ (Jettisoned(g, b) \/ f \in Inlined(g, b)) => <<b, f>> \in q
  <2> SUFFICES ASSUME NEW b, NEW f, b \in BlocksOf(g), f \in es, u.code[f] # None,
                      Jettisoned(g, b) \/ f \in Inlined(g, b)
               PROVE  <<b, f>> \in Forgotten(g, h)
    OBVIOUS
  <2>1. f \in Functions /\ h.code[f] # None /\ g.code[f] = None
    BY <1>2, <1>4, <1>5 DEF ClearedParts
  <2> QED
    BY <2>1 DEF Forgotten, Jettisoned, Inlined
<1>7. ASSUME NEW l \in u.links, Runs(g, Q, l.caller), l.callee \in es, u.code[l.callee] # None
      PROVE  <<l.caller, l.callee>> \in q
  <2>1. l.caller \in BlocksOf(g) /\ l.caller \notin C
    BY <1>2, <1>7 DEF Runs
  <2>2. Jettisoned(g, l.caller)
    <3> SUFFICES ASSUME ~Jettisoned(g, l.caller)
                 PROVE  FALSE
      OBVIOUS
    <3>1. l.caller \in BlocksOf(u) /\ ~Jettisoned(u, l.caller) /\ Owner(u, l.caller) \notin es
      BY <1>5, <2>1 DEF ClearedParts, Released
    <3>2. l.caller \in BlocksOf(h) /\ ~Jettisoned(h, l.caller) /\ Owner(h, l.caller) \notin es
      BY <1>2, <3>1 DEF SameBlocks
    <3>3. Owner(h, l.caller) \in h.live
      <4>1. Owner(h, l.caller) \in Functions /\ h.code[Owner(h, l.caller)] # None
        BY <1>0, <3>2, BlockTypes DEF OwnerControl
      <4> QED
        BY <1>0, <4>1 DEF CodeControl
    <3> QED
      BY <1>1, <2>1, <3>2, <3>3
  <2> QED
    BY <1>6, <1>7, <2>1, <2>2
<1>8. ASSUME NEW b \in BlocksOf(u), Runs(g, Q, b), NEW f \in Exits(u, b) \cap es, u.code[f] # None
      PROVE  <<b, f>> \in q
  <2>1. b \in BlocksOf(g)
    BY <1>8 DEF Runs
  <2>2. CASE f \in Inlined(u, b)
    <3>1. f \in Inlined(g, b)
      BY <1>5, <2>1, <2>2 DEF ClearedParts, Keeps
    <3> QED
      BY <1>6, <1>8, <2>1, <3>1
  <2>3. CASE f = Owner(u, b)
    <3>1. Jettisoned(g, b)
      BY <1>5, <1>8, <2>1, <2>3 DEF ClearedParts, Released
    <3> QED
      BY <1>6, <1>8, <2>1, <3>1
  <2> QED
    BY <1>8, <2>2, <2>3 DEF Exits
<1>9. ASSUME NEW r \in Q
      PROVE  \/ r \in R /\ ~Released(u, es, r.block)
             \/ r \in FrameTypes /\ r.cell \in u.live /\ r.block = Freed
  <2>1. CASE r \in R /\ r.cell \in found
    <3>1. r.block # Freed => Owner(h, r.block) = r.cell /\ r.block \in BlocksOf(h)
      BY <2>1 DEF HeapInv, FrameControl
    <3>2. r.block \in BlocksOf(u) => r.block # Freed /\ Owner(u, r.block) \notin es
      BY <1>0, <1>2, <2>1, <3>1, Pointers DEF SameBlocks, HeapTypes
    <3> QED
      BY <2>1, <3>2 DEF Released
  <2>2. CASE r \in R /\ r.block \in BlocksOf(g)
    BY <1>5, <2>2 DEF ClearedParts
  <2> QED
    BY <1>2, <1>9, <2>1, <2>2
<1>10. p \subseteq q
  OBVIOUS
<1> HIDE DEF es, q
<1>11. HeapInv(g, q, Q)
  BY <1>2, <1>3, <1>4, <1>7, <1>8, <1>9, <1>10, ClearCodeKeeps
<1> QED
  BY <1>11 DEF q

\* The frames after the release: the same, but some have lost their code.
LEMMA ReleasedFrames ==
    ASSUME CodeInv, NEW h, NEW found, NEW s, s = FramesAfter(h, found)
    PROVE  /\ s \in Seq(FrameTypes) /\ Len(s) = Len(frames)
           /\ {r.cell : r \in ToSet(s)} = {r.cell : r \in ToSet(frames)}
           /\ \A r \in ToSet(s) :
                \/ r \in ToSet(frames) /\ (r.cell \in found \/ r.block \in BlocksOf(h))
                \/ r \in FrameTypes /\ r.cell \in heap.live /\ r.block = Freed
<1> DEFINE n == Len(frames)
<1>1. frames \in Seq(FrameTypes) /\ n \in Nat /\ DOMAIN frames = 1..n
  BY LenProperties DEF CodeInv
<1>2. ASSUME NEW i \in 1..n
      PROVE  /\ s[i] \in FrameTypes /\ s[i].cell = frames[i].cell /\ frames[i] \in ToSet(frames)
             /\ \/ s[i] \in ToSet(frames) /\ (s[i].cell \in found \/ s[i].block \in BlocksOf(h))
                \/ s[i] \in FrameTypes /\ s[i].cell \in heap.live /\ s[i].block = Freed
  <2> DEFINE x == frames[i]
  <2>1. x \in FrameTypes /\ x \in ToSet(frames)
    BY <1>1 DEF ToSet
  <2>2. x.cell \in heap.live
    BY <2>1 DEF CodeInv, HeapInv, FrameControl
  <2>3. s[i] = IF x.cell \notin found /\ x.block \notin BlocksOf(h) THEN [x EXCEPT !.block = Freed] ELSE x
    BY <1>1 DEF FramesAfter
  <2> HIDE DEF x
  <2>4. CASE x.cell \notin found /\ x.block \notin BlocksOf(h)
    <3>1. s[i] = [cell |-> x.cell, block |-> Freed] /\ x.cell \in Functions
      BY <2>1, <2>3, <2>4 DEF FrameTypes
    <3> QED
      BY <2>1, <2>2, <3>1 DEF FrameTypes, x
  <2>5. CASE ~(x.cell \notin found /\ x.block \notin BlocksOf(h))
    BY <2>1, <2>3, <2>5 DEF x
  <2> QED
    BY <2>4, <2>5
<1>3. DOMAIN s = 1..n /\ s = [i \in 1..n |-> s[i]]
  BY <1>1 DEF FramesAfter
<1>4. s \in Seq(FrameTypes) /\ Len(s) = n
  <2>1. s \in [1..n -> FrameTypes]
    BY <1>2, <1>3
  <2> QED
    BY <1>1, <1>3, <2>1, SeqDef, LenProperties
<1>5. ToSet(s) = {s[i] : i \in 1..n} /\ ToSet(frames) = {frames[i] : i \in 1..n}
  BY <1>1, <1>3 DEF ToSet
<1> HIDE DEF n
<1>6. {r.cell : r \in ToSet(s)} = {s[i].cell : i \in 1..n}
      /\ {r.cell : r \in ToSet(frames)} = {frames[i].cell : i \in 1..n}
  BY <1>5
<1>7. {s[i].cell : i \in 1..n} = {frames[i].cell : i \in 1..n}
  BY <1>2
<1>8. \A r \in ToSet(s) : \/ r \in ToSet(frames) /\ (r.cell \in found \/ r.block \in BlocksOf(h))
                          \/ r \in FrameTypes /\ r.cell \in heap.live /\ r.block = Freed
  <2> SUFFICES ASSUME NEW r \in ToSet(s)
               PROVE  \/ r \in ToSet(frames) /\ (r.cell \in found \/ r.block \in BlocksOf(h))
                      \/ r \in FrameTypes /\ r.cell \in heap.live /\ r.block = Freed
    OBVIOUS
  <2>1. PICK i \in 1..n : r = s[i]
    BY <1>5
  <2> QED
    BY <1>2, <2>1
<1> QED
  BY <1>4, <1>6, <1>7, <1>8 DEF n

\* The collections that code asks for.
LEMMA CollectionSteps ==
    ASSUME CodeInv, CollectSome \/ CollectAllGarbage \/ ReleaseExecutableMemory
    PROVE  CodeInv'
<1>1. HeapInv(heap, forgotten, ToSet(frames)) /\ forgotten \in SUBSET (Blocks \X Functions)
  BY DEF CodeInv
<1>2. CASE CollectSome
  <2>1. Collect(heap, forgotten) /\ frames' = frames /\ compiling' = compiling
    BY <1>2 DEF CollectSome
  <2> QED
    BY <1>1, <2>1, CollectInPlace
<1>3. CASE CollectAllGarbage
  <2>1. Collect(RecompileAllJSFunctions, forgotten) /\ frames' = frames /\ compiling' = compiling
    BY <1>3 DEF CollectAllGarbage
  <2>2. HeapInv(RecompileAllJSFunctions, forgotten, ToSet(frames))
    BY RecompileAllKeeps
  <2> QED
    BY <2>1, <2>2, CollectInPlace
<1>4. CASE ReleaseExecutableMemory
  <2>1. PICK found \in SUBSET heap.live :
          LET h    == PreserveStack(heap, found)
              lost == {f \in Functions : heap.code[f] # None /\ h.code[f] = None}
          IN  /\ frames' = FramesAfter(h, found)
              /\ Collect(h, forgotten \cup {p \in BlocksOf(h) \X lost :
                           h.blocks[p[1]].isJettisoned \/ p[2] \in h.blocks[p[1]].inlined})
    BY <1>4 DEF ReleaseExecutableMemory
  <2> DEFINE h == PreserveStack(heap, found)
             pairs == forgotten \cup Forgotten(h, heap)
  <2>2. Collect(h, pairs) /\ frames' = FramesAfter(h, found) /\ compiling' = compiling
    BY <1>4, <2>1 DEF ReleaseExecutableMemory, Forgotten
  <2> HIDE DEF h
  <2>3. /\ frames' \in Seq(FrameTypes) /\ Len(frames') = Len(frames)
        /\ {r.cell : r \in ToSet(frames')} = {r.cell : r \in ToSet(frames)}
        /\ \A r \in ToSet(frames') :
             \/ r \in ToSet(frames) /\ (r.cell \in found \/ r.block \in BlocksOf(h))
             \/ r \in FrameTypes /\ r.cell \in heap.live /\ r.block = Freed
    BY <2>2, ReleasedFrames
  <2>4. HeapInv(h, pairs, ToSet(frames'))
    BY <1>1, <2>3, PreserveStackKeeps DEF h
  <2>5. pairs \in SUBSET (Blocks \X Functions)
    <3>1. BlocksOf(h) \subseteq Blocks
      BY <2>4 DEF HeapInv, HeapTypes
    <3> QED
      BY <1>1, <3>1 DEF Forgotten
  <2> HIDE DEF pairs
  <2>6. OnStack = {r.cell : r \in ToSet(frames')} /\ Len(frames') <= MaxDepth
    BY <2>3, FrameSet DEF CodeInv
  <2>7. \A r \in ToSet(frames') : r.block \in Executing \/ r.block = Freed
    BY <2>3, FrameSet
  <2> QED
    BY <2>2, <2>3, <2>4, <2>5, <2>6, <2>7, CollectStep
<1> QED
  BY <1>2, <1>3, <1>4

-----------------------------------------------------------------------------
(***************************************************************************)
(* The theorems.                                                           *)
(***************************************************************************)
\* The invariant holds of the first state.
LEMMA CodeInit ==
    ASSUME Init
    PROVE  CodeInv
<1>1. heap = [live |-> {}, code |-> [e \in Functions |-> None], blocks |-> <<>>, links |-> {}]
      /\ frames = <<>> /\ forgotten = {} /\ compiling = FALSE
  BY DEF Init
<1>2. heap.live = {} /\ heap.links = {} /\ heap.blocks = <<>> /\ heap.code = [e \in Functions |-> None]
  BY <1>1
<1>3. BlocksOf(heap) = {} /\ ToSet(frames) = {}
  BY <1>1, <1>2 DEF BlocksOf, ToSet
<1>4. heap.blocks \in [BlocksOf(heap) -> CodeBlock]
  BY <1>2, <1>3
<1>5. HeapTypes(heap)
  BY <1>1, <1>2, <1>3, <1>4 DEF HeapTypes
<1>6. HeapInv(heap, forgotten, ToSet(frames))
  BY <1>2, <1>3, <1>5 DEF HeapInv, CodeControl, OwnerControl, ReferenceControl, FrameControl,
       LinkControl, ExitControl
<1>7. frames \in Seq(FrameTypes) /\ Len(frames) = 0 /\ MaxDepth \in Nat
  BY <1>1, CodeAssumption
<1>8. compiling \in BOOLEAN
  BY <1>1
<1> QED
  BY <1>1, <1>6, <1>7, <1>8 DEF CodeInv

\* Every step keeps it.
LEMMA CodeStep ==
    ASSUME CodeInv, [Next]_vars
    PROVE  CodeInv'
<1>1. ASSUME NEW f \in Functions, CreateFunction(f) \/ CallLinked(f)
      PROVE  CodeInv'
  BY <1>1, CreateFunctionStep, CallLinkedStep
<1>2. ASSUME NEW f \in Functions, NEW link \in BOOLEAN, CallUnlinked(f, link)
      PROVE  CodeInv'
  BY <1>2, CallUnlinkedStep
<1>3. ASSUME NEW weak \in SUBSET heap.live, NEW inlined \in SUBSET heap.live, CompileOptimized(weak, inlined)
      PROVE  CodeInv'
  BY <1>3, CompileOptimizedStep
<1>4. ASSUME NEW inner \in SUBSET Functions, OSRExit(inner)
      PROVE  CodeInv'
  BY <1>4, OSRExitStep
<1>5. CASE Return
  BY <1>5, ReturnStep
<1>6. CASE PrepareOSREntry
  BY <1>6, PrepareOSREntryStep
<1>7. CASE Reoptimize
  BY <1>7, ReoptimizeStep
<1>8. CASE CollectSome \/ CollectAllGarbage \/ ReleaseExecutableMemory
  BY <1>8, CollectionSteps
<1>9. CASE FinishCompilation
  BY <1>9, FinishCompilationStep
<1>10. CASE UNCHANGED vars
  BY <1>10 DEF vars, CodeInv
<1> QED
  BY <1>1, <1>2, <1>3, <1>4, <1>5, <1>6, <1>7, <1>8, <1>9, <1>10 DEF Next

\* What each operation on code blocks, each call, tier-up, OSR entry and exit and each collection
\* keeps, is true of every state.
THEOREM CodeInvariance == Spec => []CodeInv
<1>1. Init => CodeInv
  BY CodeInit
<1>2. CodeInv /\ [Next]_vars => CodeInv'
  BY CodeStep
<1> QED
  BY <1>1, <1>2, PTL DEF Spec

\* No frame executes code that was deleted, and a frame in baseline code is in the baseline version
\* of its executable: deleteUnmarkedJettisonedCodeBlocks finds every block that executes marked,
\* and StackPreservingRecompiler keeps the code of the functions it finds. A frame of a function
\* that it misses, which it may, is Freed and excepted.
THEOREM ExecutingCodeIsKept == Spec => []ExecutingCodeKept
<1>1. ASSUME CodeInv
      PROVE  ExecutingCodeKept
  <2> SUFFICES ASSUME NEW i \in DOMAIN frames
        PROVE  LET e == frames[i].cell  b == frames[i].block IN
               /\ e \in heap.live
               /\ b # Freed =>
                    /\ b \in BlocksOf(heap) /\ heap.blocks[b].owner = e
                    /\ heap.blocks[b].tier # "Compiling"
                    /\ heap.blocks[b].tier = "Baseline" => b = BaselineVersion(heap, e)
                    /\ heap.blocks[b].tier = "DFG" => b = heap.code[e] \/ heap.blocks[b].isJettisoned
    BY DEF ExecutingCodeKept
  <2> DEFINE e == frames[i].cell
             b == frames[i].block
             c == heap.code[e]
  <2>1. HeapTypes(heap) /\ CodeControl(heap) /\ OwnerControl(heap) /\ FrameControl(heap, ToSet(frames))
    BY <1>1 DEF CodeInv, HeapInv
  <2>2. frames[i] \in ToSet(frames)
    BY DEF ToSet
  <2>3. /\ e \in Functions /\ e \in heap.live
        /\ b # Freed => /\ b \in BlocksOf(heap) /\ b \in Blocks
                        /\ Owner(heap, b) = e /\ Tier(heap, b) # "Compiling"
    BY <2>1, <2>2 DEF FrameControl, FrameTypes
  <2> HIDE DEF e, b
  <2>4. ASSUME b # Freed
        PROVE  /\ Tier(heap, b) = "Baseline" => b = BaselineVersion(heap, e)
               /\ Tier(heap, b) = "DFG" => b = c \/ Jettisoned(heap, b)
    <3>1. /\ b \in BlocksOf(heap) /\ b \in Blocks /\ Owner(heap, b) = e /\ b # None
      BY <2>3, <2>4, Pointers
    <3>2. CASE Jettisoned(heap, b)
      BY <2>1, <3>1, <3>2 DEF OwnerControl
    <3>3. CASE ~Jettisoned(heap, b)
      <4>1. c # None /\ (b = c \/ b = Alternative(heap, c))
        BY <2>1, <3>1, <3>3 DEF OwnerControl
      <4>2. c \in BlocksOf(heap)
        BY <2>1, <2>3, <4>1 DEF CodeControl
      <4>3. BaselineVersion(heap, e) = IF Tier(heap, c) = "Baseline" THEN c ELSE Alternative(heap, c)
        BY <4>1 DEF BaselineVersion, Tier, Alternative
      <4> HIDE DEF c
      <4>4. Alternative(heap, c) = b => Tier(heap, b) = "Baseline" /\ Tier(heap, c) # "Baseline"
        BY <2>1, <3>1, <4>2 DEF OwnerControl
      <4> QED
        BY <4>1, <4>3, <4>4
    <3> QED
      BY <3>2, <3>3
  <2> QED
    BY <2>3, <2>4 DEF Owner, Tier, Jettisoned, e, b, c
<1> QED
  BY <1>1, CodeInvariance, PTL

\* Code that may run: no block of it was jettisoned unless a frame executes it.
LEMMA MayRunBlocks ==
    ASSUME CodeInv, NEW b \in MayRun
    PROVE  Runs(heap, ToSet(frames), b)
<1>1. HeapTypes(heap) /\ CodeControl(heap) /\ OwnerControl(heap) /\ FrameControl(heap, ToSet(frames))
  BY DEF CodeInv, HeapInv
<1>2. CASE b \in Executing
  <2>1. PICK r \in ToSet(frames) : r.block = b /\ b # Freed
    BY <1>2, FrameSet
  <2> QED
    BY <1>1, <2>1 DEF FrameControl, Runs
<1>3. CASE b \notin Executing
  <2>1. PICK e \in heap.live : b \in WithAlternative(heap, heap.code[e])
    BY <1>3 DEF MayRun
  <2>2. e \in Functions
    BY <1>1 DEF HeapTypes
  <2>3. b \in BlocksOf(heap) /\ ~Jettisoned(heap, b)
    BY <1>1, <2>1, <2>2, CodeOfFunction
  <2> QED
    BY <2>3 DEF Runs
<1> QED
  BY <1>2, <1>3

\* A call in code that may run is linked to the newest code of a live callee, although ~CodeBlock
\* does not unlink the calls into a block.
THEOREM LinksAreCurrent == Spec => []LinksCurrent
<1>1. ASSUME CodeInv
      PROVE  LinksCurrent
  BY <1>1, MayRunBlocks DEF LinksCurrent, CodeInv, HeapInv, LinkControl
<1> QED
  BY <1>1, CodeInvariance, PTL

\* Optimized code runs only while what it was specialised for lives, and it can exit, also when it
\* was compiled while code was released: the fixpoint of markRoots and finalizeUnconditionally keep
\* what such code needs or jettison it, before it is linked as after. Excepted are the pairs that
\* the release has forgotten.
THEOREM SpeculationIsSound == Spec => []SpeculationSound
<1>1. ASSUME CodeInv
      PROVE  SpeculationSound
  <2> DEFINE R == ToSet(frames)
  <2>1. /\ HeapTypes(heap) /\ CodeControl(heap) /\ OwnerControl(heap) /\ ReferenceControl(heap)
        /\ FrameControl(heap, R) /\ ExitControl(heap, forgotten, R)
    BY <1>1 DEF CodeInv, HeapInv
  <2> SUFFICES ASSUME NEW b \in MayRun \cap Speculative(heap)
        PROVE  /\ heap.blocks[b].weakReferences \cup heap.blocks[b].inlined \subseteq heap.live
               /\ \A f \in heap.blocks[b].inlined \cup {heap.blocks[b].owner} :
                    BaselineVersion(heap, f) # None \/ <<b, f>> \in forgotten
    BY DEF SpeculationSound
  <2>2. Runs(heap, R, b) /\ b \in BlocksOf(heap) /\ Tier(heap, b) # "Baseline"
    BY <1>1, MayRunBlocks DEF Speculative, Tier
  <2>3. Weak(heap, b) \cup Inlined(heap, b) \subseteq heap.live
    <3>1. Refers(heap, b)
      <4>1. b # Freed /\ Tier(heap, b) \in {"Baseline", "Compiling", "DFG"}
        BY <2>1, <2>2, BlockTypes, Pointers DEF HeapTypes
      <4>2. Jettisoned(heap, b) => Tier(heap, b) # "Compiling"
        BY <2>1, <2>2, <4>1 DEF Runs, FrameControl
      <4> QED
        BY <2>2, <4>1, <4>2 DEF Refers
    <3> QED
      BY <2>1, <2>2, <3>1 DEF ReferenceControl
  <2>4. ASSUME NEW f \in Exits(heap, b)
        PROVE  BaselineVersion(heap, f) # None \/ <<b, f>> \in forgotten
    <3>1. heap.code[f] # None \/ <<b, f>> \in forgotten
      BY <2>1, <2>2 DEF ExitControl
    <3>2. f \in Functions
      BY <2>1, <2>2, BlockTypes DEF Exits
    <3> QED
      BY <2>1, <3>1, <3>2, BaselineVersions
  <2> QED
    BY <2>3, <2>4 DEF Weak, Inlined, Exits, Owner
<1> QED
  BY <1>1, CodeInvariance, PTL

\* Who owns a block.
LEMMA BlockOwners ==
    ASSUME NEW h, HeapTypes(h), CodeControl(h), OwnerControl(h), NEW b \in BlocksOf(h)
    PROVE  Cardinality({e \in h.live : h.code[e] = b} \cup {c \in BlocksOf(h) : Alternative(h, c) = b})
             = IF Jettisoned(h, b) THEN 0 ELSE 1
<1> DEFINE E == {e \in h.live : h.code[e] = b}
           A == {c \in BlocksOf(h) : Alternative(h, c) = b}
           o == Owner(h, b)
<1>1. b # None /\ o \in Functions /\ h.live \subseteq Functions
  BY BlockTypes, Pointers DEF HeapTypes
<1>2. \A e \in E : e = o /\ ~Jettisoned(h, b)
  BY <1>1 DEF CodeControl
<1>3. ASSUME NEW c \in A
      PROVE  ~Jettisoned(h, b) /\ c = h.code[o] /\ b # h.code[o]
  <2>1. c \in BlocksOf(h) /\ Alternative(h, c) = b
    OBVIOUS
  <2>2. Tier(h, b) = "Baseline" /\ Owner(h, c) = o /\ ~Jettisoned(h, c)
    BY <1>1, <2>1 DEF OwnerControl
  <2>3. Alternative(h, b) = None /\ ~Jettisoned(h, b)
    BY <2>2 DEF OwnerControl
  <2>4. h.code[o] # None /\ (c = h.code[o] \/ c = Alternative(h, h.code[o]))
    BY <2>1, <2>2 DEF OwnerControl
  <2>5. h.code[o] \in BlocksOf(h) /\ c \in Blocks
    BY <1>1, <2>1, <2>4 DEF CodeControl, HeapTypes
  <2>6. c = Alternative(h, h.code[o]) => Tier(h, c) = "Baseline"
    BY <2>5, Pointers DEF OwnerControl
  <2>7. Tier(h, c) # "Baseline"
    BY <1>1, <2>1 DEF OwnerControl
  <2> QED
    BY <1>1, <2>1, <2>3, <2>4, <2>6, <2>7
<1>4. CASE Jettisoned(h, b)
  <2>1. E \cup A = {}
    BY <1>2, <1>3, <1>4
  <2> HIDE DEF E, A
  <2> QED
    BY <1>4, <2>1, FS_EmptySet DEF E, A
<1>5. CASE ~Jettisoned(h, b)
  <2>1. h.code[o] # None /\ (b = h.code[o] \/ b = Alternative(h, h.code[o]))
    BY <1>5 DEF OwnerControl
  <2>2. h.code[o] \in BlocksOf(h) /\ o \in h.live
    BY <1>1, <2>1 DEF CodeControl
  <2>3. CASE b = h.code[o]
    <3>1. E = {o}
      BY <1>2, <2>2, <2>3
    <3>2. A = {}
      BY <1>3, <2>3
    <3>3. E \cup A = {o}
      BY <3>1, <3>2
    <3> HIDE DEF E, A
    <3> QED
      BY <1>5, <3>3, FS_Singleton DEF E, A
  <2>4. CASE b # h.code[o]
    <3>1. E = {}
      BY <1>2, <2>4
    <3>2. A = {h.code[o]}
      BY <1>3, <2>1, <2>2, <2>4
    <3>3. E \cup A = {h.code[o]}
      BY <3>1, <3>2
    <3> HIDE DEF E, A
    <3> QED
      BY <1>5, <3>3, FS_Singleton DEF E, A
  <2> QED
    BY <2>3, <2>4
<1> QED
  BY <1>4, <1>5

\* Types, and one owner for every block: an executable, the block it is the alternative of, or
\* DFGCodeBlocks.
THEOREM Typed == Spec => []TypeOK
<1>1. ASSUME CodeInv
      PROVE  TypeOK
  <2>1. HeapTypes(heap) /\ CodeControl(heap) /\ OwnerControl(heap)
    BY <1>1 DEF CodeInv, HeapInv
  <2>2. frames \in Seq([cell : Functions, block : Blocks \cup {Freed}]) /\ Len(frames) <= MaxDepth
    BY <1>1 DEF CodeInv, FrameTypes
  <2>3. \A l \in heap.links :
          l.caller \in BlocksOf(heap) /\ l.callee \in Functions /\ l.target \in Blocks \cup {Freed}
    BY <2>1, LinkParts DEF HeapTypes
  <2>4. \A b \in BlocksOf(heap) :
          Cardinality({e \in heap.live : heap.code[e] = b}
                        \cup {c \in BlocksOf(heap) : heap.blocks[c].alternative = b})
            = IF heap.blocks[b].isJettisoned THEN 0 ELSE 1
    <3> TAKE b \in BlocksOf(heap)
    <3>1. Cardinality({e \in heap.live : heap.code[e] = b} \cup {c \in BlocksOf(heap) : Alternative(heap, c) = b})
            = IF Jettisoned(heap, b) THEN 0 ELSE 1
      BY <2>1, BlockOwners
    <3> QED
      BY <3>1 DEF Alternative, Jettisoned
  <2>5. forgotten \subseteq Blocks \X Functions /\ compiling \in BOOLEAN
    BY <1>1 DEF CodeInv
  <2> QED
    BY <2>1, <2>2, <2>3, <2>4, <2>5 DEF TypeOK, HeapTypes
<1> QED
  BY <1>1, CodeInvariance, PTL
=============================================================================
