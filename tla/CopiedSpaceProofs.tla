------------------------- MODULE CopiedSpaceProofs -------------------------
(***************************************************************************)
(* The safety properties of CopiedSpace for every number of blocks and     *)
(* stores, every block capacity and every width of size_t.                 *)
(***************************************************************************)
EXTENDS CopiedSpace, TLAPS

\* The requests that wait for a block: they are not for oversize stores.
Storages == {Storage(s, n) : s \in Stores, n \in {m \in Sizes : ~Oversize(m)}}

\* The store that is being allocated or reallocated.
Pending(s) == request \in Storages /\ request.store = s

\* TypeOK in parts, with what it leaves open.
StoreTypes ==
    /\ place \in [Stores -> Blocks \cup {"oversize", "none"}]
    /\ offset \in [Stores -> 0..Capacity]
    /\ size \in [Stores -> Sizes \cup {0}]
    /\ DOMAIN pointer = Stores
    /\ owned \subseteq Stores
    /\ visited \subseteq Stores

BlockTypes ==
    /\ where \in [Blocks -> {"os", "free", "to", "from", "loaned"}]
    /\ fill \in [Blocks -> 0..(Capacity - 1)]
    /\ pinned \subseteq Blocks
    /\ set \subseteq Blocks
    /\ filter \subseteq Blocks
    /\ current \in Blocks \cup {NoBlock}
    /\ copyBlock \in Blocks \cup {NoBlock}

SizeTypes ==
    /\ utilized \in 0..(SizeRange - 1)
    /\ highWater \in 0..(SizeRange - 1)
    /\ cellMark \in Nat

StepTypes ==
    /\ phase \in Phases
    /\ request \in {NoRequest, Cells} \cup Storages

RequestControl ==
    /\ phase = "idle" => request = NoRequest
    /\ phase = "retry" => request = Cells
    /\ phase \in {"fresh", "insist"} => request \in Storages

Collecting == phase \in {"copying", "freeing", "crashed"}

\* Where the blocks are in each phase: from-space, pins and loans exist during a
\* collection only, and the current block is lost only there.
BlockControl ==
    /\ ~Collecting => In("from") = {} /\ pinned = {} /\ visited = {}
    /\ pinned \subseteq In("from")
    /\ phase # "copying" /\ phase # "crashed" => copyBlock = NoBlock
    /\ \A b \in Blocks : where[b] = "loaned" <=> b = copyBlock
    /\ phase \notin {"copying", "freeing", "current", "crashed"} => current \in In("to")

BlockInv ==
    /\ StoreTypes
    /\ BlockTypes
    /\ SizeTypes
    /\ StepTypes
    /\ RequestControl
    /\ BlockControl
    /\ SetBlocksOwned

\* A store with a live owner has its place: in to-space or in a block of its own
\* between collections; in from-space until this one has visited it; in a pinned
\* block or outside of from-space then.
PlaceControl ==
    /\ \A s \in owned : place[s] \in Blocks \cup {"oversize"} /\ size[s] \in Sizes
    /\ \A s \in owned : place[s] \in Blocks => where[place[s]] \in {"to", "from", "loaned"}
    /\ \A s \in owned : phase \in {"copying", "freeing"} /\ place[s] \in Blocks /\ s \in visited =>
          place[s] \in pinned \/ where[place[s]] # "from"
    /\ \A s \in owned : phase = "copying" /\ place[s] \in Blocks /\ s \notin visited =>
          where[place[s]] = "from"
    /\ phase = "freeing" => owned \subseteq visited

\* It lies below the fill of its block, unless the block was rolled back to make
\* room for the store itself.
FillControl ==
    \A s \in owned : place[s] \in Blocks /\ (Pending(s) => where[place[s]] = "loaned") =>
        offset[s] + size[s] <= fill[place[s]]

\* Two stores of a block share no unit, in every phase.
Disjoint ==
    \A s, t \in owned : s # t /\ place[s] = place[t] /\ place[s] \in Blocks =>
        offset[s] + size[s] <= offset[t] \/ offset[t] + size[t] <= offset[s]

StoreInv == phase # "crashed" => PlaceControl /\ FillControl /\ Disjoint

-----------------------------------------------------------------------------
(***************************************************************************)
(* size_t arithmetic and requests.                                         *)
(***************************************************************************)
\* Sums and differences of sizes are sizes, as they wrap.
LEMMA SizesWrap ==
    ASSUME NEW x \in Int, NEW y \in Int
    PROVE  Add(x, y) \in 0..(SizeRange - 1) /\ Subtract(x, y) \in 0..(SizeRange - 1)
BY CopyAssumption DEF Add, Subtract

\* A request for storage names a store and a size that fits a block.
LEMMA StorageRequest ==
    ASSUME NEW r \in Storages
    PROVE  /\ r.store \in Stores /\ r.size \in Sizes
           /\ r.size \in 1..(Capacity - 1)
           /\ r # NoRequest /\ r # Cells
BY CopyAssumption DEF Storages, Storage, Oversize, NoRequest, Cells

\* The requests that AllocateStore and ReallocateByCopy make.
LEMMA MakeRequest ==
    ASSUME NEW s \in Stores, NEW n \in Sizes, ~Oversize(n)
    PROVE  Storage(s, n) \in Storages /\ Storage(s, n).store = s /\ Storage(s, n).size = n
BY DEF Storages, Storage

-----------------------------------------------------------------------------
(***************************************************************************)
(* The blocks.                                                             *)
(***************************************************************************)
LEMMA TypesTogether == BlockInv => TypeOK
BY DEF BlockInv, TypeOK, StoreTypes, BlockTypes, SizeTypes, StepTypes

\* No block is owned twice when the space is created.
LEMMA BlockInit == Init => BlockInv
BY CopyAssumption DEF Init, BlockInv, StoreTypes, BlockTypes, SizeTypes, StepTypes, RequestControl,
     BlockControl, SetBlocksOwned, In, NoPointer, NoRequest, Phases, Collecting

\* The variables that are numbers.
LEMMA Numbers ==
    ASSUME BlockInv
    PROVE  /\ \A n \in Sizes : n \in Nat /\ n > 0
           /\ \A s \in Stores : size[s] \in Nat /\ offset[s] \in Nat
           /\ \A b \in Blocks : fill[b] \in Nat /\ fill[b] < Capacity
           /\ utilized \in Nat /\ Capacity \in Nat
<1>1. \A n \in Sizes : n \in Nat /\ n > 0
  BY CopyAssumption
<1>2. \A s \in Stores : size[s] \in Nat /\ offset[s] \in Nat
  <2> TAKE s \in Stores
  <2>1. size[s] \in Sizes \cup {0} /\ offset[s] \in 0..Capacity
    BY DEF BlockInv, StoreTypes
  <2>2. size[s] \in Nat
    BY <1>1, <2>1
  <2>3. offset[s] \in Nat
    BY <2>1
  <2> QED
    BY <2>2, <2>3
<1>3. \A b \in Blocks : fill[b] \in Nat /\ fill[b] < Capacity
  BY CopyAssumption DEF BlockInv, BlockTypes
<1>4. utilized \in Nat /\ Capacity \in Nat
  BY CopyAssumption DEF BlockInv, SizeTypes
<1> QED
  BY <1>1, <1>2, <1>3, <1>4

\* Every step keeps each block with one owner: the pool, a space, an oversize list or nobody.
LEMMA BlockStep == BlockInv /\ [Next]_vars => BlockInv'
<1> SUFFICES ASSUME BlockInv, [Next]_vars PROVE BlockInv'
  OBVIOUS
<1>0. /\ \A n \in Sizes : n \in Nat /\ n > 0
      /\ \A s \in Stores : size[s] \in Nat /\ offset[s] \in Nat
      /\ \A b \in Blocks : fill[b] \in Nat /\ fill[b] < Capacity
      /\ utilized \in Nat /\ Capacity \in Nat
  BY Numbers
<1> USE CopyAssumption DEF BlockInv, storeVars, blockVars, gcVars, sizeVars, stepVars, threadVars
<1>1. ASSUME GetFreshBlockCollects PROVE BlockInv'
  BY <1>1 DEF GetFreshBlockCollects, StoreTypes, BlockTypes, SizeTypes, StepTypes, RequestControl, BlockControl,
     SetBlocksOwned, In, Phases, Collecting, PutStore, ForgetStore, Storages
<1>2. ASSUME NEW b \in Blocks, AddNewBlock(b) PROVE BlockInv'
  <2>0. request \in Storages /\ request.store \in Stores /\ request.size \in Sizes
          /\ request.size \in 1..(Capacity - 1)
    BY <1>2, StorageRequest DEF AddNewBlock, NeedsBlock, RequestControl
  <2> USE <1>2 DEF AddNewBlock, NeedsBlock, Fresh
  <2>1. StoreTypes'
    BY <2>0 DEF StoreTypes, BlockTypes, PutStore, ForgetStore
  <2>2. BlockTypes'
    BY <2>0 DEF StoreTypes, BlockTypes, BlockControl, In
  <2>3. SizeTypes'
    BY SizesWrap DEF SizeTypes, StoreTypes, BlockTypes
  <2>4. StepTypes' /\ RequestControl'
    BY MakeRequest DEF StepTypes, Phases, RequestControl, Storages
  <2>5. BlockControl'
    BY DEF BlockControl, Collecting, In, BlockTypes, StoreTypes, SetBlocksOwned
  <2>6. SetBlocksOwned'
    BY DEF SetBlocksOwned, BlockControl, Collecting, In, BlockTypes
  <2> QED
    BY <2>1, <2>2, <2>3, <2>4, <2>5, <2>6
<1>3. ASSUME AllocationFails PROVE BlockInv'
  <2>0. request \in Storages /\ request.store \in Stores /\ request.size \in Sizes
          /\ request.size \in 1..(Capacity - 1)
    BY <1>3, StorageRequest DEF AllocationFails, NeedsBlock, RequestControl
  <2> USE <1>3 DEF AllocationFails, NeedsBlock
  <2>1. StoreTypes'
    BY <2>0 DEF StoreTypes, BlockTypes, PutStore, ForgetStore
  <2>2. BlockTypes'
    BY <2>0 DEF StoreTypes, BlockTypes, BlockControl, In
  <2>3. SizeTypes'
    BY SizesWrap DEF SizeTypes, StoreTypes, BlockTypes
  <2>4. StepTypes' /\ RequestControl'
    <3>1. phase' \in {"crashed", "idle"} /\ request' = NoRequest
      OBVIOUS
    <3> QED
      BY <3>1 DEF StepTypes, Phases, RequestControl, Storages
  <2>5. BlockControl'
    BY DEF BlockControl, Collecting, In, BlockTypes, StoreTypes, SetBlocksOwned
  <2>6. SetBlocksOwned'
    BY DEF SetBlocksOwned, BlockControl, Collecting, In, BlockTypes
  <2> QED
    BY <2>1, <2>2, <2>3, <2>4, <2>5, <2>6
<1>4. ASSUME NEW s \in Stores, NEW n \in Sizes, AllocateStore(s, n) PROVE BlockInv'
  <2> USE <1>4 DEF AllocateStore, Fits
  <2>0. /\ current \in Blocks /\ n \in Nat \ {0} /\ utilized \in Int
        /\ fill[current] \in 0..(Capacity - 1)
    BY DEF BlockControl, BlockTypes, SizeTypes, In
  <2>1. StoreTypes'
    BY <2>0 DEF StoreTypes, PutStore
  <2>2. BlockTypes'
    BY DEF StoreTypes, BlockTypes, BlockControl, In
  <2>3. SizeTypes'
    <3>0. utilized \in Int /\ n \in Int /\ fill[current] \in Int
      BY <2>0
    <3>1. Add(utilized, n) \in 0..(SizeRange - 1)
      BY <3>0, SizesWrap
    <3>2. Add(utilized, fill[current]) \in 0..(SizeRange - 1)
      BY <3>0, SizesWrap
    <3> QED
      BY <3>1, <3>2 DEF SizeTypes
  <2>4. StepTypes' /\ RequestControl'
    <3>1. CASE phase' = phase /\ request' = request
      BY <3>1 DEF StepTypes, RequestControl, Storages
    <3>2. CASE phase' = "fresh" /\ request' = Storage(s, n) /\ ~Oversize(n)
      <4>1. request' \in Storages
        BY <3>2, MakeRequest
      <4> QED
        BY <3>2, <4>1 DEF StepTypes, RequestControl, Storages, Phases
    <3> QED
      BY <3>1, <3>2
  <2>5. BlockControl'
    BY DEF BlockControl, Collecting, In, BlockTypes, StoreTypes, SetBlocksOwned
  <2>6. SetBlocksOwned'
    BY DEF SetBlocksOwned, BlockControl, Collecting, In, BlockTypes
  <2> QED
    BY <2>1, <2>2, <2>3, <2>4, <2>5, <2>6
<1>5. ASSUME NEW s \in Stores, NEW n \in Sizes, GrowInPlace(s, n) PROVE BlockInv'
  <2> USE <1>5 DEF GrowInPlace, Reallocatable, LastInCurrent
  <2>1. StoreTypes'
    BY DEF StoreTypes, BlockTypes, PutStore, ForgetStore
  <2>2. BlockTypes'
    BY DEF StoreTypes, BlockTypes, BlockControl, In
  <2>3. SizeTypes'
    <3>1. n - size[s] \in Int /\ utilized \in Int
      BY <1>0
    <3>2. Add(utilized, n - size[s]) \in 0..(SizeRange - 1)
      BY <3>1, SizesWrap
    <3> QED
      BY <3>2 DEF SizeTypes
  <2>4. StepTypes' /\ RequestControl'
    BY MakeRequest DEF StepTypes, Phases, RequestControl, Storages
  <2>5. BlockControl'
    BY DEF BlockControl, Collecting, In, BlockTypes, StoreTypes, SetBlocksOwned
  <2>6. SetBlocksOwned'
    BY DEF SetBlocksOwned, BlockControl, Collecting, In, BlockTypes
  <2> QED
    BY <2>1, <2>2, <2>3, <2>4, <2>5, <2>6
<1>6. ASSUME NEW s \in Stores, NEW n \in Sizes, ReallocateByCopy(s, n) PROVE BlockInv'
  <2> USE <1>6 DEF ReallocateByCopy, Reallocatable, LastInCurrent
  <2> DEFINE last == LastInCurrent(s)
             end  == IF last THEN offset[s] ELSE fill[current]
             less == Subtract(utilized, size[s])
  <2>0. /\ current \in Blocks /\ n \in Nat \ {0} /\ utilized \in Int /\ size[s] \in Int
        /\ end \in 0..(Capacity - 1)
    <3>1. current \in Blocks /\ phase = "idle"
      BY DEF BlockControl, In
    <3>2. LastInCurrent(s) => offset[s] <= fill[current]
      BY <1>0, <3>1
    <3>3. fill[current] \in 0..(Capacity - 1)
      BY <3>1 DEF BlockTypes
    <3>4. end \in 0..(Capacity - 1)
      BY <1>0, <3>1, <3>2, <3>3
    <3>5. n \in Nat \ {0} /\ size[s] \in Int /\ utilized \in Int
      BY <1>0
    <3> QED
      BY <3>1, <3>4, <3>5
  <2>a. less \in 0..(SizeRange - 1) /\ Add(less, end) \in 0..(SizeRange - 1)
    <3> HIDE DEF end
    <3>1. less \in 0..(SizeRange - 1)
      BY <2>0, SizesWrap
    <3>2. less \in Int /\ end \in Int
      BY <2>0, <3>1
    <3> HIDE DEF less
    <3>3. Add(less, end) \in 0..(SizeRange - 1)
      BY <3>2, SizesWrap
    <3> QED
      BY <3>1, <3>3
  <2>b. ASSUME end + n < Capacity
        PROVE  StoreTypes' /\ BlockTypes' /\ SizeTypes' /\ StepTypes' /\ RequestControl'
    <3>1. /\ PutStore(s, n, current, end) /\ fill' = [fill EXCEPT ![current] = end + n]
          /\ utilized' = less /\ UNCHANGED <<pointer, phase, request>>
      BY <2>b
    <3>2. StoreTypes'
      BY <2>0, <2>b, <3>1 DEF StoreTypes, PutStore
    <3>3. BlockTypes'
      BY <2>0, <2>b, <3>1 DEF BlockTypes
    <3>4. SizeTypes' /\ StepTypes' /\ RequestControl'
      BY <2>a, <3>1 DEF SizeTypes, StepTypes, RequestControl, Storages
    <3> QED
      BY <3>2, <3>3, <3>4
  <2>c. ASSUME ~(end + n < Capacity)
        PROVE  StoreTypes' /\ BlockTypes' /\ SizeTypes' /\ StepTypes' /\ RequestControl'
    <3>1. /\ fill' = [fill EXCEPT ![current] = end] /\ utilized' = Add(less, end)
          /\ pointer' = [pointer EXCEPT ![s] = Address(s)]
          /\ phase' = "fresh" /\ request' = Storage(s, n) /\ UNCHANGED <<place, offset, size>>
      BY <2>c
    <3>2. StoreTypes' /\ BlockTypes'
      BY <2>0, <3>1 DEF StoreTypes, BlockTypes
    <3>3. SizeTypes'
      BY <2>a, <3>1 DEF SizeTypes
    <3>4. request' \in Storages
      BY <3>1, MakeRequest
    <3>5. StepTypes' /\ RequestControl'
      BY <3>1, <3>4 DEF StepTypes, RequestControl, Storages, Phases
    <3> QED
      BY <3>2, <3>3, <3>5
  <2>d. StoreTypes' /\ BlockTypes' /\ SizeTypes' /\ StepTypes' /\ RequestControl'
    BY <2>b, <2>c
  <2>5. BlockControl'
    BY DEF BlockControl, Collecting, In, BlockTypes, StoreTypes, SetBlocksOwned
  <2>6. SetBlocksOwned'
    BY DEF SetBlocksOwned, BlockControl, Collecting, In, BlockTypes
  <2> QED
    BY <2>d, <2>5, <2>6
<1>7. ASSUME NEW s \in Stores, NEW n \in Sizes, ReallocateOversize(s, n) PROVE BlockInv'
  <2> USE <1>7 DEF ReallocateOversize, Reallocatable
  <2>1. StoreTypes'
    BY DEF StoreTypes, BlockTypes, PutStore, ForgetStore
  <2>2. BlockTypes'
    BY DEF StoreTypes, BlockTypes, BlockControl, In
  <2>3. SizeTypes'
    <3>1. n \in Int /\ size[s] \in Int /\ utilized \in Int
      <4>1. n \in Nat
        BY <1>0
      <4>2. size[s] \in Nat
        BY <1>0
      <4> QED
        BY <1>0, <4>1, <4>2
    <3>2. Add(utilized, n) \in 0..(SizeRange - 1)
      BY <3>1, SizesWrap
    <3>3. Add(utilized, n) \in Int
      BY <3>2
    <3>4. Subtract(Add(utilized, n), size[s]) \in 0..(SizeRange - 1)
      BY <3>1, <3>3, SizesWrap
    <3> QED
      BY <3>4 DEF SizeTypes
  <2>4. StepTypes' /\ RequestControl'
    BY MakeRequest DEF StepTypes, Phases, RequestControl, Storages
  <2>5. BlockControl'
    BY DEF BlockControl, Collecting, In, BlockTypes, StoreTypes, SetBlocksOwned
  <2>6. SetBlocksOwned'
    BY DEF SetBlocksOwned, BlockControl, Collecting, In, BlockTypes
  <2> QED
    BY <2>1, <2>2, <2>3, <2>4, <2>5, <2>6
<1>8. ASSUME StartCollection PROVE BlockInv'
  <2> USE <1>8 DEF StartCollection, MayContain
  <2>1. StoreTypes'
    BY DEF StoreTypes, BlockTypes, PutStore, ForgetStore
  <2>2. BlockTypes'
    BY DEF StoreTypes, BlockTypes, BlockControl, In
  <2>3. SizeTypes'
    BY SizesWrap DEF SizeTypes, StoreTypes, BlockTypes
  <2>4. StepTypes' /\ RequestControl'
    BY MakeRequest DEF StepTypes, Phases, RequestControl, Storages
  <2>5. BlockControl'
    BY DEF BlockControl, Collecting, In, BlockTypes, StoreTypes, SetBlocksOwned
  <2>6. SetBlocksOwned'
    BY DEF SetBlocksOwned, BlockControl, Collecting, In, BlockTypes
  <2> QED
    BY <2>1, <2>2, <2>3, <2>4, <2>5, <2>6
<1>9. ASSUME NEW s \in Stores, KeepStore(s) PROVE BlockInv'
  <2> USE <1>9 DEF KeepStore, ToCopy
  <2>1. StoreTypes'
    BY DEF StoreTypes, BlockTypes, PutStore, ForgetStore
  <2>2. BlockTypes'
    BY DEF StoreTypes, BlockTypes, BlockControl, In
  <2>3. SizeTypes'
    BY SizesWrap DEF SizeTypes, StoreTypes, BlockTypes
  <2>4. StepTypes' /\ RequestControl'
    BY MakeRequest DEF StepTypes, Phases, RequestControl, Storages
  <2>5. BlockControl'
    BY DEF BlockControl, Collecting, In, BlockTypes, StoreTypes, SetBlocksOwned
  <2>6. SetBlocksOwned'
    BY DEF SetBlocksOwned, BlockControl, Collecting, In, BlockTypes
  <2> QED
    BY <2>1, <2>2, <2>3, <2>4, <2>5, <2>6
<1>10. ASSUME NEW s \in Stores, CopyStore(s) PROVE BlockInv'
  <2> USE <1>10 DEF CopyStore, ToCopy, Fits
  <2>1. StoreTypes'
    BY DEF StoreTypes, BlockTypes, PutStore, ForgetStore
  <2>2. BlockTypes'
    <3>1. copyBlock \in Blocks /\ fill[copyBlock] \in 0..(Capacity - 1) /\ size[s] \in Nat
      BY <1>0 DEF BlockTypes
    <3> QED
      BY <3>1 DEF BlockTypes
  <2>3. SizeTypes'
    BY SizesWrap DEF SizeTypes, StoreTypes, BlockTypes
  <2>4. StepTypes' /\ RequestControl'
    BY MakeRequest DEF StepTypes, Phases, RequestControl, Storages
  <2>5. BlockControl'
    BY DEF BlockControl, Collecting, In, BlockTypes, StoreTypes, SetBlocksOwned
  <2>6. SetBlocksOwned'
    BY DEF SetBlocksOwned, BlockControl, Collecting, In, BlockTypes
  <2> QED
    BY <2>1, <2>2, <2>3, <2>4, <2>5, <2>6
<1>11. ASSUME NEW s \in Stores, NEW b \in Blocks, BorrowBlock(s, b) PROVE BlockInv'
  <2> USE <1>11 DEF BorrowBlock, NeedsCopyBlock, ToCopy, Fresh, ReturnCopyBlock
  <2>1. StoreTypes'
    BY DEF StoreTypes, BlockTypes, PutStore, ForgetStore
  <2>2. BlockTypes'
    BY DEF StoreTypes, BlockTypes, BlockControl, In
  <2>3. SizeTypes'
    <3>1. copyBlock # NoBlock => Add(utilized, fill[copyBlock]) \in 0..(SizeRange - 1)
      BY SizesWrap DEF SizeTypes, BlockTypes
    <3> QED
      BY <3>1 DEF SizeTypes
  <2>4. StepTypes' /\ RequestControl'
    BY MakeRequest DEF StepTypes, Phases, RequestControl, Storages
  <2>5. BlockControl'
    BY DEF BlockControl, Collecting, In, BlockTypes, StoreTypes, SetBlocksOwned
  <2>6. SetBlocksOwned'
    BY DEF SetBlocksOwned, BlockControl, Collecting, In, BlockTypes
  <2> QED
    BY <2>1, <2>2, <2>3, <2>4, <2>5, <2>6
<1>12. ASSUME CopyFails PROVE BlockInv'
  BY <1>12 DEF CopyFails, StoreTypes, BlockTypes, SizeTypes, StepTypes, RequestControl, BlockControl,
     SetBlocksOwned, In, Phases, Collecting, PutStore, ForgetStore, Storages
<1>13. ASSUME DoneMarking PROVE BlockInv'
  <2> USE <1>13 DEF DoneMarking, ReturnCopyBlock
  <2>1. StoreTypes'
    BY DEF StoreTypes, BlockTypes, PutStore, ForgetStore
  <2>2. BlockTypes'
    BY DEF StoreTypes, BlockTypes, BlockControl, In
  <2>3. SizeTypes'
    <3>1. copyBlock # NoBlock => Add(utilized, fill[copyBlock]) \in 0..(SizeRange - 1)
      BY SizesWrap DEF SizeTypes, BlockTypes
    <3> QED
      BY <3>1 DEF SizeTypes
  <2>4. StepTypes' /\ RequestControl'
    BY MakeRequest DEF StepTypes, Phases, RequestControl, Storages
  <2>5. BlockControl'
    BY DEF BlockControl, Collecting, In, BlockTypes, StoreTypes, SetBlocksOwned
  <2>6. SetBlocksOwned'
    BY DEF SetBlocksOwned, BlockControl, Collecting, In, BlockTypes
  <2> QED
    BY <2>1, <2>2, <2>3, <2>4, <2>5, <2>6
<1>14. ASSUME NEW b \in Blocks, FreeFromSpaceBlock(b) PROVE BlockInv'
  BY <1>14 DEF FreeFromSpaceBlock, StoreTypes, BlockTypes, SizeTypes, StepTypes, RequestControl, BlockControl,
     SetBlocksOwned, In, Phases, Collecting, PutStore, ForgetStore, Storages
<1>15. ASSUME NEW s \in Stores, FreeOversize(s) PROVE BlockInv'
  <2> USE <1>15 DEF FreeOversize, DeadOversize
  <2>1. StoreTypes'
    BY DEF StoreTypes, BlockTypes, PutStore, ForgetStore
  <2>2. BlockTypes'
    BY DEF StoreTypes, BlockTypes, BlockControl, In
  <2>3. SizeTypes'
    <3>1. utilized \in Int /\ size[s] \in Int
      BY <1>0
    <3>2. Subtract(utilized, size[s]) \in 0..(SizeRange - 1)
      BY <3>1, SizesWrap
    <3> QED
      BY <3>2 DEF SizeTypes
  <2>4. StepTypes' /\ RequestControl'
    BY MakeRequest DEF StepTypes, Phases, RequestControl, Storages
  <2>5. BlockControl'
    BY DEF BlockControl, Collecting, In, BlockTypes, StoreTypes, SetBlocksOwned
  <2>6. SetBlocksOwned'
    BY DEF SetBlocksOwned, BlockControl, Collecting, In, BlockTypes
  <2> QED
    BY <2>1, <2>2, <2>3, <2>4, <2>5, <2>6
<1>16. ASSUME ChooseCurrent PROVE BlockInv'
  BY <1>16 DEF ChooseCurrent, StoreTypes, BlockTypes, SizeTypes, StepTypes, RequestControl, BlockControl,
     SetBlocksOwned, In, Phases, Collecting, PutStore, ForgetStore, Storages
<1>17. ASSUME AddFirstBlock PROVE BlockInv'
  BY <1>17 DEF AddFirstBlock, StoreTypes, BlockTypes, SizeTypes, StepTypes, RequestControl, BlockControl,
     SetBlocksOwned, In, Phases, Collecting, PutStore, ForgetStore, Storages
<1>18. ASSUME NEW n \in 0..MaxObjects, NEW full \in 0..MaxObjects, EndCollection(n, full) PROVE BlockInv'
  <2> USE <1>18 DEF EndCollection
  <2>1. StoreTypes'
    BY DEF StoreTypes, BlockTypes, PutStore, ForgetStore
  <2>2. BlockTypes'
    BY DEF StoreTypes, BlockTypes, BlockControl, In
  <2>3. SizeTypes'
    BY SizesWrap DEF SizeTypes, StoreTypes, BlockTypes
  <2>4. StepTypes' /\ RequestControl'
    <3>1. CASE request = NoRequest
      BY <3>1 DEF StepTypes, RequestControl, NoRequest, Cells, Phases, Storages
    <3>2. CASE request = Cells
      BY <3>2 DEF StepTypes, RequestControl, NoRequest, Cells, Phases, Storages
    <3>3. CASE request \in Storages
      <4>1. request # NoRequest /\ request # Cells
        BY <3>3, StorageRequest
      <4>2. phase' = "insist" /\ request' = request
        BY <4>1
      <4> QED
        BY <3>3, <4>2 DEF StepTypes, RequestControl, Phases, Storages
    <3> QED
      BY <3>1, <3>2, <3>3 DEF StepTypes
  <2>5. BlockControl'
    BY DEF BlockControl, Collecting, In, BlockTypes, StoreTypes, SetBlocksOwned
  <2>6. SetBlocksOwned'
    BY DEF SetBlocksOwned, BlockControl, Collecting, In, BlockTypes
  <2> QED
    BY <2>1, <2>2, <2>3, <2>4, <2>5, <2>6
<1>19. ASSUME CollectAllGarbage PROVE BlockInv'
  BY <1>19 DEF CollectAllGarbage, StoreTypes, BlockTypes, SizeTypes, StepTypes, RequestControl, BlockControl,
     SetBlocksOwned, In, Phases, Collecting, PutStore, ForgetStore, Storages
<1>20. ASSUME ConsumeCells PROVE BlockInv'
  BY <1>20 DEF ConsumeCells, StoreTypes, BlockTypes, SizeTypes, StepTypes, RequestControl, BlockControl,
     SetBlocksOwned, In, Phases, Collecting, PutStore, ForgetStore, Storages
<1>21. ASSUME CollectForCells PROVE BlockInv'
  BY <1>21 DEF CollectForCells, StoreTypes, BlockTypes, SizeTypes, StepTypes, RequestControl, BlockControl,
     SetBlocksOwned, In, Phases, Collecting, PutStore, ForgetStore, Storages
<1>22. ASSUME RetryCells PROVE BlockInv'
  BY <1>22 DEF RetryCells, StoreTypes, BlockTypes, SizeTypes, StepTypes, RequestControl, BlockControl,
     SetBlocksOwned, In, Phases, Collecting, PutStore, ForgetStore, Storages
<1>23. ASSUME NEW s \in Stores, LoadPointer(s) PROVE BlockInv'
  BY <1>23 DEF LoadPointer, StoreTypes, BlockTypes, SizeTypes, StepTypes, RequestControl, BlockControl,
     SetBlocksOwned, In, Phases, Collecting, PutStore, ForgetStore, Storages
<1>24. ASSUME NEW s \in Stores, DropOwner(s) PROVE BlockInv'
  BY <1>24 DEF DropOwner, StoreTypes, BlockTypes, SizeTypes, StepTypes, RequestControl, BlockControl,
     SetBlocksOwned, In, Phases, Collecting, PutStore, ForgetStore, Storages
<1>25. ASSUME FreeingThreadWakes PROVE BlockInv'
  BY <1>25 DEF FreeingThreadWakes, StoreTypes, BlockTypes, SizeTypes, StepTypes, RequestControl, BlockControl,
     SetBlocksOwned, In, Phases, Collecting, PutStore, ForgetStore, Storages
<1>26. ASSUME NEW b \in Blocks, FreeingThreadFrees(b) PROVE BlockInv'
  BY <1>26 DEF FreeingThreadFrees, StoreTypes, BlockTypes, SizeTypes, StepTypes, RequestControl, BlockControl,
     SetBlocksOwned, In, Phases, Collecting, PutStore, ForgetStore, Storages
<1>27. ASSUME FreeingThreadSleeps PROVE BlockInv'
  BY <1>27 DEF FreeingThreadSleeps, StoreTypes, BlockTypes, SizeTypes, StepTypes, RequestControl, BlockControl,
     SetBlocksOwned, In, Phases, Collecting, PutStore, ForgetStore, Storages
<1>28. CASE UNCHANGED vars
  BY <1>28 DEF vars, StoreTypes, BlockTypes, SizeTypes, StepTypes, RequestControl, BlockControl,
     SetBlocksOwned, In, Phases, Collecting, PutStore, ForgetStore, Storages
<1>29. QED
  BY <1>1, <1>2, <1>3, <1>4, <1>5, <1>6, <1>7, <1>8, <1>9, <1>10, <1>11, <1>12, <1>13, <1>14, <1>15, <1>16, <1>17, <1>18, <1>19, <1>20, <1>21, <1>22, <1>23, <1>24, <1>25, <1>26, <1>27, <1>28 DEF Next, Mutator, Collector, FreeingThread

\* Types are kept, whatever the build.
THEOREM Typed == Spec => []TypeOK
<1>1. Spec => []BlockInv
  BY BlockInit, BlockStep, PTL DEF Spec
<1> QED
  BY <1>1, TypesTogether, PTL

\* m_toSpaceSet names blocks of CopiedSpace only: FreeFromSpaceBlock takes a block
\* out of the set before the free list, and the block freeing thread, get it.
THEOREM SetBlocksAreOwned == Spec => []SetBlocksOwned
<1>1. Spec => []BlockInv
  BY BlockInit, BlockStep, PTL DEF Spec
<1>2. BlockInv => SetBlocksOwned
  BY DEF BlockInv
<1> QED
  BY <1>1, <1>2, PTL

\* The program never runs without a current block of to-space, and never sees a
\* block pinned by the last collection.
THEOREM CurrentBlockIsOwned == Spec => []CurrentBlockOwned
<1>1. Spec => []BlockInv
  BY BlockInit, BlockStep, PTL DEF Spec
<1>2. BlockInv => CurrentBlockOwned
  BY DEF BlockInv, BlockControl, CurrentBlockOwned, Collecting
<1> QED
  BY <1>1, <1>2, PTL

-----------------------------------------------------------------------------
(***************************************************************************)
(* The stores.  A reallocation that finds no memory leaves a block rolled   *)
(* back over its last store, if the build goes on after it (AllocationFails *)
(* without assertions).  The stores are kept apart as long as that does not *)
(* happen.                                                                  *)
(***************************************************************************)
FailureStops == AllocationFails => phase' = "crashed"

\* No store is reachable when the space is created.
LEMMA StoreInit == Init => StoreInv
BY DEF Init, StoreInv, PlaceControl, FillControl, Disjoint

\* A crash is final.
LEMMA CrashIsFinal == phase = "crashed" /\ [Next]_vars => phase' = "crashed"
BY DEF Next, Mutator, Collector, FreeingThread, vars, stepVars, GetFreshBlockCollects, AddNewBlock,
   NeedsBlock, AllocationFails, AllocateStore, GrowInPlace, ReallocateByCopy, ReallocateOversize,
   Reallocatable, CollectAllGarbage, ConsumeCells, CollectForCells, RetryCells, LoadPointer, DropOwner,
   StartCollection, KeepStore, CopyStore, ToCopy, BorrowBlock, NeedsCopyBlock, CopyFails, DoneMarking,
   FreeFromSpaceBlock, FreeOversize, ChooseCurrent, AddFirstBlock, EndCollection, FreeingThreadWakes,
   FreeingThreadFrees, FreeingThreadSleeps

\* A store put at the end of a block, whose other stores lie below, is apart from
\* them, and all lie below the new end.
LEMMA PutAtEnd ==
    ASSUME BlockInv, PlaceControl, FillControl, Disjoint,
           NEW s \in Stores, NEW b \in Blocks, NEW n \in Sizes, NEW at \in Nat,
           PutStore(s, n, b, at), owned' = owned \cup {s}, fill' = [fill EXCEPT ![b] = at + n],
           \A t \in owned \ {s} : place[t] = b => offset[t] + size[t] <= at,
           \A t \in owned \ {s} : (Pending(t)' => where'[place[t]] = "loaned")
                                     => (Pending(t) => where[place[t]] = "loaned")
    PROVE  FillControl' /\ Disjoint'
<1>0. /\ n \in Nat /\ n > 0
      /\ \A t \in owned : size[t] \in Nat /\ offset[t] \in Nat /\ t \in Stores
      /\ \A c \in Blocks : fill[c] \in Nat
  BY Numbers DEF BlockInv, StoreTypes
<1>1. /\ place'[s] = b /\ offset'[s] = at /\ size'[s] = n
      /\ \A t \in owned \ {s} : place'[t] = place[t] /\ offset'[t] = offset[t] /\ size'[t] = size[t]
  BY DEF PutStore, BlockInv, StoreTypes
<1>2. fill'[b] = at + n /\ \A c \in Blocks \ {b} : fill'[c] = fill[c]
  BY DEF BlockInv, BlockTypes
<1>3. FillControl'
  <2> SUFFICES ASSUME NEW t \in owned', place'[t] \in Blocks, Pending(t)' => where'[place'[t]] = "loaned"
               PROVE  offset'[t] + size'[t] <= fill'[place'[t]]
    BY DEF FillControl
  <2>1. CASE t = s
    BY <2>1, <1>0, <1>1, <1>2
  <2>2. CASE t # s
    <3>1. t \in owned \ {s} /\ place'[t] = place[t] /\ offset'[t] = offset[t] /\ size'[t] = size[t]
      BY <2>2, <1>1
    <3>2. offset[t] + size[t] <= fill[place[t]]
      BY <3>1 DEF FillControl
    <3>3. CASE place[t] = b
      <4>1. offset[t] + size[t] <= at
        BY <3>1, <3>3
      <4> QED
        BY <3>1, <3>3, <4>1, <1>0, <1>2
    <3>4. CASE place[t] # b
      BY <3>1, <3>2, <3>4, <1>2
    <3> QED
      BY <3>3, <3>4
  <2> QED
    BY <2>1, <2>2
<1>4. Disjoint'
  <2> SUFFICES ASSUME NEW t \in owned', NEW u \in owned', t # u, place'[t] = place'[u], place'[t] \in Blocks
               PROVE  offset'[t] + size'[t] <= offset'[u] \/ offset'[u] + size'[u] <= offset'[t]
    BY DEF Disjoint
  <2>1. CASE t = s
    <3>1. u \in owned \ {s} /\ place[u] = b /\ offset'[u] = offset[u] /\ size'[u] = size[u]
      BY <2>1, <1>1
    <3>2. offset[u] + size[u] <= at
      BY <3>1
    <3> QED
      BY <2>1, <3>1, <3>2, <1>1
  <2>2. CASE u = s
    <3>1. t \in owned \ {s} /\ place[t] = b /\ offset'[t] = offset[t] /\ size'[t] = size[t]
      BY <2>2, <1>1
    <3>2. offset[t] + size[t] <= at
      BY <3>1
    <3> QED
      BY <2>2, <3>1, <3>2, <1>1
  <2>3. CASE t # s /\ u # s
    BY <2>3, <1>1 DEF Disjoint
  <2> QED
    BY <2>1, <2>2, <2>3
<1> QED
  BY <1>3, <1>4

\* Every step that does not survive a failed allocation keeps each live store within its block
\* and below the offset of allocation.
LEMMA StoreStep == BlockInv /\ StoreInv /\ [Next]_vars /\ FailureStops => StoreInv'
<1> SUFFICES ASSUME BlockInv, StoreInv, [Next]_vars, FailureStops, phase # "crashed", phase' # "crashed"
             PROVE  StoreInv'
  BY CrashIsFinal DEF StoreInv
<1> USE DEF StoreInv, storeVars, blockVars, gcVars, sizeVars, stepVars, threadVars
<1>0. PlaceControl /\ FillControl /\ Disjoint
  OBVIOUS
<1>1. ASSUME GetFreshBlockCollects PROVE StoreInv'
  <2> USE <1>0, <1>1 DEF GetFreshBlockCollects
  <2>1. PlaceControl'
    BY DEF PlaceControl, BlockInv, BlockControl, StoreTypes, BlockTypes, In, Collecting
  <2>2. FillControl'
    BY DEF FillControl, PlaceControl, Pending, BlockInv, BlockControl, RequestControl, StoreTypes, BlockTypes, In, Storages
  <2>3. Disjoint'
    BY DEF Disjoint, FillControl, PlaceControl, BlockInv, BlockControl, StoreTypes, BlockTypes, In
  <2> QED
    BY <2>1, <2>2, <2>3
<1>2. ASSUME NEW b \in Blocks, AddNewBlock(b) PROVE StoreInv'
  <2> DEFINE r == request.store
  <2>1. /\ phase \in {"fresh", "insist"} /\ request \in Storages
        /\ r \in Stores /\ request.size \in Sizes /\ request.size \in Nat
    BY <1>2, StorageRequest, Numbers DEF AddNewBlock, NeedsBlock, BlockInv, RequestControl
  <2>2. /\ where[b] \in {"free", "os"} /\ where' = [where EXCEPT ![b] = "to"]
        /\ phase' = "idle" /\ request' = NoRequest /\ UNCHANGED <<visited, pinned>>
        /\ PutStore(r, request.size, b, 0) /\ owned' = owned \cup {r}
    BY <1>2 DEF AddNewBlock, Fresh, In
  <2>3. \A t \in owned : place[t] # b
    BY <1>0, <2>2 DEF PlaceControl
  <2>4. \A t \in owned \ {r} : ~Pending(t)
    BY DEF Pending
  <2>5. fill' = [fill EXCEPT ![b] = 0 + request.size]
    <3>1. 0 + request.size = request.size
      BY <2>1
    <3> QED
      BY <1>2, <3>1 DEF AddNewBlock
  <2>6. FillControl' /\ Disjoint'
    <3>1. \A t \in owned \ {r} : place[t] = b => offset[t] + size[t] <= 0
      BY <2>3
    <3> QED
      BY <1>0, <2>1, <2>2, <2>4, <2>5, <3>1, PutAtEnd
  <2>7. PlaceControl'
    BY <1>0, <2>1, <2>2, <2>3 DEF PlaceControl, PutStore, BlockInv, StoreTypes, BlockTypes
  <2> QED
    BY <2>6, <2>7
<1>3. ASSUME AllocationFails PROVE StoreInv'
  <2> USE <1>0, <1>3 DEF AllocationFails, NeedsBlock, FailureStops
  <2>1. PlaceControl'
    BY DEF PlaceControl, BlockInv, BlockControl, StoreTypes, BlockTypes, In, Collecting
  <2>2. FillControl'
    BY DEF FillControl, PlaceControl, Pending, BlockInv, BlockControl, RequestControl, StoreTypes, BlockTypes, In, Storages
  <2>3. Disjoint'
    BY DEF Disjoint, FillControl, PlaceControl, BlockInv, BlockControl, StoreTypes, BlockTypes, In
  <2> QED
    BY <2>1, <2>2, <2>3
<1>4. ASSUME NEW s \in Stores, NEW n \in Sizes, AllocateStore(s, n) PROVE StoreInv'
  <2>1. /\ phase = "idle" /\ request = NoRequest /\ current \in Blocks /\ where[current] = "to"
        /\ s \notin owned /\ UNCHANGED <<where, pinned, visited>>
        /\ \A t \in owned : ~Pending(t)
    BY <1>4, <1>0, StorageRequest, CopyAssumption
       DEF AllocateStore, PlaceControl, BlockInv, RequestControl, BlockControl, In, Pending
  <2>2. ASSUME PutStore(s, n, "oversize", 0), owned' = owned \cup {s},
               UNCHANGED <<fill, phase, request>>
        PROVE  StoreInv'
    <3>1. /\ place'[s] = "oversize" /\ size'[s] = n
          /\ \A t \in owned : place'[t] = place[t] /\ offset'[t] = offset[t] /\ size'[t] = size[t]
      BY <2>1, <2>2 DEF PutStore, BlockInv, StoreTypes
    <3> QED
      BY <1>0, <2>1, <2>2, <3>1, CopyAssumption DEF PlaceControl, FillControl, Disjoint, Pending, Storages
  <2>3. ASSUME PutStore(s, n, current, fill[current]), owned' = owned \cup {s},
               fill' = [fill EXCEPT ![current] = @ + n], UNCHANGED <<phase, request>>
        PROVE  StoreInv'
    <3>1. \A t \in owned \ {s} : place[t] = current => offset[t] + size[t] <= fill[current]
      BY <1>0, <2>1 DEF FillControl
    <3>2. fill' = [fill EXCEPT ![current] = fill[current] + n] /\ fill[current] \in Nat
      BY <2>1, <2>3, Numbers DEF BlockInv, BlockTypes
    <3>a. \A t \in owned \ {s} : (Pending(t)' => where'[place[t]] = "loaned")
                                     => (Pending(t) => where[place[t]] = "loaned")
      BY <2>1
    <3>3. FillControl' /\ Disjoint'
      BY <1>0, <2>1, <2>3, <3>1, <3>2, <3>a, PutAtEnd
    <3>4. PlaceControl'
      BY <1>0, <2>1, <2>3 DEF PlaceControl, PutStore, BlockInv, StoreTypes
    <3> QED
      BY <3>3, <3>4
  <2>4. ASSUME phase' = "fresh", request' = Storage(s, n), ~Oversize(n),
               UNCHANGED <<place, offset, size, owned, fill>>
        PROVE  StoreInv'
    <3>1. PlaceControl' /\ Disjoint'
      BY <1>0, <2>1, <2>4 DEF PlaceControl, Disjoint
    <3>2. FillControl'
      BY <1>0, <2>1, <2>4 DEF FillControl
    <3> QED
      BY <3>1, <3>2
  <2> QED
    BY <1>4, <2>2, <2>3, <2>4 DEF AllocateStore
<1>5. ASSUME NEW s \in Stores, NEW n \in Sizes, GrowInPlace(s, n) PROVE StoreInv'
  <2>1. /\ phase = "idle" /\ request = NoRequest /\ current \in Blocks
        /\ s \in owned /\ place[s] = current /\ offset[s] + size[s] = fill[current] /\ n > size[s]
        /\ UNCHANGED <<where, pinned, visited, place, offset, owned, phase, request>>
        /\ size' = [size EXCEPT ![s] = n] /\ fill' = [fill EXCEPT ![current] = offset[s] + n]
        /\ \A t \in owned : ~Pending(t)
    BY <1>5, StorageRequest
       DEF GrowInPlace, Reallocatable, LastInCurrent, BlockInv, RequestControl, BlockControl, In, Pending
  <2>2. /\ n \in Nat /\ \A t \in owned : size[t] \in Nat /\ offset[t] \in Nat /\ t \in Stores
    BY Numbers DEF BlockInv, StoreTypes
  <2>3. /\ size'[s] = n /\ \A t \in owned \ {s} : size'[t] = size[t]
        /\ fill'[current] = offset[s] + n /\ \A c \in Blocks \ {current} : fill'[c] = fill[c]
    BY <2>1, <2>2 DEF BlockInv, StoreTypes, BlockTypes
  <2>4. \A t \in owned \ {s} : place[t] = current => offset[t] + size[t] <= offset[s]
    <3> TAKE t \in owned \ {s}
    <3> HAVE place[t] = current
    <3>1. size[t] \in Nat /\ size[t] > 0 /\ offset[t] + size[t] <= fill[current]
      BY <1>0, <2>1, Numbers DEF PlaceControl, FillControl
    <3>2. offset[s] + size[s] <= offset[t] \/ offset[t] + size[t] <= offset[s]
      BY <1>0, <2>1 DEF Disjoint
    <3> QED
      BY <2>1, <2>2, <3>1, <3>2
  <2>5. PlaceControl'
    BY <1>0, <2>1, <2>3 DEF PlaceControl
  <2>6. FillControl'
    <3> SUFFICES ASSUME NEW t \in owned, place[t] \in Blocks
                 PROVE  offset[t] + size'[t] <= fill'[place[t]]
      BY <2>1 DEF FillControl
    <3>1. CASE t = s
      BY <2>1, <2>2, <2>3, <3>1
    <3>2. CASE t # s /\ place[t] = current
      BY <2>1, <2>2, <2>3, <2>4, <3>2
    <3>3. CASE place[t] # current
      BY <1>0, <2>1, <2>3, <3>3 DEF FillControl
    <3> QED
      BY <3>1, <3>2, <3>3
  <2>7. Disjoint'
    BY <1>0, <2>1, <2>2, <2>3, <2>4 DEF Disjoint
  <2> QED
    BY <2>5, <2>6, <2>7
<1>6. ASSUME NEW s \in Stores, NEW n \in Sizes, ReallocateByCopy(s, n) PROVE StoreInv'
  <2> DEFINE last == LastInCurrent(s)
             end  == IF last THEN offset[s] ELSE fill[current]
  <2>1. /\ phase = "idle" /\ request = NoRequest /\ current \in Blocks /\ where[current] = "to"
        /\ s \in owned /\ UNCHANGED <<where, pinned, visited, owned>>
        /\ \A t \in owned : ~Pending(t)
    BY <1>6, StorageRequest
       DEF ReallocateByCopy, Reallocatable, BlockInv, RequestControl, BlockControl, In, Pending
  <2>2. /\ n \in Nat /\ \A t \in owned : size[t] \in Nat /\ offset[t] \in Nat /\ t \in Stores
        /\ fill[current] \in Nat
    BY <2>1, Numbers DEF BlockInv, StoreTypes
  <2>3. ASSUME end + n < Capacity PROVE StoreInv'
    <3>1. ~last /\ PutStore(s, n, current, end) /\ UNCHANGED <<phase, request>>
          /\ fill' = [fill EXCEPT ![current] = end + n]
      BY <1>6, <2>3 DEF ReallocateByCopy
    <3>2. end = fill[current] /\ owned' = owned \cup {s}
      BY <2>1, <3>1
    <3>3. \A t \in owned \ {s} : place[t] = current => offset[t] + size[t] <= end
      BY <1>0, <2>1, <3>2 DEF FillControl
    <3>4. FillControl' /\ Disjoint'
      <4> HIDE DEF end
      <4>1. end \in Nat /\ s \in Stores
        BY <2>2, <3>2
      <4> QED
        BY ZenonT(60), <1>0, <2>1, <3>1, <3>2, <3>3, <4>1, PutAtEnd
    <3>5. PlaceControl'
      BY <1>0, <2>1, <3>1 DEF PlaceControl, PutStore, BlockInv, StoreTypes
    <3> QED
      BY <3>4, <3>5
  <2>4. ASSUME ~(end + n < Capacity) PROVE StoreInv'
    <3>1. /\ fill' = [fill EXCEPT ![current] = end] /\ UNCHANGED <<place, offset, size>>
          /\ phase' = "fresh" /\ request' = Storage(s, n) /\ ~Oversize(n)
      BY <1>6, <2>4 DEF ReallocateByCopy
    <3>2. request' \in Storages /\ request'.store = s
      BY <2>1, <2>2, <3>1, MakeRequest
    <3>3. PlaceControl' /\ Disjoint'
      BY <1>0, <2>1, <3>1 DEF PlaceControl, Disjoint
    <3>4. FillControl'
      <4> SUFFICES ASSUME NEW t \in owned, place[t] \in Blocks, t # s \/ where[place[t]] = "loaned"
                   PROVE  offset[t] + size[t] <= fill'[place[t]]
        BY <2>1, <3>1, <3>2 DEF FillControl, Pending
      <4>1. fill'[current] = end /\ \A c \in Blocks \ {current} : fill'[c] = fill[c]
        BY <2>1, <3>1 DEF BlockInv, BlockTypes
      <4>2. offset[t] + size[t] <= fill[place[t]]
        BY <1>0, <2>1 DEF FillControl
      <4>3. CASE place[t] # current \/ ~last
        BY <4>1, <4>2, <4>3
      <4>4. CASE place[t] = current /\ last
        <5>1. t # s /\ place[s] = current /\ offset[s] + size[s] = fill[current]
          BY <2>1, <4>4 DEF LastInCurrent
        <5>2. size[t] > 0
          BY <1>0, Numbers DEF PlaceControl
        <5>3. offset[s] + size[s] <= offset[t] \/ offset[t] + size[t] <= offset[s]
          BY <1>0, <2>1, <4>4, <5>1 DEF Disjoint
        <5>4. offset[t] + size[t] <= offset[s]
          BY <2>1, <2>2, <4>2, <4>4, <5>1, <5>2, <5>3
        <5> QED
          BY <4>1, <4>4, <5>4
      <4> QED
        BY <4>3, <4>4
    <3> QED
      BY <3>3, <3>4
  <2> QED
    BY <2>3, <2>4
<1>7. ASSUME NEW s \in Stores, NEW n \in Sizes, ReallocateOversize(s, n) PROVE StoreInv'
  <2>1. /\ phase = "idle" /\ s \in owned /\ PutStore(s, n, "oversize", 0)
        /\ UNCHANGED <<owned, where, pinned, fill, visited, phase, request>>
    BY <1>7 DEF ReallocateOversize, Reallocatable
  <2>2. /\ place'[s] = "oversize" /\ size'[s] = n /\ "oversize" \notin Blocks
        /\ \A t \in owned \ {s} : place'[t] = place[t] /\ offset'[t] = offset[t] /\ size'[t] = size[t]
    BY <2>1, CopyAssumption DEF PutStore, BlockInv, StoreTypes
  <2>3. PlaceControl'
    BY <1>0, <2>1, <2>2 DEF PlaceControl
  <2>4. FillControl'
    BY <1>0, <2>1, <2>2 DEF FillControl, Pending, Storages
  <2>5. Disjoint'
    BY <1>0, <2>1, <2>2 DEF Disjoint
  <2> QED
    BY <2>3, <2>4, <2>5
<1>8. ASSUME StartCollection PROVE StoreInv'
  <2>1. /\ phase = "collect" /\ phase' = "copying"
        /\ where' = [b \in Blocks |-> IF where[b] = "to" THEN "from" ELSE where[b]]
        /\ UNCHANGED <<place, offset, size, owned, fill, visited, request>>
        /\ In("from") = {} /\ visited = {} /\ copyBlock = NoBlock
        /\ \A b \in Blocks : where[b] # "loaned"
    BY <1>8, CopyAssumption DEF StartCollection, BlockInv, BlockControl, Collecting
  <2>2. PlaceControl'
    BY <1>0, <2>1 DEF PlaceControl, In
  <2>3. FillControl'
    BY <1>0, <2>1 DEF FillControl, Pending, Storages
  <2>4. Disjoint'
    BY <1>0, <2>1 DEF Disjoint
  <2> QED
    BY <2>2, <2>3, <2>4
<1>9. ASSUME NEW s \in Stores, KeepStore(s) PROVE StoreInv'
  <2>1. /\ phase = "copying" /\ place[s] \in pinned \cup {"oversize"} /\ visited' = visited \cup {s}
        /\ UNCHANGED <<place, offset, size, owned, where, fill, pinned, phase, request>>
    BY <1>9 DEF KeepStore, ToCopy
  <2>2. PlaceControl'
    BY <1>0, <2>1, CopyAssumption DEF PlaceControl
  <2>3. FillControl' /\ Disjoint'
    BY <1>0, <2>1 DEF FillControl, Disjoint, Pending, Storages
  <2> QED
    BY <2>2, <2>3
<1>10. ASSUME NEW s \in Stores, CopyStore(s) PROVE StoreInv'
  <2>1. /\ phase = "copying" /\ s \in owned \ visited /\ copyBlock \in Blocks /\ where[copyBlock] = "loaned"
        /\ PutStore(s, size[s], copyBlock, fill[copyBlock]) /\ visited' = visited \cup {s}
        /\ fill' = [fill EXCEPT ![copyBlock] = fill[copyBlock] + size[s]]
        /\ UNCHANGED <<owned, where, pinned, phase, request>>
    BY <1>10 DEF CopyStore, ToCopy, BlockInv, BlockControl, BlockTypes
  <2>2. \A t \in owned \ {s} : place[t] = copyBlock => offset[t] + size[t] <= fill[copyBlock]
    BY <1>0, <2>1 DEF FillControl
  <2>3. size[s] \in Sizes /\ fill[copyBlock] \in Nat /\ owned' = owned \cup {s}
    BY <1>0, <2>1, Numbers DEF PlaceControl
  <2>4. FillControl' /\ Disjoint'
    <3>1. \A t \in owned \ {s} : (Pending(t)' => where'[place[t]] = "loaned")
                                     => (Pending(t) => where[place[t]] = "loaned")
      BY <2>1 DEF Pending, Storages
    <3> QED
      BY <1>0, <2>1, <2>2, <2>3, <3>1, PutAtEnd
  <2>5. PlaceControl'
    BY <1>0, <2>1, <2>3 DEF PlaceControl, PutStore, BlockInv, StoreTypes, BlockTypes
  <2> QED
    BY <2>4, <2>5
<1>11. ASSUME NEW s \in Stores, NEW b \in Blocks, BorrowBlock(s, b) PROVE StoreInv'
  <2> USE <1>0, <1>11 DEF BorrowBlock, NeedsCopyBlock, ToCopy, Fresh
  <2>1. PlaceControl'
    BY DEF PlaceControl, BlockInv, BlockControl, StoreTypes, BlockTypes, In, Collecting
  <2>2. FillControl'
    BY DEF FillControl, PlaceControl, Pending, BlockInv, BlockControl, RequestControl, StoreTypes, BlockTypes, In, Storages
  <2>3. Disjoint'
    BY DEF Disjoint, FillControl, PlaceControl, BlockInv, BlockControl, StoreTypes, BlockTypes, In
  <2> QED
    BY <2>1, <2>2, <2>3
<1>12. ASSUME CopyFails PROVE StoreInv'
  <2> USE <1>0, <1>12 DEF CopyFails
  <2>1. PlaceControl'
    BY DEF PlaceControl, BlockInv, BlockControl, StoreTypes, BlockTypes, In, Collecting
  <2>2. FillControl'
    BY DEF FillControl, PlaceControl, Pending, BlockInv, BlockControl, RequestControl, StoreTypes, BlockTypes, In, Storages
  <2>3. Disjoint'
    BY DEF Disjoint, FillControl, PlaceControl, BlockInv, BlockControl, StoreTypes, BlockTypes, In
  <2> QED
    BY <2>1, <2>2, <2>3
<1>13. ASSUME DoneMarking PROVE StoreInv'
  <2> USE <1>0, <1>13 DEF DoneMarking
  <2>1. PlaceControl'
    BY DEF PlaceControl, BlockInv, BlockControl, StoreTypes, BlockTypes, In, Collecting
  <2>2. FillControl'
    BY DEF FillControl, PlaceControl, Pending, BlockInv, BlockControl, RequestControl, StoreTypes, BlockTypes, In, Storages
  <2>3. Disjoint'
    BY DEF Disjoint, FillControl, PlaceControl, BlockInv, BlockControl, StoreTypes, BlockTypes, In
  <2> QED
    BY <2>1, <2>2, <2>3
<1>14. ASSUME NEW b \in Blocks, FreeFromSpaceBlock(b) PROVE StoreInv'
  <2> USE <1>0, <1>14 DEF FreeFromSpaceBlock
  <2>1. PlaceControl'
    BY DEF PlaceControl, BlockInv, BlockControl, StoreTypes, BlockTypes, In, Collecting
  <2>2. FillControl'
    BY DEF FillControl, PlaceControl, Pending, BlockInv, BlockControl, RequestControl, StoreTypes, BlockTypes, In, Storages
  <2>3. Disjoint'
    BY DEF Disjoint, FillControl, PlaceControl, BlockInv, BlockControl, StoreTypes, BlockTypes, In
  <2> QED
    BY <2>1, <2>2, <2>3
<1>15. ASSUME NEW s \in Stores, FreeOversize(s) PROVE StoreInv'
  <2> USE <1>0, <1>15 DEF FreeOversize, DeadOversize, ForgetStore, PutStore
  <2>1. PlaceControl'
    BY DEF PlaceControl, BlockInv, BlockControl, StoreTypes, BlockTypes, In, Collecting
  <2>2. FillControl'
    BY DEF FillControl, PlaceControl, Pending, BlockInv, BlockControl, RequestControl, StoreTypes, BlockTypes, In, Storages
  <2>3. Disjoint'
    BY DEF Disjoint, FillControl, PlaceControl, BlockInv, BlockControl, StoreTypes, BlockTypes, In
  <2> QED
    BY <2>1, <2>2, <2>3
<1>16. ASSUME ChooseCurrent PROVE StoreInv'
  <2> USE <1>0, <1>16 DEF ChooseCurrent
  <2>1. PlaceControl'
    BY DEF PlaceControl, BlockInv, BlockControl, StoreTypes, BlockTypes, In, Collecting
  <2>2. FillControl'
    BY DEF FillControl, PlaceControl, Pending, BlockInv, BlockControl, RequestControl, StoreTypes, BlockTypes, In, Storages
  <2>3. Disjoint'
    BY DEF Disjoint, FillControl, PlaceControl, BlockInv, BlockControl, StoreTypes, BlockTypes, In
  <2> QED
    BY <2>1, <2>2, <2>3
<1>17. ASSUME AddFirstBlock PROVE StoreInv'
  <2> USE <1>0, <1>17 DEF AddFirstBlock, Fresh
  <2>1. PlaceControl'
    BY DEF PlaceControl, BlockInv, BlockControl, StoreTypes, BlockTypes, In, Collecting
  <2>2. FillControl'
    BY DEF FillControl, PlaceControl, Pending, BlockInv, BlockControl, RequestControl, StoreTypes, BlockTypes, In, Storages
  <2>3. Disjoint'
    BY DEF Disjoint, FillControl, PlaceControl, BlockInv, BlockControl, StoreTypes, BlockTypes, In
  <2> QED
    BY <2>1, <2>2, <2>3
<1>18. ASSUME NEW n \in 0..MaxObjects, NEW full \in 0..MaxObjects, EndCollection(n, full) PROVE StoreInv'
  <2> USE <1>0, <1>18 DEF EndCollection
  <2>1. PlaceControl'
    BY DEF PlaceControl, BlockInv, BlockControl, StoreTypes, BlockTypes, In, Collecting
  <2>2. FillControl'
    BY DEF FillControl, PlaceControl, Pending, BlockInv, BlockControl, RequestControl, StoreTypes, BlockTypes, In, Storages
  <2>3. Disjoint'
    BY DEF Disjoint, FillControl, PlaceControl, BlockInv, BlockControl, StoreTypes, BlockTypes, In
  <2> QED
    BY <2>1, <2>2, <2>3
<1>19. ASSUME CollectAllGarbage PROVE StoreInv'
  <2> USE <1>0, <1>19 DEF CollectAllGarbage
  <2>1. PlaceControl'
    BY DEF PlaceControl, BlockInv, BlockControl, StoreTypes, BlockTypes, In, Collecting
  <2>2. FillControl'
    BY DEF FillControl, PlaceControl, Pending, BlockInv, BlockControl, RequestControl, StoreTypes, BlockTypes, In, Storages
  <2>3. Disjoint'
    BY DEF Disjoint, FillControl, PlaceControl, BlockInv, BlockControl, StoreTypes, BlockTypes, In
  <2> QED
    BY <2>1, <2>2, <2>3
<1>20. ASSUME ConsumeCells PROVE StoreInv'
  <2> USE <1>0, <1>20 DEF ConsumeCells
  <2>1. PlaceControl'
    BY DEF PlaceControl, BlockInv, BlockControl, StoreTypes, BlockTypes, In, Collecting
  <2>2. FillControl'
    BY DEF FillControl, PlaceControl, Pending, BlockInv, BlockControl, RequestControl, StoreTypes, BlockTypes, In, Storages
  <2>3. Disjoint'
    BY DEF Disjoint, FillControl, PlaceControl, BlockInv, BlockControl, StoreTypes, BlockTypes, In
  <2> QED
    BY <2>1, <2>2, <2>3
<1>21. ASSUME CollectForCells PROVE StoreInv'
  <2>1. /\ request \notin Storages /\ request' \notin Storages
        /\ UNCHANGED <<place, offset, size, owned, where, fill, pinned, visited>>
        /\ phase \in {"idle", "retry"} /\ phase' \in {"idle", "collect"}
    BY <1>21, StorageRequest DEF CollectForCells, BlockInv, RequestControl
  <2> QED
    BY <1>0, <2>1 DEF PlaceControl, FillControl, Disjoint, Pending, Storages
<1>22. ASSUME RetryCells PROVE StoreInv'
  <2>1. /\ request \notin Storages /\ request' \notin Storages
        /\ UNCHANGED <<place, offset, size, owned, where, fill, pinned, visited>>
        /\ phase \in {"idle", "retry"} /\ phase' \in {"idle", "collect"}
    BY <1>22, StorageRequest DEF RetryCells, BlockInv, RequestControl
  <2> QED
    BY <1>0, <2>1 DEF PlaceControl, FillControl, Disjoint, Pending, Storages
<1>23. ASSUME NEW s \in Stores, LoadPointer(s) PROVE StoreInv'
  <2> USE <1>0, <1>23 DEF LoadPointer
  <2>1. PlaceControl'
    BY DEF PlaceControl, BlockInv, BlockControl, StoreTypes, BlockTypes, In, Collecting
  <2>2. FillControl'
    BY DEF FillControl, PlaceControl, Pending, BlockInv, BlockControl, RequestControl, StoreTypes, BlockTypes, In, Storages
  <2>3. Disjoint'
    BY DEF Disjoint, FillControl, PlaceControl, BlockInv, BlockControl, StoreTypes, BlockTypes, In
  <2> QED
    BY <2>1, <2>2, <2>3
<1>24. ASSUME NEW s \in Stores, DropOwner(s) PROVE StoreInv'
  <2> USE <1>0, <1>24 DEF DropOwner, ForgetStore, PutStore
  <2>1. PlaceControl'
    BY DEF PlaceControl, BlockInv, BlockControl, StoreTypes, BlockTypes, In, Collecting
  <2>2. FillControl'
    BY DEF FillControl, PlaceControl, Pending, BlockInv, BlockControl, RequestControl, StoreTypes, BlockTypes, In, Storages
  <2>3. Disjoint'
    BY DEF Disjoint, FillControl, PlaceControl, BlockInv, BlockControl, StoreTypes, BlockTypes, In
  <2> QED
    BY <2>1, <2>2, <2>3
<1>25. ASSUME FreeingThreadWakes PROVE StoreInv'
  <2> USE <1>0, <1>25 DEF FreeingThreadWakes
  <2>1. PlaceControl'
    BY DEF PlaceControl, BlockInv, BlockControl, StoreTypes, BlockTypes, In, Collecting
  <2>2. FillControl'
    BY DEF FillControl, PlaceControl, Pending, BlockInv, BlockControl, RequestControl, StoreTypes, BlockTypes, In, Storages
  <2>3. Disjoint'
    BY DEF Disjoint, FillControl, PlaceControl, BlockInv, BlockControl, StoreTypes, BlockTypes, In
  <2> QED
    BY <2>1, <2>2, <2>3
<1>26. ASSUME NEW b \in Blocks, FreeingThreadFrees(b) PROVE StoreInv'
  <2> USE <1>0, <1>26 DEF FreeingThreadFrees
  <2>1. PlaceControl'
    BY DEF PlaceControl, BlockInv, BlockControl, StoreTypes, BlockTypes, In, Collecting
  <2>2. FillControl'
    BY DEF FillControl, PlaceControl, Pending, BlockInv, BlockControl, RequestControl, StoreTypes, BlockTypes, In, Storages
  <2>3. Disjoint'
    BY DEF Disjoint, FillControl, PlaceControl, BlockInv, BlockControl, StoreTypes, BlockTypes, In
  <2> QED
    BY <2>1, <2>2, <2>3
<1>27. ASSUME FreeingThreadSleeps PROVE StoreInv'
  <2> USE <1>0, <1>27 DEF FreeingThreadSleeps
  <2>1. PlaceControl'
    BY DEF PlaceControl, BlockInv, BlockControl, StoreTypes, BlockTypes, In, Collecting
  <2>2. FillControl'
    BY DEF FillControl, PlaceControl, Pending, BlockInv, BlockControl, RequestControl, StoreTypes, BlockTypes, In, Storages
  <2>3. Disjoint'
    BY DEF Disjoint, FillControl, PlaceControl, BlockInv, BlockControl, StoreTypes, BlockTypes, In
  <2> QED
    BY <2>1, <2>2, <2>3
<1>28. CASE UNCHANGED vars
  BY <1>28 DEF vars, PlaceControl, FillControl, Disjoint, Pending, Storages
<1>29. QED
  BY <1>1, <1>2, <1>3, <1>4, <1>5, <1>6, <1>7, <1>8, <1>9, <1>10, <1>11, <1>12, <1>13, <1>14, <1>15, <1>16, <1>17, <1>18, <1>19, <1>20, <1>21, <1>22, <1>23, <1>24, <1>25, <1>26, <1>27, <1>28 DEF Next, Mutator, Collector, FreeingThread

\* Stores that end below the offset and do not overlap when they are carved stay disjoint.
LEMMA StoresApart == BlockInv /\ StoreInv => LiveStoresDisjoint
<1> SUFFICES ASSUME BlockInv, StoreInv, phase = "idle", NEW s \in owned
             PROVE  /\ place[s] \in In("to") \cup {"oversize"}
                    /\ place[s] \in Blocks => offset[s] + size[s] <= fill[place[s]]
                    /\ \A t \in owned \ {s} :
                          place[t] = place[s] /\ place[s] \in Blocks =>
                              offset[s] + size[s] <= offset[t] \/ offset[t] + size[t] <= offset[s]
  BY DEF LiveStoresDisjoint
<1>1. ~Pending(s)
  BY StorageRequest DEF BlockInv, RequestControl, Pending
<1>2. place[s] \in In("to") \cup {"oversize"}
  BY CopyAssumption DEF StoreInv, PlaceControl, BlockInv, BlockControl, Collecting, In
<1> QED
  BY <1>1, <1>2 DEF StoreInv, FillControl, Disjoint

\* Backing stores are kept apart for as long as no allocation fails that the
\* program survives: bumping, rolling back, growing in place, copying, pinning
\* and freeing blocks beside the freeing thread never make two live stores
\* overlap, nor leave one outside of to-space or beyond the fill of its block.
THEOREM LiveStoresAreDisjoint == Spec /\ [][FailureStops]_vars => []LiveStoresDisjoint
<1>1. BlockInv /\ StoreInv /\ [Next]_vars /\ [FailureStops]_vars => StoreInv'
  <2>1. CASE FailureStops
    BY <2>1, StoreStep
  <2>2. CASE UNCHANGED vars
    BY <2>2 DEF vars, StoreInv, PlaceControl, FillControl, Disjoint, Pending, Storages
  <2> QED
    BY <2>1, <2>2
<1>2. Spec => []BlockInv
  BY BlockInit, BlockStep, PTL DEF Spec
<1>3. Spec /\ [][FailureStops]_vars => []StoreInv
  BY <1>1, <1>2, StoreInit, PTL DEF Spec
<1> QED
  BY <1>2, <1>3, StoresApart, PTL

\* In a build with assertions an allocation that fails stops the program, so the
\* stores are apart in all its behaviours.
THEOREM LiveStoresAreDisjointInDebugBuilds ==
    ASSUME AssertionsEnabled PROVE Spec => []LiveStoresDisjoint
<1>1. [Next]_vars => [FailureStops]_vars
  BY DEF FailureStops, AllocationFails
<1>2. Spec => [][FailureStops]_vars
  BY <1>1, PTL DEF Spec
<1> QED
  BY <1>2, LiveStoresAreDisjoint, PTL

=============================================================================
