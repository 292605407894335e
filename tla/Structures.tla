----------------------------- MODULE Structures -----------------------------
(***************************************************************************)
(* Hidden classes (runtime/Structure.cpp, runtime/JSObject.h) and the      *)
(* inline caches that rely on them (jit/JITStubs.cpp).                     *)
(*                                                                         *)
(* An object keeps its values in numbered slots; its structure says which  *)
(* property is in which slot.  Objects that grew the same way share a      *)
(* structure.  Adding a property moves the object along a transition; the  *)
(* new structure takes the property table away from its parent, which      *)
(* rebuilds ("materializes") one from the chain of transitions when it is  *)
(* asked again.  Any other change pins a private copy of the table, and a  *)
(* delete, or too many transitions, makes the structure a dictionary that  *)
(* is edited in place.  A table entry may name the function the slot       *)
(* holds; writing another value has to despecify it.                       *)
(*                                                                         *)
(* Compiled code remembers a structure with a slot, a transition or a      *)
(* function, and reads and writes objects without asking the table.        *)
(*                                                                         *)
(* Attributes, accessors, the prototype's value and the capacity of the    *)
(* storage are left out.                                                   *)
(***************************************************************************)
EXTENDS Integers, FiniteSets, SequencesExt

CONSTANTS
    Objects,               \* objects created with the structure Root
    Reshaped,              \* bound: the objects whose properties are overwritten or deleted
                           \* and whose prototype is set; the others only grow
    Keys,                  \* property names
    Methods,               \* bound: the keys functions are stored under
    Functions,             \* values that are functions: they may be specific values
    Primitive,             \* a value that is not a function
    None,                  \* a null pointer, a missing property
    Undefined,             \* the content of a slot that holds no property
    MaxTransitionLength,   \* s_maxTransitionLength
    MaxThrashCount,        \* maxSpecificFunctionThrashCount
    Reprototyped,          \* bound: the objects whose prototype is set in pinned structures too
    MaxStructures,         \* bound: structures alive at the same time, without Root
    MaxCaches              \* bound: inline caches in use

ASSUME StructuresAssumption ==
    /\ Reshaped \subseteq Objects
    /\ Methods \subseteq Keys /\ IsFiniteSet(Keys)
    /\ MaxTransitionLength \in Nat
    /\ MaxThrashCount \in Nat \ {0}
    /\ MaxStructures \in Nat
    /\ MaxCaches \in Nat

ValuesOf(k) == {Primitive} \cup (IF k \in Methods THEN Functions ELSE {})
Root == 0                               \* the structure of an empty object
Ids == 0 .. MaxStructures
Offsets == 0 .. (Cardinality(Keys) - 1)
NoOffset == -1

Entries == [key : Keys, offset : Offsets, specific : Functions \cup {None}]
Tables == [entries : Seq(Entries), deletedOffsets : Seq(Offsets)]
ASSUME NullAssumption == None \notin Ids \cup Functions \cup {Primitive} \cup Tables

VARIABLES
    structures,    \* the structures by identity; None: not allocated
    structureOf,   \* the structure of each object
    storage,       \* the property slots of each object
    props,         \* history: the properties each object should have
    caches         \* the inline caches of the compiled code

vars == <<structures, structureOf, storage, props, caches>>

-----------------------------------------------------------------------------
(* Property tables: entries in the order of insertion and deleted offsets. *)

EmptyTable == [entries |-> <<>>, deletedOffsets |-> <<>>]

Entry(k, n, f) == [key |-> k, offset |-> n, specific |-> f]

Has(t, k) == \E i \in DOMAIN t.entries : t.entries[i].key = k

IndexOf(t, k) == CHOOSE i \in DOMAIN t.entries : t.entries[i].key = k

Find(t, k) == t.entries[IndexOf(t, k)]

\* Mutant: the deleted offsets are forgotten.
PutSpecificValueAppending(t, k, f) ==
    [t EXCEPT !.entries = Append(@, Entry(k, Len(@), f))]

\* A new entry takes the offset deleted last, or the next one.
PutSpecificValue(t, k, f) ==
    LET reuse == t.deletedOffsets # <<>>
        n == IF reuse THEN Last(t.deletedOffsets) ELSE Len(t.entries)
    IN  [entries |-> Append(t.entries, Entry(k, n, f)),
         deletedOffsets |-> IF reuse THEN Front(t.deletedOffsets) ELSE <<>>]

RemoveEntry(t, k) ==
    [entries |-> RemoveAt(t.entries, IndexOf(t, k)),
     deletedOffsets |-> Append(t.deletedOffsets, Find(t, k).offset)]

DespecifyFunction(t, k) ==
    [t EXCEPT !.entries = [i \in DOMAIN @ |->
                              IF @[i].key = k THEN [@[i] EXCEPT !.specific = None] ELSE @[i]]]

DespecifyAllFunctions(t) ==
    [t EXCEPT !.entries = [i \in DOMAIN @ |-> [@[i] EXCEPT !.specific = None]]]

-----------------------------------------------------------------------------
(* Structures.  S is always the function from identities to structures.    *)

Empty ==
    [previous |-> None, nameInPrevious |-> None, specificInPrevious |-> None,
     offset |-> NoOffset, table |-> None, pinned |-> FALSE, kind |-> "none",
     thrash |-> 0, transitions |-> [k \in Keys |-> None]]

EntryInPrevious(r) == Entry(r.nameInPrevious, r.offset, r.specificInPrevious)

\* What a structure created from another one inherits.
CreatedFrom(r) == [Empty EXCEPT !.kind = r.kind, !.thrash = r.thrash]

\* The structures that materializePropertyMap collects, after each round of its loop:
\* s and its predecessors, up to one that is pinned.
Collected(S, s) ==
    LET after[n \in Nat] ==
            IF n = 0 THEN <<s>>
            ELSE LET c == after[n - 1]
                     p == S[Last(c)].previous
                 IN  IF p = None \/ S[p].pinned THEN c ELSE Append(c, p)
    IN  after[MaxStructures]

\* The table rebuilt from the chain of transitions.  It begins with a copy of the
\* pinned structure's; the last structure that was collected adds no entry of its own.
PropertyMap(S, s) ==
    LET c == Collected(S, s)
        p == S[Last(c)].previous
        added == [i \in 1 .. (Len(c) - 1) |-> EntryInPrevious(S[c[Len(c) - i]])]
    IN  IF p = None THEN [EmptyTable EXCEPT !.entries = added]
                    ELSE [S[p].table EXCEPT !.entries = @ \o added]

\* The table as get sees it, and the structures after it was asked for.
TableOf(S, s) == IF S[s].table = None THEN PropertyMap(S, s) ELSE S[s].table

MaterializeIfNecessary(S, s) ==
    IF S[s].table = None /\ S[s].previous # None
    THEN [S EXCEPT ![s].table = PropertyMap(S, s)]
    ELSE S

\* What a structure leads to over m_previous or, if weakly, over transitions and
\* caches as well.
LeadsTo(s, weakly) ==
    ({structures[s].previous}
       \cup IF weakly THEN Range(structures[s].transitions)
                          \cup {c.next : c \in {d \in caches : d.structure = s}}
                     ELSE {}) \ {None}

\* What the structures in T lead to: nothing new comes up after as many rounds as
\* there are structures.
Reached(T, weakly) ==
    LET after[n \in Nat] ==
            IF n = 0 THEN T
            ELSE LET r == after[n - 1] IN r \cup UNION {LeadsTo(s, weakly) : s \in r}
    IN  after[MaxStructures]

Roots == {Root} \cup Range(structureOf)

\* No object can have a structure again that no object leads to: it is as good
\* as swept, with the caches that name it, and its identity may be used again.
InUse == Reached(Roots, TRUE)
LiveCaches == LET used == InUse IN {c \in caches : c.structure \in used}
Free == Ids \ InUse
Fresh == Min(Free)

IsDictionary(r) == r.kind # "none"
TransitionCount(r) == IF r.offset = NoOffset THEN 0 ELSE r.offset + 1

SpecificFunction(v) == IF v \in Functions THEN v ELSE None

\* A pinned structure with a private copy of the table of s.
PinnedCopy(S, s) == [CreatedFrom(S[s]) EXCEPT !.table = TableOf(S, s), !.pinned = TRUE]

ToDictionaryTransition(S, s, kind) == [PinnedCopy(S, s) EXCEPT !.kind = kind]

DespecifyFunctionTransition(S, s, k) ==
    LET r == [PinnedCopy(S, s) EXCEPT !.thrash = @ + 1]
    IN  IF r.thrash = MaxThrashCount
        THEN [r EXCEPT !.table = DespecifyAllFunctions(@)]
        ELSE [r EXCEPT !.table = DespecifyFunction(@, k)]

\* The child takes the parent's table, unless the parent is pinned.
AddPropertyTransition(S, s, k, f) ==
    LET table == PutSpecificValue(TableOf(S, s), k, f)
        child == [CreatedFrom(S[s]) EXCEPT
                     !.previous = s, !.nameInPrevious = k, !.specificInPrevious = f,
                     !.table = table, !.offset = Find(table, k).offset]
    IN  [S EXCEPT ![Fresh] = child,
                  ![s].table = IF S[s].pinned THEN @ ELSE None,
                  ![s].transitions[k] = Fresh]

-----------------------------------------------------------------------------
(* Inline caches. *)

NoCache == [kind |-> "unset", structure |-> Root, key |-> None, next |-> None,
            offset |-> NoOffset, function |-> None]
Access(kind, s, k, n) == [NoCache EXCEPT !.kind = kind, !.structure = s, !.key = k, !.offset = n]
GetSelf(s, k, n) == Access("get", s, k, n)
PutReplace(s, k, n) == Access("replace", s, k, n)
PutTransition(s, t, k, n) == [Access("transition", s, k, n) EXCEPT !.next = t]
Method(s, k, f) == [Access("method", s, k, NoOffset) EXCEPT !.function = f]

KeepCaches == caches' = LiveCaches

\* An access site is patched the second time it is reached, so not always.
Patch(c) ==
    \/ KeepCaches
    \/ Cardinality(LiveCaches) < MaxCaches /\ caches' = LiveCaches \cup {c}

\* The cache for a put of k that left the object with structure s.
TryCachePutByID(S, s, slot, k, n) ==
    IF \/ slot = "Uncachable"
       \/ S[s].kind = "uncached"
       \/ slot = "NewProperty" /\ IsDictionary(S[s])
    THEN KeepCaches
    ELSE Patch(IF slot = "NewProperty" THEN PutTransition(S[s].previous, s, k, n)
                                       ELSE PutReplace(s, k, n))

-----------------------------------------------------------------------------
(* Operations on objects. *)

Init ==
    /\ structures = [s \in Ids |-> IF s = Root THEN Empty ELSE None]
    /\ structureOf = [o \in Objects |-> Root]
    /\ storage = [o \in Objects |-> [n \in Offsets |-> Undefined]]
    /\ props = [o \in Objects |-> [k \in Keys |-> None]]
    /\ caches = {}

\* setStructure and putDirectOffset.
Store(o, s, n, k, v) ==
    /\ structureOf' = [structureOf EXCEPT ![o] = s]
    /\ storage' = [storage EXCEPT ![o][n] = v]
    /\ props' = [props EXCEPT ![o][k] = v]

StructureOf(o) == structures[structureOf[o]]

Properties(o) == TableOf(structures, structureOf[o])

\* A put that may use the transition another object took before.
ExistingTransition(o, k, v) ==
    LET t == StructureOf(o).transitions[k]
    IN  /\ ~IsDictionary(StructureOf(o))
        /\ t # None
        /\ structures[t].specificInPrevious \in {None, SpecificFunction(v)}

\* putDirectInternal: the property is in the dictionary.
PutDictionaryExisting(o, k, v) ==
    LET s == structureOf[o]
        e == Find(Properties(o), k)
        despecify == e.specific \notin {None, SpecificFunction(v)}
        S == IF despecify THEN [structures EXCEPT ![s].table = DespecifyFunction(@, k)]
                          ELSE structures
    IN  /\ IsDictionary(StructureOf(o))
        /\ Has(Properties(o), k)
        /\ structures' = S
        /\ Store(o, s, e.offset, k, v)
        /\ TryCachePutByID(S, s, IF e.specific = None \/ despecify
                                 THEN "ExistingProperty" ELSE "Uncachable", k, e.offset)

\* putDirectInternal: a new property of the dictionary, addPropertyWithoutTransition.
PutDictionaryNew(o, k, v) ==
    LET s == structureOf[o]
        f == IF StructureOf(o).thrash = MaxThrashCount THEN None ELSE SpecificFunction(v)
        table == PutSpecificValue(Properties(o), k, f)
        S == [structures EXCEPT ![s].table = table, ![s].pinned = TRUE,
                                ![s].previous = None, ![s].nameInPrevious = None]
    IN  /\ IsDictionary(StructureOf(o))
        /\ ~Has(Properties(o), k)
        /\ structures' = S
        /\ Store(o, s, Find(table, k).offset, k, v)
        /\ TryCachePutByID(S, s, IF SpecificFunction(v) = None THEN "NewProperty"
                                 ELSE "Uncachable", k, Find(table, k).offset)

\* putDirectInternal: addPropertyTransitionToExistingStructure found a structure.
PutExistingTransition(o, k, v) ==
    LET t == StructureOf(o).transitions[k]
        n == structures[t].offset
    IN  /\ ExistingTransition(o, k, v)
        /\ Store(o, t, n, k, v)
        /\ TryCachePutByID(structures, t, IF SpecificFunction(v) = None THEN "NewProperty"
                                          ELSE "Uncachable", k, n)
        /\ UNCHANGED structures

\* putDirectInternal: the property exists, cases (1) and (3).
PutExisting(o, k, v) ==
    LET s == structureOf[o]
        e == Find(Properties(o), k)
        S == MaterializeIfNecessary(structures, s)
    IN  /\ ~IsDictionary(StructureOf(o))
        /\ ~ExistingTransition(o, k, v)
        /\ Has(Properties(o), k)
        /\ e.specific \in {None, SpecificFunction(v)}
        /\ structures' = S
        /\ Store(o, s, e.offset, k, v)
        /\ TryCachePutByID(S, s, IF e.specific = None THEN "ExistingProperty"
                                 ELSE "Uncachable", k, e.offset)

\* putDirectInternal: the property exists with another specific value, case (2).
PutDespecify(o, k, v) ==
    LET s == structureOf[o]
        e == Find(Properties(o), k)
        S == [MaterializeIfNecessary(structures, s) EXCEPT
                 ![Fresh] = DespecifyFunctionTransition(structures, s, k)]
    IN  /\ ~IsDictionary(StructureOf(o))
        /\ ~ExistingTransition(o, k, v)
        /\ Has(Properties(o), k)
        /\ e.specific \notin {None, SpecificFunction(v)}
        /\ Free # {}
        /\ structures' = S
        /\ Store(o, Fresh, e.offset, k, v)
        /\ TryCachePutByID(S, Fresh, "ExistingProperty", k, e.offset)

\* putDirectInternal: a new property, addPropertyTransition.
PutNew(o, k, v) ==
    LET s == structureOf[o]
        f == IF \/ StructureOf(o).transitions[k] # None
                \/ StructureOf(o).thrash = MaxThrashCount
             THEN None ELSE SpecificFunction(v)
        dictionary == ToDictionaryTransition(structures, s, "cached")
        M == MaterializeIfNecessary(structures, s)
        S == IF TransitionCount(StructureOf(o)) > MaxTransitionLength
             THEN [M EXCEPT ![Fresh] = [dictionary EXCEPT !.table = PutSpecificValue(@, k, f)]]
             ELSE AddPropertyTransition(M, s, k, f)
        n == Find(S[Fresh].table, k).offset
    IN  /\ ~IsDictionary(StructureOf(o))
        /\ ~ExistingTransition(o, k, v)
        /\ ~Has(Properties(o), k)
        /\ Free # {}
        /\ structures' = S
        /\ Store(o, Fresh, n, k, v)
        /\ TryCachePutByID(S, Fresh, IF SpecificFunction(v) = None THEN "NewProperty"
                                     ELSE "Uncachable", k, n)

\* deleteProperty, removeDirect.
DeleteProperty(o, k) ==
    LET s == structureOf[o]
        inPlace == StructureOf(o).kind = "uncached"
        t == IF inPlace THEN s ELSE Fresh
        r == IF inPlace THEN StructureOf(o)
                        ELSE ToDictionaryTransition(structures, s, "uncached")
    IN  /\ Has(Properties(o), k)
        /\ inPlace \/ Free # {}
        /\ structures' = [MaterializeIfNecessary(structures, s) EXCEPT
                             ![t] = [r EXCEPT !.table = RemoveEntry(@, k)]]
        /\ structureOf' = [structureOf EXCEPT ![o] = t]
        /\ storage' = [storage EXCEPT ![o][Find(Properties(o), k).offset] = Undefined]
        /\ props' = [props EXCEPT ![o][k] = None]
        /\ KeepCaches

\* The object moves to a pinned copy r of its structure.
MoveToCopy(o, r) ==
    /\ Free # {}
    /\ structures' = [MaterializeIfNecessary(structures, structureOf[o]) EXCEPT ![Fresh] = r]
    /\ structureOf' = [structureOf EXCEPT ![o] = Fresh]
    /\ UNCHANGED <<storage, props>>
    /\ KeepCaches

SetPrototype(o) == MoveToCopy(o, PinnedCopy(structures, structureOf[o]))

\* The values of a dictionary's object in the order of the table.
Compacted(o) ==
    LET entries == StructureOf(o).table.entries
    IN  [n \in Offsets |-> IF n < Len(entries) THEN storage[o][entries[n + 1].offset]
                                               ELSE storage[o][n]]

\* flattenDictionaryStructure: an uncacheable dictionary is renumbered in place.
FlattenDictionary(o) ==
    LET s == structureOf[o]
        renumber == StructureOf(o).kind = "uncached"
        compact == [entries |-> [i \in DOMAIN StructureOf(o).table.entries |->
                                    [StructureOf(o).table.entries[i] EXCEPT !.offset = i - 1]],
                    deletedOffsets |-> <<>>]
    IN  /\ IsDictionary(StructureOf(o))
        /\ structures' = [structures EXCEPT ![s].kind = "none",
                                            ![s].table = IF renumber THEN compact ELSE @]
        /\ storage' = IF renumber THEN [storage EXCEPT ![o] = Compacted(o)] ELSE storage
        /\ UNCHANGED <<structureOf, props>>

\* An access through o as a prototype flattens it.
Flatten(o) == FlattenDictionary(o) /\ KeepCaches

-----------------------------------------------------------------------------
(* Compiled code. *)

\* get_by_id of an own property, slow path.
GetById(o, k) ==
    /\ Has(Properties(o), k)
    /\ structures' = MaterializeIfNecessary(structures, structureOf[o])
    /\ IF StructureOf(o).kind = "uncached"
       THEN KeepCaches
       ELSE Patch(GetSelf(structureOf[o], k, Find(Properties(o), k).offset))
    /\ UNCHANGED <<structureOf, storage, props>>

\* Mutant: a dictionary stays one while its function is cached.
MethodCheckDictionary(o, k) ==
    /\ Has(Properties(o), k)
    /\ Find(Properties(o), k).specific # None
    /\ StructureOf(o).kind # "uncached"
    /\ Cardinality(LiveCaches) < MaxCaches
    /\ structures' = MaterializeIfNecessary(structures, structureOf[o])
    /\ caches' = LiveCaches \cup {Method(structureOf[o], k, Find(Properties(o), k).specific)}
    /\ UNCHANGED <<structureOf, storage, props>>

\* get_by_id_method_check of an own property with a specific value.
MethodCheck(o, k) ==
    /\ Has(Properties(o), k)
    /\ Find(Properties(o), k).specific # None
    /\ StructureOf(o).kind # "uncached"
    /\ Cardinality(LiveCaches) < MaxCaches
    /\ IF IsDictionary(StructureOf(o))
       THEN FlattenDictionary(o)
       ELSE /\ structures' = MaterializeIfNecessary(structures, structureOf[o])
            /\ UNCHANGED <<structureOf, storage, props>>
    /\ caches' = LiveCaches \cup {Method(structureOf[o], k, Find(Properties(o), k).specific)}

\* GetByIdStatus: optimized code takes the slot from the table of a cached structure.
Profile(c) ==
    LET t == TableOf(structures, c.structure)
    IN  /\ c.kind = "get"
        /\ structures' = MaterializeIfNecessary(structures, c.structure)
        /\ IF Has(t, c.key) THEN Patch(GetSelf(c.structure, c.key, Find(t, c.key).offset))
                            ELSE KeepCaches
        /\ UNCHANGED <<structureOf, storage, props>>

\* Mutant: the transition stub writes the slot and leaves the structure.
CachedPutWithoutTransition(c, o, v) ==
    /\ c.kind \in {"replace", "transition"}
    /\ structureOf[o] = c.structure
    /\ Store(o, c.structure, c.offset, c.key, v)
    /\ UNCHANGED structures
    /\ KeepCaches

\* A cached put: the structure is checked, then the slot is written.
CachedPut(c, o, v) ==
    /\ c.kind \in {"replace", "transition"}
    /\ structureOf[o] = c.structure
    /\ Store(o, IF c.kind = "transition" THEN c.next ELSE c.structure, c.offset, c.key, v)
    /\ UNCHANGED structures
    /\ KeepCaches

\* The code of an access site is discarded.
Discard(c) ==
    /\ caches' = LiveCaches \ {c}
    /\ UNCHANGED <<structures, structureOf, storage, props>>

\* A structure keeps its predecessors alive; transitions and caches are weak.
Collect ==
    LET marked == Reached(Roots, FALSE)
        swept(r) == [r EXCEPT !.transitions = [k \in Keys |->
                                  IF @[k] \in marked THEN @[k] ELSE None]]
    IN  /\ InUse # marked
        /\ structures' = [s \in Ids |-> IF s \in marked THEN swept(structures[s]) ELSE None]
        /\ caches' = {c \in LiveCaches : {c.structure, c.next} \ {None} \subseteq marked}
        /\ UNCHANGED <<structureOf, storage, props>>

(* Bounds: the objects outside of Reshaped only grow, and outside of           *)
(* Reprototyped the prototype is set once between two changes that pin a       *)
(* structure anyway.                                                           *)
Next ==
    \/ \E o \in Objects, k \in Keys : \E v \in ValuesOf(k) :
          \/ PutDictionaryNew(o, k, v)
          \/ PutExistingTransition(o, k, v)
          \/ PutNew(o, k, v)
    \/ \E o \in Reshaped, k \in Keys : \E v \in ValuesOf(k) :
          \/ PutDictionaryExisting(o, k, v)
          \/ PutExisting(o, k, v)
          \/ PutDespecify(o, k, v)
    \/ \E o \in Objects, k \in Keys :
          \/ GetById(o, k)
          \/ MethodCheck(o, k)
    \/ \E o \in Reshaped :
          \/ \E k \in Keys : DeleteProperty(o, k)
          \/ (~StructureOf(o).pinned \/ o \in Reprototyped) /\ SetPrototype(o)
          \/ Flatten(o)
    \/ \E c \in LiveCaches :
          \/ Profile(c)
          \/ Discard(c)
          \/ \E o \in Objects, v \in ValuesOf(c.key) :
                (c.kind = "replace" => o \in Reshaped) /\ CachedPut(c, o, v)
    \/ Collect

Spec == Init /\ [][Next]_vars

-----------------------------------------------------------------------------
(* Properties. *)

\* Every object behaves as a map: whatever structures were shared, robbed of
\* their tables, rebuilt, pinned, renumbered or collected meanwhile, and whether
\* the writes went through putDirectInternal or through cached code, looking a
\* property up through the object's structure finds the value put last, and
\* finds nothing else.
LookupCorrect ==
    \A o \in Objects, k \in Keys :
        LET t == Properties(o)
        IN  IF Has(t, k) THEN storage[o][Find(t, k).offset] = props[o][k]
                         ELSE props[o][k] = None

\* What code compiled for a structure assumes is true of every object that has
\* it: a cached slot holds the property, a cached function, and the specific
\* value of a table entry that the compilers inline, is the property's value.
CachesTruthful ==
    /\ \A c \in LiveCaches : \A o \in Objects : structureOf[o] = c.structure =>
          /\ c.kind \in {"get", "replace"} => /\ props[o][c.key] # None
                                              /\ storage[o][c.offset] = props[o][c.key]
          /\ c.kind = "method" => props[o][c.key] = c.function
    /\ \A o \in Objects, k \in Keys :
          Has(Properties(o), k) =>
             Find(Properties(o), k).specific \in {None, props[o][k]}
=============================================================================
