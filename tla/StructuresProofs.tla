--------------------------- MODULE StructuresProofs ---------------------------
(***************************************************************************)
(* The safety properties of Structures, for any number of objects, keys,    *)
(* structures and caches.                                                  *)
(*                                                                         *)
(* A structure that is shared is found from the root over transitions and   *)
(* was never pinned, so its table can be rebuilt from the properties that   *)
(* were added on the way.  Any other structure belongs to one object and    *)
(* keeps its table as long as it does.                                     *)
(***************************************************************************)
EXTENDS Structures, FiniteSetTheorems, SequenceTheorems, WellFoundedInduction, TLAPS

-----------------------------------------------------------------------------
(***************************************************************************)
(* Numbers.                                                                *)
(***************************************************************************)
\* A set of natural numbers has a least element.
LEMMA LeastNatural ==
    ASSUME NEW T \in SUBSET Nat, T # {}
    PROVE  \E x \in T : \A y \in T : x <= y
<1>1. PICK x \in T : \A y \in T : ~(<<y, x>> \in OpToRel(<, Nat))
  BY NatLessThanWellFounded, WFMin
<1>2. \A y \in T : ~(y < x)
  BY <1>1 DEF OpToRel
<1> QED
  BY <1>2

\* A set with 0 and with the successors of its numbers has all natural numbers.
LEMMA NaturalSteps ==
    ASSUME NEW T, 0 \in T, \A n \in Nat : n \in T => n + 1 \in T
    PROVE  Nat \subseteq T
<1> SUFFICES ASSUME NEW m \in Nat \ T PROVE FALSE
  OBVIOUS
<1>1. PICK x \in Nat \ T : \A y \in Nat \ T : x <= y
  <2>1. Nat \ T \in SUBSET Nat /\ Nat \ T # {}
    OBVIOUS
  <2> QED
    BY <2>1, LeastNatural
<1>2. x # 0 /\ x - 1 \in Nat
  OBVIOUS
<1>3. x - 1 \in T
  BY <1>1, <1>2
<1> QED
  BY <1>2, <1>3

\* A sequence without repetitions is no longer than the set of its elements.
LEMMA NoRepetition ==
    ASSUME NEW S, IsFiniteSet(S), NEW s \in Seq(S), \A i, j \in 1..Len(s) : i # j => s[i] # s[j]
    PROVE  Len(s) <= Cardinality(S) /\ Cardinality(S) \in Nat
<1>1. Len(s) \in Nat /\ s \in [1..Len(s) -> S]
  BY LenProperties
<1>2. s \in Injection(1..Len(s), S)
  BY <1>1 DEF Injection, IsInjective
<1>3. Cardinality(1..Len(s)) <= Cardinality(S)
  BY <1>2, FS_Injection
<1>4. Cardinality(1..Len(s)) = Len(s)
  <2>1. 1 \in Int /\ Len(s) \in Int
    BY <1>1
  <2>2. Cardinality(1..Len(s)) = IF 1 > Len(s) THEN 0 ELSE Len(s) - 1 + 1
    BY <2>1, FS_Interval, Zenon
  <2> QED
    BY <1>1, <2>2
<1> QED
  BY <1>3, <1>4, FS_CardinalityType

-----------------------------------------------------------------------------
(***************************************************************************)
(* Property tables.                                                        *)
(***************************************************************************)
\* No key and no offset is twice in a table, no offset is both in use and deleted, and
\* there are as many slots as keys have been in the table at the same time.
Good(t) ==
    /\ t \in Tables
    /\ \A i, j \in DOMAIN t.entries : i # j =>
          t.entries[i].key # t.entries[j].key /\ t.entries[i].offset # t.entries[j].offset
    /\ \A i, j \in DOMAIN t.deletedOffsets : i # j => t.deletedOffsets[i] # t.deletedOffsets[j]
    /\ \A i \in DOMAIN t.entries, j \in DOMAIN t.deletedOffsets :
          t.entries[i].offset # t.deletedOffsets[j]
    /\ \A i \in DOMAIN t.entries : t.entries[i].offset < Len(t.entries) + Len(t.deletedOffsets)
    /\ \A i \in DOMAIN t.deletedOffsets : t.deletedOffsets[i] < Len(t.entries) + Len(t.deletedOffsets)
    /\ Len(t.entries) + Len(t.deletedOffsets) <= Cardinality(Keys)

\* The parts of a table.
LEMMA TableParts ==
    ASSUME NEW t \in Tables
    PROVE  /\ t = [entries |-> t.entries, deletedOffsets |-> t.deletedOffsets]
           /\ t.entries \in Seq(Entries) /\ DOMAIN t.entries = 1..Len(t.entries)
           /\ t.deletedOffsets \in Seq(Offsets) /\ DOMAIN t.deletedOffsets = 1..Len(t.deletedOffsets)
           /\ Len(t.entries) \in Nat /\ Len(t.deletedOffsets) \in Nat
           /\ \A i \in DOMAIN t.entries :
                 /\ t.entries[i] \in Entries
                 /\ t.entries[i] = Entry(t.entries[i].key, t.entries[i].offset, t.entries[i].specific)
                 /\ t.entries[i].key \in Keys /\ t.entries[i].offset \in Offsets
                 /\ t.entries[i].offset \in Nat /\ t.entries[i].specific \in Functions \cup {None}
           /\ \A i \in DOMAIN t.deletedOffsets :
                 t.deletedOffsets[i] \in Offsets /\ t.deletedOffsets[i] \in Nat
           /\ Cardinality(Keys) \in Nat
<1>1. /\ t = [entries |-> t.entries, deletedOffsets |-> t.deletedOffsets]
      /\ t.entries \in Seq(Entries) /\ t.deletedOffsets \in Seq(Offsets)
  BY DEF Tables
<1>2. /\ DOMAIN t.entries = 1..Len(t.entries) /\ Len(t.entries) \in Nat
      /\ \A i \in DOMAIN t.entries : t.entries[i] \in Entries
  BY <1>1
<1>3. /\ DOMAIN t.deletedOffsets = 1..Len(t.deletedOffsets) /\ Len(t.deletedOffsets) \in Nat
      /\ \A i \in DOMAIN t.deletedOffsets : t.deletedOffsets[i] \in Offsets
  BY <1>1
<1>4. Cardinality(Keys) \in Nat
  BY StructuresAssumption, FS_CardinalityType
<1>5. \A n \in Offsets : n \in Nat
  BY <1>4 DEF Offsets
<1>6. \A e \in Entries : /\ e = Entry(e.key, e.offset, e.specific)
                         /\ e.key \in Keys /\ e.offset \in Offsets /\ e.specific \in Functions \cup {None}
  BY DEF Entries, Entry
<1> QED
  BY <1>1, <1>2, <1>3, <1>4, <1>5, <1>6

\* PropertyTable::find.
LEMMA Found ==
    ASSUME NEW t, Good(t), NEW k, Has(t, k)
    PROVE  /\ IndexOf(t, k) \in DOMAIN t.entries /\ IndexOf(t, k) \in Nat \ {0}
           /\ Find(t, k) = t.entries[IndexOf(t, k)]
           /\ Find(t, k).key = k /\ k \in Keys
           /\ Find(t, k).offset \in Offsets
           /\ Find(t, k).specific \in Functions \cup {None}
           /\ Find(t, k) = Entry(k, Find(t, k).offset, Find(t, k).specific)
<1>1. IndexOf(t, k) \in DOMAIN t.entries /\ t.entries[IndexOf(t, k)].key = k
  BY DEF Has, IndexOf
<1>2. t \in Tables
  BY DEF Good
<1> QED
  BY <1>1, <1>2, TableParts DEF Find

\* An entry is found by its key.
LEMMA FoundAt ==
    ASSUME NEW t, Good(t), NEW i \in DOMAIN t.entries
    PROVE  /\ Has(t, t.entries[i].key)
           /\ IndexOf(t, t.entries[i].key) = i
           /\ Find(t, t.entries[i].key) = t.entries[i]
<1> DEFINE k == t.entries[i].key
<1>1. Has(t, k)
  BY DEF Has
<1> HIDE DEF k
<1>2. IndexOf(t, k) \in DOMAIN t.entries /\ t.entries[IndexOf(t, k)].key = k
  BY <1>1 DEF Has, IndexOf
<1>3. IndexOf(t, k) = i
  BY <1>2 DEF Good, k
<1> QED
  BY <1>1, <1>3 DEF Find, k

\* Two properties are in two slots.
LEMMA DifferentSlots ==
    ASSUME NEW t, Good(t), NEW k, NEW j, Has(t, k), Has(t, j), k # j
    PROVE  Find(t, k).offset # Find(t, j).offset
<1>1. /\ IndexOf(t, k) \in DOMAIN t.entries /\ t.entries[IndexOf(t, k)].key = k
      /\ IndexOf(t, j) \in DOMAIN t.entries /\ t.entries[IndexOf(t, j)].key = j
  BY DEF Has, IndexOf
<1> QED
  BY <1>1 DEF Good, Find

\* The empty table.
LEMMA EmptyTableGood == Good(EmptyTable) /\ \A k : ~Has(EmptyTable, k)
<1>1. Cardinality(Keys) \in Nat
  BY StructuresAssumption, FS_CardinalityType
<1>2. EmptyTable \in Tables /\ EmptyTable.entries = <<>> /\ EmptyTable.deletedOffsets = <<>>
  BY DEF EmptyTable, Tables
<1>3. DOMAIN EmptyTable.entries = {} /\ DOMAIN EmptyTable.deletedOffsets = {} /\ Len(EmptyTable.entries) = 0
      /\ Len(EmptyTable.deletedOffsets) = 0
  BY <1>2
<1> QED
  BY <1>1, <1>2, <1>3 DEF Good, Has

\* Table u has the properties of table t, but for k, in the same slots.
SameBut(t, u, k) ==
    \A j : j # k =>
        /\ Has(u, j) <=> Has(t, j)
        /\ Has(t, j) => /\ Find(u, j).offset = Find(t, j).offset
                        /\ Find(u, j).specific \in {None, Find(t, j).specific}

\* There are fewer entries than keys while a key is missing.
LEMMA RoomForKey ==
    ASSUME NEW t, Good(t), NEW k \in Keys, ~Has(t, k)
    PROVE  Len(t.entries) < Cardinality(Keys)
<1> DEFINE ks == [i \in 1..(Len(t.entries) + 1) |-> IF i <= Len(t.entries) THEN t.entries[i].key ELSE k]
<1>1. t \in Tables
  BY DEF Good
<1>2. Len(t.entries) \in Nat /\ DOMAIN t.entries = 1..Len(t.entries)
      /\ \A i \in DOMAIN t.entries : t.entries[i].key \in Keys /\ t.entries[i].key # k
  BY <1>1, TableParts DEF Has
<1>3. ks \in Seq(Keys) /\ Len(ks) = Len(t.entries) + 1
  BY <1>2
<1>4. \A i, j \in 1..Len(ks) : i # j => ks[i] # ks[j]
  BY <1>2, <1>3 DEF Good
<1> HIDE DEF ks
<1>5. Len(ks) <= Cardinality(Keys) /\ Cardinality(Keys) \in Nat
  BY <1>3, <1>4, NoRepetition, StructuresAssumption
<1> QED
  BY <1>2, <1>3, <1>5

\* Structure::putSpecificValue: the new property has a slot of its own.
LEMMA PutInTable ==
    ASSUME NEW t, Good(t), NEW k \in Keys, ~Has(t, k), NEW f \in Functions \cup {None},
           NEW u, u = PutSpecificValue(t, k, f)
    PROVE  /\ Good(u) /\ Has(u, k) /\ Find(u, k).specific = f
           /\ SameBut(t, u, k)
           /\ t.deletedOffsets = <<>> =>
                 /\ u = [entries |-> Append(t.entries, Entry(k, Len(t.entries), f)), deletedOffsets |-> <<>>]
                 /\ Find(u, k).offset = Len(t.entries)
<1> DEFINE es == t.entries
           ds == t.deletedOffsets
           m == Len(es)
           l == Len(ds)
           reuse == ds # <<>>
           n == IF reuse THEN Last(ds) ELSE m
           d == IF reuse THEN Front(ds) ELSE <<>>
           e == Entry(k, n, f)
<1>1. t \in Tables
  BY DEF Good
<1>2. /\ es \in Seq(Entries) /\ DOMAIN es = 1..m /\ ds \in Seq(Offsets) /\ DOMAIN ds = 1..l
      /\ m \in Nat /\ l \in Nat /\ Cardinality(Keys) \in Nat
      /\ \A i \in 1..m : es[i].offset \in Nat /\ es[i].key \in Keys
      /\ \A i \in 1..l : ds[i] \in Nat /\ ds[i] \in Offsets
  BY <1>1, TableParts
<1>3. u = [entries |-> Append(es, e), deletedOffsets |-> d]
  BY DEF PutSpecificValue
<1>4. m < Cardinality(Keys)
  BY RoomForKey
<1>5. /\ \A i, j \in 1..m : i # j => es[i].key # es[j].key /\ es[i].offset # es[j].offset
      /\ \A i, j \in 1..l : i # j => ds[i] # ds[j]
      /\ \A i \in 1..m, j \in 1..l : es[i].offset # ds[j]
      /\ \A i \in 1..m : es[i].offset < m + l
      /\ \A i \in 1..l : ds[i] < m + l
      /\ m + l <= Cardinality(Keys)
  BY <1>2 DEF Good
<1>6. \A i \in 1..m : es[i].key # k
  BY <1>2 DEF Has
<1> HIDE DEF es, ds, m, l, n, d, e
<1>7. /\ d \in Seq(Offsets) /\ Len(d) \in Nat /\ DOMAIN d = 1..Len(d)
      /\ m + 1 + Len(d) <= Cardinality(Keys)
      /\ m + l <= m + 1 + Len(d)
      /\ n \in Offsets /\ n \in Nat /\ n < m + 1 + Len(d)
      /\ \A i \in 1..Len(d) : i \in 1..l /\ d[i] = ds[i] /\ d[i] # n
      /\ \A i \in 1..m : es[i].offset # n
  <2>1. CASE reuse
    <3>1. /\ l >= 1 /\ n = ds[l] /\ d = SubSeq(ds, 1, l - 1)
      BY <1>2, <2>1, EmptySeq DEF l, n, d, Last, Front
    <3>2. l - 1 \in Int /\ 1 \in Int /\ \A i \in 1..(l - 1) : ds[i] \in Offsets
      BY <1>2, <3>1
    <3>3. /\ SubSeq(ds, 1, l - 1) \in Seq(Offsets)
          /\ Len(SubSeq(ds, 1, l - 1)) = IF 1 <= l - 1 THEN l - 1 - 1 + 1 ELSE 0
          /\ \A i \in 1..(l - 1 - 1 + 1) : SubSeq(ds, 1, l - 1)[i] = ds[1 + i - 1]
      BY <3>2, SubSeqProperties
    <3>4. d \in Seq(Offsets) /\ Len(d) = l - 1 /\ \A i \in 1..(l - 1) : d[i] = ds[i]
      BY <1>2, <3>1, <3>3
    <3>5. DOMAIN d = 1..(l - 1)
      BY <3>4
    <3> QED
      BY <1>2, <1>5, <3>1, <3>4, <3>5
  <2>2. CASE ~reuse
    <3>1. n = m /\ d = <<>> /\ l = 0
      BY <2>2 DEF n, d, l
    <3>2. n \in Offsets
      BY <1>2, <1>4, <3>1 DEF Offsets
    <3>3. d \in Seq(Offsets) /\ Len(d) = 0 /\ DOMAIN d = 1..0
      BY <3>1
    <3> QED
      BY <1>2, <1>4, <1>5, <3>1, <3>2, <3>3
  <2> QED
    BY <2>1, <2>2
<1>8. e \in Entries /\ e.key = k /\ e.offset = n /\ e.specific = f
  BY <1>7 DEF e, Entry, Entries
<1>9. /\ u.entries = Append(es, e) /\ u.deletedOffsets = d
      /\ u.entries \in Seq(Entries) /\ Len(u.entries) = m + 1 /\ DOMAIN u.entries = 1..(m + 1)
      /\ u.entries[m + 1] = e /\ \A i \in 1..m : u.entries[i] = es[i]
  BY <1>2, <1>3, <1>8 DEF m
<1>10. u \in Tables
  BY <1>3, <1>7, <1>9 DEF Tables
<1>11. Good(u)
  <2>1. \A i, j \in 1..(m + 1) : i # j =>
           u.entries[i].key # u.entries[j].key /\ u.entries[i].offset # u.entries[j].offset
    <3> TAKE i \in 1..(m + 1), j \in 1..(m + 1)
    <3> HAVE i # j
    <3>1. CASE i \in 1..m /\ j \in 1..m
      BY <1>5, <1>9, <3>1
    <3>2. CASE i = m + 1
      <4>1. j \in 1..m
        BY <1>2, <3>2
      <4> QED
        BY <1>6, <1>7, <1>8, <1>9, <3>2, <4>1
    <3>3. CASE j = m + 1
      <4>1. i \in 1..m
        BY <1>2, <3>3
      <4> QED
        BY <1>6, <1>7, <1>8, <1>9, <3>3, <4>1
    <3> QED
      BY <1>2, <3>1, <3>2, <3>3
  <2>2. \A i, j \in 1..Len(d) : i # j => d[i] # d[j]
    BY <1>5, <1>7
  <2>3. \A i \in 1..(m + 1) : /\ \A j \in 1..Len(d) : u.entries[i].offset # d[j]
                              /\ u.entries[i].offset < m + 1 + Len(d)
    <3> TAKE i \in 1..(m + 1)
    <3>1. CASE i \in 1..m
      <4>1. es[i].offset < m + l /\ es[i].offset \in Nat
        BY <1>2, <1>5, <3>1
      <4>2. es[i].offset < m + 1 + Len(d)
        BY <1>2, <1>7, <4>1
      <4>3. u.entries[i].offset = es[i].offset
        BY <1>9, <3>1
      <4>4. \A j \in 1..Len(d) : es[i].offset # d[j]
        BY <1>5, <1>7, <3>1
      <4> QED
        BY <4>2, <4>3, <4>4
    <3>2. CASE i = m + 1
      <4>1. u.entries[i].offset = n
        BY <1>8, <1>9, <3>2
      <4>2. n < m + 1 + Len(d) /\ \A j \in 1..Len(d) : n # d[j]
        BY <1>7
      <4> QED
        BY <4>1, <4>2
    <3>3. i \in 1..m \/ i = m + 1
      <4>1. m \in Nat
        BY <1>2
      <4> QED
        BY <4>1
    <3> QED
      BY <3>1, <3>2, <3>3, Zenon
  <2>4. \A i \in 1..Len(d) : d[i] < m + 1 + Len(d)
    <3> TAKE i \in 1..Len(d)
    <3>1. d[i] < m + l /\ d[i] \in Nat
      BY <1>2, <1>5, <1>7
    <3> QED
      BY <1>2, <1>7, <3>1
  <2> QED
    BY <1>7, <1>9, <1>10, <2>1, <2>2, <2>3, <2>4 DEF Good
<1>12. Has(u, k) /\ Find(u, k) = e
  BY <1>2, <1>8, <1>9, <1>11, FoundAt
<1>13. SameBut(t, u, k)
  <2> SUFFICES ASSUME NEW j, j # k
               PROVE  /\ Has(u, j) <=> Has(t, j)
                      /\ Has(t, j) => Find(u, j) = Find(t, j)
    BY DEF SameBut
  <2>1. ASSUME Has(u, j) PROVE Has(t, j)
    <3>1. PICK i \in 1..(m + 1) : u.entries[i].key = j
      BY <1>9, <2>1 DEF Has
    <3>2. i # m + 1
      BY <1>8, <1>9, <3>1
    <3>3. i \in 1..m
      BY <1>2, <3>2
    <3> QED
      BY <1>2, <1>9, <3>1, <3>3 DEF Has, es
  <2>2. ASSUME Has(t, j) PROVE Has(u, j) /\ Find(u, j) = Find(t, j)
    <3>1. IndexOf(t, j) \in 1..m /\ Find(t, j) = es[IndexOf(t, j)] /\ Find(t, j).key = j
      BY <1>2, <2>2, Found DEF es
    <3>2. IndexOf(t, j) \in DOMAIN u.entries /\ u.entries[IndexOf(t, j)] = Find(t, j)
      BY <1>2, <1>9, <3>1
    <3> QED
      BY <1>11, <3>1, <3>2, FoundAt
  <2> QED
    BY <2>1, <2>2
<1> QED
  BY <1>3, <1>8, <1>11, <1>12, <1>13 DEF n, d, e, m, es, ds

\* What remains of a sequence when an element is removed.
LEMMA Removed ==
    ASSUME NEW S, NEW s \in Seq(S), NEW i \in 1..Len(s)
    PROVE  /\ RemoveAt(s, i) \in Seq(S)
           /\ Len(RemoveAt(s, i)) = Len(s) - 1
           /\ \A j \in 1..(Len(s) - 1) : RemoveAt(s, i)[j] = IF j < i THEN s[j] ELSE s[j + 1]
<1> DEFINE a == SubSeq(s, 1, i - 1)
           b == SubSeq(s, i + 1, Len(s))
           m == Len(s)
<1>1. m \in Nat /\ i \in Nat /\ 1 <= i /\ i <= m /\ \A j \in 1..m : s[j] \in S
  OBVIOUS
<1>2. i - 1 \in Int /\ 1 \in Int /\ i + 1 \in Int /\ m \in Int
      /\ (\A j \in 1..(i - 1) : s[j] \in S) /\ (\A j \in (i + 1)..m : s[j] \in S)
  BY <1>1
<1> HIDE DEF m
<1>3. /\ SubSeq(s, 1, i - 1) \in Seq(S)
      /\ Len(SubSeq(s, 1, i - 1)) = IF 1 <= i - 1 THEN i - 1 - 1 + 1 ELSE 0
      /\ \A j \in 1..(i - 1 - 1 + 1) : SubSeq(s, 1, i - 1)[j] = s[1 + j - 1]
  BY <1>2, SubSeqProperties
<1>4. /\ SubSeq(s, i + 1, m) \in Seq(S)
      /\ Len(SubSeq(s, i + 1, m)) = IF i + 1 <= m THEN m - (i + 1) + 1 ELSE 0
      /\ \A j \in 1..(m - (i + 1) + 1) : SubSeq(s, i + 1, m)[j] = s[i + 1 + j - 1]
  BY <1>2, SubSeqProperties
<1>5. RemoveAt(s, i) = a \o b
  BY DEF RemoveAt
<1>6. a \in Seq(S) /\ Len(a) = i - 1 /\ \A j \in 1..(i - 1) : a[j] = s[j]
  BY <1>1, <1>3
<1>7. b \in Seq(S) /\ Len(b) = m - i /\ \A j \in 1..(m - i) : b[j] = s[i + j]
  <2>1. b \in Seq(S) /\ Len(b) = m - i
    BY <1>1, <1>4 DEF m
  <2>2. ASSUME NEW j \in 1..(m - i) PROVE b[j] = s[i + j]
    <3>1. j \in 1..(m - (i + 1) + 1) /\ i + 1 + j - 1 = i + j
      BY <1>1
    <3> QED
      BY <1>4, <3>1 DEF m
  <2> QED
    BY <2>1, <2>2
<1> HIDE DEF a, b
<1>8. /\ a \o b \in Seq(S) /\ Len(a \o b) = Len(a) + Len(b)
      /\ \A j \in 1..(Len(a) + Len(b)) : (a \o b)[j] = IF j <= Len(a) THEN a[j] ELSE b[j - Len(a)]
  BY <1>6, <1>7, ConcatProperties
<1>9. \A j \in 1..(m - 1) : (a \o b)[j] = IF j < i THEN s[j] ELSE s[j + 1]
  <2> TAKE j \in 1..(m - 1)
  <2>1. (a \o b)[j] = IF j <= i - 1 THEN a[j] ELSE b[j - (i - 1)]
    <3>1. Len(a) = i - 1 /\ Len(b) = m - i /\ j \in 1..((i - 1) + (m - i))
      BY <1>1, <1>6, <1>7
    <3> QED
      BY <1>8, <3>1
  <2>2. CASE j < i
    <3>1. j \in 1..(i - 1)
      BY <1>1, <2>2
    <3> QED
      BY <1>6, <2>1, <2>2, <3>1
  <2>3. CASE ~(j < i)
    <3>1. j - (i - 1) \in 1..(m - i) /\ i + (j - (i - 1)) = j + 1 /\ ~(j <= i - 1)
      BY <1>1, <2>3
    <3> QED
      BY <1>7, <2>1, <2>3, <3>1
  <2> QED
    BY <2>2, <2>3
<1> QED
  BY <1>1, <1>5, <1>6, <1>7, <1>8, <1>9 DEF m

\* PropertyTable::remove and addDeletedOffset: the slot is not lost.
LEMMA RemoveFromTable ==
    ASSUME NEW t, Good(t), NEW k, Has(t, k), NEW u, u = RemoveEntry(t, k)
    PROVE  Good(u) /\ ~Has(u, k) /\ SameBut(t, u, k)
<1> DEFINE es == t.entries
           ds == t.deletedOffsets
           m == Len(es)
           l == Len(ds)
           x == IndexOf(t, k)
           n == Find(t, k).offset
           r == RemoveAt(es, x)
           d == Append(ds, n)
           at(i) == IF i < x THEN i ELSE i + 1
<1>1. t \in Tables
  BY DEF Good
<1>2. /\ es \in Seq(Entries) /\ DOMAIN es = 1..m /\ ds \in Seq(Offsets) /\ DOMAIN ds = 1..l
      /\ m \in Nat /\ l \in Nat /\ Cardinality(Keys) \in Nat
      /\ \A i \in 1..m : es[i].offset \in Nat /\ es[i].key \in Keys
      /\ \A i \in 1..l : ds[i] \in Nat
  BY <1>1, TableParts
<1>3. u = [entries |-> r, deletedOffsets |-> d]
  BY DEF RemoveEntry
<1>4. x \in 1..m /\ es[x].key = k /\ n = es[x].offset /\ n \in Offsets
  BY <1>2, Found
<1>5. /\ \A i, j \in 1..m : i # j => es[i].key # es[j].key /\ es[i].offset # es[j].offset
      /\ \A i, j \in 1..l : i # j => ds[i] # ds[j]
      /\ \A i \in 1..m, j \in 1..l : es[i].offset # ds[j]
      /\ \A i \in 1..m : es[i].offset < m + l
      /\ \A i \in 1..l : ds[i] < m + l
      /\ m + l <= Cardinality(Keys)
  BY <1>2 DEF Good
<1>6. /\ r \in Seq(Entries) /\ Len(r) = m - 1
      /\ \A i \in 1..(m - 1) : r[i] = IF i < x THEN es[i] ELSE es[i + 1]
  BY <1>2, <1>4, Removed
<1>7. /\ d \in Seq(Offsets) /\ Len(d) = l + 1 /\ d[l + 1] = n /\ \A i \in 1..l : d[i] = ds[i]
      /\ DOMAIN d = 1..(l + 1)
  BY <1>2, <1>4
<1>8. DOMAIN r = 1..(m - 1)
  BY <1>2, <1>6
<1> HIDE DEF es, ds, m, l, x, n, r, d
<1>9. u.entries = r /\ u.deletedOffsets = d /\ u \in Tables
  BY <1>3, <1>6, <1>7 DEF Tables
<1>10. \A i \in 1..(m - 1) : at(i) \in 1..m /\ at(i) # x /\ r[i] = es[at(i)]
  BY <1>2, <1>4, <1>6
<1>11. \A i, j \in 1..(m - 1) : i # j => at(i) # at(j)
  BY <1>2, <1>4
<1>12. \A i \in 1..m : i # x => \E j \in 1..(m - 1) : at(j) = i
  <2> TAKE i \in 1..m
  <2> HAVE i # x
  <2>1. CASE i < x
    <3>1. i \in 1..(m - 1) /\ at(i) = i
      BY <1>2, <1>4, <2>1
    <3> QED
      BY <3>1
  <2>2. CASE i > x
    <3>1. i - 1 \in 1..(m - 1) /\ at(i - 1) = i
      BY <1>2, <1>4, <2>2
    <3> QED
      BY <3>1
  <2> QED
    BY <1>4, <2>1, <2>2
<1> HIDE DEF at
<1>13. Good(u)
  <2>1. \A i, j \in 1..(m - 1) : i # j => r[i].key # r[j].key /\ r[i].offset # r[j].offset
    BY <1>5, <1>10, <1>11
  <2>2. \A i, j \in 1..(l + 1) : i # j => d[i] # d[j]
    <3> TAKE i \in 1..(l + 1), j \in 1..(l + 1)
    <3> HAVE i # j
    <3>1. i \in 1..l \/ i = l + 1
      BY <1>2
    <3>2. j \in 1..l \/ j = l + 1
      BY <1>2
    <3> QED
      BY <1>4, <1>5, <1>7, <3>1, <3>2
  <2>3. \A i \in 1..(m - 1), j \in 1..(l + 1) : r[i].offset # d[j]
    <3> TAKE i \in 1..(m - 1), j \in 1..(l + 1)
    <3>1. j \in 1..l \/ j = l + 1
      BY <1>2
    <3>2. es[at(i)].offset # n
      BY <1>4, <1>5, <1>10
    <3> QED
      BY <1>5, <1>7, <1>10, <3>1, <3>2
  <2>4. m - 1 + (l + 1) = m + l /\ Len(r) + Len(d) = m + l
    BY <1>2, <1>6, <1>7
  <2>5. \A i \in 1..(m - 1) : r[i].offset < m + l
    BY <1>5, <1>10
  <2>6. \A i \in 1..(l + 1) : d[i] < m + l
    <3> TAKE i \in 1..(l + 1)
    <3>1. i \in 1..l \/ i = l + 1
      BY <1>2
    <3> QED
      BY <1>4, <1>5, <1>7, <3>1
  <2> QED
    BY <1>5, <1>7, <1>8, <1>9, <2>1, <2>2, <2>3, <2>4, <2>5, <2>6 DEF Good
<1>14. ~Has(u, k)
  BY <1>4, <1>5, <1>8, <1>9, <1>10 DEF Has
<1>15. SameBut(t, u, k)
  <2> SUFFICES ASSUME NEW j, j # k
               PROVE  /\ Has(u, j) <=> Has(t, j)
                      /\ Has(t, j) => Find(u, j) = Find(t, j)
    BY DEF SameBut
  <2>1. Has(u, j) => Has(t, j)
    BY <1>2, <1>8, <1>9, <1>10 DEF Has, es
  <2>2. ASSUME Has(t, j) PROVE Has(u, j) /\ Find(u, j) = Find(t, j)
    <3>1. IndexOf(t, j) \in 1..m /\ Find(t, j) = es[IndexOf(t, j)] /\ Find(t, j).key = j
      BY <1>2, <2>2, Found DEF es
    <3>2. IndexOf(t, j) # x
      BY <1>4, <3>1
    <3>3. PICK i \in 1..(m - 1) : at(i) = IndexOf(t, j)
      BY <1>12, <3>1, <3>2
    <3>4. i \in DOMAIN u.entries /\ u.entries[i] = Find(t, j)
      BY <1>8, <1>9, <1>10, <3>1, <3>3
    <3> QED
      BY <1>13, <3>1, <3>4, FoundAt
  <2> QED
    BY <2>1, <2>2
<1> QED
  BY <1>13, <1>14, <1>15

\* Table u has the entries of table t with other specific values.
LEMMA SameSlots ==
    ASSUME NEW t, Good(t), NEW u \in Tables,
           DOMAIN u.entries = DOMAIN t.entries, u.deletedOffsets = t.deletedOffsets,
           \A i \in DOMAIN t.entries : /\ u.entries[i].key = t.entries[i].key
                                       /\ u.entries[i].offset = t.entries[i].offset
    PROVE  /\ Good(u)
           /\ \A j : Has(u, j) <=> Has(t, j)
           /\ \A j : Has(t, j) => /\ Find(u, j).offset = Find(t, j).offset
                                  /\ Find(u, j).specific = u.entries[IndexOf(t, j)].specific
<1>1. /\ DOMAIN t.entries = 1..Len(t.entries) /\ DOMAIN u.entries = 1..Len(u.entries)
      /\ Len(t.entries) \in Nat /\ Len(u.entries) \in Nat
  BY TableParts DEF Good
<1>2. Len(u.entries) = Len(t.entries)
  <2>1. Len(t.entries) # 0 => Len(t.entries) \in 1..Len(u.entries) /\ Len(u.entries) >= Len(t.entries)
    BY <1>1
  <2>2. Len(u.entries) # 0 => Len(u.entries) \in 1..Len(t.entries) /\ Len(t.entries) >= Len(u.entries)
    BY <1>1
  <2> QED
    BY <1>1, <2>1, <2>2
<1>3. Good(u)
  <2> DEFINE es == t.entries
             us == u.entries
             ds == t.deletedOffsets
             m == Len(es)
  <2>1. /\ \A i, j \in DOMAIN es : i # j => es[i].key # es[j].key /\ es[i].offset # es[j].offset
        /\ \A i, j \in DOMAIN ds : i # j => ds[i] # ds[j]
        /\ \A i \in DOMAIN es, j \in DOMAIN ds : es[i].offset # ds[j]
        /\ \A i \in DOMAIN es : es[i].offset < m + Len(ds)
        /\ \A i \in DOMAIN ds : ds[i] < m + Len(ds)
        /\ m + Len(ds) <= Cardinality(Keys)
    BY DEF Good
  <2>2. /\ DOMAIN us = DOMAIN es /\ Len(us) = m
        /\ \A i \in DOMAIN es : us[i].key = es[i].key /\ us[i].offset = es[i].offset
    BY <1>2
  <2> HIDE DEF es, us, ds, m
  <2>3. /\ \A i, j \in DOMAIN us : i # j => us[i].key # us[j].key /\ us[i].offset # us[j].offset
        /\ \A i \in DOMAIN us, j \in DOMAIN ds : us[i].offset # ds[j]
        /\ \A i \in DOMAIN us : us[i].offset < m + Len(ds)
    BY <2>1, <2>2
  <2>4. /\ \A i, j \in DOMAIN us : i # j => us[i].key # us[j].key /\ us[i].offset # us[j].offset
        /\ \A i, j \in DOMAIN ds : i # j => ds[i] # ds[j]
        /\ \A i \in DOMAIN us, j \in DOMAIN ds : us[i].offset # ds[j]
        /\ \A i \in DOMAIN us : us[i].offset < Len(us) + Len(ds)
        /\ \A i \in DOMAIN ds : ds[i] < Len(us) + Len(ds)
        /\ Len(us) + Len(ds) <= Cardinality(Keys)
    BY <2>1, <2>2, <2>3
  <2>5. us = u.entries /\ ds = u.deletedOffsets
    BY DEF us, ds
  <2> QED
    BY <2>4, <2>5, ZenonT(40) DEF Good
<1>4. ASSUME NEW j PROVE Has(u, j) <=> Has(t, j)
  BY DEF Has
<1>5. ASSUME NEW j, Has(t, j)
      PROVE  /\ Find(u, j).offset = Find(t, j).offset
             /\ Find(u, j).specific = u.entries[IndexOf(t, j)].specific
  <2>1. IndexOf(t, j) \in DOMAIN t.entries /\ Find(t, j) = t.entries[IndexOf(t, j)] /\ Find(t, j).key = j
    BY <1>5, Found
  <2>2. Find(u, j) = u.entries[IndexOf(t, j)]
    BY <1>3, <2>1, FoundAt
  <2> QED
    BY <2>1, <2>2
<1> QED
  BY <1>3, <1>4, <1>5

\* Other specific values make another table of the same keys and offsets.
LEMMA Respecified ==
    ASSUME NEW t \in Tables, NEW sp \in [DOMAIN t.entries -> Functions \cup {None}]
    PROVE  [entries |-> [i \in DOMAIN t.entries |-> Entry(t.entries[i].key, t.entries[i].offset, sp[i])],
            deletedOffsets |-> t.deletedOffsets] \in Tables
<1> DEFINE es == t.entries
           ds == t.deletedOffsets
           us == [i \in DOMAIN es |-> Entry(es[i].key, es[i].offset, sp[i])]
<1>1. /\ DOMAIN es = 1..Len(es) /\ Len(es) \in Nat
      /\ \A i \in DOMAIN es : es[i].key \in Keys /\ es[i].offset \in Offsets
      /\ ds \in Seq(Offsets)
  BY TableParts
<1> HIDE DEF es, ds
<1>2. \A i \in DOMAIN es : Entry(es[i].key, es[i].offset, sp[i]) \in Entries
  BY <1>1 DEF Entry, Entries, es
<1>3. us \in [1..Len(es) -> Entries]
  BY <1>1, <1>2
<1>4. us \in Seq(Entries)
  BY <1>1, <1>3
<1> HIDE DEF us
<1>5. [entries |-> us, deletedOffsets |-> ds] \in Tables
  BY <1>1, <1>4 DEF Tables
<1> QED
  BY <1>5 DEF us, es, ds

\* Structure::despecifyFunction.
LEMMA DespecifyOne ==
    ASSUME NEW t, Good(t), NEW k, Has(t, k), NEW u, u = DespecifyFunction(t, k)
    PROVE  /\ Good(u) /\ Has(u, k) /\ Find(u, k).specific = None
           /\ Find(u, k).offset = Find(t, k).offset
           /\ SameBut(t, u, k)
<1> DEFINE es == t.entries
           sp == [i \in DOMAIN es |-> IF es[i].key = k THEN None ELSE es[i].specific]
<1>1. t \in Tables
  BY DEF Good
<1>2. /\ t = [entries |-> es, deletedOffsets |-> t.deletedOffsets]
      /\ \A i \in DOMAIN es : /\ es[i] = Entry(es[i].key, es[i].offset, es[i].specific)
                              /\ es[i].specific \in Functions \cup {None}
  BY <1>1, TableParts
<1>3. sp \in [DOMAIN es -> Functions \cup {None}]
  BY <1>2
<1>4. \A i \in DOMAIN es : (IF es[i].key = k THEN [es[i] EXCEPT !.specific = None] ELSE es[i])
                              = Entry(es[i].key, es[i].offset, sp[i])
  BY <1>2 DEF Entry
<1>5. u = [entries |-> [i \in DOMAIN es |-> Entry(es[i].key, es[i].offset, sp[i])],
           deletedOffsets |-> t.deletedOffsets]
  <2>1. u = [t EXCEPT !.entries = [i \in DOMAIN es |-> IF es[i].key = k THEN [es[i] EXCEPT !.specific = None]
                                                                         ELSE es[i]]]
    BY DEF DespecifyFunction
  <2>2. [i \in DOMAIN es |-> IF es[i].key = k THEN [es[i] EXCEPT !.specific = None] ELSE es[i]]
          = [i \in DOMAIN es |-> Entry(es[i].key, es[i].offset, sp[i])]
    BY <1>4
  <2> HIDE DEF es, sp
  <2> QED
    BY <1>2, <2>1, <2>2
<1>6. /\ u \in Tables
      /\ DOMAIN u.entries = DOMAIN es /\ u.deletedOffsets = t.deletedOffsets
      /\ \A i \in DOMAIN es : /\ u.entries[i].key = es[i].key
                              /\ u.entries[i].offset = es[i].offset
                              /\ u.entries[i].specific = sp[i]
  <2>1. [entries |-> [i \in DOMAIN es |-> Entry(es[i].key, es[i].offset, sp[i])],
         deletedOffsets |-> t.deletedOffsets] \in Tables
    BY <1>1, <1>3, Respecified
  <2> HIDE DEF es, sp
  <2> QED
    BY <1>5, <2>1 DEF Entry
<1> HIDE DEF sp
<1>8. /\ Good(u)
      /\ \A j : Has(u, j) <=> Has(t, j)
      /\ \A j : Has(t, j) => /\ Find(u, j).offset = Find(t, j).offset
                             /\ Find(u, j).specific = u.entries[IndexOf(t, j)].specific
  BY <1>6, SameSlots
<1>7. \A j : Has(t, j) => Find(u, j).specific = IF j = k THEN None ELSE Find(t, j).specific
  <2> SUFFICES ASSUME NEW j, Has(t, j)
               PROVE  Find(u, j).specific = IF j = k THEN None ELSE Find(t, j).specific
    OBVIOUS
  <2>1. IndexOf(t, j) \in DOMAIN es /\ Find(t, j) = es[IndexOf(t, j)] /\ Find(t, j).key = j
    BY Found
  <2> DEFINE i == IndexOf(t, j)
  <2>2. u.entries[i].specific = sp[i]
    BY <1>6, <2>1
  <2>3. sp[i] = IF es[i].key = k THEN None ELSE es[i].specific
    BY <2>1 DEF sp
  <2>4. Find(u, j).specific = u.entries[i].specific
    BY <1>8
  <2> HIDE DEF i
  <2> QED
    BY <2>1, <2>2, <2>3, <2>4 DEF i
<1> QED
  BY <1>7, <1>8 DEF SameBut

\* Structure::despecifyAllFunctions.
LEMMA DespecifyAll ==
    ASSUME NEW t, Good(t), NEW k, Has(t, k), NEW u, u = DespecifyAllFunctions(t)
    PROVE  /\ Good(u) /\ Has(u, k) /\ Find(u, k).specific = None
           /\ Find(u, k).offset = Find(t, k).offset
           /\ SameBut(t, u, k)
<1> DEFINE es == t.entries
           sp == [i \in DOMAIN es |-> None]
<1>1. t \in Tables
  BY DEF Good
<1>2. /\ t = [entries |-> es, deletedOffsets |-> t.deletedOffsets]
      /\ \A i \in DOMAIN es : es[i] = Entry(es[i].key, es[i].offset, es[i].specific)
  BY <1>1, TableParts
<1>3. sp \in [DOMAIN es -> Functions \cup {None}]
  OBVIOUS
<1>4. \A i \in DOMAIN es : [es[i] EXCEPT !.specific = None] = Entry(es[i].key, es[i].offset, sp[i])
  BY <1>2 DEF Entry
<1>5. u = [entries |-> [i \in DOMAIN es |-> Entry(es[i].key, es[i].offset, sp[i])],
           deletedOffsets |-> t.deletedOffsets]
  <2>1. u = [t EXCEPT !.entries = [i \in DOMAIN es |-> [es[i] EXCEPT !.specific = None]]]
    BY DEF DespecifyAllFunctions
  <2>2. [i \in DOMAIN es |-> [es[i] EXCEPT !.specific = None]]
          = [i \in DOMAIN es |-> Entry(es[i].key, es[i].offset, sp[i])]
    BY <1>4
  <2> HIDE DEF es, sp
  <2> QED
    BY <1>2, <2>1, <2>2
<1>6. /\ u \in Tables
      /\ DOMAIN u.entries = DOMAIN es /\ u.deletedOffsets = t.deletedOffsets
      /\ \A i \in DOMAIN es : /\ u.entries[i].key = es[i].key
                              /\ u.entries[i].offset = es[i].offset
                              /\ u.entries[i].specific = sp[i]
  <2>1. [entries |-> [i \in DOMAIN es |-> Entry(es[i].key, es[i].offset, sp[i])],
         deletedOffsets |-> t.deletedOffsets] \in Tables
    BY <1>1, <1>3, Respecified
  <2> HIDE DEF es, sp
  <2> QED
    BY <1>5, <2>1 DEF Entry
<1> HIDE DEF sp
<1>8. /\ Good(u)
      /\ \A j : Has(u, j) <=> Has(t, j)
      /\ \A j : Has(t, j) => /\ Find(u, j).offset = Find(t, j).offset
                             /\ Find(u, j).specific = u.entries[IndexOf(t, j)].specific
  BY <1>6, SameSlots
<1>7. \A j : Has(t, j) => Find(u, j).specific = None
  <2> SUFFICES ASSUME NEW j, Has(t, j) PROVE Find(u, j).specific = None
    OBVIOUS
  <2>1. IndexOf(t, j) \in DOMAIN es
    BY Found
  <2> QED
    BY <1>6, <1>8, <2>1 DEF sp
<1> QED
  BY <1>7, <1>8 DEF SameBut

\* flattenDictionaryStructure: the properties are numbered in the order of the table.
LEMMA Renumbered ==
    ASSUME NEW t, Good(t), NEW u \in Tables,
           DOMAIN u.entries = DOMAIN t.entries, u.deletedOffsets = <<>>,
           \A i \in DOMAIN t.entries : /\ u.entries[i].key = t.entries[i].key
                                       /\ u.entries[i].offset = i - 1
                                       /\ u.entries[i].specific = t.entries[i].specific
    PROVE  /\ Good(u)
           /\ \A j : Has(u, j) <=> Has(t, j)
           /\ \A j : Has(t, j) => /\ Find(u, j).offset = IndexOf(t, j) - 1
                                  /\ Find(u, j).specific = Find(t, j).specific
<1> DEFINE es == t.entries
           us == u.entries
           ds == u.deletedOffsets
           m == Len(es)
<1>1. t \in Tables
  BY DEF Good
<1>2. DOMAIN es = 1..m /\ m \in Nat /\ Cardinality(Keys) \in Nat /\ Len(t.deletedOffsets) \in Nat
  BY <1>1, TableParts
<1>3. m + Len(t.deletedOffsets) <= Cardinality(Keys)
  BY DEF Good
<1>4. \A i, j \in DOMAIN es : i # j => es[i].key # es[j].key
  BY DEF Good
<1>5. DOMAIN us = 1..Len(us) /\ Len(us) \in Nat
  BY TableParts
<1>6. /\ DOMAIN us = DOMAIN es /\ ds = <<>>
      /\ \A i \in DOMAIN es : us[i].key = es[i].key /\ us[i].offset = i - 1
  OBVIOUS
<1>7. DOMAIN ds = {} /\ Len(ds) = 0
  BY <1>6
<1> HIDE DEF es, us, ds, m
<1>8. Len(us) = m
  <2> DEFINE l == Len(us)
  <2>1. 1..m = 1..l /\ m \in Nat /\ l \in Nat
    BY <1>2, <1>5, <1>6
  <2> HIDE DEF l
  <2>2. (m # 0 => m \in 1..l) /\ (l # 0 => l \in 1..m)
    BY <2>1
  <2>3. m = l
    BY <2>1, <2>2
  <2> QED
    BY <2>3 DEF l
<1>9. /\ \A i, j \in DOMAIN us : i # j => us[i].key # us[j].key /\ us[i].offset # us[j].offset
      /\ \A i \in DOMAIN us : us[i].offset < m + 0
  BY <1>2, <1>4, <1>6
<1>10. Good(u)
  <2>1. /\ \A i, j \in DOMAIN us : i # j => us[i].key # us[j].key /\ us[i].offset # us[j].offset
        /\ \A i, j \in DOMAIN ds : i # j => ds[i] # ds[j]
        /\ \A i \in DOMAIN us, j \in DOMAIN ds : us[i].offset # ds[j]
        /\ \A i \in DOMAIN us : us[i].offset < Len(us) + Len(ds)
        /\ \A i \in DOMAIN ds : ds[i] < Len(us) + Len(ds)
        /\ Len(us) + Len(ds) <= Cardinality(Keys)
    BY <1>2, <1>3, <1>7, <1>8, <1>9
  <2>2. us = u.entries /\ ds = u.deletedOffsets
    BY DEF us, ds
  <2> QED
    BY <2>1, <2>2, ZenonT(40) DEF Good
<1>11. ASSUME NEW j PROVE Has(u, j) <=> Has(t, j)
  BY DEF Has
<1>12. ASSUME NEW j, Has(t, j)
       PROVE  /\ Find(u, j).offset = IndexOf(t, j) - 1
              /\ Find(u, j).specific = Find(t, j).specific
  <2>1. IndexOf(t, j) \in DOMAIN t.entries /\ Find(t, j) = t.entries[IndexOf(t, j)] /\ Find(t, j).key = j
    BY <1>12, Found
  <2>2. Find(u, j) = u.entries[IndexOf(t, j)]
    BY <1>10, <2>1, FoundAt
  <2> QED
    BY <2>1, <2>2
<1> QED
  BY <1>10, <1>11, <1>12

\* The renumbered table.
LEMMA Renumbering ==
    ASSUME NEW t, Good(t), NEW u,
           u = [entries |-> [i \in DOMAIN t.entries |-> [t.entries[i] EXCEPT !.offset = i - 1]],
                deletedOffsets |-> <<>>]
    PROVE  /\ u \in Tables
           /\ DOMAIN u.entries = DOMAIN t.entries /\ u.deletedOffsets = <<>>
           /\ \A i \in DOMAIN t.entries : /\ u.entries[i].key = t.entries[i].key
                                          /\ u.entries[i].offset = i - 1
                                          /\ u.entries[i].specific = t.entries[i].specific
<1> DEFINE es == t.entries
           us == [i \in DOMAIN es |-> [es[i] EXCEPT !.offset = i - 1]]
           m == Len(es)
<1>1. t \in Tables
  BY DEF Good
<1>2. /\ DOMAIN es = 1..m /\ m \in Nat /\ Cardinality(Keys) \in Nat /\ Len(t.deletedOffsets) \in Nat
      /\ \A i \in DOMAIN es : /\ es[i] = Entry(es[i].key, es[i].offset, es[i].specific)
                              /\ es[i].key \in Keys /\ es[i].specific \in Functions \cup {None}
  BY <1>1, TableParts
<1>3. m + Len(t.deletedOffsets) <= Cardinality(Keys)
  BY DEF Good
<1>4. u = [entries |-> us, deletedOffsets |-> <<>>]
  OBVIOUS
<1> HIDE DEF es, m
<1>5. \A i \in DOMAIN es : /\ us[i] \in Entries /\ us[i].key = es[i].key /\ us[i].offset = i - 1
                          /\ us[i].specific = es[i].specific
  <2> TAKE i \in DOMAIN es
  <2>1. us[i] = [es[i] EXCEPT !.offset = i - 1] /\ es[i] = Entry(es[i].key, es[i].offset, es[i].specific)
    BY <1>2
  <2>2. [Entry(es[i].key, es[i].offset, es[i].specific) EXCEPT !.offset = i - 1]
           = Entry(es[i].key, i - 1, es[i].specific)
    BY DEF Entry
  <2>3. i - 1 \in Offsets /\ es[i].key \in Keys /\ es[i].specific \in Functions \cup {None}
    BY <1>2, <1>3 DEF Offsets
  <2> HIDE DEF us
  <2>4. us[i] = Entry(es[i].key, i - 1, es[i].specific)
    BY <2>1, <2>2
  <2> QED
    BY <2>3, <2>4 DEF Entry, Entries
<1>6. us \in [1..m -> Entries] /\ DOMAIN us = DOMAIN es
  BY <1>2, <1>5
<1>7. us \in Seq(Entries)
  BY <1>2, <1>6
<1> HIDE DEF us
<1>8. [entries |-> us, deletedOffsets |-> <<>>] \in Tables
  BY <1>7 DEF Tables
<1>9. u.entries = us /\ u.deletedOffsets = <<>> /\ u \in Tables
  BY <1>4, <1>8
<1> QED
  BY <1>5, <1>6, <1>9 DEF es

-----------------------------------------------------------------------------
(***************************************************************************)
(* What a table says of an object.                                         *)
(***************************************************************************)
\* A table describes the slots of an object with properties p.
Describes(t, slots, p) ==
    /\ slots = [n \in Offsets |-> slots[n]]
    /\ p = [k \in Keys |-> p[k]]
    /\ \A k \in Keys :
          IF Has(t, k) THEN /\ slots[Find(t, k).offset] = p[k]
                            /\ p[k] # None
                            /\ Find(t, k).specific \in {None, p[k]}
                       ELSE p[k] = None

\* A put: the value is in the slot of its key, and no other property has that slot.
LEMMA DescribesPut ==
    ASSUME NEW t, NEW slots, NEW p, Good(t), Describes(t, slots, p),
           NEW u, NEW k \in Keys, NEW v, v # None, Good(u), SameBut(t, u, k),
           Has(u, k), Find(u, k).specific \in {None, v},
           NEW n, n = Find(u, k).offset
    PROVE  Describes(u, [slots EXCEPT ![n] = v], [p EXCEPT ![k] = v])
<1>1. n \in Offsets
  BY Found
<1>2. slots = [i \in Offsets |-> slots[i]] /\ p = [i \in Keys |-> p[i]]
  BY DEF Describes
<1> DEFINE ss == [slots EXCEPT ![n] = v]
           q == [p EXCEPT ![k] = v]
<1>3. /\ ss = [i \in Offsets |-> ss[i]] /\ q = [i \in Keys |-> q[i]]
      /\ ss[n] = v /\ \A i \in Offsets : i # n => ss[i] = slots[i]
      /\ q[k] = v /\ \A i \in Keys : i # k => q[i] = p[i]
  BY <1>1, <1>2
<1> HIDE DEF ss, q
<1>4. ASSUME NEW j \in Keys
      PROVE  IF Has(u, j) THEN /\ ss[Find(u, j).offset] = q[j]
                               /\ q[j] # None
                               /\ Find(u, j).specific \in {None, q[j]}
                          ELSE q[j] = None
  <2>1. CASE j = k
    BY <1>3, <2>1
  <2>2. CASE j # k /\ Has(u, j)
    <3>1. Find(u, j).offset \in Offsets /\ Find(u, j).offset # n
      BY <2>2, Found, DifferentSlots
    <3>2. /\ Has(t, j) /\ Find(u, j).offset = Find(t, j).offset
          /\ Find(u, j).specific \in {None, Find(t, j).specific}
      BY <2>2 DEF SameBut
    <3>3. slots[Find(t, j).offset] = p[j] /\ p[j] # None /\ Find(t, j).specific \in {None, p[j]}
      BY <3>2 DEF Describes
    <3> QED
      BY <1>3, <2>2, <3>1, <3>2, <3>3
  <2>3. CASE j # k /\ ~Has(u, j)
    <3>1. ~Has(t, j)
      BY <2>3 DEF SameBut
    <3> QED
      BY <1>3, <2>3, <3>1 DEF Describes
  <2> QED
    BY <2>1, <2>2, <2>3
<1>5. Describes(u, ss, q)
  BY <1>3, <1>4 DEF Describes
<1> QED
  BY <1>5 DEF ss, q

\* A delete: the slot of the key is free, and no other property had it.
LEMMA DescribesDelete ==
    ASSUME NEW t, NEW slots, NEW p, Good(t), Describes(t, slots, p),
           NEW u, NEW k \in Keys, NEW v, Good(u), SameBut(t, u, k),
           Has(t, k), ~Has(u, k), NEW n, n = Find(t, k).offset
    PROVE  Describes(u, [slots EXCEPT ![n] = v], [p EXCEPT ![k] = None])
<1>1. n \in Offsets
  BY Found
<1>2. slots = [i \in Offsets |-> slots[i]] /\ p = [i \in Keys |-> p[i]]
  BY DEF Describes
<1> DEFINE ss == [slots EXCEPT ![n] = v]
           q == [p EXCEPT ![k] = None]
<1>3. /\ ss = [i \in Offsets |-> ss[i]] /\ q = [i \in Keys |-> q[i]]
      /\ \A i \in Offsets : i # n => ss[i] = slots[i]
      /\ q[k] = None /\ \A i \in Keys : i # k => q[i] = p[i]
  BY <1>1, <1>2
<1> HIDE DEF ss, q
<1>4. ASSUME NEW j \in Keys
      PROVE  IF Has(u, j) THEN /\ ss[Find(u, j).offset] = q[j]
                               /\ q[j] # None
                               /\ Find(u, j).specific \in {None, q[j]}
                          ELSE q[j] = None
  <2>1. CASE j = k
    BY <1>3, <2>1
  <2>2. CASE j # k /\ Has(u, j)
    <3>1. /\ Has(t, j) /\ Find(u, j).offset = Find(t, j).offset
          /\ Find(u, j).specific \in {None, Find(t, j).specific}
      BY <2>2 DEF SameBut
    <3>2. Find(t, j).offset \in Offsets /\ Find(t, j).offset # n
      BY <2>2, <3>1, Found, DifferentSlots
    <3>3. slots[Find(t, j).offset] = p[j] /\ p[j] # None /\ Find(t, j).specific \in {None, p[j]}
      BY <3>1 DEF Describes
    <3> QED
      BY <1>3, <2>2, <3>1, <3>2, <3>3
  <2>3. CASE j # k /\ ~Has(u, j)
    <3>1. ~Has(t, j)
      BY <2>3 DEF SameBut
    <3> QED
      BY <1>3, <2>3, <3>1 DEF Describes
  <2> QED
    BY <2>1, <2>2, <2>3
<1>5. Describes(u, ss, q)
  BY <1>3, <1>4 DEF Describes
<1> QED
  BY <1>5 DEF ss, q

\* Flattening: the values move to the slots the table says now.
LEMMA DescribesRenumbered ==
    ASSUME NEW t, NEW slots, NEW p, Good(t), Describes(t, slots, p), NEW u,
           u = [entries |-> [i \in DOMAIN t.entries |-> [t.entries[i] EXCEPT !.offset = i - 1]],
                deletedOffsets |-> <<>>]
    PROVE  Describes(u, [n \in Offsets |-> IF n < Len(t.entries) THEN slots[t.entries[n + 1].offset]
                                                                 ELSE slots[n]], p)
<1> DEFINE ss == [n \in Offsets |-> IF n < Len(t.entries) THEN slots[t.entries[n + 1].offset] ELSE slots[n]]
<1>1. /\ Good(u)
      /\ \A j : Has(u, j) <=> Has(t, j)
      /\ \A j : Has(t, j) => /\ Find(u, j).offset = IndexOf(t, j) - 1
                             /\ Find(u, j).specific = Find(t, j).specific
  <2>1. /\ u \in Tables
        /\ DOMAIN u.entries = DOMAIN t.entries /\ u.deletedOffsets = <<>>
        /\ \A i \in DOMAIN t.entries : /\ u.entries[i].key = t.entries[i].key
                                       /\ u.entries[i].offset = i - 1
                                       /\ u.entries[i].specific = t.entries[i].specific
    BY Renumbering
  <2> QED
    BY <2>1, Renumbered, ZenonT(40)
<1>2. ASSUME NEW j \in Keys, Has(t, j) PROVE ss[Find(u, j).offset] = slots[Find(t, j).offset]
  <2> DEFINE n == Find(u, j).offset
  <2>1. n \in Offsets /\ n = IndexOf(t, j) - 1
    BY <1>1, <1>2, Found
  <2>2. IndexOf(t, j) \in 1..Len(t.entries) /\ Find(t, j) = t.entries[IndexOf(t, j)] /\ Len(t.entries) \in Nat
    <3>1. t \in Tables
      BY DEF Good
    <3>2. DOMAIN t.entries = 1..Len(t.entries) /\ Len(t.entries) \in Nat
      BY <3>1, TableParts
    <3> QED
      BY <1>2, <3>2, Found
  <2>3. n < Len(t.entries) /\ n + 1 = IndexOf(t, j)
    BY <2>1, <2>2
  <2> QED
    BY <2>1, <2>2, <2>3
<1>3. ss = [i \in Offsets |-> ss[i]]
  OBVIOUS
<1> HIDE DEF ss
<1>4. Describes(u, ss, p)
  BY <1>1, <1>2, <1>3 DEF Describes
<1> QED
  BY <1>4 DEF ss

-----------------------------------------------------------------------------
(***************************************************************************)
(* The invariant.  S, so, st, pr and ca are the values of the variables;   *)
(* they are arguments so that a step may be described part by part.        *)
(***************************************************************************)
\* A structure; its transitions lead to other structures.
IsStructure(r) ==
    /\ r = [previous |-> r.previous, nameInPrevious |-> r.nameInPrevious,
            specificInPrevious |-> r.specificInPrevious, offset |-> r.offset, table |-> r.table,
            pinned |-> r.pinned, kind |-> r.kind, thrash |-> r.thrash,
            transitions |-> r.transitions]
    /\ r.transitions \in [Keys -> Ids \cup {None}]

\* V has the structures of all objects and whatever they lead to.
Holds(S, so, ca, V) ==
    /\ S = [s \in Ids |-> S[s]]
    /\ so \in [Objects -> V]
    /\ V \in SUBSET Ids
    /\ Root \in V
    /\ \A s \in V : /\ IsStructure(S[s])
                    /\ S[s].previous \in V \cup {None}
                    /\ \A k \in Keys : S[s].transitions[k] \in V \cup {None}
    /\ \A c \in ca : c.structure \in V => c.next \in V \cup {None}

\* The table after the property of structure r was added.
Extended(t, r) ==
    [entries |-> Append(t.entries, EntryInPrevious(r)), deletedOffsets |-> <<>>]

\* The structures A that objects share are a tree.  T has the table of each of them, whether
\* it holds the table itself or has to rebuild it.
Shared(S, A, T) ==
    /\ Root \in A /\ S[Root].previous = None /\ T[Root] = EmptyTable
    /\ \A s \in A : /\ ~S[s].pinned /\ S[s].kind = "none"
                    /\ Good(T[s]) /\ S[s].table \in {None, T[s]}
    /\ \A s \in A \ {Root} : /\ S[s].previous \in A
                             /\ T[s] = Extended(T[S[s].previous], S[s])
                             /\ S[s].offset = Len(T[S[s].previous].entries)
    /\ \A s \in A, k \in Keys : S[s].transitions[k] # None =>
          /\ S[s].transitions[k] \in A \ {Root}
          /\ S[S[s].transitions[k]].previous = s
          /\ S[S[s].transitions[k]].nameInPrevious = k

\* Any other structure has one object at most, and as long as it does it keeps its
\* table, and nothing leads on from it.
Private(S, so, A, T) ==
    \A o \in Objects : so[o] \notin A =>
      /\ Good(T[so[o]])
      /\ S[so[o]].table = T[so[o]]
      /\ S[so[o]].kind \in {"none", "cached", "uncached"}
      /\ \A k \in Keys : S[so[o]].transitions[k] = None
      /\ \A p \in Objects \ {o} : so[p] # so[o]

\* The table of its structure describes every object.
Described(so, st, pr, T) ==
    /\ st = [o \in Objects |-> st[o]] /\ pr = [o \in Objects |-> pr[o]]
    /\ \A o \in Objects : Describes(T[so[o]], st[o], pr[o])

\* What a cache remembers of its structure.
Remembers(S, A, T, c) ==
    /\ c.kind \in {"get", "replace", "method"} =>
          c.key \in Keys /\ Has(T[c.structure], c.key) /\ S[c.structure].kind # "uncached"
    /\ c.kind \in {"get", "replace"} => Find(T[c.structure], c.key).offset = c.offset
    /\ c.kind = "replace" => Find(T[c.structure], c.key).specific = None
    /\ c.kind = "method" => /\ S[c.structure].kind = "none"
                            /\ Find(T[c.structure], c.key).specific = c.function
                            /\ c.function # None
    /\ c.kind = "transition" => /\ c.structure \in A /\ c.next \in A \ {Root}
                                /\ S[c.next].previous = c.structure
                                /\ S[c.next].nameInPrevious = c.key
                                /\ S[c.next].offset = c.offset
                                /\ S[c.next].specificInPrevious = None

\* The structures that objects have, or may have again.
Live(so, A) == A \cup {so[o] : o \in Objects}

\* So it is for the caches of the structures that objects have or can get.
Remembered(S, so, ca, V, A, T) ==
    \A c \in ca : c.structure \in V /\ c.structure \in Live(so, A) => Remembers(S, A, T, c)

\* All of this for the structures in V, of which those in A are shared.
Shape(S, so, st, pr, ca, V, A, T) ==
    /\ Holds(S, so, ca, V)
    /\ A \in SUBSET V
    /\ Shared(S, A, T)
    /\ Private(S, so, A, T)
    /\ Described(so, st, pr, T)
    /\ Remembered(S, so, ca, V, A, T)

\* The invariant.
StructInv ==
    \E V, A, T : Shape(structures, structureOf, storage, props, caches, V, A, T)

-----------------------------------------------------------------------------
(***************************************************************************)
(* What structures lead to.                                                *)
(***************************************************************************)
\* The structures in V lead to no others.
Closed(V, weakly) == \A s \in V : LeadsTo(s, weakly) \subseteq V

\* One more round.
Further(r, weakly) == r \cup UNION {LeadsTo(s, weakly) : s \in r}

\* The rounds of Reached.
LEMMA Rounds ==
    ASSUME NEW V, NEW weakly, Closed(V, weakly), NEW R \in SUBSET V
    PROVE  \E a : /\ a[0] = R
                  /\ \A n \in Nat : a[n + 1] = Further(a[n], weakly)
                  /\ Reached(R, weakly) = a[MaxStructures]
<1> DEFINE Path(p, n, s) == /\ p \in [0..n -> V] /\ p[0] \in R /\ p[n] = s
                            /\ \A i \in 1..n : p[i] = p[i - 1] \/ p[i] \in LeadsTo(p[i - 1], weakly)
           g == [n \in Nat |-> {s \in V : \E p : Path(p, n, s)}]
<1>1. g[0] = R
  <2>1. ASSUME NEW s \in R PROVE s \in g[0]
    <3> DEFINE p == [i \in 0..0 |-> s]
    <3>1. Path(p, 0, s)
      OBVIOUS
    <3>2. s \in V
      OBVIOUS
    <3> HIDE DEF Path, p
    <3> QED
      BY <3>1, <3>2
  <2>2. ASSUME NEW s \in g[0] PROVE s \in R
    <3>1. PICK p : Path(p, 0, s)
      BY <2>2
    <3> QED
      BY <3>1
  <2> QED
    BY <2>1, <2>2
<1>2. ASSUME NEW n \in Nat PROVE g[n + 1] = Further(g[n], weakly)
  <2>1. n + 1 \in Nat
    OBVIOUS
  <2>2. ASSUME NEW s \in g[n + 1] PROVE s \in Further(g[n], weakly)
    <3>1. s \in V /\ \E p : Path(p, n + 1, s)
      BY <2>1, <2>2
    <3>2. PICK p : Path(p, n + 1, s)
      BY <3>1
    <3> DEFINE q == [i \in 0..n |-> p[i]]
               r == p[n]
    <3>3. Path(q, n, r)
      BY <3>2
    <3>4. r \in V /\ (s = r \/ s \in LeadsTo(r, weakly))
      <4>1. n \in 0..(n + 1) /\ n + 1 \in 1..(n + 1) /\ n + 1 - 1 = n
        OBVIOUS
      <4> QED
        BY <3>2, <4>1
    <3> HIDE DEF Path, q, r
    <3>5. r \in g[n]
      BY <3>3, <3>4
    <3> QED
      BY <3>4, <3>5 DEF Further
  <2>3. ASSUME NEW s \in Further(g[n], weakly) PROVE s \in g[n + 1]
    <3>1. PICK r \in g[n] : s = r \/ s \in LeadsTo(r, weakly)
      BY <2>3 DEF Further
    <3>2. r \in V /\ \E p : Path(p, n, r)
      BY <3>1
    <3>3. PICK p : Path(p, n, r)
      BY <3>2
    <3>4. s \in V
      BY <3>1, <3>2 DEF Closed
    <3> DEFINE q == [i \in 0..(n + 1) |-> IF i = n + 1 THEN s ELSE p[i]]
    <3>5. Path(q, n + 1, s)
      <4>1. q \in [0..(n + 1) -> V] /\ q[0] \in R /\ q[n + 1] = s
        BY <3>3, <3>4
      <4>2. ASSUME NEW i \in 1..(n + 1) PROVE q[i] = q[i - 1] \/ q[i] \in LeadsTo(q[i - 1], weakly)
        <5>1. CASE i = n + 1
          <6>1. q[i] = s /\ q[i - 1] = r
            BY <3>3, <5>1
          <6> QED
            BY <3>1, <6>1
        <5>2. CASE i # n + 1
          <6>1. i \in 1..n /\ q[i] = p[i] /\ q[i - 1] = p[i - 1]
            BY <5>2
          <6> QED
            BY <3>3, <6>1
        <5> QED
          BY <5>1, <5>2
      <4> HIDE DEF q
      <4> QED
        BY <4>1, <4>2
    <3> HIDE DEF Path, q
    <3> QED
      BY <2>1, <3>4, <3>5
  <2> HIDE DEF g
  <2> QED
    BY <2>2, <2>3
<1>3. g = [n \in Nat |-> g[n]]
  OBVIOUS
<1> HIDE DEF g
<1>4. g = [n \in Nat |-> IF n = 0 THEN R
                         ELSE g[n - 1] \cup UNION {LeadsTo(s, weakly) : s \in g[n - 1]}]
  <2>1. ASSUME NEW n \in Nat
        PROVE  g[n] = IF n = 0 THEN R ELSE g[n - 1] \cup UNION {LeadsTo(s, weakly) : s \in g[n - 1]}
    <3>1. CASE n = 0
      BY <1>1, <3>1
    <3>2. CASE n # 0
      <4>1. n - 1 \in Nat /\ n - 1 + 1 = n
        BY <3>2
      <4>2. g[n - 1 + 1] = Further(g[n - 1], weakly)
        BY <1>2, <4>1
      <4> QED
        BY <3>2, <4>1, <4>2 DEF Further
    <3> QED
      BY <3>1, <3>2
  <2> QED
    BY <1>3, <2>1
<1> DEFINE a == CHOOSE after : after = [n \in Nat |-> IF n = 0 THEN R
                         ELSE after[n - 1] \cup UNION {LeadsTo(s, weakly) : s \in after[n - 1]}]
<1>5. a = [n \in Nat |-> IF n = 0 THEN R ELSE a[n - 1] \cup UNION {LeadsTo(s, weakly) : s \in a[n - 1]}]
  BY <1>4
<1>6. Reached(R, weakly) = a[MaxStructures]
  BY DEF Reached
<1> HIDE DEF a
<1>7. a[0] = R
  BY <1>5
<1>8. ASSUME NEW n \in Nat PROVE a[n + 1] = Further(a[n], weakly)
  <2>1. n + 1 \in Nat /\ n + 1 # 0 /\ n + 1 - 1 = n
    OBVIOUS
  <2>2. a[n + 1] = IF n + 1 = 0 THEN R
                   ELSE a[n + 1 - 1] \cup UNION {LeadsTo(s, weakly) : s \in a[n + 1 - 1]}
    BY <1>5, <2>1
  <2> QED
    BY <2>1, <2>2 DEF Further
<1> QED
  BY <1>6, <1>7, <1>8

\* Structure::visitChildren, and the weak references: Reached has what the structures of R
\* lead to and nothing else.
LEMMA ReachedIsLeast ==
    ASSUME NEW V \in SUBSET Ids, NEW weakly, Closed(V, weakly), NEW R \in SUBSET V, R # {}
    PROVE  /\ R \subseteq Reached(R, weakly) /\ Reached(R, weakly) \subseteq V
           /\ Closed(Reached(R, weakly), weakly)
<1>1. PICK a : /\ a[0] = R
               /\ \A n \in Nat : a[n + 1] = Further(a[n], weakly)
               /\ Reached(R, weakly) = a[MaxStructures]
  BY Rounds
<1>2. MaxStructures \in Nat
  BY StructuresAssumption
<1>3. Ids = 0..MaxStructures /\ IsFiniteSet(Ids) /\ Cardinality(Ids) = MaxStructures + 1
  BY <1>2, FS_Interval DEF Ids
<1> DEFINE E == {n \in Nat : R \subseteq a[n] /\ a[n] \subseteq V}
<1>4. Nat \subseteq E
  <2>1. 0 \in E
    BY <1>1
  <2>2. ASSUME NEW n \in Nat, n \in E PROVE n + 1 \in E
    <3>1. a[n + 1] = Further(a[n], weakly)
      BY <1>1
    <3>2. Further(a[n], weakly) \subseteq V /\ R \subseteq Further(a[n], weakly)
      BY <2>2 DEF Further, Closed
    <3> QED
      BY <3>1, <3>2
  <2> HIDE DEF E
  <2> QED
    BY <2>1, <2>2, NaturalSteps
<1>5. \A n \in Nat : /\ R \subseteq a[n] /\ a[n] \subseteq V
                     /\ IsFiniteSet(a[n]) /\ Cardinality(a[n]) \in Nat
  <2> TAKE n \in Nat
  <2>1. R \subseteq a[n] /\ a[n] \subseteq V
    BY <1>4
  <2>2. IsFiniteSet(a[n])
    BY <1>3, <2>1, FS_Subset
  <2> QED
    BY <2>1, <2>2, FS_CardinalityType
<1> DEFINE G == {n \in Nat : Closed(a[n], weakly) \/ Cardinality(a[n]) >= n + 1}
<1>6. Nat \subseteq G
  <2>1. 0 \in G
    <3>1. Cardinality(a[0]) # 0
      BY <1>1, <1>5, FS_EmptySet
    <3> QED
      BY <1>5, <3>1
  <2>2. ASSUME NEW n \in Nat, n \in G PROVE n + 1 \in G
    <3>1. a[n + 1] = Further(a[n], weakly) /\ n + 1 \in Nat
      BY <1>1
    <3>2. CASE Closed(a[n], weakly)
      <4>1. Further(a[n], weakly) = a[n]
        BY <3>2 DEF Closed, Further
      <4> QED
        BY <3>1, <3>2, <4>1
    <3>3. CASE ~Closed(a[n], weakly)
      <4>1. Cardinality(a[n]) >= n + 1
        BY <2>2, <3>3
      <4>2. a[n] \subseteq a[n + 1] /\ a[n] # a[n + 1]
        BY <3>1, <3>3 DEF Closed, Further
      <4>3. Cardinality(a[n]) <= Cardinality(a[n + 1]) /\ Cardinality(a[n]) # Cardinality(a[n + 1])
        BY <1>5, <3>1, <4>2, FS_Subset
      <4>4. Cardinality(a[n]) \in Nat /\ Cardinality(a[n + 1]) \in Nat
        BY <1>5, <3>1
      <4>5. Cardinality(a[n + 1]) >= n + 1 + 1
        BY <4>1, <4>3, <4>4
      <4> QED
        BY <3>1, <4>5
    <3> QED
      BY <3>2, <3>3
  <2> HIDE DEF G
  <2> QED
    BY <2>1, <2>2, NaturalSteps
<1> DEFINE r == a[MaxStructures]
<1>7. R \subseteq r /\ r \subseteq V /\ r \subseteq Ids /\ Cardinality(r) \in Nat
  BY <1>2, <1>5
<1>8. Closed(r, weakly)
  <2>1. CASE Cardinality(r) >= MaxStructures + 1
    <3>1. Cardinality(r) <= Cardinality(Ids) /\ (Cardinality(Ids) = Cardinality(r) => Ids = r)
      BY <1>3, <1>7, FS_Subset
    <3>2. r = Ids
      BY <1>2, <1>3, <1>7, <2>1, <3>1
    <3> QED
      BY <1>7, <3>2 DEF Closed
  <2> QED
    BY <1>2, <1>6, <2>1
<1> QED
  BY <1>1, <1>7, <1>8

\* What is in use is the least that holds the structures of all objects and what they lead to.
LEMMA InUseHolds ==
    ASSUME NEW V, Holds(structures, structureOf, caches, V)
    PROVE  InUse \subseteq V /\ Holds(structures, structureOf, caches, InUse)
<1>1. Closed(V, TRUE)
  <2> SUFFICES ASSUME NEW s \in V PROVE LeadsTo(s, TRUE) \subseteq V
    BY DEF Closed
  <2>1. /\ IsStructure(structures[s])
        /\ structures[s].previous \in V \cup {None}
        /\ \A k \in Keys : structures[s].transitions[k] \in V \cup {None}
    BY DEF Holds
  <2>2. DOMAIN structures[s].transitions = Keys
    BY <2>1 DEF IsStructure
  <2>3. Range(structures[s].transitions) \subseteq V \cup {None}
    BY <2>1, <2>2 DEF Range
  <2>4. {c.next : c \in {d \in caches : d.structure = s}} \subseteq V \cup {None}
    BY DEF Holds
  <2> QED
    BY <2>1, <2>3, <2>4 DEF LeadsTo
<1>2. Roots \subseteq V /\ Root \in Roots /\ \A o \in Objects : structureOf[o] \in Roots
  BY DEF Holds, Roots, Range
<1>3. Roots \subseteq InUse /\ InUse \subseteq V /\ Closed(InUse, TRUE)
  BY <1>1, <1>2, ReachedIsLeast DEF InUse, Holds
<1>4. structureOf \in [Objects -> InUse]
  BY <1>2, <1>3 DEF Holds
<1>5. ASSUME NEW s \in InUse
      PROVE  /\ IsStructure(structures[s])
             /\ structures[s].previous \in InUse \cup {None}
             /\ \A k \in Keys : structures[s].transitions[k] \in InUse \cup {None}
  <2>1. IsStructure(structures[s])
    BY <1>3 DEF Holds
  <2>2. LeadsTo(s, TRUE) \subseteq InUse
    BY <1>3 DEF Closed
  <2>3. DOMAIN structures[s].transitions = Keys
    BY <2>1 DEF IsStructure
  <2> QED
    BY <2>1, <2>2, <2>3 DEF LeadsTo, Range
<1>6. ASSUME NEW c \in caches, c.structure \in InUse PROVE c.next \in InUse \cup {None}
  <2>1. LeadsTo(c.structure, TRUE) \subseteq InUse
    BY <1>3, <1>6 DEF Closed
  <2> QED
    BY <2>1 DEF LeadsTo
<1>7. structures = [s \in Ids |-> structures[s]] /\ V \in SUBSET Ids
  BY DEF Holds
<1> QED
  BY <1>2, <1>3, <1>4, <1>5, <1>6, <1>7 DEF Holds

\* What a collection marks.
LEMMA MarkedHolds ==
    ASSUME NEW V, Holds(structures, structureOf, caches, V),
           NEW marked, marked = Reached(Roots, FALSE)
    PROVE  /\ marked \subseteq V /\ Root \in marked
           /\ \A o \in Objects : structureOf[o] \in marked
           /\ \A s \in marked : structures[s].previous \in marked \cup {None}
<1>1. Closed(V, FALSE)
  BY DEF Closed, LeadsTo, Holds
<1>2. Roots \subseteq V /\ Root \in Roots /\ \A o \in Objects : structureOf[o] \in Roots
  BY DEF Holds, Roots, Range
<1>3. Roots \subseteq marked /\ marked \subseteq V /\ Closed(marked, FALSE)
  BY <1>1, <1>2, ReachedIsLeast DEF Holds
<1> QED
  BY <1>2, <1>3 DEF Closed, LeadsTo

\* An identity that is not in use: the constructor of Structure.
LEMMA FreshIsFree ==
    ASSUME Free # {} PROVE Fresh \in Ids /\ Fresh \notin InUse
<1>1. Free \in SUBSET Nat
  BY StructuresAssumption DEF Free, Ids
<1>2. \E x \in Free : \A y \in Free : x <= y
  BY <1>1, LeastNatural
<1>3. Fresh \in Free
  BY <1>2 DEF Fresh, Min
<1> QED
  BY <1>3 DEF Free

-----------------------------------------------------------------------------
(***************************************************************************)
(* Rebuilding a table.                                                     *)
(***************************************************************************)
\* The way p from structure s back to the root, n steps long.
WayBack(S, A, T, s, p, n) ==
    /\ p \in [1..(n + 1) -> A] /\ p[1] = s /\ p[n + 1] = Root
    /\ \A i \in 1..n : p[i] # Root /\ p[i + 1] = S[p[i]].previous
    /\ \A i \in 1..(n + 1) : Len(T[p[i]].entries) = n + 1 - i
    /\ T[s] = [entries |-> [i \in 1..n |-> EntryInPrevious(S[p[n + 1 - i]])], deletedOffsets |-> <<>>]

\* A shared structure has a table, whether it holds it or not.
LEMMA SharedTable ==
    ASSUME NEW S, NEW A, NEW T, Shared(S, A, T), NEW s \in A
    PROVE  T[s] \in Tables /\ T[s] # None
  BY NullAssumption DEF Shared, Good

\* The entries of its table.
LEMMA SharedParts ==
    ASSUME NEW S, NEW A, NEW T, Shared(S, A, T), NEW s \in A
    PROVE  /\ Len(T[s].entries) \in Nat /\ DOMAIN T[s].entries = 1..Len(T[s].entries)
           /\ T[s].entries \in Seq(Entries)
           /\ \A i \in 1..Len(T[s].entries) : T[s].entries[i] \in Entries
<1>1. T[s] \in Tables
  BY SharedTable
<1> QED
  BY <1>1, TableParts

\* The structure before it, and the property it added.
LEMMA SharedParent ==
    ASSUME NEW S, NEW A, NEW T, Shared(S, A, T), NEW s \in A, s # Root
    PROVE  /\ S[s].previous \in A /\ S[s].previous # s
           /\ T[s].entries = Append(T[S[s].previous].entries, EntryInPrevious(S[s]))
           /\ EntryInPrevious(S[s]) \in Entries
           /\ Len(T[s].entries) = Len(T[S[s].previous].entries) + 1
           /\ S[s].offset = Len(T[S[s].previous].entries)
<1> DEFINE p == S[s].previous
           e == EntryInPrevious(S[s])
<1>1. p \in A /\ T[s] = Extended(T[p], S[s]) /\ S[s].offset = Len(T[p].entries)
  BY DEF Shared
<1>2. T[p].entries \in Seq(Entries) /\ Len(T[p].entries) \in Nat
  BY <1>1, SharedParts
<1>3. \A i \in 1..Len(T[s].entries) : T[s].entries[i] \in Entries
  BY SharedParts
<1> HIDE DEF p, e
<1>4. T[s].entries = Append(T[p].entries, e)
  BY <1>1 DEF Extended, e
<1>5. Len(T[s].entries) = Len(T[p].entries) + 1 /\ T[s].entries[Len(T[p].entries) + 1] = e
  BY <1>2, <1>4
<1>6. p # s /\ e \in Entries
  BY <1>2, <1>3, <1>5
<1> QED
  BY <1>1, <1>4, <1>5, <1>6 DEF p, e

\* A property of a shared structure was never deleted.
LEMMA NothingDeleted ==
    ASSUME NEW S, NEW A, NEW T, Shared(S, A, T), NEW s \in A
    PROVE  T[s].deletedOffsets = <<>>
<1>1. CASE s = Root
  <2>1. T[s] = EmptyTable
    BY <1>1 DEF Shared
  <2> QED
    BY <2>1 DEF EmptyTable
<1>2. CASE s # Root
  <2>1. T[s] = Extended(T[S[s].previous], S[s])
    BY <1>2 DEF Shared
  <2> QED
    BY <2>1 DEF Extended
<1> QED
  BY <1>1, <1>2

\* So its table is made of entries, and the root's is empty.
LEMMA SharedNoDeleted ==
    ASSUME NEW S, NEW A, NEW T, Shared(S, A, T), NEW s \in A
    PROVE  /\ T[s] = [entries |-> T[s].entries, deletedOffsets |-> <<>>]
           /\ s = Root => T[s].entries = <<>>
<1>1. s = Root => T[s].entries = <<>>
  <2>1. s = Root => T[s] = EmptyTable
    BY DEF Shared
  <2> QED
    BY <2>1 DEF EmptyTable
<1>2. T[s] \in Tables
  BY SharedTable
<1>3. T[s] = [entries |-> T[s].entries, deletedOffsets |-> T[s].deletedOffsets]
  BY <1>2, TableParts
<1> QED
  BY <1>1, <1>3, NothingDeleted

\* There is a way back from every shared structure.
LEMMA WaysBack ==
    ASSUME NEW S, NEW A, NEW T, Shared(S, A, T), NEW s \in A
    PROVE  \E p : WayBack(S, A, T, s, p, Len(T[s].entries))
<1> DEFINE N == {n \in Nat : \A t \in A : Len(T[t].entries) = n => \E p : WayBack(S, A, T, t, p, n)}
<1>1. 0 \in N
  <2> SUFFICES ASSUME NEW t \in A, Len(T[t].entries) = 0 PROVE \E p : WayBack(S, A, T, t, p, 0)
    OBVIOUS
  <2>1. t = Root
    <3> SUFFICES ASSUME t # Root PROVE FALSE
      OBVIOUS
    <3>1. S[t].previous \in A /\ Len(T[t].entries) = Len(T[S[t].previous].entries) + 1
      BY SharedParent
    <3>2. Len(T[S[t].previous].entries) \in Nat
      BY <3>1, SharedParts
    <3> QED
      BY <3>1, <3>2
  <2> DEFINE p == [i \in 1..(0 + 1) |-> t]
  <2>2. T[t] = [entries |-> [i \in 1..0 |-> EntryInPrevious(S[p[0 + 1 - i]])], deletedOffsets |-> <<>>]
    <3>1. T[t] = EmptyTable
      BY <2>1 DEF Shared
    <3>2. <<>> = [i \in 1..0 |-> EntryInPrevious(S[p[0 + 1 - i]])]
      OBVIOUS
    <3> HIDE DEF p
    <3> QED
      BY <3>1, <3>2 DEF EmptyTable
  <2>3. WayBack(S, A, T, t, p, 0)
    <3>1. /\ p \in [1..(0 + 1) -> A] /\ p[1] = t /\ p[0 + 1] = Root
          /\ \A i \in 1..(0 + 1) : i = 1 /\ p[i] = t
      BY <2>1
    <3> HIDE DEF p
    <3>2. \A i \in 1..(0 + 1) : Len(T[p[i]].entries) = 0 + 1 - i
      BY <3>1
    <3> QED
      BY <2>2, <3>1, <3>2 DEF WayBack
  <2> QED
    BY <2>3
<1>2. ASSUME NEW n \in Nat, n \in N PROVE n + 1 \in N
  <2> SUFFICES ASSUME NEW t \in A, Len(T[t].entries) = n + 1 PROVE \E p : WayBack(S, A, T, t, p, n + 1)
    OBVIOUS
  <2> DEFINE u == S[t].previous
  <2>1. t # Root
    <3> SUFFICES ASSUME t = Root PROVE FALSE
      OBVIOUS
    <3>1. T[t] = EmptyTable
      BY DEF Shared
    <3>2. T[t].entries = <<>>
      BY <3>1 DEF EmptyTable
    <3> QED
      BY <3>2
  <2>2. /\ u \in A /\ T[t].entries = Append(T[u].entries, EntryInPrevious(S[t])) /\ Len(T[u].entries) = n
        /\ T[t] = [entries |-> T[t].entries, deletedOffsets |-> <<>>]
        /\ DOMAIN T[t].entries = 1..(n + 1) /\ T[t].entries \in Seq(Entries)
    <3>1. /\ u \in A /\ Len(T[t].entries) = Len(T[u].entries) + 1
          /\ T[t].entries = Append(T[u].entries, EntryInPrevious(S[t]))
          /\ T[t] = [entries |-> T[t].entries, deletedOffsets |-> <<>>]
          /\ DOMAIN T[t].entries = 1..(n + 1) /\ T[t].entries \in Seq(Entries)
      <4>1. /\ u \in A /\ Len(T[t].entries) = Len(T[u].entries) + 1
            /\ T[t].entries = Append(T[u].entries, EntryInPrevious(S[t]))
        BY <2>1, SharedParent
      <4>2. T[t] = [entries |-> T[t].entries, deletedOffsets |-> <<>>]
        BY SharedNoDeleted
      <4>3. DOMAIN T[t].entries = 1..(n + 1) /\ T[t].entries \in Seq(Entries)
        BY SharedParts
      <4> HIDE DEF u
      <4> QED
        BY <4>1, <4>2, <4>3
    <3>2. Len(T[u].entries) \in Nat
      BY <3>1, SharedParts
    <3>3. Len(T[u].entries) = n
      <4>1. Len(T[t].entries) = Len(T[u].entries) + 1
        BY <3>1
      <4> HIDE DEF u
      <4> QED
        BY <3>2, <4>1
    <3> HIDE DEF u
    <3> QED
      BY <3>1, <3>3
  <2>3. PICK q : WayBack(S, A, T, u, q, n)
    BY <1>2, <2>2
  <2> DEFINE p == [i \in 1..(n + 1 + 1) |-> IF i = 1 THEN t ELSE q[i - 1]]
  <2> HIDE DEF u, N
  <2>4. p \in [1..(n + 1 + 1) -> A] /\ p[1] = t /\ p[n + 1 + 1] = Root
    BY <2>3 DEF WayBack
  <2>5. \A i \in 1..(n + 1) : p[i] # Root /\ p[i + 1] = S[p[i]].previous
    <3> TAKE i \in 1..(n + 1)
    <3>1. CASE i = 1
      BY <2>1, <2>3, <3>1 DEF WayBack, u
    <3>2. CASE i # 1
      <4>1. /\ i - 1 \in 1..n /\ i + 1 \in 1..(n + 1 + 1) /\ i + 1 # 1 /\ i \in 1..(n + 1 + 1)
            /\ i - 1 + 1 = i /\ i + 1 - 1 = i
        BY <3>2
      <4>2. p[i] = q[i - 1] /\ p[i + 1] = q[i]
        BY <3>2, <4>1
      <4>3. q[i - 1] # Root /\ q[i - 1 + 1] = S[q[i - 1]].previous
        BY <2>3, <4>1 DEF WayBack
      <4> QED
        BY <4>1, <4>2, <4>3
    <3> QED
      BY <3>1, <3>2
  <2>6. \A i \in 1..(n + 1 + 1) : Len(T[p[i]].entries) = n + 1 + 1 - i
    <3> TAKE i \in 1..(n + 1 + 1)
    <3>1. CASE i = 1
      BY <3>1
    <3>2. CASE i # 1
      <4>1. i - 1 \in 1..(n + 1) /\ p[i] = q[i - 1] /\ n + 1 - (i - 1) = n + 1 + 1 - i
        BY <3>2
      <4>2. Len(T[q[i - 1]].entries) = n + 1 - (i - 1)
        BY <2>3, <4>1 DEF WayBack
      <4> QED
        BY <4>1, <4>2
    <3> QED
      BY <3>1, <3>2
  <2>7. T[t].entries = [i \in 1..(n + 1) |-> EntryInPrevious(S[p[n + 1 + 1 - i]])]
    <3> DEFINE es == T[u].entries
    <3>1. es = [i \in 1..n |-> EntryInPrevious(S[q[n + 1 - i]])]
      BY <2>3 DEF WayBack
    <3>2. es \in Seq(Entries) /\ Len(es) = n
      BY <2>2, SharedParts
    <3>3. EntryInPrevious(S[t]) \in Entries
      BY <2>1, SharedParent
    <3>4. T[t].entries = Append(es, EntryInPrevious(S[t]))
      BY <2>2
    <3> HIDE DEF es
    <3>5. \A i \in 1..(n + 1) : T[t].entries[i] = IF i = n + 1 THEN EntryInPrevious(S[t]) ELSE es[i]
      BY <3>2, <3>3, <3>4
    <3>6. \A i \in 1..(n + 1) : T[t].entries[i] = EntryInPrevious(S[p[n + 1 + 1 - i]])
      <4> TAKE i \in 1..(n + 1)
      <4>1. CASE i = n + 1
        <5>1. n + 1 + 1 - i = 1
          BY <4>1
        <5> HIDE DEF p
        <5> QED
          BY <2>4, <3>5, <4>1, <5>1
      <4>2. CASE i # n + 1
        <5>1. i \in 1..n /\ n + 1 + 1 - i \in 1..(n + 1 + 1) /\ n + 1 + 1 - i # 1 /\ n + 1 + 1 - i - 1 = n + 1 - i
          BY <4>2
        <5>2. p[n + 1 + 1 - i] = q[n + 1 - i]
          BY <5>1
        <5> HIDE DEF p
        <5>3. es[i] = EntryInPrevious(S[q[n + 1 - i]])
          BY <3>1, <5>1
        <5> QED
          BY <3>5, <4>2, <5>2, <5>3
      <4> QED
        BY <4>1, <4>2
    <3> HIDE DEF p
    <3>7. T[t].entries = [i \in 1..(n + 1) |-> T[t].entries[i]]
      BY <2>2
    <3> QED
      BY <3>6, <3>7
  <2> HIDE DEF p
  <2>8. WayBack(S, A, T, t, p, n + 1)
    BY <2>2, <2>4, <2>5, <2>6, <2>7 DEF WayBack
  <2> QED
    BY <2>8
<1>3. Nat \subseteq N
  <2> HIDE DEF N
  <2> QED
    BY <1>1, <1>2, NaturalSteps
<1>4. Len(T[s].entries) \in Nat
  BY SharedParts
<1> QED
  BY <1>3, <1>4

\* materializePropertyMap's loop goes the way back to the root.
LEMMA CollectedIsWayBack ==
    ASSUME NEW S, NEW A \in SUBSET Ids, NEW T, Shared(S, A, T), NEW s \in A,
           NEW p, NEW n \in Nat, WayBack(S, A, T, s, p, n)
    PROVE  Collected(S, s) = p
<1> DEFINE Next1(c) == LET q == S[Last(c)].previous
                       IN  IF q = None \/ S[q].pinned THEN c ELSE Append(c, q)
           first(m) == IF m <= n THEN m + 1 ELSE n + 1
           w == [m \in Nat |-> [i \in 1..first(m) |-> p[i]]]
<1>1. /\ p \in [1..(n + 1) -> A] /\ p[1] = s /\ p[n + 1] = Root
      /\ \A i \in 1..n : p[i] # Root /\ p[i + 1] = S[p[i]].previous
      /\ \A i \in 1..(n + 1) : Len(T[p[i]].entries) = n + 1 - i
  BY DEF WayBack
<1>2. \A m \in Nat : first(m) \in 1..(n + 1)
  OBVIOUS
<1>3. \A m \in Nat : /\ w[m] = [i \in 1..first(m) |-> p[i]]
                     /\ w[m] \in Seq(A) /\ Len(w[m]) = first(m)
                     /\ Last(w[m]) = p[first(m)]
  <2> TAKE m \in Nat
  <2>1. w[m] = [i \in 1..first(m) |-> p[i]] /\ first(m) \in 1..(n + 1)
    OBVIOUS
  <2> HIDE DEF w, first
  <2>2. w[m] \in [1..first(m) -> A] /\ first(m) \in Nat
    BY <1>1, <2>1
  <2>3. w[m] \in Seq(A) /\ Len(w[m]) = first(m)
    BY <2>2
  <2> QED
    BY <2>1, <2>3 DEF Last
<1>4. w[0] = <<s>>
  <2>1. w[0] = [i \in 1..1 |-> p[i]]
    OBVIOUS
  <2>2. <<s>> = [i \in 1..1 |-> p[i]]
    BY <1>1
  <2> QED
    BY <2>1, <2>2
<1>5. ASSUME NEW m \in Nat PROVE w[m + 1] = Next1(w[m])
  <2>1. CASE m < n
    <3>1. first(m) = m + 1 /\ first(m + 1) = m + 2 /\ m + 1 \in 1..n /\ m + 1 \in Nat
      BY <2>1
    <3> HIDE DEF w, first
    <3>2. Last(w[m]) = p[m + 1] /\ p[m + 1 + 1] = S[p[m + 1]].previous
      BY <1>1, <1>3, <3>1
    <3> DEFINE q == p[m + 1 + 1]
    <3>3. q \in A
      BY <1>1, <3>1
    <3>4. q # None /\ ~S[q].pinned
      BY <3>3, NullAssumption DEF Shared
    <3>5. Next1(w[m]) = Append(w[m], q)
      BY <3>2, <3>4
    <3>6. Append(w[m], q) \in Seq(A) /\ Len(Append(w[m], q)) = m + 2
          /\ \A i \in 1..(m + 2) : Append(w[m], q)[i] = IF i = m + 2 THEN q ELSE w[m][i]
      <4> DEFINE x == w[m]
      <4>1. x \in Seq(A) /\ Len(x) = m + 1
        BY <1>3, <3>1
      <4> HIDE DEF x, q
      <4>2. Append(x, q) \in Seq(A) /\ Len(Append(x, q)) = m + 2
            /\ \A i \in 1..(m + 2) : Append(x, q)[i] = IF i = m + 2 THEN q ELSE x[i]
        BY <3>3, <4>1
      <4> QED
        BY <4>2 DEF x
    <3>7. \A i \in 1..(m + 2) : Append(w[m], q)[i] = p[i]
      <4> TAKE i \in 1..(m + 2)
      <4>1. CASE i = m + 2
        BY <3>6, <4>1
      <4>2. CASE i # m + 2
        <5>1. i \in 1..first(m)
          BY <3>1, <4>2
        <5>2. w[m][i] = p[i]
          BY <1>3, <5>1
        <5> QED
          BY <3>6, <4>2, <5>2
      <4> QED
        BY <4>1, <4>2
    <3>8. w[m + 1] = [i \in 1..(m + 2) |-> p[i]]
      BY <1>3, <3>1
    <3> DEFINE c == Append(w[m], q)
    <3> HIDE DEF c
    <3>9. c \in Seq(A) /\ Len(c) = m + 2 /\ \A i \in 1..(m + 2) : c[i] = p[i]
      BY <3>6, <3>7 DEF c
    <3>10. c = [i \in 1..(m + 2) |-> p[i]]
      BY <3>9
    <3> QED
      BY <3>5, <3>8, <3>10 DEF c
  <2>2. CASE ~(m < n)
    <3>1. first(m) = n + 1 /\ first(m + 1) = n + 1 /\ m + 1 \in Nat
      BY <2>2
    <3> HIDE DEF w, first
    <3>2. Last(w[m]) = Root /\ S[Root].previous = None
      BY <1>1, <1>3, <3>1 DEF Shared
    <3>3. Next1(w[m]) = w[m]
      BY <3>2
    <3>4. w[m] = [i \in 1..(n + 1) |-> p[i]] /\ w[m + 1] = [i \in 1..(n + 1) |-> p[i]]
      BY <1>3, <3>1
    <3> QED
      BY <3>3, <3>4
  <2> QED
    BY <2>1, <2>2
<1>6. w = [m \in Nat |-> w[m]]
  OBVIOUS
<1> DEFINE Rec(f) == f = [m \in Nat |-> IF m = 0 THEN <<s>> ELSE Next1(f[m - 1])]
           a == CHOOSE after : Rec(after)
<1>7. Collected(S, s) = a[MaxStructures]
  BY DEF Collected
<1> HIDE DEF w, first, Next1
<1>8. Rec(w)
  <2>1. ASSUME NEW m \in Nat PROVE w[m] = IF m = 0 THEN <<s>> ELSE Next1(w[m - 1])
    <3>1. CASE m = 0
      BY <1>4, <3>1
    <3>2. CASE m # 0
      <4>1. m - 1 \in Nat /\ m - 1 + 1 = m
        BY <3>2
      <4> QED
        BY <1>5, <3>2, <4>1
    <3> QED
      BY <3>1, <3>2
  <2> QED
    BY <1>6, <2>1
<1>9. Rec(a)
  <2> HIDE DEF Rec
  <2> QED
    BY <1>8
<1> HIDE DEF a
<1> DEFINE E == {m \in Nat : a[m] = w[m]}
<1>10. Nat \subseteq E
  <2>1. 0 \in E
    BY <1>4, <1>9
  <2>2. ASSUME NEW m \in Nat, m \in E PROVE m + 1 \in E
    <3>1. m + 1 \in Nat /\ m + 1 # 0 /\ m + 1 - 1 = m
      OBVIOUS
    <3>2. a[m + 1] = Next1(a[m])
      BY <1>9, <3>1
    <3> QED
      BY <1>5, <2>2, <3>1, <3>2
  <2> HIDE DEF E
  <2> QED
    BY <2>1, <2>2, NaturalSteps
<1>11. n <= MaxStructures /\ MaxStructures \in Nat
  <2>1. MaxStructures \in Nat
    BY StructuresAssumption
  <2>2. IsFiniteSet(Ids) /\ Cardinality(Ids) = MaxStructures + 1
    BY <2>1, FS_Interval DEF Ids
  <2>3. p \in Seq(Ids) /\ Len(p) = n + 1
    BY <1>1
  <2>4. \A i, j \in 1..(n + 1) : i # j => p[i] # p[j]
    <3> TAKE i \in 1..(n + 1), j \in 1..(n + 1)
    <3>1. Len(T[p[i]].entries) = n + 1 - i /\ Len(T[p[j]].entries) = n + 1 - j
      BY <1>1
    <3>2. i # j => n + 1 - i # n + 1 - j
      OBVIOUS
    <3> QED
      BY <3>1, <3>2
  <2>5. Len(p) <= Cardinality(Ids)
    BY <2>2, <2>3, <2>4, NoRepetition
  <2> QED
    BY <2>1, <2>2, <2>3, <2>5
<1>12. a[MaxStructures] = w[MaxStructures]
  BY <1>10, <1>11
<1>13. first(MaxStructures) = n + 1
  BY <1>11 DEF first
<1>14. w[MaxStructures] = [i \in 1..(n + 1) |-> p[i]]
  BY <1>3, <1>11, <1>13
<1> QED
  BY <1>1, <1>7, <1>12, <1>14

\* materializePropertyMap rebuilds the table of every shared structure.
LEMMA Rebuilt ==
    ASSUME NEW S, NEW A \in SUBSET Ids, NEW T, Shared(S, A, T), NEW s \in A
    PROVE  PropertyMap(S, s) = T[s] /\ TableOf(S, s) = T[s]
<1> DEFINE n == Len(T[s].entries)
<1>1. n \in Nat /\ T[s] # None
  BY SharedParts, SharedTable
<1>2. PICK p : WayBack(S, A, T, s, p, n)
  BY WaysBack
<1> HIDE DEF n
<1>3. Collected(S, s) = p
  BY <1>1, <1>2, CollectedIsWayBack
<1>4. p \in [1..(n + 1) -> A] /\ p[n + 1] = Root
      /\ T[s] = [entries |-> [i \in 1..n |-> EntryInPrevious(S[p[n + 1 - i]])], deletedOffsets |-> <<>>]
  BY <1>2 DEF WayBack
<1>5. Len(p) = n + 1 /\ Last(p) = Root
  <2>1. p \in Seq(A) /\ Len(p) = n + 1
    BY <1>1, <1>4
  <2> QED
    BY <1>4, <2>1 DEF Last
<1>6. S[Root].previous = None
  BY DEF Shared
<1>7. PropertyMap(S, s) = [EmptyTable EXCEPT !.entries = [i \in 1..(Len(p) - 1) |-> EntryInPrevious(S[p[Len(p) - i]])]]
  BY <1>3, <1>5, <1>6 DEF PropertyMap
<1>8. Len(p) - 1 = n
  BY <1>1, <1>5
<1>9. PropertyMap(S, s) = [entries |-> [i \in 1..n |-> EntryInPrevious(S[p[n + 1 - i]])], deletedOffsets |-> <<>>]
  <2>1. [i \in 1..(Len(p) - 1) |-> EntryInPrevious(S[p[Len(p) - i]])]
           = [i \in 1..n |-> EntryInPrevious(S[p[n + 1 - i]])]
    BY <1>5, <1>8
  <2> DEFINE es == [i \in 1..n |-> EntryInPrevious(S[p[n + 1 - i]])]
  <2> HIDE DEF es
  <2>2. PropertyMap(S, s) = [EmptyTable EXCEPT !.entries = es]
    BY <1>7, <2>1 DEF es
  <2>3. [EmptyTable EXCEPT !.entries = es] = [entries |-> es, deletedOffsets |-> <<>>]
    BY DEF EmptyTable
  <2> QED
    BY <2>2, <2>3 DEF es
<1>10. S[s].table \in {None, T[s]}
  BY DEF Shared
<1> QED
  BY <1>1, <1>4, <1>9, <1>10 DEF TableOf

\* The table of the structure of any object.
LEMMA TableOfLive ==
    ASSUME NEW S, NEW so, NEW A \in SUBSET Ids, NEW T, Shared(S, A, T), Private(S, so, A, T),
           NEW s \in Live(so, A)
    PROVE  /\ TableOf(S, s) = T[s]
           /\ Good(T[s])
           /\ T[s] # None
           /\ S[s].table = None => s \in A
           /\ S[s].table = None => PropertyMap(S, s) = T[s]
<1>1. CASE s \in A
  <2>1. PropertyMap(S, s) = T[s] /\ TableOf(S, s) = T[s]
    BY <1>1, Rebuilt
  <2>2. Good(T[s]) /\ T[s] # None
    BY <1>1, SharedTable DEF Shared
  <2> QED
    BY <1>1, <2>1, <2>2
<1>2. CASE s \notin A
  <2>1. PICK o \in Objects : s = so[o]
    BY <1>2 DEF Live
  <2>2. Good(T[s]) /\ S[s].table = T[s]
    BY <1>2, <2>1 DEF Private
  <2>3. T[s] # None
    BY <2>2, NullAssumption DEF Good
  <2> QED
    BY <2>2, <2>3 DEF TableOf
<1> QED
  BY <1>1, <1>2

-----------------------------------------------------------------------------
(***************************************************************************)
(* How the parts of the invariant are kept.                                *)
(***************************************************************************)
\* All but the table and the transitions, and all but the table.
SameOrigin(r, q) ==
    /\ r.previous = q.previous /\ r.nameInPrevious = q.nameInPrevious
    /\ r.specificInPrevious = q.specificInPrevious /\ r.offset = q.offset
    /\ r.pinned = q.pinned /\ r.kind = q.kind

SameRest(r, q) == SameOrigin(r, q) /\ r.transitions = q.transitions

\* Another table.
LEMMA TableReplaced ==
    ASSUME NEW r, IsStructure(r), NEW t, NEW q, q = [r EXCEPT !.table = t]
    PROVE  IsStructure(q) /\ q.table = t /\ SameRest(q, r)
  BY DEF IsStructure, SameRest, SameOrigin

\* Structure::materializePropertyMapIfNecessary.
LEMMA Materialized ==
    ASSUME NEW S, S = [x \in Ids |-> S[x]], NEW s \in Ids, IsStructure(S[s]),
           NEW M, M = MaterializeIfNecessary(S, s)
    PROVE  /\ M = [x \in Ids |-> M[x]]
           /\ \A x \in Ids : x # s => M[x] = S[x]
           /\ IsStructure(M[s]) /\ SameRest(M[s], S[s])
           /\ M[s].table = S[s].table \/ (S[s].table = None /\ M[s].table = PropertyMap(S, s))
<1>1. CASE S[s].table = None /\ S[s].previous # None
  <2> DEFINE q == [S[s] EXCEPT !.table = PropertyMap(S, s)]
  <2>1. M = [S EXCEPT ![s] = q]
    BY <1>1 DEF MaterializeIfNecessary
  <2>2. IsStructure(q) /\ q.table = PropertyMap(S, s) /\ SameRest(q, S[s])
    BY TableReplaced
  <2> HIDE DEF q
  <2>3. M = [x \in Ids |-> M[x]] /\ M[s] = q /\ \A x \in Ids : x # s => M[x] = S[x]
    BY <2>1
  <2> QED
    BY <1>1, <2>2, <2>3
<1>2. CASE ~(S[s].table = None /\ S[s].previous # None)
  <2>1. M = S
    BY <1>2 DEF MaterializeIfNecessary
  <2> QED
    BY <2>1 DEF SameRest, SameOrigin
<1> QED
  BY <1>1, <1>2

\* The invariant holds of fewer structures, if they hold all there is.
LEMMA ShapeOfFewer ==
    ASSUME NEW S, NEW so, NEW st, NEW pr, NEW ca, NEW V, NEW A, NEW T,
           Shape(S, so, st, pr, ca, V, A, T), NEW W, W \subseteq V, Holds(S, so, ca, W)
    PROVE  Shape(S, so, st, pr, ca, W, A \cap W, T)
<1> DEFINE B == A \cap W
<1>1. B \in SUBSET W /\ B \subseteq A
  OBVIOUS
<1>2. \A s \in W : /\ S[s].previous \in W \cup {None}
                   /\ \A k \in Keys : S[s].transitions[k] \in W \cup {None}
  BY DEF Holds
<1>3. \A s \in A : s # None
  BY NullAssumption DEF Shape, Holds
<1>4. Shared(S, B, T)
  <2>1. Root \in B
    BY DEF Shape, Shared, Holds
  <2>2. \A s \in B \ {Root} : S[s].previous \in B
    BY <1>2, <1>3 DEF Shape, Shared
  <2>3. \A s \in B, k \in Keys : S[s].transitions[k] # None => S[s].transitions[k] \in B \ {Root}
    BY <1>2 DEF Shape, Shared
  <2> QED
    BY <1>1, <2>1, <2>2, <2>3 DEF Shape, Shared
<1>5. \A o \in Objects : so[o] \in W
  BY DEF Holds
<1>6. Private(S, so, B, T)
  BY <1>5 DEF Shape, Private
<1>7. Described(so, st, pr, T)
  BY DEF Shape
<1>8. Remembered(S, so, ca, W, B, T)
  <2> SUFFICES ASSUME NEW c \in ca, c.structure \in W, c.structure \in Live(so, B)
               PROVE  Remembers(S, B, T, c)
    BY DEF Remembered
  <2>1. Remembers(S, A, T, c)
    BY DEF Shape, Remembered, Live
  <2>2. c.next \in W \cup {None}
    BY DEF Holds
  <2> QED
    BY <1>3, <2>1, <2>2 DEF Remembers
<1> QED
  BY <1>1, <1>4, <1>6, <1>7, <1>8 DEF Shape

\* The tree is as before, but for who holds a table.
LEMMA SharedKept ==
    ASSUME NEW S, NEW A, NEW T, Shared(S, A, T), NEW S2, NEW T2,
           \A s \in A : /\ SameRest(S2[s], S[s]) /\ S2[s].table \in {None, T[s]} /\ T2[s] = T[s]
    PROVE  Shared(S2, A, T2)
<1>1. \A s \in A \ {Root} : /\ S[s].previous \in A /\ S2[s].previous = S[s].previous
                            /\ EntryInPrevious(S2[s]) = EntryInPrevious(S[s])
  BY DEF Shared, SameRest, SameOrigin, EntryInPrevious
<1>2. \A s \in A \ {Root} : Extended(T2[S2[s].previous], S2[s]) = Extended(T[S[s].previous], S[s])
  BY <1>1 DEF Extended
<1>3. /\ Root \in A /\ S2[Root].previous = None /\ T2[Root] = EmptyTable
      /\ \A s \in A : /\ ~S2[s].pinned /\ S2[s].kind = "none"
                      /\ Good(T2[s]) /\ S2[s].table \in {None, T2[s]}
  BY DEF Shared, SameRest, SameOrigin
<1>4. \A s \in A \ {Root} : /\ S2[s].previous \in A
                            /\ T2[s] = Extended(T2[S2[s].previous], S2[s])
                            /\ S2[s].offset = Len(T2[S2[s].previous].entries)
  BY <1>1, <1>2 DEF Shared, SameRest, SameOrigin
<1>5. \A s \in A, k \in Keys : S2[s].transitions[k] # None =>
          /\ S2[s].transitions[k] \in A \ {Root}
          /\ S2[S2[s].transitions[k]].previous = s
          /\ S2[S2[s].transitions[k]].nameInPrevious = k
  BY DEF Shared, SameRest, SameOrigin
<1> QED
  BY <1>3, <1>4, <1>5 DEF Shared

\* addPropertyTransition adds structure q to the tree, below s.
Grows(S, A, T, S2, T2, s, k, q) ==
    /\ q \notin A /\ s \in A
    /\ \A x \in A : SameOrigin(S2[x], S[x]) /\ S2[x].table \in {None, T[x]} /\ T2[x] = T[x]
    /\ \A x \in A \ {s} : S2[x].transitions = S[x].transitions
    /\ \A j \in Keys : S2[s].transitions[j] = IF j = k THEN q ELSE S[s].transitions[j]
    /\ S2[q].previous = s /\ S2[q].nameInPrevious = k /\ S2[q].offset = Len(T[s].entries)
    /\ ~S2[q].pinned /\ S2[q].kind = "none" /\ S2[q].table = T2[q]
    /\ \A j \in Keys : S2[q].transitions[j] = None
    /\ Good(T2[q]) /\ T2[q] = Extended(T[s], S2[q])

\* It is a tree of shared structures still.
LEMMA SharedGrows ==
    ASSUME NEW S, NEW A, NEW T, Shared(S, A, T), NEW S2, NEW T2, NEW s, NEW k, NEW q,
           Grows(S, A, T, S2, T2, s, k, q)
    PROVE  Shared(S2, A \cup {q}, T2)
<1> USE DEF Grows
<1> DEFINE B == A \cup {q}
<1>1. \A x \in A \ {Root} : /\ S[x].previous \in A /\ S2[x].previous = S[x].previous
                            /\ T2[S2[x].previous] = T[S[x].previous]
                            /\ EntryInPrevious(S2[x]) = EntryInPrevious(S[x])
  <2> TAKE x \in A \ {Root}
  <2>1. S[x].previous \in A /\ SameOrigin(S2[x], S[x])
    BY DEF Shared
  <2> QED
    BY <2>1 DEF SameOrigin, EntryInPrevious
<1>2. \A x \in A \ {Root} : Extended(T2[S2[x].previous], S2[x]) = Extended(T[S[x].previous], S[x])
  BY <1>1 DEF Extended
<1>3. Extended(T2[S2[q].previous], S2[q]) = Extended(T[s], S2[q])
  BY DEF Extended
<1>4. /\ Root \in B /\ S2[Root].previous = None /\ T2[Root] = EmptyTable
      /\ \A x \in B : /\ ~S2[x].pinned /\ S2[x].kind = "none"
                      /\ Good(T2[x]) /\ S2[x].table \in {None, T2[x]}
  BY DEF Shared, SameOrigin
<1>5. \A x \in B \ {Root} : /\ S2[x].previous \in B
                            /\ T2[x] = Extended(T2[S2[x].previous], S2[x])
                            /\ S2[x].offset = Len(T2[S2[x].previous].entries)
  <2> TAKE x \in B \ {Root}
  <2>1. CASE x \in A
    BY <1>1, <1>2, <2>1 DEF Shared, SameOrigin
  <2>2. CASE x = q
    BY <1>3, <2>2
  <2> QED
    BY <2>1, <2>2
<1>6. ASSUME NEW x \in B, NEW j \in Keys, S2[x].transitions[j] # None
      PROVE  /\ S2[x].transitions[j] \in B \ {Root}
             /\ S2[S2[x].transitions[j]].previous = x
             /\ S2[S2[x].transitions[j]].nameInPrevious = j
  <2>1. CASE x = q
    BY <1>6, <2>1
  <2>2. CASE x = s /\ j = k
    BY <2>2 DEF Shared
  <2>3. CASE x \in A /\ ~(x = s /\ j = k)
    <3>1. S2[x].transitions[j] = S[x].transitions[j]
      BY <2>3
    <3>2. /\ S[x].transitions[j] \in A \ {Root}
          /\ S[S[x].transitions[j]].previous = x
          /\ S[S[x].transitions[j]].nameInPrevious = j
      BY <1>6, <2>3, <3>1 DEF Shared
    <3> QED
      BY <3>1, <3>2 DEF SameOrigin
  <2> QED
    BY <2>1, <2>2, <2>3
<1> QED
  BY <1>4, <1>5, <1>6 DEF Shared

\* Nothing moves: tables are rebuilt and caches come and go.
LEMMA NothingMoves ==
    ASSUME NEW S, NEW so, NEW st, NEW pr, NEW ca, NEW V, NEW A, NEW T,
           Shape(S, so, st, pr, ca, V, A, T), NEW S2, NEW ca2,
           S2 = [s \in Ids |-> S2[s]],
           \A s \in V : IsStructure(S2[s]) /\ SameRest(S2[s], S[s]),
           \A s \in Live(so, A) : S2[s].table \in {S[s].table, T[s]},
           \A c \in ca2 : \/ /\ c.structure \in V => c.next \in V \cup {None}
                             /\ c.structure \in Live(so, A) => Remembers(S, A, T, c)
                          \/ c \in ca
    PROVE  Shape(S2, so, st, pr, ca2, V, A, T)
<1>1. /\ so \in [Objects -> V] /\ V \in SUBSET Ids /\ Root \in V /\ A \subseteq V
      /\ Holds(S, so, ca, V) /\ Private(S, so, A, T) /\ Described(so, st, pr, T)
      /\ Remembered(S, so, ca, V, A, T) /\ Shared(S, A, T)
  BY DEF Shape, Holds
<1>2. Holds(S2, so, ca2, V)
  <2>1. \A c \in ca2 : c.structure \in V => c.next \in V \cup {None}
    BY <1>1 DEF Holds
  <2>2. \A s \in V : /\ IsStructure(S2[s])
                     /\ S2[s].previous \in V \cup {None}
                     /\ \A k \in Keys : S2[s].transitions[k] \in V \cup {None}
    BY <1>1 DEF Holds, SameRest, SameOrigin
  <2> QED
    BY <1>1, <2>1, <2>2 DEF Holds
<1>3. Shared(S2, A, T)
  <2>1. \A s \in A : /\ SameRest(S2[s], S[s]) /\ S2[s].table \in {None, T[s]} /\ T[s] = T[s]
    BY <1>1 DEF Shared, Live
  <2> QED
    BY <1>1, <2>1, SharedKept
<1>4. Private(S2, so, A, T)
  BY <1>1 DEF Private, SameRest, SameOrigin, Live
<1>5. Remembered(S2, so, ca2, V, A, T)
  <2> SUFFICES ASSUME NEW c \in ca2, c.structure \in V, c.structure \in Live(so, A)
               PROVE  Remembers(S2, A, T, c)
    BY DEF Remembered
  <2>1. Remembers(S, A, T, c)
    BY <1>1 DEF Remembered
  <2>2. SameOrigin(S2[c.structure], S[c.structure])
    BY DEF SameRest
  <2>3. c.kind = "transition" => SameOrigin(S2[c.next], S[c.next])
    BY <1>1, <2>1 DEF Remembers, SameRest
  <2> QED
    BY <2>1, <2>2, <2>3 DEF Remembers, SameOrigin
<1> QED
  BY <1>1, <1>2, <1>3, <1>4, <1>5 DEF Shape

\* A collection: what is not marked is gone, and with it the transitions to it.
LEMMA SweptShape ==
    ASSUME NEW S, NEW so, NEW st, NEW pr, NEW ca, NEW V, NEW A, NEW T,
           Shape(S, so, st, pr, ca, V, A, T),
           NEW W, W \subseteq V, Root \in W, \A o \in Objects : so[o] \in W,
           \A s \in W : S[s].previous \in W \cup {None},
           NEW S2, S2 = [s \in Ids |-> S2[s]],
           \A s \in W : /\ IsStructure(S2[s]) /\ SameOrigin(S2[s], S[s]) /\ S2[s].table = S[s].table
                        /\ \A k \in Keys : S2[s].transitions[k] = IF S[s].transitions[k] \in W
                                                                  THEN S[s].transitions[k] ELSE None,
           NEW ca2, \A c \in ca2 : c \in ca /\ c.structure \in W /\ c.next \in W \cup {None}
    PROVE  Shape(S2, so, st, pr, ca2, W, A \cap W, T)
<1> DEFINE B == A \cap W
<1>1. /\ so \in [Objects -> V] /\ V \in SUBSET Ids /\ A \subseteq V
      /\ Private(S, so, A, T) /\ Described(so, st, pr, T)
      /\ Remembered(S, so, ca, V, A, T) /\ Shared(S, A, T)
  BY DEF Shape, Holds
<1>2. Holds(S2, so, ca2, W)
  <2>1. so \in [Objects -> W]
    BY <1>1
  <2>2. \A s \in W : S2[s].previous \in W \cup {None}
    BY DEF SameOrigin
  <2> QED
    BY <1>1, <2>1, <2>2 DEF Holds
<1>3. \A s \in V : s # None
  BY <1>1, NullAssumption
<1>4. Shared(S2, B, T)
  <2>1. Root \in B /\ S2[Root].previous = None /\ T[Root] = EmptyTable
    BY <1>1 DEF Shared, SameOrigin
  <2>2. \A s \in B : /\ ~S2[s].pinned /\ S2[s].kind = "none"
                     /\ Good(T[s]) /\ S2[s].table \in {None, T[s]}
    BY <1>1 DEF Shared, SameOrigin
  <2>3. \A s \in B \ {Root} : /\ S2[s].previous \in B
                              /\ T[s] = Extended(T[S2[s].previous], S2[s])
                              /\ S2[s].offset = Len(T[S2[s].previous].entries)
    <3> TAKE s \in B \ {Root}
    <3>1. SameOrigin(S2[s], S[s]) /\ S[s].previous \in B
      <4>1. S[s].previous \in A /\ S[s].previous \in W \cup {None} /\ SameOrigin(S2[s], S[s])
        BY <1>1 DEF Shared
      <4>2. S[s].previous # None
        BY <1>1, <1>3, <4>1
      <4> QED
        BY <4>1, <4>2
    <3>2. EntryInPrevious(S2[s]) = EntryInPrevious(S[s]) /\ S2[s].previous = S[s].previous
      BY <3>1 DEF SameOrigin, EntryInPrevious
    <3>3. Extended(T[S2[s].previous], S2[s]) = Extended(T[S[s].previous], S[s])
      BY <3>2 DEF Extended
    <3> QED
      BY <1>1, <3>1, <3>2, <3>3 DEF Shared, SameOrigin
  <2>4. ASSUME NEW s \in B, NEW k \in Keys, S2[s].transitions[k] # None
        PROVE  /\ S2[s].transitions[k] \in B \ {Root}
               /\ S2[S2[s].transitions[k]].previous = s
               /\ S2[S2[s].transitions[k]].nameInPrevious = k
    <3> DEFINE t == S[s].transitions[k]
    <3>1. t \in W /\ S2[s].transitions[k] = t
      BY <2>4
    <3>2. t # None
      BY <1>3, <3>1
    <3>3. t \in A \ {Root} /\ S[t].previous = s /\ S[t].nameInPrevious = k
      BY <1>1, <3>2 DEF Shared
    <3> QED
      BY <3>1, <3>3 DEF SameOrigin
  <2> QED
    BY <2>1, <2>2, <2>3, <2>4 DEF Shared
<1>5. Private(S2, so, B, T)
  <2> SUFFICES ASSUME NEW o \in Objects, so[o] \notin B
               PROVE  /\ Good(T[so[o]])
                      /\ S2[so[o]].table = T[so[o]]
                      /\ S2[so[o]].kind \in {"none", "cached", "uncached"}
                      /\ \A k \in Keys : S2[so[o]].transitions[k] = None
                      /\ \A p \in Objects \ {o} : so[p] # so[o]
    BY DEF Private
  <2>1. so[o] \in W /\ so[o] \notin A
    OBVIOUS
  <2>2. /\ Good(T[so[o]])
        /\ S[so[o]].table = T[so[o]]
        /\ S[so[o]].kind \in {"none", "cached", "uncached"}
        /\ \A k \in Keys : S[so[o]].transitions[k] = None
        /\ \A p \in Objects \ {o} : so[p] # so[o]
    BY <1>1, <2>1 DEF Private
  <2> QED
    BY <2>1, <2>2 DEF SameOrigin
<1>6. Remembered(S2, so, ca2, W, B, T)
  <2> SUFFICES ASSUME NEW c \in ca2, c.structure \in Live(so, B)
               PROVE  Remembers(S2, B, T, c)
    BY DEF Remembered
  <2>1. Remembers(S, A, T, c) /\ c.structure \in W
    BY <1>1 DEF Remembered, Live
  <2>2. SameOrigin(S2[c.structure], S[c.structure])
    BY <2>1
  <2>3. c.kind = "transition" => c.next \in B /\ SameOrigin(S2[c.next], S[c.next])
    <3> SUFFICES ASSUME c.kind = "transition" PROVE c.next \in B /\ SameOrigin(S2[c.next], S[c.next])
      OBVIOUS
    <3>1. c.next \in A /\ c.next \in W \cup {None}
      BY <2>1 DEF Remembers
    <3>2. c.next # None
      BY <1>1, <1>3, <3>1
    <3>3. c.next \in B
      BY <3>1, <3>2
    <3> QED
      BY <3>3
  <2> QED
    BY <2>1, <2>2, <2>3 DEF Remembers, SameOrigin
<1> QED
  BY <1>1, <1>2, <1>4, <1>5, <1>6 DEF Shape

-----------------------------------------------------------------------------
(***************************************************************************)
(* The state of the program.                                               *)
(***************************************************************************)
\* The invariant for the structures in use.
Now(A, T) == Shape(structures, structureOf, storage, props, caches, InUse, A, T)

\* The structures the invariant speaks of may be taken to be those in use.
LEMMA InvariantNow == StructInv => \E A, T : Now(A, T)
<1> SUFFICES ASSUME NEW V, NEW A, NEW T, Shape(structures, structureOf, storage, props, caches, V, A, T)
             PROVE  Now(A \cap InUse, T)
  BY DEF StructInv
<1>1. InUse \subseteq V /\ Holds(structures, structureOf, caches, InUse)
  BY InUseHolds DEF Shape
<1> QED
  BY <1>1, ShapeOfFewer DEF Now

\* At first the root is the only structure, and no object has a property.
LEMMA InitShape == Init => StructInv
<1> SUFFICES ASSUME Init PROVE StructInv
  OBVIOUS
<1> DEFINE R == {Root}
           T == [s \in Ids |-> EmptyTable]
<1>1. Root \in Ids /\ R \in SUBSET Ids
  BY StructuresAssumption DEF Root, Ids
<1>2. structures[Root] = Empty /\ structures = [s \in Ids |-> structures[s]]
  BY <1>1 DEF Init
<1>3. IsStructure(Empty) /\ Empty.previous = None /\ ~Empty.pinned /\ Empty.kind = "none"
      /\ Empty.table = None /\ \A k \in Keys : Empty.transitions[k] = None
  BY DEF IsStructure, Empty
<1>4. structureOf = [o \in Objects |-> Root] /\ caches = {}
  BY DEF Init
<1>5. Holds(structures, structureOf, caches, R)
  BY <1>1, <1>2, <1>3, <1>4 DEF Holds
<1>6. T[Root] = EmptyTable /\ Good(EmptyTable) /\ \A k : ~Has(EmptyTable, k)
  BY <1>1, EmptyTableGood
<1>7. Shared(structures, R, T)
  BY <1>2, <1>3, <1>6 DEF Shared
<1>8. Private(structures, structureOf, R, T)
  BY <1>4 DEF Private
<1>9. /\ storage = [o \in Objects |-> storage[o]] /\ props = [o \in Objects |-> props[o]]
      /\ \A o \in Objects : /\ storage[o] = [n \in Offsets |-> storage[o][n]]
                            /\ props[o] = [k \in Keys |-> props[o][k]]
                            /\ \A k \in Keys : props[o][k] = None
  BY DEF Init
<1>10. Described(structureOf, storage, props, T)
  BY <1>4, <1>6, <1>9 DEF Described, Describes
<1>11. Remembered(structures, structureOf, caches, R, R, T)
  BY <1>4 DEF Remembered
<1>12. Shape(structures, structureOf, storage, props, caches, R, R, T)
  BY <1>5, <1>7, <1>8, <1>10, <1>11 DEF Shape
<1> QED
  BY <1>12 DEF StructInv

\* The table that is found or rebuilt.
LEMMA TableNow ==
    ASSUME NEW A, NEW T, Now(A, T), NEW s, s \in Live(structureOf, A)
    PROVE  TableOf(structures, s) = T[s]
<1>1. /\ Shared(structures, A, T) /\ Private(structures, structureOf, A, T)
      /\ A \in SUBSET Ids
  BY DEF Now, Shape, Holds
<1> QED
  BY <1>1, TableOfLive

\* What holds of the structure of an object.
LEMMA ObjectFacts ==
    ASSUME NEW A, NEW T, Now(A, T), NEW o \in Objects, NEW s, s = structureOf[o]
    PROVE  /\ s \in InUse /\ s \in Ids /\ s \in Live(structureOf, A)
           /\ IsStructure(structures[s])
           /\ Properties(o) = T[s] /\ TableOf(structures, s) = T[s] /\ Good(T[s]) /\ T[s] # None
           /\ Describes(T[s], storage[o], props[o])
           /\ s \in A => ~structures[s].pinned /\ structures[s].kind = "none"
           /\ s \notin A => /\ structures[s].table = T[s]
                            /\ structures[s].kind \in {"none", "cached", "uncached"}
                            /\ \A k \in Keys : structures[s].transitions[k] = None
<1>1. s \in InUse /\ InUse \in SUBSET Ids /\ A \in SUBSET Ids
  BY DEF Now, Shape, Holds
<1>2. s \in Live(structureOf, A)
  BY DEF Live
<1>3. IsStructure(structures[s])
  BY <1>1 DEF Now, Shape, Holds
<1>4. Shared(structures, A, T) /\ Private(structures, structureOf, A, T)
  BY DEF Now, Shape
<1>5. TableOf(structures, s) = T[s] /\ Good(T[s]) /\ T[s] # None
  <2>1. A \in SUBSET Ids
    BY <1>1
  <2> QED
    BY <1>2, <1>4, <2>1, TableOfLive
<1>6. Properties(o) = T[s]
  BY <1>5 DEF Properties
<1>7. Describes(T[s], storage[o], props[o])
  BY DEF Now, Shape, Described
<1>8. s \in A => ~structures[s].pinned /\ structures[s].kind = "none"
  BY <1>4 DEF Shared
<1>9. s \notin A => /\ structures[s].table = T[s]
                    /\ structures[s].kind \in {"none", "cached", "uncached"}
                    /\ \A k \in Keys : structures[s].transitions[k] = None
  BY <1>4 DEF Private
<1> QED
  BY <1>1, <1>2, <1>3, <1>5, <1>6, <1>7, <1>8, <1>9

\* The structures in use, and the shared ones.
LEMMA StructureFacts ==
    ASSUME NEW A, NEW T, Now(A, T)
    PROVE  /\ InUse \in SUBSET Ids /\ A \in SUBSET InUse /\ Live(structureOf, A) \in SUBSET InUse
           /\ structures = [s \in Ids |-> structures[s]]
           /\ structureOf \in [Objects -> InUse]
           /\ storage = [o \in Objects |-> storage[o]] /\ props = [o \in Objects |-> props[o]]
           /\ \A s \in InUse : /\ IsStructure(structures[s])
                               /\ structures[s].previous \in InUse \cup {None}
                               /\ \A k \in Keys : structures[s].transitions[k] \in InUse \cup {None}
           /\ None \notin InUse
<1>1. None \notin Ids
  BY NullAssumption
<1>2. Holds(structures, structureOf, caches, InUse) /\ A \in SUBSET InUse /\ Described(structureOf, storage, props, T)
  BY DEF Now, Shape
<1> QED
  BY <1>1, <1>2 DEF Holds, Described, Live

\* materializePropertyMapIfNecessary of a structure in use.
LEMMA MaterializedNow ==
    ASSUME NEW A, NEW T, Now(A, T), NEW s \in InUse, NEW M, M = MaterializeIfNecessary(structures, s)
    PROVE  /\ M = [x \in Ids |-> M[x]]
           /\ \A x \in Ids : x # s => M[x] = structures[x]
           /\ IsStructure(M[s]) /\ SameRest(M[s], structures[s])
           /\ s \in Live(structureOf, A) => /\ M[s].table \in {structures[s].table, T[s]}
                                            /\ TableOf(M, s) = T[s]
           /\ s \in Live(structureOf, A) /\ s \notin A => M = structures
<1>1. /\ s \in Ids /\ structures = [x \in Ids |-> structures[x]] /\ IsStructure(structures[s]) /\ A \in SUBSET Ids
  BY StructureFacts
<1>2. /\ M = [x \in Ids |-> M[x]]
      /\ \A x \in Ids : x # s => M[x] = structures[x]
      /\ IsStructure(M[s]) /\ SameRest(M[s], structures[s])
      /\ M[s].table = structures[s].table \/ (structures[s].table = None /\ M[s].table = PropertyMap(structures, s))
  BY <1>1, Materialized
<1>3. ASSUME s \in Live(structureOf, A)
      PROVE  /\ M[s].table \in {structures[s].table, T[s]}
             /\ TableOf(M, s) = T[s]
             /\ s \notin A => M = structures
  <2>1. /\ TableOf(structures, s) = T[s] /\ T[s] # None
        /\ structures[s].table = None => s \in A /\ PropertyMap(structures, s) = T[s]
    BY <1>1, <1>3, TableOfLive DEF Now, Shape
  <2>2. CASE structures[s].table = None /\ structures[s].previous # None
    <3> DEFINE p == PropertyMap(structures, s)
    <3>1. M = [structures EXCEPT ![s].table = p]
      BY <2>2 DEF MaterializeIfNecessary
    <3> HIDE DEF p
    <3>2. M[s] = [structures[s] EXCEPT !.table = p]
      BY <1>1, <3>1
    <3>3. M[s].table = p
      BY <1>1, <3>2, TableReplaced
    <3>4. M[s].table = T[s]
      BY <2>1, <2>2, <3>3 DEF p
    <3> QED
      BY <2>1, <2>2, <3>4 DEF TableOf
  <2>3. CASE ~(structures[s].table = None /\ structures[s].previous # None)
    <3>1. M = structures
      BY <2>3 DEF MaterializeIfNecessary
    <3> QED
      BY <2>1, <3>1
  <2> QED
    BY <2>2, <2>3
<1> QED
  BY <1>2, <1>3

\* The caches that are not swept.
LEMMA LiveCachesAre == \A c : c \in LiveCaches <=> c \in caches /\ c.structure \in InUse
  BY DEF LiveCaches

-----------------------------------------------------------------------------
(***************************************************************************)
(* The parts of a step.                                                    *)
(***************************************************************************)
\* The values that are stored under a key.
LEMMA Values ==
    ASSUME NEW k, NEW v \in ValuesOf(k)
    PROVE  /\ v # None
           /\ SpecificFunction(v) \in Functions \cup {None} /\ SpecificFunction(v) \in {None, v}
<1>1. v \in Functions \cup {Primitive} /\ None \notin Functions \cup {Primitive}
  BY NullAssumption DEF ValuesOf
<1> QED
  BY <1>1 DEF SpecificFunction

\* Object o gets structure q, and nothing else happens to other objects.
Moves(o, q) ==
    /\ structureOf' = [structureOf EXCEPT ![o] = q]
    /\ storage' = [p \in Objects |-> storage'[p]]
    /\ props' = [p \in Objects |-> props'[p]]
    /\ \A p \in Objects \ {o} : storage'[p] = storage[p] /\ props'[p] = props[p]

\* setStructure and putDirectOffset: when u is the table for it, u describes the object.
LEMMA Stored ==
    ASSUME NEW A, NEW T, Now(A, T), NEW o \in Objects, NEW q, NEW n, NEW k \in Keys, NEW v, Store(o, q, n, k, v),
           v # None, NEW t, Good(t), Describes(t, storage[o], props[o]),
           NEW u, Good(u), SameBut(t, u, k), Has(u, k), Find(u, k).offset = n,
           Find(u, k).specific \in {None, v}
    PROVE  Moves(o, q) /\ Describes(u, storage'[o], props'[o])
<1>1. storage = [p \in Objects |-> storage[p]] /\ props = [p \in Objects |-> props[p]]
  BY StructureFacts
<1> DEFINE x == [storage[o] EXCEPT ![n] = v]
           w == [props[o] EXCEPT ![k] = v]
<1>2. storage' = [storage EXCEPT ![o] = x] /\ props' = [props EXCEPT ![o] = w]
      /\ structureOf' = [structureOf EXCEPT ![o] = q]
  BY DEF Store
<1>3. Describes(u, x, w)
  BY DescribesPut
<1> HIDE DEF x, w
<1>4. /\ storage' = [p \in Objects |-> storage'[p]] /\ props' = [p \in Objects |-> props'[p]]
      /\ \A p \in Objects \ {o} : storage'[p] = storage[p] /\ props'[p] = props[p]
      /\ storage'[o] = x /\ props'[o] = w
  BY <1>1, <1>2
<1> QED
  BY <1>2, <1>3, <1>4 DEF Moves

\* What the inline caches record.
LEMMA CacheParts ==
    /\ \A s, k, n : LET c == GetSelf(s, k, n)
                    IN  c.kind = "get" /\ c.structure = s /\ c.key = k /\ c.next = None /\ c.offset = n
    /\ \A s, k, n : LET c == PutReplace(s, k, n)
                    IN  c.kind = "replace" /\ c.structure = s /\ c.key = k /\ c.next = None /\ c.offset = n
    /\ \A s, t, k, n : LET c == PutTransition(s, t, k, n)
                       IN  c.kind = "transition" /\ c.structure = s /\ c.key = k /\ c.next = t /\ c.offset = n
    /\ \A s, k, f : LET c == Method(s, k, f)
                    IN  c.kind = "method" /\ c.structure = s /\ c.key = k /\ c.next = None /\ c.function = f
  BY DEF GetSelf, PutReplace, PutTransition, Method, Access, NoCache

\* tryCachePutByID adds a cache at most.
LEMMA TriedCache ==
    ASSUME NEW S, NEW s, NEW slot \in {"Uncachable", "NewProperty", "ExistingProperty"}, NEW k, NEW n,
           TryCachePutByID(S, s, slot, k, n), NEW c \in caches', c \notin LiveCaches
    PROVE  /\ S[s].kind # "uncached"
           /\ \/ slot = "NewProperty" /\ S[s].kind = "none" /\ c = PutTransition(S[s].previous, s, k, n)
              \/ slot = "ExistingProperty" /\ c = PutReplace(s, k, n)
<1>1. ~KeepCaches
  BY DEF KeepCaches
<1>2. /\ slot # "Uncachable" /\ S[s].kind # "uncached"
      /\ slot = "NewProperty" => ~IsDictionary(S[s])
      /\ Patch(IF slot = "NewProperty" THEN PutTransition(S[s].previous, s, k, n) ELSE PutReplace(s, k, n))
  BY <1>1 DEF TryCachePutByID
<1>3. c = IF slot = "NewProperty" THEN PutTransition(S[s].previous, s, k, n) ELSE PutReplace(s, k, n)
  BY <1>1, <1>2 DEF Patch
<1> QED
  BY <1>2, <1>3 DEF IsDictionary

\* tryCachePutByID after a new property.
LEMMA TriedTransition ==
    ASSUME NEW S, NEW s, NEW slot \in {"Uncachable", "NewProperty"}, NEW k, NEW n,
           TryCachePutByID(S, s, slot, k, n), NEW c \in caches', c \notin LiveCaches
    PROVE  slot = "NewProperty" /\ S[s].kind = "none" /\ c = PutTransition(S[s].previous, s, k, n)
<1>1. ~KeepCaches
  BY DEF KeepCaches
<1>2. slot = "NewProperty" /\ S[s].kind = "none" /\ Patch(PutTransition(S[s].previous, s, k, n))
  BY <1>1 DEF TryCachePutByID, IsDictionary
<1>3. c = PutTransition(S[s].previous, s, k, n)
  BY <1>1, <1>2 DEF Patch
<1> QED
  BY <1>2, <1>3

\* What a cache that writes or reads a slot of a structure r with table t relies on.
Slot(r, t, c) ==
    /\ c.kind # "transition"
    /\ c.kind \in {"get", "replace", "method"} => c.key \in Keys /\ Has(t, c.key) /\ r.kind # "uncached"
    /\ c.kind \in {"get", "replace"} => Find(t, c.key).offset = c.offset
    /\ c.kind = "replace" => Find(t, c.key).specific = None
    /\ c.kind = "method" => /\ r.kind = "none" /\ Find(t, c.key).specific = c.function
                            /\ c.function # None

\* It is what the invariant says of the cache.
LEMMA SlotRemembered ==
    ASSUME NEW S, NEW A, NEW T, NEW c
    PROVE  /\ Slot(S[c.structure], T[c.structure], c) => Remembers(S, A, T, c)
           /\ Remembers(S, A, T, c) /\ c.structure \notin A => Slot(S[c.structure], T[c.structure], c)
  BY DEF Slot, Remembers

\* A replaced property: the entry has no specific value.
LEMMA ReplaceSlot ==
    ASSUME NEW s, NEW k \in Keys, NEW n, NEW r, NEW t,
           r.kind # "uncached", Has(t, k), Find(t, k).offset = n, Find(t, k).specific = None
    PROVE  Slot(r, t, PutReplace(s, k, n))
<1> DEFINE c == PutReplace(s, k, n)
<1>1. c.kind = "replace" /\ c.structure = s /\ c.key = k /\ c.next = None /\ c.offset = n
  BY CacheParts
<1> HIDE DEF c
<1>2. Slot(r, t, c)
  BY <1>1 DEF Slot
<1> QED
  BY <1>1, <1>2 DEF c

-----------------------------------------------------------------------------
(***************************************************************************)
(* The kinds of steps.                                                     *)
(***************************************************************************)
\* Only object o moves, to structure q, if at all; q is a shared structure, the one it had, or new.
Moved(A, T, o, q, A2, T2) ==
    /\ Moves(o, q)
    /\ q \in A \/ q = structureOf[o] \/ q \notin InUse
    /\ A \subseteq A2 /\ A2 \subseteq A \cup {q} /\ (q = structureOf[o] => A2 = A)
    /\ \A s \in InUse : s # q \/ s \in A => T2[s] = T[s]
    /\ structures' = [s \in Ids |-> structures'[s]]
    /\ \A s \in InUse \cup {q} : /\ IsStructure(structures'[s])
                                 /\ structures'[s].previous \in InUse \cup {q, None}
                                 /\ \A k \in Keys : structures'[s].transitions[k] \in InUse \cup {q, None}
    /\ Shared(structures', A2, T2)
    /\ \A s \in A : SameOrigin(structures'[s], structures[s])
    /\ \A p \in Objects \ {o} : structureOf[p] \notin A => structures'[structureOf[p]] = structures[structureOf[p]]
    /\ q \notin A2 => /\ Good(T2[q]) /\ structures'[q].table = T2[q]
                      /\ structures'[q].kind \in {"none", "cached", "uncached"}
                      /\ \A k \in Keys : structures'[q].transitions[k] = None
    /\ Describes(T2[q], storage'[o], props'[o])
    /\ \A c \in caches' :
          \/ /\ c.structure \in InUse \cup {q} => c.next \in InUse \cup {q, None}
             /\ c.structure \in Live(structureOf', A2) => Remembers(structures', A2, T2, c)
          \/ /\ c \in caches /\ c.structure \in InUse
             /\ c.structure = q => q \in A \/ (structures'[q].kind = structures[q].kind /\ T2[q] = T[q])

\* Such a step keeps the invariant.
LEMMA ObjectMoves ==
    ASSUME NEW A, NEW T, Now(A, T), NEW o \in Objects, NEW q \in Ids, NEW A2, NEW T2, Moved(A, T, o, q, A2, T2)
    PROVE  StructInv'
<1>1. /\ structureOf' = [structureOf EXCEPT ![o] = q]
      /\ storage' = [p \in Objects |-> storage'[p]] /\ props' = [p \in Objects |-> props'[p]]
      /\ \A p \in Objects \ {o} : storage'[p] = storage[p] /\ props'[p] = props[p]
      /\ q \in A \/ q = structureOf[o] \/ q \notin InUse
      /\ A \subseteq A2 /\ A2 \subseteq A \cup {q} /\ (q = structureOf[o] => A2 = A)
      /\ \A s \in InUse : s # q \/ s \in A => T2[s] = T[s]
      /\ structures' = [s \in Ids |-> structures'[s]]
      /\ \A s \in InUse \cup {q} : /\ IsStructure(structures'[s])
                                   /\ structures'[s].previous \in InUse \cup {q, None}
                                   /\ \A k \in Keys : structures'[s].transitions[k] \in InUse \cup {q, None}
      /\ Shared(structures', A2, T2)
      /\ \A s \in A : SameOrigin(structures'[s], structures[s])
      /\ \A p \in Objects \ {o} : structureOf[p] \notin A => structures'[structureOf[p]] = structures[structureOf[p]]
      /\ q \notin A2 => /\ Good(T2[q]) /\ structures'[q].table = T2[q]
                        /\ structures'[q].kind \in {"none", "cached", "uncached"}
                        /\ \A k \in Keys : structures'[q].transitions[k] = None
      /\ Describes(T2[q], storage'[o], props'[o])
  BY DEF Moved, Moves
<1>2. ASSUME NEW c \in caches'
      PROVE  \/ /\ c.structure \in InUse \cup {q} => c.next \in InUse \cup {q, None}
                /\ c.structure \in Live(structureOf', A2) => Remembers(structures', A2, T2, c)
             \/ /\ c \in caches /\ c.structure \in InUse
                /\ c.structure = q => q \in A \/ (structures'[q].kind = structures[q].kind /\ T2[q] = T[q])
  BY DEF Moved
<1> DEFINE W == InUse \cup {q}
<1>3. /\ structureOf \in [Objects -> InUse] /\ InUse \in SUBSET Ids /\ Root \in InUse /\ A \subseteq InUse
      /\ Holds(structures, structureOf, caches, InUse) /\ Private(structures, structureOf, A, T) /\ Described(structureOf, storage, props, T)
      /\ Remembered(structures, structureOf, caches, InUse, A, T)
  BY DEF Now, Shape, Holds
<1>4. structureOf' \in [Objects -> W] /\ structureOf'[o] = q /\ \A p \in Objects \ {o} : structureOf'[p] = structureOf[p]
  BY <1>1, <1>3
<1>5. Holds(structures', structureOf', caches', W)
  <2>1. \A c \in caches' : c.structure \in W => c.next \in W \cup {None}
    BY <1>2, <1>3 DEF Holds
  <2> QED
    BY <1>1, <1>3, <1>4, <2>1 DEF Holds
<1>6. A2 \in SUBSET W
  BY <1>1, <1>3
<1>7. \A p \in Objects \ {o} : /\ structureOf[p] \notin A => structureOf[p] # q
                               /\ T2[structureOf[p]] = T[structureOf[p]]
  BY <1>1, <1>3 DEF Private
<1>8. Private(structures', structureOf', A2, T2)
  <2> SUFFICES ASSUME NEW x \in Objects, structureOf'[x] \notin A2
               PROVE  /\ Good(T2[structureOf'[x]])
                      /\ structures'[structureOf'[x]].table = T2[structureOf'[x]]
                      /\ structures'[structureOf'[x]].kind \in {"none", "cached", "uncached"}
                      /\ \A k \in Keys : structures'[structureOf'[x]].transitions[k] = None
                      /\ \A p \in Objects \ {x} : structureOf'[p] # structureOf'[x]
    BY DEF Private
  <2>1. CASE x = o
    <3>1. \A p \in Objects \ {o} : structureOf[p] # q
      BY <1>1, <1>3, <1>4, <2>1 DEF Private
    <3> QED
      BY <1>1, <1>4, <2>1, <3>1
  <2>2. CASE x # o
    <3>1. structureOf'[x] = structureOf[x] /\ structureOf[x] \notin A
      BY <1>1, <1>4, <2>2
    <3>2. structures'[structureOf[x]] = structures[structureOf[x]] /\ T2[structureOf[x]] = T[structureOf[x]] /\ structureOf[x] # q
      BY <1>1, <1>7, <2>2, <3>1
    <3>3. /\ Good(T[structureOf[x]])
          /\ structures[structureOf[x]].table = T[structureOf[x]]
          /\ structures[structureOf[x]].kind \in {"none", "cached", "uncached"}
          /\ \A k \in Keys : structures[structureOf[x]].transitions[k] = None
          /\ \A p \in Objects \ {x} : structureOf[p] # structureOf[x]
      BY <1>3, <3>1 DEF Private
    <3>4. \A p \in Objects \ {x} : structureOf'[p] # structureOf[x]
      BY <1>1, <1>4, <3>2, <3>3
    <3> QED
      BY <3>1, <3>2, <3>3, <3>4
  <2> QED
    BY <2>1, <2>2
<1>9. Described(structureOf', storage', props', T2)
  BY <1>1, <1>3, <1>4, <1>7 DEF Described
<1>10. Remembered(structures', structureOf', caches', W, A2, T2)
  <2> SUFFICES ASSUME NEW c \in caches', c.structure \in Live(structureOf', A2), ~Remembers(structures', A2, T2, c)
               PROVE  FALSE
    BY DEF Remembered
  <2> DEFINE s == c.structure
  <2>1. /\ c \in caches /\ s \in InUse
        /\ s = q => q \in A \/ (structures'[q].kind = structures[q].kind /\ T2[q] = T[q])
    BY <1>2, <1>3
  <2>2. s \in A \/ \E p \in Objects : s = structureOf[p] /\ s \notin A
    <3>1. s \in A2 \/ \E p \in Objects : s = structureOf'[p]
      BY DEF Live
    <3>2. s \in A \/ s = q \/ \E p \in Objects \ {o} : s = structureOf[p]
      BY <1>1, <1>4, <3>1
    <3>3. q \in InUse => q \in A \/ q = structureOf[o]
      BY <1>1
    <3> QED
      BY <2>1, <3>2, <3>3
  <2>3. Remembers(structures, A, T, c)
    BY <1>3, <2>1, <2>2 DEF Remembered, Live
  <2>4. structures'[s].kind = structures[s].kind /\ T2[s] = T[s]
    <3>1. CASE s \in A
      BY <1>1, <2>1, <3>1 DEF SameOrigin
    <3>2. CASE s \notin A /\ s = q
      BY <2>1, <3>2
    <3>3. CASE s \notin A /\ s # q
      <4>1. PICK p \in Objects : s = structureOf[p]
        BY <2>2, <3>3
      <4>2. p # o \/ s = structureOf[o]
        BY <4>1
      <4>3. CASE p # o
        BY <1>1, <1>7, <2>1, <3>3, <4>1, <4>3
      <4>4. CASE p = o
        <5>1. \E x \in Objects : s = structureOf'[x]
          BY <1>1, <3>3 DEF Live
        <5>2. PICK x \in Objects : s = structureOf'[x]
          BY <5>1
        <5>3. x # o /\ structureOf[x] = s
          BY <1>4, <3>3, <5>2
        <5> QED
          BY <1>3, <3>3, <4>1, <4>4, <5>3 DEF Private
      <4> QED
        BY <4>3, <4>4
    <3> QED
      BY <3>1, <3>2, <3>3
  <2>5. c.kind = "transition" => SameOrigin(structures'[c.next], structures[c.next])
    BY <1>1, <2>3 DEF Remembers
  <2> QED
    BY <1>1, <2>3, <2>4, <2>5 DEF Remembers, SameOrigin
<1> QED
  BY <1>1, <1>5, <1>6, <1>8, <1>9, <1>10 DEF Shape, StructInv

\* Tables are rebuilt and caches come and go.
LEMMA OnlyCaches ==
    ASSUME NEW A, NEW T, Now(A, T), UNCHANGED <<structureOf, storage, props>>,
           NEW s \in InUse, structures' = MaterializeIfNecessary(structures, s),
           \A c \in caches' : \/ c \in LiveCaches
                              \/ /\ c.structure \in InUse /\ c.next \in InUse \cup {None}
                                 /\ c.structure \in Live(structureOf, A) => Remembers(structures, A, T, c)
    PROVE  StructInv'
<1>1. /\ structures' = [x \in Ids |-> structures'[x]]
      /\ \A x \in Ids : x # s => structures'[x] = structures[x]
      /\ IsStructure(structures'[s]) /\ SameRest(structures'[s], structures[s])
      /\ s \in Live(structureOf, A) => structures'[s].table \in {structures[s].table, T[s]}
  BY MaterializedNow
<1>2. \A x \in InUse : x \in Ids /\ IsStructure(structures[x])
  BY StructureFacts
<1>3. \A x \in InUse : IsStructure(structures'[x]) /\ SameRest(structures'[x], structures[x])
  BY <1>1, <1>2 DEF SameRest, SameOrigin
<1>4. \A x \in Live(structureOf, A) : structures'[x].table \in {structures[x].table, T[x]}
  <2>1. \A x \in Live(structureOf, A) : x \in Ids
    BY <1>2, StructureFacts
  <2> QED
    BY <1>1, <2>1
<1>5. \A c \in caches' : \/ /\ c.structure \in InUse => c.next \in InUse \cup {None}
                            /\ c.structure \in Live(structureOf, A) => Remembers(structures, A, T, c)
                         \/ c \in caches
  BY LiveCachesAre
<1>6. Shape(structures', structureOf, storage, props, caches', InUse, A, T)
  BY <1>1, <1>3, <1>4, <1>5, NothingMoves DEF Now
<1>7. Shape(structures', structureOf', storage', props', caches', InUse, A, T)
  BY <1>6
<1> QED
  BY <1>7 DEF StructInv

\* A value is written to an object that keeps its structure or gets a shared one.
LEMMA Written ==
    ASSUME NEW A, NEW T, Now(A, T), NEW o \in Objects, NEW q, q \in A \/ q = structureOf[o], Moves(o, q),
           NEW s \in InUse, structures' = MaterializeIfNecessary(structures, s), s \in Live(structureOf, A),
           Describes(T[q], storage'[o], props'[o]),
           \A c \in caches' : \/ c \in LiveCaches
                              \/ /\ c.structure \in InUse /\ c.next \in InUse \cup {None}
                                 /\ Remembers(structures, A, T, c)
    PROVE  StructInv'
<1>1. /\ structures' = [x \in Ids |-> structures'[x]]
      /\ \A x \in Ids : x # s => structures'[x] = structures[x]
      /\ IsStructure(structures'[s]) /\ SameRest(structures'[s], structures[s])
      /\ structures'[s].table \in {structures[s].table, T[s]}
      /\ s \notin A => structures' = structures
  BY MaterializedNow
<1>2. \A x \in InUse : /\ x \in Ids /\ IsStructure(structures[x])
                       /\ structures[x].previous \in InUse \cup {None}
                       /\ \A k \in Keys : structures[x].transitions[k] \in InUse \cup {None}
  BY StructureFacts
<1>3. \A x \in InUse : IsStructure(structures'[x]) /\ SameRest(structures'[x], structures[x])
  BY <1>1, <1>2 DEF SameRest, SameOrigin
<1>4. q \in InUse /\ q \in Ids /\ A \in SUBSET InUse /\ InUse \cup {q} = InUse
      /\ structureOf \in [Objects -> InUse]
  BY StructureFacts
<1>5. Shared(structures, A, T) /\ Private(structures, structureOf, A, T)
  BY DEF Now, Shape
<1>6. Shared(structures', A, T)
  <2>1. \A x \in A : SameRest(structures'[x], structures[x]) /\ structures'[x].table \in {None, T[x]} /\ T[x] = T[x]
    BY <1>1, <1>2, <1>3, <1>4, <1>5 DEF Shared
  <2> QED
    BY <1>5, <2>1, SharedKept
<1>7. \A x \in InUse : /\ IsStructure(structures'[x])
                       /\ structures'[x].previous \in InUse \cup {q, None}
                       /\ \A k \in Keys : structures'[x].transitions[k] \in InUse \cup {q, None}
  BY <1>2, <1>3 DEF SameRest, SameOrigin
<1>8. \A p \in Objects \ {o} : structureOf[p] \notin A => structures'[structureOf[p]] = structures[structureOf[p]]
  <2> TAKE p \in Objects \ {o}
  <2>1. structureOf[p] \in Ids
    BY <1>2, <1>4
  <2> QED
    BY <1>1, <2>1
<1>9. q \notin A => /\ Good(T[q]) /\ structures'[q].table = T[q]
                    /\ structures'[q].kind \in {"none", "cached", "uncached"}
                    /\ \A k \in Keys : structures'[q].transitions[k] = None
  <2> SUFFICES ASSUME q \notin A
               PROVE  /\ Good(T[q]) /\ structures'[q].table = T[q]
                      /\ structures'[q].kind \in {"none", "cached", "uncached"}
                      /\ \A k \in Keys : structures'[q].transitions[k] = None
    OBVIOUS
  <2>1. structures'[q] = structures[q]
    BY <1>1, <1>4
  <2> QED
    BY <1>5, <2>1 DEF Private
<1>10. \A x \in A : SameOrigin(structures'[x], structures[x])
  BY <1>3, <1>4 DEF SameRest
<1>11. ASSUME NEW c \in caches'
       PROVE  \/ /\ c.structure \in InUse \cup {q} => c.next \in InUse \cup {q, None}
                 /\ c.structure \in Live(structureOf', A) => Remembers(structures', A, T, c)
              \/ /\ c \in caches /\ c.structure \in InUse
                 /\ c.structure = q => q \in A \/ (structures'[q].kind = structures[q].kind /\ T[q] = T[q])
  <2>1. CASE c \in LiveCaches
    <3>1. structures'[q].kind = structures[q].kind
      BY <1>3, <1>4 DEF SameRest, SameOrigin
    <3> QED
      BY <2>1, <3>1, LiveCachesAre
  <2>2. CASE c \notin LiveCaches
    <3>1. /\ c.structure \in InUse /\ c.next \in InUse \cup {None}
          /\ Remembers(structures, A, T, c)
      BY <2>2
    <3>2. SameOrigin(structures'[c.structure], structures[c.structure])
      BY <1>3, <3>1 DEF SameRest
    <3>3. c.kind = "transition" => SameOrigin(structures'[c.next], structures[c.next])
      BY <1>10, <3>1 DEF Remembers
    <3>4. Remembers(structures', A, T, c)
      BY <3>1, <3>2, <3>3 DEF Remembers, SameOrigin
    <3> QED
      BY <3>1, <3>4
  <2> QED
    BY <2>1, <2>2
<1>12. Moved(A, T, o, q, A, T)
  <2>1. \A x \in InUse \cup {q} : /\ IsStructure(structures'[x])
                                  /\ structures'[x].previous \in InUse \cup {q, None}
                                  /\ \A k \in Keys : structures'[x].transitions[k] \in InUse \cup {q, None}
    BY <1>4, <1>7
  <2> QED
    BY <1>1, <1>4, <1>6, <1>8, <1>9, <1>10, <1>11, <2>1 DEF Moved
<1> QED
  BY <1>4, <1>12, ObjectMoves

\* Every property of table t is in table u, in the same slot.
Keeps(t, u) ==
    \A j : Has(t, j) => /\ Has(u, j) /\ Find(u, j).offset = Find(t, j).offset
                        /\ Find(u, j).specific \in {None, Find(t, j).specific}

\* No structure but s changes.
OnlyChanges(s) ==
    /\ structures' = [x \in Ids |-> structures'[x]]
    /\ \A x \in Ids : x # s => structures'[x] = structures[x]

\* A dictionary is edited in place.
LEMMA EditedInPlace ==
    ASSUME NEW A, NEW T, Now(A, T), NEW o \in Objects, NEW s, s = structureOf[o], s \notin A,
           Moves(o, s), structures[s].kind # "none",
           OnlyChanges(s), NEW r, r = structures'[s], IsStructure(r),
           r.previous \in {None, structures[s].previous},
           r.transitions = structures[s].transitions,
           r.kind \in {"none", "cached", "uncached"},
           NEW t, r.table = t, Good(t), Describes(t, storage'[o], props'[o]),
           structures[s].kind = "cached" => r.kind # "uncached" /\ Keeps(T[s], t),
           \A c \in caches' : \/ c \in LiveCaches
                              \/ c.structure = s /\ c.next = None /\ Slot(r, t, c)
    PROVE  StructInv'
<1>1. \A x \in InUse : /\ x \in Ids /\ IsStructure(structures[x])
                       /\ structures[x].previous \in InUse \cup {None}
                       /\ \A k \in Keys : structures[x].transitions[k] \in InUse \cup {None}
  BY StructureFacts
<1>2. /\ s \in InUse /\ s \in Ids /\ A \in SUBSET InUse /\ InUse \cup {s} = InUse
      /\ structureOf \in [Objects -> InUse] /\ structures = [x \in Ids |-> structures[x]]
  BY StructureFacts
<1>3. /\ structures' = [x \in Ids |-> structures'[x]] /\ structures'[s] = r
      /\ \A x \in Ids : x # s => structures'[x] = structures[x]
  BY <1>2 DEF OnlyChanges
<1>4. PICK T2 : T2[s] = t /\ \A x \in Ids : x # s => T2[x] = T[x]
  <2> DEFINE u == [x \in Ids |-> IF x = s THEN t ELSE T[x]]
  <2>1. u[s] = t /\ \A x \in Ids : x # s => u[x] = T[x]
    BY <1>2
  <2> HIDE DEF u
  <2> QED
    BY <2>1
<1>5. Shared(structures, A, T) /\ Private(structures, structureOf, A, T)
  BY DEF Now, Shape
<1>6. \A x \in A : structures'[x] = structures[x] /\ T2[x] = T[x]
  BY <1>1, <1>2, <1>3, <1>4
<1>7. Shared(structures', A, T2)
  <2>1. \A x \in A : /\ SameRest(structures'[x], structures[x])
                     /\ structures'[x].table \in {None, T[x]} /\ T2[x] = T[x]
    BY <1>5, <1>6 DEF Shared, SameRest, SameOrigin
  <2> QED
    BY <1>5, <2>1, SharedKept
<1>8. \A x \in InUse \cup {s} : /\ IsStructure(structures'[x])
                                /\ structures'[x].previous \in InUse \cup {s, None}
                                /\ \A k \in Keys : structures'[x].transitions[k] \in InUse \cup {s, None}
  <2> TAKE x \in InUse \cup {s}
  <2>1. CASE x = s
    BY <1>1, <1>2, <1>3, <2>1
  <2>2. CASE x # s
    BY <1>1, <1>3, <2>2
  <2> QED
    BY <2>1, <2>2
<1>9. \A p \in Objects \ {o} : structureOf[p] \notin A => structures'[structureOf[p]] = structures[structureOf[p]]
  <2> SUFFICES ASSUME NEW p \in Objects \ {o}, structureOf[p] \notin A
               PROVE  structures'[structureOf[p]] = structures[structureOf[p]]
    OBVIOUS
  <2>1. structureOf[p] # s
    BY <1>5 DEF Private
  <2>2. structureOf[p] \in Ids
    BY <1>1, <1>2
  <2> QED
    BY <1>3, <2>1, <2>2
<1>10. /\ Good(T2[s]) /\ structures'[s].table = T2[s]
       /\ structures'[s].kind \in {"none", "cached", "uncached"}
       /\ \A k \in Keys : structures'[s].transitions[k] = None
  BY <1>3, <1>4, <1>5 DEF Private
<1>11. \A x \in A : SameOrigin(structures'[x], structures[x])
  BY <1>6 DEF SameOrigin
<1>12. ASSUME NEW c \in caches'
       PROVE  \/ /\ c.structure \in InUse \cup {s} => c.next \in InUse \cup {s, None}
                 /\ c.structure \in Live(structureOf', A) => Remembers(structures', A, T2, c)
              \/ /\ c \in caches /\ c.structure \in InUse
                 /\ c.structure = s => s \in A \/ (structures'[s].kind = structures[s].kind /\ T2[s] = T[s])
  <2>1. CASE c \in LiveCaches /\ c.structure # s
    BY <2>1, LiveCachesAre
  <2>2. CASE c \in LiveCaches /\ c.structure = s
    <3>1. c \in caches /\ c.structure \in InUse /\ c.structure \in Live(structureOf, A)
      BY <2>2, LiveCachesAre DEF Live
    <3>2. Remembers(structures, A, T, c) /\ c.next \in InUse \cup {None}
      BY <3>1 DEF Now, Shape, Remembered, Holds
    <3>3. Slot(structures[s], T[s], c)
      BY <2>2, <3>2, SlotRemembered
    <3>4. structures[s].kind \in {"cached", "uncached"}
      BY <1>5 DEF Private
    <3>5. Slot(r, t, c)
      BY <3>3, <3>4 DEF Slot, Keeps
    <3>6. Remembers(structures', A, T2, c)
      BY <1>3, <1>4, <2>2, <3>5, SlotRemembered
    <3> QED
      BY <3>2, <3>6
  <2>3. CASE c \notin LiveCaches
    <3>1. c.structure = s /\ c.next = None /\ Slot(r, t, c)
      BY <2>3
    <3>2. Remembers(structures', A, T2, c)
      BY <1>3, <1>4, <3>1, SlotRemembered
    <3> QED
      BY <3>1, <3>2
  <2> QED
    BY <2>1, <2>2, <2>3
<1>13. Moved(A, T, o, s, A, T2)
  <2>1. \A x \in InUse : x # s \/ x \in A => T2[x] = T[x]
    BY <1>1, <1>4, <1>6
  <2>2. Describes(T2[s], storage'[o], props'[o])
    BY <1>4
  <2> QED
    BY <1>2, <1>3, <1>7, <1>8, <1>9, <1>10, <1>11, <1>12, <2>1, <2>2 DEF Moved
<1> QED
  BY <1>2, <1>13, ObjectMoves

\* An object gets a new structure of its own.
LEMMA NewPrivate ==
    ASSUME NEW A, NEW T, Now(A, T), Free # {}, NEW o \in Objects, Moves(o, Fresh),
           structures' = [x \in Ids |-> structures'[x]],
           \A x \in InUse : /\ IsStructure(structures'[x])
                            /\ structures'[x].previous \in InUse \cup {Fresh, None}
                            /\ \A k \in Keys : structures'[x].transitions[k] \in InUse \cup {Fresh, None},
           \A x \in A : SameRest(structures'[x], structures[x]) /\ structures'[x].table \in {None, T[x]},
           \A p \in Objects \ {o} : structureOf[p] \notin A =>
                                       structures'[structureOf[p]] = structures[structureOf[p]],
           NEW r, r = structures'[Fresh], IsStructure(r), r.previous \in InUse \cup {None},
           r.kind \in {"none", "cached", "uncached"}, \A k \in Keys : r.transitions[k] = None,
           NEW t, r.table = t, Good(t), Describes(t, storage'[o], props'[o]),
           \A c \in caches' : \/ c \in LiveCaches
                              \/ c.structure = Fresh /\ c.next = None /\ Slot(r, t, c)
                              \/ c.structure = structureOf[o] /\ c.structure \notin A /\ c.next = Fresh
    PROVE  StructInv'
<1>1. \A x \in InUse : x \in Ids
  BY StructureFacts
<1>2. /\ Fresh \in Ids /\ Fresh \notin InUse /\ A \in SUBSET InUse
      /\ structureOf \in [Objects -> InUse]
  BY StructureFacts, FreshIsFree
<1>3. PICK T2 : T2[Fresh] = t /\ \A x \in Ids : x # Fresh => T2[x] = T[x]
  <2> DEFINE u == [x \in Ids |-> IF x = Fresh THEN t ELSE T[x]]
  <2>1. u[Fresh] = t /\ \A x \in Ids : x # Fresh => u[x] = T[x]
    BY <1>2
  <2> HIDE DEF u
  <2> QED
    BY <2>1
<1>4. Shared(structures, A, T) /\ Private(structures, structureOf, A, T)
  BY DEF Now, Shape
<1>5. \A x \in InUse : x # Fresh /\ T2[x] = T[x]
  BY <1>1, <1>2, <1>3
<1>6. Shared(structures', A, T2)
  <2>1. \A x \in A : /\ SameRest(structures'[x], structures[x])
                     /\ structures'[x].table \in {None, T[x]} /\ T2[x] = T[x]
    BY <1>2, <1>5
  <2> QED
    BY <1>4, <2>1, SharedKept
<1>7. \A x \in InUse \cup {Fresh} :
          /\ IsStructure(structures'[x])
          /\ structures'[x].previous \in InUse \cup {Fresh, None}
          /\ \A k \in Keys : structures'[x].transitions[k] \in InUse \cup {Fresh, None}
  <2> TAKE x \in InUse \cup {Fresh}
  <2>1. CASE x = Fresh
    BY <2>1
  <2>2. CASE x \in InUse
    BY <2>2
  <2> QED
    BY <2>1, <2>2
<1>8. \A x \in A : SameOrigin(structures'[x], structures[x])
  BY DEF SameRest
<1>9. /\ Good(T2[Fresh]) /\ structures'[Fresh].table = T2[Fresh]
      /\ structures'[Fresh].kind \in {"none", "cached", "uncached"}
      /\ \A k \in Keys : structures'[Fresh].transitions[k] = None
      /\ Describes(T2[Fresh], storage'[o], props'[o])
  BY <1>3
<1>10. ASSUME NEW c \in caches'
       PROVE  \/ /\ c.structure \in InUse \cup {Fresh} => c.next \in InUse \cup {Fresh, None}
                 /\ c.structure \in Live(structureOf', A) => Remembers(structures', A, T2, c)
              \/ /\ c \in caches /\ c.structure \in InUse
                 /\ c.structure = Fresh =>
                       Fresh \in A \/ (structures'[Fresh].kind = structures[Fresh].kind /\ T2[Fresh] = T[Fresh])
  <2>1. CASE c \in LiveCaches
    BY <1>2, <2>1, LiveCachesAre
  <2>2. CASE c.structure = Fresh /\ c.next = None /\ Slot(r, t, c)
    <3>1. Remembers(structures', A, T2, c)
      BY <1>3, <2>2, SlotRemembered
    <3> QED
      BY <2>2, <3>1
  <2>3. CASE c.structure = structureOf[o] /\ c.structure \notin A /\ c.next = Fresh
    <3>1. structureOf' = [structureOf EXCEPT ![o] = Fresh]
      BY DEF Moves
    <3>2. \A p \in Objects : structureOf'[p] # structureOf[o]
      <4> TAKE p \in Objects
      <4>1. CASE p = o
        BY <1>2, <3>1, <4>1
      <4>2. CASE p # o
        BY <1>2, <1>4, <2>3, <3>1, <4>2 DEF Private
      <4> QED
        BY <4>1, <4>2
    <3>3. c.structure \notin Live(structureOf', A)
      BY <2>3, <3>2 DEF Live
    <3> QED
      BY <2>3, <3>3
  <2> QED
    BY <2>1, <2>2, <2>3
<1>11. Moved(A, T, o, Fresh, A, T2)
  <2>1. \A x \in InUse : x # Fresh \/ x \in A => T2[x] = T[x]
    BY <1>5
  <2>2. A \subseteq A /\ A \subseteq A \cup {Fresh}
    OBVIOUS
  <2> QED
    BY <1>2, <1>6, <1>7, <1>8, <1>9, <1>10, <2>1, <2>2 DEF Moved
<1> QED
  BY <1>2, <1>11, ObjectMoves

\* An object gets a new shared structure q = Fresh, a child of the one it had.
LEMMA NewShared ==
    ASSUME NEW A, NEW T, Now(A, T), Free # {}, NEW o \in Objects, Moves(o, Fresh),
           NEW s \in A, NEW k \in Keys,
           structures' = [x \in Ids |-> structures'[x]],
           \A x \in Ids : x # s /\ x # Fresh => structures'[x] = structures[x],
           IsStructure(structures'[s]), SameOrigin(structures'[s], structures[s]), structures'[s].table = None,
           \A j \in Keys : structures'[s].transitions[j] = IF j = k THEN Fresh ELSE structures[s].transitions[j],
           NEW r, r = structures'[Fresh], IsStructure(r), r.previous = s, r.nameInPrevious = k,
           r.offset = Len(T[s].entries), ~r.pinned, r.kind = "none", \A j \in Keys : r.transitions[j] = None,
           NEW t, r.table = t, Good(t), t = Extended(T[s], r), Describes(t, storage'[o], props'[o]),
           \A c \in caches' : \/ c \in LiveCaches
                              \/ c.structure = Fresh /\ c.next = None /\ Slot(r, t, c)
                              \/ /\ c.kind = "transition" /\ c.structure = s /\ c.next = Fresh /\ c.key = k
                                 /\ c.offset = r.offset /\ r.specificInPrevious = None
    PROVE  StructInv'
<1> DEFINE A2 == A \cup {Fresh}
<1>1. \A x \in InUse : /\ x \in Ids /\ IsStructure(structures[x])
                       /\ structures[x].previous \in InUse \cup {None}
                       /\ \A j \in Keys : structures[x].transitions[j] \in InUse \cup {None}
  BY StructureFacts
<1>2. /\ Fresh \in Ids /\ Fresh \notin InUse /\ A \in SUBSET InUse
      /\ structureOf \in [Objects -> InUse]
  BY StructureFacts, FreshIsFree
<1>3. PICK T2 : T2[Fresh] = t /\ \A x \in Ids : x # Fresh => T2[x] = T[x]
  <2> DEFINE u == [x \in Ids |-> IF x = Fresh THEN t ELSE T[x]]
  <2>1. u[Fresh] = t /\ \A x \in Ids : x # Fresh => u[x] = T[x]
    BY <1>2
  <2> HIDE DEF u
  <2> QED
    BY <2>1
<1>4. Shared(structures, A, T) /\ Private(structures, structureOf, A, T)
  BY DEF Now, Shape
<1>5. \A x \in InUse : x # Fresh /\ T2[x] = T[x]
  BY <1>1, <1>2, <1>3
<1>6. \A x \in A \ {s} : structures'[x] = structures[x]
  BY <1>1, <1>2
<1>7. \A x \in A : SameOrigin(structures'[x], structures[x]) /\ structures'[x].table \in {None, T[x]} /\ T2[x] = T[x]
  BY <1>2, <1>4, <1>5, <1>6 DEF SameOrigin, Shared
<1>8. Shared(structures', A2, T2)
  <2>1. Fresh \notin A
    BY <1>2
  <2>2. \A x \in A \ {s} : structures'[x].transitions = structures[x].transitions
    BY <1>6
  <2>3. Good(T2[Fresh]) /\ T2[Fresh] = Extended(T[s], structures'[Fresh]) /\ structures'[Fresh].table = T2[Fresh]
    BY <1>3
  <2>4. /\ structures'[Fresh].previous = s /\ structures'[Fresh].nameInPrevious = k
        /\ structures'[Fresh].offset = Len(T[s].entries)
        /\ ~structures'[Fresh].pinned /\ structures'[Fresh].kind = "none"
        /\ \A j \in Keys : structures'[Fresh].transitions[j] = None
    OBVIOUS
  <2>5. Grows(structures, A, T, structures', T2, s, k, Fresh)
    BY <1>7, <2>1, <2>2, <2>3, <2>4 DEF Grows
  <2> QED
    BY <1>4, <2>5, SharedGrows
<1>9. \A x \in InUse \cup {Fresh} :
          /\ IsStructure(structures'[x])
          /\ structures'[x].previous \in InUse \cup {Fresh, None}
          /\ \A j \in Keys : structures'[x].transitions[j] \in InUse \cup {Fresh, None}
  <2> TAKE x \in InUse \cup {Fresh}
  <2>1. CASE x = Fresh
    BY <1>2, <2>1
  <2>2. CASE x = s
    BY <1>1, <1>2, <2>2 DEF SameOrigin
  <2>3. CASE x \in InUse \ {s}
    BY <1>1, <1>5, <2>3
  <2> QED
    BY <2>1, <2>2, <2>3
<1>10. \A p \in Objects \ {o} : structureOf[p] \notin A => structures'[structureOf[p]] = structures[structureOf[p]]
  BY <1>1, <1>2
<1>11. ASSUME NEW c \in caches'
       PROVE  \/ /\ c.structure \in InUse \cup {Fresh} => c.next \in InUse \cup {Fresh, None}
                 /\ c.structure \in Live(structureOf', A2) => Remembers(structures', A2, T2, c)
              \/ /\ c \in caches /\ c.structure \in InUse
                 /\ c.structure = Fresh =>
                       Fresh \in A \/ (structures'[Fresh].kind = structures[Fresh].kind /\ T2[Fresh] = T[Fresh])
  <2>1. CASE c \in LiveCaches
    BY <1>2, <2>1, LiveCachesAre
  <2>2. CASE c.structure = Fresh /\ c.next = None /\ Slot(r, t, c)
    <3>1. Remembers(structures', A2, T2, c)
      BY <1>3, <2>2, SlotRemembered
    <3> QED
      BY <2>2, <3>1
  <2>3. CASE /\ c.kind = "transition" /\ c.structure = s /\ c.next = Fresh /\ c.key = k
             /\ c.offset = r.offset /\ r.specificInPrevious = None
    <3>1. Fresh # Root
      BY <1>2, <1>4 DEF Shared
    <3>2. Remembers(structures', A2, T2, c)
      BY <2>3, <3>1 DEF Remembers
    <3> QED
      BY <2>3, <3>2
  <2> QED
    BY <2>1, <2>2, <2>3
<1>12. Moved(A, T, o, Fresh, A2, T2)
  <2>1. \A x \in InUse : x # Fresh \/ x \in A => T2[x] = T[x]
    BY <1>5
  <2>2. /\ A \subseteq A2 /\ A2 \subseteq A \cup {Fresh} /\ Fresh \in A2
        /\ Fresh # structureOf[o] /\ Describes(T2[Fresh], storage'[o], props'[o])
        /\ \A x \in A : SameOrigin(structures'[x], structures[x])
    BY <1>2, <1>3, <1>7
  <2> HIDE DEF A2
  <2> QED
    BY <1>2, <1>8, <1>9, <1>10, <1>11, <2>1, <2>2 DEF Moved
<1> QED
  BY <1>2, <1>12, ObjectMoves

-----------------------------------------------------------------------------
(***************************************************************************)
(* Structures that are pinned copies.                                      *)
(***************************************************************************)
\* A structure r of its own, with table t.
IsCopy(r, t, kind) ==
    /\ IsStructure(r) /\ r.previous = None /\ r.kind = kind /\ r.table = t
    /\ \A k \in Keys : r.transitions[k] = None

\* The constructor of Structure.
LEMMA CreatedFromIs ==
    ASSUME NEW r, NEW c, c = CreatedFrom(r)
    PROVE  /\ IsStructure(c) /\ c.kind = r.kind /\ c.previous = None
           /\ c.transitions = [k \in Keys |-> None]
<1>1. c.kind = r.kind /\ c.previous = None /\ c.transitions = [k \in Keys |-> None]
  BY DEF CreatedFrom, Empty
<1>2. IsStructure(c)
  BY DEF IsStructure, CreatedFrom, Empty
<1> QED
  BY <1>1, <1>2

\* Structure::pin, with a copy of the table.
LEMMA PinnedWithTable ==
    ASSUME NEW c, IsStructure(c), c.previous = None, \A k \in Keys : c.transitions[k] = None, NEW t
    PROVE  IsCopy([c EXCEPT !.table = t, !.pinned = TRUE], t, c.kind)
<1> DEFINE r == [c EXCEPT !.table = t, !.pinned = TRUE]
<1>1. IsStructure(r)
  <2>1. ASSUME NEW q, q = [c EXCEPT !.table = t, !.pinned = TRUE] PROVE IsStructure(q)
    BY <2>1 DEF IsStructure
  <2>2. r = [c EXCEPT !.table = t, !.pinned = TRUE]
    OBVIOUS
  <2> HIDE DEF r
  <2> QED
    BY <2>1, <2>2, Zenon
<1>2. r.previous = c.previous /\ r.transitions = c.transitions /\ r.kind = c.kind /\ r.table = t
  BY DEF IsStructure
<1> HIDE DEF r
<1>3. IsCopy(r, t, c.kind)
  BY <1>1, <1>2 DEF IsCopy
<1> QED
  BY <1>3 DEF r

\* copyPropertyTableForPinning.
LEMMA PinnedCopyIs ==
    ASSUME NEW S, NEW s
    PROVE  IsCopy(PinnedCopy(S, s), TableOf(S, s), S[s].kind)
<1> DEFINE c == CreatedFrom(S[s])
           r == PinnedCopy(S, s)
           t == TableOf(S, s)
<1>1. /\ IsStructure(c) /\ c.kind = S[s].kind /\ c.previous = None
      /\ c.transitions = [k \in Keys |-> None]
  BY CreatedFromIs
<1>2. r = [c EXCEPT !.table = t, !.pinned = TRUE]
  BY DEF PinnedCopy
<1> HIDE DEF c, t, r
<1>3. IsCopy([c EXCEPT !.table = t, !.pinned = TRUE], t, c.kind)
  BY <1>1, PinnedWithTable
<1>4. IsCopy(r, t, c.kind)
  BY <1>2, <1>3
<1> QED
  BY <1>1, <1>4 DEF r, t

\* toDictionaryTransition.
LEMMA DictionaryIs ==
    ASSUME NEW S, NEW s, NEW kind
    PROVE  IsCopy(ToDictionaryTransition(S, s, kind), TableOf(S, s), kind)
<1>1. IsCopy(PinnedCopy(S, s), TableOf(S, s), S[s].kind)
  BY PinnedCopyIs
<1> QED
  BY <1>1 DEF IsCopy, IsStructure, ToDictionaryTransition

\* The table of a copy is edited before anything else sees the copy.
LEMMA CopyWithTable ==
    ASSUME NEW r, NEW t, NEW kind, IsCopy(r, t, kind), NEW u
    PROVE  IsCopy([r EXCEPT !.table = u], u, kind)
  BY DEF IsCopy, IsStructure

\* despecifyFunctionTransition.
LEMMA DespecifiedIs ==
    ASSUME NEW S, NEW s, NEW k
    PROVE  \/ IsCopy(DespecifyFunctionTransition(S, s, k), DespecifyFunction(TableOf(S, s), k), S[s].kind)
           \/ IsCopy(DespecifyFunctionTransition(S, s, k), DespecifyAllFunctions(TableOf(S, s)), S[s].kind)
<1> DEFINE p == PinnedCopy(S, s)
           r == [p EXCEPT !.thrash = @ + 1]
           t == TableOf(S, s)
<1>1. IsCopy(p, t, S[s].kind)
  BY PinnedCopyIs
<1> HIDE DEF p
<1>2. IsCopy(r, t, S[s].kind)
  BY <1>1 DEF IsCopy, IsStructure
<1>3. DespecifyFunctionTransition(S, s, k)
        = IF r.thrash = MaxThrashCount THEN [r EXCEPT !.table = DespecifyAllFunctions(@)]
                                       ELSE [r EXCEPT !.table = DespecifyFunction(@, k)]
  BY DEF DespecifyFunctionTransition, p
<1>4. r.table = t
  BY <1>2 DEF IsCopy
<1> HIDE DEF r, t
<1>5. /\ [r EXCEPT !.table = DespecifyAllFunctions(@)] = [r EXCEPT !.table = DespecifyAllFunctions(t)]
      /\ [r EXCEPT !.table = DespecifyFunction(@, k)] = [r EXCEPT !.table = DespecifyFunction(t, k)]
  BY <1>4
<1>6. /\ IsCopy([r EXCEPT !.table = DespecifyAllFunctions(t)], DespecifyAllFunctions(t), S[s].kind)
      /\ IsCopy([r EXCEPT !.table = DespecifyFunction(t, k)], DespecifyFunction(t, k), S[s].kind)
  BY <1>2, CopyWithTable
<1> QED
  BY <1>3, <1>5, <1>6 DEF t

\* The structures after the table of an object's structure was asked for and r was created.
IsCreated(A, T, r) ==
    /\ structures' = [x \in Ids |-> structures'[x]] /\ structures'[Fresh] = r
    /\ \A x \in InUse : IsStructure(structures'[x]) /\ SameRest(structures'[x], structures[x])
    /\ \A x \in A : structures'[x].table \in {None, T[x]}
    /\ \A p \in Objects : structureOf[p] \notin A => structures'[structureOf[p]] = structures[structureOf[p]]

\* Asking for the table changes nothing else.
LEMMA Created ==
    ASSUME NEW A, NEW T, Now(A, T), Free # {}, NEW o \in Objects, NEW s, s = structureOf[o],
           NEW r, structures' = [MaterializeIfNecessary(structures, s) EXCEPT ![Fresh] = r]
    PROVE  IsCreated(A, T, r)
<1>1. PICK M : M = MaterializeIfNecessary(structures, s)
  OBVIOUS
<1>2. s \in InUse /\ s \in Ids /\ s \in Live(structureOf, A)
  BY ObjectFacts
<1>3. /\ M = [x \in Ids |-> M[x]]
      /\ \A x \in Ids : x # s => M[x] = structures[x]
      /\ IsStructure(M[s]) /\ SameRest(M[s], structures[s])
      /\ M[s].table \in {structures[s].table, T[s]}
      /\ s \notin A => M = structures
  BY <1>1, <1>2, MaterializedNow
<1>4. /\ Fresh \in Ids /\ Fresh \notin InUse /\ A \in SUBSET InUse /\ InUse \in SUBSET Ids
      /\ structureOf \in [Objects -> InUse] /\ \A x \in InUse : IsStructure(structures[x])
  BY StructureFacts, FreshIsFree
<1>5. structures' = [M EXCEPT ![Fresh] = r]
  BY <1>1
<1>6. PICK N : N = structures'
  OBVIOUS
<1>7. /\ N = [x \in Ids |-> N[x]] /\ N[Fresh] = r
      /\ \A x \in Ids : x # Fresh => N[x] = M[x]
  BY <1>3, <1>4, <1>5, <1>6
<1>8. \A x \in InUse : N[x] = M[x]
  BY <1>4, <1>7
<1>9. \A x \in InUse : IsStructure(M[x]) /\ SameRest(M[x], structures[x])
  BY <1>3, <1>4 DEF SameRest, SameOrigin
<1>10. \A x \in A : M[x].table \in {None, T[x]}
  <2>1. \A x \in A : structures[x].table \in {None, T[x]} /\ x \in Ids
    BY <1>4 DEF Now, Shape, Shared
  <2> QED
    BY <1>3, <2>1
<1>11. \A p \in Objects : structureOf[p] \notin A => M[structureOf[p]] = structures[structureOf[p]]
  BY <1>3, <1>4
<1>12. /\ \A x \in InUse : IsStructure(N[x]) /\ SameRest(N[x], structures[x])
       /\ \A x \in A : N[x].table \in {None, T[x]}
       /\ \A p \in Objects : structureOf[p] \notin A => N[structureOf[p]] = structures[structureOf[p]]
  BY <1>4, <1>8, <1>9, <1>10, <1>11
<1> QED
  BY <1>6, <1>7, <1>12 DEF IsCreated

\* An object moves to a pinned copy.
LEMMA PinnedMove ==
    ASSUME NEW A, NEW T, Now(A, T), Free # {}, NEW o \in Objects, NEW s, s = structureOf[o], Moves(o, Fresh),
           NEW r, NEW t, NEW kind, IsCopy(r, t, kind), kind \in {"none", "cached", "uncached"}, Good(t),
           IsCreated(A, T, r), Describes(t, storage'[o], props'[o]),
           \A c \in caches' : \/ c \in LiveCaches
                              \/ c.structure = Fresh /\ c.next = None /\ Slot(r, t, c)
    PROVE  StructInv'
<1>1. /\ structures' = [x \in Ids |-> structures'[x]] /\ structures'[Fresh] = r
      /\ \A x \in InUse : IsStructure(structures'[x]) /\ SameRest(structures'[x], structures[x])
      /\ \A x \in A : structures'[x].table \in {None, T[x]}
      /\ \A p \in Objects : structureOf[p] \notin A => structures'[structureOf[p]] = structures[structureOf[p]]
  BY DEF IsCreated
<1>2. /\ A \in SUBSET InUse
      /\ \A x \in InUse : /\ structures[x].previous \in InUse \cup {None}
                          /\ \A k \in Keys : structures[x].transitions[k] \in InUse \cup {None}
  BY StructureFacts
<1>3. \A x \in InUse : /\ IsStructure(structures'[x])
                       /\ structures'[x].previous \in InUse \cup {Fresh, None}
                       /\ \A k \in Keys : structures'[x].transitions[k] \in InUse \cup {Fresh, None}
  BY <1>1, <1>2 DEF SameRest, SameOrigin
<1>4. \A x \in A : SameRest(structures'[x], structures[x]) /\ structures'[x].table \in {None, T[x]}
  BY <1>1, <1>2
<1>5. /\ IsStructure(r) /\ r.previous \in InUse \cup {None}
      /\ r.kind \in {"none", "cached", "uncached"} /\ \A k \in Keys : r.transitions[k] = None
      /\ r.table = t
  BY DEF IsCopy
<1> QED
  BY <1>1, <1>3, <1>4, <1>5, NewPrivate

-----------------------------------------------------------------------------
(***************************************************************************)
(* Every operation keeps the invariant.                                    *)
(***************************************************************************)
\* The kind of an object's structure.
LEMMA KindOf ==
    ASSUME NEW A, NEW T, Now(A, T), NEW o \in Objects
    PROVE  /\ structures[structureOf[o]].kind \in {"none", "cached", "uncached"}
           /\ IsDictionary(StructureOf(o)) => structureOf[o] \notin A
  BY ObjectFacts DEF IsDictionary, StructureOf

\* setPrototypeTransition.
LEMMA SetPrototypeKeeps ==
    ASSUME StructInv, NEW o \in Objects, SetPrototype(o)
    PROVE  StructInv'
<1>1. PICK A, T : Now(A, T)
  BY InvariantNow
<1> DEFINE s == structureOf[o]
           r == PinnedCopy(structures, s)
<1>2. /\ Free # {} /\ structures' = [MaterializeIfNecessary(structures, s) EXCEPT ![Fresh] = r]
      /\ structureOf' = [structureOf EXCEPT ![o] = Fresh] /\ storage' = storage /\ props' = props
      /\ caches' = LiveCaches
  BY DEF SetPrototype, MoveToCopy, KeepCaches
<1>3. /\ TableOf(structures, s) = T[s] /\ Good(T[s]) /\ Describes(T[s], storage[o], props[o])
      /\ structures[s].kind \in {"none", "cached", "uncached"}
  BY <1>1, ObjectFacts, KindOf
<1>4. IsCopy(r, T[s], structures[s].kind)
  BY <1>3, PinnedCopyIs
<1>5. storage = [p \in Objects |-> storage[p]] /\ props = [p \in Objects |-> props[p]]
  BY <1>1, StructureFacts
<1>6. Moves(o, Fresh)
  BY <1>2, <1>5 DEF Moves
<1> HIDE DEF r
<1>7. IsCreated(A, T, r)
  BY <1>1, <1>2, Created
<1>8. Describes(T[s], storage'[o], props'[o])
  BY <1>2, <1>3
<1>9. \A c \in caches' : \/ c \in LiveCaches
                         \/ c.structure = Fresh /\ c.next = None /\ Slot(r, T[s], c)
  BY <1>2
<1>10. Free # {}
  BY <1>2
<1> QED
  BY <1>1, <1>3, <1>4, <1>6, <1>7, <1>8, <1>9, <1>10, PinnedMove

\* deleteProperty.
LEMMA DeletePropertyKeeps ==
    ASSUME StructInv, NEW o \in Objects, NEW k \in Keys, DeleteProperty(o, k)
    PROVE  StructInv'
<1>1. PICK A, T : Now(A, T)
  BY InvariantNow
<1> DEFINE s == structureOf[o]
           n == Find(T[s], k).offset
           u == RemoveEntry(T[s], k)
<1>2. /\ Properties(o) = T[s] /\ TableOf(structures, s) = T[s] /\ Good(T[s])
      /\ Describes(T[s], storage[o], props[o])
      /\ s \in InUse /\ s \in Ids /\ s \in Live(structureOf, A) /\ IsStructure(structures[s])
      /\ s \in A => structures[s].kind = "none"
      /\ s \notin A => structures[s].table = T[s]
  BY <1>1, ObjectFacts
<1>3. Has(T[s], k) /\ storage' = [storage EXCEPT ![o][n] = Undefined] /\ props' = [props EXCEPT ![o][k] = None]
      /\ caches' = LiveCaches
  BY <1>2 DEF DeleteProperty, KeepCaches
<1>4. Good(u) /\ ~Has(u, k) /\ SameBut(T[s], u, k)
  BY <1>2, <1>3, RemoveFromTable
<1>5. /\ storage' = [p \in Objects |-> storage'[p]] /\ props' = [p \in Objects |-> props'[p]]
      /\ \A p \in Objects \ {o} : storage'[p] = storage[p] /\ props'[p] = props[p]
      /\ storage'[o] = [storage[o] EXCEPT ![n] = Undefined] /\ props'[o] = [props[o] EXCEPT ![k] = None]
  <2>1. storage = [p \in Objects |-> storage[p]] /\ props = [p \in Objects |-> props[p]]
    BY <1>1, StructureFacts
  <2> HIDE DEF n
  <2> QED
    BY <1>3, <2>1
<1>6. Describes(u, storage'[o], props'[o])
  BY <1>2, <1>3, <1>4, <1>5, DescribesDelete
<1>7. CASE structures[s].kind = "uncached"
  <2> DEFINE r == [structures[s] EXCEPT !.table = u]
  <2>1. s \notin A /\ structures[s].table = T[s]
    BY <1>2, <1>7
  <2>2. MaterializeIfNecessary(structures, s) = structures
    BY <1>1, <1>2, <2>1, MaterializedNow
  <2>3. structures' = [structures EXCEPT ![s] = r] /\ structureOf' = [structureOf EXCEPT ![o] = s]
    BY <1>7, <2>1, <2>2 DEF DeleteProperty, StructureOf
  <2>4. IsStructure(r) /\ r.table = u /\ SameRest(r, structures[s])
    BY <1>2, TableReplaced
  <2> HIDE DEF r, u
  <2>5. /\ structures = [x \in Ids |-> structures[x]]
        /\ Moves(o, s)
    BY <1>1, <1>5, <2>3, StructureFacts DEF Moves
  <2>6. OnlyChanges(s) /\ structures'[s] = r
    BY <1>2, <2>3, <2>5 DEF OnlyChanges
  <2>7. /\ r.previous \in {None, structures[s].previous} /\ r.transitions = structures[s].transitions
        /\ r.kind \in {"none", "cached", "uncached"} /\ structures[s].kind # "none"
    BY <1>7, <2>4 DEF SameRest, SameOrigin
  <2>8. structures[s].kind = "cached" => r.kind # "uncached" /\ Keeps(T[s], u)
    BY <1>7
  <2>9. \A c \in caches' : c \in LiveCaches \/ (c.structure = s /\ c.next = None /\ Slot(r, u, c))
    BY <1>3
  <2> QED
    BY <1>1, <1>4, <1>6, <2>1, <2>4, <2>5, <2>6, <2>7, <2>8, <2>9, EditedInPlace
<1>8. CASE structures[s].kind # "uncached"
  <2> DEFINE d == ToDictionaryTransition(structures, s, "uncached")
             r == [d EXCEPT !.table = u]
  <2>1. IsCopy(d, T[s], "uncached")
    BY <1>2, DictionaryIs
  <2>2. IsCopy(r, u, "uncached")
    BY <2>1, CopyWithTable
  <2>3. /\ Free # {} /\ structures' = [MaterializeIfNecessary(structures, s) EXCEPT ![Fresh] = r]
        /\ structureOf' = [structureOf EXCEPT ![o] = Fresh]
    <3>1. d.table = T[s]
      BY <2>1 DEF IsCopy
    <3> HIDE DEF u
    <3>2. [d EXCEPT !.table = RemoveEntry(@, k)] = r
      BY <3>1 DEF u
    <3> QED
      BY <1>8, <3>2 DEF DeleteProperty, StructureOf
  <2> HIDE DEF d, r, u
  <2>4. Moves(o, Fresh)
    BY <1>5, <2>3 DEF Moves
  <2>5. IsCreated(A, T, r)
    BY <1>1, <2>3, Created
  <2>6. \A c \in caches' : c \in LiveCaches \/ (c.structure = Fresh /\ c.next = None /\ Slot(r, u, c))
    BY <1>3
  <2>7. Free # {} /\ "uncached" \in {"none", "cached", "uncached"}
    BY <2>3
  <2> QED
    BY <1>1, <1>4, <1>6, <2>2, <2>4, <2>5, <2>6, <2>7, PinnedMove
<1> QED
  BY <1>7, <1>8

\* putDirectInternal, case (2): the object moves to a structure that does not name the function.
LEMMA PutDespecifyKeeps ==
    ASSUME StructInv, NEW o \in Objects, NEW k \in Keys, NEW v \in ValuesOf(k), PutDespecify(o, k, v)
    PROVE  StructInv'
<1>1. PICK A, T : Now(A, T)
  BY InvariantNow
<1> DEFINE s == structureOf[o]
           n == Find(T[s], k).offset
           r == DespecifyFunctionTransition(structures, s, k)
           kind == structures[s].kind
<1>2. /\ Properties(o) = T[s] /\ TableOf(structures, s) = T[s] /\ Good(T[s])
      /\ Describes(T[s], storage[o], props[o]) /\ kind \in {"none", "cached", "uncached"}
  BY <1>1, ObjectFacts, KindOf
<1>3. /\ Has(T[s], k) /\ Free # {} /\ Store(o, Fresh, n, k, v)
      /\ structures' = [MaterializeIfNecessary(structures, s) EXCEPT ![Fresh] = r]
      /\ TryCachePutByID(structures', Fresh, "ExistingProperty", k, n)
  BY <1>2 DEF PutDespecify
<1>4. \E u : /\ IsCopy(r, u, kind) /\ Good(u) /\ Has(u, k) /\ Find(u, k).specific = None
             /\ Find(u, k).offset = n /\ SameBut(T[s], u, k)
  <2>1. CASE IsCopy(r, DespecifyFunction(T[s], k), kind)
    BY <1>2, <1>3, <2>1, DespecifyOne
  <2>2. CASE IsCopy(r, DespecifyAllFunctions(T[s]), kind)
    BY <1>2, <1>3, <2>2, DespecifyAll
  <2>3. \/ IsCopy(r, DespecifyFunction(T[s], k), kind)
        \/ IsCopy(r, DespecifyAllFunctions(T[s]), kind)
    BY <1>2, DespecifiedIs
  <2> QED
    BY <2>1, <2>2, <2>3
<1>5. PICK u : /\ IsCopy(r, u, kind) /\ Good(u) /\ Has(u, k) /\ Find(u, k).specific = None
               /\ Find(u, k).offset = n /\ SameBut(T[s], u, k)
  BY <1>4
<1> HIDE DEF r
<1>6. Moves(o, Fresh) /\ Describes(u, storage'[o], props'[o])
  <2>1. v # None /\ Store(o, Fresh, n, k, v)
    BY <1>3, Values
  <2> HIDE DEF n
  <2> QED
    BY <1>1, <1>2, <1>5, <2>1, Stored
<1>8. IsCreated(A, T, r)
  BY <1>1, <1>3, Created
<1>9. structures'[Fresh] = r
  BY <1>8 DEF IsCreated
<1>10. ASSUME NEW c \in caches'
       PROVE  c \in LiveCaches \/ (c.structure = Fresh /\ c.next = None /\ Slot(r, u, c))
  <2> SUFFICES ASSUME c \notin LiveCaches PROVE c.structure = Fresh /\ c.next = None /\ Slot(r, u, c)
    OBVIOUS
  <2> HIDE DEF n
  <2>1. structures'[Fresh].kind # "uncached" /\ c = PutReplace(Fresh, k, n)
    BY <1>3, TriedCache
  <2>2. r.kind # "uncached"
    BY <1>9, <2>1
  <2>3. Slot(r, u, PutReplace(Fresh, k, n))
    BY <1>5, <2>2, ReplaceSlot
  <2>4. PutReplace(Fresh, k, n).structure = Fresh /\ PutReplace(Fresh, k, n).next = None
    BY CacheParts
  <2> QED
    BY <2>1, <2>3, <2>4
<1>11. Free # {}
  BY <1>3
<1> QED
  BY <1>1, <1>2, <1>5, <1>6, <1>8, <1>10, <1>11, PinnedMove

\* A structure is edited in place.
EditsTo(s, r) == structures' = [structures EXCEPT ![s] = r]

\* It is a dictionary, so it is not shared, and no other structure changes.
LEMMA InPlace ==
    ASSUME NEW A, NEW T, Now(A, T), NEW o \in Objects, NEW s, s = structureOf[o],
           IsDictionary(StructureOf(o)), NEW r, EditsTo(s, r)
    PROVE  /\ OnlyChanges(s) /\ structures'[s] = r
           /\ s \notin A /\ structures[s].kind # "none" /\ structures[s].kind \in {"cached", "uncached"}
           /\ structures[s].table = T[s] /\ IsStructure(structures[s])
<1>1. s \in Ids /\ structures = [x \in Ids |-> structures[x]]
  BY ObjectFacts, StructureFacts
<1>2. structures'[s] = r
  BY <1>1 DEF EditsTo
<1>3. /\ structures' = [x \in Ids |-> structures'[x]]
      /\ \A x \in Ids : x # s => structures'[x] = structures[x]
  BY <1>1 DEF EditsTo
<1>4. s \notin A /\ structures[s].kind # "none" /\ structures[s].kind \in {"none", "cached", "uncached"}
  BY KindOf DEF IsDictionary, StructureOf
<1>5. structures[s].table = T[s] /\ IsStructure(structures[s])
  BY <1>4, ObjectFacts
<1> QED
  BY <1>2, <1>3, <1>4, <1>5 DEF OnlyChanges

\* putDirectInternal: a property of a dictionary is overwritten.
LEMMA PutDictionaryExistingKeeps ==
    ASSUME StructInv, NEW o \in Objects, NEW k \in Keys, NEW v \in ValuesOf(k), PutDictionaryExisting(o, k, v)
    PROVE  StructInv'
<1>1. PICK A, T : Now(A, T)
  BY InvariantNow
<1> DEFINE s == structureOf[o]
           e == Find(T[s], k)
           n == e.offset
           despecify == e.specific \notin {None, SpecificFunction(v)}
           u == IF despecify THEN DespecifyFunction(T[s], k) ELSE T[s]
           r == [structures[s] EXCEPT !.table = u]
           slot == IF e.specific = None \/ despecify THEN "ExistingProperty" ELSE "Uncachable"
<1>2. /\ Properties(o) = T[s] /\ Good(T[s]) /\ Describes(T[s], storage[o], props[o])
      /\ s \in Ids /\ structures = [x \in Ids |-> structures[x]]
  BY <1>1, ObjectFacts, StructureFacts
<1>3. /\ IsDictionary(StructureOf(o)) /\ Has(T[s], k) /\ Store(o, s, n, k, v)
      /\ structures' = IF despecify THEN [structures EXCEPT ![s].table = DespecifyFunction(@, k)] ELSE structures
      /\ TryCachePutByID(structures', s, slot, k, n)
  BY <1>2 DEF PutDictionaryExisting
<1>4. s \notin A /\ structures[s].table = T[s] /\ IsStructure(structures[s])
  BY <1>1, <1>3, KindOf, ObjectFacts
<1>5. structures' = [structures EXCEPT ![s] = r]
  <2>1. CASE despecify
    <3>1. [structures[s] EXCEPT !.table = DespecifyFunction(@, k)] = r
      BY <1>4, <2>1
    <3> QED
      BY <1>3, <2>1, <3>1
  <2>2. CASE ~despecify
    <3>1. r = structures[s]
      BY <1>4, <2>2 DEF IsStructure
    <3> HIDE DEF r
    <3>2. [structures EXCEPT ![s] = r] = structures
      BY <1>2, <3>1
    <3> QED
      BY <1>3, <2>2, <3>2
  <2> QED
    BY <2>1, <2>2
<1>6. IsStructure(r) /\ r.table = u /\ SameRest(r, structures[s])
  <2> HIDE DEF s, u
  <2> QED
    BY <1>4, TableReplaced
<1> HIDE DEF r
<1>7. /\ OnlyChanges(s) /\ structures'[s] = r
      /\ structures[s].kind # "none" /\ structures[s].kind \in {"cached", "uncached"}
  <2>1. EditsTo(s, r) /\ IsDictionary(StructureOf(o))
    BY <1>3, <1>5 DEF EditsTo
  <2> QED
    BY <1>1, <2>1, InPlace
<1>8. /\ Good(u) /\ Has(u, k) /\ Find(u, k).offset = n /\ SameBut(T[s], u, k)
      /\ slot = "ExistingProperty" => Find(u, k).specific = None
      /\ Find(u, k).specific \in {None, v} /\ Find(u, k).specific \in {None, e.specific}
  <2>1. CASE despecify
    BY <1>2, <1>3, <2>1, DespecifyOne
  <2>2. CASE ~despecify
    <3>1. u = T[s] /\ e.specific \in {None, SpecificFunction(v)}
      BY <2>2
    <3>2. SpecificFunction(v) \in {None, v}
      BY Values
    <3>3. SameBut(T[s], T[s], k)
      BY DEF SameBut
    <3>4. slot = "ExistingProperty" => e.specific = None
      BY <2>2
    <3> QED
      BY <1>2, <1>3, <3>1, <3>2, <3>3, <3>4
  <2> QED
    BY <2>1, <2>2
<1>9. Keeps(T[s], u)
  BY <1>3, <1>8 DEF Keeps, SameBut
<1>10. slot \in {"Uncachable", "NewProperty", "ExistingProperty"} /\ slot # "NewProperty"
  OBVIOUS
<1>11. /\ TryCachePutByID(structures', s, slot, k, n) /\ Store(o, s, n, k, v) /\ v # None
       /\ Find(u, k).offset = n
  BY <1>3, <1>8, Values
<1> HIDE DEF u, slot, n, e
<1>12. Moves(o, s) /\ Describes(u, storage'[o], props'[o])
  BY <1>1, <1>2, <1>8, <1>11, Stored
<1>13. ASSUME NEW c \in caches'
       PROVE  c \in LiveCaches \/ (c.structure = s /\ c.next = None /\ Slot(r, u, c))
  <2> SUFFICES ASSUME c \notin LiveCaches PROVE c.structure = s /\ c.next = None /\ Slot(r, u, c)
    OBVIOUS
  <2> HIDE DEF s
  <2>1. TryCachePutByID(structures', s, slot, k, n)
    BY <1>11
  <2>2. structures'[s].kind # "uncached" /\ slot = "ExistingProperty" /\ c = PutReplace(s, k, n)
    BY <1>10, <2>1, TriedCache
  <2>3. r.kind # "uncached" /\ slot = "ExistingProperty" /\ c = PutReplace(s, k, n)
    BY <1>7, <1>10, <2>2
  <2>4. Slot(r, u, PutReplace(s, k, n))
    BY <1>8, <1>11, <2>3, ReplaceSlot
  <2>5. PutReplace(s, k, n).structure = s /\ PutReplace(s, k, n).next = None
    BY CacheParts
  <2> QED
    BY <2>3, <2>4, <2>5
<1>14. /\ r.previous \in {None, structures[s].previous} /\ r.transitions = structures[s].transitions
       /\ r.kind = structures[s].kind
       /\ r.kind \in {"none", "cached", "uncached"}
  BY <1>6, <1>7 DEF SameRest, SameOrigin
<1>15. structures[s].kind = "cached" => r.kind # "uncached" /\ Keeps(T[s], u)
  BY <1>9, <1>14
<1> QED
  BY <1>1, <1>4, <1>6, <1>7, <1>8, <1>12, <1>13, <1>14, <1>15, EditedInPlace

\* putDirectInternal: a property is added to a dictionary.
LEMMA PutDictionaryNewKeeps ==
    ASSUME StructInv, NEW o \in Objects, NEW k \in Keys, NEW v \in ValuesOf(k), PutDictionaryNew(o, k, v)
    PROVE  StructInv'
<1>1. PICK A, T : Now(A, T)
  BY InvariantNow
<1>2. PICK s : s = structureOf[o]
  OBVIOUS
<1>3. /\ Properties(o) = T[s] /\ Good(T[s]) /\ Describes(T[s], storage[o], props[o])
      /\ s \in Ids /\ structures = [x \in Ids |-> structures[x]] /\ IsStructure(structures[s])
  BY <1>1, <1>2, ObjectFacts, StructureFacts
<1>4. PICK f : f = IF StructureOf(o).thrash = MaxThrashCount THEN None ELSE SpecificFunction(v)
  OBVIOUS
<1>5. f \in Functions \cup {None} /\ f \in {None, v} /\ v # None
  BY <1>4, Values
<1> DEFINE u == PutSpecificValue(T[s], k, f)
           n == Find(u, k).offset
           slot == IF SpecificFunction(v) = None THEN "NewProperty" ELSE "Uncachable"
           r == [structures[s] EXCEPT !.table = u, !.pinned = TRUE, !.previous = None, !.nameInPrevious = None]
<1>6. /\ IsDictionary(StructureOf(o)) /\ ~Has(T[s], k) /\ Store(o, s, n, k, v)
      /\ structures' = [structures EXCEPT ![s].table = u, ![s].pinned = TRUE,
                                          ![s].previous = None, ![s].nameInPrevious = None]
      /\ TryCachePutByID(structures', s, slot, k, n)
  BY <1>2, <1>3, <1>4 DEF PutDictionaryNew
<1>7. Good(u) /\ Has(u, k) /\ Find(u, k).specific = f /\ SameBut(T[s], u, k) /\ Find(u, k).offset = n
  BY <1>3, <1>5, <1>6, PutInTable
<1>8. slot \in {"Uncachable", "NewProperty", "ExistingProperty"} /\ slot # "ExistingProperty"
  OBVIOUS
<1>9. Keeps(T[s], u)
  BY <1>6, <1>7 DEF Keeps, SameBut
<1> HIDE DEF u, n, slot
<1>10. /\ IsStructure(r) /\ r.previous = None /\ r.table = u
       /\ r.kind = structures[s].kind /\ r.transitions = structures[s].transitions
  <2>1. IsStructure(r)
    <3>1. ASSUME NEW x, IsStructure(x),
                 NEW q, q = [x EXCEPT !.table = u, !.pinned = TRUE, !.previous = None, !.nameInPrevious = None]
          PROVE  IsStructure(q)
      BY <3>1 DEF IsStructure
    <3>2. r = [structures[s] EXCEPT !.table = u, !.pinned = TRUE, !.previous = None, !.nameInPrevious = None]
      OBVIOUS
    <3> HIDE DEF r
    <3> QED
      BY <1>3, <3>1, <3>2, Zenon
  <2>2. /\ r.previous = None /\ r.table = u
        /\ r.kind = structures[s].kind /\ r.transitions = structures[s].transitions
    BY <1>3 DEF IsStructure
  <2> HIDE DEF r
  <2> QED
    BY <2>1, <2>2
<1>11. EditsTo(s, r)
  BY <1>3, <1>6 DEF EditsTo
<1> HIDE DEF r
<1>12. /\ OnlyChanges(s) /\ structures'[s] = r /\ s \notin A
       /\ structures[s].kind # "none" /\ structures[s].kind \in {"cached", "uncached"}
  <2>1. IsDictionary(StructureOf(o))
    BY <1>6
  <2> QED
    BY <1>1, <1>2, <1>11, <2>1, InPlace
<1>13. Moves(o, s) /\ Describes(u, storage'[o], props'[o])
  <2>1. Find(u, k).specific \in {None, v} /\ Store(o, s, n, k, v)
    BY <1>5, <1>6, <1>7
  <2> QED
    BY <1>1, <1>3, <1>5, <1>7, <2>1, Stored
<1>14. ASSUME NEW c \in caches'
       PROVE  c \in LiveCaches \/ (c.structure = s /\ c.next = None /\ Slot(r, u, c))
  <2> SUFFICES ASSUME c \notin LiveCaches PROVE FALSE
    OBVIOUS
  <2>1. TryCachePutByID(structures', s, slot, k, n)
    BY <1>6
  <2>2. structures'[s].kind = "none"
    BY <1>8, <2>1, TriedCache
  <2> QED
    BY <1>10, <1>12, <2>2
<1>15. structures[s].kind = "cached" => r.kind # "uncached" /\ Keeps(T[s], u)
  BY <1>9, <1>10
<1>16. r.previous \in {None, structures[s].previous} /\ r.kind \in {"none", "cached", "uncached"}
  BY <1>10, <1>12
<1> QED
  BY <1>1, <1>2, <1>7, <1>10, <1>12, <1>13, <1>14, <1>15, <1>16, EditedInPlace

\* flattenDictionaryStructure, for an access through o as a prototype or for a cached function.
LEMMA FlattenKeeps ==
    ASSUME NEW A, NEW T, Now(A, T), NEW o \in Objects, FlattenDictionary(o), NEW s, s = structureOf[o],
           \A c \in caches' : \/ c \in LiveCaches
                              \/ /\ structures[s].kind # "uncached" /\ c.structure = s /\ c.next = None
                                 /\ c.kind = "method" /\ c.key \in Keys /\ Has(T[s], c.key)
                                 /\ Find(T[s], c.key).specific = c.function /\ c.function # None
    PROVE  StructInv'
<1>1. /\ Good(T[s]) /\ Describes(T[s], storage[o], props[o])
      /\ s \in Ids /\ structures = [x \in Ids |-> structures[x]] /\ IsStructure(structures[s])
      /\ structureOf \in [Objects -> InUse]
      /\ storage = [p \in Objects |-> storage[p]] /\ props = [p \in Objects |-> props[p]]
  BY ObjectFacts, StructureFacts
<1>2. IsDictionary(StructureOf(o))
  BY DEF FlattenDictionary
<1>3. structures[s].table = T[s]
  BY <1>2, KindOf, ObjectFacts
<1> DEFINE compact == [entries |-> [i \in DOMAIN T[s].entries |-> [T[s].entries[i] EXCEPT !.offset = i - 1]],
                       deletedOffsets |-> <<>>]
           renumber == structures[s].kind = "uncached"
           u == IF renumber THEN compact ELSE T[s]
           r == [structures[s] EXCEPT !.kind = "none", !.table = u]
           moved == [n \in Offsets |-> IF n < Len(T[s].entries) THEN storage[o][T[s].entries[n + 1].offset]
                                                                ELSE storage[o][n]]
<1>4. /\ structures' = [structures EXCEPT ![s].kind = "none", ![s].table = IF renumber THEN compact ELSE @]
      /\ storage' = IF renumber THEN [storage EXCEPT ![o] = moved] ELSE storage
      /\ structureOf' = structureOf /\ props' = props
  BY <1>3 DEF FlattenDictionary, StructureOf, Compacted
<1>5. Good(u)
  <2>1. CASE renumber
    <3>1. compact \in Tables /\ DOMAIN compact.entries = DOMAIN T[s].entries /\ compact.deletedOffsets = <<>>
          /\ \A i \in DOMAIN T[s].entries : /\ compact.entries[i].key = T[s].entries[i].key
                                            /\ compact.entries[i].offset = i - 1
                                            /\ compact.entries[i].specific = T[s].entries[i].specific
      BY <1>1, Renumbering
    <3>2. Good(compact)
      <4> HIDE DEF compact
      <4> QED
        BY <1>1, <3>1, Renumbered
    <3> QED
      BY <2>1, <3>2
  <2>2. CASE ~renumber
    BY <1>1, <2>2
  <2> QED
    BY <2>1, <2>2
<1>6. Describes(compact, moved, props[o])
  BY <1>1, DescribesRenumbered
<1> HIDE DEF compact, moved
<1>7. Describes(u, storage'[o], props'[o])
  <2>1. CASE renumber
    BY <1>1, <1>4, <1>6, <2>1
  <2>2. CASE ~renumber
    BY <1>1, <1>4, <2>2
  <2> QED
    BY <2>1, <2>2
<1>8. Moves(o, s)
  <2>1. structureOf' = [structureOf EXCEPT ![o] = s]
    BY <1>1, <1>4
  <2>2. /\ storage' = [p \in Objects |-> storage'[p]]
        /\ \A p \in Objects \ {o} : storage'[p] = storage[p]
    BY <1>1, <1>4
  <2>3. /\ props' = [p \in Objects |-> props'[p]]
        /\ \A p \in Objects \ {o} : props'[p] = props[p]
    BY <1>1, <1>4
  <2> QED
    BY <2>1, <2>2, <2>3 DEF Moves
<1>9. EditsTo(s, r)
  <2>1. structures' = [structures EXCEPT ![s] = [structures[s] EXCEPT !.kind = "none",
                                                                      !.table = IF renumber THEN compact ELSE @]]
    BY <1>1, <1>4
  <2>2. [structures[s] EXCEPT !.kind = "none", !.table = IF renumber THEN compact ELSE @] = r
    BY <1>1, <1>3 DEF IsStructure
  <2> QED
    BY <2>1, <2>2 DEF EditsTo
<1> HIDE DEF u
<1>10. /\ IsStructure(r) /\ r.previous = structures[s].previous /\ r.table = u
       /\ r.kind = "none" /\ r.transitions = structures[s].transitions
  <2>1. IsStructure(r)
    <3>1. ASSUME NEW x, IsStructure(x), NEW q, q = [x EXCEPT !.kind = "none", !.table = u]
          PROVE  IsStructure(q)
      BY <3>1 DEF IsStructure
    <3>2. r = [structures[s] EXCEPT !.kind = "none", !.table = u]
      OBVIOUS
    <3> HIDE DEF r
    <3> QED
      BY <1>1, <3>1, <3>2, Zenon
  <2>2. /\ r.previous = structures[s].previous /\ r.table = u
        /\ r.kind = "none" /\ r.transitions = structures[s].transitions
    BY <1>1 DEF IsStructure
  <2> HIDE DEF r
  <2> QED
    BY <2>1, <2>2
<1> HIDE DEF r
<1>11. /\ OnlyChanges(s) /\ structures'[s] = r /\ s \notin A
       /\ structures[s].kind # "none" /\ structures[s].kind \in {"cached", "uncached"}
  BY <1>2, <1>9, InPlace
<1>12. structures[s].kind = "cached" => r.kind # "uncached" /\ Keeps(T[s], u)
  <2>1. structures[s].kind = "cached" => u = T[s]
    BY DEF u
  <2>2. Keeps(T[s], T[s])
    BY DEF Keeps
  <2> QED
    BY <1>10, <2>1, <2>2
<1>13. ASSUME NEW c \in caches'
       PROVE  c \in LiveCaches \/ (c.structure = s /\ c.next = None /\ Slot(r, u, c))
  <2> SUFFICES ASSUME c \notin LiveCaches PROVE c.structure = s /\ c.next = None /\ Slot(r, u, c)
    OBVIOUS
  <2>1. /\ structures[s].kind # "uncached" /\ c.structure = s /\ c.next = None
        /\ c.kind = "method" /\ c.key \in Keys /\ Has(T[s], c.key)
        /\ Find(T[s], c.key).specific = c.function /\ c.function # None
    OBVIOUS
  <2>2. u = T[s]
    BY <2>1 DEF u
  <2> QED
    BY <1>10, <2>1, <2>2 DEF Slot
<1>14. r.previous \in {None, structures[s].previous} /\ r.kind \in {"none", "cached", "uncached"}
  BY <1>10
<1> QED
  BY <1>5, <1>7, <1>8, <1>10, <1>11, <1>12, <1>13, <1>14, EditedInPlace

\* Flattening for an access through o as a prototype.
LEMMA FlattenPrototypeKeeps ==
    ASSUME StructInv, NEW o \in Objects, Flatten(o)
    PROVE  StructInv'
<1>1. PICK A, T : Now(A, T)
  BY InvariantNow
<1>2. FlattenDictionary(o) /\ \A c \in caches' : c \in LiveCaches
  BY DEF Flatten, KeepCaches
<1> QED
  BY <1>1, <1>2, FlattenKeeps

\* The slow path of get_by_id.
LEMMA GetByIdKeeps ==
    ASSUME StructInv, NEW o \in Objects, NEW k \in Keys, GetById(o, k)
    PROVE  StructInv'
<1>1. PICK A, T : Now(A, T)
  BY InvariantNow
<1>2. PICK s : s = structureOf[o]
  OBVIOUS
<1>3. /\ Properties(o) = T[s] /\ s \in InUse
  BY <1>1, <1>2, ObjectFacts
<1> DEFINE n == Find(T[s], k).offset
           g == GetSelf(s, k, n)
<1>4. /\ Has(T[s], k) /\ structures' = MaterializeIfNecessary(structures, s)
      /\ \A c \in caches' : c \in LiveCaches \/ (c = g /\ structures[s].kind # "uncached")
      /\ UNCHANGED <<structureOf, storage, props>>
  BY <1>2, <1>3 DEF GetById, KeepCaches, Patch, StructureOf
<1>5. g.kind = "get" /\ g.structure = s /\ g.key = k /\ g.next = None /\ g.offset = n
  BY CacheParts
<1> HIDE DEF g
<1>6. structures[s].kind # "uncached" => Slot(structures[s], T[s], g)
  BY <1>4, <1>5 DEF Slot
<1>7. structures[s].kind # "uncached" => Remembers(structures, A, T, g)
  BY <1>5, <1>6, SlotRemembered
<1>8. ASSUME NEW c \in caches'
      PROVE  \/ c \in LiveCaches
             \/ /\ c.structure \in InUse /\ c.next \in InUse \cup {None}
                /\ c.structure \in Live(structureOf, A) => Remembers(structures, A, T, c)
  BY <1>3, <1>4, <1>5, <1>7
<1>9. structures' = MaterializeIfNecessary(structures, s) /\ UNCHANGED <<structureOf, storage, props>>
  BY <1>4
<1> QED
  BY <1>1, <1>3, <1>8, <1>9, OnlyCaches

\* get_by_id_method_check: the function in the table is the one the object has.
LEMMA MethodCheckKeeps ==
    ASSUME StructInv, NEW o \in Objects, NEW k \in Keys, MethodCheck(o, k)
    PROVE  StructInv'
<1>1. PICK A, T : Now(A, T)
  BY InvariantNow
<1>2. PICK s : s = structureOf[o]
  OBVIOUS
<1>3. /\ Properties(o) = T[s] /\ s \in InUse
  BY <1>1, <1>2, ObjectFacts
<1> DEFINE f == Find(T[s], k).specific
           m == Method(s, k, f)
<1>4. /\ Has(T[s], k) /\ f # None /\ structures[s].kind # "uncached"
      /\ \A c \in caches' : c \in LiveCaches \/ c = m
  BY <1>2, <1>3 DEF MethodCheck, StructureOf
<1>5. m.kind = "method" /\ m.structure = s /\ m.key = k /\ m.next = None /\ m.function = f
  BY CacheParts
<1> HIDE DEF m
<1>6. CASE IsDictionary(StructureOf(o))
  <2>1. FlattenDictionary(o)
    BY <1>6 DEF MethodCheck
  <2>2. ASSUME NEW c \in caches'
        PROVE  \/ c \in LiveCaches
               \/ /\ structures[s].kind # "uncached" /\ c.structure = s /\ c.next = None
                  /\ c.kind = "method" /\ c.key \in Keys /\ Has(T[s], c.key)
                  /\ Find(T[s], c.key).specific = c.function /\ c.function # None
    BY <1>4, <1>5
  <2> QED
    BY <1>1, <1>2, <2>1, <2>2, FlattenKeeps
<1>7. CASE ~IsDictionary(StructureOf(o))
  <2>1. structures' = MaterializeIfNecessary(structures, s) /\ UNCHANGED <<structureOf, storage, props>>
    BY <1>2, <1>7 DEF MethodCheck
  <2>2. Slot(structures[s], T[s], m)
    BY <1>2, <1>4, <1>5, <1>7 DEF Slot, IsDictionary, StructureOf
  <2>3. Remembers(structures, A, T, m)
    BY <1>5, <2>2, SlotRemembered
  <2>4. ASSUME NEW c \in caches'
        PROVE  \/ c \in LiveCaches
               \/ /\ c.structure \in InUse /\ c.next \in InUse \cup {None}
                  /\ c.structure \in Live(structureOf, A) => Remembers(structures, A, T, c)
    BY <1>3, <1>4, <1>5, <2>3
  <2> QED
    BY <1>1, <1>3, <2>1, <2>4, OnlyCaches
<1> QED
  BY <1>6, <1>7

\* GetByIdStatus: optimized code takes the slot from the table of a cached structure.
LEMMA ProfileKeeps ==
    ASSUME StructInv, NEW p \in LiveCaches, Profile(p)
    PROVE  StructInv'
<1>1. PICK A, T : Now(A, T)
  BY InvariantNow
<1>2. PICK s : s = p.structure
  OBVIOUS
<1>3. p \in caches /\ s \in InUse
  BY <1>2, LiveCachesAre
<1> DEFINE t == TableOf(structures, s)
           k == p.key
           n == Find(t, k).offset
           g == GetSelf(s, k, n)
<1>4. /\ p.kind = "get" /\ structures' = MaterializeIfNecessary(structures, s)
      /\ \A c \in caches' : c \in LiveCaches \/ (c = g /\ Has(t, k))
      /\ UNCHANGED <<structureOf, storage, props>>
  BY <1>2 DEF Profile, KeepCaches, Patch
<1>5. g.kind = "get" /\ g.structure = s /\ g.key = k /\ g.next = None /\ g.offset = n
  BY CacheParts
<1> HIDE DEF g
<1>6. ASSUME Has(t, k), s \in Live(structureOf, A) PROVE Remembers(structures, A, T, g)
  <2>1. t = T[s]
    BY <1>1, <1>6, TableNow
  <2>2. Remembers(structures, A, T, p)
    BY <1>1, <1>2, <1>3, <1>6 DEF Now, Shape, Remembered
  <2>3. k \in Keys /\ structures[s].kind # "uncached"
    BY <1>2, <1>4, <2>2 DEF Remembers
  <2>4. Slot(structures[s], T[s], g)
    BY <1>5, <1>6, <2>1, <2>3 DEF Slot
  <2> QED
    BY <1>5, <2>4, SlotRemembered
<1>7. ASSUME NEW c \in caches'
      PROVE  \/ c \in LiveCaches
             \/ /\ c.structure \in InUse /\ c.next \in InUse \cup {None}
                /\ c.structure \in Live(structureOf, A) => Remembers(structures, A, T, c)
  BY <1>3, <1>4, <1>5, <1>6
<1>8. structures' = MaterializeIfNecessary(structures, s) /\ UNCHANGED <<structureOf, storage, props>>
  BY <1>4
<1> QED
  BY <1>1, <1>3, <1>7, <1>8, OnlyCaches

\* The root is in use, it is shared, and it has no table to rebuild.
LEMMA RootFacts ==
    ASSUME NEW A, NEW T, Now(A, T)
    PROVE  /\ Root \in InUse /\ Root \in A /\ Root \in Live(structureOf, A)
           /\ MaterializeIfNecessary(structures, Root) = structures
<1>1. Root \in A /\ structures[Root].previous = None
  BY DEF Now, Shape, Shared
<1>2. A \in SUBSET InUse
  BY StructureFacts
<1>3. MaterializeIfNecessary(structures, Root) = structures
  BY <1>1 DEF MaterializeIfNecessary
<1> QED
  BY <1>1, <1>2, <1>3 DEF Live

\* An access site is discarded.
LEMMA DiscardKeeps ==
    ASSUME StructInv, NEW p, Discard(p)
    PROVE  StructInv'
<1>1. PICK A, T : Now(A, T)
  BY InvariantNow
<1>2. Root \in InUse /\ MaterializeIfNecessary(structures, Root) = structures
  BY <1>1, RootFacts
<1>3. /\ structures' = MaterializeIfNecessary(structures, Root) /\ UNCHANGED <<structureOf, storage, props>>
      /\ \A c \in caches' : c \in LiveCaches
  BY <1>2 DEF Discard
<1> QED
  BY <1>1, <1>2, <1>3, OnlyCaches

\* A collection: structures keep their predecessors, and transitions and caches are weak.
LEMMA CollectKeeps ==
    ASSUME StructInv, Collect
    PROVE  StructInv'
<1>1. PICK A, T : Now(A, T)
  BY InvariantNow
<1>2. PICK W : W = Reached(Roots, FALSE)
  OBVIOUS
<1> DEFINE swept(r) == [r EXCEPT !.transitions = [k \in Keys |-> IF @[k] \in W THEN @[k] ELSE None]]
<1>3. /\ structures' = [s \in Ids |-> IF s \in W THEN swept(structures[s]) ELSE None]
      /\ caches' = {c \in LiveCaches : {c.structure, c.next} \ {None} \subseteq W}
      /\ structureOf' = structureOf /\ storage' = storage /\ props' = props
  BY <1>2 DEF Collect
<1>4. /\ W \subseteq InUse /\ Root \in W /\ \A o \in Objects : structureOf[o] \in W
      /\ \A s \in W : structures[s].previous \in W \cup {None}
  <2>1. Holds(structures, structureOf, caches, InUse)
    BY <1>1 DEF Now, Shape
  <2> QED
    BY <1>2, <2>1, MarkedHolds
<1>5. \A s \in W : s \in Ids /\ s # None /\ IsStructure(structures[s])
  BY <1>1, <1>4, StructureFacts
<1>6. ASSUME NEW s \in W
      PROVE  /\ IsStructure(swept(structures[s])) /\ SameOrigin(swept(structures[s]), structures[s])
             /\ swept(structures[s]).table = structures[s].table
             /\ \A k \in Keys : swept(structures[s]).transitions[k]
                                  = IF structures[s].transitions[k] \in W THEN structures[s].transitions[k] ELSE None
  <2> DEFINE r == structures[s]
             ts == [k \in Keys |-> IF r.transitions[k] \in W THEN r.transitions[k] ELSE None]
             q == [r EXCEPT !.transitions = ts]
  <2>1. IsStructure(r)
    BY <1>5
  <2>2. swept(structures[s]) = q
    OBVIOUS
  <2>3. ts \in [Keys -> Ids \cup {None}]
    BY <1>5
  <2> HIDE DEF r, ts
  <2>4. q.transitions = ts /\ q.table = r.table /\ SameOrigin(q, r)
    BY <2>1 DEF IsStructure, SameOrigin
  <2>5. IsStructure(q)
    BY <2>1, <2>3 DEF IsStructure
  <2> HIDE DEF q, swept
  <2> QED
    BY <2>2, <2>4, <2>5 DEF r, ts
<1> HIDE DEF swept
<1>7. /\ structures' = [s \in Ids |-> structures'[s]]
      /\ \A s \in W : structures'[s] = swept(structures[s])
  BY <1>3, <1>5
<1>8. \A s \in W : /\ IsStructure(structures'[s]) /\ SameOrigin(structures'[s], structures[s])
                   /\ structures'[s].table = structures[s].table
                   /\ \A k \in Keys : structures'[s].transitions[k]
                                        = IF structures[s].transitions[k] \in W THEN structures[s].transitions[k] ELSE None
  BY <1>6, <1>7
<1>9. ASSUME NEW c \in caches' PROVE c \in caches /\ c.structure \in W /\ c.next \in W \cup {None}
  <2>1. c \in LiveCaches /\ {c.structure, c.next} \ {None} \subseteq W
    BY <1>3
  <2>2. c \in caches /\ c.structure \in InUse /\ None \notin InUse
    BY <1>1, <2>1, LiveCachesAre, StructureFacts
  <2> QED
    BY <2>1, <2>2
<1>10. Shape(structures', structureOf, storage, props, caches', W, A \cap W, T)
  <2>1. Shape(structures, structureOf, storage, props, caches, InUse, A, T)
    BY <1>1 DEF Now
  <2>2. structures' = [s \in Ids |-> structures'[s]]
    BY <1>7
  <2> QED
    BY <1>4, <1>8, <1>9, <2>1, <2>2, SweptShape
<1>11. Shape(structures', structureOf', storage', props', caches', W, A \cap W, T)
  BY <1>3, <1>10
<1> QED
  BY <1>11 DEF StructInv

\* The table of a shared structure has one entry more than that of the structure before it.
LEMMA ChildTable ==
    ASSUME NEW S, NEW A, NEW T, Shared(S, A, T), NEW q \in A, q # Root
    PROVE  /\ S[q].previous \in A
           /\ Has(T[q], S[q].nameInPrevious)
           /\ Find(T[q], S[q].nameInPrevious).offset = S[q].offset
           /\ Find(T[q], S[q].nameInPrevious).specific = S[q].specificInPrevious
           /\ SameBut(T[S[q].previous], T[q], S[q].nameInPrevious)
           /\ Good(T[q]) /\ Good(T[S[q].previous])
<1> DEFINE p == S[q].previous
           e == EntryInPrevious(S[q])
           t == T[p]
           u == T[q]
           k == S[q].nameInPrevious
           m == Len(t.entries)
<1>1. p \in A /\ u.entries = Append(t.entries, e) /\ e \in Entries /\ S[q].offset = m
  BY SharedParent
<1>2. Good(t) /\ Good(u)
  BY <1>1 DEF Shared
<1>3. t.entries \in Seq(Entries) /\ m \in Nat /\ DOMAIN t.entries = 1..m
  BY <1>1, SharedParts
<1>4. e.key = k /\ e.offset = S[q].offset /\ e.specific = S[q].specificInPrevious
  BY DEF EntryInPrevious, Entry
<1> HIDE DEF p, e, t, u, k
<1>5. /\ DOMAIN u.entries = 1..(m + 1) /\ u.entries[m + 1] = e
      /\ \A i \in 1..m : u.entries[i] = t.entries[i]
  <2> DEFINE es == t.entries
  <2>1. es \in Seq(Entries) /\ Len(es) = m
    BY <1>3
  <2> HIDE DEF es, m
  <2>2. /\ DOMAIN Append(es, e) = 1..(m + 1) /\ Append(es, e)[m + 1] = e
        /\ \A i \in 1..m : Append(es, e)[i] = es[i]
    BY <1>1, <1>3, <2>1
  <2> QED
    BY <1>1, <2>2 DEF es
<1> HIDE DEF m
<1>6. m + 1 \in DOMAIN u.entries /\ \A i \in 1..m : i \in DOMAIN u.entries /\ i # m + 1
  BY <1>3, <1>5
<1>7. Has(u, k) /\ Find(u, k) = e
  BY <1>2, <1>4, <1>5, <1>6, FoundAt
<1>8. SameBut(t, u, k)
  <2> SUFFICES ASSUME NEW j, j # k
               PROVE  /\ Has(u, j) <=> Has(t, j)
                      /\ Has(t, j) => /\ Find(u, j).offset = Find(t, j).offset
                                      /\ Find(u, j).specific \in {None, Find(t, j).specific}
    BY DEF SameBut
  <2>1. ASSUME Has(t, j) PROVE Has(u, j) /\ Find(u, j) = Find(t, j)
    <3>1. IndexOf(t, j) \in 1..m /\ Find(t, j) = t.entries[IndexOf(t, j)] /\ Find(t, j).key = j
      BY <1>2, <1>3, <2>1, Found
    <3>2. u.entries[IndexOf(t, j)] = Find(t, j) /\ IndexOf(t, j) \in DOMAIN u.entries
      BY <1>5, <1>6, <3>1
    <3> QED
      BY <1>2, <3>1, <3>2, FoundAt
  <2>2. ASSUME Has(u, j) PROVE Has(t, j)
    <3>1. PICK i \in DOMAIN u.entries : u.entries[i].key = j
      BY <2>2 DEF Has
    <3>2. i # m + 1
      BY <1>4, <1>5, <3>1
    <3>3. i \in 1..m
      BY <1>3, <1>5, <3>1, <3>2
    <3> QED
      BY <1>3, <1>5, <3>1, <3>3 DEF Has
  <2> QED
    BY <2>1, <2>2
<1> QED
  BY <1>1, <1>2, <1>4, <1>7, <1>8 DEF p, t, u, k

\* addPropertyTransitionToExistingStructure: the object takes a transition another one took.
LEMMA PutExistingTransitionKeeps ==
    ASSUME StructInv, NEW o \in Objects, NEW k \in Keys, NEW v \in ValuesOf(k), PutExistingTransition(o, k, v)
    PROVE  StructInv'
<1>1. PICK A, T : Now(A, T)
  BY InvariantNow
<1>2. PICK s : s = structureOf[o]
  OBVIOUS
<1>3. PICK q : q = structures[s].transitions[k]
  OBVIOUS
<1>4. /\ Good(T[s]) /\ Describes(T[s], storage[o], props[o])
      /\ s \notin A => \A j \in Keys : structures[s].transitions[j] = None
  BY <1>1, <1>2, ObjectFacts
<1> DEFINE n == structures[q].offset
           slot == IF SpecificFunction(v) = None THEN "NewProperty" ELSE "Uncachable"
<1>5. /\ q # None /\ structures[q].specificInPrevious \in {None, SpecificFunction(v)}
      /\ Store(o, q, n, k, v) /\ TryCachePutByID(structures, q, slot, k, n)
      /\ structures' = structures
  BY <1>2, <1>3 DEF PutExistingTransition, ExistingTransition, StructureOf
<1>6. Shared(structures, A, T)
  BY <1>1 DEF Now, Shape
<1>7. s \in A
  BY <1>3, <1>4, <1>5
<1>8. /\ q \in A /\ q # Root /\ structures[q].previous = s /\ structures[q].nameInPrevious = k
  BY <1>3, <1>5, <1>6, <1>7 DEF Shared
<1>9. /\ Has(T[q], k) /\ Find(T[q], k).offset = n /\ Find(T[q], k).specific = structures[q].specificInPrevious
      /\ SameBut(T[s], T[q], k) /\ Good(T[q])
  BY <1>6, <1>8, ChildTable
<1>10. v # None /\ SpecificFunction(v) \in {None, v}
  BY Values
<1>11. /\ slot \in {"Uncachable", "NewProperty"}
       /\ slot = "NewProperty" => SpecificFunction(v) = None
  OBVIOUS
<1> HIDE DEF n, slot
<1>12. Moves(o, q) /\ Describes(T[q], storage'[o], props'[o])
  <2>1. Find(T[q], k).specific \in {None, v} /\ Store(o, q, n, k, v)
    BY <1>5, <1>9, <1>10
  <2>2. Describes(T[s], storage[o], props[o]) /\ Good(T[s])
    BY <1>4
  <2>3. Good(T[q]) /\ SameBut(T[s], T[q], k) /\ Has(T[q], k) /\ Find(T[q], k).offset = n
    BY <1>9
  <2> QED
    BY <1>1, <1>10, <2>1, <2>2, <2>3, Stored
<1>13. s \in InUse /\ q \in InUse /\ A \in SUBSET InUse
  BY <1>1, <1>7, <1>8, StructureFacts
<1>14. ASSUME NEW c \in caches'
       PROVE  \/ c \in LiveCaches
              \/ /\ c.structure \in InUse /\ c.next \in InUse \cup {None}
                 /\ Remembers(structures, A, T, c)
  <2> SUFFICES ASSUME c \notin LiveCaches
               PROVE  /\ c.structure \in InUse /\ c.next \in InUse \cup {None}
                      /\ Remembers(structures, A, T, c)
    OBVIOUS
  <2>1. TryCachePutByID(structures, q, slot, k, n)
    BY <1>5
  <2>2. slot = "NewProperty" /\ c = PutTransition(structures[q].previous, q, k, n)
    <3>1. slot \in {"Uncachable", "NewProperty"}
      BY <1>11
    <3> QED
      BY <2>1, <3>1, TriedTransition
  <2>3. c.kind = "transition" /\ c.structure = s /\ c.key = k /\ c.next = q /\ c.offset = n
    BY <1>8, <2>2, CacheParts
  <2>4. structures[q].specificInPrevious = None
    BY <1>5, <1>11, <2>2
  <2>5. Remembers(structures, A, T, c)
    BY <1>7, <1>8, <2>3, <2>4 DEF Remembers, n
  <2> QED
    BY <1>13, <2>3, <2>5
<1>15. /\ Root \in InUse /\ Root \in Live(structureOf, A)
       /\ structures' = MaterializeIfNecessary(structures, Root)
  BY <1>1, <1>5, RootFacts
<1> QED
  BY <1>1, <1>8, <1>12, <1>14, <1>15, Written

\* putDirectInternal: a property is overwritten.
LEMMA PutExistingKeeps ==
    ASSUME StructInv, NEW o \in Objects, NEW k \in Keys, NEW v \in ValuesOf(k), PutExisting(o, k, v)
    PROVE  StructInv'
<1>1. PICK A, T : Now(A, T)
  BY InvariantNow
<1>2. PICK s : s = structureOf[o]
  OBVIOUS
<1>3. /\ Properties(o) = T[s] /\ Good(T[s]) /\ Describes(T[s], storage[o], props[o])
      /\ s \in InUse /\ s \in Ids /\ s \in Live(structureOf, A)
  BY <1>1, <1>2, ObjectFacts
<1> DEFINE e == Find(T[s], k)
           n == e.offset
           slot == IF e.specific = None THEN "ExistingProperty" ELSE "Uncachable"
<1>4. /\ Has(T[s], k) /\ e.specific \in {None, SpecificFunction(v)}
      /\ structures' = MaterializeIfNecessary(structures, s)
      /\ Store(o, s, n, k, v)
      /\ TryCachePutByID(structures', s, slot, k, n)
  BY <1>2, <1>3 DEF PutExisting
<1>5. v # None /\ SpecificFunction(v) \in {None, v}
  BY Values
<1>6. /\ slot \in {"Uncachable", "NewProperty", "ExistingProperty"} /\ slot # "NewProperty"
      /\ slot = "ExistingProperty" => e.specific = None
  OBVIOUS
<1>7. SameRest(structures'[s], structures[s])
  BY <1>1, <1>3, <1>4, MaterializedNow
<1> HIDE DEF slot
<1>8. Moves(o, s) /\ Describes(T[s], storage'[o], props'[o])
  <2>1. Find(T[s], k).specific \in {None, v} /\ Store(o, s, n, k, v) /\ Has(T[s], k) /\ Find(T[s], k).offset = n
    BY <1>4, <1>5
  <2>2. SameBut(T[s], T[s], k)
    BY DEF SameBut
  <2> HIDE DEF n
  <2> QED
    BY <1>1, <1>3, <1>5, <2>1, <2>2, Stored
<1>9. ASSUME NEW c \in caches'
      PROVE  \/ c \in LiveCaches
             \/ /\ c.structure \in InUse /\ c.next \in InUse \cup {None}
                /\ Remembers(structures, A, T, c)
  <2> SUFFICES ASSUME c \notin LiveCaches
               PROVE  /\ c.structure \in InUse /\ c.next \in InUse \cup {None}
                      /\ Remembers(structures, A, T, c)
    OBVIOUS
  <2>1. TryCachePutByID(structures', s, slot, k, n)
    BY <1>4
  <2> HIDE DEF n
  <2>2. structures'[s].kind # "uncached" /\ slot = "ExistingProperty" /\ c = PutReplace(s, k, n)
    BY <1>6, <2>1, TriedCache
  <2>3. c.structure = s /\ c.next = None
    BY <2>2, CacheParts
  <2>4. structures[s].kind # "uncached"
    BY <1>7, <2>2 DEF SameRest, SameOrigin
  <2>5. Has(T[s], k) /\ Find(T[s], k).offset = n /\ Find(T[s], k).specific = None
    BY <1>4, <1>6, <2>2 DEF n
  <2>6. Slot(structures[s], T[s], PutReplace(s, k, n))
    BY <2>4, <2>5, ReplaceSlot
  <2>7. Remembers(structures, A, T, c)
    BY <2>2, <2>3, <2>6, SlotRemembered
  <2> QED
    BY <1>3, <2>3, <2>7
<1>10. structures' = MaterializeIfNecessary(structures, s)
  BY <1>4
<1> QED
  BY <1>1, <1>2, <1>3, <1>8, <1>9, <1>10, Written

\* A cached put: the check of the structure is all it needs.
LEMMA CachedPutKeeps ==
    ASSUME StructInv, NEW p \in LiveCaches, NEW o \in Objects, NEW v \in ValuesOf(p.key), CachedPut(p, o, v)
    PROVE  StructInv'
<1>1. PICK A, T : Now(A, T)
  BY InvariantNow
<1>2. PICK s : s = structureOf[o]
  OBVIOUS
<1>3. PICK q : q = IF p.kind = "transition" THEN p.next ELSE s
  OBVIOUS
<1> DEFINE n == p.offset
           k == p.key
<1>4. /\ p.kind \in {"replace", "transition"} /\ p.structure = s /\ Store(o, q, n, k, v)
      /\ structures' = structures /\ \A c \in caches' : c \in LiveCaches
  BY <1>2, <1>3 DEF CachedPut, KeepCaches
<1>5. /\ Good(T[s]) /\ Describes(T[s], storage[o], props[o])
      /\ s \in InUse /\ s \in Live(structureOf, A)
  BY <1>1, <1>2, ObjectFacts
<1>6. Shared(structures, A, T) /\ Remembers(structures, A, T, p)
  <2>1. p \in caches
    BY LiveCachesAre
  <2> QED
    BY <1>1, <1>4, <1>5, <2>1 DEF Now, Shape, Remembered
<1>7. /\ q \in A \/ q = structureOf[o]
      /\ Good(T[q]) /\ k \in Keys /\ SameBut(T[s], T[q], k)
      /\ Has(T[q], k) /\ Find(T[q], k).offset = n /\ Find(T[q], k).specific = None
  <2>1. CASE p.kind = "replace"
    <3>1. q = s
      BY <1>3, <2>1
    <3>2. SameBut(T[s], T[s], k)
      BY DEF SameBut
    <3> QED
      BY <1>2, <1>4, <1>5, <1>6, <2>1, <3>1, <3>2 DEF Remembers
  <2>2. CASE p.kind = "transition"
    <3>1. q = p.next
      BY <1>3, <2>2
    <3>2. /\ q \in A /\ q # Root /\ structures[q].previous = s /\ structures[q].nameInPrevious = k
          /\ structures[q].offset = n /\ structures[q].specificInPrevious = None
      BY <1>4, <1>6, <2>2, <3>1 DEF Remembers
    <3> HIDE DEF n, k
    <3>3. /\ Has(T[q], k) /\ Find(T[q], k).offset = n /\ Find(T[q], k).specific = None
          /\ SameBut(T[s], T[q], k) /\ Good(T[q])
      BY <1>6, <3>2, ChildTable
    <3>4. k \in Keys
      BY <3>3, Found
    <3> QED
      BY <3>2, <3>3, <3>4
  <2> QED
    BY <1>4, <2>1, <2>2
<1>8. v # None
  BY Values
<1> HIDE DEF n, k
<1>9. Moves(o, q) /\ Describes(T[q], storage'[o], props'[o])
  <2>1. Find(T[q], k).specific \in {None, v} /\ Store(o, q, n, k, v)
    BY <1>4, <1>7
  <2>2. Describes(T[s], storage[o], props[o]) /\ Good(T[s])
    BY <1>5
  <2> QED
    BY <1>1, <1>7, <1>8, <2>1, <2>2, Stored
<1>10. /\ Root \in InUse /\ Root \in Live(structureOf, A)
       /\ structures' = MaterializeIfNecessary(structures, Root)
  BY <1>1, <1>4, RootFacts
<1>11. \A c \in caches' : c \in LiveCaches
  BY <1>4
<1> QED
  BY <1>1, <1>7, <1>9, <1>10, <1>11, Written

-----------------------------------------------------------------------------
(***************************************************************************)
(* A new property.                                                         *)
(***************************************************************************)
\* Structure q, with table t, was added to structures S as a child of s.
Added(S, S2, s, k, f, t, q) ==
    /\ S2 = [x \in Ids |-> S2[x]]
    /\ \A x \in Ids : x # s /\ x # q => S2[x] = S[x]
    /\ IsStructure(S2[s]) /\ SameOrigin(S2[s], S[s])
    /\ ~S[s].pinned => S2[s].table = None
    /\ \A j \in Keys : S2[s].transitions[j] = IF j = k THEN q ELSE S[s].transitions[j]
    /\ IsStructure(S2[q]) /\ S2[q].previous = s /\ S2[q].nameInPrevious = k
    /\ S2[q].specificInPrevious = f /\ S2[q].offset = Find(t, k).offset
    /\ ~S2[q].pinned /\ S2[q].kind = S[s].kind /\ S2[q].table = t
    /\ \A j \in Keys : S2[q].transitions[j] = None

\* addPropertyTransition.
LEMMA TransitionAdded ==
    ASSUME NEW S, S = [x \in Ids |-> S[x]], NEW s \in Ids, IsStructure(S[s]), Fresh \in Ids, Fresh # s,
           NEW k \in Keys, NEW f, NEW t, t = PutSpecificValue(TableOf(S, s), k, f),
           NEW S2, S2 = AddPropertyTransition(S, s, k, f)
    PROVE  Added(S, S2, s, k, f, t, Fresh)
<1> DEFINE c == CreatedFrom(S[s])
           child == [c EXCEPT !.previous = s, !.nameInPrevious = k, !.specificInPrevious = f,
                              !.table = t, !.offset = Find(t, k).offset]
           old == [S[s] EXCEPT !.table = IF S[s].pinned THEN @ ELSE None, !.transitions[k] = Fresh]
<1>1. IsStructure(c) /\ c.kind = S[s].kind /\ ~c.pinned /\ c.transitions = [j \in Keys |-> None]
  <2>1. ~c.pinned
    BY DEF CreatedFrom, Empty
  <2> QED
    BY <2>1, CreatedFromIs
<1>2. /\ IsStructure(child) /\ child.previous = s /\ child.nameInPrevious = k
      /\ child.specificInPrevious = f /\ child.offset = Find(t, k).offset
      /\ child.pinned = c.pinned /\ child.kind = c.kind /\ child.table = t /\ child.transitions = c.transitions
  <2> DEFINE n == Find(t, k).offset
  <2> HIDE DEF c, n
  <2>1. ASSUME NEW x, IsStructure(x),
               NEW q, q = [x EXCEPT !.previous = s, !.nameInPrevious = k, !.specificInPrevious = f,
                                    !.table = t, !.offset = n]
        PROVE  /\ IsStructure(q) /\ q.previous = s /\ q.nameInPrevious = k
               /\ q.specificInPrevious = f /\ q.offset = n
               /\ q.pinned = x.pinned /\ q.kind = x.kind /\ q.table = t /\ q.transitions = x.transitions
    BY <2>1 DEF IsStructure
  <2>2. child = [c EXCEPT !.previous = s, !.nameInPrevious = k, !.specificInPrevious = f,
                          !.table = t, !.offset = n]
    BY DEF n
  <2> HIDE DEF child
  <2>3. /\ IsStructure(child) /\ child.previous = s /\ child.nameInPrevious = k
        /\ child.specificInPrevious = f /\ child.offset = n
        /\ child.pinned = c.pinned /\ child.kind = c.kind /\ child.table = t /\ child.transitions = c.transitions
    BY <1>1, <2>1, <2>2, ZenonT(40)
  <2> QED
    BY <2>3 DEF n
<1>3. /\ IsStructure(old) /\ SameOrigin(old, S[s]) /\ (~S[s].pinned => old.table = None)
      /\ \A j \in Keys : old.transitions[j] = IF j = k THEN Fresh ELSE S[s].transitions[j]
  <2> DEFINE m == [S[s].transitions EXCEPT ![k] = Fresh]
             u == IF S[s].pinned THEN S[s].table ELSE None
  <2>1. m \in [Keys -> Ids \cup {None}] /\ \A j \in Keys : m[j] = IF j = k THEN Fresh ELSE S[s].transitions[j]
    BY DEF IsStructure
  <2>2. old = [S[s] EXCEPT !.table = u, !.transitions = m]
    OBVIOUS
  <2>3. ~S[s].pinned => u = None
    OBVIOUS
  <2> HIDE DEF old, m, u
  <2>4. IsStructure(old) /\ SameOrigin(old, S[s]) /\ old.table = u /\ old.transitions = m
    <3>1. PICK x : x = S[s] /\ IsStructure(x)
      OBVIOUS
    <3>2. old = [x EXCEPT !.table = u, !.transitions = m]
      BY <2>2, <3>1
    <3>3. m \in [Keys -> Ids \cup {None}]
      BY <2>1
    <3>4. IsStructure(old) /\ SameOrigin(old, x) /\ old.table = u /\ old.transitions = m
      <4>1. IsStructure(x)
        BY <3>1
      <4> QED
        BY <3>2, <3>3, <4>1 DEF IsStructure, SameOrigin
    <3> QED
      BY <3>1, <3>4
  <2> QED
    BY <2>1, <2>3, <2>4
<1>4. S2 = [S EXCEPT ![Fresh] = child, ![s].table = IF S[s].pinned THEN @ ELSE None, ![s].transitions[k] = Fresh]
  BY DEF AddPropertyTransition
<1>5. S2 = [S EXCEPT ![Fresh] = child, ![s] = old]
  <2> HIDE DEF child
  <2> QED
    BY <1>4
<1> HIDE DEF child, old
<1>6. /\ S2 = [x \in Ids |-> S2[x]] /\ S2[s] = old /\ S2[Fresh] = child
      /\ \A x \in Ids : x # s /\ x # Fresh => S2[x] = S[x]
  BY <1>5
<1> HIDE DEF c
<1> QED
  BY <1>1, <1>2, <1>3, <1>6 DEF Added

\* A new property of an object whose structure is shared: the new structure is shared too.
LEMMA SharedTransitionKeeps ==
    ASSUME NEW A, NEW T, Now(A, T), Free # {}, NEW o \in Objects, NEW s, s = structureOf[o], s \in A,
           NEW k \in Keys, ~Has(T[s], k), NEW f \in Functions \cup {None},
           NEW M, M = MaterializeIfNecessary(structures, s),
           NEW u, u = PutSpecificValue(T[s], k, f), Added(M, structures', s, k, f, u, Fresh),
           Moves(o, Fresh), Describes(u, storage'[o], props'[o]),
           \A c \in caches' : \/ c \in LiveCaches
                              \/ /\ c.kind = "transition" /\ c.structure = s /\ c.next = Fresh /\ c.key = k
                                 /\ c.offset = Find(u, k).offset /\ f = None
    PROVE  StructInv'
<1> DEFINE r == structures'[Fresh]
<1>1. /\ structures' = [x \in Ids |-> structures'[x]]
      /\ \A x \in Ids : x # s /\ x # Fresh => structures'[x] = M[x]
      /\ IsStructure(structures'[s]) /\ SameOrigin(structures'[s], M[s])
      /\ ~M[s].pinned => structures'[s].table = None
      /\ \A j \in Keys : structures'[s].transitions[j] = IF j = k THEN Fresh ELSE M[s].transitions[j]
      /\ IsStructure(r) /\ r.previous = s /\ r.nameInPrevious = k
      /\ r.specificInPrevious = f /\ r.offset = Find(u, k).offset
      /\ ~r.pinned /\ r.kind = M[s].kind /\ r.table = u
      /\ \A j \in Keys : r.transitions[j] = None
  BY DEF Added
<1>2. s \in InUse /\ Good(T[s]) /\ ~structures[s].pinned /\ structures[s].kind = "none"
  BY ObjectFacts
<1>3. SameRest(M[s], structures[s]) /\ \A x \in Ids : x # s => M[x] = structures[x]
  BY <1>2, MaterializedNow
<1>4. T[s].deletedOffsets = <<>>
  <2>1. Shared(structures, A, T)
    BY DEF Now, Shape
  <2> QED
    BY <2>1, NothingDeleted
<1>5. /\ Good(u) /\ Find(u, k).offset = Len(T[s].entries)
      /\ u = [entries |-> Append(T[s].entries, Entry(k, Len(T[s].entries), f)), deletedOffsets |-> <<>>]
  BY <1>2, <1>4, PutInTable
<1>6. r.offset = Len(T[s].entries)
  BY <1>1, <1>5
<1> HIDE DEF r
<1>7. u = Extended(T[s], r)
  BY <1>1, <1>5, <1>6 DEF Extended, EntryInPrevious
<1>8. /\ \A x \in Ids : x # s /\ x # Fresh => structures'[x] = structures[x]
      /\ IsStructure(structures'[s]) /\ SameOrigin(structures'[s], structures[s])
      /\ structures'[s].table = None
      /\ \A j \in Keys : structures'[s].transitions[j] = IF j = k THEN Fresh ELSE structures[s].transitions[j]
  BY <1>1, <1>2, <1>3 DEF SameRest, SameOrigin
<1>9. /\ structures' = [x \in Ids |-> structures'[x]]
      /\ IsStructure(r) /\ r.previous = s /\ r.nameInPrevious = k /\ ~r.pinned /\ r.kind = "none"
      /\ r.table = u /\ \A j \in Keys : r.transitions[j] = None
  BY <1>1, <1>2, <1>3 DEF SameRest, SameOrigin
<1>10. \A c \in caches' : \/ c \in LiveCaches
                          \/ c.structure = Fresh /\ c.next = None /\ Slot(r, u, c)
                          \/ /\ c.kind = "transition" /\ c.structure = s /\ c.next = Fresh /\ c.key = k
                             /\ c.offset = r.offset /\ r.specificInPrevious = None
  BY <1>1
<1>11. r = structures'[Fresh]
  BY DEF r
<1>12. Good(u)
  BY <1>5
<1> QED
  BY <1>6, <1>7, <1>8, <1>9, <1>10, <1>11, <1>12, NewShared

\* A new property of an object with a structure of its own: so is the new one.
LEMMA PrivateTransitionKeeps ==
    ASSUME NEW A, NEW T, Now(A, T), Free # {}, NEW o \in Objects, NEW s, s = structureOf[o], s \notin A,
           NEW k \in Keys, NEW f,
           NEW u, Added(structures, structures', s, k, f, u, Fresh), Good(u),
           Moves(o, Fresh), Describes(u, storage'[o], props'[o]),
           \A c \in caches' : c \in LiveCaches \/ (c.structure = s /\ c.next = Fresh)
    PROVE  StructInv'
<1> DEFINE r == structures'[Fresh]
<1>1. /\ structures' = [x \in Ids |-> structures'[x]]
      /\ \A x \in Ids : x # s /\ x # Fresh => structures'[x] = structures[x]
      /\ IsStructure(structures'[s]) /\ SameOrigin(structures'[s], structures[s])
      /\ \A j \in Keys : structures'[s].transitions[j] = IF j = k THEN Fresh ELSE structures[s].transitions[j]
      /\ IsStructure(r) /\ r.previous = s /\ r.kind = structures[s].kind /\ r.table = u
      /\ \A j \in Keys : r.transitions[j] = None
  BY DEF Added
<1>2. s \in InUse /\ structures[s].kind \in {"none", "cached", "uncached"}
  BY ObjectFacts
<1>3. /\ A \in SUBSET InUse /\ InUse \in SUBSET Ids /\ structureOf \in [Objects -> InUse]
      /\ \A x \in InUse : /\ IsStructure(structures[x])
                          /\ structures[x].previous \in InUse \cup {None}
                          /\ \A j \in Keys : structures[x].transitions[j] \in InUse \cup {None}
  BY StructureFacts
<1>4. Fresh \notin InUse
  BY FreshIsFree
<1> HIDE DEF r
<1>5. \A x \in InUse : x # s => structures'[x] = structures[x]
  BY <1>1, <1>3, <1>4
<1>6. \A x \in InUse : /\ IsStructure(structures'[x])
                       /\ structures'[x].previous \in InUse \cup {Fresh, None}
                       /\ \A j \in Keys : structures'[x].transitions[j] \in InUse \cup {Fresh, None}
  <2> TAKE x \in InUse
  <2>1. CASE x = s
    BY <1>1, <1>2, <1>3, <2>1 DEF SameOrigin
  <2>2. CASE x # s
    BY <1>3, <1>5, <2>2
  <2> QED
    BY <2>1, <2>2
<1>7. \A x \in A : SameRest(structures'[x], structures[x]) /\ structures'[x].table \in {None, T[x]}
  <2>1. \A x \in A : structures[x].table \in {None, T[x]}
    BY DEF Now, Shape, Shared
  <2>2. \A x \in A : structures'[x] = structures[x]
    BY <1>3, <1>5
  <2> QED
    BY <2>1, <2>2 DEF SameRest, SameOrigin
<1>8. \A p \in Objects \ {o} : structureOf[p] \notin A => structures'[structureOf[p]] = structures[structureOf[p]]
  <2>1. \A p \in Objects \ {o} : structureOf[p] # s
    BY DEF Now, Shape, Private
  <2> QED
    BY <1>3, <1>5, <2>1
<1>9. r.previous \in InUse \cup {None} /\ r.kind \in {"none", "cached", "uncached"}
  BY <1>1, <1>2
<1>10. \A c \in caches' : \/ c \in LiveCaches
                          \/ c.structure = Fresh /\ c.next = None /\ Slot(r, u, c)
                          \/ c.structure = structureOf[o] /\ c.structure \notin A /\ c.next = Fresh
  OBVIOUS
<1>11. r = structures'[Fresh]
  BY DEF r
<1>12. /\ structures' = [x \in Ids |-> structures'[x]] /\ IsStructure(r) /\ r.table = u
       /\ \A j \in Keys : r.transitions[j] = None
  BY <1>1
<1> QED
  BY <1>6, <1>7, <1>8, <1>9, <1>10, <1>11, <1>12, NewPrivate

\* putDirectInternal: a property the object's structure does not have, addPropertyTransition.
LEMMA PutNewKeeps ==
    ASSUME StructInv, NEW o \in Objects, NEW k \in Keys, NEW v \in ValuesOf(k), PutNew(o, k, v)
    PROVE  StructInv'
<1>1. PICK A, T : Now(A, T)
  BY InvariantNow
<1>2. PICK s : s = structureOf[o]
  OBVIOUS
<1>3. /\ Properties(o) = T[s] /\ TableOf(structures, s) = T[s] /\ Good(T[s])
      /\ Describes(T[s], storage[o], props[o])
      /\ s \in Ids /\ s \in InUse /\ s \in Live(structureOf, A)
  BY <1>1, <1>2, ObjectFacts
<1>4. PICK f : f = IF \/ StructureOf(o).transitions[k] # None
                      \/ StructureOf(o).thrash = MaxThrashCount
                   THEN None ELSE SpecificFunction(v)
  OBVIOUS
<1>5. /\ f \in Functions \cup {None} /\ f \in {None, v} /\ v # None
      /\ SpecificFunction(v) = None => f = None
  BY <1>4, Values
<1>6. PICK M : M = MaterializeIfNecessary(structures, s)
  OBVIOUS
<1> DEFINE u == PutSpecificValue(T[s], k, f)
           n == Find(u, k).offset
           m == Find(structures'[Fresh].table, k).offset
           d == ToDictionaryTransition(structures, s, "cached")
           r == [d EXCEPT !.table = PutSpecificValue(@, k, f)]
           slot == IF SpecificFunction(v) = None THEN "NewProperty" ELSE "Uncachable"
           long == TransitionCount(StructureOf(o)) > MaxTransitionLength
<1>7. /\ ~IsDictionary(StructureOf(o)) /\ ~Has(T[s], k) /\ Free # {}
      /\ structures' = IF long THEN [M EXCEPT ![Fresh] = r] ELSE AddPropertyTransition(M, s, k, f)
      /\ Store(o, Fresh, m, k, v)
      /\ TryCachePutByID(structures', Fresh, slot, k, m)
  BY <1>2, <1>3, <1>4, <1>6 DEF PutNew
<1>8. Good(u) /\ Has(u, k) /\ Find(u, k).specific = f /\ SameBut(T[s], u, k) /\ Find(u, k).offset = n
  BY <1>3, <1>5, <1>7, PutInTable
<1>9. Fresh \in Ids /\ Fresh \notin InUse
  BY <1>7, FreshIsFree
<1>10. slot \in {"Uncachable", "NewProperty"} /\ (slot = "NewProperty" => f = None)
  BY <1>5
<1>11. structures[s].kind = "none"
  BY <1>2, <1>7 DEF IsDictionary, StructureOf
<1> HIDE DEF n, slot, r
<1>12. ASSUME structures'[Fresh].table = u
       PROVE  /\ Moves(o, Fresh) /\ Describes(u, storage'[o], props'[o])
              /\ \A c \in caches' : c \in LiveCaches \/
                    /\ structures'[Fresh].kind = "none" /\ f = None
                    /\ c = PutTransition(structures'[Fresh].previous, Fresh, k, n)
  <2>1. m = n
    BY <1>12 DEF n
  <2> HIDE DEF m
  <2>2. Store(o, Fresh, n, k, v) /\ TryCachePutByID(structures', Fresh, slot, k, n)
    BY <1>7, <2>1
  <2>3. Moves(o, Fresh) /\ Describes(u, storage'[o], props'[o])
    <3>1. Find(u, k).specific \in {None, v} /\ v # None
      BY <1>5, <1>8
    <3>2. Describes(T[s], storage[o], props[o]) /\ Good(T[s])
      BY <1>3
    <3>3. Store(o, Fresh, n, k, v)
      BY <2>2
    <3>4. Good(u) /\ Has(u, k) /\ SameBut(T[s], u, k) /\ Find(u, k).offset = n
      BY <1>8
    <3> HIDE DEF u
    <3> QED
      BY <1>1, <3>1, <3>2, <3>3, <3>4, Stored
  <2>4. ASSUME NEW c \in caches', c \notin LiveCaches
        PROVE  /\ structures'[Fresh].kind = "none" /\ f = None
               /\ c = PutTransition(structures'[Fresh].previous, Fresh, k, n)
    <3>1. slot \in {"Uncachable", "NewProperty"} /\ TryCachePutByID(structures', Fresh, slot, k, n)
      BY <1>10, <2>2
    <3>2. /\ slot = "NewProperty" /\ structures'[Fresh].kind = "none"
          /\ c = PutTransition(structures'[Fresh].previous, Fresh, k, n)
      BY <2>4, <3>1, TriedTransition
    <3> QED
      BY <1>10, <3>2
  <2> QED
    BY <2>3, <2>4
<1> HIDE DEF m
<1>13. CASE long
  <2>1. structures' = [M EXCEPT ![Fresh] = r]
    BY <1>7, <1>13
  <2> HIDE DEF u, d, long
  <2>2. IsCopy(d, T[s], "cached")
    BY <1>3, DictionaryIs DEF d
  <2>3. r = [d EXCEPT !.table = u]
    <3>1. d.table = T[s]
      BY <2>2 DEF IsCopy
    <3> QED
      BY <3>1 DEF r, u
  <2>4. IsCopy([d EXCEPT !.table = u], u, "cached")
    BY <2>2, CopyWithTable
  <2>5. IsCopy(r, u, "cached")
    BY <2>3, <2>4
  <2>6. IsCreated(A, T, r)
    BY <1>1, <1>2, <1>6, <1>7, <2>1, Created
  <2>7. structures'[Fresh] = r
    BY <2>6 DEF IsCreated
  <2>8. structures'[Fresh].table = u /\ structures'[Fresh].kind = "cached"
    BY <2>5, <2>7 DEF IsCopy
  <2>9. /\ Moves(o, Fresh) /\ Describes(u, storage'[o], props'[o])
        /\ \A c \in caches' : c \in LiveCaches \/ (c.structure = Fresh /\ c.next = None /\ Slot(r, u, c))
    BY <1>12, <2>8
  <2>10. Free # {} /\ Good(u)
    BY <1>7, <1>8
  <2> QED
    BY <1>1, <1>2, <2>5, <2>6, <2>9, <2>10, PinnedMove
<1>14. CASE ~long
  <2>1. structures' = AddPropertyTransition(M, s, k, f)
    BY <1>7, <1>14
  <2> HIDE DEF d, long
  <2>2. /\ M = [x \in Ids |-> M[x]] /\ IsStructure(M[s]) /\ SameRest(M[s], structures[s])
        /\ TableOf(M, s) = T[s] /\ (s \notin A => M = structures)
    BY <1>1, <1>3, <1>6, MaterializedNow
  <2>3. Added(M, structures', s, k, f, u, Fresh)
    <3>1. u = PutSpecificValue(TableOf(M, s), k, f) /\ Fresh # s
      BY <1>3, <1>9, <2>2
    <3>2. M = [x \in Ids |-> M[x]] /\ IsStructure(M[s])
      BY <2>2
    <3> HIDE DEF u
    <3> QED
      BY <1>3, <1>9, <2>1, <3>1, <3>2, TransitionAdded
  <2>4. structures'[Fresh].table = u /\ structures'[Fresh].previous = s
    BY <2>3 DEF Added
  <2>5. /\ Moves(o, Fresh) /\ Describes(u, storage'[o], props'[o])
        /\ \A c \in caches' : c \in LiveCaches \/ (f = None /\ c = PutTransition(s, Fresh, k, n))
    BY <1>12, <2>4
  <2>6. ASSUME NEW c \in caches', c \notin LiveCaches
        PROVE  /\ c.kind = "transition" /\ c.structure = s /\ c.next = Fresh /\ c.key = k
               /\ c.offset = Find(u, k).offset /\ f = None
    <3> HIDE DEF u
    <3>1. f = None /\ c = PutTransition(s, Fresh, k, n)
      BY <2>5, <2>6
    <3> QED
      BY <1>8, <3>1, CacheParts
  <2>7. /\ Moves(o, Fresh) /\ Describes(u, storage'[o], props'[o])
        /\ Free # {} /\ ~Has(T[s], k) /\ f \in Functions \cup {None} /\ Good(u)
    BY <1>5, <1>7, <1>8, <2>5
  <2>8. CASE s \in A
    <3>1. u = PutSpecificValue(T[s], k, f)
      OBVIOUS
    <3> HIDE DEF u
    <3> QED
      BY <1>1, <1>2, <1>6, <2>3, <2>6, <2>7, <2>8, <3>1, SharedTransitionKeeps
  <2>9. CASE s \notin A
    <3>1. Added(structures, structures', s, k, f, u, Fresh)
      BY <2>2, <2>3, <2>9
    <3> HIDE DEF u
    <3> QED
      BY <1>1, <1>2, <2>6, <2>7, <2>9, <3>1, PrivateTransitionKeeps
  <2> QED
    BY <2>8, <2>9
<1> QED
  BY <1>13, <1>14

-----------------------------------------------------------------------------
(***************************************************************************)
(* The theorems.                                                           *)
(***************************************************************************)
\* Every step of the program keeps the invariant.
LEMMA StructInvStep == StructInv /\ [Next]_vars => StructInv'
<1> SUFFICES ASSUME StructInv, [Next]_vars PROVE StructInv'
  OBVIOUS
<1>1. ASSUME NEW o \in Objects, NEW k \in Keys, NEW v \in ValuesOf(k), PutDictionaryNew(o, k, v)
      PROVE  StructInv'
  BY <1>1, PutDictionaryNewKeeps
<1>2. ASSUME NEW o \in Objects, NEW k \in Keys, NEW v \in ValuesOf(k), PutExistingTransition(o, k, v)
      PROVE  StructInv'
  BY <1>2, PutExistingTransitionKeeps
<1>3. ASSUME NEW o \in Objects, NEW k \in Keys, NEW v \in ValuesOf(k), PutNew(o, k, v)
      PROVE  StructInv'
  BY <1>3, PutNewKeeps
<1>4. ASSUME NEW o \in Objects, NEW k \in Keys, NEW v \in ValuesOf(k), PutDictionaryExisting(o, k, v)
      PROVE  StructInv'
  BY <1>4, PutDictionaryExistingKeeps
<1>5. ASSUME NEW o \in Objects, NEW k \in Keys, NEW v \in ValuesOf(k), PutExisting(o, k, v)
      PROVE  StructInv'
  BY <1>5, PutExistingKeeps
<1>6. ASSUME NEW o \in Objects, NEW k \in Keys, NEW v \in ValuesOf(k), PutDespecify(o, k, v)
      PROVE  StructInv'
  BY <1>6, PutDespecifyKeeps
<1>7. ASSUME NEW o \in Objects, NEW k \in Keys, GetById(o, k) PROVE StructInv'
  BY <1>7, GetByIdKeeps
<1>8. ASSUME NEW o \in Objects, NEW k \in Keys, MethodCheck(o, k) PROVE StructInv'
  BY <1>8, MethodCheckKeeps
<1>9. ASSUME NEW o \in Objects, NEW k \in Keys, DeleteProperty(o, k) PROVE StructInv'
  BY <1>9, DeletePropertyKeeps
<1>10. ASSUME NEW o \in Objects, SetPrototype(o) PROVE StructInv'
  BY <1>10, SetPrototypeKeeps
<1>11. ASSUME NEW o \in Objects, Flatten(o) PROVE StructInv'
  BY <1>11, FlattenPrototypeKeeps
<1>12. ASSUME NEW c \in LiveCaches, Profile(c) PROVE StructInv'
  BY <1>12, ProfileKeeps
<1>13. ASSUME NEW c \in LiveCaches, Discard(c) PROVE StructInv'
  BY <1>13, DiscardKeeps
<1>14. ASSUME NEW c \in LiveCaches, NEW o \in Objects, NEW v \in ValuesOf(c.key), CachedPut(c, o, v)
       PROVE  StructInv'
  BY <1>14, CachedPutKeeps
<1>15. CASE Collect
  BY <1>15, CollectKeeps
<1>16. CASE UNCHANGED vars
  <2>1. /\ structures' = structures /\ structureOf' = structureOf /\ storage' = storage
        /\ props' = props /\ caches' = caches
    BY <1>16 DEF vars
  <2> QED
    BY <2>1 DEF StructInv
<1>17. \A o \in Reshaped : o \in Objects
  BY StructuresAssumption
<1> QED
  BY <1>1, <1>2, <1>3, <1>4, <1>5, <1>6, <1>7, <1>8, <1>9, <1>10, <1>11, <1>12, <1>13, <1>14,
     <1>15, <1>16, <1>17 DEF Next

\* The table of its structure describes an object, so lookups are right.
LEMMA InvariantLooksUp == StructInv => LookupCorrect
<1> SUFFICES ASSUME StructInv, NEW o \in Objects, NEW k \in Keys
             PROVE  LET t == Properties(o)
                    IN  IF Has(t, k) THEN storage[o][Find(t, k).offset] = props[o][k]
                                     ELSE props[o][k] = None
  BY DEF LookupCorrect
<1>1. PICK A, T : Now(A, T)
  BY InvariantNow
<1>2. PICK s : s = structureOf[o]
  OBVIOUS
<1>3. Properties(o) = T[s] /\ Describes(T[s], storage[o], props[o])
  BY <1>1, <1>2, ObjectFacts
<1> QED
  BY <1>3 DEF Describes

\* So is what the caches and the compilers assume of a structure.
LEMMA InvariantIsTruthful == StructInv => CachesTruthful
<1> SUFFICES ASSUME StructInv PROVE CachesTruthful
  OBVIOUS
<1>1. PICK A, T : Now(A, T)
  BY InvariantNow
<1>2. ASSUME NEW c \in LiveCaches, NEW o \in Objects, structureOf[o] = c.structure
      PROVE  /\ c.kind \in {"get", "replace"} => /\ props[o][c.key] # None
                                                 /\ storage[o][c.offset] = props[o][c.key]
             /\ c.kind = "method" => props[o][c.key] = c.function
  <2>1. PICK s : s = c.structure
    OBVIOUS
  <2>2. Describes(T[s], storage[o], props[o]) /\ s \in InUse /\ s \in Live(structureOf, A)
    BY <1>1, <1>2, <2>1, ObjectFacts
  <2>3. c \in caches
    BY LiveCachesAre
  <2>4. Remembers(structures, A, T, c)
    BY <1>1, <2>1, <2>2, <2>3 DEF Now, Shape, Remembered
  <2>5. CASE c.kind \in {"get", "replace"}
    <3>1. c.key \in Keys /\ Has(T[s], c.key) /\ Find(T[s], c.key).offset = c.offset
      BY <2>1, <2>4, <2>5 DEF Remembers
    <3> QED
      BY <2>2, <2>5, <3>1 DEF Describes
  <2>6. CASE c.kind = "method"
    <3>1. /\ c.key \in Keys /\ Has(T[s], c.key) /\ Find(T[s], c.key).specific = c.function
          /\ c.function # None
      BY <2>1, <2>4, <2>6 DEF Remembers
    <3>2. Find(T[s], c.key).specific \in {None, props[o][c.key]}
      BY <2>2, <3>1 DEF Describes
    <3> QED
      BY <2>6, <3>1, <3>2
  <2> QED
    BY <2>5, <2>6
<1>3. ASSUME NEW o \in Objects, NEW k \in Keys, Has(Properties(o), k)
      PROVE  Find(Properties(o), k).specific \in {None, props[o][k]}
  <2>1. PICK s : s = structureOf[o]
    OBVIOUS
  <2>2. Properties(o) = T[s] /\ Describes(T[s], storage[o], props[o])
    BY <1>1, <2>1, ObjectFacts
  <2> QED
    BY <1>3, <2>2 DEF Describes
<1> QED
  BY <1>2, <1>3 DEF CachesTruthful

\* The tree of shared structures with tables that can be rebuilt, and the structures that
\* have one object and keep their table, through every sharing, stealing, rebuilding,
\* pinning, flattening and collection.
THEOREM StructuresInvariance == Spec => []StructInv
<1>1. Init => StructInv
  BY InitShape
<1>2. StructInv /\ [Next]_vars => StructInv'
  BY StructInvStep
<1> QED
  BY <1>1, <1>2, PTL DEF Spec

\* Whatever happened to its structure and to the structures it was shared with, and whether
\* putDirectInternal or cached code wrote it, a property that is looked up through the
\* object's structure has the value put last, and none is found that was not put.
THEOREM LookupsAreCorrect == Spec => []LookupCorrect
<1>1. StructInv => LookupCorrect
  BY InvariantLooksUp
<1> QED
  BY <1>1, StructuresInvariance, PTL

\* What code compiled for a structure assumes, a slot or a function, is true of every object
\* that has the structure when the code checks it.
THEOREM CachesAreTruthful == Spec => []CachesTruthful
<1>1. StructInv => CachesTruthful
  BY InvariantIsTruthful
<1> QED
  BY <1>1, StructuresInvariance, PTL
====
