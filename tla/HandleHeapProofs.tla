-------------------------- MODULE HandleHeapProofs --------------------------
(***************************************************************************)
(* The safety properties of HandleHeap for every number of handles and      *)
(* cells.                                                                   *)
(*                                                                          *)
(* The lists are linked nodes, so what the walk visits is a matter of        *)
(* reachability.  The proof orders the nodes of a list by a rank that grows  *)
(* along the links without a gap: the nodes that the walk has passed are the *)
(* nodes of lower rank.  The rank is not part of the state; the inductive    *)
(* invariant says that one exists.  A node pushed on a list takes the rank   *)
(* of the list's head, and the head moves down by one.                       *)
(***************************************************************************)
EXTENDS HandleHeap, FiniteSetTheorems, WellFoundedInduction, TLAPS

Points == Nodes \cup Sentinels

\* The points of a list whose nodes are on.
Before(list, on) == on \cup {HeadOf(list)}
After(list, on) == on \cup {TailOf(list)}

\* The links k keep a list of exactly the nodes on, and rank grows along it.
ListLinked(k, list, on, rank) ==
    /\ \A p \in Before(list, on) : k.next[p] \in After(list, on) /\ k.prev[k.next[p]] = p
    /\ \A p \in After(list, on) : k.prev[p] \in Before(list, on) /\ k.next[k.prev[p]] = p
    /\ \A n \in on : rank[HeadOf(list)] < rank[n] /\ rank[n] < rank[TailOf(list)]
    /\ rank[HeadOf(list)] < rank[TailOf(list)]
    /\ \A m, n \in on : m # n => rank[m] # rank[n]
    /\ \A p \in Before(list, on) : \A q \in After(list, on) :
          rank[p] < rank[q] => rank[k.next[p]] <= rank[q]
    /\ \A p \in Before(list, on) : rank[p] < rank[k.next[p]]

IsLinks(k) ==
    /\ k = [next |-> k.next, prev |-> k.prev]
    /\ k.next \in [Points -> Points \cup {Null}]
    /\ k.prev \in [Points -> Points \cup {Null}]

\* All three lists, which share no node.
Linked(k, on, rank) ==
    /\ IsLinks(k)
    /\ rank \in [Points -> Int]
    /\ on \in [Lists -> SUBSET Nodes]
    /\ \A i, j \in Lists : i # j => on[i] \cap on[j] = {}
    /\ \A list \in Lists : ListLinked(k, list, on[list], rank)

-----------------------------------------------------------------------------
(***************************************************************************)
(* What SentinelLinkedList does to the lists.                              *)
(***************************************************************************)
\* The points are distinct.
LEMMA DistinctPoints ==
    /\ \A list \in Lists : HeadOf(list) \in Sentinels /\ TailOf(list) \in Sentinels
    /\ \A list \in Lists : HeadOf(list) \in Points \ Nodes /\ TailOf(list) \in Points \ Nodes
    /\ \A i, j \in Lists : HeadOf(i) # TailOf(j)
    /\ \A i, j \in Lists : i # j => HeadOf(i) # HeadOf(j) /\ TailOf(i) # TailOf(j)
    /\ Null \notin Points
    /\ Nodes \subseteq Points
BY HandleAssumption, NodeAssumption DEF Points, Sentinels, HeadOf, TailOf

\* remove takes a node out of its list and leaves the others as they are.
LEMMA RemoveLinked ==
    ASSUME NEW k, NEW on, NEW rank, Linked(k, on, rank), NEW list \in Lists, NEW n \in on[list]
    PROVE  /\ Linked(Removed(k, n), [on EXCEPT ![list] = @ \ {n}], rank)
           /\ k.prev[n] \in Before(list, on[list]) /\ k.next[n] \in After(list, on[list])
           /\ k.prev[n] # n /\ k.next[n] # n
           /\ Removed(k, n).next[k.prev[n]] = k.next[n]
           /\ \A x \in Points \ {k.prev[n], n} : Removed(k, n).next[x] = k.next[x]
<1> DEFINE r == Removed(k, n)
           after == [on EXCEPT ![list] = @ \ {n}]
           p == k.prev[n]
           q == k.next[n]
<1>0. /\ n \in Nodes /\ n \in Before(list, on[list]) /\ n \in After(list, on[list])
      /\ on[list] \subseteq Nodes /\ \A l \in Lists : rank[HeadOf(l)] \in Int /\ rank[TailOf(l)] \in Int
      /\ \A m \in Nodes : rank[m] \in Int
  BY DistinctPoints DEF Linked, Before, After
<1>1. /\ p \in Before(list, on[list]) /\ q \in After(list, on[list])
      /\ k.next[p] = n /\ k.prev[q] = n
      /\ rank[n] < rank[q] /\ rank[p] < rank[n]
  BY <1>0 DEF Linked, ListLinked
<1>2. p # n /\ q # n /\ p \in Points /\ q \in Points /\ n \in Points
  BY <1>0, <1>1, DistinctPoints DEF Before, After
<1>3. IsLinks(k)
  BY DEF Linked
<1>4. /\ r.next = [k.next EXCEPT ![p] = q, ![n] = Null]
      /\ r.prev = [k.prev EXCEPT ![q] = p, ![n] = Null]
      /\ r = [next |-> r.next, prev |-> r.prev]
  BY DEF Removed
<1>5. IsLinks(r)
  BY <1>2, <1>3, <1>4 DEF IsLinks
<1>6. /\ r.next[p] = q /\ r.prev[q] = p
      /\ \A x \in Points \ {p, n} : r.next[x] = k.next[x]
      /\ \A x \in Points \ {q, n} : r.prev[x] = k.prev[x]
  BY <1>2, <1>3, <1>4 DEF IsLinks
<1> HIDE DEF r, p, q
<1>7. ListLinked(r, list, on[list] \ {n}, rank)
  <2> DEFINE now == on[list] \ {n}
  <2>1. /\ p \in Before(list, now) /\ q \in After(list, now)
        /\ Before(list, now) = Before(list, on[list]) \ {n} /\ After(list, now) = After(list, on[list]) \ {n}
        /\ Before(list, on[list]) \subseteq Points /\ After(list, on[list]) \subseteq Points
    BY <1>0, <1>1, <1>2, DistinctPoints DEF Before, After
  <2>2. ListLinked(k, list, on[list], rank)
    BY DEF Linked
  <2>3. \A x \in Before(list, now) : r.next[x] \in After(list, now) /\ r.prev[r.next[x]] = x
    <3> TAKE x \in Before(list, now)
    <3>1. CASE x = p
      BY <3>1, <1>6, <2>1
    <3>2. CASE x # p
      <4>1. r.next[x] = k.next[x] /\ k.next[x] \in After(list, on[list]) /\ k.prev[k.next[x]] = x
        BY <3>2, <1>6, <2>1, <2>2 DEF ListLinked
      <4>2. k.next[x] # n /\ k.next[x] # q
        BY <4>1, <1>1, <3>2, <2>1 DEF p
      <4> QED
        BY <4>1, <4>2, <1>6, <2>1
    <3> QED
      BY <3>1, <3>2
  <2>4. \A x \in After(list, now) : r.prev[x] \in Before(list, now) /\ r.next[r.prev[x]] = x
    <3> TAKE x \in After(list, now)
    <3>1. CASE x = q
      BY <3>1, <1>6, <2>1
    <3>2. CASE x # q
      <4>1. r.prev[x] = k.prev[x] /\ k.prev[x] \in Before(list, on[list]) /\ k.next[k.prev[x]] = x
        BY <3>2, <1>6, <2>1, <2>2 DEF ListLinked
      <4>2. k.prev[x] # n /\ k.prev[x] # p
        BY <4>1, <1>1, <3>2, <2>1 DEF q
      <4> QED
        BY <4>1, <4>2, <1>6, <2>1
    <3> QED
      BY <3>1, <3>2
  <2>5. \A x \in Before(list, now) : rank[x] < rank[r.next[x]]
    <3> TAKE x \in Before(list, now)
    <3>1. CASE x = p
      <4>1. rank[p] \in Int /\ rank[q] \in Int
        BY <1>2 DEF Linked
      <4> QED
        BY <3>1, <4>1, <1>0, <1>1, <1>6
    <3>2. CASE x # p
      BY <3>2, <1>6, <2>1, <2>2 DEF ListLinked
    <3> QED
      BY <3>1, <3>2
  <2>6. \A x \in Before(list, now) : \A y \in After(list, now) :
           rank[x] < rank[y] => rank[r.next[x]] <= rank[y]
    <3> TAKE x \in Before(list, now)
    <3> TAKE y \in After(list, now)
    <3> HAVE rank[x] < rank[y]
    <3>1. CASE x = p
      <4>1. rank[n] <= rank[y]
        BY <3>1, <1>1, <2>1, <2>2 DEF ListLinked
      <4>2. rank[n] # rank[y]
        BY <1>0, <2>1, <2>2 DEF ListLinked, After
      <4>3. rank[n] < rank[y]
        <5>1. rank[y] \in Int /\ rank[n] \in Int
          BY <1>0, <2>1 DEF Linked
        <5> QED
          BY <4>1, <4>2, <5>1
      <4> QED
        BY <3>1, <4>3, <1>0, <1>6, <2>1, <2>2 DEF ListLinked, q
    <3>2. CASE x # p
      BY <3>2, <1>6, <2>1, <2>2 DEF ListLinked
    <3> QED
      BY <3>1, <3>2
  <2> QED
    BY <2>2, <2>3, <2>4, <2>5, <2>6 DEF ListLinked
<1>8. ASSUME NEW l \in Lists, l # list PROVE ListLinked(r, l, on[l], rank)
  <2>1. ListLinked(k, l, on[l], rank)
    BY DEF Linked
  <2>2. /\ Before(l, on[l]) \subseteq Points \ {p, n} /\ After(l, on[l]) \subseteq Points \ {q, n}
    BY <1>0, <1>1, <1>8, DistinctPoints DEF Linked, Before, After
  <2> QED
    BY <2>1, <2>2, <1>6 DEF ListLinked
<1>9. after \in [Lists -> SUBSET Nodes] /\ after[list] = on[list] \ {n}
      /\ \A l \in Lists : l # list => after[l] = on[l]
  BY DEF Linked
<1>10. \A i, j \in Lists : i # j => after[i] \cap after[j] = {}
  BY <1>9 DEF Linked
<1> HIDE DEF after
<1>11. Linked(r, after, rank)
  BY <1>5, <1>7, <1>8, <1>9, <1>10 DEF Linked
<1> QED
  BY <1>1, <1>2, <1>6, <1>11 DEF r, p, q, after

\* push puts a node that is on no list before the first node of one.  The ranks of
\* all other nodes and of the tails stay.
LEMMA PushLinked ==
    ASSUME NEW k, NEW on, NEW rank, Linked(k, on, rank), NEW list \in Lists,
           NEW n \in Nodes, \A l \in Lists : n \notin on[l]
    PROVE  \E r2 \in [Points -> Int] :
              /\ Linked(Pushed(k, list, n), [on EXCEPT ![list] = @ \cup {n}], r2)
              /\ \A l \in Lists : \A x \in After(l, on[l]) : r2[x] = rank[x]
              /\ \A x \in Nodes \ {n} : Pushed(k, list, n).next[x] = k.next[x]
<1> DEFINE h == HeadOf(list)
           first == k.next[h]
           r == Pushed(k, list, n)
           after == [on EXCEPT ![list] = @ \cup {n}]
           r2 == [rank EXCEPT ![n] = rank[h], ![h] = rank[h] - 1]
<1>0. /\ n \in Points /\ h \in Points /\ n # h /\ h \notin Nodes
      /\ on[list] \subseteq Nodes /\ on[list] \subseteq Points
      /\ \A x \in Points : rank[x] \in Int
      /\ IsLinks(k) /\ ListLinked(k, list, on[list], rank)
  BY DistinctPoints DEF Linked
<1>1. /\ first \in After(list, on[list]) /\ k.prev[first] = h
      /\ first # n /\ first # h /\ first \in Points
  <2>1. first \in After(list, on[list]) /\ k.prev[first] = h
    BY <1>0 DEF ListLinked, Before
  <2> QED
    BY <2>1, <1>0, DistinctPoints DEF After
<1>2. /\ r.next = [k.next EXCEPT ![n] = first, ![h] = n]
      /\ r.prev = [k.prev EXCEPT ![first] = n, ![n] = h]
      /\ r = [next |-> r.next, prev |-> r.prev]
  BY DEF Pushed
<1>3. IsLinks(r)
  BY <1>0, <1>1, <1>2 DEF IsLinks
<1>4. /\ r.next[n] = first /\ r.next[h] = n /\ r.prev[first] = n /\ r.prev[n] = h
      /\ \A x \in Points \ {n, h} : r.next[x] = k.next[x]
      /\ \A x \in Points \ {first, n} : r.prev[x] = k.prev[x]
  BY <1>0, <1>1, <1>2 DEF IsLinks
<1>5. /\ r2 \in [Points -> Int] /\ r2[n] = rank[h] /\ r2[h] = rank[h] - 1
      /\ \A x \in Points \ {n, h} : r2[x] = rank[x]
  BY <1>0 DEF Linked
<1> HIDE DEF r, r2
<1>6. ListLinked(r, list, on[list] \cup {n}, r2)
  <2> DEFINE now == on[list] \cup {n}
  <2>1. /\ Before(list, now) = Before(list, on[list]) \cup {n}
        /\ After(list, now) = After(list, on[list]) \cup {n}
        /\ Before(list, on[list]) \subseteq Points \ {n}
        /\ After(list, on[list]) \subseteq Points \ {n, h}
        /\ h \in Before(list, on[list])
    BY <1>0, DistinctPoints DEF Before, After
  <2>2. /\ \A x \in After(list, on[list]) : r2[x] = rank[x] /\ rank[h] < rank[x]
        /\ \A x \in on[list] : x # n /\ x # h /\ r2[x] = rank[x] /\ rank[x] \in Int
    BY <1>0, <1>5, <2>1 DEF ListLinked, After
  <2>3. \A x \in Before(list, now) : r.next[x] \in After(list, now) /\ r.prev[r.next[x]] = x
    <3> TAKE x \in Before(list, now)
    <3>1. CASE x = n
      BY <3>1, <1>1, <1>4, <2>1
    <3>2. CASE x = h
      BY <3>2, <1>4, <2>1
    <3>3. CASE x # n /\ x # h
      <4>1. r.next[x] = k.next[x] /\ k.next[x] \in After(list, on[list]) /\ k.prev[k.next[x]] = x
        BY <3>3, <1>0, <1>4, <2>1 DEF ListLinked
      <4>2. k.next[x] # n /\ k.next[x] # first
        BY <4>1, <3>3, <1>1, <2>1
      <4> QED
        BY <4>1, <4>2, <1>4, <2>1
    <3> QED
      BY <3>1, <3>2, <3>3
  <2>4. \A x \in After(list, now) : r.prev[x] \in Before(list, now) /\ r.next[r.prev[x]] = x
    <3> TAKE x \in After(list, now)
    <3>1. CASE x = n
      BY <3>1, <1>4, <2>1
    <3>2. CASE x = first
      BY <3>2, <1>4, <2>1
    <3>3. CASE x # n /\ x # first
      <4>1. r.prev[x] = k.prev[x] /\ k.prev[x] \in Before(list, on[list]) /\ k.next[k.prev[x]] = x
        BY <3>3, <1>0, <1>4, <2>1 DEF ListLinked
      <4>2. k.prev[x] # n /\ k.prev[x] # h
        BY <4>1, <3>3, <2>1
      <4> QED
        BY <4>1, <4>2, <1>4, <2>1
    <3> QED
      BY <3>1, <3>2, <3>3
  <2>5. /\ \A x \in now : r2[h] < r2[x] /\ r2[x] < r2[TailOf(list)]
        /\ r2[h] < r2[TailOf(list)]
        /\ \A x, y \in now : x # y => r2[x] # r2[y]
    <3>1. TailOf(list) \in After(list, on[list]) /\ rank[TailOf(list)] \in Int /\ rank[h] \in Int
      BY <1>0, <2>1 DEF After
    <3>2. r2[n] = rank[h] /\ r2[h] = rank[h] - 1 /\ r2[TailOf(list)] = rank[TailOf(list)]
          /\ rank[h] < rank[TailOf(list)]
      BY <1>5, <2>2, <3>1
    <3>3. \A x \in on[list] : rank[h] < rank[x] /\ rank[x] < rank[TailOf(list)]
      BY <1>0 DEF ListLinked
    <3>4. \A x, y \in on[list] : x # y => rank[x] # rank[y]
      BY <1>0 DEF ListLinked
    <3>5. \A x \in now : r2[h] < r2[x] /\ r2[x] < r2[TailOf(list)]
      <4> TAKE x \in now
      <4>1. CASE x = n
        BY <4>1, <3>1, <3>2
      <4>2. CASE x \in on[list]
        BY <4>2, <2>2, <3>1, <3>2, <3>3
      <4> QED
        BY <4>1, <4>2
    <3>6. \A x, y \in now : x # y => r2[x] # r2[y]
      <4> TAKE x, y \in now
      <4> HAVE x # y
      <4>1. CASE x = n
        BY <4>1, <2>2, <3>1, <3>2, <3>3
      <4>2. CASE y = n
        BY <4>2, <2>2, <3>1, <3>2, <3>3
      <4>3. CASE x # n /\ y # n
        BY <4>3, <2>2, <3>4
      <4> QED
        BY <4>1, <4>2, <4>3
    <3> QED
      BY <3>1, <3>2, <3>5, <3>6
  <2>6. \A x \in Before(list, now) : r2[x] < r2[r.next[x]]
    <3> TAKE x \in Before(list, now)
    <3>1. CASE x = n
      BY <3>1, <1>1, <1>4, <1>5, <2>2
    <3>2. CASE x = h
      BY <3>2, <1>0, <1>4, <1>5
    <3>3. CASE x # n /\ x # h
      <4>1. x \in on[list] /\ r.next[x] = k.next[x] /\ k.next[x] \in After(list, on[list])
            /\ rank[x] < rank[k.next[x]]
        BY <3>3, <1>0, <1>4, <2>1 DEF ListLinked, Before
      <4> QED
        BY <4>1, <2>2
    <3> QED
      BY <3>1, <3>2, <3>3
  <2>7. \A x \in Before(list, now) : \A y \in After(list, now) :
           r2[x] < r2[y] => r2[r.next[x]] <= r2[y]
    <3> TAKE x \in Before(list, now)
    <3> TAKE y \in After(list, now)
    <3> HAVE r2[x] < r2[y]
    <3>0. rank[h] \in Int /\ r2[y] \in Int
      BY <1>0, <1>5, <2>1
    <3>1. CASE x = h
      <4>1. r2[r.next[x]] = rank[h]
        BY <3>1, <1>4, <1>5
      <4>2. CASE y = n
        BY <4>1, <4>2, <1>5, <3>0
      <4>3. CASE y # n
        <5>1. rank[h] < rank[y] /\ r2[y] = rank[y]
          BY <4>3, <2>1, <2>2
        <5> QED
          BY <4>1, <5>1, <3>0
      <4> QED
        BY <4>2, <4>3
    <3>2. CASE x = n
      <4>0. y # n
        BY <3>2, <3>0
      <4>1. y # n /\ y \in After(list, on[list])
        BY <4>0, <2>1
      <4>2. rank[h] < rank[y] => rank[first] <= rank[y]
        BY <4>1, <1>0, <2>1 DEF ListLinked
      <4>3. r2[first] = rank[first] /\ r2[y] = rank[y] /\ r2[r.next[x]] = r2[first] /\ r2[x] = rank[h]
        BY <3>2, <4>1, <1>1, <1>4, <1>5, <2>2
      <4> QED
        BY <4>2, <4>3
    <3>3. CASE x # n /\ x # h
      <4>1. x \in on[list] /\ r.next[x] = k.next[x] /\ k.next[x] \in After(list, on[list])
            /\ x \in Before(list, on[list]) /\ rank[h] < rank[x] /\ rank[x] \in Int
        BY <3>3, <1>0, <1>4, <2>1 DEF ListLinked, Before
      <4>2. r2[x] = rank[x] /\ r2[k.next[x]] = rank[k.next[x]]
        BY <4>1, <2>2
      <4>3. y # n
        BY <4>1, <4>2, <1>5, <3>0
      <4>4. y \in After(list, on[list]) /\ r2[y] = rank[y]
        BY <4>3, <2>1, <2>2
      <4> QED
        BY <4>1, <4>2, <4>4, <1>0 DEF ListLinked
    <3> QED
      BY <3>1, <3>2, <3>3
  <2> QED
    BY <2>3, <2>4, <2>5, <2>6, <2>7 DEF ListLinked
<1>7. ASSUME NEW l \in Lists, l # list PROVE ListLinked(r, l, on[l], r2)
  <2>1. ListLinked(k, l, on[l], rank)
    BY DEF Linked
  <2>2. /\ Before(l, on[l]) \subseteq Points \ {n, h}
        /\ After(l, on[l]) \subseteq Points \ {first, n, h}
    BY <1>0, <1>1, <1>7, DistinctPoints DEF Linked, Before, After
  <2>3. on[l] \subseteq Points \ {n, h} /\ HeadOf(l) \in Points \ {n, h} /\ TailOf(l) \in Points \ {n, h}
    BY <2>2 DEF Before, After
  <2>4. /\ \A x \in Before(l, on[l]) : r.next[x] = k.next[x] /\ r2[x] = rank[x]
        /\ \A x \in After(l, on[l]) : r.prev[x] = k.prev[x] /\ r2[x] = rank[x]
    BY <2>2, <1>4, <1>5
  <2>5. /\ \A x \in on[l] : r2[x] = rank[x]
        /\ r2[HeadOf(l)] = rank[HeadOf(l)] /\ r2[TailOf(l)] = rank[TailOf(l)]
    BY <2>3, <1>5
  <2> QED
    BY <2>1, <2>4, <2>5 DEF ListLinked
<1>8. after \in [Lists -> SUBSET Nodes] /\ after[list] = on[list] \cup {n}
      /\ \A l \in Lists : l # list => after[l] = on[l]
  BY DEF Linked
<1>9. \A i, j \in Lists : i # j => after[i] \cap after[j] = {}
  BY <1>8 DEF Linked
<1> HIDE DEF after
<1>10. Linked(r, after, r2)
  BY <1>3, <1>5, <1>6, <1>7, <1>8, <1>9 DEF Linked
<1>11. \A l \in Lists : \A x \in After(l, on[l]) : r2[x] = rank[x]
  <2> TAKE l \in Lists
  <2>1. After(l, on[l]) \subseteq Points \ {n, h}
    BY <1>0, DistinctPoints DEF Linked, After
  <2> QED
    BY <2>1, <1>5
<1>12. \A x \in Nodes \ {n} : r.next[x] = k.next[x]
  BY <1>0, <1>4, DistinctPoints
<1> QED
  BY <1>5, <1>10, <1>11, <1>12 DEF r, after

\* A node that is on no list can be linked anywhere.
LEMMA FreeLinksDoNotMatter ==
    ASSUME NEW k, NEW on, NEW rank, Linked(k, on, rank), NEW n \in Nodes,
           \A l \in Lists : n \notin on[l], NEW k2, IsLinks(k2),
           \A x \in Points \ {n} : k2.next[x] = k.next[x] /\ k2.prev[x] = k.prev[x]
    PROVE  Linked(k2, on, rank)
<1>1. ASSUME NEW l \in Lists PROVE ListLinked(k2, l, on[l], rank)
  <2>1. ListLinked(k, l, on[l], rank)
    BY DEF Linked
  <2>2. Before(l, on[l]) \subseteq Points \ {n} /\ After(l, on[l]) \subseteq Points \ {n}
    BY DistinctPoints DEF Linked, Before, After
  <2> QED
    BY <2>1, <2>2 DEF ListLinked
<1> QED
  BY <1>1 DEF Linked

\* What moving a node from one list to another does to the nodes on them.
Shift(on, from, to, n) == [[on EXCEPT ![from] = @ \ {n}] EXCEPT ![to] = @ \cup {n}]

\* A node that is moved goes to the head of its list.
LEMMA MoveLinked ==
    ASSUME NEW k, NEW on, NEW rank, Linked(k, on, rank), NEW from \in Lists, NEW to \in Lists,
           NEW n \in on[from]
    PROVE  \E r2 \in [Points -> Int] :
              /\ Linked(Moved(k, to, n), Shift(on, from, to, n), r2)
              /\ \A l \in Lists : \A x \in After(l, on[l]) \ {n} : r2[x] = rank[x]
              /\ \A x \in Nodes : (\A l \in Lists : x \notin on[l]) => Moved(k, to, n).next[x] = k.next[x]
<1> DEFINE k1 == Removed(k, n)
           on1 == [on EXCEPT ![from] = @ \ {n}]
<1>0. n \in Nodes /\ on \in [Lists -> SUBSET Nodes] /\ \A i, j \in Lists : i # j => on[i] \cap on[j] = {}
  BY DEF Linked
<1>1. /\ Linked(k1, on1, rank)
      /\ k.prev[n] \in Before(from, on[from])
      /\ \A x \in Points \ {k.prev[n], n} : k1.next[x] = k.next[x]
  BY RemoveLinked
<1>2. /\ on1[from] = on[from] \ {n} /\ \A l \in Lists : l # from => on1[l] = on[l]
      /\ \A l \in Lists : n \notin on1[l]
      /\ \A l \in Lists : After(l, on1[l]) = After(l, on[l]) \ {n}
  <2>1. on1[from] = on[from] \ {n} /\ \A l \in Lists : l # from => on1[l] = on[l]
    BY <1>0
  <2>2. \A l \in Lists : n \notin on1[l]
    BY <2>1, <1>0
  <2> HIDE DEF on1
  <2>3. \A l \in Lists : After(l, on1[l]) = After(l, on[l]) \ {n}
    BY <2>1, <2>2, <1>0, DistinctPoints DEF After
  <2> QED
    BY <2>1, <2>2, <2>3
<1> HIDE DEF k1, on1
<1>3. PICK r2 \in [Points -> Int] :
         /\ Linked(Pushed(k1, to, n), [on1 EXCEPT ![to] = @ \cup {n}], r2)
         /\ \A l \in Lists : \A x \in After(l, on1[l]) : r2[x] = rank[x]
         /\ \A x \in Nodes \ {n} : Pushed(k1, to, n).next[x] = k1.next[x]
  BY <1>0, <1>1, <1>2, PushLinked
<1>4. \A l \in Lists : \A x \in After(l, on[l]) \ {n} : r2[x] = rank[x]
  BY <1>2, <1>3
<1>5. \A x \in Nodes : (\A l \in Lists : x \notin on[l]) => Pushed(k1, to, n).next[x] = k.next[x]
  <2> TAKE x \in Nodes
  <2> HAVE \A l \in Lists : x \notin on[l]
  <2>1. x # n /\ x # k.prev[n] /\ x \in Points
    BY <1>1, DistinctPoints DEF Before
  <2> QED
    BY <2>1, <1>1, <1>3
<1> QED
  BY <1>3, <1>4, <1>5 DEF Moved, Shift, k1, on1

\* What the walk has passed grows by the node that it leaves.
LEMMA WalkAdvance ==
    ASSUME NEW k, NEW on, NEW rank, Linked(k, on, rank), NEW list \in Lists,
           NEW c \in on[list], NEW n \in on[list], rank[n] < rank[k.next[c]]
    PROVE  n = c \/ rank[n] < rank[c]
<1>1. rank[n] \in Int /\ rank[c] \in Int /\ k.next[c] \in Points /\ rank[k.next[c]] \in Int
  <2>1. on[list] \subseteq Points /\ k.next[c] \in After(list, on[list]) /\ rank \in [Points -> Int]
    BY DistinctPoints DEF Linked, ListLinked, Before
  <2> QED
    BY <2>1, DistinctPoints DEF After
<1>2. rank[c] < rank[n] => rank[k.next[c]] <= rank[n]
  BY DEF Linked, ListLinked, Before, After
<1>3. n # c => rank[n] # rank[c]
  BY DEF Linked, ListLinked
<1> QED
  BY <1>1, <1>2, <1>3

\* writeBarrier leaves the node on the list that its new value calls for.
LEMMA BarrierLinked ==
    ASSUME NEW k, NEW on, NEW rank, Linked(k, on, rank), NEW n, NEW w, NEW old \in Values, NEW new \in Values,
           n \in on[ListFor(old, w)]
    PROVE  \E r2 \in [Points -> Int] :
              /\ Linked(Barrier(k, n, w, old, new), Shift(on, ListFor(old, w), ListFor(new, w), n), r2)
              /\ \A x \in Nodes : (\A l \in Lists : x \notin on[l]) =>
                                     Barrier(k, n, w, old, new).next[x] = k.next[x]
<1>1. ListFor(old, w) \in Lists /\ ListFor(new, w) \in Lists
  BY DEF ListFor, Lists
<1>2. CASE (old = "empty") = (new = "empty") /\ (old \in Cells) = (new \in Cells)
  <2>1. ListFor(old, w) = ListFor(new, w)
    BY <1>2 DEF ListFor
  <2>2. Shift(on, ListFor(old, w), ListFor(new, w), n) = on
    BY <1>1, <2>1 DEF Shift, Linked
  <2>3. Barrier(k, n, w, old, new) = k
    BY <1>2 DEF Barrier
  <2>4. rank \in [Points -> Int]
    BY DEF Linked
  <2> QED
    BY <2>2, <2>3, <2>4
<1>3. CASE ~((old = "empty") = (new = "empty") /\ (old \in Cells) = (new \in Cells))
  <2>1. Barrier(k, n, w, old, new) = Moved(k, ListFor(new, w), n)
    BY <1>3 DEF Barrier
  <2> QED
    BY <2>1, <1>1, MoveLinked
<1> QED
  BY <1>2, <1>3

-----------------------------------------------------------------------------
(***************************************************************************)
(* The inductive invariant.                                                *)
(***************************************************************************)
\* The nodes that belong on each list.
OnLists == [l \in Lists |-> {n \in held : ListFor(value[n], weakness[n]) = l}]

WeakOnes == OnLists["weak"]

HandleTypes ==
    /\ value \in [Nodes -> Values]
    /\ weakness \in [Nodes -> {"strong", "ownerless", "owned"}]
    /\ held \subseteq Nodes
    /\ alive \subseteq Cells
    /\ stage \in {"idle", "walk", "owner"}

\* The free list holds the nodes that are not held, and its links rise in rank
\* without a gap.
FreeLinked(rank) ==
    LET free == Nodes \ held
    IN  /\ rank \in [Nodes -> Int]
        /\ freeHead \in free \cup {Null}
        /\ free # {} => freeHead # Null
        /\ \A n \in free : links.next[n] \in free \cup {Null}
        /\ \A n \in free \ {freeHead} : rank[freeHead] < rank[n]
        /\ \A m, n \in free : m # n => rank[m] # rank[n]
        /\ \A m \in free : links.next[m] # Null => rank[m] < rank[links.next[m]]
        /\ \A m, n \in free : rank[m] < rank[n] => links.next[m] # Null /\ rank[links.next[m]] <= rank[n]

\* What the walk has passed is alive; the node that an owner is told of still leads
\* to where the walk goes on, unless the owner has freed it.
WalkControl(rank) ==
    /\ stage = "walk" =>
          /\ cursor \in After("weak", WeakOnes)
          /\ \A n \in WeakOnes : rank[n] < rank[cursor] => value[n] \in alive
    /\ stage = "owner" =>
          /\ cursor \in Nodes
          /\ value[cursor] \in Cells \ alive
          /\ weakness[cursor] = "owned"
          /\ nextToFinalize \in After("weak", WeakOnes) \ {cursor}
          /\ cursor \in held => links.next[cursor] = nextToFinalize
          /\ \A n \in WeakOnes \ {cursor} : rank[n] < rank[nextToFinalize] => value[n] \in alive

Ranked ==
    \E rank \in [Points -> Int] : Linked(links, OnLists, rank) /\ WalkControl(rank)

FreeRanked == \E rank \in [Nodes -> Int] : FreeLinked(rank)

\* The owners that were not told yet are those of the dead cells.
DoomControl ==
    LET dead == {n \in held : weakness[n] = "owned" /\ value[n] \in Cells \ alive}
    IN  /\ stage = "idle" => doomed = {}
        /\ stage = "walk" => doomed = dead
        /\ stage = "owner" => doomed = dead \ {cursor}

\* A strong handle, and between finalizations any handle, refers to a live cell.
AliveControl ==
    \A n \in held : value[n] \in Cells /\ (stage = "idle" \/ weakness[n] = "strong") => value[n] \in alive

HandleInv ==
    /\ HandleTypes
    /\ DoomControl
    /\ AliveControl
    /\ FreeRanked
    /\ Ranked

-----------------------------------------------------------------------------
\* A linked set of nodes has distinct lists.
LEMMA OnListsType ==
    ASSUME held \subseteq Nodes
    PROVE  /\ OnLists \in [Lists -> SUBSET Nodes]
           /\ \A l \in Lists : OnLists[l] = {n \in held : ListFor(value[n], weakness[n]) = l}
           /\ \A n \in held : n \in OnLists[ListFor(value[n], weakness[n])]
           /\ \A n \in held : ListFor(value[n], weakness[n]) \in Lists
           /\ WeakOnes = {n \in held : ListFor(value[n], weakness[n]) = "weak"}
           /\ \A n \in held : n \in WeakOnes <=> value[n] \in Cells /\ weakness[n] # "strong"
           /\ WeakOnes \subseteq held
BY DEF OnLists, Lists, ListFor, WeakOnes

\* Between two actions the whole state is typed.
LEMMA HandleInvTypes == HandleInv => TypeOK
<1> SUFFICES ASSUME HandleInv PROVE TypeOK
  OBVIOUS
<1>1. HandleTypes /\ DoomControl
  BY DEF HandleInv
<1>2. PICK rank \in [Points -> Int] : Linked(links, OnLists, rank) /\ WalkControl(rank)
  BY DEF HandleInv, Ranked
<1>3. freeHead \in Nodes \cup {Null}
  BY DEF HandleInv, FreeRanked, FreeLinked
<1>4. After("weak", WeakOnes) \subseteq Nodes \cup {TailOf("weak")}
  BY <1>1, OnListsType DEF After, HandleTypes
<1>5. /\ links.next \in [Nodes \cup Sentinels -> Nodes \cup Sentinels \cup {Null}]
      /\ links.prev \in [Nodes \cup Sentinels -> Nodes \cup Sentinels \cup {Null}]
  BY <1>2 DEF Linked, IsLinks, Points
<1>6. /\ stage # "idle" => cursor \in Nodes \cup {TailOf("weak")}
      /\ stage = "owner" => nextToFinalize \in Nodes \cup {TailOf("weak")}
  BY <1>1, <1>2, <1>4 DEF WalkControl, HandleTypes
<1>7. doomed \subseteq held
  BY <1>1 DEF DoomControl, HandleTypes
<1> QED
  BY <1>1, <1>3, <1>5, <1>6, <1>7 DEF TypeOK, HandleTypes

-----------------------------------------------------------------------------
(***************************************************************************)
(* What the actions have in common.                                        *)
(***************************************************************************)
\* The lists after a move, one by one.
LEMMA ShiftLists ==
    ASSUME NEW on \in [Lists -> SUBSET Nodes], NEW from \in Lists, NEW to \in Lists, NEW n \in Nodes
    PROVE  /\ Shift(on, from, to, n) \in [Lists -> SUBSET Nodes]
           /\ \A l \in Lists : \A x : x \in Shift(on, from, to, n)[l] <=>
                 \/ x = n /\ l = to
                 \/ x # n /\ x \in on[l]
                 \/ x = n /\ x \in on[l] /\ l # from
BY DEF Shift

\* A node whose value changes moves to the list for its new value.
LEMMA OnListsMove ==
    ASSUME held \subseteq Nodes, NEW n \in held, held' = held, NEW v, value' = [value EXCEPT ![n] = v],
           value \in [Nodes -> Values], weakness' = weakness
    PROVE  OnLists' = Shift(OnLists, ListFor(value[n], weakness[n]), ListFor(v, weakness[n]), n)
<1> DEFINE from == ListFor(value[n], weakness[n])
           to == ListFor(v, weakness[n])
<1>1. from \in Lists /\ to \in Lists
  BY DEF ListFor, Lists
<1>2. /\ OnLists \in [Lists -> SUBSET Nodes]
      /\ \A l \in Lists : OnLists[l] = {m \in held : ListFor(value[m], weakness[m]) = l}
  BY OnListsType
<1>3. value'[n] = v /\ \A m \in held : m # n => value'[m] = value[m]
  OBVIOUS
<1>4. /\ OnLists' \in [Lists -> SUBSET Nodes]
      /\ \A l \in Lists : OnLists'[l] = {m \in held : ListFor(value'[m], weakness[m]) = l}
  BY DEF OnLists, ListFor, Lists
<1> HIDE DEF from, to
<1>5. ASSUME NEW l \in Lists PROVE OnLists'[l] = Shift(OnLists, from, to, n)[l]
  <2>1. \A x : x \in Shift(OnLists, from, to, n)[l] <=>
                 \/ x = n /\ l = to
                 \/ x # n /\ x \in OnLists[l]
                 \/ x = n /\ x \in OnLists[l] /\ l # from
    BY <1>1, <1>2, ShiftLists
  <2>2. n \in OnLists[l] <=> l = from
    BY <1>2 DEF from
  <2>3. n \in OnLists'[l] <=> l = to
    BY <1>3, <1>4 DEF to
  <2>4. \A x : x # n => (x \in OnLists'[l] <=> x \in OnLists[l])
    BY <1>2, <1>3, <1>4
  <2> QED
    BY SMTT(30), <2>1, <2>2, <2>3, <2>4
<1>6. Shift(OnLists, from, to, n) \in [Lists -> SUBSET Nodes]
  BY <1>1, <1>2, ShiftLists
<1> QED
  BY <1>4, <1>5, <1>6 DEF from, to

\* The free list stays when the links of its nodes do.
LEMMA FreeStays ==
    ASSUME FreeRanked, held' = held, freeHead' = freeHead,
           \A x \in Nodes \ held : links'.next[x] = links.next[x]
    PROVE  FreeRanked'
<1>1. PICK rank \in [Nodes -> Int] : FreeLinked(rank)
  BY DEF FreeRanked
<1>2. FreeLinked(rank)'
  BY <1>1 DEF FreeLinked
<1> QED
  BY <1>2 DEF FreeRanked

\* The walk empties a handle of the weak list: it leaves the list, and the others
\* keep their ranks.
LEMMA EmptyHandleLinked ==
    ASSUME HandleTypes, NEW rank, Linked(links, OnLists, rank), NEW n \in WeakOnes, EmptyHandle(n),
           held' = held, weakness' = weakness
    PROVE  /\ WeakOnes' = WeakOnes \ {n}
           /\ value' = [value EXCEPT ![n] = "empty"]
           /\ \A x \in Nodes \ held : links'.next[x] = links.next[x]
           /\ \E r2 \in [Points -> Int] :
                 /\ Linked(links', OnLists', r2)
                 /\ \A x \in After("weak", WeakOnes) \ {n} : r2[x] = rank[x]
<1>1. value' = [value EXCEPT ![n] = "empty"] /\ links' = Moved(links, "immediate", n)
  BY DEF EmptyHandle
<1>2. /\ n \in held /\ held \subseteq Nodes /\ ListFor(value[n], weakness[n]) = "weak"
      /\ ListFor("empty", weakness[n]) = "immediate" /\ "weak" \in Lists /\ "immediate" \in Lists
      /\ n \in OnLists["weak"]
  BY OnListsType, HandleAssumption DEF HandleTypes, ListFor, Lists, WeakOnes
<1>3. OnLists' = Shift(OnLists, "weak", "immediate", n)
  BY <1>1, <1>2, OnListsMove DEF HandleTypes
<1>4. PICK r2 \in [Points -> Int] :
         /\ Linked(Moved(links, "immediate", n), Shift(OnLists, "weak", "immediate", n), r2)
         /\ \A l \in Lists : \A x \in After(l, OnLists[l]) \ {n} : r2[x] = rank[x]
         /\ \A x \in Nodes : (\A l \in Lists : x \notin OnLists[l]) =>
                                Moved(links, "immediate", n).next[x] = links.next[x]
  BY <1>2, MoveLinked
<1>5. \A x \in Nodes \ held : \A l \in Lists : x \notin OnLists[l]
  BY <1>2, OnListsType
<1>6. \A x \in Nodes \ held : links'.next[x] = links.next[x]
  BY <1>1, <1>4, <1>5
<1>7. WeakOnes' = WeakOnes \ {n}
  <2>1. OnLists \in [Lists -> SUBSET Nodes] /\ n \in Nodes
    BY <1>2, OnListsType
  <2>2. \A x : x \in OnLists'["weak"] <=> x # n /\ x \in OnLists["weak"]
    BY <1>2, <1>3, <2>1, ShiftLists
  <2> QED
    BY <2>2 DEF WeakOnes
<1>8. \A x \in After("weak", WeakOnes) \ {n} : r2[x] = rank[x]
  BY <1>2, <1>4 DEF WeakOnes
<1> QED
  BY <1>1, <1>3, <1>4, <1>6, <1>7, <1>8

-----------------------------------------------------------------------------
(***************************************************************************)
(* Every action keeps the invariant.                                       *)
(***************************************************************************)
\* Actions of the client that change no link.
LEMMA NewCellKeeps ==
    ASSUME HandleInv, NEW c \in Cells, NewCell(c)
    PROVE  HandleInv'
<1> USE DEF NewCell, nodeVars, walkVars
<1>1. PICK rank \in [Points -> Int] : Linked(links, OnLists, rank) /\ WalkControl(rank)
  BY DEF HandleInv, Ranked
<1>2. OnLists' = OnLists /\ WeakOnes' = WeakOnes
  BY DEF OnLists, ListFor, WeakOnes
<1>3. Linked(links, OnLists, rank)' /\ WalkControl(rank)'
  BY <1>1, <1>2 DEF Linked, ListLinked, WalkControl
<1>4. HandleTypes'
  BY DEF HandleInv, HandleTypes
<1>5. DoomControl' /\ AliveControl'
  BY DEF HandleInv, DoomControl, AliveControl
<1>6. FreeRanked'
  BY FreeStays DEF HandleInv
<1> QED
  BY <1>3, <1>4, <1>5, <1>6 DEF HandleInv, Ranked

\* A collection starts the walk at the first weak handle, with nothing passed.
LEMMA BeginFinalizationKeeps ==
    ASSUME HandleInv, NEW marked \in SUBSET alive, BeginFinalization(marked)
    PROVE  HandleInv'
<1> USE DEF BeginFinalization, nodeVars, walkVars
<1>1. PICK rank \in [Points -> Int] : Linked(links, OnLists, rank) /\ WalkControl(rank)
  BY DEF HandleInv, Ranked
<1>2. OnLists' = OnLists /\ WeakOnes' = WeakOnes
  BY DEF OnLists, ListFor, WeakOnes
<1>3. Linked(links, OnLists, rank)'
  BY <1>1, <1>2 DEF Linked, ListLinked
<1>4. WalkControl(rank)'
  <2>1. "weak" \in Lists /\ ListLinked(links, "weak", WeakOnes, rank) /\ WeakOnes \subseteq Points
    BY <1>1, DistinctPoints DEF Linked, Lists, WeakOnes
  <2>2. cursor' \in After("weak", WeakOnes)
    BY <2>1 DEF ListLinked, Before
  <2>3. \A n \in WeakOnes : rank[cursor'] <= rank[n]
    BY <2>1 DEF ListLinked, Before, After
  <2>4. \A n \in WeakOnes : rank[n] \in Int
    BY <2>1
  <2>5. rank[cursor'] \in Int
    BY <2>1, <2>2, DistinctPoints DEF After
  <2>6. \A n \in WeakOnes : ~(rank[n] < rank[cursor'])
    BY <2>3, <2>4, <2>5
  <2> QED
    BY <2>2, <2>6, <1>2 DEF WalkControl
<1>5. HandleTypes'
  BY DEF HandleInv, HandleTypes
<1>6. DoomControl' /\ AliveControl'
  BY DEF HandleInv, DoomControl, AliveControl
<1>7. FreeRanked'
  BY FreeStays DEF HandleInv
<1> QED
  BY <1>3, <1>4, <1>5, <1>6, <1>7 DEF HandleInv, Ranked

\* What the walk is at, as long as it is not at the end.
LEMMA AtWeakHandle ==
    ASSUME HandleInv, Walking
    PROVE  /\ cursor \in WeakOnes /\ cursor \in held /\ cursor \in Nodes
           /\ value[cursor] \in Cells /\ weakness[cursor] # "strong"
           /\ "weak" \in Lists
<1>1. cursor \in WeakOnes
  BY DEF HandleInv, Ranked, WalkControl, Walking, After
<1> QED
  BY <1>1, OnListsType DEF HandleInv, HandleTypes, Lists

\* The walk passes a marked cell's handle.
LEMMA SkipLiveKeeps ==
    ASSUME HandleInv, SkipLive
    PROVE  HandleInv'
<1> USE DEF SkipLive, nodeVars
<1>1. PICK rank \in [Points -> Int] : Linked(links, OnLists, rank) /\ WalkControl(rank)
  BY DEF HandleInv, Ranked
<1>2. OnLists' = OnLists /\ WeakOnes' = WeakOnes
  BY DEF OnLists, ListFor, WeakOnes
<1>3. Linked(links, OnLists, rank)'
  BY <1>1, <1>2 DEF Linked, ListLinked
<1>4. WalkControl(rank)'
  <2>1. cursor \in WeakOnes /\ "weak" \in Lists
    BY AtWeakHandle
  <2>2. cursor' \in After("weak", WeakOnes)
    BY <1>1, <2>1 DEF Linked, ListLinked, Before, WeakOnes
  <2>3. \A n \in WeakOnes : rank[n] < rank[cursor'] => value[n] \in alive
    <3> TAKE n \in WeakOnes
    <3> HAVE rank[n] < rank[cursor']
    <3>1. n = cursor \/ rank[n] < rank[cursor]
      BY <1>1, <2>1, WalkAdvance DEF WeakOnes
    <3> QED
      BY <1>1, <3>1 DEF WalkControl, Walking
  <2> QED
    BY <2>2, <2>3, <1>2 DEF WalkControl, Walking
<1>5. HandleTypes' /\ DoomControl' /\ AliveControl'
  BY DEF HandleInv, HandleTypes, DoomControl, AliveControl, Walking
<1>6. FreeRanked'
  BY FreeStays DEF HandleInv
<1> QED
  BY <1>3, <1>4, <1>5, <1>6 DEF HandleInv, Ranked

\* An owner is called for a handle of which it was not told.
LEMMA CallOwnerKeeps ==
    ASSUME HandleInv, CallOwner
    PROVE  HandleInv' /\ cursor \in doomed
<1> USE DEF CallOwner, nodeVars
<1>1. PICK rank \in [Points -> Int] : Linked(links, OnLists, rank) /\ WalkControl(rank)
  BY DEF HandleInv, Ranked
<1>2. OnLists' = OnLists /\ WeakOnes' = WeakOnes
  BY DEF OnLists, ListFor, WeakOnes
<1>3. Linked(links, OnLists, rank)'
  BY <1>1, <1>2 DEF Linked, ListLinked
<1>4. WalkControl(rank)'
  <2>1. cursor \in WeakOnes /\ "weak" \in Lists /\ cursor \in Nodes /\ value[cursor] \in Cells
    BY AtWeakHandle
  <2>2. nextToFinalize' \in After("weak", WeakOnes)
    BY <1>1, <2>1 DEF Linked, ListLinked, Before, WeakOnes
  <2>3. nextToFinalize' # cursor
    <3>1. rank[cursor] < rank[links.next[cursor]] /\ rank[cursor] \in Int
      BY <1>1, <2>1, DistinctPoints DEF Linked, ListLinked, Before, WeakOnes
    <3> QED
      BY <3>1
  <2>4. \A n \in WeakOnes \ {cursor} : rank[n] < rank[nextToFinalize'] => value[n] \in alive
    <3> TAKE n \in WeakOnes \ {cursor}
    <3> HAVE rank[n] < rank[nextToFinalize']
    <3>1. n = cursor \/ rank[n] < rank[cursor]
      BY <1>1, <2>1, WalkAdvance DEF WeakOnes
    <3> QED
      BY <1>1, <3>1 DEF WalkControl, Walking
  <2> QED
    BY <2>1, <2>2, <2>3, <2>4, <1>2 DEF WalkControl
<1>5. HandleTypes' /\ DoomControl' /\ AliveControl'
  BY DEF HandleInv, HandleTypes, DoomControl, AliveControl, Walking
<1>6. FreeRanked'
  BY FreeStays DEF HandleInv
<1>7. cursor \in doomed
  BY AtWeakHandle DEF HandleInv, DoomControl, Walking
<1> QED
  BY <1>3, <1>4, <1>5, <1>6, <1>7 DEF HandleInv, Ranked

\* At the end of the list every handle was passed.
LEMMA EndFinalizationKeeps ==
    ASSUME HandleInv, EndFinalization
    PROVE  HandleInv'
<1> USE DEF EndFinalization, nodeVars
<1>1. PICK rank \in [Points -> Int] : Linked(links, OnLists, rank) /\ WalkControl(rank)
  BY DEF HandleInv, Ranked
<1>2. OnLists' = OnLists /\ WeakOnes' = WeakOnes
  BY DEF OnLists, ListFor, WeakOnes
<1>3. Linked(links, OnLists, rank)' /\ WalkControl(rank)'
  BY <1>1, <1>2 DEF Linked, ListLinked, WalkControl
<1>4. \A n \in WeakOnes : value[n] \in alive
  <2>1. "weak" \in Lists
    BY DEF Lists
  <2>2. \A n \in WeakOnes : rank[n] < rank[cursor]
    BY <1>1, <2>1 DEF Linked, ListLinked, WeakOnes
  <2> QED
    BY <1>1, <2>2 DEF WalkControl
<1>5. \A n \in held : value[n] \in Cells => value[n] \in alive
  BY <1>4, OnListsType DEF HandleInv, AliveControl, HandleTypes
<1>6. HandleTypes' /\ DoomControl' /\ AliveControl'
  BY <1>5 DEF HandleInv, HandleTypes, DoomControl, AliveControl
<1>7. FreeRanked'
  BY FreeStays DEF HandleInv
<1> QED
  BY <1>3, <1>6, <1>7 DEF HandleInv, Ranked

\* The walk empties a handle without an owner and goes on to the next one.
LEMMA ClearOwnerlessKeeps ==
    ASSUME HandleInv, ClearOwnerless
    PROVE  HandleInv'
<1> USE DEF ClearOwnerless
<1>1. PICK rank \in [Points -> Int] : Linked(links, OnLists, rank) /\ WalkControl(rank)
  BY DEF HandleInv, Ranked
<1>2. /\ cursor \in WeakOnes /\ "weak" \in Lists /\ cursor \in held /\ cursor \in Nodes
      /\ HandleTypes
  BY AtWeakHandle DEF HandleInv
<1>3. /\ WeakOnes' = WeakOnes \ {cursor}
      /\ value' = [value EXCEPT ![cursor] = "empty"]
      /\ \A x \in Nodes \ held : links'.next[x] = links.next[x]
  BY <1>1, <1>2, EmptyHandleLinked
<1>4. PICK r2 \in [Points -> Int] :
         /\ Linked(links', OnLists', r2)
         /\ \A x \in After("weak", WeakOnes) \ {cursor} : r2[x] = rank[x]
  BY <1>1, <1>2, EmptyHandleLinked
<1>5. WalkControl(r2)'
  <2>1. cursor' \in After("weak", WeakOnes)
    BY <1>1, <1>2 DEF Linked, ListLinked, Before, WeakOnes
  <2>2. cursor' # cursor
    <3>1. rank[cursor] < rank[links.next[cursor]] /\ rank[cursor] \in Int
      BY <1>1, <1>2, DistinctPoints DEF Linked, ListLinked, Before, WeakOnes
    <3> QED
      BY <3>1
  <2>3. cursor' \in After("weak", WeakOnes')
    BY <2>1, <2>2, <1>3 DEF After
  <2>4. \A n \in WeakOnes' : r2[n] < r2[cursor'] => value'[n] \in alive
    <3> TAKE n \in WeakOnes'
    <3> HAVE r2[n] < r2[cursor']
    <3>1. n \in WeakOnes /\ n # cursor /\ n \in Nodes /\ value'[n] = value[n]
      BY <1>2, <1>3, OnListsType DEF HandleTypes
    <3>2. rank[n] < rank[cursor']
      BY <3>1, <2>1, <2>2, <1>4 DEF After
    <3>3. n = cursor \/ rank[n] < rank[cursor]
      BY <1>1, <1>2, <3>1, <3>2, WalkAdvance DEF WeakOnes
    <3> QED
      BY <1>1, <3>1, <3>3 DEF WalkControl, Walking
  <2> QED
    BY <2>3, <2>4 DEF WalkControl, Walking
<1>6. HandleTypes'
  BY <1>2, <1>3 DEF HandleTypes, Values
<1>7. DoomControl' /\ AliveControl'
  BY <1>2, <1>3, HandleAssumption DEF HandleInv, HandleTypes, DoomControl, AliveControl, Walking
<1>8. FreeRanked'
  BY <1>3, FreeStays DEF HandleInv
<1> QED
  BY <1>4, <1>5, <1>6, <1>7, <1>8 DEF HandleInv, Ranked

\* An owner returns.  A handle that it freed has left the weak list; one that it did
\* not free still leads to where the walk goes on, and is emptied.
LEMMA OwnerReturnsKeeps ==
    ASSUME HandleInv, OwnerReturns
    PROVE  HandleInv'
<1> USE DEF OwnerReturns
<1>1. PICK rank \in [Points -> Int] : Linked(links, OnLists, rank) /\ WalkControl(rank)
  BY DEF HandleInv, Ranked
<1>2. /\ cursor \in Nodes /\ value[cursor] \in Cells \ alive /\ weakness[cursor] = "owned"
      /\ nextToFinalize \in After("weak", WeakOnes) \ {cursor}
      /\ cursor \in held => links.next[cursor] = nextToFinalize
      /\ \A n \in WeakOnes \ {cursor} : rank[n] < rank[nextToFinalize] => value[n] \in alive
      /\ HandleTypes
  BY <1>1 DEF WalkControl, HandleInv
<1>3. \A x \in Nodes \ held : links.next[x] \in (Nodes \ held) \cup {Null}
  BY DEF HandleInv, FreeRanked, FreeLinked
<1>4. WeakOnes \subseteq held /\ TailOf("weak") \notin Nodes \cup {Null} /\ Null \notin Nodes
  BY <1>2, OnListsType, DistinctPoints, HandleAssumption DEF HandleTypes, Lists
<1>5. nextToFinalize = links.next[cursor] <=> cursor \in held
  BY <1>2, <1>3, <1>4 DEF After, HandleTypes
<1>6. CASE cursor \notin held
  <2>1. UNCHANGED <<links, value>>
    BY <1>5, <1>6
  <2>2. OnLists' = OnLists /\ WeakOnes' = WeakOnes
    BY <2>1 DEF OnLists, ListFor, WeakOnes
  <2>3. Linked(links, OnLists, rank)'
    BY <1>1, <2>1, <2>2 DEF Linked, ListLinked
  <2>4. WalkControl(rank)'
    BY <1>2, <1>4, <1>6, <2>1, <2>2 DEF WalkControl
  <2>5. HandleTypes' /\ DoomControl' /\ AliveControl'
    BY <1>6, <2>1 DEF HandleInv, HandleTypes, DoomControl, AliveControl
  <2>6. FreeRanked'
    BY <2>1, FreeStays DEF HandleInv
  <2> QED
    BY <2>3, <2>4, <2>5, <2>6 DEF HandleInv, Ranked
<1>7. CASE cursor \in held
  <2>1. EmptyHandle(cursor) /\ cursor \in WeakOnes
    BY <1>2, <1>5, <1>7, OnListsType DEF HandleTypes
  <2>2. /\ WeakOnes' = WeakOnes \ {cursor}
        /\ value' = [value EXCEPT ![cursor] = "empty"]
        /\ \A x \in Nodes \ held : links'.next[x] = links.next[x]
    BY <1>1, <1>2, <2>1, EmptyHandleLinked
  <2>3. PICK r2 \in [Points -> Int] :
           /\ Linked(links', OnLists', r2)
           /\ \A x \in After("weak", WeakOnes) \ {cursor} : r2[x] = rank[x]
    BY <1>1, <1>2, <2>1, EmptyHandleLinked
  <2>4. WalkControl(r2)'
    <3>1. cursor' \in After("weak", WeakOnes')
      BY <1>2, <2>2 DEF After
    <3>2. \A n \in WeakOnes' : r2[n] < r2[cursor'] => value'[n] \in alive
      <4> TAKE n \in WeakOnes'
      <4> HAVE r2[n] < r2[cursor']
      <4>1. n \in WeakOnes /\ n # cursor /\ n \in Nodes /\ value'[n] = value[n]
        BY <1>2, <1>4, <2>2 DEF HandleTypes
      <4>2. rank[n] < rank[nextToFinalize]
        BY <4>1, <1>2, <2>3 DEF After
      <4> QED
        BY <1>2, <4>1, <4>2
    <3> QED
      BY <3>1, <3>2 DEF WalkControl
  <2>5. HandleTypes'
    BY <1>2, <2>2 DEF HandleTypes, Values
  <2>6. DoomControl' /\ AliveControl'
    BY <1>2, <2>2, HandleAssumption DEF HandleInv, HandleTypes, DoomControl, AliveControl
  <2>7. FreeRanked'
    BY <2>2, FreeStays DEF HandleInv
  <2> QED
    BY <2>3, <2>4, <2>5, <2>6, <2>7 DEF HandleInv, Ranked
<1> QED
  BY <1>6, <1>7

\* A handle is assigned: the barrier moves it to the list for its new value.
LEMMA SetHandleKeeps ==
    ASSUME HandleInv, NEW n \in Nodes, NEW v \in alive \cup {"empty", "number"}, SetHandle(n, v)
    PROVE  HandleInv'
<1> USE DEF SetHandle, walkVars
<1>1. PICK rank \in [Points -> Int] : Linked(links, OnLists, rank) /\ WalkControl(rank)
  BY DEF HandleInv, Ranked
<1>2. HandleTypes /\ v \in Values /\ n \in held /\ held \subseteq Nodes /\ value[n] \in Values
  BY DEF HandleInv, HandleTypes, Values
<1>3. n \in OnLists[ListFor(value[n], weakness[n])]
  BY <1>2, OnListsType
<1>4. OnLists' = Shift(OnLists, ListFor(value[n], weakness[n]), ListFor(v, weakness[n]), n)
  BY <1>2, OnListsMove DEF HandleTypes
<1>5. PICK r2 \in [Points -> Int] :
         /\ Linked(links', OnLists', r2)
         /\ \A x \in Nodes : (\A l \in Lists : x \notin OnLists[l]) => links'.next[x] = links.next[x]
  BY <1>1, <1>2, <1>3, <1>4, BarrierLinked
<1>6. \A x \in Nodes \ held : \A l \in Lists : x \notin OnLists[l]
  BY <1>2, OnListsType
<1>7. FreeRanked'
  BY <1>5, <1>6, FreeStays DEF HandleInv
<1>8. WalkControl(r2)'
  BY DEF WalkControl
<1>9. HandleTypes'
  BY <1>2 DEF HandleTypes
<1>10. DoomControl' /\ AliveControl'
  BY <1>2, HandleAssumption DEF HandleInv, HandleTypes, DoomControl, AliveControl
<1> QED
  BY <1>5, <1>7, <1>8, <1>9, <1>10 DEF HandleInv, Ranked

\* A node that is freed goes to the head of the free list.
LEMMA FreeListGrows ==
    ASSUME FreeRanked, held \subseteq Nodes, NEW n \in held, held' = held \ {n}, freeHead' = n,
           links'.next[n] = freeHead, \A x \in Nodes \ held : links'.next[x] = links.next[x]
    PROVE  FreeRanked'
<1>1. PICK rank \in [Nodes -> Int] : FreeLinked(rank)
  BY DEF FreeRanked
<1> DEFINE free == Nodes \ held
           low == IF freeHead = Null THEN 0 ELSE rank[freeHead] - 1
<1>2. /\ n \in Nodes /\ n \notin free /\ Nodes \ held' = free \cup {n} /\ Null \notin Nodes
      /\ freeHead \in free \cup {Null} /\ (free # {} => freeHead # Null)
  BY <1>1, HandleAssumption DEF FreeLinked
<1>3. low \in Int /\ \A x \in free : rank[x] \in Int
  BY <1>2
<1>4. PICK r2 \in [Nodes -> Int] : r2[n] = low /\ \A x \in free : r2[x] = rank[x]
  <2> DEFINE r == [rank EXCEPT ![n] = low]
  <2>1. r \in [Nodes -> Int] /\ r[n] = low /\ \A x \in free : r[x] = rank[x]
    BY <1>2, <1>3
  <2> QED
    BY <2>1
<1>5. \A x \in free : freeHead # Null /\ low = rank[freeHead] - 1 /\ rank[freeHead] \in Int
  BY <1>2
<1>6. \A x \in free : rank[freeHead] <= rank[x]
  <2> TAKE x \in free
  <2>1. x = freeHead \/ rank[freeHead] < rank[x]
    BY <1>1 DEF FreeLinked
  <2> QED
    BY <2>1, <1>3, <1>5
<1>7. \A x \in free : low < rank[x]
  BY <1>3, <1>5, <1>6
<1> HIDE DEF low
<1>8. \A x \in free : links'.next[x] = links.next[x] /\ links.next[x] \in free \cup {Null} /\ links'.next[x] # n
  BY <1>1, <1>2 DEF FreeLinked
<1> DEFINE now == Nodes \ held'
<1>9. /\ now = free \cup {n} /\ \A x \in now : links'.next[x] \in now \cup {Null}
      /\ freeHead' \in now \cup {Null} /\ freeHead' # Null
  BY <1>2, <1>8
<1>10. \A x \in now \ {freeHead'} : r2[freeHead'] < r2[x]
  BY <1>4, <1>7, <1>9
<1>11. \A x, y \in now : x # y => r2[x] # r2[y]
  <2> TAKE x, y \in now
  <2> HAVE x # y
  <2>1. CASE x \in free /\ y \in free
    BY <2>1, <1>1, <1>4 DEF FreeLinked
  <2>2. CASE x = n
    <3>1. y \in free /\ r2[y] = rank[y] /\ low < rank[y] /\ r2[x] = low
      BY <2>2, <1>4, <1>7, <1>9
    <3> QED
      BY <3>1, <1>3
  <2>3. CASE y = n
    <3>1. x \in free /\ r2[x] = rank[x] /\ low < rank[x] /\ r2[y] = low
      BY <2>3, <1>4, <1>7, <1>9
    <3> QED
      BY <3>1, <1>3
  <2> QED
    BY <2>1, <2>2, <2>3, <1>9
<1>12. \A x \in now : links'.next[x] # Null => r2[x] < r2[links'.next[x]]
  <2> TAKE x \in now
  <2> HAVE links'.next[x] # Null
  <2>1. CASE x = n
    BY <2>1, <1>2, <1>4, <1>7
  <2>2. CASE x \in free
    BY <2>2, <1>1, <1>4, <1>8 DEF FreeLinked
  <2> QED
    BY <2>1, <2>2, <1>9
<1>13. \A x, y \in now : r2[x] < r2[y] => links'.next[x] # Null /\ r2[links'.next[x]] <= r2[y]
  <2> TAKE x, y \in now
  <2> HAVE r2[x] < r2[y]
  <2>1. CASE x \in free
    <3>1. y \in free
      <4>1. y = n => r2[y] = low /\ low < rank[x] /\ r2[x] = rank[x]
        BY <2>1, <1>4, <1>7
      <4> QED
        BY <2>1, <4>1, <1>3, <1>9
    <3> QED
      BY <2>1, <3>1, <1>1, <1>4, <1>8 DEF FreeLinked
  <2>2. CASE x = n
    <3>1. y \in free
      BY <2>2, <1>3, <1>4, <1>9
    <3>2. freeHead \in free /\ freeHead # Null /\ r2[freeHead] = rank[freeHead] /\ r2[y] = rank[y]
      BY <3>1, <1>2, <1>4
    <3> QED
      BY <2>2, <3>1, <3>2, <1>6
  <2> QED
    BY <2>1, <2>2, <1>9
<1>14. FreeLinked(r2)'
  BY <1>4, <1>9, <1>10, <1>11, <1>12, <1>13 DEF FreeLinked
<1> QED
  BY <1>4, <1>14 DEF FreeRanked

\* A handle is freed, by a client or by an owner in the middle of the walk.
LEMMA FreeHandleKeeps ==
    ASSUME HandleInv, NEW n \in Nodes, FreeHandle(n)
    PROVE  HandleInv'
<1> USE DEF FreeHandle
<1> DEFINE from == ListFor(value[n], weakness[n])
           k == Removed(links, n)
           on1 == [OnLists EXCEPT ![from] = @ \ {n}]
<1>1. PICK rank \in [Points -> Int] : Linked(links, OnLists, rank) /\ WalkControl(rank)
  BY DEF HandleInv, Ranked
<1>2. HandleTypes /\ n \in held /\ held \subseteq Nodes /\ n \in Points
  BY DistinctPoints DEF HandleInv, HandleTypes
<1>3. from \in Lists /\ n \in OnLists[from] /\ \A l \in Lists : l # from => n \notin OnLists[l]
  BY <1>2, OnListsType
<1>4. /\ Linked(k, on1, rank)
      /\ links.prev[n] \in Before(from, OnLists[from]) /\ links.next[n] \in After(from, OnLists[from])
      /\ links.next[n] # n /\ links.prev[n] # n
      /\ k.next[links.prev[n]] = links.next[n]
      /\ \A x \in Points \ {links.prev[n], n} : k.next[x] = links.next[x]
  BY <1>1, <1>3, RemoveLinked
<1>5. /\ links' = [k EXCEPT !.next[n] = freeHead]
      /\ nextToFinalize' = IF n = nextToFinalize THEN links.next[n] ELSE nextToFinalize
  BY DEF Deallocate
<1>6. freeHead \in (Nodes \ held) \cup {Null}
  BY DEF HandleInv, FreeRanked, FreeLinked
<1>7. IsLinks(k) /\ on1 \in [Lists -> SUBSET Nodes]
  BY <1>4 DEF Linked
<1> HIDE DEF k, from
<1>8. /\ IsLinks(links') /\ links'.next[n] = freeHead
      /\ \A x \in Points \ {n} : links'.next[x] = k.next[x] /\ links'.prev[x] = k.prev[x]
  BY <1>2, <1>5, <1>6, <1>7, DistinctPoints DEF IsLinks
<1>9. \A l \in Lists : n \notin on1[l]
  BY <1>3, <1>1 DEF Linked
<1>10. OnLists' = on1
  <2>1. /\ OnLists' \in [Lists -> SUBSET Nodes]
        /\ \A l \in Lists : OnLists'[l] = {m \in held \ {n} : ListFor(value[m], weakness[m]) = l}
    BY <1>2 DEF OnLists, ListFor, Lists
  <2>2. \A l \in Lists : OnLists[l] = {m \in held : ListFor(value[m], weakness[m]) = l}
    BY <1>2, OnListsType
  <2>3. \A l \in Lists : on1[l] = OnLists[l] \ {n}
    BY <1>3, <1>1 DEF Linked
  <2>4. \A l \in Lists : OnLists'[l] = on1[l]
    BY <2>1, <2>2, <2>3
  <2> QED
    BY <2>1, <2>4, <1>7
<1> HIDE DEF on1
<1>11. Linked(links', OnLists', rank)
  BY <1>4, <1>8, <1>9, <1>10, FreeLinksDoNotMatter
<1>12. WeakOnes' = WeakOnes \ {n} /\ WeakOnes \subseteq held
  BY <1>2 DEF WeakOnes, OnLists, ListFor, Lists
<1>13. WalkControl(rank)'
  <2>1. CASE stage # "owner"
    BY <2>1 DEF WalkControl
  <2>2. CASE stage = "owner"
    <3>1. /\ cursor \in Nodes /\ value[cursor] \in Cells \ alive /\ weakness[cursor] = "owned"
          /\ nextToFinalize \in After("weak", WeakOnes) \ {cursor}
          /\ cursor \in held => links.next[cursor] = nextToFinalize
          /\ \A m \in WeakOnes \ {cursor} : rank[m] < rank[nextToFinalize] => value[m] \in alive
      BY <1>1, <2>2 DEF WalkControl
    <3>2. cursor \in held => cursor \in WeakOnes
      BY <1>2, <3>1, OnListsType
    <3>3. "weak" \in Lists /\ ListLinked(links, "weak", WeakOnes, rank)
          /\ ListLinked(links, from, OnLists[from], rank)
      BY <1>1, <1>3 DEF Linked, WeakOnes, Lists
    <3>4. CASE n = nextToFinalize
      <4>1. n \in WeakOnes /\ n # cursor /\ nextToFinalize' = links.next[n]
        BY <3>1, <3>4, <1>5, DistinctPoints DEF After, Lists
      <4>2. links.next[n] \in After("weak", WeakOnes)
        BY <4>1, <3>3 DEF ListLinked, Before
      <4>3. links.next[n] # cursor
        <5> SUFFICES ASSUME links.next[n] = cursor PROVE FALSE
          OBVIOUS
        <5>1. cursor \in WeakOnes
          BY <4>2, <3>1, DistinctPoints DEF After, Lists
        <5>2. links.next[cursor] = n
          BY <5>1, <1>12, <3>1, <3>4
        <5>3. rank[cursor] < rank[n] /\ rank[n] < rank[cursor]
          BY <5>1, <5>2, <4>1, <3>3 DEF ListLinked, Before
        <5>4. rank[cursor] \in Int /\ rank[n] \in Int
          BY <1>2, <3>1, DistinctPoints
        <5> QED
          BY <5>3, <5>4
      <4>4. cursor \in held => links'.next[cursor] = links.next[n]
        <5> HAVE cursor \in held
        <5>1. links.prev[n] = cursor
          BY <3>1, <3>2, <3>3, <3>4 DEF ListLinked, Before
        <5> QED
          BY <5>1, <4>1, <1>4, <1>8, <3>1, DistinctPoints
      <4>5. \A m \in WeakOnes' \ {cursor} : rank[m] < rank[links.next[n]] => value[m] \in alive
        <5> TAKE m \in WeakOnes' \ {cursor}
        <5> HAVE rank[m] < rank[links.next[n]]
        <5>1. m \in WeakOnes /\ m # n
          BY <1>12
        <5>2. m = n \/ rank[m] < rank[n]
          BY <1>1, <3>3, <4>1, <5>1, WalkAdvance DEF WeakOnes
        <5> QED
          BY <5>1, <5>2, <3>1, <3>4
      <4>6. links.next[n] \in After("weak", WeakOnes')
        BY <4>2, <1>4, <1>12 DEF After
      <4> QED
        BY <2>2, <3>1, <4>1, <4>3, <4>4, <4>5, <4>6, <1>12 DEF WalkControl
    <3>5. CASE n # nextToFinalize
      <4>1. nextToFinalize' = nextToFinalize /\ nextToFinalize \in After("weak", WeakOnes')
        BY <3>1, <3>5, <1>5, <1>12 DEF After
      <4>2. cursor \in held \ {n} => links'.next[cursor] = links.next[cursor]
        <5> HAVE cursor \in held \ {n}
        <5>1. links.next[links.prev[n]] = n
          BY <1>3, <3>3 DEF ListLinked, After
        <5>2. cursor # links.prev[n]
          BY <5>1, <3>1, <3>5
        <5> QED
          BY <5>2, <1>4, <1>8, <3>1, DistinctPoints
      <4> QED
        BY <2>2, <3>1, <4>1, <4>2, <1>12 DEF WalkControl
    <3> QED
      BY <3>4, <3>5
  <2> QED
    BY <2>1, <2>2
<1>14. \A x \in Nodes \ held : links'.next[x] = links.next[x]
  <2> TAKE x \in Nodes \ held
  <2>1. x # n /\ x # links.prev[n] /\ x \in Points
    BY <1>1, <1>2, <1>3, <1>4, OnListsType, DistinctPoints DEF Before
  <2> QED
    BY <2>1, <1>4, <1>8
<1>15. FreeRanked'
  BY <1>2, <1>8, <1>14, FreeListGrows DEF HandleInv
<1>16. HandleTypes' /\ DoomControl' /\ AliveControl'
  BY DEF HandleInv, HandleTypes, DoomControl, AliveControl
<1> QED
  BY <1>11, <1>13, <1>15, <1>16 DEF HandleInv, Ranked

\* The node that allocate takes is the first of the free list.
LEMMA FreeListShrinks ==
    ASSUME FreeRanked, freeHead # Null, held \subseteq Nodes, held' = held \cup {freeHead},
           freeHead' = links.next[freeHead],
           \A x \in Nodes \ (held \cup {freeHead}) : links'.next[x] = links.next[x]
    PROVE  FreeRanked'
<1>1. PICK rank \in [Nodes -> Int] : FreeLinked(rank)
  BY DEF FreeRanked
<1> DEFINE free == Nodes \ held
           now == Nodes \ held'
           h == freeHead
<1>2. /\ h \in free /\ now = free \ {h} /\ links.next[h] \in free \cup {Null} /\ Null \notin Nodes
      /\ \A x \in free : rank[x] \in Int
      /\ \A x \in now : links'.next[x] = links.next[x]
  BY <1>1, HandleAssumption DEF FreeLinked
<1>3. \A x \in free : links.next[x] # Null => links.next[x] \in free /\ links.next[x] # h
  <2> TAKE x \in free
  <2> HAVE links.next[x] # Null
  <2>1. links.next[x] \in free /\ rank[x] < rank[links.next[x]]
    BY <1>1 DEF FreeLinked
  <2>2. x = h \/ rank[h] < rank[x]
    BY <1>1 DEF FreeLinked
  <2>3. rank[h] \in Int /\ rank[x] \in Int
    BY <1>2
  <2> QED
    BY <2>1, <2>2, <2>3
<1>4. freeHead' \in now \cup {Null} /\ \A x \in now : links'.next[x] \in now \cup {Null}
  BY <1>1, <1>2, <1>3 DEF FreeLinked
<1>5. \A x \in now : freeHead' # Null /\ rank[freeHead'] <= rank[x]
  BY <1>1, <1>2 DEF FreeLinked
<1>6. now # {} => freeHead' # Null
  BY <1>5
<1>7. \A x \in now \ {freeHead'} : rank[freeHead'] < rank[x]
  <2> TAKE x \in now \ {freeHead'}
  <2>1. freeHead' \in free /\ rank[freeHead'] <= rank[x]
    BY <1>2, <1>4, <1>5
  <2>2. rank[freeHead'] # rank[x]
    BY <1>1, <1>2, <2>1 DEF FreeLinked
  <2> QED
    BY <2>1, <2>2, <1>2
<1>8. FreeLinked(rank)'
  <2>1. /\ \A x, y \in now : x # y => rank[x] # rank[y]
        /\ \A x \in now : links'.next[x] # Null => rank[x] < rank[links'.next[x]]
        /\ \A x, y \in now : rank[x] < rank[y] => links'.next[x] # Null /\ rank[links'.next[x]] <= rank[y]
    BY <1>1, <1>2 DEF FreeLinked
  <2> QED
    BY <2>1, <1>4, <1>6, <1>7 DEF FreeLinked
<1> QED
  BY <1>8 DEF FreeRanked

\* A new handle goes from the free list to the list of immediates and on to the list
\* for its value.
LEMMA NewHandleKeeps ==
    ASSUME HandleInv, NEW w \in {"strong", "ownerless", "owned"}, NEW v \in alive \cup {"empty", "number"},
           NewHandle(w, v)
    PROVE  HandleInv'
<1> DEFINE n == freeHead
           fresh == [next |-> [links.next EXCEPT ![n] = Null], prev |-> [links.prev EXCEPT ![n] = Null]]
           allocated == Pushed(fresh, "immediate", n)
           on1 == [OnLists EXCEPT !["immediate"] = @ \cup {n}]
<1>1. PICK rank \in [Points -> Int] : Linked(links, OnLists, rank) /\ WalkControl(rank)
  BY DEF HandleInv, Ranked
<1>2. HandleTypes /\ v \in Values /\ "empty" \in Values /\ held \subseteq Nodes
  BY DEF HandleInv, HandleTypes, Values
<1>3. /\ n # Null /\ stage = "idle" /\ freeHead' = links.next[n]
      /\ links' = Barrier(allocated, n, w, "empty", v)
      /\ value' = [value EXCEPT ![n] = v] /\ weakness' = [weakness EXCEPT ![n] = w]
      /\ held' = held \cup {n} /\ UNCHANGED <<alive, nextToFinalize, cursor, stage, doomed>>
  BY DEF NewHandle, walkVars
<1>4. n \in Nodes \ held /\ n \in Points
  BY <1>3, DistinctPoints DEF HandleInv, FreeRanked, FreeLinked
<1>5. \A x \in Nodes \ held : \A l \in Lists : x \notin OnLists[l]
  BY <1>2, OnListsType
<1>6. /\ IsLinks(fresh)
      /\ \A x \in Points \ {n} : fresh.next[x] = links.next[x] /\ fresh.prev[x] = links.prev[x]
  BY <1>1, <1>4 DEF Linked, IsLinks
<1> HIDE DEF fresh
<1>7. Linked(fresh, OnLists, rank)
  BY <1>1, <1>4, <1>5, <1>6, FreeLinksDoNotMatter
<1>8. "immediate" \in Lists /\ ListFor("empty", w) = "immediate" /\ ListFor(v, w) \in Lists
  BY HandleAssumption DEF Lists, ListFor
<1>9. PICK r1 \in [Points -> Int] :
         /\ Linked(allocated, on1, r1)
         /\ \A x \in Nodes \ {n} : allocated.next[x] = fresh.next[x]
  BY <1>4, <1>5, <1>7, <1>8, PushLinked
<1>10. /\ on1 \in [Lists -> SUBSET Nodes] /\ n \in on1["immediate"]
       /\ \A l \in Lists : \A x : x # n => (x \in on1[l] <=> x \in OnLists[l])
       /\ \A l \in Lists : n \in on1[l] <=> l = "immediate"
  BY <1>2, <1>4, <1>5, <1>8, OnListsType
<1> HIDE DEF allocated, on1
<1>11. PICK r2 \in [Points -> Int] :
         /\ Linked(links', Shift(on1, "immediate", ListFor(v, w), n), r2)
         /\ \A x \in Nodes : (\A l \in Lists : x \notin on1[l]) => links'.next[x] = allocated.next[x]
  BY <1>2, <1>3, <1>8, <1>9, <1>10, BarrierLinked
<1>12. OnLists' = Shift(on1, "immediate", ListFor(v, w), n)
  <2>1. /\ OnLists' \in [Lists -> SUBSET Nodes]
        /\ \A l \in Lists : OnLists'[l] = {m \in held \cup {n} : ListFor(value'[m], weakness'[m]) = l}
    BY <1>2, <1>3, <1>4 DEF OnLists, ListFor, Lists
  <2>2. /\ value'[n] = v /\ weakness'[n] = w
        /\ \A m \in held : value'[m] = value[m] /\ weakness'[m] = weakness[m]
    BY <1>2, <1>3, <1>4 DEF HandleTypes
  <2>3. \A l \in Lists : OnLists[l] = {m \in held : ListFor(value[m], weakness[m]) = l}
    BY <1>2, OnListsType
  <2>4. /\ Shift(on1, "immediate", ListFor(v, w), n) \in [Lists -> SUBSET Nodes]
        /\ \A l \in Lists : \A x : x \in Shift(on1, "immediate", ListFor(v, w), n)[l] <=>
                 \/ x = n /\ l = ListFor(v, w)
                 \/ x # n /\ x \in on1[l]
                 \/ x = n /\ x \in on1[l] /\ l # "immediate"
    BY <1>4, <1>8, <1>10, ShiftLists
  <2>5. ASSUME NEW l \in Lists PROVE OnLists'[l] = Shift(on1, "immediate", ListFor(v, w), n)[l]
    <3>1. n \in OnLists'[l] <=> l = ListFor(v, w)
      BY <2>1, <2>2
    <3>2. \A x : x # n => (x \in OnLists'[l] <=> x \in OnLists[l])
      BY <2>1, <2>2, <2>3
    <3> DEFINE shifted == Shift(on1, "immediate", ListFor(v, w), n)[l]
    <3>3. n \in shifted <=> l = ListFor(v, w)
      BY <2>4, <1>10
    <3>4. \A x : x # n => (x \in shifted <=> x \in OnLists[l])
      BY <2>4, <1>10
    <3> HIDE DEF shifted, n
    <3>5. \A x : x \in OnLists'[l] <=> x \in shifted
      BY <3>1, <3>2, <3>3, <3>4
    <3> QED
      BY <3>5 DEF shifted
  <2> QED
    BY <2>1, <2>4, <2>5
<1>13. \A x \in Nodes \ (held \cup {n}) : links'.next[x] = links.next[x]
  <2> TAKE x \in Nodes \ (held \cup {n})
  <2>1. x \in Points \ {n} /\ \A l \in Lists : x \notin on1[l]
    BY <1>5, <1>10, DistinctPoints
  <2> QED
    BY <2>1, <1>6, <1>9, <1>11
<1>14. FreeRanked'
  BY <1>2, <1>3, <1>13, FreeListShrinks DEF HandleInv
<1>15. WalkControl(r2)'
  BY <1>3 DEF WalkControl
<1>16. HandleTypes'
  BY <1>2, <1>3, <1>4 DEF HandleTypes
<1>17. DoomControl' /\ AliveControl'
  BY <1>2, <1>3, <1>4, HandleAssumption DEF HandleInv, HandleTypes, DoomControl, AliveControl
<1> QED
  BY <1>11, <1>12, <1>14, <1>15, <1>16, <1>17 DEF HandleInv, Ranked

\* grow() has put every node of its block on the free list, in some order.
LEMMA HandleInit == Init => HandleInv
<1> SUFFICES ASSUME Init PROVE HandleInv
  OBVIOUS
<1>1. PICK order \in Bijection(1..Cardinality(Nodes), Nodes) :
         /\ freeHead = order[1]
         /\ links = [next |-> [p \in Nodes \cup Sentinels |->
                                  CASE p \in Nodes ->
                                         LET i == CHOOSE i \in DOMAIN order : order[i] = p
                                         IN  IF i + 1 \in DOMAIN order THEN order[i + 1] ELSE Null
                                    [] p \in Sentinels /\ p[2] = "head" -> TailOf(p[1])
                                    [] OTHER -> Null],
                      prev |-> [p \in Nodes \cup Sentinels |->
                                  IF p \in Sentinels /\ p[2] = "tail" THEN HeadOf(p[1]) ELSE Null]]
  BY DEF Init
<1> DEFINE N == Cardinality(Nodes)
           at == [n \in Nodes |-> CHOOSE i \in DOMAIN order : order[i] = n]
<1>2. N \in Nat /\ N # 0
  BY HandleAssumption, FS_CardinalityType, FS_EmptySet
<1>3. /\ order \in [1..N -> Nodes] /\ DOMAIN order = 1..N
      /\ \A i, j \in 1..N : order[i] = order[j] => i = j
      /\ \A n \in Nodes : \E i \in 1..N : order[i] = n
  BY DEF Bijection, Injection, Surjection, IsInjective
<1>4. \A n \in Nodes : at[n] \in 1..N /\ order[at[n]] = n
  BY <1>3
<1> HIDE DEF N
<1>5. \A n \in Nodes : links.next[n] = IF at[n] + 1 \in 1..N THEN order[at[n] + 1] ELSE Null
  <2> TAKE n \in Nodes
  <2> DEFINE chosen == CHOOSE i \in DOMAIN order : order[i] = n
  <2>1. at[n] = chosen
    OBVIOUS
  <2>2. links.next[n] = IF chosen + 1 \in DOMAIN order THEN order[chosen + 1] ELSE Null
    <3> DEFINE Link(p) == CASE p \in Nodes ->
                                 LET i == CHOOSE i \in DOMAIN order : order[i] = p
                                 IN  IF i + 1 \in DOMAIN order THEN order[i + 1] ELSE Null
                            [] p \in Sentinels /\ p[2] = "head" -> TailOf(p[1])
                            [] OTHER -> Null
    <3>1. links.next = [p \in Nodes \cup Sentinels |-> Link(p)]
      BY <1>1
    <3>2. Link(n) = IF chosen + 1 \in DOMAIN order THEN order[chosen + 1] ELSE Null
      BY NodeAssumption
    <3> HIDE DEF Link
    <3> QED
      BY <3>1, <3>2
  <2> QED
    BY <2>1, <2>2, <1>3
<1>6. /\ \A l \in Lists : links.next[HeadOf(l)] = TailOf(l) /\ links.prev[TailOf(l)] = HeadOf(l)
      /\ links = [next |-> links.next, prev |-> links.prev]
      /\ links.next = [p \in Points |-> links.next[p]]
      /\ links.prev = [p \in Points |-> links.prev[p]]
  BY <1>1, DistinctPoints, HandleAssumption, NodeAssumption DEF Points, HeadOf, TailOf
<1> HIDE DEF at
<1>7. IsLinks(links)
  <2>1. ASSUME NEW p \in Points PROVE links.next[p] \in Points \cup {Null} /\ links.prev[p] \in Points \cup {Null}
    <3>1. CASE p \in Nodes
      <4>1. links.prev[p] = Null
        BY <1>1, <3>1, NodeAssumption DEF Points
      <4> QED
        BY <3>1, <4>1, <1>3, <1>5, DistinctPoints
    <3>2. ASSUME NEW l \in Lists, p = HeadOf(l) \/ p = TailOf(l)
          PROVE  links.next[p] \in Points \cup {Null} /\ links.prev[p] \in Points \cup {Null}
      <4>1. p \notin Nodes /\ p \in Sentinels /\ TailOf(l) \in Points /\ HeadOf(l) \in Points
        BY <3>2, DistinctPoints
      <4>2. p[1] = l
        BY <3>2 DEF HeadOf, TailOf
      <4> QED
        BY <1>1, <4>1, <4>2 DEF Points
    <3> QED
      BY <3>1, <3>2 DEF Points, Sentinels
  <2> QED
    BY <2>1, <1>6 DEF IsLinks
<1>8. held = {} /\ stage = "idle" /\ value = [n \in Nodes |-> "empty"] /\ weakness = [n \in Nodes |-> "strong"]
      /\ alive = {} /\ doomed = {}
  BY DEF Init
<1>9. OnLists \in [Lists -> SUBSET Nodes] /\ \A l \in Lists : OnLists[l] = {}
  BY <1>8, OnListsType
<1> DEFINE rank == [p \in Points |-> IF \E l \in Lists : p = TailOf(l) THEN 1 ELSE 0]
<1>10. rank \in [Points -> Int] /\ \A l \in Lists : rank[HeadOf(l)] = 0 /\ rank[TailOf(l)] = 1
  BY DistinctPoints
<1> HIDE DEF rank
<1>11. ASSUME NEW l \in Lists PROVE ListLinked(links, l, OnLists[l], rank)
  <2>1. Before(l, OnLists[l]) = {HeadOf(l)} /\ After(l, OnLists[l]) = {TailOf(l)}
    BY <1>9 DEF Before, After
  <2>2. links.next[HeadOf(l)] = TailOf(l) /\ links.prev[TailOf(l)] = HeadOf(l)
    BY <1>6
  <2>3. rank[HeadOf(l)] = 0 /\ rank[TailOf(l)] = 1 /\ OnLists[l] = {}
    BY <1>9, <1>10
  <2> QED
    BY <2>1, <2>2, <2>3 DEF ListLinked
<1>12. Linked(links, OnLists, rank) /\ WalkControl(rank)
  BY <1>7, <1>8, <1>9, <1>10, <1>11 DEF Linked, WalkControl
<1>13. FreeLinked(at)
  <2>1. at \in [Nodes -> Int]
    BY <1>4 DEF at
  <2>2. freeHead \in Nodes /\ at[freeHead] = 1 /\ Null \notin Nodes
    BY <1>1, <1>2, <1>3, <1>4, HandleAssumption
  <2>3. \A m \in Nodes : links.next[m] # Null =>
           links.next[m] \in Nodes /\ at[links.next[m]] = at[m] + 1 /\ at[m] + 1 \in 1..N
    BY <1>3, <1>4, <1>5
  <2>4. \A m, n \in Nodes : at[m] = at[n] => m = n
    BY <1>4
  <2>5. \A n \in Nodes : at[n] \in Int /\ 1 <= at[n] /\ at[n] <= N
    BY <1>2, <1>4
  <2>6. \A m, n \in Nodes : at[m] < at[n] => links.next[m] # Null /\ at[links.next[m]] <= at[n]
    <3> TAKE m, n \in Nodes
    <3> HAVE at[m] < at[n]
    <3>1. at[m] + 1 \in 1..N
      BY <1>2, <2>5
    <3>2. links.next[m] = order[at[m] + 1] /\ links.next[m] \in Nodes
      BY <3>1, <1>3, <1>5
    <3>3. at[links.next[m]] = at[m] + 1
      BY <3>2, <2>2, <2>3
    <3> QED
      BY <3>2, <3>3, <2>2, <2>5
  <2>7. \A n \in Nodes \ {freeHead} : at[freeHead] < at[n]
    BY <2>2, <2>4, <2>5
  <2>8. \A m \in Nodes : links.next[m] # Null => at[m] < at[links.next[m]]
    BY <2>3, <2>5
  <2>9. \A m \in Nodes : links.next[m] \in Nodes \cup {Null}
    BY <2>3
  <2> QED
    BY <1>8, <2>1, <2>2, <2>4, <2>6, <2>7, <2>8, <2>9 DEF FreeLinked
<1>14. FreeRanked
  BY <1>4, <1>13 DEF FreeRanked, FreeLinked
<1>15. HandleTypes /\ DoomControl /\ AliveControl
  BY <1>8 DEF HandleTypes, DoomControl, AliveControl, Values
<1> QED
  BY <1>10, <1>12, <1>14, <1>15 DEF HandleInv, Ranked

\* Every step of the mutator and of the collector keeps the invariant.
LEMMA HandleStep == HandleInv /\ [Next]_vars => HandleInv'
<1> SUFFICES ASSUME HandleInv, [Next]_vars PROVE HandleInv'
  OBVIOUS
<1>1. CASE UNCHANGED vars
  <2> USE <1>1 DEF vars
  <2>1. PICK rank \in [Points -> Int] : Linked(links, OnLists, rank) /\ WalkControl(rank)
    BY DEF HandleInv, Ranked
  <2>2. OnLists' = OnLists /\ WeakOnes' = WeakOnes
    BY DEF OnLists, ListFor, WeakOnes
  <2>3. Linked(links, OnLists, rank)' /\ WalkControl(rank)'
    BY <2>1, <2>2 DEF Linked, ListLinked, WalkControl
  <2>4. HandleTypes' /\ DoomControl' /\ AliveControl'
    BY DEF HandleInv, HandleTypes, DoomControl, AliveControl
  <2>5. FreeRanked'
    BY FreeStays DEF HandleInv
  <2> QED
    BY <2>3, <2>4, <2>5 DEF HandleInv, Ranked
<1>2. CASE Walk
  BY <1>2, SkipLiveKeeps, ClearOwnerlessKeeps, CallOwnerKeeps, OwnerReturnsKeeps, EndFinalizationKeeps DEF Walk
<1>3. CASE Next /\ ~Walk
  BY <1>3, NewHandleKeeps, SetHandleKeeps, FreeHandleKeeps, NewCellKeeps, BeginFinalizationKeeps DEF Next
<1> QED
  BY <1>1, <1>2, <1>3

\* The invariant of the handle heap.
THEOREM HandleInvariance == Spec => []HandleInv
BY HandleInit, HandleStep, PTL DEF Spec

\* Every variable of the handle heap has its type, and a walk is never led to the free
\* list.
THEOREM Typed == Spec => []TypeOK
BY HandleInvariance, HandleInvTypes, PTL

\* Between two collections no handle refers to a cell that was not marked, whatever the
\* owners free while finalizeWeakHandles walks the list.
THEOREM NoHandleToADeadCell == Spec => []HandlesAlive
<1>1. HandleInv => HandlesAlive
  BY DEF HandleInv, AliveControl, HandlesAlive
<1> QED
  BY <1>1, HandleInvariance, PTL

\* When finalizeWeakHandles is done, every owner of a dead cell was told of it or had
\* freed its handle.
THEOREM EveryOwnerIsTold == Spec => []OwnersTold
<1>1. HandleInv => OwnersTold
  BY DEF HandleInv, DoomControl, OwnersTold
<1> QED
  BY <1>1, HandleInvariance, PTL

\* An owner is told of a dead cell once, and only of a handle that it holds.
THEOREM OwnersAreToldOnce == Spec => ToldOnce
<1>1. HandleInv /\ [Next]_vars => [stage = "walk" /\ stage' = "owner" => cursor \in doomed]_vars
  <2> SUFFICES ASSUME HandleInv, Next, stage = "walk", stage' = "owner" PROVE cursor \in doomed
    OBVIOUS
  <2>1. CallOwner
    BY DEF Next, Walk, NewHandle, SetHandle, FreeHandle, NewCell, BeginFinalization, SkipLive, ClearOwnerless,
           OwnerReturns, EndFinalization, walkVars
  <2> QED
    BY <2>1, CallOwnerKeeps
<1> QED
  BY <1>1, HandleInvariance, PTL DEF Spec, ToldOnce

-----------------------------------------------------------------------------
(***************************************************************************)
(* What the links lead to.                                                 *)
(***************************************************************************)
\* A set of natural numbers has a least element.
LEMMA LeastNatural ==
    ASSUME NEW T \in SUBSET Nat, T # {}
    PROVE  \E x \in T : \A y \in T : x <= y
<1>1. PICK x \in T : \A y \in T : ~(<<y, x>> \in OpToRel(<, Nat))
  BY NatLessThanWellFounded, WFMin
<1>2. \A y \in T : ~(y < x)
  BY <1>1 DEF OpToRel
<1> QED
  BY <1>2

\* The nodes that links without a gap lead to from the first of them are in every
\* closed set.
LEMMA ChainIsReached ==
    ASSUME NEW S \in SUBSET Nodes, NEW rank, \A m \in S : rank[m] \in Int, NEW p \in S,
           \A m \in S \ {p} : rank[p] < rank[m],
           \A m, n \in S : m # n => rank[m] # rank[n],
           \A m, n \in S : rank[m] < rank[n] =>
              links.next[m] \in S /\ rank[m] < rank[links.next[m]] /\ rank[links.next[m]] <= rank[n],
           NEW C, Closed(p, C)
    PROVE  S \subseteq C
<1> SUFFICES ASSUME NEW n \in S, n \notin C PROVE FALSE
  OBVIOUS
<1> DEFINE below == {m \in S \cap C : rank[m] < rank[n]}
           T == {rank[n] - rank[m] : m \in below}
<1>1. p \in C /\ p \in below
  BY DEF Closed
<1>2. T \in SUBSET Nat /\ T # {}
  BY <1>1
<1>3. PICK x \in T : \A y \in T : x <= y
  BY <1>2, LeastNatural
<1>4. PICK m \in below : x = rank[n] - rank[m]
  OBVIOUS
<1>5. /\ links.next[m] \in S /\ rank[m] < rank[links.next[m]] /\ rank[links.next[m]] <= rank[n]
  BY <1>4
<1>6. links.next[m] \in C
  BY <1>4, <1>5 DEF Closed
<1>7. rank[links.next[m]] # rank[n]
  BY <1>5, <1>6
<1>8. links.next[m] \in below
  BY <1>5, <1>6, <1>7
<1>9. x <= rank[n] - rank[links.next[m]]
  BY <1>3, <1>8
<1> QED
  BY <1>4, <1>5, <1>9

\* The links from the head of a list lead to its nodes and to its tail.
LEMMA ListReached ==
    ASSUME NEW on, NEW rank, Linked(links, on, rank), NEW list \in Lists
    PROVE  Reached(links.next[HeadOf(list)]) = After(list, on[list])
<1> DEFINE S == on[list]
           p == links.next[HeadOf(list)]
           passed == {n \in Nodes : \A C \in SUBSET Nodes : Closed(p, C) => n \in C}
<1>1. /\ ListLinked(links, list, S, rank) /\ S \in SUBSET Nodes /\ TailOf(list) \notin Nodes
      /\ \A x \in Points : rank[x] \in Int
      /\ TailOf(list) \in Points /\ Nodes \subseteq Points
  BY DistinctPoints DEF Linked
<1>2. p \in After(list, S) /\ \A n \in S : links.next[n] \in After(list, S)
  BY <1>1 DEF ListLinked, Before
<1>3. Closed(p, S)
  BY <1>1, <1>2 DEF Closed, After
<1>4. passed \subseteq S
  BY <1>1, <1>3
<1>5. S \subseteq passed
  <2> SUFFICES ASSUME NEW s \in S PROVE S \subseteq passed
    OBVIOUS
  <2>1. \A n \in S : rank[p] <= rank[n] /\ rank[n] < rank[TailOf(list)]
    BY <1>1 DEF ListLinked, Before, After
  <2>2. p # TailOf(list)
    BY <2>1, <1>1
  <2>3. p \in S
    BY <2>2, <1>2 DEF After
  <2>4. \A m, n \in S : m # n => rank[m] # rank[n]
    BY <1>1 DEF ListLinked
  <2>5. \A m \in S \ {p} : rank[p] < rank[m]
    BY <1>1, <2>1, <2>3, <2>4
  <2>6. \A m, n \in S : rank[m] < rank[n] =>
              links.next[m] \in S /\ rank[m] < rank[links.next[m]] /\ rank[links.next[m]] <= rank[n]
    <3> TAKE m, n \in S
    <3> HAVE rank[m] < rank[n]
    <3>1. rank[m] < rank[links.next[m]] /\ rank[links.next[m]] <= rank[n]
      BY <1>1 DEF ListLinked, Before, After
    <3>2. links.next[m] # TailOf(list)
      BY <3>1, <2>1, <1>1
    <3> QED
      BY <3>1, <3>2, <1>2 DEF After
  <2>7. \A m \in S : rank[m] \in Int
    BY <1>1
  <2>8. S \in SUBSET Nodes
    BY <1>1
  <2> HIDE DEF p, S
  <2>9. ASSUME NEW C \in SUBSET Nodes, Closed(p, C) PROVE S \subseteq C
    BY <2>3, <2>4, <2>5, <2>6, <2>7, <2>8, <2>9, ChainIsReached
  <2> QED
    BY <2>8, <2>9
<1>6. passed = S
  BY <1>4, <1>5
<1>7. Reached(p) = {p} \cup passed \cup {links.next[n] : n \in passed}
  BY DEF Reached
<1> HIDE DEF passed
<1>8. Reached(p) \subseteq After(list, S)
  BY <1>2, <1>6, <1>7 DEF After
<1>9. TailOf(list) \in Reached(p)
  <2>1. links.prev[TailOf(list)] \in Before(list, S) /\ links.next[links.prev[TailOf(list)]] = TailOf(list)
    BY <1>1 DEF ListLinked, After
  <2> QED
    BY <2>1, <1>6, <1>7 DEF Before
<1> QED
  BY <1>6, <1>7, <1>8, <1>9 DEF After

\* The links from the head of the free list lead to all nodes that are not held.
LEMMA FreeReached ==
    ASSUME HandleInv
    PROVE  Reached(freeHead) \subseteq (Nodes \ held) \cup {Null} /\ Nodes \ held \subseteq Reached(freeHead)
<1> DEFINE S == Nodes \ held
           p == freeHead
           passed == {n \in Nodes : \A C \in SUBSET Nodes : Closed(p, C) => n \in C}
<1>1. PICK rank \in [Nodes -> Int] : FreeLinked(rank)
  BY DEF HandleInv, FreeRanked
<1>2. /\ p \in S \cup {Null} /\ Null \notin Nodes /\ (S # {} => p \in S)
      /\ \A n \in S : links.next[n] \in S \cup {Null}
      /\ \A m \in S : rank[m] \in Int
  BY <1>1, HandleAssumption DEF FreeLinked
<1>3. Closed(p, S)
  BY <1>2 DEF Closed
<1>4. passed \subseteq S
  BY <1>3
<1>5. S \subseteq passed
  <2> SUFFICES ASSUME NEW s \in S PROVE S \subseteq passed
    OBVIOUS
  <2>1. p \in S
    BY <1>2
  <2>2. /\ \A m \in S \ {p} : rank[p] < rank[m]
        /\ \A m, n \in S : m # n => rank[m] # rank[n]
        /\ \A m, n \in S : rank[m] < rank[n] =>
              links.next[m] \in S /\ rank[m] < rank[links.next[m]] /\ rank[links.next[m]] <= rank[n]
    BY <1>1, <1>2 DEF FreeLinked
  <2>3. S \in SUBSET Nodes
    OBVIOUS
  <2> HIDE DEF p, S
  <2>4. ASSUME NEW C \in SUBSET Nodes, Closed(p, C) PROVE S \subseteq C
    BY <1>2, <2>1, <2>2, <2>3, <2>4, ChainIsReached
  <2> QED
    BY <2>3, <2>4
<1>6. passed = S
  BY <1>4, <1>5
<1>7. Reached(p) = {p} \cup passed \cup {links.next[n] : n \in passed}
  BY DEF Reached
<1> HIDE DEF passed
<1> QED
  BY <1>2, <1>6, <1>7

\* Every handle is on the list that its value and its owner call for and on no other,
\* linked in both directions, and all other nodes are on the free list, at every moment
\* of a finalization too.
THEOREM ListsAgreeWithValues == Spec => []ListsAgree
<1>1. ASSUME HandleInv PROVE ListsAgree
  <2>1. PICK rank \in [Points -> Int] : Linked(links, OnLists, rank)
    BY <1>1 DEF HandleInv, Ranked
  <2>2. ASSUME NEW list \in Lists
        PROVE  /\ Reached(links.next[HeadOf(list)]) =
                     {n \in held : ListFor(value[n], weakness[n]) = list} \cup {TailOf(list)}
               /\ \A p \in Reached(links.next[HeadOf(list)]) : links.next[links.prev[p]] = p
    <3>1. Reached(links.next[HeadOf(list)]) = After(list, OnLists[list])
      BY <2>1, ListReached
    <3>2. OnLists[list] = {n \in held : ListFor(value[n], weakness[n]) = list}
      BY <1>1, OnListsType DEF HandleInv, HandleTypes
    <3>3. \A p \in After(list, OnLists[list]) : links.next[links.prev[p]] = p
      BY <2>1 DEF Linked, ListLinked
    <3> QED
      BY <3>1, <3>2, <3>3 DEF After
  <2> QED
    BY <2>2, <1>1, FreeReached DEF ListsAgree
<1> QED
  BY <1>1, HandleInvariance, PTL
=============================================================================
