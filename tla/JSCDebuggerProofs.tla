-------------------------- MODULE JSCDebuggerProofs --------------------------
(***************************************************************************)
(* The safety properties of JSCDebugger, for a stack of any depth and any   *)
(* number of frames and lines.                                              *)
(*                                                                         *)
(* Where a step over has to stop is a depth of the interpreter's stack; the *)
(* debugger knows a frame of its own chain.  The invariant places the       *)
(* hooked frames of the stack in the chain, from the top downwards.         *)
(***************************************************************************)
EXTENDS JSCDebugger, FiniteSetTheorems, SequenceTheorems, WellFoundedInduction, TLAPS

-----------------------------------------------------------------------------
(***************************************************************************)
(* Sequences that grow and shrink at the end.                              *)
(***************************************************************************)
\* A frame is pushed.
LEMMA Pushed ==
    ASSUME NEW S, NEW s \in Seq(S), NEW x \in S
    PROVE  /\ Len(s) \in Nat
           /\ Append(s, x) \in Seq(S) /\ Append(s, x) # <<>>
           /\ Len(Append(s, x)) = Len(s) + 1
           /\ Append(s, x)[Len(s) + 1] = x
           /\ Last(Append(s, x)) = x
           /\ \A i \in 1..Len(s) : Append(s, x)[i] = s[i]
<1>1. /\ Len(s) \in Nat /\ Append(s, x) \in Seq(S) /\ Len(Append(s, x)) = Len(s) + 1
      /\ Append(s, x)[Len(s) + 1] = x
      /\ \A i \in 1..Len(s) : Append(s, x)[i] = s[i]
  OBVIOUS
<1>2. Last(Append(s, x)) = x
  BY <1>1 DEF Last
<1>3. Append(s, x) # <<>>
  BY <1>1, EmptySeq
<1> QED
  BY <1>1, <1>2, <1>3

\* A frame is popped.
LEMMA Popped ==
    ASSUME NEW S, NEW s \in Seq(S), s # <<>>
    PROVE  /\ Len(s) \in Nat /\ Len(s) >= 1
           /\ Last(s) = s[Len(s)] /\ Last(s) \in S
           /\ Front(s) \in Seq(S)
           /\ Len(Front(s)) = Len(s) - 1
           /\ \A i \in 1..(Len(s) - 1) : Front(s)[i] = s[i]
<1>1. Len(s) \in Nat /\ Len(s) >= 1 /\ \A i \in 1..Len(s) : s[i] \in S
  BY EmptySeq
<1> DEFINE n == Len(s) - 1
<1>2. n \in Int /\ 1 \in Int /\ \A i \in 1..n : s[i] \in S
  BY <1>1
<1>3. /\ SubSeq(s, 1, n) \in Seq(S)
      /\ Len(SubSeq(s, 1, n)) = IF 1 <= n THEN n - 1 + 1 ELSE 0
      /\ \A i \in 1..(n - 1 + 1) : SubSeq(s, 1, n)[i] = s[1 + i - 1]
  BY <1>2, SubSeqProperties
<1>4. Front(s) = SubSeq(s, 1, n)
  BY DEF Front
<1> HIDE DEF n
<1>5. n \in Nat
  BY <1>1 DEF n
<1>6. Len(SubSeq(s, 1, n)) = n /\ \A i \in 1..n : SubSeq(s, 1, n)[i] = s[i]
  BY <1>3, <1>5
<1>7. Front(s) \in Seq(S) /\ Len(Front(s)) = n /\ \A i \in 1..n : Front(s)[i] = s[i]
  BY <1>3, <1>4, <1>6
<1> QED
  BY <1>1, <1>7 DEF n, Last

\* A sequence of bounded length.
LEMMA Bounded ==
    ASSUME NEW S, NEW s \in Seq(S), NEW n \in Nat, Len(s) <= n
    PROVE  s \in BoundedSeq(S, n)
<1>1. s \in [1..Len(s) -> S] /\ Len(s) \in 0..n
  BY LenProperties
<1> QED
  BY <1>1 DEF BoundedSeq, SeqOf

\* A sequence without repetitions is no longer than the set of its elements.
LEMMA InjectiveBounded ==
    ASSUME NEW S, IsFiniteSet(S), NEW s \in Seq(S), IsInjective(s)
    PROVE  Len(s) <= Cardinality(S) /\ Cardinality(S) \in Nat
<1>1. Len(s) \in Nat /\ s \in [1..Len(s) -> S]
  BY LenProperties
<1>2. s \in Injection(1..Len(s), S)
  BY <1>1 DEF Injection, IsInjective
<1>3. Cardinality(1..Len(s)) <= Cardinality(S)
  BY <1>2, FS_Injection
<1>4. Cardinality(1..Len(s)) = Len(s)
  BY <1>1, FS_Interval
<1> QED
  BY <1>3, <1>4, FS_CardinalityType

\* A set of numbers with an upper bound has a largest one.
LEMMA Largest ==
    ASSUME NEW n \in Nat, NEW T \in SUBSET (1..n), T # {}
    PROVE  Max(T) \in T /\ \A y \in T : y <= Max(T)
<1> DEFINE D == {n - x : x \in T}
<1>1. D \in SUBSET Nat /\ D # {}
  <2>1. \A x \in T : n - x \in Nat
    OBVIOUS
  <2>2. D \in SUBSET Nat
    BY <2>1
  <2>3. PICK x \in T : TRUE
    OBVIOUS
  <2>4. n - x \in D
    OBVIOUS
  <2> QED
    BY <2>2, <2>4
<1>2. PICK d \in D : \A e \in D : ~(<<e, d>> \in OpToRel(<, Nat))
  BY <1>1, NatLessThanWellFounded, WFMin
<1>3. \A e \in D : ~(e < d)
  BY <1>1, <1>2 DEF OpToRel
<1>4. PICK x \in T : d = n - x
  OBVIOUS
<1>5. \A y \in T : x >= y
  <2> TAKE y \in T
  <2>1. n - y \in D /\ x \in Int /\ y \in Int
    OBVIOUS
  <2>2. ~(n - y < n - x)
    BY <1>3, <1>4, <2>1
  <2> QED
    BY <2>1, <2>2
<1>6. Max(T) \in T /\ \A y \in T : Max(T) >= y
  BY <1>5 DEF Max
<1> QED
  BY <1>6

-----------------------------------------------------------------------------
(***************************************************************************)
(* Where the hooked frames of a stack are in the chain.                    *)
(***************************************************************************)
\* The chain of length m ends with a frame for each depth up to n that is in H: pos[d] of its
\* frames are those of the depths up to d, and of programs that have ended.
Places(pos, n, H, m) ==
    /\ pos \in [Nat -> Int]
    /\ pos[n] = m /\ pos[0] >= 0
    /\ \A d \in 1..n : pos[d] = IF d \in H THEN pos[d - 1] + 1 ELSE pos[d - 1]
    /\ \A d, e \in 0..n : d <= e => pos[d] <= pos[e]
    /\ \A d, e \in 0..n : d <= e /\ (\A k \in (d + 1)..e : k \notin H) => pos[d] = pos[e]

\* Only the depths up to n matter.
LEMMA PlacesSame ==
    ASSUME NEW pos, NEW n \in Nat, NEW H, NEW G, NEW m, Places(pos, n, H, m),
           \A d \in 1..n : d \in G <=> d \in H
    PROVE  Places(pos, n, G, m)
<1>1. /\ pos \in [Nat -> Int] /\ pos[n] = m /\ pos[0] >= 0
      /\ \A d, e \in 0..n : d <= e => pos[d] <= pos[e]
  BY DEF Places
<1>2. \A d \in 1..n : pos[d] = IF d \in G THEN pos[d - 1] + 1 ELSE pos[d - 1]
  BY DEF Places
<1>3. ASSUME NEW d \in 0..n, NEW e \in 0..n, d <= e, \A k \in (d + 1)..e : k \notin G
      PROVE  pos[d] = pos[e]
  <2>1. \A k \in (d + 1)..e : k \notin H
    BY <1>3
  <2> QED
    BY <1>3, <2>1 DEF Places
<1> QED
  BY <1>1, <1>2, <1>3 DEF Places

\* A frame is called, with hooks or without.
LEMMA PlacesPush ==
    ASSUME NEW pos, NEW n \in Nat, NEW H, NEW G, NEW m \in Nat, Places(pos, n, H, m),
           \A d \in 1..n : d \in G <=> d \in H
    PROVE  \E q : /\ Places(q, n + 1, G, IF n + 1 \in G THEN m + 1 ELSE m)
                  /\ \A d \in 0..n : q[d] = pos[d]
<1> DEFINE k == IF n + 1 \in G THEN m + 1 ELSE m
           q == [pos EXCEPT ![n + 1] = k]
<1>0. Places(pos, n, G, m)
  BY PlacesSame
<1>1. /\ pos \in [Nat -> Int] /\ pos[n] = m /\ pos[0] >= 0
      /\ \A d \in 1..n : pos[d] = IF d \in G THEN pos[d - 1] + 1 ELSE pos[d - 1]
      /\ \A d, e \in 0..n : d <= e => pos[d] <= pos[e]
      /\ \A d, e \in 0..n : d <= e /\ (\A i \in (d + 1)..e : i \notin G) => pos[d] = pos[e]
  BY <1>0 DEF Places
<1>2. k \in Int /\ k >= m /\ (n + 1 \notin G => k = m) /\ (n + 1 \in G => k = m + 1)
  OBVIOUS
<1>3. q \in [Nat -> Int] /\ q[n + 1] = k /\ \A d \in 0..n : q[d] = pos[d]
  BY <1>1, <1>2
<1> HIDE DEF q, k
<1>4. q[0] >= 0
  BY <1>1, <1>3
<1>5. ASSUME NEW d \in 1..(n + 1) PROVE q[d] = IF d \in G THEN q[d - 1] + 1 ELSE q[d - 1]
  <2>1. CASE d = n + 1
    <3>1. d - 1 = n /\ q[n] = m
      BY <1>1, <1>3, <2>1
    <3> QED
      BY <2>1, <3>1, <1>2, <1>3
  <2>2. CASE d \in 1..n
    <3>1. d \in 0..n /\ d - 1 \in 0..n
      BY <2>2
    <3> QED
      BY <2>2, <3>1, <1>1, <1>3
  <2> QED
    BY <2>1, <2>2
<1>6. ASSUME NEW d \in 0..(n + 1), NEW e \in 0..(n + 1), d <= e
      PROVE  q[d] <= q[e] /\ ((\A i \in (d + 1)..e : i \notin G) => q[d] = q[e])
  <2>1. CASE e \in 0..n
    <3>1. d \in 0..n
      BY <1>6, <2>1
    <3> QED
      BY <1>1, <1>3, <1>6, <2>1, <3>1
  <2>2. CASE e = n + 1 /\ d = n + 1
    BY <1>2, <1>3, <2>2
  <2>3. CASE e = n + 1 /\ d \in 0..n
    <3>1. n \in 0..n /\ d <= n /\ pos[d] \in Int /\ q[e] = k /\ q[d] = pos[d]
      BY <1>1, <1>3, <2>3
    <3>2. pos[d] <= m
      BY <1>1, <2>3, <3>1
    <3>3. ASSUME \A i \in (d + 1)..e : i \notin G PROVE q[d] = q[e]
      <4>1. n + 1 \notin G /\ \A i \in (d + 1)..n : i \notin G
        BY <2>3, <3>3
      <4>2. pos[d] = pos[n]
        BY <1>1, <2>3, <3>1, <4>1
      <4> QED
        BY <1>1, <1>2, <3>1, <4>1, <4>2
    <3> QED
      BY <1>2, <3>1, <3>2, <3>3
  <2> QED
    BY <2>1, <2>2, <2>3, <1>6
<1>7. Places(q, n + 1, G, k)
  BY <1>3, <1>4, <1>5, <1>6 DEF Places
<1> QED
  BY <1>3, <1>7 DEF k

\* A frame returns, with hooks or without.
LEMMA PlacesPop ==
    ASSUME NEW pos, NEW n \in Nat, n >= 1, NEW H, NEW G, NEW m \in Nat, Places(pos, n, H, m),
           \A d \in 1..(n - 1) : d \in G <=> d \in H
    PROVE  Places(pos, n - 1, G, IF n \in H THEN m - 1 ELSE m)
<1>1. /\ pos \in [Nat -> Int] /\ pos[n] = m /\ pos[0] >= 0
      /\ \A d \in 1..n : pos[d] = IF d \in H THEN pos[d - 1] + 1 ELSE pos[d - 1]
      /\ \A d, e \in 0..n : d <= e => pos[d] <= pos[e]
      /\ \A d, e \in 0..n : d <= e /\ (\A i \in (d + 1)..e : i \notin H) => pos[d] = pos[e]
  BY DEF Places
<1>2. n \in 1..n /\ n - 1 \in Nat
  OBVIOUS
<1>3. pos[n - 1] = IF n \in H THEN m - 1 ELSE m
  <2>1. pos[n] = IF n \in H THEN pos[n - 1] + 1 ELSE pos[n - 1]
    BY <1>1, <1>2
  <2>2. pos[n - 1] \in Int /\ pos[n] = m
    BY <1>1, <1>2
  <2> QED
    BY <2>1, <2>2
<1>4. \A d \in 1..(n - 1) : pos[d] = IF d \in G THEN pos[d - 1] + 1 ELSE pos[d - 1]
  BY <1>1
<1>5. ASSUME NEW d \in 0..(n - 1), NEW e \in 0..(n - 1), d <= e
      PROVE  pos[d] <= pos[e] /\ ((\A i \in (d + 1)..e : i \notin G) => pos[d] = pos[e])
  <2>1. d \in 0..n /\ e \in 0..n
    OBVIOUS
  <2>2. ASSUME \A i \in (d + 1)..e : i \notin G PROVE \A i \in (d + 1)..e : i \notin H
    BY <2>2
  <2> QED
    BY <1>1, <1>5, <2>1, <2>2
<1> QED
  BY <1>1, <1>3, <1>4, <1>5 DEF Places

\* The depths in H above d, up to n.
Above(H, d, n) == H \cap ((d + 1)..n)

\* A chain that is long enough for all hooked frames has a place for each.
LEMMA PlacesExist ==
    ASSUME NEW n \in Nat, NEW H \in SUBSET (1..n), NEW m \in Nat, m >= Cardinality(H)
    PROVE  \E pos : Places(pos, n, H, m)
<1> DEFINE pos == [d \in Nat |-> m - Cardinality(Above(H, d, n))]
<1>0. \A k \in H : k \in Nat /\ 1 <= k /\ k <= n
  OBVIOUS
<1>1. IsFiniteSet(H) /\ Cardinality(H) \in Nat
  <2>1. IsFiniteSet(1..n)
    BY FS_Interval
  <2> QED
    BY <2>1, FS_Subset, FS_CardinalityType
<1>2. ASSUME NEW d \in Nat PROVE IsFiniteSet(Above(H, d, n)) /\ Cardinality(Above(H, d, n)) \in Nat
  <2>1. Above(H, d, n) \in SUBSET H
    BY DEF Above
  <2> QED
    BY <2>1, <1>1, FS_Subset, FS_CardinalityType
<1>3. pos \in [Nat -> Int] /\ \A d \in Nat : pos[d] = m - Cardinality(Above(H, d, n))
  BY <1>2
<1>4. pos[n] = m
  <2>1. Above(H, n, n) = {}
    BY <1>0 DEF Above
  <2>2. Cardinality({}) = 0
    BY FS_EmptySet
  <2> QED
    BY <1>3, <2>1, <2>2
<1>5. pos[0] >= 0
  <2>1. Above(H, 0, n) \in SUBSET H /\ 0 \in Nat
    BY DEF Above
  <2>2. Cardinality(Above(H, 0, n)) <= Cardinality(H)
    BY <1>1, <2>1, FS_Subset
  <2>3. pos[0] = m - Cardinality(Above(H, 0, n)) /\ Cardinality(Above(H, 0, n)) \in Nat
    BY <1>2, <1>3, <2>1
  <2> HIDE DEF pos
  <2> QED
    BY <1>1, <2>2, <2>3
<1>6. ASSUME NEW d \in 1..n PROVE pos[d] = IF d \in H THEN pos[d - 1] + 1 ELSE pos[d - 1]
  <2>1. d - 1 \in Nat /\ d \in Nat
    OBVIOUS
  <2>2. CASE d \in H
    <3>1. Above(H, d - 1, n) = Above(H, d, n) \cup {d} /\ d \notin Above(H, d, n)
      BY <1>0, <2>2 DEF Above
    <3>2. Cardinality(Above(H, d - 1, n)) = Cardinality(Above(H, d, n)) + 1
      BY <1>2, <2>1, <3>1, FS_AddElement
    <3>3. pos[d] = m - Cardinality(Above(H, d, n)) /\ pos[d - 1] = m - Cardinality(Above(H, d - 1, n))
      BY <1>3, <2>1
    <3>4. Cardinality(Above(H, d, n)) \in Nat
      BY <1>2, <2>1
    <3> HIDE DEF pos
    <3> QED
      BY <2>2, <3>2, <3>3, <3>4
  <2>3. CASE d \notin H
    <3>1. Above(H, d - 1, n) = Above(H, d, n)
      BY <1>0, <2>3 DEF Above
    <3> QED
      BY <2>3, <3>1, <1>3, <2>1
  <2> QED
    BY <2>2, <2>3
<1>7. ASSUME NEW d \in 0..n, NEW e \in 0..n, d <= e
      PROVE  pos[d] <= pos[e] /\ ((\A i \in (d + 1)..e : i \notin H) => pos[d] = pos[e])
  <2>1. d \in Nat /\ e \in Nat /\ Above(H, e, n) \in SUBSET Above(H, d, n)
    BY <1>0, <1>7 DEF Above
  <2>2. Cardinality(Above(H, e, n)) <= Cardinality(Above(H, d, n))
    BY <2>1, <1>2, FS_Subset
  <2>3. (\A i \in (d + 1)..e : i \notin H) => Above(H, d, n) = Above(H, e, n)
    BY <1>0, <1>7 DEF Above
  <2>4. Cardinality(Above(H, d, n)) \in Nat /\ Cardinality(Above(H, e, n)) \in Nat
    BY <1>2, <2>1
  <2>5. pos[d] = m - Cardinality(Above(H, d, n)) /\ pos[e] = m - Cardinality(Above(H, e, n))
    BY <1>3, <2>1
  <2> HIDE DEF pos
  <2> QED
    BY <2>2, <2>3, <2>4, <2>5
<1> HIDE DEF pos
<1>8. Places(pos, n, H, m)
  BY <1>3, <1>4, <1>5, <1>6, <1>7 DEF Places
<1> QED
  BY <1>8

-----------------------------------------------------------------------------
(***************************************************************************)
(* A step over that has to stop at depth s of a stack of n frames, those in *)
(* H with hooks, when the chain is c and the frame to pause on is t.        *)
(***************************************************************************)
StepAt(s, n, H, c, t) ==
    s # 0 => /\ s \in 1..n /\ s \in H
             /\ \E pos : Places(pos, n, H, Len(c)) /\ t = c[pos[s]]

\* The frame of a hooked depth is in the chain.
LEMMA PlaceInChain ==
    ASSUME NEW n \in Nat, NEW H, NEW c \in Seq(Frames), NEW pos, Places(pos, n, H, Len(c)),
           NEW s \in 1..n, s \in H
    PROVE  pos[s] \in 1..Len(c) /\ pos[s - 1] = pos[s] - 1 /\ pos[s - 1] \in Nat
<1>1. s - 1 \in 0..n /\ s \in 0..n /\ 0 \in 0..n /\ n \in 0..n /\ Len(c) \in Nat
  OBVIOUS
<1>2. pos[s] \in Int /\ pos[s - 1] \in Int /\ pos[0] \in Int
  BY <1>1 DEF Places
<1>3. pos[0] <= pos[s - 1] /\ pos[0] >= 0 /\ pos[s] <= pos[n] /\ pos[n] = Len(c) /\ pos[s] = pos[s - 1] + 1
  BY <1>1 DEF Places
<1> QED
  BY <1>1, <1>2, <1>3

\* Nothing above the depths of the stack matters.
LEMMA StepSame ==
    ASSUME NEW s, NEW n \in Nat, NEW H, NEW G, NEW c, NEW t, StepAt(s, n, H, c, t),
           \A d \in 1..n : d \in G <=> d \in H
    PROVE  StepAt(s, n, G, c, t)
<1> SUFFICES ASSUME s # 0
             PROVE  s \in 1..n /\ s \in G /\ \E pos : Places(pos, n, G, Len(c)) /\ t = c[pos[s]]
  BY DEF StepAt
<1>1. s \in 1..n /\ s \in H
  BY DEF StepAt
<1>2. PICK pos : Places(pos, n, H, Len(c)) /\ t = c[pos[s]]
  BY DEF StepAt
<1>3. Places(pos, n, G, Len(c))
  BY <1>2, PlacesSame
<1> QED
  BY <1>1, <1>2, <1>3

\* Code without hooks is called.
LEMMA StepPushPlain ==
    ASSUME NEW s, NEW n \in Nat, NEW H, NEW G, NEW c \in Seq(Frames), NEW t, StepAt(s, n, H, c, t),
           \A d \in 1..n : d \in G <=> d \in H, n + 1 \notin G
    PROVE  StepAt(s, n + 1, G, c, t)
<1> SUFFICES ASSUME s # 0
             PROVE  s \in 1..(n + 1) /\ s \in G /\ \E pos : Places(pos, n + 1, G, Len(c)) /\ t = c[pos[s]]
  BY DEF StepAt
<1>1. s \in 1..n /\ s \in H
  BY DEF StepAt
<1>2. PICK pos : Places(pos, n, H, Len(c)) /\ t = c[pos[s]]
  BY DEF StepAt
<1>3. PICK q : /\ Places(q, n + 1, G, IF n + 1 \in G THEN Len(c) + 1 ELSE Len(c))
               /\ \A d \in 0..n : q[d] = pos[d]
  BY <1>2, PlacesPush
<1>4. Places(q, n + 1, G, Len(c)) /\ q[s] = pos[s]
  BY <1>1, <1>3
<1> QED
  BY <1>1, <1>2, <1>4

\* Code with hooks is called, and createCallFrameAndPauseIfNeeded pushes a frame.
LEMMA StepPushHooked ==
    ASSUME NEW s, NEW n \in Nat, NEW H, NEW G, NEW c \in Seq(Frames), NEW t, StepAt(s, n, H, c, t),
           \A d \in 1..n : d \in G <=> d \in H, n + 1 \in G, NEW a \in Frames
    PROVE  StepAt(s, n + 1, G, Append(c, a), t)
<1> DEFINE b == Append(c, a)
<1> SUFFICES ASSUME s # 0
             PROVE  s \in 1..(n + 1) /\ s \in G /\ \E pos : Places(pos, n + 1, G, Len(b)) /\ t = b[pos[s]]
  BY DEF StepAt
<1>0. Len(c) \in Nat /\ Len(b) = Len(c) + 1 /\ \A i \in 1..Len(c) : b[i] = c[i]
  BY Pushed
<1> HIDE DEF b
<1>1. s \in 1..n /\ s \in H
  BY DEF StepAt
<1>2. PICK pos : Places(pos, n, H, Len(c)) /\ t = c[pos[s]]
  BY DEF StepAt
<1>3. PICK q : /\ Places(q, n + 1, G, IF n + 1 \in G THEN Len(c) + 1 ELSE Len(c))
               /\ \A d \in 0..n : q[d] = pos[d]
  BY <1>0, <1>2, PlacesPush
<1>4. Places(q, n + 1, G, Len(b)) /\ q[s] = pos[s]
  BY <1>0, <1>1, <1>3
<1>5. pos[s] \in 1..Len(c)
  BY <1>1, <1>2, PlaceInChain
<1> QED
  BY <1>0, <1>1, <1>2, <1>4, <1>5

\* Code without hooks returns.
LEMMA StepPopPlain ==
    ASSUME NEW s, NEW n \in Nat, n >= 1, NEW H, NEW G, NEW c \in Seq(Frames), NEW t, StepAt(s, n, H, c, t),
           \A d \in 1..(n - 1) : d \in G <=> d \in H, n \notin H
    PROVE  StepAt(s, n - 1, G, c, t)
<1> SUFFICES ASSUME s # 0
             PROVE  s \in 1..(n - 1) /\ s \in G /\ \E pos : Places(pos, n - 1, G, Len(c)) /\ t = c[pos[s]]
  BY DEF StepAt
<1>1. s \in 1..n /\ s \in H
  BY DEF StepAt
<1>2. PICK pos : Places(pos, n, H, Len(c)) /\ t = c[pos[s]]
  BY DEF StepAt
<1>3. s \in 1..(n - 1) /\ s \in G
  BY <1>1
<1>4. Places(pos, n - 1, G, Len(c))
  <2>1. Len(c) \in Nat
    OBVIOUS
  <2>2. Places(pos, n - 1, G, IF n \in H THEN Len(c) - 1 ELSE Len(c))
    BY <1>2, <2>1, PlacesPop
  <2> QED
    BY <2>2
<1> QED
  BY <1>2, <1>3, <1>4

\* What a return leaves: the frames, the frame to pause on and the depth to stop at.
FramesLeft(c) == IF c = <<>> THEN c ELSE Front(c)
TargetLeft(c, t) == IF c # <<>> /\ t = Last(c) THEN Caller(c) ELSE t
StepLeft(s, n, below) == IF s # n THEN s ELSE IF below = {} THEN 0 ELSE Max(below)

\* Code with hooks returns, and returnEvent pops its frame.  When it is the one to pause on,
\* its caller takes its place.
LEMMA StepPopHooked ==
    ASSUME NEW s, NEW n \in Nat, n >= 1, NEW H \in SUBSET (1..n), NEW G,
           NEW c \in Seq(Frames), IsInjective(c), NEW t, StepAt(s, n, H, c, t), s # 0,
           \A d \in 1..(n - 1) : d \in G <=> d \in H, n \in H,
           NEW below \in SUBSET (1..n), \A d \in 1..n : d \in below <=> d \in H /\ d < n
    PROVE  /\ StepLeft(s, n, below) \in Nat
           /\ StepAt(StepLeft(s, n, below), n - 1, G, FramesLeft(c), TargetLeft(c, t))
<1> USE DEF StepLeft, FramesLeft, TargetLeft
<1>1. s \in 1..n /\ s \in H /\ Len(c) \in Nat
  BY DEF StepAt
<1>2. PICK pos : Places(pos, n, H, Len(c)) /\ t = c[pos[s]]
  BY DEF StepAt
<1>3. pos[n] \in 1..Len(c) /\ pos[n - 1] = pos[n] - 1 /\ pos[n - 1] \in Nat /\ pos[n] = Len(c)
  <2>1. n \in 1..n
    OBVIOUS
  <2>2. pos[n] = Len(c)
    BY <1>2 DEF Places
  <2>3. \A i \in 1..n : i \in H => pos[i] \in 1..Len(c) /\ pos[i - 1] = pos[i] - 1 /\ pos[i - 1] \in Nat
    BY <1>2, PlaceInChain
  <2> QED
    BY <2>1, <2>2, <2>3
<1>4. c # <<>>
  BY <1>3, EmptySeq
<1>5. /\ Front(c) \in Seq(Frames) /\ Len(Front(c)) = Len(c) - 1 /\ Last(c) = c[Len(c)] /\ FramesLeft(c) = Front(c)
      /\ \A i \in 1..(Len(c) - 1) : Front(c)[i] = c[i]
  BY <1>4, Popped
<1>6. Places(pos, n - 1, G, Len(Front(c)))
  <2>1. Places(pos, n - 1, G, IF n \in H THEN Len(c) - 1 ELSE Len(c))
    BY <1>1, <1>2, PlacesPop
  <2> QED
    BY <1>5, <2>1
<1>7. \A i, j \in 1..Len(c) : c[i] = c[j] => i = j
  BY DEF IsInjective
<1>8. CASE s # n
  <2>1. s \in 1..(n - 1) /\ s \in G /\ s \in 0..n /\ n - 1 \in 0..n /\ s <= n - 1
    BY <1>1, <1>8
  <2>2. pos[s] \in 1..Len(c) /\ pos[s] <= pos[n - 1]
    BY <1>1, <1>2, <2>1, PlaceInChain DEF Places
  <2>3. pos[s] \in 1..(Len(c) - 1) /\ pos[s] # Len(c)
    BY <1>1, <1>3, <2>2
  <2>4. t # Last(c) /\ t = Front(c)[pos[s]]
    <3>1. Len(c) \in 1..Len(c)
      BY <1>3
    <3> QED
      BY <1>2, <1>5, <1>7, <2>2, <2>3, <3>1
  <2>5. StepAt(s, n - 1, G, Front(c), t)
    BY <1>6, <2>1, <2>4 DEF StepAt
  <2> QED
    BY <1>1, <1>4, <1>5, <1>8, <2>4, <2>5
<1>9. CASE s = n /\ below = {}
  BY <1>4, <1>9 DEF StepAt
<1>10. CASE s = n /\ below # {}
  <2> DEFINE e == Max(below)
  <2>1. below \in SUBSET (1..n) /\ \A d \in 1..n : d \in below <=> d \in H /\ d < n
    OBVIOUS
  <2>2. e \in below /\ \A y \in below : y <= e
    BY <1>10, <2>1, Largest
  <2> HIDE DEF e
  <2>3. e \in 1..(n - 1) /\ e \in H /\ e \in G /\ e \in 1..n
    BY <2>1, <2>2
  <2>4. \A k \in (e + 1)..(n - 1) : k \notin H
    <3> SUFFICES ASSUME NEW k \in (e + 1)..(n - 1), k \in H PROVE FALSE
      OBVIOUS
    <3>1. k \in 1..n /\ k < n /\ k > e
      BY <2>3
    <3>2. k \in below
      BY <2>1, <3>1
    <3> QED
      BY <2>2, <2>3, <3>1, <3>2
  <2>5. pos[e] = pos[n - 1]
    <3>1. e \in 0..n /\ n - 1 \in 0..n /\ e <= n - 1
      BY <2>3
    <3> QED
      BY <1>2, <2>4, <3>1 DEF Places
  <2>6. pos[e] \in 1..Len(c)
    BY <1>2, <2>3, PlaceInChain
  <2>7. pos[e] = Len(c) - 1 /\ Len(c) > 1 /\ Len(c) - 1 \in 1..(Len(c) - 1)
    BY <1>1, <1>3, <2>5, <2>6
  <2>8. Caller(c) = Front(c)[pos[e]]
    BY <1>5, <2>7 DEF Caller
  <2>9. t = Last(c)
    BY <1>2, <1>3, <1>5, <1>10
  <2>10. StepAt(e, n - 1, G, Front(c), Caller(c))
    BY <1>6, <2>3, <2>8 DEF StepAt
  <2> QED
    BY <1>4, <1>5, <1>10, <2>3, <2>9, <2>10 DEF e
<1> QED
  BY <1>8, <1>9, <1>10

\* The client steps over the statement at which the debugger has paused.
LEMMA StepNew ==
    ASSUME NEW n \in Nat, NEW H \in SUBSET (1..n), n \in H, NEW c \in Seq(Frames), Len(c) >= Cardinality(H)
    PROVE  StepAt(n, n, H, c, Last(c))
<1>1. PICK pos : Places(pos, n, H, Len(c))
  <2>1. Len(c) \in Nat
    OBVIOUS
  <2> QED
    BY <2>1, PlacesExist
<1>2. Last(c) = c[pos[n]]
  BY <1>1 DEF Places, Last
<1> QED
  BY <1>1, <1>2 DEF StepAt

\* At hooked code the frame to pause on is the current one, unless the code is deeper than the
\* step over has to stop.
LEMMA StepStops ==
    ASSUME NEW s, NEW n \in Nat, NEW H, NEW c \in Seq(Frames), IsInjective(c), NEW t,
           StepAt(s, n, H, c, t), s # 0, n \in H, n >= 1
    PROVE  c # <<>> /\ (t = Last(c) <=> n <= s)
<1>1. s \in 1..n /\ s \in H /\ n \in 1..n /\ Len(c) \in Nat
  BY DEF StepAt
<1>2. PICK pos : Places(pos, n, H, Len(c)) /\ t = c[pos[s]]
  BY DEF StepAt
<1>3. /\ pos[n] \in 1..Len(c) /\ pos[n - 1] = pos[n] - 1 /\ pos[n] = Len(c)
      /\ pos[s] \in 1..Len(c)
  <2>1. pos[n] = Len(c)
    BY <1>2 DEF Places
  <2>2. \A i \in 1..n : i \in H => pos[i] \in 1..Len(c) /\ pos[i - 1] = pos[i] - 1 /\ pos[i - 1] \in Nat
    BY <1>2, PlaceInChain
  <2> QED
    BY <1>1, <2>1, <2>2
<1>4. c # <<>>
  BY <1>3, EmptySeq
<1>5. \A i, j \in 1..Len(c) : c[i] = c[j] => i = j
  BY DEF IsInjective
<1>6. Last(c) = c[Len(c)] /\ Len(c) \in 1..Len(c)
  BY <1>3 DEF Last
<1>7. CASE s = n
  BY <1>1, <1>2, <1>3, <1>4, <1>6, <1>7
<1>8. CASE s # n
  <2>1. s \in 0..n /\ n - 1 \in 0..n /\ s <= n - 1
    BY <1>1, <1>8
  <2>2. pos[s] <= pos[n - 1]
    BY <1>2, <2>1 DEF Places
  <2>3. pos[s] # Len(c)
    BY <1>1, <1>3, <2>2
  <2> QED
    BY <1>1, <1>2, <1>3, <1>4, <1>5, <1>6, <1>8, <2>3
<1> QED
  BY <1>7, <1>8

-----------------------------------------------------------------------------
(***************************************************************************)
(* The invariant.                                                          *)
(***************************************************************************)
\* The depth at which the debugger runs or has paused.
Base == IF IsPaused THEN pause.depth ELSE Depth

StackTypes == stack \in Seq(Code) /\ Depth <= MaxDepth

FrameTypes ==
    /\ chain \in Seq(Frames) /\ IsInjective(chain)
    /\ pauseOnCallFrame \in Frames \cup {Null}
    /\ pauseOnNextStatement \in BOOLEAN
    /\ wild \in BOOLEAN

\* A pause has a frame to show, and nothing returns below it.
PauseControl ==
    /\ pause \in Pauses \cup {Running}
    /\ IsPaused => chain # <<>> /\ pause.depth <= Depth

StepControl == step \in Nat /\ StepAt(step, Base, HookedDepths, chain, pauseOnCallFrame)

\* What the events of the interpreter preserve.
EventInv == StackTypes /\ FrameTypes /\ PauseControl /\ PauseTargetLive /\ StepControl

SessionTypes ==
    /\ throwing \subseteq 1..Depth
    /\ client \in BOOLEAN /\ shouldExit \in BOOLEAN
    /\ client => IsPaused
    /\ breakpoints \subseteq Lines

DebuggerInv == EventInv /\ SessionTypes

\* The frames of a stack and the depths with hooks.
LEMMA StackFacts ==
    ASSUME StackTypes
    PROVE  /\ Depth \in Nat /\ MaxDepth \in Nat
           /\ HookedDepths \in SUBSET (1..Depth)
           /\ DOMAIN stack = 1..Depth
           /\ stack # <<>> <=> Depth >= 1
           /\ Depth >= 1 => /\ Top \in Code /\ (Depth \in HookedDepths <=> Top.hooked)
<1>1. Len(stack) \in Nat /\ DOMAIN stack = 1..Len(stack) /\ stack \in Seq(Code)
  BY LenProperties DEF StackTypes
<1>2. stack # <<>> <=> Len(stack) >= 1
  BY <1>1, EmptySeq
<1>3. Len(stack) >= 1 => Top \in Code /\ (Len(stack) \in HookedDepths <=> Top.hooked)
  <2> SUFFICES ASSUME Len(stack) >= 1 PROVE Top \in Code /\ (Len(stack) \in HookedDepths <=> Top.hooked)
    OBVIOUS
  <2>1. Len(stack) \in 1..Len(stack) /\ Top = stack[Len(stack)]
    BY <1>1 DEF Top, Last
  <2> QED
    BY <1>1, <2>1, ElementOfSeq DEF HookedDepths
<1> QED
  BY <1>1, <1>2, <1>3, DebuggerAssumption DEF Depth, HookedDepths

\* A stack that a frame is pushed on.
LEMMA StackPush ==
    ASSUME StackTypes, NEW x \in Code, Depth < MaxDepth, stack' = Append(stack, x)
    PROVE  /\ StackTypes' /\ Depth' = Depth + 1 /\ Depth \in Nat /\ Depth' \in 1..MaxDepth
           /\ \A d \in 1..Depth : stack'[d] = stack[d]
           /\ \A d \in 1..Depth : d \in HookedDepths' <=> d \in HookedDepths
           /\ Depth + 1 \in HookedDepths' <=> x.hooked
<1>1. /\ stack' \in Seq(Code) /\ Len(stack') = Len(stack) + 1 /\ stack'[Len(stack) + 1] = x
      /\ Len(stack) \in Nat /\ \A d \in 1..Len(stack) : stack'[d] = stack[d]
  BY Pushed DEF StackTypes
<1>2. DOMAIN stack' = 1..(Len(stack) + 1) /\ DOMAIN stack = 1..Len(stack)
  BY <1>1, LenProperties DEF StackTypes
<1>3. \A d \in 1..Len(stack) : d \in HookedDepths' <=> d \in HookedDepths
  <2> TAKE d \in 1..Len(stack)
  <2>1. d \in 1..(Len(stack) + 1) /\ stack'[d] = stack[d]
    BY <1>1
  <2> QED
    BY <1>2, <2>1 DEF HookedDepths
<1>4. Len(stack) + 1 \in HookedDepths' <=> x.hooked
  <2>1. Len(stack) + 1 \in 1..(Len(stack) + 1)
    BY <1>1
  <2> QED
    BY <1>1, <1>2, <2>1 DEF HookedDepths
<1>5. Len(stack') <= MaxDepth
  BY <1>1, DebuggerAssumption DEF Depth
<1> QED
  BY <1>1, <1>3, <1>4, <1>5, DebuggerAssumption DEF Depth, StackTypes

\* A stack that a frame is popped from.
LEMMA StackPop ==
    ASSUME StackTypes, stack # <<>>, stack' = Front(stack)
    PROVE  /\ StackTypes' /\ Depth' = Depth - 1 /\ Depth \in Nat /\ Depth >= 1
           /\ \A d \in 1..(Depth - 1) : stack'[d] = stack[d]
           /\ \A d \in 1..(Depth - 1) : d \in HookedDepths' <=> d \in HookedDepths
<1>1. /\ stack' \in Seq(Code) /\ Len(stack') = Len(stack) - 1
      /\ Len(stack) \in Nat /\ Len(stack) >= 1 /\ \A d \in 1..(Len(stack) - 1) : stack'[d] = stack[d]
  BY Popped DEF StackTypes
<1>2. DOMAIN stack' = 1..(Len(stack) - 1) /\ DOMAIN stack = 1..Len(stack)
  BY <1>1, LenProperties DEF StackTypes
<1>3. \A d \in 1..(Len(stack) - 1) : d \in HookedDepths' <=> d \in HookedDepths
  <2> TAKE d \in 1..(Len(stack) - 1)
  <2>1. d \in 1..Len(stack) /\ stack'[d] = stack[d]
    BY <1>1
  <2> QED
    BY <1>2, <2>1 DEF HookedDepths
<1>4. Len(stack') <= MaxDepth
  BY <1>1, DebuggerAssumption DEF Depth, StackTypes
<1> QED
  BY <1>1, <1>3, <1>4 DEF Depth, StackTypes

\* The depth of a pause.
LEMMA BaseFacts ==
    ASSUME EventInv
    PROVE  Base \in Nat /\ Base <= Depth /\ (~IsPaused => Base = Depth)
           /\ (IsPaused => /\ Base = pause.depth /\ pause.depth \in 1..MaxDepth /\ pause.depth <= Depth
                           /\ pause.finishing \in BOOLEAN)
<1>1. Depth \in Nat
  BY StackFacts DEF EventInv
<1>2. IsPaused => pause \in Pauses /\ pause.depth <= Depth
  BY DEF IsPaused, EventInv, PauseControl
<1>3. IsPaused => pause.depth \in 1..MaxDepth /\ pause.finishing \in BOOLEAN
  BY <1>2 DEF Pauses
<1>4. MaxDepth \in Nat
  BY DebuggerAssumption
<1> QED
  BY <1>1, <1>2, <1>3, <1>4 DEF Base

-----------------------------------------------------------------------------
(***************************************************************************)
(* The events.                                                             *)
(***************************************************************************)
\* What does not involve the debugger leaves its frames.
LEMMA FramesKept ==
    ASSUME FrameTypes, PauseTargetLive, UNCHANGED <<chain, pauseOnNextStatement, pauseOnCallFrame, wild>>
    PROVE  FrameTypes' /\ PauseTargetLive'
<1>1. FrameTypes'
  BY DEF FrameTypes
<1>2. ToSet(chain') = ToSet(chain)
  BY DEF ToSet
<1>3. PauseTargetLive'
  BY <1>2 DEF PauseTargetLive
<1> QED
  BY <1>1, <1>3

\* Nothing that matters to the debugger happens.
LEMMA NothingHappens ==
    ASSUME EventInv, UNCHANGED <<stack, debuggerVars>>
    PROVE  EventInv'
<1>1. UNCHANGED <<stack, chain, pauseOnNextStatement, pause, pauseOnCallFrame, wild, step>>
  BY DEF debuggerVars, targetVars
<1>2. StackTypes' /\ Depth' = Depth /\ HookedDepths' = HookedDepths /\ Base' = Base /\ IsPaused' = IsPaused
  BY <1>1 DEF EventInv, StackTypes, Depth, HookedDepths, Base, IsPaused
<1>3. FrameTypes' /\ PauseTargetLive'
  BY <1>1, FramesKept DEF EventInv
<1>4. PauseControl'
  BY <1>1, <1>2 DEF EventInv, PauseControl
<1>5. StepControl'
  BY <1>1, <1>2 DEF EventInv, StepControl
<1> QED
  BY <1>2, <1>3, <1>4, <1>5 DEF EventInv

\* Code is called of which the debugger is not told, or told while it has paused.
LEMMA PushUnseen ==
    ASSUME EventInv, NEW x \in Code, Depth < MaxDepth, stack' = Append(stack, x),
           UNCHANGED debuggerVars, IsPaused \/ ~x.hooked
    PROVE  EventInv'
<1>1. UNCHANGED <<chain, pauseOnNextStatement, pause, pauseOnCallFrame, wild, step>>
  BY DEF debuggerVars, targetVars
<1>2. /\ StackTypes' /\ Depth' = Depth + 1 /\ Depth \in Nat
      /\ \A d \in 1..Depth : d \in HookedDepths' <=> d \in HookedDepths
      /\ Depth + 1 \in HookedDepths' <=> x.hooked
  BY StackPush DEF EventInv
<1>3. FrameTypes' /\ PauseTargetLive' /\ chain \in Seq(Frames)
  BY <1>1, FramesKept DEF EventInv, FrameTypes
<1>4. /\ Base \in Nat /\ Base <= Depth /\ (~IsPaused => Base = Depth)
      /\ IsPaused => Base = pause.depth /\ pause.depth \in 1..MaxDepth /\ pause.depth <= Depth
  BY BaseFacts
<1>5. (IsPaused <=> IsPaused') /\ Base' = IF IsPaused THEN Base ELSE Depth + 1
  BY <1>1, <1>2, <1>4 DEF IsPaused, Base
<1>6. PauseControl'
  <2>1. IsPaused => pause.depth <= Depth + 1
    BY <1>2, <1>4, DebuggerAssumption
  <2> QED
    BY <1>1, <1>2, <1>5, <2>1 DEF EventInv, PauseControl
<1>7. step \in Nat /\ StepAt(step, Base, HookedDepths, chain, pauseOnCallFrame)
  BY DEF EventInv, StepControl
<1>8. CASE IsPaused
  <2>1. \A d \in 1..Base : d \in HookedDepths' <=> d \in HookedDepths
    BY <1>2, <1>4
  <2>2. StepAt(step, Base, HookedDepths', chain, pauseOnCallFrame)
    BY <1>4, <1>7, <2>1, StepSame
  <2>3. StepControl'
    BY <1>1, <1>5, <1>7, <1>8, <2>2 DEF StepControl
  <2> QED
    BY <1>2, <1>3, <1>6, <2>3 DEF EventInv
<1>9. CASE ~IsPaused
  <2>1. Base = Depth /\ Depth + 1 \notin HookedDepths'
    BY <1>2, <1>4, <1>9
  <2>2. StepAt(step, Depth, HookedDepths, chain, pauseOnCallFrame)
    BY <1>7, <2>1
  <2>3. StepAt(step, Depth + 1, HookedDepths', chain, pauseOnCallFrame)
    BY <1>2, <1>3, <2>1, <2>2, StepPushPlain
  <2>4. StepControl'
    BY <1>1, <1>5, <1>7, <1>9, <2>3 DEF StepControl
  <2> QED
    BY <1>2, <1>3, <1>6, <2>4 DEF EventInv
<1> QED
  BY <1>8, <1>9

\* Code returns of which the debugger is not told, or told while it has paused.
LEMMA PopUnseen ==
    ASSUME EventInv, stack # <<>>, stack' = Front(stack), UNCHANGED debuggerVars,
           IsPaused => Depth > pause.depth, ~IsPaused => ~Top.hooked
    PROVE  EventInv'
<1>1. UNCHANGED <<chain, pauseOnNextStatement, pause, pauseOnCallFrame, wild, step>>
  BY DEF debuggerVars, targetVars
<1>2. /\ StackTypes' /\ Depth' = Depth - 1 /\ Depth \in Nat /\ Depth >= 1
      /\ \A d \in 1..(Depth - 1) : d \in HookedDepths' <=> d \in HookedDepths
  BY StackPop DEF EventInv
<1>3. FrameTypes' /\ PauseTargetLive' /\ chain \in Seq(Frames)
  BY <1>1, FramesKept DEF EventInv, FrameTypes
<1>4. /\ Base \in Nat /\ Base <= Depth /\ (~IsPaused => Base = Depth)
      /\ IsPaused => Base = pause.depth /\ pause.depth \in 1..MaxDepth /\ pause.depth <= Depth
  BY BaseFacts
<1>5. (IsPaused <=> IsPaused') /\ Base' = IF IsPaused THEN Base ELSE Depth - 1
  BY <1>1, <1>2, <1>4 DEF IsPaused, Base
<1>6. PauseControl'
  <2>1. IsPaused => pause.depth <= Depth - 1
    BY <1>2, <1>4, DebuggerAssumption
  <2> QED
    BY <1>1, <1>2, <1>5, <2>1 DEF EventInv, PauseControl
<1>7. step \in Nat /\ StepAt(step, Base, HookedDepths, chain, pauseOnCallFrame)
  BY DEF EventInv, StepControl
<1>8. CASE IsPaused
  <2>1. Base <= Depth - 1
    BY <1>2, <1>4, <1>8, DebuggerAssumption
  <2>2. \A d \in 1..Base : d \in HookedDepths' <=> d \in HookedDepths
    BY <1>2, <1>4, <2>1
  <2>3. StepAt(step, Base, HookedDepths', chain, pauseOnCallFrame)
    BY <1>4, <1>7, <2>2, StepSame
  <2>4. StepControl'
    BY <1>1, <1>5, <1>7, <1>8, <2>3 DEF StepControl
  <2> QED
    BY <1>2, <1>3, <1>6, <2>4 DEF EventInv
<1>9. CASE ~IsPaused
  <2>1. Base = Depth /\ Depth \notin HookedDepths
    BY <1>2, <1>4, <1>9, StackFacts DEF EventInv
  <2>2. StepAt(step, Depth, HookedDepths, chain, pauseOnCallFrame)
    BY <1>7, <2>1
  <2>3. StepAt(step, Depth - 1, HookedDepths', chain, pauseOnCallFrame)
    BY <1>2, <1>3, <2>1, <2>2, StepPopPlain
  <2>4. StepControl'
    BY <1>1, <1>5, <1>7, <1>9, <2>3 DEF StepControl
  <2> QED
    BY <1>2, <1>3, <1>6, <2>4 DEF EventInv
<1> QED
  BY <1>8, <1>9

\* The debugger pauses, and forgets what it was to pause on.
LEMMA PauseStarts ==
    ASSUME NEW c \in Seq(Frames), c # <<>>, IsInjective(c), StackTypes', Depth' >= 1,
           NEW finishing \in BOOLEAN, Pause(c, finishing)
    PROVE  EventInv' /\ IsPaused' /\ pause'.depth = Depth'
<1>1. /\ chain' = c /\ pauseOnCallFrame' = Null /\ pauseOnNextStatement' = FALSE
      /\ pause' = [depth |-> Depth', finishing |-> finishing, shown |-> Depth']
      /\ wild' = FALSE /\ step' = 0
  BY DEF Pause, Depth
<1>2. Depth' \in Nat /\ Depth' <= MaxDepth
  BY DEF StackTypes, Depth
<1>3. Depth' \in 1..MaxDepth
  BY <1>2, DebuggerAssumption
<1>4. pause' \in Pauses /\ pause'.depth = Depth'
  BY <1>1, <1>3 DEF Pauses
<1>5. IsPaused'
  BY <1>4, RunningAssumption DEF IsPaused
<1>6. PauseControl'
  BY <1>1, <1>2, <1>4 DEF PauseControl
<1>7. FrameTypes' /\ PauseTargetLive'
  BY <1>1 DEF FrameTypes, PauseTargetLive
<1>8. StepControl'
  BY <1>1 DEF StepControl, StepAt
<1> QED
  BY <1>4, <1>5, <1>6, <1>7, <1>8 DEF EventInv

\* pauseIfNeeded pauses, or the event ends.
LEMMA PauseIfNeededKeeps ==
    ASSUME EventInv, ~IsPaused, StackTypes', Depth' >= 1,
           NEW c \in Seq(Frames), IsInjective(c), ToSet(chain) \subseteq ToSet(c),
           NEW next \in BOOLEAN, NEW l, PauseIfNeeded(c, next, l),
           StepAt(step, Depth', HookedDepths', c, pauseOnCallFrame)
    PROVE  EventInv'
<1>1. CASE PauseNow(c, next, l)
  <2>1. Pause(c, FALSE) /\ c # <<>> /\ FALSE \in BOOLEAN
    BY <1>1 DEF PauseIfNeeded, PauseNow
  <2> QED
    BY <2>1, PauseStarts
<1>2. CASE ~PauseNow(c, next, l)
  <2>1. /\ chain' = c /\ pauseOnNextStatement' = next /\ pause' = pause
        /\ pauseOnCallFrame' = pauseOnCallFrame /\ wild' = wild /\ step' = step
    BY <1>2 DEF PauseIfNeeded, targetVars
  <2>2. pause = Running /\ ~IsPaused' /\ Base' = Depth'
    BY <2>1 DEF IsPaused, Base
  <2>3. PauseControl'
    BY <2>1, <2>2 DEF PauseControl
  <2>4. FrameTypes'
    BY <2>1 DEF EventInv, FrameTypes
  <2>5. PauseTargetLive'
    BY <2>1 DEF EventInv, PauseTargetLive
  <2>6. StepControl'
    BY <2>1, <2>2 DEF EventInv, StepControl
  <2> QED
    BY <2>3, <2>4, <2>5, <2>6 DEF EventInv
<1> QED
  BY <1>1, <1>2

\* An event that changes neither the stack nor the chain.
LEMMA UpdateKeeps ==
    ASSUME EventInv, stack # <<>>, UNCHANGED stack, NEW next \in BOOLEAN, NEW l,
           IF IsPaused THEN UNCHANGED debuggerVars ELSE UpdateCallFrame(next, l)
    PROVE  EventInv'
<1>1. CASE IsPaused
  BY <1>1, NothingHappens
<1>2. CASE ~IsPaused
  <2>1. PauseIfNeeded(chain, next, l)
    BY <1>2 DEF UpdateCallFrame
  <2>2. StackTypes' /\ Depth' = Depth /\ HookedDepths' = HookedDepths
    BY DEF EventInv, StackTypes, Depth, HookedDepths
  <2>3. Depth' >= 1
    BY <2>2, StackFacts DEF EventInv
  <2>4. chain \in Seq(Frames) /\ IsInjective(chain) /\ ToSet(chain) \subseteq ToSet(chain)
    BY DEF EventInv, FrameTypes
  <2>5. StepAt(step, Depth', HookedDepths', chain, pauseOnCallFrame)
    BY <1>2, <2>2 DEF EventInv, StepControl, Base
  <2> QED
    BY <1>2, <2>1, <2>2, <2>3, <2>4, <2>5, PauseIfNeededKeeps
<1> QED
  BY <1>1, <1>2

\* Code with hooks is called.
LEMMA CreateKeeps ==
    ASSUME EventInv, NEW x \in Code, x.hooked, Depth < MaxDepth, stack' = Append(stack, x),
           NEW l, CallEvent(l)
    PROVE  EventInv'
<1>1. CASE IsPaused
  BY <1>1, PushUnseen DEF CallEvent
<1>2. CASE ~IsPaused
  <2>1. PICK a \in Frames \ ToSet(chain) : PauseIfNeeded(Append(chain, a), pauseOnNextStatement, l)
    BY <1>2 DEF CallEvent, CreateCallFrame
  <2>2. /\ StackTypes' /\ Depth' = Depth + 1 /\ Depth \in Nat
        /\ \A d \in 1..Depth : d \in HookedDepths' <=> d \in HookedDepths
        /\ Depth + 1 \in HookedDepths' <=> x.hooked
    BY StackPush DEF EventInv
  <2>3. chain \in Seq(Frames) /\ IsInjective(chain) /\ pauseOnNextStatement \in BOOLEAN
    BY DEF EventInv, FrameTypes
  <2>4. /\ Append(chain, a) \in Seq(Frames) /\ Len(chain) \in Nat /\ Len(Append(chain, a)) = Len(chain) + 1
        /\ Append(chain, a)[Len(chain) + 1] = a
        /\ \A i \in 1..Len(chain) : Append(chain, a)[i] = chain[i]
    BY <2>3, Pushed
  <2>5. /\ DOMAIN chain = 1..Len(chain) /\ DOMAIN Append(chain, a) = 1..(Len(chain) + 1)
    BY <2>3, <2>4, LenProperties
  <2>6. \A i \in 1..Len(chain) : chain[i] # a
    BY <2>5 DEF ToSet
  <2>7. IsInjective(Append(chain, a))
    <3> SUFFICES ASSUME NEW i \in 1..(Len(chain) + 1), NEW j \in 1..(Len(chain) + 1),
                        Append(chain, a)[i] = Append(chain, a)[j]
                 PROVE  i = j
      BY <2>5 DEF IsInjective
    <3>1. \A k, n \in 1..Len(chain) : chain[k] = chain[n] => k = n
      BY <2>3, <2>5 DEF IsInjective
    <3>2. (i \in 1..Len(chain) \/ i = Len(chain) + 1) /\ (j \in 1..Len(chain) \/ j = Len(chain) + 1)
      BY <2>4
    <3> QED
      BY <2>4, <2>6, <3>1, <3>2
  <2>8. ToSet(chain) \subseteq ToSet(Append(chain, a))
    <3> SUFFICES ASSUME NEW i \in 1..Len(chain) PROVE chain[i] \in ToSet(Append(chain, a))
      BY <2>5 DEF ToSet
    <3>1. i \in DOMAIN Append(chain, a) /\ chain[i] = Append(chain, a)[i]
      BY <2>4, <2>5
    <3> QED
      BY <3>1 DEF ToSet
  <2>9. StepAt(step, Depth, HookedDepths, chain, pauseOnCallFrame)
    BY <1>2 DEF EventInv, StepControl, Base
  <2>10. StepAt(step, Depth', HookedDepths', Append(chain, a), pauseOnCallFrame)
    BY <2>2, <2>3, <2>9, StepPushHooked
  <2>11. Depth' >= 1
    BY <2>2
  <2> QED
    BY <1>2, <2>1, <2>2, <2>3, <2>4, <2>7, <2>8, <2>10, <2>11, PauseIfNeededKeeps
<1> QED
  BY <1>1, <1>2

\* The end of returnEvent: the current frame goes, and the frame to pause on with it.
LEMMA LeaveKeeps ==
    ASSUME EventInv, stack # <<>>, Base = Depth, LeaveCallFrame, pause' = Running,
           pauseOnNextStatement' \in BOOLEAN
    PROVE  EventInv' /\ stack' = Front(stack) /\ Depth' = Depth - 1
<1> DEFINE target == IF chain # <<>> /\ pauseOnCallFrame = Last(chain) THEN Caller(chain) ELSE pauseOnCallFrame
           rest == IF chain = <<>> THEN chain ELSE Front(chain)
<1>1. /\ chain' = rest /\ pauseOnCallFrame' = target /\ stack' = Front(stack) /\ wild' = wild
      /\ step' = IF Top.hooked THEN StepBelow(Depth) ELSE 0
  BY DEF LeaveCallFrame
<1>2. /\ StackTypes' /\ Depth' = Depth - 1 /\ Depth \in Nat /\ Depth >= 1
      /\ \A d \in 1..(Depth - 1) : d \in HookedDepths' <=> d \in HookedDepths
  BY <1>1, StackPop DEF EventInv
<1>3. /\ chain \in Seq(Frames) /\ IsInjective(chain) /\ wild \in BOOLEAN
      /\ pauseOnCallFrame \in Frames \cup {Null} /\ Len(chain) \in Nat
  BY DEF EventInv, FrameTypes
<1>4. /\ HookedDepths \in SUBSET (1..Depth) /\ (Depth \in HookedDepths <=> Top.hooked)
  BY <1>2, StackFacts DEF EventInv
<1>5. ~IsPaused' /\ Base' = Depth - 1 /\ PauseControl'
  BY <1>2 DEF IsPaused, Base, PauseControl
<1>6. chain # <<>> => /\ Front(chain) \in Seq(Frames) /\ Len(Front(chain)) = Len(chain) - 1 /\ Len(chain) >= 1
                      /\ \A i \in 1..(Len(chain) - 1) : Front(chain)[i] = chain[i]
                      /\ Last(chain) = chain[Len(chain)]
  BY <1>3, Popped
<1>7. rest \in Seq(Frames) /\ IsInjective(rest)
  <2>1. CASE chain = <<>>
    BY <1>3, <2>1
  <2>2. CASE chain # <<>>
    <3>1. DOMAIN Front(chain) = 1..(Len(chain) - 1) /\ DOMAIN chain = 1..Len(chain)
      BY <1>3, <1>6, <2>2, LenProperties
    <3>2. \A i, j \in 1..Len(chain) : chain[i] = chain[j] => i = j
      BY <1>3, <3>1 DEF IsInjective
    <3>3. \A i \in 1..(Len(chain) - 1) : i \in 1..Len(chain) /\ Front(chain)[i] = chain[i]
      BY <1>3, <1>6, <2>2
    <3>4. IsInjective(Front(chain))
      BY <3>1, <3>2, <3>3 DEF IsInjective
    <3> QED
      BY <1>6, <2>2, <3>4
  <2> QED
    BY <2>1, <2>2
<1>8. Caller(chain) \in Frames \cup {Null}
  <2>1. Len(chain) > 1 => Len(chain) - 1 \in 1..Len(chain)
    BY <1>3
  <2> QED
    BY <1>3, <2>1, ElementOfSeq DEF Caller
<1>9. FrameTypes'
  <2>1. target \in Frames \cup {Null}
    BY <1>3, <1>8
  <2> HIDE DEF target, rest
  <2> QED
    BY <1>1, <1>3, <1>7, <2>1 DEF FrameTypes
<1>10. PauseTargetLive'
  <2> SUFFICES ASSUME ~wild, target # Null PROVE target \in ToSet(rest)
    BY <1>1 DEF PauseTargetLive
  <2>1. CASE chain = <<>>
    BY <2>1 DEF EventInv, PauseTargetLive
  <2>2. CASE chain # <<>>
    <3>1. DOMAIN Front(chain) = 1..(Len(chain) - 1) /\ DOMAIN chain = 1..Len(chain)
      BY <1>3, <1>6, <2>2, LenProperties
    <3>2. ASSUME NEW i \in 1..(Len(chain) - 1), target = chain[i] PROVE target \in ToSet(rest)
      <4>1. target = Front(chain)[i] /\ i \in DOMAIN Front(chain)
        BY <1>6, <2>2, <3>1, <3>2
      <4> HIDE DEF target
      <4> QED
        BY <2>2, <4>1 DEF ToSet
    <3>3. CASE pauseOnCallFrame = Last(chain)
      <4>1. target = Caller(chain)
        BY <2>2, <3>3
      <4>2. Len(chain) > 1 /\ target = chain[Len(chain) - 1]
        BY <4>1 DEF Caller
      <4>3. Len(chain) - 1 \in 1..(Len(chain) - 1)
        BY <1>3, <4>2
      <4> HIDE DEF target, rest
      <4> QED
        BY <3>2, <4>2, <4>3
    <3>4. CASE pauseOnCallFrame # Last(chain)
      <4>1. target = pauseOnCallFrame
        BY <3>4
      <4>2. target \in ToSet(chain)
        BY <4>1 DEF EventInv, PauseTargetLive
      <4>3. PICK i \in 1..Len(chain) : target = chain[i]
        BY <3>1, <4>2 DEF ToSet
      <4>4. i # Len(chain)
        BY <1>6, <2>2, <3>4, <4>1, <4>3
      <4>5. i \in 1..(Len(chain) - 1)
        BY <1>3, <4>4
      <4> HIDE DEF target, rest
      <4> QED
        BY <3>2, <4>3, <4>5
    <3> QED
      BY <3>3, <3>4
  <2> QED
    BY <2>1, <2>2
<1>11. StepControl'
  <2>1. step \in Nat /\ StepAt(step, Depth, HookedDepths, chain, pauseOnCallFrame)
    BY DEF EventInv, StepControl
  <2>2. CASE ~Top.hooked \/ step = 0
    <3>1. step' = 0
      BY <1>1, <1>2, <2>2 DEF StepBelow
    <3> QED
      BY <3>1 DEF StepControl, StepAt
  <2>3. CASE Top.hooked /\ step # 0
    <3> DEFINE below == {e \in HookedDepths : e < Depth}
    <3>1. step' = IF step # Depth THEN step ELSE IF below = {} THEN 0 ELSE Max(below)
      BY <1>1, <2>3 DEF StepBelow
    <3>2. Depth \in HookedDepths
      BY <1>4, <2>3
    <3>3. below \in SUBSET (1..Depth) /\ \A d \in 1..Depth : d \in below <=> d \in HookedDepths /\ d < Depth
      BY <1>4
    <3>4. /\ chain' = FramesLeft(chain)
          /\ pauseOnCallFrame' = TargetLeft(chain, pauseOnCallFrame)
          /\ step' = StepLeft(step, Depth, below)
      BY <1>1, <3>1 DEF FramesLeft, TargetLeft, StepLeft
    <3> HIDE DEF below, target, rest
    <3>5. /\ StepLeft(step, Depth, below) \in Nat
          /\ StepAt(StepLeft(step, Depth, below), Depth - 1, HookedDepths', FramesLeft(chain),
                    TargetLeft(chain, pauseOnCallFrame))
      <4>1. \A d \in 1..(Depth - 1) : d \in HookedDepths' <=> d \in HookedDepths
        BY <1>2
      <4>2. Depth \in Nat /\ Depth >= 1 /\ step # 0 /\ chain \in Seq(Frames) /\ IsInjective(chain)
        BY <1>2, <1>3, <2>3
      <4>3. StepAt(step, Depth, HookedDepths, chain, pauseOnCallFrame) /\ HookedDepths \in SUBSET (1..Depth)
        BY <1>4, <2>1
      <4> QED
        BY <3>2, <3>3, <4>1, <4>2, <4>3, StepPopHooked
    <3> QED
      BY <1>5, <3>4, <3>5 DEF StepControl
  <2> QED
    BY <2>2, <2>3
<1> QED
  BY <1>1, <1>2, <1>5, <1>9, <1>10, <1>11 DEF EventInv

\* returnEvent, which is sent for code without hooks too when an exception unwinds it.
LEMMA ReturnEventKeeps ==
    ASSUME EventInv, stack # <<>>, Executing, NEW l, ReturnEvent(l)
    PROVE  EventInv' /\ (stack' = stack \/ stack' = Front(stack))
<1>1. CASE IsPaused
  <2>1. stack' = Front(stack) /\ UNCHANGED debuggerVars
    BY <1>1 DEF ReturnEvent
  <2>2. Depth > pause.depth
    BY <1>1 DEF Executing, Depth
  <2> QED
    BY <1>1, <2>1, <2>2, PopUnseen
<1>2. CASE ~IsPaused /\ PauseNow(chain, pauseOnNextStatement, l)
  <2>1. UNCHANGED stack /\ Pause(chain, TRUE) /\ chain # <<>>
    BY <1>2 DEF ReturnEvent, PauseNow
  <2>2. StackTypes' /\ Depth' = Depth /\ Depth >= 1
    BY <2>1, StackFacts DEF EventInv, StackTypes, Depth
  <2>3. chain \in Seq(Frames) /\ IsInjective(chain) /\ TRUE \in BOOLEAN
    BY DEF EventInv, FrameTypes
  <2> QED
    BY <2>1, <2>2, <2>3, PauseStarts
<1>3. CASE ~IsPaused /\ ~PauseNow(chain, pauseOnNextStatement, l)
  <2>1. LeaveCallFrame /\ UNCHANGED <<pauseOnNextStatement, pause>>
    BY <1>3 DEF ReturnEvent
  <2>2. Base = Depth /\ pause' = Running /\ pauseOnNextStatement' \in BOOLEAN
    BY <1>3, <2>1 DEF Base, IsPaused, EventInv, FrameTypes
  <2> QED
    BY <2>1, <2>2, LeaveKeeps
<1> QED
  BY <1>1, <1>2, <1>3

\* didExecuteProgram: the frame of the program stays in the chain.
LEMMA DidExecuteProgramKeeps ==
    ASSUME EventInv, stack # <<>>, Executing, DidExecuteProgram
    PROVE  EventInv'
<1>1. CASE IsPaused
  <2>1. stack' = Front(stack) /\ UNCHANGED debuggerVars /\ Depth > pause.depth
    BY <1>1 DEF DidExecuteProgram, debuggerVars, targetVars, Executing, Depth
  <2> QED
    BY <1>1, <2>1, PopUnseen
<1>2. CASE ~IsPaused
  <2>1. /\ stack' = Front(stack) /\ step' = 0
        /\ UNCHANGED <<chain, pauseOnNextStatement, pause, pauseOnCallFrame, wild>>
    BY <1>2 DEF DidExecuteProgram
  <2>2. StackTypes'
    BY <2>1, StackPop DEF EventInv
  <2>3. FrameTypes' /\ PauseTargetLive'
    BY <2>1, FramesKept DEF EventInv
  <2>4. PauseControl' /\ StepControl'
    BY <1>2, <2>1 DEF EventInv, PauseControl, IsPaused, StepControl, StepAt
  <2> QED
    BY <2>2, <2>3, <2>4 DEF EventInv
<1> QED
  BY <1>1, <1>2

\* The session ends, and with it the event in which the debugger had paused.
LEMMA ResumeKeeps ==
    ASSUME EventInv, InSession, pauseOnNextStatement' \in BOOLEAN, Resume
    PROVE  EventInv' /\ ~IsPaused'
           /\ \/ UNCHANGED <<stack, throwing>>
              \/ stack # <<>> /\ stack' = Front(stack) /\ throwing' = Propagated
<1>1. IsPaused /\ Depth <= pause.depth /\ pause' = Running
  <2>1. Depth \in Nat /\ (IsPaused => pause.depth \in 1..MaxDepth)
    BY BaseFacts, StackFacts DEF EventInv
  <2> QED
    BY <2>1, DebuggerAssumption DEF InSession, Executing, Depth, Resume
<1>2. /\ Base = Depth /\ stack # <<>> /\ pause.finishing \in BOOLEAN /\ ~IsPaused'
  <2>1. /\ Base = pause.depth /\ pause.depth \in 1..MaxDepth /\ pause.depth <= Depth /\ Depth \in Nat
        /\ pause.finishing \in BOOLEAN
    BY <1>1, BaseFacts, StackFacts DEF EventInv
  <2>2. stack # <<>> <=> Depth >= 1
    BY StackFacts DEF EventInv
  <2> QED
    BY <1>1, <2>1, <2>2, DebuggerAssumption DEF IsPaused
<1>3. CASE pause.finishing
  <2>1. LeaveCallFrame /\ throwing' = Propagated
    BY <1>3 DEF Resume
  <2> QED
    BY <1>1, <1>2, <2>1, LeaveKeeps
<1>4. CASE ~pause.finishing
  <2>1. UNCHANGED <<stack, throwing, chain, pauseOnCallFrame, wild, step>>
    BY <1>4 DEF Resume, targetVars
  <2>2. StackTypes' /\ Depth' = Depth /\ HookedDepths' = HookedDepths /\ Base' = Depth
    BY <1>2, <2>1 DEF EventInv, StackTypes, Depth, HookedDepths, Base
  <2>3. FrameTypes' /\ PauseTargetLive'
    <3>1. ToSet(chain') = ToSet(chain)
      BY <2>1 DEF ToSet
    <3> QED
      BY <2>1, <3>1 DEF EventInv, FrameTypes, PauseTargetLive
  <2>4. PauseControl'
    BY <1>1, <1>2 DEF PauseControl
  <2>5. StepControl'
    BY <1>2, <2>1, <2>2 DEF EventInv, StepControl
  <2> QED
    BY <1>2, <2>1, <2>2, <2>3, <2>4, <2>5 DEF EventInv
<1> QED
  BY <1>2, <1>3, <1>4

\* A step over from a pause.
LEMMA StepOverKeeps ==
    ASSUME EventInv, StepOver
    PROVE  EventInv'
<1>1. /\ InSession /\ pauseOnCallFrame' = Last(chain)
      /\ step' = IF Top.hooked /\ Len(chain) >= Cardinality(HookedDepths) THEN Depth ELSE 0
      /\ UNCHANGED <<stack, chain, pauseOnNextStatement, pause, wild>>
  BY DEF StepOver
<1>2. StackTypes' /\ Depth' = Depth /\ HookedDepths' = HookedDepths /\ Base' = Base /\ (IsPaused' <=> IsPaused)
  BY <1>1 DEF EventInv, StackTypes, Depth, HookedDepths, Base, IsPaused
<1>3. IsPaused /\ Base = Depth /\ Depth \in Nat /\ Depth >= 1
  <2>1. IsPaused /\ ~(Depth > pause.depth)
    BY <1>1 DEF InSession, Executing, Depth
  <2>2. /\ Base = pause.depth /\ pause.depth \in 1..MaxDepth /\ pause.depth <= Depth /\ Depth \in Nat
    BY <2>1, BaseFacts, StackFacts DEF EventInv
  <2> QED
    BY <2>1, <2>2, DebuggerAssumption
<1>4. chain # <<>> /\ chain \in Seq(Frames)
  BY <1>3 DEF EventInv, PauseControl, FrameTypes
<1>5. Last(chain) \in Frames /\ Last(chain) \in ToSet(chain)
  <2>1. Len(chain) \in DOMAIN chain /\ Last(chain) = chain[Len(chain)] /\ Last(chain) \in Frames
    BY <1>4, Popped, LenProperties
  <2> QED
    BY <2>1 DEF ToSet
<1>6. FrameTypes' /\ PauseTargetLive' /\ PauseControl'
  <2>1. ToSet(chain') = ToSet(chain)
    BY <1>1 DEF ToSet
  <2> QED
    BY <1>1, <1>2, <1>5, <2>1 DEF EventInv, FrameTypes, PauseTargetLive, PauseControl
<1>7. StepControl'
  <2>1. CASE Top.hooked /\ Len(chain) >= Cardinality(HookedDepths)
    <3>1. HookedDepths \in SUBSET (1..Depth) /\ Depth \in HookedDepths
      BY <1>3, <2>1, StackFacts DEF EventInv
    <3>2. StepAt(Depth, Depth, HookedDepths, chain, Last(chain))
      BY <1>3, <1>4, <2>1, <3>1, StepNew
    <3> QED
      BY <1>1, <1>2, <1>3, <2>1, <3>2 DEF StepControl
  <2>2. CASE ~(Top.hooked /\ Len(chain) >= Cardinality(HookedDepths))
    BY <1>1, <2>2 DEF StepControl, StepAt
  <2> QED
    BY <2>1, <2>2
<1> QED
  BY <1>2, <1>6, <1>7 DEF EventInv

-----------------------------------------------------------------------------
(***************************************************************************)
(* The steps of the script and of the session.                             *)
(***************************************************************************)
\* An exception that leaves a frame goes to the caller or ends.
LEMMA PropagatedBelow ==
    ASSUME DebuggerInv, stack # <<>>
    PROVE  Propagated \subseteq 1..(Depth - 1)
<1>1. Depth \in Nat /\ Depth >= 1 /\ throwing \subseteq 1..Depth
  BY StackFacts DEF DebuggerInv, EventInv, SessionTypes
<1> DEFINE base == IF IsPaused /\ Depth > pause.depth THEN pause.depth ELSE 0
<1>2. base \in Nat
  <2>1. IsPaused => pause.depth \in 1..MaxDepth
    BY BaseFacts DEF DebuggerInv
  <2> QED
    BY <2>1, DebuggerAssumption
<1>3. Propagated = (throwing \ {Depth}) \cup {d \in {Depth - 1} : Throwing /\ d > base}
  BY DEF Propagated
<1> HIDE DEF base
<1>4. \A d \in throwing \ {Depth} : d \in 1..(Depth - 1)
  BY <1>1
<1>5. Depth - 1 > base => Depth - 1 \in 1..(Depth - 1)
  BY <1>1, <1>2
<1>6. \A d \in {e \in {Depth - 1} : Throwing /\ e > base} : d \in 1..(Depth - 1)
  BY <1>5
<1> QED
  BY <1>3, <1>4, <1>6

\* What the script does while the debugger has paused, that is in an evaluation: calls and
\* returns above the frame at which it has paused.
LEMMA WhilePaused ==
    ASSUME DebuggerInv, IsPaused, Script
    PROVE  /\ UNCHANGED <<chain, pauseOnNextStatement, pause, pauseOnCallFrame>>
           /\ \/ stack' = stack
              \/ \E x \in Code : Depth < MaxDepth /\ stack' = Append(stack, x)
              \/ stack # <<>> /\ Depth > pause.depth /\ stack' = Front(stack)
<1>0. /\ Executing => Depth > pause.depth /\ stack # <<>>
  <2>1. pause.depth \in 1..MaxDepth /\ Depth \in Nat /\ (stack # <<>> <=> Depth >= 1)
    BY BaseFacts, StackFacts DEF DebuggerInv, EventInv
  <2>2. Executing => Depth > pause.depth
    BY DEF Executing, Depth
  <2>3. Depth > pause.depth => Depth >= 1
    BY <2>1, DebuggerAssumption
  <2> QED
    BY <2>1, <2>2, <2>3
<1>1. ASSUME NEW k \in {"function", "program"}, NEW h \in BOOLEAN PROVE [kind |-> k, hooked |-> h] \in Code
  BY DEF Code
<1>2. CASE EndProgram
  BY <1>0, <1>2 DEF EndProgram, DidExecuteProgram
<1>3. CASE Catch
  BY <1>3 DEF Catch, debuggerVars, targetVars
<1>4. ASSUME NEW l \in Lines, NEW hooked \in BOOLEAN, Call(hooked, l)
      PROVE  UNCHANGED debuggerVars /\ Depth < MaxDepth /\ \E x \in Code : stack' = Append(stack, x)
  <2>1. UNCHANGED debuggerVars
    BY <1>4 DEF Call, CallEvent
  <2> QED
    BY <1>1, <1>4, <2>1 DEF Call
<1>5. ASSUME NEW l \in Lines, WillExecuteProgram(l)
      PROVE  UNCHANGED debuggerVars /\ Depth < MaxDepth /\ \E x \in Code : stack' = Append(stack, x)
  <2>1. [kind |-> "program", hooked |-> TRUE] \in Code
    BY <1>1
  <2> QED
    BY <1>5, <2>1 DEF WillExecuteProgram, CallEvent
<1>6. ASSUME NEW l \in Lines, AtStatement(l) \/ DidReachBreakpoint(l) \/ Throw(l) \/ SetBreakpoint(l)
      PROVE  UNCHANGED <<stack, debuggerVars>>
  BY <1>6 DEF AtStatement, DidReachBreakpoint, Throw, SetBreakpoint
<1>7. ASSUME NEW l \in Lines, Return(l)
      PROVE  UNCHANGED debuggerVars /\ stack' = Front(stack) /\ Executing
  BY <1>7 DEF Return, ReturnEvent
<1>8. ASSUME NEW l \in Lines, Unwind(l)
      PROVE  UNCHANGED <<chain, pauseOnNextStatement, pause, pauseOnCallFrame>> /\ stack' = Front(stack) /\ Executing
  BY <1>8 DEF Unwind, ReturnEvent, DidExecuteProgram, debuggerVars, targetVars
<1> QED
  BY <1>0, <1>2, <1>3, <1>4, <1>5, <1>6, <1>7, <1>8 DEF Script, debuggerVars, targetVars

\* Every event keeps the frames, the pause and the step over.
LEMMA ScriptKeepsEvents ==
    ASSUME DebuggerInv, Script
    PROVE  EventInv'
<1>1. EventInv /\ throwing \subseteq 1..Depth /\ pauseOnNextStatement \in BOOLEAN /\ TRUE \in BOOLEAN
  BY DEF DebuggerInv, SessionTypes, EventInv, FrameTypes
<1>2. Throwing => stack # <<>>
  <2>1. stack # <<>> <=> Depth >= 1
    BY StackFacts DEF DebuggerInv, EventInv
  <2> QED
    BY <1>1, <2>1 DEF Throwing
<1>3. CASE EndProgram
  BY <1>1, <1>3, DidExecuteProgramKeeps DEF EndProgram
<1>4. CASE Catch
  BY <1>1, <1>4, NothingHappens DEF Catch
<1>5. ASSUME NEW l \in Lines, NEW hooked \in BOOLEAN, Call(hooked, l) PROVE EventInv'
  <2> DEFINE x == [kind |-> "function", hooked |-> hooked]
  <2>1. x \in Code /\ (x.hooked <=> hooked)
    BY DEF Code
  <2>2. Depth < MaxDepth /\ stack' = Append(stack, x)
    BY <1>5 DEF Call
  <2>3. CASE hooked
    <3>1. CallEvent(l)
      BY <1>5, <2>3 DEF Call
    <3> HIDE DEF x
    <3> QED
      BY <1>1, <2>1, <2>2, <2>3, <3>1, CreateKeeps
  <2>4. CASE ~hooked
    <3>1. UNCHANGED debuggerVars
      BY <1>5, <2>4 DEF Call
    <3> HIDE DEF x
    <3> QED
      BY <1>1, <2>1, <2>2, <2>4, <3>1, PushUnseen
  <2> QED
    BY <2>3, <2>4
<1>6. ASSUME NEW l \in Lines, WillExecuteProgram(l) PROVE EventInv'
  <2> DEFINE x == [kind |-> "program", hooked |-> TRUE]
  <2>1. x \in Code /\ x.hooked
    BY DEF Code
  <2>2. Depth < MaxDepth /\ stack' = Append(stack, x) /\ CallEvent(l)
    BY <1>6 DEF WillExecuteProgram
  <2> HIDE DEF x
  <2> QED
    BY <1>1, <2>1, <2>2, CreateKeeps
<1>7. ASSUME NEW l \in Lines, AtStatement(l) PROVE EventInv'
  BY <1>1, <1>7, UpdateKeeps DEF AtStatement
<1>8. ASSUME NEW l \in Lines, DidReachBreakpoint(l) PROVE EventInv'
  BY <1>1, <1>8, UpdateKeeps DEF DidReachBreakpoint
<1>9. ASSUME NEW l \in Lines, Return(l) PROVE EventInv'
  <2>1. stack # <<>> /\ Executing
    BY <1>9 DEF Return
  <2>2. CASE Top.hooked
    BY <1>1, <1>9, <2>1, <2>2, ReturnEventKeeps DEF Return
  <2>3. CASE ~Top.hooked
    <3>1. stack' = Front(stack) /\ UNCHANGED debuggerVars
      BY <1>9, <2>3 DEF Return
    <3>2. IsPaused => Depth > pause.depth
      BY <2>1 DEF Executing, Depth
    <3> QED
      BY <1>1, <2>1, <2>3, <3>1, <3>2, PopUnseen
  <2> QED
    BY <2>2, <2>3
<1>10. ASSUME NEW l \in Lines, Throw(l) PROVE EventInv'
  BY <1>1, <1>10, UpdateKeeps DEF Throw
<1>11. ASSUME NEW l \in Lines, Unwind(l) PROVE EventInv'
  <2>1. stack # <<>> /\ Executing
    BY <1>2, <1>11 DEF Unwind
  <2>2. ReturnEvent(l) \/ DidExecuteProgram
    BY <1>11 DEF Unwind
  <2> QED
    BY <1>1, <2>1, <2>2, ReturnEventKeeps, DidExecuteProgramKeeps
<1>12. ASSUME NEW l \in Lines, SetBreakpoint(l) PROVE EventInv'
  BY <1>1, <1>12, NothingHappens DEF SetBreakpoint
<1> QED
  BY <1>3, <1>4, <1>5, <1>6, <1>7, <1>8, <1>9, <1>10, <1>11, <1>12 DEF Script

\* The events leave the client and the session alone.
LEMMA ScriptKeepsClient ==
    ASSUME Script
    PROVE  client' = client /\ shouldExit' = shouldExit
BY DEF Script, EndProgram, Catch, Call, WillExecuteProgram, AtStatement, DidReachBreakpoint, Return, Throw,
       Unwind, SetBreakpoint, sessionVars

\* Exceptions propagate in frames that exist, and a client stays connected in a pause only.
LEMMA ScriptKeepsSession ==
    ASSUME DebuggerInv, Script
    PROVE  SessionTypes'
<1>1. /\ throwing \subseteq 1..Depth /\ client \in BOOLEAN /\ shouldExit \in BOOLEAN
      /\ breakpoints \subseteq Lines /\ (client => IsPaused) /\ StackTypes
  BY DEF DebuggerInv, SessionTypes, EventInv
<1>2. client' = client /\ shouldExit' = shouldExit
  BY ScriptKeepsClient
<1>3. client' => IsPaused'
  BY <1>1, <1>2, WhilePaused DEF IsPaused
<1>4. breakpoints' \subseteq Lines
  BY <1>1 DEF Script, EndProgram, Catch, Call, WillExecuteProgram, AtStatement, DidReachBreakpoint, Return, Throw,
         Unwind, SetBreakpoint, sessionVars
<1>5. Depth \in Nat /\ (stack # <<>> <=> Depth >= 1)
  BY <1>1, StackFacts
<1>6. stack' = Front(stack) /\ stack # <<>> => Depth' = Depth - 1
  BY <1>1, StackPop
<1>7. throwing' \subseteq 1..Depth'
  <2>1. ASSUME UNCHANGED <<stack, throwing>> PROVE throwing' \subseteq 1..Depth'
    BY <1>1, <2>1 DEF Depth
  <2>2. ASSUME UNCHANGED throwing, NEW x \in Code, Depth < MaxDepth, stack' = Append(stack, x)
        PROVE  throwing' \subseteq 1..Depth'
    <3>1. Depth' = Depth + 1
      BY <1>1, <2>2, StackPush
    <3> QED
      BY <1>1, <1>5, <2>2, <3>1
  <2>3. ASSUME UNCHANGED throwing, ~Throwing, stack # <<>>, stack' = Front(stack)
        PROVE  throwing' \subseteq 1..Depth'
    <3>1. Depth' = Depth - 1 /\ Depth \notin throwing
      BY <1>6, <2>3 DEF Throwing
    <3> QED
      BY <1>1, <1>5, <2>3, <3>1
  <2>4. CASE EndProgram
    BY <2>3, <2>4 DEF EndProgram, DidExecuteProgram
  <2>5. CASE Catch
    BY <1>1, <2>5 DEF Catch, Depth
  <2>6. ASSUME NEW l \in Lines, NEW hooked \in BOOLEAN, Call(hooked, l) PROVE throwing' \subseteq 1..Depth'
    <3>1. [kind |-> "function", hooked |-> hooked] \in Code
      BY DEF Code
    <3> QED
      BY <2>2, <2>6, <3>1 DEF Call
  <2>7. ASSUME NEW l \in Lines, WillExecuteProgram(l) PROVE throwing' \subseteq 1..Depth'
    <3>1. [kind |-> "program", hooked |-> TRUE] \in Code
      BY DEF Code
    <3> QED
      BY <2>2, <2>7, <3>1 DEF WillExecuteProgram
  <2>8. ASSUME NEW l \in Lines, AtStatement(l) \/ DidReachBreakpoint(l) \/ SetBreakpoint(l)
        PROVE  throwing' \subseteq 1..Depth'
    BY <2>1, <2>8 DEF AtStatement, DidReachBreakpoint, SetBreakpoint
  <2>9. ASSUME NEW l \in Lines, Return(l) PROVE throwing' \subseteq 1..Depth'
    <3>1. stack' = stack \/ stack' = Front(stack)
      BY <2>9 DEF Return, ReturnEvent, LeaveCallFrame
    <3>2. UNCHANGED throwing /\ ~Throwing /\ stack # <<>>
      BY <2>9 DEF Return
    <3> QED
      BY <2>1, <2>3, <3>1, <3>2
  <2>10. ASSUME NEW l \in Lines, Throw(l) PROVE throwing' \subseteq 1..Depth'
    <3>1. throwing' = throwing \cup {Depth} /\ Depth' = Depth /\ stack # <<>>
      BY <2>10 DEF Throw, Depth
    <3> QED
      BY <1>1, <1>5, <3>1
  <2>11. ASSUME NEW l \in Lines, Unwind(l) PROVE throwing' \subseteq 1..Depth'
    <3>1. stack # <<>>
      BY <1>1, <1>5, <2>11 DEF Unwind, Throwing
    <3>2. stack' = stack \/ stack' = Front(stack)
      BY <2>11 DEF Unwind, ReturnEvent, DidExecuteProgram, LeaveCallFrame
    <3>3. CASE stack' = stack
      BY <2>1, <2>11, <3>3 DEF Unwind, Depth
    <3>4. CASE stack' = Front(stack)
      <4>1. Depth' = Depth - 1 /\ Depth' # Depth
        BY <1>5, <1>6, <3>1, <3>4
      <4>2. throwing' = Propagated
        BY <2>11, <4>1 DEF Unwind, Depth
      <4> QED
        BY <3>1, <4>1, <4>2, PropagatedBelow
    <3> QED
      BY <3>2, <3>3, <3>4
  <2> QED
    BY <2>4, <2>5, <2>6, <2>7, <2>8, <2>9, <2>10, <2>11 DEF Script
<1> QED
  BY <1>1, <1>2, <1>3, <1>4, <1>7 DEF SessionTypes

\* A session that ends.
LEMMA SessionEnds ==
    ASSUME DebuggerInv, InSession, Resume, pauseOnNextStatement' \in BOOLEAN, shouldExit' \in BOOLEAN,
           UNCHANGED breakpoints
    PROVE  DebuggerInv'
<1>1. EventInv /\ throwing \subseteq 1..Depth /\ breakpoints \subseteq Lines
  BY DEF DebuggerInv, SessionTypes
<1>2. EventInv' /\ (\/ UNCHANGED <<stack, throwing>>
                    \/ stack # <<>> /\ stack' = Front(stack) /\ throwing' = Propagated)
  BY <1>1, ResumeKeeps
<1>3. throwing' \subseteq 1..Depth'
  <2>1. CASE UNCHANGED <<stack, throwing>>
    BY <1>1, <2>1 DEF Depth
  <2>2. CASE stack # <<>> /\ stack' = Front(stack) /\ throwing' = Propagated
    <3>1. Depth' = Depth - 1
      BY <1>1, <2>2, StackPop DEF EventInv
    <3> QED
      BY <2>2, <3>1, PropagatedBelow
  <2> QED
    BY <1>2, <2>1, <2>2
<1>4. client' = FALSE
  BY DEF Resume
<1> QED
  BY <1>1, <1>2, <1>3, <1>4 DEF DebuggerInv, SessionTypes

\* Every command of the client keeps the invariant.
LEMMA SessionKeeps ==
    ASSUME DebuggerInv, Session
    PROVE  DebuggerInv'
<1>1. /\ EventInv /\ throwing \subseteq 1..Depth /\ client \in BOOLEAN /\ shouldExit \in BOOLEAN
      /\ breakpoints \subseteq Lines /\ (client => IsPaused) /\ pauseOnNextStatement \in BOOLEAN
  BY DEF DebuggerInv, SessionTypes, EventInv, FrameTypes
<1>2. CASE Accept
  <2>1. InSession /\ UNCHANGED <<pauseOnNextStatement, shouldExit, breakpoints>>
    BY <1>2 DEF Accept
  <2>2. CASE shouldExit
    <3>1. Resume
      BY <1>2, <2>2 DEF Accept
    <3> QED
      BY <1>1, <2>1, <3>1, SessionEnds
  <2>3. CASE ~shouldExit
    <3>1. client' = TRUE /\ UNCHANGED <<stack, throwing, chain, pause, targetVars>>
      BY <1>2, <2>3 DEF Accept
    <3>2. EventInv'
      BY <1>1, <2>1, <3>1, NothingHappens DEF debuggerVars
    <3>3. SessionTypes'
      BY <1>1, <2>1, <3>1 DEF SessionTypes, InSession, IsPaused, Depth
    <3> QED
      BY <3>2, <3>3 DEF DebuggerInv
  <2> QED
    BY <2>2, <2>3
<1>3. CASE StepOver
  <2>1. EventInv'
    BY <1>1, <1>3, StepOverKeeps
  <2>2. SessionTypes'
    BY <1>1, <1>3 DEF SessionTypes, StepOver, sessionVars, IsPaused, Depth
  <2> QED
    BY <2>1, <2>2 DEF DebuggerInv
<1>4. CASE Continue
  <2>1. /\ InSession /\ Resume /\ UNCHANGED breakpoints /\ pauseOnNextStatement' \in BOOLEAN
        /\ shouldExit' \in BOOLEAN
    BY <1>4 DEF Continue
  <2> QED
    BY <2>1, SessionEnds
<1>5. CASE HangUp
  <2>1. /\ InSession /\ Resume /\ UNCHANGED breakpoints /\ pauseOnNextStatement' \in BOOLEAN
        /\ shouldExit' \in BOOLEAN
    BY <1>1, <1>5 DEF HangUp
  <2> QED
    BY <2>1, SessionEnds
<1>6. CASE BadCommand
  <2>1. EventInv'
    BY <1>1, <1>6, NothingHappens DEF BadCommand
  <2>2. SessionTypes'
    BY <1>1, <1>6 DEF SessionTypes, BadCommand, Depth
  <2> QED
    BY <2>1, <2>2 DEF DebuggerInv
<1>7. CASE Evaluate
  <2> DEFINE x == [kind |-> "program", hooked |-> TRUE]
  <2>1. /\ IsPaused /\ Depth < MaxDepth /\ stack' = Append(stack, x)
        /\ UNCHANGED <<throwing, debuggerVars, sessionVars>>
    BY <1>7 DEF Evaluate, InSession
  <2>2. x \in Code
    BY DEF Code
  <2> HIDE DEF x
  <2>3. EventInv'
    BY <1>1, <2>1, <2>2, PushUnseen
  <2>4. Depth' = Depth + 1 /\ Depth \in Nat
    BY <1>1, <2>1, <2>2, StackPush DEF EventInv
  <2>5. throwing' \subseteq 1..Depth'
    BY <1>1, <2>1, <2>4
  <2>6. SessionTypes'
    BY <1>1, <2>1, <2>5 DEF SessionTypes, sessionVars, debuggerVars, IsPaused
  <2> QED
    BY <2>3, <2>6 DEF DebuggerInv
<1> QED
  BY <1>2, <1>3, <1>4, <1>5, <1>6, <1>7 DEF Session

\* The debugger is attached, perhaps while code without hooks runs.
LEMMA DebuggerInit ==
    ASSUME Init PROVE DebuggerInv
<1>1. stack \in Seq(Code) /\ Depth <= MaxDepth
  <2>1. stack = <<>> \/ \E k \in {"function", "program"} : stack = <<[kind |-> k, hooked |-> FALSE]>>
    BY DEF Init
  <2>2. CASE stack = <<>>
    BY <2>2, DebuggerAssumption DEF Depth
  <2>3. ASSUME NEW k \in {"function", "program"}, stack = <<[kind |-> k, hooked |-> FALSE]>>
        PROVE  stack \in Seq(Code) /\ Depth <= MaxDepth
    <3>1. [kind |-> k, hooked |-> FALSE] \in Code
      BY DEF Code
    <3>2. stack \in Seq(Code) /\ Len(stack) = 1
      BY <2>3, <3>1
    <3> QED
      BY <3>2, DebuggerAssumption DEF Depth
  <2> QED
    BY <2>1, <2>2, <2>3
<1>3. ~IsPaused /\ pause = Running /\ step = 0 /\ chain = <<>>
  BY DEF Init, IsPaused
<1>4. FrameTypes
  <2>1. <<>> \in Seq(Frames) /\ DOMAIN <<>> = 1..Len(<<>>) /\ Len(<<>>) = 0
    BY EmptySeq, LenProperties
  <2>2. IsInjective(chain)
    BY <1>3, <2>1 DEF IsInjective
  <2> QED
    BY <1>3, <2>1, <2>2 DEF Init, FrameTypes
<1>5. PauseControl /\ PauseTargetLive /\ StepControl
  BY <1>3 DEF Init, PauseControl, PauseTargetLive, StepControl, StepAt
<1>6. SessionTypes
  BY DEF Init, SessionTypes
<1> QED
  BY <1>1, <1>4, <1>5, <1>6 DEF DebuggerInv, EventInv, StackTypes

\* Every step keeps the invariant.
LEMMA DebuggerStep == DebuggerInv /\ [Next]_vars => DebuggerInv'
<1> SUFFICES ASSUME DebuggerInv, [Next]_vars PROVE DebuggerInv'
  OBVIOUS
<1>1. CASE Script
  BY <1>1, ScriptKeepsEvents, ScriptKeepsSession DEF DebuggerInv
<1>2. CASE Session
  BY <1>2, SessionKeeps
<1>3. CASE UNCHANGED vars
  <2>1. UNCHANGED <<stack, debuggerVars>> /\ EventInv
    BY <1>3 DEF vars, debuggerVars, targetVars, DebuggerInv
  <2>2. EventInv'
    BY <2>1, NothingHappens
  <2>3. SessionTypes'
    BY <1>3 DEF vars, DebuggerInv, SessionTypes, IsPaused, Depth
  <2> QED
    BY <2>2, <2>3 DEF DebuggerInv
<1> QED
  BY <1>1, <1>2, <1>3 DEF Next

-----------------------------------------------------------------------------
(***************************************************************************)
(* The theorems.                                                           *)
(***************************************************************************)
\* The invariant holds in every state.
THEOREM DebuggerInvariance == Spec => []DebuggerInv
<1>1. Init => DebuggerInv
  BY DebuggerInit
<1> QED
  BY <1>1, DebuggerStep, PTL DEF Spec

\* The types, and what ties the pause to the chain and to the stack: the chain holds no frame
\* twice, a pause has a frame, a client is connected in a pause only, and a step over stops at a
\* frame with hooks.
THEOREM Typed == Spec => []TypeOK
<1>1. DebuggerInv => TypeOK
  <2> SUFFICES ASSUME DebuggerInv PROVE TypeOK
    OBVIOUS
  <2>1. /\ stack \in Seq(Code) /\ Depth <= MaxDepth /\ chain \in Seq(Frames) /\ IsInjective(chain)
        /\ throwing \subseteq 1..Depth /\ breakpoints \subseteq Lines
        /\ pauseOnCallFrame \in Frames \cup {Null} /\ pause \in Pauses \cup {Running}
        /\ (IsPaused => chain # <<>> /\ pause.depth <= Depth) /\ (client => IsPaused)
        /\ StackTypes
    BY DEF DebuggerInv, EventInv, StackTypes, FrameTypes, PauseControl, SessionTypes
  <2>2. pauseOnNextStatement \in BOOLEAN /\ client \in BOOLEAN /\ shouldExit \in BOOLEAN /\ wild \in BOOLEAN
    BY DEF DebuggerInv, EventInv, FrameTypes, SessionTypes
  <2>3. {pauseOnNextStatement, client, shouldExit, wild} \subseteq BOOLEAN
    BY <2>2
  <2>4. stack \in BoundedSeq(Code, MaxDepth) /\ DOMAIN stack = 1..Depth
    BY <2>1, Bounded, StackFacts, DebuggerAssumption DEF Depth
  <2>5. chain \in BoundedSeq(Frames, Cardinality(Frames))
    <3>1. Len(chain) <= Cardinality(Frames) /\ Cardinality(Frames) \in Nat
      BY <2>1, InjectiveBounded, DebuggerAssumption
    <3> QED
      BY <2>1, <3>1, Bounded
  <2>6. step \in {0} \cup HookedDepths
    BY DEF DebuggerInv, EventInv, StepControl, StepAt
  <2> QED
    BY <2>1, <2>3, <2>4, <2>5, <2>6 DEF TypeOK
<1> QED
  BY <1>1, DebuggerInvariance, PTL

\* The raw pointer m_pauseOnCallFrame never outlives its frame.
THEOREM PauseTargetsLive == Spec => []PauseTargetLive
<1>1. DebuggerInv => PauseTargetLive
  BY DEF DebuggerInv, EventInv
<1> QED
  BY <1>1, DebuggerInvariance, PTL

\* A step over stops at the next statement of its frame or of a caller, whatever the code in
\* between calls, throws and evaluates.
THEOREM StepsOverStop == Spec => []StepOverStops
<1>1. DebuggerInv => StepOverStops
  <2> SUFFICES ASSUME DebuggerInv, step # 0, ~IsPaused, stack # <<>>, Top.hooked, NEW l \in Lines
               PROVE  PauseNow(chain, pauseOnNextStatement, l)
                        <=> Depth <= step \/ l \in breakpoints \/ pauseOnNextStatement
    BY DEF StepOverStops
  <2>1. Depth \in Nat /\ Depth >= 1 /\ Depth \in HookedDepths
    BY StackFacts DEF DebuggerInv, EventInv
  <2>2. StepAt(step, Depth, HookedDepths, chain, pauseOnCallFrame)
    BY DEF DebuggerInv, EventInv, StepControl, Base
  <2>3. chain \in Seq(Frames) /\ IsInjective(chain)
    BY DEF DebuggerInv, EventInv, FrameTypes
  <2>4. chain # <<>> /\ (pauseOnCallFrame = Last(chain) <=> Depth <= step)
    BY <2>1, <2>2, <2>3, StepStops
  <2> QED
    BY <2>4 DEF PauseNow
<1> QED
  BY <1>1, DebuggerInvariance, PTL

\* What a client evaluates while the debugger has paused opens no pause in the pause, does not end
\* it and changes nothing of it: not the frames of the debugger and what the current one shows, not
\* the frame or the statement to pause on, and no frame of the stack below. The session may choose
\* what to pause on, and only it ends the pause.
THEOREM EvaluationsAreIsolated == Spec => EvaluationIsolated
<1> DEFINE Isolated == IsPaused =>
             \/ InSession /\ pause' = Running
             \/ /\ UNCHANGED <<pause, chain>>
                /\ SubSeq(stack', 1, pause.depth) = SubSeq(stack, 1, pause.depth)
                /\ Executing => UNCHANGED <<pauseOnNextStatement, pauseOnCallFrame, client>>
<1>1. DebuggerInv /\ [Next]_vars => [Isolated]_vars
  <2> SUFFICES ASSUME DebuggerInv, Next, IsPaused, ~(InSession /\ pause' = Running)
               PROVE  /\ UNCHANGED <<pause, chain>>
                      /\ SubSeq(stack', 1, pause.depth) = SubSeq(stack, 1, pause.depth)
                      /\ Executing => UNCHANGED <<pauseOnNextStatement, pauseOnCallFrame, client>>
    OBVIOUS
  <2>1. /\ UNCHANGED <<pause, chain>>
        /\ Executing => UNCHANGED <<pauseOnNextStatement, pauseOnCallFrame, client>>
        /\ \/ stack' = stack
           \/ \E x \in Code : Depth < MaxDepth /\ stack' = Append(stack, x)
           \/ stack # <<>> /\ Depth > pause.depth /\ stack' = Front(stack)
    <3>1. CASE Script
      BY <3>1, WhilePaused, ScriptKeepsClient
    <3>2. CASE Session
      <4>1. ~Executing /\ InSession
        BY <3>2 DEF Session, Accept, StepOver, Continue, HangUp, BadCommand, Evaluate, InSession
      <4>2. ~Resume
        BY <4>1 DEF Resume
      <4>3. [kind |-> "program", hooked |-> TRUE] \in Code
        BY DEF Code
      <4> QED
        BY <3>2, <4>1, <4>2, <4>3 DEF Session, Accept, StepOver, Continue, HangUp, BadCommand, Evaluate,
             debuggerVars
    <3> QED
      BY <3>1, <3>2 DEF Next
  <2>2. pause.depth \in 1..MaxDepth /\ pause.depth <= Depth /\ Depth \in Nat /\ StackTypes /\ MaxDepth \in Nat
    BY BaseFacts, StackFacts, DebuggerAssumption DEF DebuggerInv, EventInv
  <2>3. /\ stack \in Seq(Code) /\ stack' \in Seq(Code) /\ Len(stack') \in Nat /\ pause.depth <= Len(stack')
        /\ \A d \in 1..pause.depth : stack'[d] = stack[d]
    <3>1. CASE stack' = stack
      BY <2>2, <3>1 DEF StackTypes, Depth
    <3>2. ASSUME NEW x \in Code, Depth < MaxDepth, stack' = Append(stack, x)
          PROVE  /\ StackTypes' /\ Depth' = Depth + 1 /\ \A d \in 1..Depth : stack'[d] = stack[d]
      BY <2>2, <3>2, StackPush
    <3>3. ASSUME stack # <<>>, Depth > pause.depth, stack' = Front(stack)
          PROVE  /\ StackTypes' /\ Depth' = Depth - 1 /\ \A d \in 1..(Depth - 1) : stack'[d] = stack[d]
      BY <2>2, <3>3, StackPop
    <3>4. stack \in Seq(Code) /\ Depth' = Len(stack')
      BY <2>2 DEF StackTypes, Depth
    <3>5. CASE \E x \in Code : Depth < MaxDepth /\ stack' = Append(stack, x)
      BY <2>2, <3>2, <3>4, <3>5 DEF StackTypes
    <3>6. CASE stack # <<>> /\ Depth > pause.depth /\ stack' = Front(stack)
      BY <2>2, <3>3, <3>4, <3>6 DEF StackTypes
    <3> QED
      BY <2>1, <3>1, <3>5, <3>6
  <2> DEFINE n == pause.depth
  <2>4. n \in Int /\ 1 \in Int /\ (\A d \in 1..n : stack[d] \in Code) /\ (\A d \in 1..n : stack'[d] \in Code)
    <3>1. Len(stack) \in Nat /\ n <= Len(stack) /\ n \in Nat
      BY <2>2 DEF Depth
    <3> QED
      BY <2>2, <2>3, <3>1
  <2> HIDE DEF n
  <2>5. /\ SubSeq(stack, 1, n) \in Seq(Code) /\ Len(SubSeq(stack, 1, n)) = IF 1 <= n THEN n - 1 + 1 ELSE 0
        /\ \A i \in 1..(n - 1 + 1) : SubSeq(stack, 1, n)[i] = stack[1 + i - 1]
    BY <2>4, SubSeqProperties
  <2>6. /\ SubSeq(stack', 1, n) \in Seq(Code) /\ Len(SubSeq(stack', 1, n)) = IF 1 <= n THEN n - 1 + 1 ELSE 0
        /\ \A i \in 1..(n - 1 + 1) : SubSeq(stack', 1, n)[i] = stack'[1 + i - 1]
    BY <2>4, SubSeqProperties
  <2>7. n \in Nat /\ n >= 1 /\ \A d \in 1..n : stack'[d] = stack[d]
    BY <2>2, <2>3 DEF n
  <2>8. /\ Len(SubSeq(stack, 1, n)) = n /\ Len(SubSeq(stack', 1, n)) = n
        /\ \A i \in 1..n : SubSeq(stack', 1, n)[i] = SubSeq(stack, 1, n)[i]
    BY <2>5, <2>6, <2>7
  <2>9. SubSeq(stack', 1, n) = SubSeq(stack, 1, n)
    BY <2>5, <2>6, <2>8, SeqEqual
  <2> QED
    BY <2>1, <2>9 DEF n
<1> QED
  BY <1>1, DebuggerInvariance, PTL DEF Spec, EvaluationIsolated
=============================================================================
