---------------------------- MODULE JSLockProofs ----------------------------
(***************************************************************************)
(* The safety properties of JSLock for any number of threads and any depth *)
(* of nesting: first the lock, then the register file.                     *)
(***************************************************************************)
EXTENDS JSLock, FiniteSetTheorems, SequenceTheorems, TLAPS

-----------------------------------------------------------------------------
(***************************************************************************)
(* The shims on a thread's native stack.                                   *)
(***************************************************************************)
EntryShims    == [kind : {"entry"}, context : Contexts, saved : {"default"}, oldEnd : Nat]
CallbackShims == [kind : {"callback"}, context : Contexts, dropped : Nat]
Shims == EntryShims \cup CallbackShims

InEntry    == {"starting", "locking", "script", "leaving", "stopping"}
OfCallback == {"dropping", "relocking", "undropping"}

\* Entries and callbacks alternate, an entry comes first, and a callback is in the
\* context that called out.
Alternating(s) ==
    /\ s \in Seq(Shims)
    /\ Len(s) >= 1 => s[1].kind = "entry"
    /\ \A i \in 1..(Len(s) - 1) :
          /\ s[i].kind = "entry" <=> s[i + 1].kind = "callback"
          /\ s[i + 1].kind = "callback" => s[i + 1].context = s[i].context

\* What is on top of a thread's stack follows from where the thread is.
ShimControl ==
    /\ calls \in [Threads -> Seq(Shims)]
    /\ pc \in [Threads -> {"native"} \cup InEntry \cup OfCallback]
    /\ \A t \in Threads :
          /\ Alternating(calls[t])
          /\ Len(calls[t]) <= MaxNesting
          /\ pc[t] \in InEntry => Len(calls[t]) >= 1 /\ Top(t).kind = "entry"
          /\ pc[t] \in OfCallback => Len(calls[t]) >= 1 /\ Top(t).kind = "callback"
          /\ pc[t] = "native" /\ Len(calls[t]) >= 1 => Top(t).kind = "callback"
          /\ pc[t] = "dropping" => Top(t).dropped = 0

\* A thread in native code has the default table, any other the one of its context.
TableControl ==
    /\ table \in [Threads -> {"default", "shared", "private"}]
    /\ \A t \in Threads : table[t] = IF pc[t] = "native" THEN "default" ELSE Context(t)

ShimInv == ShimControl /\ TableControl

\* A sequence that is cut off keeps its first elements.
LEMMA PrefixProperties ==
    ASSUME NEW S, NEW s \in Seq(S), NEW n \in 0..Len(s)
    PROVE  /\ SubSeq(s, 1, n) \in Seq(S)
           /\ Len(SubSeq(s, 1, n)) = n
           /\ \A i \in 1..n : SubSeq(s, 1, n)[i] = s[i]
<1>1. n \in Int /\ 1 \in Int /\ Len(s) \in Nat /\ \A i \in 1..n : s[i] \in S
  OBVIOUS
<1>2. /\ SubSeq(s, 1, n) \in Seq(S)
      /\ Len(SubSeq(s, 1, n)) = IF 1 <= n THEN n - 1 + 1 ELSE 0
      /\ \A i \in 1..(n - 1 + 1) : SubSeq(s, 1, n)[i] = s[1 + i - 1]
  BY <1>1, SubSeqProperties
<1> QED
  BY <1>1, <1>2

\* A sequence that an element is appended to.
LEMMA PushProperties ==
    ASSUME NEW S, NEW s \in Seq(S), NEW x \in S
    PROVE  /\ Len(s) \in Nat
           /\ Append(s, x) \in Seq(S)
           /\ Len(Append(s, x)) = Len(s) + 1
           /\ Append(s, x)[Len(s) + 1] = x
           /\ \A i \in 1..Len(s) : Append(s, x)[i] = s[i]
OBVIOUS

\* A shim has one of two kinds.
LEMMA ShimKinds ==
    \A x \in Shims : /\ x.kind \in {"entry", "callback"} /\ x.context \in Contexts
                     /\ x.kind = "entry" => x \in EntryShims /\ x.saved = "default" /\ x.oldEnd \in Nat
                     /\ x.kind = "callback" => x \in CallbackShims /\ x.dropped \in Nat
BY DEF Shims, EntryShims, CallbackShims

\* A shim is constructed.
LEMMA PushShim ==
    ASSUME NEW s, Alternating(s), NEW x \in Shims,
           Len(s) = 0 => x.kind = "entry",
           Len(s) >= 1 => (Last(s).kind = "entry" <=> x.kind = "callback"),
           Len(s) >= 1 /\ x.kind = "callback" => x.context = Last(s).context
    PROVE  /\ Alternating(Append(s, x))
           /\ Len(Append(s, x)) = Len(s) + 1
           /\ Last(Append(s, x)) = x
           /\ Append(s, x)[Len(s) + 1] = x
           /\ \A i \in 1..Len(s) : Append(s, x)[i] = s[i]
<1> DEFINE q == Append(s, x)
<1>1. s \in Seq(Shims) /\ Len(s) \in Nat
  BY DEF Alternating
<1>2. /\ q \in Seq(Shims) /\ Len(q) = Len(s) + 1 /\ q[Len(s) + 1] = x
      /\ \A i \in 1..Len(s) : q[i] = s[i]
  BY <1>1
<1> HIDE DEF q
<1>3. q[1].kind = "entry"
  BY <1>1, <1>2 DEF Alternating
<1>4. ASSUME NEW i \in 1..(Len(q) - 1)
      PROVE  /\ q[i].kind = "entry" <=> q[i + 1].kind = "callback"
             /\ q[i + 1].kind = "callback" => q[i + 1].context = q[i].context
  <2>1. CASE i = Len(s)
    BY <2>1, <1>1, <1>2 DEF Last
  <2>2. CASE i \in 1..(Len(s) - 1)
    BY <2>2, <1>1, <1>2 DEF Alternating
  <2> QED
    BY <2>1, <2>2, <1>1, <1>2
<1> QED
  BY <1>1, <1>2, <1>3, <1>4 DEF Alternating, Last, q

\* A shim is destructed.
LEMMA PopShim ==
    ASSUME NEW s, Alternating(s), Len(s) >= 1
    PROVE  /\ Alternating(Front(s))
           /\ Len(Front(s)) = Len(s) - 1
           /\ \A i \in 1..(Len(s) - 1) : Front(s)[i] = s[i]
           /\ Len(s) >= 2 => /\ Last(Front(s)) = s[Len(s) - 1]
                             /\ Last(Front(s)).kind = "entry" <=> Last(s).kind = "callback"
                             /\ Last(s).kind = "callback" => Last(s).context = Last(Front(s)).context
           /\ Last(s).kind = "callback" => Len(s) >= 2
<1> DEFINE q == Front(s)
<1>1. s \in Seq(Shims) /\ Len(s) \in Nat
  BY DEF Alternating
<1>2. q \in Seq(Shims) /\ Len(q) = Len(s) - 1 /\ \A i \in 1..(Len(s) - 1) : q[i] = s[i]
  <2>1. Len(s) - 1 \in 0..Len(s)
    BY <1>1
  <2> QED
    BY <1>1, <2>1, PrefixProperties DEF Front
<1> HIDE DEF q
<1>3. Alternating(q)
  BY <1>1, <1>2 DEF Alternating
<1>4. Len(s) >= 2 => /\ Last(q) = s[Len(s) - 1]
                     /\ Last(q).kind = "entry" <=> Last(s).kind = "callback"
                     /\ Last(s).kind = "callback" => Last(s).context = Last(q).context
  <2> HAVE Len(s) >= 2
  <2>1. Len(s) - 1 \in 1..(Len(s) - 1) /\ (Len(s) - 1) + 1 = Len(s)
    BY <1>1
  <2>2. Last(q) = s[Len(s) - 1]
    BY <2>1, <1>1, <1>2 DEF Last
  <2>3. /\ s[Len(s) - 1].kind = "entry" <=> s[Len(s)].kind = "callback"
        /\ s[Len(s)].kind = "callback" => s[Len(s)].context = s[Len(s) - 1].context
    BY <2>1 DEF Alternating
  <2> QED
    BY <2>2, <2>3 DEF Last
<1>5. Last(s).kind = "callback" => Len(s) >= 2
  BY <1>1 DEF Last, Alternating
<1> QED
  BY <1>2, <1>3, <1>4, <1>5 DEF q

\* A field of the topmost shim is assigned.
LEMMA SetTopShim ==
    ASSUME NEW s, Alternating(s), Len(s) >= 1, NEW x \in Shims,
           x.kind = Last(s).kind, x.context = Last(s).context
    PROVE  /\ Alternating([s EXCEPT ![Len(s)] = x])
           /\ Len([s EXCEPT ![Len(s)] = x]) = Len(s)
           /\ Last([s EXCEPT ![Len(s)] = x]) = x
           /\ [s EXCEPT ![Len(s)] = x][Len(s)] = x
           /\ \A i \in 1..(Len(s) - 1) : [s EXCEPT ![Len(s)] = x][i] = s[i]
<1> DEFINE q == [s EXCEPT ![Len(s)] = x]
<1>1. s \in Seq(Shims) /\ Len(s) \in Nat
  BY DEF Alternating
<1>2. q \in Seq(Shims) /\ Len(q) = Len(s) /\ q[Len(s)] = x /\ \A i \in 1..(Len(s) - 1) : q[i] = s[i]
  BY <1>1
<1> HIDE DEF q
<1>3. \A i \in 1..Len(s) : q[i].kind = s[i].kind /\ q[i].context = s[i].context
  BY <1>1, <1>2 DEF Last
<1>4. Alternating(q)
  BY <1>1, <1>2, <1>3 DEF Alternating
<1> QED
  BY <1>2, <1>4 DEF q, Last

-----------------------------------------------------------------------------
(***************************************************************************)
(* Entries and callbacks alternate, and the table follows.                 *)
(***************************************************************************)
\* The stack s that a thread has at label l.
Fits(s, l) ==
    /\ Alternating(s)
    /\ Len(s) <= MaxNesting
    /\ l \in {"native"} \cup InEntry \cup OfCallback
    /\ l \in InEntry => Len(s) >= 1 /\ Last(s).kind = "entry"
    /\ l \in OfCallback => Len(s) >= 1 /\ Last(s).kind = "callback"
    /\ l = "native" /\ Len(s) >= 1 => Last(s).kind = "callback"
    /\ l = "dropping" => Last(s).dropped = 0

\* Thread t goes to label l with the stack s and the table x.
Goes(t, l, s, x) ==
    /\ calls' = [calls EXCEPT ![t] = s]
    /\ pc' = [pc EXCEPT ![t] = l]
    /\ table' = [table EXCEPT ![t] = x]

\* A thread's stack always fits.
LEMMA ThreadFits ==
    ASSUME ShimInv, NEW t \in Threads
    PROVE  /\ Fits(calls[t], pc[t])
           /\ table[t] = IF pc[t] = "native" THEN "default" ELSE Context(t)
           /\ Len(calls[t]) \in Nat
           /\ \A i \in 1..Len(calls[t]) : calls[t][i] \in Shims
           /\ Len(calls[t]) >= 1 => Top(t) = calls[t][Len(calls[t])] /\ Top(t) \in Shims
BY DEF ShimInv, ShimControl, TableControl, Fits, Top, Context, Last, Alternating

\* A step of one thread that leaves it with a stack that fits.
LEMMA ThreadGoes ==
    ASSUME ShimInv, NEW t \in Threads, NEW l, NEW s, NEW x, Goes(t, l, s, x), Fits(s, l),
           x = IF l = "native" THEN "default" ELSE Last(s).context
    PROVE  /\ ShimInv'
           /\ calls'[t] = s /\ pc'[t] = l
           /\ \A u \in Threads \ {t} : calls'[u] = calls[u] /\ pc'[u] = pc[u]
<1>1. /\ calls'[t] = s /\ pc'[t] = l /\ table'[t] = x
      /\ \A u \in Threads \ {t} : calls'[u] = calls[u] /\ pc'[u] = pc[u] /\ table'[u] = table[u]
  BY DEF ShimInv, ShimControl, TableControl, Goes
<1>2. s \in Seq(Shims) /\ x \in {"default", "shared", "private"}
  <2>1. l # "native" => Len(s) >= 1
    BY DEF Fits
  <2>2. s \in Seq(Shims)
    BY DEF Fits, Alternating
  <2>3. Len(s) >= 1 => Last(s) \in Shims
    BY <2>2 DEF Last
  <2>4. Len(s) >= 1 => Last(s).context \in {"shared", "private"}
    BY <2>3, ShimKinds, LockAssumption
  <2> QED
    BY <2>1, <2>2, <2>4
<1>3. /\ calls' \in [Threads -> Seq(Shims)]
      /\ pc' \in [Threads -> {"native"} \cup InEntry \cup OfCallback]
      /\ table' \in [Threads -> {"default", "shared", "private"}]
  BY <1>2 DEF ShimInv, ShimControl, TableControl, Goes, Fits
<1>4. ASSUME NEW u \in Threads
      PROVE  Fits(calls'[u], pc'[u]) /\ table'[u] = IF pc'[u] = "native" THEN "default" ELSE Last(calls'[u]).context
  <2>1. CASE u = t
    BY <2>1, <1>1
  <2>2. CASE u # t
    BY <2>2, <1>1, ThreadFits DEF Context, Top
  <2> QED
    BY <2>1, <2>2
<1>5. ShimControl'
  BY <1>3, <1>4 DEF ShimControl, Fits, Top
<1>6. TableControl'
  BY <1>3, <1>4 DEF TableControl, Context, Top
<1> QED
  BY <1>1, <1>5, <1>6 DEF ShimInv

\* A step that changes no stack.
LEMMA KeepsStack ==
    ASSUME ShimInv, NEW t \in Threads, NEW l, UNCHANGED <<calls, table>>, pc' = [pc EXCEPT ![t] = l]
    PROVE  Goes(t, l, calls[t], table[t])
BY DEF ShimInv, ShimControl, TableControl, Goes

\* Every action of the threads moves one thread to a stack that fits.
LEMMA EnterGoes ==
    ASSUME ShimInv, NEW t \in Threads, NEW c \in Contexts, Enter(t, c)
    PROVE  LET s == Append(calls[t], Entry(c, "default"))
               l == IF c = "shared" THEN "starting" ELSE "locking"
           IN  Goes(t, l, s, c) /\ Fits(s, l) /\ c = Last(s).context
<1> DEFINE e == Entry(c, "default")
<1>1. table[t] = "default" /\ Fits(calls[t], "native") /\ Len(calls[t]) < MaxNesting /\ pc[t] = "native"
  BY ThreadFits DEF Enter
<1>2. e \in Shims /\ e.kind = "entry" /\ e.context = c
  BY DEF Entry, Shims, EntryShims
<1>3. Goes(t, IF c = "shared" THEN "starting" ELSE "locking", Append(calls[t], e), c)
  BY <1>1 DEF Enter, Goes, Push, Goto
<1> HIDE DEF e
<1>4. Alternating(calls[t]) /\ (Len(calls[t]) >= 1 => Last(calls[t]).kind = "callback")
  BY <1>1 DEF Fits
<1>5. /\ Alternating(Append(calls[t], e)) /\ Len(Append(calls[t], e)) = Len(calls[t]) + 1
      /\ Last(Append(calls[t], e)) = e
  BY <1>2, <1>4, PushShim
<1>6. Len(calls[t]) \in Nat /\ MaxNesting \in Nat
  BY ThreadFits, LockAssumption
<1>7. Fits(Append(calls[t], e), IF c = "shared" THEN "starting" ELSE "locking")
  BY <1>1, <1>2, <1>5, <1>6 DEF Fits, InEntry, OfCallback
<1> QED
  BY <1>2, <1>3, <1>5, <1>7 DEF e

\* The lock is taken and the script begins: the shim may note the end of the register file.
LEMMA LockAndExecuteGoes ==
    ASSUME ShimInv, frames \in Seq(Threads), NEW t \in Threads, LockAndExecute(t)
    PROVE  LET top == IF Context(t) = "shared" THEN [Top(t) EXCEPT !.oldEnd = Len(frames)] ELSE Top(t)
               s == [calls[t] EXCEPT ![Len(calls[t])] = top]
           IN  /\ Goes(t, "script", s, table[t]) /\ Fits(s, "script") /\ table[t] = Last(s).context
               /\ top \in Shims /\ top.kind = "entry" /\ top.context = Context(t)
<1> DEFINE top == IF Context(t) = "shared" THEN [Top(t) EXCEPT !.oldEnd = Len(frames)] ELSE Top(t)
           s == [calls[t] EXCEPT ![Len(calls[t])] = top]
<1>1. /\ Fits(calls[t], "locking") /\ pc[t] = "locking" /\ table[t] = Context(t)
      /\ Top(t) = calls[t][Len(calls[t])] /\ Top(t) \in Shims /\ Len(calls[t]) \in Nat
  BY ThreadFits DEF LockAndExecute, Fits, InEntry
<1>2. Alternating(calls[t]) /\ Len(calls[t]) >= 1 /\ Top(t).kind = "entry"
  BY <1>1 DEF Fits, InEntry, Top
<1>3. top \in Shims /\ top.kind = "entry" /\ top.context = Context(t)
  <2>1. Top(t) \in EntryShims /\ Context(t) = Top(t).context
    BY <1>1, <1>2, ShimKinds DEF Context
  <2>2. Len(frames) \in Nat
    OBVIOUS
  <2> QED
    BY <2>1, <2>2 DEF EntryShims, Shims
<1>4. calls' = [calls EXCEPT ![t] = s]
  <2>1. CASE Context(t) = "shared"
    BY <2>1, <1>1 DEF LockAndExecute
  <2>2. CASE Context(t) # "shared"
    <3>1. s = calls[t]
      BY <2>2, <1>1, <1>2 DEF Alternating
    <3> QED
      BY <2>2, <3>1 DEF LockAndExecute, ShimInv, ShimControl
  <2> QED
    BY <2>1, <2>2
<1>5. Goes(t, "script", s, table[t])
  BY <1>4 DEF LockAndExecute, Goto, Goes, ShimInv, TableControl
<1> HIDE DEF top
<1>6. Alternating(s) /\ Len(s) = Len(calls[t]) /\ Last(s) = top
  BY <1>2, <1>3, SetTopShim DEF Top, Context
<1>7. Fits(s, "script")
  BY <1>1, <1>3, <1>6 DEF Fits, InEntry, OfCallback
<1> QED
  BY <1>1, <1>3, <1>5, <1>6, <1>7 DEF top

\* The script calls out: a callback shim is constructed.
LEMMA CallOutGoes ==
    ASSUME ShimInv, NEW t \in Threads, CallOut(t)
    PROVE  LET s == Append(calls[t], Callback(Context(t), 0))
           IN  Goes(t, "dropping", s, table[t]) /\ Fits(s, "dropping") /\ table[t] = Last(s).context
<1> DEFINE x == Callback(Context(t), 0)
<1>1. /\ Fits(calls[t], "script") /\ pc[t] = "script" /\ table[t] = Context(t)
      /\ Len(calls[t]) < MaxNesting /\ Len(calls[t]) \in Nat /\ MaxNesting \in Nat
  BY ThreadFits, LockAssumption DEF CallOut
<1>2. Alternating(calls[t]) /\ Len(calls[t]) >= 1 /\ Last(calls[t]).kind = "entry" /\ Last(calls[t]) \in Shims
  BY <1>1 DEF Fits, InEntry, Alternating, Last
<1>3. x \in Shims /\ x.kind = "callback" /\ x.context = Last(calls[t]).context /\ x.dropped = 0
  BY <1>2, ShimKinds DEF Callback, Context, Top, Shims, CallbackShims
<1>4. Goes(t, "dropping", Append(calls[t], x), table[t])
  BY DEF CallOut, Goes, Push, Goto, ShimInv, TableControl
<1> HIDE DEF x
<1>5. /\ Alternating(Append(calls[t], x)) /\ Len(Append(calls[t], x)) = Len(calls[t]) + 1
      /\ Last(Append(calls[t], x)) = x
  BY <1>2, <1>3, PushShim
<1>6. Fits(Append(calls[t], x), "dropping")
  BY <1>1, <1>3, <1>5 DEF Fits, InEntry, OfCallback
<1>7. table[t] = x.context
  BY <1>1, <1>3 DEF Context, Top
<1> QED
  BY <1>4, <1>5, <1>6, <1>7 DEF x

\* DropAllLocks notes in its shim how many locks it has released.
LEMMA DropGoes ==
    ASSUME ShimInv, NEW t \in Threads, count[t] \in Nat, Drop(t)
    PROVE  LET top == [Top(t) EXCEPT !.dropped = IF Drops(t) THEN count[t] ELSE 0]
               s == [calls[t] EXCEPT ![Len(calls[t])] = top]
           IN  /\ Goes(t, "native", s, "default") /\ Fits(s, "native")
               /\ top \in Shims /\ top.kind = "callback" /\ top.context = Context(t)
<1> DEFINE n == IF Drops(t) THEN count[t] ELSE 0
           top == [Top(t) EXCEPT !.dropped = n]
           s == [calls[t] EXCEPT ![Len(calls[t])] = top]
<1>1. /\ Fits(calls[t], "dropping") /\ pc[t] = "dropping"
      /\ Top(t) = calls[t][Len(calls[t])] /\ Top(t) \in Shims /\ Len(calls[t]) \in Nat
  BY ThreadFits DEF Drop, Fits, OfCallback
<1>2. Alternating(calls[t]) /\ Len(calls[t]) >= 1 /\ Top(t).kind = "callback"
  BY <1>1 DEF Fits, OfCallback, Top
<1>3. top \in Shims /\ top.kind = "callback" /\ top.context = Context(t)
  <2>1. Top(t) \in CallbackShims /\ Context(t) = Top(t).context
    BY <1>1, <1>2, ShimKinds DEF Context
  <2>2. n \in Nat
    OBVIOUS
  <2> HIDE DEF n
  <2> QED
    BY <2>1, <2>2 DEF CallbackShims, Shims
<1>4. calls' = [calls EXCEPT ![t] = s]
  BY <1>1 DEF Drop
<1>5. Goes(t, "native", s, "default")
  BY <1>4 DEF Drop, Goto, Goes
<1> HIDE DEF top
<1>6. Alternating(s) /\ Len(s) = Len(calls[t]) /\ Last(s) = top
  BY <1>2, <1>3, SetTopShim DEF Top, Context
<1>7. Fits(s, "native")
  BY <1>1, <1>3, <1>6 DEF Fits, InEntry, OfCallback
<1> QED
  BY <1>3, <1>5, <1>7 DEF top

\* ~APIEntryShim restores the table of the native code that the entry came from.
LEMMA LeaveGoes ==
    ASSUME ShimInv, NEW t \in Threads, Leave(t)
    PROVE  LET s == Front(calls[t]) IN Goes(t, "native", s, "default") /\ Fits(s, "native")
<1>1. /\ Fits(calls[t], pc[t]) /\ pc[t] \in InEntry /\ Len(calls[t]) \in Nat
      /\ Len(calls[t]) >= 1 /\ Top(t) \in Shims /\ MaxNesting \in Nat
  BY ThreadFits, LockAssumption DEF Leave, Fits, InEntry
<1>2. Alternating(calls[t]) /\ Last(calls[t]).kind = "entry"
  BY <1>1 DEF Fits
<1>3. Top(t).saved = "default"
  BY <1>1, <1>2, ShimKinds DEF Top
<1>4. Goes(t, "native", Front(calls[t]), "default")
  BY <1>3 DEF Leave, Goes, Pop, Goto
<1>5. /\ Alternating(Front(calls[t])) /\ Len(Front(calls[t])) = Len(calls[t]) - 1
      /\ Len(calls[t]) >= 2 => (Last(Front(calls[t])).kind = "entry" <=> Last(calls[t]).kind = "callback")
  BY <1>1, <1>2, PopShim
<1>6. Len(Front(calls[t])) >= 1 => Last(Front(calls[t])).kind = "callback"
  <2> HAVE Len(Front(calls[t])) >= 1
  <2>1. Last(Front(calls[t])) \in Shims
    BY <1>5 DEF Alternating, Last
  <2> QED
    BY <2>1, <1>1, <1>2, <1>5, ShimKinds
<1>7. Fits(Front(calls[t]), "native")
  BY <1>1, <1>5, <1>6 DEF Fits, InEntry, OfCallback
<1> QED
  BY <1>4, <1>7

\* The callback shim is destroyed, and the script goes on.
LEMMA UndropGoes ==
    ASSUME ShimInv, NEW t \in Threads, Undrop(t)
    PROVE  LET s == Front(calls[t])
           IN  Goes(t, "script", s, table[t]) /\ Fits(s, "script") /\ table[t] = Last(s).context
<1>1. /\ Fits(calls[t], "undropping") /\ pc[t] = "undropping" /\ Len(calls[t]) \in Nat
      /\ Len(calls[t]) >= 1 /\ MaxNesting \in Nat /\ table[t] = Last(calls[t]).context
  BY ThreadFits, LockAssumption DEF Undrop, Fits, OfCallback, Context, Top
<1>2. Alternating(calls[t]) /\ Last(calls[t]).kind = "callback"
  BY <1>1 DEF Fits, OfCallback
<1>3. Goes(t, "script", Front(calls[t]), table[t])
  BY DEF Undrop, Goes, Pop, Goto, ShimInv, TableControl
<1>4. /\ Alternating(Front(calls[t])) /\ Len(Front(calls[t])) = Len(calls[t]) - 1 /\ Len(calls[t]) >= 2
      /\ Last(Front(calls[t])).kind = "entry" /\ Last(Front(calls[t])).context = Last(calls[t]).context
  BY <1>1, <1>2, PopShim
<1>5. Fits(Front(calls[t]), "script")
  BY <1>1, <1>4 DEF Fits, InEntry, OfCallback
<1> QED
  BY <1>1, <1>3, <1>4, <1>5

-----------------------------------------------------------------------------
(***************************************************************************)
(* JSLockCount is what the shims on the stack account for.                 *)
(***************************************************************************)
\* Where the topmost shim does not yet, or no longer, account for locks.
Unaccounted == {"starting", "locking", "leaving", "stopping", "dropping", "undropping"}

\* The lock count after shim i of the stack s, if it was m before.
Accounts(shim, m, n) ==
    IF ~Counts(shim.context) THEN n = m
    ELSE IF shim.kind = "entry" THEN n = m + 1
    ELSE IF shim.dropped > 0 THEN m = shim.dropped /\ n = 0
    ELSE n = m

\* level[i] is the lock count of a thread with stack s once shim i is constructed, and
\* n the lock count that it has at label l.
Levels(s, l, level, n) ==
    /\ level[0] = 0
    /\ \A i \in 1..Len(s) : Accounts(s[i], level[i - 1], level[i])
    /\ n = level[IF l \in Unaccounted THEN Len(s) - 1 ELSE Len(s)]

CountControl ==
    \A t \in Threads : \E level \in [Nat -> Nat] : Levels(calls[t], pc[t], level, count[t])

LockInv ==
    /\ ShimInv
    /\ frames \in Seq(Threads)
    /\ count \in [Threads -> Nat]
    /\ CountControl

\* A step of one thread that leaves it with the lock count n.
LEMMA ThreadCounts ==
    ASSUME LockInv, NEW t \in Threads, NEW l, NEW s, NEW x, Goes(t, l, s, x), Fits(s, l),
           x = IF l = "native" THEN "default" ELSE Last(s).context,
           NEW n \in Nat, count' = [count EXCEPT ![t] = n],
           NEW level \in [Nat -> Nat], Levels(s, l, level, n),
           frames' \in Seq(Threads)
    PROVE  LockInv'
<1>1. ShimInv /\ CountControl /\ count \in [Threads -> Nat]
  BY DEF LockInv
<1>2. /\ ShimInv' /\ calls'[t] = s /\ pc'[t] = l
      /\ \A u \in Threads \ {t} : calls'[u] = calls[u] /\ pc'[u] = pc[u]
  BY <1>1, ThreadGoes
<1>3. count' \in [Threads -> Nat] /\ count'[t] = n /\ \A u \in Threads \ {t} : count'[u] = count[u]
  BY <1>1
<1>4. ASSUME NEW u \in Threads PROVE \E k \in [Nat -> Nat] : Levels(calls'[u], pc'[u], k, count'[u])
  <2>1. CASE u = t
    BY <2>1, <1>2, <1>3
  <2>2. CASE u # t
    BY <2>2, <1>1, <1>2, <1>3 DEF CountControl
  <2> QED
    BY <2>1, <2>2
<1>5. CountControl'
  BY <1>4 DEF CountControl
<1> QED
  BY <1>2, <1>3, <1>5 DEF LockInv

\* A level can be replaced.
LEMMA SetLevel ==
    \A level \in [Nat -> Nat], h \in Nat, top \in Nat :
       \E k \in [Nat -> Nat] : k[h] = top /\ \A i \in Nat : i # h => k[i] = level[i]
<1> TAKE level \in [Nat -> Nat], h \in Nat, top \in Nat
<1> DEFINE k == [level EXCEPT ![h] = top]
<1>1. k \in [Nat -> Nat] /\ k[h] = top /\ \A i \in Nat : i # h => k[i] = level[i]
  OBVIOUS
<1> QED
  BY <1>1

\* A level can be added.
LEMMA AddLevel ==
    ASSUME NEW level \in [Nat -> Nat], NEW h \in Nat, NEW top \in Nat
    PROVE  \E k \in [Nat -> Nat] : k[h + 1] = top /\ \A i \in 0..h : k[i] = level[i]
<1> DEFINE k == [level EXCEPT ![h + 1] = top]
<1>1. k \in [Nat -> Nat] /\ k[h + 1] = top /\ \A i \in 0..h : k[i] = level[i]
  OBVIOUS
<1> QED
  BY <1>1

\* The shim that is pushed accounts for what it will add.
LEMMA PushLevel ==
    ASSUME NEW h \in Nat, NEW s, Len(s) = h, NEW q, Len(q) = h + 1, NEW x,
           q[h + 1] = x, \A i \in 1..h : q[i] = s[i],
           NEW l, l \notin Unaccounted, NEW m \in Unaccounted, NEW n, NEW level \in [Nat -> Nat], Levels(s, l, level, n),
           NEW top \in Nat, Accounts(x, n, top)
    PROVE  \E k \in [Nat -> Nat] : Levels(q, m, k, n)
<1>1. PICK k \in [Nat -> Nat] : k[h + 1] = top /\ \A i \in 0..h : k[i] = level[i]
  BY ZenonT(60), AddLevel
<1>2. \A i \in 0..h : k[i] = level[i]
  BY <1>1
<1>3. n = level[h] /\ level[0] = 0 /\ \A i \in 1..h : Accounts(s[i], level[i - 1], level[i])
  BY DEF Levels
<1>4. ASSUME NEW i \in 1..(h + 1) PROVE Accounts(q[i], k[i - 1], k[i])
  <2>1. CASE i = h + 1
    <3>1. k[i - 1] = n /\ k[i] = top /\ q[i] = x
      BY <2>1, <1>1, <1>2, <1>3
    <3> QED
      BY <3>1
  <2>2. CASE i \in 1..h
    <3>1. i \in 0..h /\ i - 1 \in 0..h
      BY <2>2
    <3>2. k[i - 1] = level[i - 1] /\ k[i] = level[i] /\ q[i] = s[i]
      BY <2>2, <3>1, <1>2
    <3> QED
      BY <2>2, <3>2, <1>3
  <2> QED
    BY <2>1, <2>2
<1>5. k[0] = 0 /\ n = k[h]
  BY <1>2, <1>3
<1>6. Len(q) - 1 = h /\ 1..Len(q) = 1..(h + 1)
  OBVIOUS
<1> QED
  BY <1>4, <1>5, <1>6 DEF Levels

\* The topmost shim is popped when it no longer accounts for locks.
LEMMA PopLevel ==
    ASSUME NEW h \in Nat, NEW s, Len(s) = h, h >= 1, NEW q, Len(q) = h - 1, \A i \in 1..(h - 1) : q[i] = s[i],
           NEW l \in Unaccounted, NEW m, m \notin Unaccounted, NEW n, NEW level \in [Nat -> Nat], Levels(s, l, level, n)
    PROVE  Levels(q, m, level, n)
BY DEF Levels

\* The topmost shim changes, and so does the count.
LEMMA TopLevel ==
    ASSUME NEW h \in Nat, NEW s, Len(s) = h, h >= 1, NEW q, Len(q) = h, \A i \in 1..(h - 1) : q[i] = s[i],
           NEW l, NEW m, NEW n, NEW level \in [Nat -> Nat], Levels(s, l, level, n),
           NEW top \in Nat, Accounts(q[h], level[h - 1], top)
    PROVE  \E k \in [Nat -> Nat] : Levels(q, m, k, IF m \in Unaccounted THEN level[h - 1] ELSE top)
<1>1. PICK k \in [Nat -> Nat] : k[h] = top /\ \A i \in Nat : i # h => k[i] = level[i]
  BY ZenonT(60), SetLevel
<1>2. \A i \in 0..(h - 1) : k[i] = level[i]
  BY <1>1
<1>3. level[0] = 0 /\ \A i \in 1..h : Accounts(s[i], level[i - 1], level[i])
  BY DEF Levels
<1>4. ASSUME NEW i \in 1..h PROVE Accounts(q[i], k[i - 1], k[i])
  <2>1. CASE i = h
    <3>1. k[i - 1] = level[h - 1] /\ k[i] = top
      BY <2>1, <1>1, <1>2
    <3> QED
      BY <2>1, <3>1
  <2>2. CASE i \in 1..(h - 1)
    <3>1. i \in 0..(h - 1) /\ i - 1 \in 0..(h - 1)
      BY <2>2
    <3>2. k[i - 1] = level[i - 1] /\ k[i] = level[i] /\ q[i] = s[i]
      BY <2>2, <3>1, <1>2
    <3> QED
      BY <2>2, <3>2, <1>3
  <2> QED
    BY <2>1, <2>2
<1>5. k[0] = 0 /\ k[h - 1] = level[h - 1] /\ k[h] = top
  BY <1>1, <1>2, <1>3
<1> QED
  BY <1>4, <1>5 DEF Levels

\* What the lock count is where the code relies on it.
LEMMA CountFacts ==
    ASSUME LockInv, NEW t \in Threads
    PROVE  /\ pc[t] \in {"script", "dropping"} /\ Counts(Context(t)) => count[t] >= 1
           /\ pc[t] = "relocking" /\ Counts(Context(t)) /\ Top(t).dropped > 0 => count[t] = 0
<1> DEFINE h == Len(calls[t])
<1>1. ShimInv /\ count[t] \in Nat
  BY DEF LockInv
<1>2. PICK level \in [Nat -> Nat] : Levels(calls[t], pc[t], level, count[t])
  BY DEF LockInv, CountControl
<1>3. Fits(calls[t], pc[t]) /\ h \in Nat /\ \A i \in 1..h : calls[t][i] \in Shims
  BY <1>1, ThreadFits
<1>0. Len(calls[t]) = h
  OBVIOUS
<1> HIDE DEF h
<1>9. h \in Nat
  BY <1>3
<1>4. ASSUME h >= 1 PROVE /\ level[h - 1] \in Nat /\ Accounts(Top(t), level[h - 1], level[h]) /\ Top(t) \in Shims
                          /\ count[t] = IF pc[t] \in Unaccounted THEN level[h - 1] ELSE level[h]
  <2>1. Top(t) = calls[t][h] /\ Top(t) \in Shims
    BY <1>0, <1>1, <1>4, ThreadFits
  <2>2. /\ level[h - 1] \in Nat /\ Accounts(calls[t][h], level[h - 1], level[h])
        /\ count[t] = IF pc[t] \in Unaccounted THEN level[h - 1] ELSE level[h]
    <3>1. h - 1 \in Nat /\ h \in 1..h
      BY <1>4, <1>9
    <3>2. /\ \A i \in 1..h : Accounts(calls[t][i], level[i - 1], level[i])
          /\ count[t] = level[IF pc[t] \in Unaccounted THEN h - 1 ELSE h]
      BY <1>0, <1>2 DEF Levels
    <3>3. level[h - 1] \in Nat
      BY <3>1
    <3>4. Accounts(calls[t][h], level[h - 1], level[h])
      BY <3>1, <3>2
    <3>5. count[t] = IF pc[t] \in Unaccounted THEN level[h - 1] ELSE level[h]
      BY <3>2
    <3> QED
      BY <3>3, <3>4, <3>5
  <2> QED
    BY <2>1, <2>2
<1>5. pc[t] \notin {"script", "relocking"} \/ pc[t] \notin Unaccounted
  BY DEF Unaccounted
<1>6. ASSUME pc[t] = "script", Counts(Context(t)) PROVE count[t] >= 1
  <2>1. h >= 1 /\ Top(t).kind = "entry"
    BY <1>0, <1>3, <1>6 DEF Fits, InEntry, Top
  <2>2. count[t] = level[h - 1] + 1 /\ level[h - 1] \in Nat
    BY <2>1, <1>4, <1>5, <1>6 DEF Accounts, Context
  <2> QED
    BY <2>2
<1>7. ASSUME pc[t] = "relocking", Counts(Context(t)), Top(t).dropped > 0 PROVE count[t] = 0
  <2>1. h >= 1 /\ Top(t).kind = "callback"
    BY <1>0, <1>3, <1>7 DEF Fits, OfCallback, Top
  <2> QED
    BY <2>1, <1>4, <1>5, <1>7 DEF Accounts, Context
<1>8. ASSUME pc[t] = "dropping", Counts(Context(t)) PROVE count[t] >= 1
  <2>1. h >= 1 /\ Last(calls[t]).kind = "callback" /\ Alternating(calls[t])
    BY <1>0, <1>3, <1>8 DEF Fits, OfCallback
  <2>2. /\ h >= 2 /\ Last(Front(calls[t])) = calls[t][h - 1] /\ Last(Front(calls[t])).kind = "entry"
        /\ Last(calls[t]).context = Last(Front(calls[t])).context
    BY <1>0, <2>1, PopShim
  <2>3. calls[t][h - 1].kind = "entry" /\ calls[t][h - 1].context = Context(t)
    BY <2>2 DEF Context, Top
  <2>4. h - 1 \in 1..h /\ h - 2 \in Nat /\ (h - 1) - 1 = h - 2
    BY <2>2, <1>3
  <2>5. Accounts(calls[t][h - 1], level[h - 2], level[h - 1])
    BY <1>0, <2>4, <1>2 DEF Levels
  <2>6. level[h - 1] = level[h - 2] + 1 /\ level[h - 2] \in Nat
    BY <2>3, <2>4, <2>5, <1>8 DEF Accounts
  <2>7. count[t] = level[h - 1]
    BY <2>1, <1>4, <1>8 DEF Unaccounted
  <2> QED
    BY <2>6, <2>7
<1> QED
  BY <1>6, <1>7, <1>8

\* A step that leaves the stack, the table and the count of the thread.
LEMMA QuietKeeps ==
    ASSUME LockInv, NEW t \in Threads, NEW l, UNCHANGED <<calls, table, count, frames>>, pc' = [pc EXCEPT ![t] = l],
           Fits(calls[t], l), table[t] = IF l = "native" THEN "default" ELSE Last(calls[t]).context,
           pc[t] \in Unaccounted <=> l \in Unaccounted
    PROVE  LockInv'
<1>1. ShimInv /\ count[t] \in Nat /\ count' = [count EXCEPT ![t] = count[t]] /\ frames' \in Seq(Threads)
  BY DEF LockInv
<1>2. Goes(t, l, calls[t], table[t])
  BY <1>1, KeepsStack
<1>3. PICK level \in [Nat -> Nat] : Levels(calls[t], pc[t], level, count[t])
  BY DEF LockInv, CountControl
<1>4. Levels(calls[t], l, level, count[t])
  BY <1>3 DEF Levels
<1> QED
  BY <1>1, <1>2, <1>4, ThreadCounts

\* An entry shim adds a level that its thread has not counted yet.
LEMMA EnterKeeps ==
    ASSUME LockInv, NEW t \in Threads, NEW c \in Contexts, Enter(t, c)
    PROVE  LockInv'
<1> DEFINE l == IF c = "shared" THEN "starting" ELSE "locking"
           e == Entry(c, "default")
           s == Append(calls[t], e)
<1>1. ShimInv /\ count[t] \in Nat /\ count' = [count EXCEPT ![t] = count[t]] /\ frames' \in Seq(Threads)
  BY DEF LockInv, Enter
<1>2. Goes(t, l, s, c) /\ Fits(s, l) /\ c = Last(s).context
  BY <1>1, EnterGoes
<1>3. /\ calls[t] \in Seq(Shims) /\ pc[t] = "native" /\ l \in Unaccounted /\ l # "native"
      /\ e \in Shims /\ e.kind = "entry" /\ e.context = c
  BY <1>1 DEF ShimInv, ShimControl, Enter, Entry, Shims, EntryShims, Unaccounted
<1>4. PICK level \in [Nat -> Nat] : Levels(calls[t], "native", level, count[t])
  BY <1>3 DEF LockInv, CountControl
<1>8. e \in Shims /\ e.kind = "entry" /\ e.context = c /\ calls[t] \in Seq(Shims)
  BY <1>3
<1> HIDE DEF e, l
<1>5. PICK top \in Nat : Accounts(e, count[t], top)
  <2>1. CASE Counts(c)
    <3>1. count[t] + 1 \in Nat
      BY SMTT(30), <1>1
    <3>2. Accounts(e, count[t], count[t] + 1)
      BY <2>1, <1>8 DEF Accounts
    <3> QED
      BY <3>1, <3>2
  <2>2. CASE ~Counts(c)
    BY <2>2, <1>1, <1>3 DEF Accounts
  <2> QED
    BY <2>1, <2>2
<1>6. /\ Len(calls[t]) \in Nat /\ Len(s) = Len(calls[t]) + 1 /\ s[Len(calls[t]) + 1] = e
      /\ \A i \in 1..Len(calls[t]) : s[i] = calls[t][i]
  BY <1>8, PushProperties
<1> HIDE DEF s
<1>7. PICK k \in [Nat -> Nat] : Levels(s, l, k, count[t])
  <2>1. "native" \notin Unaccounted
    BY DEF Unaccounted
  <2> QED
    BY <2>1, <1>3, <1>4, <1>5, <1>6, PushLevel
<1> QED
  BY <1>1, <1>2, <1>3, <1>7, ThreadCounts

\* A callback shim adds a level that has released no lock yet.
LEMMA CallOutKeeps ==
    ASSUME LockInv, NEW t \in Threads, CallOut(t)
    PROVE  LockInv'
<1> DEFINE e == Callback(Context(t), 0)
           s == Append(calls[t], e)
<1>1. ShimInv /\ count[t] \in Nat /\ count' = [count EXCEPT ![t] = count[t]] /\ frames' \in Seq(Threads)
  BY DEF LockInv, CallOut
<1>2. Goes(t, "dropping", s, table[t]) /\ Fits(s, "dropping") /\ table[t] = Last(s).context
  BY <1>1, CallOutGoes
<1>3. calls[t] \in Seq(Shims) /\ pc[t] = "script" /\ e.kind = "callback" /\ e.dropped = 0 /\ e \in Shims
  <2>1. Top(t) \in Shims
    BY <1>1, ThreadFits DEF CallOut, Fits, InEntry
  <2> QED
    BY <1>1, <2>1, ShimKinds DEF ShimInv, ShimControl, CallOut, Callback, Context, Shims, CallbackShims
<1>4. PICK level \in [Nat -> Nat] : Levels(calls[t], "script", level, count[t])
  BY <1>3 DEF LockInv, CountControl
<1>5. Accounts(e, count[t], count[t])
  BY <1>3 DEF Accounts
<1>8. e \in Shims /\ calls[t] \in Seq(Shims)
  BY <1>3
<1> HIDE DEF e
<1>6. /\ Len(calls[t]) \in Nat /\ Len(s) = Len(calls[t]) + 1 /\ s[Len(calls[t]) + 1] = e
      /\ \A i \in 1..Len(calls[t]) : s[i] = calls[t][i]
  BY <1>8, PushProperties
<1> HIDE DEF s
<1>7. PICK k \in [Nat -> Nat] : Levels(s, "dropping", k, count[t])
  <2>1. "script" \notin Unaccounted /\ "dropping" \in Unaccounted
    BY DEF Unaccounted
  <2> QED
    BY <2>1, <1>1, <1>4, <1>5, <1>6, PushLevel
<1> QED
  BY <1>1, <1>2, <1>7, ThreadCounts

\* An entry shim goes after it has released the lock it took.
LEMMA LeaveKeeps ==
    ASSUME LockInv, NEW t \in Threads, Leave(t)
    PROVE  LockInv'
<1> DEFINE s == Front(calls[t])
<1>1. ShimInv /\ count[t] \in Nat /\ count' = [count EXCEPT ![t] = count[t]] /\ frames' \in Seq(Threads)
  BY DEF LockInv, Leave
<1>2. Goes(t, "native", s, "default") /\ Fits(s, "native")
  BY <1>1, LeaveGoes
<1>3. pc[t] \in Unaccounted /\ "native" \notin Unaccounted /\ pc[t] \in InEntry
  BY DEF Leave, Unaccounted, InEntry
<1>4. PICK level \in [Nat -> Nat] : Levels(calls[t], pc[t], level, count[t])
  BY DEF LockInv, CountControl
<1>5. Len(calls[t]) \in Nat /\ Len(calls[t]) >= 1 /\ Alternating(calls[t])
  BY <1>1, <1>3, ThreadFits DEF Fits
<1>6. Len(s) = Len(calls[t]) - 1 /\ \A i \in 1..(Len(calls[t]) - 1) : s[i] = calls[t][i]
  BY <1>5, PopShim
<1> HIDE DEF s
<1>7. Levels(s, "native", level, count[t])
  BY <1>3, <1>4, <1>5, <1>6, PopLevel
<1> QED
  BY <1>1, <1>2, <1>7, ThreadCounts

\* A callback shim goes after the locks it released are held again.
LEMMA UndropKeeps ==
    ASSUME LockInv, NEW t \in Threads, Undrop(t)
    PROVE  LockInv'
<1> DEFINE s == Front(calls[t])
<1>1. ShimInv /\ count[t] \in Nat /\ count' = [count EXCEPT ![t] = count[t]] /\ frames' \in Seq(Threads)
  BY DEF LockInv, Undrop
<1>2. Goes(t, "script", s, table[t]) /\ Fits(s, "script") /\ table[t] = Last(s).context
  BY <1>1, UndropGoes
<1>3. pc[t] \in Unaccounted /\ "script" \notin Unaccounted /\ pc[t] \in OfCallback
  BY DEF Undrop, Unaccounted, OfCallback
<1>4. PICK level \in [Nat -> Nat] : Levels(calls[t], pc[t], level, count[t])
  BY DEF LockInv, CountControl
<1>5. Len(calls[t]) \in Nat /\ Len(calls[t]) >= 1 /\ Alternating(calls[t])
  BY <1>1, <1>3, ThreadFits DEF Fits
<1>6. Len(s) = Len(calls[t]) - 1 /\ \A i \in 1..(Len(calls[t]) - 1) : s[i] = calls[t][i]
  BY <1>5, PopShim
<1> HIDE DEF s
<1>7. Levels(s, "script", level, count[t])
  BY <1>3, <1>4, <1>5, <1>6, PopLevel
<1> QED
  BY <1>1, <1>2, <1>7, ThreadCounts

\* A step that changes at most the topmost shim, and the count with it.
LEMMA TopKeeps ==
    ASSUME LockInv, NEW t \in Threads, NEW l, NEW s, NEW x, Goes(t, l, s, x), Fits(s, l),
           x = IF l = "native" THEN "default" ELSE Last(s).context, frames' \in Seq(Threads),
           NEW h \in Nat, h >= 1, Len(calls[t]) = h, Len(s) = h, \A i \in 1..(h - 1) : s[i] = calls[t][i],
           NEW level \in [Nat -> Nat], Levels(calls[t], pc[t], level, count[t]),
           NEW top \in Nat, Accounts(s[h], level[h - 1], top),
           count' = [count EXCEPT ![t] = IF l \in Unaccounted THEN level[h - 1] ELSE top]
    PROVE  LockInv'
<1>1. PICK k \in [Nat -> Nat] : Levels(s, l, k, IF l \in Unaccounted THEN level[h - 1] ELSE top)
  BY ZenonT(60), TopLevel
<1>2. PICK n \in Nat : n = IF l \in Unaccounted THEN level[h - 1] ELSE top
  <2>1. h - 1 \in Nat
    OBVIOUS
  <2> QED
    BY <2>1
<1>3. count' = [count EXCEPT ![t] = n] /\ Levels(s, l, k, n)
  BY <1>1, <1>2
<1> QED
  BY <1>3, ThreadCounts

\* The count of a thread at a shim, and what the shim adds to it.
LEMMA ThreadLevel ==
    ASSUME LockInv, NEW t \in Threads, Len(calls[t]) >= 1
    PROVE  \E h \in Nat, level \in [Nat -> Nat] :
             /\ h >= 1 /\ Len(calls[t]) = h
             /\ Levels(calls[t], pc[t], level, count[t])
             /\ level[h - 1] \in Nat /\ level[h] \in Nat
             /\ Top(t) = calls[t][h]
             /\ Accounts(Top(t), level[h - 1], level[h])
             /\ count[t] = IF pc[t] \in Unaccounted THEN level[h - 1] ELSE level[h]
<1>1. ShimInv /\ count[t] \in Nat
  BY DEF LockInv
<1>2. PICK level \in [Nat -> Nat] : Levels(calls[t], pc[t], level, count[t])
  BY DEF LockInv, CountControl
<1>3. PICK h \in Nat : h = Len(calls[t])
  BY <1>1, ThreadFits
<1>4. h >= 1 /\ Len(calls[t]) = h /\ Top(t) = calls[t][h]
  BY <1>1, <1>3, ThreadFits
<1>5. h - 1 \in Nat /\ h \in 1..h
  BY <1>4
<1>6. /\ \A i \in 1..h : Accounts(calls[t][i], level[i - 1], level[i])
      /\ count[t] = level[IF pc[t] \in Unaccounted THEN h - 1 ELSE h]
  BY <1>4, <1>2 DEF Levels
<1>7. level[h - 1] \in Nat /\ level[h] \in Nat
  BY <1>5
<1>8. Accounts(calls[t][h], level[h - 1], level[h])
  BY <1>5, <1>6
<1>9. count[t] = IF pc[t] \in Unaccounted THEN level[h - 1] ELSE level[h]
  BY <1>6
<1> QED
  BY <1>2, <1>4, <1>7, <1>8, <1>9

\* A lock of a context that counts raises the count and the level of the entry shim.
LEMMA LockAndExecuteKeeps ==
    ASSUME LockInv, NEW t \in Threads, LockAndExecute(t)
    PROVE  LockInv'
<1> DEFINE top == IF Context(t) = "shared" THEN [Top(t) EXCEPT !.oldEnd = Len(frames)] ELSE Top(t)
           s == [calls[t] EXCEPT ![Len(calls[t])] = top]
<1>1. ShimInv /\ frames \in Seq(Threads) /\ pc[t] = "locking"
  BY DEF LockInv, LockAndExecute
<1>2. Fits(calls[t], "locking")
  BY <1>1, ThreadFits
<1>3. Len(calls[t]) >= 1 /\ Top(t).kind = "entry" /\ Alternating(calls[t])
  BY <1>2 DEF Fits, InEntry, Top
<1>4. /\ Goes(t, "script", s, table[t]) /\ Fits(s, "script") /\ table[t] = Last(s).context
      /\ top \in Shims /\ top.kind = "entry" /\ top.context = Context(t)
  BY <1>1, LockAndExecuteGoes
<1>5. frames' \in Seq(Threads)
  BY <1>1 DEF LockAndExecute
<1> HIDE DEF top
<1>15. /\ Alternating(calls[t]) /\ Len(calls[t]) >= 1 /\ top \in Shims
       /\ top.kind = Last(calls[t]).kind /\ top.context = Last(calls[t]).context
  BY <1>3, <1>4 DEF Context, Top
<1>7. Len(s) = Len(calls[t]) /\ s[Len(calls[t])] = top /\ \A i \in 1..(Len(calls[t]) - 1) : s[i] = calls[t][i]
  <2>1. calls[t] \in Seq(Shims) /\ Len(calls[t]) \in Nat
    BY <1>15 DEF Alternating
  <2> QED
    BY <2>1, <1>15
<1> HIDE DEF s
<1>6. PICK h \in Nat, level \in [Nat -> Nat] :
             /\ h >= 1 /\ Len(calls[t]) = h
             /\ Levels(calls[t], pc[t], level, count[t])
             /\ level[h - 1] \in Nat /\ level[h] \in Nat
             /\ Top(t) = calls[t][h]
             /\ Accounts(Top(t), level[h - 1], level[h])
             /\ count[t] = IF pc[t] \in Unaccounted THEN level[h - 1] ELSE level[h]
  BY <1>3, ThreadLevel
<1>8. Len(s) = h /\ s[h] = top /\ \A i \in 1..(h - 1) : s[i] = calls[t][i]
  BY <1>6, <1>7
<1>9. Accounts(s[h], level[h - 1], level[h])
  BY <1>3, <1>4, <1>6, <1>8 DEF Accounts, Context
<1>10. count' = [count EXCEPT ![t] = level[h]]
  <2>1. count[t] = level[h - 1]
    BY <1>1, <1>6 DEF Unaccounted
  <2>2. IF Counts(Context(t)) THEN level[h] = level[h - 1] + 1 ELSE level[h] = level[h - 1]
    BY <1>3, <1>6 DEF Accounts, Context
  <2>3. count' = [count EXCEPT ![t] = IF Counts(Context(t)) THEN count[t] + 1 ELSE count[t]]
    BY DEF LockAndExecute, Lock
  <2>4. level[h] = IF Counts(Context(t)) THEN count[t] + 1 ELSE count[t]
    BY <2>1, <2>2
  <2> QED
    BY <2>3, <2>4
<1>11. count' = [count EXCEPT ![t] = IF "script" \in Unaccounted THEN level[h - 1] ELSE level[h]]
  BY <1>10 DEF Unaccounted
<1>12. level[h] \in Nat /\ h >= 1 /\ Len(calls[t]) = h /\ Levels(calls[t], pc[t], level, count[t])
  BY <1>6
<1> QED
  BY <1>4, <1>5, <1>8, <1>9, <1>11, <1>12, TopKeeps

\* An unlock takes the count back to the level below the entry shim.
LEMMA ReturnAndUnlockKeeps ==
    ASSUME LockInv, NEW t \in Threads, ReturnAndUnlock(t)
    PROVE  LockInv'
<1>1. ShimInv /\ frames \in Seq(Threads) /\ pc[t] = "script"
  BY DEF LockInv, ReturnAndUnlock
<1>2. Fits(calls[t], "script") /\ table[t] = Last(calls[t]).context
  BY <1>1, ThreadFits DEF Context, Top
<1>3. Len(calls[t]) >= 1 /\ Top(t).kind = "entry" /\ Top(t) \in Shims
  BY <1>1, <1>2, ThreadFits DEF Fits, InEntry, Top
<1>4. Goes(t, "leaving", calls[t], table[t]) /\ Fits(calls[t], "leaving")
  <2>1. Goes(t, "leaving", calls[t], table[t])
    BY <1>1, KeepsStack DEF ReturnAndUnlock, Goto
  <2> QED
    BY <2>1, <1>2 DEF Fits, InEntry, OfCallback
<1>5. frames' \in Seq(Threads)
  <2>1. Top(t).oldEnd \in Nat
    BY <1>3, ShimKinds
  <2>2. (IF Top(t).oldEnd < Len(frames) THEN Top(t).oldEnd ELSE Len(frames)) \in 0..Len(frames)
    BY <1>1, <2>1
  <2>3. Shrink(Top(t).oldEnd) \in Seq(Threads)
    BY <1>1, <2>2, PrefixProperties DEF Shrink
  <2> QED
    BY <1>1, <2>3 DEF ReturnAndUnlock
<1>6. PICK h \in Nat, level \in [Nat -> Nat] :
             /\ h >= 1 /\ Len(calls[t]) = h
             /\ Levels(calls[t], pc[t], level, count[t])
             /\ level[h - 1] \in Nat /\ level[h] \in Nat
             /\ Top(t) = calls[t][h]
             /\ Accounts(Top(t), level[h - 1], level[h])
             /\ count[t] = IF pc[t] \in Unaccounted THEN level[h - 1] ELSE level[h]
  BY <1>3, ThreadLevel
<1>7. count' = [count EXCEPT ![t] = level[h - 1]]
  <2>1. count[t] = level[h]
    BY <1>1, <1>6 DEF Unaccounted
  <2>2. IF Counts(Context(t)) THEN level[h] = level[h - 1] + 1 ELSE level[h] = level[h - 1]
    BY <1>3, <1>6 DEF Accounts, Context
  <2>3. count' = [count EXCEPT ![t] = IF Counts(Context(t)) THEN count[t] - 1 ELSE count[t]]
    BY DEF ReturnAndUnlock, Unlock
  <2>5. level[h - 1] \in Nat /\ level[h] \in Nat
    BY <1>6
  <2>4. level[h - 1] = IF Counts(Context(t)) THEN count[t] - 1 ELSE count[t]
    BY <2>1, <2>2, <2>5
  <2> QED
    BY <2>3, <2>4
<1>8. count' = [count EXCEPT ![t] = IF "leaving" \in Unaccounted THEN level[h - 1] ELSE level[h]]
  BY <1>7 DEF Unaccounted
<1>9. /\ level[h] \in Nat /\ h >= 1 /\ Len(calls[t]) = h /\ Levels(calls[t], pc[t], level, count[t])
      /\ Accounts(calls[t][h], level[h - 1], level[h])
  BY <1>6
<1> QED
  BY <1>2, <1>4, <1>5, <1>8, <1>9, TopKeeps

\* The count drops by as much as the callback shim remembers.
LEMMA DropKeeps ==
    ASSUME LockInv, NEW t \in Threads, Drop(t)
    PROVE  LockInv'
<1> DEFINE n == IF Drops(t) THEN count[t] ELSE 0
           top == [Top(t) EXCEPT !.dropped = n]
           s == [calls[t] EXCEPT ![Len(calls[t])] = top]
<1>1. ShimInv /\ frames' \in Seq(Threads) /\ pc[t] = "dropping" /\ count[t] \in Nat /\ n \in Nat
  BY DEF LockInv, Drop
<1>2. Fits(calls[t], "dropping") /\ (Len(calls[t]) >= 1 => Top(t) \in Shims)
  BY <1>1, ThreadFits
<1>3. Len(calls[t]) >= 1 /\ Top(t).kind = "callback" /\ Alternating(calls[t]) /\ Top(t) \in Shims
  BY <1>2 DEF Fits, OfCallback, Top
<1>4. /\ Goes(t, "native", s, "default") /\ Fits(s, "native")
      /\ top \in Shims /\ top.kind = "callback" /\ top.context = Context(t)
  BY <1>1, DropGoes
<1>5. top.dropped = n
  <2>1. Top(t) \in CallbackShims
    BY <1>3, ShimKinds
  <2> QED
    BY <2>1 DEF CallbackShims
<1>13. count' = [count EXCEPT ![t] = IF Counts(Context(t)) THEN count[t] - n ELSE count[t]]
  BY DEF Drop, Unlock
<1>14. n = 0 \/ n = count[t]
  OBVIOUS
<1> HIDE DEF top, n
<1>15. /\ Alternating(calls[t]) /\ Len(calls[t]) >= 1 /\ top \in Shims
       /\ top.kind = Last(calls[t]).kind /\ top.context = Last(calls[t]).context
  BY <1>3, <1>4 DEF Context, Top
<1>7. Len(s) = Len(calls[t]) /\ s[Len(calls[t])] = top /\ \A i \in 1..(Len(calls[t]) - 1) : s[i] = calls[t][i]
  <2>1. calls[t] \in Seq(Shims) /\ Len(calls[t]) \in Nat
    BY <1>15 DEF Alternating
  <2> QED
    BY <2>1, <1>15
<1> HIDE DEF s
<1>6. PICK h \in Nat, level \in [Nat -> Nat] :
             /\ h >= 1 /\ Len(calls[t]) = h
             /\ Levels(calls[t], pc[t], level, count[t])
             /\ level[h - 1] \in Nat /\ level[h] \in Nat
             /\ Top(t) = calls[t][h]
             /\ Accounts(Top(t), level[h - 1], level[h])
             /\ count[t] = IF pc[t] \in Unaccounted THEN level[h - 1] ELSE level[h]
  BY <1>3, ThreadLevel
<1>8. Len(s) = h /\ s[h] = top /\ \A i \in 1..(h - 1) : s[i] = calls[t][i]
  BY <1>6, <1>7
<1>9. PICK m \in Nat : m = IF Counts(Context(t)) THEN count[t] - n ELSE count[t]
  BY <1>1, <1>14
<1>10. Accounts(s[h], level[h - 1], m)
  <2>1. count[t] = level[h - 1]
    BY <1>1, <1>6 DEF Unaccounted
  <2>2. s[h].context = Context(t) /\ s[h].kind = "callback" /\ s[h].dropped = n
    BY <1>4, <1>5, <1>8
  <2>3. CASE ~Counts(Context(t))
    BY <2>1, <2>2, <2>3, <1>9 DEF Accounts
  <2>4. CASE Counts(Context(t)) /\ n > 0
    <3>1. n = count[t] /\ m = 0
      BY <2>4, <1>1, <1>9, <1>14
    <3> QED
      BY <2>1, <2>2, <2>4, <3>1 DEF Accounts
  <2>5. CASE Counts(Context(t)) /\ n = 0
    <3>1. m = count[t]
      BY <2>5, <1>1, <1>9
    <3> QED
      BY <2>1, <2>2, <2>5, <3>1 DEF Accounts
  <2> QED
    BY <2>3, <2>4, <2>5, <1>1
<1>11. count' = [count EXCEPT ![t] = IF "native" \in Unaccounted THEN level[h - 1] ELSE m]
  BY <1>9, <1>13 DEF Unaccounted
<1>12. h >= 1 /\ Len(calls[t]) = h /\ Levels(calls[t], pc[t], level, count[t])
  BY <1>6
<1> QED
  BY <1>1, <1>4, <1>8, <1>10, <1>11, <1>12, TopKeeps

\* The locks that are taken again are those that the callback shim remembers.
LEMMA RelockKeeps ==
    ASSUME LockInv, NEW t \in Threads, Relock(t)
    PROVE  LockInv'
<1>1. ShimInv /\ frames' \in Seq(Threads) /\ pc[t] = "relocking"
  BY DEF LockInv, Relock
<1>2. Fits(calls[t], "relocking") /\ table[t] = Last(calls[t]).context
  BY <1>1, ThreadFits DEF Context, Top
<1>3. Len(calls[t]) >= 1 /\ Top(t).kind = "callback" /\ Top(t) \in Shims
  BY <1>1, <1>2, ThreadFits DEF Fits, OfCallback, Top
<1>4. Goes(t, "undropping", calls[t], table[t]) /\ Fits(calls[t], "undropping")
  <2>1. Goes(t, "undropping", calls[t], table[t])
    BY <1>1, KeepsStack DEF Relock, Goto
  <2> QED
    BY <2>1, <1>2 DEF Fits, InEntry, OfCallback
<1>6. PICK h \in Nat, level \in [Nat -> Nat] :
             /\ h >= 1 /\ Len(calls[t]) = h
             /\ Levels(calls[t], pc[t], level, count[t])
             /\ level[h - 1] \in Nat /\ level[h] \in Nat
             /\ Top(t) = calls[t][h]
             /\ Accounts(Top(t), level[h - 1], level[h])
             /\ count[t] = IF pc[t] \in Unaccounted THEN level[h - 1] ELSE level[h]
  BY <1>3, ThreadLevel
<1>7. count' = [count EXCEPT ![t] = level[h - 1]]
  <2>1. count[t] = level[h] /\ Top(t).dropped \in Nat
    BY <1>1, <1>3, <1>6, ShimKinds DEF Unaccounted
  <2>2. IF Counts(Context(t)) /\ Top(t).dropped > 0 THEN level[h - 1] = Top(t).dropped /\ level[h] = 0 ELSE level[h] = level[h - 1]
    BY <1>3, <1>6 DEF Accounts, Context
  <2>3. count' = [count EXCEPT ![t] = IF Counts(Context(t)) THEN count[t] + Top(t).dropped ELSE count[t]]
    BY DEF Relock, Lock
  <2>5. level[h - 1] \in Nat /\ level[h] \in Nat
    BY <1>6
  <2>4. level[h - 1] = IF Counts(Context(t)) THEN count[t] + Top(t).dropped ELSE count[t]
    BY <2>1, <2>2, <2>5
  <2> QED
    BY <2>3, <2>4
<1>8. count' = [count EXCEPT ![t] = IF "undropping" \in Unaccounted THEN level[h - 1] ELSE level[h]]
  BY <1>7 DEF Unaccounted
<1>9. /\ level[h] \in Nat /\ h >= 1 /\ Len(calls[t]) = h /\ Levels(calls[t], pc[t], level, count[t])
      /\ Accounts(calls[t][h], level[h - 1], level[h])
  BY <1>6
<1> QED
  BY <1>1, <1>2, <1>4, <1>8, <1>9, TopKeeps

\* A callback returns to its shim, with the count the shim left.
LEMMA ReturnFromCallbackKeeps ==
    ASSUME LockInv, NEW t \in Threads, ReturnFromCallback(t)
    PROVE  LockInv'
<1>1. /\ ShimInv /\ frames' \in Seq(Threads) /\ pc[t] = "native" /\ count[t] \in Nat
      /\ count' = [count EXCEPT ![t] = count[t]]
  BY DEF LockInv, ReturnFromCallback
<1>2. Fits(calls[t], "native") /\ Alternating(calls[t])
  BY <1>1, ThreadFits DEF Fits
<1>3. Len(calls[t]) >= 1 /\ Last(calls[t]).kind = "callback"
  BY <1>2 DEF ReturnFromCallback, InCallback, Top, Alternating
<1>4. Goes(t, "relocking", calls[t], Last(calls[t]).context) /\ Fits(calls[t], "relocking")
  <2>1. Goes(t, "relocking", calls[t], Last(calls[t]).context)
    BY <1>1 DEF ReturnFromCallback, Goes, Goto, ShimInv, ShimControl, Context, Top
  <2> QED
    BY <2>1, <1>2, <1>3 DEF Fits, InEntry, OfCallback
<1>5. PICK level \in [Nat -> Nat] : Levels(calls[t], pc[t], level, count[t])
  BY DEF LockInv, CountControl
<1>6. Levels(calls[t], "relocking", level, count[t])
  BY <1>1, <1>5 DEF Levels, Unaccounted
<1> QED
  BY <1>1, <1>4, <1>6, ThreadCounts

\* The invariant holds initially.
LEMMA LockInit == Init => LockInv
<1> SUFFICES ASSUME Init PROVE LockInv
  OBVIOUS
<1>1. ShimInv
  <2>1. Len(<<>>) = 0 /\ <<>> \in Seq(Shims)
    OBVIOUS
  <2>2. \A t \in Threads : calls[t] = <<>> /\ pc[t] = "native" /\ table[t] = "default" /\ Len(calls[t]) = 0
    BY <2>1 DEF Init
  <2>3. Alternating(<<>>)
    BY <2>1 DEF Alternating
  <2>4. "native" \notin InEntry /\ "native" \notin OfCallback /\ MaxNesting \in Nat
    BY LockAssumption DEF InEntry, OfCallback
  <2>5. calls \in [Threads -> Seq(Shims)]
    BY <2>1 DEF Init
  <2>6. pc \in [Threads -> {"native"} \cup InEntry \cup OfCallback]
    BY DEF Init
  <2>7. ShimControl
    BY <2>2, <2>3, <2>4, <2>5, <2>6 DEF ShimControl
  <2>8. TableControl
    BY <2>2 DEF TableControl, Init
  <2> QED
    BY <2>7, <2>8 DEF ShimInv
<1>2. frames \in Seq(Threads) /\ count \in [Threads -> Nat]
  BY DEF Init
<1>3. ASSUME NEW t \in Threads PROVE \E level \in [Nat -> Nat] : Levels(calls[t], pc[t], level, count[t])
  <2> DEFINE level == [i \in Nat |-> 0]
  <2>1. level \in [Nat -> Nat] /\ level[0] = 0
    OBVIOUS
  <2>2. calls[t] = <<>> /\ pc[t] = "native" /\ count[t] = 0
    BY DEF Init
  <2>3. Len(calls[t]) = 0 /\ pc[t] \notin Unaccounted
    BY <2>2 DEF Unaccounted
  <2> HIDE DEF level
  <2>4. Levels(calls[t], pc[t], level, count[t])
    BY <2>1, <2>2, <2>3 DEF Levels
  <2> QED
    BY <2>1, <2>4
<1> QED
  BY <1>1, <1>2, <1>3 DEF LockInv, CountControl

\* Every step keeps the invariant.
LEMMA LockStep == LockInv /\ [Next]_vars => LockInv'
<1> SUFFICES ASSUME LockInv, [Next]_vars PROVE LockInv'
  OBVIOUS
<1>1. CASE UNCHANGED vars
  BY <1>1 DEF vars, LockInv, ShimInv, ShimControl, TableControl, CountControl, Top, Context
<1>2. ASSUME NEW t \in Threads, NEW c \in Contexts, Enter(t, c) PROVE LockInv'
  BY <1>2, EnterKeeps
<1>3. ASSUME NEW t \in Threads, CallOut(t) PROVE LockInv'
  BY <1>3, CallOutKeeps
<1>4. ASSUME NEW t \in Threads, Start(t) PROVE LockInv'
  <2>1. ShimInv /\ pc[t] = "starting" /\ pc' = [pc EXCEPT ![t] = "locking"] /\ UNCHANGED <<calls, table, count, frames>>
    BY <1>4 DEF Start, Goto, LockInv
  <2>2. Fits(calls[t], "locking") /\ table[t] = Last(calls[t]).context
    BY <2>1, ThreadFits DEF Fits, InEntry, OfCallback, Context, Top
  <2> QED
    BY <2>1, <2>2, QuietKeeps DEF Unaccounted
<1>5. ASSUME NEW t \in Threads, LockAndExecute(t) PROVE LockInv'
  BY <1>5, LockAndExecuteKeeps
<1>6. ASSUME NEW t \in Threads, ReturnAndUnlock(t) PROVE LockInv'
  BY <1>6, ReturnAndUnlockKeeps
<1>7. ASSUME NEW t \in Threads, Stop(t) PROVE LockInv'
  <2>1. ShimInv /\ pc[t] = "leaving" /\ pc' = [pc EXCEPT ![t] = "stopping"] /\ UNCHANGED <<calls, table, count, frames>>
    BY <1>7 DEF Stop, Goto, LockInv
  <2>2. Fits(calls[t], "stopping") /\ table[t] = Last(calls[t]).context
    BY <2>1, ThreadFits DEF Fits, InEntry, OfCallback, Context, Top
  <2> QED
    BY <2>1, <2>2, QuietKeeps DEF Unaccounted
<1>8. ASSUME NEW t \in Threads, Leave(t) PROVE LockInv'
  BY <1>8, LeaveKeeps
<1>9. ASSUME NEW t \in Threads, Drop(t) PROVE LockInv'
  BY <1>9, DropKeeps
<1>10. ASSUME NEW t \in Threads, ReturnFromCallback(t) PROVE LockInv'
  BY <1>10, ReturnFromCallbackKeeps
<1>11. ASSUME NEW t \in Threads, Relock(t) PROVE LockInv'
  BY <1>11, RelockKeeps
<1>12. ASSUME NEW t \in Threads, Undrop(t) PROVE LockInv'
  BY <1>12, UndropKeeps
<1> QED
  BY <1>1, <1>2, <1>3, <1>4, <1>5, <1>6, <1>7, <1>8, <1>9, <1>10, <1>11, <1>12 DEF Next, Continue

\* The invariant is one of the specification.
THEOREM LockInvariance == Spec => []LockInv
BY LockInit, LockStep, PTL DEF Spec

\* A script runs with the identifier table of its context: the shims of any thread save
\* and restore it in the order of a stack, whatever the locks do.
THEOREM TablesFollow == Spec => []TableFollowsContext
<1>1. LockInv => TableFollowsContext
  BY DEF LockInv, ShimInv, TableControl, TableFollowsContext
<1> QED
  BY <1>1, LockInvariance, PTL

-----------------------------------------------------------------------------
(***************************************************************************)
(* The mutex has the owner that JSLockCount says.  In a debug build the    *)
(* lock of a private context counts too, without the mutex: a thread that  *)
(* enters the shared context from a callback of its own then takes no      *)
(* mutex.  So not both kinds of context are in use in a debug build.       *)
(***************************************************************************)
OneKindOfLock == AssertionsEnabled => "private" \notin Contexts

MutexControl ==
    /\ mutex \in Threads \cup {NoThread}
    /\ \A t \in Threads : mutex = t <=> count[t] > 0

\* JSLock::lock takes the mutex with the first lock of a thread.
LEMMA LockKeepsMutex ==
    ASSUME OneKindOfLock, MutexControl, count \in [Threads -> Nat],
           NEW t \in Threads, NEW c \in Contexts, NEW n \in Nat, Lock(t, c, n)
    PROVE  MutexControl'
<1>1. NoThread \notin Threads /\ count[t] \in Nat /\ (Counts(c) <=> c = "shared")
  BY LockAssumption DEF OneKindOfLock, Counts
<1>2. /\ count'[t] = IF c = "shared" THEN count[t] + n ELSE count[t]
      /\ \A u \in Threads \ {t} : count'[u] = count[u]
  BY <1>1 DEF Lock
<1>3. CASE c = "shared" /\ n > 0 /\ count[t] = 0
  <2>1. mutex = NoThread /\ mutex' = t /\ count'[t] = n
    BY <1>1, <1>2, <1>3 DEF Lock
  <2>2. \A u \in Threads \ {t} : mutex # u /\ mutex' # u
    BY <1>1, <2>1
  <2> QED
    BY <2>1, <2>2, <1>2, <1>3 DEF MutexControl
<1>4. CASE ~(c = "shared" /\ n > 0 /\ count[t] = 0)
  <2>1. mutex' = mutex /\ (count'[t] > 0 <=> count[t] > 0)
    BY <1>1, <1>2, <1>4 DEF Lock
  <2> QED
    BY <2>1, <1>2 DEF MutexControl
<1> QED
  BY <1>3, <1>4

\* JSLock::unlock releases the mutex with the last lock of a thread, which owns it.
LEMMA UnlockKeepsOwner ==
    ASSUME OneKindOfLock, MutexControl, count \in [Threads -> Nat],
           NEW t \in Threads, NEW c \in Contexts, NEW n \in Nat, n <= count[t], Unlock(t, c, n)
    PROVE  MutexControl'
<1>1. NoThread \notin Threads /\ count[t] \in Nat /\ (Counts(c) <=> c = "shared")
  BY LockAssumption DEF OneKindOfLock, Counts
<1>2. /\ count'[t] = IF c = "shared" THEN count[t] - n ELSE count[t]
      /\ \A u \in Threads \ {t} : count'[u] = count[u]
  BY <1>1 DEF Unlock
<1>3. CASE c = "shared" /\ n > 0 /\ count[t] = n
  <2>1. mutex = t /\ count'[t] = 0
    BY <1>1, <1>2, <1>3 DEF MutexControl
  <2>2. mutex' = NoThread
    BY <2>1, <1>3 DEF Unlock
  <2>3. \A u \in Threads \ {t} : mutex # u /\ mutex' # u
    BY <1>1, <2>1, <2>2
  <2> QED
    BY <1>1, <2>1, <2>2, <2>3, <1>2 DEF MutexControl
<1>4. CASE ~(c = "shared" /\ n > 0 /\ count[t] = n)
  <2>1. mutex' = mutex /\ (count'[t] > 0 <=> count[t] > 0)
    BY <1>1, <1>2, <1>4 DEF Unlock
  <2> QED
    BY <2>1, <1>2 DEF MutexControl
<1> QED
  BY <1>3, <1>4

\* The context of a thread's topmost shim.
LEMMA TopContext ==
    ASSUME LockInv, NEW t \in Threads, pc[t] \in InEntry \cup OfCallback
    PROVE  Context(t) \in Contexts /\ (pc[t] \in OfCallback => Top(t).dropped \in Nat)
<1>1. ShimInv
  BY DEF LockInv
<1>2. Len(calls[t]) >= 1 /\ Top(t) \in Shims /\ (pc[t] \in OfCallback => Top(t).kind = "callback")
  BY <1>1, ThreadFits DEF Fits, Top
<1> QED
  BY <1>2, ShimKinds DEF Context

\* Every step keeps the owner.
LEMMA MutexStep == OneKindOfLock /\ LockInv /\ MutexControl /\ [Next]_vars => MutexControl'
<1> SUFFICES ASSUME OneKindOfLock, LockInv, MutexControl, [Next]_vars PROVE MutexControl'
  OBVIOUS
<1>0. count \in [Threads -> Nat]
  BY DEF LockInv
<1>1. CASE UNCHANGED <<mutex, count>>
  BY <1>1 DEF MutexControl
<1>2. ASSUME NEW t \in Threads, LockAndExecute(t) PROVE MutexControl'
  <2>1. Context(t) \in Contexts /\ Lock(t, Context(t), 1)
    BY <1>2, TopContext DEF LockAndExecute, InEntry
  <2> QED
    BY <2>1, <1>0, LockKeepsMutex
<1>3. ASSUME NEW t \in Threads, Relock(t) PROVE MutexControl'
  <2>1. Context(t) \in Contexts /\ Top(t).dropped \in Nat /\ Lock(t, Context(t), Top(t).dropped)
    BY <1>3, TopContext DEF Relock, OfCallback
  <2> QED
    BY <2>1, <1>0, LockKeepsMutex
<1>4. ASSUME NEW t \in Threads, ReturnAndUnlock(t) PROVE MutexControl'
  <2>1. Context(t) \in Contexts /\ Unlock(t, Context(t), 1) /\ pc[t] = "script"
    BY <1>4, TopContext DEF ReturnAndUnlock, InEntry
  <2>2. CASE Counts(Context(t))
    <3>1. count[t] >= 1
      BY <2>1, <2>2, CountFacts
    <3>2. 1 <= count[t]
      BY <1>0, <3>1
    <3> QED
      BY <2>1, <3>2, <1>0, UnlockKeepsOwner
  <2>3. CASE ~Counts(Context(t))
    BY <2>1, <2>3, <1>0 DEF Unlock, Counts, MutexControl
  <2> QED
    BY <2>2, <2>3
<1>5. ASSUME NEW t \in Threads, Drop(t) PROVE MutexControl'
  <2>1. PICK n \in Nat : n = IF Drops(t) THEN count[t] ELSE 0
    BY <1>0
  <2>2. n <= count[t]
    BY <1>0, <2>1
  <2>3. Context(t) \in Contexts /\ Unlock(t, Context(t), n)
    BY <1>5, <2>1, TopContext DEF Drop, OfCallback
  <2> QED
    BY <2>2, <2>3, <1>0, UnlockKeepsOwner
<1> QED
  BY <1>1, <1>2, <1>3, <1>4, <1>5
  DEF Next, Continue, Enter, CallOut, Start, Stop, Leave, ReturnFromCallback, Undrop, vars

\* A thread that executes in the shared context owns the mutex, so no two threads execute
\* there at a time: JSLock and DropAllLocks keep the count of a thread in step with it.
THEOREM ExecutingThreadsOwnTheMutex == OneKindOfLock /\ Spec => []ExecutingOwnsMutex
<1>1. Init => MutexControl
  BY LockAssumption DEF Init, MutexControl
<1>2. LockInv /\ MutexControl => ExecutingOwnsMutex
  <2> SUFFICES ASSUME LockInv, MutexControl, NEW t \in Threads,
                      pc[t] \in {"script", "dropping"}, Context(t) = "shared"
               PROVE  mutex = t
    BY DEF ExecutingOwnsMutex, Executing
  <2>1. count[t] >= 1 /\ count[t] \in Nat
    BY CountFacts DEF Counts, LockInv
  <2>2. count[t] > 0
    BY <2>1
  <2> QED
    BY <2>2 DEF MutexControl
<1>3. OneKindOfLock /\ LockInv /\ MutexControl /\ [Next]_vars => MutexControl'
  BY MutexStep
<1>4. SUFFICES ASSUME OneKindOfLock PROVE Spec => []ExecutingOwnsMutex
  OBVIOUS
<1> QED
  BY <1>1, <1>2, <1>3, <1>4, LockInvariance, PTL DEF Spec

-----------------------------------------------------------------------------
(***************************************************************************)
(* The register file that the threads of the shared context use by turns   *)
(* is never corrupted, for any number of threads: the frames of a thread   *)
(* that drops its lock in a callback stay below those of the one thread    *)
(* that enters meanwhile, which keeps its lock in its own callbacks.       *)
(***************************************************************************)
\* lockDropDepth has no common lock with private contexts, and the counter must not wrap.
SharedOnly == Contexts = {"shared"} /\ MaxNesting < Width

-----------------------------------------------------------------------------
(***************************************************************************)
(* The invariant.                                                          *)
(***************************************************************************)
Height(t)  == Len(calls[t])
Shim(t, i) == calls[t][i]
Size       == Len(frames)
OwnerOf(j) == frames[j]

\* Twice the frames, and twice the completed increments of lockDropDepth, of a thread with
\* a native stack of height h at label l.
TwiceFrames(h, l) ==
    CASE l = "script" -> h + 1
      [] l \in {"starting", "locking", "leaving", "stopping"} -> h - 1
      [] OTHER -> h

TwiceSettled(h, l) ==
    CASE l \in InEntry -> h - 1
      [] l = "dropping" -> h - 2
      [] OTHER -> h

\* The locks that t has dropped and not taken again, where a is the thread that dropped.
Dropped(t, a) == IF t = a /\ ~(Height(t) = 2 /\ pc[t] = "undropping") THEN 1 ELSE 0

\* The frames below those of t: one, of the thread a that has dropped its lock.
Below(t, a) == IF a \in {t, NoThread} THEN 0 ELSE 1

\* Only the outermost callback of a has dropped a lock; all other frames are locked;
\* every frame is where the height of its entry says; and a thread that is about to
\* write lockDropDepth has read its present value.
ThreadControl(t, a) ==
    /\ t = a => Height(t) >= 2 /\ Shim(t, 2).kind = "callback"
    /\ \A i \in 1..Height(t) :
          Shim(t, i).kind = "callback" => Shim(t, i).dropped = IF i = 2 /\ t = a THEN 1 ELSE 0
    /\ 2 * count[t] = TwiceFrames(Height(t), pc[t]) - 2 * Dropped(t, a)
    /\ \A i \in Framed(t) : 2 * Shim(t, i).oldEnd = i - 1 + 2 * Below(t, a)
    /\ pc[t] \in {"dropping", "undropping"} => read[t] = dropDepth

\* lockDropDepth counts the callbacks of a and of the owner of the mutex, and without a
\* thread that has dropped its lock there are none.
DepthControl(a) ==
    /\ dropDepth \in Nat
    /\ a = NoThread => dropDepth = 0
    /\ 2 * dropDepth = (IF a \in Threads THEN TwiceSettled(Height(a), pc[a]) ELSE 0)
                       + (IF mutex \in Threads \ {a} THEN TwiceSettled(Height(mutex), pc[mutex]) ELSE 0)

\* The register file has the frame of a, then those of the owner of the mutex.
FrameControl(a) ==
    /\ 2 * Size = 2 * Below(mutex, a)
                  + (IF mutex \in Threads THEN TwiceFrames(Height(mutex), pc[mutex]) ELSE 0)
    /\ Below(mutex, a) = 1 => OwnerOf(1) = a
    /\ \A j \in (Below(mutex, a) + 1)..Size : OwnerOf(j) = mutex

Shape(a) ==
    /\ a \in Threads \cup {NoThread}
    /\ DOMAIN read = Threads
    /\ \A t \in Threads : ThreadControl(t, a)
    /\ DepthControl(a)
    /\ FrameControl(a)

StackControl == \E a \in Threads \cup {NoThread} : Shape(a)

-----------------------------------------------------------------------------
(***************************************************************************)
(* Facts about one thread.                                                 *)
(***************************************************************************)
Outside == {"starting", "locking", "leaving", "stopping"}

Basics(t) ==
    /\ Height(t) \in Nat /\ Height(t) <= MaxNesting
    /\ count[t] \in Nat
    /\ pc[t] \in {"native"} \cup InEntry \cup OfCallback
    /\ pc[t] \in InEntry => Height(t) >= 1 /\ Shim(t, Height(t)).kind = "entry"
    /\ pc[t] \in OfCallback => Height(t) >= 2 /\ Shim(t, Height(t)).kind = "callback"
    /\ pc[t] = "native" /\ Height(t) >= 1 => Height(t) >= 2 /\ Shim(t, Height(t)).kind = "callback"
    /\ pc[t] = "dropping" => Shim(t, Height(t)).dropped = 0
    /\ Height(t) >= 1 => Top(t) = Shim(t, Height(t)) /\ Context(t) = "shared"
    /\ \A i \in 1..Height(t) :
          /\ Shim(t, i).kind \in {"entry", "callback"}
          /\ Shim(t, i).kind = "entry" => Shim(t, i).oldEnd \in Nat
    /\ \A i : i \in Framed(t) <=> /\ i \in 1..Height(t) /\ Shim(t, i).kind = "entry"
                                  /\ i = Height(t) => pc[t] \notin Outside

\* What is known of a thread from its shims.
LEMMA BasicFacts == SharedOnly /\ LockInv => \A t \in Threads : Basics(t)
<1> SUFFICES ASSUME SharedOnly, LockInv, NEW t \in Threads PROVE Basics(t)
  OBVIOUS
<1>1. ShimInv /\ count[t] \in Nat /\ MaxNesting \in Nat
  BY LockAssumption DEF LockInv
<1>2. /\ Fits(calls[t], pc[t]) /\ Len(calls[t]) \in Nat
      /\ \A i \in 1..Len(calls[t]) : calls[t][i] \in Shims
      /\ Len(calls[t]) >= 1 => Top(t) = calls[t][Len(calls[t])] /\ Top(t) \in Shims
  BY <1>1, ThreadFits
<1>3. Alternating(calls[t]) /\ Len(calls[t]) <= MaxNesting /\ pc[t] \in {"native"} \cup InEntry \cup OfCallback
  BY <1>2 DEF Fits
<1>4. Len(calls[t]) >= 1 /\ Last(calls[t]).kind = "callback" => Len(calls[t]) >= 2
  BY <1>3, PopShim
<1>5. Len(calls[t]) >= 1 => Last(calls[t]) = Top(t)
  BY DEF Top
<1>6. Len(calls[t]) >= 1 => Context(t) = "shared"
  BY <1>2, ShimKinds DEF SharedOnly, Context
<1>7. \A i \in 1..Len(calls[t]) :
          /\ calls[t][i].kind \in {"entry", "callback"} /\ calls[t][i].context = "shared"
          /\ calls[t][i].kind = "entry" => calls[t][i].oldEnd \in Nat
  BY <1>2, ShimKinds DEF SharedOnly
<1>8. DOMAIN calls[t] = 1..Len(calls[t])
  BY <1>3 DEF Alternating
<1>9. \A i : i \in Framed(t) <=> /\ i \in 1..Len(calls[t]) /\ calls[t][i].kind = "entry"
                                 /\ i = Len(calls[t]) => pc[t] \notin Outside
  BY <1>7, <1>8 DEF Framed, Outside
<1>10. pc[t] \in InEntry => Len(calls[t]) >= 1 /\ Last(calls[t]).kind = "entry"
  BY <1>2 DEF Fits
<1>11. pc[t] \in OfCallback => Len(calls[t]) >= 1 /\ Last(calls[t]).kind = "callback"
  BY <1>2 DEF Fits
<1>12. pc[t] = "native" /\ Len(calls[t]) >= 1 => Last(calls[t]).kind = "callback"
  BY <1>2 DEF Fits
<1>13. pc[t] = "dropping" => Last(calls[t]).dropped = 0 /\ pc[t] \in OfCallback
  BY <1>2 DEF Fits, OfCallback
<1> QED
  BY <1>1, <1>2, <1>3, <1>4, <1>5, <1>6, <1>7, <1>9, <1>10, <1>11, <1>12, <1>13 DEF Basics, Height, Shim

\* A thread that does not own the mutex has no frame, or it has dropped its only one.
LEMMA NotOwner ==
    ASSUME NEW t, Basics(t), NEW a, ThreadControl(t, a), count[t] = 0
    PROVE  /\ pc[t] \notin {"script", "dropping", "undropping"}
           /\ t # a => /\ TwiceFrames(Height(t), pc[t]) = 0
                       /\ TwiceSettled(Height(t), pc[t]) = 0
                       /\ Framed(t) = {}
           /\ t = a => /\ TwiceFrames(Height(t), pc[t]) = 2
                       /\ TwiceSettled(Height(t), pc[t]) = 2
                       /\ Framed(t) \subseteq {1}
<1>1. /\ Height(t) \in Nat /\ TwiceFrames(Height(t), pc[t]) = 2 * Dropped(t, a)
      /\ Dropped(t, a) \in {0, 1} /\ (Dropped(t, a) = 1 => t = a)
  BY DEF Basics, ThreadControl, Dropped, TwiceFrames, Outside
<1>2. pc[t] \in {"native"} \cup InEntry \cup OfCallback
  BY DEF Basics
<1>3. pc[t] # "script"
  <2>1. t = a => Height(t) >= 2
    BY DEF ThreadControl
  <2> QED
    BY <2>1, <1>1 DEF TwiceFrames, Basics, InEntry
<1>4. ASSUME pc[t] \in {"dropping", "undropping"} PROVE FALSE
  <2>1. Height(t) >= 2 /\ TwiceFrames(Height(t), pc[t]) = Height(t)
    BY <1>4 DEF TwiceFrames, Basics, OfCallback
  <2>2. t = a /\ Height(t) = 2 /\ pc[t] = "dropping"
    BY <1>1, <1>4, <2>1 DEF Dropped
  <2>3. Shim(t, 2).dropped = 0 /\ Shim(t, 2).kind = "callback"
    BY <2>2 DEF Basics, ThreadControl
  <2>4. 2 \in 1..Height(t)
    BY <2>2
  <2>5. Shim(t, 2).dropped = 1
    BY <2>2, <2>3, <2>4 DEF ThreadControl
  <2> QED
    BY <2>3, <2>5
<1>5. ASSUME t # a PROVE /\ TwiceFrames(Height(t), pc[t]) = 0
                         /\ TwiceSettled(Height(t), pc[t]) = 0
                         /\ Framed(t) = {}
  <2>1. TwiceFrames(Height(t), pc[t]) = 0
    BY <1>1, <1>5
  <2>2. TwiceSettled(Height(t), pc[t]) = 0
    BY <1>1, <1>2, <1>3, <1>4, <2>1 DEF TwiceFrames, TwiceSettled, InEntry, OfCallback
  <2>3. (pc[t] \in Outside /\ Height(t) = 1) \/ Height(t) = 0
    BY <1>1, <1>2, <1>3, <1>4, <2>1 DEF TwiceFrames, InEntry, OfCallback, Outside
  <2>4. Framed(t) = {}
    BY <2>3 DEF Basics
  <2> QED
    BY <2>1, <2>2, <2>4
<1>6. ASSUME t = a PROVE /\ TwiceFrames(Height(t), pc[t]) = 2
                         /\ TwiceSettled(Height(t), pc[t]) = 2
                         /\ Framed(t) \subseteq {1}
  <2>1. Dropped(t, a) = 1
    BY <1>6, <1>4 DEF Dropped
  <2>2. TwiceFrames(Height(t), pc[t]) = 2
    BY <1>1, <2>1
  <2>3. TwiceSettled(Height(t), pc[t]) = 2
    BY <1>1, <1>2, <1>3, <1>4, <2>2 DEF TwiceFrames, TwiceSettled, InEntry, OfCallback
  <2>4. (pc[t] \in Outside /\ Height(t) = 3) \/ Height(t) = 2
    BY <1>1, <1>2, <1>3, <1>4, <2>2 DEF TwiceFrames, InEntry, OfCallback, Outside
  <2>5. Shim(t, 2).kind = "callback"
    BY <1>6 DEF ThreadControl
  <2>6. ASSUME NEW i \in Framed(t) PROVE i = 1
    <3>1. i \in 1..Height(t) /\ Shim(t, i).kind = "entry" /\ (i = Height(t) => pc[t] \notin Outside)
      BY <2>6 DEF Basics
    <3>2. i # 2
      BY <3>1, <2>5
    <3> QED
      BY <3>1, <3>2, <2>4, <1>1
  <2> QED
    BY <2>2, <2>3, <2>6
<1> QED
  BY <1>3, <1>4, <1>5, <1>6

\* Numbers below the width do not wrap.
LEMMA NoWrap == \A w \in Nat \ {0}, x \in Nat : x < w => x % w = x
OBVIOUS

\* The same of a thread after a step.
LEMMA BasicFactsNext == SharedOnly /\ LockInv' => \A t \in Threads : Basics(t)'
<1>1. (SharedOnly /\ LockInv => \A t \in Threads : Basics(t))'
  BY BasicFacts, PTL
<1>2. SharedOnly => SharedOnly'
  BY DEF SharedOnly
<1> QED
  BY <1>1, <1>2

-----------------------------------------------------------------------------
(***************************************************************************)
(* What the step of one thread leaves of the others.                       *)
(***************************************************************************)
\* The step of another thread than u.
Spares(u) == calls'[u] = calls[u] /\ pc'[u] = pc[u] /\ count'[u] = count[u] /\ read'[u] = read[u]

\* A thread that does not move keeps its shape, if it is not about to write lockDropDepth
\* while another does.
LEMMA OthersKeep ==
    ASSUME NEW u, Spares(u), NEW a, ThreadControl(u, a),
           pc[u] \in {"dropping", "undropping"} => dropDepth' = dropDepth
    PROVE  ThreadControl(u, a)'
<1>1. /\ Height(u)' = Height(u) /\ \A i : Shim(u, i)' = Shim(u, i)
      /\ Framed(u)' = Framed(u) /\ Dropped(u, a)' = Dropped(u, a) /\ Below(u, a)' = Below(u, a)
  BY DEF Spares, Height, Shim, Framed, Dropped, Below
<1>2. pc'[u] = pc[u] /\ count'[u] = count[u] /\ read'[u] = read[u]
  BY DEF Spares
<1> QED
  BY <1>1, <1>2 DEF ThreadControl

\* When t drops the lock or takes it again, no other thread has a frame.
LEMMA OthersSwitch ==
    ASSUME NEW t, NEW u, u \notin {t, NoThread}, Spares(u), NEW a \in {t, NoThread}, NEW b \in {t, NoThread},
           ThreadControl(u, a), Basics(u), count[u] = 0
    PROVE  ThreadControl(u, b)'
<1>1. u # a /\ u # b
  OBVIOUS
<1>2. pc[u] \notin {"script", "dropping", "undropping"} /\ Framed(u) = {}
  BY <1>1, NotOwner
<1>3. /\ Height(u)' = Height(u) /\ \A i : Shim(u, i)' = Shim(u, i)
      /\ Framed(u)' = Framed(u) /\ Dropped(u, b)' = Dropped(u, a)
  BY <1>1 DEF Spares, Height, Shim, Framed, Dropped
<1>4. pc'[u] = pc[u] /\ count'[u] = count[u]
  BY DEF Spares
<1> QED
  BY <1>1, <1>2, <1>3, <1>4 DEF ThreadControl

\* A step that changes neither locks nor frames nor lockDropDepth.
LEMMA QuietShape ==
    ASSUME NEW a, Shape(a), NEW t \in Threads, UNCHANGED <<mutex, count, frames, dropDepth>>,
           DOMAIN read' = Threads, \A u \in Threads \ {t} : Spares(u),
           TwiceFrames(Height(t), pc[t])' = TwiceFrames(Height(t), pc[t]),
           TwiceSettled(Height(t), pc[t])' = TwiceSettled(Height(t), pc[t]),
           ThreadControl(t, a)'
    PROVE  Shape(a)'
<1>1. \A u \in Threads : ThreadControl(u, a)'
  BY OthersKeep DEF Shape
<1>2. \A u \in Threads : /\ TwiceFrames(Height(u), pc[u])' = TwiceFrames(Height(u), pc[u])
                         /\ TwiceSettled(Height(u), pc[u])' = TwiceSettled(Height(u), pc[u])
  <2> TAKE u \in Threads
  <2>1. CASE u = t
    BY <2>1
  <2>2. CASE u # t
    BY <2>2 DEF Spares, Height, TwiceFrames, TwiceSettled
  <2> QED
    BY <2>1, <2>2
<1>3. \A u \in Threads : /\ TwiceFrames(Height(u)', pc'[u]) = TwiceFrames(Height(u), pc[u])
                         /\ TwiceSettled(Height(u)', pc'[u]) = TwiceSettled(Height(u), pc[u])
  BY <1>2 DEF TwiceFrames, TwiceSettled
<1>4. DepthControl(a)'
  BY <1>3 DEF Shape, DepthControl
<1>5. FrameControl(a)'
  <2>1. Below(mutex, a)' = Below(mutex, a)
    BY DEF Below
  <2>2. Size' = Size /\ \A j : OwnerOf(j)' = OwnerOf(j)
    BY DEF Size, OwnerOf
  <2> QED
    BY <1>3, <2>1, <2>2 DEF Shape, FrameControl
<1> QED
  BY <1>1, <1>4, <1>5 DEF Shape

-----------------------------------------------------------------------------
(***************************************************************************)
(* What a step does to the native stack of its thread.                     *)
(***************************************************************************)
\* A shim is constructed.
LEMMA Pushed ==
    ASSUME LockInv, NEW t \in Threads, NEW x \in Shims, calls' = [calls EXCEPT ![t] = Append(@, x)]
    PROVE  /\ \E h \in Nat : /\ Height(t) = h /\ Height(t)' = h + 1 /\ Shim(t, h + 1)' = x
                             /\ \A i \in 1..h : Shim(t, i)' = Shim(t, i)
           /\ \A u \in Threads \ {t} : calls'[u] = calls[u]
<1>1. calls \in [Threads -> Seq(Shims)] /\ calls[t] \in Seq(Shims)
  BY DEF LockInv, ShimInv, ShimControl
<1>2. calls'[t] = Append(calls[t], x) /\ \A u \in Threads \ {t} : calls'[u] = calls[u]
  BY <1>1
<1>3. PICK s : s = calls[t]
  OBVIOUS
<1>4. /\ Len(s) \in Nat /\ Len(Append(s, x)) = Len(s) + 1 /\ Append(s, x)[Len(s) + 1] = x
      /\ \A i \in 1..Len(s) : Append(s, x)[i] = s[i]
  BY <1>1, <1>3, PushProperties
<1>5. PICK q : q = Append(s, x)
  OBVIOUS
<1>6. PICK h \in Nat : Len(s) = h
  BY <1>4
<1>7. Len(q) = h + 1 /\ q[h + 1] = x /\ \A i \in 1..h : q[i] = s[i]
  BY <1>4, <1>5, <1>6
<1>8. calls'[t] = q
  BY <1>2, <1>3, <1>5
<1> QED
  BY <1>2, <1>3, <1>6, <1>7, <1>8 DEF Height, Shim

\* A shim is destructed.
LEMMA Popped ==
    ASSUME LockInv, NEW t \in Threads, Height(t) >= 1, Pop(t)
    PROVE  /\ \E h \in Nat : /\ Height(t) = h + 1 /\ Height(t)' = h
                             /\ \A i \in 1..h : Shim(t, i)' = Shim(t, i)
           /\ \A u \in Threads \ {t} : calls'[u] = calls[u]
<1>1. calls \in [Threads -> Seq(Shims)] /\ calls[t] \in Seq(Shims) /\ Alternating(calls[t])
  BY DEF LockInv, ShimInv, ShimControl
<1>2. calls'[t] = Front(calls[t]) /\ \A u \in Threads \ {t} : calls'[u] = calls[u]
  BY <1>1 DEF Pop
<1>3. Len(Front(calls[t])) = Len(calls[t]) - 1 /\ \A i \in 1..(Len(calls[t]) - 1) : Front(calls[t])[i] = calls[t][i]
  BY <1>1, PopShim DEF Height
<1>4. Len(calls[t]) \in Nat /\ Len(calls[t]) >= 1
  BY <1>1 DEF Height
<1>5. PICK q : q = Front(calls[t])
  OBVIOUS
<1>6. PICK s : s = calls[t]
  OBVIOUS
<1>7. PICK h \in Nat : Len(s) = h + 1
  <2>1. Len(s) - 1 \in Nat /\ Len(s) = (Len(s) - 1) + 1
    BY <1>4, <1>6
  <2> QED
    BY <2>1
<1>8. Len(q) = h /\ \A i \in 1..h : q[i] = s[i]
  BY <1>3, <1>5, <1>6, <1>7
<1>9. calls'[t] = q
  BY <1>2, <1>5
<1> QED
  BY <1>2, <1>6, <1>7, <1>8, <1>9 DEF Height, Shim

\* A field of the topmost shim is assigned.
LEMMA TopSet ==
    ASSUME LockInv, NEW t \in Threads, Height(t) >= 1, NEW x \in Shims,
           x.kind = Top(t).kind, x.context = Top(t).context,
           calls' = [calls EXCEPT ![t] = [calls[t] EXCEPT ![Len(calls[t])] = x]]
    PROVE  /\ \E h \in Nat : /\ h >= 1 /\ Height(t) = h /\ Height(t)' = h /\ Shim(t, h)' = x
                             /\ \A i \in 1..(h - 1) : Shim(t, i)' = Shim(t, i)
           /\ \A u \in Threads \ {t} : calls'[u] = calls[u]
<1>1. calls \in [Threads -> Seq(Shims)] /\ calls[t] \in Seq(Shims) /\ Alternating(calls[t])
  BY DEF LockInv, ShimInv, ShimControl
<1>2. calls'[t] = [calls[t] EXCEPT ![Len(calls[t])] = x] /\ \A u \in Threads \ {t} : calls'[u] = calls[u]
  BY <1>1
<1>3. PICK s : s = calls[t]
  OBVIOUS
<1>4. s \in Seq(Shims) /\ Len(s) >= 1
  BY <1>1, <1>3 DEF Height
<1>5. PICK q : q = [s EXCEPT ![Len(s)] = x]
  OBVIOUS
<1>6. Len(q) = Len(s) /\ q[Len(s)] = x /\ \A i \in 1..(Len(s) - 1) : q[i] = s[i]
  BY <1>4, <1>5
<1>7. PICK h \in Nat : Len(s) = h
  BY <1>4
<1>8. h >= 1 /\ Len(q) = h /\ q[h] = x /\ \A i \in 1..(h - 1) : q[i] = s[i]
  BY <1>4, <1>6, <1>7
<1>9. calls'[t] = q
  BY <1>2, <1>3, <1>5
<1> QED
  BY <1>2, <1>3, <1>7, <1>8, <1>9 DEF Height, Shim

-----------------------------------------------------------------------------
(***************************************************************************)
(* Steps that change neither locks nor frames nor lockDropDepth.           *)
(***************************************************************************)
\* APIEntryShim's constructor, before the lock.
LEMMA EnterShape ==
    ASSUME SharedOnly, LockInv, LockInv', NEW a, Shape(a), NEW t \in Threads, NEW c \in Contexts, Enter(t, c)
    PROVE  Shape(a)'
<1>1. Basics(t) /\ Basics(t)' /\ ThreadControl(t, a) /\ c = "shared"
  BY BasicFacts, BasicFactsNext DEF Shape, SharedOnly
<1>2. PICK x \in Shims : x.kind = "entry" /\ calls' = [calls EXCEPT ![t] = Append(@, x)]
  <2>1. table[t] = "default"
    BY ThreadFits DEF LockInv, Enter
  <2>2. Entry(c, "default") \in Shims /\ Entry(c, "default").kind = "entry"
    BY DEF Entry, Shims, EntryShims
  <2> QED
    BY <2>1, <2>2 DEF Enter, Push
<1>3. /\ pc[t] = "native" /\ pc'[t] = "starting" /\ UNCHANGED <<mutex, count, frames, dropDepth>>
      /\ \A u \in Threads \ {t} : pc'[u] = pc[u] /\ count'[u] = count[u] /\ read'[u] = read[u]
  BY <1>1 DEF Enter, Goto, LockInv, ShimInv, ShimControl
<1>8. DOMAIN read' = Threads
  BY DEF Enter, Shape
<1>4. \A u \in Threads \ {t} : calls'[u] = calls[u]
  BY <1>2, Pushed
<1>5. PICK h \in Nat : /\ Height(t) = h /\ Height(t)' = h + 1 /\ Shim(t, h + 1)' = x
                       /\ \A i \in 1..h : Shim(t, i)' = Shim(t, i)
  BY <1>2, Pushed
<1>6. /\ TwiceFrames(Height(t), pc[t]) = h /\ TwiceFrames(Height(t)', pc'[t]) = h
      /\ TwiceSettled(Height(t), pc[t]) = h /\ TwiceSettled(Height(t)', pc'[t]) = h
  BY <1>3, <1>5 DEF TwiceFrames, TwiceSettled, InEntry
<1>7. ThreadControl(t, a)'
  <2>1. t = a => h + 1 >= 2 /\ Shim(t, 2)'.kind = "callback"
    BY <1>1, <1>5 DEF ThreadControl
  <2>2. \A i \in 1..(h + 1) :
          Shim(t, i)'.kind = "callback" => Shim(t, i)'.dropped = IF i = 2 /\ t = a THEN 1 ELSE 0
    <3> TAKE i \in 1..(h + 1)
    <3>1. CASE i = h + 1
      BY <3>1, <1>2, <1>5
    <3>2. CASE i \in 1..h
      BY <3>2, <1>1, <1>5 DEF ThreadControl
    <3> QED
      BY <3>1, <3>2
  <2>3. Dropped(t, a)' = Dropped(t, a)
    BY <1>3 DEF Dropped
  <2>4. ASSUME NEW i \in Framed(t)' PROVE 2 * Shim(t, i)'.oldEnd = i - 1 + 2 * Below(t, a)
    <3>1. i \in 1..(h + 1) /\ Shim(t, i)'.kind = "entry" /\ i # h + 1
      BY <2>4, <1>1, <1>3, <1>5 DEF Basics, Outside
    <3>2. i \in 1..h /\ Shim(t, i).kind = "entry" /\ Shim(t, i)' = Shim(t, i)
      BY <3>1, <1>5
    <3>3. i \in Framed(t)
      BY <3>2, <1>1, <1>3, <1>5 DEF Basics, Outside
    <3> QED
      BY <3>2, <3>3, <1>1 DEF ThreadControl
  <2>5. Below(t, a)' = Below(t, a)
    BY DEF Below
  <2>6. 2 * count'[t] = TwiceFrames(Height(t)', pc'[t]) - 2 * Dropped(t, a)'
    BY <1>1, <1>3, <1>6, <2>3 DEF ThreadControl
  <2> QED
    BY <1>3, <1>5, <2>1, <2>2, <2>4, <2>5, <2>6 DEF ThreadControl
<1> QED
  BY <1>3, <1>4, <1>6, <1>7, <1>8, QuietShape DEF Spares

\* APICallbackShim's constructor reads lockDropDepth.
LEMMA CallOutShape ==
    ASSUME SharedOnly, LockInv, LockInv', NEW a, Shape(a), NEW t \in Threads, CallOut(t)
    PROVE  Shape(a)'
<1>1. Basics(t) /\ Basics(t)' /\ ThreadControl(t, a)
  BY BasicFacts, BasicFactsNext DEF Shape
<1>2. PICK x \in Shims : x.kind = "callback" /\ x.dropped = 0 /\ calls' = [calls EXCEPT ![t] = Append(@, x)]
  <2>1. Context(t) \in Contexts
    BY TopContext DEF CallOut, InEntry
  <2>2. Callback(Context(t), 0) \in Shims /\ Callback(Context(t), 0).kind = "callback" /\ Callback(Context(t), 0).dropped = 0
    BY <2>1 DEF Callback, Shims, CallbackShims
  <2> QED
    BY <2>2 DEF CallOut, Push
<1>3. /\ pc[t] = "script" /\ pc'[t] = "dropping" /\ UNCHANGED <<mutex, count, frames, dropDepth>>
      /\ \A u \in Threads \ {t} : pc'[u] = pc[u] /\ count'[u] = count[u]
  BY DEF CallOut, Goto, LockInv, ShimInv, ShimControl
<1>8. (\A u \in Threads \ {t} : read'[u] = read[u]) /\ read'[t] = dropDepth /\ DOMAIN read' = Threads
  BY DEF CallOut, Shape
<1>4. \A u \in Threads \ {t} : calls'[u] = calls[u]
  BY <1>2, Pushed
<1>5. PICK h \in Nat : /\ Height(t) = h /\ Height(t)' = h + 1 /\ Shim(t, h + 1)' = x
                       /\ \A i \in 1..h : Shim(t, i)' = Shim(t, i)
  BY <1>2, Pushed
<1>6. /\ TwiceFrames(Height(t), pc[t]) = h + 1 /\ TwiceFrames(Height(t)', pc'[t]) = h + 1
      /\ TwiceSettled(Height(t), pc[t]) = h - 1 /\ TwiceSettled(Height(t)', pc'[t]) = h - 1
  BY <1>3, <1>5 DEF TwiceFrames, TwiceSettled, InEntry
<1>7. ThreadControl(t, a)'
  <2>1. t = a => h + 1 >= 2 /\ h >= 2 /\ Shim(t, 2)'.kind = "callback"
    BY <1>1, <1>5 DEF ThreadControl
  <2>2. \A i \in 1..(h + 1) :
          Shim(t, i)'.kind = "callback" => Shim(t, i)'.dropped = IF i = 2 /\ t = a THEN 1 ELSE 0
    <3> TAKE i \in 1..(h + 1)
    <3>1. CASE i = h + 1
      BY <3>1, <1>2, <1>5, <2>1
    <3>2. CASE i \in 1..h
      BY <3>2, <1>1, <1>5 DEF ThreadControl
    <3> QED
      BY <3>1, <3>2
  <2>3. Dropped(t, a)' = Dropped(t, a)
    BY <1>3 DEF Dropped
  <2>4. ASSUME NEW i \in Framed(t)' PROVE 2 * Shim(t, i)'.oldEnd = i - 1 + 2 * Below(t, a)
    <3>1. i \in 1..(h + 1) /\ Shim(t, i)'.kind = "entry" /\ i # h + 1
      BY <2>4, <1>1, <1>2, <1>5 DEF Basics
    <3>2. i \in 1..h /\ Shim(t, i).kind = "entry" /\ Shim(t, i)' = Shim(t, i)
      BY <3>1, <1>5
    <3>3. i \in Framed(t)
      BY <3>2, <1>1, <1>3, <1>5 DEF Basics, Outside
    <3> QED
      BY <3>2, <3>3, <1>1 DEF ThreadControl
  <2>5. Below(t, a)' = Below(t, a)
    BY DEF Below
  <2>6. 2 * count'[t] = TwiceFrames(Height(t)', pc'[t]) - 2 * Dropped(t, a)'
    BY <1>1, <1>3, <1>6, <2>3 DEF ThreadControl
  <2> QED
    BY <1>3, <1>5, <1>8, <2>1, <2>2, <2>4, <2>5, <2>6 DEF ThreadControl
<1> QED
  BY <1>3, <1>4, <1>6, <1>7, <1>8, QuietShape DEF Spares

\* ~APIEntryShim, after the lock is released.
LEMMA LeaveShape ==
    ASSUME SharedOnly, LockInv, LockInv', NEW a, Shape(a), NEW t \in Threads, Leave(t)
    PROVE  Shape(a)'
<1>1. Basics(t) /\ Basics(t)' /\ ThreadControl(t, a)
  BY BasicFacts, BasicFactsNext DEF Shape
<1>2. pc[t] \in {"stopping", "leaving"} /\ Pop(t) /\ Height(t) >= 1
  BY <1>1 DEF Leave, Basics, InEntry
<1>3. /\ pc'[t] = "native" /\ UNCHANGED <<mutex, count, frames, dropDepth>>
      /\ \A u \in Threads \ {t} : pc'[u] = pc[u] /\ count'[u] = count[u]
  BY DEF Leave, Goto, LockInv, ShimInv, ShimControl
<1>8. (\A u \in Threads \ {t} : read'[u] = read[u]) /\ DOMAIN read' = Threads
  BY DEF Leave, Shape
<1>4. \A u \in Threads \ {t} : calls'[u] = calls[u]
  BY <1>2, Popped
<1>5. PICK h \in Nat : /\ Height(t) = h + 1 /\ Height(t)' = h
                       /\ \A i \in 1..h : Shim(t, i)' = Shim(t, i)
  BY <1>2, Popped
<1>6. /\ TwiceFrames(Height(t), pc[t]) = h /\ TwiceFrames(Height(t)', pc'[t]) = h
      /\ TwiceSettled(Height(t), pc[t]) = h /\ TwiceSettled(Height(t)', pc'[t]) = h
  BY <1>2, <1>3, <1>5 DEF TwiceFrames, TwiceSettled, InEntry
<1>7. ThreadControl(t, a)'
  <2>1. t = a => h >= 2 /\ Shim(t, 2)'.kind = "callback"
    <3> HAVE t = a
    <3>1. h + 1 >= 2 /\ Shim(t, 2).kind = "callback" /\ Shim(t, h + 1).kind = "entry"
      BY <1>1, <1>2, <1>5 DEF ThreadControl, Basics, InEntry
    <3>2. h >= 2
      BY <3>1
    <3> QED
      BY <3>1, <3>2, <1>5
  <2>2. \A i \in 1..h :
          Shim(t, i)'.kind = "callback" => Shim(t, i)'.dropped = IF i = 2 /\ t = a THEN 1 ELSE 0
    BY <1>1, <1>5 DEF ThreadControl
  <2>3. Dropped(t, a)' = Dropped(t, a)
    BY <1>2, <1>3 DEF Dropped
  <2>4. ASSUME NEW i \in Framed(t)' PROVE 2 * Shim(t, i)'.oldEnd = i - 1 + 2 * Below(t, a)
    <3>1. i \in 1..h /\ Shim(t, i)'.kind = "entry" /\ i # h + 1
      BY <2>4, <1>1, <1>5 DEF Basics
    <3>2. Shim(t, i).kind = "entry" /\ Shim(t, i)' = Shim(t, i) /\ i \in 1..(h + 1)
      BY <3>1, <1>5
    <3>3. i \in Framed(t)
      BY <3>1, <3>2, <1>1, <1>5 DEF Basics
    <3> QED
      BY <3>2, <3>3, <1>1 DEF ThreadControl
  <2>5. Below(t, a)' = Below(t, a)
    BY DEF Below
  <2>6. 2 * count'[t] = TwiceFrames(Height(t)', pc'[t]) - 2 * Dropped(t, a)'
    BY <1>1, <1>3, <1>6, <2>3 DEF ThreadControl
  <2> QED
    BY <1>3, <1>5, <2>1, <2>2, <2>4, <2>5, <2>6 DEF ThreadControl
<1> QED
  BY <1>3, <1>4, <1>6, <1>7, <1>8, QuietShape DEF Spares

\* A step that only changes where the thread is.
LEMMA LabelShape ==
    ASSUME SharedOnly, LockInv, LockInv', NEW a, Shape(a), NEW t \in Threads, NEW l, Goto(t, l),
           UNCHANGED <<mutex, count, frames, dropDepth, calls>>,
           DOMAIN read' = Threads, \A u \in Threads \ {t} : read'[u] = read[u],
           TwiceFrames(Height(t), l) = TwiceFrames(Height(t), pc[t]),
           TwiceSettled(Height(t), l) = TwiceSettled(Height(t), pc[t]),
           pc[t] \in Outside <=> l \in Outside, pc[t] # "undropping", l # "dropping",
           l = "undropping" => read'[t] = dropDepth /\ ~(t = a /\ Height(t) = 2)
    PROVE  Shape(a)'
<1>1. Basics(t) /\ Basics(t)' /\ ThreadControl(t, a)
  BY BasicFacts, BasicFactsNext DEF Shape
<1>2. pc'[t] = l /\ \A u \in Threads \ {t} : pc'[u] = pc[u]
  BY DEF Goto, LockInv, ShimInv, ShimControl
<1>3. Height(t)' = Height(t) /\ \A i : Shim(t, i)' = Shim(t, i)
  BY DEF Height, Shim
<1>4. \A i : i \in Framed(t)' => i \in Framed(t)
  BY <1>1, <1>2, <1>3 DEF Basics
<1>5. Dropped(t, a)' = Dropped(t, a) /\ Below(t, a)' = Below(t, a)
  BY <1>2, <1>3 DEF Dropped, Below
<1>6. /\ TwiceFrames(Height(t)', pc'[t]) = TwiceFrames(Height(t), pc[t])
      /\ TwiceSettled(Height(t)', pc'[t]) = TwiceSettled(Height(t), pc[t])
  BY <1>2, <1>3
<1>7. 2 * count'[t] = TwiceFrames(Height(t)', pc'[t]) - 2 * Dropped(t, a)'
  BY <1>1, <1>5, <1>6 DEF ThreadControl
<1>8. pc'[t] \in {"dropping", "undropping"} => read'[t] = dropDepth'
  BY <1>2
<1>9. ThreadControl(t, a)'
  BY <1>1, <1>3, <1>4, <1>5, <1>7, <1>8 DEF ThreadControl
<1> QED
  BY <1>2, <1>6, <1>9, QuietShape DEF Spares

\* TimeoutChecker::start and stop, and the return from a callback.
LEMMA StartShape ==
    ASSUME SharedOnly, LockInv, LockInv', NEW a, Shape(a), NEW t \in Threads,
           Start(t) \/ Stop(t) \/ ReturnFromCallback(t)
    PROVE  Shape(a)'
<1>1. Basics(t)
  BY BasicFacts
<1>2. /\ DOMAIN read' = Threads /\ \A u \in Threads \ {t} : read'[u] = read[u]
      /\ UNCHANGED <<mutex, count, frames, dropDepth, calls>>
  BY DEF Start, Stop, ReturnFromCallback, Shape
<1>3. CASE Start(t)
  <2>1. pc[t] = "starting" /\ Goto(t, "locking")
    BY <1>3 DEF Start
  <2> QED
    BY <2>1, <1>1, <1>2, LabelShape DEF TwiceFrames, TwiceSettled, InEntry, Outside
<1>4. CASE Stop(t)
  <2>1. pc[t] = "leaving" /\ Goto(t, "stopping")
    BY <1>4 DEF Stop
  <2> QED
    BY <2>1, <1>1, <1>2, LabelShape DEF TwiceFrames, TwiceSettled, InEntry, Outside
<1>5. CASE ReturnFromCallback(t)
  <2>1. pc[t] = "native" /\ Goto(t, "relocking")
    BY <1>5 DEF ReturnFromCallback
  <2> QED
    BY <2>1, <1>1, <1>2, LabelShape DEF TwiceFrames, TwiceSettled, InEntry, Outside
<1> QED
  BY <1>3, <1>4, <1>5

-----------------------------------------------------------------------------
(***************************************************************************)
(* Locking and unlocking.                                                  *)
(***************************************************************************)
\* A thread that executes, or that is about to write lockDropDepth, owns the mutex.
LEMMA OwnerWrites ==
    ASSUME MutexControl, NEW a, NEW t \in Threads, Basics(t), ThreadControl(t, a),
           pc[t] \in {"script", "dropping", "undropping"}
    PROVE  mutex = t
<1>1. count[t] # 0
  BY NotOwner
<1>2. count[t] \in Nat
  BY DEF Basics
<1>3. count[t] > 0
  BY <1>1, <1>2
<1> QED
  BY <1>3 DEF MutexControl

\* No other thread has locks then.
LEMMA OthersUnlocked ==
    ASSUME MutexControl, count \in [Threads -> Nat], NEW t \in Threads, mutex \in {t, NoThread}, NEW u \in Threads \ {t}
    PROVE  count[u] = 0
<1>1. mutex # u /\ count[u] \in Nat
  BY LockAssumption
<1>2. ~(count[u] > 0)
  BY <1>1 DEF MutexControl
<1> QED
  BY <1>1, <1>2

\* The size of the register file.
LEMMA SizeFacts == LockInv => Size \in Nat
BY DEF LockInv, Size

\* ~DropAllLocks takes the lock again.
LEMMA RelockShape ==
    ASSUME SharedOnly, LockInv, LockInv', MutexControl, NEW a, Shape(a), NEW t \in Threads, Relock(t)
    PROVE  Shape(a)'
<1> DEFINE H == Height(t)
<1>1. Basics(t) /\ Basics(t)' /\ ThreadControl(t, a) /\ count \in [Threads -> Nat]
  BY BasicFacts, BasicFactsNext DEF Shape, LockInv
<1>2. /\ pc[t] = "relocking" /\ Goto(t, "undropping") /\ H >= 2 /\ H \in Nat /\ Top(t) = Shim(t, H)
      /\ Context(t) = "shared" /\ Shim(t, H).kind = "callback" /\ count[t] \in Nat
  BY <1>1 DEF Relock, Basics, OfCallback
<1>3. DOMAIN read' = Threads /\ read'[t] = dropDepth /\ \A u \in Threads \ {t} : read'[u] = read[u]
  BY DEF Relock, Shape
<1>4. Shim(t, H).dropped = IF H = 2 /\ t = a THEN 1 ELSE 0
  BY <1>1, <1>2 DEF ThreadControl
<1>5. UNCHANGED <<frames, dropDepth, calls>>
  BY DEF Relock
<1>6. CASE ~(H = 2 /\ t = a)
  <2>1. mutex' = mutex /\ count' = [count EXCEPT ![t] = count[t] + 0]
    <3>1. Lock(t, "shared", 0)
      BY <1>2, <1>4, <1>6 DEF Relock
    <3> QED
      BY <3>1 DEF Lock, Counts
  <2>2. count' = count
    BY <2>1, <1>1
  <2> QED
    BY <2>1, <2>2, <1>2, <1>3, <1>5, <1>6, LabelShape DEF TwiceFrames, TwiceSettled, InEntry, Outside
<1>7. CASE H = 2 /\ t = a
  <2>1. count[t] = 0
    BY <1>1, <1>2, <1>7 DEF ThreadControl, TwiceFrames, Dropped
  <2>2. mutex = NoThread /\ mutex' = t /\ count'[t] = 1 /\ \A u \in Threads \ {t} : count'[u] = count[u]
    BY <1>1, <1>2, <1>4, <1>7, <2>1 DEF Relock, Lock, Counts
  <2>3. pc'[t] = "undropping" /\ \A u \in Threads \ {t} : pc'[u] = pc[u] /\ calls'[u] = calls[u]
    BY <1>2, <1>5 DEF Goto, LockInv, ShimInv, ShimControl
  <2>4. \A u \in Threads \ {t} : ThreadControl(u, a)'
    BY <1>3, <1>5, <2>2, <2>3, OthersKeep DEF Spares, Shape
  <2>5. Height(t)' = 2 /\ Height(t) = 2 /\ \A i : Shim(t, i)' = Shim(t, i)
    BY <1>5, <1>7 DEF Height, Shim
  <2>6. Dropped(t, a)' = 0 /\ Below(t, a)' = Below(t, a)
    BY <2>3, <2>5 DEF Dropped, Below
  <2>7. \A i : i \in Framed(t)' => i \in Framed(t)
    BY <1>1, <1>2, <2>3, <2>5 DEF Basics, Outside
  <2>8. 2 * count'[t] = TwiceFrames(Height(t)', pc'[t]) - 2 * Dropped(t, a)'
    BY <2>2, <2>3, <2>5, <2>6 DEF TwiceFrames
  <2>9. ThreadControl(t, a)'
    BY <1>1, <1>3, <1>5, <2>5, <2>6, <2>7, <2>8 DEF ThreadControl
  <2>10. a \in Threads /\ a # NoThread /\ mutex \notin Threads
    BY <1>7, <2>2, LockAssumption
  <2>11. DepthControl(a)'
    <3>1. TwiceSettled(Height(a), pc[a]) = 2 /\ TwiceSettled(Height(a)', pc'[a]) = 2
      BY <1>2, <1>7, <2>3, <2>5 DEF TwiceSettled, InEntry
    <3>2. dropDepth \in Nat /\ 2 * dropDepth = 2
      BY <3>1, <2>10 DEF Shape, DepthControl
    <3> QED
      BY <3>1, <3>2, <1>5, <1>7, <2>2, <2>10 DEF DepthControl
  <2>12. FrameControl(a)'
    <3>1. Below(mutex, a) = 1 /\ Below(mutex, a)' = 0
      BY <1>7, <2>2, <2>10 DEF Below
    <3>2. 2 * Size = 2 /\ OwnerOf(1) = a
      BY <3>1, <2>10 DEF Shape, FrameControl
    <3>3. Size \in Nat
      BY SizeFacts
    <3>8. Size' = Size /\ OwnerOf(1)' = OwnerOf(1)
      BY <1>5 DEF Size, OwnerOf
    <3>4. Size = 1 /\ Size' = 1 /\ OwnerOf(1)' = t
      BY <3>2, <3>3, <3>8, <1>7
    <3>5. TwiceFrames(Height(t)', pc'[t]) = 2
      BY <2>3, <2>5 DEF TwiceFrames
    <3>6. 2 * Size' = 2 * Below(mutex, a)' + TwiceFrames(Height(t)', pc'[t])
      BY <3>1, <3>4, <3>5
    <3>7. \A j \in (Below(mutex, a)' + 1)..Size' : OwnerOf(j)' = mutex'
      BY <3>1, <3>4, <2>2
    <3> QED
      BY <3>1, <3>6, <3>7, <2>2 DEF FrameControl
  <2> QED
    BY <1>3, <2>4, <2>9, <2>11, <2>12 DEF Shape
<1> QED
  BY <1>6, <1>7

\* JSLock's constructor and executeCall: where the new frame starts.
LEMMA FrameStart ==
    ASSUME SharedOnly, LockInv, MutexControl, NEW a, Shape(a), NEW t \in Threads, LockAndExecute(t),
           NEW H, H = Height(t), NEW B, B = Below(t, a), NEW L, L = Size
    PROVE  /\ 2 * L = H - 1 + 2 * B
           /\ mutex' = t
           /\ mutex # t => count[t] = 0 /\ mutex = NoThread
           /\ B = 1 => OwnerOf(1) = a
           /\ \A j \in (B + 1)..L : OwnerOf(j) = t
<1>1. Basics(t) /\ ThreadControl(t, a) /\ count[t] \in Nat
  BY BasicFacts DEF Shape, LockInv
<1>2. /\ pc[t] = "locking" /\ H >= 1 /\ H \in Nat /\ Context(t) = "shared"
      /\ Lock(t, "shared", 1)
  BY <1>1 DEF LockAndExecute, Basics, InEntry
<1>3. TwiceFrames(H, pc[t]) = H - 1
  BY <1>2 DEF TwiceFrames
<1>4. FrameControl(a)
  BY DEF Shape
<1>5. CASE count[t] > 0
  <2>1. mutex = t /\ mutex' = t
    BY <1>1, <1>2, <1>5 DEF Lock, MutexControl
  <2>2. Below(mutex, a) = B /\ Height(mutex) = H /\ pc[mutex] = pc[t] /\ mutex \in Threads
    BY <2>1
  <2>3. 2 * L = 2 * B + TwiceFrames(H, pc[t])
    BY <2>2, <1>4 DEF FrameControl
  <2>4. 2 * L = H - 1 + 2 * B
    <3>1. B \in {0, 1}
      BY DEF Below
    <3> QED
      BY <2>3, <3>1, <1>2, <1>3
  <2>5. (B = 1 => OwnerOf(1) = a) /\ \A j \in (B + 1)..L : OwnerOf(j) = t
    BY <2>1, <2>2, <1>4 DEF FrameControl
  <2> QED
    BY <2>1, <2>4, <2>5
<1>6. CASE count[t] = 0
  <2>1. mutex = NoThread /\ mutex' = t /\ mutex \notin Threads /\ t # NoThread
    BY <1>2, <1>6, LockAssumption DEF Lock
  <2>2. /\ 2 * L = 2 * Below(NoThread, a)
        /\ Below(NoThread, a) = 1 => OwnerOf(1) = a
        /\ L \in Nat
    <3>1. Below(NoThread, a) \in {0, 1} /\ L \in Nat
      BY SizeFacts DEF Below
    <3>2. Below(mutex, a) = Below(NoThread, a) /\ 2 * L = 2 * Below(mutex, a) + 0
      BY <2>1, <1>4 DEF FrameControl
    <3>3. Below(mutex, a) = 1 => OwnerOf(1) = a
      BY <1>4 DEF FrameControl
    <3> QED
      BY <3>1, <3>2, <3>3
  <2>3. CASE t # a
    <3>1. H - 1 = 0
      BY <2>3, <1>1, <1>3, <1>6, NotOwner
    <3>2. Below(NoThread, a) = B /\ B \in {0, 1}
      BY <2>1, <2>3 DEF Below
    <3>3. 2 * L = H - 1 + 2 * B /\ (B = 1 => OwnerOf(1) = a) /\ L = B
      BY <3>1, <3>2, <2>2, <1>2
    <3>4. \A j \in (B + 1)..L : OwnerOf(j) = t
      BY <3>2, <3>3
    <3> QED
      BY <3>3, <3>4, <2>1, <1>6
  <2>4. CASE t = a
    <3>1. H - 1 = 2
      BY <2>4, <1>1, <1>3, <1>6, NotOwner
    <3>2. Below(NoThread, a) = 1 /\ B = 0
      BY <2>1, <2>4 DEF Below
    <3>3. L = 1 /\ OwnerOf(1) = t
      BY <3>2, <2>2, <2>4
    <3>4. \A j \in (B + 1)..L : OwnerOf(j) = t
      BY <3>2, <3>3
    <3>5. 2 * L = H - 1 + 2 * B
      BY <3>1, <3>2, <3>3, <1>2
    <3> QED
      BY <3>2, <3>4, <3>5, <2>1, <1>6
  <2> QED
    BY <2>3, <2>4
<1> QED
  BY <1>1, <1>5, <1>6

\* A thread that begins a script extends the register file above every thread that waits in a callback.
LEMMA LockAndExecuteShape ==
    ASSUME SharedOnly, LockInv, LockInv', MutexControl, NEW a, Shape(a), NEW t \in Threads, LockAndExecute(t)
    PROVE  Shape(a)'
<1>1. Basics(t) /\ Basics(t)' /\ ThreadControl(t, a) /\ count \in [Threads -> Nat] /\ count[t] \in Nat
  BY BasicFacts, BasicFactsNext DEF Shape, LockInv
<1>2. /\ pc[t] = "locking" /\ Height(t) >= 1 /\ Context(t) = "shared" /\ Top(t).kind = "entry"
      /\ Lock(t, "shared", 1) /\ frames' = Append(frames, t)
  BY <1>1 DEF LockAndExecute, Basics, InEntry
<1>3. /\ pc'[t] = "script" /\ UNCHANGED <<dropDepth, read>>
      /\ \A u \in Threads \ {t} : pc'[u] = pc[u]
  BY DEF LockAndExecute, Goto, LockInv, ShimInv, ShimControl
<1>4. count'[t] = count[t] + 1 /\ \A u \in Threads \ {t} : count'[u] = count[u]
  BY <1>1, <1>2 DEF Lock, Counts
<1>5. PICK x \in Shims : /\ x.kind = "entry" /\ x.context = "shared" /\ x.oldEnd = Size
                         /\ calls' = [calls EXCEPT ![t] = [calls[t] EXCEPT ![Len(calls[t])] = x]]
  <2>1. /\ Goes(t, "script", [calls[t] EXCEPT ![Len(calls[t])] = [Top(t) EXCEPT !.oldEnd = Len(frames)]], table[t])
        /\ [Top(t) EXCEPT !.oldEnd = Len(frames)] \in Shims /\ [Top(t) EXCEPT !.oldEnd = Len(frames)].kind = "entry"
        /\ [Top(t) EXCEPT !.oldEnd = Len(frames)].context = "shared"
    BY <1>2, LockAndExecuteGoes DEF LockInv
  <2>2. [Top(t) EXCEPT !.oldEnd = Len(frames)].oldEnd = Size
    <3>1. Top(t) \in EntryShims
      BY <1>2, ThreadFits, ShimKinds DEF Height, LockInv
    <3> QED
      BY <3>1 DEF EntryShims, Size
  <2> QED
    BY <2>1, <2>2 DEF Goes
<1>6. x.kind = Top(t).kind /\ x.context = Top(t).context
  BY <1>2, <1>5 DEF Context
<1>7. \A u \in Threads \ {t} : calls'[u] = calls[u]
  BY <1>2, <1>5, <1>6, TopSet
<1>8. PICK h \in Nat : /\ h >= 1 /\ Height(t) = h /\ Height(t)' = h /\ Shim(t, h)' = x
                       /\ \A i \in 1..(h - 1) : Shim(t, i)' = Shim(t, i)
  BY <1>2, <1>5, <1>6, TopSet
<1>9. PICK B \in {0, 1} : B = Below(t, a)
  BY DEF Below
<1>10. PICK L \in Nat : L = Size
  BY SizeFacts
<1>11. /\ 2 * L = h - 1 + 2 * B /\ mutex' = t
       /\ mutex # t => count[t] = 0 /\ mutex = NoThread
       /\ B = 1 => OwnerOf(1) = a
       /\ \A j \in (B + 1)..L : OwnerOf(j) = t
  BY <1>8, <1>9, <1>10, FrameStart
<1>12. \A u \in Threads \ {t} : ThreadControl(u, a)'
  BY <1>3, <1>4, <1>7, OthersKeep DEF Spares, Shape
<1>13. ThreadControl(t, a)'
  <2>1. t = a => h >= 2 /\ Shim(t, 2)'.kind = "callback"
    <3> HAVE t = a
    <3>1. h >= 2 /\ Shim(t, 2).kind = "callback" /\ Shim(t, h).kind = "entry"
      BY <1>1, <1>2, <1>8 DEF ThreadControl, Basics, InEntry
    <3>2. 2 \in 1..(h - 1)
      BY <3>1
    <3> QED
      BY <3>1, <3>2, <1>8
  <2>2. \A i \in 1..h :
          Shim(t, i)'.kind = "callback" => Shim(t, i)'.dropped = IF i = 2 /\ t = a THEN 1 ELSE 0
    <3> TAKE i \in 1..h
    <3>1. CASE i = h
      BY <3>1, <1>5, <1>8
    <3>2. CASE i \in 1..(h - 1)
      BY <3>2, <1>1, <1>8 DEF ThreadControl
    <3> QED
      BY <3>1, <3>2
  <2>3. Dropped(t, a)' = Dropped(t, a)
    BY <1>2, <1>3 DEF Dropped
  <2>4. ASSUME NEW i \in Framed(t)' PROVE 2 * Shim(t, i)'.oldEnd = i - 1 + 2 * B
    <3>1. i \in 1..h /\ Shim(t, i)'.kind = "entry"
      BY <2>4, <1>1, <1>8 DEF Basics
    <3>2. CASE i = h
      BY <3>2, <1>5, <1>8, <1>10, <1>11
    <3>3. CASE i \in 1..(h - 1)
      <4>1. Shim(t, i)' = Shim(t, i) /\ i # h
        BY <3>3, <1>8
      <4>2. i \in Framed(t)
        BY <3>1, <4>1, <1>1, <1>8 DEF Basics
      <4> QED
        BY <4>1, <4>2, <1>1, <1>9 DEF ThreadControl
    <3> QED
      BY <3>1, <3>2, <3>3
  <2>5. Below(t, a)' = B
    BY <1>9 DEF Below
  <2>6. 2 * count'[t] = TwiceFrames(Height(t)', pc'[t]) - 2 * Dropped(t, a)'
    <3>1. 2 * count[t] = h - 1 - 2 * Dropped(t, a)
      BY <1>1, <1>2, <1>8 DEF ThreadControl, TwiceFrames
    <3>2. TwiceFrames(Height(t)', pc'[t]) = h + 1
      BY <1>3, <1>8 DEF TwiceFrames
    <3>3. Dropped(t, a) \in {0, 1}
      BY DEF Dropped
    <3> QED
      BY <3>1, <3>2, <3>3, <1>1, <1>4, <2>3
  <2> QED
    BY <1>3, <1>8, <2>1, <2>2, <2>4, <2>5, <2>6 DEF ThreadControl
<1>14. DepthControl(a)'
  <2>1. TwiceSettled(Height(t), pc[t]) = h - 1 /\ TwiceSettled(Height(t)', pc'[t]) = h - 1
    BY <1>2, <1>3, <1>8 DEF TwiceSettled, InEntry
  <2>2. \A u \in Threads \ {t} : TwiceSettled(Height(u)', pc'[u]) = TwiceSettled(Height(u), pc[u])
    BY <1>3, <1>7 DEF Height
  <2>3. \A u \in Threads : TwiceSettled(Height(u)', pc'[u]) = TwiceSettled(Height(u), pc[u])
    BY <2>1, <2>2
  <2>4. mutex # t /\ t # a => h - 1 = 0
    BY <1>1, <1>11, <2>1, NotOwner
  <2>5. (IF mutex' \in Threads \ {a} THEN TwiceSettled(Height(mutex)', pc[mutex]') ELSE 0)
        = (IF mutex \in Threads \ {a} THEN TwiceSettled(Height(mutex), pc[mutex]) ELSE 0)
    BY <1>11, <2>1, <2>4, LockAssumption DEF Height
  <2>6. DepthControl(a)
    BY DEF Shape
  <2> QED
    BY <2>3, <2>5, <2>6, <1>3 DEF DepthControl
<1>15. FrameControl(a)'
  <2>1. Size' = L + 1 /\ OwnerOf(L + 1)' = t /\ \A j \in 1..L : OwnerOf(j)' = OwnerOf(j)
    BY <1>2, <1>10, PushProperties DEF LockInv, Size, OwnerOf
  <2>2. Below(mutex, a)' = B
    BY <1>9, <1>11 DEF Below
  <2>3. TwiceFrames(Height(t)', pc'[t]) = h + 1
    BY <1>3, <1>8 DEF TwiceFrames
  <2>4. 2 * Size' = 2 * B + TwiceFrames(Height(t)', pc'[t])
    BY <2>1, <2>3, <1>11
  <2>5. B = 1 => OwnerOf(1)' = a
    <3> HAVE B = 1
    <3>1. 1 \in 1..L
      BY <1>8, <1>11
    <3> QED
      BY <3>1, <2>1, <1>11
  <2>6. \A j \in (B + 1)..(L + 1) : OwnerOf(j)' = t
    <3> TAKE j \in (B + 1)..(L + 1)
    <3>1. CASE j = L + 1
      BY <3>1, <2>1
    <3>2. CASE j \in (B + 1)..L
      <4>1. j \in 1..L
        BY <3>2
      <4> QED
        BY <4>1, <3>2, <2>1, <1>11
    <3> QED
      BY <3>1, <3>2
  <2> QED
    BY <1>11, <2>1, <2>2, <2>4, <2>5, <2>6 DEF FrameControl
<1> QED
  BY <1>3, <1>12, <1>13, <1>14, <1>15 DEF Shape

\* The call of a script returns: its frame is the last one.
LEMMA ReturnShape ==
    ASSUME SharedOnly, LockInv, LockInv', MutexControl, NEW a, Shape(a), NEW t \in Threads, ReturnAndUnlock(t)
    PROVE  Shape(a)'
<1>1. Basics(t) /\ Basics(t)' /\ ThreadControl(t, a) /\ count \in [Threads -> Nat] /\ count[t] \in Nat
  BY BasicFacts, BasicFactsNext DEF Shape, LockInv
<1>2. /\ pc[t] = "script" /\ Height(t) >= 1 /\ Context(t) = "shared" /\ Unlock(t, "shared", 1)
      /\ frames' = Shrink(Top(t).oldEnd) /\ Top(t) = Shim(t, Height(t)) /\ Shim(t, Height(t)).kind = "entry"
  BY <1>1 DEF ReturnAndUnlock, Basics, InEntry
<1>3. /\ pc'[t] = "leaving" /\ UNCHANGED <<dropDepth, read, calls>>
      /\ \A u \in Threads \ {t} : pc'[u] = pc[u] /\ calls'[u] = calls[u]
  BY DEF ReturnAndUnlock, Goto, LockInv, ShimInv, ShimControl
<1>4. count'[t] = count[t] - 1 /\ \A u \in Threads \ {t} : count'[u] = count[u]
  BY <1>1, <1>2 DEF Unlock, Counts
<1>5. mutex = t /\ t # NoThread
  BY <1>1, <1>2, OwnerWrites, LockAssumption
<1>6. mutex' = IF count[t] = 1 THEN NoThread ELSE t
  BY <1>2, <1>5 DEF Unlock
<1>7. PICK h \in Nat : h = Height(t) /\ h >= 1
  BY <1>1, <1>2 DEF Basics
<1>8. Height(t)' = h /\ \A i : Shim(t, i)' = Shim(t, i)
  BY <1>3, <1>7 DEF Height, Shim
<1>9. PICK B \in {0, 1} : B = Below(t, a)
  BY DEF Below
<1>10. PICK L \in Nat : L = Size
  BY SizeFacts
<1>11. PICK D \in {0, 1} : D = Dropped(t, a)
  BY DEF Dropped
<1>12. 2 * count[t] = h + 1 - 2 * D
  BY <1>1, <1>2, <1>7, <1>11 DEF ThreadControl, TwiceFrames
<1>13. /\ 2 * L = 2 * B + h + 1
       /\ B = 1 => OwnerOf(1) = a
       /\ \A j \in (B + 1)..L : OwnerOf(j) = t
  <2>1. FrameControl(a) /\ TwiceFrames(Height(t), pc[t]) = h + 1
    BY <1>2, <1>7 DEF Shape, TwiceFrames
  <2>2. 2 * L = 2 * B + (h + 1)
    BY <2>1, <1>5, <1>9, <1>10 DEF FrameControl
  <2>3. (B = 1 => OwnerOf(1) = a) /\ \A j \in (B + 1)..L : OwnerOf(j) = t
    BY <2>1, <1>5, <1>9, <1>10 DEF FrameControl
  <2> QED
    BY <2>2, <2>3
<1>14. Top(t).oldEnd = L - 1 /\ L - 1 \in 0..L /\ L >= 1
  <2>1. h \in Framed(t)
    BY <1>1, <1>2, <1>7 DEF Basics, Outside
  <2>2. 2 * Shim(t, h).oldEnd = h - 1 + 2 * B /\ Shim(t, h).oldEnd \in Nat
    BY <2>1, <1>1, <1>2, <1>7, <1>9 DEF ThreadControl, Basics
  <2>3. Shim(t, h).oldEnd = L - 1 /\ L - 1 \in 0..L /\ L >= 1
    BY <2>2, <1>13
  <2> QED
    BY <2>3, <1>2, <1>7
<1>15. Size' = L - 1 /\ \A j \in 1..(L - 1) : OwnerOf(j)' = OwnerOf(j)
  <2>1. Len(frames) = L /\ frames \in Seq(Threads)
    BY <1>10 DEF Size, LockInv
  <2>2. frames' = SubSeq(frames, 1, L - 1)
    <3>1. (IF Top(t).oldEnd < L THEN Top(t).oldEnd ELSE L) = L - 1
      BY <1>14
    <3> QED
      BY <3>1, <2>1, <1>2 DEF Shrink
  <2>3. PICK n \in 0..L : n = L - 1
    BY <1>14
  <2>4. Len(SubSeq(frames, 1, n)) = n /\ \A j \in 1..n : SubSeq(frames, 1, n)[j] = frames[j]
    BY <2>1, PrefixProperties
  <2> QED
    BY <2>2, <2>3, <2>4 DEF Size, OwnerOf
<1>16. count[t] = 1 => IF t = a THEN h = 3 ELSE h = 1
  <2>1. t = a => D = 1
    BY <1>2, <1>11 DEF Dropped
  <2>2. t # a => D = 0
    BY <1>11 DEF Dropped
  <2> QED
    BY <2>1, <2>2, <1>12
<1>17. \A u \in Threads \ {t} : ThreadControl(u, a)'
  BY <1>3, <1>4, OthersKeep DEF Spares, Shape
<1>18. ThreadControl(t, a)'
  <2>1. Dropped(t, a)' = D /\ Below(t, a)' = Below(t, a)
    BY <1>2, <1>3, <1>11 DEF Dropped, Below
  <2>2. \A i : i \in Framed(t)' => i \in Framed(t)
    BY <1>1, <1>2, <1>7, <1>8 DEF Basics, Outside
  <2>3. 2 * count'[t] = TwiceFrames(Height(t)', pc'[t]) - 2 * Dropped(t, a)'
    <3>1. TwiceFrames(Height(t)', pc'[t]) = h - 1
      BY <1>3, <1>8 DEF TwiceFrames
    <3> QED
      BY <3>1, <2>1, <1>1, <1>4, <1>12
  <2> QED
    BY <1>1, <1>3, <1>7, <1>8, <2>1, <2>2, <2>3 DEF ThreadControl
<1>19. DepthControl(a)'
  <2>1. TwiceSettled(Height(t), pc[t]) = h - 1 /\ TwiceSettled(Height(t)', pc'[t]) = h - 1
    BY <1>2, <1>3, <1>7, <1>8 DEF TwiceSettled, InEntry
  <2>2. \A u \in Threads \ {t} : TwiceSettled(Height(u)', pc'[u]) = TwiceSettled(Height(u), pc[u])
    BY <1>3 DEF Height
  <2>3. \A u \in Threads : TwiceSettled(Height(u)', pc'[u]) = TwiceSettled(Height(u), pc[u])
    BY <2>1, <2>2
  <2>4. mutex' # t /\ t # a => h - 1 = 0
    BY <1>6, <1>16
  <2>5. (IF mutex' \in Threads \ {a} THEN TwiceSettled(Height(mutex)', pc[mutex]') ELSE 0)
        = (IF mutex \in Threads \ {a} THEN TwiceSettled(Height(mutex), pc[mutex]) ELSE 0)
    BY <1>5, <1>6, <2>1, <2>4, LockAssumption DEF Height
  <2>6. DepthControl(a)
    BY DEF Shape
  <2> QED
    BY <2>3, <2>5, <2>6, <1>3 DEF DepthControl
<1>20. FrameControl(a)'
  <2>1. TwiceFrames(Height(t)', pc'[t]) = h - 1
    BY <1>3, <1>8 DEF TwiceFrames
  <2>2. CASE count[t] # 1
    <3>1. mutex' = t /\ Below(mutex, a)' = B
      BY <2>2, <1>6, <1>9 DEF Below
    <3>2. 2 * Size' = 2 * B + TwiceFrames(Height(t)', pc'[t])
      BY <2>1, <1>13, <1>15
    <3>3. h >= 3
      <4>1. count[t] > 0
        BY <1>5 DEF MutexControl
      <4> QED
        BY <4>1, <2>2, <1>1, <1>12
    <3>4. B = 1 => OwnerOf(1)' = a
      <4> HAVE B = 1
      <4>1. 1 \in 1..(L - 1)
        BY <3>3, <1>13
      <4> QED
        BY <4>1, <1>13, <1>15
    <3>5. \A j \in (B + 1)..(L - 1) : OwnerOf(j)' = t
      <4> TAKE j \in (B + 1)..(L - 1)
      <4>1. j \in 1..(L - 1) /\ j \in (B + 1)..L
        OBVIOUS
      <4> QED
        BY <4>1, <1>13, <1>15
    <3> QED
      BY <3>1, <3>2, <3>4, <3>5, <1>15 DEF FrameControl
  <2>3. CASE count[t] = 1 /\ t # a
    <3>1. mutex' = NoThread /\ Below(mutex, a)' = B /\ NoThread \notin Threads
      BY <2>3, <1>5, <1>6, <1>9, LockAssumption DEF Below
    <3>2. 2 * Size' = 2 * B + 0 /\ Size' = B /\ L - 1 = B
      BY <2>3, <1>13, <1>15, <1>16
    <3>3. B = 1 => OwnerOf(1)' = a
      <4> HAVE B = 1
      <4>1. 1 \in 1..(L - 1)
        BY <3>2
      <4> QED
        BY <4>1, <1>13, <1>15
    <3>4. \A j \in (B + 1)..Size' : FALSE
      BY <3>2
    <3> QED
      BY <3>1, <3>2, <3>3, <3>4 DEF FrameControl
  <2>4. CASE count[t] = 1 /\ t = a
    <3>1. mutex' = NoThread /\ Below(mutex, a)' = 1 /\ B = 0 /\ NoThread \notin Threads
      BY <2>4, <1>5, <1>6, <1>9, LockAssumption DEF Below
    <3>2. 2 * Size' = 2 * 1 + 0 /\ Size' = 1 /\ L - 1 = 1
      BY <2>4, <3>1, <1>13, <1>15, <1>16
    <3>3. OwnerOf(1)' = a
      <4>1. 1 \in 1..(L - 1) /\ 1 \in (B + 1)..L
        BY <3>1, <3>2
      <4> QED
        BY <4>1, <1>13, <1>15, <2>4
    <3>4. \A j \in (1 + 1)..Size' : FALSE
      BY <3>2
    <3> QED
      BY <3>1, <3>2, <3>3, <3>4 DEF FrameControl
  <2> QED
    BY <2>2, <2>3, <2>4
<1> QED
  BY <1>3, <1>17, <1>18, <1>19, <1>20 DEF Shape

-----------------------------------------------------------------------------
(***************************************************************************)
(* DropAllLocks.                                                           *)
(***************************************************************************)
\* DropAllLocks drops locks only if no thread has dropped any, and then the only lock of
\* its thread.
LEMMA DropFacts ==
    ASSUME SharedOnly, LockInv, MutexControl, NEW a, Shape(a), NEW t \in Threads, pc[t] = "dropping"
    PROVE  /\ mutex = t /\ Height(t) \in Nat /\ Height(t) >= 2 /\ read[t] = dropDepth
           /\ Height(t) = 2 => t # a
           /\ dropDepth = 0 => a = NoThread /\ Height(t) = 2 /\ count[t] = 1
           /\ 2 * (dropDepth + 1) = Height(t) + IF a \in {t, NoThread} THEN 0 ELSE 2
           /\ dropDepth + 1 < Width
<1>1. Basics(t) /\ ThreadControl(t, a) /\ DepthControl(a) /\ count \in [Threads -> Nat] /\ count[t] \in Nat
  BY BasicFacts DEF Shape, LockInv
<1>2. mutex = t /\ t # NoThread /\ NoThread \notin Threads
  BY <1>1, OwnerWrites, LockAssumption
<1>3. PICK h \in Nat : h = Height(t) /\ h >= 2 /\ h <= MaxNesting
  BY <1>1 DEF Basics, OfCallback
<1>4. h = 2 => t # a
  <2> SUFFICES ASSUME h = 2, t = a PROVE FALSE
    OBVIOUS
  <2>1. Shim(t, 2).dropped = 0 /\ Shim(t, 2).kind = "callback"
    BY <1>1, <1>3 DEF Basics, OfCallback
  <2>2. 2 \in 1..Height(t)
    BY <1>3
  <2>3. Shim(t, 2).dropped = 1
    BY <2>1, <2>2, <1>1 DEF ThreadControl
  <2> QED
    BY <2>1, <2>3
<1>5. TwiceSettled(Height(t), pc[t]) = h - 2 /\ dropDepth \in Nat
  BY <1>1, <1>3 DEF TwiceSettled, InEntry, DepthControl
<1>6. ASSUME a \in Threads \ {t} PROVE TwiceSettled(Height(a), pc[a]) = 2
  <2>1. Basics(a) /\ ThreadControl(a, a) /\ count[a] = 0
    BY <1>1, <1>2, <1>6, BasicFacts, OthersUnlocked DEF Shape
  <2> QED
    BY <2>1, NotOwner
<1>7. 2 * (dropDepth + 1) = h + IF a \in {t, NoThread} THEN 0 ELSE 2
  <2>1. CASE a = t
    BY <2>1, <1>1, <1>2, <1>5 DEF DepthControl
  <2>2. CASE a = NoThread
    BY <2>2, <1>1, <1>2, <1>5 DEF DepthControl
  <2>3. CASE a \in Threads \ {t}
    <3>1. 2 * dropDepth = 2 + (h - 2)
      BY <2>3, <1>1, <1>2, <1>5, <1>6 DEF DepthControl
    <3> QED
      BY <3>1, <2>3, <1>2, <1>5
  <2> QED
    BY <2>1, <2>2, <2>3 DEF Shape
<1>8. dropDepth = 0 => a = NoThread /\ h = 2
  BY <1>3, <1>4, <1>7 DEF Shape
<1>9. h = 2 /\ t # a => count[t] = 1
  <2> HAVE h = 2 /\ t # a
  <2>1. TwiceFrames(Height(t), pc[t]) = 2 /\ Dropped(t, a) = 0
    BY <1>3 DEF TwiceFrames, Dropped
  <2> QED
    BY <2>1, <1>1 DEF ThreadControl
<1>10. dropDepth + 1 < Width
  <2>1. MaxNesting \in Nat /\ Width \in Nat /\ MaxNesting < Width
    BY LockAssumption DEF SharedOnly
  <2> QED
    BY <2>1, <1>3, <1>5, <1>7
<1>11. read[t] = dropDepth
  BY <1>1 DEF ThreadControl
<1> QED
  BY <1>2, <1>3, <1>4, <1>7, <1>8, <1>9, <1>10, <1>11

\* The DropAllLocks that finds lockDropDepth zero drops the lock of its thread.
LEMMA FirstDropShape ==
    ASSUME SharedOnly, LockInv, LockInv', MutexControl, NEW a, Shape(a), NEW t \in Threads, Drop(t), read[t] = 0
    PROVE  Shape(t)'
<1>1. Basics(t) /\ Basics(t)' /\ ThreadControl(t, a) /\ count \in [Threads -> Nat] /\ DepthControl(a) /\ FrameControl(a)
  BY BasicFacts, BasicFactsNext DEF Shape, LockInv
<1>2. /\ pc[t] = "dropping" /\ mutex = t /\ Height(t) = 2 /\ dropDepth = 0 /\ a = NoThread /\ count[t] = 1
      /\ dropDepth + 1 < Width
  BY DropFacts DEF Drop
<1>3. t # NoThread /\ NoThread \notin Threads
  BY LockAssumption
<1>4. Context(t) = "shared" /\ Unlock(t, "shared", 1) /\ Top(t) = Shim(t, 2) /\ Top(t).kind = "callback"
  BY <1>1, <1>2 DEF Drop, Drops, Basics, OfCallback
<1>5. /\ pc'[t] = "native" /\ UNCHANGED frames
      /\ \A u \in Threads \ {t} : pc'[u] = pc[u]
  BY DEF Drop, Goto, LockInv, ShimInv, ShimControl
<1>6. DOMAIN read' = Threads /\ \A u \in Threads \ {t} : read'[u] = read[u]
  BY DEF Drop, Shape
<1>7. count'[t] = 0 /\ (\A u \in Threads \ {t} : count'[u] = count[u]) /\ mutex' = NoThread
  BY <1>1, <1>2, <1>4 DEF Unlock, Counts
<1>8. dropDepth' = 1
  <2>1. 1 \in Nat /\ 1 < Width /\ Width \in Nat \ {0}
    BY <1>2, LockAssumption
  <2>2. 1 % Width = 1
    BY <2>1, NoWrap
  <2> QED
    BY <2>2 DEF Drop
<1>9. PICK x \in Shims : /\ x.kind = "callback" /\ x.context = "shared" /\ x.dropped = 1
                         /\ calls' = [calls EXCEPT ![t] = [calls[t] EXCEPT ![Len(calls[t])] = x]]
  <2>1. /\ Goes(t, "native", [calls[t] EXCEPT ![Len(calls[t])] = [Top(t) EXCEPT !.dropped = 1]], "default")
        /\ [Top(t) EXCEPT !.dropped = 1] \in Shims /\ [Top(t) EXCEPT !.dropped = 1].kind = "callback"
        /\ [Top(t) EXCEPT !.dropped = 1].context = "shared"
    BY <1>2, <1>4, DropGoes DEF LockInv, Drops
  <2>2. [Top(t) EXCEPT !.dropped = 1].dropped = 1
    <3>1. ShimInv /\ Len(calls[t]) >= 1
      BY <1>2 DEF Height, LockInv
    <3>2. Top(t) \in Shims
      BY <3>1, ThreadFits
    <3>3. Top(t) \in CallbackShims
      BY <3>2, <1>4, ShimKinds
    <3> QED
      BY <3>3 DEF CallbackShims
  <2> QED
    BY <2>1, <2>2 DEF Goes
<1>10. x.kind = Top(t).kind /\ x.context = Top(t).context /\ Height(t) >= 1
  BY <1>2, <1>4, <1>9 DEF Context
<1>11. \A u \in Threads \ {t} : calls'[u] = calls[u]
  BY <1>9, <1>10, TopSet
<1>12. Height(t)' = 2 /\ Shim(t, 2)' = x /\ Shim(t, 1)' = Shim(t, 1)
  <2>1. PICK h \in Nat : /\ h >= 1 /\ Height(t) = h /\ Height(t)' = h /\ Shim(t, h)' = x
                         /\ \A i \in 1..(h - 1) : Shim(t, i)' = Shim(t, i)
    BY <1>9, <1>10, TopSet
  <2> QED
    BY <2>1, <1>2
<1>13. \A u \in Threads \ {t} : ThreadControl(u, t)'
  <2> TAKE u \in Threads \ {t}
  <2>1. Basics(u) /\ ThreadControl(u, a) /\ count[u] = 0 /\ Spares(u) /\ u \notin {t, NoThread}
    BY <1>1, <1>2, <1>3, <1>5, <1>6, <1>7, <1>11, BasicFacts, OthersUnlocked DEF Shape, Spares
  <2> QED
    BY <2>1, <1>2, OthersSwitch
<1>14. ThreadControl(t, t)'
  <2>1. \A i \in 1..2 :
          Shim(t, i)'.kind = "callback" => Shim(t, i)'.dropped = IF i = 2 THEN 1 ELSE 0
    <3>1. Shim(t, 1).kind = "callback" => Shim(t, 1).dropped = 0
      BY <1>1, <1>2 DEF ThreadControl
    <3> QED
      BY <3>1, <1>9, <1>12
  <2>2. Dropped(t, t)' = 1 /\ Below(t, t)' = 0 /\ Below(t, a) = 0
    BY <1>2, <1>5 DEF Dropped, Below
  <2>3. ASSUME NEW i \in Framed(t)' PROVE 2 * Shim(t, i)'.oldEnd = i - 1 + 2 * 0
    <3>1. i \in 1..2 /\ Shim(t, i)'.kind = "entry"
      BY <2>3, <1>1, <1>12 DEF Basics
    <3>2. i = 1
      BY <3>1, <1>9, <1>12
    <3>3. i \in Framed(t)
      BY <3>1, <3>2, <1>1, <1>2, <1>12 DEF Basics
    <3> QED
      BY <3>2, <3>3, <2>2, <1>1, <1>12 DEF ThreadControl
  <2>4. 2 * count'[t] = TwiceFrames(Height(t)', pc'[t]) - 2 * Dropped(t, t)'
    BY <2>2, <1>5, <1>7, <1>12 DEF TwiceFrames
  <2> QED
    BY <1>5, <1>9, <1>12, <2>1, <2>2, <2>3, <2>4 DEF ThreadControl
<1>15. DepthControl(t)'
  <2>1. TwiceSettled(Height(t)', pc'[t]) = 2
    BY <1>5, <1>12 DEF TwiceSettled, InEntry
  <2> QED
    BY <2>1, <1>3, <1>7, <1>8 DEF DepthControl
<1>16. FrameControl(t)'
  <2>1. Below(mutex, a) = 0 /\ TwiceFrames(Height(t), pc[t]) = 2
    BY <1>2 DEF Below, TwiceFrames
  <2>2. 2 * Size = 2 /\ Size \in Nat
    BY <2>1, <1>1, <1>2, SizeFacts DEF FrameControl
  <2>3. Size = 1
    BY <2>2
  <2>4. OwnerOf(1) = t
    BY <2>1, <2>3, <1>1, <1>2 DEF FrameControl
  <2>5. Size' = Size /\ OwnerOf(1)' = OwnerOf(1)
    BY <1>5 DEF Size, OwnerOf
  <2>6. Below(mutex, t)' = 1
    BY <1>3, <1>7 DEF Below
  <2>7. 2 * Size' = 2 * 1 + 0 /\ \A j \in (1 + 1)..Size' : FALSE
    BY <2>3, <2>5
  <2> QED
    BY <2>4, <2>5, <2>6, <2>7, <1>3, <1>7 DEF FrameControl
<1> QED
  BY <1>6, <1>13, <1>14, <1>15, <1>16 DEF Shape

\* Any other DropAllLocks only increments lockDropDepth.
LEMMA LaterDropShape ==
    ASSUME SharedOnly, LockInv, LockInv', MutexControl, NEW a, Shape(a), NEW t \in Threads, Drop(t), read[t] # 0
    PROVE  Shape(a)'
<1>1. /\ Basics(t) /\ Basics(t)' /\ ThreadControl(t, a) /\ count \in [Threads -> Nat] /\ count[t] \in Nat
      /\ DepthControl(a) /\ FrameControl(a)
  BY BasicFacts, BasicFactsNext DEF Shape, LockInv
<1>2. /\ pc[t] = "dropping" /\ mutex = t /\ Height(t) >= 2 /\ (Height(t) = 2 => t # a)
      /\ read[t] = dropDepth /\ dropDepth + 1 < Width
      /\ 2 * (dropDepth + 1) = Height(t) + IF a \in {t, NoThread} THEN 0 ELSE 2
  BY DropFacts DEF Drop
<1>3. t # NoThread /\ NoThread \notin Threads /\ dropDepth \in Nat /\ a # NoThread /\ a \in Threads
  BY <1>1, <1>2, LockAssumption DEF DepthControl, Shape
<1>4. Context(t) = "shared" /\ Unlock(t, "shared", 0) /\ Top(t) = Shim(t, Height(t)) /\ Top(t).kind = "callback"
  BY <1>1, <1>2 DEF Drop, Drops, Basics, OfCallback
<1>5. /\ pc'[t] = "native" /\ UNCHANGED frames
      /\ \A u \in Threads \ {t} : pc'[u] = pc[u]
  BY DEF Drop, Goto, LockInv, ShimInv, ShimControl
<1>6. DOMAIN read' = Threads /\ \A u \in Threads \ {t} : read'[u] = read[u]
  BY DEF Drop, Shape
<1>7. count'[t] = count[t] /\ (\A u \in Threads \ {t} : count'[u] = count[u]) /\ mutex' = t
  BY <1>1, <1>2, <1>4 DEF Unlock, Counts
<1>8. dropDepth' = dropDepth + 1
  <2>1. dropDepth + 1 \in Nat /\ dropDepth + 1 < Width /\ Width \in Nat \ {0}
    BY <1>2, <1>3, LockAssumption
  <2>2. (dropDepth + 1) % Width = dropDepth + 1
    BY <2>1, NoWrap
  <2> QED
    BY <2>2, <1>2 DEF Drop
<1>9. PICK x \in Shims : /\ x.kind = "callback" /\ x.context = "shared" /\ x.dropped = 0
                         /\ calls' = [calls EXCEPT ![t] = [calls[t] EXCEPT ![Len(calls[t])] = x]]
  <2>1. /\ Goes(t, "native", [calls[t] EXCEPT ![Len(calls[t])] = [Top(t) EXCEPT !.dropped = 0]], "default")
        /\ [Top(t) EXCEPT !.dropped = 0] \in Shims /\ [Top(t) EXCEPT !.dropped = 0].kind = "callback"
        /\ [Top(t) EXCEPT !.dropped = 0].context = "shared"
    BY <1>1, <1>4, DropGoes DEF LockInv, Drops
  <2>2. [Top(t) EXCEPT !.dropped = 0].dropped = 0
    <3>1. ShimInv /\ Len(calls[t]) >= 1
      BY <1>1, <1>2 DEF Height, LockInv, Basics
    <3>2. Top(t) \in Shims
      BY <3>1, ThreadFits
    <3>3. Top(t) \in CallbackShims
      BY <3>2, <1>4, ShimKinds
    <3> QED
      BY <3>3 DEF CallbackShims
  <2> QED
    BY <2>1, <2>2 DEF Goes
<1>10. x.kind = Top(t).kind /\ x.context = Top(t).context /\ Height(t) >= 1
  BY <1>1, <1>2, <1>4, <1>9 DEF Context, Basics
<1>11. \A u \in Threads \ {t} : calls'[u] = calls[u]
  BY <1>9, <1>10, TopSet
<1>12. PICK h \in Nat : /\ h >= 1 /\ Height(t) = h /\ Height(t)' = h /\ Shim(t, h)' = x
                        /\ \A i \in 1..(h - 1) : Shim(t, i)' = Shim(t, i)
  BY <1>9, <1>10, TopSet
<1>13. \A u \in Threads \ {t} : ThreadControl(u, a)'
  <2> TAKE u \in Threads \ {t}
  <2>1. Basics(u) /\ ThreadControl(u, a) /\ count[u] = 0 /\ Spares(u)
    BY <1>1, <1>2, <1>5, <1>6, <1>7, <1>11, BasicFacts, OthersUnlocked DEF Shape, Spares
  <2>2. pc[u] \notin {"dropping", "undropping"}
    BY <2>1, NotOwner
  <2> QED
    BY <2>1, <2>2, OthersKeep
<1>14. ThreadControl(t, a)'
  <2>1. t = a => h >= 2 /\ Shim(t, 2)'.kind = "callback"
    BY <1>1, <1>2, <1>9, <1>12 DEF ThreadControl
  <2>2. \A i \in 1..h :
          Shim(t, i)'.kind = "callback" => Shim(t, i)'.dropped = IF i = 2 /\ t = a THEN 1 ELSE 0
    <3> TAKE i \in 1..h
    <3>1. CASE i = h
      BY <3>1, <1>2, <1>9, <1>12
    <3>2. CASE i \in 1..(h - 1)
      BY <3>2, <1>1, <1>12 DEF ThreadControl
    <3> QED
      BY <3>1, <3>2
  <2>3. Dropped(t, a)' = Dropped(t, a) /\ Below(t, a)' = Below(t, a)
    BY <1>2, <1>5 DEF Dropped, Below
  <2>4. ASSUME NEW i \in Framed(t)' PROVE 2 * Shim(t, i)'.oldEnd = i - 1 + 2 * Below(t, a)
    <3>1. i \in 1..h /\ Shim(t, i)'.kind = "entry"
      BY <2>4, <1>1, <1>12 DEF Basics
    <3>2. i # h /\ i \in 1..(h - 1)
      BY <3>1, <1>9, <1>12
    <3>3. i \in Framed(t) /\ Shim(t, i)' = Shim(t, i)
      BY <3>1, <3>2, <1>1, <1>12 DEF Basics
    <3> QED
      BY <3>3, <1>1 DEF ThreadControl
  <2>5. 2 * count'[t] = TwiceFrames(Height(t)', pc'[t]) - 2 * Dropped(t, a)'
    <3>1. TwiceFrames(Height(t)', pc'[t]) = h /\ TwiceFrames(Height(t), pc[t]) = h
      BY <1>2, <1>5, <1>12 DEF TwiceFrames
    <3> QED
      BY <3>1, <2>3, <1>1, <1>7 DEF ThreadControl
  <2> QED
    BY <1>5, <1>12, <2>1, <2>2, <2>3, <2>4, <2>5 DEF ThreadControl
<1>15. DepthControl(a)'
  <2>1. TwiceSettled(Height(t)', pc'[t]) = h
    BY <1>5, <1>12 DEF TwiceSettled, InEntry
  <2>2. CASE a = t
    BY <2>1, <2>2, <1>2, <1>3, <1>7, <1>8, <1>12 DEF DepthControl
  <2>3. CASE a # t
    <3>1. Basics(a) /\ ThreadControl(a, a) /\ count[a] = 0
      BY <1>1, <1>2, <1>3, <2>3, BasicFacts, OthersUnlocked DEF Shape
    <3>2. TwiceSettled(Height(a), pc[a]) = 2
      BY <3>1, NotOwner
    <3>3. Height(a)' = Height(a) /\ pc'[a] = pc[a]
      BY <2>3, <1>3, <1>5, <1>11 DEF Height
    <3>4. 2 * dropDepth' = 2 + h
      BY <2>3, <1>2, <1>3, <1>8, <1>12
    <3> QED
      BY <2>1, <2>3, <3>2, <3>3, <3>4, <1>3, <1>7, <1>8 DEF DepthControl
  <2> QED
    BY <2>2, <2>3
<1>16. FrameControl(a)'
  <2>1. Below(mutex, a)' = Below(mutex, a)
    BY <1>2, <1>7 DEF Below
  <2>2. Size' = Size /\ \A j : OwnerOf(j)' = OwnerOf(j)
    BY <1>5 DEF Size, OwnerOf
  <2>3. TwiceFrames(Height(t)', pc'[t]) = TwiceFrames(Height(t), pc[t])
    BY <1>2, <1>5, <1>12 DEF TwiceFrames
  <2> QED
    BY <2>1, <2>2, <2>3, <1>1, <1>2, <1>7 DEF FrameControl
<1> QED
  BY <1>6, <1>13, <1>14, <1>15, <1>16 DEF Shape

\* ~DropAllLocks decrements lockDropDepth, and the outermost one of the thread that had
\* dropped its lock ends that.
LEMMA UndropShape ==
    ASSUME SharedOnly, LockInv, LockInv', MutexControl, NEW a, Shape(a), NEW t \in Threads, Undrop(t)
    PROVE  \E b \in Threads \cup {NoThread} : Shape(b)'
<1>1. /\ Basics(t) /\ Basics(t)' /\ ThreadControl(t, a) /\ count \in [Threads -> Nat] /\ count[t] \in Nat
      /\ DepthControl(a) /\ FrameControl(a) /\ a \in Threads \cup {NoThread}
  BY BasicFacts, BasicFactsNext DEF Shape, LockInv
<1>2. /\ pc[t] = "undropping" /\ mutex = t /\ Height(t) >= 2 /\ Pop(t) /\ read[t] = dropDepth
  BY <1>1, OwnerWrites DEF Undrop, Basics, OfCallback, ThreadControl
<1>3. t # NoThread /\ NoThread \notin Threads /\ dropDepth \in Nat
  BY <1>1, LockAssumption DEF DepthControl
<1>4. /\ pc'[t] = "script" /\ UNCHANGED <<frames, count, mutex>>
      /\ \A u \in Threads \ {t} : pc'[u] = pc[u] /\ count'[u] = count[u]
  BY DEF Undrop, Goto, LockInv, ShimInv, ShimControl
<1>5. DOMAIN read' = Threads /\ \A u \in Threads \ {t} : read'[u] = read[u]
  BY DEF Undrop, Shape
<1>6. \A u \in Threads \ {t} : calls'[u] = calls[u]
  <2>1. Height(t) >= 1
    BY <1>1, <1>2 DEF Basics
  <2> QED
    BY <2>1, <1>2, Popped
<1>7. PICK h \in Nat : /\ Height(t) = h + 1 /\ Height(t)' = h
                       /\ \A i \in 1..h : Shim(t, i)' = Shim(t, i)
  <2>1. Height(t) >= 1
    BY <1>1, <1>2 DEF Basics
  <2> QED
    BY <2>1, <1>2, Popped
<1>8. h >= 1 /\ h + 1 <= MaxNesting
  BY <1>1, <1>2, <1>7 DEF Basics
<1>9. PICK b \in Threads \cup {NoThread} : b = IF t = a /\ Height(t) = 2 THEN NoThread ELSE a
  BY <1>1
<1>10. TwiceSettled(Height(t), pc[t]) = h + 1 /\ TwiceSettled(Height(t)', pc'[t]) = h - 1
  BY <1>2, <1>4, <1>7 DEF TwiceSettled, InEntry
<1>11. TwiceFrames(Height(t), pc[t]) = h + 1 /\ TwiceFrames(Height(t)', pc'[t]) = h + 1
  BY <1>2, <1>4, <1>7 DEF TwiceFrames
<1>12. ASSUME a \in Threads \ {t} PROVE TwiceSettled(Height(a), pc[a]) = 2 /\ TwiceSettled(Height(a)', pc'[a]) = 2
  <2>1. Basics(a) /\ ThreadControl(a, a) /\ count[a] = 0
    BY <1>1, <1>2, <1>12, BasicFacts, OthersUnlocked DEF Shape
  <2>2. TwiceSettled(Height(a), pc[a]) = 2
    BY <2>1, NotOwner
  <2>3. Height(a)' = Height(a) /\ pc'[a] = pc[a]
    BY <1>4, <1>6, <1>12 DEF Height
  <2> QED
    BY <2>2, <2>3
<1>13. a # NoThread /\ a \in Threads /\ 2 * dropDepth = h + 1 + IF a = t THEN 0 ELSE 2
  <2>1. CASE a = NoThread
    <3>1. 2 * dropDepth = 0 + (h + 1) /\ dropDepth = 0
      BY <2>1, <1>1, <1>2, <1>3, <1>10 DEF DepthControl
    <3> QED
      BY <3>1
  <2>2. CASE a = t
    BY <2>2, <1>1, <1>2, <1>3, <1>10 DEF DepthControl
  <2>3. CASE a \in Threads \ {t}
    <3>1. 2 * dropDepth = 2 + (h + 1)
      BY <2>3, <1>1, <1>2, <1>10, <1>12 DEF DepthControl
    <3> QED
      BY <3>1, <2>3, <1>3
  <2> QED
    BY <2>1, <2>2, <2>3, <1>1
<1>14. dropDepth' = dropDepth - 1 /\ dropDepth >= 1
  <2>1. MaxNesting \in Nat /\ Width \in Nat /\ MaxNesting < Width
    BY LockAssumption DEF SharedOnly
  <2>2. dropDepth >= 1 /\ dropDepth - 1 \in Nat /\ dropDepth - 1 < Width
    BY <2>1, <1>3, <1>8, <1>13
  <2>3. (dropDepth - 1) % Width = dropDepth - 1
    BY <2>1, <2>2, NoWrap, LockAssumption
  <2> QED
    BY <2>2, <2>3, <1>2 DEF Undrop
<1>15. \A u \in Threads \ {t} : ThreadControl(u, b)'
  <2> TAKE u \in Threads \ {t}
  <2>1. Basics(u) /\ ThreadControl(u, a) /\ count[u] = 0 /\ Spares(u) /\ u \notin {t, NoThread}
    BY <1>1, <1>2, <1>3, <1>4, <1>5, <1>6, BasicFacts, OthersUnlocked DEF Shape, Spares
  <2>2. pc[u] \notin {"dropping", "undropping"}
    BY <2>1, NotOwner
  <2>3. CASE b = a
    BY <2>1, <2>2, <2>3, OthersKeep
  <2>4. CASE b # a
    <3>1. a \in {t, NoThread} /\ b \in {t, NoThread}
      BY <2>4, <1>9
    <3> QED
      BY <3>1, <2>1, OthersSwitch
  <2> QED
    BY <2>3, <2>4
<1>16. ThreadControl(t, b)'
  <2>1. t = b => h >= 2 /\ Shim(t, 2)'.kind = "callback"
    <3> HAVE t = b
    <3>1. t = a /\ h + 1 # 2
      BY <1>3, <1>7, <1>9
    <3>2. 2 \in 1..h /\ Shim(t, 2).kind = "callback"
      BY <3>1, <1>1, <1>7, <1>8 DEF ThreadControl
    <3> QED
      BY <3>2, <1>7
  <2>2. \A i \in 1..h :
          Shim(t, i)'.kind = "callback" => Shim(t, i)'.dropped = IF i = 2 /\ t = b THEN 1 ELSE 0
    <3> TAKE i \in 1..h
    <3>1. i \in 1..Height(t) /\ Shim(t, i)' = Shim(t, i) /\ (i = 2 /\ t = a <=> i = 2 /\ t = b)
      BY <1>3, <1>7, <1>9
    <3> QED
      BY <3>1, <1>1 DEF ThreadControl
  <2>3. Dropped(t, b)' = Dropped(t, a)
    BY <1>2, <1>3, <1>4, <1>9 DEF Dropped
  <2>4. Below(t, b)' = Below(t, a)
    BY <1>3, <1>9 DEF Below
  <2>5. ASSUME NEW i \in Framed(t)' PROVE 2 * Shim(t, i)'.oldEnd = i - 1 + 2 * Below(t, a)
    <3>1. i \in 1..h /\ Shim(t, i)'.kind = "entry"
      BY <2>5, <1>1, <1>7 DEF Basics
    <3>2. i \in 1..Height(t) /\ i # Height(t) /\ Shim(t, i)' = Shim(t, i)
      BY <3>1, <1>7
    <3>3. i \in Framed(t)
      BY <3>1, <3>2, <1>1 DEF Basics
    <3> QED
      BY <3>2, <3>3, <1>1 DEF ThreadControl
  <2>6. 2 * count'[t] = TwiceFrames(Height(t)', pc'[t]) - 2 * Dropped(t, b)'
    BY <2>3, <1>1, <1>4, <1>11 DEF ThreadControl
  <2> QED
    BY <1>4, <1>7, <2>1, <2>2, <2>4, <2>5, <2>6 DEF ThreadControl
<1>17. DepthControl(b)'
  <2>1. CASE b = NoThread
    <3>1. t = a /\ h = 1
      BY <2>1, <1>7, <1>9, <1>13
    <3>2. dropDepth' = 0 /\ TwiceSettled(Height(t)', pc'[t]) = 0
      BY <3>1, <1>3, <1>10, <1>13, <1>14
    <3> QED
      BY <2>1, <3>2, <1>2, <1>3, <1>4 DEF DepthControl
  <2>2. CASE b = a /\ a = t
    <3>1. 2 * dropDepth' = h - 1 /\ dropDepth' \in Nat
      BY <2>2, <1>3, <1>13, <1>14
    <3> QED
      <4>1. mutex' \notin Threads \ {b} /\ b \in Threads /\ b # NoThread
        BY <2>2, <1>2, <1>3, <1>4
      <4>2. TwiceSettled(Height(b)', pc'[b]) = h - 1 /\ h - 1 \in Int
        BY <2>2, <1>10
      <4>4. PICK k \in Int : k = h - 1
        OBVIOUS
      <4>6. 2 * dropDepth' = k
        BY <3>1, <4>4
      <4>7. TwiceSettled(Height(b)', pc'[b]) = k
        BY <4>2, <4>4
      <4>5. 2 * dropDepth' = k /\ k = k + 0 /\ TwiceSettled(Height(b)', pc'[b]) = k
        BY <4>4, <4>6, <4>7
      <4>3. 2 * dropDepth' = TwiceSettled(Height(b)', pc'[b]) + 0
        BY <4>5
      <4> QED
        BY <3>1, <4>1, <4>3 DEF DepthControl
  <2>3. CASE b = a /\ a # t
    <3>1. 2 * dropDepth' = 2 + (h - 1) /\ dropDepth' \in Nat
      BY <2>3, <1>3, <1>13, <1>14
    <3> QED
      BY <2>3, <3>1, <1>2, <1>3, <1>4, <1>10, <1>12, <1>13 DEF DepthControl
  <2> QED
    BY <2>1, <2>2, <2>3, <1>9
<1>18. FrameControl(b)'
  <2>1. Below(mutex, b)' = Below(mutex, a)
    BY <1>2, <1>3, <1>4, <1>9 DEF Below
  <2>2. Size' = Size /\ \A j : OwnerOf(j)' = OwnerOf(j)
    BY <1>4 DEF Size, OwnerOf
  <2>3. Below(mutex, a) = 1 => b = a
    BY <1>2, <1>9 DEF Below
  <2> QED
    BY <2>1, <2>2, <2>3, <1>1, <1>2, <1>4, <1>11 DEF FrameControl
<1>19. Shape(b)'
  BY <1>5, <1>15, <1>16, <1>17, <1>18 DEF Shape
<1> QED
  BY <1>9, <1>19

-----------------------------------------------------------------------------
(***************************************************************************)
(* The theorems.                                                           *)
(***************************************************************************)
\* The invariant holds initially: no thread has dropped a lock.
LEMMA StackInit == Init => StackControl
<1> SUFFICES ASSUME Init PROVE Shape(NoThread)
  BY DEF StackControl
<1>1. NoThread \notin Threads /\ mutex = NoThread /\ dropDepth = 0 /\ DOMAIN read = Threads
  BY LockAssumption DEF Init
<1>2. ASSUME NEW t \in Threads PROVE ThreadControl(t, NoThread)
  <2>1. calls[t] = <<>> /\ pc[t] = "native" /\ count[t] = 0
    BY DEF Init
  <2>2. Height(t) = 0 /\ Framed(t) = {}
    BY <2>1 DEF Height, Framed
  <2>3. t # NoThread /\ TwiceFrames(0, pc[t]) = 0 /\ Dropped(t, NoThread) = 0
    BY <1>1, <2>1 DEF TwiceFrames, Dropped
  <2> QED
    BY <2>1, <2>2, <2>3 DEF ThreadControl
<1>3. DepthControl(NoThread)
  BY <1>1 DEF DepthControl
<1>4. FrameControl(NoThread)
  <2>1. Size = 0 /\ Below(mutex, NoThread) = 0
    BY DEF Size, Init, Below
  <2> QED
    BY <2>1, <1>1 DEF FrameControl
<1> QED
  BY <1>1, <1>2, <1>3, <1>4 DEF Shape

\* Every step keeps the invariant.
LEMMA StackStep ==
    SharedOnly /\ LockInv /\ LockInv' /\ MutexControl /\ StackControl /\ [Next]_vars => StackControl'
<1> SUFFICES ASSUME SharedOnly, LockInv, LockInv', MutexControl, StackControl, [Next]_vars
             PROVE  StackControl'
  OBVIOUS
<1>1. PICK a \in Threads \cup {NoThread} : Shape(a)
  BY DEF StackControl
<1>2. SUFFICES \E b \in Threads \cup {NoThread} : Shape(b)'
  BY DEF StackControl
<1>3. CASE UNCHANGED vars
  <2>1. Shape(a)'
    BY <1>1, <1>3 DEF vars, Shape, ThreadControl, DepthControl, FrameControl, Height, Shim, Size, OwnerOf,
                      Framed, Dropped, Below
  <2> QED
    BY <2>1
<1>4. ASSUME NEW t \in Threads, NEW c \in Contexts, Enter(t, c) PROVE Shape(a)'
  BY <1>1, <1>4, EnterShape
<1>5. ASSUME NEW t \in Threads, CallOut(t) PROVE Shape(a)'
  BY <1>1, <1>5, CallOutShape
<1>6. ASSUME NEW t \in Threads, Start(t) \/ Stop(t) \/ ReturnFromCallback(t) PROVE Shape(a)'
  BY <1>1, <1>6, StartShape
<1>7. ASSUME NEW t \in Threads, LockAndExecute(t) PROVE Shape(a)'
  BY <1>1, <1>7, LockAndExecuteShape
<1>8. ASSUME NEW t \in Threads, ReturnAndUnlock(t) PROVE Shape(a)'
  BY <1>1, <1>8, ReturnShape
<1>9. ASSUME NEW t \in Threads, Leave(t) PROVE Shape(a)'
  BY <1>1, <1>9, LeaveShape
<1>10. ASSUME NEW t \in Threads, Drop(t) PROVE \E b \in Threads \cup {NoThread} : Shape(b)'
  <2>1. CASE read[t] = 0
    <3>1. Shape(t)'
      BY <1>1, <1>10, <2>1, FirstDropShape
    <3> QED
      BY <3>1
  <2>2. CASE read[t] # 0
    <3>1. Shape(a)'
      BY <1>1, <1>10, <2>2, LaterDropShape
    <3> QED
      BY <3>1
  <2> QED
    BY <2>1, <2>2
<1>11. ASSUME NEW t \in Threads, Relock(t) PROVE Shape(a)'
  BY <1>1, <1>11, RelockShape
<1>12. ASSUME NEW t \in Threads, Undrop(t) PROVE \E b \in Threads \cup {NoThread} : Shape(b)'
  BY <1>1, <1>12, UndropShape
<1>13. CASE Next
  BY <1>13, <1>3, <1>4, <1>5, <1>6, <1>7, <1>8, <1>9, <1>10, <1>11, <1>12 DEF Next, Continue
<1> QED
  BY <1>3, <1>13

\* The invariants of the shared context together.
THEOREM StackInvariance == SharedOnly /\ Spec => [](LockInv /\ MutexControl /\ StackControl)
<1>1. SharedOnly => OneKindOfLock
  BY DEF SharedOnly, OneKindOfLock
<1>2. Init => MutexControl
  BY LockAssumption DEF Init, MutexControl
<1>3. SUFFICES ASSUME SharedOnly PROVE Spec => [](LockInv /\ MutexControl /\ StackControl)
  OBVIOUS
<1>4. Init => LockInv /\ MutexControl /\ StackControl
  BY <1>2, LockInit, StackInit
<1>5. LockInv /\ MutexControl /\ StackControl /\ [Next]_vars => (LockInv /\ MutexControl /\ StackControl)'
  <2> SUFFICES ASSUME LockInv, MutexControl, StackControl, [Next]_vars
               PROVE  LockInv' /\ MutexControl' /\ StackControl'
    OBVIOUS
  <2>1. LockInv'
    BY LockStep
  <2>2. MutexControl'
    BY <1>1, <1>3, MutexStep
  <2> QED
    BY <1>3, <2>1, <2>2, StackStep
<1> QED
  BY <1>4, <1>5, PTL DEF Spec

\* Where the frames of a thread are.
LEMMA FramesInPlace ==
    ASSUME SharedOnly, LockInv, MutexControl, NEW a, Shape(a), NEW t \in Threads
    PROVE  /\ \A i \in Framed(t) : Shim(t, i).oldEnd < Size /\ OwnerOf(Shim(t, i).oldEnd + 1) = t
           /\ Framed(t) # {} => t = a \/ t = mutex
           /\ pc[t] = "script" => Size \in Nat /\ Size >= 1 /\ OwnerOf(Size) = t
<1>1. Basics(t) /\ ThreadControl(t, a) /\ FrameControl(a) /\ count[t] \in Nat
  BY BasicFacts DEF Shape, LockInv
<1>2. PICK h \in Nat : h = Height(t)
  BY <1>1 DEF Basics
<1>3. PICK L \in Nat : L = Size
  BY SizeFacts
<1>4. PICK D \in {0, 1} : D = Dropped(t, a)
  BY DEF Dropped
<1>5. CASE count[t] > 0
  <2>1. mutex = t
    BY <1>5 DEF MutexControl
  <2>2. PICK B \in {0, 1} : B = Below(t, a)
    BY DEF Below
  <2>3. PICK f \in Int : f = TwiceFrames(h, pc[t])
    BY DEF TwiceFrames
  <2>4. 2 * L = 2 * B + f /\ \A j \in (B + 1)..L : OwnerOf(j) = t
    BY <2>1, <2>2, <2>3, <1>1, <1>2, <1>3 DEF FrameControl
  <2>5. 2 * count[t] = f - 2 * D
    BY <2>3, <1>1, <1>2, <1>4 DEF ThreadControl
  <2>6. ASSUME NEW i \in Framed(t) PROVE Shim(t, i).oldEnd < L /\ OwnerOf(Shim(t, i).oldEnd + 1) = t
    <3>1. PICK n \in Nat : n = Shim(t, i).oldEnd
      BY <1>1, <1>2 DEF Basics
    <3>2. i \in 1..h /\ (i = h => pc[t] \notin Outside) /\ 2 * n = i - 1 + 2 * B
      BY <3>1, <2>2, <1>1, <1>2 DEF Basics, ThreadControl
    <3>3. i + 1 <= f
      <4>1. CASE pc[t] = "script"
        BY <4>1, <3>2, <2>3 DEF TwiceFrames
      <4>2. CASE pc[t] \in Outside
        <5>1. f = h - 1
          BY <4>2, <2>3 DEF TwiceFrames, Outside
        <5> QED
          BY <5>1, <4>2, <3>2, <2>5, <1>1
      <4>3. CASE pc[t] # "script" /\ pc[t] \notin Outside
        <5>1. f = h
          BY <4>3, <2>3 DEF TwiceFrames, Outside
        <5> QED
          BY <5>1, <3>2, <2>5, <1>1
      <4> QED
        BY <4>1, <4>2, <4>3
    <3>4. n < L /\ n + 1 \in (B + 1)..L
      BY <3>2, <3>3, <2>4
    <3> QED
      BY <3>1, <3>4, <2>4
  <2>7. pc[t] = "script" => L >= 1 /\ L \in (B + 1)..L
    <3> HAVE pc[t] = "script"
    <3>1. f = h + 1 /\ h >= 1
      BY <2>3, <1>1, <1>2 DEF TwiceFrames, Basics, InEntry
    <3> QED
      BY <3>1, <2>4
  <2> QED
    BY <2>1, <2>4, <2>6, <2>7, <1>3
<1>6. CASE count[t] = 0
  <2>1. pc[t] # "script" /\ (t # a => Framed(t) = {}) /\ (t = a => Framed(t) \subseteq {1})
    BY <1>1, <1>6, NotOwner
  <2>2. ASSUME NEW i \in Framed(t) PROVE Shim(t, i).oldEnd < L /\ OwnerOf(Shim(t, i).oldEnd + 1) = t
    <3>1. t = a /\ i = 1
      BY <2>1
    <3>2. PICK n \in Nat : n = Shim(t, i).oldEnd
      BY <1>1 DEF Basics
    <3>3. Below(t, a) = 0 /\ 2 * n = i - 1 + 2 * Below(t, a)
      BY <3>1, <3>2, <1>1 DEF Below, ThreadControl
    <3>4. n = 0
      BY <3>1, <3>3
    <3>5. mutex # t /\ t # NoThread
      BY <1>6, LockAssumption DEF MutexControl
    <3>6. Below(mutex, a) = 1
      BY <3>1, <3>5 DEF Below
    <3>7. OwnerOf(1) = t
      BY <3>1, <3>6, <1>1 DEF FrameControl
    <3>8. L >= 1
      <4>1. CASE mutex \in Threads
        <5>1. Basics(mutex) /\ ThreadControl(mutex, a)
          BY <4>1, BasicFacts DEF Shape
        <5>2. PICK f \in Int : f = TwiceFrames(Height(mutex), pc[mutex])
          BY <5>1 DEF TwiceFrames, Basics
        <5>3. PICK m \in Nat : m = count[mutex]
          BY <5>1 DEF Basics
        <5>4. Dropped(mutex, a) \in {0, 1}
          BY DEF Dropped
        <5>5. 2 * m = f - 2 * Dropped(mutex, a)
          BY <5>1, <5>2, <5>3 DEF ThreadControl
        <5>6. 2 * L = 2 * 1 + f
          BY <4>1, <5>2, <3>6, <1>1, <1>3 DEF FrameControl
        <5> QED
          BY <5>4, <5>5, <5>6
      <4>2. CASE mutex \notin Threads
        <5>1. 2 * L = 2 * 1 + 0
          BY <4>2, <3>6, <1>1, <1>3 DEF FrameControl
        <5> QED
          BY <5>1
      <4> QED
        BY <4>1, <4>2
    <3> QED
      BY <3>2, <3>4, <3>7, <3>8
  <2> QED
    BY <2>1, <2>2, <1>3
<1> QED
  BY <1>1, <1>5, <1>6

\* The JS stack is not corrupted, however many threads enter the shared context and call
\* out of it: RegisterFile::shrink on a return never cuts off, and executeCall never writes
\* over, the frame of a call that has not returned.
THEOREM RegisterFileIsIntact == SharedOnly /\ Spec => []StackIntact
<1>1. SharedOnly /\ LockInv /\ MutexControl /\ StackControl => StackIntact
  <2> SUFFICES ASSUME SharedOnly, LockInv, MutexControl, StackControl PROVE StackIntact
    OBVIOUS
  <2>1. PICK a \in Threads \cup {NoThread} : Shape(a)
    BY DEF StackControl
  <2>2. ASSUME NEW t \in Threads, NEW i \in Framed(t)
        PROVE  calls[t][i].oldEnd < Len(frames) /\ frames[calls[t][i].oldEnd + 1] = t
    BY <2>1, FramesInPlace DEF Shim, Size, OwnerOf
  <2>3. ASSUME NEW t \in Threads, pc[t] = "script" PROVE Last(frames) = t
    <3>1. OwnerOf(Size) = t
      BY <2>1, <2>3, FramesInPlace
    <3> QED
      BY <3>1 DEF OwnerOf, Size, Last
  <2> QED
    BY <2>2, <2>3 DEF StackIntact, Executing
<1>2. SUFFICES ASSUME SharedOnly PROVE Spec => []StackIntact
  OBVIOUS
<1>3. Spec => [](LockInv /\ MutexControl /\ StackControl)
  BY <1>2, StackInvariance
<1>4. LockInv /\ MutexControl /\ StackControl => StackIntact
  BY <1>1, <1>2
<1> QED
  BY <1>3, <1>4, PTL

\* Only two threads have frames in the register file at a time: one that dropped its lock,
\* and one that entered meanwhile.
THEOREM TwoThreadsShareTheRegisterFile == SharedOnly /\ Spec => []AtMostTwoThreads
<1>1. SharedOnly /\ LockInv /\ MutexControl /\ StackControl => AtMostTwoThreads
  <2> SUFFICES ASSUME SharedOnly, LockInv, MutexControl, StackControl PROVE AtMostTwoThreads
    OBVIOUS
  <2>1. PICK a \in Threads \cup {NoThread} : Shape(a)
    BY DEF StackControl
  <2> DEFINE S == {t \in Threads : Framed(t) # {}}
  <2>2. S \subseteq {a, mutex}
    BY <2>1, FramesInPlace
  <2>3. IsFiniteSet({a}) /\ Cardinality({a}) = 1
    BY FS_Singleton
  <2>4. IsFiniteSet({a} \cup {mutex}) /\ Cardinality({a} \cup {mutex}) \in {1, 2}
    BY <2>3, FS_AddElement
  <2>5. {a} \cup {mutex} = {a, mutex}
    OBVIOUS
  <2>6. IsFiniteSet({a, mutex}) /\ Cardinality({a, mutex}) <= 2
    BY <2>4, <2>5
  <2>7. Cardinality(S) <= Cardinality({a, mutex}) /\ IsFiniteSet(S)
    BY <2>2, <2>6, FS_Subset
  <2>8. Cardinality(S) \in Nat /\ Cardinality({a, mutex}) \in Nat
    BY <2>6, <2>7, FS_CardinalityType
  <2> HIDE DEF S
  <2>9. Cardinality(S) <= 2
    BY <2>6, <2>7, <2>8
  <2> QED
    BY <2>9 DEF AtMostTwoThreads, S
<1>2. SUFFICES ASSUME SharedOnly PROVE Spec => []AtMostTwoThreads
  OBVIOUS
<1>3. Spec => [](LockInv /\ MutexControl /\ StackControl)
  BY <1>2, StackInvariance
<1>4. LockInv /\ MutexControl /\ StackControl => AtMostTwoThreads
  BY <1>1, <1>2
<1> QED
  BY <1>3, <1>4, PTL
=============================================================================
