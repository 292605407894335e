------------------------------- MODULE JSLock -------------------------------
(***************************************************************************)
(* Threads that enter JavaScriptCore through the API: the recursive        *)
(* JSLock, DropAllLocks around calls out of a script, the API shims, the   *)
(* start count of the TimeoutChecker and the register file, the JS stack   *)
(* that all threads of a context share.                                    *)
(*                                                                         *)
(* A thread works in the shared context, whose JSLock is real, or in a     *)
(* context of its own, whose JSLock only counts, and only in a debug       *)
(* build.  lockDropDepth and m_startCount are incremented and decremented  *)
(* without a common lock: each change is a read and a later write.         *)
(***************************************************************************)
EXTENDS Integers, Sequences, SequencesExt, FiniteSets

CONSTANTS
    Threads,           \* native threads
    NoThread,          \* the owner of a free mutex
    Contexts,          \* of "shared" and "private"
    AssertionsEnabled, \* a debug build
    Width,             \* the counters are unsigned: they wrap at this value
    MaxNesting,        \* bound: entries and callbacks on a thread's native stack
    MaxCalls           \* bound: calls into and out of scripts, over all threads

ASSUME LockAssumption ==
    /\ NoThread \notin Threads
    /\ Contexts \subseteq {"shared", "private"}
    /\ AssertionsEnabled \in BOOLEAN
    /\ Width \in Nat \ {0}
    /\ MaxNesting \in Nat /\ MaxCalls \in Nat

VARIABLES
    mutex,     \* the owner of JSMutex
    count,     \* JSLockCount of each thread
    dropDepth, \* lockDropDepth
    starts,    \* m_startCount of the shared context's TimeoutChecker
    frames,    \* the shared context's register file: the thread of each frame
    calls,     \* the shims on each thread's native stack
    table,     \* the context of each thread's current identifier table
    pc,        \* where each thread is
    read,      \* the value a thread has read of the counter it changes
    made       \* calls into and out of scripts so far

vars == <<mutex, count, dropDepth, starts, frames, calls, table, pc, read, made>>

\* An APIEntryShim on the native stack, with the end of the register file before
\* the call and the identifier table to restore; an APICallbackShim, with the
\* m_lockCount of its DropAllLocks.
Entry(c, saved)       == [kind |-> "entry", context |-> c, saved |-> saved, oldEnd |-> 0]
Callback(c, dropped)  == [kind |-> "callback", context |-> c, dropped |-> dropped]

Top(t) == Last(calls[t])
Context(t) == Top(t).context
InCallback(t) == calls[t] # <<>> /\ Top(t).kind = "callback"
Push(t, shim) == calls' = [calls EXCEPT ![t] = Append(@, shim)]
Pop(t) == calls' = [calls EXCEPT ![t] = Front(@)]
Goto(t, label) == pc' = [pc EXCEPT ![t] = label]

\* A lock that is not for real counts in a debug build only.
Counts(c) == c = "shared" \/ AssertionsEnabled

Init ==
    /\ mutex = NoThread
    /\ count = [t \in Threads |-> 0]
    /\ dropDepth = 0
    /\ starts = 0
    /\ frames = <<>>
    /\ calls = [t \in Threads |-> <<>>]
    /\ table = [t \in Threads |-> "default"]
    /\ pc = [t \in Threads |-> "native"]
    /\ read = [t \in Threads |-> 0]
    /\ made = 0

-----------------------------------------------------------------------------
(***************************************************************************)
(* APIEntryShim.                                                           *)
(***************************************************************************)

\* The base class comes first: before the lock is taken it installs the
\* identifier table and reads m_startCount in TimeoutChecker::start.  A private
\* context has a TimeoutChecker of its own.
Enter(t, c) ==
    /\ pc[t] = "native"
    /\ Len(calls[t]) < MaxNesting
    /\ made < MaxCalls
    /\ made' = made + 1
    /\ Push(t, Entry(c, table[t]))
    /\ table' = [table EXCEPT ![t] = c]
    /\ read' = [read EXCEPT ![t] = IF c = "shared" THEN starts ELSE 0]
    /\ Goto(t, IF c = "shared" THEN "starting" ELSE "locking")
    /\ UNCHANGED <<mutex, count, dropDepth, starts, frames>>

Start(t) ==
    /\ pc[t] = "starting"
    /\ starts' = (read[t] + 1) % Width
    /\ read' = [read EXCEPT ![t] = 0]
    /\ Goto(t, "locking")
    /\ UNCHANGED <<mutex, count, dropDepth, frames, calls, table, made>>

\* Mutant: a thread that finds the mutex taken goes ahead without it.
LockTry(t, c, n) ==
    /\ mutex' = IF c = "shared" /\ n > 0 /\ mutex = NoThread THEN t ELSE mutex
    /\ count' = [count EXCEPT ![t] = IF Counts(c) THEN @ + n ELSE @]

\* JSLock::lock for n locks of context c.
Lock(t, c, n) ==
    /\ IF c = "shared" /\ n > 0 /\ count[t] = 0
       THEN mutex = NoThread /\ mutex' = t
       ELSE UNCHANGED mutex
    /\ count' = [count EXCEPT ![t] = IF Counts(c) THEN @ + n ELSE @]

\* JSLock's constructor, then Interpreter::executeCall, which starts its frame at
\* the end of the register file.
LockAndExecute(t) ==
    /\ pc[t] = "locking"
    /\ Lock(t, Context(t), 1)
    /\ IF Context(t) = "shared"
       THEN /\ calls' = [calls EXCEPT ![t][Len(calls[t])].oldEnd = Len(frames)]
            /\ frames' = Append(frames, t)
       ELSE UNCHANGED <<calls, frames>>
    /\ Goto(t, "script")
    /\ UNCHANGED <<dropDepth, starts, table, read, made>>

\* Mutant: the last unlock keeps the mutex.
UnlockKeepsMutex(t, c, n) ==
    /\ count' = [count EXCEPT ![t] = IF Counts(c) THEN @ - n ELSE @]
    /\ UNCHANGED mutex

\* JSLock::unlock for n locks of context c.  What pthread_mutex_unlock does to the
\* mutex of another thread is not defined.
Unlock(t, c, n) ==
    /\ count' = [count EXCEPT ![t] = IF Counts(c) THEN @ - n ELSE @]
    /\ mutex' \in IF c = "shared" /\ n > 0 /\ count[t] = n
                  THEN {NoThread} \cup ({mutex} \ {t})
                  ELSE {mutex}

\* RegisterFile::shrink.
Shrink(oldEnd) == SubSeq(frames, 1, IF oldEnd < Len(frames) THEN oldEnd ELSE Len(frames))

\* executeCall returns, and the JSLock is destructed before its base class.
ReturnAndUnlock(t) ==
    /\ pc[t] = "script"
    /\ frames' = IF Context(t) = "shared" THEN Shrink(Top(t).oldEnd) ELSE frames
    /\ Unlock(t, Context(t), 1)
    /\ Goto(t, "leaving")
    /\ UNCHANGED <<dropDepth, starts, calls, table, read, made>>

\* TimeoutChecker::stop reads m_startCount.
Stop(t) ==
    /\ pc[t] = "leaving"
    /\ Context(t) = "shared"
    /\ read' = [read EXCEPT ![t] = starts]
    /\ Goto(t, "stopping")
    /\ UNCHANGED <<mutex, count, dropDepth, starts, frames, calls, table, made>>

\* It writes it, and the identifier table of the caller is restored.
Leave(t) ==
    /\ \/ pc[t] = "stopping" /\ starts' = (read[t] - 1) % Width
       \/ pc[t] = "leaving" /\ Context(t) = "private" /\ UNCHANGED starts
    /\ read' = [read EXCEPT ![t] = 0]
    /\ table' = [table EXCEPT ![t] = Top(t).saved]
    /\ Pop(t)
    /\ Goto(t, "native")
    /\ UNCHANGED <<mutex, count, dropDepth, frames, made>>

-----------------------------------------------------------------------------
(***************************************************************************)
(* APICallbackShim and DropAllLocks.                                       *)
(***************************************************************************)
CallOut(t) ==
    /\ pc[t] = "script"
    /\ Len(calls[t]) < MaxNesting
    /\ made < MaxCalls
    /\ made' = made + 1
    /\ Push(t, Callback(Context(t), 0))
    /\ read' = [read EXCEPT ![t] = dropDepth]
    /\ Goto(t, "dropping")
    /\ UNCHANGED <<mutex, count, dropDepth, starts, frames, table>>

\* Mutant: the locks are dropped at every depth.
DropsAlways(t) == TRUE

\* if (lockDropDepth++): the locks are dropped at depth zero only.
Drops(t) == read[t] = 0

Drop(t) ==
    LET n == IF Drops(t) THEN count[t] ELSE 0
    IN  /\ pc[t] = "dropping"
        /\ dropDepth' = (read[t] + 1) % Width
        /\ read' = [read EXCEPT ![t] = 0]
        /\ calls' = [calls EXCEPT ![t][Len(calls[t])].dropped = n]
        /\ Unlock(t, Context(t), n)
        /\ table' = [table EXCEPT ![t] = "default"]
        /\ Goto(t, "native")
        /\ UNCHANGED <<starts, frames, made>>

\* Mutant: the identifier table of the context is not installed again.
ReturnFromCallbackStale(t) ==
    /\ pc[t] = "native"
    /\ InCallback(t)
    /\ Goto(t, "relocking")
    /\ UNCHANGED <<mutex, count, dropDepth, starts, frames, calls, table, read, made>>

ReturnFromCallback(t) ==
    /\ pc[t] = "native"
    /\ InCallback(t)
    /\ table' = [table EXCEPT ![t] = Context(t)]
    /\ Goto(t, "relocking")
    /\ UNCHANGED <<mutex, count, dropDepth, starts, frames, calls, read, made>>

\* ~DropAllLocks takes the locks again and reads lockDropDepth.
Relock(t) ==
    /\ pc[t] = "relocking"
    /\ Lock(t, Context(t), Top(t).dropped)
    /\ read' = [read EXCEPT ![t] = dropDepth]
    /\ Goto(t, "undropping")
    /\ UNCHANGED <<dropDepth, starts, frames, calls, table, made>>

Undrop(t) ==
    /\ pc[t] = "undropping"
    /\ dropDepth' = (read[t] - 1) % Width
    /\ read' = [read EXCEPT ![t] = 0]
    /\ Pop(t)
    /\ Goto(t, "script")
    /\ UNCHANGED <<mutex, count, starts, frames, table, made>>

\* Steps that a thread takes if scripts and callbacks terminate.
Continue(t) ==
    \/ Start(t) \/ LockAndExecute(t) \/ ReturnAndUnlock(t) \/ Stop(t) \/ Leave(t)
    \/ Drop(t) \/ ReturnFromCallback(t) \/ Relock(t) \/ Undrop(t)

AllOut == made = MaxCalls /\ \A t \in Threads : calls[t] = <<>>

Next ==
    \/ \E t \in Threads :
          \/ \E c \in Contexts : Enter(t, c)
          \/ CallOut(t)
          \/ Continue(t)
    \/ AllOut /\ UNCHANGED vars

Spec == Init /\ [][Next]_vars

\* The scheduler runs every thread, and scripts and callbacks terminate.  The
\* mutex need not be fair: only so many calls can overtake a thread.
FairSpec == Spec /\ \A t \in Threads : WF_vars(Continue(t))

-----------------------------------------------------------------------------
(***************************************************************************)
(* Properties.                                                             *)
(***************************************************************************)
\* The threads that execute in the shared context.
Executing == {t \in Threads : pc[t] \in {"script", "dropping"} /\ Context(t) = "shared"}

\* A thread that executes in the shared context owns the mutex, so no two do.
ExecutingOwnsMutex == \A t \in Executing : mutex = t

\* Entries of t that have a frame in the shared register file.
Framed(t) == {i \in DOMAIN calls[t] :
                /\ calls[t][i].kind = "entry"
                /\ calls[t][i].context = "shared"
                /\ i = Len(calls[t]) => pc[t] \notin {"starting", "locking", "leaving", "stopping"}}

\* The JS stack is not corrupted: the frames of all threads stay where they were
\* put until their calls return, and who executes has the topmost frame.
StackIntact ==
    /\ \A t \in Threads : \A i \in Framed(t) :
          LET oldEnd == calls[t][i].oldEnd
          IN  oldEnd < Len(frames) /\ frames[oldEnd + 1] = t
    /\ \A t \in Executing : pc[t] = "script" => Last(frames) = t

\* Only two threads use the shared context concurrently.
AtMostTwoThreads == Cardinality({t \in Threads : Framed(t) # {}}) <= 2

\* A script runs with the identifier table of its context, however entries and
\* callbacks of different contexts are nested.
TableFollowsContext ==
    \A t \in Threads : pc[t] \in {"locking", "script"} => table[t] = Context(t)

\* Every call into the API returns, though threads wait for the lock inside of
\* callbacks that hold on to it.
EveryCallReturns == \A t \in Threads : calls[t] # <<>> ~> calls[t] = <<>>
=============================================================================
