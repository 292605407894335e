----------------------------- MODULE JSCDebugger ----------------------------
(***************************************************************************)
(* The remote debugger: the frames it keeps beside the stack of the        *)
(* interpreter, when it pauses, and the session in which a client steps,   *)
(* evaluates and continues.                                                *)
(*                                                                         *)
(* The interpreter calls the debugger from code that was compiled with     *)
(* hooks, that is after the debugger was attached, and, whatever the code, *)
(* when an exception is thrown and for each frame the exception unwinds.   *)
(***************************************************************************)
EXTENDS Integers, FiniteSets, Sequences, SequencesExt

CONSTANTS
    Frames,   \* addresses of JavaScriptCallFrame objects; their number is a bound
    Lines,    \* the lines of a script
    Null,     \* the null pointer
    Running,  \* pause, while there is none
    MaxDepth  \* bounds the stack of the interpreter

ASSUME DebuggerAssumption ==
    /\ IsFiniteSet(Frames) /\ Null \notin Frames
    /\ MaxDepth \in Nat \ {0}

Code == [kind : {"function", "program"}, hooked : BOOLEAN]
Pauses == [depth : 1..MaxDepth, finishing : BOOLEAN, shown : 1..MaxDepth]
ASSUME RunningAssumption == Running \notin Pauses

VARIABLES
    stack,                \* the frames of the interpreter, the running one last
    throwing,             \* the depths of frames that propagate an exception
    chain,                \* m_currentCallFrame, last, and its callers
    pauseOnNextStatement, \* m_pauseOnNextStatement
    pauseOnCallFrame,     \* m_pauseOnCallFrame, a raw pointer
    pause,                \* m_paused, the frame that m_currentCallFrame shows then, and
                          \* what goes on when the session ends
    client,               \* a client is connected
    shouldExit,           \* shouldExit of simple_debug.rl, which is static
    breakpoints,          \* m_sourceIdToBreakpoints of the script
    wild,                 \* m_pauseOnCallFrame was never assigned
    step                  \* the depth at which a step over has to stop, or 0

vars == <<stack, throwing, chain, pauseOnNextStatement, pauseOnCallFrame, pause,
          client, shouldExit, breakpoints, wild, step>>
targetVars == <<pauseOnCallFrame, wild, step>>
debuggerVars == <<chain, pauseOnNextStatement, pause, targetVars>>
sessionVars == <<client, shouldExit, breakpoints>>

IsPaused == pause # Running
(* JavaScript runs, or the session evaluates an expression while paused. *)
Executing == IF IsPaused THEN Len(stack) > pause.depth ELSE TRUE
Depth == Len(stack)
Top == Last(stack)
Throwing == Depth \in throwing
HookedDepths == {d \in DOMAIN stack : stack[d].hooked}

TypeOK ==
    /\ stack \in BoundedSeq(Code, MaxDepth)
    /\ throwing \subseteq DOMAIN stack
    /\ {pauseOnNextStatement, client, shouldExit, wild} \subseteq BOOLEAN
    /\ chain \in BoundedSeq(Frames, Cardinality(Frames)) /\ IsInjective(chain)
    /\ pauseOnCallFrame \in Frames \cup {Null}
    /\ pause \in Pauses \cup {Running}
    /\ IsPaused => chain # <<>> /\ pause.depth <= Depth
    /\ client => IsPaused
    /\ breakpoints \subseteq Lines
    /\ step \in {0} \cup HookedDepths

(* The debugger may be attached while JavaScript runs, and leaves           *)
(* m_pauseOnCallFrame uninitialized.                                        *)
Init ==
    /\ stack \in {<<>>} \cup {<<[kind |-> k, hooked |-> FALSE]>> : k \in {"function", "program"}}
    /\ throwing = {}
    /\ chain = <<>>
    /\ pauseOnNextStatement = FALSE
    /\ pauseOnCallFrame \in Frames \cup {Null}
    /\ pause = Running
    /\ client = FALSE
    /\ shouldExit = FALSE
    /\ breakpoints = {}
    /\ wild = TRUE
    /\ step = 0

-----------------------------------------------------------------------------
(***************************************************************************)
(* The frames of the debugger and the decision to pause.                   *)
(***************************************************************************)
Caller(c) == IF Len(c) > 1 THEN c[Len(c) - 1] ELSE Null

PauseNow(c, next, l) ==
    ~IsPaused /\ c # <<>> /\ (next \/ pauseOnCallFrame = Last(c) \/ l \in breakpoints)

(* pauseIfNeeded, for the frames c and the value next of                    *)
(* m_pauseOnNextStatement that the event has assigned before.               *)
Pause(c, finishing) ==
    /\ chain' = c
    /\ pauseOnCallFrame' = Null
    /\ pauseOnNextStatement' = FALSE
    /\ pause' = [depth |-> Len(stack'), finishing |-> finishing, shown |-> Len(stack')]
    /\ wild' = FALSE
    /\ step' = 0

(* What a frame shows is modelled for the last one, and while the debugger  *)
(* is paused: nobody looks at it before.                                    *)
PauseIfNeeded(c, next, l) ==
    IF PauseNow(c, next, l)
    THEN Pause(c, FALSE)
    ELSE /\ chain' = c
         /\ pauseOnNextStatement' = next
         /\ pause' = IF IsPaused THEN [pause EXCEPT !.shown = Len(stack')] ELSE pause
         /\ UNCHANGED targetVars

CreateCallFrame(l) ==
    \E a \in Frames \ ToSet(chain) : PauseIfNeeded(Append(chain, a), pauseOnNextStatement, l)

(* updateCallFrameAndPauseIfNeeded *)
UpdateCallFrame(next, l) == PauseIfNeeded(chain, next, l)

(* Mutant: the calls of an evaluation create frames too. *)
CallEventAlways(l) == CreateCallFrame(l)

(* callEvent and willExecuteProgram: the calls of an evaluation create no   *)
(* frames.                                                                  *)
CallEvent(l) == IF IsPaused THEN UNCHANGED debuggerVars ELSE CreateCallFrame(l)

(* The depth a step over stops at when the frame at depth d returns.       *)
StepBelow(d) ==
    LET below == {e \in HookedDepths : e < d}
    IN  IF step # d THEN step ELSE IF below = {} THEN 0 ELSE Max(below)

(* Mutant: forgets that the frame to pause on has gone. *)
LeaveCallFrameOnly ==
    /\ chain' = IF chain = <<>> THEN chain ELSE Front(chain)
    /\ pauseOnCallFrame' = pauseOnCallFrame
    /\ step' = IF Top.hooked THEN StepBelow(Depth) ELSE 0
    /\ stack' = Front(stack)
    /\ UNCHANGED wild

(* The end of returnEvent, and of the frame. *)
LeaveCallFrame ==
    /\ chain' = IF chain = <<>> THEN chain ELSE Front(chain)
    /\ pauseOnCallFrame' = IF chain # <<>> /\ pauseOnCallFrame = Last(chain)
                           THEN Caller(chain) ELSE pauseOnCallFrame
    /\ step' = IF Top.hooked THEN StepBelow(Depth) ELSE 0
    /\ stack' = Front(stack)
    /\ UNCHANGED wild

ReturnEvent(l) ==
    \/ /\ IsPaused
       /\ stack' = Front(stack)
       /\ UNCHANGED debuggerVars
    \/ /\ ~IsPaused /\ PauseNow(chain, pauseOnNextStatement, l)
       /\ UNCHANGED stack
       /\ Pause(chain, TRUE)
    \/ /\ ~IsPaused /\ ~PauseNow(chain, pauseOnNextStatement, l)
       /\ LeaveCallFrame
       /\ UNCHANGED <<pauseOnNextStatement, pause>>

-----------------------------------------------------------------------------
(***************************************************************************)
(* What the interpreter does, with the events it sends.                    *)
(***************************************************************************)
(* A function is called.  Without hooks it sends no events. *)
Call(hooked, l) ==
    /\ Executing /\ ~Throwing /\ Depth < MaxDepth
    /\ stack' = Append(stack, [kind |-> "function", hooked |-> hooked])
    /\ IF hooked THEN CallEvent(l) ELSE UNCHANGED debuggerVars
    /\ UNCHANGED <<throwing, sessionVars>>

(* A program or an eval is compiled, with hooks, and begins. *)
WillExecuteProgram(l) ==
    /\ Executing /\ ~Throwing /\ Depth < MaxDepth
    /\ stack' = Append(stack, [kind |-> "program", hooked |-> TRUE])
    /\ CallEvent(l)
    /\ UNCHANGED <<throwing, sessionVars>>

(* Mutant: the statements of an evaluation are shown instead of the pause. *)
AtStatementAlways(l) ==
    /\ Executing /\ ~Throwing /\ stack # <<>> /\ Top.hooked
    /\ UNCHANGED <<stack, throwing, sessionVars>>
    /\ UpdateCallFrame(pauseOnNextStatement, l)

AtStatement(l) ==
    /\ Executing /\ ~Throwing /\ stack # <<>> /\ Top.hooked
    /\ UNCHANGED <<stack, throwing, sessionVars>>
    /\ IF IsPaused THEN UNCHANGED debuggerVars ELSE UpdateCallFrame(pauseOnNextStatement, l)

(* A debugger statement. *)
DidReachBreakpoint(l) ==
    /\ Executing /\ ~Throwing /\ stack # <<>> /\ Top.hooked
    /\ UNCHANGED <<stack, throwing, sessionVars>>
    /\ IF IsPaused THEN UNCHANGED debuggerVars ELSE UpdateCallFrame(TRUE, l)

Return(l) ==
    /\ Executing /\ ~Throwing /\ stack # <<>> /\ Top.kind = "function"
    /\ IF Top.hooked
       THEN ReturnEvent(l)
       ELSE stack' = Front(stack) /\ UNCHANGED debuggerVars
    /\ UNCHANGED <<throwing, sessionVars>>

(* didExecuteProgram leaves the frame of the program where it is. *)
DidExecuteProgram ==
    /\ stack' = Front(stack)
    /\ step' = IF IsPaused THEN step ELSE 0
    /\ UNCHANGED <<chain, pauseOnNextStatement, pause, pauseOnCallFrame, wild>>

EndProgram ==
    /\ Executing /\ ~Throwing /\ stack # <<>> /\ Top.kind = "program"
    /\ DidExecuteProgram
    /\ UNCHANGED <<throwing, sessionVars>>

(* Where an exception is once the frame has gone: one that leaves an       *)
(* evaluation, or the outermost frame, ends there.                         *)
Propagated ==
    LET base == IF IsPaused /\ Depth > pause.depth THEN pause.depth ELSE 0
    IN  (throwing \ {Depth}) \cup {d \in {Depth - 1} : Throwing /\ d > base}

(* Mutant: an exception of an evaluation pauses the program that goes on. *)
ThrowAlways(l) ==
    /\ Executing /\ stack # <<>>
    /\ throwing' = throwing \cup {Depth}
    /\ UNCHANGED <<stack, sessionVars>>
    /\ UpdateCallFrame(TRUE, l)

(* Interpreter::throwException tells the debugger, whatever the code, and  *)
(* again when the exception leaves a native function.                      *)
Throw(l) ==
    /\ Executing /\ stack # <<>>
    /\ throwing' = throwing \cup {Depth}
    /\ UNCHANGED <<stack, sessionVars>>
    /\ IF IsPaused THEN UNCHANGED debuggerVars ELSE UpdateCallFrame(TRUE, l)

(* Interpreter::unwindCallFrame tells it too. *)
Unwind(l) ==
    /\ Executing /\ Throwing
    /\ IF Top.kind = "function" THEN ReturnEvent(l) ELSE DidExecuteProgram
    /\ throwing' = IF Len(stack') = Depth THEN throwing ELSE Propagated
    /\ UNCHANGED sessionVars

Catch ==
    /\ Executing /\ Throwing
    /\ throwing' = throwing \ {Depth}
    /\ UNCHANGED <<stack, debuggerVars, sessionVars>>

(* The application sets a breakpoint; the line is an uninitialized field of *)
(* ScriptBreakpoint, and not the line that was asked for.                   *)
SetBreakpoint(l) ==
    /\ Executing
    /\ breakpoints' = breakpoints \cup {l}
    /\ UNCHANGED <<stack, throwing, debuggerVars, client, shouldExit>>

-----------------------------------------------------------------------------
(***************************************************************************)
(* The session: SimpleTCPServer::start and parseInput.                     *)
(***************************************************************************)
InSession == IsPaused /\ ~Executing

(* Mutant: the connection outlives the session. *)
ResumeConnected ==
    /\ pause' = Running
    /\ client' = client
    /\ IF pause.finishing
       THEN LeaveCallFrame /\ throwing' = Propagated
       ELSE UNCHANGED <<stack, throwing, chain, targetVars>>

(* start returns, pauseIfNeeded and the event that called it end. *)
Resume ==
    /\ pause' = Running
    /\ client' = FALSE
    /\ IF pause.finishing
       THEN LeaveCallFrame /\ throwing' = Propagated
       ELSE UNCHANGED <<stack, throwing, chain, targetVars>>

(* After one "continue" the loop of parseInput is never entered again. *)
Accept ==
    /\ InSession /\ ~client
    /\ IF shouldExit
       THEN Resume
       ELSE client' = TRUE /\ UNCHANGED <<stack, throwing, chain, pause, targetVars>>
    /\ UNCHANGED <<pauseOnNextStatement, shouldExit, breakpoints>>

(* Mutant: steps out of the frame. *)
StepOverToCaller ==
    /\ InSession /\ client
    /\ pauseOnCallFrame' = Caller(chain)
    /\ step' = IF Top.hooked /\ Len(chain) >= Cardinality(HookedDepths) THEN Depth ELSE 0
    /\ UNCHANGED <<stack, throwing, chain, pauseOnNextStatement, pause, wild, sessionVars>>

(* The step is a promise only while the chain has a frame for each hooked  *)
(* frame of the stack.                                                     *)
StepOver ==
    /\ InSession /\ client
    /\ pauseOnCallFrame' = Last(chain)
    /\ step' = IF Top.hooked /\ Len(chain) >= Cardinality(HookedDepths) THEN Depth ELSE 0
    /\ UNCHANGED <<stack, throwing, chain, pauseOnNextStatement, pause, wild, sessionVars>>

Continue ==
    /\ InSession /\ client
    /\ pauseOnNextStatement' = FALSE
    /\ shouldExit' = TRUE
    /\ Resume
    /\ UNCHANGED breakpoints

HangUp ==
    /\ InSession /\ client
    /\ Resume
    /\ UNCHANGED <<pauseOnNextStatement, shouldExit, breakpoints>>

(* A command that is not understood ends the connection, not the pause. *)
BadCommand ==
    /\ InSession /\ client
    /\ client' = FALSE
    /\ UNCHANGED <<stack, throwing, debuggerVars, shouldExit, breakpoints>>

(* evaluateInCurrentFrame runs an eval whose events find m_paused set. *)
Evaluate ==
    /\ InSession /\ client /\ Depth < MaxDepth
    /\ stack' = Append(stack, [kind |-> "program", hooked |-> TRUE])
    /\ UNCHANGED <<throwing, debuggerVars, sessionVars>>

Session == Accept \/ StepOver \/ Continue \/ HangUp \/ BadCommand \/ Evaluate

Script ==
    \/ EndProgram
    \/ Catch
    \/ \E l \in Lines :
         \/ \E hooked \in BOOLEAN : Call(hooked, l)
         \/ WillExecuteProgram(l)
         \/ AtStatement(l)
         \/ DidReachBreakpoint(l)
         \/ Return(l)
         \/ Throw(l)
         \/ Unwind(l)
         \/ SetBreakpoint(l)

Next == Script \/ Session

Spec == Init /\ [][Next]_vars

-----------------------------------------------------------------------------
(***************************************************************************)
(* Properties.                                                             *)
(***************************************************************************)
(* m_pauseOnCallFrame is a raw pointer to a reference-counted frame.  Once  *)
(* a pause has assigned it, it is null or a frame of the chain, never one   *)
(* that was destroyed and whose address a new frame may have: the returns   *)
(* that destroy frames move it to the caller in time (returnEvent), also    *)
(* when the chain lost its relation to the stack.                           *)
PauseTargetLive == wild \/ pauseOnCallFrame \in ToSet(chain) \cup {Null}

(* A step over a statement stops at the next statement of the same frame,   *)
(* or of the frame it returns to, and in between at breakpoints only,       *)
(* whatever is called, thrown and evaluated; unless a program ends or an    *)
(* exception unwinds code without hooks, for which no frame is popped or    *)
(* the wrong one.                                                           *)
StepOverStops ==
    step # 0 /\ ~IsPaused /\ stack # <<>> => \A l \in Lines :
        Top.hooked => (PauseNow(chain, pauseOnNextStatement, l)
                         <=> Depth <= step \/ l \in breakpoints \/ pauseOnNextStatement)

(* While an evaluation calls, returns, throws and reaches debugger          *)
(* statements, m_paused guards the pause that it runs in: the events open   *)
(* no pause in the pause and do not end it, they change neither the frames  *)
(* of the debugger and what the current one shows, in which the next        *)
(* evaluation runs, nor m_pauseOnCallFrame, m_pauseOnNextStatement and the  *)
(* client, and no frame of the stack below the evaluation.  Only the        *)
(* session ends the pause, and it does nothing else to the frames before.   *)
EvaluationIsolated ==
    [][ IsPaused =>
          \/ InSession /\ pause' = Running
          \/ /\ UNCHANGED <<pause, chain>>
             /\ SubSeq(stack', 1, pause.depth) = SubSeq(stack, 1, pause.depth)
             /\ Executing => UNCHANGED <<pauseOnNextStatement, pauseOnCallFrame, client>> ]_vars
=============================================================================
