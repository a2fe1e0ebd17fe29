--------------------------- MODULE ControlSession ----------------------------
(***************************************************************************)
(* A session from its launch to its last eval: Startup, and ControlChannel *)
(* once start has returned a live session.  They share the language and    *)
(* the interpreter process.                                                *)
(***************************************************************************)
EXTENDS Naturals, Sequences

CONSTANTS Strays, Runtime, None, Evals, ChanCap, WireCap, Signals

VARIABLES
    lang, proc, state, boot, dial, ln, late, conn, says, acc, won, control,
    eval, pc, got, lines, reader, partial, wire, stage, outcome, sentinel,
    pending, checked, bytes, irq, sent, hit, torn, inflight

S == INSTANCE Startup
C == INSTANCE ControlChannel

ASSUME ControlAssumption == S!StartupAssumption /\ C!ChannelAssumption

startVars == <<state, boot, dial, ln, late, conn, says, acc, won, control>>
channelVars == <<eval, pc, got, lines, reader, partial, wire, stage, outcome, sentinel,
                 pending, checked, bytes, irq, sent, hit, torn, inflight>>
vars == <<lang, proc, startVars, channelVars>>

Init == S!Init /\ C!ChannelInit

\* start, and what is left of its goroutines after it has returned.
Start == S!Next /\ UNCHANGED channelVars

\* getOrCreate hands out a session only after start.
Use == state = "started" /\ C!Next /\ UNCHANGED startVars

Next == Start \/ Use

Spec == Init /\ [][Next]_vars

FairSpec == Spec /\ S!Fairness /\ C!Fairness

-----------------------------------------------------------------------------
(* Properties: those of the two parts, of their composition.               *)

\* Both parts keep their types.
TypeOK == S!TypeOK /\ C!TypeOK

\* See Startup: a started session talks to its own runtime.
ControlIsRuntime == S!ControlIsRuntime

\* See Startup: acceptControl gives up only at its deadline.
GivesUpLate == S!GivesUpLate

\* See ControlChannel: whose status an eval is given.
StatusIsOwn == C!StatusIsOwn

\* See ControlChannel: the status is what became of the code.
OutcomeReported == C!OutcomeReported

\* See ControlChannel: why an eval is told that it was aborted.
AbortHasCause == C!AbortHasCause

\* See Startup: start returns.
StartEnds == S!StartEnds

\* See ControlChannel: an eval returns once its code is over.
CodeOverEvalEnds == C!CodeOverEvalEnds

\* See ControlChannel; refuted (runtime.py:61).
InterruptsOnlyMidEval == C!InterruptsOnlyMidEval
=============================================================================
