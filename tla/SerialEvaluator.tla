-------------------------- MODULE SerialEvaluator --------------------------
(***************************************************************************)
(* What an interpreter session promises to those who call it, without      *)
(* saying how.  Calls take turns; in its turn a call is refused, or its    *)
(* code is given to the interpreter, once and when that has nothing else   *)
(* to do.  A call whose code was given is answered only when the           *)
(* interpreter has let go of it; one that is withdrawn or refused was      *)
(* never given.  Code may also just stop, and need not stop at all.        *)
(***************************************************************************)
CONSTANTS
    Calls,      \* evals asked of the session
    None        \* no call

VARIABLES
    phase,      \* of each call: new, queued, at its turn, given, over
    turn,       \* the call whose turn it is
    running,    \* the call whose code the interpreter has
    answer      \* what each call was told

evaluatorVars == <<phase, turn, running, answer>>

EvaluatorInit ==
    /\ phase = [c \in Calls |-> "new"]
    /\ turn = None
    /\ running = None
    /\ answer = [c \in Calls |-> "none"]

Becomes(c, from, to) == phase[c] = from /\ phase' = [phase EXCEPT ![c] = to]

Told(c, answers) == \E a \in answers : answer' = [answer EXCEPT ![c] = a]

Ask(c) ==
    /\ Becomes(c, "new", "queued")
    /\ UNCHANGED <<turn, running, answer>>

Withdraw(c) ==
    /\ Becomes(c, "queued", "over")
    /\ Told(c, {"cancelled"})
    /\ UNCHANGED <<turn, running>>

TakeTurn(c) ==
    /\ turn = None
    /\ Becomes(c, "queued", "turn")
    /\ turn' = c
    /\ UNCHANGED <<running, answer>>

Refuse(c) ==
    /\ Becomes(c, "turn", "over")
    /\ Told(c, {"died", "ioerror"})
    /\ UNCHANGED <<turn, running>>

Give(c) ==
    /\ running = None
    /\ Becomes(c, "turn", "given")
    /\ running' = c
    /\ UNCHANGED <<turn, answer>>

Stop ==
    /\ running # None
    /\ running' = None
    /\ UNCHANGED <<phase, turn, answer>>

Answer(c) ==
    /\ running = None
    /\ Becomes(c, "given", "over")
    /\ Told(c, {"ok", "error", "aborted", "died"})
    /\ UNCHANGED <<turn, running>>

Yield(c) ==
    /\ turn = c /\ phase[c] = "over"
    /\ turn' = None
    /\ UNCHANGED <<phase, running, answer>>

EvaluatorNext ==
    \/ \E c \in Calls :
        \/ Ask(c) \/ Withdraw(c) \/ TakeTurn(c) \/ Refuse(c)
        \/ Give(c) \/ Answer(c) \/ Yield(c)
    \/ Stop

EvaluatorSpec == EvaluatorInit /\ [][EvaluatorNext]_evaluatorVars
=============================================================================
