------------------------------- MODULE Startup -------------------------------
(***************************************************************************)
(* start() of go/session.go: the interpreter is launched, its startup      *)
(* output and, where there is one, the bootstrap statement are waited for, *)
(* while acceptControl listens on the loopback port for the runtime to     *)
(* dial back.  Any other process may connect to that port as well: it can  *)
(* send a wrong token or nothing at all.  The interpreter may hang, die or *)
(* fail to dial.  What happens once start has returned is ControlChannel.  *)
(***************************************************************************)
EXTENDS Naturals

CONSTANTS
    Strays,     \* connections of other processes
    Runtime,    \* the connection of the runtime
    None

StartupAssumption == Runtime \notin Strays /\ None \notin Strays \cup {Runtime}

Conns == Strays \cup {Runtime}

VARIABLES
    lang,       \* of the session; runtime.py is loaded by the launch itself
    proc,       \* the interpreter: off, up or gone
    state,      \* of start
    boot,       \* sentinels the interpreter has printed
    dial,       \* how the runtime stands with the port: no, dialled, spoken, failed
    ln,         \* the listener is open
    late,       \* the deadline of acceptControl has passed
    conn,       \* connections: none, backlog, reading, won, closed
    says,       \* what a connection has sent: nothing, token or wrong
    acc,        \* acceptControl: off, accept, select, got, nil
    won,        \* the winner's channel
    control     \* s.control and s.controlConn

acceptVars == <<ln, late, conn, says, acc, won, control>>
startVars == <<lang, state, boot, dial, acceptVars>>
vars == <<proc, startVars>>

Waiting == {"launched", "loading"}      \* in executeRaw

TypeOK ==
    /\ lang \in {"julia", "python", "R"}
    /\ proc \in {"off", "up", "gone"}
    /\ state \in Waiting \cup {"off", "handshake", "kill", "started", "failed"}
    /\ boot \in 0 .. 2
    /\ dial \in {"no", "dialled", "spoken", "failed"}
    /\ ln \in BOOLEAN /\ late \in BOOLEAN
    /\ conn \in [Conns -> {"none", "backlog", "reading", "won", "closed"}]
    /\ says \in [Conns -> {"nothing", "token", "wrong"}]
    /\ acc \in {"off", "accept", "select", "got", "nil"}
    /\ won \in Conns \cup {None} /\ control \in Conns \cup {None}

Init ==
    /\ lang \in {"julia", "python", "R"}
    /\ proc = "off" /\ state = "off" /\ boot = 0 /\ dial = "no"
    /\ ln = FALSE /\ late = FALSE
    /\ conn = [c \in Conns |-> "none"] /\ says = [c \in Conns |-> "nothing"]
    /\ acc = "off" /\ won = None /\ control = None

Set(c, st) == conn' = [conn EXCEPT ![c] = st]

-----------------------------------------------------------------------------
(* start.                                                                  *)

\* net.Listen, cmd.Start, and the goroutine that runs acceptControl.
Launch ==
    /\ state = "off"
    /\ state' = "launched" /\ proc' = "up" /\ ln' = TRUE /\ acc' = "accept"
    /\ UNCHANGED <<lang, boot, dial, late, conn, says, won, control>>

\* executeRaw ends with a sentinel.  Python has no bootstrap statement.
PhaseDone ==
    /\ \/ /\ state = "launched" /\ boot >= 1
          /\ state' = IF lang = "python" THEN "handshake" ELSE "loading"
       \/ /\ state = "loading" /\ boot = 2 /\ state' = "handshake"
    /\ UNCHANGED <<lang, proc, boot, dial, acceptVars>>

\* Its time is up and the interpreter is killed, or its output has ended.
PhaseFails ==
    /\ state \in Waiting
    /\ state' = "kill" /\ proc' = "gone"
    /\ UNCHANGED <<lang, boot, dial, acceptVars>>

\* <-controlReady: without a control connection the start has failed.
Handshake ==
    /\ state = "handshake" /\ acc \in {"got", "nil"}
    /\ state' = IF control = None THEN "kill" ELSE "started"
    /\ ln' = FALSE
    /\ UNCHANGED <<lang, proc, boot, dial, late, conn, says, acc, won, control>>

\* kill, with closeResources, then the deferred ln.Close.
Kill ==
    /\ state = "kill"
    /\ state' = "failed" /\ proc' = "gone" /\ ln' = FALSE
    /\ conn' = IF control = None THEN conn ELSE [conn EXCEPT ![control] = "closed"]
    /\ UNCHANGED <<lang, boot, dial, late, says, acc, won, control>>

-----------------------------------------------------------------------------
(* acceptControl.  A call of Accept fails once the deadline has passed or  *)
(* the listener is closed; after its end the deadline is of no account.    *)

Deadline ==
    /\ acc \in {"accept", "select"} /\ ~late
    /\ late' = TRUE
    /\ UNCHANGED <<lang, proc, state, boot, dial, ln, conn, says, acc, won, control>>

Accept(c) ==
    /\ acc = "accept" /\ ln /\ ~late /\ conn[c] = "backlog"
    /\ Set(c, "reading") /\ acc' = "select"
    /\ UNCHANGED <<lang, proc, state, boot, dial, ln, late, says, won, control>>

\* What both selects on the winner's channel do; l is where there is no winner.
Take(l) ==
    /\ \/ won # None /\ control' = won /\ won' = None /\ acc' = "got"
       \/ won = None /\ acc' = l /\ UNCHANGED <<control, won>>
    /\ UNCHANGED <<lang, proc, state, boot, dial, ln, late, conn, says>>

\* Fault: the loop ends after the first connection.
SelectOnce == acc = "select" /\ Take("nil")

Select == acc = "select" /\ Take("accept")

\* Fault: the listener gets no deadline.
AcceptForever == acc = "accept" /\ ~ln /\ Take("nil")

AcceptFails == acc = "accept" /\ (~ln \/ late) /\ Take("nil")

\* Fault: the token is not compared.
AuthedByAny(c) ==
    /\ conn[c] = "reading"
    /\ \/ says[c] # "nothing" /\ won = None /\ won' = c /\ Set(c, "won")
       \/ says[c] = "nothing" /\ Set(c, "closed") /\ UNCHANGED won
    /\ UNCHANGED <<lang, proc, state, boot, dial, ln, late, says, acc, control>>

\* The goroutine of a connection: the token goes into the channel if that is
\* empty; anything else, and silence for 2 s, closes the connection.
Authed(c) ==
    /\ conn[c] = "reading"
    /\ \/ says[c] = "token" /\ won = None /\ won' = c /\ Set(c, "won")
       \/ (says[c] # "token" \/ won # None) /\ Set(c, "closed") /\ UNCHANGED won
    /\ UNCHANGED <<lang, proc, state, boot, dial, ln, late, says, acc, control>>

\* ... and the winner closes the listener.
CloseListener ==
    /\ ln /\ \E c \in Conns : conn[c] = "won"
    /\ ln' = FALSE
    /\ UNCHANGED <<lang, proc, state, boot, dial, late, conn, says, acc, won, control>>

-----------------------------------------------------------------------------
(* The interpreter, its runtime, and other processes.                      *)

\* The runtime is loaded by the launch of Python, by the bootstrap statement of
\* the others.
Loaded == IF lang = "python" THEN state # "off" ELSE state = "loading"

Dial ==
    /\ proc = "up" /\ Loaded /\ dial = "no"
    /\ \/ ln /\ Set(Runtime, "backlog") /\ dial' = "dialled"
       \/ dial' = "failed" /\ UNCHANGED conn
    /\ UNCHANGED <<lang, proc, state, boot, ln, late, says, acc, won, control>>

Speak ==
    /\ proc = "up" /\ dial = "dialled"
    /\ dial' = "spoken" /\ says' = [says EXCEPT ![Runtime] = "token"]
    /\ UNCHANGED <<lang, proc, state, boot, ln, late, conn, acc, won, control>>

\* A sentinel comes after whatever the interpreter was told before it.
Sentinel ==
    /\ proc = "up"
    /\ \/ state = "launched" /\ boot = 0 /\ (lang = "python" => dial \in {"spoken", "failed"})
       \/ state = "loading" /\ boot = 1 /\ dial \in {"spoken", "failed"}
    /\ boot' = boot + 1
    /\ UNCHANGED <<lang, proc, state, dial, acceptVars>>

Connect(s) ==
    /\ ln /\ conn[s] = "none" /\ Set(s, "backlog")
    /\ \E w \in {"nothing", "wrong"} : says' = [says EXCEPT ![s] = w]
    /\ UNCHANGED <<lang, proc, state, boot, dial, ln, late, acc, won, control>>

-----------------------------------------------------------------------------
StartStep == PhaseDone \/ PhaseFails \/ Handshake \/ Kill
AcceptStep == (\E c \in Conns : Accept(c)) \/ Select \/ AcceptFails

Next ==
    \/ Launch \/ StartStep
    \/ AcceptStep \/ Deadline \/ CloseListener
    \/ \E c \in Conns : Authed(c)
    \/ Dial \/ Speak \/ Sentinel
    \/ \E s \in Strays : Connect(s)

Spec == Init /\ [][Next]_vars

\* The goroutines of the daemon and the timers go on; the interpreter need not.
Fairness ==
    /\ WF_vars(StartStep) /\ WF_vars(AcceptStep) /\ WF_vars(Deadline)
    /\ WF_vars(CloseListener) /\ \A c \in Conns : WF_vars(Authed(c))

-----------------------------------------------------------------------------
(* Properties.                                                             *)

\* A session that has started talks to its own runtime, over a connection that is
\* open, whoever else has connected to the port (session.go:204).
ControlIsRuntime ==
    state = "started" => control = Runtime /\ says[Runtime] = "token" /\ conn[Runtime] = "won"

\* Strays cannot make the handshake fail: acceptControl gives up only at its
\* deadline, or when start has failed before and closes the listener
\* (session.go:204-206).
GivesUpLate == acc = "nil" => late \/ state = "failed"

\* start comes to an end, with a session or an error, whatever the interpreter and
\* the strays do.
StartEnds == state \in Waiting ~> state \in {"started", "failed"}
=============================================================================
