---------------------------- MODULE DaemonSocket ----------------------------
(***************************************************************************)
(* The life of daemons on one socket path: listenExclusive, pingDaemon and *)
(* serveDaemon (go/daemon.go), the clients that dial it, start a daemon    *)
(* when nobody answers and wait for the reply (connect, startDaemon and    *)
(* run in go/main.go), and the file the path names, which is what they     *)
(* share.  A daemon may crash at any moment and leave its file behind, a   *)
(* bind may fail though the path is free (an unwritable directory, a path  *)
(* too long), and a removal may fail, which no caller looks at.            *)
(* Taken as given: a daemon that listens answers a ping within a second.   *)
(***************************************************************************)
EXTENDS Naturals

CONSTANTS
    Daemons,    \* daemon processes
    Clients,    \* calls of the command line client
    Attempts,   \* how often listenExclusive tries: 3
    Dials,      \* how often connect dials: 15
    Junk,       \* a file at the path that no daemon of the model has made
    None

ASSUME SocketAssumption ==
    /\ None \notin Daemons \cup {Junk} /\ Junk \notin Daemons
    /\ Daemons \cap Clients = {}
    /\ Attempts \in Nat \ {0, 1} /\ Dials \in Nat \ {0}

VARIABLES
    file,       \* what the path names: the socket of a daemon, Junk or None
    open,       \* daemons whose socket is listening
    pc,         \* where each daemon is
    tries,      \* attempts a starting daemon has used up
    at,         \* where each client is
    kind,       \* what a client asks for
    dials,      \* dials a client has made
    peer,       \* the daemon at the other end of a ping's or a client's connection
    unseen,     \* history: daemons that did not listen when d last dialled
    rivals,     \* history: daemons that bound the path while d was starting
    troubled    \* history: starting daemons whose bind of a free path, or whose
                \* removal of a file, has failed

daemonVars == <<file, open, pc, tries>>
clientVars == <<at, kind, dials>>
historyVars == <<unseen, rivals, troubled>>
vars == <<file, open, pc, tries, at, kind, dials, peer, historyVars>>

Starting == {"bind", "dial", "ask", "stale"}
Ended == {"exists", "raced", "gone"}
Over == {"answered", "refused", "failed", "lost"}

TypeOK ==
    /\ file \in Daemons \cup {Junk, None}
    /\ open \in SUBSET Daemons
    /\ pc \in [Daemons -> Starting \cup Ended \cup
                  {"off", "listen", "serve", "unlink", "close", "kill"}]
    /\ tries \in [Daemons -> 0 .. Attempts - 1]
    /\ at \in [Clients -> Over \cup {"idle", "ping", "pinged", "dial", "queued", "accepted"}]
    /\ kind \in [Clients -> {"eval", "stop", "none"}]
    /\ dials \in [Clients -> 0 .. Dials]
    /\ peer \in [Daemons \cup Clients -> Daemons \cup {None}]
    /\ unseen \in [Daemons -> SUBSET Daemons]
    /\ rivals \in [Daemons -> SUBSET Daemons]
    /\ troubled \in SUBSET Daemons

Init ==
    /\ file \in {None, Junk} /\ open = {}
    /\ pc = [d \in Daemons |-> "off"]
    /\ tries = [d \in Daemons |-> 0]
    /\ at = [c \in Clients |-> "idle"]
    /\ kind = [c \in Clients |-> "none"]
    /\ dials = [c \in Clients |-> 0]
    /\ peer = [p \in Daemons \cup Clients |-> None]
    /\ unseen = [d \in Daemons |-> {}]
    /\ rivals = [d \in Daemons |-> {}]
    /\ troubled = {}

Goto(d, l) == pc' = [pc EXCEPT ![d] = l]
Move(c, l) == at' = [at EXCEPT ![c] = l]

\* The accept loop of d runs: until the listener is closed.
Serving(d) == d \in open /\ pc[d] \in {"serve", "unlink", "close"}

-----------------------------------------------------------------------------
(* listenExclusive.                                                        *)

\* `repld daemon`, by hand; a client does the same in StartDaemon.
RunDaemon(d) ==
    /\ pc[d] = "off"
    /\ Goto(d, "bind")
    /\ UNCHANGED <<file, open, tries, clientVars, peer, historyVars>>

\* net.Listen: bind makes the file; it fails when there is one, or for a reason of
\* its own, which is not told apart.  listen comes after it.
Bind(d) ==
    /\ pc[d] = "bind"
    /\ \/ /\ file = None
          /\ file' = d
          /\ tries' = [tries EXCEPT ![d] = 0]
          /\ rivals' = [e \in Daemons |-> IF e = d THEN {}
                                          ELSE IF pc[e] \in Starting THEN rivals[e] \cup {d}
                                          ELSE rivals[e]]
          /\ troubled' = troubled \ {d}
          /\ Goto(d, "listen")
       \/ /\ troubled' = IF file = None THEN troubled \cup {d} ELSE troubled
          /\ Goto(d, "dial")
          /\ UNCHANGED <<file, tries, rivals>>
    /\ UNCHANGED <<open, clientVars, peer, unseen>>

Listen(d) ==
    /\ pc[d] = "listen"
    /\ open' = open \cup {d}
    /\ Goto(d, "serve")
    /\ UNCHANGED <<file, tries, clientVars, peer, historyVars>>

\* pingDaemon dials: the connection waits in the queue of a listening socket.
PingDial(d) ==
    /\ pc[d] = "dial"
    /\ unseen' = [unseen EXCEPT ![d] = Daemons \ open]
    /\ \/ file \in open /\ peer' = [peer EXCEPT ![d] = file] /\ Goto(d, "ask")
       \/ file \notin open /\ Goto(d, "stale") /\ UNCHANGED peer
    /\ UNCHANGED <<file, open, tries, clientVars, rivals, troubled>>

\* Fault: the reply to the ping is not waited for.
PingHasty(d) ==
    /\ pc[d] = "ask"
    /\ \/ Serving(peer[d]) /\ Goto(d, "exists")
       \/ Goto(d, "stale")
    /\ peer' = [peer EXCEPT ![d] = None]
    /\ UNCHANGED <<file, open, tries, clientVars, historyVars>>

\* A pong, or the connection is reset because its listener has closed.
PingReply(d) ==
    /\ pc[d] = "ask"
    /\ \/ Serving(peer[d]) /\ Goto(d, "exists")
       \/ peer[d] \notin open /\ Goto(d, "stale")
    /\ peer' = [peer EXCEPT ![d] = None]
    /\ UNCHANGED <<file, open, tries, clientVars, historyVars>>

\* Fault: one attempt too few is left after a removal.
RemoveLate(d) ==
    /\ pc[d] = "stale"
    /\ \/ /\ tries[d] < Attempts - 1
          /\ tries' = [tries EXCEPT ![d] = @ + 1]
          /\ file' = IF tries[d] = Attempts - 2 THEN None ELSE file
          /\ Goto(d, IF tries[d] = Attempts - 2 THEN "raced" ELSE "bind")
       \/ tries[d] = Attempts - 1 /\ Goto(d, "raced") /\ UNCHANGED <<file, tries>>
    /\ UNCHANGED <<open, clientVars, peer, historyVars>>

\* os.Remove takes away whatever the path names by now, or fails, which nobody
\* looks at; the last attempt does not remove anything any more.
Remove(d) ==
    /\ pc[d] = "stale"
    /\ \/ /\ tries[d] < Attempts - 1
          /\ tries' = [tries EXCEPT ![d] = @ + 1]
          /\ Goto(d, "bind")
          /\ \/ file' = None /\ UNCHANGED troubled
             \/ file # None /\ troubled' = troubled \cup {d} /\ UNCHANGED file
       \/ /\ tries[d] = Attempts - 1
          /\ Goto(d, "raced")
          /\ UNCHANGED <<file, tries, troubled>>
    /\ UNCHANGED <<open, clientVars, peer, unseen, rivals>>

-----------------------------------------------------------------------------
(* serveDaemon.                                                            *)

\* The idle watchdog ends the service; a stop request does in Answer.
IdleStop(d) ==
    /\ pc[d] = "serve"
    /\ Goto(d, "unlink")
    /\ UNCHANGED <<file, open, tries, clientVars, peer, historyVars>>

\* ln.Close: Go unlinks the path of a Unix listener, whether that works or not,
\* then closes the socket.
Unlink(d) ==
    /\ pc[d] = "unlink"
    /\ file' \in {None, file}
    /\ Goto(d, "close")
    /\ UNCHANGED <<open, tries, clientVars, peer, historyVars>>

Close(d) ==
    /\ pc[d] = "close"
    /\ open' = open \ {d}
    /\ Goto(d, "kill")
    /\ UNCHANGED <<file, tries, clientVars, peer, historyVars>>

\* After manager.shutdown, which may take seconds for every session, os.Remove of
\* the path, by name, whether that works or not, and the process exits.
Sweep(d) ==
    /\ pc[d] = "kill"
    /\ file' \in {None, file}
    /\ Goto(d, "gone")
    /\ UNCHANGED <<open, tries, clientVars, peer, historyVars>>

\* The process ends without cleaning up.
Crash(d) ==
    /\ pc[d] \notin {"off"} \cup Ended
    /\ open' = open \ {d}
    /\ Goto(d, "gone")
    /\ UNCHANGED <<file, tries, clientVars, peer, historyVars>>

-----------------------------------------------------------------------------
(* Clients.  Only an eval starts a daemon; stop pings before it asks.      *)

Call(c, k) ==
    /\ at[c] = "idle"
    /\ kind' = [kind EXCEPT ![c] = k]
    /\ Move(c, IF k = "stop" THEN "ping" ELSE "dial")
    /\ UNCHANGED <<daemonVars, dials, peer, historyVars>>

StopPing(c) ==
    /\ at[c] = "ping"
    /\ \/ file \in open /\ peer' = [peer EXCEPT ![c] = file] /\ Move(c, "pinged")
       \/ file \notin open /\ Move(c, "refused") /\ UNCHANGED peer
    /\ UNCHANGED <<daemonVars, kind, dials, historyVars>>

StopPong(c) ==
    /\ at[c] = "pinged"
    /\ \/ Serving(peer[c]) /\ Move(c, "dial")
       \/ peer[c] \notin open /\ Move(c, "refused")
    /\ peer' = [peer EXCEPT ![c] = None]
    /\ UNCHANGED <<daemonVars, kind, dials, historyVars>>

Dial(c) ==
    /\ at[c] = "dial" /\ file \in open
    /\ peer' = [peer EXCEPT ![c] = file]
    /\ dials' = [dials EXCEPT ![c] = 0]
    /\ Move(c, "queued")
    /\ UNCHANGED <<daemonVars, kind, historyVars>>

\* The first failure starts a daemon (when the model has one left; without, the
\* launch has failed), the last one is the client's end.
StartDaemon ==
    \/ \E d \in Daemons : pc[d] = "off" /\ Goto(d, "bind")
    \/ (\A d \in Daemons : pc[d] # "off") /\ UNCHANGED pc

\* Fault: a client dials for as long as nobody answers.
DialAgain(c) ==
    /\ at[c] = "dial" /\ file \notin open
    /\ IF kind[c] # "eval" THEN Move(c, "refused") /\ UNCHANGED pc
       ELSE UNCHANGED at /\ IF dials[c] = 0 THEN StartDaemon ELSE UNCHANGED pc
    /\ dials' = [dials EXCEPT ![c] = IF @ = Dials THEN @ ELSE @ + 1]
    /\ UNCHANGED <<file, open, tries, kind, peer, historyVars>>

DialFails(c) ==
    /\ at[c] = "dial" /\ file \notin open
    /\ IF kind[c] # "eval" THEN Move(c, "refused") /\ UNCHANGED <<pc, dials>>
       ELSE /\ dials' = [dials EXCEPT ![c] = @ + 1]
            /\ IF dials[c] = 0 THEN StartDaemon ELSE UNCHANGED pc
            /\ IF dials[c] + 1 = Dials THEN Move(c, "failed") ELSE UNCHANGED at
    /\ UNCHANGED <<file, open, tries, kind, peer, historyVars>>

\* The accept loop hands the connection to a goroutine, or the listener closes
\* with the connection still in its queue.
Accept(c) ==
    /\ at[c] = "queued"
    /\ \/ Serving(peer[c]) /\ Move(c, "accepted")
       \/ peer[c] \notin open /\ Move(c, "lost")
    /\ UNCHANGED <<daemonVars, kind, dials, peer, historyVars>>

\* The handler answers while its process lives, also during the shutdown; a
\* stop request closes stopCh, once.
Answer(c) ==
    /\ at[c] = "accepted"
    /\ \/ /\ pc[peer[c]] \notin Ended
          /\ Move(c, "answered")
          /\ IF kind[c] = "stop" /\ pc[peer[c]] = "serve"
             THEN Goto(peer[c], "unlink") ELSE UNCHANGED pc
       \/ pc[peer[c]] \in Ended /\ Move(c, "lost") /\ UNCHANGED pc
    /\ UNCHANGED <<file, open, tries, kind, dials, peer, historyVars>>

-----------------------------------------------------------------------------
DaemonStep(d) ==
    \/ Bind(d) \/ Listen(d) \/ PingDial(d) \/ PingReply(d) \/ Remove(d)
    \/ Unlink(d) \/ Close(d) \/ Sweep(d)

ClientStep(c) == StopPing(c) \/ StopPong(c) \/ Dial(c) \/ DialFails(c) \/ Accept(c) \/ Answer(c)

Next ==
    \/ \E d \in Daemons : RunDaemon(d) \/ DaemonStep(d) \/ IdleStop(d) \/ Crash(d)
    \/ \E c \in Clients : (\E k \in {"eval", "stop"} : Call(c, k)) \/ ClientStep(c)

Spec == Init /\ [][Next]_vars

\* Processes that can go on do; nobody has to call, to start a daemon by hand,
\* to crash or to be idle.
Fairness ==
    /\ \A d \in Daemons : WF_vars(DaemonStep(d))
    /\ \A c \in Clients : WF_vars(ClientStep(c))

FairSpec == Spec /\ Fairness

-----------------------------------------------------------------------------
(* Properties.                                                             *)

\* listenExclusive takes the socket file of a listening daemon away only from
\* one that was not yet listening when it dialled: whoever could have been seen
\* by the ping keeps its file (daemon.go:281).
OnlyTheUnseenAreRobbed ==
    \A d \in Daemons : pc[d] = "stale" /\ file \in open => file \in unseen[d]

\* A daemon that gives up with "raced with another daemon" has met one that bound
\* the path while it was starting, unless its own bind of a free path or its own
\* removal has failed.  A stale socket alone, a file that is not a socket, or a
\* daemon that was on its way out never stops a daemon from starting (daemon.go:284).
RaceErrorIsTrue == \A d \in Daemons : pc[d] = "raced" => rivals[d] # {} \/ d \in troubled

\* A command or eval that has been called comes to its end: an answer, or an
\* error when nobody listens, the daemon exits, or the dials are used up.
CallEnds == \A c \in Clients : at[c] \in {"ping", "dial"} ~> at[c] \in Over

\* Refuted: daemon.go:274, listenExclusive "binds the socket without stealing a
\* live daemon's": a listening daemon's file leaves the path only by its own hand.
LiveSocketIsNotStolen ==
    [][\A e \in Daemons : file = e /\ e \in open /\ file' # e => pc[e] = "unlink"]_vars

\* Refuted: the message of daemon.go:289, "raced with another daemon", taken at its
\* word.  A directory that cannot be written to is told as a race, too.
RacedWithAnother == \A d \in Daemons : pc[d] = "raced" => rivals[d] # {}
=============================================================================
