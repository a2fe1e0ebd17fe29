--------------------------- MODULE SessionManager ---------------------------
(***************************************************************************)
(* The daemon's SessionManager (go/manager.go) together with the request   *)
(* handlers that drive it (go/daemon.go): every connection is a goroutine, *)
(* the owner-lease reaper and the shutdown path are two more, and all of   *)
(* them share the session map, the saved tracebacks and the singleflight   *)
(* group.  A step is one critical section of m.mu, or one call on a        *)
(* session whose effect other goroutines see (start, kill, an eval).       *)
(* A session is reduced to what the manager observes of it: whether its    *)
(* interpreter process runs and whether it has been marked dead.           *)
(***************************************************************************)
CONSTANTS
    Keys,       \* sessionKey values, taken to have distinct String() forms
    Sessions,   \* identities of *Session objects
    Requests,   \* connections; each carries one request
    Owners,     \* owner processes
    Jobs,       \* the requests clients send
    Reaper,     \* the goroutine of reapLoop
    Stopper,    \* the goroutine of serveDaemon, which shuts the manager down
    IdleTimeout, \* whether the listener may end without a stop
    None        \* nil

Evals == [op : {"eval"}, fresh : BOOLEAN, known : BOOLEAN, existing : BOOLEAN,
          owner : Owners \cup {None}]
Commands == [op : {"interrupt", "close", "free"}, byID : BOOLEAN]
                \cup [op : {"stop"}, byID : {FALSE}]
Threads == Requests \cup {Reaper, Stopper}

ASSUME IdentityAssumption ==
    /\ None \notin Sessions \cup Requests \cup Owners \cup Keys
    /\ Reaper \notin Requests /\ Stopper \notin Requests /\ Reaper # Stopper

\* The client asks for an existing session only when it could name neither a
\* language nor an interpreter, so the daemon knows no language for the request.
ASSUME JobsAssumption ==
    /\ Jobs \subseteq Evals \cup Commands
    /\ \A j \in Jobs : j.op = "eval" /\ j.existing => ~j.known

VARIABLES
    sessions,   \* m.sessions
    lastErrors, \* m.lastErrors: the session whose eval raised the saved error
    flight,     \* m.sf: for each key the request that leads its creation
    proc,       \* the interpreter process of a session: none, up or gone
    dead,       \* sessions whose dead flag is set
    home,       \* the key a session was started for (its log file, its cwd)
    named,      \* sessions that have been given an id and put into the map
    owner,      \* ownerPID of a session, None when pinned
    lostOwners, \* owner processes that have exited
    pc, key, sess,  \* where each goroutine is, its key, its session variable
    back,       \* where a goroutine goes on when kill has returned
    job,        \* the request a connection carries
    raised,     \* requests whose eval ended in an evalError
    doomed,     \* the reaper's list of keys to close
    victims,    \* shutdown's list of sessions to kill
    retired     \* history: sessions taken out of the map in order to be killed

sessionVars == <<proc, dead, home, named, owner>>
mapVars == <<sessions, lastErrors, retired>>
localVars == <<key, sess, back, job, raised>>
daemonVars == <<flight, lostOwners, doomed, victims>>
vars == <<sessions, lastErrors, flight, proc, dead, home, named, owner, lostOwners,
          pc, key, sess, back, job, raised, doomed, victims, retired>>

-----------------------------------------------------------------------------
Labels == {"idle", "restart", "get", "join", "follow", "lead", "evict", "start",
           "boot", "install", "land", "exec", "failed", "sweep", "record",
           "close", "free", "interrupt", "aim", "poll", "drop", "retire",
           "await", "done", "rest", "reap", "serving", "closing", "stopping",
           "exited"}

TypeOK ==
    /\ sessions \in [Keys -> Sessions \cup {None}]
    /\ lastErrors \in [Keys -> Sessions \cup {None}]
    /\ flight \in [Keys -> Requests \cup {None}]
    /\ proc \in [Sessions -> {"none", "up", "gone"}]
    /\ dead \in SUBSET Sessions
    /\ home \in [Sessions -> Keys \cup {None}]
    /\ named \in SUBSET Sessions
    /\ owner \in [Sessions -> Owners \cup {None}]
    /\ lostOwners \in SUBSET Owners
    /\ pc \in [Threads -> Labels]
    /\ key \in [Threads -> Keys \cup {None}]
    /\ sess \in [Threads -> Sessions \cup {None}]
    /\ back \in [Threads -> Labels \cup {None}]
    /\ job \in [Requests -> Jobs \cup {None}]
    /\ raised \in SUBSET Requests
    /\ doomed \in SUBSET Keys
    /\ victims \in SUBSET Sessions
    /\ retired \in SUBSET Sessions

Init ==
    /\ sessions = [k \in Keys |-> None]
    /\ lastErrors = [k \in Keys |-> None]
    /\ flight = [k \in Keys |-> None]
    /\ proc = [s \in Sessions |-> "none"]
    /\ dead = {}
    /\ home = [s \in Sessions |-> None]
    /\ named = {}
    /\ owner = [s \in Sessions |-> None]
    /\ lostOwners = {}
    /\ pc = [t \in Threads |-> IF t = Reaper THEN "rest"
                               ELSE IF t = Stopper THEN "serving" ELSE "idle"]
    /\ key = [t \in Threads |-> None]
    /\ sess = [t \in Threads |-> None]
    /\ back = [t \in Threads |-> None]
    /\ job = [r \in Requests |-> None]
    /\ raised = {}
    /\ doomed = {}
    /\ victims = {}
    /\ retired = {}

Goto(t, l) == pc' = [pc EXCEPT ![t] = l]
Hold(t, s) == sess' = [sess EXCEPT ![t] = s]

\* Call kill, to go on at l; not calling it leaves back alone.
Kill(t, l) == Goto(t, "retire") /\ back' = [back EXCEPT ![t] = l]
Skip(t, l) == Goto(t, l) /\ UNCHANGED back

\* isAlive on the session of a key, if it has one
Live(k) == sessions[k] # None /\ sessions[k] \notin dead
OwnerDead(s) == owner[s] \in lostOwners
-----------------------------------------------------------------------------
(* A connection delivers its request: handleConn and the first checks of   *)
(* handleStreamingEval, or the resolution of a command's target.  It may   *)
(* do so late, when the listener that accepted it is already closed.       *)

ArriveEval(r, j, k) ==
    /\ pc[r] = "idle"
    /\ j.op = "eval"
    /\ job' = [job EXCEPT ![r] = j]
    /\ key' = [key EXCEPT ![r] = k]
    /\ \/ j.existing /\ (j.fresh \/ ~Live(k)) /\ Goto(r, "done")
       \/ ~(j.existing /\ (j.fresh \/ ~Live(k)))
          /\ Goto(r, IF j.fresh THEN "restart" ELSE "get")
    /\ UNCHANGED <<mapVars, sessionVars, daemonVars, sess, back, raised>>

ArriveCommand(r, j, k) ==
    /\ pc[r] = "idle"
    /\ j.op \notin {"eval", "stop"} /\ ~j.byID
    /\ job' = [job EXCEPT ![r] = j]
    /\ key' = [key EXCEPT ![r] = k]
    /\ Goto(r, j.op)
    /\ UNCHANGED <<mapVars, sessionVars, daemonVars, sess, back, raised>>

\* targetKey with an id: the client has seen the id of s, and keyForID turns
\* it into the key that holds s now, or fails when no key does.
ArriveByID(r, j, s) ==
    /\ pc[r] = "idle"
    /\ j.op \notin {"eval", "stop"} /\ j.byID /\ s \in named
    /\ job' = [job EXCEPT ![r] = j]
    /\ \/ \E k \in Keys : /\ sessions[k] = s
                          /\ key' = [key EXCEPT ![r] = k]
                          /\ Goto(r, j.op)
       \/ /\ \A k \in Keys : sessions[k] # s
          /\ Goto(r, "done") /\ UNCHANGED key
    /\ UNCHANGED <<mapVars, sessionVars, daemonVars, sess, raised, back>>

\* stop closes stopCh, once; the listener is closed on it.
ArriveStop(r, j) ==
    /\ pc[r] = "idle"
    /\ j.op = "stop"
    /\ job' = [job EXCEPT ![r] = j]
    /\ pc' = [pc EXCEPT ![r] = "done",
                        ![Stopper] = IF @ = "serving" THEN "closing" ELSE @]
    /\ UNCHANGED <<mapVars, sessionVars, daemonVars, key, sess, back, raised>>

-----------------------------------------------------------------------------
(* Taking a session out of the map, and kill().                            *)

\* The critical section of restart and of close: forget the session and the
\* traceback saved under k, remember the session that has to be killed.
Detach(t, k) ==
    /\ Hold(t, sessions[k])
    /\ sessions' = [sessions EXCEPT ![k] = None]
    /\ lastErrors' = [lastErrors EXCEPT ![k] = None]
    /\ retired' = retired \cup ({sessions[k]} \ {None})

\* Fault: restart without the nil check kills a session that is not there.
RestartUnchecked(r) ==
    /\ pc[r] = "restart"
    /\ Detach(r, key[r])
    /\ Kill(r, "get")
    /\ UNCHANGED <<sessionVars, daemonVars, key, job, raised>>

\* Fault: restart forgets the session and leaves its interpreter running.
RestartWithoutKill(r) ==
    /\ pc[r] = "restart"
    /\ Detach(r, key[r])
    /\ Skip(r, "get")
    /\ UNCHANGED <<sessionVars, daemonVars, key, job, raised>>

Restart(r) ==
    /\ pc[r] = "restart"
    /\ Detach(r, key[r])
    /\ IF sessions[key[r]] = None THEN Skip(r, "get") ELSE Kill(r, "get")
    /\ UNCHANGED <<sessionVars, daemonVars, key, job, raised>>

Close(r) ==
    /\ pc[r] = "close"
    /\ Detach(r, key[r])
    /\ IF sessions[key[r]] = None THEN Skip(r, "done") ELSE Kill(r, "done")
    /\ UNCHANGED <<sessionVars, daemonVars, key, job, raised>>

\* kill: the dead flag first, then stdin is closed and the process is given
\* its graces before it is signalled; another goroutine may run in between.
Retire(t) ==
    /\ pc[t] = "retire"
    /\ dead' = dead \cup {sess[t]}
    /\ Goto(t, "await")
    /\ UNCHANGED <<mapVars, proc, home, named, owner, daemonVars, localVars>>

Await(t) ==
    /\ pc[t] = "await"
    /\ proc' = [proc EXCEPT ![sess[t]] = "gone"]
    /\ Goto(t, back[t])
    /\ Hold(t, IF back[t] = "evict" THEN sess[t] ELSE None)
    /\ back' = [back EXCEPT ![t] = None]
    /\ UNCHANGED <<mapVars, dead, home, named, owner, daemonVars, key, job, raised>>

-----------------------------------------------------------------------------
(* getOrCreate.                                                            *)

\* The fast path.  The dead flag is loaded just after the lookup; it is never
\* cleared, so folding both into one step loses no outcome.
Get(r) ==
    /\ pc[r] = "get"
    /\ \/ Live(key[r]) /\ Hold(r, sessions[key[r]]) /\ Goto(r, "exec")
       \/ ~Live(key[r]) /\ Goto(r, "join") /\ UNCHANGED sess
    /\ UNCHANGED <<mapVars, sessionVars, daemonVars, key, job, back, raised>>

\* Fault: no singleflight, everyone who finds no live session creates one.
JoinAlone(r) ==
    /\ pc[r] = "join"
    /\ flight' = [flight EXCEPT ![key[r]] = r]
    /\ Goto(r, "lead")
    /\ UNCHANGED <<mapVars, sessionVars, lostOwners, doomed, victims, localVars>>

\* sf.Do: lead the creation for the key, or wait for the one that does.
Join(r) ==
    /\ pc[r] = "join"
    /\ \/ /\ flight[key[r]] = None
          /\ flight' = [flight EXCEPT ![key[r]] = r]
          /\ Goto(r, "lead")
       \/ /\ flight[key[r]] # None
          /\ Goto(r, "follow") /\ UNCHANGED flight
    /\ UNCHANGED <<mapVars, sessionVars, lostOwners, doomed, victims, localVars>>

\* Fault: the leader does not check that the language is known.
LeadUnchecked(r) ==
    /\ pc[r] = "lead"
    /\ \/ Live(key[r]) /\ Hold(r, sessions[key[r]]) /\ Skip(r, "land")
       \/ /\ ~Live(key[r])
          /\ Hold(r, sessions[key[r]])
          /\ IF sessions[key[r]] = None THEN Skip(r, "start") ELSE Kill(r, "evict")
    /\ UNCHANGED <<mapVars, sessionVars, daemonVars, key, job, raised>>

\* The leader looks again, refuses an unknown language, and kills a session it
\* finds dead before it replaces it.
Lead(r) ==
    /\ pc[r] = "lead"
    /\ \/ Live(key[r]) /\ Hold(r, sessions[key[r]]) /\ Skip(r, "land")
       \/ ~Live(key[r]) /\ ~job[r].known /\ Skip(r, "land") /\ UNCHANGED sess
       \/ /\ ~Live(key[r]) /\ job[r].known
          /\ Hold(r, sessions[key[r]])
          /\ IF sessions[key[r]] = None THEN Skip(r, "start") ELSE Kill(r, "evict")
    /\ UNCHANGED <<mapVars, sessionVars, daemonVars, key, job, raised>>

Evict(r) ==
    /\ pc[r] = "evict"
    /\ sessions' = [sessions EXCEPT ![key[r]] = None]
    /\ Hold(r, None)
    /\ Goto(r, "start")
    /\ UNCHANGED <<lastErrors, retired, sessionVars, daemonVars, key, job, back, raised>>

\* newSession and the launch in start: the process runs, or could not be launched.
Start(r, s) ==
    /\ pc[r] = "start"
    /\ proc[s] = "none"
    /\ proc' = [proc EXCEPT ![s] = "up"]
    /\ home' = [home EXCEPT ![s] = key[r]]
    /\ Hold(r, s)
    /\ Goto(r, "boot")
    /\ UNCHANGED <<mapVars, dead, named, owner, daemonVars, key, job, back, raised>>

StartFails(r) ==
    /\ pc[r] = "start"
    /\ Goto(r, "land")
    /\ UNCHANGED <<mapVars, sessionVars, daemonVars, localVars>>

\* Fault: a failed start returns its error without killing the interpreter.
BootLeaks(r) ==
    /\ pc[r] = "boot"
    /\ \/ proc[sess[r]] = "up" /\ Skip(r, "install") /\ UNCHANGED sess
       \/ Skip(r, "land") /\ Hold(r, None)
    /\ UNCHANGED <<mapVars, sessionVars, daemonVars, key, job, raised>>

\* The rest of start: the runtime has loaded and dialled back, or start kills
\* the session (startup failed, timed out, no control connection).
Boot(r) ==
    /\ pc[r] = "boot"
    /\ \/ proc[sess[r]] = "up" /\ Skip(r, "install")
       \/ Kill(r, "land")
    /\ UNCHANGED <<mapVars, sessionVars, daemonVars, key, sess, job, raised>>

Install(r) ==
    /\ pc[r] = "install"
    /\ named' = named \cup {sess[r]}
    /\ owner' = [owner EXCEPT ![sess[r]] = job[r].owner]
    /\ sessions' = [sessions EXCEPT ![key[r]] = sess[r]]
    /\ Goto(r, "land")
    /\ UNCHANGED <<lastErrors, retired, proc, dead, home, daemonVars, localVars>>

\* sf.Do returns: the leader and everyone who waited get the same result, a
\* session or (None) the error.  Followers(k) are the requests that wait.

\* Fault: the flights of all keys are one.
FollowersOfAnyKey(k) == {q \in Requests : pc[q] = "follow"}

\* Fault: those who waited are not woken.
FollowersForgotten(k) == {}

Followers(k) == {q \in Requests : pc[q] = "follow" /\ key[q] = k}

Land(r) ==
    LET all == Followers(key[r]) \cup {r} IN
    /\ pc[r] = "land"
    /\ flight' = [flight EXCEPT ![key[r]] = None]
    /\ sess' = [t \in Threads |-> IF t \in all THEN sess[r] ELSE sess[t]]
    /\ pc' = [t \in Threads |-> IF t \notin all THEN pc[t]
                                ELSE IF sess[r] = None THEN "done" ELSE "exec"]
    /\ UNCHANGED <<mapVars, sessionVars, lostOwners, doomed, victims, key, job, back, raised>>

-----------------------------------------------------------------------------
(* execute, seen from the handler, and what the handler does with its end. *)

EvalReturns(r) ==
    /\ pc[r] = "exec" /\ proc[sess[r]] = "up"
    /\ \/ Goto(r, "done") /\ UNCHANGED raised
       \/ Goto(r, "failed") /\ raised' = raised \cup {r}
    /\ UNCHANGED <<mapVars, sessionVars, daemonVars, key, sess, job, back>>

\* Output ended before the sentinel, so the scan marked the session dead; or
\* the session was dead already, or its stdin refused the code.
EvalBreaks(r) ==
    /\ pc[r] = "exec"
    /\ \/ proc[sess[r]] = "gone" /\ dead' = dead \cup {sess[r]}
       \/ (sess[r] \in dead \/ proc[sess[r]] = "gone") /\ UNCHANGED dead
    /\ Goto(r, "failed")
    /\ UNCHANGED <<mapVars, proc, home, named, owner, daemonVars, localVars>>

\* The client left while its eval was queued behind another one.
EvalCancelled(r) ==
    /\ pc[r] = "exec"
    /\ Goto(r, "failed")
    /\ UNCHANGED <<mapVars, sessionVars, daemonVars, localVars>>

Failed(r) ==
    /\ pc[r] = "failed"
    /\ Goto(r, IF sess[r] \in dead THEN "sweep"
               ELSE IF r \in raised THEN "record" ELSE "done")
    /\ UNCHANGED <<mapVars, sessionVars, daemonVars, localVars>>

\* remove: whatever session the key has by now leaves the map.
Sweep(r) ==
    /\ pc[r] = "sweep"
    /\ sessions' = [sessions EXCEPT ![key[r]] = None]
    /\ Goto(r, IF r \in raised THEN "record" ELSE "done")
    /\ UNCHANGED <<lastErrors, retired, sessionVars, daemonVars, localVars>>

Record(r) ==
    /\ pc[r] = "record"
    /\ lastErrors' = [lastErrors EXCEPT ![key[r]] = sess[r]]
    /\ Goto(r, "done")
    /\ UNCHANGED <<sessions, retired, sessionVars, daemonVars, localVars>>

-----------------------------------------------------------------------------
(* The commands free and interrupt.                                        *)

Free(r) ==
    /\ pc[r] = "free"
    /\ owner' = [s \in Sessions |-> IF s = sessions[key[r]] THEN None ELSE owner[s]]
    /\ Goto(r, "done")
    /\ UNCHANGED <<mapVars, proc, dead, home, named, daemonVars, localVars>>

Interrupt(r) ==
    /\ pc[r] = "interrupt"
    /\ Hold(r, sessions[key[r]])
    /\ Goto(r, IF sessions[key[r]] = None THEN "done" ELSE "aim")
    /\ UNCHANGED <<mapVars, sessionVars, daemonVars, key, job, back, raised>>

Evaluating(s) == \E q \in Requests : pc[q] = "exec" /\ sess[q] = s

\* Session.interrupt: nothing to do for a dead or an idle session; otherwise
\* signal, and poll until the eval has returned.  Whether an eval that has
\* begun has set its busy mark yet is left open.
Aim(r) ==
    /\ pc[r] = "aim"
    /\ \/ Goto(r, "done")
       \/ sess[r] \notin dead /\ Evaluating(sess[r]) /\ Goto(r, "poll")
    /\ UNCHANGED <<mapVars, sessionVars, daemonVars, localVars>>

PollEnds(r) ==
    /\ pc[r] = "poll"
    /\ Goto(r, IF sess[r] \in dead THEN "drop" ELSE "done")
    /\ UNCHANGED <<mapVars, sessionVars, daemonVars, localVars>>

GraceKill(r) ==
    /\ pc[r] = "poll"
    /\ proc' = [proc EXCEPT ![sess[r]] = "gone"]
    /\ dead' = dead \cup {sess[r]}
    /\ Goto(r, "drop")
    /\ UNCHANGED <<mapVars, home, named, owner, daemonVars, localVars>>

Drop(r) ==
    /\ pc[r] = "drop"
    /\ sessions' = [sessions EXCEPT ![key[r]] = None]
    /\ Goto(r, "done")
    /\ UNCHANGED <<lastErrors, retired, sessionVars, daemonVars, localVars>>

-----------------------------------------------------------------------------
(* reapDeadOwners: one critical section collects, then each key is closed. *)

Scan ==
    /\ pc[Reaper] = "rest"
    /\ doomed' = {k \in Keys : sessions[k] # None /\ OwnerDead(sessions[k])}
    /\ Goto(Reaper, IF doomed' = {} THEN "rest" ELSE "reap")
    /\ UNCHANGED <<mapVars, sessionVars, flight, lostOwners, victims, localVars>>

Reap(k) ==
    /\ pc[Reaper] = "reap" /\ k \in doomed
    /\ Detach(Reaper, k)
    /\ doomed' = doomed \ {k}
    /\ IF sessions[k] = None THEN Skip(Reaper, "reap") ELSE Kill(Reaper, "reap")
    /\ UNCHANGED <<sessionVars, flight, lostOwners, victims, key, job, raised>>

\* Fault: the reaper's loop ends with its first pass.
ReapEndsForGood ==
    /\ pc[Reaper] = "reap" /\ doomed = {}
    /\ Goto(Reaper, "done")
    /\ UNCHANGED <<mapVars, sessionVars, daemonVars, localVars>>

ReapEnds ==
    /\ pc[Reaper] = "reap" /\ doomed = {}
    /\ Goto(Reaper, "rest")
    /\ UNCHANGED <<mapVars, sessionVars, daemonVars, localVars>>

-----------------------------------------------------------------------------
(* shutdown: the map is emptied, its sessions are killed one by one, and   *)
(* the process exits under whatever the other goroutines are doing.        *)

\* The idle watchdog closes the listener (it looks only at the time of the last
\* request, whether that has been answered or not), or Accept fails.
IdleClose ==
    /\ IdleTimeout /\ pc[Stopper] = "serving"
    /\ Goto(Stopper, "closing")
    /\ UNCHANGED <<mapVars, sessionVars, daemonVars, localVars>>

Shutdown ==
    /\ pc[Stopper] = "closing"
    /\ victims' = {sessions[k] : k \in Keys} \ {None}
    /\ retired' = retired \cup victims'
    /\ sessions' = [k \in Keys |-> None]
    /\ Goto(Stopper, "stopping")
    /\ UNCHANGED <<lastErrors, sessionVars, flight, lostOwners, doomed, localVars>>

\* Fault: the session that is being killed stays on the list.
ShutdownKillAgain(s) ==
    /\ pc[Stopper] = "stopping" /\ s \in victims
    /\ Hold(Stopper, s)
    /\ Kill(Stopper, "stopping")
    /\ UNCHANGED <<mapVars, sessionVars, daemonVars, key, job, raised>>

ShutdownKill(s) ==
    /\ pc[Stopper] = "stopping" /\ s \in victims
    /\ victims' = victims \ {s}
    /\ Hold(Stopper, s)
    /\ Kill(Stopper, "stopping")
    /\ UNCHANGED <<mapVars, sessionVars, flight, lostOwners, doomed, key, job, raised>>

\* Fault: the process exits while sessions are left to be killed.
ShutdownEndsEarly ==
    /\ pc[Stopper] = "stopping"
    /\ Goto(Stopper, "exited")
    /\ UNCHANGED <<mapVars, sessionVars, daemonVars, localVars>>

ShutdownEnds ==
    /\ pc[Stopper] = "stopping" /\ victims = {}
    /\ Goto(Stopper, "exited")
    /\ UNCHANGED <<mapVars, sessionVars, daemonVars, localVars>>

-----------------------------------------------------------------------------
(* The environment: an interpreter exits (crash, quit(), the kill of the   *)
(* disconnect watcher of an eval, which also marks the session dead), an   *)
(* owner process exits.  An interpreter the daemon has left alive may exit *)
(* later; what owners do then nobody sees.                                 *)

Running == pc[Stopper] # "exited"

Watched(s) ==
    /\ Running
    /\ \E r \in Requests : /\ pc[r] \in {"exec", "failed", "record", "done"}
                          /\ sess[r] = s /\ job[r].op = "eval"

ProcessExits(s) ==
    /\ proc[s] = "up"
    /\ proc' = [proc EXCEPT ![s] = "gone"]
    /\ \/ UNCHANGED dead
       \/ Watched(s) /\ dead' = dead \cup {s}
    /\ UNCHANGED <<mapVars, home, named, owner, daemonVars, localVars, pc>>

OwnerExits(o) ==
    /\ Running /\ o \notin lostOwners
    /\ lostOwners' = lostOwners \cup {o}
    /\ UNCHANGED <<mapVars, sessionVars, flight, doomed, victims, localVars, pc>>

-----------------------------------------------------------------------------
Arrive(r) ==
    \E j \in Jobs : \/ \E k \in Keys : ArriveEval(r, j, k) \/ ArriveCommand(r, j, k)
                    \/ \E s \in Sessions : ArriveByID(r, j, s)
                    \/ ArriveStop(r, j)

Create(r) ==
    \/ Get(r) \/ Join(r) \/ Lead(r) \/ Evict(r)
    \/ (\E s \in Sessions : Start(r, s)) \/ StartFails(r)
    \/ Boot(r) \/ Install(r) \/ Land(r)

Evaluate(r) ==
    \/ EvalReturns(r) \/ EvalBreaks(r) \/ EvalCancelled(r)
    \/ Failed(r) \/ Sweep(r) \/ Record(r)

Command(r) ==
    \/ Restart(r) \/ Close(r) \/ Free(r) \/ Interrupt(r)
    \/ Aim(r) \/ PollEnds(r) \/ GraceKill(r) \/ Drop(r)

Handle(r) == Create(r) \/ Evaluate(r) \/ Command(r) \/ Retire(r) \/ Await(r)

ReaperStep == Scan \/ (\E k \in Keys : Reap(k)) \/ ReapEnds \/ Retire(Reaper) \/ Await(Reaper)

StopperStep ==
    \/ Shutdown \/ (\E s \in Sessions : ShutdownKill(s)) \/ ShutdownEnds
    \/ Retire(Stopper) \/ Await(Stopper)

Environment == (\E s \in Sessions : ProcessExits(s)) \/ (\E o \in Owners : OwnerExits(o))

Next ==
    \/ Running /\ (\/ \E r \in Requests : Arrive(r) \/ Handle(r)
                   \/ ReaperStep \/ StopperStep \/ IdleClose)
    \/ Environment
    \/ ~Running /\ UNCHANGED vars

Spec == Init /\ [][Next]_vars

\* A goroutine that can go on does.  This includes that evals return; start and
\* kill are bounded by their timeouts, the reaper by its ticker.  Nothing makes
\* a client send a request or an owner exit.
Fairness ==
    /\ \A r \in Requests : WF_vars(Running /\ Handle(r))
    /\ WF_vars(Running /\ ReaperStep)
    /\ WF_vars(Running /\ StopperStep)

FairSpec == Spec /\ Fairness

-----------------------------------------------------------------------------
(* Safety.                                                                 *)

Starting == {"evict", "start", "boot", "install"}

\* No two goroutines are creating an interpreter for one key: what singleflight
\* is there for, from the eviction of a dead session to the map's new entry.
SingleStarter ==
    \A q, r \in Requests :
        q # r /\ pc[q] \in Starting /\ pc[r] \in Starting => key[q] # key[r]

\* The delete of getOrCreate comes up to seven seconds after the lookup, while
\* the dead session is being killed, and deletes by key.  What it deletes is
\* still the dead session, or nothing: never one installed in the meantime.
EvictsOnlyTheDead ==
    \A r \in Requests : pc[r] = "evict" => sessions[key[r]] \in {None, sess[r]}

\* Code never runs in, and a traceback is never saved for, a session of another
\* key: a session found in the map, handed over by the fast path, by the leader
\* or to those who waited for it, was started for the key that was asked for.
RoutedHome ==
    /\ \A k \in Keys : sessions[k] # None => home[sessions[k]] = k
    /\ \A k \in Keys : lastErrors[k] # None => home[lastErrors[k]] = k
    /\ \A r \in Requests : pc[r] = "exec" => sess[r] # None /\ home[sess[r]] = key[r]

\* A request for an existing session never starts an interpreter, also when the
\* session dies between hasLiveSession and getOrCreate.
LabelOnlyNeverStarts ==
    \A r \in Requests : pc[r] \in Starting => ~job[r].existing

\* As long as the daemon runs, an interpreter that was launched but never entered
\* the map is in the hands of the goroutine that launched it, which installs it
\* or kills it: no way through a failed start leaks a process.  (When the daemon
\* exits during a start, that goroutine is gone too.)
NoStartupLeak ==
    Running => \A s \in Sessions :
        proc[s] = "up" /\ s \notin named =>
            \E r \in Requests : sess[r] = s /\ pc[r] \in {"boot", "install", "retire", "await"}

\* A goroutine is inside the kill of s, and lives; or the shutdown has s on its list.
InHand(s) ==
    /\ Running
    /\ s \in victims \/ \E t \in Threads : sess[t] = s /\ pc[t] \in {"retire", "await"}

\* The daemon has exited while a request or the reaper was inside the kill of s:
\* shutdown waits for the kills of its own list and for no other.
Abandoned(s) ==
    /\ ~Running
    /\ \E t \in Threads \ {Stopper} : sess[t] = s /\ pc[t] \in {"retire", "await"}

\* A session taken out of the map by close, by --fresh, by the reaper or by the
\* shutdown is lost alive in one way only: its kill was begun by a request or by
\* the reaper and died with the daemon.  Otherwise, until its process has ended, a
\* goroutine that lives is at its kill or the shutdown has it on its list; so the
\* process has ended when the daemon exits, also where the shutdown itself took
\* the session.
RetiredInHand ==
    \A s \in retired : proc[s] = "gone" \/ InHand(s) \/ Abandoned(s)

\* The map keeps the promise of SessionRegistry.
Registry == INSTANCE SessionRegistry WITH current <- sessions, ever <- named
RegistryHolds == Registry!RegistrySpec

-----------------------------------------------------------------------------
(* The inductive invariant behind the safety properties.                   *)

EvalLabels == {"restart", "get", "join", "follow", "lead", "evict", "start", "boot", "install",
               "land", "exec", "failed", "sweep", "record"}
CommandLabels == {"close", "free", "interrupt", "aim", "poll", "drop"}

\* t is inside kill, and will go on at a label of ls
Killing(t, ls) == pc[t] \in {"retire", "await"} /\ back[t] \in ls

\* Which labels, and which locals, a goroutine has where it is.
ControlOK ==
    /\ pc[Reaper] \in {"rest", "reap"} \/ Killing(Reaper, {"reap"})
    /\ pc[Stopper] \in {"serving", "closing", "stopping", "exited"} \/ Killing(Stopper, {"stopping"})
    /\ pc[Stopper] \in {"serving", "closing"} => victims = {}
    /\ \A r \in Requests :
        /\ \/ pc[r] \in EvalLabels \cup CommandLabels \cup {"idle", "done"}
           \/ Killing(r, {"get", "done", "evict", "land"})
        /\ pc[r] \notin {"idle", "done"} => key[r] \in Keys
        /\ pc[r] \in EvalLabels \/ Killing(r, {"get", "evict", "land"})
            => job[r] \in Jobs /\ job[r].op = "eval"
    /\ \A t \in Threads :
        pc[t] \in {"evict", "boot", "install", "exec", "failed", "sweep", "record", "aim", "poll",
                  "drop", "retire", "await"}
            => sess[t] \in Sessions

\* The goroutines that run the function given to sf.Do.
Leading(r) ==
    pc[r] \in {"lead", "evict", "start", "boot", "install", "land"} \/ Killing(r, {"evict", "land"})

\* A leader owns the flight of its key.
FlightOK == \A r \in Requests : Leading(r) => flight[key[r]] = r

\* What a leader relies on: nothing has entered the map under its key since it
\* looked; and it goes on only with a language it knows.
SlotOK ==
    \A r \in Requests :
        /\ pc[r] \in {"start", "boot", "install"} \/ Killing(r, {"land"})
            => sessions[key[r]] = None
        /\ pc[r] = "evict" \/ Killing(r, {"evict"})
            => sessions[key[r]] \in {None, sess[r]}
        /\ pc[r] \in {"evict", "start", "boot", "install"} \/ Killing(r, {"evict", "land"})
            => job[r].known

\* Launched sessions have a home; those on their way into the map are new.
HomeOK ==
    /\ \A s \in Sessions : proc[s] = "none" => home[s] = None /\ s \notin named
    /\ \A k \in Keys : sessions[k] # None => home[sessions[k]] = k /\ sessions[k] \in named
    /\ \A k \in Keys : lastErrors[k] # None => home[lastErrors[k]] = k
    /\ \A r \in Requests :
        /\ pc[r] \in {"boot", "install"} \/ Killing(r, {"land"})
            => home[sess[r]] = key[r] /\ sess[r] \notin named
        /\ pc[r] \in {"exec", "failed", "sweep", "record"} => home[sess[r]] = key[r]
        /\ pc[r] = "land" /\ sess[r] # None => home[sess[r]] = key[r]
        /\ pc[r] \in {"idle", "restart", "get", "join", "follow", "lead", "start"}
            => sess[r] = None

\* The safety half of EveryRequestAnswered: whoever waits for a creation waits for a
\* goroutine that is at it, for his key, and that waits for no other request.
FollowersAreLed ==
    \A r \in Requests :
        pc[r] = "follow" => \E q \in Requests : Leading(q) /\ key[q] = key[r]

IInv == TypeOK /\ ControlOK /\ FlightOK /\ SlotOK /\ HomeOK /\ NoStartupLeak /\ RetiredInHand

-----------------------------------------------------------------------------
(* Liveness.                                                               *)

\* Every request is answered, or the daemon exits: no goroutine waits for ever
\* on the creation another one leads, however the leader ends.
EveryRequestAnswered ==
    \A r \in Requests : pc[r] # "idle" ~> pc[r] = "done" \/ ~Running

\* A session whose owner has exited leaves the map or is freed.
DeadOwnerCloses ==
    \A k \in Keys : \A s \in Sessions :
        sessions[k] = s /\ OwnerDead(s) ~> sessions[k] # s \/ ~OwnerDead(s) \/ ~Running

\* A session taken out of the map by close, by --fresh, by the reaper or by the
\* shutdown has its process ended, unless the daemon exits before that (which it
\* may do: ClosedIsKilled).
RetiredIsKilled ==
    \A s \in Sessions : s \in retired ~> proc[s] = "gone" \/ ~Running

\* Once the listener is closed the daemon exits, whatever the other goroutines
\* are doing: the kills of the shutdown end, one after the other.
DaemonStops == pc[Stopper] = "closing" ~> ~Running

-----------------------------------------------------------------------------
(* Statements of the repository that the code does not keep.               *)

\* manager.go:138, "a live session for the key is reused as-is": a request that
\* starts an interpreter for a key finds no live session of that key that
\* nobody closed.
LiveSessionIsReused ==
    \A r \in Requests : pc[r] = "start" =>
        \A s \in named \ (dead \cup retired) : home[s] = key[r] => proc[s] # "up"

\* main.go:264, "close  Kill the session's interpreter and discard its state": a
\* session that close, --fresh or the reaper took out of the map loses its
\* interpreter, if not by the daemon's hand, then because it exits by itself.
ClosedIsKilled == \A s \in Sessions : s \in retired ~> proc[s] = "gone"

\* manager.go:227, "freed; it will not auto-close": the reaper kills only
\* sessions whose owner has exited, as it stands when it takes them.
FreedIsNeverReaped ==
    pc[Reaper] = "retire" => OwnerDead(sess[Reaper])

\* README.md:49, --fresh will "restart targeted session first": a request that has
\* done so and joins a creation in flight is not handed a session that was killed.
FreshIsNotHandedTheKilled ==
    [][\A r \in Requests :
          pc[r] = "follow" /\ pc'[r] # "follow" /\ job[r].fresh => sess'[r] \notin retired]_vars
=============================================================================
