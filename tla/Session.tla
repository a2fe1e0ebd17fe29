------------------------------ MODULE Session -------------------------------
(***************************************************************************)
(* One interpreter session after start() (go/session.go): the callers that *)
(* queue on its semaphore and run execute and executeRaw, the watcher      *)
(* goroutine each of them spawns, interrupts sent by other requests, the   *)
(* kill that takes the session down, and the interpreter process at the    *)
(* other end of the pipes.  A step is one access to state another          *)
(* goroutine or the interpreter reads.  Code is reduced to whose it is:    *)
(* it may run for ever, finish, raise, or be aborted.                      *)
(* Taken as given: output ends exactly when the process does (no code      *)
(* closes its own stdout or hands it to a child that outlives it), and a   *)
(* status frame is in the channel before the sentinel is read.             *)
(***************************************************************************)
EXTENDS Naturals

CONSTANTS
    Callers,    \* calls of execute, one per eval request
    Externals,  \* calls of Session.interrupt by interrupt requests
    Grace,      \* polls an interrupt makes before its deadline: 3 s / 50 ms
    None        \* nobody

\* Every caller has a watcher, which goes by the caller's name.
Interrupters == Callers \cup Externals

ASSUME SessionAssumption ==
    /\ None \notin Interrupters
    /\ Callers \cap Externals = {}
    /\ Grace \in Nat \ {0}

VARIABLES
    dead,       \* s.dead
    busy,       \* s.busySince: the caller that stored it, None when 0
    sem,        \* s.sem: the caller that holds it
    stdin,      \* the write end of the interpreter's stdin is open
    proc,       \* the interpreter process: up or gone
    stage,      \* what it is at: waiting, reading code, running it, done with it
    code,       \* the caller whose code it has read
    sentinel,   \* the sentinel is on stdout and stderr, not yet scanned
    status,     \* the frame in s.ctrlLines
    signal,     \* an interrupt is on its way to the interpreter
    pc, result, \* of each caller
    left,       \* callers whose context is done
    irq,        \* of each interrupter: where it is in its goroutine
    aim,        \* the caller an interrupter found busy when it began
    polls,      \* polls made since then
    killer      \* where kill is

sharedVars == <<dead, busy, sem>>
interpreterVars == <<stdin, proc, stage, code, sentinel, status, signal>>
callerVars == <<pc, result, left>>
interruptVars == <<irq, aim, polls>>
vars == <<dead, busy, sem, stdin, proc, stage, code, sentinel, status, signal,
          pc, result, left, irq, aim, polls, killer>>

TypeOK ==
    /\ dead \in BOOLEAN
    /\ busy \in Callers \cup {None}
    /\ sem \in Callers \cup {None}
    /\ stdin \in BOOLEAN
    /\ proc \in {"up", "gone"}
    /\ stage \in {"idle", "read", "run", "wrote"}
    /\ code \in Callers \cup {None}
    /\ sentinel \in BOOLEAN
    /\ status \in {"none", "ok", "error"}
    /\ signal \in BOOLEAN
    /\ pc \in [Callers -> {"idle", "acquire", "check", "mark", "write", "scan", "status",
                           "unbusy", "notify", "release", "cleanup", "done"}]
    /\ result \in [Callers -> {"none", "ok", "error", "aborted", "died", "ioerror", "cancelled"}]
    /\ left \in SUBSET Callers
    /\ irq \in [Interrupters -> {"none", "spawned", "parked", "test", "signal", "loop",
                                 "reap", "over"}]
    /\ aim \in [Interrupters -> Callers \cup {None}]
    /\ polls \in [Interrupters -> 0 .. Grace]
    /\ killer \in {"off", "stdin", "grace", "over"}

Init ==
    /\ dead = FALSE /\ busy = None /\ sem = None
    /\ stdin = TRUE /\ proc = "up" /\ stage = "idle" /\ code = None
    /\ sentinel = FALSE /\ status = "none" /\ signal = FALSE
    /\ pc = [c \in Callers |-> "idle"]
    /\ result = [c \in Callers |-> "none"]
    /\ left = {}
    /\ irq = [i \in Interrupters |-> "none"]
    /\ aim = [i \in Interrupters |-> None]
    /\ polls = [i \in Interrupters |-> 0]
    /\ killer = "off"

Goto(c, l) == pc' = [pc EXCEPT ![c] = l]
Ends(c, res, l) == result' = [result EXCEPT ![c] = res] /\ Goto(c, l)

-----------------------------------------------------------------------------
(* execute and executeRaw.                                                 *)

\* Fault: the watcher is spawned before the semaphore is acquired.
CallWatched(c) ==
    /\ pc[c] = "idle"
    /\ Goto(c, "acquire")
    /\ irq' = [irq EXCEPT ![c] = "spawned"]
    /\ UNCHANGED <<sharedVars, interpreterVars, result, left, aim, polls, killer>>

Call(c) ==
    /\ pc[c] = "idle"
    /\ Goto(c, "acquire")
    /\ UNCHANGED <<sharedVars, interpreterVars, result, left, interruptVars, killer>>

\* Fault: the semaphore has room for two.
AcquireFree(c) ==
    /\ pc[c] = "acquire"
    /\ sem' = c
    /\ Goto(c, "check")
    /\ UNCHANGED <<dead, busy, interpreterVars, result, left, interruptVars, killer>>

Acquire(c) ==
    /\ pc[c] = "acquire" /\ sem = None
    /\ sem' = c
    /\ Goto(c, "check")
    /\ UNCHANGED <<dead, busy, interpreterVars, result, left, interruptVars, killer>>

GiveUp(c) ==
    /\ pc[c] = "acquire" /\ c \in left
    /\ Ends(c, "cancelled", "cleanup")
    /\ UNCHANGED <<sharedVars, interpreterVars, left, interruptVars, killer>>

\* A live session gets a watcher for the call; a dead one is refused.
Check(c) ==
    /\ pc[c] = "check"
    /\ \/ dead /\ Ends(c, "died", "release") /\ UNCHANGED irq
       \/ ~dead /\ Goto(c, "mark") /\ irq' = [irq EXCEPT ![c] = "spawned"] /\ UNCHANGED result
    /\ UNCHANGED <<sharedVars, interpreterVars, left, aim, polls, killer>>

Mark(c) ==
    /\ pc[c] = "mark"
    /\ busy' = c
    /\ Goto(c, "write")
    /\ UNCHANGED <<dead, sem, interpreterVars, result, left, interruptVars, killer>>

\* Stranded status lines are drained, then the code goes down the pipe.  When
\* nobody reads it any more the error returns at once; dead is not touched.
Write(c) ==
    /\ pc[c] = "write"
    /\ status' = "none"
    /\ \/ /\ stdin /\ proc = "up"
          /\ stage' = "read" /\ code' = c
          /\ Goto(c, "scan") /\ UNCHANGED result
       \/ /\ ~(stdin /\ proc = "up")
          /\ Ends(c, "ioerror", "unbusy") /\ UNCHANGED <<stage, code>>
    /\ UNCHANGED <<sharedVars, stdin, proc, sentinel, signal, left, interruptVars, killer>>

\* Fault: executeRaw returns as soon as its context is done.
ScanCancellable(c) ==
    /\ pc[c] = "scan"
    /\ \/ /\ sentinel
          /\ sentinel' = FALSE
          /\ Goto(c, "status") /\ UNCHANGED result
       \/ c \in left /\ Ends(c, "cancelled", "unbusy") /\ UNCHANGED sentinel
    /\ UNCHANGED <<sharedVars, stdin, proc, stage, code, status, signal, left, interruptVars, killer>>

\* Fault: the end of the output is not noticed.
ScanPastEnd(c) ==
    /\ pc[c] = "scan" /\ sentinel
    /\ sentinel' = FALSE
    /\ Goto(c, "status")
    /\ UNCHANGED <<sharedVars, stdin, proc, stage, code, status, signal, result, left,
                   interruptVars, killer>>

\* Fault: an eval whose interpreter has died is tried again.
ScanRetries(c) ==
    /\ pc[c] = "scan"
    /\ \/ /\ sentinel
          /\ sentinel' = FALSE
          /\ Goto(c, "status") /\ UNCHANGED dead
       \/ /\ ~sentinel /\ proc = "gone"
          /\ dead' = TRUE
          /\ Goto(c, "write") /\ UNCHANGED sentinel
    /\ UNCHANGED <<busy, sem, stdin, proc, stage, code, status, signal, result, left,
                   interruptVars, killer>>

\* scanToSentinel on both streams: what was printed is read before the end of
\* the output is seen, and the end marks the session dead.
Scan(c) ==
    /\ pc[c] = "scan"
    /\ \/ /\ sentinel
          /\ sentinel' = FALSE
          /\ Goto(c, "status") /\ UNCHANGED <<result, dead>>
       \/ /\ ~sentinel /\ proc = "gone"
          /\ dead' = TRUE
          /\ Ends(c, "died", "unbusy") /\ UNCHANGED sentinel
    /\ UNCHANGED <<busy, sem, stdin, proc, stage, code, status, signal, left,
                   interruptVars, killer>>

\* The bounded wait for the status line: the line, the end of the control
\* stream (taken for success), or a time-out.
Status(c) ==
    /\ pc[c] = "status"
    /\ \/ status # "none" /\ status' = "none" /\ Ends(c, status, "unbusy")
       \/ status = "none" /\ proc = "gone" /\ Ends(c, "ok", "unbusy") /\ UNCHANGED status
       \/ status = "none" /\ Ends(c, "aborted", "unbusy") /\ UNCHANGED status
    /\ UNCHANGED <<sharedVars, stdin, proc, stage, code, sentinel, signal, left,
                   interruptVars, killer>>

\* The deferred calls of execute, last one first.
Unbusy(c) ==
    /\ pc[c] = "unbusy"
    /\ busy' = None
    /\ Goto(c, "notify")
    /\ UNCHANGED <<dead, sem, interpreterVars, result, left, interruptVars, killer>>

\* close(evalDone): a watcher parked in its select is woken by it.
Notify(c) ==
    /\ pc[c] = "notify"
    /\ irq' = [irq EXCEPT ![c] = IF @ = "parked" THEN "over" ELSE @]
    /\ Goto(c, "release")
    /\ UNCHANGED <<sharedVars, interpreterVars, result, left, aim, polls, killer>>

Release(c) ==
    /\ pc[c] = "release"
    /\ sem' = None
    /\ Goto(c, "cleanup")
    /\ UNCHANGED <<dead, busy, interpreterVars, result, left, interruptVars, killer>>

\* The context of c is done: a parked watcher is woken by it.
Cancel(c) ==
    /\ left' = left \cup {c}
    /\ irq' = [irq EXCEPT ![c] = IF @ = "parked" THEN "test" ELSE @]

\* The handler returns and runs its deferred cancel.
Cleanup(c) ==
    /\ pc[c] = "cleanup"
    /\ Cancel(c)
    /\ Goto(c, "done")
    /\ UNCHANGED <<sharedVars, interpreterVars, result, aim, polls, killer>>

\* The client goes away, by itself or by a signal.
Disconnect(c) ==
    /\ pc[c] \notin {"idle", "done"} /\ c \notin left
    /\ Cancel(c)
    /\ UNCHANGED <<sharedVars, interpreterVars, pc, result, aim, polls, killer>>

-----------------------------------------------------------------------------
(* The watcher, and Session.interrupt.                                     *)

EvalDone(c) == pc[c] \in {"release", "cleanup", "done"}

\* The watcher comes to its select: one channel is closed, or both are and
\* either may be taken, or it parks.
Watch(c) ==
    /\ irq[c] = "spawned"
    /\ \/ c \in left /\ irq' = [irq EXCEPT ![c] = "test"]
       \/ EvalDone(c) /\ irq' = [irq EXCEPT ![c] = "over"]
       \/ c \notin left /\ ~EvalDone(c) /\ irq' = [irq EXCEPT ![c] = "parked"]
    /\ UNCHANGED <<sharedVars, interpreterVars, callerVars, aim, polls, killer>>

\* An interrupt request reaches the session.
Request(e) ==
    /\ irq[e] = "none"
    /\ irq' = [irq EXCEPT ![e] = "test"]
    /\ UNCHANGED <<sharedVars, interpreterVars, callerVars, aim, polls, killer>>

\* interrupt returns, and its locals with it.
Leave(i) ==
    /\ irq' = [irq EXCEPT ![i] = "over"]
    /\ aim' = [aim EXCEPT ![i] = None]
    /\ polls' = [polls EXCEPT ![i] = 0]

Test(i) ==
    /\ irq[i] = "test"
    /\ \/ (dead \/ busy = None) /\ irq' = [irq EXCEPT ![i] = "over"] /\ UNCHANGED aim
       \/ /\ ~dead /\ busy # None
          /\ aim' = [aim EXCEPT ![i] = busy]
          /\ irq' = [irq EXCEPT ![i] = "signal"]
    /\ UNCHANGED <<sharedVars, interpreterVars, callerVars, polls, killer>>

Send == signal' = (proc = "up")

Signal(i) ==
    /\ irq[i] = "signal"
    /\ Send
    /\ irq' = [irq EXCEPT ![i] = "loop"]
    /\ UNCHANGED <<sharedVars, stdin, proc, stage, code, sentinel, status, callerVars,
                   aim, polls, killer>>

Resend(i) ==
    /\ irq[i] = "loop" /\ busy # None
    /\ Send
    /\ UNCHANGED <<sharedVars, stdin, proc, stage, code, sentinel, status, callerVars,
                   interruptVars, killer>>

\* Fault: the polls go on past the deadline.
PollUnbounded(i) ==
    /\ irq[i] = "loop"
    /\ \/ /\ busy # None
          /\ polls' = [polls EXCEPT ![i] = @ + 1] /\ UNCHANGED <<irq, aim>>
       \/ busy = None /\ Leave(i)
    /\ UNCHANGED <<sharedVars, interpreterVars, callerVars, killer>>

\* One tick of the poll: some eval is still busy, or none is.
Poll(i) ==
    /\ irq[i] = "loop"
    /\ \/ /\ busy # None /\ polls[i] < Grace
          /\ polls' = [polls EXCEPT ![i] = @ + 1] /\ UNCHANGED <<irq, aim>>
       \/ busy = None /\ Leave(i)
    /\ UNCHANGED <<sharedVars, interpreterVars, callerVars, killer>>

\* The process is killed, and what it was doing or about to be told is lost;
\* what it has printed can still be read.
ProcessGone ==
    /\ proc' = "gone"
    /\ stage' = "idle" /\ code' = None /\ signal' = FALSE
    /\ UNCHANGED <<stdin, sentinel, status>>

\* Fault: the deadline is started anew by every signal that is sent.
DeadlineRestarts(i) ==
    /\ irq[i] = "loop" /\ polls[i] = Grace
    /\ polls' = [polls EXCEPT ![i] = 0]
    /\ UNCHANGED <<sharedVars, interpreterVars, callerVars, irq, aim, killer>>

\* Fault: at the deadline the session is given up, its process is not killed.
DeadlineAbandons(i) ==
    /\ irq[i] = "loop" /\ polls[i] = Grace
    /\ irq' = [irq EXCEPT ![i] = "reap"]
    /\ UNCHANGED <<sharedVars, interpreterVars, callerVars, aim, polls, killer>>

Deadline(i) ==
    /\ irq[i] = "loop" /\ polls[i] = Grace
    /\ ProcessGone
    /\ irq' = [irq EXCEPT ![i] = "reap"]
    /\ UNCHANGED <<sharedVars, callerVars, aim, polls, killer>>

Reaped(i) ==
    /\ irq[i] = "reap"
    /\ dead' = TRUE
    /\ Leave(i)
    /\ UNCHANGED <<busy, sem, interpreterVars, callerVars, killer>>

-----------------------------------------------------------------------------
(* kill, by close, --fresh, the owner-lease reaper or the shutdown.        *)

KillMark ==
    /\ killer = "off"
    /\ dead' = TRUE
    /\ killer' = "stdin"
    /\ UNCHANGED <<busy, sem, interpreterVars, callerVars, interruptVars>>

KillStdin ==
    /\ killer = "stdin"
    /\ stdin' = FALSE
    /\ killer' = "grace"
    /\ UNCHANGED <<sharedVars, proc, stage, code, sentinel, status, signal, callerVars,
                   interruptVars>>

\* Fault: kill stops at asking the process to terminate.
KillPolitely ==
    /\ killer = "grace"
    /\ killer' = "over"
    /\ UNCHANGED <<sharedVars, interpreterVars, callerVars, interruptVars>>

\* The graces pass (a signal to terminate is sent between them, on which the
\* process may exit or not), then the process is killed.
KillEnds ==
    /\ killer = "grace"
    /\ IF proc = "gone" THEN UNCHANGED interpreterVars ELSE ProcessGone
    /\ killer' = "over"
    /\ UNCHANGED <<sharedVars, callerVars, interruptVars>>

-----------------------------------------------------------------------------
(* The interpreter, through its adapter's runtime.                         *)

\* The wrapper has been parsed and decoded; the user's code starts inside the
\* handler that reports on it.
Enter ==
    /\ stage = "read"
    /\ stage' = "run"
    /\ UNCHANGED <<sharedVars, stdin, proc, code, sentinel, status, signal, callerVars,
                   interruptVars, killer>>

Finish ==
    /\ stage = "run"
    /\ stage' = "wrote"
    /\ status' \in {"ok", "error"}
    /\ UNCHANGED <<sharedVars, stdin, proc, code, sentinel, signal, callerVars, interruptVars,
                   killer>>

PrintSentinel ==
    /\ stage = "wrote"
    /\ stage' = "idle" /\ code' = None
    /\ sentinel' = TRUE
    /\ UNCHANGED <<sharedVars, stdin, proc, status, signal, callerVars, interruptVars,
                   killer>>

\* An interrupt arrives.  It aborts running code, which is reported; it may
\* abort the wrapper before its handler is in place, which is not; it may abort
\* the statement after it, and the sentinel is never printed; at any moment it
\* may be without effect.
Interrupted ==
    /\ signal
    /\ signal' = FALSE
    /\ \/ stage = "run" /\ stage' = "wrote" /\ status' = "error" /\ UNCHANGED code
       \/ stage = "read" /\ stage' = "wrote" /\ UNCHANGED <<status, code>>
       \/ stage = "wrote" /\ stage' = "idle" /\ code' = None /\ UNCHANGED status
       \/ UNCHANGED <<stage, status, code>>
    /\ UNCHANGED <<sharedVars, stdin, proc, sentinel, callerVars, interruptVars, killer>>

\* A crash, quit(), or the end of stdin.
ProcessExits ==
    /\ proc = "up"
    /\ ProcessGone
    /\ UNCHANGED <<sharedVars, callerVars, interruptVars, killer>>

-----------------------------------------------------------------------------
Execute(c) ==
    \/ Acquire(c) \/ GiveUp(c) \/ Check(c) \/ Mark(c) \/ Write(c) \/ Scan(c)
    \/ Status(c) \/ Unbusy(c) \/ Notify(c) \/ Release(c) \/ Cleanup(c)

Watcher(c) == c \in Callers /\ Watch(c)

Interrupter(i) == Watcher(i) \/ Test(i) \/ Signal(i) \/ Poll(i) \/ Deadline(i) \/ Reaped(i)

KillStep == KillStdin \/ KillEnds

Runtime == Enter \/ PrintSentinel

Next ==
    \/ \E c \in Callers : Call(c) \/ Execute(c) \/ Disconnect(c)
    \/ \E e \in Externals : Request(e)
    \/ \E i \in Interrupters : Interrupter(i) \/ Resend(i)
    \/ KillMark \/ KillStep
    \/ Runtime \/ Finish \/ Interrupted \/ ProcessExits

Spec == Init /\ [][Next]_vars

\* Goroutines that can go on do, tickers and deadlines fire, and the
\* interpreter gets through everything but the user's code, which need not end.
\* Nobody has to call, leave, interrupt or kill, and no signal has to arrive.
Fairness ==
    /\ \A c \in Callers : WF_vars(Execute(c))
    /\ \A i \in Interrupters : WF_vars(Interrupter(i))
    /\ WF_vars(KillStep) /\ WF_vars(Runtime)

FairSpec == Spec /\ Fairness

-----------------------------------------------------------------------------
(* Safety.                                                                 *)

Inside == {"check", "mark", "write", "scan", "status", "unbusy", "notify", "release"}

\* One caller at a time is inside execute, and the busy mark is its own: an
\* interrupt that finds the session busy finds the caller that holds it.
Serialised ==
    /\ \A c, d \in Callers : pc[c] \in Inside /\ pc[d] \in Inside => c = d
    /\ busy # None => pc[busy] \in {"write", "scan", "status", "unbusy"}

\* The interpreter never works on code, and never has a sentinel to be read, for
\* a caller that is not there to read it: no answer reaches the next eval.
NoCodeOutlivesItsCall ==
    /\ stage # "idle" => code # None /\ pc[code] = "scan"
    /\ sentinel => stage = "idle" /\ \E c \in Callers : sem = c /\ pc[c] = "scan"

\* A client that leaves while it is queued sends no interrupt, so the eval it was
\* queued behind goes on (julia_integration_test.go:418).
QueuedDisconnectHarmless ==
    \A c \in Callers : pc[c] = "acquire" \/ result[c] = "cancelled" => irq[c] = "none"

-----------------------------------------------------------------------------
(* The abstract session.                                                   *)

\* How far a call at label l is with the interpreter.
PhaseAt(l) ==
    CASE l = "idle" -> "new"
      [] l = "acquire" -> "queued"
      [] l \in {"check", "mark", "write"} -> "turn"
      [] l \in {"scan", "status"} -> "given"
      [] OTHER -> "over"

phases == [c \in Callers |-> PhaseAt(pc[c])]

\* The session keeps the promise of SerialEvaluator: whatever leaves, interrupts, is
\* killed or crashes, an eval is given to the interpreter once, in its turn, and
\* returns only when the interpreter has let go of it (session.go:493, 361).
Evaluator == INSTANCE SerialEvaluator WITH
    Calls <- Callers, phase <- phases, turn <- sem, running <- code, answer <- result
EvaluatorHolds == Evaluator!EvaluatorSpec

-----------------------------------------------------------------------------
(* The inductive invariant behind the safety properties.                   *)

\* Who is inside execute holds the semaphore.
LockOK == \A c \in Callers : pc[c] \in Inside => sem = c

\* A process that is gone works on nothing.
GoneOK == proc = "gone" => stage = "idle"

\* Code the interpreter has not let go of is being worked on.
IdleOK == stage = "idle" => code = None

\* Watchers and results of callers that have not been let in, or gave up.
QueueOK ==
    \A c \in Callers :
        /\ pc[c] \in {"idle", "acquire", "check"} => irq[c] = "none" /\ result[c] = "none"
        /\ result[c] = "cancelled" => irq[c] = "none" /\ pc[c] \in {"cleanup", "done"}

\* The safety half of GoneDrains: the semaphore is held by a caller that is still inside
\* execute, and never left behind by one that has returned.
TurnIsUsed == sem # None => pc[sem] \in Inside

IInv == TypeOK /\ LockOK /\ GoneOK /\ IdleOK /\ QueueOK /\ Serialised /\ NoCodeOutlivesItsCall

-----------------------------------------------------------------------------
(* Liveness.                                                               *)

\* An interrupt that has begun comes to an end, and so does the eval it was
\* sent for, whatever that eval does and however many signals are lost.
InterruptEnds ==
    \A i \in Interrupters : irq[i] = "signal" ~> irq[i] = "over"

InterruptedEvalEnds ==
    \A i \in Interrupters, c \in Callers :
        irq[i] = "loop" /\ aim[i] = c ~> pc[c] = "done"

\* Once the process is gone, nobody in execute, and nobody queued, is left waiting.
GoneDrains ==
    \A c \in Callers : proc = "gone" /\ pc[c] # "idle" ~> pc[c] = "done"

\* kill ends the process, also when an eval that never ends holds the session.
KillEndsProcess == killer # "off" ~> proc = "gone"

-----------------------------------------------------------------------------
(* Statements of the repository that the code does not keep.               *)

\* architecture.md:76, an interrupt aborts an in-flight eval and goes on "until
\* the eval returns": when its deadline kills the process, the code that dies
\* with it is not that of a later eval.
InterruptStopsAtReturn ==
    [][\A i \in Interrupters :
        irq[i] = "loop" /\ irq'[i] = "reap" => code \in {None, aim[i]}]_vars

\* julia_integration_test.go:307, "client disconnect should have interrupted the
\* orphaned eval": the code of a client that has left does not run on for ever.
ClientDeathInterruptsEval ==
    \A c \in Callers : c \in left /\ code = c ~> code # c

\* session.go:175, a session in which every eval would fail must not "stay alive
\* and keep being reused (no self-heal)": a call the interpreter could not be
\* given leaves the session marked dead, so that the next request replaces it.
FailedWriteMarksDead ==
    \A c \in Callers : pc[c] = "cleanup" /\ result[c] = "ioerror" => dead
=============================================================================
