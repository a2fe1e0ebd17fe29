# A TLA+ model of repld

repld keeps interpreters (Julia, Python, R, Wolfram) alive between calls of a
command line client. One Go daemon holds the sessions; every client call is one
connection carrying one request. This directory models the daemon, its sessions,
their control connections and the client, checks the models with TLC on small
instances, and proves the safety properties with TLAPS for instances of any size.

## Inventory

| part | state | operations | how it interacts | modules |
|---|---|---|---|---|
| session manager (`go/manager.go`) | `sessions`, `lastErrors`, the singleflight group, `logDir` | `getOrCreate`, `remove`, `restart`, `close`, `free`, `interrupt`, `recordError`, `reapDeadOwners`, `shutdown`, `keyForID`; `list`, `lastError` read | called by every handler goroutine, by the reaper and by `serveDaemon`; holds `m.mu` only for map accesses, never while it starts or kills | `SessionRegistry`, `SessionManager` |
| handlers (`go/daemon.go`) | `lastRequest`, `stopCh`, one context per eval | `handleConn`, `handleStreamingEval`, `handleRequest` | a goroutine per connection, plus one that reads the connection to notice that the client has left | `SessionManager` |
| daemon life cycle (`go/daemon.go`) | the socket file, the pid file, the listener | `listenExclusive`, `pingDaemon`, `serveDaemon`, the idle watchdog | closes the listener, shuts the manager down, removes the files | `DaemonSocket`, `SessionManager` |
| session (`go/session.go`) | `dead`, `busySince`, `sem`, pipes, the process | `execute`/`executeRaw`, `scanToSentinel`, `interrupt`, `kill` | `execute` by handlers, one at a time; `interrupt` by other requests and by each eval's watcher; `kill` by whoever took the session out of the map | `SerialEvaluator`, `Session`, `SentinelScan` |
| startup (`go/session.go`) | a loopback listener, a token, a deadline, the winner's channel | `start`, `acceptControl` | the runtime dials back while `start` waits for the sentinel | `Startup` |
| control protocol (`go/session.go`) | `ctrlLines`, the reader goroutine's line | the drain, the reader, `parseControlLine`, the bounded wait | status lines one way, interrupt bytes the other | `ControlChannel` |
| runtimes (`go/*/runtime.*`) | the eval that runs, `_BUSY`, a pending signal | run, report a status, print the sentinel, turn a byte or a signal into an exception | at the other end of the pipes and of the control socket | `ControlChannel`, `Startup`, `Session` |
| client (`go/main.go`, `go/config.go`) | none | `parseArgs`, `parseTarget`, `connect`, `startDaemon`, `run` | sends one request, streams the answer | `CommandLine`, `DaemonSocket` |
| adapters (`go/adapter.go`, `go/*/adapter.go`) | none | argv, bootstrap, wrapping, sentinel statement | called by the session | in part `CommandLine`, `ControlChannel` |
| owner (`go/owner.go`, `go/proc_*.go`) | none | `resolveOwner` in the client, `ownerDead` in the daemon | the reaper asks `ownerDead` | `Owner`, `SessionManager` |
| installation, releases, skill files | none | | | not modelled |

What makes each part correct:

- *Manager*: at most one interpreter per key is being created, the right session
  reaches each request, nothing launched is lost, what leaves the map is killed unless the
  daemon exits under the kill, every request is answered, a dead owner's sessions go.
- *Session*: evals are serialised and never read each other's answers, an
  interrupt ends, the death of the process reaches everyone who waits, kill works
  also under a hung eval; the output is streamed without loss and without the
  sentinel.
- *Daemon life cycle*: one daemon per path, a start that is not stopped by leftovers,
  a shutdown that ends, calls that end.
- *Startup*: the authenticated connection wins, strays do not matter, `start` ends.
- *Control protocol and runtimes*: each eval is given its own status, the status is
  what became of its code, an eval that ran undisturbed to its end has one, an eval whose
  code is over returns.
- *Client*: a line is taken apart as the usage says; an eval and a verb with the same
  flags address one session; a label suffices to reach a session again.
- *Owner*: the nearest harness is the owner; the sessions of a live owner that can be
  read are kept, and an id that was reused keeps none.

Hard behaviours: goroutines that read the map, drop the lock and act on it later;
singleflight; kills that take seconds; interrupts that get lost, come late or strike
between two evals; processes that die, or are replaced under their id, at any point;
daemons that start while others stop; reads that cut the stream anywhere.
`PROJECT.json` lists each hazard at its line with the properties that cover it.

## Modules

- `SessionRegistry` — abstract: what the session map promises. A key gets a
  session only when it has none, a session enters once in its life, then it can
  only leave.
- `SessionManager` — `go/manager.go` together with the handlers of
  `go/daemon.go`. One action per critical section of `m.mu` or per call on a
  session that others can observe. It implements `SessionRegistry` under
  `current <- sessions, ever <- named`.
- `SerialEvaluator` — abstract: what a session promises its callers. Calls take turns;
  code is given to the interpreter once, in its call's turn and when nothing else runs;
  a call whose code was given returns only when the interpreter has let go of it, one
  that was withdrawn or refused was never given.
- `Session` — one interpreter session after `start`: `execute`, `executeRaw`, the
  disconnect watcher, `interrupt`, `kill`, and the interpreter. It implements
  `SerialEvaluator` under `turn <- sem, running <- code, answer <- result` and a phase
  for each label (`PhaseAt`).
- `Startup` — `start` and `acceptControl`, with other processes on the port.
- `ControlChannel` — the control connection of a running session with both its ends.
- `ControlSession` — composes the two: a session from its launch to its last eval.
- `DaemonSocket` — daemons and clients on one socket path.
- `SentinelScan`, `CommandLine`, `Owner` — algorithms that run by themselves.
- `MCSessionManager`, `MCSession`, `MCControlSession`, `MCDaemonSocket`,
  `MCAlgorithms` — the sets that the configurations use.
- `SessionManagerProofs`, `SessionProofs`, `DaemonSocketProofs`,
  `ControlSessionProofs`, `CommandLineProofs`, `SentinelScanProofs`, `OwnerProofs` —
  theorems; `LeastNumber` — the induction three of them use.

Definitions whose comment begins with "Fault" are variants of a definition beside
them with a mistake in it; no specification uses them. They show that each property
of a passing run fails when the code is wrong in that way.

### SessionManager and the code

`Threads` are the request goroutines, the reaper and the goroutine of
`serveDaemon`. `pc` says where each is; the labels follow the functions:

| labels | code |
|---|---|
| `restart`, `close`, `free`, `interrupt` | the functions of those names; `Detach` is the critical section of `restart` and `close` |
| `get` | the fast path of `getOrCreate` |
| `join`, `follow`, `lead`, `land` | `sf.Do`: claim or wait for the key's flight, the function inside it, its return to the leader and to all who waited |
| `evict`, `start`, `boot`, `install` | kill and delete of a dead session, launch, the rest of `start`, the write to the map |
| `exec`, `failed`, `sweep`, `record` | `execute` and the error path of `handleStreamingEval`: `remove`, `recordError` |
| `aim`, `poll`, `drop` | `Session.interrupt` as the manager sees it, and the delete after a session that did not survive |
| `retire`, `await` | `kill`: the dead flag, then the process has ended; `back` holds the label to go on at |
| `rest`, `reap` | `reapDeadOwners`: collect under the lock, then close one key after the other |
| `serving`, `closing`, `stopping`, `exited` | listener open, listener closed, sessions being killed, process exited |

`sess` and `key` are the handler's locals. `named` are sessions that were given an
id, `home` is the key a session was started for, `raised` remembers that an eval
ended in an `evalError`. `retired` is a history variable. A connection accepted
before the listener closed may deliver its request later, so arrivals are not
bound to `serving`. After `stop` the code's reaper may run at most one more pass;
the model lets it go on, which only adds behaviours. When the daemon has exited
(`~Running`) no goroutine moves any more, wherever its `pc` is; interpreters that were
left alive may still exit by themselves.

Abstractions: keys are values with distinct `String()` forms (a label never reads
like another key); ids are the sessions themselves (8 random letters, tested
against the map); `ownerDead` is membership in `lostOwners`; an eval returns,
raises, breaks or is cancelled. A process may exit at any time, and at the hand of an
eval's disconnect watcher it is marked dead as well (`Watched`). The listener also closes
when `Accept` fails (`IdleClose` stands for both). The busy mark is not in this module, so
whether an interrupt finds an eval that has begun busy is left open.

### Session and the code

`pc[c]` walks through `execute`: `acquire` (the select on `sem` and the context),
`check` (`dead`), `mark` (`busySince`), `write`, `scan`, `status`, then the
deferred calls in Go's order: `unbusy`, `notify` (`close(evalDone)`), `release`,
and the handler's `cancel` as `cleanup`. `irq[i]` is a goroutine inside
`interrupt`: the watcher of caller `i` or an interrupt request. `spawned` is a
watcher before its select, `parked` one inside it; when both its channels are
ready, either case may be taken. `polls` counts ticks of the poll up to `Grace`,
where the deadline fires. `stage` and `code` are the interpreter: code in the pipe
(`read`), code running (`run`), code done (`wrote`). `aim` is history: the caller
that was busy when the interrupt began.

Abstractions: output and process end together; both streams are one `sentinel`;
the status channel holds at most one frame;
`Interrupted` stands for all four runtimes' ways to receive an interrupt, also at the
statement that prints the sentinel, which is then never printed, and for a signal that has
no effect; one `kill` per session, whose graces and `SIGTERM`
are one step, during which the process may also exit by itself. The control stream
is refined by `ControlChannel`, the output by `SentinelScan`.

### Startup, ControlChannel and the code

`state` follows `start`: `launched` and `loading` are its two calls of `executeRaw`
(the startup output and the bootstrap statement), `handshake` is the receive from
`acceptControl`, `kill` the cleanup of a failed start. `acc` is the accept loop and
the `select` after it, `ln` the listener, `late` the deadline, `won` the channel of
capacity one that authenticated connections are put into, `control` what start keeps.
A connection walks from the backlog to its goroutine, which reads a token, nothing or
something else. Only the runtime knows the token. Languages differ in when they dial:
Python at launch, the others after the bootstrap.

`pc` of `ControlChannel` follows one eval: `write` (the drain, then the code),
`scan` (the sentinel), `status` (the bounded wait). `lines` is `ctrlLines`, `reader`
the line the reader goroutine has in hand, `partial` half a line in its buffer, `wire`
the socket. An OK line is one token, an ERR line, which may be larger than any buffer,
two. `Parse` is `parseControlLine`: anything that is not a whole ERR line is a success.
`stage` is where the runtime is in the wrapped call: before its `try`, in user code,
about to report, reported but still inside the `try`, in the handler, half way through
the ERR line, at the sentinel statement. `outcome` is what became of the user's code; it is
`unshown` when Julia could not show the value and `unrendered` when a handler threw while it
rendered the error, which happens outside of every `try` and leaves the eval without a line.
The process may exit by itself at every stage. An interrupt is a byte for Python and Julia
(a listener thread looks at `_BUSY` in one step and interrupts in another; a listener
task throws into the eval's task) and a signal for R; `Notice` lists where it may strike
and what is left undone there, before the handlers are in place (`entry`, in Python and in R)
included; Python's `_BUSY` is set one statement before the `try`, for which `ListenPython`
has a look at `entry` that may find either. `hit`, `torn` and `inflight` are history: evals
an interrupt struck in, evals it left half an ERR line of, and evals with a line on its way
at the last drain.

`ControlSession` runs the channel once `start` has returned and shares the language and
the process. Taken as given: two seconds are enough for a line that was written.
Abstractions: a stray does not guess the token; the texts of errors are left out; the
Wolfram runtime, which is signalled like R, is not told apart, and where its kernel
notices a signal is not in the repository.

### DaemonSocket and the code

`pc[d]` follows `listenExclusive`: `bind` (which works, finds a file, or fails for a reason
of its own: a directory that cannot be written to, a path that is too long), `dial`,
`ask` (the ping is sent), `stale` (about to remove the file, which may fail and is not
looked at); then `listen`, because
bind and listen are two system calls, `serve`, and the shutdown in its order: the
listener's close unlinks the path and closes the socket (`unlink`, `close`), sessions
are killed (`kill`), then the path is removed by name. `file` is what the path names:
the socket of a daemon, dead or alive, or something else. `at[c]` follows a client:
`ping` before `stop`, `dial` up to `Dials` times with a daemon started after the first
failure, `queued` in the listener's backlog, `accepted`. A daemon may crash at every
point. `unseen`, `rivals` and `troubled` are history. Taken as given: a daemon that listens answers
a ping within its second.

### The algorithms and the code

`SentinelScan` is `scanToSentinel` byte by byte: a read returns one byte and whatever is
buffered, `line` and `flushed` are its variables, `Safe` the part of a line that cannot
belong to the sentinel (`sentinelOverlap`). Its properties compare the emitted bytes with
definitions on the whole stream.

`CommandLine` takes an argument as a value that constants describe (is it a flag, and
which; a file; a version; an id): `parseArgs` goes over the arguments with a function from
how many were read to what is known by then (`ReadFrom`), `parseTarget` likewise over what
follows a verb (`AimFrom`), `Request` what is sent and `Key` what the daemon makes of it.
Its properties build lines from parts, as the usage does, and compare. `Usage` says what
form the parts have: own flags with their values, an executable that is no flag and no verb
or none, what follows it, and the code or the file. `Unambiguous` adds that no part can be
taken for another one; `Locate` leaves out the flags that verbs do not know. What a word after the executable is
follows the code (main.go:378), also where `docs/architecture.md` says otherwise: see
`MissingIsLaunchArg` and `DashesForceSplit` below. With a terminal for its standard input
(`Terminal`) the client reads no code from it and prints the usage (main.go:495-498).

`Owner` has a process table that changes by `Exit`, `Wait` and `Fork`; `Ident` and
`Parent` are the two looks of each turn of `harnessPID`, `Info` the look at the start
time of what was found. A process stands for its start time; an `Opaque` one may hide it
(proc_windows.go). A look at a process in `Unreadable` may fail each time anew (no permission,
a hidden `/proc`, no descriptors left): `procInfo` then answers "not alive", as it does on
Linux (proc_linux.go:14-16, 26-29) and macOS (proc_darwin.go:7-9), its command line reads as
empty, and the walk breaks off where its parent cannot be read. `claimed` is history: the process that was meant. An exited process
that nobody has waited for still has its entry, as in `/proc`.

## Runs

| run | instance | shows |
|---|---|---|
| `manager_creation` | 2 keys, 3 sessions, 3 requests; plain, `--fresh` and label-only evals | `TypeOK`, `SingleStarter`, `RoutedHome`, `LabelOnlyNeverStarts`, `NoStartupLeak` |
| `manager_closing` | 1 key, 2 sessions, 3 requests; leased evals, close by id, interrupt, free, the reaper, the idle time-out | `EvictsOnlyTheDead`, `RetiredInHand`, refinement of `SessionRegistry` |
| `manager_liveness` | 1 key, 2 sessions, 2 requests; evals, close, interrupt, free, stop, the reaper | `EveryRequestAnswered`, `DeadOwnerCloses`, `RetiredIsKilled`, `DaemonStops` |
| `session_safety` | 2 callers, 1 interrupt request, a grace of 1 poll | `TypeOK`, `Serialised`, `NoCodeOutlivesItsCall`, `QueuedDisconnectHarmless`, refinement of `SerialEvaluator` |
| `session_liveness` | 1 caller, 1 interrupt request, a grace of 2 polls | `InterruptEnds`, `InterruptedEvalEnds`, `KillEndsProcess` |
| `session_queue` | 2 callers | `GoneDrains` |
| `control_session` | Julia, Python, R; 1 stray, 3 evals, 2 signals, a channel of 2, a socket of 1 token | `ControlIsRuntime`, `GivesUpLate`, `StartEnds`; `StatusIsOwn`, `OutcomeReported`, `AbortHasCause`, `CodeOverEvalEnds` |
| `daemon_socket` | 2 daemons, 2 clients, 2 attempts, 2 dials, crashes, a file left over, binds and removals that fail | `OnlyTheUnseenAreRobbed`, `RaceErrorIsTrue`, `CallEnds` |
| `algorithms` | streams of up to 6 bytes; 26716 lines; 3 processes on 3 ids, one of them not always readable | `Conserved`, `HeldBackMayBegin`, `FoundExactly`; `UsageIsParsed`, `CommandFindsEval`, `LabelReuses`; `LiveOwnerIsKept`, `DeathIsStable`, `NearestIsOwner` |

Three more runs each refute a statement of the repository; they are listed below.

The bounds.
*Manager*: two requests are enough to lead and to follow one creation, and to act on
a session another one uses; the third lets a successor be created between an act and
its consequence. Two keys tell flights apart. Two sessions are one and its successor, which
a delayed delete or kill could meet; a third one can be started beside them. When they are
used up, `Start` is disabled and only `StartFails` is left, as for an interpreter that
cannot be launched.
*Session*: two callers make a queue; a grace of one or two polls has a poll that sees
the eval end, one that does not, and the deadline. A call is made once per caller, so
these runs end and do not check for deadlock; what could be stuck is checked as liveness.
*Control*: a stray is either in the way or not; the third eval is the first that can
receive a line two evals old; two signals are a first one and a resent one; a channel of
two and a socket of one token can both be full.
*Socket*: with two daemons a third attempt cannot fail, so `Attempts` is 2, where "raced"
is reachable; two dials are one before and one after a daemon was started.
*Algorithms*: the sentinel `_x_` overlaps itself and fits twice into the stream, which
has room for line feeds and carriage returns before and after; lines have up to three
groups of own and interpreter flags, seven executables (none, with a language, a path,
unknown, one that reads as an id) and arguments that can be taken for others (a label
`close`, `-J run.jl`, `--session` after the executable, a script called with `close -e`);
three processes make a chain longer than the walk of two, and an id is reused.
Symmetry is used only in runs without liveness properties.

### Where the code does not do what the text says

| run | statement | what happens |
|---|---|---|
| `manager_reuse` | manager.go:138, "a live session for the key is reused as-is" | a late `remove` (daemon.go:244) takes a live successor out of the map; a second interpreter is started beside it |
| `session_lost_disconnect` | julia_integration_test.go:307, "client disconnect should have interrupted the orphaned eval" | the client leaves before the busy mark is set, the interrupt is a no-op |
| `daemon_socket_stolen` | daemon.go:274, `listenExclusive` binds "without stealing a live daemon's" | between a failed dial and the removal another daemon has bound the path and listens; a daemon at the end of its shutdown removes a successor's file |

More statements that the modules define and TLC refutes when they are given to it; no
configuration does:

| definition | statement | what happens |
|---|---|---|
| `SessionManager!FreedIsNeverReaped` | manager.go:227, "freed; it will not auto-close" | freed between the reaper's scan and its close (manager.go:240), the session is killed |
| `SessionManager!FreshIsNotHandedTheKilled` | README.md:49, "restart targeted session first" | the request kills a session whose creation has not landed yet, joins that creation and is handed the session it has killed |
| `SessionManager!ClosedIsKilled` | main.go:264, close will "Kill the session's interpreter and discard its state" | `shutdown` waits for the kills of its own list (manager.go:354-356): when the daemon exits while close, `--fresh` or the reaper is in its kill (manager.go:200, 213, 240), which takes seconds for an interpreter that hangs, that kill dies with it; the interpreter has lost its stdin and nobody can reach it |
| `Session!InterruptStopsAtReturn` | architecture.md:76, resends "until the eval returns" | the poll misses the return when the next eval begins at once, and the deadline (session.go:631) kills that one |
| `Session!FailedWriteMarksDead` | session.go:175, a useless session must not "stay alive and keep being reused" | the interpreter exits while idle, the failed write (session.go:410) leaves `dead` unset |
| `ControlChannel!InterruptsOnlyMidEval` | runtime.py:61, "a late/stray byte can't fire at the idle prompt" | `_BUSY` is looked at and acted on in two steps; an interrupt that strikes the sentinel statement leaves the eval waiting until the session is killed. `CodeOverEvalEnds` leaves Python out for that |
| `ControlChannel!EndIsDeath` | session.go:452, "control EOF: death is reported via the stdout scan" | a process that ends between sentinel and status line makes the eval a success: the scan is over by then |
| `ControlChannel!MissingOnlyIfInterrupted` | session.go:445-447, a status line is "missing only when an interrupt aborted the eval pre-handler" | a Julia value that cannot be shown (runtime.jl:247) and an error that cannot be rendered (runtime.jl:255, runtime.R:86) throw outside of every `try`: no line is written and the eval is told that it was interrupted |
| `SentinelScan!SentinelIsNotStreamed` | session.go:316, output "until the closing sentinel line" | a read that ends between CR and LF: the sentinel is sent to the client. The runtimes of the repository write no CR |
| `CommandLine!StdinIsRead` | main.go:243, `repld <exe> -` | `-` is forwarded to the interpreter and no code is evaluated |
| `CommandLine!MissingIsLaunchArg` | docs/architecture.md:19, the file is the first word after `<exe>` "naming an existing regular file (missing → launch arg)" | straight after the executable any word is the file (main.go:378): `julia new.jl` is sent in file mode though there is no such file |
| `CommandLine!DashesForceSplit` | docs/architecture.md:20, "`--` forces the split when a space-form flag value names a file (`-L setup.jl`)" | `julia -L setup.jl -- prog.jl` takes `setup.jl` for the program and the rest for its arguments: a word that names a file is looked at before the `--` is reached |
| `DaemonSocket!RacedWithAnother` | daemon.go:289, "raced with another daemon" | a bind that fails because the directory cannot be written to or the path is too long, or a file that cannot be removed, uses up the attempts and is told as a race |
| `Owner!NoLiveOwnerIsReaped` | proc_windows.go:33, "Access restrictions must not make us reap a live owner" | on Linux and macOS a look that fails for whatever reason counts as death, and the reaper closes the sessions of an owner that runs |
| `Owner!OnlyExecutables` | owner.go:57, "match executable basenames only" | every word of a command line is matched: a shell with an argument `/work/claude` is the owner, and its exit closes the session |

What some properties leave out, and why:

- `RetiredInHand` and `RetiredIsKilled` leave out a kill that a request or the reaper has
  begun and that dies with the daemon; nothing else is left out, and `ClosedIsKilled`, which
  leaves out nothing, does not hold.
- `OutcomeReported` speaks of evals that were given a line of their own, and of those that
  found the end of the stream, however many were interrupted before; lines of earlier evals
  are the matter of `StatusIsOwn`. It names the two ways in which a status may be wrong: the
  error after half an ERR line, and the end of the stream after an interrupt or after a value
  or an error that could not be shown. In both the code reads a success.
- `AbortHasCause` says the same of a missing line: an eval that ran undisturbed to its
  sentinel has written one.
- `RaceErrorIsTrue` leaves out daemons whose own bind of a free path or own removal failed.
- `LiveOwnerIsKept` leaves out owners that cannot be read, `NearestIsOwner` ancestors that
  cannot; `DeathIsStable` leaves out leases without a start time.
- `UsageIsParsed` and `LabelReuses` are about lines in which no word of the interpreter's
  names a file or an eval flag.

Things the models show the code doing, where the text leaves open whether it should:

- *Manager and daemon*: an eval that fails while its session is closed saves its traceback
  after the close has cleared it; a session may be replaced between the resolution of its
  id and the command; the idle watchdog shuts down under an eval that runs longer than its
  time-out.
- *Control*: a Python or R eval interrupted after its report brings two lines,
  and from then on each eval may be given the line of the one before. Half an ERR line,
  left by an interrupt, makes the next error read as success. A connection that wins after `start` has given up is
  never closed.
- *Command line*: `--code` of wolfram is not known when only a label is given, and `-c`
  then evaluates without printing; an executable whose name has only letters of ids (k to
  z) is taken for an id by the verbs; after a verb, `--socket` and `--owner-pid` are not
  known and their values are taken for executables; `<exe> -J file` takes the file for the
  program and what follows for its arguments, a later `-e` included; a session created
  with `--lang julia myjl` is found by a verb only if `--lang` is repeated; `--fresh
  --session a notexe` clears the session and then fails for want of a language.
- *Owner*: when the harness exits between the look that found it and the look at its start
  time, the lease has no start time and a stranger with that id keeps the session; a
  harness that is process 1, as in a container, is not found.

## Fairness

`SessionManager!FairSpec`: weak fairness of each request goroutine, of the reaper
and of the stopper. Go schedules runnable goroutines; `start` and `kill` are
bounded by time-outs; the reaper has a ticker. It includes that an eval returns,
which the manager cannot enforce; `Session` shows what ends one that does not.
Nothing obliges clients to send, owners or interpreters to exit, or the idle
time-out to pass.

`Session!FairSpec`: weak fairness of each caller, of each goroutine in `interrupt`
(its timers fire), of a kill that has begun, and of the runtime around the user's
code. The user's code need not end, signals need not arrive, clients need not
leave.

`ControlSession!FairSpec`: in `Startup`, of `start`, of `acceptControl`, of the goroutine
of each connection, of the deadline and of the close of the listener; not of the
interpreter, which may hang, nor of strays. In `ControlChannel`, of the eval, of the
reader goroutine, of the runtime's main thread outside user code, of its listener and of
`interrupt`, each taken as one process that goes on when it can.

`DaemonSocket!FairSpec`: of each daemon's start and of its shutdown once it was told to
stop, and of each client that has called. Nothing makes a daemon crash, turn idle or be
called.

The properties of `algorithms` need none.

## Proofs

All theorems hold for every value of the constants, under the assumptions that
the modules state: identities are distinct (`IdentityAssumption`, `SocketAssumption`,
`ControlAssumption`, `OwnerAssumption`), label-only requests come without a language, as
the client makes them (`JobsAssumption`, main.go:157-159), the grace is at least one poll
(`SessionAssumption`), capacities are positive, process ids are above 1.

`SessionManagerProofs`. The safety properties are not inductive by themselves. That
an eviction deletes only the dead session depends on nobody else writing the map
under that key, which depends on who leads the key's flight. `IInv` collects
this: `ControlOK` (which locals are set at which label), `FlightOK` (a leader owns
its key's flight), `SlotOK` (between a leader's lookup and its write the key has no
other session, and the language is known), `HomeOK` (sessions are where they were
started; what is on its way into the map is new), `NoStartupLeak` and
`RetiredInHand`. Each conjunct has a lemma with one step per action;
`StepInvariant` combines them. Then `TypeCorrect`, `StartsOneAtATime`,
`EvictionIsExact`, `Routing`, `LabelsNeedASession`, `StartsDoNotLeak` and
`RetirementsAreSeenThrough` follow, and `RegistryStep` shows that each step is a
step of `SessionRegistry` or a stutter, which gives `ImplementsRegistry`.

The converse of `FlightOK`, `FlightIsLed`, is kept beside the invariant: a flight that is
taken belongs to a goroutine that is leading it, under its key, and only a taken flight is
waited for. `WaitersAreLed` follows: a request that waits for another's creation always
waits for a goroutine that is at work on that key and waits for no request itself. It is
the safety half of `EveryRequestAnswered`.

`SessionProofs`. `IInv` adds to the properties that whoever is inside `execute`
holds the semaphore (`LockOK`), that a process that is gone works on nothing
(`GoneOK`), that code is in its hands only while it works on it (`IdleOK`), and that
callers which were not let in have no watcher (`QueueOK`). `EvaluatorStep` shows each
step to be a step of `SerialEvaluator` or a stutter, with one step per action; what it
needs of the invariant is that while the holder of the session is not scanning, the
interpreter has no code (`LettingGo`). That gives `ImplementsEvaluator`.
`TurnsArePassedOn` says that the semaphore is held by a caller inside `execute` and is
never left behind by one that has returned, whichever way it went: the safety half of
`GoneDrains`.

`DaemonSocketProofs`. That only a daemon which could not be seen loses its file needs what
a starting daemon knows at each point: whoever was listening when it dialled does not bind
any more (`SeenAreBound`), of those only the one it asked may own the file (`AskedOwner`),
and when that one did not answer it has stopped listening (`StaleOwner`, with `OpenServes`).
That a race was one, or a system call of the daemon's own failed, needs that after a removal
a file is there only if another daemon made it or the removal failed (`RivalMadeIt`).

`ControlSessionProofs`. The part about the channel counts lines. As long as no interrupt has struck, or
the language is Julia, an eval's report is all there is on its way, and how much of it is
there depends on the stage (`Counted`, with `InStep`); after that, lines belong to the
current eval or to one since the first that was interrupted, and once an eval is under way
only to those that were on their way at the drain (`Owned`). An eval without an interrupt
whose value could be shown has a complete line on its way from its report to its status
(`Reported`), so its bounded wait cannot run out. `StatusIsTheEvalsOwn` and
`AbortsHaveACause` follow.

For `OutcomeIsReported` a second invariant says what the lines of the current eval are,
whoever's lines are around them and however many evals were interrupted before: what has
been sent at each stage (`OutcomeKnown`); of code that failed no OK line, of code that did
not fail an OK line first (`ErrLines`, `OkLines`); and as long as no earlier eval has left
half a line behind every first half is followed by its second, which is still to come
(`Whole`, with `TornOver` and `Bounded`).

The part about the handshake needs only the steps of `Startup`. A connection wins only with the
token (`TokenHeld`), which strays do not have; the runtime dials once (`DialledOnce`), so
its connection is not replaced; a winner is in the channel until it is taken, and only a
failed start closes it (`WinnerKept`); and when the listener is closed while
`acceptControl` still looks, there is a winner or start has failed (`ClosedForCause`). `ControlIsTheRuntimes` and
`StraysDoNotMatter` follow.

`OwnerProofs`. As long as the owner runs, its id is its own and the start time is its or
unread (`Meant`); and the process of a start time has been started (`Started`), so that it
cannot be the one that is given the id later. `LiveOwnersAreKept` and `DeadStayDead` follow.
For `NearestIsTaken` the invariant speaks about the whole line of ancestors: there is a
function that starts with the parent of the client, goes from each process to its parent
and stays what it is while processes are only added (`LineIsThere`, `LineStays`); the walk
stands on it at the place it has counted, and what it has passed was no harness
(`OnTheWay`, `NoneBefore`). All this is said of states where nobody has exited (`Walked`),
in which every parent is there or is process 1 (`Rooted`). That the recursive function
`Ancestor` of the property is that line (`AncestorIsTheLine`) is shown with `Least`.

`SentinelScanProofs`. Between two steps of the scan the bytes that were read are, in this
order, what was emitted, what is held back of the line, and what is left of the read
(`Conserved`); no byte that may begin the sentinel has been emitted, and while a read is
waited for all other bytes of the line have (`FlushedIsSafe`); and when the line turns out
to end with the sentinel nothing of that was emitted, unless a read was cut between a
carriage return and a line feed (`NotPassed`). With the fact
that `Safe` keeps back the longest end of a line which begins the sentinel, shown with
`Greatest`, this gives `NothingIsLost`, `NothingIsHeldBack` and `OutputIsExact`.

`CommandLineProofs`. The theorems are about any line: any arguments, any number of own
flags, of the interpreter's groups and of the script's arguments, and any reading of the
arguments that `CommandLineAssumption` allows: what may be a flag is no file, no version and
no id, `--` and `--session` are flags without a value in them, a verb is no flag, and the
empty argument is none of these. The lemmas follow a line from left to right. After the own
flags the last value of each is known and nothing else (`OwnRead`, with `GivenMore` for a
repeated flag); the executable closes them (`ExeRead`), and what follows it up to the code or
the file is forwarded (`InterpRead`); then `CodeLine` and `FileLine` say what an eval flag
and a file do to the rest. `UsageParsed` puts them together. `LabelReaches` compares such a
line with one that has only the label; there the eval flag is understood without a language
(`ModeWithoutLang`). `EvalIsFound` supposes less of the line, which need not be unambiguous:
whatever comes after the executable, or after the first argument that is forwarded where
there is none, leaves language, label and executable as they are (`Settled`), and a verb
finds the same three in its own loop, whether the flags stand before it (`CloseAfterFlags`)
or behind it (`CloseBeforeFlags`).

Each loop is a recursive function over the positions of its argument: that there is one such
function, and that it goes on over a longer sequence as it began (`ReadMore`, `ReadOn`, and
the like for `AimFrom` and `FlattenSeq`), is shown first. `SeqInduction` says that a set
which holds the empty sequence, and with each sequence those that are one longer, holds all;
with it a lemma about one argument becomes one about any number of them.

`LeastNumber`. The theorems of the library for induction have an operator as parameter,
which the provers cannot instantiate. A set of numbers that is not empty has a least
element (`Least`), and one that is bounded a greatest (`Greatest`), is an induction
without such a parameter; both are derived from the theorem that the subsets of a finite
set are well-founded.

Every invariant and action property of a passing run is stated by a theorem. Only
model-checked: liveness, since fairness and `ENABLED` are out of the prover's reach, and the
refuted statements.

## Not modelled

- The pid file, which nothing reads, and file modes.
- The kept tail of the output and the session's log, framing and printing of answers, the
  hexadecimal texts of errors, how a runtime renders them.
- The spelling of argv, of wrapped code and of the sentinel statement; two keys whose
  `String()` forms coincide.
- Where the Wolfram kernel notices a signal, which is not in the repository.
- Code that closes its own output, and children that inherit it: output and process are
  taken to end together.
- How each platform reads its process table, beyond a look that fails or a start time it hides.
- Installation, releases and skill files.

## Plan

Done, in this order: the registry and the manager all requests meet in, the session, the
socket, the handshake and the control channel with their composition, the sequential
algorithms, the owner; and the proofs. What would add most from here:

1. `SessionManager` composed with a `SerialEvaluator` for each session, which `Session` is
   shown to implement: an eval runs at most once, in the session it was told, and is answered
   once. The two share the steps of the semaphore and of the kill; with the evaluator in
   place of `Session` the product is small enough for TLC.
2. The theorems of that composition.
3. A model of inherited file descriptors, for the hazards at session.go:414.
