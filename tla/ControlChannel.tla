--------------------------- MODULE ControlChannel ----------------------------
(***************************************************************************)
(* The control connection of one running session: status frames go out and *)
(* interrupts come in.  At the Go end executeRaw drains, writes, scans and *)
(* waits for the status line that the reader goroutine of start puts into  *)
(* ctrlLines (go/session.go); at the other end is the runtime of one of    *)
(* three languages (runtime.jl, runtime.py, runtime.R), which differ in    *)
(* where an interrupt may strike.  Evals come one at a time (Session).     *)
(* Taken as given: 2 s are enough for a frame that has been written, and   *)
(* user code does not write to the control socket itself.                  *)
(***************************************************************************)
EXTENDS Naturals, Sequences

CONSTANTS
    Evals,      \* evals to be run
    ChanCap,    \* capacity of s.ctrlLines: 8
    WireCap,    \* tokens the socket takes before a write blocks
    Signals     \* interrupts one call sends: at once, and every 250 ms

ChannelAssumption ==
    /\ Evals \in Nat /\ Signals \in Nat
    /\ ChanCap \in Nat \ {0} /\ WireCap \in Nat \ {0}

Langs == {"julia", "python", "R"}

VARIABLES
    lang,       \* of the session
    proc,       \* the interpreter: off, up or gone
    eval,       \* number of the current or the last eval, 0 before the first
    pc,         \* of the eval: idle, write, scan, status
    got,        \* what the last eval has returned: a status, and whose it was
    lines,      \* s.ctrlLines
    reader,     \* the complete line the reader goroutine has in hand
    partial,    \* what it has of an incomplete one
    wire,       \* tokens of status lines on their way; an ERR line is two
    stage,      \* of the runtime
    outcome,    \* how the code of the eval ended
    sentinel,   \* the sentinel is on stdout and stderr
    pending,    \* an interrupt the main thread has not noticed yet
    checked,    \* runtime.py's listener has seen _BUSY and not yet acted on it
    bytes,      \* interrupt bytes on their way
    irq, sent,  \* a call of Session.interrupt, and the signals it has sent
    hit,        \* history: evals that were interrupted
    torn,       \* history: of those, the ones that left half an ERR line behind
    inflight    \* history: evals with a frame on its way at the last drain

goVars == <<eval, pc, got, inflight>>
readerVars == <<lines, reader, partial>>
runtimeVars == <<stage, outcome, sentinel, hit, torn>>
irqVars == <<irq, sent>>
channelVars == <<goVars, readerVars, wire, runtimeVars, pending, checked, bytes, irqVars>>
vars == <<lang, proc, channelVars>>

Line(n, st) == [of |-> n, st |-> st]
NoLine == Line(0, "none")
Tokens == [of : 1 .. Evals, st : {"ok", "head", "err"}]
Parsed == [of : 1 .. Evals, st : {"ok", "err"}]

TypeOK ==
    /\ lang \in Langs /\ proc \in {"off", "up", "gone"}
    /\ eval \in 0 .. Evals
    /\ pc \in {"idle", "write", "scan", "status"}
    /\ got \in [of : 0 .. Evals, st : {"none", "ok", "err", "aborted", "died", "ioerror"}]
    /\ lines \in Seq(Parsed) /\ Len(lines) <= ChanCap
    /\ reader \in Parsed \cup {NoLine}
    /\ partial \in {"none", "head", "broken"}
    /\ wire \in Seq(Tokens) /\ Len(wire) <= WireCap
    /\ stage \in {"idle", "entry", "run", "report", "reported", "handler", "headed", "sentinel"}
    /\ outcome \in {"none", "ok", "err", "unshown", "unrendered"}
    /\ sentinel \in BOOLEAN /\ pending \in BOOLEAN /\ checked \in BOOLEAN
    /\ bytes \in 0 .. Signals
    /\ irq \in {"off", "send", "loop", "over"} /\ sent \in 0 .. Signals
    /\ hit \in SUBSET (1 .. Evals) /\ torn \in SUBSET hit
    /\ inflight \in SUBSET (1 .. Evals)

ChannelInit ==
    /\ eval = 0 /\ pc = "idle" /\ got = NoLine /\ inflight = {}
    /\ lines = <<>> /\ reader = NoLine /\ partial = "none" /\ wire = <<>>
    /\ stage = "idle" /\ outcome = "none" /\ sentinel = FALSE
    /\ hit = {} /\ torn = {}
    /\ pending = FALSE /\ checked = FALSE /\ bytes = 0
    /\ irq = "off" /\ sent = 0

Init == lang \in Langs /\ proc = "up" /\ ChannelInit

-----------------------------------------------------------------------------
(* execute and executeRaw.                                                 *)

Return(line) == pc' = "idle" /\ got' = line

\* execute has the semaphore, the session is not dead; busySince is stored.
Begin ==
    /\ pc = "idle" /\ eval < Evals /\ proc = "up"
    /\ eval' = eval + 1 /\ pc' = "write" /\ got' = NoLine
    /\ outcome' = "none"
    /\ UNCHANGED <<lang, proc, inflight, readerVars, wire, stage, sentinel, hit, torn,
                   pending, checked, bytes, irqVars>>

Ahead == {wire[i].of : i \in DOMAIN wire} \cup ({reader.of} \ {0})

Submit ==
    \/ proc = "up" /\ stage' = "entry" /\ pc' = "scan" /\ UNCHANGED got
    \/ proc # "up" /\ Return(Line(0, "ioerror")) /\ UNCHANGED stage

\* Fault: stranded status lines are not discarded.
WriteUndrained ==
    /\ pc = "write" /\ Submit
    /\ inflight' = Ahead
    /\ UNCHANGED <<lang, proc, eval, readerVars, wire, outcome, sentinel, hit, torn, pending,
                   checked, bytes, irqVars>>

\* The drain empties what is in the channel by now; what is still on its way
\* comes later.  Then the code and the sentinel statement go down the pipe.
Write ==
    /\ pc = "write" /\ Submit
    /\ lines' = <<>> /\ inflight' = Ahead
    /\ UNCHANGED <<lang, proc, eval, reader, partial, wire, outcome, sentinel, hit, torn,
                   pending, checked, bytes, irqVars>>

Scan ==
    /\ pc = "scan"
    /\ \/ sentinel /\ sentinel' = FALSE /\ pc' = "status" /\ UNCHANGED got
       \/ ~sentinel /\ proc = "gone" /\ Return(Line(0, "died")) /\ UNCHANGED sentinel
    /\ UNCHANGED <<lang, proc, eval, inflight, readerVars, wire, stage, outcome, hit, torn,
                   pending, checked, bytes, irqVars>>

\* The bounded wait: the first line, the end of the stream (success), or a
\* time-out when no line is there or coming.
Status ==
    /\ pc = "status"
    /\ \/ lines # <<>> /\ Return(Head(lines)) /\ lines' = Tail(lines)
       \/ /\ lines = <<>> /\ Ahead = {}
          /\ Return(Line(0, IF proc = "gone" THEN "ok" ELSE "aborted"))
          /\ UNCHANGED lines
    /\ UNCHANGED <<lang, proc, eval, inflight, reader, partial, wire, runtimeVars,
                   pending, checked, bytes, irqVars>>

-----------------------------------------------------------------------------
(* The reader goroutine, and parseControlLine: anything that is not a whole *)
(* ERR line is read as success.                                            *)

\* What a line is that ends in token t, after what partial says.
Parse(t) == Line(t.of, IF t.st = "err" /\ partial = "head" THEN "err" ELSE "ok")

\* Fault: what one read returns is taken for a line.
ReadChunk ==
    /\ wire # <<>> /\ reader = NoLine
    /\ reader' = Parse(Head(wire)) /\ wire' = Tail(wire)
    /\ UNCHANGED <<lang, proc, goVars, lines, partial, runtimeVars, pending, checked,
                   bytes, irqVars>>

\* Fault: nobody reads the socket before the sentinel has been seen.
ReadLate ==
    /\ wire # <<>> /\ reader = NoLine /\ pc = "status"
    /\ wire' = Tail(wire)
    /\ IF Head(wire).st = "head"
       THEN partial' = (IF partial = "none" THEN "head" ELSE "broken") /\ UNCHANGED reader
       ELSE reader' = Parse(Head(wire)) /\ partial' = "none"
    /\ UNCHANGED <<lang, proc, goVars, lines, runtimeVars, pending, checked, bytes, irqVars>>

Read ==
    /\ wire # <<>> /\ reader = NoLine
    /\ wire' = Tail(wire)
    /\ IF Head(wire).st = "head"
       THEN partial' = (IF partial = "none" THEN "head" ELSE "broken") /\ UNCHANGED reader
       ELSE reader' = Parse(Head(wire)) /\ partial' = "none"
    /\ UNCHANGED <<lang, proc, goVars, lines, runtimeVars, pending, checked, bytes, irqVars>>

\* Fault: a line that nobody waits for is dropped.
DeliverOrDrop ==
    /\ reader # NoLine
    /\ lines' = IF pc = "status" THEN Append(lines, reader) ELSE lines
    /\ reader' = NoLine
    /\ UNCHANGED <<lang, proc, goVars, partial, wire, runtimeVars, pending, checked,
                   bytes, irqVars>>

Deliver ==
    /\ reader # NoLine /\ Len(lines) < ChanCap
    /\ lines' = Append(lines, reader) /\ reader' = NoLine
    /\ UNCHANGED <<lang, proc, goVars, partial, wire, runtimeVars, pending, checked,
                   bytes, irqVars>>

-----------------------------------------------------------------------------
(* The main thread of the runtime.  A Python flag is noticed before the    *)
(* next step; R looks for a signal now and then; a Julia task is hit by    *)
(* the listener itself.                                                    *)

Free == proc = "up" /\ (lang = "python" => ~pending)
To(st) == stage' = st
Send(st) == Len(wire) < WireCap /\ wire' = Append(wire, Line(eval, st))

\* The wrapped call begins; R discards a signal left over from the eval before.
Enter ==
    /\ Free /\ stage = "entry" /\ To("run")
    /\ pending' = FALSE
    /\ UNCHANGED <<lang, proc, goVars, readerVars, wire, outcome, sentinel, hit, torn, checked,
                   bytes, irqVars>>

\* The user's code returns or raises.
CodeEnds ==
    /\ Free /\ stage = "run"
    /\ \/ To("report") /\ outcome' = "ok"
       \/ To("handler") /\ outcome' = "err"
    /\ UNCHANGED <<lang, proc, goVars, readerVars, wire, sentinel, hit, torn, pending, checked,
                   bytes, irqVars>>

\* The OK line, from inside the try of runtime.py and the tryCatch of runtime.R.
\* runtime.jl shows the value first, outside of any try.
Report ==
    /\ Free /\ stage = "report"
    /\ \/ Send("ok") /\ To(IF lang = "julia" THEN "sentinel" ELSE "reported")
          /\ UNCHANGED outcome
       \/ lang = "julia" /\ To("sentinel") /\ outcome' = "unshown" /\ UNCHANGED wire
    /\ UNCHANGED <<lang, proc, goVars, readerVars, sentinel, hit, torn, pending, checked,
                   bytes, irqVars>>

Leave ==
    /\ Free /\ stage = "reported" /\ To("sentinel")
    /\ UNCHANGED <<lang, proc, goVars, readerVars, wire, outcome, sentinel, hit, torn, pending,
                   checked, bytes, irqVars>>

\* The ERR line, which may be larger than the socket's buffers.  Before that the
\* error is rendered (and stdout flushed), outside of any try: this may throw too,
\* and the eval is left without a line.
Handle ==
    /\ Free
    /\ \/ stage = "handler" /\ Send("head") /\ To("headed") /\ UNCHANGED outcome
       \/ stage = "headed" /\ Send("err") /\ To("sentinel") /\ UNCHANGED outcome
       \/ /\ stage = "handler" /\ To("sentinel") /\ UNCHANGED wire
          /\ outcome' = IF outcome = "err" THEN "unrendered" ELSE outcome
    /\ UNCHANGED <<lang, proc, goVars, readerVars, sentinel, hit, torn, pending,
                   checked, bytes, irqVars>>

PrintSentinel ==
    /\ Free /\ stage = "sentinel"
    /\ sentinel' = TRUE /\ To("idle")
    /\ UNCHANGED <<lang, proc, goVars, readerVars, wire, outcome, hit, torn, pending, checked,
                   bytes, irqVars>>

\* What the process has written can still be read when it is gone.
Gone == proc' = "gone" /\ To("idle") /\ pending' = FALSE /\ checked' = FALSE

\* The process crashes, or the user's code ends it.
ProcessExits ==
    /\ proc = "up" /\ Gone
    /\ UNCHANGED <<lang, goVars, readerVars, wire, outcome, sentinel, hit, torn, bytes,
                   irqVars>>

-----------------------------------------------------------------------------
(* Interrupts at the runtime's end.                                        *)

Busy == stage \in {"run", "report", "reported", "handler", "headed"}

\* The main thread of Python or R notices: user code may catch it, the try turns
\* it into an ERR line, a handler is left with its line unwritten or half
\* written, a call that has not come to its try is aborted, the sentinel
\* statement is lost.
Notice ==
    /\ pending /\ proc = "up" /\ lang \in {"python", "R"}
    /\ pending' = FALSE /\ hit' = hit \cup {eval}
    /\ torn' = IF stage = "headed" THEN torn \cup {eval} ELSE torn
    /\ \/ stage = "run" /\ UNCHANGED <<stage, outcome>>
       \/ stage \in {"run", "report", "reported"} /\ To("handler")
          /\ outcome' = IF stage = "reported" THEN outcome ELSE "err"
       \/ stage \in {"handler", "headed"} /\ To("sentinel") /\ UNCHANGED outcome
       \/ stage = "entry" /\ To("sentinel") /\ UNCHANGED outcome
       \/ stage = "sentinel" /\ To("idle") /\ UNCHANGED outcome
    /\ UNCHANGED <<lang, proc, goVars, readerVars, wire, sentinel, checked, bytes, irqVars>>

\* runtime.py's listener thread: a byte, a look at _BUSY (which is set when the
\* call has been entered and the try has not) ...
ListenPython ==
    /\ proc = "up" /\ lang = "python" /\ bytes > 0 /\ ~checked
    /\ bytes' = bytes - 1
    /\ \/ checked' = Busy
       \/ stage = "entry" /\ checked' = TRUE
    /\ UNCHANGED <<lang, proc, goVars, readerVars, wire, runtimeVars, pending, irqVars>>

\* ... and interrupt_main.
InterruptMain ==
    /\ proc = "up" /\ checked
    /\ checked' = FALSE /\ pending' = TRUE
    /\ UNCHANGED <<lang, proc, goVars, readerVars, wire, runtimeVars, bytes, irqVars>>

\* runtime.jl's listener task: the eval task gets the exception, if there is one
\* and it does not end first or catch it.
ListenJulia ==
    /\ proc = "up" /\ lang = "julia" /\ bytes > 0
    /\ bytes' = bytes - 1
    /\ \/ stage = "run" /\ To("handler") /\ outcome' = "err" /\ hit' = hit \cup {eval}
       \/ UNCHANGED <<stage, outcome, hit>>
    /\ UNCHANGED <<lang, proc, goVars, readerVars, wire, sentinel, torn, pending, checked,
                   irqVars>>

-----------------------------------------------------------------------------
(* Session.interrupt.                                                      *)

Interrupt ==
    /\ irq = "off" /\ pc # "idle" /\ proc = "up" /\ sent < Signals
    /\ irq' = "send"
    /\ UNCHANGED <<lang, proc, goVars, readerVars, wire, runtimeVars, pending, checked,
                   bytes, sent>>

\* A byte on the control connection; for R the process is signalled.
Signal ==
    /\ irq = "send" /\ irq' = "loop" /\ sent' = sent + 1
    /\ IF lang = "R" THEN pending' = (proc = "up") /\ UNCHANGED bytes
       ELSE bytes' = bytes + 1 /\ UNCHANGED pending
    /\ UNCHANGED <<lang, proc, goVars, readerVars, wire, runtimeVars, checked>>

Resend ==
    /\ irq = "loop" /\ pc # "idle" /\ sent < Signals
    /\ irq' = "send"
    /\ UNCHANGED <<lang, proc, goVars, readerVars, wire, runtimeVars, pending, checked,
                   bytes, sent>>

\* The poll finds no eval, or the deadline has come and the process is killed.
Settle ==
    /\ irq = "loop" /\ irq' = "over"
    /\ \/ pc = "idle" /\ UNCHANGED <<proc, stage, pending, checked>>
       \/ Gone
    /\ UNCHANGED <<lang, goVars, readerVars, wire, outcome, sentinel, hit, torn, bytes, sent>>

-----------------------------------------------------------------------------
GoStep == Write \/ Scan \/ Status
ReaderStep == Read \/ Deliver
MainStep == Enter \/ Report \/ Leave \/ Handle \/ PrintSentinel \/ Notice
ListenerStep == ListenPython \/ InterruptMain \/ ListenJulia
IrqStep == Signal \/ Settle

Next ==
    \/ Begin \/ GoStep \/ ReaderStep
    \/ CodeEnds \/ MainStep \/ ListenerStep
    \/ Interrupt \/ Resend \/ IrqStep
    \/ ProcessExits

Spec == Init /\ [][Next]_vars

\* Every goroutine, thread and process that can go on does; the user's code need
\* not end, and nobody has to call or to interrupt.
Fairness ==
    /\ WF_vars(GoStep) /\ WF_vars(ReaderStep)
    /\ WF_vars(MainStep) /\ WF_vars(ListenerStep) /\ WF_vars(IrqStep)

FairSpec == Spec /\ Fairness

-----------------------------------------------------------------------------
(* Properties.                                                             *)

Returned == eval > 0 /\ pc = "idle"

\* An eval is given the status of an earlier one only when that status was still on
\* its way at the drain, and only after an interrupt: an eval that is interrupted
\* after its report makes two lines, and from then on each eval may be given the
\* line of the one before.  In Julia never (session.go:186, 383).
StatusIsOwn ==
    Returned /\ got.of \notin {0, eval} =>
        /\ got.of \in inflight
        /\ \E n \in hit : n <= got.of
        /\ lang # "julia"

\* An eval that is given a status of its own, or none because the stream ended, is
\* given what became of its code (parseControlLine, session.go:284, and 443-459),
\* with two exceptions.  An interrupt that left half an ERR line behind spoils the
\* line after it, so that a later eval's error is read as success; and the end of
\* the stream is read as success also when the code had been interrupted or its
\* value or error could not be shown.  An error is never made up.
\* (Whose status else an eval may be given is StatusIsOwn's matter.)
OutcomeReported ==
    Returned /\ got.st \in {"ok", "err"} /\ got.of \in {0, eval} /\ got.st # outcome =>
        /\ got.st = "ok"
        /\ \/ got.of = eval /\ outcome = "err" /\ \E n \in torn : n < eval
           \/ /\ got.of = 0 /\ proc = "gone"
              /\ eval \in hit \/ outcome \in {"unshown", "unrendered"}

\* No eval that runs undisturbed to its sentinel is left without a status line:
\* "Interrupted (eval aborted before reporting status)" (session.go:456), and the
\* success that is read from the end of the stream (session.go:452), are said only
\* of an eval that was interrupted, or whose value or error could not be shown.
AbortHasCause ==
    Returned /\ got.of = 0 /\ got.st \in {"ok", "aborted"} =>
        eval \in hit \/ outcome \in {"unshown", "unrendered"}

\* Once its code is over an eval returns, however large its error is and whatever
\* is interrupted; except in Python, where a byte read late may cost the sentinel.
CodeOverEvalEnds == lang # "python" /\ stage \in {"report", "handler"} ~> pc = "idle"

\* Refuted: session.go:452, "control EOF: death is reported via the stdout scan": an
\* eval that found the stream's end and not its line is told that the process died.
EndIsDeath == Returned /\ proc = "gone" /\ got.of = 0 => got.st # "ok"

\* Refuted: session.go:445-447, the status line is "missing only when an interrupt
\* aborted the eval pre-handler".
MissingOnlyIfInterrupted == Returned /\ got.st = "aborted" => eval \in hit

\* Refuted: runtime.py:61, "a late/stray byte can't fire at the idle prompt": an
\* interrupt strikes only while _BUSY.
InterruptsOnlyMidEval ==
    [][lang = "python" /\ pending /\ ~pending' /\ proc' = "up" => Busy]_vars
=============================================================================
