------------------------ MODULE ControlSessionProofs -------------------------
(***************************************************************************)
(* Proofs about ControlSession, for any number of evals, signals and stray *)
(* connections and any capacities.  Of the channel: whose status an eval   *)
(* is given, when it may be told that it was aborted, and that the status  *)
(* is what became of its code.  Of the startup: a session that has started *)
(* has its own runtime at the other end of its control connection, and     *)
(* strays cannot make the handshake give up.                               *)
(***************************************************************************)
EXTENDS ControlSession, SequenceTheorems, TLAPS

(***************************************************************************)
(* Sequences of status lines.                                              *)
(***************************************************************************)

Frames == [of : Nat \ {0}, st : {"ok", "err", "head"}]

\* All lines of s are of evals in E.
Within(s, E) == \A i \in 1 .. Len(s) : s[i].of \in E

\* The last token of s ends a line.
Complete(s) == Len(s) > 0 /\ s[Len(s)].st # "head"

\* What is left when the first token has been taken.
LEMMA TailOf ==
    ASSUME NEW s \in Seq(Frames), s # <<>>, NEW E
    PROVE  /\ Tail(s) \in Seq(Frames) /\ Len(Tail(s)) = Len(s) - 1
           /\ Head(s) = s[1] /\ Head(s) \in Frames
           /\ Within(s, E) => Within(Tail(s), E) /\ Head(s).of \in E
           /\ Complete(s) /\ Len(s) > 1 => Complete(Tail(s))
           /\ Len(s) = 1 => Tail(s) = <<>>
           /\ Len(s) = 2 => Len(Tail(s)) = 1 /\ Tail(s)[1] = s[2]
<1>1. Len(s) \in Nat /\ Len(s) > 0 OBVIOUS
<1>2. /\ Tail(s) \in Seq(Frames) /\ Len(Tail(s)) = Len(s) - 1
      /\ Head(s) = s[1] /\ Head(s) \in Frames
  BY <1>1
<1>3. \A i \in 1 .. Len(Tail(s)) : Tail(s)[i] = s[i + 1]
  BY <1>1
<1>4. Within(s, E) => Within(Tail(s), E) /\ Head(s).of \in E
  BY <1>1, <1>2, <1>3 DEF Within
<1>5. Complete(s) /\ Len(s) > 1 => Complete(Tail(s))
  BY <1>1, <1>2, <1>3 DEF Complete
<1>6. Len(s) = 1 => Tail(s) = <<>>
  <2>1. ASSUME NEW t \in Seq(Frames), Len(t) = 0 PROVE t = <<>>
    BY <2>1, EmptySeq
  <2>2. Len(s) = 1 => Len(Tail(s)) = 0 BY <1>2
  <2>3. QED BY <1>2, <2>1, <2>2
<1>7. Len(s) = 2 => Len(Tail(s)) = 1 /\ Tail(s)[1] = s[2]
  <2>1. SUFFICES ASSUME Len(s) = 2 PROVE Len(Tail(s)) = 1 /\ Tail(s)[1] = s[2]
    OBVIOUS
  <2>2. Len(Tail(s)) = 1 BY <1>2, <2>1
  <2>3. 1 \in 1 .. Len(Tail(s)) /\ 1 + 1 = 2 BY <2>2
  <2>4. QED BY <1>3, <2>2, <2>3
<1>8. QED BY <1>2, <1>4, <1>5, <1>6, <1>7

\* What there is when a token has been added.
LEMMA AppendOf ==
    ASSUME NEW s \in Seq(Frames), NEW t \in Frames, NEW E
    PROVE  /\ Append(s, t) \in Seq(Frames) /\ Len(Append(s, t)) = Len(s) + 1
           /\ Append(s, t) # <<>>
           /\ \A i \in 1 .. Len(s) : Append(s, t)[i] = s[i]
           /\ Append(s, t)[Len(s) + 1] = t
           /\ Within(s, E) /\ t.of \in E => Within(Append(s, t), E)
           /\ Complete(Append(s, t)) <=> t.st # "head"
BY DEF Within, Complete

(***************************************************************************)
(* The inductive invariant.                                                *)
(***************************************************************************)

\* Lines are lines of some eval, and only evals that have begun were interrupted.
Typed ==
    /\ lines \in Seq(Frames) /\ wire \in Seq(Frames)
    /\ reader \in Frames \cup {C!NoLine}
    /\ eval \in Nat /\ hit \subseteq 0 .. eval /\ torn \subseteq hit
    /\ pc # "idle" => eval > 0
    /\ proc \in {"off", "up", "gone"}

\* Nothing of the channel is in use before start has returned.
Unused ==
    /\ state # "started" => C!ChannelInit
    /\ proc = "off" => state = "off"

\* The runtime works on an eval only while its output is scanned, and the sentinel
\* is the last thing it writes.
InStep ==
    /\ pc # "scan" \/ sentinel \/ proc # "up" => stage = "idle"
    /\ pc # "scan" => ~sentinel
    /\ pc # "idle" => proc # "off"

\* The evals a late line may come from: those since the first that was interrupted.
Stale == {k \in Nat : lang # "julia" /\ \E n \in hit : n <= k}

\* The evals that the lines on their way are of.
Allowed ==
    {eval} \cup (IF pc \in {"scan", "status"} THEN inflight \cap Stale ELSE Stale)

Owned ==
    /\ Within(lines, Allowed) /\ Within(wire, Allowed)
    /\ reader # C!NoLine => reader.of \in Allowed

\* No line is on its way, complete or not; or at most one that is complete.
Nothing == lines = <<>> /\ reader = C!NoLine /\ wire = <<>>

HeadOnly ==
    /\ lines = <<>> /\ reader = C!NoLine
    /\ wire = <<>> \/ (Len(wire) = 1 /\ wire[1].st = "head")

OneLine ==
    \/ /\ lines = <<>> /\ reader = C!NoLine
       /\ \/ Len(wire) = 1 /\ wire[1].st # "head"
          \/ Len(wire) = 2 /\ wire[1].st = "head" /\ wire[2].st # "head"
    \/ lines = <<>> /\ reader # C!NoLine /\ wire = <<>>
    \/ Len(lines) = 1 /\ reader = C!NoLine /\ wire = <<>>

\* As long as no interrupt has struck where it can double a report, the lines on
\* their way are those of the current eval's report and nothing else.
Counted ==
    (hit = {} \/ lang = "julia") /\ proc = "up" =>
        /\ pc \in {"idle", "write"} \/ stage \in {"entry", "run", "report", "handler"} => Nothing
        /\ stage = "headed" => HeadOnly
        /\ pc = "status" \/ stage \in {"reported", "sentinel"} \/ sentinel => Nothing \/ OneLine

Coming == lines # <<>> \/ reader # C!NoLine \/ Complete(wire)

Unsaid == {"unshown", "unrendered"}

\* The report of an eval that was not interrupted is on its way; and an exception
\* reaches the handler after a report only by an interrupt.
Reported ==
    /\ /\ eval \notin hit /\ outcome \notin Unsaid
       /\ stage \in {"reported", "sentinel"} \/ sentinel \/ pc = "status"
       => Coming
    /\ stage = "handler" => outcome = "err" \/ eval \in hit

\* What an eval has returned.
Given ==
    pc = "idle" =>
        /\ got.of \in {0, eval} \cup (inflight \cap Stale)
        /\ got.of = 0 /\ got.st \in {"ok", "aborted"} => eval \in hit \/ outcome \in Unsaid
        /\ got.of = 0 /\ got.st = "ok" => proc = "gone"
        /\ got.of = 0 => got.st # "err"

IInv == Typed /\ Unused /\ InStep /\ Owned /\ Counted /\ Reported /\ Given

-----------------------------------------------------------------------------
(***************************************************************************)
(* Steps of the startup.                                                   *)
(***************************************************************************)

\* A channel that has not been used satisfies the invariant.
LEMMA UnusedHolds ==
    ASSUME C!ChannelInit, proc \in {"off", "up", "gone"}
    PROVE  Typed /\ InStep /\ Owned /\ Counted /\ Reported /\ Given
BY DEF C!ChannelInit, Typed, InStep, Owned, Nothing, Counted, Reported, Given, Within,
       C!NoLine, C!Line

\* What start does to the variables it shares with the channel.
LEMMA StartShares ==
    ASSUME S!Next, proc \in {"off", "up", "gone"}, proc = "off" => state = "off"
    PROVE  /\ lang' = lang
           /\ proc' \in {"off", "up", "gone"}
           /\ proc' = "off" => state' = "off"
           /\ state = "started" => state' = "started" /\ proc' = proc
BY DEF S!Next, S!Launch, S!StartStep, S!PhaseDone, S!PhaseFails, S!Handshake, S!Kill,
       S!AcceptStep, S!Accept, S!Select, S!AcceptFails, S!Take, S!Deadline,
       S!CloseListener, S!Authed, S!Dial, S!Speak, S!Sentinel, S!Connect, S!acceptVars,
       S!Waiting

\* The invariant is about the variables of the channel, the process and the state.
LEMMA OnlyTheseMatter ==
    ASSUME IInv, UNCHANGED <<channelVars, lang, proc, state>> PROVE IInv'
BY DEF IInv, channelVars, C!ChannelInit, Typed, Unused, InStep, Owned, Allowed, Stale,
       Nothing, HeadOnly, OneLine, Counted, Coming, Reported, Given, Complete, Within

\* Steps of start keep the invariant.
LEMMA StartHolds == ASSUME IInv, Start PROVE IInv'
<1>1. /\ lang' = lang
      /\ proc' \in {"off", "up", "gone"}
      /\ proc' = "off" => state' = "off"
      /\ state = "started" => state' = "started" /\ proc' = proc
  BY StartShares DEF Start, IInv, Typed, Unused
<1>2. CASE state = "started"
  BY <1>1, <1>2, OnlyTheseMatter DEF Start
<1>3. CASE state # "started"
  <2>1. C!ChannelInit /\ UNCHANGED channelVars
    BY <1>3 DEF Start, IInv, Unused
  <2>2. C!ChannelInit'
    BY <2>1 DEF C!ChannelInit, channelVars
  <2>3. (Typed /\ InStep /\ Owned /\ Counted /\ Reported /\ Given)'
    <3> USE <1>1, <2>2 DEF C!ChannelInit, C!NoLine, C!Line
    <3>1. Typed' BY DEF Typed
    <3>2. InStep' BY DEF InStep
    <3>3. Owned' BY DEF Owned, Within
    <3>4. Counted' BY DEF Counted, Nothing
    <3>5. Reported' BY DEF Reported
    <3>6. Given' BY DEF Given
    <3>7. QED BY <3>1, <3>2, <3>3, <3>4, <3>5, <3>6
  <2>4. QED BY <1>1, <2>2, <2>3 DEF IInv, Unused
<1>4. QED BY <1>2, <1>3

(***************************************************************************)
(* Steps of the channel.                                                   *)
(***************************************************************************)

\* The part of the invariant a step of the channel could break.
Core == Typed /\ InStep /\ Owned /\ Counted /\ Reported /\ Given

\* The call begins.
LEMMA EnterHolds == ASSUME Core, C!Enter PROVE Core'
BY DEF C!Enter,
       Core, Typed, InStep, Owned, Allowed, Stale, Nothing, HeadOnly, OneLine, Counted,
       Coming, Reported, Unsaid, Given, C!goVars, C!readerVars, C!runtimeVars, C!irqVars, C!To, C!Free, C!NoLine, C!Line

\* The user's code ends.
LEMMA CodeEndsHolds == ASSUME Core, C!CodeEnds PROVE Core'
BY DEF C!CodeEnds,
       Core, Typed, InStep, Owned, Allowed, Stale, Nothing, HeadOnly, OneLine, Counted,
       Coming, Reported, Unsaid, Given, C!goVars, C!readerVars, C!runtimeVars, C!irqVars, C!To, C!Free, C!NoLine, C!Line

\* The end of the try.
LEMMA LeaveHolds == ASSUME Core, C!Leave PROVE Core'
BY DEF C!Leave,
       Core, Typed, InStep, Owned, Allowed, Stale, Nothing, HeadOnly, OneLine, Counted,
       Coming, Reported, Unsaid, Given, C!goVars, C!readerVars, C!runtimeVars, C!irqVars, C!To, C!Free, C!NoLine, C!Line

\* The sentinel.
LEMMA PrintSentinelHolds == ASSUME Core, C!PrintSentinel PROVE Core'
BY DEF C!PrintSentinel,
       Core, Typed, InStep, Owned, Allowed, Stale, Nothing, HeadOnly, OneLine, Counted,
       Coming, Reported, Unsaid, Given, C!goVars, C!readerVars, C!runtimeVars, C!irqVars, C!To, C!Free, C!NoLine, C!Line

\* An interrupt strikes in the main thread: from now on lines may be late.
LEMMA NoticeHolds == ASSUME Core, C!Notice PROVE Core'
BY DEF C!Notice, Within,
       Core, Typed, InStep, Owned, Allowed, Stale, Nothing, HeadOnly, OneLine, Counted,
       Coming, Reported, Unsaid, Given, C!goVars, C!readerVars, C!runtimeVars, C!irqVars, C!To, C!Free, C!NoLine, C!Line

\* A byte reaches the listener thread.
LEMMA ListenPythonHolds == ASSUME Core, C!ListenPython PROVE Core'
BY DEF C!ListenPython,
       Core, Typed, InStep, Owned, Allowed, Stale, Nothing, HeadOnly, OneLine, Counted,
       Coming, Reported, Unsaid, Given, C!goVars, C!readerVars, C!runtimeVars, C!irqVars, C!To, C!Free, C!NoLine, C!Line

\* The listener thread sets the flag.
LEMMA InterruptMainHolds == ASSUME Core, C!InterruptMain PROVE Core'
BY DEF C!InterruptMain,
       Core, Typed, InStep, Owned, Allowed, Stale, Nothing, HeadOnly, OneLine, Counted,
       Coming, Reported, Unsaid, Given, C!goVars, C!readerVars, C!runtimeVars, C!irqVars, C!To, C!Free, C!NoLine, C!Line

\* An interrupt is asked for.
LEMMA InterruptHolds == ASSUME Core, C!Interrupt PROVE Core'
BY DEF C!Interrupt,
       Core, Typed, InStep, Owned, Allowed, Stale, Nothing, HeadOnly, OneLine, Counted,
       Coming, Reported, Unsaid, Given, C!goVars, C!readerVars, C!runtimeVars, C!irqVars, C!To, C!Free, C!NoLine, C!Line

\* It is sent.
LEMMA SignalHolds == ASSUME Core, C!Signal PROVE Core'
BY DEF C!Signal,
       Core, Typed, InStep, Owned, Allowed, Stale, Nothing, HeadOnly, OneLine, Counted,
       Coming, Reported, Unsaid, Given, C!goVars, C!readerVars, C!runtimeVars, C!irqVars, C!To, C!Free, C!NoLine, C!Line

\* It is sent again.
LEMMA ResendHolds == ASSUME Core, C!Resend PROVE Core'
BY DEF C!Resend,
       Core, Typed, InStep, Owned, Allowed, Stale, Nothing, HeadOnly, OneLine, Counted,
       Coming, Reported, Unsaid, Given, C!goVars, C!readerVars, C!runtimeVars, C!irqVars, C!To, C!Free, C!NoLine, C!Line

\* The process exits by itself: what it has written is still on its way.
LEMMA ProcessExitsHolds == ASSUME Core, C!ProcessExits PROVE Core'
BY DEF C!ProcessExits, C!Gone,
       Core, Typed, InStep, Owned, Allowed, Stale, Nothing, HeadOnly, OneLine, Counted,
       Coming, Reported, Unsaid, Given, C!goVars, C!readerVars, C!runtimeVars, C!irqVars, C!To, C!Free, C!NoLine, C!Line

\* It is over, or the process is killed.
LEMMA SettleHolds == ASSUME Core, C!Settle PROVE Core'
BY DEF C!Settle, C!Gone,
       Core, Typed, InStep, Owned, Allowed, Stale, Nothing, HeadOnly, OneLine, Counted,
       Coming, Reported, Unsaid, Given, C!goVars, C!readerVars, C!runtimeVars, C!irqVars, C!To, C!Free, C!NoLine, C!Line

\* A new eval: what is left of the last one is of an interrupted one.
LEMMA BeginHolds == ASSUME Core, C!Begin PROVE Core'
<1> USE DEF Core, C!Begin, C!readerVars, C!irqVars
<1>1. Typed' BY DEF Typed, C!NoLine, C!Line
<1>2. InStep' BY DEF InStep
<1>3. Counted' BY DEF Counted, InStep, Nothing
<1>4. Reported' BY DEF Reported, InStep
<1>5. Given' BY DEF Given
<1>6. Owned'
  <2>1. CASE hit = {} \/ lang = "julia"
    <3>1. Nothing BY <2>1 DEF Counted
    <3>2. QED BY <3>1 DEF Nothing, Owned, Within
  <2>2. CASE hit # {} /\ lang # "julia"
    <3>1. PICK n \in hit : n \in 0 .. eval BY <2>2, Zenon DEF Typed
    <3>2. eval \in Stale BY <2>2, <3>1 DEF Stale, Typed
    <3>3. Allowed \subseteq Allowed' BY <3>2 DEF Allowed, Stale
    <3>4. QED BY <3>3 DEF Owned, Within
  <2>3. QED BY <2>1, <2>2
<1>7. QED BY <1>1, <1>2, <1>3, <1>4, <1>5, <1>6

\* The drain: what is on its way from now on was in flight.
LEMMA WriteHolds == ASSUME Core, C!Write PROVE Core'
<1> USE DEF Core, C!Write, C!Submit, C!Return, C!irqVars
<1>1. Typed' BY DEF Typed
<1>2. InStep' BY DEF InStep
<1>3. Counted' BY DEF Counted, InStep, Nothing
<1>4. Reported' BY DEF Reported, InStep
<1>5. Given' BY DEF Given, C!Line
<1>6. Owned'
  <2>1. /\ \A i \in 1 .. Len(wire) : wire[i].of \in inflight'
        /\ reader # C!NoLine => reader.of \in inflight'
    BY DEF C!Ahead, Typed, Frames
  <2>2. \A k \in inflight' : k \in Allowed => k \in Allowed'
    BY DEF Allowed, Stale
  <2>3. QED BY <2>1, <2>2 DEF Owned, Within
<1>7. QED BY <1>1, <1>2, <1>3, <1>4, <1>5, <1>6

\* The sentinel, or the end of the output.
LEMMA ScanHolds == ASSUME Core, C!Scan PROVE Core'
<1> USE DEF Core, C!Scan, C!Return, C!readerVars, C!irqVars
<1>1. Typed' BY DEF Typed
<1>2. InStep' BY DEF InStep
<1>3. Counted' BY DEF Counted, InStep, Nothing, OneLine, HeadOnly
<1>4. Reported' BY DEF Reported, Coming, Complete
<1>5. Given' BY DEF Given, C!Line
<1>6. Owned'
  <2>1. Allowed \subseteq Allowed' BY DEF Allowed, Stale
  <2>2. QED BY <2>1 DEF Owned, Within
<1>7. QED BY <1>1, <1>2, <1>3, <1>4, <1>5, <1>6

\* An exception ends the code before it has reported.
LEMMA ListenJuliaHolds == ASSUME Core, C!ListenJulia PROVE Core'
<1> USE DEF Core, C!ListenJulia, C!readerVars, C!irqVars, C!goVars, C!To
<1>1. Typed'
  <2>1. eval \in 0 .. eval BY DEF Typed
  <2>2. hit' \subseteq 0 .. eval BY <2>1 DEF Typed
  <2>3. QED BY <2>2 DEF Typed
<1>2. InStep' BY DEF InStep
<1>3. Counted' BY DEF Counted, InStep, Nothing, OneLine, HeadOnly
<1>4. Reported' BY DEF Reported, Coming, Complete, InStep
<1>5. Given' BY DEF Given, Stale, InStep
<1>6. Owned' BY DEF Owned, Within, Allowed, Stale
<1>7. QED BY <1>1, <1>2, <1>3, <1>4, <1>5, <1>6

\* A token is taken from the wire.
LEMMA ReadHolds == ASSUME Core, C!Read PROVE Core'
<1> USE DEF Core, C!Read, C!runtimeVars, C!irqVars, C!goVars
<1>1. /\ wire # <<>> /\ wire \in Seq(Frames) /\ reader = C!NoLine
      /\ wire' = Tail(wire) /\ wire' \in Seq(Frames) /\ Len(wire') = Len(wire) - 1
      /\ Head(wire) = wire[1] /\ Head(wire) \in Frames
      /\ Within(wire, Allowed) => Within(wire', Allowed) /\ Head(wire).of \in Allowed
      /\ Complete(wire) /\ Len(wire) > 1 => Complete(wire')
      /\ Len(wire) = 1 => wire' = <<>>
      /\ Len(wire) = 2 => Len(wire') = 1 /\ wire'[1] = wire[2]
  BY TailOf DEF Typed
<1>2. IF Head(wire).st = "head"
      THEN reader' = C!NoLine
      ELSE reader' \in Frames /\ reader'.of = Head(wire).of
  BY <1>1 DEF C!Parse, C!Line, Frames
<1>3. Allowed' = Allowed BY DEF Allowed, Stale
<1>4. Typed' BY <1>1, <1>2 DEF Typed
<1>5. InStep' BY DEF InStep
<1>6. Owned' BY <1>1, <1>2, <1>3 DEF Owned
<1>7. Frames \cap {C!NoLine} = {} BY DEF Frames, C!NoLine, C!Line
<1>8. Counted'
  <2>1. Len(wire) \in Nat /\ Len(wire) > 0 BY <1>1
  <2>2. HeadOnly => HeadOnly'
    BY <1>1, <1>2 DEF HeadOnly
  <2>3. OneLine => OneLine'
    BY <1>1, <1>2, <1>7, <2>1 DEF OneLine
  <2>4. ~Nothing BY <1>1 DEF Nothing
  <2>5. QED BY <2>2, <2>3, <2>4 DEF Counted
<1>9. Reported'
  <2>1. Len(wire) \in Nat /\ Len(wire) > 0 BY <1>1
  <2>2. Complete(wire) => Coming'
    BY <1>1, <1>2, <1>7, <2>1 DEF Coming, Complete
  <2>3. lines # <<>> => Coming' BY DEF Coming
  <2>4. QED BY <1>1, <2>2, <2>3 DEF Reported, Coming
<1>10. Given' BY DEF Given, Stale
<1>11. QED BY <1>4, <1>5, <1>6, <1>8, <1>9, <1>10

\* A line goes into the channel.
LEMMA DeliverHolds == ASSUME Core, C!Deliver PROVE Core'
<1> USE DEF Core, C!Deliver, C!runtimeVars, C!irqVars, C!goVars
<1>1. /\ reader \in Frames /\ lines \in Seq(Frames) /\ lines' = Append(lines, reader)
      /\ lines' \in Seq(Frames) /\ Len(lines') = Len(lines) + 1 /\ lines' # <<>>
      /\ Within(lines, Allowed) /\ reader.of \in Allowed => Within(lines', Allowed)
  BY AppendOf DEF Typed
<1>2. Allowed' = Allowed BY DEF Allowed, Stale
<1>3. Typed' BY <1>1 DEF Typed
<1>4. InStep' BY DEF InStep
<1>5. Owned' BY <1>1, <1>2 DEF Owned
<1>6. Counted' BY <1>1 DEF Counted, Nothing, HeadOnly, OneLine
<1>7. Reported' BY <1>1 DEF Reported, Coming
<1>8. Given' BY DEF Given, Stale
<1>9. QED BY <1>3, <1>4, <1>5, <1>6, <1>7, <1>8

\* Nothing is on its way when no eval's line is.
LEMMA NoneAhead ==
    ASSUME Typed, C!Ahead = {} PROVE wire = <<>> /\ reader = C!NoLine
<1>1. reader = C!NoLine
  <2>1. reader.of \notin {reader.of} \ {0} BY DEF C!Ahead
  <2>2. QED BY <2>1 DEF Typed, Frames
<1>2. wire = <<>>
  <2>1. \A i \in DOMAIN wire : wire[i].of \in C!Ahead BY DEF C!Ahead
  <2>2. Len(wire) \in Nat /\ DOMAIN wire = 1 .. Len(wire) BY DEF Typed
  <2>3. ~(Len(wire) > 0)
    <3>1. SUFFICES ASSUME Len(wire) > 0 PROVE FALSE OBVIOUS
    <3>2. 1 \in DOMAIN wire BY <2>2, <3>1
    <3>3. QED BY <2>1, <3>2
  <2>4. QED BY <2>2, <2>3 DEF Typed
<1>3. QED BY <1>1, <1>2

\* The bounded wait: without an interrupt a line is there or coming.
LEMMA StatusHolds == ASSUME Core, C!Status PROVE Core'
<1> USE DEF Core, C!Status, C!Return, C!runtimeVars, C!irqVars
<1>1. Given'
  <2>1. CASE lines # <<>>
    <3>1. got'.of \in Allowed
      BY <2>1, TailOf DEF Typed, Owned
    <3>2. got'.of # 0
      BY <2>1, TailOf DEF Typed, Frames
    <3>3. QED BY <3>1, <3>2 DEF Given, Allowed, Stale
  <2>2. CASE lines = <<>>
    <3>1. wire = <<>> /\ reader = C!NoLine
      BY <2>2, NoneAhead
    <3>2. ~Coming
      BY <2>2, <3>1 DEF Coming, Complete
    <3>3. QED BY <2>2, <3>2 DEF Given, Reported, Unsaid, InStep, C!Line, Typed
  <2>3. QED BY <2>1, <2>2
<1>2. lines' \in Seq(Frames) /\ Within(lines', Allowed)
  BY TailOf DEF Typed, Owned
<1>3. Allowed \subseteq Allowed' BY DEF Allowed, Stale
<1>4. Typed' BY <1>2 DEF Typed
<1>5. InStep' BY DEF InStep
<1>6. Owned' BY <1>2, <1>3 DEF Owned, Within
<1>7. Counted' 
  <2>1. Nothing \/ OneLine => Nothing'
    <3>1. CASE lines # <<>> BY <3>1, TailOf DEF Nothing, OneLine, Typed
    <3>2. CASE lines = <<>>
      BY <3>2, NoneAhead DEF Nothing
    <3>3. QED BY <3>1, <3>2
  <2>2. QED BY <2>1 DEF Counted, InStep
<1>8. Reported' BY DEF Reported, InStep
<1>9. QED BY <1>1, <1>4, <1>5, <1>6, <1>7, <1>8

\* What a token does to the wire.
LEMMA SendAdds ==
    ASSUME Typed, Owned, stage # "idle", InStep, NEW st \in {"ok", "err", "head"}, C!Send(st)
    PROVE  /\ wire' \in Seq(Frames) /\ Len(wire') = Len(wire) + 1 /\ wire' # <<>>
           /\ \A i \in 1 .. Len(wire) : wire'[i] = wire[i]
           /\ wire'[Len(wire')].st = st
           /\ Within(wire', Allowed)
           /\ Complete(wire') <=> st # "head"
<1>1. C!Line(eval, st) \in Frames
  BY DEF Typed, InStep, Frames, C!Line
<1>2. eval \in Allowed BY DEF Allowed
<1>3. QED BY <1>1, <1>2, AppendOf DEF Typed, Owned, C!Send, C!Line

\* The OK line.
LEMMA ReportHolds == ASSUME Core, C!Report PROVE Core'
<1> USE DEF Core, C!Report, C!readerVars, C!irqVars, C!goVars, C!To
<1>1. Allowed' = Allowed BY DEF Allowed, Stale
<1>2. InStep' BY DEF InStep
<1>3. Given' BY DEF Given, Stale, InStep
<1>4. CASE C!Send("ok")
  <2>1. /\ wire' \in Seq(Frames) /\ Len(wire') = Len(wire) + 1 /\ wire' # <<>>
        /\ wire'[Len(wire')].st = "ok"
        /\ Within(wire', Allowed) /\ Complete(wire')
    BY <1>4, SendAdds
  <2>2. Typed' BY <2>1 DEF Typed
  <2>3. Owned' BY <1>1, <2>1 DEF Owned
  <2>4. Counted' BY <2>1 DEF Counted, InStep, Nothing, OneLine
  <2>5. Reported' BY <2>1 DEF Reported, Coming
  <2>6. QED BY <1>2, <1>3, <2>2, <2>3, <2>4, <2>5
<1>5. CASE lang = "julia" /\ outcome' = "unshown" /\ stage' = "sentinel" /\ UNCHANGED wire
  <2>1. Typed' BY <1>5 DEF Typed
  <2>2. Owned' BY <1>1, <1>5 DEF Owned
  <2>3. Counted' BY <1>5 DEF Counted, InStep, Nothing
  <2>4. Reported' BY <1>5 DEF Reported, Unsaid
  <2>5. QED BY <1>2, <1>3, <2>1, <2>2, <2>3, <2>4
<1>6. QED BY <1>4, <1>5

\* The ERR line, in two parts.
LEMMA HandleHolds == ASSUME Core, C!Handle PROVE Core'
<1> USE DEF Core, C!Handle, C!readerVars, C!irqVars, C!goVars, C!To
<1>1. Allowed' = Allowed BY DEF Allowed, Stale
<1>2. InStep' BY DEF InStep
<1>3. Given' BY DEF Given, Stale, InStep
<1>4. CASE stage = "handler" /\ C!Send("head") /\ stage' = "headed" /\ outcome' = outcome
  <2>1. /\ wire' \in Seq(Frames) /\ Len(wire') = Len(wire) + 1 /\ wire' # <<>>
        /\ wire'[Len(wire')].st = "head" /\ Within(wire', Allowed)
    BY <1>4, SendAdds
  <2>2. Typed' BY <2>1 DEF Typed
  <2>3. Owned' BY <1>1, <2>1 DEF Owned
  <2>4. Counted' BY <1>4, <2>1 DEF Counted, InStep, Nothing, HeadOnly
  <2>5. Reported' BY <1>4 DEF Reported, InStep
  <2>6. QED BY <1>2, <1>3, <2>2, <2>3, <2>4, <2>5
<1>5. CASE stage = "headed" /\ C!Send("err") /\ stage' = "sentinel" /\ outcome' = outcome
  <2>1. /\ wire' \in Seq(Frames) /\ Len(wire') = Len(wire) + 1 /\ wire' # <<>>
        /\ \A i \in 1 .. Len(wire) : wire'[i] = wire[i]
        /\ wire'[Len(wire')].st = "err" /\ Within(wire', Allowed) /\ Complete(wire')
    BY <1>5, SendAdds
  <2>2. Typed' BY <2>1 DEF Typed
  <2>3. Owned' BY <1>1, <2>1 DEF Owned
  <2>4. Counted' BY <1>5, <2>1 DEF Counted, InStep, HeadOnly, OneLine
  <2>5. Reported' BY <1>5, <2>1 DEF Reported, Coming
  <2>6. QED BY <1>2, <1>3, <2>2, <2>3, <2>4, <2>5
<1>6. CASE /\ stage = "handler" /\ stage' = "sentinel" /\ UNCHANGED wire
           /\ outcome' = IF outcome = "err" THEN "unrendered" ELSE outcome
  <2>1. Typed' BY <1>6 DEF Typed
  <2>2. Owned' BY <1>1, <1>6 DEF Owned
  <2>3. Counted' BY <1>6 DEF Counted, InStep, Nothing
  <2>4. Reported' BY <1>6 DEF Reported, Unsaid
  <2>5. QED BY <1>2, <1>3, <2>1, <2>2, <2>3, <2>4
<1>7. QED BY <1>4, <1>5, <1>6

\* Every step of the channel keeps the invariant.
LEMMA UseHolds == ASSUME IInv, Use PROVE IInv'
<1>1. Core' /\ proc' # "off"
  <2>1. Core /\ C!Next /\ proc # "off"
    BY DEF IInv, Core, Use, Unused
  <2>2. C!GoStep => Core'
    BY <2>1, WriteHolds, ScanHolds, StatusHolds DEF C!GoStep
  <2>3. C!ReaderStep => Core'
    BY <2>1, ReadHolds, DeliverHolds DEF C!ReaderStep
  <2>4. C!MainStep => Core'
    BY <2>1, EnterHolds, ReportHolds, LeaveHolds, HandleHolds, PrintSentinelHolds,
       NoticeHolds DEF C!MainStep
  <2>5. C!ListenerStep => Core'
    BY <2>1, ListenPythonHolds, InterruptMainHolds, ListenJuliaHolds DEF C!ListenerStep
  <2>6. C!IrqStep => Core'
    BY <2>1, SignalHolds, SettleHolds DEF C!IrqStep
  <2>7. Core'
    BY <2>1, <2>2, <2>3, <2>4, <2>5, <2>6, BeginHolds, CodeEndsHolds, InterruptHolds,
       ResendHolds, ProcessExitsHolds DEF C!Next
  <2>8. proc' = proc \/ proc' = "gone"
    BY <2>1
       DEF C!Next, C!Begin, C!GoStep, C!Write, C!Scan, C!Status, C!ReaderStep, C!Read,
           C!Deliver, C!CodeEnds, C!MainStep, C!Enter, C!Report, C!Leave, C!Handle,
           C!PrintSentinel, C!Notice, C!ListenerStep, C!ListenPython, C!InterruptMain,
           C!ListenJulia, C!Interrupt, C!Resend, C!IrqStep, C!Signal, C!Settle,
           C!ProcessExits, C!Gone
  <2>9. QED BY <2>1, <2>7, <2>8
<1>2. Unused' BY <1>1 DEF Use, Unused, startVars
<1>3. QED BY <1>1, <1>2 DEF IInv, Core

\* Nothing has happened when a session is made.
LEMMA InitHolds == Init => IInv
BY UnusedHolds DEF Init, S!Init, IInv, Unused

\* Every step of the composition keeps the invariant.
LEMMA StepHolds == IInv /\ [Next]_vars => IInv'
<1> SUFFICES ASSUME IInv, [Next]_vars PROVE IInv'
  OBVIOUS
<1>1. CASE UNCHANGED vars
  BY <1>1, OnlyTheseMatter DEF vars, startVars
<1>2. QED BY <1>1, StartHolds, UseHolds DEF Next

\* The invariant holds in every behaviour.
THEOREM Invariance == Spec => []IInv
BY InitHolds, StepHolds, PTL DEF Spec

\* An eval is given the status of an earlier one only if that was on its way at the
\* drain and some eval no later than that one was interrupted, and in Julia never:
\* the drain of executeRaw (session.go:383) misses nothing else.
THEOREM StatusIsTheEvalsOwn == Spec => []StatusIsOwn
<1>1. IInv => StatusIsOwn
  BY DEF IInv, Given, Stale, StatusIsOwn, C!StatusIsOwn, C!Returned
<1>2. QED BY <1>1, Invariance, PTL

\* An eval is left without a status line, be it told that it was aborted
\* (session.go:456) or, at the end of the stream, that it succeeded (session.go:452),
\* only if it was interrupted or its value or error could not be shown.
THEOREM AbortsHaveACause == Spec => []AbortHasCause
<1>1. IInv => AbortHasCause
  BY DEF IInv, Given, Unsaid, AbortHasCause, C!AbortHasCause, C!Returned
<1>2. QED BY <1>1, Invariance, PTL

-----------------------------------------------------------------------------
(***************************************************************************)
(* The status of an eval is what became of its code, unless half an ERR    *)
(* line was left behind.                                                   *)
(***************************************************************************)

\* No line of s is of the eval e; the i-th is the first that is.
Without(s, e) == \A i \in 1 .. Len(s) : s[i].of # e

FirstOf(s, i, e) ==
    i \in 1 .. Len(s) /\ s[i].of = e /\ \A j \in 1 .. i - 1 : s[j].of # e

\* What the tail of s has of e.
LEMMA TailFirst ==
    ASSUME NEW s \in Seq(Frames), s # <<>>, NEW e
    PROVE  /\ \A i \in 1 .. Len(Tail(s)) : Tail(s)[i] = s[i + 1] /\ i + 1 \in 1 .. Len(s)
           /\ Without(s, e) => Without(Tail(s), e)
           /\ \A i : FirstOf(Tail(s), i, e) =>
                  FirstOf(s, i + 1, e) \/ FirstOf(s, 1, e)
<1>1. Len(s) \in Nat /\ Len(s) > 0 OBVIOUS
<1>2. Len(Tail(s)) = Len(s) - 1 BY <1>1
<1>3. \A i \in 1 .. Len(Tail(s)) : Tail(s)[i] = s[i + 1] /\ i + 1 \in 1 .. Len(s)
  BY <1>1, <1>2
<1>4. Without(s, e) => Without(Tail(s), e) BY <1>3 DEF Without
<1>5. ASSUME NEW i, FirstOf(Tail(s), i, e) PROVE FirstOf(s, i + 1, e) \/ FirstOf(s, 1, e)
  <2>1. i \in 1 .. Len(Tail(s)) /\ s[i + 1].of = e
    BY <1>3, <1>5 DEF FirstOf
  <2>2. CASE s[1].of = e BY <1>1, <2>2 DEF FirstOf
  <2>3. CASE s[1].of # e
    <3>1. ASSUME NEW j \in 1 .. i PROVE s[j].of # e
      <4>1. CASE j = 1 BY <2>3, <4>1
      <4>2. CASE j # 1
        <5>1. j - 1 \in 1 .. i - 1 /\ j - 1 \in 1 .. Len(Tail(s)) /\ (j - 1) + 1 = j
          BY <1>1, <1>2, <2>1, <4>2
        <5>2. Tail(s)[j - 1].of # e BY <1>5, <5>1 DEF FirstOf
        <5>3. QED BY <1>3, <5>1, <5>2
      <4>3. QED BY <4>1, <4>2
    <3>2. i + 1 \in 1 .. Len(s) /\ (i + 1) - 1 = i BY <1>3, <2>1
    <3>3. QED BY <2>1, <3>1, <3>2 DEF FirstOf
  <2>4. QED BY <2>2, <2>3
<1>6. QED BY <1>3, <1>4, <1>5

\* What is of e when a token has been added to s.
LEMMA AppendFirst ==
    ASSUME NEW s \in Seq(Frames), NEW t \in Frames, NEW e
    PROVE  /\ Without(s, e) /\ t.of # e => Without(Append(s, t), e)
           /\ \A i : FirstOf(Append(s, t), i, e) =>
                  FirstOf(s, i, e) \/ (Without(s, e) /\ t.of = e)
<1>1. Len(s) \in Nat /\ Len(Append(s, t)) = Len(s) + 1 OBVIOUS
<1>2. \A i \in 1 .. Len(s) : Append(s, t)[i] = s[i] OBVIOUS
<1>3. Append(s, t)[Len(s) + 1] = t OBVIOUS
<1>4. Without(s, e) /\ t.of # e => Without(Append(s, t), e)
  BY <1>1, <1>2, <1>3 DEF Without
<1>5. ASSUME NEW i, FirstOf(Append(s, t), i, e)
      PROVE  FirstOf(s, i, e) \/ (Without(s, e) /\ t.of = e)
  <2>1. i \in 1 .. Len(s) + 1 BY <1>1, <1>5 DEF FirstOf
  <2>2. \A j \in 1 .. i - 1 : j \in 1 .. Len(s) /\ s[j].of # e
    BY <1>1, <1>2, <1>5, <2>1 DEF FirstOf
  <2>3. CASE i \in 1 .. Len(s)
    BY <1>2, <1>5, <2>2, <2>3 DEF FirstOf
  <2>4. CASE i = Len(s) + 1
    <3>1. \A j \in 1 .. Len(s) : s[j].of # e BY <1>1, <2>2, <2>4
    <3>2. QED BY <1>3, <1>5, <2>4, <3>1 DEF FirstOf, Without
  <2>5. QED BY <1>1, <2>1, <2>3, <2>4
<1>6. QED BY <1>4, <1>5

-----------------------------------------------------------------------------
(* The inductive invariant.                                                *)

\* No eval before the current one left half a line.
Fresh == \A n \in torn : n >= eval

\* Nothing on its way is of an eval to come.
Bounded ==
    /\ \A i \in 1 .. Len(lines) : lines[i].of <= eval
    /\ \A i \in 1 .. Len(wire) : wire[i].of <= eval
    /\ reader.of <= eval

\* An eval whose ERR line was torn writes no more.
TornOver == eval \in torn => pc # "write" /\ stage \in {"sentinel", "idle"}

\* A line of the current eval is with the reader or has been delivered; none of
\* its lines is anywhere; its OK line is somewhere.
OwnLine == reader.of = eval \/ \E i \in 1 .. Len(lines) : lines[i].of = eval

NoOwn == Without(lines, eval) /\ reader.of # eval /\ Without(wire, eval)

SaidOk == OwnLine \/ \E i \in 1 .. Len(wire) : wire[i].of = eval /\ wire[i].st = "ok"

\* What the runtime has sent of the eval, at each of its stages.
OutcomeKnown ==
    /\ pc \in {"idle", "write", "scan", "status"}
    /\ pc = "write" => NoOwn /\ outcome = "none"
    /\ pc \in {"scan", "status"} /\ outcome \notin {"ok", "err"} => NoOwn
    /\ stage \in {"entry", "run"} => outcome = "none"
    /\ stage = "report" => outcome = "ok" /\ NoOwn
    /\ stage = "reported" => outcome = "ok" /\ SaidOk
    /\ stage = "handler" => (outcome = "err" /\ NoOwn) \/ (outcome = "ok" /\ SaidOk)
    /\ stage = "headed" => outcome = "err" \/ (outcome = "ok" /\ SaidOk)

\* A status that is what became of the code, or a success read from a spoilt ERR line.
Match(st) == st = outcome \/ (st = "ok" /\ outcome = "err" /\ ~Fresh)

\* Code that failed has no OK line.
ErrLines ==
    pc \in {"scan", "status"} /\ outcome = "err" =>
        /\ \A i \in 1 .. Len(wire) : wire[i].of = eval => wire[i].st # "ok"
        /\ reader.of = eval => Match(reader.st)
        /\ \A i \in 1 .. Len(lines) : lines[i].of = eval => Match(lines[i].st)

\* Of code that did not fail the first line is an OK line.
OkLines ==
    pc \in {"scan", "status"} /\ outcome = "ok" =>
        /\ \A i : FirstOf(lines, i, eval) => lines[i].st = "ok"
        /\ reader.of = eval /\ Without(lines, eval) => reader.st = "ok"
        /\ ~OwnLine => \A i : FirstOf(wire, i, eval) => wire[i].st = "ok"

\* The last token on its way is the first half of an ERR line.
LastHalf ==
    \/ wire = <<>> /\ partial = "head"
    \/ wire # <<>> /\ wire[Len(wire)].st = "head"

\* As long as nothing was left behind every first half is followed by its second,
\* which is still to be written or never will be.
Whole ==
    Fresh =>
        /\ partial \in {"none", "head"}
        /\ wire # <<>> => (partial = "head" <=> wire[1].st = "err")
        /\ \A i \in 1 .. Len(wire) - 1 : wire[i].st = "head" <=> wire[i + 1].st = "err"
        /\ stage = "headed" => LastHalf
        /\ LastHalf => stage = "headed" \/ eval \in torn \/ proc # "up"

GivenOutcome == pc = "idle" /\ eval > 0 /\ got.of = eval => Match(got.st)

OInv ==
    Bounded /\ TornOver /\ OutcomeKnown /\ ErrLines /\ OkLines /\ Whole /\ GivenOutcome

-----------------------------------------------------------------------------
(* Steps of the channel that leave the lines alone.                        *)

\* What depends only on the lines and on the number of the eval.
LEMMA SameLines ==
    ASSUME UNCHANGED <<eval, lines, reader, partial, wire>>
    PROVE  /\ UNCHANGED <<Bounded, NoOwn, OwnLine, SaidOk, LastHalf>>
           /\ UNCHANGED Without(lines, eval)
           /\ \A i : UNCHANGED <<FirstOf(lines, i, eval), FirstOf(wire, i, eval)>>
BY DEF Bounded, NoOwn, OwnLine, SaidOk, LastHalf, Without, FirstOf

\* The stage moves on, and nothing else does: what the new stage says is enough.
LEMMA StageMoves ==
    ASSUME Core, OInv, UNCHANGED <<proc, eval, pc, got, lines, reader, partial, wire, outcome>>,
           stage # "headed", stage' \in {"idle", "sentinel", "handler", stage}, torn' = torn,
           stage' = "handler" => stage \in {"reported", "handler"},
           stage' = "idle" => stage \in {"idle", "sentinel"}
    PROVE  OInv'
<1>1. /\ UNCHANGED <<Bounded, NoOwn, OwnLine, SaidOk, LastHalf>>
      /\ UNCHANGED Without(lines, eval)
      /\ \A i : UNCHANGED <<FirstOf(lines, i, eval), FirstOf(wire, i, eval)>>
  BY SameLines
<1>2. Fresh' = Fresh BY DEF Fresh
<1>3. Bounded' /\ TornOver' BY <1>1 DEF OInv, TornOver
<1>4. OutcomeKnown' BY <1>1 DEF OInv, OutcomeKnown
<1>5. ErrLines' BY <1>2 DEF OInv, ErrLines, Match
<1>6. OkLines' BY <1>1 DEF OInv, OkLines
<1>7. Whole' BY <1>1, <1>2 DEF OInv, Whole
<1>8. GivenOutcome' BY <1>2 DEF OInv, GivenOutcome, Match
<1>9. QED BY <1>3, <1>4, <1>5, <1>6, <1>7, <1>8 DEF OInv

\* The code, which has not been reported, ends in one way or another.
LEMMA CodeOver ==
    ASSUME Core, OInv, UNCHANGED <<proc, eval, pc, got, lines, reader, partial, wire, torn>>,
           stage \in {"run", "report"},
           \/ stage' = "report" /\ outcome' = "ok"
           \/ stage' = "handler" /\ outcome' = "err"
    PROVE  OInv'
<1>1. /\ UNCHANGED <<Bounded, NoOwn, LastHalf>>
      /\ \A i : UNCHANGED <<FirstOf(lines, i, eval), FirstOf(wire, i, eval)>>
  BY SameLines
<1>2. pc = "scan" /\ eval > 0 /\ eval \notin torn BY DEF Core, InStep, Typed, OInv, TornOver
<1>3. NoOwn BY <1>2 DEF OInv, OutcomeKnown
<1>4. Fresh' = Fresh BY DEF Fresh
<1>5. Bounded' /\ TornOver' BY <1>1, <1>2 DEF OInv, TornOver
<1>6. OutcomeKnown' BY <1>1, <1>2, <1>3 DEF OutcomeKnown
<1>7. /\ \A i \in 1 .. Len(wire) : wire[i].of # eval
      /\ \A i \in 1 .. Len(lines) : lines[i].of # eval
      /\ reader.of # eval
      /\ \A i : ~FirstOf(lines, i, eval) /\ ~FirstOf(wire, i, eval)
  BY <1>3 DEF NoOwn, Without, FirstOf
<1>8. ErrLines' BY <1>7 DEF ErrLines
<1>9. OkLines' BY <1>1, <1>7 DEF OkLines
<1>10. Whole' BY <1>1, <1>2, <1>4 DEF OInv, Whole
<1>11. GivenOutcome' BY <1>2 DEF GivenOutcome
<1>12. QED BY <1>5, <1>6, <1>8, <1>9, <1>10, <1>11 DEF OInv

\* A handler is left: half a line may stay behind.
LEMMA HandlerLeft ==
    ASSUME Core, OInv, UNCHANGED <<proc, eval, pc, got, lines, reader, partial, wire, outcome>>,
           stage = "headed", stage' = "sentinel", torn' = torn \cup {eval}
    PROVE  OInv'
<1>1. /\ UNCHANGED <<Bounded, NoOwn, OwnLine, SaidOk, LastHalf>>
      /\ UNCHANGED Without(lines, eval)
      /\ \A i : UNCHANGED <<FirstOf(lines, i, eval), FirstOf(wire, i, eval)>>
  BY SameLines
<1>2. pc = "scan" /\ eval \in Nat BY DEF Core, InStep, Typed
<1>3. Fresh' = Fresh BY <1>2 DEF Fresh
<1>4. Bounded' /\ TornOver' BY <1>1, <1>2 DEF OInv, TornOver
<1>5. OutcomeKnown' BY <1>1, <1>2 DEF OInv, OutcomeKnown
<1>6. ErrLines' BY <1>3 DEF OInv, ErrLines, Match
<1>7. OkLines' BY <1>1 DEF OInv, OkLines
<1>8. Whole' BY <1>1, <1>3 DEF OInv, Whole
<1>9. GivenOutcome' BY <1>2 DEF GivenOutcome
<1>10. QED BY <1>4, <1>5, <1>6, <1>7, <1>8, <1>9 DEF OInv

\* The sentinel, or the end of the output.
LEMMA ScanKeeps == ASSUME Core, OInv, C!Scan PROVE OInv'
<1>1. UNCHANGED <<eval, lines, reader, partial, wire>>
  BY DEF C!Scan, C!Return, C!Line, C!goVars, C!readerVars, C!runtimeVars, C!irqVars
<1>2. QED
  BY <1>1, SameLines
     DEF C!Scan, C!Return, C!Line, C!goVars, C!readerVars, C!runtimeVars, C!irqVars, C!To, C!Free,
         Core, Typed, InStep, OInv, Bounded, TornOver, Fresh, OutcomeKnown, Match, ErrLines,
         OkLines, Whole, GivenOutcome

\* The call begins.
LEMMA EnterKeeps == ASSUME Core, OInv, C!Enter PROVE OInv'
<1>1. UNCHANGED <<eval, lines, reader, partial, wire>>
  BY DEF C!Enter, C!goVars, C!readerVars, C!runtimeVars, C!irqVars
<1>2. QED
  BY <1>1, SameLines
     DEF C!Enter, C!goVars, C!readerVars, C!runtimeVars, C!irqVars, C!To, C!Free,
         Core, Typed, InStep, OInv, Bounded, TornOver, Fresh, OutcomeKnown, Match, ErrLines,
         OkLines, Whole, GivenOutcome

\* The user's code ends.
LEMMA CodeEndsKeeps == ASSUME Core, OInv, C!CodeEnds PROVE OInv'
BY CodeOver DEF C!CodeEnds, C!goVars, C!readerVars, C!irqVars, C!To, C!Free

\* The end of the try.
LEMMA LeaveKeeps == ASSUME Core, OInv, C!Leave PROVE OInv'
<1>1. UNCHANGED <<eval, lines, reader, partial, wire>>
  BY DEF C!Leave, C!goVars, C!readerVars, C!runtimeVars, C!irqVars
<1>2. QED
  BY <1>1, SameLines
     DEF C!Leave, C!goVars, C!readerVars, C!runtimeVars, C!irqVars, C!To, C!Free,
         Core, Typed, InStep, OInv, Bounded, TornOver, Fresh, OutcomeKnown, Match, ErrLines,
         OkLines, Whole, GivenOutcome

\* The sentinel.
LEMMA PrintSentinelKeeps == ASSUME Core, OInv, C!PrintSentinel PROVE OInv'
<1>1. UNCHANGED <<eval, lines, reader, partial, wire>>
  BY DEF C!PrintSentinel, C!goVars, C!readerVars, C!runtimeVars, C!irqVars
<1>2. QED
  BY <1>1, SameLines
     DEF C!PrintSentinel, C!goVars, C!readerVars, C!runtimeVars, C!irqVars, C!To, C!Free,
         Core, Typed, InStep, OInv, Bounded, TornOver, Fresh, OutcomeKnown, Match, ErrLines,
         OkLines, Whole, GivenOutcome

\* An interrupt strikes in the main thread.
LEMMA NoticeKeeps == ASSUME Core, OInv, C!Notice PROVE OInv'
<1> USE DEF C!Notice, C!goVars, C!readerVars, C!irqVars, C!To
<1>1. UNCHANGED <<proc, eval, pc, got, lines, reader, partial, wire>> OBVIOUS
<1>2. CASE stage = "headed" BY <1>1, <1>2, HandlerLeft
<1>3. CASE stage \in {"run", "report"} /\ stage' = "handler"
  BY <1>1, <1>3, CodeOver
<1>4. CASE stage # "headed" /\ ~(stage \in {"run", "report"} /\ stage' = "handler")
  BY <1>1, <1>4, StageMoves
<1>5. QED BY <1>2, <1>3, <1>4

\* A byte reaches the listener thread.
LEMMA ListenPythonKeeps == ASSUME Core, OInv, C!ListenPython PROVE OInv'
<1>1. UNCHANGED <<eval, lines, reader, partial, wire>>
  BY DEF C!ListenPython, C!goVars, C!readerVars, C!runtimeVars, C!irqVars
<1>2. QED
  BY <1>1, SameLines
     DEF C!ListenPython, C!goVars, C!readerVars, C!runtimeVars, C!irqVars, C!To, C!Free,
         Core, Typed, InStep, OInv, Bounded, TornOver, Fresh, OutcomeKnown, Match, ErrLines,
         OkLines, Whole, GivenOutcome

\* The listener thread sets the flag.
LEMMA InterruptMainKeeps == ASSUME Core, OInv, C!InterruptMain PROVE OInv'
<1>1. UNCHANGED <<eval, lines, reader, partial, wire>>
  BY DEF C!InterruptMain, C!goVars, C!readerVars, C!runtimeVars, C!irqVars
<1>2. QED
  BY <1>1, SameLines
     DEF C!InterruptMain, C!goVars, C!readerVars, C!runtimeVars, C!irqVars, C!To, C!Free,
         Core, Typed, InStep, OInv, Bounded, TornOver, Fresh, OutcomeKnown, Match, ErrLines,
         OkLines, Whole, GivenOutcome

\* An exception ends the code before it has reported.
LEMMA ListenJuliaKeeps == ASSUME Core, OInv, C!ListenJulia PROVE OInv'
<1> USE DEF C!ListenJulia, C!goVars, C!readerVars, C!irqVars, C!To
<1>1. CASE stage = "run" /\ stage' = "handler" /\ outcome' = "err" BY <1>1, CodeOver
<1>2. CASE UNCHANGED <<stage, outcome>>
  <2>1. CASE stage # "headed" BY <1>2, <2>1, StageMoves
  <2>2. CASE stage = "headed"
    <3>1. UNCHANGED <<eval, lines, reader, partial, wire>> OBVIOUS
    <3>2. QED
      BY <1>2, <3>1, SameLines
         DEF OInv, TornOver, Fresh, OutcomeKnown, Match, ErrLines, OkLines, Whole, GivenOutcome
  <2>3. QED BY <2>1, <2>2
<1>3. QED BY <1>1, <1>2

\* An interrupt is asked for.
LEMMA InterruptKeeps == ASSUME Core, OInv, C!Interrupt PROVE OInv'
<1>1. UNCHANGED <<eval, lines, reader, partial, wire>>
  BY DEF C!Interrupt, C!goVars, C!readerVars, C!runtimeVars, C!irqVars
<1>2. QED
  BY <1>1, SameLines
     DEF C!Interrupt, C!goVars, C!readerVars, C!runtimeVars, C!irqVars, C!To, C!Free,
         Core, Typed, InStep, OInv, Bounded, TornOver, Fresh, OutcomeKnown, Match, ErrLines,
         OkLines, Whole, GivenOutcome

\* It is sent.
LEMMA SignalKeeps == ASSUME Core, OInv, C!Signal PROVE OInv'
<1>1. UNCHANGED <<eval, lines, reader, partial, wire>>
  BY DEF C!Signal, C!goVars, C!readerVars, C!runtimeVars, C!irqVars
<1>2. QED
  BY <1>1, SameLines
     DEF C!Signal, C!goVars, C!readerVars, C!runtimeVars, C!irqVars, C!To, C!Free,
         Core, Typed, InStep, OInv, Bounded, TornOver, Fresh, OutcomeKnown, Match, ErrLines,
         OkLines, Whole, GivenOutcome

\* It is sent again.
LEMMA ResendKeeps == ASSUME Core, OInv, C!Resend PROVE OInv'
<1>1. UNCHANGED <<eval, lines, reader, partial, wire>>
  BY DEF C!Resend, C!goVars, C!readerVars, C!runtimeVars, C!irqVars
<1>2. QED
  BY <1>1, SameLines
     DEF C!Resend, C!goVars, C!readerVars, C!runtimeVars, C!irqVars, C!To, C!Free,
         Core, Typed, InStep, OInv, Bounded, TornOver, Fresh, OutcomeKnown, Match, ErrLines,
         OkLines, Whole, GivenOutcome

\* The process exits by itself.
LEMMA ProcessExitsKeeps == ASSUME Core, OInv, C!ProcessExits PROVE OInv'
<1>1. UNCHANGED <<eval, lines, reader, partial, wire>>
  BY DEF C!ProcessExits, C!Gone, C!goVars, C!readerVars, C!runtimeVars, C!irqVars
<1>2. QED
  BY <1>1, SameLines
     DEF C!ProcessExits, C!Gone, C!goVars, C!readerVars, C!runtimeVars, C!irqVars, C!To, C!Free,
         Core, Typed, InStep, OInv, Bounded, TornOver, Fresh, OutcomeKnown, Match, ErrLines,
         OkLines, Whole, GivenOutcome

\* It is over, or the process is killed.
LEMMA SettleKeeps == ASSUME Core, OInv, C!Settle PROVE OInv'
<1>1. UNCHANGED <<eval, lines, reader, partial, wire>>
  BY DEF C!Settle, C!Gone, C!goVars, C!readerVars, C!runtimeVars, C!irqVars
<1>2. QED
  BY <1>1, SameLines
     DEF C!Settle, C!Gone, C!goVars, C!readerVars, C!runtimeVars, C!irqVars, C!To, C!Free,
         Core, Typed, InStep, OInv, Bounded, TornOver, Fresh, OutcomeKnown, Match, ErrLines,
         OkLines, Whole, GivenOutcome

-----------------------------------------------------------------------------
(* Steps that move lines.                                                  *)

\* A new eval: what is left of the one before is not its own, and is whole.
LEMMA BeginKeeps == ASSUME Core, OInv, C!Begin PROVE OInv'
<1> USE DEF C!Begin, C!readerVars, C!irqVars, C!NoLine, C!Line
<1>1. /\ eval' = eval + 1 /\ eval \in Nat /\ pc = "idle" /\ pc' = "write" /\ stage = "idle"
      /\ UNCHANGED <<proc, stage, torn, lines, reader, partial, wire>> /\ proc = "up"
      /\ outcome' = "none" /\ torn \subseteq 0 .. eval
  BY DEF Core, Typed, InStep
<1>2. /\ \A i \in 1 .. Len(lines) : lines[i].of \in Nat /\ lines[i].of <= eval
      /\ \A i \in 1 .. Len(wire) : wire[i].of \in Nat /\ wire[i].of <= eval
      /\ reader.of \in Nat /\ reader.of <= eval
  <2>1. \A f \in Frames : f.of \in Nat BY DEF Frames
  <2>2. lines \in Seq(Frames) /\ wire \in Seq(Frames) BY DEF Core, Typed
  <2>3. /\ \A i \in 1 .. Len(lines) : lines[i] \in Frames
        /\ \A i \in 1 .. Len(wire) : wire[i] \in Frames
    BY <2>2
  <2>4. reader.of \in Nat BY <2>1 DEF Core, Typed
  <2>5. QED BY <2>1, <2>3, <2>4 DEF OInv, Bounded
<1>3. Bounded' /\ NoOwn'
  <2>1. \A n \in Nat : n <= eval => n <= eval + 1 /\ n # eval + 1 BY <1>1
  <2>2. QED BY <1>1, <1>2, <2>1 DEF Bounded, NoOwn, Without
<1>4. TornOver' BY <1>1 DEF TornOver
<1>5. OutcomeKnown' BY <1>1, <1>3 DEF OutcomeKnown
<1>6. ErrLines' /\ OkLines' /\ GivenOutcome' BY <1>1 DEF ErrLines, OkLines, GivenOutcome
<1>7. Whole'
  <2>1. SUFFICES ASSUME Fresh' PROVE Whole' BY DEF Whole
  <2>2. Fresh /\ eval \notin torn BY <1>1, <2>1 DEF Fresh
  <2>3. ~LastHalf BY <1>1, <2>2 DEF OInv, Whole
  <2>4. LastHalf' = LastHalf BY <1>1 DEF LastHalf
  <2>5. QED BY <1>1, <2>2, <2>3, <2>4 DEF OInv, Whole
<1>8. QED BY <1>3, <1>4, <1>5, <1>6, <1>7 DEF OInv

\* The drain, and the code goes down the pipe.
LEMMA WriteKeeps == ASSUME Core, OInv, C!Write PROVE OInv'
<1>1. /\ pc = "write" /\ eval > 0 /\ stage = "idle" /\ lines' = <<>>
      /\ UNCHANGED <<proc, eval, torn, reader, partial, wire, outcome>>
      /\ \/ pc' = "scan" /\ stage' = "entry" /\ proc = "up"
         \/ pc' = "idle" /\ stage' = "idle" /\ proc # "up" /\ got'.of = 0
  BY DEF C!Write, C!Submit, C!Return, C!irqVars, C!Line, Core, Typed, InStep
<1>2. Bounded' BY <1>1 DEF OInv, Bounded
<1>3. NoOwn' BY <1>1 DEF OInv, OutcomeKnown, NoOwn, Without
<1>4. outcome = "none" BY <1>1 DEF OInv, OutcomeKnown
<1>5. TornOver' BY <1>1 DEF OInv, TornOver
<1>6. OutcomeKnown' BY <1>1, <1>3, <1>4 DEF OutcomeKnown
<1>7. ErrLines' /\ OkLines' BY <1>1, <1>4 DEF ErrLines, OkLines
<1>8. LastHalf' = LastHalf /\ Fresh' = Fresh BY <1>1 DEF LastHalf, Fresh
<1>9. Whole' BY <1>1, <1>8 DEF OInv, Whole
<1>10. GivenOutcome' BY <1>1 DEF GivenOutcome
<1>11. QED BY <1>2, <1>5, <1>6, <1>7, <1>9, <1>10 DEF OInv

\* A token is taken from the wire.
LEMMA ReadKeeps == ASSUME Core, OInv, C!Read PROVE OInv'
<1>1. /\ wire # <<>> /\ wire \in Seq(Frames) /\ reader = C!NoLine /\ reader.of = 0
      /\ UNCHANGED <<proc, eval, pc, got, lines, stage, outcome, torn>>
      /\ wire' = Tail(wire) /\ Len(wire') = Len(wire) - 1 /\ wire' \in Seq(Frames)
      /\ Head(wire) = wire[1] /\ wire[1] \in Frames
      /\ Len(wire) = 1 => wire' = <<>>
      /\ Len(wire) \in Nat /\ Len(wire) > 0
  BY TailOf DEF Core, Typed, C!Read, C!runtimeVars, C!irqVars, C!goVars, C!NoLine, C!Line
<1>2. IF wire[1].st = "head"
      THEN /\ reader' = C!NoLine /\ reader'.of = 0
           /\ partial' = IF partial = "none" THEN "head" ELSE "broken"
      ELSE /\ reader'.of = wire[1].of /\ partial' = "none"
           /\ reader'.st = IF wire[1].st = "err" /\ partial = "head" THEN "err" ELSE "ok"
  BY <1>1 DEF C!Read, C!Parse, C!Line, C!NoLine, Frames
<1>3. wire[1].st \in {"ok", "err", "head"} /\ wire[1].of > 0 BY <1>1 DEF Frames
<1>4. /\ \A i \in 1 .. Len(wire') : wire'[i] = wire[i + 1] /\ i + 1 \in 1 .. Len(wire)
      /\ Without(wire, eval) => Without(wire', eval)
      /\ \A i : FirstOf(wire', i, eval) =>
             FirstOf(wire, i + 1, eval) \/ FirstOf(wire, 1, eval)
  BY <1>1, TailFirst
<1>5. Fresh' = Fresh BY <1>1 DEF Fresh
<1>6. 1 \in 1 .. Len(wire) BY <1>1
<1>7. pc \in {"scan", "status"} => eval > 0 BY DEF Core, Typed
<1>8. Bounded'
  BY <1>1, <1>2, <1>4, <1>6 DEF OInv, Bounded, Core, Typed
<1>9. TornOver' BY <1>1 DEF OInv, TornOver
<1>10. eval > 0 /\ NoOwn => NoOwn'
  BY <1>1, <1>2, <1>4, <1>6 DEF NoOwn, Without
<1>11. eval > 0 /\ SaidOk => SaidOk'
  <2>1. SUFFICES ASSUME eval > 0, SaidOk PROVE SaidOk' OBVIOUS
  <2>2. CASE OwnLine
    <3>1. \E i \in 1 .. Len(lines) : lines[i].of = eval BY <1>1, <2>1, <2>2 DEF OwnLine
    <3>2. QED BY <1>1, <3>1 DEF SaidOk, OwnLine
  <2>3. CASE ~OwnLine
    <3>1. PICK i \in 1 .. Len(wire) : wire[i].of = eval /\ wire[i].st = "ok"
      BY <2>1, <2>3 DEF SaidOk
    <3>2. CASE i = 1 BY <1>1, <1>2, <3>1, <3>2 DEF SaidOk, OwnLine
    <3>3. CASE i # 1
      <4>1. i - 1 \in 1 .. Len(wire') /\ (i - 1) + 1 = i BY <1>1, <3>1, <3>3
      <4>2. wire'[i - 1] = wire[i] BY <1>4, <4>1
      <4>3. QED BY <1>1, <3>1, <4>1, <4>2 DEF SaidOk
    <3>4. QED BY <3>2, <3>3
  <2>4. QED BY <2>2, <2>3
<1>12. stage # "idle" => pc = "scan" BY DEF Core, InStep
<1>13. OutcomeKnown'
  <2>1. pc = "write" => eval > 0 BY DEF Core, Typed
  <2>2. OutcomeKnown BY DEF OInv
  <2>3. QED BY <1>1, <1>7, <1>10, <1>11, <1>12, <2>1, <2>2 DEF OutcomeKnown
<1>14. ErrLines'
  <2>1. SUFFICES ASSUME pc \in {"scan", "status"}, outcome = "err"
                 PROVE  /\ \A i \in 1 .. Len(wire') : wire'[i].of = eval => wire'[i].st # "ok"
                        /\ reader'.of = eval => Match(reader'.st)
                        /\ \A i \in 1 .. Len(lines) : lines[i].of = eval => Match(lines[i].st)
    BY <1>1, <1>5 DEF ErrLines, Match
  <2>2. /\ \A i \in 1 .. Len(wire) : wire[i].of = eval => wire[i].st # "ok"
        /\ \A i \in 1 .. Len(lines) : lines[i].of = eval => Match(lines[i].st)
    BY <2>1 DEF OInv, ErrLines
  <2>3. ASSUME reader'.of = eval PROVE Match(reader'.st)
    <3>1. wire[1].st = "err" BY <1>2, <1>3, <1>6, <1>7, <2>1, <2>2, <2>3
    <3>2. Fresh => partial = "head" BY <1>1, <3>1 DEF OInv, Whole
    <3>3. QED BY <1>2, <2>1, <3>1, <3>2 DEF Match
  <2>4. QED BY <1>4, <2>2, <2>3
<1>15. OkLines'
  <2>1. SUFFICES ASSUME pc \in {"scan", "status"}, outcome = "ok"
                 PROVE  /\ \A i : FirstOf(lines, i, eval) => lines[i].st = "ok"
                        /\ reader'.of = eval /\ Without(lines, eval) => reader'.st = "ok"
                        /\ ~OwnLine' => \A i : FirstOf(wire', i, eval) => wire'[i].st = "ok"
    BY <1>1 DEF OkLines
  <2>2. /\ \A i : FirstOf(lines, i, eval) => lines[i].st = "ok"
        /\ ~OwnLine => \A i : FirstOf(wire, i, eval) => wire[i].st = "ok"
    BY <2>1 DEF OInv, OkLines
  <2>3. Without(lines, eval) => ~OwnLine
    BY <1>1, <1>7, <2>1 DEF Without, OwnLine
  <2>4. wire[1].of = eval => FirstOf(wire, 1, eval)
    BY <1>6 DEF FirstOf
  <2>5. ASSUME reader'.of = eval, Without(lines, eval) PROVE reader'.st = "ok"
    <3>1. wire[1].of = eval BY <1>2, <1>7, <2>1, <2>5
    <3>2. wire[1].st = "ok" BY <2>2, <2>3, <2>4, <2>5, <3>1
    <3>3. QED BY <1>2, <3>2
  <2>6. ASSUME ~OwnLine', NEW i, FirstOf(wire', i, eval) PROVE wire'[i].st = "ok"
    <3>1. ~OwnLine BY <1>1, <1>7, <2>1, <2>6 DEF OwnLine
    <3>2. ~FirstOf(wire, 1, eval)
      <4>1. SUFFICES ASSUME FirstOf(wire, 1, eval) PROVE FALSE OBVIOUS
      <4>2. wire[1].st = "ok" /\ wire[1].of = eval BY <2>2, <3>1, <4>1 DEF FirstOf
      <4>3. reader'.of = eval BY <1>2, <4>2
      <4>4. QED BY <1>1, <2>6, <4>3 DEF OwnLine
    <3>3. FirstOf(wire, i + 1, eval) BY <1>4, <2>6, <3>2
    <3>4. i \in 1 .. Len(wire') BY <2>6 DEF FirstOf
    <3>5. QED BY <1>4, <2>2, <3>1, <3>3, <3>4
  <2>7. QED BY <2>2, <2>5, <2>6
<1>16. Whole'
  <2>1. SUFFICES ASSUME Fresh PROVE Whole' BY <1>5 DEF Whole
  <2>2. /\ partial \in {"none", "head"}
        /\ partial = "head" <=> wire[1].st = "err"
        /\ \A i \in 1 .. Len(wire) - 1 : wire[i].st = "head" <=> wire[i + 1].st = "err"
        /\ stage = "headed" => LastHalf
        /\ LastHalf => stage = "headed" \/ eval \in torn \/ proc # "up"
    BY <1>1, <2>1 DEF OInv, Whole
  <2>3. partial' = "head" <=> wire[1].st = "head" BY <1>2, <2>2
  <2>4. partial' \in {"none", "head"} BY <1>2, <2>2
  <2>5. wire' # <<>> => (partial' = "head" <=> wire'[1].st = "err")
    <3>1. SUFFICES ASSUME wire' # <<>> PROVE partial' = "head" <=> wire'[1].st = "err"
      OBVIOUS
    <3>2. Len(wire') > 0 BY <1>1, <3>1, EmptySeq
    <3>3. 1 \in 1 .. Len(wire') /\ 1 \in 1 .. Len(wire) - 1 BY <1>1, <3>2
    <3>4. wire'[1] = wire[1 + 1] BY <1>4, <3>3
    <3>5. QED BY <2>2, <2>3, <3>3, <3>4
  <2>6. \A i \in 1 .. Len(wire') - 1 : wire'[i].st = "head" <=> wire'[i + 1].st = "err"
    <3>1. SUFFICES ASSUME NEW i \in 1 .. Len(wire') - 1
                   PROVE  wire'[i].st = "head" <=> wire'[i + 1].st = "err"
      OBVIOUS
    <3>2. /\ i \in 1 .. Len(wire') /\ i + 1 \in 1 .. Len(wire')
          /\ i + 1 \in 1 .. Len(wire) - 1
      BY <1>1
    <3>3. wire'[i] = wire[i + 1] /\ wire'[i + 1] = wire[(i + 1) + 1] BY <1>4, <3>2
    <3>4. QED BY <2>2, <3>2, <3>3
  <2>7. LastHalf' <=> LastHalf
    <3>1. CASE Len(wire) = 1
      <4>1. LastHalf <=> wire[1].st = "head" BY <1>1, <3>1 DEF LastHalf
      <4>2. LastHalf' <=> partial' = "head" BY <1>1, <3>1 DEF LastHalf
      <4>3. QED BY <2>3, <4>1, <4>2
    <3>2. CASE Len(wire) # 1
      <4>1. Len(wire') \in 1 .. Len(wire') /\ Len(wire') + 1 = Len(wire) BY <1>1, <3>2
      <4>2. wire' # <<>>
        <5>1. Len(wire') # 0 BY <1>1, <3>2
        <5>2. QED BY <1>1, <5>1, EmptySeq
      <4>3. wire'[Len(wire')] = wire[Len(wire)] BY <1>4, <4>1
      <4>4. QED BY <1>1, <4>2, <4>3 DEF LastHalf
    <3>3. QED BY <3>1, <3>2
  <2>8. QED BY <1>1, <2>2, <2>4, <2>5, <2>6, <2>7 DEF Whole
<1>17. GivenOutcome' BY <1>1, <1>5 DEF OInv, GivenOutcome, Match
<1>18. QED BY <1>8, <1>9, <1>13, <1>14, <1>15, <1>16, <1>17 DEF OInv

\* A line goes into the channel.
LEMMA DeliverKeeps == ASSUME Core, OInv, C!Deliver PROVE OInv'
<1>1. /\ reader \in Frames /\ lines \in Seq(Frames) /\ lines' = Append(lines, reader)
      /\ reader' = C!NoLine /\ reader'.of = 0
      /\ UNCHANGED <<proc, eval, pc, got, partial, wire, stage, outcome, torn>>
  BY DEF Core, Typed, C!Deliver, C!goVars, C!runtimeVars, C!irqVars, C!NoLine, C!Line
<1>2. /\ Len(lines') = Len(lines) + 1 /\ Len(lines) \in Nat
      /\ \A i \in 1 .. Len(lines) : lines'[i] = lines[i]
      /\ lines'[Len(lines) + 1] = reader
  BY <1>1
<1>3. /\ Without(lines, eval) /\ reader.of # eval => Without(lines', eval)
      /\ \A i : FirstOf(lines', i, eval) =>
             FirstOf(lines, i, eval) \/ (Without(lines, eval) /\ reader.of = eval)
  BY <1>1, AppendFirst
<1>4. pc # "idle" => eval > 0 BY DEF Core, Typed
<1>5. \A i \in 1 .. Len(lines') : lines'[i] = IF i = Len(lines) + 1 THEN reader ELSE lines[i]
  BY <1>2
<1>6. Bounded'
  BY <1>1, <1>2, <1>5 DEF OInv, Bounded, Core, Typed
<1>7. TornOver' BY <1>1 DEF OInv, TornOver
<1>8. eval > 0 => (NoOwn => NoOwn')
  BY <1>1, <1>3 DEF NoOwn
<1>9. OwnLine => OwnLine'
  <2>1. ASSUME reader.of = eval PROVE OwnLine'
    <3>1. Len(lines) + 1 \in 1 .. Len(lines') BY <1>2
    <3>2. QED BY <1>1, <1>2, <2>1, <3>1 DEF OwnLine
  <2>2. ASSUME NEW i \in 1 .. Len(lines), lines[i].of = eval PROVE OwnLine'
    <3>1. i \in 1 .. Len(lines') BY <1>2
    <3>2. QED BY <1>1, <1>2, <2>2, <3>1 DEF OwnLine
  <2>3. QED BY <2>1, <2>2 DEF OwnLine
<1>10. SaidOk => SaidOk' BY <1>1, <1>9 DEF SaidOk
<1>11. stage # "idle" => pc = "scan" BY DEF Core, InStep
<1>12. OutcomeKnown'
  <2>1. OutcomeKnown BY DEF OInv
  <2>2. QED BY <1>1, <1>4, <1>8, <1>10, <1>11, <2>1 DEF OutcomeKnown
<1>13. Fresh' = Fresh BY <1>1 DEF Fresh
<1>14. ErrLines'
  BY <1>1, <1>4, <1>5, <1>13 DEF OInv, ErrLines, Match
<1>15. OkLines'
  <2>1. SUFFICES ASSUME pc \in {"scan", "status"}, outcome = "ok"
                 PROVE  /\ \A i : FirstOf(lines', i, eval) => lines'[i].st = "ok"
                        /\ ~OwnLine' => \A i : FirstOf(wire, i, eval) => wire[i].st = "ok"
    <3>1. pc \in {"scan", "status"} => reader'.of # eval' BY <1>1, <1>4
    <3>2. QED BY <1>1, <3>1 DEF OkLines
  <2>2. /\ \A i : FirstOf(lines, i, eval) => lines[i].st = "ok"
        /\ reader.of = eval /\ Without(lines, eval) => reader.st = "ok"
        /\ ~OwnLine => \A i : FirstOf(wire, i, eval) => wire[i].st = "ok"
    BY <2>1 DEF OInv, OkLines
  <2>3. ASSUME NEW i, FirstOf(lines', i, eval) PROVE lines'[i].st = "ok"
    <3>1. i \in 1 .. Len(lines') /\ lines'[i].of = eval BY <2>3 DEF FirstOf
    <3>2. CASE FirstOf(lines, i, eval)
      BY <1>2, <2>2, <3>2 DEF FirstOf
    <3>3. CASE Without(lines, eval) /\ reader.of = eval
      <4>1. i = Len(lines) + 1 BY <1>2, <1>5, <3>1, <3>3 DEF Without
      <4>2. QED BY <1>2, <2>2, <3>3, <4>1
    <3>4. QED BY <1>3, <2>3, <3>2, <3>3
  <2>4. QED BY <1>9, <2>2, <2>3
<1>16. LastHalf' = LastHalf BY <1>1 DEF LastHalf
<1>17. Whole' BY <1>1, <1>13, <1>16 DEF OInv, Whole
<1>18. GivenOutcome' BY <1>1, <1>13 DEF OInv, GivenOutcome, Match
<1>19. QED BY <1>6, <1>7, <1>12, <1>14, <1>15, <1>17, <1>18 DEF OInv

\* The bounded wait: the first line is what the eval is given.
LEMMA StatusKeeps == ASSUME Core, OInv, C!Status PROVE OInv'
<1>1. /\ pc = "status" /\ pc' = "idle" /\ stage = "idle" /\ eval > 0
      /\ UNCHANGED <<proc, eval, reader, partial, wire, stage, outcome, torn>>
      /\ \/ lines # <<>> /\ got' = Head(lines) /\ lines' = Tail(lines)
         \/ lines = <<>> /\ lines' = <<>> /\ got'.of = 0
  BY DEF Core, Typed, InStep, C!Status, C!Return, C!runtimeVars, C!irqVars, C!Line
<1>2. Fresh' = Fresh /\ LastHalf' = LastHalf BY <1>1 DEF Fresh, LastHalf
<1>3. Bounded'
  <2>1. CASE lines # <<>>
    <3>1. \A i \in 1 .. Len(Tail(lines)) :
              Tail(lines)[i] = lines[i + 1] /\ i + 1 \in 1 .. Len(lines)
      BY <2>1, TailFirst DEF Core, Typed
    <3>2. QED BY <1>1, <2>1, <3>1 DEF OInv, Bounded
  <2>2. CASE lines = <<>> BY <1>1, <2>2 DEF OInv, Bounded
  <2>3. QED BY <2>1, <2>2
<1>4. TornOver' /\ OutcomeKnown' /\ ErrLines' /\ OkLines'
  BY <1>1 DEF TornOver, OutcomeKnown, ErrLines, OkLines
<1>5. Whole' BY <1>1, <1>2 DEF OInv, Whole
<1>6. GivenOutcome'
  <2>1. SUFFICES ASSUME lines # <<>>, got' = Head(lines), Head(lines).of = eval
                 PROVE  Match(Head(lines).st)
    BY <1>1, <1>2 DEF GivenOutcome, Match
  <2>2. Head(lines) = lines[1] /\ 1 \in 1 .. Len(lines)
    <3>1. lines \in Seq(Frames) BY DEF Core, Typed
    <3>2. QED BY <2>1, <3>1, EmptySeq
  <2>3. FirstOf(lines, 1, eval) BY <2>1, <2>2 DEF FirstOf
  <2>4. ~NoOwn BY <2>1, <2>2 DEF NoOwn, Without
  <2>5. outcome \in {"ok", "err"} BY <1>1, <2>4 DEF OInv, OutcomeKnown
  <2>6. outcome = "ok" => lines[1].st = "ok" BY <1>1, <2>3 DEF OInv, OkLines
  <2>7. outcome = "err" => Match(lines[1].st) BY <1>1, <2>1, <2>2 DEF OInv, ErrLines
  <2>8. QED BY <2>2, <2>5, <2>6, <2>7 DEF Match
<1>7. QED BY <1>3, <1>4, <1>5, <1>6 DEF OInv

\* What a token of the current eval adds.
LEMMA SendKeeps ==
    ASSUME Core, OInv, stage # "idle", NEW st \in {"ok", "err", "head"}, C!Send(st),
           UNCHANGED <<eval, lines, reader, partial>>
    PROVE  /\ Bounded' /\ OwnLine' = OwnLine
           /\ SaidOk => SaidOk'
           /\ st = "ok" => SaidOk'
           /\ \A i \in 1 .. Len(wire') : wire'[i].of = eval =>
                  wire'[i].st = st \/ \E j \in 1 .. Len(wire) : j = i /\ wire[j] = wire'[i]
           /\ \A i : FirstOf(wire', i, eval) =>
                  (FirstOf(wire, i, eval) /\ wire'[i] = wire[i]) \/ (Without(wire, eval) /\ wire'[i].st = st)
           /\ LastHalf' <=> st = "head"
<1>1. /\ wire \in Seq(Frames) /\ wire' \in Seq(Frames) /\ Len(wire') = Len(wire) + 1
      /\ wire' # <<>> /\ Len(wire) \in Nat
      /\ \A i \in 1 .. Len(wire) : wire'[i] = wire[i]
      /\ wire'[Len(wire')].st = st
  BY SendAdds DEF Core, Typed
<1>2. wire' = Append(wire, C!Line(eval, st)) /\ C!Line(eval, st).of = eval
  BY DEF C!Send, C!Line
<1>3. wire'[Len(wire) + 1].of = eval /\ wire'[Len(wire) + 1].st = st
  BY <1>1, <1>2
<1>4. \A i \in 1 .. Len(wire') : i \in 1 .. Len(wire) \/ i = Len(wire) + 1
  BY <1>1
<1>5. Bounded'
  BY <1>1, <1>3, <1>4 DEF OInv, Bounded, Core, Typed
<1>6. OwnLine' = OwnLine BY DEF OwnLine
<1>7. SaidOk => SaidOk'
  <2>1. \A i \in 1 .. Len(wire) : i \in 1 .. Len(wire') BY <1>1
  <2>2. QED BY <1>1, <1>6, <2>1 DEF SaidOk
<1>8. st = "ok" => SaidOk'
  <2>1. Len(wire) + 1 \in 1 .. Len(wire') BY <1>1
  <2>2. QED BY <1>3, <2>1 DEF SaidOk
<1>9. \A i \in 1 .. Len(wire') : wire'[i].of = eval =>
          wire'[i].st = st \/ \E j \in 1 .. Len(wire) : j = i /\ wire[j] = wire'[i]
  BY <1>1, <1>3, <1>4
<1>10. ASSUME NEW i, FirstOf(wire', i, eval)
       PROVE  \/ FirstOf(wire, i, eval) /\ wire'[i] = wire[i]
              \/ Without(wire, eval) /\ wire'[i].st = st
  <2>1. C!Line(eval, st) \in Frames
    BY DEF Core, Typed, InStep, Frames, C!Line
  <2>2. FirstOf(wire, i, eval) \/ Without(wire, eval)
    BY <1>1, <1>2, <1>10, <2>1, AppendFirst
  <2>3. CASE FirstOf(wire, i, eval)
    BY <1>1, <2>3 DEF FirstOf
  <2>4. CASE Without(wire, eval)
    <3>1. i \in 1 .. Len(wire') /\ wire'[i].of = eval BY <1>10 DEF FirstOf
    <3>2. i \notin 1 .. Len(wire) BY <1>1, <2>4, <3>1 DEF Without
    <3>3. QED BY <1>3, <1>4, <2>4, <3>1, <3>2
  <2>5. QED BY <2>2, <2>3, <2>4
<1>11. LastHalf' <=> st = "head" BY <1>1 DEF LastHalf
<1>12. QED BY <1>5, <1>6, <1>7, <1>8, <1>9, <1>10, <1>11

\* Halves and wholes stay in their places when a token is added that may follow.
LEMMA SendWhole ==
    ASSUME Core, OInv, stage \in {"report", "handler", "headed"},
           NEW st \in {"ok", "err", "head"}, C!Send(st),
           UNCHANGED <<eval, proc, partial, torn>>, st = "err" <=> stage = "headed",
           st = "head" <=> stage' = "headed"
    PROVE  Whole'
<1>1. /\ wire \in Seq(Frames) /\ wire' \in Seq(Frames) /\ Len(wire') = Len(wire) + 1
      /\ wire' # <<>> /\ Len(wire) \in Nat
      /\ \A i \in 1 .. Len(wire) : wire'[i] = wire[i]
      /\ wire'[Len(wire')].st = st
  BY SendAdds DEF Core, Typed
<1>2. SUFFICES ASSUME Fresh PROVE Whole' BY DEF Whole, Fresh
<1>3. /\ partial \in {"none", "head"}
      /\ wire # <<>> => (partial = "head" <=> wire[1].st = "err")
      /\ \A i \in 1 .. Len(wire) - 1 : wire[i].st = "head" <=> wire[i + 1].st = "err"
      /\ stage = "headed" => LastHalf
      /\ LastHalf => stage = "headed" \/ eval \in torn \/ proc # "up"
  BY <1>2 DEF OInv, Whole
<1>4. LastHalf <=> st = "err"
  <2>1. proc = "up" BY DEF Core, InStep
  <2>2. eval \notin torn BY DEF OInv, TornOver
  <2>3. QED BY <1>3, <2>1, <2>2
<1>5. wire = <<>> <=> Len(wire) = 0 BY <1>1, EmptySeq
<1>6. partial = "head" <=> wire'[1].st = "err"
  <2>1. CASE wire = <<>>
    BY <1>1, <1>4, <1>5, <2>1 DEF LastHalf
  <2>2. CASE wire # <<>>
    BY <1>1, <1>3, <1>5, <2>2
  <2>3. QED BY <2>1, <2>2
<1>7. \A i \in 1 .. Len(wire') - 1 : wire'[i].st = "head" <=> wire'[i + 1].st = "err"
  <2>1. SUFFICES ASSUME NEW i \in 1 .. Len(wire') - 1
                 PROVE  wire'[i].st = "head" <=> wire'[i + 1].st = "err"
    OBVIOUS
  <2>2. i \in 1 .. Len(wire) /\ wire'[i] = wire[i] BY <1>1
  <2>3. CASE i = Len(wire)
    <3>1. LastHalf <=> wire[i].st = "head" BY <1>5, <2>2, <2>3 DEF LastHalf
    <3>2. wire'[i + 1].st = st BY <1>1, <2>3
    <3>3. QED BY <1>4, <2>2, <3>1, <3>2
  <2>4. CASE i # Len(wire)
    <3>1. i \in 1 .. Len(wire) - 1 /\ i + 1 \in 1 .. Len(wire) BY <1>1, <2>2, <2>4
    <3>2. QED BY <1>1, <1>3, <2>2, <3>1
  <2>5. QED BY <2>3, <2>4
<1>8. LastHalf' <=> st = "head" BY <1>1 DEF LastHalf
<1>9. QED BY <1>1, <1>3, <1>6, <1>7, <1>8 DEF Whole

\* The OK line.
LEMMA ReportKeeps == ASSUME Core, OInv, C!Report PROVE OInv'
<1>1. /\ stage = "report" /\ pc = "scan" /\ proc = "up" /\ outcome = "ok" /\ NoOwn
      /\ eval > 0 /\ eval \notin torn /\ stage' \in {"reported", "sentinel"}
      /\ UNCHANGED <<proc, eval, pc, got, lines, reader, partial, torn>>
  BY DEF C!Report, C!To, C!Free, C!goVars, C!readerVars, C!irqVars, Core, InStep, Typed, OInv,
         OutcomeKnown, TornOver
<1>2. Fresh' = Fresh BY <1>1 DEF Fresh
<1>3. TornOver' /\ GivenOutcome' BY <1>1 DEF TornOver, GivenOutcome
<1>4. CASE C!Send("ok") /\ outcome' = outcome
  <2>1. /\ Bounded' /\ SaidOk'
        /\ \A i : FirstOf(wire', i, eval) =>
               (FirstOf(wire, i, eval) /\ wire'[i] = wire[i]) \/ wire'[i].st = "ok"
    BY <1>1, <1>4, SendKeeps
  <2>2. Whole' BY <1>1, <1>4, SendWhole
  <2>3. OutcomeKnown' BY <1>1, <1>4, <2>1 DEF OutcomeKnown
  <2>4. ErrLines' BY <1>1, <1>4 DEF ErrLines
  <2>5. \A i : ~FirstOf(lines, i, eval) /\ ~FirstOf(wire, i, eval)
    BY <1>1 DEF NoOwn, Without, FirstOf
  <2>6. OkLines' BY <1>1, <1>4, <2>1, <2>5 DEF OkLines, NoOwn
  <2>7. QED BY <1>3, <2>1, <2>2, <2>3, <2>4, <2>6 DEF OInv
<1>5. CASE UNCHANGED wire /\ stage' = "sentinel" /\ outcome' = "unshown"
  <2>1. Bounded' /\ NoOwn' /\ LastHalf' = LastHalf
    BY <1>1, <1>5 DEF OInv, Bounded, NoOwn, Without, LastHalf
  <2>2. OutcomeKnown' BY <1>1, <1>5, <2>1 DEF OutcomeKnown
  <2>3. ErrLines' /\ OkLines' BY <1>5 DEF ErrLines, OkLines
  <2>4. Whole' BY <1>1, <1>2, <1>5, <2>1 DEF OInv, Whole
  <2>5. QED BY <1>3, <2>1, <2>2, <2>3, <2>4 DEF OInv
<1>6. QED BY <1>4, <1>5 DEF C!Report, C!To

\* The ERR line, in two parts, or none.
LEMMA HandleKeeps == ASSUME Core, OInv, C!Handle PROVE OInv'
<1>1. /\ stage \in {"handler", "headed"} /\ pc = "scan" /\ proc = "up" /\ eval > 0
      /\ eval \notin torn /\ stage' \in {"headed", "sentinel"}
      /\ UNCHANGED <<proc, eval, pc, got, lines, reader, partial, torn>>
      /\ OutcomeKnown /\ outcome \in {"ok", "err"}
  BY DEF C!Handle, C!To, C!Free, C!goVars, C!readerVars, C!irqVars, Core, InStep, Typed, OInv,
         OutcomeKnown, TornOver
<1>2. Fresh' = Fresh BY <1>1 DEF Fresh
<1>3. TornOver' /\ GivenOutcome' BY <1>1 DEF TornOver, GivenOutcome
<1>4. ASSUME NEW st \in {"head", "err"}, C!Send(st), outcome' = outcome,
             st = "err" <=> stage = "headed", st = "head" <=> stage' = "headed"
      PROVE  OInv'
  <2>1. /\ Bounded' /\ OwnLine' = OwnLine
        /\ SaidOk => SaidOk'
        /\ \A i \in 1 .. Len(wire') : wire'[i].of = eval =>
               wire'[i].st = st \/ \E j \in 1 .. Len(wire) : j = i /\ wire[j] = wire'[i]
        /\ \A i : FirstOf(wire', i, eval) =>
               (FirstOf(wire, i, eval) /\ wire'[i] = wire[i]) \/ Without(wire, eval)
    BY <1>1, <1>4, SendKeeps
  <2>2. Whole' BY <1>1, <1>4, SendWhole
  <2>3. OutcomeKnown' BY <1>1, <1>4, <2>1 DEF OutcomeKnown
  <2>4. ErrLines' BY <1>1, <1>2, <1>4, <2>1 DEF OInv, ErrLines, Match
  <2>5. outcome = "ok" => SaidOk BY <1>1 DEF OutcomeKnown
  <2>6. SaidOk => OwnLine \/ ~Without(wire, eval) BY DEF SaidOk, Without
  <2>7. OkLines' BY <1>1, <1>4, <2>1, <2>5, <2>6 DEF OInv, OkLines
  <2>8. QED BY <1>3, <2>1, <2>2, <2>3, <2>4, <2>7 DEF OInv
<1>5. CASE /\ stage = "handler" /\ stage' = "sentinel" /\ UNCHANGED wire
           /\ outcome' = IF outcome = "err" THEN "unrendered" ELSE outcome
  <2>1. UNCHANGED <<eval, lines, reader, partial, wire>> BY <1>1, <1>5
  <2>2. /\ UNCHANGED <<Bounded, NoOwn, OwnLine, LastHalf>>
        /\ \A i : UNCHANGED <<FirstOf(lines, i, eval), FirstOf(wire, i, eval)>>
        /\ UNCHANGED Without(lines, eval)
    BY <2>1, SameLines
  <2>3. outcome = "err" => NoOwn BY <1>1, <1>5 DEF OutcomeKnown
  <2>4. OutcomeKnown' BY <1>1, <1>5, <2>2, <2>3 DEF OutcomeKnown
  <2>5. ErrLines' BY <1>5 DEF ErrLines
  <2>6. OkLines' BY <1>1, <1>5, <2>1, <2>2 DEF OInv, OkLines
  <2>7. Whole' BY <1>1, <1>2, <1>5, <2>1, <2>2 DEF OInv, Whole
  <2>8. QED BY <1>3, <2>2, <2>4, <2>5, <2>6, <2>7 DEF OInv
<1>6. QED BY <1>4, <1>5 DEF C!Handle, C!To

(***************************************************************************)
(* The whole.                                                              *)
(***************************************************************************)

\* A channel that has not been used satisfies the invariant.
LEMMA UnusedKeeps == ASSUME C!ChannelInit PROVE OInv
BY DEF C!ChannelInit, C!NoLine, C!Line, OInv, Bounded, TornOver, OutcomeKnown, ErrLines, OkLines,
       Whole, LastHalf, GivenOutcome

\* Steps of start leave the channel alone.
LEMMA StartKeeps == ASSUME IInv, OInv, Start PROVE OInv'
<1>1. state = "started" => UNCHANGED <<channelVars, proc>>
  BY StartShares DEF Start, IInv, Typed, Unused
<1>2. CASE state = "started"
  <2>1. UNCHANGED <<eval, lines, reader, partial, wire>> BY <1>1, <1>2 DEF channelVars
  <2>2. QED
    BY <1>1, <1>2, <2>1, SameLines
       DEF channelVars, OInv, Bounded, TornOver, Fresh, OutcomeKnown, Match, ErrLines, OkLines,
           Whole, GivenOutcome
<1>3. CASE state # "started"
  <2>1. C!ChannelInit' BY <1>3 DEF IInv, Unused, Start, C!ChannelInit, channelVars
  <2>2. QED
    BY <2>1
       DEF C!ChannelInit, C!NoLine, C!Line, OInv, Bounded, TornOver, OutcomeKnown, ErrLines,
           OkLines, Whole, LastHalf, GivenOutcome
<1>4. QED BY <1>2, <1>3

\* Every step of the channel keeps the invariant.
LEMMA UseKeeps == ASSUME IInv, OInv, Use PROVE OInv'
<1>1. Core /\ C!Next
  BY DEF IInv, Core, Use
<1>2. C!GoStep => OInv'
  BY <1>1, WriteKeeps, ScanKeeps, StatusKeeps DEF C!GoStep
<1>3. C!ReaderStep => OInv'
  BY <1>1, ReadKeeps, DeliverKeeps DEF C!ReaderStep
<1>4. C!MainStep => OInv'
  BY <1>1, EnterKeeps, ReportKeeps, LeaveKeeps, HandleKeeps, PrintSentinelKeeps, NoticeKeeps
     DEF C!MainStep
<1>5. C!ListenerStep => OInv'
  BY <1>1, ListenPythonKeeps, InterruptMainKeeps, ListenJuliaKeeps DEF C!ListenerStep
<1>6. C!IrqStep => OInv'
  BY <1>1, SignalKeeps, SettleKeeps DEF C!IrqStep
<1>7. QED
  BY <1>1, <1>2, <1>3, <1>4, <1>5, <1>6, BeginKeeps, CodeEndsKeeps, InterruptKeeps,
     ResendKeeps, ProcessExitsKeeps DEF C!Next

\* Every step of the composition keeps the invariant.
LEMMA StepKeeps == IInv /\ OInv /\ [Next]_vars => OInv'
<1> SUFFICES ASSUME IInv, OInv, [Next]_vars PROVE OInv'
  OBVIOUS
<1>1. CASE UNCHANGED vars
  <2>1. UNCHANGED <<eval, lines, reader, partial, wire>> BY <1>1 DEF vars, channelVars
  <2>2. QED
    BY <1>1, <2>1, SameLines
       DEF vars, channelVars, OInv, Bounded, TornOver, Fresh, OutcomeKnown, Match, ErrLines,
           OkLines, Whole, GivenOutcome
<1>2. QED BY <1>1, StartKeeps, UseKeeps DEF Next

\* A status of its own tells an eval what became of its code, unless an interrupt left
\* half an ERR line behind before, which can only make a success of an error; and what
\* the end of the stream makes of a missing line is wrong only for code that was
\* interrupted or whose value or error could not be shown (session.go:284, 443-459).
THEOREM OutcomeIsReported == Spec => []OutcomeReported
<1>1. Init => OInv
  BY UnusedKeeps DEF Init
<1>2. IInv /\ OInv => OutcomeReported
  <2>1. SUFFICES ASSUME IInv, OInv, C!Returned, got.st \in {"ok", "err"}, got.of \in {0, eval},
                        got.st # outcome
                 PROVE  /\ got.st = "ok"
                        /\ \/ got.of = eval /\ outcome = "err" /\ \E n \in torn : n < eval
                           \/ /\ got.of = 0 /\ proc = "gone"
                              /\ eval \in hit \/ outcome \in {"unshown", "unrendered"}
    BY DEF OutcomeReported, C!OutcomeReported
  <2>2. pc = "idle" /\ eval > 0 BY <2>1 DEF C!Returned
  <2>3. CASE got.of = eval
    <3>1. Match(got.st) BY <2>1, <2>2, <2>3 DEF OInv, GivenOutcome
    <3>2. got.st = "ok" /\ outcome = "err" /\ ~Fresh BY <2>1, <3>1 DEF Match
    <3>3. torn \subseteq Nat /\ eval \in Nat BY <2>1 DEF IInv, Typed
    <3>4. \E n \in torn : n < eval BY <3>2, <3>3 DEF Fresh
    <3>5. QED BY <2>3, <3>2, <3>4
  <2>4. CASE got.of = 0
    BY <2>1, <2>2, <2>4 DEF IInv, Given, Unsaid
  <2>5. QED BY <2>1, <2>3, <2>4
<1>3. QED BY <1>1, <1>2, StepKeeps, Invariance, PTL DEF Spec

-----------------------------------------------------------------------------
(***************************************************************************)
(* The handshake: the inductive invariant of the startup part.             *)
(***************************************************************************)

\* The variables the argument is about have values of the right kind.
ConnTyped ==
    /\ conn \in [S!Conns -> {"none", "backlog", "reading", "won", "closed"}]
    /\ says \in [S!Conns -> {"nothing", "token", "wrong"}]
    /\ won \in S!Conns \cup {None} /\ control \in S!Conns \cup {None}

\* Only the runtime knows the token, and only a connection that sent it has won.
TokenHeld ==
    /\ \A s \in Strays : says[s] # "token"
    /\ \A c \in S!Conns : conn[c] = "won" => says[c] = "token"

\* The runtime dials once: its connection is not replaced by a new one.
DialledOnce == dial \in {"no", "failed"} => conn[Runtime] = "none"

\* The winner is in the channel until acceptControl has taken it, and a connection
\* that has been taken stays open until a failed start closes it.
WinnerKept ==
    /\ \A c \in S!Conns : conn[c] = "won" => won = c \/ (acc = "got" /\ control = c)
    /\ won # None => conn[won] = "won" /\ control = None
    /\ control # None =>
           /\ control = Runtime
           /\ conn[control] = "won" \/ (state = "failed" /\ conn[control] = "closed")

\* While acceptControl still looks for the runtime the listener is closed only
\* because there is a winner it has not seen, or because start has failed.
ClosedForCause ==
    ~ln /\ acc \in {"accept", "select"} => won # None \/ state = "failed"

\* Nothing is accepted before the launch.
NotYet == state = "off" => acc = "off"

HandshakeInv ==
    /\ NotYet /\ ConnTyped /\ TokenHeld /\ DialledOnce /\ WinnerKept /\ ClosedForCause
    /\ ControlIsRuntime /\ GivesUpLate

USE DEF S!Conns, S!StartupAssumption

\* Nothing has connected when a session is made.
LEMMA HandshakeBegins == Init => HandshakeInv
BY ControlAssumption
   DEF Init, S!Init, HandshakeInv, NotYet, ConnTyped, TokenHeld, DialledOnce, WinnerKept, ClosedForCause,
       ControlIsRuntime, S!ControlIsRuntime, GivesUpLate, S!GivesUpLate

\* The invariant is about the variables of the startup other than the process.
LEMMA OnlyStartVars == ASSUME HandshakeInv, UNCHANGED startVars PROVE HandshakeInv'
BY DEF HandshakeInv, NotYet, startVars, ConnTyped, TokenHeld, DialledOnce, WinnerKept, ClosedForCause,
       ControlIsRuntime, S!ControlIsRuntime, GivesUpLate, S!GivesUpLate

\* Steps of start.
LEMMA StartStepHolds == ASSUME HandshakeInv, S!Launch \/ S!StartStep PROVE HandshakeInv'
<1> USE ControlAssumption
        DEF HandshakeInv, NotYet, ConnTyped, TokenHeld, DialledOnce, WinnerKept, ClosedForCause,
            ControlIsRuntime, S!ControlIsRuntime, GivesUpLate, S!GivesUpLate
<1>1. CASE S!Launch BY <1>1 DEF S!Launch
<1>2. CASE S!PhaseDone BY <1>2 DEF S!PhaseDone, S!acceptVars
<1>3. CASE S!PhaseFails BY <1>3 DEF S!PhaseFails, S!acceptVars, S!Waiting
<1>4. CASE S!Handshake
  <2>1. control # None => control = Runtime /\ conn[control] = "won"
    BY <1>4 DEF S!Handshake
  <2>2. QED BY <1>4, <2>1 DEF S!Handshake
<1>5. CASE S!Kill BY <1>5 DEF S!Kill
<1>6. QED BY <1>1, <1>2, <1>3, <1>4, <1>5 DEF S!StartStep

\* Steps of acceptControl and of the goroutines of its connections.
LEMMA AcceptStepHolds ==
    ASSUME HandshakeInv,
           S!AcceptStep \/ S!Deadline \/ S!CloseListener \/ \E c \in S!Conns : S!Authed(c)
    PROVE  HandshakeInv'
<1> USE ControlAssumption
        DEF HandshakeInv, NotYet, ConnTyped, TokenHeld, DialledOnce, WinnerKept, ClosedForCause,
            ControlIsRuntime, S!ControlIsRuntime, GivesUpLate, S!GivesUpLate
<1>1. ASSUME NEW c \in S!Conns, S!Accept(c) PROVE HandshakeInv'
  BY <1>1 DEF S!Accept, S!Set
<1>2. CASE S!Select BY <1>2 DEF S!Select, S!Take
<1>3. CASE S!AcceptFails BY <1>3 DEF S!AcceptFails, S!Take
<1>4. CASE S!Deadline BY <1>4 DEF S!Deadline
<1>5. CASE S!CloseListener BY <1>5 DEF S!CloseListener
<1>6. ASSUME NEW c \in S!Conns, S!Authed(c) PROVE HandshakeInv'
  BY <1>6 DEF S!Authed, S!Set
<1>7. QED BY <1>1, <1>2, <1>3, <1>4, <1>5, <1>6 DEF S!AcceptStep

\* Steps of the interpreter and of other processes.
LEMMA OutsideStepHolds ==
    ASSUME HandshakeInv,
           S!Dial \/ S!Speak \/ S!Sentinel \/ \E s \in Strays : S!Connect(s)
    PROVE  HandshakeInv'
<1> USE ControlAssumption
        DEF HandshakeInv, NotYet, ConnTyped, TokenHeld, DialledOnce, WinnerKept, ClosedForCause,
            ControlIsRuntime, S!ControlIsRuntime, GivesUpLate, S!GivesUpLate
<1>1. CASE S!Dial BY <1>1 DEF S!Dial, S!Set
<1>2. CASE S!Speak BY <1>2 DEF S!Speak
<1>3. CASE S!Sentinel BY <1>3 DEF S!Sentinel, S!acceptVars
<1>4. ASSUME NEW s \in Strays, S!Connect(s) PROVE HandshakeInv'
  BY <1>4 DEF S!Connect, S!Set
<1>5. QED BY <1>1, <1>2, <1>3, <1>4

\* Every step of the composition keeps the invariant.
LEMMA HandshakeStep == HandshakeInv /\ [Next]_vars => HandshakeInv'
<1> SUFFICES ASSUME HandshakeInv, [Next]_vars PROVE HandshakeInv'
  OBVIOUS
<1>1. CASE Start
  BY <1>1, StartStepHolds, AcceptStepHolds, OutsideStepHolds DEF Start, S!Next
<1>2. CASE Use BY <1>2, OnlyStartVars DEF Use
<1>3. CASE UNCHANGED vars BY <1>3, OnlyStartVars DEF vars
<1>4. QED BY <1>1, <1>2, <1>3 DEF Next

\* The handshake's invariant holds in every behaviour.
THEOREM HandshakeInvariance == Spec => []HandshakeInv
BY HandshakeBegins, HandshakeStep, PTL DEF Spec

\* A session that has started talks to its own runtime over an open connection,
\* whoever else has connected to the port (acceptControl, session.go:204).
THEOREM ControlIsTheRuntimes == Spec => []ControlIsRuntime
<1>1. HandshakeInv => ControlIsRuntime BY DEF HandshakeInv
<1>2. QED BY <1>1, HandshakeInvariance, PTL

\* acceptControl gives up only at its deadline, or after start has failed: a stray
\* connection cannot take the place of the runtime's (session.go:204-206).
THEOREM StraysDoNotMatter == Spec => []GivesUpLate
<1>1. HandshakeInv => GivesUpLate BY DEF HandshakeInv
<1>2. QED BY <1>1, HandshakeInvariance, PTL
=============================================================================
