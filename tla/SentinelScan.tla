---------------------------- MODULE SentinelScan -----------------------------
(***************************************************************************)
(* scanToSentinel of go/session.go: an interpreter's output is streamed to *)
(* the client byte by byte, and no byte of the line that ends in the       *)
(* sentinel may be sent before it is known not to belong to it.  A read    *)
(* takes one byte and whatever else is buffered by then, so the stream may *)
(* be cut anywhere.                                                        *)
(***************************************************************************)
EXTENDS Naturals, Sequences

CONSTANTS
    Bytes,
    Streams,    \* what the interpreter may write until its output ends
    Sentinel,   \* the bytes of s.sentinel
    NL, CR      \* line feed and carriage return

ASSUME ScanAssumption ==
    /\ Streams \subseteq Seq(Bytes)
    /\ Sentinel \in Seq(Bytes \ {NL, CR}) /\ Sentinel # <<>>
    /\ NL \in Bytes /\ CR \in Bytes /\ NL # CR

VARIABLES
    stream,     \* all the interpreter writes
    taken,      \* bytes of it that have been looked at
    chunk,      \* bytes of the current read that have not
    line,       \* the bytes since the last line feed
    flushed,    \* sent: how many of them have been emitted
    out,        \* what has been emitted
    at,         \* read, bytes, flush, or how it ended: found, eof
    cut         \* history: a read ended between the sentinel and its line feed

vars == <<stream, taken, chunk, line, flushed, out, at, cut>>

EndsWith(s, t) ==
    Len(t) <= Len(s) /\ SubSeq(s, Len(s) - Len(t) + 1, Len(s)) = t

From(s, n) == SubSeq(s, n + 1, Len(s))

\* strings.TrimRight(line, "\r").
Trimmed(s) ==
    SubSeq(s, 1, CHOOSE n \in 0 .. Len(s) :
                     /\ \A i \in n + 1 .. Len(s) : s[i] = CR
                     /\ n = 0 \/ s[n] # CR)

\* Fault: a whole sentinel is not held back.
OverlapProper(s) ==
    CHOOSE k \in 0 .. Len(Sentinel) - 1 :
        /\ EndsWith(s, SubSeq(Sentinel, 1, k))
        /\ \A j \in k + 1 .. Len(Sentinel) - 1 : ~EndsWith(s, SubSeq(Sentinel, 1, j))

\* sentinelOverlap: how many of the last bytes may begin the sentinel.
Overlap(s) ==
    CHOOSE k \in 0 .. Len(Sentinel) :
        /\ EndsWith(s, SubSeq(Sentinel, 1, k))
        /\ \A j \in k + 1 .. Len(Sentinel) : ~EndsWith(s, SubSeq(Sentinel, 1, j))

TypeOK ==
    /\ stream \in Streams
    /\ taken \in 0 .. Len(stream) /\ chunk \in 0 .. Len(stream) - taken
    /\ line \in Seq(Bytes) /\ flushed \in 0 .. Len(line)
    /\ out \in Seq(Bytes)
    /\ at \in {"read", "bytes", "flush", "found", "eof"}
    /\ cut \in BOOLEAN

Init ==
    /\ stream \in Streams
    /\ taken = 0 /\ chunk = 0 /\ line = <<>> /\ flushed = 0 /\ out = <<>>
    /\ at = "read" /\ cut = FALSE

-----------------------------------------------------------------------------
\* ReadByte, and what else is buffered.
Read ==
    /\ at = "read" /\ taken < Len(stream)
    /\ \E n \in 1 .. Len(stream) - taken : chunk' = n
    /\ at' = "bytes"
    /\ cut' = (cut \/ (EndsWith(Trimmed(line), Sentinel) /\ EndsWith(line, <<CR>>)))
    /\ UNCHANGED <<stream, taken, line, flushed, out>>

Byte == stream[taken + 1]

\* A byte that ends no line.
Collect ==
    /\ at = "bytes" /\ chunk > 0 /\ Byte # NL
    /\ line' = Append(line, Byte)
    /\ taken' = taken + 1 /\ chunk' = chunk - 1
    /\ UNCHANGED <<stream, flushed, out, at, cut>>

\* The end of a line that does not end in the sentinel.
EmitLine ==
    /\ at = "bytes" /\ chunk > 0 /\ Byte = NL /\ ~EndsWith(Trimmed(line), Sentinel)
    /\ out' = out \o From(line, flushed) \o <<NL>>
    /\ line' = <<>> /\ flushed' = 0
    /\ taken' = taken + 1 /\ chunk' = chunk - 1
    /\ UNCHANGED <<stream, at, cut>>

\* The sentinel: what precedes it on its line is emitted, what follows in the
\* same read is dropped.
Found ==
    /\ at = "bytes" /\ chunk > 0 /\ Byte = NL /\ EndsWith(Trimmed(line), Sentinel)
    /\ out' = out \o SubSeq(line, flushed + 1, Len(Trimmed(line)) - Len(Sentinel))
    /\ at' = "found" /\ taken' = taken + 1 /\ chunk' = 0
    /\ UNCHANGED <<stream, line, flushed, cut>>

ChunkDone ==
    /\ at = "bytes" /\ chunk = 0
    /\ at' = "flush"
    /\ UNCHANGED <<stream, taken, chunk, line, flushed, out, cut>>

\* Fault: nothing of a line is emitted before its end.
SafeByLine == 0

Safe == Len(line) - Overlap(line)

\* All of the line that cannot begin the sentinel any more is emitted.
Flush ==
    /\ at = "flush"
    /\ \/ Safe > flushed /\ out' = out \o SubSeq(line, flushed + 1, Safe) /\ flushed' = Safe
       \/ Safe <= flushed /\ UNCHANGED <<out, flushed>>
    /\ at' = "read"
    /\ UNCHANGED <<stream, taken, chunk, line, cut>>

\* Fault: what is held back is not emitted at the end.
DropHeld ==
    /\ at = "read" /\ taken = Len(stream)
    /\ at' = "eof"
    /\ UNCHANGED <<stream, taken, chunk, line, flushed, out, cut>>

\* The output has ended: the process is gone, and what was held back is emitted.
Eof ==
    /\ at = "read" /\ taken = Len(stream)
    /\ out' = out \o From(line, flushed) /\ flushed' = Len(line)
    /\ at' = "eof"
    /\ UNCHANGED <<stream, taken, chunk, line, cut>>

Next == Read \/ Collect \/ EmitLine \/ Found \/ ChunkDone \/ Flush \/ Eof

Spec == Init /\ [][Next]_vars

-----------------------------------------------------------------------------
(* Properties.                                                             *)

Taken == SubSeq(stream, 1, taken)

\* Until the sentinel nothing is lost, repeated or reordered, however the stream is
\* cut: what has been emitted, and what is held back, is what has been read; at the
\* end of the output nothing is held back (session_test.go:92).
Conserved ==
    /\ at # "found" => out \o From(line, flushed) = Taken
    /\ at = "eof" => out = stream

\* While the next read is waited for, only bytes that may begin the sentinel are
\* held back: a prompt without a line feed is seen at once (session.go:316).
HeldBackMayBegin ==
    at = "read" => \E k \in 0 .. Len(Sentinel) : From(line, flushed) = SubSeq(Sentinel, 1, k)

\* The client sees the output up to the sentinel, nothing of the sentinel, and all
\* of what precedes it on its line; unless a read ended after a carriage return
\* that follows the sentinel, which then has been emitted (session.go:354, 361).
FoundExactly ==
    at = "found" /\ ~cut =>
        out = SubSeq(Taken, 1, Len(Taken) - 1 - (Len(line) - Len(Trimmed(line))) - Len(Sentinel))

\* Refuted: session.go:316, "Streams output until the closing sentinel line": no byte
\* of the sentinel is streamed.
SentinelIsNotStreamed ==
    at = "found" => Len(out) <= Len(Taken) - 1 - Len(Sentinel)
=============================================================================
