---------------------------- MODULE CommandLine -----------------------------
(***************************************************************************)
(* The client's command line: parseArgs, parseTarget and main of           *)
(* go/main.go, the flags and languages of go/config.go, and the key under  *)
(* which the daemon looks up what a line asks for.  An argument is a       *)
(* string that is looked at only through the constants below; the empty    *)
(* string, Unset, stands for what is not set, as it does in the code.      *)
(***************************************************************************)
EXTENDS Naturals, Sequences, SequencesExt

CONSTANTS
    FlagName,    \* flagName, of the arguments that begin with a dash
    Inline,      \* of one that holds "=": the value after it
    Files,       \* arguments that name a regular file
    Plus,        \* arguments that begin with "+"
    IdLike,      \* looksLikeID: two to sixteen letters from k to z
    LangOf,      \* langForExe, of the executables with a language
    AbsExe,      \* absExe, of the executables it changes
    AbsFile,     \* filepath.Abs, of the relative files
    Terminal     \* the standard input is a terminal, or cannot be looked at

Unset == ""

ASSUME CommandLineAssumption ==
    /\ DOMAIN Inline \subseteq DOMAIN FlagName
    /\ (Files \cup Plus \cup IdLike) \cap DOMAIN FlagName = {}
    /\ Unset \notin Files \cup Plus \cup IdLike \cup DOMAIN LangOf \cup DOMAIN FlagName
    /\ \A t \in DOMAIN Inline : Inline[t] \in STRING
    /\ Terminal \in BOOLEAN
    /\ "--" \in DOMAIN FlagName \ DOMAIN Inline
    /\ "--session" \in DOMAIN FlagName \ DOMAIN Inline /\ FlagName["--session"] = "session"
    /\ DOMAIN FlagName
           \cap {"trace", "interrupt", "close", "free", "sessions", "stop", "daemon"} = {}

Switches == DOMAIN FlagName
OwnFlags == {"socket", "lang", "session", "trace", "owner-pid"}
Verbs == {"trace", "interrupt", "close", "free"}
Subcommands == Verbs \cup {"sessions", "stop", "daemon"}

EvalFlags ==
    [julia |-> {"e", "eval"}, python |-> {"c", "command"}, r |-> {"e", "eval"}, wolfram |-> {}]
PrintFlags ==
    [julia |-> {"E", "print"}, python |-> {}, r |-> {}, wolfram |-> {"c", "code"}]
Langs == DOMAIN EvalFlags
DefaultExe ==
    [julia |-> "julia", python |-> "python3", r |-> "R", wolfram |-> "wolframscript"]

Or(a, b) == IF a # Unset THEN a ELSE b

At(f, x) == IF x \in DOMAIN f THEN f[x] ELSE Unset

langForExe(exe) == At(LangOf, exe)

absExe(exe) == Or(At(AbsExe, exe), exe)

looksLikeID(s) == s \in IdLike

VARIABLE parts   \* the parts a line of the usage is made of, see Line below

-----------------------------------------------------------------------------
(* parseArgs: `want` is the flag that takes the next argument as its value; *)
(* the default socket counts as not set.                                   *)

Start ==
    [text |-> [f \in OwnFlags \cup {"code", "file"} |-> Unset],
     exe |-> Unset, fresh |-> FALSE, evalMode |-> Unset, fileArgs |-> <<>>, fwd |-> <<>>,
     sub |-> Unset, subArgs |-> <<>>, want |-> Unset, bad |-> FALSE]

ResolveLang(p) == Or(p.text["lang"], langForExe(p.exe))

\* Fault: without a language only julia's spellings are taken.
evalPrintFlagsNarrow(lang) == <<EvalFlags[Or(lang, "julia")], PrintFlags[Or(lang, "julia")]>>

\* Without a language both spellings are taken.
evalPrintFlags(lang) ==
    IF lang \in Langs THEN <<EvalFlags[lang], PrintFlags[lang]>>
    ELSE <<{"e", "eval", "c", "command"}, {"E", "print"}>>

\* evalModeFor.
EvalMode(lang, name) ==
    LET flags == evalPrintFlags(lang)
    IN  IF name \in flags[1] THEN "eval" ELSE IF name \in flags[2] THEN "print" ELSE Unset

\* consumeFlagValue.
Consume(p, flag, t) ==
    IF t \in DOMAIN Inline THEN [p EXCEPT !.text[flag] = Inline[t]] ELSE [p EXCEPT !.want = flag]

Value(p, t) ==
    [p EXCEPT !.text[p.want] = t, !.want = Unset, !.bad = p.want = "file" /\ t \notin Files]

Forward(p, t) == [p EXCEPT !.fwd = Append(@, t)]

\* An argument with a dash: repld's own flags count before the executable only.
Switch(p, t) ==
    LET name == FlagName[t]
        mode == EvalMode(ResolveLang(p), name)
    IN  IF t = "--" /\ p.exe # Unset /\ p.evalMode = Unset THEN [p EXCEPT !.want = "file"]
        ELSE IF mode # Unset THEN Consume([p EXCEPT !.evalMode = mode], "code", t)
        ELSE IF name \in OwnFlags /\ p.exe = Unset THEN Consume(p, name, t)
        ELSE IF name = "fresh" /\ p.exe = Unset THEN [p EXCEPT !.fresh = TRUE]
        ELSE Forward(p, t)

\* Fault: only the first argument after the executable may be the file.
NamesFileFirst(p, t) ==
    /\ p.exe # Unset /\ p.evalMode = Unset /\ t \notin Subcommands
    /\ p.fwd = <<>> /\ t \notin Plus

NamesFile(p, t) ==
    /\ p.exe # Unset /\ p.evalMode = Unset /\ t \notin Subcommands
    /\ t \in Files \/ (p.fwd = <<>> /\ t \notin Plus)

Word(p, t) ==
    CASE NamesFile(p, t) -> [p EXCEPT !.text["file"] = t]
      [] p.exe = Unset /\ p.evalMode = Unset /\ p.fwd = <<>> /\ t \notin Subcommands ->
             [p EXCEPT !.exe = t]
      [] p.evalMode = Unset /\ p.fwd = <<>> /\ t \in Subcommands -> [p EXCEPT !.sub = t]
      [] OTHER -> Forward(p, t)

Step(p, t) ==
    IF p.bad THEN p
    ELSE IF p.sub # Unset THEN [p EXCEPT !.subArgs = Append(@, t)]
    ELSE IF p.want # Unset THEN Value(p, t)
    ELSE IF p.text["file"] # Unset THEN [p EXCEPT !.fileArgs = Append(@, t)]
    ELSE IF t \in Switches THEN Switch(p, t)
    ELSE Word(p, t)

\* The loop over the arguments, begun with p.
ReadFrom(p, args) ==
    LET read[n \in 0 .. Len(args)] == IF n = 0 THEN p ELSE Step(read[n - 1], args[n])
    IN  read[Len(args)]

parseArgs(args) == ReadFrom(Start, args)

-----------------------------------------------------------------------------
(* parseTarget: what follows a verb.                                        *)

TargetStep(tg, t) ==
    IF tg.want # Unset THEN [tg EXCEPT !.text[tg.want] = t, !.want = Unset]
    ELSE IF t \in Switches
         THEN IF FlagName[t] \in {"session", "lang", "trace"}
              THEN Consume([tg EXCEPT !.text[FlagName[t]] = Unset], FlagName[t], t)
              ELSE Forward(tg, t)
    ELSE IF tg.id = Unset /\ tg.exe = Unset /\ looksLikeID(t) THEN [tg EXCEPT !.id = t]
    ELSE IF tg.exe = Unset /\ t # Unset THEN [tg EXCEPT !.exe = t]
    ELSE Forward(tg, t)

AimFrom(tg, args) ==
    LET aim[n \in 0 .. Len(args)] == IF n = 0 THEN tg ELSE TargetStep(aim[n - 1], args[n])
    IN  aim[Len(args)]

\* Fault: what stands before the verb is forgotten.
parseTargetAfterVerb(p) ==
    AimFrom([text |-> Start.text, id |-> Unset, exe |-> Unset, fwd |-> <<>>, want |-> Unset],
            p.subArgs)

parseTarget(p) ==
    AimFrom([text |-> [f \in {"session", "lang", "trace"} |->
                          IF f = "trace" THEN Or(p.text[f], "full") ELSE p.text[f]],
             id |-> Unset, exe |-> Unset, fwd |-> <<>>, want |-> Unset],
            p.subArgs)

-----------------------------------------------------------------------------
(* main: what is sent to the daemon.                                        *)

\* resolveExeStr.
ResolveExe(exe, lang) == absExe(Or(exe, At(DefaultExe, lang)))

\* cmdInterrupt, cmdClose, cmdFree and cmdTrace.
TargetRequest(p) ==
    LET tg == parseTarget(p)
        lang == ResolveLang(tg)
    IN  [action |-> p.sub, id |-> tg.id, lang |-> lang, exe |-> ResolveExe(tg.exe, lang),
         session |-> tg.text["session"], args |-> tg.fwd,
         level |-> IF p.sub = "trace" THEN Or(tg.text["trace"], "full") ELSE Unset]

RequireExisting(p) == ResolveLang(p) = Unset /\ p.exe = Unset /\ p.text["session"] # Unset

\* cmdEval and cmdEvalFile; without code the standard input is read.
EvalRequest(p) ==
    LET lang == ResolveLang(p)
        inFile == p.evalMode = Unset /\ p.text["file"] # Unset
        code == IF p.evalMode # Unset THEN p.text["code"] ELSE IF p.fwd # <<>> THEN Unset ELSE "-"
    IN  [action |-> "eval", lang |-> lang, exe |-> ResolveExe(p.exe, lang), id |-> Unset,
         session |-> p.text["session"], args |-> p.fwd, fresh |-> p.fresh,
         level |-> p.text["trace"], owner |-> p.text["owner-pid"],
         file |-> IF inFile THEN Or(At(AbsFile, p.text["file"]), p.text["file"]) ELSE Unset,
         fileArgs |-> IF inFile THEN p.fileArgs ELSE <<>>,
         code |-> IF inFile THEN Unset ELSE IF code = "-" THEN "stdin" ELSE code,
         printResult |-> p.evalMode = "print",
         requireExisting |-> ~inFile /\ RequireExisting(p)]

\* Neither code nor a file nor an argument: the code comes from the standard input.
ReadsInput(p) == p.evalMode = Unset /\ p.text["file"] = Unset /\ p.fwd = <<>>

\* Usage errors and lines that name nothing to run send nothing, nor does the user who
\* would have to type the code.
Request(args) ==
    LET p == parseArgs(args)
        unusable == p.bad \/ p.want # Unset
        nothing == /\ p.sub = Unset
                   /\ \/ ResolveLang(p) = Unset /\ p.text["session"] = Unset
                      \/ ReadsInput(p) /\ Terminal
    IN  IF unusable \/ nothing THEN [action |-> "usage"]
        ELSE IF p.sub \in Verbs THEN TargetRequest(p)
        ELSE IF p.sub # Unset THEN [action |-> p.sub]
        ELSE EvalRequest(p)

\* targetKey and key of the daemon, for one working directory.
Key(r) ==
    IF r.id # Unset THEN <<"id", r.id>>
    ELSE IF r.session # Unset THEN <<"label", r.session>>
    ELSE <<"exe", r.lang, Or(r.exe, At(DefaultExe, r.lang))>>

-----------------------------------------------------------------------------
(* Properties, of the lines the usage describes (main.go:243):              *)
(*   own flags, <exe>, interp-args, then --<eval> CODE or [--] <file> args.  *)

ExeArg == IF parts.exe = Unset THEN <<>> ELSE <<parts.exe>>
Interp == FlattenSeq(parts.interp)
Own == FlattenSeq(parts.own)
Rest == (IF parts.flag = Unset THEN <<>> ELSE <<parts.flag>>) \o <<parts.arg>> \o parts.rest
Line == Own \o ExeArg \o Interp \o Rest

\* The value the own flags give to flag f: the last one counts.
Given(f) ==
    LET of == {i \in DOMAIN parts.own : FlagName[parts.own[i][1]] = f}
        last == parts.own[Max(of)]
    IN  IF of = {} THEN Unset ELSE IF Len(last) = 2 THEN last[2] ELSE Inline[last[1]]

Lang == Or(Given("lang"), langForExe(parts.exe))

Mode == IF parts.flag \in {Unset, "--"} THEN Unset ELSE EvalMode(Lang, FlagName[parts.flag])

EvalNames == UNION {EvalFlags[l] \cup PrintFlags[l] : l \in Langs}

\* An own flag with its value, if it takes one and does not hold it.
OwnGroup(g) ==
    /\ g[1] \in Switches /\ FlagName[g[1]] \in OwnFlags \cup {"fresh"}
    /\ Len(g) = IF FlagName[g[1]] = "fresh" \/ g[1] \in DOMAIN Inline THEN 1 ELSE 2

\* The line has the form of the usage.  Without an executable the flags and the code
\* are all there is, and what an unknown eval flag leaves over is no own flag.
Usage ==
    /\ parts.own \in Seq(Seq(STRING)) /\ \A i \in DOMAIN parts.own : OwnGroup(parts.own[i])
    /\ parts.exe \in STRING \ (Switches \cup Subcommands)
    /\ parts.interp \in Seq(Seq(STRING)) /\ parts.flag \in STRING /\ parts.arg \in STRING
    /\ parts.rest \in Seq(STRING)
    /\ IF parts.flag \in {Unset, "--"}
       THEN /\ parts.exe # Unset /\ parts.arg # Unset
            /\ parts.flag = Unset => parts.arg \notin Switches
       ELSE /\ parts.flag \in Switches \ DOMAIN Inline /\ FlagName[parts.flag] \in EvalNames
            /\ \A i \in DOMAIN parts.rest : parts.rest[i] \notin Switches
    /\ parts.exe = Unset =>
           /\ Interp = <<>>
           /\ Mode = Unset /\ parts.arg \in Switches => FlagName[parts.arg] \notin OwnFlags

\* The line means one thing: no argument of the interpreter is an eval flag or the
\* name of a file, and the code or the file is recognisable as such.
Unambiguous ==
    /\ \A i \in DOMAIN Interp :
           IF Interp[i] \in Switches
           THEN Interp[i] # "--" /\ EvalMode(Lang, FlagName[Interp[i]]) = Unset
           ELSE Interp[i] \notin Files /\ (i = 1 => Interp[i] \in Plus \ Subcommands)
    /\ parts.flag = Unset =>
           /\ parts.arg \notin Subcommands
           /\ parts.arg \in Files \/ (Interp = <<>> /\ parts.arg \notin Plus)
    /\ parts.flag = "--" => parts.arg \in Files
    /\ parts.flag \notin {Unset, "--"} => Mode # Unset

\* An unambiguous line is taken apart into the parts it was made of, wherever a part
\* looks like another one: own flags after the executable are the interpreter's, a
\* verb or a flag after the file is the script's, and flags have their last value.
\* As main.go:378 has it, and not docs/architecture.md:19-20: straight after the
\* executable any word is the file, there or not (MissingIsLaunchArg below); and a word
\* of the interpreter's that names a file is the file whatever follows, so that a line
\* with one is not unambiguous, "--" or not (DashesForceSplit).
UsageIsParsed ==
    Usage /\ Unambiguous =>
        LET p == parseArgs(Line) IN
        /\ ~p.bad /\ p.want = Unset /\ p.sub = Unset /\ p.exe = parts.exe
        /\ \A f \in OwnFlags : p.text[f] = Given(f)
        /\ p.evalMode = Mode
        /\ IF Mode = Unset
           THEN /\ p.text["file"] = parts.arg /\ p.fileArgs = parts.rest
                /\ p.fwd = Interp
           ELSE /\ p.text["code"] = parts.arg /\ p.text["file"] = Unset
                /\ p.fwd = Interp \o parts.rest

\* The flags that say which session is meant, of those that take a value.
Locate == \A i \in DOMAIN parts.own : FlagName[parts.own[i][1]] \notin {"socket", "owner-pid"}

\* The session an eval runs in is the one a verb with the same flags and executable
\* names, the flags before the verb or, if they locate a session, after it
\* (main.go:244); unless the executable's name reads as a short id.
CommandFindsEval ==
    LET r == Request(Line) IN
    Usage /\ r.action = "eval" /\ parts.exe \notin IdLike =>
        /\ Key(Request(Own \o <<"close">> \o ExeArg)) = Key(r)
        /\ Locate => Key(Request(<<"close">> \o Own \o ExeArg)) = Key(r)

Label == <<"--session", Given("session")>>

\* A session with a label is reached again by the label and the code alone, and such
\* a line never starts an interpreter (main.go:255, config.go:41); wolfram's -c,
\* which prints, is not told apart from python's, which does not.
LabelReuses ==
    Usage /\ Unambiguous /\ Given("session") # Unset /\ Mode # Unset /\ Lang # "wolfram" =>
        LET r == Request(Line)
            again == Request(Label \o Rest)
        IN  /\ again.action = "eval" /\ again.requireExisting
            /\ Key(again) = Key(r)
            /\ again.code = r.code /\ again.printResult = r.printResult

\* Refuted: docs/architecture.md:19, the file is the first word after the executable
\* "naming an existing regular file (missing -> launch arg)": `julia new.jl` is sent
\* as file mode with a file that is not there.
MissingIsLaunchArg ==
    Usage /\ parts.flag = Unset /\ parts.arg \notin Files =>
        parseArgs(Line).text["file"] # parts.arg

\* Refuted: docs/architecture.md:20, "-- forces the split when a space-form flag value
\* names a file": `julia -L setup.jl -- prog.jl` takes setup.jl for the program.
DashesForceSplit ==
    /\ Usage /\ parts.flag = "--" /\ parts.arg \in Files
    /\ \A i \in DOMAIN Interp :
           /\ Interp[i] # "--" /\ (i = 1 /\ Interp[i] \notin Switches => Interp[i] \in Plus)
           /\ Interp[i] \in Switches => EvalMode(Lang, FlagName[Interp[i]]) = Unset
    => parseArgs(Line).text["file"] = parts.arg /\ parseArgs(Line).fwd = Interp

\* Refuted: main.go:243, a lone "-" after the executable has the standard input read.
StdinIsRead ==
    parts.exe # Unset /\ Lang # Unset => Request(Own \o ExeArg \o <<"-">>).code = "stdin"
=============================================================================
