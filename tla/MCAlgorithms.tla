---------------------------- MODULE MCAlgorithms ----------------------------
(* The sequential algorithms for TLC: SentinelScan on all streams of up to   *)
(* six bytes with a sentinel that overlaps itself, CommandLine on the lines  *)
(* of the usage, with arguments that can be taken for one another, and Owner *)
(* with a few processes and fewer ids.  A behaviour is of one of the three.  *)
EXTENDS SentinelScan, CommandLine, Owner

CONSTANTS p1, p2, p3

ThreeProcs == {p1, p2, p3}
ThreeIds == {2, 3, 4}

Alphabet == {"_", "x", "nl", "cr"}
Mark == <<"_", "x", "_">>
ShortStreams == UNION {[1 .. n -> Alphabet] : n \in 0 .. 6}

Names ==
    ("--session" :> "session") @@ ("--session=b" :> "session") @@ ("--lang" :> "lang")
    @@ ("--lang=r" :> "lang") @@ ("--fresh" :> "fresh") @@ ("--owner-pid" :> "owner-pid")
    @@ ("-e" :> "e") @@ ("-E" :> "E") @@ ("-c" :> "c") @@ ("-q" :> "q") @@ ("-J" :> "J")
    @@ ("--" :> "") @@ ("-" :> "")
Values == ("--session=b" :> "b") @@ ("--lang=r" :> "r")
Regular == {"run.jl"}
Released == {"+1.10"}
Ids == {"klm"}
Languages == ("julia" :> "julia") @@ ("python3" :> "python") @@ ("./R" :> "r")
             @@ ("wolframscript" :> "wolfram")
AbsoluteExes == "./R" :> "/w/R"
AbsoluteFiles == ("run.jl" :> "/w/run.jl") @@ ("new.jl" :> "/w/new.jl")

UpTo2(S) == {<<>>} \cup {<<a>> : a \in S} \cup {<<a, b>> : a, b \in S}
OwnGroups ==
    {<<"--session", "close">>, <<"--session=b">>, <<"--lang", "python">>, <<"--lang=r">>,
     <<"--owner-pid", "0">>, <<"--fresh">>}
InterpGroups ==
    {<<"-q">>, <<"-J", "sys">>, <<"-J", "run.jl">>, <<"+1.10">>, <<"--session", "close">>,
     <<"-c">>}
Ends ==
    {<<f, "1+1", <<>>>> : f \in {"-e", "-E", "-c"}} \cup {<<"-e", "-", <<"a">>>>}
    \cup {<<f, a, <<"close", "-e">>>> : f \in {"", "--"}, a \in {"run.jl", "new.jl"}}

Lines ==
    {[own |-> o, exe |-> x, interp |-> i, flag |-> e[1], arg |-> e[2], rest |-> e[3]] :
         o \in UpTo2(OwnGroups),
         x \in {"", "julia", "python3", "./R", "wolframscript", "myjl", "klm"},
         i \in UpTo2(InterpGroups), e \in Ends}

\* Without an executable the flags and the code are all there is.
UsageLines ==
    {l \in Lines : /\ Len(l.own) + Len(l.interp) <= 3
                   /\ l.exe = "" => l.interp = <<>> /\ l.flag \notin {"", "--"}}

AnyLine == CHOOSE l \in UsageLines : l.exe = "julia" /\ l.own = <<>>

\* A system without processes, in which nothing happens.
Deserted ==
    /\ table = [n \in Pids |-> None] /\ parent = [p \in Procs |-> 1] /\ ended = {}
    /\ source = "number" /\ step = "none" /\ ppid = 1 /\ pid = 1 /\ depth = 0
    /\ owner = [pid |-> 0, start |-> None] /\ claimed = None

AlgorithmsInit ==
    /\ Init
    /\ \/ parts = AnyLine /\ Deserted
       \/ stream = <<>> /\ parts \in UsageLines /\ Deserted
       \/ stream = <<>> /\ parts = AnyLine /\ OwnerInit

AlgorithmsNext ==
    \/ Next /\ Deserted /\ UNCHANGED <<parts, ownerVars>>
    \/ OwnerNext /\ UNCHANGED <<vars, parts>>

AlgorithmsSpec == AlgorithmsInit /\ [][AlgorithmsNext]_<<vars, parts, ownerVars>>
=============================================================================
