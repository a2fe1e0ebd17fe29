\* All short streams, cut into reads in every way; all lines of the usage;
\* walks and leases on a process table of three ids.
CONSTANTS
    Bytes <- Alphabet
    Streams <- ShortStreams
    Sentinel <- Mark
    NL = "nl"
    CR = "cr"
    FlagName <- Names
    Inline <- Values
    Files <- Regular
    Plus <- Released
    IdLike <- Ids
    LangOf <- Languages
    AbsExe <- AbsoluteExes
    AbsFile <- AbsoluteFiles
    Terminal = FALSE
    p1 = p1  p2 = p2  p3 = p3
    None = None
    Procs <- ThreeProcs
    Pids <- ThreeIds
    maxAncestorWalk = 2
    Harness = {p1}
    Mentions = {p2}
    Opaque = {p3}
    Unreadable = {p2}

SPECIFICATION AlgorithmsSpec
INVARIANTS
    Conserved
    HeldBackMayBegin
    FoundExactly
    UsageIsParsed
    CommandFindsEval
    LabelReuses
    LiveOwnerIsKept
    NearestIsOwner
PROPERTIES
    DeathIsStable
\* the scan ends with the sentinel or with the output, a lease with its session
CHECK_DEADLOCK FALSE
