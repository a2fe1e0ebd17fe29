\* Interrupts and kill against an eval that need not end.
CONSTANTS
    c1 = c1  c2 = c2  e1 = e1
    None = None
    Callers <- OneCaller
    Externals <- OneExternal
    Grace = 2

SPECIFICATION FairSpec
PROPERTIES
    InterruptEnds
    InterruptedEvalEnds
    KillEndsProcess
\* every caller makes one call; when all have returned nothing is left to do
CHECK_DEADLOCK FALSE
