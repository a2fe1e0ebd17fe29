\* A session from its launch on: one stray connection, three evals, an interrupt that
\* signals twice.
CONSTANTS
    s1 = s1  s2 = s2
    Strays <- OneStray
    Runtime = Runtime  None = None
    Evals = 3
    ChanCap = 2
    WireCap = 1
    Signals = 2

SPECIFICATION FairSpec
INVARIANTS
    ControlIsRuntime
    GivesUpLate
    StatusIsOwn
    OutcomeReported
    AbortHasCause
PROPERTIES
    StartEnds
    CodeOverEvalEnds
\* when all evals are over nothing is left to do
CHECK_DEADLOCK FALSE
