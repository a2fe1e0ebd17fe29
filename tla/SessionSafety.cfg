\* Two calls, their watchers, an interrupt request, a kill and a crash.
CONSTANTS
    c1 = c1  c2 = c2  e1 = e1
    None = None
    Callers <- TwoCallers
    Externals <- OneExternal
    Grace = 1

SPECIFICATION Spec
SYMMETRY Symmetry
INVARIANTS
    TypeOK
    Serialised
    NoCodeOutlivesItsCall
    QueuedDisconnectHarmless
PROPERTIES
    EvaluatorHolds
\* every caller makes one call; when all have returned nothing is left to do
CHECK_DEADLOCK FALSE
