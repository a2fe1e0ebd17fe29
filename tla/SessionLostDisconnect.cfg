\* The client leaves between the watcher's start and the busy mark.
CONSTANTS
    c1 = c1  c2 = c2  e1 = e1
    None = None
    Callers <- OneCaller
    Externals <- NoExternal
    Grace = 1

SPECIFICATION FairSpec
PROPERTIES
    ClientDeathInterruptsEval
\* every caller makes one call; when all have returned nothing is left to do
CHECK_DEADLOCK FALSE
