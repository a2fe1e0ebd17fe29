\* The interpreter goes while one call holds the session and one is queued.
CONSTANTS
    c1 = c1  c2 = c2  e1 = e1
    None = None
    Callers <- TwoCallers
    Externals <- NoExternal
    Grace = 1

SPECIFICATION FairSpec
PROPERTIES
    GoneDrains
\* every caller makes one call; when all have returned nothing is left to do
CHECK_DEADLOCK FALSE
