\* Evals, closes, interrupts, the reaper and a shutdown meet on one key.
CONSTANTS
    k1 = k1  k2 = k2
    s1 = s1  s2 = s2  s3 = s3
    r1 = r1  r2 = r2  r3 = r3
    o1 = o1
    Reaper = Reaper  Stopper = Stopper  None = None
    IdleTimeout = TRUE
    Keys <- OneKey
    Sessions <- TwoSessions
    Requests <- ThreeRequests
    Owners <- OneOwner
    Jobs <- CloseJobs

SPECIFICATION Spec
SYMMETRY Symmetry
INVARIANTS
    EvictsOnlyTheDead
    RetiredInHand
PROPERTIES
    RegistryHolds
