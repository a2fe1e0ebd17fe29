\* A stale remove takes a live session out of the map.
CONSTANTS
    k1 = k1  k2 = k2
    s1 = s1  s2 = s2  s3 = s3
    r1 = r1  r2 = r2  r3 = r3
    o1 = o1
    Reaper = Reaper  Stopper = Stopper  None = None
    IdleTimeout = FALSE
    Keys <- OneKey
    Sessions <- ThreeSessions
    Requests <- ThreeRequests
    Owners <- OneOwner
    Jobs <- CreationJobs

SPECIFICATION Spec
SYMMETRY Symmetry
INVARIANTS
    LiveSessionIsReused
