\* Two daemons and two clients on one path, with crashes and stale files.
CONSTANTS
    d1 = d1  d2 = d2  d3 = d3
    c1 = c1  c2 = c2
    Junk = Junk  None = None
    Daemons <- TwoDaemons
    Clients <- TwoClients
    Attempts = 2
    Dials = 2

SPECIFICATION FairSpec
INVARIANTS
    OnlyTheUnseenAreRobbed
    RaceErrorIsTrue
PROPERTIES
    CallEnds
\* when all clients have been served and the daemons are gone nothing is left to do
CHECK_DEADLOCK FALSE
