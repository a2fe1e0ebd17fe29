\* Two daemons that start on one path, or one that starts while the other stops.
CONSTANTS
    d1 = d1  d2 = d2  d3 = d3
    c1 = c1  c2 = c2
    Junk = Junk  None = None
    Daemons <- TwoDaemons
    Clients <- OneClient
    Attempts = 3
    Dials = 2

SPECIFICATION Spec
PROPERTIES
    LiveSocketIsNotStolen
CHECK_DEADLOCK FALSE
