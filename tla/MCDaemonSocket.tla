--------------------------- MODULE MCDaemonSocket ----------------------------
(* Instances of DaemonSocket for TLC.                                      *)
EXTENDS DaemonSocket

CONSTANTS d1, d2, d3, c1, c2

TwoDaemons == {d1, d2}
ThreeDaemons == {d1, d2, d3}
OneClient == {c1}
TwoClients == {c1, c2}
=============================================================================
