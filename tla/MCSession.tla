----------------------------- MODULE MCSession ------------------------------
(* Instances of Session for TLC.                                           *)
EXTENDS Session, TLC

CONSTANTS c1, c2, e1

OneCaller == {c1}
TwoCallers == {c1, c2}
OneExternal == {e1}
NoExternal == {}

\* Callers are interchangeable.
Symmetry == Permutations(Callers)
=============================================================================
