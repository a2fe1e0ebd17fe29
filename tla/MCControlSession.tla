-------------------------- MODULE MCControlSession --------------------------
(* Instances of ControlSession for TLC.                                    *)
EXTENDS ControlSession

CONSTANTS s1, s2

OneStray == {s1}
TwoStrays == {s1, s2}
=============================================================================
