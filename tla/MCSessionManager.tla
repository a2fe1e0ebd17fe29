-------------------------- MODULE MCSessionManager --------------------------
(* Instances of SessionManager for TLC.                                    *)
EXTENDS SessionManager, TLC

CONSTANTS k1, k2, s1, s2, s3, r1, r2, r3, o1

Eval(fresh, known, existing, o) ==
    [op |-> "eval", fresh |-> fresh, known |-> known, existing |-> existing, owner |-> o]
Cmd(op, byID) == [op |-> op, byID |-> byID]

OneKey == {k1}
TwoKeys == {k1, k2}
TwoSessions == {s1, s2}
ThreeSessions == {s1, s2, s3}
TwoRequests == {r1, r2}
ThreeRequests == {r1, r2, r3}
OneOwner == {o1}

\* An eval, one under an owner's lease, one that restarts its session and one
\* that names only a label.
Plain == Eval(FALSE, TRUE, FALSE, None)
Leased == Eval(FALSE, TRUE, FALSE, o1)
Fresh == Eval(TRUE, TRUE, FALSE, None)
LabelOnly == Eval(FALSE, FALSE, TRUE, None)

CreationJobs == {Plain, Fresh, LabelOnly}
CloseJobs == {Leased, Cmd("close", TRUE), Cmd("interrupt", FALSE), Cmd("free", FALSE)}
MixedJobs == {Leased, Fresh, LabelOnly, Cmd("interrupt", FALSE), Cmd("close", FALSE),
              Cmd("free", FALSE), Cmd("stop", FALSE)}

\* Requests, sessions and keys are interchangeable.
Symmetry == Permutations(Sessions) \cup Permutations(Requests) \cup Permutations(Keys)
=============================================================================
