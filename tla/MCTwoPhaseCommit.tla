-------------------------- MODULE MCTwoPhaseCommit --------------------------
(* Instances of TwoPhaseCommit for TLC.                                     *)
EXTENDS TwoPhaseCommit

Rec(o, k) == [oid |-> o, op |-> k]
Oid2 == {"x", "y"}
Oid1 == {"x"}

\* x is present at the start, y is not.
ChangesXY == {<<Rec("x", "UPDATE")>>, <<Rec("y", "INSERTION")>>,
              <<Rec("x", "REMOVAL"), Rec("y", "INSERTION")>>}
UpdateX == {<<Rec("x", "UPDATE")>>}
UpdateOrRemoveX == {<<Rec("x", "UPDATE")>>, <<Rec("x", "REMOVAL")>>}
InsertY == {<<Rec("y", "INSERTION")>>}
=============================================================================
