----------------------------- MODULE MCIncidents -----------------------------
(* Small instances of Incidents for TLC.                                   *)
EXTENDS Incidents, TLC

CONSTANTS r1, r2, n1, e1, e2, e3

VIP1 == r1
OneReplica == {r1}
TwoReplicas == {r1, r2}
OneName == {n1}
OneEvent == {e1}
TwoEvents == {e1, e2}
ThreeEvents == {e1, e2, e3}

SameRule == [e \in Events |-> n1]
AllLabelled == [e \in Events |-> "label"]
\* e1 is a line that did not parse.
FirstUnlabelled == [e \in Events |-> IF e = e1 THEN "" ELSE "label"]

\* Events that differ in nothing are alike.
RecordSymmetry == Permutations({e2, e3})
OutboxSymmetry == Permutations(TwoEvents)
=============================================================================
