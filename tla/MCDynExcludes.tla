---------------------------- MODULE MCDynExcludes ----------------------------
(* Small instances of DynExcludes for TLC.                                 *)
EXTENDS DynExcludes, TLC

CONSTANTS r1, r2, x, y, q1, q2

OneReplica == {r1}
TwoExcludes == {x, y}
TwoRequests == {q1, q2}

OnlyReplica1 == [q \in TwoRequests |-> r1]
MuteYUnmuteX == (q1 :> y) @@ (q2 :> x)
Mute1 == {q1}

OnlyX == {{x}}
=============================================================================
