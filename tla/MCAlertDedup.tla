---------------------------- MODULE MCAlertDedup ----------------------------
(* Small instances of AlertDedup for TLC.                                  *)
EXTENDS AlertDedup, TLC

CONSTANTS r1, r2, a1, a2, a3, a4, p1

TwoReplicas == {r1, r2}
FourAlerts == {a1, a2, a3, a4}
FourOnBoth == (a1 :> r1) @@ (a2 :> r1) @@ (a3 :> r2) @@ (a4 :> r2)
OneFingerprint == {p1}

\* Alerts of one replica are alike, and so are the replicas.
Swapped == (r1 :> r2) @@ (r2 :> r1) @@ (a1 :> a3) @@ (a3 :> a1) @@ (a2 :> a4) @@ (a4 :> a2)
AlertSymmetry == Permutations({a1, a2}) \cup Permutations({a3, a4}) \cup {Swapped}
=============================================================================
