--------------------------- MODULE MCDecisionCache ---------------------------
(* Small instances of DecisionCache for TLC.                               *)
EXTENDS DecisionCache, TLC

CONSTANTS c1, c2, c3, k1, k2

ThreeCallers == {c1, c2, c3}
TwoKeys == {k1, k2}
OneKey == {k1}

CallerSymmetry == Permutations(ThreeCallers)
=============================================================================
