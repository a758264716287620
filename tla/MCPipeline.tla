----------------------------- MODULE MCPipeline -----------------------------
(* Small instances of Pipeline for TLC.                                    *)
EXTENDS Pipeline, TLC

CONSTANTS f1, f2, w1, w2

OneFile == {f1}
TwoFiles == {f1, f2}
TwoWorkers == {w1, w2}

WorkerSymmetry == Permutations(TwoWorkers)
=============================================================================
