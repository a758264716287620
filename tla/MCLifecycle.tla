---------------------------- MODULE MCLifecycle ----------------------------
(* A small instance of Lifecycle for TLC.                                  *)
EXTENDS Lifecycle

\* Log rotation without snapshots, and snapshots and probes with one signal.
TwoBudgets ==
  {[rotations |-> 1, signals |-> 2, probes |-> 0, snapshots |-> 0, failures |-> 1],
   [rotations |-> 0, signals |-> 1, probes |-> 1, snapshots |-> 2, failures |-> 1]}

MainAndSnapshotter == {"main", "snapshotter"}
=============================================================================
