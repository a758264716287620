----------------------------- MODULE MCWatchdog -----------------------------
(* Small instances of Watchdog for TLC.                                    *)
EXTENDS Watchdog

CONSTANTS r1, r2

TwoReplicas == {r1, r2}
Replica1 == {r1}
=============================================================================
