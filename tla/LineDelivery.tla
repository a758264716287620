---------------------------- MODULE LineDelivery ----------------------------
(***************************************************************************)
(* What the alert pipeline of clattermark promises about a log line it has *)
(* taken from a followed file: the line stays pending until a worker has   *)
(* checked it, it is checked at most once, and lines are given up only     *)
(* after shutdown was requested.  Pipeline.tla implements this             *)
(* specification.                                                          *)
(***************************************************************************)

CONSTANT Lines          \* every line a tailer can take

VARIABLES taken,        \* lines received from a tail
          processed,    \* lines a worker has checked
          dropped,      \* lines given up during shutdown
          stopping      \* shutdown was requested

vars == <<taken, processed, dropped, stopping>>

Pending == taken \ (processed \cup dropped)

Init == /\ taken = {} 
        /\ processed = {}
        /\ dropped = {}
        /\ stopping = FALSE

Take(l) == /\ l \in Lines \ taken
           /\ taken' = taken \cup {l}
           /\ UNCHANGED <<processed, dropped, stopping>>

Process(l) == /\ l \in Pending
              /\ processed' = processed \cup {l}
              /\ UNCHANGED <<taken, dropped, stopping>>

\* Lines are given up together: the process exits with all it still holds.
GiveUp(S) == /\ stopping
             /\ S \subseteq Pending
             /\ dropped' = dropped \cup S
             /\ UNCHANGED <<taken, processed, stopping>>

Stop == /\ stopping' = TRUE
        /\ UNCHANGED <<taken, processed, dropped>>

Next == \/ \E l \in Lines : Take(l) \/ Process(l)
        \/ \E S \in SUBSET Pending : GiveUp(S)
        \/ Stop

Spec == Init /\ [][Next]_vars

-----------------------------------------------------------------------------
\* Every pending line is eventually checked or given up.
EveryLineSettled == \A l \in Lines : l \in taken ~> l \in processed \cup dropped
=============================================================================
