----------------------------- MODULE ExcludeSet -----------------------------
(***************************************************************************)
(* What the shared set of dynamic excludes promises to those who mute and  *)
(* unmute: "UpdateDynExclude atomically adds or removes one dynamic        *)
(* exclude ... Concurrent API callers cannot overwrite each other's        *)
(* changes" (src/keydb/keydb.go:174).  A request takes effect at one       *)
(* moment between its call and its answer, on the set as it is then;       *)
(* answered, it took effect once; refused, never; failed, at most once.    *)
(* Everything else that happens to the set is written as a whole: a        *)
(* snapshot that is restored, a store that lost its data.                  *)
(* DynExcludes.tla implements this specification.                          *)
(***************************************************************************)

CONSTANTS Requests, Excludes,
          ExcludeOf,    \* the exclude each request is about
          Mutes         \* the requests that add it; the others remove it

VARIABLES set,          \* the shared set
          status,       \* each request: "open", "applied", "answered",
                        \*               "refused", "failed"
          changers      \* the requests that changed the set

vars == <<set, status, changers>>

Init == /\ set \in SUBSET Excludes
        /\ status = [q \in Requests |-> "open"]
        /\ changers = {}

Moves(q, p) == status' = [status EXCEPT ![q] = p]

TakeEffect(q) ==
  /\ status[q] = "open"
  /\ set' = IF q \in Mutes THEN set \cup {ExcludeOf[q]} ELSE set \ {ExcludeOf[q]}
  /\ changers' = IF set' = set THEN changers ELSE changers \cup {q}

Apply(q) == Moves(q, "applied") /\ TakeEffect(q)

\* The store runs the transaction and its reply is lost.
ApplyAndFail(q) == Moves(q, "failed") /\ TakeEffect(q)

Answer(q) == /\ status[q] = "applied"
             /\ Moves(q, "answered")
             /\ UNCHANGED <<set, changers>>

\* "update excludes contention", without an effect.
Refuse(q) == /\ status[q] = "open"
             /\ Moves(q, "refused")
             /\ UNCHANGED <<set, changers>>

\* A request fails, or a replica dies with all it had begun: what took effect
\* stays.
Fail(S) == /\ \A q \in S : status[q] \in {"open", "applied"}
           /\ status' = [q \in Requests |-> IF q \in S THEN "failed" ELSE status[q]]
           /\ UNCHANGED <<set, changers>>

Overwrite == /\ set' \in SUBSET Excludes
             /\ UNCHANGED <<status, changers>>

Next == \/ \E q \in Requests : Apply(q) \/ Answer(q) \/ Refuse(q) \/ ApplyAndFail(q)
        \/ \E S \in SUBSET Requests : Fail(S)
        \/ Overwrite

Spec == Init /\ [][Next]_vars
=============================================================================
