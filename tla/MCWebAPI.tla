------------------------------ MODULE MCWebAPI ------------------------------
(* Small instances of WebAPI for TLC.                                      *)
EXTENDS WebAPI, TLC

CONSTANTS q1, q2, q3, q4, q5, q6, c1

FiveRequests == {q1, q2, q3, q4, q5}
OneClient == {c1}
RequestSymmetry == Permutations(FiveRequests)

Add == [handler |-> "excludes", method |-> "POST", token |-> TRUE, decodes |-> TRUE,
        command |-> "other", valid |-> TRUE, reason |-> TRUE]

\* Five requests that are alike, or one of any form.
AllLoads == {[q \in FiveRequests |-> Add]} \cup {q6 :> f : f \in Form}
=============================================================================
