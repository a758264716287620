------------------------- MODULE DecisionCacheProofs -------------------------
(***************************************************************************)
(* Proofs about DecisionCache, for every set of callers and fingerprints.  *)
(***************************************************************************)
EXTENDS DecisionCache, TLAPS

-----------------------------------------------------------------------------
(* The inductive invariant.                                                *)

\* Flights are numbered in the order they start; one not started is not done.
Numbered == \A i \in Flights : done[i] => i <= started

\* The open flight of a key is the one its leader will publish, and there is
\* such a leader.
Registered ==
  \A k \in Keys : inflight[k] # NoFlight =>
     \E c \in Callers : Leading(c) /\ key[c] = k /\ flight[c] = inflight[k]

\* A leader's flight is registered under its key and not done.
LeaderOwns ==
  \A c \in Callers : Leading(c) =>
     /\ key[c] \in Keys
     /\ flight[c] \in Flights /\ flight[c] <= started
     /\ inflight[key[c]] = flight[c]
     /\ ~done[flight[c]]
     /\ flightKey[flight[c]] = key[c]

\* Two leaders publish two flights.
OneLeader ==
  \A c, d \in Callers : Leading(c) /\ Leading(d) /\ flight[c] = flight[d] => c = d

\* A waiter's flight was made for its key, and is done or still registered.
WaiterJoined ==
  \A c \in Callers : pc[c] = "waiting" =>
     /\ key[c] \in Keys
     /\ flight[c] \in Flights /\ flight[c] <= started
     /\ flightKey[flight[c]] = key[c]
     /\ done[flight[c]] \/ inflight[key[c]] = flight[c]

\* Nobody is in a flight that was done when it called.
NotStale ==
  \A c \in Callers : pc[c] # "idle" => flight[c] \notin asked[c]

\* What an answered caller was told.
ResultsShared == SharesOnlyConcurrentRequests /\ SharedAnswer

\* Nothing is recorded of flights that have not started.
ResultsStarted ==
  \A c \in Callers : result[c].flight <= started

IInv == /\ TypeOK /\ Numbered /\ Registered /\ LeaderOwns /\ OneLeader
        /\ WaiterJoined /\ NotStale /\ ResultsShared /\ ResultsStarted

-----------------------------------------------------------------------------
LEMMA DecisionIsDecision ==
  \A r \in Responses : Decision(r) \in Decisions
BY DEF Responses, Decision, Decisions, SendDecision, ServiceFailed, Answers, Errors

LEMMA InitIInv == Init => IInv
<1> SUFFICES ASSUME Init PROVE IInv
  OBVIOUS
<1> USE DEF Init, NoFlight
<1>1. TypeOK
  BY MaxFlightsAssumption DEF TypeOK, NoResult
<1>2. Numbered /\ Registered /\ LeaderOwns /\ OneLeader /\ WaiterJoined /\ NotStale
  BY DEF Numbered, Registered, LeaderOwns, OneLeader, WaiterJoined, NotStale, Leading
<1>3. ResultsShared /\ ResultsStarted
  BY DEF ResultsShared, SharesOnlyConcurrentRequests, SharedAnswer, NoResult, ResultsStarted
<1>4. QED BY <1>1, <1>2, <1>3 DEF IInv

LEMMA JoinKeeps ==
  ASSUME IInv, NEW c \in Callers, NEW k \in Keys, Join(c, k)
  PROVE  IInv'
<1> USE DEF Join, FlightOf, NoFlight
<1>1. TypeOK'
  BY DEF IInv, TypeOK, DoneFlights
<1>2. PICK d \in Callers : Leading(d) /\ key[d] = k /\ flight[d] = inflight[k]
  BY DEF IInv, Registered
<1>3. /\ inflight[k] \in Flights /\ inflight[k] <= started
      /\ ~done[inflight[k]] /\ flightKey[inflight[k]] = k
  BY <1>2 DEF IInv, LeaderOwns
<1>4. \A d2 \in Callers : /\ Leading(d2)' <=> Leading(d2)
                          /\ Leading(d2) => key'[d2] = key[d2] /\ flight'[d2] = flight[d2]
  BY DEF IInv, TypeOK, Leading
<1>5. Numbered' /\ Registered' /\ LeaderOwns' /\ OneLeader'
  BY <1>4 DEF IInv, Numbered, Registered, LeaderOwns, OneLeader
<1>6. WaiterJoined'
  BY <1>3 DEF IInv, TypeOK, WaiterJoined
<1>7. NotStale'
  BY <1>3 DEF IInv, TypeOK, NotStale, DoneFlights
<1>8. ResultsShared' /\ ResultsStarted'
  BY DEF IInv, ResultsShared, SharesOnlyConcurrentRequests, SharedAnswer, ResultsStarted
<1>9. QED BY <1>1, <1>5, <1>6, <1>7, <1>8 DEF IInv

LEMMA LeadKeeps ==
  ASSUME IInv, NEW c \in Callers, NEW k \in Keys, Lead(c, k)
  PROVE  IInv'
<1> USE DEF Lead, FlightOf, NoFlight
<1>0. /\ started \in Nat /\ started + 1 \in Flights
      /\ started' = started + 1
      /\ ~done[started + 1]
  BY MaxFlightsAssumption DEF IInv, TypeOK, Numbered, Flights
<1>1. TypeOK'
  BY <1>0, MaxFlightsAssumption DEF IInv, TypeOK, DoneFlights, Flights
<1>2. /\ \A d \in Callers : d # c => /\ Leading(d)' <=> Leading(d)
                                     /\ pc'[d] = pc[d] /\ key'[d] = key[d]
                                     /\ flight'[d] = flight[d] /\ asked'[d] = asked[d]
      /\ ~Leading(c) /\ Leading(c)' /\ pc'[c] = "evaluating"
      /\ key'[c] = k /\ flight'[c] = started + 1 /\ asked'[c] = DoneFlights
  BY DEF IInv, TypeOK, Leading
<1>3. /\ \A j \in Keys : j # k => inflight'[j] = inflight[j]
      /\ inflight'[k] = started + 1 /\ inflight[k] = NoFlight
      /\ \A i \in Flights : i # started + 1 => flightKey'[i] = flightKey[i]
      /\ flightKey'[started + 1] = k
  BY <1>0 DEF IInv, TypeOK
<1>4. ASSUME NEW d \in Callers, Leading(d)
      PROVE  /\ key[d] # k /\ flight[d] # started + 1
             /\ key[d] \in Keys /\ flight[d] \in Flights
  BY <1>0, <1>3, <1>4 DEF IInv, LeaderOwns, Flights
<1>5. Numbered'
  BY <1>0 DEF IInv, Numbered, Flights
<1>6. Registered'
  BY <1>2, <1>3 DEF IInv, Registered
<1>7. LeaderOwns'
  BY <1>0, <1>2, <1>3, <1>4 DEF IInv, LeaderOwns, Flights
<1>8. OneLeader'
  BY <1>2, <1>4 DEF IInv, OneLeader
<1>9. WaiterJoined'
  <2>1. ASSUME NEW d \in Callers, pc'[d] = "waiting"
        PROVE  /\ d # c /\ pc[d] = "waiting" /\ key[d] \in Keys
               /\ flight[d] \in Flights /\ flight[d] <= started
               /\ flightKey[flight[d]] = key[d]
               /\ done[flight[d]] \/ inflight[key[d]] = flight[d]
    BY <1>2, <2>1 DEF IInv, WaiterJoined
  <2>2. ASSUME NEW d \in Callers, pc'[d] = "waiting"
        PROVE  done[flight[d]] \/ inflight'[key[d]] = flight[d]
    BY <1>3, <2>1, <2>2 DEF Flights
  <2>3. QED BY <1>0, <1>2, <1>3, <2>1, <2>2 DEF WaiterJoined, Flights
<1>10. NotStale'
  BY <1>0, <1>2 DEF IInv, NotStale, DoneFlights
<1>11. ResultsShared' /\ ResultsStarted'
  <2>1. \A d \in Callers : /\ result[d].flight \in Flights \cup {NoFlight}
                           /\ result[d].flight <= started
    BY DEF IInv, TypeOK, ResultsStarted
  <2>2. QED
    BY <1>0, <1>3, <2>1
       DEF IInv, ResultsShared, SharesOnlyConcurrentRequests, SharedAnswer, ResultsStarted, Flights
<1>12. QED BY <1>1, <1>5, <1>6, <1>7, <1>8, <1>9, <1>10, <1>11 DEF IInv

LEMMA EvaluateKeeps ==
  ASSUME IInv, NEW c \in Callers, Evaluate(c)
  PROVE  IInv'
<1> USE DEF Evaluate
<1>1. TypeOK'
  BY DecisionIsDecision DEF IInv, TypeOK
<1>2. \A d \in Callers : /\ Leading(d)' <=> Leading(d)
                         /\ pc'[d] = "waiting" <=> pc[d] = "waiting"
                         /\ pc'[d] # "idle" <=> pc[d] # "idle"
  BY DEF IInv, TypeOK, Leading
<1>3. QED
  BY <1>1, <1>2 DEF IInv, Numbered, Registered, LeaderOwns, OneLeader, WaiterJoined,
     NotStale, ResultsShared, SharesOnlyConcurrentRequests, SharedAnswer, ResultsStarted

LEMMA PublishKeeps ==
  ASSUME IInv, NEW c \in Callers, Publish(c)
  PROVE  IInv'
<1> USE DEF Publish, InflightAfterPublish, DoneAfterPublish, Returned, NoFlight
<1> DEFINE i == flight[c]
           k == key[c]
<1>1. /\ Leading(c) /\ k \in Keys /\ i \in Flights /\ i <= started
      /\ inflight[k] = i /\ ~done[i] /\ flightKey[i] = k /\ i \notin asked[c]
      /\ pc[c] # "waiting"
  BY DEF IInv, Leading, LeaderOwns, NotStale
<1>2. TypeOK'
  BY <1>1 DEF IInv, TypeOK
<1>3. /\ \A d \in Callers : d # c => /\ Leading(d)' <=> Leading(d)
                                     /\ pc'[d] = pc[d] /\ result'[d] = result[d]
      /\ ~Leading(c)' /\ pc'[c] = "idle"
      /\ result'[c] = [key |-> k, flight |-> i, decision |-> answer[c], asked |-> asked[c]]
      /\ key' = key /\ flight' = flight /\ asked' = asked
  BY DEF IInv, TypeOK, Leading
<1>4. /\ \A j \in Keys : j # k => inflight'[j] = inflight[j]
      /\ inflight'[k] = NoFlight
      /\ \A h \in Flights : h # i => done'[h] = done[h] /\ decision'[h] = decision[h]
      /\ done'[i] /\ decision'[i] = answer[c]
  BY <1>1 DEF IInv, TypeOK
<1>5. ASSUME NEW d \in Callers, d # c, Leading(d)
      PROVE  /\ flight[d] # i /\ key[d] # k /\ key[d] \in Keys /\ flight[d] \in Flights
  BY <1>1, <1>5 DEF IInv, OneLeader, LeaderOwns
<1>6. Numbered'
  BY <1>1, <1>4 DEF IInv, Numbered
<1>7. Registered'
  BY <1>3, <1>4 DEF IInv, Registered
<1>8. LeaderOwns'
  BY <1>3, <1>4, <1>5 DEF IInv, LeaderOwns
<1>9. OneLeader'
  BY <1>3 DEF IInv, OneLeader
<1>10. WaiterJoined'
  BY <1>1, <1>3, <1>4 DEF IInv, WaiterJoined
<1>11. NotStale'
  BY <1>3 DEF IInv, NotStale
<1>12. ResultsShared'
  <2>1. \A d \in Callers : result[d].flight \in Flights => result[d].flight # i
    BY <1>1 DEF IInv, ResultsShared, SharedAnswer, Flights
  <2>2. \A d \in Callers : result[d].flight \in Flights \cup {NoFlight}
    BY DEF IInv, TypeOK
  <2>3. QED
    BY <1>1, <1>3, <1>4, <2>1, <2>2
       DEF IInv, ResultsShared, SharesOnlyConcurrentRequests, SharedAnswer
<1>13. ResultsStarted'
  BY <1>1, <1>3 DEF IInv, ResultsStarted
<1>14. QED
  BY <1>2, <1>6, <1>7, <1>8, <1>9, <1>10, <1>11, <1>12, <1>13 DEF IInv

LEMMA WakeKeeps ==
  ASSUME IInv, NEW c \in Callers, Wake(c)
  PROVE  IInv'
<1> USE DEF Wake, SharedDecision, Returned, NoFlight
<1> DEFINE i == flight[c]
<1>1. /\ i \in Flights /\ i <= started /\ done[i] /\ flightKey[i] = key[c]
      /\ i \notin asked[c] /\ key[c] \in Keys
  BY DEF IInv, WaiterJoined, NotStale
<1>2. TypeOK'
  BY <1>1 DEF IInv, TypeOK
<1>3. /\ \A d \in Callers : d # c => pc'[d] = pc[d] /\ result'[d] = result[d]
      /\ pc'[c] = "idle"
      /\ result'[c] = [key |-> key[c], flight |-> i, decision |-> decision[i], asked |-> asked[c]]
      /\ \A d \in Callers : Leading(d)' <=> Leading(d)
  BY DEF IInv, TypeOK, Leading
<1>4. Numbered' /\ Registered' /\ LeaderOwns' /\ OneLeader' /\ WaiterJoined' /\ NotStale'
  BY <1>3 DEF IInv, Numbered, Registered, LeaderOwns, OneLeader, WaiterJoined, NotStale
<1>5. ResultsShared' /\ ResultsStarted'
  BY <1>1, <1>3
     DEF IInv, ResultsShared, SharesOnlyConcurrentRequests, SharedAnswer, ResultsStarted
<1>6. QED BY <1>2, <1>4, <1>5 DEF IInv

LEMMA NextIInv == IInv /\ [Next]_vars => IInv'
<1> SUFFICES ASSUME IInv, [Next]_vars PROVE IInv'
  OBVIOUS
<1>1. ASSUME NEW c \in Callers, Call(c) PROVE IInv'
  BY <1>1, JoinKeeps, LeadKeeps DEF Call
<1>2. ASSUME NEW c \in Callers, Advance(c) PROVE IInv'
  BY <1>2, EvaluateKeeps, PublishKeeps, WakeKeeps DEF Advance
<1>3. CASE UNCHANGED vars
  BY <1>3 DEF IInv, TypeOK, Numbered, Registered, LeaderOwns, OneLeader, WaiterJoined,
     NotStale, ResultsShared, SharesOnlyConcurrentRequests, SharedAnswer,
     ResultsStarted, Leading, vars
<1>4. QED BY <1>1, <1>2, <1>3 DEF Next, Exhausted

LEMMA Invariant == Spec => []IInv
BY InitIInv, NextIInv, PTL DEF Spec

-----------------------------------------------------------------------------
\* The cache and its callers are well typed in every reachable state; in
\* particular every decision handed out names its outcome (decision.go: each
\* return of shouldSendByDecisionService sets Outcome).
THEOREM TypeCorrect == Spec => []TypeOK
<1>1. IInv => TypeOK
  BY DEF IInv
<1>2. QED BY <1>1, Invariant, PTL

\* At most one request to the decision service is under way for a fingerprint,
\* whatever the number of workers (decision.go: the lookup and the registration
\* of a flight happen under one lock).
THEOREM OneRequestPerFingerprint == Spec => []SingleFlight
<1>1. IInv => SingleFlight
  BY DEF IInv, LeaderOwns, OneLeader, SingleFlight
<1>2. QED BY <1>1, Invariant, PTL

\* A caller blocked on a flight always has a leader that will close it.
THEOREM WaitersHaveALeader == Spec => []NoOrphanedWaiter
<1>1. IInv => NoOrphanedWaiter
  BY DEF IInv, WaiterJoined, Registered, NoOrphanedWaiter, Flights, NoFlight
<1>2. QED BY <1>1, Invariant, PTL

\* A decision is never reused after its request completed.
THEOREM NoCompletedDecisionReused == Spec => []SharesOnlyConcurrentRequests
<1>1. IInv => SharesOnlyConcurrentRequests
  BY DEF IInv, ResultsShared
<1>2. QED BY <1>1, Invariant, PTL

\* All callers of a flight get the decision it published, for their own key.
THEOREM CallersShareTheAnswer == Spec => []SharedAnswer
<1>1. IInv => SharedAnswer
  BY DEF IInv, ResultsShared
<1>2. QED BY <1>1, Invariant, PTL
=============================================================================
