---------------------------- MODULE DecisionCache ----------------------------
(***************************************************************************)
(* The decision step of the alert engine (src/decision.go): workers ask    *)
(* GetOrEvaluate for the decision on an alert's fingerprint, concurrent    *)
(* callers of one fingerprint share one request to the decision service,   *)
(* and shouldSendByDecisionService turns what the request returned into    *)
(* a decision.  A *decisionFlight is a number, given out in order.         *)
(***************************************************************************)
EXTENDS Naturals

CONSTANTS Callers,      \* goroutines in checkLine
          Keys,         \* alert fingerprints
          NoKey,        \* not a fingerprint
          MaxFlights,   \* bound: flights ever started
          Enabled,      \* cfg.Enabled
          URLSet,       \* cfg.URL # ""
          FailOpen      \* decisionFailOpen(cfg)

ASSUME MaxFlightsAssumption == MaxFlights \in Nat
ASSUME NoKeyAssumption == NoKey \notin Keys
ASSUME ConfigAssumption == {Enabled, URLSet, FailOpen} \subseteq BOOLEAN

Flights == 1 .. MaxFlights
NoFlight == 0

-----------------------------------------------------------------------------
(* shouldSendByDecisionService and requestDecision.                        *)

\* What requestDecision can return: an answer, judged against min_confidence,
\* or an error.
Answers == {"allow", "low_confidence", "deny"}
Errors == {"timeout", "rate_limited", "http_error", "request_error"}

Responses == IF ~Enabled THEN {"disabled"}
             ELSE IF ~URLSet THEN {"configuration_error"}
             ELSE Answers \cup Errors

ServiceFailed(outcome) == outcome \in Errors \cup {"configuration_error"}

SendDecision(outcome) ==
  \/ outcome \in {"disabled", "allow"}
  \/ ServiceFailed(outcome) /\ FailOpen

Decision(outcome) == [Send |-> SendDecision(outcome),
                      ServiceFailed |-> ServiceFailed(outcome),
                      Outcome |-> outcome]

Decisions == [Send : BOOLEAN, ServiceFailed : BOOLEAN,
              Outcome : Answers \cup Errors \cup {"disabled", "configuration_error"}]
NoDecision == [Send |-> FALSE, ServiceFailed |-> FALSE, Outcome |-> ""]

-----------------------------------------------------------------------------
VARIABLES
  inflight,     \* c.inflight: the open flight of each key
  started,      \* number of flights made so far
  done,         \* flight.done is closed
  decision,     \* flight.decision
  pc,           \* each caller: "idle", "evaluating", "publishing", "waiting"
  key,          \* its key
  flight,       \* its flight
  answer,       \* what its evaluate() returned
  flightKey,    \* history: the key each flight was started for
  asked,        \* history: flights already done when it called
  result        \* history: what its last call returned, from which flight

vars == <<inflight, started, done, decision, pc, key, flight, answer,
          flightKey, asked, result>>

NoResult == [key |-> NoKey, flight |-> NoFlight, decision |-> NoDecision,
             asked |-> {}]

Init == /\ inflight = [k \in Keys |-> NoFlight]
        /\ started = 0
        /\ done = [i \in Flights |-> FALSE]
        /\ decision = [i \in Flights |-> NoDecision]
        /\ pc = [c \in Callers |-> "idle"]
        /\ key = [c \in Callers |-> NoKey]
        /\ flight = [c \in Callers |-> NoFlight]
        /\ answer = [c \in Callers |-> NoDecision]
        /\ flightKey = [i \in Flights |-> NoKey]
        /\ asked = [c \in Callers |-> {}]
        /\ result = [c \in Callers |-> NoResult]

DoneFlights == {i \in Flights : done[i]}

NoFlightFound(k) == NoFlight             \* fault: the lookup is left out

\* The flight found under c.mu for a key.
FlightOf(k) == inflight[k]

\* GetOrEvaluate joins the open flight of the key.
Join(c, k) ==
  /\ pc[c] = "idle"
  /\ FlightOf(k) # NoFlight
  /\ flight' = [flight EXCEPT ![c] = FlightOf(k)]
  /\ pc' = [pc EXCEPT ![c] = "waiting"]
  /\ key' = [key EXCEPT ![c] = k]
  /\ asked' = [asked EXCEPT ![c] = DoneFlights]
  /\ UNCHANGED <<inflight, started, done, decision, answer, flightKey, result>>

\* ... or registers a flight of its own.
Lead(c, k) ==
  /\ pc[c] = "idle"
  /\ FlightOf(k) = NoFlight
  /\ started < MaxFlights
  /\ started' = started + 1
  /\ inflight' = [inflight EXCEPT ![k] = started + 1]
  /\ flight' = [flight EXCEPT ![c] = started + 1]
  /\ pc' = [pc EXCEPT ![c] = "evaluating"]
  /\ key' = [key EXCEPT ![c] = k]
  /\ asked' = [asked EXCEPT ![c] = DoneFlights]
  /\ flightKey' = [flightKey EXCEPT ![started + 1] = k]
  /\ UNCHANGED <<done, decision, answer, result>>

\* evaluate() returns, outside c.mu; a request ends within its timeout.
Evaluate(c) ==
  /\ pc[c] = "evaluating"
  /\ \E r \in Responses : answer' = [answer EXCEPT ![c] = Decision(r)]
  /\ pc' = [pc EXCEPT ![c] = "publishing"]
  /\ UNCHANGED <<inflight, started, done, decision, key, flight,
                 flightKey, asked, result>>

Returned(c, d) == [key |-> key[c], flight |-> flight[c], decision |-> d,
                   asked |-> asked[c]]

InflightKept(c) == inflight              \* fault: the flight is not deleted

\* What the leader leaves registered for its key: nothing.
InflightAfterPublish(c) == [inflight EXCEPT ![key[c]] = NoFlight]

DoneNeverClosed(c) == done               \* fault: close(flight.done) is left out
DoneAfterPublish(c) == [done EXCEPT ![flight[c]] = TRUE]

\* Under c.mu: store the decision, delete the flight, close done, return.
Publish(c) ==
  /\ pc[c] = "publishing"
  /\ decision' = [decision EXCEPT ![flight[c]] = answer[c]]
  /\ inflight' = InflightAfterPublish(c)
  /\ done' = DoneAfterPublish(c)
  /\ result' = [result EXCEPT ![c] = Returned(c, answer[c])]
  /\ pc' = [pc EXCEPT ![c] = "idle"]
  /\ UNCHANGED <<started, key, flight, answer, flightKey, asked>>

OwnDecision(c) == answer[c]              \* fault: the caller's own, unset decision
SharedDecision(c) == decision[flight[c]]

\* <-flight.done; return flight.decision, true
Wake(c) ==
  /\ pc[c] = "waiting"
  /\ done[flight[c]]
  /\ result' = [result EXCEPT ![c] = Returned(c, SharedDecision(c))]
  /\ pc' = [pc EXCEPT ![c] = "idle"]
  /\ UNCHANGED <<inflight, started, done, decision, key, flight, answer,
                 flightKey, asked>>

Call(c) == \E k \in Keys : Join(c, k) \/ Lead(c, k)
Advance(c) == Evaluate(c) \/ Publish(c) \/ Wake(c)

Exhausted == /\ started = MaxFlights
             /\ \A c \in Callers : pc[c] = "idle"
             /\ \A k \in Keys : inflight[k] = NoFlight
             /\ UNCHANGED vars

Next == (\E c \in Callers : Call(c) \/ Advance(c)) \/ Exhausted

Spec == Init /\ [][Next]_vars

\* A goroutine inside GetOrEvaluate is scheduled, and evaluate() returns.
Fairness == \A c \in Callers : WF_vars(Advance(c))

FairSpec == Spec /\ Fairness

-----------------------------------------------------------------------------
(* Properties.                                                             *)

\* The type of the cache and of its callers; a decision made by the service
\* step always names its outcome.
TypeOK ==
  /\ inflight \in [Keys -> Flights \cup {NoFlight}]
  /\ started \in 0 .. MaxFlights
  /\ done \in [Flights -> BOOLEAN]
  /\ decision \in [Flights -> Decisions \cup {NoDecision}]
  /\ pc \in [Callers -> {"idle", "evaluating", "publishing", "waiting"}]
  /\ key \in [Callers -> Keys \cup {NoKey}]
  /\ flight \in [Callers -> Flights \cup {NoFlight}]
  /\ answer \in [Callers -> Decisions \cup {NoDecision}]
  /\ flightKey \in [Flights -> Keys \cup {NoKey}]
  /\ asked \in [Callers -> SUBSET Flights]
  /\ result \in [Callers -> [key : Keys \cup {NoKey},
                             flight : Flights \cup {NoFlight},
                             decision : Decisions \cup {NoDecision},
                             asked : SUBSET Flights]]

Leading(c) == pc[c] \in {"evaluating", "publishing"}

\* At most one request to the decision service is under way for a fingerprint.
SingleFlight ==
  \A c, d \in Callers : Leading(c) /\ Leading(d) /\ key[c] = key[d] => c = d

\* A caller that waits can be woken: its flight is done, or another caller is
\* still on its way to publish it.  A leader that left GetOrEvaluate without
\* closing the flight would hang a worker for ever.
NoOrphanedWaiter ==
  \A c \in Callers : pc[c] = "waiting" =>
     \/ done[flight[c]]
     \/ \E d \in Callers : Leading(d) /\ flight[d] = flight[c]

\* Only concurrent callers share a decision: nobody is answered from a flight
\* that was already done when it called.
SharesOnlyConcurrentRequests ==
  \A c \in Callers : result[c].flight # NoFlight =>
     result[c].flight \notin result[c].asked

\* Callers answered by one flight had the same fingerprint as the request and
\* got the same, published, decision.
SharedAnswer ==
  \A c \in Callers : result[c].flight # NoFlight =>
     /\ done[result[c].flight]
     /\ result[c].decision = decision[result[c].flight]
     /\ result[c].key = flightKey[result[c].flight]

\* Every call returns.
CallReturns == \A c \in Callers : pc[c] # "idle" ~> pc[c] = "idle"
=============================================================================
