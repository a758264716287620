------------------------- MODULE AlertEngineProofs -------------------------
(***************************************************************************)
(* What TLAPS proves of AlertEngine for any lines, monitors, excludes,     *)
(* rules and bounds.                                                       *)
(***************************************************************************)
EXTENDS AlertEngine, FiniteSetTheorems, TLAPS

Busy == {"check", "decide", "record", "reserve", "primary", "fallback", "release", "forget"}
Results == {"unmatched", "muted", "excluded", "denied", "aggregated", "suppressed",
            "delivered", "failed"}

\* Where the lines are.
PathTyped ==
  /\ pc \in [Lines -> Busy \cup {"queued", "done"}]
  /\ monitor \in [Lines -> 1..(MonitorCount + 1)]
  /\ outcome \in [Passes -> Results \cup {""}]
  /\ \A l \in Lines : /\ pc[l] = "done" <=> monitor[l] = MonitorCount + 1
                      /\ pc[l] = "queued" => monitor[l] = 1
  /\ \A l \in Lines, m \in Monitors : outcome[<<l, m>>] # "" <=> monitor[l] > m

StoreTyped ==
  /\ cfg \in Configs /\ shape \in Loads
  /\ excludes \subseteq Excludes /\ reserved \subseteq Fingerprints
  /\ incident \in [Rules -> [count : Nat, last : Nat]]

LineTyped ==
  /\ DOMAIN snapshot = Lines
  /\ asIncident \in [Lines -> BOOLEAN] /\ count \in [Lines -> Nat]

HistoryTyped ==
  /\ holder \in [Fingerprints -> Passes \cup {Nobody}]
  /\ claimant \in [Rules -> Passes \cup {Nobody}]
  /\ copies \in [Fingerprints -> Nat] /\ unanswered \in [Fingerprints -> Nat]
  /\ expiries \in [Fingerprints -> Nat] /\ faults \in Nat

\* What the stage of a line tells of it.
StageInv ==
  /\ \A l \in Lines :
       /\ pc[l] = "record" => RuleOf(l) # NoRule
       /\ pc[l] \in {"record", "reserve", "forget"} => ~asIncident[l]
       /\ pc[l] = "release" => asIncident[l]
       /\ pc[l] = "reserve" => cfg.dedup
       /\ pc[l] \in {"primary", "fallback", "release"} /\ asIncident[l] => RuleOf(l) \in Rules
  /\ reserved # {} => cfg.dedup

\* The excludes a line is checked against are those it took at its beginning.
MuteInv ==
  \A l \in Lines :
    /\ \A m \in Monitors :
         /\ outcome[<<l, m>>] = "muted" => Muted(shape[l], snapshot[l])
         /\ outcome[<<l, m>>] \in Results \ {"unmatched", "muted"} => ~Muted(shape[l], snapshot[l])
    /\ pc[l] \in Busy \ {"check"} => ~Muted(shape[l], snapshot[l])

\* A reservation is held by a pass whose alert was delivered or is under way.
Holding(p, f) ==
  \/ outcome[p] = "delivered"
  \/ \E l \in Lines : /\ p = Pass(l) /\ pc[l] \in {"primary", "fallback", "forget"}
                     /\ ~asIncident[l] /\ FingerprintOf(l) = f

Held(f) == \E p \in Passes : holder[f] = p /\ Holding(p, f)
HolderInv == \A f \in reserved : Held(f)

\* As long as no call failed, a claim is one of a pass whose reminder was delivered
\* or is under way.
Claiming(p, r) ==
  \/ outcome[p] = "delivered"
  \/ \E l \in Lines : /\ p = Pass(l) /\ pc[l] \in {"primary", "fallback", "release"}
                     /\ asIncident[l] /\ RuleOf(l) = r /\ count[l] = incident[r].last

Claimed(r) == \E p \in Passes : claimant[r] = p /\ Claiming(p, r)

LastInv == \A r \in Rules : incident[r].last <= incident[r].count
ClaimInv == faults = 0 => \A r \in Rules : incident[r].last # 0 => Claimed(r)

\* The alerts of f that may still be sent, and one that may still be reserved.
Owing(f) == {l \in Lines : /\ pc[l] \in {"primary", "fallback", "forget"}
                           /\ ~asIncident[l] /\ FingerprintOf(l) = f}
Reservable(f) == IF f \in reserved THEN 0 ELSE 1

AlertsInv ==
  cfg.dedup => \A f \in Fingerprints :
    copies[f] + Cardinality(Owing(f)) + Reservable(f) <= 1 + unanswered[f] + expiries[f]

Typed == PathTyped /\ StoreTyped /\ LineTyped /\ HistoryTyped
IInv == Typed /\ StageInv /\ MuteInv /\ HolderInv /\ LastInv /\ ClaimInv
        /\ AlertsInv /\ NoiseNeedsEvidence

-----------------------------------------------------------------------------
(* The initial state.                                                      *)

LEMMA LoadFacts ==
  ASSUME shape \in Loads
  PROVE  /\ IsFiniteSet(Lines) /\ shape \in [Lines -> Shape]
         /\ \A l \in Lines : FingerprintOf(l) \in Fingerprints /\ RuleOf(l) \in Rules \cup {NoRule}
<1>1. IsFiniteSet(Lines) /\ shape \in [Lines -> Shape]
  BY LoadAssumption DEF Lines
<1>2. QED BY <1>1 DEF Shape, FingerprintOf, RuleOf

LEMMA InitIInv == Init => IInv
<1> SUFFICES ASSUME Init PROVE IInv
  OBVIOUS
<1>1. PathTyped
  <2>1. /\ pc = [l \in Lines |-> "queued"] /\ monitor = [l \in Lines |-> 1]
        /\ outcome = [p \in Passes |-> ""]
    BY DEF Init
  <2>2. 1 \in 1..(MonitorCount + 1) /\ 1 # MonitorCount + 1
    BY MonitorAssumption
  <2>3. \A l \in Lines, m \in Monitors : outcome[<<l, m>>] = "" /\ ~(monitor[l] > m)
    <3>1. ASSUME NEW l \in Lines, NEW m \in Monitors
          PROVE  outcome[<<l, m>>] = "" /\ ~(monitor[l] > m)
      <4>1. outcome[<<l, m>>] = ""
        BY <2>1 DEF Passes
      <4>2. m \in Nat /\ m >= 1
        BY MonitorAssumption DEF Monitors
      <4>3. ~(monitor[l] > m)
        <5>1. monitor[l] = 1
          BY <2>1
        <5>2. QED BY <4>2, <5>1
      <4>4. QED BY <4>1, <4>3, Zenon
    <3>2. QED BY <3>1
  <2>4. QED BY <2>1, <2>2, <2>3 DEF PathTyped
<1>2. StoreTyped
  BY DEF Init, StoreTyped, NoIncident
<1>3. LineTyped
  BY DEF Init, LineTyped
<1>4. HistoryTyped
  BY DEF Init, HistoryTyped
<1>5. StageInv
  BY DEF Init, StageInv
<1>6. MuteInv
  <2>1. \A l \in Lines : pc[l] = "queued" /\ \A m \in Monitors : outcome[<<l, m>>] = ""
    BY DEF Init, Passes
  <2>2. QED BY <2>1 DEF MuteInv, Results, Busy
<1>7. HolderInv
  BY DEF Init, HolderInv
<1>8. LastInv /\ ClaimInv
  <2>1. \A r \in Rules : incident[r].last = 0 /\ incident[r].count = 0
    BY DEF Init, NoIncident
  <2>2. QED BY <2>1 DEF LastInv, ClaimInv
<1>9. AlertsInv
  <2>1. \A f \in Fingerprints : Owing(f) = {}
    BY DEF Init, Owing
  <2>2. \A f \in Fingerprints : /\ copies[f] = 0 /\ unanswered[f] = 0 /\ expiries[f] = 0
                                /\ Reservable(f) = 1
    BY DEF Init, Reservable
  <2>3. QED BY <2>1, <2>2, FS_EmptySet DEF AlertsInv
<1>10. NoiseNeedsEvidence
  <2>1. \A p \in Passes : outcome[p] = ""
    BY DEF Init
  <2>2. QED BY <2>1 DEF NoiseNeedsEvidence
<1>11. QED BY <1>1, <1>2, <1>3, <1>4, <1>5, <1>6, <1>7, <1>8, <1>9, <1>10 DEF IInv, Typed

-----------------------------------------------------------------------------
(* A line goes on, or ends a pass.                                         *)

Goes(l) == \E x \in Busy : GoTo(l, x)
Ends(l) == \E o \in Results : Finish(l, o)

LEMMA PathMoves ==
  ASSUME PathTyped, NEW l \in Lines, pc[l] # "done", shape' = shape, Goes(l) \/ Ends(l)
  PROVE  PathTyped'
<1>1. /\ Lines' = Lines /\ Passes' = Passes
  BY DEF Lines, Passes
<1>2. CASE Goes(l)
  <2>1. PICK x \in Busy : pc' = [pc EXCEPT ![l] = x] /\ monitor' = monitor /\ outcome' = outcome
    BY <1>2 DEF Goes, GoTo
  <2>2. x # "done" /\ x # "queued"
    BY DEF Busy
  <2>3. pc' \in [Lines -> Busy \cup {"queued", "done"}]
    BY <2>1 DEF PathTyped
  <2>4. \A k \in Lines : /\ pc'[k] = "done" <=> monitor'[k] = MonitorCount + 1
                         /\ pc'[k] = "queued" => monitor'[k] = 1
    BY <2>1, <2>2 DEF PathTyped
  <2>5. Monitors' = Monitors
    BY DEF Monitors
  <2>6. QED BY <1>1, <2>1, <2>3, <2>4, <2>5 DEF PathTyped
<1>3. CASE Ends(l)
  <2>1. PICK o \in Results : Finish(l, o)
    BY <1>3 DEF Ends
  <2>2. monitor[l] \in Monitors /\ Pass(l) = <<l, monitor[l]>> /\ Pass(l) \in Passes
    <3>1. monitor[l] \in Monitors
      <4>1. monitor[l] \in 1..(MonitorCount + 1)
        BY DEF PathTyped
      <4>2. monitor[l] # MonitorCount + 1
        BY DEF PathTyped
      <4>3. QED BY <4>1, <4>2, MonitorAssumption DEF Monitors
    <3>2. QED BY <3>1 DEF Pass, Passes
  <2>3. /\ pc' = [pc EXCEPT ![l] = Continue(l)]
        /\ monitor' = [monitor EXCEPT ![l] = monitor[l] + 1]
        /\ outcome' = [outcome EXCEPT ![<<l, monitor[l]>>] = o]
    BY <2>1, <2>2 DEF Finish
  <2>4. /\ Continue(l) \in Busy \cup {"done"}
        /\ Continue(l) = "done" <=> monitor[l] + 1 = MonitorCount + 1
        /\ monitor[l] + 1 \in 1..(MonitorCount + 1)
    BY <2>2, MonitorAssumption DEF Continue, Busy, Monitors
  <2>5. /\ pc' \in [Lines -> Busy \cup {"queued", "done"}]
        /\ monitor' \in [Lines -> 1..(MonitorCount + 1)]
    BY <2>3, <2>4 DEF PathTyped
  <2>6. outcome' \in [Passes -> Results \cup {""}]
    BY <2>3, <2>2 DEF PathTyped
  <2>7. \A k \in Lines : /\ pc'[k] = "done" <=> monitor'[k] = MonitorCount + 1
                         /\ pc'[k] = "queued" => monitor'[k] = 1
    BY <2>3, <2>4 DEF PathTyped, Busy
  <2>8. ASSUME NEW k \in Lines, NEW m \in Monitors
        PROVE  outcome'[<<k, m>>] # "" <=> monitor'[k] > m
    <3>1. <<k, m>> \in Passes /\ monitor[k] \in Nat /\ m \in Nat
      <4>1. <<k, m>> \in Passes
        BY DEF Passes
      <4>2. m \in Nat
        BY MonitorAssumption DEF Monitors
      <4>3. monitor[k] \in Nat
        <5>1. monitor[k] \in 1..(MonitorCount + 1)
          BY DEF PathTyped
        <5>2. QED BY <5>1, MonitorAssumption
      <4>4. QED BY <4>1, <4>2, <4>3
    <3>2. CASE k = l /\ m = monitor[l]
      <4>1. outcome'[<<k, m>>] = o
        BY <2>3, <3>1, <3>2 DEF PathTyped
      <4>2. monitor'[k] = m + 1
        BY <2>3, <3>2 DEF PathTyped
      <4>3. o # ""
        BY DEF Results
      <4>4. monitor'[k] > m
        BY <3>1, <4>2
      <4>5. QED BY <4>1, <4>3, <4>4, Zenon
    <3>3. CASE k = l /\ m # monitor[l]
      <4>1. <<k, m>> # <<l, monitor[l]>>
        BY <3>3
      <4>2. outcome'[<<k, m>>] = outcome[<<k, m>>]
        BY <2>3, <3>1, <4>1 DEF PathTyped
      <4>3. monitor'[k] = monitor[k] + 1
        BY <2>3, <3>3 DEF PathTyped
      <4>4. outcome[<<k, m>>] # "" <=> monitor[k] > m
        BY DEF PathTyped
      <4>5. monitor'[k] > m <=> monitor[k] > m
        BY <3>1, <3>3, <4>3
      <4>6. QED BY <4>2, <4>4, <4>5
    <3>4. CASE k # l
      <4>1. outcome'[<<k, m>>] = outcome[<<k, m>>]
        BY <2>3, <3>1, <3>4 DEF PathTyped
      <4>2. monitor'[k] = monitor[k]
        BY <2>3, <3>4 DEF PathTyped
      <4>3. outcome[<<k, m>>] # "" <=> monitor[k] > m
        BY DEF PathTyped
      <4>4. QED BY <4>1, <4>2, <4>3
    <3>5. QED BY <3>2, <3>3, <3>4
  <2>9. Monitors' = Monitors
    BY DEF Monitors
  <2>10. QED BY <1>1, <2>5, <2>6, <2>7, <2>8, <2>9 DEF PathTyped
<1>4. QED BY <1>2, <1>3

LEMMA StepMoves ==
  ASSUME NEW l \in Lines, Step(l)
  PROVE  shape' = shape /\ cfg' = cfg /\ pc[l] # "done" /\ (Goes(l) \/ Ends(l))
<1> USE DEF Goes, Busy, At
<1>1. CASE Begin(l)
  BY <1>1 DEF Begin
<1>2. CASE Check(l)
  BY <1>2 DEF Check, Ends, Results
<1>3. CASE Decide(l)
  BY <1>3 DEF Decide, Ends, Results, Unaggregated
<1>4. CASE Record(l)
  BY <1>4 DEF Record, Ends, Results
<1>5. CASE RecordFails(l)
  BY <1>5 DEF RecordFails, Unaggregated
<1>6. CASE Allow(l)
  BY <1>6 DEF Allow, Ends, Results
<1>7. CASE Accepted(l)
  BY <1>7 DEF Accepted, Sending, SentUnchanged, Ends, Results
<1>8. CASE Unsent(l)
  BY <1>8 DEF Unsent, Sending, SentUnchanged, AfterError
<1>9. CASE Release(l)
  BY <1>9 DEF Release, Ends, Results
<1>10. CASE Forget(l)
  BY <1>10 DEF Forget, Ends, Results
<1>11. QED BY <1>1, <1>2, <1>3, <1>4, <1>5, <1>6, <1>7, <1>8, <1>9, <1>10 DEF Step

\* The count of an incident goes up, and last with it when a reminder is due.
LEMMA RecordedType ==
  ASSUME NEW i \in [count : Nat, last : Nat]
  PROVE  /\ Recorded(i) \in [count : Nat, last : Nat]
         /\ Recorded(i).count = i.count + 1
         /\ Recorded(i).last \in {i.last, i.count + 1}
         /\ i.last = 0 => Recorded(i).last = i.count + 1
<1> DEFINE j == [i EXCEPT !.count = @ + 1]
<1>1. j \in [count : Nat, last : Nat] /\ j.count = i.count + 1 /\ j.last = i.last
  OBVIOUS
<1>2. i.last = 0 => Due(j)
  BY <1>1 DEF Due
<1> HIDE DEF j
<1>3. Recorded(i) = IF Due(j) THEN [j EXCEPT !.last = j.count] ELSE j
  BY DEF Recorded, j
<1>4. QED BY <1>1, <1>2, <1>3

LEMMA ClaimType ==
  ASSUME Typed, NEW l \in Lines, pc[l] = "record", RuleOf(l) \in Rules, Claim(l)
  PROVE  /\ incident' = [incident EXCEPT ![RuleOf(l)] = Recorded(incident[RuleOf(l)])]
         /\ incident' \in [Rules -> [count : Nat, last : Nat]]
         /\ claimant' \in [Rules -> Passes \cup {Nobody}]
         /\ claimant' = [claimant EXCEPT ![RuleOf(l)] =
              IF incident'[RuleOf(l)].last = incident'[RuleOf(l)].count THEN Pass(l) ELSE @]
<1>1. Pass(l) \in Passes
  <2>1. monitor[l] \in 1..(MonitorCount + 1) /\ monitor[l] # MonitorCount + 1
    BY DEF Typed, PathTyped
  <2>2. QED BY <2>1, MonitorAssumption DEF Pass, Passes, Monitors
<1>2. Recorded(incident[RuleOf(l)]) \in [count : Nat, last : Nat]
  BY RecordedType DEF Typed, StoreTyped
<1>3. QED BY <1>1, <1>2 DEF Claim, Typed, StoreTyped, HistoryTyped

LEMMA CountType ==
  ASSUME NEW h \in [Fingerprints -> Nat], NEW l \in Lines, FingerprintOf(l) \in Fingerprints
  PROVE  Count(h, l) \in [Fingerprints -> Nat]
<1> DEFINE f == FingerprintOf(l)
<1>1. h[f] + 1 \in Nat
  OBVIOUS
<1> HIDE DEF f
<1>2. [h EXCEPT ![f] = h[f] + 1] \in [Fingerprints -> Nat]
  BY <1>1
<1>3. QED BY <1>2 DEF Count, f

LEMMA NextTyped ==
  ASSUME Typed, StageInv, Next
  PROVE  Typed'
<1>1. ASSUME NEW l \in Lines, Step(l)
      PROVE  Typed'
  <2> USE DEF At
  <2>1. PathTyped'
    BY <1>1, StepMoves, PathMoves DEF Typed
  <2>2. /\ Lines' = Lines /\ Passes' = Passes /\ cfg' \in Configs /\ shape' \in Loads
    BY <1>1, StepMoves DEF Lines, Passes, Typed, StoreTyped
  <2>3. FingerprintOf(l) \in Fingerprints /\ RuleOf(l) \in Rules \cup {NoRule}
    BY LoadFacts DEF Typed, StoreTyped
  <2>4. pc[l] # "done" => Pass(l) \in Passes
    <3>1. monitor[l] \in 1..(MonitorCount + 1) /\ (monitor[l] = MonitorCount + 1 => pc[l] = "done")
      BY DEF Typed, PathTyped
    <3>2. QED BY <3>1, MonitorAssumption DEF Pass, Passes, Monitors
  <2> SUFFICES StoreTyped' /\ LineTyped' /\ HistoryTyped'
    BY <2>1 DEF Typed
  <2> USE DEF StoreTyped, LineTyped, HistoryTyped, shared, history, bounds
  <2>5. CASE Begin(l)
    BY <2>2, <2>5 DEF Begin, Typed
  <2>6. CASE Check(l)
    BY <2>2, <2>6 DEF Check, Typed
  <2>7. CASE Decide(l)
    BY <2>2, <2>7 DEF Decide, Typed
  <2>8. CASE Record(l)
    <3>1. RuleOf(l) \in Rules /\ pc[l] = "record"
      BY <2>3, <2>8 DEF Record, StageInv
    <3>2. /\ incident' \in [Rules -> [count : Nat, last : Nat]]
          /\ claimant' \in [Rules -> Passes \cup {Nobody}]
      BY <3>1, <2>8, ClaimType DEF Record
    <3>3. incident'[RuleOf(l)].count \in Nat
      BY <3>1, <3>2
    <3>4. asIncident' \in [Lines -> BOOLEAN] /\ count' \in [Lines -> Nat]
      BY <3>3, <2>8 DEF Record, Typed
    <3>5. QED BY <2>2, <2>8, <3>2, <3>4 DEF Record, Typed
  <2>9. CASE RecordFails(l)
    <3>1. RuleOf(l) \in Rules /\ pc[l] = "record"
      BY <2>3, <2>9 DEF RecordFails, StageInv
    <3>2. /\ incident' \in [Rules -> [count : Nat, last : Nat]]
          /\ claimant' \in [Rules -> Passes \cup {Nobody}]
      BY <3>1, <2>9, ClaimType DEF RecordFails, Typed
    <3>3. faults' \in Nat
      BY <2>9 DEF RecordFails, Fault, Typed
    <3>4. QED BY <2>2, <2>9, <3>2, <3>3 DEF RecordFails, Typed
  <2>10. CASE Allow(l)
    <3>1. reserved' \subseteq Fingerprints /\ holder' \in [Fingerprints -> Passes \cup {Nobody}]
      BY <2>3, <2>4, <2>10 DEF Allow, Typed
    <3>2. QED BY <2>2, <2>10, <3>1 DEF Allow, Typed
  <2>11. CASE Accepted(l)
    <3>1. copies' \in [Fingerprints -> Nat]
      BY <2>3, <2>11, CountType DEF Accepted, Typed
    <3>2. QED BY <2>2, <2>11, <3>1 DEF Accepted, SentUnchanged, Typed
  <2>12. CASE Unsent(l)
    <3>1. copies' \in [Fingerprints -> Nat] /\ unanswered' \in [Fingerprints -> Nat]
      BY <2>3, <2>12, CountType DEF Unsent, Typed
    <3>2. QED BY <2>2, <2>12, <3>1 DEF Unsent, SentUnchanged, Typed
  <2>13. CASE Release(l)
    BY <2>2, <2>13 DEF Release, Released, Fault, Typed
  <2>14. CASE Forget(l)
    BY <2>2, <2>14 DEF Forget, Typed
  <2>15. QED
    BY <1>1, <2>5, <2>6, <2>7, <2>8, <2>9, <2>10, <2>11, <2>12, <2>13, <2>14 DEF Step
<1>2. ASSUME NEW f \in Fingerprints, Expire(f) PROVE Typed'
  <2>1. expiries[f] + 1 \in Nat
    <3>1. expiries \in [Fingerprints -> Nat]
      BY DEF Typed, HistoryTyped
    <3>2. QED BY <3>1
  <2>2. expiries' \in [Fingerprints -> Nat]
    BY <1>2, <2>1 DEF Expire, Typed, HistoryTyped
  <2>3. QED
    BY <1>2, <2>2 DEF Expire, path, bounds, Typed, PathTyped, StoreTyped, LineTyped,
                      HistoryTyped, Lines, Passes, Monitors
<1> USE DEF Typed, PathTyped, StoreTyped, LineTyped, HistoryTyped, Lines, Passes, Monitors
<1>3. ASSUME NEW r \in Rules, Close(r) PROVE Typed'
  BY <1>3 DEF Close, path, history, NoIncident
<1>4. CASE ChangeExcludes
  BY <1>4 DEF ChangeExcludes, path, history
<1>5. CASE AllChecked
  BY <1>5 DEF AllChecked, vars, shared, path, history, bounds
<1>6. QED BY <1>1, <1>2, <1>3, <1>4, <1>5 DEF Next

-----------------------------------------------------------------------------
(* Each part of the invariant.                                             *)

LEMMA NextStage ==
  ASSUME Typed, StageInv, Next
  PROVE  StageInv'
<1>1. ASSUME NEW l \in Lines, Step(l)
      PROVE  StageInv'
  <2>1. /\ Lines' = Lines /\ shape' = shape /\ cfg' = cfg
        /\ pc \in [Lines -> Busy \cup {"queued", "done"}]
        /\ asIncident \in [Lines -> BOOLEAN] /\ RuleOf(l) \in Rules \cup {NoRule}
        /\ cfg.dedup \in BOOLEAN
    BY <1>1, StepMoves, LoadFacts, ConfigAssumption
    DEF Lines, Typed, PathTyped, StoreTyped, LineTyped
  <2> USE <2>1 DEF StageInv, At, GoTo, Finish, Continue, RuleOf, Busy, shared, bounds, history
  <2>2. CASE Begin(l)
    BY <2>2 DEF Begin
  <2>3. CASE Check(l)
    BY <2>3 DEF Check
  <2>4. CASE Decide(l)
    BY <2>4 DEF Decide, Unaggregated
  <2>5. CASE Record(l)
    BY <2>5 DEF Record
  <2>6. CASE RecordFails(l)
    BY <2>6 DEF RecordFails, Unaggregated
  <2>7. CASE Allow(l)
    BY <2>7 DEF Allow
  <2>8. CASE Accepted(l)
    BY <2>8 DEF Accepted, SentUnchanged
  <2>9. CASE Unsent(l)
    BY <2>9 DEF Unsent, Sending, AfterError, SentUnchanged
  <2>10. CASE Release(l)
    BY <2>10 DEF Release
  <2>11. CASE Forget(l)
    BY <2>11 DEF Forget
  <2>12. QED
    BY <1>1, <2>2, <2>3, <2>4, <2>5, <2>6, <2>7, <2>8, <2>9, <2>10, <2>11 DEF Step
<1> USE DEF StageInv, Lines, RuleOf
<1>2. ASSUME NEW f \in Fingerprints, Expire(f) PROVE StageInv'
  BY <1>2 DEF Expire, path
<1>3. ASSUME NEW r \in Rules, Close(r) PROVE StageInv'
  BY <1>3 DEF Close, path
<1>4. CASE ChangeExcludes
  BY <1>4 DEF ChangeExcludes, path
<1>5. CASE AllChecked
  BY <1>5 DEF AllChecked, vars, shared, path
<1>6. QED BY <1>1, <1>2, <1>3, <1>4, <1>5 DEF Next

LEMMA MuteMoves ==
  ASSUME Typed, MuteInv, NEW l \in Lines, shape' = shape, snapshot' = snapshot,
         pc[l] # "done",
         \/ \E x \in Busy \ {"check"} : GoTo(l, x) /\ ~Muted(shape[l], snapshot[l])
         \/ \E o \in Results :
              /\ Finish(l, o)
              /\ o = "muted" => Muted(shape[l], snapshot[l])
              /\ o \notin {"unmatched", "muted"} => ~Muted(shape[l], snapshot[l])
  PROVE  MuteInv'
<1>1. Lines' = Lines /\ Monitors' = Monitors
  BY DEF Lines, Monitors
<1>2. \A k \in Lines : Muted(shape[k], snapshot[k])' <=> Muted(shape[k], snapshot[k])
  BY DEF Muted
<1>3. CASE \E x \in Busy \ {"check"} : GoTo(l, x) /\ ~Muted(shape[l], snapshot[l])
  <2>1. PICK x \in Busy \ {"check"} : GoTo(l, x) /\ ~Muted(shape[l], snapshot[l])
    BY <1>3
  <2>2. \A k \in Lines : k # l => pc'[k] = pc[k]
    BY <2>1 DEF GoTo, Typed, PathTyped
  <2>3. outcome' = outcome
    BY <2>1 DEF GoTo
  <2>4. QED BY <1>1, <1>2, <2>1, <2>2, <2>3 DEF MuteInv
<1>4. CASE \E o \in Results :
              /\ Finish(l, o)
              /\ o = "muted" => Muted(shape[l], snapshot[l])
              /\ o \notin {"unmatched", "muted"} => ~Muted(shape[l], snapshot[l])
  <2>1. PICK o \in Results :
              /\ Finish(l, o)
              /\ o = "muted" => Muted(shape[l], snapshot[l])
              /\ o \notin {"unmatched", "muted"} => ~Muted(shape[l], snapshot[l])
    BY <1>4
  <2>2. \A k \in Lines : k # l => pc'[k] = pc[k]
    BY <2>1 DEF Finish, Typed, PathTyped
  <2>3. pc'[l] \notin Busy \ {"check"}
    BY <2>1 DEF Finish, Continue, Busy, Typed, PathTyped
  <2>4. \A k \in Lines, m \in Monitors :
          \/ outcome'[<<k, m>>] = outcome[<<k, m>>]
          \/ k = l /\ outcome'[<<k, m>>] = o
    <3>1. ASSUME NEW k \in Lines, NEW m \in Monitors
          PROVE  \/ outcome'[<<k, m>>] = outcome[<<k, m>>]
                 \/ k = l /\ outcome'[<<k, m>>] = o
      <4>1. <<k, m>> \in Passes
        BY DEF Passes
      <4>2. CASE <<k, m>> = Pass(l)
        BY <2>1, <4>1, <4>2 DEF Finish, Pass, Typed, PathTyped
      <4>3. CASE <<k, m>> # Pass(l)
        BY <2>1, <4>1, <4>3 DEF Finish, Typed, PathTyped
      <4>4. QED BY <4>2, <4>3
    <3>2. QED BY <3>1
  <2>5. QED BY <1>1, <1>2, <2>1, <2>2, <2>3, <2>4 DEF MuteInv
<1>5. QED BY <1>3, <1>4

LEMMA NextMute ==
  ASSUME Typed, MuteInv, Next
  PROVE  MuteInv'
<1>1. ASSUME NEW l \in Lines, Step(l)
      PROVE  MuteInv'
  <2>1. shape' = shape /\ pc[l] # "done"
    BY <1>1, StepMoves
  <2> USE DEF At
  <2>2. CASE Begin(l)
    <3>1. pc[l] = "queued" /\ GoTo(l, "check") /\ monitor[l] = 1
      BY <2>2 DEF Begin, Typed, PathTyped
    <3>2. \A m \in Monitors : outcome[<<l, m>>] = ""
      <4>1. \A m \in Monitors : ~(1 > m)
        BY MonitorAssumption DEF Monitors
      <4>2. QED BY <3>1, <4>1 DEF Typed, PathTyped
    <3>3. \A k \in Lines : k # l => pc'[k] = pc[k] /\ snapshot'[k] = snapshot[k]
      BY <2>2, <3>1 DEF Begin, GoTo, Typed, PathTyped, LineTyped
    <3>4. pc'[l] = "check" /\ outcome' = outcome
      BY <3>1 DEF GoTo, Typed, PathTyped
    <3>5. \A k \in Lines : k # l =>
            (Muted(shape[k], snapshot[k])' <=> Muted(shape[k], snapshot[k]))
      BY <2>1, <3>3 DEF Muted
    <3>6. Lines' = Lines /\ Monitors' = Monitors
      BY <2>1 DEF Lines, Monitors
    <3>7. \A k \in Lines :
            /\ \A m \in Monitors :
                 /\ outcome'[<<k, m>>] = "muted" => Muted(shape[k], snapshot[k])'
                 /\ outcome'[<<k, m>>] \in Results \ {"unmatched", "muted"}
                      => ~Muted(shape[k], snapshot[k])'
            /\ pc'[k] \in Busy \ {"check"} => ~Muted(shape[k], snapshot[k])'
      BY <3>2, <3>3, <3>4, <3>5 DEF MuteInv, Results
    <3>8. QED BY <3>6, <3>7 DEF MuteInv
  <2>3. pc[l] \in Busy \ {"check"} => ~Muted(shape[l], snapshot[l])
    BY DEF MuteInv
  <2> USE DEF Busy, Results
  <2>4. CASE Check(l)
    BY <2>1, <2>4, MuteMoves DEF Check, View
  <2>5. CASE Decide(l)
    BY <2>1, <2>3, <2>5, MuteMoves DEF Decide, Unaggregated
  <2>6. CASE Record(l)
    BY <2>1, <2>3, <2>6, MuteMoves DEF Record
  <2>7. CASE RecordFails(l)
    BY <2>1, <2>3, <2>7, MuteMoves DEF RecordFails, Unaggregated
  <2>8. CASE Allow(l)
    BY <2>1, <2>3, <2>8, MuteMoves DEF Allow
  <2>9. CASE Accepted(l)
    BY <2>1, <2>3, <2>9, MuteMoves DEF Accepted, Sending, SentUnchanged
  <2>10. CASE Unsent(l)
    BY <2>1, <2>3, <2>10, MuteMoves DEF Unsent, Sending, AfterError, SentUnchanged
  <2>11. CASE Release(l)
    BY <2>1, <2>3, <2>11, MuteMoves DEF Release
  <2>12. CASE Forget(l)
    BY <2>1, <2>3, <2>12, MuteMoves DEF Forget
  <2>13. QED
    BY <1>1, <2>2, <2>4, <2>5, <2>6, <2>7, <2>8, <2>9, <2>10, <2>11, <2>12 DEF Step
<1> USE DEF MuteInv, Lines, Monitors, Muted
<1>2. ASSUME NEW f \in Fingerprints, Expire(f) PROVE MuteInv'
  BY <1>2 DEF Expire, path
<1>3. ASSUME NEW r \in Rules, Close(r) PROVE MuteInv'
  BY <1>3 DEF Close, path
<1>4. CASE ChangeExcludes
  BY <1>4 DEF ChangeExcludes, path
<1>5. CASE AllChecked
  BY <1>5 DEF AllChecked, vars, path
<1>6. QED BY <1>1, <1>2, <1>3, <1>4, <1>5 DEF Next

\* A step of one line leaves the passes of the others alone.
LEMMA Elsewhere ==
  ASSUME Typed, NEW l \in Lines, shape' = shape, Goes(l) \/ Ends(l), pc[l] # "done"
  PROVE  /\ Pass(l) \in Passes /\ outcome[Pass(l)] = ""
         /\ \A p \in Passes : p # Pass(l) => outcome'[p] = outcome[p]
         /\ \A k \in Lines : k # l => /\ pc'[k] = pc[k] /\ Pass(k)' = Pass(k)
                                     /\ Pass(k) # Pass(l)
<1>1. monitor[l] \in Monitors
  <2>1. monitor[l] \in 1..(MonitorCount + 1) /\ monitor[l] # MonitorCount + 1
    BY DEF Typed, PathTyped
  <2>2. QED BY <2>1, MonitorAssumption DEF Monitors
<1>2. Pass(l) \in Passes /\ outcome[Pass(l)] = ""
  <2>1. ~(monitor[l] > monitor[l])
    BY <1>1, MonitorAssumption DEF Monitors
  <2>2. QED BY <1>1, <2>1 DEF Pass, Passes, Typed, PathTyped
<1>3. \A p \in Passes : p # Pass(l) => outcome'[p] = outcome[p]
  BY DEF Goes, Ends, GoTo, Finish, Typed, PathTyped
<1>4. \A k \in Lines : k # l => pc'[k] = pc[k] /\ monitor'[k] = monitor[k]
  BY DEF Goes, Ends, GoTo, Finish, Typed, PathTyped
<1>5. QED BY <1>2, <1>3, <1>4 DEF Pass

LEMMA HeldElsewhere ==
  ASSUME Typed, NEW l \in Lines, shape' = shape, Goes(l) \/ Ends(l), pc[l] # "done",
         \A k \in Lines : k # l => asIncident'[k] = asIncident[k],
         NEW p \in Passes, NEW f, Holding(p, f), p # Pass(l)
  PROVE  Holding(p, f)'
<1>1. CASE outcome[p] = "delivered"
  BY <1>1, Elsewhere DEF Holding
<1>2. CASE outcome[p] # "delivered"
  <2>1. PICK k \in Lines : /\ p = Pass(k) /\ pc[k] \in {"primary", "fallback", "forget"}
                          /\ ~asIncident[k] /\ FingerprintOf(k) = f
    BY <1>2 DEF Holding
  <2>2. k # l /\ Lines' = Lines /\ FingerprintOf(k)' = FingerprintOf(k)
    BY <2>1 DEF Lines, FingerprintOf
  <2>3. QED BY <2>1, <2>2, Elsewhere DEF Holding
<1>3. QED BY <1>1, <1>2

\* The pass of the line that takes a step.
LEMMA HeldHere ==
  ASSUME Typed, NEW l \in Lines, pc[l] # "done", shape' = shape, Goes(l) \/ Ends(l),
         NEW f, Holding(Pass(l), f)
  PROVE  /\ pc[l] \in {"primary", "fallback", "forget"}
         /\ ~asIncident[l] /\ FingerprintOf(l) = f
<1>1. outcome[Pass(l)] # "delivered"
  BY Elsewhere
<1>2. PICK k \in Lines : /\ Pass(l) = Pass(k) /\ pc[k] \in {"primary", "fallback", "forget"}
                        /\ ~asIncident[k] /\ FingerprintOf(k) = f
  BY <1>1 DEF Holding
<1>3. k = l
  BY <1>2 DEF Pass
<1>4. QED BY <1>2, <1>3

LEMMA NextHolder ==
  ASSUME Typed, StageInv, HolderInv, Next
  PROVE  HolderInv'
<1>1. ASSUME NEW l \in Lines, Step(l)
      PROVE  HolderInv'
  <2>1. /\ shape' = shape /\ pc[l] # "done" /\ (Goes(l) \/ Ends(l))
        /\ Lines' = Lines /\ Passes' = Passes
    BY <1>1, StepMoves DEF Lines, Passes
  <2>2. \A k \in Lines : k # l => asIncident'[k] = asIncident[k]
    BY <1>1 DEF Step, Begin, Check, Decide, Record, RecordFails, Allow, Accepted, Unsent,
                Release, Forget, SentUnchanged, Typed, LineTyped
  <2>3. ASSUME NEW f \in reserved, holder'[f] = holder[f], f \in reserved'
        PROVE  Held(f)'
    <3>1. PICK p \in Passes : holder[f] = p /\ Holding(p, f)
      BY DEF HolderInv, Held
    <3> SUFFICES Holding(p, f)'
      BY <2>1, <2>3, <3>1 DEF Held
    <3>2. CASE p # Pass(l)
      BY <2>1, <2>2, <3>1, <3>2, HeldElsewhere
    <3>3. CASE p = Pass(l)
      <4>1. /\ pc[l] \in {"primary", "fallback", "forget"}
            /\ ~asIncident[l] /\ FingerprintOf(l) = f /\ cfg.dedup
        BY <2>1, <2>3, <3>1, <3>3, HeldHere DEF StageInv
      <4>2. ~Forget(l)
        BY <2>3, <4>1 DEF Forget
      <4>3. Accepted(l) \/ Unsent(l)
        BY <1>1, <4>1, <4>2 DEF Step, Begin, Check, Decide, Record, RecordFails, Allow, Release, At
      <4>4. CASE Accepted(l)
        <5>1. outcome' = [outcome EXCEPT ![Pass(l)] = "delivered"]
          BY <4>4 DEF Accepted, Finish
        <5>2. outcome'[p] = "delivered"
          BY <2>1, <3>3, <5>1, Elsewhere DEF Typed, PathTyped
        <5>3. QED BY <5>2 DEF Holding
      <4>5. CASE Unsent(l)
        <5>1. pc'[l] \in {"fallback", "forget"} /\ asIncident' = asIncident /\ monitor' = monitor
          BY <4>1, <4>5 DEF Unsent, GoTo, AfterError, SentUnchanged, Typed, PathTyped
        <5>2. Pass(l)' = Pass(l) /\ FingerprintOf(l)' = FingerprintOf(l)
          BY <2>1, <5>1 DEF Pass, FingerprintOf
        <5>3. QED BY <2>1, <3>3, <4>1, <5>1, <5>2 DEF Holding
      <4>6. QED BY <4>3, <4>4, <4>5
    <3>4. QED BY <3>2, <3>3
  <2>5. CASE Allow(l) /\ Free(FingerprintOf(l))
    <3>1. PICK f \in Fingerprints : f = FingerprintOf(l)
      BY LoadFacts DEF Typed, StoreTyped
    <3>2. /\ reserved' = reserved \cup {f} /\ holder' = [holder EXCEPT ![f] = Pass(l)]
          /\ pc' = [pc EXCEPT ![l] = "primary"] /\ monitor' = monitor
          /\ asIncident' = asIncident /\ f \notin reserved /\ ~asIncident[l]
      BY <2>5, <3>1 DEF Allow, GoTo, Free, At, StageInv
    <3>3. holder'[f] = Pass(l) /\ pc'[l] = "primary"
      BY <3>1, <3>2 DEF Typed, PathTyped, HistoryTyped
    <3>4. Pass(l)' = Pass(l) /\ FingerprintOf(l)' = f
      BY <2>1, <3>1, <3>2 DEF Pass, FingerprintOf
    <3>5. Held(f)'
      <4>1. Pass(l) \in Passes
        BY <2>1, Elsewhere
      <4>2. PICK p \in Passes : p = Pass(l)
        BY <4>1
      <4>3. Holding(p, f)'
        BY <2>1, <3>1, <3>2, <3>3, <3>4, <4>2 DEF Holding
      <4>4. QED BY <2>1, <3>3, <4>2, <4>3 DEF Held
    <3>6. ASSUME NEW g \in reserved PROVE Held(g)'
      <4>1. holder'[g] = holder[g] /\ g \in reserved'
        BY <3>2 DEF Typed, HistoryTyped, StoreTyped
      <4>2. QED BY <2>3, <4>1
    <3>7. ASSUME NEW g \in reserved' PROVE Held(g)'
      BY <3>2, <3>5, <3>6
    <3>8. QED BY <3>7 DEF HolderInv
  <2>6. CASE ~(Allow(l) /\ Free(FingerprintOf(l)))
    <3>1. reserved' \subseteq reserved /\ holder' = holder
      <4> USE DEF shared, history
      <4>1. CASE Allow(l)
        BY <2>6, <4>1 DEF Allow
      <4>2. CASE Forget(l)
        BY <4>2 DEF Forget
      <4>3. CASE ~Allow(l) /\ ~Forget(l)
        BY <1>1, <4>3 DEF Step, Begin, Check, Decide, Record, RecordFails, Accepted,
                          Unsent, Release, SentUnchanged
      <4>4. QED BY <4>1, <4>2, <4>3
    <3>2. QED BY <2>3, <3>1 DEF HolderInv
  <2>7. QED BY <2>5, <2>6
<1> USE DEF HolderInv, Held, Holding, Lines, Passes, Monitors, FingerprintOf, Pass
<1>2. ASSUME NEW f \in Fingerprints, Expire(f) PROVE HolderInv'
  BY <1>2 DEF Expire, path
<1>3. ASSUME NEW r \in Rules, Close(r) PROVE HolderInv'
  BY <1>3 DEF Close, path, history
<1>4. CASE ChangeExcludes
  BY <1>4 DEF ChangeExcludes, path, history
<1>5. CASE AllChecked
  BY <1>5 DEF AllChecked, vars, path, shared, history
<1>6. QED BY <1>1, <1>2, <1>3, <1>4, <1>5 DEF Next

LEMMA NextLast ==
  ASSUME Typed, StageInv, LastInv, Next
  PROVE  LastInv'
<1>1. ASSUME NEW l \in Lines, Step(l)
      PROVE  LastInv'
  <2>1. ASSUME pc[l] = "record", RuleOf(l) \in Rules, Claim(l) PROVE LastInv'
    <3> DEFINE r == RuleOf(l)
    <3>1. /\ incident' = [incident EXCEPT ![r] = Recorded(incident[r])]
          /\ incident[r] \in [count : Nat, last : Nat]
      BY <2>1, ClaimType DEF Typed, StoreTyped
    <3>2. PICK i \in [count : Nat, last : Nat] : i = incident[r]
      BY <3>1
    <3>3. Recorded(i).last <= Recorded(i).count
      <4>1. i.last <= i.count
        BY <2>1, <3>2 DEF LastInv
      <4>2. QED BY <4>1, RecordedType
    <3> HIDE DEF r
    <3>4. QED BY <3>1, <3>2, <3>3 DEF LastInv, Typed, StoreTyped
  <2>2. Record(l) \/ RecordFails(l) => pc[l] = "record" /\ RuleOf(l) \in Rules
    BY LoadFacts DEF Record, RecordFails, At, StageInv, Typed, StoreTyped
  <2>3. CASE Record(l)
    BY <2>1, <2>2, <2>3 DEF Record
  <2>4. CASE RecordFails(l)
    BY <2>1, <2>2, <2>4 DEF RecordFails, LastInv
  <2>5. CASE Release(l)
    BY <2>5 DEF Release, Released, LastInv, Typed, StoreTyped
  <2>6. CASE ~Record(l) /\ ~RecordFails(l) /\ ~Release(l)
    BY <1>1, <2>6 DEF Step, Begin, Check, Decide, Allow, Accepted, Unsent, Forget,
                      SentUnchanged, shared, LastInv
  <2>7. QED BY <2>3, <2>4, <2>5, <2>6
<1> USE DEF LastInv
<1>2. ASSUME NEW f \in Fingerprints, Expire(f) PROVE LastInv'
  BY <1>2 DEF Expire
<1>3. ASSUME NEW r \in Rules, Close(r) PROVE LastInv'
  BY <1>3 DEF Close, NoIncident, Typed, StoreTyped
<1>4. CASE ChangeExcludes
  BY <1>4 DEF ChangeExcludes
<1>5. CASE AllChecked
  BY <1>5 DEF AllChecked, vars, shared
<1>6. QED BY <1>1, <1>2, <1>3, <1>4, <1>5 DEF Next

LEMMA ClaimedElsewhere ==
  ASSUME Typed, NEW l \in Lines, shape' = shape, Goes(l) \/ Ends(l), pc[l] # "done",
         \A k \in Lines : k # l => asIncident'[k] = asIncident[k] /\ count'[k] = count[k],
         NEW p \in Passes, NEW r \in Rules, Claiming(p, r), p # Pass(l),
         incident'[r].last = incident[r].last
  PROVE  Claiming(p, r)'
<1>1. CASE outcome[p] = "delivered"
  BY <1>1, Elsewhere DEF Claiming
<1>2. CASE outcome[p] # "delivered"
  <2>1. PICK k \in Lines : /\ p = Pass(k) /\ pc[k] \in {"primary", "fallback", "release"}
                          /\ asIncident[k] /\ RuleOf(k) = r /\ count[k] = incident[r].last
    BY <1>2 DEF Claiming
  <2>2. k # l /\ Lines' = Lines /\ RuleOf(k)' = RuleOf(k)
    BY <2>1 DEF Lines, RuleOf
  <2>3. pc'[k] = pc[k] /\ Pass(k)' = p
    BY <2>1, <2>2, Elsewhere
  <2>4. asIncident'[k] /\ RuleOf(k)' = r /\ count'[k] = incident'[r].last
    BY <2>1, <2>2
  <2>5. QED BY <2>1, <2>2, <2>3, <2>4 DEF Claiming
<1>3. QED BY <1>1, <1>2

LEMMA ClaimedHere ==
  ASSUME Typed, NEW l \in Lines, pc[l] # "done", shape' = shape, Goes(l) \/ Ends(l),
         NEW r, Claiming(Pass(l), r)
  PROVE  /\ pc[l] \in {"primary", "fallback", "release"}
         /\ asIncident[l] /\ RuleOf(l) = r /\ count[l] = incident[r].last
<1>1. outcome[Pass(l)] # "delivered"
  BY Elsewhere
<1>2. PICK k \in Lines : /\ Pass(l) = Pass(k) /\ pc[k] \in {"primary", "fallback", "release"}
                        /\ asIncident[k] /\ RuleOf(k) = r /\ count[k] = incident[r].last
  BY <1>1 DEF Claiming
<1>3. k = l
  BY <1>2 DEF Pass
<1>4. QED BY <1>2, <1>3

LEMMA NextClaim ==
  ASSUME Typed, StageInv, ClaimInv, Next
  PROVE  ClaimInv'
<1>1. ASSUME NEW l \in Lines, Step(l), faults' = 0, NEW r \in Rules, incident'[r].last # 0
      PROVE  Claimed(r)'
  <2>1. /\ shape' = shape /\ pc[l] # "done" /\ (Goes(l) \/ Ends(l))
        /\ Lines' = Lines /\ Passes' = Passes
    BY <1>1, StepMoves DEF Lines, Passes
  <2>2. \A k \in Lines : k # l => asIncident'[k] = asIncident[k] /\ count'[k] = count[k]
    BY <1>1 DEF Step, Begin, Check, Decide, Record, RecordFails, Allow, Accepted, Unsent,
                Release, Forget, SentUnchanged, Typed, LineTyped
  <2>3. faults = 0 /\ ~RecordFails(l)
    BY <1>1 DEF Step, Begin, Check, Decide, Record, RecordFails, Allow, Accepted, Unsent,
                Release, Forget, SentUnchanged, Fault, bounds, Typed, HistoryTyped
  <2>4. ASSUME claimant'[r] = claimant[r], incident'[r].last = incident[r].last,
               pc[l] # "release"
        PROVE  Claimed(r)'
    <3>1. PICK p \in Passes : claimant[r] = p /\ Claiming(p, r)
      BY <1>1, <2>3, <2>4 DEF ClaimInv, Claimed
    <3> SUFFICES Claiming(p, r)'
      BY <2>1, <2>4, <3>1 DEF Claimed
    <3>2. CASE p # Pass(l)
      BY <2>1, <2>2, <2>4, <3>1, <3>2, ClaimedElsewhere
    <3>3. CASE p = Pass(l)
      <4>1. /\ pc[l] \in {"primary", "fallback"}
            /\ asIncident[l] /\ RuleOf(l) = r /\ count[l] = incident[r].last
        BY <2>1, <2>4, <3>1, <3>3, ClaimedHere
      <4>2. Accepted(l) \/ Unsent(l)
        BY <1>1, <4>1 DEF Step, Begin, Check, Decide, Record, RecordFails, Allow, Release,
                          Forget, At
      <4>3. CASE Accepted(l)
        <5>1. outcome' = [outcome EXCEPT ![Pass(l)] = "delivered"]
          BY <4>3 DEF Accepted, Finish
        <5>2. outcome'[p] = "delivered"
          BY <2>1, <3>3, <5>1, Elsewhere DEF Typed, PathTyped
        <5>3. QED BY <5>2 DEF Claiming
      <4>4. CASE Unsent(l)
        <5>1. /\ pc'[l] \in {"fallback", "release"} /\ monitor' = monitor
              /\ asIncident' = asIncident /\ count' = count
          BY <4>1, <4>4 DEF Unsent, GoTo, AfterError, SentUnchanged, Typed, PathTyped
        <5>2. Pass(l)' = Pass(l) /\ RuleOf(l)' = RuleOf(l)
          BY <2>1, <5>1 DEF Pass, RuleOf
        <5>3. count'[l] = incident'[r].last
          BY <2>4, <4>1, <5>1
        <5>4. asIncident'[l] /\ RuleOf(l)' = r /\ p = Pass(l)'
          BY <3>3, <4>1, <5>1, <5>2
        <5>5. QED BY <2>1, <5>1, <5>3, <5>4 DEF Claiming
      <4>5. QED BY <4>2, <4>3, <4>4
    <3>4. QED BY <3>2, <3>3
  <2>5. CASE Record(l)
    <3>1. PICK q \in Rules : q = RuleOf(l)
      BY <2>5, LoadFacts DEF Record, At, StageInv, Typed, StoreTyped
    <3>2. /\ pc[l] = "record"
          /\ incident' = [incident EXCEPT ![q] = Recorded(incident[q])]
          /\ claimant' = [claimant EXCEPT ![q] =
                IF incident'[q].last = incident'[q].count THEN Pass(l) ELSE @]
      BY <2>5, <3>1, ClaimType DEF Record, At
    <3>3. CASE r # q
      <4>1. incident'[r] = incident[r] /\ claimant'[r] = claimant[r]
        BY <3>2, <3>3 DEF Typed, StoreTyped, HistoryTyped
      <4>2. QED BY <2>4, <3>2, <4>1
    <3>4. CASE r = q /\ incident'[r].last = incident'[r].count
      <4>1. claimant'[r] = Pass(l)
        BY <3>2, <3>4 DEF Typed, HistoryTyped
      <4>2. /\ count' = [count EXCEPT ![l] = incident'[r].count]
            /\ asIncident' = [asIncident EXCEPT ![l] = TRUE]
            /\ pc' = [pc EXCEPT ![l] = "primary"] /\ monitor' = monitor
        BY <2>5, <3>1, <3>4, <4>1 DEF Record, GoTo
      <4>3. count'[l] = incident'[r].last /\ asIncident'[l] /\ pc'[l] = "primary"
        BY <3>4, <4>2 DEF Typed, PathTyped, LineTyped
      <4>4. Pass(l)' = Pass(l) /\ RuleOf(l)' = r
        BY <2>1, <3>1, <3>4, <4>2 DEF Pass, RuleOf
      <4>5. PICK p \in Passes : p = Pass(l)
        BY <2>1, Elsewhere
      <4>6. Claiming(p, r)'
        BY <2>1, <4>3, <4>4, <4>5 DEF Claiming
      <4>7. QED BY <2>1, <4>1, <4>5, <4>6 DEF Claimed
    <3>5. CASE r = q /\ incident'[r].last # incident'[r].count
      <4>1. PICK i \in [count : Nat, last : Nat] : i = incident[r]
        BY DEF Typed, StoreTyped
      <4>2. incident'[r] = Recorded(i)
        BY <3>2, <3>5, <4>1 DEF Typed, StoreTyped
      <4>3. incident'[r].last = incident[r].last
        BY <3>5, <4>1, <4>2, RecordedType
      <4>4. claimant'[r] = claimant[r]
        BY <3>2, <3>5 DEF Typed, HistoryTyped
      <4>5. QED BY <2>4, <3>2, <4>3, <4>4
    <3>6. QED BY <3>3, <3>4, <3>5
  <2>6. CASE Release(l)
    <3>1. /\ claimant' = claimant
          /\ incident' = [incident EXCEPT ![RuleOf(l)] =
                             Released(incident[RuleOf(l)], count[l])]
      BY <2>3, <1>1, <2>6 DEF Release, Fault, history, Typed, HistoryTyped
    <3>2. /\ incident'[r].last = incident[r].last
          /\ ~(r = RuleOf(l) /\ count[l] = incident[r].last)
      <4>1. CASE r = RuleOf(l)
        <5>1. incident'[r] = Released(incident[r], count[l])
          BY <3>1, <4>1 DEF Typed, StoreTyped
        <5>2. incident[r] \in [count : Nat, last : Nat]
          BY DEF Typed, StoreTyped
        <5>3. QED BY <1>1, <5>1, <5>2 DEF Released
      <4>2. CASE r # RuleOf(l)
        BY <3>1, <4>2 DEF Typed, StoreTyped
      <4>3. QED BY <4>1, <4>2
    <3>3. PICK p \in Passes : claimant[r] = p /\ Claiming(p, r)
      BY <1>1, <2>3, <3>2 DEF ClaimInv, Claimed
    <3>4. p # Pass(l)
      BY <2>1, <3>2, <3>3, ClaimedHere
    <3>5. Claiming(p, r)'
      BY <2>1, <2>2, <3>2, <3>3, <3>4, ClaimedElsewhere
    <3>6. QED BY <2>1, <3>1, <3>3, <3>5 DEF Claimed
  <2>7. CASE ~Record(l) /\ ~Release(l)
    <3>1. incident' = incident /\ claimant' = claimant /\ pc[l] # "release"
      BY <1>1, <2>3, <2>7 DEF Step, Begin, Check, Decide, Allow, Accepted, Unsent, Forget,
                              Sending, At, SentUnchanged, shared, history
    <3>2. QED BY <2>4, <3>1
  <2>8. QED BY <2>5, <2>6, <2>7
<1> USE DEF ClaimInv, Claimed, Claiming, Lines, Passes, Monitors, RuleOf, Pass
<1>2. ASSUME NEW f \in Fingerprints, Expire(f) PROVE ClaimInv'
  BY <1>2 DEF Expire, path, bounds
<1>3. ASSUME NEW r \in Rules, Close(r) PROVE ClaimInv'
  BY <1>3 DEF Close, path, history, NoIncident, Typed, StoreTyped
<1>4. CASE ChangeExcludes
  BY <1>4 DEF ChangeExcludes, path, history
<1>5. CASE AllChecked
  BY <1>5 DEF AllChecked, vars, path, shared, history, bounds
<1>6. QED BY <1>1, <1>2, <1>3, <1>4, <1>5 DEF Next

\* A step of l may change whether l owes an alert, and no other line.
LEMMA OwingMoves ==
  ASSUME Typed, NEW l \in Lines, shape' = shape, Goes(l) \/ Ends(l), pc[l] # "done",
         \A k \in Lines : k # l => asIncident'[k] = asIncident[k], NEW f
  PROVE  \E n \in Nat :
           /\ Cardinality(Owing(f)) = n + IF l \in Owing(f) THEN 1 ELSE 0
           /\ Cardinality(Owing(f)') = n + IF l \in Owing(f)' THEN 1 ELSE 0
<1>1. Lines' = Lines /\ IsFiniteSet(Lines)
  BY LoadFacts DEF Lines, Typed, StoreTyped
<1>2. Owing(f) \ {l} = Owing(f)' \ {l}
  BY <1>1, Elsewhere DEF Owing, FingerprintOf
<1>3. IsFiniteSet(Owing(f)) /\ IsFiniteSet(Owing(f)')
  <2>1. Owing(f) \subseteq Lines /\ Owing(f)' \subseteq Lines
    BY <1>1 DEF Owing
  <2>2. QED BY <1>1, <2>1, FS_Subset
<1>4. ASSUME NEW S, IsFiniteSet(S)
      PROVE  Cardinality(S) = Cardinality(S \ {l}) + IF l \in S THEN 1 ELSE 0
  <2>1. Cardinality(S) \in Nat
    BY <1>4, FS_CardinalityType
  <2>2. Cardinality(S \ {l}) = IF l \in S THEN Cardinality(S) - 1 ELSE Cardinality(S)
    BY <1>4, FS_RemoveElement
  <2>3. QED BY <2>1, <2>2
<1>5. Cardinality(Owing(f) \ {l}) \in Nat
  BY <1>3, FS_Subset, FS_CardinalityType
<1>6. QED BY <1>2, <1>3, <1>4, <1>5

LEMMA NextAlerts ==
  ASSUME Typed, StageInv, AlertsInv, Next
  PROVE  AlertsInv'
<1>1. ASSUME NEW l \in Lines, Step(l), cfg'.dedup, NEW f \in Fingerprints
      PROVE  copies'[f] + Cardinality(Owing(f)') + Reservable(f)'
               <= 1 + unanswered'[f] + expiries'[f]
  <2>1. /\ shape' = shape /\ cfg' = cfg /\ pc[l] # "done" /\ (Goes(l) \/ Ends(l))
        /\ Lines' = Lines /\ FingerprintOf(l)' = FingerprintOf(l)
    BY <1>1, StepMoves DEF Lines, FingerprintOf
  <2>2. \A k \in Lines : k # l => asIncident'[k] = asIncident[k]
    BY <1>1 DEF Step, Begin, Check, Decide, Record, RecordFails, Allow, Accepted, Unsent,
                Release, Forget, SentUnchanged, Typed, LineTyped
  <2>3. PICK n \in Nat :
           /\ Cardinality(Owing(f)) = n + IF l \in Owing(f) THEN 1 ELSE 0
           /\ Cardinality(Owing(f)') = n + IF l \in Owing(f)' THEN 1 ELSE 0
    BY <2>1, <2>2, OwingMoves
  <2>4. /\ copies[f] \in Nat /\ unanswered[f] \in Nat /\ expiries[f] \in Nat
        /\ Reservable(f) \in {0, 1} /\ Reservable(f)' \in {0, 1}
    BY DEF Typed, HistoryTyped, Reservable
  <2>5. copies[f] + Cardinality(Owing(f)) + Reservable(f) <= 1 + unanswered[f] + expiries[f]
    BY <1>1, <2>1 DEF AlertsInv
  <2>6. CASE Allow(l) /\ Free(FingerprintOf(l))
    <3>1. UNCHANGED <<copies, unanswered, expiries>>
      BY <2>6 DEF Allow
    <3>2. CASE f = FingerprintOf(l)
      <4>1. l \notin Owing(f) /\ Reservable(f) = 1 /\ Reservable(f)' = 0
        BY <2>6, <3>2 DEF Allow, At, Owing, Reservable, Free
      <4>2. QED BY <2>3, <2>4, <2>5, <3>1, <4>1
    <3>3. CASE f # FingerprintOf(l)
      <4>1. l \notin Owing(f) /\ l \notin Owing(f)' /\ Reservable(f)' = Reservable(f)
        BY <2>1, <2>6, <3>3 DEF Allow, Owing, Reservable, Free
      <4>2. QED BY <2>3, <2>4, <2>5, <3>1, <4>1
    <3>4. QED BY <3>2, <3>3
  <2>7. CASE Accepted(l)
    <3>1. /\ UNCHANGED <<unanswered, expiries>> /\ Reservable(f)' = Reservable(f)
          /\ copies' = Count(copies, l) /\ pc[l] \in {"primary", "fallback"}
      BY <2>7 DEF Accepted, SentUnchanged, shared, Reservable, Sending
    <3>2. l \notin Owing(f)'
      BY <2>7 DEF Accepted, Finish, Continue, Owing, Typed, PathTyped
    <3>3. copies'[f] = copies[f] + IF l \in Owing(f) THEN 1 ELSE 0
      BY <3>1 DEF Count, Owing, Typed, HistoryTyped
    <3>4. QED BY <2>3, <2>4, <2>5, <3>1, <3>2, <3>3
  <2>8. CASE Unsent(l)
    <3>1. /\ UNCHANGED expiries /\ Reservable(f)' = Reservable(f)
          /\ asIncident' = asIncident
      BY <2>8 DEF Unsent, SentUnchanged, shared, Reservable
    <3>2. l \in Owing(f)' <=> l \in Owing(f)
      BY <2>1, <2>8, <3>1 DEF Unsent, Sending, GoTo, AfterError, Owing, Typed, PathTyped
    <3>3. \/ copies'[f] = copies[f] /\ unanswered'[f] = unanswered[f]
          \/ copies'[f] = copies[f] + 1 /\ unanswered'[f] = unanswered[f] + 1
      BY <2>8 DEF Unsent, Count, Typed, HistoryTyped
    <3>4. QED BY <2>3, <2>4, <2>5, <3>1, <3>2, <3>3
  <2>9. CASE Forget(l)
    <3>1. UNCHANGED <<copies, unanswered, expiries>>
      BY <2>9 DEF Forget, history
    <3>2. l \notin Owing(f)'
      BY <2>9 DEF Forget, Finish, Continue, Owing, Typed, PathTyped
    <3>3. CASE f = FingerprintOf(l)
      <4>1. l \in Owing(f)
        BY <2>9, <3>3 DEF Forget, At, Owing, StageInv
      <4>2. QED BY <2>3, <2>4, <2>5, <3>1, <3>2, <4>1
    <3>4. CASE f # FingerprintOf(l)
      <4>1. l \notin Owing(f) /\ Reservable(f)' = Reservable(f)
        BY <2>9, <3>4 DEF Forget, Owing, Reservable
      <4>2. QED BY <2>3, <2>4, <2>5, <3>1, <3>2, <4>1
    <3>5. QED BY <3>3, <3>4
  <2>10. CASE ~(Allow(l) /\ Free(FingerprintOf(l))) /\ ~Accepted(l) /\ ~Unsent(l) /\ ~Forget(l)
    <3>1. UNCHANGED <<copies, unanswered, expiries>> /\ Reservable(f)' = Reservable(f)
      BY <1>1, <2>10 DEF Step, Begin, Check, Decide, Record, RecordFails, Allow, Release,
                         shared, history, Reservable
    <3>2. l \notin Owing(f)'
      <4> USE <2>1 DEF Owing, GoTo, Finish, Continue, Typed, PathTyped, LineTyped
      <4>1. CASE Begin(l) \/ Check(l) \/ Decide(l)
        <5>1. \E p \in {"check", "decide", "record", "reserve", "done"} : pc' = [pc EXCEPT ![l] = p]
          <6>1. Unaggregated = "reserve"
            BY <1>1, <2>1 DEF Unaggregated
          <6>2. CASE Begin(l)
            BY <6>2 DEF Begin
          <6>3. CASE Check(l)
            BY <6>3 DEF Check
          <6>4. CASE Decide(l)
            BY <6>1, <6>4 DEF Decide
          <6>5. QED BY <4>1, <6>2, <6>3, <6>4
        <5>2. pc \in [Lines -> Busy \cup {"queued", "done"}]
          OBVIOUS
        <5>3. pc'[l] \notin {"primary", "fallback", "forget"}
          BY <5>1, <5>2
        <5>4. QED BY <5>3
      <4>2. CASE Record(l)
        BY <4>2 DEF Record
      <4>3. CASE RecordFails(l) \/ Release(l)
        BY <1>1, <4>3 DEF RecordFails, Release, Unaggregated
      <4>4. CASE Allow(l)
        BY <2>10, <4>4 DEF Allow
      <4>5. QED BY <1>1, <2>10, <4>1, <4>2, <4>3, <4>4 DEF Step
    <3>3. QED BY <2>3, <2>4, <2>5, <3>1, <3>2
  <2>11. QED BY <2>6, <2>7, <2>8, <2>9, <2>10
<1>2. ASSUME NEW g \in Fingerprints, Expire(g), cfg'.dedup, NEW f \in Fingerprints
      PROVE  copies'[f] + Cardinality(Owing(f)') + Reservable(f)'
               <= 1 + unanswered'[f] + expiries'[f]
  <2>1. /\ UNCHANGED <<cfg, copies, unanswered>> /\ Owing(f)' = Owing(f)
    BY <1>2 DEF Expire, path, Owing, Lines, FingerprintOf
  <2>2. /\ copies[f] \in Nat /\ unanswered[f] \in Nat /\ expiries[f] \in Nat
        /\ Reservable(f) \in {0, 1} /\ Reservable(f)' \in {0, 1}
    BY DEF Typed, HistoryTyped, Reservable
  <2>3. \/ f = g /\ Reservable(f) = 0 /\ expiries'[f] = expiries[f] + 1
        \/ f # g /\ Reservable(f)' = Reservable(f) /\ expiries'[f] = expiries[f]
    BY <1>2 DEF Expire, Reservable, Typed, HistoryTyped
  <2>4. Cardinality(Owing(f)) \in Nat
    <3>1. IsFiniteSet(Lines) /\ Owing(f) \subseteq Lines
      BY LoadFacts DEF Owing, Typed, StoreTyped
    <3>2. QED BY <3>1, FS_Subset, FS_CardinalityType
  <2>5. copies[f] + Cardinality(Owing(f)) + Reservable(f) <= 1 + unanswered[f] + expiries[f]
    BY <1>2, <2>1 DEF AlertsInv
  <2>6. QED BY <2>1, <2>2, <2>3, <2>4, <2>5
<1>3. (\E r \in Rules : Close(r)) \/ ChangeExcludes \/ AllChecked => AlertsInv'
  <2>1. ASSUME UNCHANGED <<cfg, shape, reserved, pc, asIncident, copies, unanswered, expiries>>
        PROVE  AlertsInv'
    <3>1. \A f \in Fingerprints : Owing(f)' = Owing(f) /\ Reservable(f)' = Reservable(f)
      BY <2>1 DEF Owing, Reservable, Lines, FingerprintOf
    <3>2. QED BY <2>1, <3>1 DEF AlertsInv
  <2>2. QED BY <2>1 DEF Close, ChangeExcludes, AllChecked, vars, path, history, shared
<1>4. QED BY <1>1, <1>2, <1>3 DEF Next, AlertsInv

\* A structured rule needs a field of the object for each of its conditions,
\* one that does not contradict it.
LEMMA MatchIsEvidence ==
  ASSUME NEW s, s.parsed, MatchesJSONExclude(s.process, s.object)
  PROVE  Evidence(s)
<1>1. PICK c \in Compiled(JSONConfigs) : s.process \in c.process /\ MatchesJSONFields(s.object, c)
  BY DEF MatchesJSONExclude
<1>2. c \in JSONConfigs /\ (DOMAIN c.booleanFields) \cup c.emptyArrayFields # {}
  BY DEF Compiled
<1>3. ASSUME NEW n \in (DOMAIN c.booleanFields) \cup c.emptyArrayFields
      PROVE  s.object[n] # "missing"
  BY <1>1 DEF MatchesJSONFields
<1>4. ASSUME NEW n \in DOMAIN c.booleanFields
      PROVE  s.object[n] # IF c.booleanFields[n] THEN "false" ELSE "true"
  BY <1>1 DEF MatchesJSONFields
<1>5. ASSUME NEW n \in c.emptyArrayFields PROVE s.object[n] \notin {"null", "filled"}
  BY <1>1 DEF MatchesJSONFields
<1>6. QED BY <1>1, <1>2, <1>3, <1>4, <1>5 DEF Evidence, MatchesJSONExclude

LEMMA NextNoise ==
  ASSUME Typed, NoiseNeedsEvidence, Next
  PROVE  NoiseNeedsEvidence'
<1> DEFINE Shown(p) == \/ p[2] \in shape[p[1]].excludedBy
                       \/ shape[p[1]].process \in ProcessExcludes
                       \/ shape[p[1]].noise \/ Evidence(shape[p[1]])
<1>1. ASSUME UNCHANGED shape, NEW p \in Passes PROVE Shown(p)' <=> Shown(p)
  BY <1>1 DEF Evidence
<1>2. UNCHANGED shape => Passes' = Passes
  BY DEF Passes, Lines, Monitors
<1>3. ASSUME NEW l \in Lines, Step(l) PROVE NoiseNeedsEvidence'
  <2>1. shape' = shape /\ pc[l] # "done" /\ (Goes(l) \/ Ends(l))
    BY <1>3, StepMoves
  <2>2. ASSUME outcome'[Pass(l)] = "excluded" PROVE Shown(Pass(l))
    <3>1. Check(l)
      <4>1. Ends(l)
        BY <2>1, <2>2, Elsewhere DEF Goes, GoTo
      <4>2. \A o : Finish(l, o) => o = "excluded"
        BY <2>1, <2>2, Elsewhere DEF Finish, Typed, PathTyped
      <4>3. QED
        BY <1>3, <2>1, <2>2, <4>2, Elsewhere
        DEF Step, Begin, Decide, Record, RecordFails, Allow, Accepted, Unsent, Release,
            Forget, GoTo
    <3>2. \/ shape[l].parsed /\ Noise(shape[l])
          \/ monitor[l] \in shape[l].excludedBy
      BY <2>1, <2>2, <3>1, Elsewhere DEF Check, Finish, GoTo, Typed, PathTyped
    <3>3. QED BY <3>2, MatchIsEvidence DEF Noise, Pass
  <2>3. \A p \in Passes : outcome'[p] = "excluded" => Shown(p)
    BY <2>1, <2>2, Elsewhere DEF NoiseNeedsEvidence
  <2>4. QED BY <1>1, <1>2, <2>1, <2>3 DEF NoiseNeedsEvidence
<1>4. ASSUME UNCHANGED <<shape, outcome>> PROVE NoiseNeedsEvidence'
  BY <1>1, <1>2, <1>4 DEF NoiseNeedsEvidence
<1>5. QED
  BY <1>3, <1>4 DEF Next, Expire, Close, ChangeExcludes, AllChecked, vars, path

-----------------------------------------------------------------------------
(* The theorems.                                                           *)

LEMMA NextIInv == IInv /\ [Next]_vars => IInv'
<1>1. ASSUME IInv, Next PROVE IInv'
  BY <1>1, NextTyped, NextStage, NextMute, NextHolder, NextLast, NextClaim, NextAlerts,
            NextNoise DEF IInv
<1>2. ASSUME IInv, UNCHANGED vars PROVE IInv'
  <2> USE <1>2 DEF vars, shared, path, history, bounds, Lines, Passes, Monitors,
                   FingerprintOf, RuleOf, Pass, IInv
  <2>1. Typed'
    BY DEF Typed, PathTyped, StoreTyped, LineTyped, HistoryTyped
  <2>2. StageInv'
    BY DEF StageInv
  <2>3. MuteInv'
    BY DEF MuteInv, Muted
  <2>4. HolderInv'
    BY DEF HolderInv, Held, Holding
  <2>5. LastInv' /\ ClaimInv'
    BY DEF LastInv, ClaimInv, Claimed, Claiming
  <2>6. AlertsInv'
    BY DEF AlertsInv, Owing, Reservable
  <2>7. NoiseNeedsEvidence'
    BY DEF NoiseNeedsEvidence, Evidence
  <2>8. QED BY <2>1, <2>2, <2>3, <2>4, <2>5, <2>6, <2>7
<1>3. QED BY <1>1, <1>2

THEOREM Invariance == Spec => []IInv
BY InitIInv, NextIInv, PTL DEF Spec

\* Every reachable state of the engine is well typed; a line is done when it went
\* through every monitor, and a pass has an outcome as soon as it is over.
THEOREM TypeCorrect == Spec => []TypeOK
<1>1. IInv => TypeOK
  <2> SUFFICES ASSUME IInv PROVE TypeOK
    OBVIOUS
  <2>1. ASSUME NEW p \in Passes PROVE outcome[p] # "" <=> monitor[p[1]] > p[2]
    <3>1. PICK l \in Lines, m \in Monitors : p = <<l, m>>
      BY DEF Passes
    <3>2. outcome[<<l, m>>] # "" <=> monitor[l] > m
      BY DEF IInv, Typed, PathTyped
    <3>3. p[1] = l /\ p[2] = m
      BY <3>1
    <3>4. QED BY <3>1, <3>2, <3>3
  <2>2. QED BY <2>1 DEF TypeOK, At, IInv, Typed, PathTyped, StoreTyped
<1>2. QED BY <1>1, Invariance, PTL

\* A line is muted for all of its monitors or for none: checkLine takes the
\* excludes once, before its loop.
THEOREM OneMuteForAll == Spec => []MutedForAllOrNone
<1>1. IInv => MutedForAllOrNone
  BY DEF IInv, Typed, PathTyped, MuteInv, MutedForAllOrNone, Results, Passes
<1>2. QED BY <1>1, Invariance, PTL

\* A structured rule drops a record only when the object has the fields it names.
THEOREM NoiseIsShown == Spec => []NoiseNeedsEvidence
<1>1. IInv => NoiseNeedsEvidence
  BY DEF IInv
<1>2. QED BY <1>1, Invariance, PTL

\* An alert is sent again for a lost answer or an ended cooldown only.
THEOREM DuplicatesAreExplained == Spec => []DuplicatesExplained
<1>1. IInv => DuplicatesExplained
  <2> SUFFICES ASSUME IInv, cfg.dedup, NEW f \in Fingerprints
               PROVE  copies[f] <= 1 + unanswered[f] + expiries[f]
    BY DEF DuplicatesExplained
  <2>1. Cardinality(Owing(f)) \in Nat
    <3>1. IsFiniteSet(Lines) /\ Owing(f) \subseteq Lines
      BY LoadFacts DEF Owing, IInv, Typed, StoreTyped
    <3>2. QED BY <3>1, FS_Subset, FS_CardinalityType
  <2>2. /\ copies[f] \in Nat /\ unanswered[f] \in Nat /\ expiries[f] \in Nat
        /\ Reservable(f) \in {0, 1}
    BY DEF IInv, Typed, HistoryTyped, Reservable
  <2>3. copies[f] + Cardinality(Owing(f)) + Reservable(f) <= 1 + unanswered[f] + expiries[f]
    BY DEF IInv, AlertsInv
  <2>4. QED BY <2>1, <2>2, <2>3
<1>2. QED BY <1>1, Invariance, PTL

\* What suppresses alerts stands for one that was delivered or is under way.
THEOREM NothingIsSwallowed == Spec => []NothingSwallowed
<1>1. ASSUME IInv, NEW l \in Lines, pc[l] \in Busy
      PROVE  Standing(Pass(l))
  <2>1. monitor[l] \in Monitors
    <3>1. monitor[l] \in 1..(MonitorCount + 1) /\ monitor[l] # MonitorCount + 1
      BY <1>1 DEF Busy, IInv, Typed, PathTyped
    <3>2. QED BY <3>1, MonitorAssumption DEF Monitors
  <2>2. ~(monitor[l] > monitor[l])
    BY <2>1, MonitorAssumption DEF Monitors
  <2>3. outcome[Pass(l)] = ""
    BY <1>1, <2>1, <2>2 DEF Pass, IInv, Typed, PathTyped
  <2>4. Pass(l) # Nobody
    BY DEF Pass, Nobody
  <2>5. QED BY <2>3, <2>4 DEF Standing
<1>2. ASSUME NEW p \in Passes, outcome[p] = "delivered" PROVE Standing(p)
  BY <1>2 DEF Standing, Passes, Nobody
<1>3. ASSUME IInv, NEW f \in reserved PROVE Standing(holder[f])
  BY <1>1, <1>2, <1>3 DEF Busy, IInv, HolderInv, Held, Holding
<1>4. ASSUME IInv, faults = 0, NEW r \in Rules, incident[r].last # 0
      PROVE  Standing(claimant[r])
  BY <1>1, <1>2, <1>4 DEF Busy, IInv, ClaimInv, Claimed, Claiming
<1>5. IInv => NothingSwallowed
  BY <1>3, <1>4 DEF NothingSwallowed
<1>6. QED BY <1>5, Invariance, PTL
=============================================================================
