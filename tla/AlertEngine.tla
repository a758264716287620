---------------------------- MODULE AlertEngine ----------------------------
(***************************************************************************)
(* The alert engine (checkLine in src/main.go with src/json_excludes.go    *)
(* and src/notifier.go): every line goes through every monitor, and each   *)
(* monitor that matches it decides, aggregates or deduplicates, and sends. *)
(* Here the parts meet: the excludes, reservations and incidents are       *)
(* shared by all workers, and one line may pass several monitors.          *)
(*                                                                         *)
(* The store answers deduplication at once (AlertDedup has its failures);  *)
(* calls of Record and Release may fail.  A pass <<l, m>> is a line going  *)
(* through a monitor.                                                      *)
(***************************************************************************)
EXTENDS Naturals, FiniteSets

CONSTANTS MonitorCount,      \* monitors are numbered in the order of their names
          Loads,             \* the lines of a behaviour, and what each looks like
          Excludes,          \* dynamic excludes: an exclude type and a value
          Fingerprints, Rules, NoRule,
          Processes, NoProcess, ProcessExcludes,
          Fields, JSONConfigs,
          NotAnObject,       \* text that is malformed JSON, null or no JSON object
          ReminderEvery,
          Configs,           \* is deduplication enabled, is there a fallback URL
          MaxFaults, MaxExpiries, MaxCloses, MaxChanges      \* bounds

Monitors == 1..MonitorCount

ASSUME MonitorAssumption == MonitorCount \in Nat \ {0}
ASSUME ReminderAssumption == ReminderEvery \in Nat \ {0}
ASSUME ConfigAssumption == Configs \subseteq [dedup : BOOLEAN, fallback : BOOLEAN]
ASSUME BoundAssumption == {MaxFaults, MaxExpiries, MaxCloses, MaxChanges} \subseteq Nat

-----------------------------------------------------------------------------
(* What excludes a line.                                                   *)

\* A JSON object tells of each field what json.Unmarshal makes of its value.
Objects == [Fields -> {"missing", "null", "true", "false", "empty", "filled", "other"}]

Shape == [matches : SUBSET Monitors, excludedBy : SUBSET Monitors,
          parsed : BOOLEAN,
          carries : SUBSET Excludes,  \* whose value the field of their type contains,
                                      \* or the line when it was not parsed
          process : Processes \cup {NoProcess}, object : Objects \cup {NotAnObject},
          noise : BOOLEAN,            \* the snapd and ansible records
          fingerprint : Fingerprints, rule : Rules \cup {NoRule}]

ASSUME LoadAssumption ==
  \A load \in Loads : IsFiniteSet(DOMAIN load) /\ load \in [DOMAIN load -> Shape]

\* A rule without a process or without a condition is skipped.
CompiledUnchecked(configs) == configs        \* fault: every rule is taken
Compiled(configs) ==
  {c \in configs : c.process # {} /\ (DOMAIN c.booleanFields) \cup c.emptyArrayFields # {}}

\* null decodes into a bool without an error and leaves it false.
MatchesJSONFields(o, c) ==
  /\ \A n \in DOMAIN c.booleanFields :
       o[n] \in IF c.booleanFields[n] THEN {"true"} ELSE {"false", "null"}
  /\ \A n \in c.emptyArrayFields : o[n] = "empty"

MatchesJSONExclude(process, o) ==
  /\ process # NoProcess /\ o # NotAnObject
  /\ \E c \in Compiled(JSONConfigs) : process \in c.process /\ MatchesJSONFields(o, c)

Noise(s) == \/ s.process \in ProcessExcludes
            \/ s.noise \/ MatchesJSONExclude(s.process, s.object)

\* An exclude of any type looks at its field; of a line that was not parsed only
\* text excludes are tried.
Muted(s, excludes) ==
  \E x \in excludes \cap s.carries : s.parsed \/ x.type = "text"

-----------------------------------------------------------------------------
VARIABLES
  cfg, shape,
  excludes,          \* the local dynamic excludes
  reserved,          \* fingerprints whose cooldown runs
  incident,          \* each rule's count and last_notified_count
  pc,                \* each line: "queued", "check", "decide", "record", "reserve",
                     \* "primary", "fallback", "release", "forget", "done"
  monitor,           \* the monitor a line is at
  snapshot, asIncident, count,
  outcome,           \* what became of each pass
  holder, claimant,  \* history: the pass behind a reservation or a reminder
  copies, unanswered,     \* history: alerts received, and those never acknowledged
  expiries,          \* history: cooldowns that ended
  faults, closes, changes

Lines == DOMAIN shape
Passes == Lines \X Monitors

shared == <<excludes, reserved, incident>>
path == <<pc, monitor, snapshot, asIncident, count, outcome>>
history == <<holder, claimant, copies, unanswered, expiries>>
bounds == <<faults, closes, changes>>
vars == <<cfg, shape, shared, path, history, bounds>>

Nobody == <<>>
NoIncident == [count |-> 0, last |-> 0]

Init ==
  /\ cfg \in Configs
  /\ shape \in Loads
  /\ excludes \in {{}, Excludes}
  /\ reserved = {}
  /\ incident = [r \in Rules |-> NoIncident]
  /\ pc = [l \in Lines |-> "queued"]
  /\ monitor = [l \in Lines |-> 1]
  /\ snapshot = [l \in Lines |-> {}]
  /\ asIncident = [l \in Lines |-> FALSE]
  /\ count = [l \in Lines |-> 0]
  /\ outcome = [p \in Passes |-> ""]
  /\ holder = [f \in Fingerprints |-> Nobody]
  /\ claimant = [r \in Rules |-> Nobody]
  /\ copies = [f \in Fingerprints |-> 0]
  /\ unanswered = [f \in Fingerprints |-> 0]
  /\ expiries = [f \in Fingerprints |-> 0]
  /\ faults = 0 /\ closes = 0 /\ changes = 0

Pass(l) == <<l, monitor[l]>>
FingerprintOf(l) == shape[l].fingerprint
RuleOf(l) == shape[l].rule

At(l, p) == pc[l] = p
GoTo(l, p) == pc' = [pc EXCEPT ![l] = p] /\ UNCHANGED <<monitor, outcome>>

Continue(l) == IF monitor[l] < MonitorCount THEN "check" ELSE "done"

\* The pass ends; the loop goes on with the next monitor.
Finish(l, o) ==
  /\ outcome' = [outcome EXCEPT ![Pass(l)] = o]
  /\ monitor' = [monitor EXCEPT ![l] = @ + 1]
  /\ pc' = [pc EXCEPT ![l] = Continue(l)]

-----------------------------------------------------------------------------
(* checkLine.                                                              *)

Begin(l) ==
  /\ At(l, "queued")
  /\ snapshot' = [snapshot EXCEPT ![l] = excludes]
  /\ GoTo(l, "check")
  /\ UNCHANGED <<cfg, shape, shared, asIncident, count, history, bounds>>

ViewNow(l) == excludes                       \* fault: each monitor looks again
View(l) == snapshot[l]

Check(l) ==
  LET s == shape[l] IN
  /\ At(l, "check")
  /\ IF monitor[l] \notin s.matches THEN Finish(l, "unmatched")
     ELSE IF Muted(s, View(l)) THEN Finish(l, "muted")
     ELSE IF (s.parsed /\ Noise(s)) \/ monitor[l] \in s.excludedBy THEN Finish(l, "excluded")
     ELSE GoTo(l, "decide")
  /\ UNCHANGED <<cfg, shape, shared, snapshot, asIncident, count, history, bounds>>

Unaggregated == IF cfg.dedup THEN "reserve" ELSE "primary"

\* DecisionCache says what GetOrEvaluate may return.
Decide(l) ==
  /\ At(l, "decide")
  /\ \/ Finish(l, "denied")
     \/ GoTo(l, IF RuleOf(l) # NoRule THEN "record" ELSE Unaggregated)
  /\ asIncident' = [asIncident EXCEPT ![l] = FALSE]
  /\ UNCHANGED <<cfg, shape, shared, snapshot, count, history, bounds>>

Due(i) == i.last = 0 \/ i.count - i.last >= ReminderEvery
Recorded(i) == LET j == [i EXCEPT !.count = @ + 1]
               IN IF Due(j) THEN [j EXCEPT !.last = j.count] ELSE j

Claim(l) ==
  LET r == RuleOf(l) IN
  /\ incident' = [incident EXCEPT ![r] = Recorded(@)]
  /\ claimant' = [claimant EXCEPT ![r] =
                    IF incident'[r].last = incident'[r].count THEN Pass(l) ELSE @]

Record(l) ==
  /\ At(l, "record")
  /\ Claim(l)
  /\ IF claimant'[RuleOf(l)] = Pass(l)
     THEN /\ count' = [count EXCEPT ![l] = incident'[RuleOf(l)].count]
          /\ asIncident' = [asIncident EXCEPT ![l] = TRUE]
          /\ GoTo(l, "primary")
     ELSE Finish(l, "aggregated") /\ UNCHANGED <<count, asIncident>>
  /\ UNCHANGED <<cfg, shape, excludes, reserved, snapshot, holder, copies,
                 unanswered, expiries, bounds>>

Fault == faults < MaxFaults /\ faults' = faults + 1 /\ UNCHANGED <<closes, changes>>

\* The script failed, or ran and its reply was lost: a normal alert instead.
RecordFails(l) ==
  /\ At(l, "record")
  /\ Fault
  /\ Claim(l) \/ UNCHANGED <<incident, claimant>>
  /\ GoTo(l, Unaggregated)
  /\ UNCHANGED <<cfg, shape, excludes, reserved, snapshot, asIncident, count,
                 holder, copies, unanswered, expiries>>

FreeAlways(f) == TRUE                        \* fault: Allow does not look
Free(f) == f \notin reserved

Allow(l) ==
  LET f == FingerprintOf(l) IN
  /\ At(l, "reserve")
  /\ IF Free(f)
     THEN /\ reserved' = reserved \cup {f}
          /\ holder' = [holder EXCEPT ![f] = Pass(l)]
          /\ GoTo(l, "primary")
     ELSE Finish(l, "suppressed") /\ UNCHANGED <<reserved, holder>>
  /\ UNCHANGED <<cfg, shape, excludes, incident, snapshot, asIncident, count,
                 claimant, copies, unanswered, expiries, bounds>>

-----------------------------------------------------------------------------
(* notificationClient.Send.                                                *)

Count(h, l) == IF asIncident[l] THEN h
               ELSE [h EXCEPT ![FingerprintOf(l)] = @ + 1]

Sending(l) == pc[l] \in {"primary", "fallback"}

SentUnchanged == UNCHANGED <<cfg, shape, shared, snapshot, asIncident, count,
                             holder, claimant, expiries, bounds>>

Accepted(l) ==
  /\ Sending(l)
  /\ copies' = Count(copies, l)
  /\ Finish(l, "delivered")
  /\ UNCHANGED unanswered /\ SentUnchanged

AfterError(l) == IF At(l, "primary") /\ cfg.fallback THEN "fallback"
                 ELSE IF asIncident[l] THEN "release" ELSE "forget"

\* An error, or an answer other than 2xx; or the receiver took the message and its
\* answer was lost or came after the client's timeout.
Unsent(l) ==
  /\ Sending(l)
  /\ GoTo(l, AfterError(l))
  /\ \/ UNCHANGED <<copies, unanswered>>
     \/ /\ copies' = Count(copies, l)
        /\ unanswered' = Count(unanswered, l)
  /\ SentUnchanged

\* The release of a count that is no longer the last one does nothing.
ReleasedNever(i, c) == i                     \* fault
Released(i, c) == IF i.last = c THEN [i EXCEPT !.last = 0] ELSE i

Release(l) ==
  /\ At(l, "release")
  /\ \/ /\ incident' = [incident EXCEPT ![RuleOf(l)] = Released(@, count[l])]
        /\ UNCHANGED bounds
     \/ Fault /\ UNCHANGED incident
  /\ Finish(l, "failed")
  /\ UNCHANGED <<cfg, shape, excludes, reserved, snapshot, asIncident, count, history>>

Forget(l) ==
  /\ At(l, "forget")
  /\ reserved' = IF cfg.dedup THEN reserved \ {FingerprintOf(l)} ELSE reserved
  /\ Finish(l, "failed")
  /\ UNCHANGED <<cfg, shape, excludes, incident, snapshot, asIncident, count, history, bounds>>

-----------------------------------------------------------------------------
(* The environment.                                                        *)

\* The cooldown ends, while its alert is under way too: a decision may set it to
\* seconds, and a notification may take twenty.
Expire(f) ==
  /\ f \in reserved /\ expiries[f] < MaxExpiries
  /\ reserved' = reserved \ {f}
  /\ expiries' = [expiries EXCEPT ![f] = @ + 1]
  /\ UNCHANGED <<cfg, shape, excludes, incident, path, holder, claimant, copies,
                 unanswered, bounds>>

\* A sweeper closes a quiet incident.
Close(r) ==
  /\ incident[r].count > 0 /\ closes < MaxCloses
  /\ incident' = [incident EXCEPT ![r] = NoIncident]
  /\ closes' = closes + 1
  /\ UNCHANGED <<cfg, shape, excludes, reserved, path, history, faults, changes>>

\* A handler or the refresher changes the local excludes.
ChangeExcludes ==
  /\ changes < MaxChanges
  /\ \E x \in SUBSET Excludes : x # excludes /\ excludes' = x
  /\ changes' = changes + 1
  /\ UNCHANGED <<cfg, shape, reserved, incident, path, history, faults, closes>>

Step(l) == \/ Begin(l) \/ Check(l) \/ Decide(l) \/ Record(l) \/ RecordFails(l)
           \/ Allow(l) \/ Accepted(l) \/ Unsent(l) \/ Release(l) \/ Forget(l)

AllChecked == (\A l \in Lines : At(l, "done")) /\ UNCHANGED vars

Next == \/ \E l \in Lines : Step(l)
        \/ \E f \in Fingerprints : Expire(f)
        \/ \E r \in Rules : Close(r)
        \/ ChangeExcludes \/ AllChecked

Spec == Init /\ [][Next]_vars

-----------------------------------------------------------------------------
(* Properties.                                                             *)

\* The type of the engine's state; a line that is done went through every monitor.
TypeOK ==
  /\ cfg \in Configs /\ shape \in Loads
  /\ excludes \subseteq Excludes /\ reserved \subseteq Fingerprints
  /\ incident \in [Rules -> [count : Nat, last : Nat]]
  /\ \A l \in Lines : /\ monitor[l] \in 1..(MonitorCount + 1)
                      /\ At(l, "done") <=> monitor[l] = MonitorCount + 1
  /\ \A p \in Passes : outcome[p] # "" <=> monitor[p[1]] > p[2]

\* A line is muted for all of its monitors or for none, whatever is muted or
\* unmuted while it is checked.
MutedForAllOrNone ==
  \A l \in Lines : \A m, n \in Monitors :
    outcome[<<l, m>>] = "muted" =>
      outcome[<<l, n>>] \in {"", "unmatched", "muted"}

\* A structured rule drops a record on evidence only: each of its conditions names
\* a field the object has and that does not say the opposite, a null is no array,
\* and there is a condition.
Evidence(s) ==
  /\ s.parsed /\ s.object # NotAnObject
  /\ \E c \in JSONConfigs :
       LET named == (DOMAIN c.booleanFields) \cup c.emptyArrayFields IN
       /\ s.process \in c.process /\ named # {}
       /\ \A n \in named : s.object[n] # "missing"
       /\ \A n \in DOMAIN c.booleanFields :
            s.object[n] # IF c.booleanFields[n] THEN "false" ELSE "true"
       /\ \A n \in c.emptyArrayFields : s.object[n] \notin {"null", "filled"}

NoiseNeedsEvidence ==
  \A p \in Passes :
    LET s == shape[p[1]] IN
    outcome[p] = "excluded" => \/ p[2] \in s.excludedBy \/ s.process \in ProcessExcludes
                               \/ s.noise \/ Evidence(s)

\* With deduplication the receivers get one alert of a fingerprint, and one more
\* for each answer that was lost and for each cooldown that ended; a line that
\* several monitors match is one alert, and a failed delivery adds none.
DuplicatesExplained ==
  cfg.dedup => \A f \in Fingerprints : copies[f] <= 1 + unanswered[f] + expiries[f]

Standing(p) == p # Nobody /\ outcome[p] \in {"", "delivered"}

\* What suppresses alerts stands for a notification: a reservation for one that was
\* delivered or is under way, and so does the claim of an incident as long as no
\* call of the store failed.  After a failed delivery the next event is sent.
NothingSwallowed ==
  /\ \A f \in reserved : Standing(holder[f])
  /\ faults = 0 => \A r \in Rules : incident[r].last # 0 => Standing(claimant[r])
=============================================================================
