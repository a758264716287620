------------------------------ MODULE Incidents ------------------------------
(***************************************************************************)
(* Incident aggregation (src/incident.go, the scripts in                   *)
(* src/keydb/keydb.go) as the alert engine uses it (src/main.go,           *)
(* checkLine).  Workers record matching lines in the store and send the    *)
(* first and every ReminderEvery-th of an incident; a sweeper on the       *)
(* replica that holds the VIP closes quiet incidents into an outbox and    *)
(* publishes it.                                                           *)
(*                                                                         *)
(* A script is one step of the store.  A call whose reply is lost may have *)
(* been executed or not; the client of the store repeats it, or the caller *)
(* gets an error.  Time is one clock in ticks, 0 is "never".  The sample,  *)
(* the title and the time of the first event are only formatted and are    *)
(* left out.                                                               *)
(***************************************************************************)
EXTENDS Integers, Sequences, FiniteSets, SequencesExt

CONSTANTS Replicas, Names, Events,
          NameOf,          \* the rule each event matches
          HostOf, ProcessOf,  \* parsed["host"], parsed["process"], "" if absent
          Quiet, ReminderEvery, SweepEvery,
          OutboxMax, BatchSize,
          VIPHolder,       \* the replica that holds the VIP first, or NoReplica
          MaxDelay,        \* the longest time from time.Now() to the script
          MaxSweep,        \* the longest time a sweep takes
          MaxMoves, MaxFaults, MaxTime   \* bounds

NoReplica == "none"

ASSUME EventAssumption == NameOf \in [Events -> Names]
ASSUME ParameterAssumption ==
  {Quiet, ReminderEvery, SweepEvery, OutboxMax, BatchSize} \subseteq Nat \ {0}
ASSUME BoundAssumption ==
  {MaxDelay, MaxSweep, MaxMoves, MaxFaults, MaxTime} \subseteq Nat
ASSUME VIPAssumption == VIPHolder \in Replicas \cup {NoReplica}

VARIABLES
  now,
  hash,       \* incident:v1:<name>, its TTL, and (history) which incident it is
  active,     \* incident:v1:active: the score of each name, 0 if absent
  outbox,     \* incident:v1:recovery-outbox
  pc, observed, count,       \* each event, and what Record returned
  sweep,      \* each sweeper: pc, nextSweep, cutoff, due, batch, delivered
  vip,
  incident,   \* history: the incident an event was counted in
  opened,     \* history: incidents of each name so far
  closed, sent, trimmed, expired,  \* history: sets of incidents
  lostClaims,  \* history: incidents whose claim to notify nobody answers for
  shifted,     \* history: sweepers whose outbox has another head than they read
  overtrimmed, \* history: incidents such a sweeper took from it unsent
  faults, moves

events == <<pc, observed, count, incident, lostClaims>>
store == <<hash, active, outbox, opened, expired>>
outcome == <<closed, sent, trimmed, shifted, overtrimmed>>
vars == <<now, events, store, sweep, vip, outcome, faults, moves>>

Absent == [id |-> 0, count |-> 0, last |-> 0, notified |-> 0, expireAt |-> 0,
           hosts |-> {}, processes |-> {}]
IdleSweep == [pc |-> "idle", next |-> SweepEvery, cutoff |-> 0, due |-> {},
              batch |-> << >>, delivered |-> 0, started |-> 0]

Init ==
  /\ now = 1
  /\ hash = [n \in Names |-> Absent]
  /\ active = [n \in Names |-> 0]
  /\ outbox = << >>
  /\ pc = [e \in Events |-> "new"]
  /\ observed = [e \in Events |-> 0]
  /\ count = [e \in Events |-> 0]
  /\ incident = [e \in Events |-> << >>]
  /\ sweep = [r \in Replicas |-> IdleSweep]
  /\ vip = VIPHolder
  /\ opened = [n \in Names |-> 0]
  /\ closed = {} /\ sent = {} /\ trimmed = {} /\ expired = {}
  /\ lostClaims = {} /\ shifted = {} /\ overtrimmed = {}
  /\ faults = 0 /\ moves = 0

Present(n) == hash[n].count # 0
GoTo(e, p) == pc' = [pc EXCEPT ![e] = p]
\* A call of the environment fails, or the client has lost its reply.
Fault == faults < MaxFaults /\ faults' = faults + 1

-----------------------------------------------------------------------------
(* Workers: Record, Send, Release.                                         *)

\* Record reads the clock before it calls the store.
Observe(e) ==
  /\ pc[e] = "new"
  /\ observed' = [observed EXCEPT ![e] = now]
  /\ GoTo(e, "recording")
  /\ UNCHANGED <<now, store, count, incident, lostClaims, sweep, vip, outcome, faults, moves>>

Notify(i) == i.notified = 0 \/ i.count - i.notified >= ReminderEvery

Labels(label) == {label} \ {""}

\* recordIncidentScript up to its decision to notify.
Counted(e) ==
  LET i == hash[NameOf[e]] IN
  [i EXCEPT !.id = IF Present(NameOf[e]) THEN @ ELSE opened[NameOf[e]] + 1,
            !.count = @ + 1,
            !.last = observed[e],
            !.expireAt = now + 4 * Quiet,
            !.hosts = @ \cup Labels(HostOf[e]),
            !.processes = @ \cup Labels(ProcessOf[e])]

ScoreOfFirst(e) ==                           \* fault: only the first event is scored
  IF Present(NameOf[e]) THEN active[NameOf[e]] ELSE observed[e]
Score(e) == observed[e]

RecordScript(e) ==
  LET n == NameOf[e]
      i == Counted(e)
  IN /\ hash' = [hash EXCEPT ![n] =
                   IF Notify(i) THEN [i EXCEPT !.notified = i.count] ELSE i]
     /\ active' = [active EXCEPT ![n] = Score(e)]
     /\ opened' = [opened EXCEPT ![n] = i.id]
     /\ incident' = [incident EXCEPT ![e] = <<n, i.id>>]
     /\ UNCHANGED <<outbox, expired>>

Record(e) ==
  /\ pc[e] = "recording"
  /\ RecordScript(e)
  /\ count' = [count EXCEPT ![e] = Counted(e).count]
  /\ lostClaims' = IF Notify(Counted(e)) THEN lostClaims \ {incident'[e]} ELSE lostClaims
  /\ GoTo(e, IF Notify(Counted(e)) THEN "sending" ELSE "aggregated")
  /\ UNCHANGED <<now, observed, sweep, vip, outcome, faults, moves>>

\* The reply is lost, the script executed or not, and with it a claim to
\* notify: the client repeats the call, or the line becomes a normal alert.
RecordFails(e) ==
  /\ pc[e] = "recording"
  /\ Fault
  /\ \/ /\ RecordScript(e)
        /\ lostClaims' = IF Notify(Counted(e)) THEN lostClaims \cup {incident'[e]}
                                               ELSE lostClaims
     \/ UNCHANGED <<store, incident, lostClaims>>
  /\ \E p \in {"recording", "fallback"} : GoTo(e, p)
  /\ UNCHANGED <<now, observed, count, sweep, vip, outcome, moves>>

Sent(e) ==
  /\ pc[e] = "sending"
  /\ GoTo(e, "sent")
  /\ UNCHANGED <<now, store, observed, count, incident, lostClaims, sweep, vip, outcome,
                 faults, moves>>

SendFails(e) ==
  /\ pc[e] = "sending"
  /\ GoTo(e, "releasing")
  /\ UNCHANGED <<now, store, observed, count, incident, lostClaims, sweep, vip, outcome,
                 faults, moves>>

ReleasedNone(n, c) == hash[n]                \* fault: the failed notification is kept
\* releaseIncidentNotificationScript: compares the count, not the incident.
\* (HSET on an absent key never happens: count is positive.)
Released(n, c) ==
  IF hash[n].notified = c THEN [hash[n] EXCEPT !.notified = 0] ELSE hash[n]

\* Release only logs an error: a release that was not executed leaves the claim.
Release(e) ==
  /\ pc[e] = "releasing"
  /\ \/ /\ hash' = [hash EXCEPT ![NameOf[e]] = Released(NameOf[e], count[e])]
        /\ \/ GoTo(e, "failed") /\ UNCHANGED faults
           \/ Fault /\ \E p \in {"releasing", "failed"} : GoTo(e, p)
        /\ UNCHANGED lostClaims
     \/ /\ Fault
        /\ GoTo(e, "failed")
        /\ lostClaims' = lostClaims \cup {incident[e]}
        /\ UNCHANGED hash
  /\ UNCHANGED <<now, active, outbox, opened, expired, observed, count, incident,
                 sweep, vip, outcome, moves>>

-----------------------------------------------------------------------------
(* The sweeper.                                                            *)

Sweep(r, next) == sweep' = [sweep EXCEPT ![r] = next]
HasVIPNever(r) == FALSE                      \* fault: compares the address with its mask
HasVIP(r) == vip = r

\* The ticker fires; the sweep goes on to its end even if the VIP moves away.
StartSweep(r) ==
  /\ sweep[r].pc = "idle" /\ sweep[r].next <= now
  /\ HasVIP(r)
  /\ Sweep(r, [sweep[r] EXCEPT !.pc = "scanning", !.next = now + SweepEvery,
                               !.cutoff = now - Quiet, !.started = now])
  /\ UNCHANGED <<now, store, events, vip, outcome, faults, moves>>

\* The VIP is elsewhere, or hasVIP cannot list the addresses and answers false.
SkipSweep(r) ==
  /\ sweep[r].pc = "idle" /\ sweep[r].next <= now
  /\ \/ ~HasVIP(r) /\ UNCHANGED faults
     \/ HasVIP(r) /\ Fault
  /\ Sweep(r, [sweep[r] EXCEPT !.next = now + SweepEvery])
  /\ UNCHANGED <<now, store, events, vip, outcome, moves>>

\* DueIncidents; an error ends closeQuiet.
Scan(r) ==
  /\ sweep[r].pc = "scanning"
  /\ \/ /\ Sweep(r, [sweep[r] EXCEPT !.pc = "closing",
                       !.due = {n \in Names : active[n] # 0 /\ active[n] <= sweep[r].cutoff}])
        /\ UNCHANGED faults
     \/ /\ Fault
        /\ Sweep(r, [sweep[r] EXCEPT !.pc = "closing", !.due = {}])
  /\ UNCHANGED <<now, store, events, vip, outcome, moves>>

StillQuietUnchecked(n, cutoff) == Present(n)  \* fault: trusts the scan
StillQuiet(n, cutoff) == Present(n) /\ hash[n].last <= cutoff

\* cjson encodes an empty Lua table as an object, which does not decode into
\* the []string of incidentRecovery.
Item(n) == [id |-> <<n, hash[n].id>>,
            readable |-> hash[n].hosts # {} /\ hash[n].processes # {}]

Newest(s, k) == IF Len(s) <= k THEN s ELSE SubSeq(s, Len(s) - k + 1, Len(s))
Ids(s) == {i.id : i \in ToSet(s)}

\* closeIncidentScript.
CloseScript(n, cutoff) ==
  IF StillQuiet(n, cutoff)
  THEN /\ outbox' = Newest(Append(outbox, Item(n)), OutboxMax)
       /\ hash' = [hash EXCEPT ![n] = Absent]
       /\ active' = [active EXCEPT ![n] = 0]
       /\ closed' = closed \cup {Item(n).id}
       /\ trimmed' = trimmed \cup (Ids(Append(outbox, Item(n))) \ Ids(outbox'))
       /\ shifted' = IF Len(outbox) < OutboxMax THEN shifted ELSE Replicas
       /\ UNCHANGED <<opened, expired>>
  ELSE UNCHANGED <<store, closed, trimmed, shifted>>

\* CloseIncidentToOutbox of one of the due names, repeated by the client or
\* not; an error is only logged.
Close(r) ==
  /\ sweep[r].pc = "closing"
  /\ \E n \in sweep[r].due :
       \/ /\ CloseScript(n, sweep[r].cutoff) /\ UNCHANGED faults
          /\ Sweep(r, [sweep[r] EXCEPT !.due = @ \ {n}])
       \/ /\ Fault
          /\ \/ CloseScript(n, sweep[r].cutoff)
             \/ UNCHANGED <<store, closed, trimmed, shifted>>
          /\ \E due \in {sweep[r].due, sweep[r].due \ {n}} :
               Sweep(r, [sweep[r] EXCEPT !.due = due])
  /\ UNCHANGED <<now, events, vip, sent, overtrimmed, moves>>

Idle(s) == [s EXCEPT !.pc = "idle", !.batch = << >>, !.delivered = 0,
                     !.cutoff = 0, !.due = {}, !.started = 0]

\* publishRecoveries: the oldest items are read and stay in the outbox.
Peek(r) ==
  /\ sweep[r].pc = "closing" /\ sweep[r].due = {}
  /\ \/ /\ outbox # << >>
        /\ Sweep(r, [sweep[r] EXCEPT !.pc = "publishing",
                       !.batch = SubSeq(outbox, 1, IF Len(outbox) < BatchSize
                                                   THEN Len(outbox) ELSE BatchSize)])
        /\ UNCHANGED faults
     \/ outbox = << >> /\ Sweep(r, Idle(sweep[r])) /\ UNCHANGED faults
     \/ Fault /\ Sweep(r, Idle(sweep[r]))
  /\ shifted' = shifted \ {r}
  /\ UNCHANGED <<now, store, events, vip, closed, sent, trimmed, overtrimmed, moves>>

AtEnd(s) == s.delivered = Len(s.batch)
NextItem(s) == s.batch[s.delivered + 1]

SendQuiet(r) ==
  /\ sweep[r].pc = "publishing" /\ ~AtEnd(sweep[r])
  /\ NextItem(sweep[r]).readable
  /\ sent' = sent \cup {NextItem(sweep[r]).id}
  /\ Sweep(r, [sweep[r] EXCEPT !.delivered = @ + 1])
  /\ UNCHANGED <<now, store, events, vip, closed, trimmed, shifted, overtrimmed, faults, moves>>

SkipUnreadable(r) ==
  /\ sweep[r].pc = "publishing" /\ ~AtEnd(sweep[r])
  /\ ~NextItem(sweep[r]).readable
  /\ Sweep(r, [sweep[r] EXCEPT !.delivered = @ + 1])
  /\ UNCHANGED <<now, store, events, vip, outcome, faults, moves>>

DeliveredAfterFailureAll(s) == Len(s.batch)  \* fault: the whole batch is dropped
DeliveredAfterFailure(s) == s.delivered

\* The notifier fails: the rest of the batch waits for the next sweep.
SendQuietFails(r) ==
  /\ sweep[r].pc = "publishing" /\ ~AtEnd(sweep[r])
  /\ NextItem(sweep[r]).readable
  /\ Sweep(r, [sweep[r] EXCEPT !.pc = "dropping",
                               !.delivered = DeliveredAfterFailure(sweep[r])])
  /\ UNCHANGED <<now, store, events, vip, outcome, faults, moves>>

\* LTRIM: as many items as the sweep delivered leave the head of the outbox,
\* whichever they are by now.
Trim(r) ==
  /\ outbox' = SubSeq(outbox, sweep[r].delivered + 1, Len(outbox))
  /\ overtrimmed' = IF r \in shifted THEN overtrimmed \cup (Ids(outbox) \ (Ids(outbox') \cup sent))
                                     ELSE overtrimmed
  /\ shifted' = Replicas

\* DropQueue, called only for a batch of which something was delivered.  The
\* client repeats a trim whose reply is lost, executed or not.
Drop(r) ==
  /\ \/ sweep[r].pc = "publishing" /\ AtEnd(sweep[r])
     \/ sweep[r].pc = "dropping"
  /\ \/ /\ sweep[r].delivered = 0
        /\ Sweep(r, Idle(sweep[r]))
        /\ UNCHANGED <<outbox, shifted, overtrimmed, faults>>
     \/ /\ sweep[r].delivered # 0
        /\ Trim(r)
        /\ Sweep(r, Idle(sweep[r]))
        /\ UNCHANGED faults
     \/ /\ sweep[r].delivered # 0
        /\ Fault
        /\ Trim(r) \/ UNCHANGED <<outbox, shifted, overtrimmed>>
        /\ \E next \in {Idle(sweep[r]), sweep[r]} : Sweep(r, next)
  /\ UNCHANGED <<now, hash, active, opened, expired, events, vip, closed, sent, trimmed, moves>>

-----------------------------------------------------------------------------
(* The environment.                                                        *)

MoveVIP ==
  /\ moves < MaxMoves /\ moves' = moves + 1
  /\ vip # NoReplica
  /\ vip' \in Replicas \ {vip}
  /\ UNCHANGED <<now, store, events, sweep, outcome, faults>>

\* Time passes: the store drops hashes whose TTL ran out, not their scores.
\* A call to the store, a sweep and the ticker keep to their delays.
Tick ==
  /\ now < MaxTime
  /\ \A e \in Events : pc[e] = "recording" => now < observed[e] + MaxDelay
  /\ \A r \in Replicas : IF sweep[r].pc = "idle" THEN now < sweep[r].next
                                                 ELSE now < sweep[r].started + MaxSweep
  /\ now' = now + 1
  /\ LET gone == {n \in Names : Present(n) /\ hash[n].expireAt <= now'}
     IN /\ hash' = [n \in Names |-> IF n \in gone THEN Absent ELSE hash[n]]
        /\ expired' = expired \cup {<<n, hash[n].id>> : n \in gone}
  /\ UNCHANGED <<active, outbox, opened, events, sweep, vip, outcome, faults, moves>>

Work(e) == \/ Observe(e) \/ Record(e) \/ RecordFails(e)
           \/ Sent(e) \/ SendFails(e) \/ Release(e)

SweepStep(r) == \/ StartSweep(r) \/ SkipSweep(r) \/ Scan(r) \/ Close(r) \/ Peek(r)
                \/ SendQuiet(r) \/ SkipUnreadable(r) \/ SendQuietFails(r) \/ Drop(r)

\* Every event was handled, the sweepers are idle and no more time is modelled.
Finished ==
  /\ now = MaxTime
  /\ \A e \in Events : pc[e] \in {"aggregated", "fallback", "sent", "failed"}
  /\ \A r \in Replicas : sweep[r].pc = "idle" /\ sweep[r].next > now
  /\ UNCHANGED vars

Next == \/ Finished \/ Tick \/ MoveVIP
        \/ \E e \in Events : Work(e)
        \/ \E r \in Replicas : SweepStep(r)

Spec == Init /\ [][Next]_vars

-----------------------------------------------------------------------------
(* Properties.                                                             *)

IncidentIds == Names \X (Nat \ {0})

\* The type of the aggregator's state: the outbox never outgrows its bound, and
\* the score the sweeper scans is the time of the last event recorded, so that a
\* scan finds every recorded incident; only an expired hash leaves a score.
TypeOK ==
  /\ now \in Nat /\ faults \in 0..MaxFaults /\ moves \in 0..MaxMoves
  /\ \A n \in Names :
       /\ hash[n].count \in Nat /\ hash[n].notified \in 0..hash[n].count
       /\ hash[n].hosts \cap {""} = {} /\ hash[n].processes \cap {""} = {}
  /\ \A n \in Names :
       IF Present(n) THEN active[n] = hash[n].last
                     ELSE active[n] # 0 => \E k \in 1..opened[n] : <<n, k>> \in expired
  /\ \A i \in 1..Len(outbox) : outbox[i].id \in IncidentIds
  /\ Len(outbox) <= OutboxMax
  /\ pc \in [Events -> {"new", "recording", "aggregated", "fallback", "sending",
                        "sent", "releasing", "failed"}]
  /\ \A r \in Replicas : sweep[r].pc \in
       {"idle", "scanning", "closing", "publishing", "dropping"}
  /\ closed \cup sent \cup trimmed \cup overtrimmed \cup expired \subseteq IncidentIds
  /\ shifted \subseteq Replicas /\ lostClaims \subseteq IncidentIds

\* An event is aggregated silently only while the notification of an event of
\* the same incident, less than ReminderEvery counted events before it, was sent
\* or has not been released: unless a reply that was lost, or a release that
\* failed, left the standing claim to notify to nobody.
AggregatedBehindNotification ==
  [][\A e \in Events : /\ pc[e] # "aggregated" /\ pc'[e] = "aggregated"
                       /\ incident'[e] \notin lostClaims
       => \E f \in Events : /\ incident'[f] = incident'[e]
                            /\ pc[f] \in {"sending", "sent", "releasing"}
                            /\ count'[e] - count[f] \in 1..(ReminderEvery - 1)]_vars

\* An incident is closed only when no event of it was observed for Quiet, up to
\* the time a record takes to reach the store.
ClosedOnlyWhenQuiet ==
  [][\A e \in Events :
       incident[e] \in closed' \ closed => observed[e] + Quiet <= now + MaxDelay]_vars

\* What the documentation calls a durable outbox: a closed incident is
\* announced, waits in the outbox or was pushed out of it by its bound.
OutboxDurable == closed \subseteq sent \cup trimmed \cup Ids(outbox)

\* What the code keeps of it: a quiet notification leaves the outbox unsent only
\* through the trim of a sweeper under which the head of the outbox has moved
\* since it read it, by another sweeper or by its own trim executed before; while
\* the VIP stays and no call fails, none does.
QuietNoticeKept ==
  /\ closed \subseteq sent \cup trimmed \cup Ids(outbox) \cup overtrimmed
  /\ faults = 0 /\ moves = 0 => overtrimmed = {}

\* No incident ends by the TTL of its hash instead of a quiet notification.
NoIncidentForgotten == expired = {}
=============================================================================
