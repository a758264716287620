--------------------------- MODULE IncidentsProofs ---------------------------
(***************************************************************************)
(* What TLAPS proves of Incidents, for every set of replicas, names and    *)
(* events, every setting and every bound.                                  *)
(***************************************************************************)
EXTENDS Incidents, SequenceTheorems, TLAPS

-----------------------------------------------------------------------------
(* The types.                                                              *)

Hosts == {HostOf[e] : e \in Events} \ {""}
Processes == {ProcessOf[e] : e \in Events} \ {""}

Hash == [id : Nat, count : Nat, last : Nat, notified : Nat, expireAt : Nat,
         hosts : SUBSET Hosts, processes : SUBSET Processes]

Items == [id : IncidentIds, readable : BOOLEAN]

SweepState == [pc : {"idle", "scanning", "closing", "publishing", "dropping"},
               next : Nat, cutoff : Int, due : SUBSET Names, batch : Seq(Items),
               delivered : Nat, started : Nat]

ClockTypes == now \in Nat \ {0} /\ faults \in 0..MaxFaults /\ moves \in 0..MaxMoves

EventTypes ==
  /\ pc \in [Events -> {"new", "recording", "aggregated", "fallback", "sending",
                        "sent", "releasing", "failed"}]
  /\ observed \in [Events -> Nat] /\ count \in [Events -> Nat]
  /\ incident \in [Events -> IncidentIds \cup {<< >>}] /\ lostClaims \subseteq IncidentIds

StoreTypes ==
  /\ hash \in [Names -> Hash] /\ active \in [Names -> Nat] /\ opened \in [Names -> Nat]
  /\ outbox \in Seq(Items) /\ Len(outbox) <= OutboxMax

SweepTypes == sweep \in [Replicas -> SweepState] /\ vip \in Replicas \cup {NoReplica}

HistoryTypes ==
  /\ closed \cup sent \cup trimmed \cup overtrimmed \cup expired \subseteq IncidentIds
  /\ shifted \subseteq Replicas

Types == ClockTypes /\ EventTypes /\ StoreTypes /\ SweepTypes /\ HistoryTypes

-----------------------------------------------------------------------------
(* The store and the events it has counted.                                *)

\* An event is counted when its record is executed, in an incident of its name; a
\* worker that has an answer knows a count that is not 0.
EventInv ==
  \A e \in Events :
    /\ pc[e] = "new" => incident[e] = << >>
    /\ incident[e] # << >> => incident[e][1] = NameOf[e]
    /\ pc[e] \in {"aggregated", "sending", "sent", "releasing", "failed"} =>
         count[e] # 0 /\ incident[e] # << >>

\* A hash is absent as a whole; one that is present is the last incident opened,
\* scored with the time of its last event, and was notified of no event it has not
\* counted.  A score outlives its hash only by expiry.
HashInv ==
  \A n \in Names :
    /\ IF Present(n)
       THEN /\ hash[n].id = opened[n] /\ opened[n] # 0
            /\ active[n] = hash[n].last /\ active[n] # 0
       ELSE /\ hash[n] = Absent
            /\ active[n] # 0 => \E k \in 1..opened[n] : <<n, k>> \in expired
    /\ hash[n].notified <= hash[n].count

\* The clocks: nothing was observed in the future, a record reaches the store
\* within MaxDelay, and a sweep looks Quiet back from when it started.
ClockInv ==
  /\ \A e \in Events :
       /\ observed[e] <= now
       /\ pc[e] # "new" => observed[e] # 0
       /\ pc[e] = "recording" => now <= observed[e] + MaxDelay
  /\ \A r \in Replicas : sweep[r].pc # "idle" =>
       /\ sweep[r].started <= now /\ sweep[r].started # 0
       /\ sweep[r].cutoff = sweep[r].started - Quiet

\* A sweep has delivered no more than its batch, and nothing before it publishes.
SweepInv ==
  \A r \in Replicas :
    /\ sweep[r].delivered <= Len(sweep[r].batch)
    /\ sweep[r].pc \in {"idle", "scanning", "closing"} => sweep[r].delivered = 0

IInv == Types /\ EventInv /\ HashInv /\ ClockInv /\ SweepInv

\* No event of an open incident was observed much later than its last one.
LastInv ==
  \A e \in Events, n \in Names :
    Present(n) /\ incident[e] = <<n, hash[n].id>> => observed[e] <= hash[n].last + MaxDelay

Notifying == {"sending", "sent", "releasing"}

\* The notification an open incident relies on is that of one of its events, which
\* has not been released, unless a lost reply or a failed release left the claim to
\* nobody.
NotifiedInv ==
  \A n \in Names :
    Present(n) /\ hash[n].notified # 0 /\ <<n, hash[n].id>> \notin lostClaims =>
      \E f \in Events : /\ incident[f] = <<n, hash[n].id>> /\ count[f] = hash[n].notified
                        /\ pc[f] \in Notifying

\* Every event parsed: it has a host and a process.
Labelled == \A e \in Events : HostOf[e] # "" /\ ProcessOf[e] # ""

\* While the VIP has never moved only its first holder sweeps.
OneSweeper ==
  moves = 0 => /\ vip = VIPHolder
               /\ \A r \in Replicas : sweep[r].pc # "idle" => r = VIPHolder

\* Every incident could be read once it is closed.
LabelledHashes ==
  \A n \in Names : Present(n) => hash[n].hosts # {} /\ hash[n].processes # {}

\* What a sweep holds is still the head of the outbox, and what it counts as
\* delivered was sent.
HoldsHead(s) ==
  /\ Len(s.batch) <= Len(outbox)
  /\ \A i \in 1..Len(s.batch) : s.batch[i] = outbox[i]
  /\ \A i \in 1..s.delivered : outbox[i].id \in sent

Holding(r) == sweep[r].pc \in {"publishing", "dropping"}

\* A sweep holds the head of the outbox until the head moves, and a closed incident
\* leaves the outbox unsent only through its bound or the trim of a sweep under
\* which the head has moved.
Outbox ==
  /\ \A i \in 1..Len(outbox) : outbox[i].readable
  /\ \A r \in Replicas : Holding(r) /\ r \notin shifted => HoldsHead(sweep[r])
  /\ closed \subseteq sent \cup trimmed \cup Ids(outbox) \cup overtrimmed

\* While the VIP stays and no call fails, the head does not move under a sweep.
Undisturbed ==
  faults = 0 /\ moves = 0 => overtrimmed = {} /\ \A r \in Replicas : Holding(r) => r \notin shifted

OutboxInv == LabelledHashes /\ Outbox /\ Undisturbed

\* The longest time between the starts of two sweeps.
Period == IF MaxSweep > SweepEvery THEN MaxSweep ELSE SweepEvery

\* A failing call costs a sweep; the TTL of a hash outlasts as many of them as
\* may fail.
Timely == /\ VIPHolder \in Replicas
          /\ MaxDelay < Quiet
          /\ (MaxFaults + 1) * Period + MaxSweep <= 3 * Quiet

\* The latest start of the sweep that closes an incident, given the failures so far.
Latest(n) == hash[n].last + Quiet - 1 + (faults + 1) * Period

\* The sweep s closes the incident of n in time: it has n before it, unread or in
\* its list, and will find it quiet since last, or leaves a period to the next one.
ClosesInTime(s, n, last, latest, clock) ==
  IF s.pc = "idle" THEN s.next <= latest /\ clock <= latest
  ELSE /\ s.started <= latest
       /\ \/ /\ s.started >= last + Quiet
             /\ s.pc = "scanning" \/ (s.pc = "closing" /\ n \in s.due)
          \/ s.started + Period <= latest

SweepInTime(n) == ClosesInTime(sweep[VIPHolder], n, hash[n].last, Latest(n), now)

\* A sweep starts when its ticker fires and ends within MaxSweep.
SweepOnTime(s) ==
  IF s.pc = "idle" THEN s.next <= now + SweepEvery
  ELSE s.next = s.started + SweepEvery /\ now <= s.started + MaxSweep

\* No incident waits for its sweep until its hash expires.
TimelyInv ==
  moves = 0 =>
    /\ expired = {}
    /\ SweepOnTime(sweep[VIPHolder])
    /\ \A n \in Names : Present(n) =>
         hash[n].last + 4 * Quiet <= hash[n].expireAt /\ SweepInTime(n)

-----------------------------------------------------------------------------
(* Lemmas about the operators of the model.                                *)

LEMMA ParametersAreNumbers ==
  /\ Quiet \in Nat \ {0} /\ ReminderEvery \in Nat \ {0} /\ SweepEvery \in Nat \ {0}
  /\ OutboxMax \in Nat \ {0} /\ BatchSize \in Nat \ {0}
  /\ MaxDelay \in Nat /\ MaxSweep \in Nat /\ MaxMoves \in Nat /\ MaxFaults \in Nat
  /\ MaxTime \in Nat
BY ParameterAssumption, BoundAssumption

\* What a bounded outbox keeps is the end of it.
LEMMA NewestKeepsEnd ==
  ASSUME NEW S, NEW s \in Seq(S), NEW k \in Nat \ {0}
  PROVE  /\ Newest(s, k) \in Seq(S) /\ Len(Newest(s, k)) <= k
         /\ \A i \in 1..Len(Newest(s, k)) : \E j \in 1..Len(s) : Newest(s, k)[i] = s[j]
<1>1. CASE Len(s) <= k
  BY <1>1 DEF Newest
<1>2. CASE ~(Len(s) <= k)
  <2> DEFINE m == Len(s) - k + 1
  <2>1. /\ Len(s) \in Nat /\ m \in Int /\ m >= 1 /\ m <= Len(s)
        /\ \A i \in m..Len(s) : s[i] \in S
    BY <1>2
  <2>2. Newest(s, k) = SubSeq(s, m, Len(s))
    BY <1>2 DEF Newest
  <2> HIDE DEF m
  <2>3. /\ SubSeq(s, m, Len(s)) \in Seq(S)
        /\ Len(SubSeq(s, m, Len(s))) = Len(s) - m + 1
        /\ \A i \in 1..(Len(s) - m + 1) : SubSeq(s, m, Len(s))[i] = s[m + i - 1]
    BY <2>1, SubSeqProperties
  <2>4. Len(s) - m + 1 = k
    BY <2>1 DEF m
  <2>5. \A i \in 1..k : m + i - 1 \in 1..Len(s)
    BY <2>1, <2>4
  <2>6. QED BY <2>2, <2>3, <2>4, <2>5
<1>3. QED BY <1>1, <1>2

\* The rest of an outbox whose first d items are dropped.
LEMMA RestOfOutbox ==
  ASSUME NEW S, NEW s \in Seq(S), NEW d \in Nat
  PROVE  /\ SubSeq(s, d + 1, Len(s)) \in Seq(S)
         /\ Len(SubSeq(s, d + 1, Len(s))) <= Len(s)
         /\ \A i \in 1..Len(SubSeq(s, d + 1, Len(s))) :
              d + i \in 1..Len(s) /\ SubSeq(s, d + 1, Len(s))[i] = s[d + i]
         /\ \A j \in (d + 1)..Len(s) : /\ j - d \in 1..Len(SubSeq(s, d + 1, Len(s)))
                                       /\ SubSeq(s, d + 1, Len(s))[j - d] = s[j]
<1>1. /\ Len(s) \in Nat /\ d + 1 \in Int
      /\ \A i \in (d + 1)..Len(s) : s[i] \in S
  OBVIOUS
<1>2. /\ SubSeq(s, d + 1, Len(s)) \in Seq(S)
      /\ Len(SubSeq(s, d + 1, Len(s))) = IF d + 1 <= Len(s) THEN Len(s) - (d + 1) + 1 ELSE 0
      /\ \A i \in 1..(Len(s) - (d + 1) + 1) : SubSeq(s, d + 1, Len(s))[i] = s[(d + 1) + i - 1]
  BY <1>1, SubSeqProperties
<1> DEFINE t == SubSeq(s, d + 1, Len(s))
<1>3. /\ t \in Seq(S) /\ Len(t) = IF d + 1 <= Len(s) THEN Len(s) - d ELSE 0
      /\ \A i \in 1..(Len(s) - d) : t[i] = s[d + i]
  BY <1>1, <1>2
<1> HIDE DEF t
<1>4. /\ t \in Seq(S) /\ Len(t) <= Len(s)
      /\ \A i \in 1..Len(t) : d + i \in 1..Len(s) /\ t[i] = s[d + i]
      /\ \A j \in (d + 1)..Len(s) : j - d \in 1..Len(t) /\ t[j - d] = s[j]
  BY <1>1, <1>3
<1>5. QED BY <1>4 DEF t

\* The batch a sweep reads is the head of the outbox.
LEMMA HeadOfOutbox ==
  ASSUME NEW S, NEW s \in Seq(S), NEW k \in Nat, k <= Len(s)
  PROVE  /\ SubSeq(s, 1, k) \in Seq(S) /\ Len(SubSeq(s, 1, k)) = k
         /\ \A i \in 1..k : SubSeq(s, 1, k)[i] = s[i]
<1>1. \A i \in 1..k : s[i] \in S
  OBVIOUS
<1>2. /\ SubSeq(s, 1, k) \in Seq(S)
      /\ Len(SubSeq(s, 1, k)) = IF 1 <= k THEN k - 1 + 1 ELSE 0
      /\ \A i \in 1..(k - 1 + 1) : SubSeq(s, 1, k)[i] = s[1 + i - 1]
  BY <1>1, SubSeqProperties
<1>3. QED BY <1>2

\* What a record makes of the hash of its name.
LEMMA CountedFields ==
  ASSUME Types, NEW e \in Events, NEW n \in Names, n = NameOf[e]
  PROVE  /\ Counted(e) \in Hash
         /\ Counted(e).id = IF Present(n) THEN hash[n].id ELSE opened[n] + 1
         /\ Counted(e).count = hash[n].count + 1
         /\ Counted(e).last = observed[e]
         /\ Counted(e).notified = hash[n].notified
         /\ Counted(e).expireAt = now + 4 * Quiet
         /\ Counted(e).hosts = hash[n].hosts \cup Labels(HostOf[e])
         /\ Counted(e).processes = hash[n].processes \cup Labels(ProcessOf[e])
<1>1. /\ hash[n] \in Hash /\ opened[n] \in Nat /\ observed[e] \in Nat
      /\ now + 4 * Quiet \in Nat
  BY ParametersAreNumbers DEF Types, StoreTypes, EventTypes, ClockTypes
<1>2. Labels(HostOf[e]) \subseteq Hosts /\ Labels(ProcessOf[e]) \subseteq Processes
  BY DEF Labels, Hosts, Processes
<1> DEFINE i == hash[n]
<1>3. Counted(e) =
        [i EXCEPT !.id = IF Present(n) THEN i.id ELSE opened[n] + 1,
                  !.count = i.count + 1,
                  !.last = observed[e],
                  !.expireAt = now + 4 * Quiet,
                  !.hosts = i.hosts \cup Labels(HostOf[e]),
                  !.processes = i.processes \cup Labels(ProcessOf[e])]
  BY DEF Counted
<1>4. (IF Present(n) THEN i.id ELSE opened[n] + 1) \in Nat
  BY <1>1 DEF Hash
<1> DEFINE newId == IF Present(n) THEN i.id ELSE opened[n] + 1
           newHosts == i.hosts \cup Labels(HostOf[e])
           newProcesses == i.processes \cup Labels(ProcessOf[e])
           until == now + 4 * Quiet
<1>5. newHosts \in SUBSET Hosts /\ newProcesses \in SUBSET Processes
  BY <1>1, <1>2 DEF Hash
<1>6. newId \in Nat /\ until \in Nat
  BY <1>1, <1>4
<1>7. Counted(e) = [i EXCEPT !.id = newId, !.count = i.count + 1, !.last = observed[e],
                             !.expireAt = until, !.hosts = newHosts, !.processes = newProcesses]
  BY <1>3
<1> HIDE DEF newId, newHosts, newProcesses, until, i
<1>8. i \in Hash
  BY <1>1 DEF i
<1>9. /\ Counted(e) \in Hash
      /\ Counted(e).id = newId /\ Counted(e).count = i.count + 1
      /\ Counted(e).last = observed[e] /\ Counted(e).notified = i.notified
      /\ Counted(e).expireAt = until /\ Counted(e).hosts = newHosts
      /\ Counted(e).processes = newProcesses
  <2>1. i.count + 1 \in Nat /\ observed[e] \in Nat
    BY <1>1, <1>8 DEF Hash
  <2> DEFINE c == i.count + 1
             l == observed[e]
             j == Counted(e)
  <2>2. /\ c \in Nat /\ l \in Nat
        /\ j = [i EXCEPT !.id = newId, !.count = c, !.last = l, !.expireAt = until,
                        !.hosts = newHosts, !.processes = newProcesses]
    BY <1>7, <2>1
  <2> HIDE DEF c, l, j
  <2>3. /\ j \in Hash /\ j.id = newId /\ j.count = c /\ j.last = l
        /\ j.notified = i.notified /\ j.expireAt = until
        /\ j.hosts = newHosts /\ j.processes = newProcesses
    BY <1>5, <1>6, <1>8, <2>2 DEF Hash
  <2>4. QED BY <2>3 DEF c, l, j
<1>10. QED BY <1>9 DEF newId, newHosts, newProcesses, until, i

\* The hash recordIncidentScript leaves behind.
NewHash(e) == IF Notify(Counted(e)) THEN [Counted(e) EXCEPT !.notified = Counted(e).count]
                                    ELSE Counted(e)

LEMMA NewHashFields ==
  ASSUME Types, NEW e \in Events, NEW n \in Names, n = NameOf[e]
  PROVE  /\ NewHash(e) \in Hash
         /\ NewHash(e).id = IF Present(n) THEN hash[n].id ELSE opened[n] + 1
         /\ NewHash(e).count = hash[n].count + 1
         /\ NewHash(e).last = observed[e]
         /\ NewHash(e).notified = IF Notify(Counted(e)) THEN hash[n].count + 1
                                                        ELSE hash[n].notified
         /\ NewHash(e).expireAt = now + 4 * Quiet
         /\ NewHash(e).hosts = hash[n].hosts \cup Labels(HostOf[e])
         /\ NewHash(e).processes = hash[n].processes \cup Labels(ProcessOf[e])
<1> DEFINE i == Counted(e)
           j == NewHash(e)
<1>1. /\ i \in Hash
      /\ i.id = IF Present(n) THEN hash[n].id ELSE opened[n] + 1
      /\ i.count = hash[n].count + 1 /\ i.last = observed[e]
      /\ i.notified = hash[n].notified /\ i.expireAt = now + 4 * Quiet
      /\ i.hosts = hash[n].hosts \cup Labels(HostOf[e])
      /\ i.processes = hash[n].processes \cup Labels(ProcessOf[e])
  BY CountedFields
<1>2. j = IF Notify(i) THEN [i EXCEPT !.notified = i.count] ELSE i
  BY DEF NewHash
<1> HIDE DEF i, j
<1>3. /\ j \in Hash /\ j.id = i.id /\ j.count = i.count /\ j.last = i.last
      /\ j.notified = IF Notify(i) THEN i.count ELSE i.notified
      /\ j.expireAt = i.expireAt /\ j.hosts = i.hosts /\ j.processes = i.processes
  BY <1>1, <1>2 DEF Hash
<1>4. /\ j \in Hash
      /\ j.id = IF Present(n) THEN hash[n].id ELSE opened[n] + 1
      /\ j.count = hash[n].count + 1 /\ j.last = observed[e]
      /\ j.notified = IF Notify(i) THEN hash[n].count + 1 ELSE hash[n].notified
      /\ j.expireAt = now + 4 * Quiet
      /\ j.hosts = hash[n].hosts \cup Labels(HostOf[e])
      /\ j.processes = hash[n].processes \cup Labels(ProcessOf[e])
  BY <1>1, <1>3
<1>5. QED BY <1>4 DEF i, j

LEMMA RecordScriptIs ==
  ASSUME Types, NEW e \in Events, NEW n \in Names, n = NameOf[e], RecordScript(e)
  PROVE  /\ hash' = [hash EXCEPT ![n] = NewHash(e)]
         /\ active' = [active EXCEPT ![n] = observed[e]]
         /\ opened' = [opened EXCEPT ![n] = NewHash(e).id]
         /\ incident' = [incident EXCEPT ![e] = <<n, NewHash(e).id>>]
         /\ UNCHANGED <<outbox, expired>>
<1>1. NewHash(e).id = Counted(e).id
  BY CountedFields, NewHashFields
<1>2. QED BY <1>1 DEF RecordScript, NewHash, Score

\* releaseIncidentNotificationScript touches nothing but the notification.
LEMMA ReleasedFields ==
  ASSUME Types, NEW n \in Names, NEW c
  PROVE  /\ Released(n, c) \in Hash
         /\ Released(n, c).notified = IF hash[n].notified = c THEN 0 ELSE hash[n].notified
         /\ Released(n, c).id = hash[n].id /\ Released(n, c).count = hash[n].count
         /\ Released(n, c).last = hash[n].last /\ Released(n, c).expireAt = hash[n].expireAt
         /\ Released(n, c).hosts = hash[n].hosts
         /\ Released(n, c).processes = hash[n].processes
         /\ hash[n].notified # c => Released(n, c) = hash[n]
<1> DEFINE i == hash[n]
           j == Released(n, c)
<1>1. i \in Hash /\ j = IF i.notified = c THEN [i EXCEPT !.notified = 0] ELSE i
  BY DEF Types, StoreTypes, Released
<1> HIDE DEF i, j
<1>2. /\ j \in Hash /\ j.notified = IF i.notified = c THEN 0 ELSE i.notified
      /\ j.id = i.id /\ j.count = i.count /\ j.last = i.last /\ j.expireAt = i.expireAt
      /\ j.hosts = i.hosts /\ j.processes = i.processes
      /\ i.notified # c => j = i
  BY <1>1 DEF Hash
<1>3. QED BY <1>2 DEF i, j

LEMMA AbsentIsHash == Absent \in Hash /\ Absent.count = 0 /\ Absent.id = 0 /\ Absent.notified = 0
BY DEF Absent, Hash

LEMMA ItemIsItem ==
  ASSUME IInv, NEW n \in Names, Present(n)
  PROVE  /\ Item(n) \in Items /\ Item(n).id = <<n, hash[n].id>>
         /\ <<n, hash[n].id>> \in IncidentIds
         /\ Item(n).readable <=> hash[n].hosts # {} /\ hash[n].processes # {}
<1>1. hash[n].id = opened[n] /\ opened[n] \in Nat \ {0}
  BY DEF IInv, HashInv, Types, StoreTypes
<1>2. QED BY <1>1 DEF Item, Items, IncidentIds

\* closeIncidentScript either finds the incident quiet and moves it to the outbox,
\* or changes nothing.
Closes(n, cutoff) ==
  /\ Present(n) /\ hash[n].last <= cutoff
  /\ hash' = [hash EXCEPT ![n] = Absent] /\ active' = [active EXCEPT ![n] = 0]
  /\ closed' = closed \cup {<<n, hash[n].id>>}
  /\ outbox' \in Seq(Items) /\ Len(outbox') <= OutboxMax
  /\ \A i \in 1..Len(outbox') :
       outbox'[i] = Item(n) \/ \E k \in 1..Len(outbox) : outbox'[i] = outbox[k]
  /\ Ids(outbox) \cup {<<n, hash[n].id>>} \subseteq Ids(outbox') \cup trimmed'
  /\ trimmed \subseteq trimmed' /\ trimmed' \subseteq IncidentIds
  /\ \/ shifted' = Replicas
     \/ /\ shifted' = shifted /\ Len(outbox) <= Len(outbox')
        /\ \A i \in 1..Len(outbox) : outbox'[i] = outbox[i]
  /\ UNCHANGED <<opened, expired>>

LEMMA IdsOfSequence == \A s : Ids(s) = {s[i].id : i \in DOMAIN s}
BY DEF Ids, ToSet

LEMMA CloseScriptIs ==
  ASSUME IInv, NEW n \in Names, NEW cutoff \in Int, CloseScript(n, cutoff)
  PROVE  \/ Closes(n, cutoff)
         \/ ~StillQuiet(n, cutoff) /\ UNCHANGED <<store, closed, trimmed, shifted>>
<1>1. CASE ~StillQuiet(n, cutoff)
  BY <1>1 DEF CloseScript
<1>2. CASE StillQuiet(n, cutoff)
  <2>1. Present(n) /\ hash[n].last <= cutoff
    BY <1>2 DEF StillQuiet
  <2>2. PICK item \in Items : item = Item(n) /\ item.id = <<n, hash[n].id>>
    BY <2>1, ItemIsItem
  <2>3. PICK s \in Seq(Items) : s = Append(outbox, item)
    <3>1. outbox \in Seq(Items)
      BY DEF IInv, Types, StoreTypes
    <3>2. Append(outbox, item) \in Seq(Items)
      BY <2>2, <3>1
    <3>3. QED BY <3>2
  <2>4. /\ outbox' = Newest(s, OutboxMax)
        /\ hash' = [hash EXCEPT ![n] = Absent] /\ active' = [active EXCEPT ![n] = 0]
        /\ closed' = closed \cup {<<n, hash[n].id>>}
        /\ trimmed' = trimmed \cup (Ids(s) \ Ids(outbox'))
        /\ shifted' = IF Len(outbox) < OutboxMax THEN shifted ELSE Replicas
        /\ UNCHANGED <<opened, expired>>
    BY <1>2, <2>2, <2>3 DEF CloseScript
  <2>5. /\ outbox \in Seq(Items) /\ Len(s) = Len(outbox) + 1 /\ s[Len(outbox) + 1] = item
        /\ \A i \in 1..Len(outbox) : s[i] = outbox[i]
        /\ DOMAIN s = 1..(Len(outbox) + 1) /\ DOMAIN outbox = 1..Len(outbox)
    BY <2>3 DEF IInv, Types, StoreTypes
  <2>6. /\ outbox' \in Seq(Items) /\ Len(outbox') <= OutboxMax
        /\ \A i \in 1..Len(outbox') : \E k \in 1..Len(s) : outbox'[i] = s[k]
    BY <2>4, NewestKeepsEnd, ParametersAreNumbers
  <2>7. \A i \in 1..Len(outbox') :
          outbox'[i] = Item(n) \/ \E k \in 1..Len(outbox) : outbox'[i] = outbox[k]
    BY <2>2, <2>5, <2>6
  <2>8. Ids(outbox) \cup {<<n, hash[n].id>>} \subseteq Ids(s)
    <3>1. \A i \in DOMAIN outbox : i \in DOMAIN s /\ s[i].id = outbox[i].id
      BY <2>5
    <3>2. Len(outbox) + 1 \in DOMAIN s /\ s[Len(outbox) + 1].id = <<n, hash[n].id>>
      BY <2>2, <2>5
    <3>3. QED BY <3>1, <3>2, IdsOfSequence
  <2>9. Ids(s) \subseteq IncidentIds
    <3>1. \A i \in DOMAIN s : s[i] \in Items
      BY <2>3
    <3>2. \A j \in Items : j.id \in IncidentIds
      BY DEF Items
    <3>3. QED BY <3>1, <3>2, IdsOfSequence
  <2>10. \/ shifted' = Replicas
         \/ /\ shifted' = shifted /\ Len(outbox) <= Len(outbox')
            /\ \A i \in 1..Len(outbox) : outbox'[i] = outbox[i]
    <3>1. CASE Len(outbox) < OutboxMax
      <4>1. Len(s) <= OutboxMax
        BY <2>5, <3>1, ParametersAreNumbers
      <4>2. outbox' = s
        BY <2>4, <4>1 DEF Newest
      <4>3. QED BY <2>4, <2>5, <3>1, <4>2
    <3>2. CASE ~(Len(outbox) < OutboxMax)
      BY <2>4, <3>2
    <3>3. QED BY <3>1, <3>2
  <2>11. QED
    BY <2>1, <2>4, <2>6, <2>7, <2>8, <2>9, <2>10 DEF Closes, IInv, Types, HistoryTypes
<1>3. QED BY <1>1, <1>2

-----------------------------------------------------------------------------
(* The invariant of the store, the events and the clocks.                  *)

LEMMA InitIInv == Init => IInv
<1> SUFFICES ASSUME Init PROVE IInv
  OBVIOUS
<1>1. now = 1 /\ faults = 0 /\ moves = 0
  BY Zenon DEF Init
<1>2. ClockTypes
  BY <1>1, ParametersAreNumbers DEF ClockTypes
<1>3. /\ pc = [e \in Events |-> "new"] /\ observed = [e \in Events |-> 0]
      /\ count = [e \in Events |-> 0] /\ incident = [e \in Events |-> << >>]
      /\ lostClaims = {}
  BY Zenon DEF Init
<1>4. EventTypes
  BY <1>3 DEF EventTypes
<1>5. /\ hash = [n \in Names |-> Absent] /\ active = [n \in Names |-> 0]
      /\ opened = [n \in Names |-> 0] /\ outbox = << >>
  BY Zenon DEF Init
<1>6. StoreTypes
  BY <1>5, AbsentIsHash, ParametersAreNumbers DEF StoreTypes
<1>7. /\ sweep = [r \in Replicas |-> IdleSweep] /\ vip = VIPHolder
      /\ closed = {} /\ sent = {} /\ trimmed = {} /\ overtrimmed = {} /\ expired = {}
      /\ shifted = {}
  BY Zenon DEF Init
<1>8. SweepTypes /\ HistoryTypes
  <2>1. IdleSweep \in SweepState
    BY ParametersAreNumbers DEF IdleSweep, SweepState
  <2>2. QED BY <1>7, <2>1, VIPAssumption DEF SweepTypes, HistoryTypes
<1>9. EventInv /\ ClockInv
  <2>1. \A r \in Replicas : sweep[r].pc = "idle"
    BY <1>7 DEF IdleSweep
  <2>2. QED BY <1>1, <1>3, <2>1 DEF EventInv, ClockInv
<1>10. HashInv
  <2>1. \A n \in Names : hash[n] = Absent /\ hash[n].count = 0 /\ ~Present(n)
                         /\ hash[n].notified = 0
    BY <1>5, AbsentIsHash DEF Present
  <2>2. QED BY <1>5, <2>1 DEF HashInv
<1>11. SweepInv
  <2>1. IdleSweep.delivered = 0 /\ IdleSweep.batch = << >>
    BY DEF IdleSweep
  <2>2. QED BY <1>7, <2>1 DEF SweepInv
<1>12. QED BY <1>2, <1>4, <1>6, <1>8, <1>9, <1>10, <1>11 DEF IInv, Types

\* The parts of the invariant a step does not concern.
LEMMA UntouchedStore ==
  ASSUME IInv, UNCHANGED <<hash, active, opened, outbox>>
  PROVE  StoreTypes'
BY DEF IInv, Types, StoreTypes

LEMMA UntouchedHash ==
  ASSUME IInv, UNCHANGED <<hash, active, opened, expired>>
  PROVE  HashInv'
<1>1. \A n \in Names : Present(n)' <=> Present(n)
  BY DEF Present
<1>2. QED BY <1>1 DEF IInv, HashInv

LEMMA UntouchedEvents ==
  ASSUME IInv, UNCHANGED events
  PROVE  EventTypes' /\ EventInv'
BY DEF IInv, Types, EventTypes, EventInv, events

LEMMA UntouchedSweep ==
  ASSUME IInv, UNCHANGED <<sweep, vip>>
  PROVE  SweepTypes' /\ SweepInv'
BY DEF IInv, Types, SweepTypes, SweepInv

LEMMA UntouchedHistory ==
  ASSUME IInv, UNCHANGED <<outcome, expired>>
  PROVE  HistoryTypes'
BY DEF IInv, Types, HistoryTypes, outcome

LEMMA UntouchedClock ==
  ASSUME IInv, UNCHANGED <<now, moves>>, UNCHANGED faults \/ Fault
  PROVE  ClockTypes'
BY ParametersAreNumbers DEF IInv, Types, ClockTypes, Fault

\* A worker's step leaves the sweepers alone.
LEMMA WorkerClock ==
  ASSUME IInv, NEW e \in Events, UNCHANGED <<now, sweep, observed>>,
         pc[e] # "new",
         NEW p \in {"recording", "aggregated", "fallback", "sending", "sent", "releasing",
                    "failed"},
         p = "recording" => pc[e] = "recording", GoTo(e, p)
  PROVE  ClockInv'
BY DEF IInv, Types, EventTypes, ClockInv, GoTo

LEMMA ObserveKeeps ==
  ASSUME IInv, NEW e \in Events, Observe(e)
  PROVE  IInv'
<1> USE DEF Observe, GoTo
<1>1. EventTypes' /\ EventInv'
  BY DEF IInv, Types, EventTypes, ClockTypes, EventInv, store
<1>2. ClockInv'
  BY ParametersAreNumbers DEF IInv, Types, EventTypes, ClockTypes, ClockInv
<1>3. UNCHANGED <<hash, active, opened, outbox, expired, sweep, vip, outcome, now, moves,
                  faults>>
  BY DEF store
<1>4. QED
  BY <1>1, <1>2, <1>3, UntouchedStore, UntouchedHash, UntouchedSweep, UntouchedHistory,
     UntouchedClock DEF IInv, Types

\* recordIncidentScript, whatever becomes of its reply.
LEMMA RecordScriptKeeps ==
  ASSUME IInv, NEW e \in Events, pc[e] = "recording", RecordScript(e),
         NEW p \in {"recording", "aggregated", "fallback", "sending"}, GoTo(e, p),
         UNCHANGED <<now, observed, sweep, vip, outcome, moves>>,
         UNCHANGED faults \/ Fault,
         lostClaims' \subseteq lostClaims \cup {incident'[e]},
         \/ count' = [count EXCEPT ![e] = Counted(e).count]
         \/ UNCHANGED count /\ p \in {"recording", "fallback"}
  PROVE  IInv'
<1>1. PICK n \in Names : n = NameOf[e]
  BY EventAssumption
<1>2. /\ hash' = [hash EXCEPT ![n] = NewHash(e)]
      /\ active' = [active EXCEPT ![n] = observed[e]]
      /\ opened' = [opened EXCEPT ![n] = NewHash(e).id]
      /\ incident' = [incident EXCEPT ![e] = <<n, NewHash(e).id>>]
      /\ UNCHANGED <<outbox, expired>>
  BY <1>1, RecordScriptIs DEF IInv
<1>3. PICK j \in Hash, k \in Nat \ {0} :
        /\ j = NewHash(e) /\ k = j.id /\ j.count = hash[n].count + 1
        /\ j.last = observed[e] /\ j.notified <= j.count
  <2>1. /\ NewHash(e) \in Hash
        /\ NewHash(e).id = IF Present(n) THEN hash[n].id ELSE opened[n] + 1
        /\ NewHash(e).count = hash[n].count + 1 /\ NewHash(e).last = observed[e]
        /\ NewHash(e).notified \in {hash[n].count + 1, hash[n].notified}
    BY <1>1, NewHashFields DEF IInv
  <2>2. /\ Present(n) => hash[n].id = opened[n] /\ opened[n] # 0
        /\ opened[n] \in Nat
    BY DEF IInv, HashInv, Types, StoreTypes
  <2>3. NewHash(e).id \in Nat \ {0}
    BY <2>1, <2>2
  <2>4. hash[n].notified <= hash[n].count /\ hash[n].notified \in Nat /\ hash[n].count \in Nat
    BY DEF IInv, HashInv, Types, StoreTypes, Hash
  <2>5. NewHash(e).notified <= NewHash(e).count
    BY <2>1, <2>4
  <2>6. QED BY <2>1, <2>3, <2>5
<1>4. /\ observed[e] \in Nat /\ observed[e] # 0
      /\ hash[n].count \in Nat /\ Counted(e).count \in Nat /\ Counted(e).count # 0
  <2>1. Counted(e).count = hash[n].count + 1
    BY <1>1, CountedFields DEF IInv
  <2>2. hash[n].count \in Nat
    BY DEF IInv, Types, StoreTypes, Hash
  <2>3. QED BY <2>1, <2>2 DEF IInv, Types, EventTypes, EventInv, ClockInv
<1>5. EventTypes'
  <2>1. /\ incident'[e] = <<n, k>> /\ <<n, k>> \in IncidentIds
        /\ incident' \in [Events -> IncidentIds \cup {<< >>}]
    BY <1>2, <1>3 DEF IInv, Types, EventTypes, IncidentIds
  <2>2. lostClaims' \subseteq IncidentIds
    BY <2>1 DEF IInv, Types, EventTypes
  <2>3. QED BY <1>4, <2>1, <2>2 DEF IInv, Types, EventTypes, GoTo
<1>6. StoreTypes'
  BY <1>2, <1>3, <1>4 DEF IInv, Types, StoreTypes
<1>7. EventInv'
  <2>1. \A f \in Events \ {e} : /\ incident'[f] = incident[f] /\ pc'[f] = pc[f]
                                /\ count'[f] = count[f]
    BY <1>2 DEF IInv, Types, EventTypes, GoTo
  <2>2. /\ incident'[e] = <<n, k>> /\ pc'[e] = p
        /\ p \notin {"recording", "fallback"} => count'[e] # 0
    BY <1>2, <1>3, <1>4 DEF IInv, Types, EventTypes, StoreTypes, GoTo
  <2>3. <<n, k>>[1] = n /\ <<n, k>> # << >>
    OBVIOUS
  <2>4. QED BY <1>1, <2>1, <2>2, <2>3 DEF IInv, EventInv
<1>8. HashInv'
  <2>1. /\ \A m \in Names \ {n} : /\ hash'[m] = hash[m] /\ active'[m] = active[m]
                                  /\ opened'[m] = opened[m] /\ (Present(m)' <=> Present(m))
        /\ hash'[n] = j /\ active'[n] = observed[e] /\ opened'[n] = k
        /\ expired' = expired
    BY <1>2, <1>3, <1>4 DEF IInv, Types, StoreTypes, Present
  <2>2. Present(n)'
    BY <1>3, <1>4, <2>1 DEF Present
  <2>3. ASSUME NEW m \in Names
        PROVE  /\ IF Present(m)'
                  THEN /\ hash'[m].id = opened'[m] /\ opened'[m] # 0
                       /\ active'[m] = hash'[m].last /\ active'[m] # 0
                  ELSE /\ hash'[m] = Absent
                       /\ active'[m] # 0 => \E i \in 1..opened'[m] : <<m, i>> \in expired'
               /\ hash'[m].notified <= hash'[m].count
    <3>1. CASE m = n
      <4>1. /\ hash'[n].id = opened'[n] /\ opened'[n] # 0
            /\ active'[n] = hash'[n].last /\ active'[n] # 0
            /\ hash'[n].notified <= hash'[n].count
        BY <1>3, <1>4, <2>1
      <4>2. QED BY <2>2, <3>1, <4>1
    <3>2. CASE m # n
      <4>1. /\ hash'[m] = hash[m] /\ active'[m] = active[m] /\ opened'[m] = opened[m]
            /\ (Present(m)' <=> Present(m))
        BY <2>1, <3>2
      <4>2. QED BY <2>1, <4>1 DEF IInv, HashInv
    <3>3. QED BY <3>1, <3>2
  <2>4. QED BY <2>3 DEF HashInv
<1>9. ClockInv'
  BY WorkerClock
<1>10. QED
  BY <1>2, <1>5, <1>6, <1>7, <1>8, <1>9, UntouchedSweep, UntouchedHistory, UntouchedClock
     DEF IInv, Types

\* A worker's step that does not reach the store.
LEMMA WorkerKeeps ==
  ASSUME IInv, NEW e \in Events, pc[e] # "new",
         NEW p \in {"recording", "fallback", "sent", "releasing", "failed"}, GoTo(e, p),
         \/ p = "recording" /\ pc[e] = "recording"
         \/ p = "fallback"
         \/ p # "recording" /\ count[e] # 0 /\ incident[e] # << >>,
         UNCHANGED <<now, hash, active, opened, outbox, expired, observed, count, incident,
                     sweep, vip, outcome, moves>>,
         lostClaims' = lostClaims \/ lostClaims' = lostClaims \cup ({incident[e]} \ {<< >>}),
         UNCHANGED faults \/ Fault
  PROVE  IInv'
<1>1. EventTypes'
  BY DEF IInv, Types, EventTypes, GoTo
<1>2. EventInv'
  BY DEF IInv, Types, EventTypes, EventInv, GoTo
<1>3. QED
  BY <1>1, <1>2, WorkerClock, UntouchedStore, UntouchedHash, UntouchedSweep,
     UntouchedHistory, UntouchedClock DEF IInv, Types

LEMMA RecordKeeps ==
  ASSUME IInv, NEW e \in Events, Record(e) \/ RecordFails(e)
  PROVE  IInv'
<1>1. pc[e] = "recording" /\ pc[e] # "new"
  BY DEF Record, RecordFails
<1>2. CASE Record(e)
  <2>1. PICK p \in {"sending", "aggregated"} : GoTo(e, p)
    BY <1>2 DEF Record
  <2>2. /\ RecordScript(e) /\ count' = [count EXCEPT ![e] = Counted(e).count]
        /\ lostClaims' \subseteq lostClaims \cup {incident'[e]}
        /\ UNCHANGED <<now, observed, sweep, vip, outcome, faults, moves>>
    BY <1>2 DEF Record
  <2>3. QED BY <1>1, <2>1, <2>2, RecordScriptKeeps
<1>3. ASSUME RecordFails(e)
      PROVE  /\ \E p \in {"recording", "fallback"} : GoTo(e, p)
             /\ Fault
             /\ UNCHANGED <<now, observed, count, sweep, vip, outcome, moves>>
             /\ \/ RecordScript(e) /\ lostClaims' \subseteq lostClaims \cup {incident'[e]}
                \/ UNCHANGED <<hash, active, opened, outbox, expired, incident, lostClaims>>
  BY <1>3 DEF RecordFails, store
<1>4. CASE RecordFails(e)
  <2>1. PICK p \in {"recording", "fallback"} : GoTo(e, p)
    BY <1>3, <1>4
  <2>2. CASE RecordScript(e) /\ lostClaims' \subseteq lostClaims \cup {incident'[e]}
    BY <1>1, <1>3, <1>4, <2>1, <2>2, RecordScriptKeeps
  <2>3. CASE UNCHANGED <<hash, active, opened, outbox, expired, incident, lostClaims>>
    BY <1>1, <1>3, <1>4, <2>1, <2>3, WorkerKeeps
  <2>4. QED BY <1>3, <1>4, <2>2, <2>3
<1>5. QED BY <1>2, <1>4

LEMMA SendKeeps ==
  ASSUME IInv, NEW e \in Events, Sent(e) \/ SendFails(e)
  PROVE  IInv'
<1>1. pc[e] = "sending" /\ pc[e] # "new" /\ count[e] # 0 /\ incident[e] # << >>
  BY DEF Sent, SendFails, IInv, EventInv
<1>2. PICK p \in {"sent", "releasing"} :
        /\ GoTo(e, p)
        /\ UNCHANGED <<now, hash, active, opened, outbox, expired, observed, count, incident,
                       lostClaims, sweep, vip, outcome, faults, moves>>
  BY DEF Sent, SendFails, store
<1>3. QED BY <1>1, <1>2, WorkerKeeps

\* A release was executed, once or more, or not at all.
LEMMA ReleaseIs ==
  ASSUME NEW e \in Events, Release(e)
  PROVE  /\ \E p \in {"releasing", "failed"} : GoTo(e, p)
         /\ UNCHANGED faults \/ Fault
         /\ UNCHANGED <<now, active, opened, outbox, expired, observed, count, incident,
                        sweep, vip, outcome, moves>>
         /\ \/ /\ hash' = [hash EXCEPT ![NameOf[e]] = Released(NameOf[e], count[e])]
               /\ UNCHANGED lostClaims
            \/ /\ UNCHANGED hash /\ GoTo(e, "failed")
               /\ lostClaims' = lostClaims \cup {incident[e]}
BY DEF Release

LEMMA ReleaseKeeps ==
  ASSUME IInv, NEW e \in Events, Release(e)
  PROVE  IInv'
<1>1. /\ pc[e] = "releasing" /\ pc[e] # "new" /\ count[e] # 0 /\ incident[e] # << >>
      /\ UNCHANGED faults \/ Fault
      /\ UNCHANGED <<now, active, opened, outbox, expired, observed, count, incident,
                     sweep, vip, outcome, moves>>
  BY ReleaseIs DEF Release, IInv, EventInv
<1>2. CASE /\ UNCHANGED hash /\ GoTo(e, "failed")
           /\ lostClaims' = lostClaims \cup {incident[e]}
  <2>1. lostClaims' = lostClaims \cup ({incident[e]} \ {<< >>})
    BY <1>1, <1>2
  <2>2. QED BY <1>1, <1>2, <2>1, WorkerKeeps
<1>3. CASE /\ hash' = [hash EXCEPT ![NameOf[e]] = Released(NameOf[e], count[e])]
           /\ UNCHANGED lostClaims
  <2>1. PICK n \in Names, j \in Hash :
          /\ hash' = [hash EXCEPT ![n] = j] /\ j.id = hash[n].id /\ j.count = hash[n].count
          /\ j.last = hash[n].last /\ (hash[n] = Absent => j = Absent)
          /\ j.notified \in {0, hash[n].notified}
    <3>1. PICK n \in Names : n = NameOf[e]
      BY EventAssumption
    <3>2. hash[n] = Absent => hash[n].notified # count[e]
      BY <1>1, AbsentIsHash
    <3>3. /\ Released(n, count[e]) \in Hash
          /\ Released(n, count[e]).id = hash[n].id
          /\ Released(n, count[e]).count = hash[n].count
          /\ Released(n, count[e]).last = hash[n].last
          /\ Released(n, count[e]).notified \in {0, hash[n].notified}
          /\ hash[n].notified # count[e] => Released(n, count[e]) = hash[n]
      BY ReleasedFields DEF IInv
    <3>4. hash' = [hash EXCEPT ![n] = Released(n, count[e])]
      BY <1>3, <3>1
    <3>5. QED BY <3>2, <3>3, <3>4
  <2>2. StoreTypes'
    BY <1>1, <2>1 DEF IInv, Types, StoreTypes
  <2>3. HashInv'
    <3>1. \A m \in Names : /\ hash'[m].id = hash[m].id /\ hash'[m].count = hash[m].count
                           /\ hash'[m].last = hash[m].last
                           /\ (hash[m] = Absent => hash'[m] = Absent)
                           /\ hash'[m].notified \in {0, hash[m].notified}
      BY <2>1 DEF IInv, Types, StoreTypes
    <3>2. \A m \in Names : Present(m)' <=> Present(m)
      BY <3>1 DEF Present
    <3>3. \A m \in Names : hash'[m].notified <= hash'[m].count
      <4>1. \A m \in Names : /\ hash[m].notified <= hash[m].count
                             /\ hash[m].notified \in Nat /\ hash[m].count \in Nat
        BY DEF IInv, HashInv, Types, StoreTypes, Hash
      <4>2. QED BY <3>1, <4>1
    <3>4. QED BY <1>1, <3>1, <3>2, <3>3 DEF IInv, HashInv
  <2>4. PICK p \in {"releasing", "failed"} : GoTo(e, p)
    BY ReleaseIs
  <2>5. EventTypes' /\ EventInv'
    BY <1>1, <1>3, <2>4 DEF IInv, Types, EventTypes, EventInv, GoTo
  <2>6. QED
    BY <1>1, <2>2, <2>3, <2>4, <2>5, WorkerClock, UntouchedSweep, UntouchedHistory,
       UntouchedClock DEF IInv, Types
<1>4. QED BY <1>2, <1>3, ReleaseIs

\* A sweeper's step and what it keeps of the sweep.
LEMMA SweepStepKeeps ==
  ASSUME IInv, NEW r \in Replicas, NEW s \in SweepState, Sweep(r, s),
         s.pc # "idle" => /\ s.started <= now /\ s.started # 0
                          /\ s.cutoff = s.started - Quiet,
         s.delivered <= Len(s.batch),
         s.pc \in {"idle", "scanning", "closing"} => s.delivered = 0,
         UNCHANGED <<now, pc, observed, vip>>
  PROVE  SweepTypes' /\ SweepInv' /\ ClockInv'
<1>1. /\ sweep'[r] = s /\ sweep' \in [Replicas -> SweepState]
      /\ \A q \in Replicas \ {r} : sweep'[q] = sweep[q]
  BY DEF Sweep, IInv, Types, SweepTypes
<1>2. SweepTypes'
  BY <1>1 DEF IInv, Types, SweepTypes
<1>3. SweepInv'
  BY <1>1 DEF IInv, SweepInv
<1>4. QED BY <1>1, <1>2, <1>3 DEF IInv, ClockInv

LEMMA IdleFields ==
  ASSUME NEW t \in SweepState
  PROVE  /\ Idle(t) \in SweepState /\ Idle(t).pc = "idle" /\ Idle(t).next = t.next
         /\ Idle(t).delivered = 0 /\ Idle(t).batch = << >>
<1> DEFINE noItems == << >>
           j == Idle(t)
<1>1. noItems \in Seq(Items)
  OBVIOUS
<1>2. j = [t EXCEPT !.pc = "idle", !.batch = noItems, !.delivered = 0,
                    !.cutoff = 0, !.due = {}, !.started = 0]
  BY DEF Idle
<1> DEFINE noNames == {}
<1>3. noNames \in SUBSET Names
  OBVIOUS
<1>4. PICK x \in Seq(Items), y \in SUBSET Names, zero \in Nat :
        zero = 0 /\ x = << >> /\ j = [t EXCEPT !.pc = "idle", !.batch = x, !.delivered = zero,
                      !.cutoff = zero, !.due = y, !.started = zero]
  BY <1>1, <1>2, <1>3
<1> HIDE DEF noItems, noNames, j
<1>5. /\ j.pc = "idle" /\ j.next = t.next /\ j.cutoff = zero /\ j.due = y /\ j.batch = x
      /\ j.delivered = zero /\ j.started = zero
      /\ j = [pc |-> j.pc, next |-> j.next, cutoff |-> j.cutoff, due |-> j.due,
              batch |-> j.batch, delivered |-> j.delivered, started |-> j.started]
  BY <1>4 DEF SweepState
<1>6. t.next \in Nat /\ zero \in Int
  BY DEF SweepState
<1>7. j \in SweepState
  BY <1>5, <1>6 DEF SweepState
<1>8. QED BY <1>4, <1>5, <1>7 DEF j

\* The steps of a sweep, by what they make of its state.
Continues(r, s) ==
  /\ sweep[r].pc # "idle" /\ s \in SweepState /\ s.pc # "idle" /\ Sweep(r, s)
  /\ s.next = sweep[r].next /\ s.started = sweep[r].started /\ s.cutoff = sweep[r].cutoff

Ends(r, s) ==
  /\ sweep[r].pc # "idle" /\ s \in SweepState /\ s.pc = "idle" /\ Sweep(r, s)
  /\ s.next = sweep[r].next /\ s.delivered = 0 /\ s.batch = << >>

LEMMA StartSweepIs ==
  ASSUME IInv, NEW r \in Replicas, StartSweep(r)
  PROVE  \E s \in SweepState :
           /\ Sweep(r, s) /\ s.pc = "scanning" /\ s.next = now + SweepEvery
           /\ s.cutoff = now - Quiet /\ s.started = now
           /\ s.delivered = sweep[r].delivered /\ s.batch = sweep[r].batch
<1>1. PICK t \in SweepState : t = sweep[r]
  BY DEF IInv, Types, SweepTypes
<1>2. PICK next \in Nat, cutoff \in Int, started \in Nat :
        next = now + SweepEvery /\ cutoff = now - Quiet /\ started = now
  BY ParametersAreNumbers DEF IInv, Types, ClockTypes
<1>3. PICK s : /\ Sweep(r, s)
               /\ s = [t EXCEPT !.pc = "scanning", !.next = next, !.cutoff = cutoff,
                                !.started = started]
  BY <1>1, <1>2 DEF StartSweep
<1>4. /\ s \in SweepState /\ s.pc = "scanning" /\ s.next = next /\ s.cutoff = cutoff
      /\ s.started = started /\ s.delivered = t.delivered /\ s.batch = t.batch
  BY <1>3 DEF SweepState
<1>5. QED BY <1>1, <1>2, <1>3, <1>4

LEMMA SkipSweepIs ==
  ASSUME IInv, NEW r \in Replicas, SkipSweep(r)
  PROVE  \E s \in SweepState :
           /\ Sweep(r, s) /\ s.pc = "idle" /\ s.next = now + SweepEvery
           /\ s.delivered = sweep[r].delivered /\ s.batch = sweep[r].batch
           /\ (~HasVIP(r) /\ UNCHANGED faults) \/ Fault
<1>1. PICK t \in SweepState : t = sweep[r] /\ t.pc = "idle"
  BY DEF IInv, Types, SweepTypes, SkipSweep
<1>2. PICK next \in Nat : next = now + SweepEvery
  BY ParametersAreNumbers DEF IInv, Types, ClockTypes
<1>3. PICK s : Sweep(r, s) /\ s = [t EXCEPT !.next = next]
  BY <1>1, <1>2 DEF SkipSweep
<1>4. s \in SweepState /\ s.pc = "idle" /\ s.next = next /\ s.delivered = t.delivered
      /\ s.batch = t.batch
  BY <1>1, <1>3 DEF SweepState
<1>5. (~HasVIP(r) /\ UNCHANGED faults) \/ Fault
  BY DEF SkipSweep
<1>6. QED BY <1>1, <1>2, <1>3, <1>4, <1>5

LEMMA ScanIs ==
  ASSUME IInv, NEW r \in Replicas, Scan(r)
  PROVE  \E s : /\ Continues(r, s) /\ sweep[r].pc = "scanning" /\ s.pc = "closing"
                /\ s.delivered = sweep[r].delivered /\ s.batch = sweep[r].batch
                /\ \/ /\ s.due = {n \in Names : active[n] # 0 /\ active[n] <= sweep[r].cutoff}
                      /\ UNCHANGED faults
                   \/ Fault /\ s.due = {}
<1>1. PICK t \in SweepState : t = sweep[r] /\ t.pc = "scanning"
  BY DEF IInv, Types, SweepTypes, Scan
<1> DEFINE scanned == {n \in Names : active[n] # 0 /\ active[n] <= sweep[r].cutoff}
<1>2. PICK D \in SUBSET Names :
        /\ Sweep(r, [t EXCEPT !.pc = "closing", !.due = D])
        /\ (D = scanned /\ UNCHANGED faults) \/ (Fault /\ D = {})
  <2>1. scanned \in SUBSET Names /\ {} \in SUBSET Names
    OBVIOUS
  <2>2. QED BY <1>1, <2>1 DEF Scan
<1> HIDE DEF scanned
<1>3. PICK s : s = [t EXCEPT !.pc = "closing", !.due = D]
  OBVIOUS
<1>4. /\ s \in SweepState /\ s.pc = "closing" /\ s.due = D /\ s.next = t.next
      /\ s.started = t.started /\ s.cutoff = t.cutoff /\ s.delivered = t.delivered
      /\ s.batch = t.batch
  BY <1>3 DEF SweepState
<1>5. QED BY <1>1, <1>2, <1>3, <1>4 DEF Continues, scanned

LEMMA CloseIs ==
  ASSUME IInv, NEW r \in Replicas, Close(r)
  PROVE  \E s \in SweepState, n \in sweep[r].due :
           /\ Continues(r, s) /\ sweep[r].pc = "closing" /\ s.pc = "closing"
           /\ s.delivered = sweep[r].delivered /\ s.batch = sweep[r].batch
           /\ n \in Names
           /\ \/ /\ CloseScript(n, sweep[r].cutoff) /\ UNCHANGED faults
                 /\ s.due = sweep[r].due \ {n}
              \/ /\ Fault
                 /\ \/ CloseScript(n, sweep[r].cutoff)
                    \/ UNCHANGED <<store, closed, trimmed, shifted>>
<1>1. PICK t \in SweepState : t = sweep[r] /\ t.pc = "closing"
  BY DEF IInv, Types, SweepTypes, Close
<1>2. PICK n \in t.due, D \in SUBSET Names :
        /\ \/ CloseScript(n, t.cutoff) /\ UNCHANGED faults /\ D = t.due \ {n}
           \/ Fault /\ CloseScript(n, t.cutoff)
           \/ Fault /\ UNCHANGED <<store, closed, trimmed, shifted>>
        /\ Sweep(r, [t EXCEPT !.due = D])
  <2>1. PICK n \in t.due :
          \/ /\ CloseScript(n, t.cutoff) /\ UNCHANGED faults
             /\ Sweep(r, [t EXCEPT !.due = t.due \ {n}])
          \/ /\ Fault
             /\ \/ CloseScript(n, t.cutoff)
                \/ UNCHANGED <<store, closed, trimmed, shifted>>
             /\ \E due \in {t.due, t.due \ {n}} : Sweep(r, [t EXCEPT !.due = due])
    BY <1>1 DEF Close
  <2>2. t.due \in SUBSET Names /\ t.due \ {n} \in SUBSET Names
    BY DEF SweepState
  <2>3. QED BY <2>1, <2>2
<1>3. PICK s : s = [t EXCEPT !.due = D]
  OBVIOUS
<1>4. /\ s \in SweepState /\ s.pc = "closing" /\ s.due = D /\ s.next = t.next
      /\ s.started = t.started /\ s.cutoff = t.cutoff /\ s.delivered = t.delivered
      /\ s.batch = t.batch
  BY <1>1, <1>3 DEF SweepState
<1>5. n \in Names
  BY DEF SweepState
<1>6. QED BY <1>1, <1>2, <1>3, <1>4, <1>5 DEF Continues

LEMMA PeekIs ==
  ASSUME IInv, NEW r \in Replicas, Peek(r)
  PROVE  /\ sweep[r].pc = "closing" /\ sweep[r].due = {}
         /\ \E s : \/ /\ Continues(r, s) /\ s.pc = "publishing" /\ UNCHANGED faults
                      /\ s.delivered = sweep[r].delivered
                      /\ Len(s.batch) <= Len(outbox)
                      /\ \A i \in 1..Len(s.batch) : s.batch[i] = outbox[i]
                   \/ Ends(r, s) /\ (UNCHANGED faults \/ Fault)
<1>1. PICK t \in SweepState : t = sweep[r] /\ t.pc = "closing"
  BY DEF IInv, Types, SweepTypes, Peek
<1>2. outbox \in Seq(Items) /\ Len(outbox) \in Nat /\ BatchSize \in Nat
  BY ParametersAreNumbers DEF IInv, Types, StoreTypes
<1>3. PICK k \in Nat : k = IF Len(outbox) < BatchSize THEN Len(outbox) ELSE BatchSize
  BY <1>2
<1>4. PICK b \in Seq(Items) : /\ b = SubSeq(outbox, 1, k) /\ Len(b) <= Len(outbox)
                              /\ \A i \in 1..Len(b) : b[i] = outbox[i]
  <2>1. k <= Len(outbox)
    BY <1>2, <1>3
  <2>2. /\ SubSeq(outbox, 1, k) \in Seq(Items) /\ Len(SubSeq(outbox, 1, k)) = k
        /\ \A i \in 1..k : SubSeq(outbox, 1, k)[i] = outbox[i]
    BY <1>2, <2>1, HeadOfOutbox
  <2>3. QED BY <2>1, <2>2
<1>5. CASE Sweep(r, [t EXCEPT !.pc = "publishing", !.batch = b]) /\ UNCHANGED faults
  <2>1. PICK s : s = [t EXCEPT !.pc = "publishing", !.batch = b]
    OBVIOUS
  <2>2. /\ s \in SweepState /\ s.pc = "publishing" /\ s.batch = b /\ s.next = t.next
        /\ s.started = t.started /\ s.cutoff = t.cutoff /\ s.delivered = t.delivered
    BY <2>1 DEF SweepState
  <2>3. Continues(r, s)
    BY <1>1, <1>5, <2>1, <2>2 DEF Continues
  <2>4. QED BY <1>1, <1>4, <1>5, <2>2, <2>3 DEF Peek
<1>6. CASE Sweep(r, Idle(t)) /\ (UNCHANGED faults \/ Fault)
  BY <1>1, <1>6, IdleFields DEF Peek, Ends
<1>7. QED BY <1>1, <1>3, <1>4, <1>5, <1>6 DEF Peek

LEMMA DeliverIs ==
  ASSUME IInv, NEW r \in Replicas, SendQuiet(r) \/ SkipUnreadable(r) \/ SendQuietFails(r)
  PROVE  \E s \in SweepState, item \in Items :
           /\ Continues(r, s) /\ sweep[r].pc = "publishing"
           /\ s.batch = sweep[r].batch /\ s.delivered <= Len(s.batch)
           /\ sweep[r].delivered + 1 \in 1..Len(s.batch)
           /\ item = s.batch[sweep[r].delivered + 1]
           /\ \/ /\ s.pc = "publishing" /\ s.delivered = sweep[r].delivered + 1
                 /\ item.readable /\ sent' = sent \cup {item.id}
              \/ /\ s.pc = "publishing" /\ s.delivered = sweep[r].delivered + 1
                 /\ ~item.readable /\ UNCHANGED sent
              \/ /\ s.pc = "dropping" /\ s.delivered = sweep[r].delivered
                 /\ UNCHANGED sent
<1>1. PICK t \in SweepState : /\ t = sweep[r] /\ t.pc = "publishing" /\ ~AtEnd(t)
                              /\ t.delivered <= Len(t.batch)
  BY DEF IInv, Types, SweepTypes, SweepInv, SendQuiet, SkipUnreadable, SendQuietFails
<1>2. /\ t.delivered \in Nat /\ t.delivered + 1 \in Nat /\ t.batch \in Seq(Items)
      /\ t.delivered + 1 \in 1..Len(t.batch)
  <2>1. t.delivered \in Nat /\ t.batch \in Seq(Items) /\ Len(t.batch) \in Nat
    BY DEF SweepState
  <2>2. QED BY <1>1, <2>1 DEF AtEnd
<1>3. PICK item \in Items : item = NextItem(t) /\ item = t.batch[t.delivered + 1]
  BY <1>2 DEF NextItem
<1>4. CASE SendQuiet(r) \/ SkipUnreadable(r)
  <2>1. PICK d \in Nat : d = t.delivered + 1
    BY <1>2
  <2>2. PICK s : s = [t EXCEPT !.delivered = d]
    OBVIOUS
  <2>3. /\ s \in SweepState /\ s.pc = "publishing" /\ s.delivered = d /\ s.batch = t.batch
        /\ s.next = t.next /\ s.started = t.started /\ s.cutoff = t.cutoff
    BY <1>1, <2>2 DEF SweepState
  <2>4. /\ Sweep(r, [t EXCEPT !.delivered = t.delivered + 1])
        /\ \/ item.readable /\ sent' = sent \cup {item.id}
           \/ ~item.readable /\ UNCHANGED sent
    BY <1>1, <1>3, <1>4 DEF SendQuiet, SkipUnreadable, outcome
  <2>5. Continues(r, s)
    BY <1>1, <2>1, <2>2, <2>3, <2>4 DEF Continues
  <2>6. QED BY <1>1, <1>2, <1>3, <2>1, <2>3, <2>4, <2>5
<1>5. CASE SendQuietFails(r)
  <2>1. PICK d \in Nat : d = t.delivered
    BY <1>2
  <2>2. PICK s : s = [t EXCEPT !.pc = "dropping", !.delivered = d]
    OBVIOUS
  <2>3. /\ s \in SweepState /\ s.pc = "dropping" /\ s.delivered = d /\ s.batch = t.batch
        /\ s.next = t.next /\ s.started = t.started /\ s.cutoff = t.cutoff
    BY <1>1, <2>2 DEF SweepState
  <2>4. Sweep(r, [t EXCEPT !.pc = "dropping", !.delivered = t.delivered]) /\ UNCHANGED sent
    BY <1>1, <1>5 DEF SendQuietFails, DeliveredAfterFailure, outcome
  <2>5. Continues(r, s)
    BY <1>1, <2>1, <2>2, <2>3, <2>4 DEF Continues
  <2>6. QED BY <1>1, <1>2, <1>3, <2>1, <2>3, <2>4, <2>5
<1>6. QED BY <1>4, <1>5

LEMMA DropIs ==
  ASSUME IInv, NEW r \in Replicas, Drop(r)
  PROVE  /\ Holding(r)
         /\ \E s : Ends(r, s) \/ (Continues(r, s) /\ s = sweep[r] /\ Fault)
         /\ Trim(r) \/ UNCHANGED <<outbox, shifted, overtrimmed>>
         /\ UNCHANGED faults \/ Fault
<1>1. PICK t \in SweepState : t = sweep[r] /\ t.pc \in {"publishing", "dropping"}
  BY DEF IInv, Types, SweepTypes, Drop
<1>2. /\ Sweep(r, Idle(t)) \/ (Sweep(r, t) /\ Fault)
      /\ Trim(r) \/ UNCHANGED <<outbox, shifted, overtrimmed>>
      /\ UNCHANGED faults \/ Fault
  BY <1>1 DEF Drop
<1>3. Sweep(r, Idle(t)) => Ends(r, Idle(t))
  BY <1>1, IdleFields DEF Ends
<1>4. Sweep(r, t) => Continues(r, t)
  BY <1>1 DEF Continues
<1>5. QED BY <1>1, <1>2, <1>3, <1>4 DEF Holding

LEMMA ContinuesKeeps ==
  ASSUME IInv, NEW r \in Replicas, NEW s,
         \/ Continues(r, s) /\ s.delivered <= Len(s.batch)
                            /\ (s.pc \in {"scanning", "closing"} => s.delivered = 0)
         \/ Ends(r, s),
         UNCHANGED <<now, pc, observed, vip>>
  PROVE  SweepTypes' /\ SweepInv' /\ ClockInv'
<1>1. s \in SweepState /\ Sweep(r, s)
  BY DEF Continues, Ends
<1>2. s.pc # "idle" => s.started <= now /\ s.started # 0 /\ s.cutoff = s.started - Quiet
  BY DEF IInv, ClockInv, Continues, Ends
<1>3. /\ s.delivered <= Len(s.batch)
      /\ s.pc \in {"idle", "scanning", "closing"} => s.delivered = 0
  <2>1. ASSUME Ends(r, s) PROVE s.delivered = 0 /\ s.batch = << >>
    BY <2>1 DEF Ends
  <2>2. ASSUME Continues(r, s) PROVE s.pc # "idle"
    BY <2>2 DEF Continues
  <2>3. QED BY <2>1, <2>2
<1>4. QED BY <1>1, <1>2, <1>3, SweepStepKeeps

\* A sweeper's step that changes no more than its sweep and what was sent.
LEMMA SweepOnlyKeeps ==
  ASSUME IInv, SweepTypes', SweepInv', ClockInv', HistoryTypes',
         UNCHANGED <<now, moves, hash, active, opened, outbox, expired, events>>,
         UNCHANGED faults \/ Fault
  PROVE  IInv'
<1>1. QED
  BY UntouchedStore, UntouchedHash, UntouchedEvents, UntouchedClock DEF IInv, Types

LEMMA StartKeeps ==
  ASSUME IInv, NEW r \in Replicas, StartSweep(r) \/ SkipSweep(r)
  PROVE  IInv'
<1>1. PICK s \in SweepState :
        /\ Sweep(r, s) /\ s.delivered = sweep[r].delivered /\ s.batch = sweep[r].batch
        /\ \/ s.pc = "scanning" /\ s.cutoff = now - Quiet /\ s.started = now
           \/ s.pc = "idle"
  BY StartSweepIs, SkipSweepIs
<1>2. s.delivered <= Len(s.batch) /\ s.delivered = 0 /\ now \in Nat \ {0}
  BY <1>1 DEF IInv, SweepInv, StartSweep, SkipSweep, Types, ClockTypes
<1>3. /\ UNCHANGED <<now, moves, hash, active, opened, outbox, expired, events, pc, observed,
                     vip, outcome>>
      /\ UNCHANGED faults \/ Fault
  BY DEF StartSweep, SkipSweep, store, events
<1>4. SweepTypes' /\ SweepInv' /\ ClockInv'
  BY <1>1, <1>2, <1>3, SweepStepKeeps
<1>5. QED BY <1>3, <1>4, SweepOnlyKeeps, UntouchedHistory

LEMMA ScanKeeps ==
  ASSUME IInv, NEW r \in Replicas, Scan(r)
  PROVE  IInv'
<1>1. PICK s : /\ Continues(r, s) /\ sweep[r].pc = "scanning" /\ s.pc = "closing"
               /\ s.delivered = sweep[r].delivered /\ s.batch = sweep[r].batch
               /\ UNCHANGED faults \/ Fault
  BY ScanIs
<1>2. s.delivered <= Len(s.batch) /\ s.delivered = 0
  BY <1>1 DEF IInv, SweepInv
<1>3. UNCHANGED <<now, moves, hash, active, opened, outbox, expired, events, pc, observed,
                  vip, outcome>>
  BY DEF Scan, store, events
<1>4. SweepTypes' /\ SweepInv' /\ ClockInv'
  BY <1>1, <1>2, <1>3, ContinuesKeeps
<1>5. QED BY <1>1, <1>3, <1>4, SweepOnlyKeeps, UntouchedHistory

LEMMA PeekKeeps ==
  ASSUME IInv, NEW r \in Replicas, Peek(r)
  PROVE  IInv'
<1>1. PICK s : /\ UNCHANGED faults \/ Fault
               /\ \/ Continues(r, s) /\ s.pc = "publishing" /\ s.delivered = sweep[r].delivered
                  \/ Ends(r, s)
  BY PeekIs
<1>2. sweep[r].delivered = 0
  BY PeekIs DEF IInv, SweepInv
<1>3. Continues(r, s) => Len(s.batch) \in Nat
  BY DEF Continues, SweepState
<1>4. UNCHANGED <<now, moves, hash, active, opened, outbox, expired, events, pc, observed,
                  vip, closed, sent, trimmed, overtrimmed>>
  BY DEF Peek, store, events
<1>5. SweepTypes' /\ SweepInv' /\ ClockInv'
  BY <1>1, <1>2, <1>3, <1>4, ContinuesKeeps
<1>6. HistoryTypes'
  BY <1>4 DEF Peek, IInv, Types, HistoryTypes
<1>7. QED BY <1>1, <1>4, <1>5, <1>6, SweepOnlyKeeps

LEMMA DeliverKeeps ==
  ASSUME IInv, NEW r \in Replicas, SendQuiet(r) \/ SkipUnreadable(r) \/ SendQuietFails(r)
  PROVE  IInv'
<1>1. PICK s \in SweepState, item \in Items :
        /\ Continues(r, s) /\ s.pc \in {"publishing", "dropping"}
        /\ s.delivered <= Len(s.batch)
        /\ sent' \subseteq sent \cup {item.id}
  BY DeliverIs
<1>2. UNCHANGED <<now, moves, hash, active, opened, outbox, expired, events, pc, observed,
                  vip, closed, trimmed, shifted, overtrimmed, faults>>
  BY DEF SendQuiet, SkipUnreadable, SendQuietFails, store, events, outcome
<1>3. SweepTypes' /\ SweepInv' /\ ClockInv'
  BY <1>1, <1>2, ContinuesKeeps
<1>4. HistoryTypes'
  BY <1>1, <1>2 DEF IInv, Types, HistoryTypes, Items
<1>5. QED BY <1>2, <1>3, <1>4, SweepOnlyKeeps

LEMMA DropKeeps ==
  ASSUME IInv, NEW r \in Replicas, Drop(r)
  PROVE  IInv'
<1>1. PICK s : Ends(r, s) \/ (Continues(r, s) /\ s = sweep[r])
  BY DropIs
<1>2. UNCHANGED <<now, moves, hash, active, opened, expired, events, pc, observed, vip,
                  closed, sent, trimmed>>
  BY DEF Drop, events
<1>3. UNCHANGED faults \/ Fault
  BY DropIs
<1>4. SweepTypes' /\ SweepInv' /\ ClockInv'
  <2>1. s = sweep[r] => s.delivered <= Len(s.batch) /\ s.pc \in {"publishing", "dropping"}
    BY DropIs DEF IInv, SweepInv, Holding
  <2>2. QED BY <1>1, <1>2, <2>1, ContinuesKeeps
<1>5. PICK x \in Seq(Items) : x = outbox' /\ Len(x) <= Len(outbox)
  <2>1. outbox \in Seq(Items) /\ Len(outbox) \in Nat /\ sweep[r].delivered \in Nat
    BY DEF IInv, Types, StoreTypes, SweepTypes, SweepState
  <2>2. PICK d \in Nat : d = sweep[r].delivered
    BY <2>1
  <2>3. /\ SubSeq(outbox, d + 1, Len(outbox)) \in Seq(Items)
        /\ Len(SubSeq(outbox, d + 1, Len(outbox))) <= Len(outbox)
    BY <2>1, RestOfOutbox
  <2>4. CASE Trim(r)
    BY <2>2, <2>3, <2>4 DEF Trim
  <2>5. CASE outbox' = outbox
    BY <2>1, <2>5
  <2>6. QED BY <2>4, <2>5, DropIs
<1>6. StoreTypes'
  <2>1. Len(outbox) <= OutboxMax /\ Len(outbox) \in Nat /\ Len(x) \in Nat
    BY DEF IInv, Types, StoreTypes
  <2>2. Len(outbox') <= OutboxMax
    BY <1>5, <2>1, ParametersAreNumbers
  <2>3. QED BY <1>2, <1>5, <2>2 DEF IInv, Types, StoreTypes
<1>7. HistoryTypes'
  <2>1. Ids(outbox) \subseteq IncidentIds
    <3>1. \A i \in DOMAIN outbox : outbox[i] \in Items
      BY DEF IInv, Types, StoreTypes
    <3>2. \A i \in Items : i.id \in IncidentIds
      BY DEF Items
    <3>3. QED BY <3>1, <3>2, IdsOfSequence
  <2>2. overtrimmed' \subseteq overtrimmed \cup Ids(outbox)
        /\ (shifted' = shifted \/ shifted' = Replicas)
    BY DropIs DEF Trim
  <2>3. QED BY <1>2, <2>1, <2>2 DEF IInv, Types, HistoryTypes
<1>8. QED
  BY <1>2, <1>3, <1>4, <1>6, <1>7, UntouchedHash, UntouchedEvents, UntouchedClock
     DEF IInv, Types

\* A name whose hash leaves the store, closed or expired.
LEMMA CloseKeeps ==
  ASSUME IInv, NEW r \in Replicas, Close(r)
  PROVE  IInv'
<1>1. PICK s \in SweepState, n \in sweep[r].due :
        /\ Continues(r, s) /\ sweep[r].pc = "closing" /\ s.pc = "closing"
        /\ s.delivered = sweep[r].delivered /\ s.batch = sweep[r].batch /\ n \in Names
        /\ CloseScript(n, sweep[r].cutoff) \/ UNCHANGED <<store, closed, trimmed, shifted>>
        /\ UNCHANGED faults \/ Fault
  BY CloseIs
<1>2. s.delivered <= Len(s.batch) /\ s.delivered = 0
  BY <1>1 DEF IInv, SweepInv
<1>3. UNCHANGED <<now, moves, events, pc, observed, vip, sent, overtrimmed>>
  BY DEF Close, events
<1>4. SweepTypes' /\ SweepInv' /\ ClockInv'
  BY <1>1, <1>2, <1>3, ContinuesKeeps
<1>5. Closes(n, sweep[r].cutoff) \/ UNCHANGED <<store, closed, trimmed, shifted>>
  <2>1. sweep[r].cutoff \in Int
    BY DEF IInv, Types, SweepTypes, SweepState
  <2>2. QED BY <1>1, <2>1, CloseScriptIs
<1>6. CASE UNCHANGED <<store, closed, trimmed, shifted>>
  <2>1. UNCHANGED <<hash, active, opened, outbox, expired, outcome>>
    BY <1>3, <1>6 DEF store, outcome
  <2>2. QED BY <1>1, <1>3, <1>4, <2>1, SweepOnlyKeeps, UntouchedHistory
<1>7. CASE Closes(n, sweep[r].cutoff)
  <2>1. /\ hash' = [hash EXCEPT ![n] = Absent] /\ active' = [active EXCEPT ![n] = 0]
        /\ closed' = closed \cup {<<n, hash[n].id>>} /\ Present(n)
        /\ outbox' \in Seq(Items) /\ Len(outbox') <= OutboxMax
        /\ trimmed' \subseteq IncidentIds /\ UNCHANGED <<opened, expired>>
        /\ shifted' = shifted \/ shifted' = Replicas
    BY <1>7 DEF Closes
  <2>2. StoreTypes'
    BY <1>1, <2>1, AbsentIsHash DEF IInv, Types, StoreTypes
  <2>3. HistoryTypes'
    BY <1>1, <1>3, <2>1, ItemIsItem DEF IInv, Types, HistoryTypes
  <2>4. HashInv'
    <3>1. hash'[n] = Absent /\ active'[n] = 0 /\ ~Present(n)'
      BY <1>1, <2>1, AbsentIsHash DEF IInv, Types, StoreTypes, Present
    <3>2. \A m \in Names \ {n} : /\ hash'[m] = hash[m] /\ active'[m] = active[m]
                                 /\ (Present(m)' <=> Present(m))
      BY <2>1 DEF IInv, Types, StoreTypes, Present
    <3>3. ASSUME NEW m \in Names
          PROVE  /\ IF Present(m)'
                    THEN /\ hash'[m].id = opened'[m] /\ opened'[m] # 0
                         /\ active'[m] = hash'[m].last /\ active'[m] # 0
                    ELSE /\ hash'[m] = Absent
                         /\ active'[m] # 0 => \E k \in 1..opened'[m] : <<m, k>> \in expired'
                 /\ hash'[m].notified <= hash'[m].count
      <4>1. CASE m = n
        BY <2>1, <3>1, <4>1, AbsentIsHash
      <4>2. CASE m # n
        BY <2>1, <3>2, <4>2 DEF IInv, HashInv
      <4>3. QED BY <4>1, <4>2
    <3>4. QED BY <3>3 DEF HashInv
  <2>5. QED
    BY <1>1, <1>3, <1>4, <2>2, <2>3, <2>4, UntouchedEvents, UntouchedClock
       DEF IInv, Types
<1>8. QED BY <1>5, <1>6, <1>7

LEMMA TickKeeps ==
  ASSUME IInv, Tick
  PROVE  IInv'
<1> DEFINE gone == {n \in Names : Present(n) /\ hash[n].expireAt <= now'}
<1>1. /\ now' = now + 1
      /\ \A e \in Events : pc[e] = "recording" => now < observed[e] + MaxDelay
      /\ UNCHANGED <<active, outbox, opened, events, sweep, vip, outcome, faults, moves>>
  BY DEF Tick
<1>2. PICK G \in SUBSET Names :
        /\ hash' = [n \in Names |-> IF n \in G THEN Absent ELSE hash[n]]
        /\ expired' = expired \cup {<<n, hash[n].id>> : n \in G}
        /\ \A n \in G : Present(n)
  <2>1. gone \in SUBSET Names
    OBVIOUS
  <2>2. QED BY <2>1 DEF Tick
<1>3. UNCHANGED <<pc, observed>>
  BY <1>1 DEF events
<1>4. ClockTypes'
  BY <1>1 DEF IInv, Types, ClockTypes
<1>5. StoreTypes'
  BY <1>1, <1>2, AbsentIsHash DEF IInv, Types, StoreTypes
<1>6. \A n \in G : <<n, hash[n].id>> \in IncidentIds
  BY <1>2, ItemIsItem
<1>7. HistoryTypes'
  BY <1>1, <1>2, <1>6 DEF IInv, Types, HistoryTypes, outcome
<1>8. HashInv'
  <2>1. ASSUME NEW n \in G
        PROVE  /\ hash'[n] = Absent /\ ~Present(n)'
               /\ opened[n] \in 1..opened[n] /\ <<n, opened[n]>> \in expired'
    <3>1. Present(n) /\ hash[n].id = opened[n] /\ opened[n] # 0 /\ opened[n] \in Nat
      BY <1>2 DEF IInv, HashInv, Types, StoreTypes
    <3>2. QED BY <1>2, <3>1, AbsentIsHash DEF Present
  <2>2. \A n \in Names \ G : hash'[n] = hash[n] /\ (Present(n)' <=> Present(n))
    BY <1>2 DEF Present
  <2>3. ASSUME NEW n \in Names
        PROVE  /\ IF Present(n)'
                  THEN /\ hash'[n].id = opened'[n] /\ opened'[n] # 0
                       /\ active'[n] = hash'[n].last /\ active'[n] # 0
                  ELSE /\ hash'[n] = Absent
                       /\ active'[n] # 0 => \E k \in 1..opened'[n] : <<n, k>> \in expired'
               /\ hash'[n].notified <= hash'[n].count
    <3>1. CASE n \in G
      <4>1. opened' = opened /\ active' = active
        BY <1>1
      <4>2. hash'[n] = Absent /\ ~Present(n)' /\ hash'[n].notified <= hash'[n].count
        <5>1. hash'[n] = Absent /\ ~Present(n)'
          BY <2>1, <3>1
        <5>2. hash'[n].notified = 0 /\ hash'[n].count = 0
          BY <5>1, AbsentIsHash
        <5>3. QED BY <5>1, <5>2
      <4>3. opened[n] \in 1..opened'[n] /\ <<n, opened[n]>> \in expired'
        BY <2>1, <3>1, <4>1
      <4>4. QED BY <4>2, <4>3
    <3>2. CASE n \notin G
      <4>1. expired \subseteq expired'
        BY <1>2
      <4>2. QED BY <1>1, <2>2, <3>2, <4>1 DEF IInv, HashInv
    <3>3. QED BY <3>1, <3>2
  <2>4. QED BY <2>3 DEF HashInv
<1>9. EventTypes' /\ EventInv'
  BY <1>1, UntouchedEvents
<1>10. SweepTypes' /\ SweepInv'
  BY <1>1, UntouchedSweep
<1>11. ClockInv'
  BY <1>1, <1>3, ParametersAreNumbers
     DEF IInv, ClockInv, Types, ClockTypes, EventTypes, SweepTypes, SweepState
<1>12. QED
  BY <1>4, <1>5, <1>7, <1>8, <1>9, <1>10, <1>11 DEF IInv, Types

LEMMA MoveKeeps ==
  ASSUME IInv, MoveVIP
  PROVE  IInv'
<1>1. /\ vip' \in Replicas /\ moves' = moves + 1 /\ moves < MaxMoves
      /\ UNCHANGED <<now, hash, active, opened, outbox, expired, events, pc, observed, sweep,
                     outcome, faults>>
  BY DEF MoveVIP, store, events
<1>2. ClockTypes'
  BY <1>1, ParametersAreNumbers DEF IInv, Types, ClockTypes
<1>3. SweepTypes' /\ SweepInv' /\ ClockInv'
  BY <1>1 DEF IInv, Types, SweepTypes, SweepInv, ClockInv
<1>4. QED
  BY <1>1, <1>2, <1>3, UntouchedStore, UntouchedHash, UntouchedEvents, UntouchedHistory
     DEF IInv, Types

LEMMA NextIInv ==
  ASSUME IInv, [Next]_vars
  PROVE  IInv'
<1>1. ASSUME NEW e \in Events, Work(e) PROVE IInv'
  BY <1>1, ObserveKeeps, RecordKeeps, SendKeeps, ReleaseKeeps DEF Work
<1>2. ASSUME NEW r \in Replicas, SweepStep(r) PROVE IInv'
  BY <1>2, StartKeeps, ScanKeeps, CloseKeeps, PeekKeeps, DeliverKeeps, DropKeeps
     DEF SweepStep
<1>3. CASE UNCHANGED vars
  <2>1. UNCHANGED <<now, moves, hash, active, opened, outbox, expired, events, pc, observed,
                    sweep, vip, outcome, faults>>
    BY <1>3 DEF vars, store, events
  <2>2. SweepTypes' /\ SweepInv' /\ ClockInv'
    BY <2>1 DEF IInv, Types, SweepTypes, SweepInv, ClockInv
  <2>3. QED BY <2>1, <2>2, SweepOnlyKeeps, UntouchedHistory
<1>4. QED BY <1>1, <1>2, <1>3, TickKeeps, MoveKeeps DEF Next, Finished

\* What the store, the events and the sweepers have in common holds in every state.
THEOREM Invariance == Spec => []IInv
<1>1. QED BY InitIInv, NextIInv, PTL DEF Spec

\* The types: the outbox keeps its bound, and a scan finds every recorded incident.
THEOREM TypeCorrect == Spec => []TypeOK
<1>1. IInv => TypeOK
  <2> SUFFICES ASSUME IInv PROVE TypeOK
    OBVIOUS
  <2>1. now \in Nat /\ faults \in 0..MaxFaults /\ moves \in 0..MaxMoves
    BY DEF IInv, Types, ClockTypes
  <2>2. ASSUME NEW n \in Names
        PROVE  /\ hash[n].count \in Nat /\ hash[n].notified \in 0..hash[n].count
               /\ hash[n].hosts \cap {""} = {} /\ hash[n].processes \cap {""} = {}
    <3>1. hash[n] \in Hash /\ hash[n].notified <= hash[n].count
      BY DEF IInv, Types, StoreTypes, HashInv
    <3>2. /\ hash[n].count \in Nat /\ hash[n].notified \in Nat
          /\ hash[n].hosts \subseteq Hosts /\ hash[n].processes \subseteq Processes
      BY <3>1 DEF Hash
    <3>3. hash[n].notified \in 0..hash[n].count
      BY <3>1, <3>2
    <3>4. QED BY <3>2, <3>3 DEF Hosts, Processes
  <2>3. \A n \in Names :
          IF Present(n) THEN active[n] = hash[n].last
                        ELSE active[n] # 0 => \E k \in 1..opened[n] : <<n, k>> \in expired
    BY DEF IInv, HashInv
  <2>4. Len(outbox) <= OutboxMax /\ \A i \in 1..Len(outbox) : outbox[i].id \in IncidentIds
    <3>1. \A i \in 1..Len(outbox) : outbox[i] \in Items
      BY DEF IInv, Types, StoreTypes
    <3>2. QED BY <3>1 DEF IInv, Types, StoreTypes, Items
  <2>5. pc \in [Events -> {"new", "recording", "aggregated", "fallback", "sending",
                           "sent", "releasing", "failed"}]
    BY DEF IInv, Types, EventTypes
  <2>6. \A r \in Replicas : sweep[r].pc \in
          {"idle", "scanning", "closing", "publishing", "dropping"}
    BY DEF IInv, Types, SweepTypes, SweepState
  <2>7. /\ closed \cup sent \cup trimmed \cup overtrimmed \cup expired \subseteq IncidentIds
        /\ shifted \subseteq Replicas /\ lostClaims \subseteq IncidentIds
    BY DEF IInv, Types, HistoryTypes, EventTypes
  <2>8. QED BY <2>1, <2>2, <2>3, <2>4, <2>5, <2>6, <2>7 DEF TypeOK
<1>2. QED BY <1>1, Invariance, PTL

-----------------------------------------------------------------------------
(* What becomes of the hash of a name in one step.                         *)

Records(e, n) ==
  /\ n = NameOf[e] /\ pc[e] = "recording" /\ (Record(e) \/ RecordFails(e))
  /\ hash'[n] = NewHash(e) /\ incident' = [incident EXCEPT ![e] = <<n, hash'[n].id>>]

Releases(e, n) ==
  /\ n = NameOf[e] /\ pc[e] = "releasing"
  /\ hash'[n] = Released(n, count[e])

LEMMA RecordScriptRecords ==
  ASSUME IInv, NEW e \in Events, RecordScript(e), Record(e) \/ RecordFails(e),
         NEW n \in Names, n = NameOf[e]
  PROVE  Records(e, n) /\ \A m \in Names \ {n} : hash'[m] = hash[m]
<1>1. /\ hash' = [hash EXCEPT ![n] = NewHash(e)]
      /\ incident' = [incident EXCEPT ![e] = <<n, NewHash(e).id>>]
  BY RecordScriptIs DEF IInv
<1>2. pc[e] = "recording"
  BY DEF Record, RecordFails
<1>3. QED BY <1>1, <1>2 DEF Records, IInv, Types, StoreTypes

LEMMA HashSteps ==
  ASSUME IInv, [Next]_vars, NEW n \in Names
  PROVE  \/ hash'[n] = hash[n]
         \/ \E e \in Events : Records(e, n)
         \/ \E e \in Events : Releases(e, n) /\ incident' = incident
         \/ hash'[n] = Absent /\ incident' = incident
<1>1. ASSUME NEW e \in Events, Work(e)
      PROVE  \/ hash'[n] = hash[n] \/ Records(e, n)
             \/ Releases(e, n) /\ incident' = incident
  <2>1. CASE (Record(e) \/ RecordFails(e)) /\ RecordScript(e)
    <3>1. PICK m \in Names : m = NameOf[e]
      BY EventAssumption
    <3>2. QED BY <2>1, <3>1, RecordScriptRecords
  <2>2. CASE Release(e)
    <3>1. CASE hash' = [hash EXCEPT ![NameOf[e]] = Released(NameOf[e], count[e])]
      BY <2>2, <3>1, ReleaseIs DEF Release, Releases, IInv, Types, StoreTypes
    <3>2. QED BY <2>2, <3>1, ReleaseIs
  <2>3. CASE Observe(e) \/ Sent(e) \/ SendFails(e)
    BY <2>3 DEF Observe, Sent, SendFails, store
  <2>4. CASE Record(e) \/ RecordFails(e)
    BY <2>1, <2>4 DEF Record, RecordFails, store
  <2>5. QED BY <1>1, <2>2, <2>3, <2>4 DEF Work
<1>2. ASSUME NEW r \in Replicas, SweepStep(r)
      PROVE  hash'[n] = hash[n] \/ (hash'[n] = Absent /\ incident' = incident)
  <2>1. CASE Close(r)
    <3>1. PICK m \in Names : \/ CloseScript(m, sweep[r].cutoff)
                             \/ UNCHANGED <<store, closed, trimmed, shifted>>
      BY <2>1, CloseIs
    <3>2. sweep[r].cutoff \in Int
      BY DEF IInv, Types, SweepTypes, SweepState
    <3>3. hash' = [hash EXCEPT ![m] = Absent] \/ hash' = hash
      BY <3>1, <3>2, CloseScriptIs DEF Closes, store
    <3>4. QED BY <2>1, <3>3 DEF Close, events, IInv, Types, StoreTypes
  <2>2. QED
    BY <1>2, <2>1 DEF SweepStep, StartSweep, SkipSweep, Scan, Peek, SendQuiet,
                      SkipUnreadable, SendQuietFails, Drop, store
<1>3. CASE Tick
  BY <1>3 DEF Tick, events
<1>4. CASE MoveVIP \/ Finished \/ UNCHANGED vars
  BY <1>4 DEF MoveVIP, Finished, vars, store
<1>5. QED BY <1>1, <1>2, <1>3, <1>4 DEF Next

-----------------------------------------------------------------------------
(* When an incident is closed.                                             *)

\* Nothing but a record changes the incident an event was counted in.
LEMMA IncidentSteps ==
  ASSUME IInv, [Next]_vars
  PROVE  incident' = incident \/ \E f \in Events : Records(f, NameOf[f])
<1>1. ASSUME NEW e \in Events, Work(e)
      PROVE  incident' = incident \/ Records(e, NameOf[e])
  <2>1. CASE (Record(e) \/ RecordFails(e)) /\ RecordScript(e)
    BY <2>1, RecordScriptRecords, EventAssumption
  <2>2. CASE Release(e)
    BY <2>2, ReleaseIs
  <2>3. QED
    BY <1>1, <2>1, <2>2 DEF Work, Observe, Record, RecordFails, Sent, SendFails
<1>2. ASSUME NEW r \in Replicas, SweepStep(r) PROVE incident' = incident
  BY <1>2 DEF SweepStep, StartSweep, SkipSweep, Scan, Close, Peek, SendQuiet, SkipUnreadable,
              SendQuietFails, Drop, events
<1>3. CASE Tick \/ MoveVIP \/ Finished \/ UNCHANGED vars
  BY <1>3 DEF Tick, MoveVIP, Finished, vars, events
<1>4. QED BY <1>1, <1>2, <1>3 DEF Next

LEMMA ObservedSteps ==
  ASSUME IInv, [Next]_vars, NEW e \in Events, observed'[e] # observed[e]
  PROVE  incident'[e] = << >>
<1>1. ASSUME NEW f \in Events, Observe(f) PROVE incident'[e] = << >>
  BY <1>1 DEF Observe, IInv, Types, EventTypes, EventInv
<1>2. ASSUME NEW f \in Events, Work(f), ~Observe(f) PROVE UNCHANGED observed
  BY <1>2 DEF Work, Record, RecordFails, Sent, SendFails, Release
<1>3. ASSUME NEW r \in Replicas, SweepStep(r) PROVE UNCHANGED observed
  BY <1>3 DEF SweepStep, StartSweep, SkipSweep, Scan, Close, Peek, SendQuiet, SkipUnreadable,
              SendQuietFails, Drop, events
<1>4. CASE Tick \/ MoveVIP \/ Finished \/ UNCHANGED vars
  BY <1>4 DEF Tick, MoveVIP, Finished, vars, events
<1>5. QED BY <1>1, <1>2, <1>3, <1>4 DEF Next

LEMMA NextLast ==
  ASSUME IInv, LastInv, [Next]_vars
  PROVE  LastInv'
<1> SUFFICES ASSUME NEW e \in Events, NEW n \in Names,
                    Present(n)', incident'[e] = <<n, hash'[n].id>>
             PROVE  observed'[e] <= hash'[n].last + MaxDelay
  BY DEF LastInv
<1>1. observed'[e] = observed[e]
  BY ObservedSteps
<1>2. CASE incident'[e] = incident[e] /\ hash'[n].id = hash[n].id /\ hash'[n].last = hash[n].last
           /\ Present(n)
  BY <1>1, <1>2 DEF LastInv
<1>3. ASSUME NEW f \in Events, Records(f, n)
      PROVE  observed'[e] <= hash'[n].last + MaxDelay
  <2>1. /\ hash'[n].last = observed[f] /\ now <= observed[f] + MaxDelay /\ observed[e] <= now
        /\ observed[f] \in Nat /\ observed[e] \in Nat /\ now \in Nat /\ MaxDelay \in Nat
    BY <1>3, NewHashFields, ParametersAreNumbers
       DEF Records, IInv, ClockInv, Types, EventTypes, ClockTypes
  <2>2. QED BY <1>1, <2>1
<1>4. CASE ~\E f \in Events : Records(f, n)
  <2>1. \/ hash'[n] = hash[n]
        \/ \E f \in Events : Releases(f, n) /\ incident' = incident
        \/ hash'[n] = Absent
    BY <1>4, HashSteps
  <2>2. hash'[n] # Absent
    BY AbsentIsHash DEF Present
  <2>3. incident'[e] = incident[e]
    <3>1. ASSUME NEW f \in Events, NEW m \in Names, m # n, Records(f, m), m = NameOf[f]
          PROVE  incident'[e] = incident[e]
      BY <3>1 DEF Records, IInv, Types, EventTypes
    <3>2. QED BY <1>4, <3>1, IncidentSteps, EventAssumption
  <2>4. /\ hash'[n].id = hash[n].id /\ hash'[n].last = hash[n].last
        /\ hash'[n].count = hash[n].count
    BY <2>1, <2>2, ReleasedFields DEF Releases, IInv
  <2>5. QED BY <1>2, <2>3, <2>4 DEF Present
<1>5. QED BY <1>3, <1>4

LEMMA ClosedSteps ==
  ASSUME IInv, [Next]_vars, closed' # closed
  PROVE  /\ UNCHANGED <<now, pc, observed, count, incident>>
         /\ \E r \in Replicas, n \in Names :
              sweep[r].pc = "closing" /\ Closes(n, sweep[r].cutoff)
<1>1. ASSUME NEW r \in Replicas, Close(r)
      PROVE  \E n \in Names : Closes(n, sweep[r].cutoff)
  <2>1. PICK n \in Names : CloseScript(n, sweep[r].cutoff)
                           \/ UNCHANGED <<store, closed, trimmed, shifted>>
    BY <1>1, CloseIs
  <2>2. sweep[r].cutoff \in Int
    BY DEF IInv, Types, SweepTypes, SweepState
  <2>3. QED BY <2>1, <2>2, CloseScriptIs
<1>2. ASSUME NEW r \in Replicas, SweepStep(r), ~Close(r) PROVE FALSE
  BY <1>2 DEF SweepStep, StartSweep, SkipSweep, Scan, Peek, SendQuiet, SkipUnreadable,
              SendQuietFails, Drop, outcome
<1>3. ASSUME NEW e \in Events, Work(e) PROVE FALSE
  BY <1>3, ReleaseIs DEF Work, Observe, Record, RecordFails, Sent, SendFails, outcome
<1>4. ~(Tick \/ MoveVIP \/ Finished \/ UNCHANGED vars)
  BY DEF Tick, MoveVIP, Finished, vars, outcome
<1>5. QED BY <1>1, <1>2, <1>3, <1>4 DEF Next, Close, events

\* An incident is closed only when its last events are Quiet old.
THEOREM ClosedWhenQuiet == Spec => ClosedOnlyWhenQuiet
<1>1. Init => LastInv
  <2>1. Init => \A n \in Names : hash[n] = Absent
    BY Zenon DEF Init
  <2>2. QED BY <2>1, AbsentIsHash DEF LastInv, Present
<1>2. IInv /\ LastInv /\ [Next]_vars =>
        [\A e \in Events :
           incident[e] \in closed' \ closed => observed[e] + Quiet <= now + MaxDelay]_vars
  <2> SUFFICES ASSUME IInv, LastInv, [Next]_vars, NEW e \in Events,
                      incident[e] \in closed', incident[e] \notin closed
               PROVE  observed[e] + Quiet <= now + MaxDelay
    OBVIOUS
  <2>1. PICK r \in Replicas, n \in Names :
          sweep[r].pc = "closing" /\ Closes(n, sweep[r].cutoff)
    BY ClosedSteps
  <2>2. /\ incident[e] = <<n, hash[n].id>> /\ Present(n) /\ hash[n].last <= sweep[r].cutoff
    BY <2>1 DEF Closes
  <2>3. observed[e] <= hash[n].last + MaxDelay
    BY <2>2 DEF LastInv
  <2>4. /\ sweep[r].cutoff = sweep[r].started - Quiet /\ sweep[r].started <= now
        /\ sweep[r].started \in Nat /\ hash[n].last \in Nat /\ observed[e] \in Nat
        /\ now \in Nat
    BY <2>1 DEF IInv, ClockInv, Types, SweepTypes, SweepState, StoreTypes, Hash,
                EventTypes, ClockTypes
  <2>5. QED BY <2>2, <2>3, <2>4, ParametersAreNumbers
<1>3. QED BY <1>1, <1>2, Invariance, NextLast, PTL DEF Spec, ClosedOnlyWhenQuiet

-----------------------------------------------------------------------------
(* Aggregated events rely on a notification.                               *)

LEMMA FaultsGrow ==
  ASSUME IInv, [Next]_vars
  PROVE  faults' = faults \/ faults' = faults + 1
<1>1. ASSUME NEW e \in Events, Work(e) PROVE faults' = faults \/ faults' = faults + 1
  BY <1>1 DEF Work, Observe, Record, RecordFails, Sent, SendFails, Release, Fault
<1>2. ASSUME NEW r \in Replicas, SweepStep(r) PROVE faults' = faults \/ faults' = faults + 1
  BY <1>2 DEF SweepStep, StartSweep, SkipSweep, Scan, Close, Peek, SendQuiet, SkipUnreadable,
              SendQuietFails, Drop, Fault
<1>3. CASE Tick \/ MoveVIP \/ Finished \/ UNCHANGED vars
  BY <1>3 DEF Tick, MoveVIP, Finished, vars
<1>4. QED BY <1>1, <1>2, <1>3 DEF Next

\* A notification stays what it is until it is released.
LEMMA NotificationSteps ==
  ASSUME IInv, [Next]_vars, NEW f \in Events, pc[f] \in Notifying
  PROVE  /\ count'[f] = count[f] /\ incident'[f] = incident[f]
         /\ pc'[f] \in Notifying \/ Release(f)
<1>1. ASSUME NEW e \in Events, Work(e), e # f
      PROVE  pc'[f] = pc[f] /\ count'[f] = count[f] /\ incident'[f] = incident[f]
  <2>1. \E p : GoTo(e, p)
    BY <1>1, ReleaseIs DEF Work, Observe, Record, RecordFails, Sent, SendFails
  <2>2. pc'[f] = pc[f]
    BY <1>1, <2>1 DEF GoTo, IInv, Types, EventTypes
  <2>3. \/ UNCHANGED incident
        \/ \E i : incident' = [incident EXCEPT ![e] = i]
    BY <1>1, ReleaseIs DEF Work, Observe, Record, RecordFails, Sent, SendFails, RecordScript
  <2>4. \/ UNCHANGED count
        \/ \E c : count' = [count EXCEPT ![e] = c]
    BY <1>1, ReleaseIs DEF Work, Observe, Record, RecordFails, Sent, SendFails
  <2>5. QED BY <1>1, <2>2, <2>3, <2>4 DEF IInv, Types, EventTypes
<1>2. CASE Work(f)
  BY <1>2, ReleaseIs DEF Work, Observe, Record, RecordFails, Sent, SendFails, GoTo, Notifying,
                         IInv, Types, EventTypes
<1>3. ASSUME NEW r \in Replicas, SweepStep(r) PROVE UNCHANGED <<pc, count, incident>>
  BY <1>3 DEF SweepStep, StartSweep, SkipSweep, Scan, Close, Peek, SendQuiet, SkipUnreadable,
              SendQuietFails, Drop, events
<1>4. CASE Tick \/ MoveVIP \/ Finished \/ UNCHANGED vars
  BY <1>4 DEF Tick, MoveVIP, Finished, vars, events
<1>5. QED BY <1>1, <1>2, <1>3, <1>4 DEF Next

\* A lost claim is taken up again only by a record that notifies.
LEMMA ClaimSteps ==
  ASSUME IInv, [Next]_vars, NEW n \in Names, NEW k,
         <<n, k>> \in lostClaims, <<n, k>> \notin lostClaims'
  PROVE  \E e \in Events : Records(e, n) /\ Notify(Counted(e))
<1>1. ASSUME NEW e \in Events, Work(e)
      PROVE  Records(e, n) /\ Notify(Counted(e))
  <2>1. Record(e)
    BY <1>1, ReleaseIs DEF Work, Observe, RecordFails, Sent, SendFails
  <2>2. Notify(Counted(e)) /\ <<n, k>> = incident'[e]
    BY <2>1 DEF Record
  <2>3. PICK m \in Names : m = NameOf[e]
    BY EventAssumption
  <2>4. Records(e, m)
    BY <2>1, <2>3, RecordScriptRecords DEF Record
  <2>5. m = n
    BY <2>2, <2>4 DEF Records, IInv, Types, EventTypes
  <2>6. QED BY <2>2, <2>4, <2>5
<1>2. ASSUME NEW r \in Replicas, SweepStep(r) PROVE UNCHANGED lostClaims
  BY <1>2 DEF SweepStep, StartSweep, SkipSweep, Scan, Close, Peek, SendQuiet, SkipUnreadable,
              SendQuietFails, Drop, events
<1>3. CASE Tick \/ MoveVIP \/ Finished \/ UNCHANGED vars
  BY <1>3 DEF Tick, MoveVIP, Finished, vars, events
<1>4. QED BY <1>1, <1>2, <1>3 DEF Next

\* An event that is aggregated has the notification its incident relies on.
LEMMA AggregatedKeepsNotification ==
  ASSUME IInv, NEW e \in Events, NEW n \in Names, Records(e, n), ~Notify(Counted(e))
  PROVE  /\ Present(n) /\ hash[n].notified # 0
         /\ hash'[n].id = hash[n].id /\ hash'[n].notified = hash[n].notified
<1>1. /\ Counted(e).notified = hash[n].notified
      /\ NewHash(e).id = IF Present(n) THEN hash[n].id ELSE opened[n] + 1
      /\ NewHash(e).notified = hash[n].notified
  BY CountedFields, NewHashFields DEF Records, IInv
<1>2. hash[n].notified # 0
  BY <1>1 DEF Notify
<1>3. Present(n)
  BY <1>2, AbsentIsHash DEF IInv, HashInv
<1>4. QED BY <1>1, <1>2, <1>3 DEF Records

\* A record that notifies is answered to its worker, or its claim is lost.
LEMMA NotifiedIsAnswered ==
  ASSUME IInv, NEW e \in Events, NEW n \in Names, Records(e, n), Notify(Counted(e)),
         <<n, hash'[n].id>> \notin lostClaims'
  PROVE  /\ pc'[e] = "sending" /\ count'[e] = hash'[n].notified
         /\ incident'[e] = <<n, hash'[n].id>>
<1>1. incident'[e] = <<n, hash'[n].id>>
  BY DEF Records, IInv, Types, EventTypes
<1>2. /\ Counted(e).count = hash[n].count + 1 /\ hash'[n].count = hash[n].count + 1
      /\ hash'[n].notified = hash[n].count + 1 /\ hash[n].count \in Nat
  BY CountedFields, NewHashFields DEF Records, IInv, Types, StoreTypes, Hash
<1>3. Record(e)
  <2>1. hash' # hash
    BY <1>2
  <2>2. RecordFails(e) => incident'[e] \in lostClaims'
    BY <2>1 DEF RecordFails, store
  <2>3. QED BY <1>1, <2>2 DEF Records
<1>4. pc'[e] = "sending" /\ count'[e] = Counted(e).count
  BY <1>3 DEF Record, GoTo, IInv, Types, EventTypes
<1>5. QED BY <1>1, <1>2, <1>4

LEMMA NextNotified ==
  ASSUME IInv, NotifiedInv, [Next]_vars
  PROVE  NotifiedInv'
<1> SUFFICES ASSUME NEW n \in Names, Present(n)', hash'[n].notified # 0,
                    <<n, hash'[n].id>> \notin lostClaims'
             PROVE  \E f \in Events : /\ incident'[f] = <<n, hash'[n].id>>
                                      /\ count'[f] = hash'[n].notified
                                      /\ pc'[f] \in Notifying
  BY DEF NotifiedInv
<1>1. CASE \E e \in Events : Records(e, n) /\ Notify(Counted(e))
  BY <1>1, NotifiedIsAnswered DEF Notifying
<1>2. CASE ~\E e \in Events : Records(e, n) /\ Notify(Counted(e))
  <2>1. <<n, hash'[n].id>> \notin lostClaims
    BY <1>2, ClaimSteps
  <2>2. ASSUME Present(n), hash[n].notified # 0, hash'[n].id = hash[n].id,
               hash'[n].notified = hash[n].notified
        PROVE  \E f \in Events : /\ incident'[f] = <<n, hash'[n].id>>
                                 /\ count'[f] = hash'[n].notified
                                 /\ pc'[f] \in Notifying
    <3>1. PICK f \in Events : /\ incident[f] = <<n, hash[n].id>> /\ count[f] = hash[n].notified
                              /\ pc[f] \in Notifying
      BY <2>1, <2>2 DEF NotifiedInv
    <3>2. /\ count'[f] = count[f] /\ incident'[f] = incident[f]
          /\ pc'[f] \in Notifying \/ Release(f)
      BY <3>1, NotificationSteps
    <3>3. NameOf[f] = n
      BY <3>1 DEF IInv, EventInv
    <3>4. ~Release(f)
      <4>1. SUFFICES ASSUME Release(f) PROVE FALSE
        OBVIOUS
      <4>2. CASE hash' = [hash EXCEPT ![NameOf[f]] = Released(NameOf[f], count[f])]
        <5>1. hash'[n].notified = 0
          BY <3>1, <3>3, <4>2, ReleasedFields DEF IInv, Types, StoreTypes
        <5>2. QED BY <2>2, <5>1
      <4>3. CASE lostClaims' = lostClaims \cup {incident[f]}
        BY <2>2, <3>1, <4>3
      <4>4. QED BY <4>1, <4>2, <4>3, ReleaseIs
    <3>5. QED BY <2>2, <3>1, <3>2, <3>4
  <2>3. CASE hash'[n] = hash[n]
    BY <2>2, <2>3 DEF Present
  <2>4. hash'[n] # Absent
    BY AbsentIsHash DEF Present
  <2>5. ASSUME NEW e \in Events, Releases(e, n)
        PROVE  /\ Present(n) /\ hash[n].notified # 0 /\ hash'[n].id = hash[n].id
               /\ hash'[n].notified = hash[n].notified
    <3>1. /\ hash'[n].notified = hash[n].notified /\ hash'[n].id = hash[n].id
          /\ hash'[n].count = hash[n].count
      BY <2>5, ReleasedFields DEF Releases, IInv
    <3>2. QED BY <3>1 DEF Present
  <2>6. ASSUME NEW e \in Events, Records(e, n)
        PROVE  /\ Present(n) /\ hash[n].notified # 0 /\ hash'[n].id = hash[n].id
               /\ hash'[n].notified = hash[n].notified
    BY <1>2, <2>6, AggregatedKeepsNotification
  <2>7. QED BY <2>2, <2>3, <2>4, <2>5, <2>6, HashSteps
<1>3. QED BY <1>1, <1>2

\* An event is aggregated behind the notification of another event of its incident,
\* less than ReminderEvery before it, which was not released, or behind a claim to
\* notify that a lost reply or a failed release left to nobody.
THEOREM AggregationIsBacked == Spec => AggregatedBehindNotification
<1>1. Init => NotifiedInv
  <2>1. Init => \A n \in Names : hash[n] = Absent
    BY Zenon DEF Init
  <2>2. QED BY <2>1, AbsentIsHash DEF NotifiedInv, Present
<1>2. IInv /\ NotifiedInv /\ [Next]_vars =>
        [\A e \in Events : /\ pc[e] # "aggregated" /\ pc'[e] = "aggregated"
                           /\ incident'[e] \notin lostClaims
           => \E f \in Events : /\ incident'[f] = incident'[e]
                                /\ pc[f] \in {"sending", "sent", "releasing"}
                                /\ count'[e] - count[f] \in 1..(ReminderEvery - 1)]_vars
  <2> SUFFICES ASSUME IInv, NotifiedInv, [Next]_vars, NEW e \in Events,
                      pc[e] # "aggregated", pc'[e] = "aggregated",
                      incident'[e] \notin lostClaims
               PROVE  \E f \in Events : /\ incident'[f] = incident'[e]
                                        /\ pc[f] \in {"sending", "sent", "releasing"}
                                        /\ count'[e] - count[f] \in 1..(ReminderEvery - 1)
    OBVIOUS
  <2>1. Record(e)
    <3>1. ASSUME NEW f \in Events, Work(f), f # e PROVE FALSE
      <4>1. \E p : GoTo(f, p)
        BY <3>1, ReleaseIs DEF Work, Observe, Record, RecordFails, Sent, SendFails
      <4>2. QED BY <3>1, <4>1 DEF GoTo, IInv, Types, EventTypes
    <3>2. ASSUME NEW r \in Replicas, SweepStep(r) PROVE FALSE
      BY <3>2 DEF SweepStep, StartSweep, SkipSweep, Scan, Close, Peek, SendQuiet,
                  SkipUnreadable, SendQuietFails, Drop, events
    <3>3. ~(Tick \/ MoveVIP \/ Finished \/ UNCHANGED vars)
      BY DEF Tick, MoveVIP, Finished, vars, events
    <3>4. Work(e)
      BY <3>1, <3>2, <3>3 DEF Next
    <3>5. ~Release(e)
      BY ReleaseIs DEF GoTo, IInv, Types, EventTypes
    <3>6. QED
      BY <3>4, <3>5 DEF Work, Observe, RecordFails, Sent, SendFails, GoTo, IInv, Types,
                        EventTypes
  <2>2. PICK n \in Names : n = NameOf[e]
    BY EventAssumption
  <2>3. Records(e, n)
    BY <2>1, <2>2, RecordScriptRecords DEF Record
  <2>4. ~Notify(Counted(e))
    BY <2>1 DEF Record, GoTo, IInv, Types, EventTypes
  <2>5. /\ Present(n) /\ hash[n].notified # 0 /\ hash'[n].id = hash[n].id
    BY <2>3, <2>4, AggregatedKeepsNotification
  <2>6. incident'[e] = <<n, hash[n].id>>
    BY <2>3, <2>5 DEF Records, IInv, Types, EventTypes
  <2>7. PICK f \in Events : /\ incident[f] = <<n, hash[n].id>>
                            /\ count[f] = hash[n].notified
                            /\ pc[f] \in Notifying
    BY <2>5, <2>6 DEF NotifiedInv
  <2>8. incident'[f] = <<n, hash[n].id>>
    BY <2>7, NotificationSteps
  <2>9. count'[e] - count[f] \in 1..(ReminderEvery - 1)
    <3>1. PICK c \in Nat, d \in Nat, k \in Nat \ {0} :
            /\ c = hash[n].count /\ d = hash[n].notified /\ k = ReminderEvery /\ d <= c
      BY ParametersAreNumbers DEF IInv, HashInv, Types, StoreTypes, Hash
    <3>2. /\ Counted(e).count = c + 1 /\ Counted(e).notified = d
      BY <2>2, <3>1, CountedFields DEF IInv
    <3>3. count'[e] = c + 1
      BY <2>1, <3>2 DEF Record, IInv, Types, EventTypes
    <3>4. ~(c + 1 - d >= k)
      BY <2>4, <3>1, <3>2 DEF Notify
    <3>5. c + 1 - d \in 1..(k - 1)
      BY <3>1, <3>4
    <3>6. QED BY <2>7, <3>1, <3>3, <3>5
  <2>10. QED BY <2>6, <2>7, <2>8, <2>9 DEF Notifying
<1>3. QED BY <1>1, <1>2, Invariance, NextNotified, PTL DEF Spec, AggregatedBehindNotification

-----------------------------------------------------------------------------
(* The outbox.                                                             *)

LEMMA MovesGrow ==
  ASSUME IInv, [Next]_vars, moves' = 0
  PROVE  moves = 0 /\ vip' = vip
<1>1. ASSUME NEW e \in Events, Work(e) PROVE UNCHANGED <<moves, vip>>
  BY <1>1 DEF Work, Observe, Record, RecordFails, Sent, SendFails, Release
<1>2. ASSUME NEW r \in Replicas, SweepStep(r) PROVE UNCHANGED <<moves, vip>>
  BY <1>2 DEF SweepStep, StartSweep, SkipSweep, Scan, Close, Peek, SendQuiet, SkipUnreadable,
              SendQuietFails, Drop
<1>3. CASE Tick \/ Finished \/ UNCHANGED vars
  BY <1>3 DEF Tick, Finished, vars
<1>4. ~MoveVIP
  BY DEF MoveVIP, IInv, Types, ClockTypes
<1>5. QED BY <1>1, <1>2, <1>3, <1>4 DEF Next

\* Only a sweeper's own step changes its sweep, and only the VIP's holder starts one.
LEMMA SweepStepSweeps ==
  ASSUME IInv, NEW r \in Replicas, SweepStep(r)
  PROVE  \A q \in Replicas \ {r} : sweep'[q] = sweep[q]
<1>1. \E s : Sweep(r, s)
  <2>1. CASE Close(r)
    BY <2>1, CloseIs DEF Continues
  <2>2. CASE Drop(r)
    BY <2>2, DropIs DEF Continues, Ends
  <2>3. QED
    BY <2>1, <2>2 DEF SweepStep, StartSweep, SkipSweep, Scan, Peek, SendQuiet,
                      SkipUnreadable, SendQuietFails
<1>2. QED BY <1>1 DEF Sweep, IInv, Types, SweepTypes

LEMMA SweepSteps ==
  ASSUME IInv, [Next]_vars, NEW r \in Replicas
  PROVE  sweep'[r] = sweep[r] \/ SweepStep(r)
<1>1. ASSUME NEW e \in Events, Work(e) PROVE UNCHANGED sweep
  BY <1>1 DEF Work, Observe, Record, RecordFails, Sent, SendFails, Release
<1>2. ASSUME NEW q \in Replicas, SweepStep(q), q # r PROVE sweep'[r] = sweep[r]
  BY <1>2, SweepStepSweeps
<1>3. CASE Tick \/ MoveVIP \/ Finished \/ UNCHANGED vars
  BY <1>3 DEF Tick, MoveVIP, Finished, vars
<1>4. QED BY <1>1, <1>2, <1>3 DEF Next

LEMMA NextOneSweeper ==
  ASSUME IInv, OneSweeper, [Next]_vars
  PROVE  OneSweeper'
<1> SUFFICES ASSUME moves' = 0
             PROVE  /\ vip' = VIPHolder
                    /\ \A r \in Replicas : sweep'[r].pc # "idle" => r = VIPHolder
  BY DEF OneSweeper
<1>1. /\ moves = 0 /\ vip' = vip /\ vip = VIPHolder
      /\ \A r \in Replicas : sweep[r].pc # "idle" => r = VIPHolder
  BY MovesGrow DEF OneSweeper
<1>2. ASSUME NEW r \in Replicas, sweep'[r].pc # "idle", sweep[r].pc = "idle"
      PROVE  r = VIPHolder
  <2>1. SweepStep(r)
    BY <1>2, SweepSteps
  <2>2. StartSweep(r) \/ SkipSweep(r)
    BY <1>2, <2>1 DEF SweepStep, Scan, Close, Peek, SendQuiet, SkipUnreadable,
                      SendQuietFails, Drop
  <2>3. ~SkipSweep(r)
    <3>1. SUFFICES ASSUME SkipSweep(r) PROVE FALSE
      OBVIOUS
    <3>2. PICK s \in SweepState : Sweep(r, s) /\ s.pc = "idle"
      BY <3>1, SkipSweepIs
    <3>3. QED BY <1>2, <3>2 DEF Sweep, IInv, Types, SweepTypes
  <2>4. QED BY <1>1, <2>2, <2>3 DEF StartSweep, HasVIP
<1>3. QED BY <1>1, <1>2

LEMMA NextLabelled ==
  ASSUME IInv, Labelled, LabelledHashes, [Next]_vars
  PROVE  LabelledHashes'
<1> SUFFICES ASSUME NEW n \in Names, Present(n)'
             PROVE  hash'[n].hosts # {} /\ hash'[n].processes # {}
  BY DEF LabelledHashes
<1>1. CASE hash'[n] = hash[n]
  BY <1>1 DEF LabelledHashes, Present
<1>2. hash'[n] # Absent
  BY AbsentIsHash DEF Present
<1>3. ASSUME NEW e \in Events, Releases(e, n)
      PROVE  hash'[n].hosts # {} /\ hash'[n].processes # {}
  <2>1. /\ hash'[n].count = hash[n].count /\ hash'[n].hosts = hash[n].hosts
        /\ hash'[n].processes = hash[n].processes
    BY <1>3, ReleasedFields DEF Releases, IInv
  <2>2. QED BY <2>1 DEF LabelledHashes, Present
<1>4. ASSUME NEW e \in Events, Records(e, n)
      PROVE  hash'[n].hosts # {} /\ hash'[n].processes # {}
  <2>1. /\ hash'[n].hosts = hash[n].hosts \cup Labels(HostOf[e])
        /\ hash'[n].processes = hash[n].processes \cup Labels(ProcessOf[e])
    BY <1>4, NewHashFields DEF Records, IInv
  <2>2. HostOf[e] \in Labels(HostOf[e]) /\ ProcessOf[e] \in Labels(ProcessOf[e])
    BY DEF Labelled, Labels
  <2>3. QED BY <2>1, <2>2
<1>5. QED BY <1>1, <1>2, <1>3, <1>4, HashSteps

\* Steps that change neither the outbox nor what became of its items.
LEMMA SameOutbox ==
  ASSUME IInv, Outbox, UNCHANGED <<outbox, closed, sent, trimmed, overtrimmed>>,
         \A r \in Replicas : Holding(r)' /\ r \notin shifted' =>
           \/ Holding(r) /\ r \notin shifted /\ sweep'[r] = sweep[r]
           \/ HoldsHead(sweep'[r])
  PROVE  Outbox'
<1>1. Ids(outbox)' = Ids(outbox)
  OBVIOUS
<1>2. ASSUME NEW r \in Replicas, Holding(r)', r \notin shifted'
      PROVE  HoldsHead(sweep[r])'
  BY <1>2 DEF Outbox, HoldsHead
<1>3. QED BY <1>1, <1>2 DEF Outbox

LEMMA CloseOutbox ==
  ASSUME IInv, LabelledHashes, Outbox, NEW r \in Replicas, Close(r)
  PROVE  Outbox'
<1>1. PICK s \in SweepState, n \in Names :
        /\ Continues(r, s) /\ sweep[r].pc = "closing" /\ s.pc = "closing"
        /\ CloseScript(n, sweep[r].cutoff) \/ UNCHANGED <<store, closed, trimmed, shifted>>
  BY CloseIs
<1>2. \A q \in Replicas : Holding(q)' => Holding(q) /\ sweep'[q] = sweep[q]
  <2>1. sweep'[r] = s /\ \A q \in Replicas \ {r} : sweep'[q] = sweep[q]
    BY <1>1 DEF Continues, Sweep, IInv, Types, SweepTypes
  <2>2. QED BY <1>1, <2>1 DEF Holding
<1>3. UNCHANGED <<sent, overtrimmed>>
  BY DEF Close
<1>4. CASE UNCHANGED <<store, closed, trimmed, shifted>>
  BY <1>2, <1>3, <1>4, SameOutbox DEF store
<1>5. CASE Closes(n, sweep[r].cutoff)
  <2>1. /\ Present(n) /\ closed' = closed \cup {<<n, hash[n].id>>}
        /\ \A i \in 1..Len(outbox') :
             outbox'[i] = Item(n) \/ \E k \in 1..Len(outbox) : outbox'[i] = outbox[k]
        /\ Ids(outbox) \cup {<<n, hash[n].id>>} \subseteq Ids(outbox') \cup trimmed'
        /\ trimmed \subseteq trimmed'
        /\ \/ shifted' = Replicas
           \/ /\ shifted' = shifted /\ Len(outbox) <= Len(outbox')
              /\ \A i \in 1..Len(outbox) : outbox'[i] = outbox[i]
    BY <1>5 DEF Closes
  <2>2. Item(n).readable
    BY <2>1, ItemIsItem DEF LabelledHashes
  <2>3. \A i \in 1..Len(outbox') : outbox'[i].readable
    BY <2>1, <2>2 DEF Outbox
  <2>4. closed' \subseteq sent' \cup trimmed' \cup Ids(outbox') \cup overtrimmed'
    BY <1>3, <2>1 DEF Outbox
  <2>5. ASSUME NEW q \in Replicas, Holding(q)', q \notin shifted'
        PROVE  HoldsHead(sweep[q])'
    <3>1. /\ shifted' = shifted /\ Len(outbox) <= Len(outbox')
          /\ \A i \in 1..Len(outbox) : outbox'[i] = outbox[i]
      BY <2>1, <2>5
    <3>2. /\ sweep'[q] = sweep[q] /\ HoldsHead(sweep[q])
          /\ sweep[q].delivered <= Len(sweep[q].batch)
      BY <1>2, <2>5, <3>1 DEF Outbox, IInv, SweepInv
    <3>3. /\ Len(outbox) \in Nat /\ Len(outbox') \in Nat /\ Len(sweep[q].batch) \in Nat
          /\ sweep[q].delivered \in Nat
      <4>1. outbox' \in Seq(Items) /\ outbox \in Seq(Items) /\ sweep[q] \in SweepState
        BY <1>5 DEF Closes, IInv, Types, StoreTypes, SweepTypes
      <4>2. sweep[q].batch \in Seq(Items) /\ sweep[q].delivered \in Nat
        BY <4>1 DEF SweepState
      <4>3. QED BY <4>1, <4>2
    <3>4. PICK l \in Nat, d \in Nat : /\ l = Len(sweep[q].batch) /\ d = sweep[q].delivered
                                      /\ l <= Len(outbox) /\ d <= l
      BY <3>2, <3>3 DEF HoldsHead
    <3>5. \A i \in 1..l : i \in 1..Len(outbox)
      BY <3>3, <3>4
    <3>6. \A i \in 1..d : i \in 1..Len(outbox)
      BY <3>4, <3>5
    <3>7. /\ l <= Len(outbox')
          /\ \A i \in 1..l : sweep[q].batch[i] = outbox'[i]
          /\ \A i \in 1..d : outbox'[i].id \in sent
      <4>1. /\ \A i \in 1..l : sweep[q].batch[i] = outbox[i]
            /\ \A i \in 1..d : outbox[i].id \in sent
        BY <3>2, <3>4 DEF HoldsHead
      <4>2. l <= Len(outbox')
        BY <3>1, <3>3, <3>4
      <4>3. \A i \in 1..l : sweep[q].batch[i] = outbox'[i]
        BY <3>1, <3>5, <4>1
      <4>4. \A i \in 1..d : outbox'[i].id \in sent
        BY <3>1, <3>6, <4>1
      <4>5. QED BY <4>2, <4>3, <4>4
    <3>8. QED BY <1>3, <3>2, <3>4, <3>7 DEF HoldsHead
  <2>6. Ids(outbox)' = Ids(outbox')
    BY DEF Ids
  <2>7. QED BY <2>3, <2>4, <2>5, <2>6 DEF Outbox
<1>6. sweep[r].cutoff \in Int
  BY DEF IInv, Types, SweepTypes, SweepState
<1>7. QED BY <1>1, <1>4, <1>5, <1>6, CloseScriptIs

LEMMA DeliverOutbox ==
  ASSUME IInv, Outbox, NEW r \in Replicas,
         SendQuiet(r) \/ SkipUnreadable(r) \/ SendQuietFails(r)
  PROVE  Outbox'
<1>1. PICK s \in SweepState, item \in Items :
        /\ Continues(r, s) /\ sweep[r].pc = "publishing" /\ s.batch = sweep[r].batch
        /\ sweep[r].delivered + 1 \in 1..Len(s.batch)
        /\ item = s.batch[sweep[r].delivered + 1]
        /\ \/ /\ s.delivered = sweep[r].delivered + 1
              /\ item.readable /\ sent' = sent \cup {item.id}
           \/ s.delivered = sweep[r].delivered + 1 /\ ~item.readable /\ UNCHANGED sent
           \/ s.delivered = sweep[r].delivered /\ UNCHANGED sent
  BY DeliverIs
<1>2. UNCHANGED <<outbox, closed, trimmed, shifted, overtrimmed>>
  BY DEF SendQuiet, SkipUnreadable, SendQuietFails, store, outcome
<1>3. sent \subseteq sent' /\ sweep[r].delivered \in Nat
  BY <1>1 DEF IInv, Types, SweepTypes, SweepState
<1>4. ASSUME r \notin shifted PROVE HoldsHead(s)'
  <2>1. HoldsHead(sweep[r])
    BY <1>1, <1>4 DEF Outbox, Holding
  <2>2. item = outbox[sweep[r].delivered + 1] /\ item.readable
    <3>1. Len(s.batch) <= Len(outbox) /\ Len(s.batch) \in Nat /\ Len(outbox) \in Nat
      BY <1>1, <2>1 DEF HoldsHead, IInv, Types, StoreTypes, SweepState
    <3>2. sweep[r].delivered + 1 \in 1..Len(outbox)
      BY <1>1, <3>1
    <3>3. QED BY <1>1, <2>1, <3>2 DEF HoldsHead, Outbox
  <2>3. \A i \in 1..s.delivered : outbox[i].id \in sent'
    <3>1. \A i \in 1..sweep[r].delivered : outbox[i].id \in sent
      BY <2>1 DEF HoldsHead
    <3>2. CASE s.delivered = sweep[r].delivered + 1 /\ sent' = sent \cup {item.id}
      <4>1. \A i \in 1..s.delivered : i \in 1..sweep[r].delivered \/ i = s.delivered
        BY <1>3, <3>2
      <4>2. QED BY <2>2, <3>1, <3>2, <4>1
    <3>3. CASE s.delivered = sweep[r].delivered /\ UNCHANGED sent
      BY <3>1, <3>3
    <3>4. QED BY <1>1, <2>2, <3>2, <3>3
  <2>4. QED BY <1>1, <1>2, <2>1, <2>3 DEF HoldsHead
<1>5. ASSUME NEW q \in Replicas, Holding(q)', q \notin shifted'
      PROVE  HoldsHead(sweep[q])'
  <2>1. CASE q = r
    <3>1. sweep'[r] = s
      BY <1>1 DEF Continues, Sweep, IInv, Types, SweepTypes
    <3>2. QED BY <1>2, <1>4, <1>5, <2>1, <3>1 DEF HoldsHead
  <2>2. CASE q # r
    <3>1. sweep'[q] = sweep[q]
      BY <1>1, <2>2 DEF Continues, Sweep, IInv, Types, SweepTypes
    <3>2. HoldsHead(sweep[q])
      BY <1>2, <1>5, <3>1 DEF Outbox, Holding
    <3>3. QED BY <1>2, <1>3, <3>1, <3>2 DEF HoldsHead
  <2>3. QED BY <2>1, <2>2
<1>6. closed' \subseteq sent' \cup trimmed' \cup Ids(outbox)' \cup overtrimmed'
  <2>1. Ids(outbox)' = Ids(outbox)
    BY <1>2
  <2>2. QED BY <1>2, <1>3, <2>1 DEF Outbox
<1>7. QED BY <1>2, <1>5, <1>6 DEF Outbox

LEMMA DropOutbox ==
  ASSUME IInv, Outbox, NEW r \in Replicas, Drop(r)
  PROVE  Outbox'
<1>1. Holding(r) /\ (Trim(r) \/ UNCHANGED <<outbox, shifted, overtrimmed>>)
  BY DropIs
<1>2. UNCHANGED <<closed, sent, trimmed>>
  BY DEF Drop
<1>3. CASE UNCHANGED <<outbox, shifted, overtrimmed>>
  <2>1. PICK s : Sweep(r, s) /\ (s.pc = "idle" \/ s = sweep[r])
    BY DropIs DEF Ends, Continues
  <2>2. sweep'[r] = s /\ \A q \in Replicas \ {r} : sweep'[q] = sweep[q]
    BY <2>1 DEF Sweep, IInv, Types, SweepTypes
  <2>3. \A q \in Replicas : Holding(q)' => Holding(q) /\ sweep'[q] = sweep[q]
    BY <1>1, <2>1, <2>2 DEF Holding
  <2>4. QED BY <1>2, <1>3, <2>3, SameOutbox
<1>4. CASE Trim(r)
  <2>1. outbox \in Seq(Items) /\ sweep[r].delivered \in Nat
    BY DEF IInv, Types, StoreTypes, SweepTypes, SweepState
  <2>2. PICK d \in Nat, x \in Seq(Items) :
          /\ d = sweep[r].delivered /\ x = outbox'
          /\ \A i \in 1..Len(x) : d + i \in 1..Len(outbox) /\ x[i] = outbox[d + i]
          /\ \A j \in (d + 1)..Len(outbox) : j - d \in 1..Len(x) /\ x[j - d] = outbox[j]
    <3>1. PICK d \in Nat : d = sweep[r].delivered
      BY <2>1
    <3>2. PICK x \in Seq(Items) :
            /\ x = SubSeq(outbox, d + 1, Len(outbox))
            /\ \A i \in 1..Len(x) : d + i \in 1..Len(outbox) /\ x[i] = outbox[d + i]
            /\ \A j \in (d + 1)..Len(outbox) : j - d \in 1..Len(x) /\ x[j - d] = outbox[j]
      <4> DEFINE y == SubSeq(outbox, d + 1, Len(outbox))
      <4>1. /\ y \in Seq(Items)
            /\ \A i \in 1..Len(y) : d + i \in 1..Len(outbox) /\ y[i] = outbox[d + i]
            /\ \A j \in (d + 1)..Len(outbox) : j - d \in 1..Len(y) /\ y[j - d] = outbox[j]
        BY <2>1, RestOfOutbox
      <4>2. y = SubSeq(outbox, d + 1, Len(outbox))
        OBVIOUS
      <4> HIDE DEF y
      <4>3. QED BY <4>1, <4>2
    <3>3. QED BY <1>4, <3>1, <3>2 DEF Trim
  <2>3. \A i \in 1..Len(outbox') : outbox'[i].readable
    BY <2>2 DEF Outbox
  <2>4. CASE r \in shifted
    <3>1. Ids(outbox) \subseteq Ids(outbox') \cup sent \cup overtrimmed'
          /\ overtrimmed \subseteq overtrimmed'
      BY <1>4, <2>4 DEF Trim
    <3>2. QED
      BY <1>2, <1>4, <2>3, <3>1 DEF Trim, Outbox, Ids
  <2>5. CASE r \notin shifted
    <3>1. \A i \in 1..d : outbox[i].id \in sent
      BY <1>1, <2>2, <2>5 DEF Outbox, HoldsHead
    <3>2. Ids(outbox) \subseteq Ids(outbox') \cup sent
      <4>1. ASSUME NEW j \in DOMAIN outbox PROVE outbox[j].id \in Ids(outbox') \cup sent
        <5>1. j \in 1..Len(outbox) /\ j \in Nat /\ Len(outbox) \in Nat
          BY <2>1
        <5>2. CASE j <= d
          BY <3>1, <5>1, <5>2
        <5>3. CASE ~(j <= d)
          <6>1. j \in (d + 1)..Len(outbox)
            BY <5>1, <5>3
          <6>2. j - d \in DOMAIN x /\ x[j - d] = outbox[j]
            BY <2>2, <6>1
          <6>3. x[j - d].id \in Ids(x)
            BY <6>2, IdsOfSequence
          <6>4. QED BY <2>2, <6>2, <6>3
        <5>4. QED BY <5>2, <5>3
      <4>2. QED BY <4>1, IdsOfSequence
    <3>3. overtrimmed' = overtrimmed
      BY <1>4, <2>5 DEF Trim
    <3>4. QED
      BY <1>2, <1>4, <2>3, <3>2, <3>3 DEF Trim, Outbox, Ids
  <2>6. QED BY <2>4, <2>5
<1>5. QED BY <1>1, <1>3, <1>4

LEMMA PeekOutbox ==
  ASSUME IInv, Outbox, NEW r \in Replicas, Peek(r)
  PROVE  Outbox'
<1>1. UNCHANGED <<outbox, closed, sent, trimmed, overtrimmed>> /\ shifted' = shifted \ {r}
  BY DEF Peek, store
<1>2. sweep[r].delivered = 0
  BY PeekIs DEF IInv, SweepInv
<1>3. PICK s : /\ Sweep(r, s)
               /\ s.pc # "idle" => HoldsHead(s)
  BY <1>2, PeekIs DEF Continues, Ends, HoldsHead
<1>4. sweep'[r] = s /\ \A q \in Replicas \ {r} : sweep'[q] = sweep[q]
  BY <1>3 DEF Sweep, IInv, Types, SweepTypes
<1>5. ASSUME NEW q \in Replicas, Holding(q)', q \notin shifted'
      PROVE  \/ Holding(q) /\ q \notin shifted /\ sweep'[q] = sweep[q]
             \/ HoldsHead(sweep'[q])
  BY <1>1, <1>3, <1>4, <1>5 DEF Holding
<1>6. QED BY <1>1, <1>5, SameOutbox

LEMMA NextOutbox ==
  ASSUME IInv, Labelled, LabelledHashes, Outbox, [Next]_vars
  PROVE  Outbox'
<1>1. ASSUME NEW e \in Events, Work(e) PROVE Outbox'
  <2>1. UNCHANGED <<outbox, outcome, sweep>>
    BY <1>1, ReleaseIs DEF Work, Observe, Record, RecordFails, Sent, SendFails, RecordScript,
                           store
  <2>2. QED BY <2>1, SameOutbox DEF outcome, Holding
<1>2. ASSUME NEW r \in Replicas, SweepStep(r) PROVE Outbox'
  <2>1. CASE Close(r) \/ Drop(r) \/ SendQuiet(r) \/ SkipUnreadable(r) \/ SendQuietFails(r)
             \/ Peek(r)
    BY <2>1, CloseOutbox, DeliverOutbox, DropOutbox, PeekOutbox
  <2>2. CASE StartSweep(r) \/ SkipSweep(r) \/ Scan(r)
    <3>1. UNCHANGED <<outbox, outcome>>
      BY <2>2 DEF StartSweep, SkipSweep, Scan, store
    <3>2. PICK s : Sweep(r, s) /\ s.pc \in {"idle", "scanning", "closing"}
      BY <2>2, StartSweepIs, SkipSweepIs, ScanIs DEF Continues
    <3>3. sweep'[r] = s /\ \A q \in Replicas \ {r} : sweep'[q] = sweep[q]
      BY <3>2 DEF Sweep, IInv, Types, SweepTypes
    <3>4. \A q \in Replicas : Holding(q)' => Holding(q) /\ sweep'[q] = sweep[q]
      BY <3>2, <3>3 DEF Holding
    <3>5. QED BY <3>1, <3>4, SameOutbox DEF outcome
  <2>3. QED BY <1>2, <2>1, <2>2 DEF SweepStep
<1>3. ASSUME Tick \/ MoveVIP \/ Finished \/ UNCHANGED vars PROVE Outbox'
  <2>1. UNCHANGED <<outbox, outcome, sweep>>
    BY <1>3 DEF Tick, MoveVIP, Finished, vars, store
  <2>2. QED BY <2>1, SameOutbox DEF outcome, Holding
<1>4. QED BY <1>1, <1>2, <1>3 DEF Next

\* With one sweeper and no failing call, only the sweeper that holds the head moves it.
LEMMA NextUndisturbed ==
  ASSUME IInv, OneSweeper, Undisturbed, [Next]_vars
  PROVE  Undisturbed'
<1> SUFFICES ASSUME faults' = 0, moves' = 0
             PROVE  overtrimmed' = {} /\ \A r \in Replicas : Holding(r)' => r \notin shifted'
  BY DEF Undisturbed
<1>1. faults = 0 /\ moves = 0
  BY FaultsGrow, MovesGrow DEF IInv, Types, ClockTypes
<1>2. overtrimmed = {} /\ \A r \in Replicas : Holding(r) => r \notin shifted
  BY <1>1 DEF Undisturbed
<1>3. ~Fault
  BY <1>1 DEF Fault
<1>4. ASSUME NEW e \in Events, Work(e) PROVE UNCHANGED <<outcome, sweep>>
  BY <1>4, ReleaseIs DEF Work, Observe, Record, RecordFails, Sent, SendFails
<1>5. ASSUME NEW r \in Replicas, SweepStep(r)
      PROVE  overtrimmed' = {} /\ \A q \in Replicas : Holding(q)' => q \notin shifted'
  <2>1. \A q \in Replicas \ {r} : sweep'[q] = sweep[q]
    BY <1>5, SweepSteps, SweepStepSweeps
  <2>2. CASE Drop(r)
    <3>1. Holding(r) /\ r \notin shifted /\ (Trim(r) \/ UNCHANGED <<shifted, overtrimmed>>)
      BY <1>2, <2>2, DropIs
    <3>2. overtrimmed' = {}
      BY <1>2, <3>1 DEF Trim
    <3>3. PICK s : Ends(r, s)
      BY <1>3, <2>2, DropIs
    <3>4. \A q \in Replicas : ~Holding(q)'
      <4>1. sweep'[r].pc = "idle"
        BY <3>3 DEF Ends, Sweep, IInv, Types, SweepTypes
      <4>2. \A q \in Replicas \ {r} : sweep[q].pc = "idle"
        BY <1>1, <3>1 DEF OneSweeper, Holding
      <4>3. QED BY <2>1, <4>1, <4>2 DEF Holding
    <3>5. QED BY <3>2, <3>4
  <2>3. CASE Close(r)
    <3>1. overtrimmed' = {} /\ sweep[r].pc = "closing"
      BY <1>2, <2>3 DEF Close
    <3>2. PICK s : Continues(r, s) /\ s.pc = "closing"
      BY <2>3, CloseIs
    <3>3. sweep'[r].pc = "closing"
      BY <3>2 DEF Continues, Sweep, IInv, Types, SweepTypes
    <3>4. \A q \in Replicas \ {r} : sweep[q].pc = "idle"
      BY <1>1, <3>1 DEF OneSweeper
    <3>5. QED BY <2>1, <3>1, <3>3, <3>4 DEF Holding
  <2>4. CASE Peek(r)
    <3>1. overtrimmed' = overtrimmed /\ shifted' = shifted \ {r}
      BY <2>4 DEF Peek
    <3>2. QED BY <1>2, <2>1, <3>1 DEF Holding
  <2>5. CASE SendQuiet(r) \/ SkipUnreadable(r) \/ SendQuietFails(r)
    <3>1. UNCHANGED <<shifted, overtrimmed>> /\ Holding(r)
      BY <2>5 DEF SendQuiet, SkipUnreadable, SendQuietFails, outcome, Holding
    <3>2. QED BY <1>2, <2>1, <3>1 DEF Holding
  <2>6. CASE StartSweep(r) \/ SkipSweep(r) \/ Scan(r)
    <3>1. UNCHANGED <<shifted, overtrimmed>>
      BY <2>6 DEF StartSweep, SkipSweep, Scan, outcome
    <3>2. PICK s : Sweep(r, s) /\ s.pc \in {"idle", "scanning", "closing"}
      BY <2>6, StartSweepIs, SkipSweepIs, ScanIs DEF Continues
    <3>3. sweep'[r] = s
      BY <3>2 DEF Sweep, IInv, Types, SweepTypes
    <3>4. QED BY <1>2, <2>1, <3>1, <3>2, <3>3 DEF Holding
  <2>7. QED BY <1>5, <2>2, <2>3, <2>4, <2>5, <2>6 DEF SweepStep
<1>6. CASE Tick \/ MoveVIP \/ Finished \/ UNCHANGED vars
  <2>1. UNCHANGED <<outcome, sweep>>
    BY <1>6 DEF Tick, MoveVIP, Finished, vars
  <2>2. QED BY <1>2, <2>1 DEF outcome, Holding
<1>7. ASSUME UNCHANGED <<outcome, sweep>>
      PROVE  overtrimmed' = {} /\ \A r \in Replicas : Holding(r)' => r \notin shifted'
  BY <1>2, <1>7 DEF outcome, Holding
<1>8. QED BY <1>4, <1>5, <1>6, <1>7 DEF Next

\* When every event parsed, a closed incident is announced, waits in the outbox, was
\* pushed out of it by its bound, or was taken from it by the trim of a sweeper that
\* no longer held its head; and none was while the VIP stayed and no call failed.
THEOREM OutboxKeepsClosed == Labelled => (Spec => []QuietNoticeKept)
<1> SUFFICES ASSUME Labelled PROVE Spec => []QuietNoticeKept
  OBVIOUS
<1>1. Init => OneSweeper /\ OutboxInv
  <2> SUFFICES ASSUME Init PROVE OneSweeper /\ OutboxInv
    OBVIOUS
  <2>1. /\ hash = [n \in Names |-> Absent] /\ outbox = << >> /\ closed = {}
        /\ sweep = [r \in Replicas |-> IdleSweep] /\ vip = VIPHolder /\ overtrimmed = {}
    BY Zenon DEF Init
  <2>2. \A r \in Replicas : sweep[r].pc = "idle"
    BY <2>1 DEF IdleSweep
  <2>3. \A n \in Names : ~Present(n)
    BY <2>1, AbsentIsHash DEF Present
  <2>4. QED
    BY <2>1, <2>2, <2>3
       DEF OneSweeper, OutboxInv, LabelledHashes, Outbox, Undisturbed, Holding
<1>2. IInv /\ OneSweeper /\ OutboxInv /\ [Next]_vars => OneSweeper' /\ OutboxInv'
  BY NextOneSweeper, NextLabelled, NextOutbox, NextUndisturbed DEF OutboxInv
<1>3. OutboxInv => QuietNoticeKept
  BY DEF OutboxInv, Outbox, Undisturbed, QuietNoticeKept
<1>4. QED BY <1>1, <1>2, <1>3, Invariance, PTL DEF Spec

-----------------------------------------------------------------------------
(* No incident expires, while the VIP stays where it was.                  *)

LEMMA PeriodIsLongest == /\ Period \in Nat
                         /\ MaxSweep <= Period /\ SweepEvery <= Period
BY ParametersAreNumbers DEF Period

LEMMA Amounts ==
  ASSUME Types, NEW n \in Names
  PROVE  /\ faults \in Nat /\ faults <= MaxFaults /\ hash[n].last \in Nat
         /\ Quiet \in Nat /\ MaxFaults \in Nat /\ MaxSweep \in Nat /\ Period \in Nat
BY PeriodIsLongest, ParametersAreNumbers DEF Types, ClockTypes, StoreTypes, Hash

\* A failing call moves the latest start of a sweep by a period.
LEMMA LatestGrows ==
  ASSUME IInv, [Next]_vars, NEW n \in Names, hash'[n].last = hash[n].last
  PROVE  /\ Latest(n) \in Int
         /\ \/ faults' = faults /\ Latest(n)' = Latest(n)
            \/ faults' = faults + 1 /\ Latest(n)' = Latest(n) + Period
<1>1. PICK P \in Nat, f \in Nat, Q \in Nat, l \in Nat :
        P = Period /\ f = faults /\ Q = Quiet /\ l = hash[n].last
  BY Amounts DEF IInv
<1>2. /\ (f + 1) * P \in Nat
      /\ (f + 1 + 1) * P = (f + 1) * P + P
  BY <1>1
<1>3. Latest(n) = l + Q - 1 + (f + 1) * P
  BY <1>1 DEF Latest
<1>4. CASE faults' = faults
  <2>1. Latest(n)' = l + Q - 1 + (f + 1) * P
    BY <1>1, <1>4 DEF Latest, Period
  <2>2. QED BY <1>2, <1>3, <1>4, <2>1
<1>5. CASE faults' = faults + 1
  <2>1. Latest(n)' = l + Q - 1 + (f + 1 + 1) * P
    BY <1>1, <1>5 DEF Latest, Period
  <2>2. QED BY <1>1, <1>2, <1>3, <1>5, <2>1
<1>6. QED BY <1>4, <1>5, FaultsGrow

\* The last sweep that may be needed is over before the TTL.
LEMMA LatestBeforeExpiry ==
  ASSUME IInv, Timely, NEW n \in Names
  PROVE  /\ Latest(n) + MaxSweep < hash[n].last + 4 * Quiet
         /\ Latest(n) >= hash[n].last + Quiet - 1 + Period
<1>1. PICK P \in Nat, f \in Nat, Q \in Nat, l \in Nat, M \in Nat, S \in Nat :
        /\ P = Period /\ f = faults /\ Q = Quiet /\ l = hash[n].last /\ M = MaxFaults
        /\ S = MaxSweep /\ f <= M
  BY Amounts DEF IInv
<1>2. PICK k \in Nat : M = f + k
  <2>1. M - f \in Nat /\ M = f + (M - f)
    BY <1>1
  <2>2. QED BY <2>1
<1>3. /\ (M + 1) * P = (f + 1) * P + k * P /\ k * P \in Nat /\ (f + 1) * P \in Nat
      /\ (f + 1) * P = f * P + P /\ f * P \in Nat
  BY <1>1, <1>2
<1>4. (M + 1) * P + S <= 3 * Q
  BY <1>1 DEF Timely
<1>5. Latest(n) = l + Q - 1 + (f + 1) * P
  BY <1>1 DEF Latest
<1>6. QED BY <1>1, <1>3, <1>4, <1>5

\* A step that counts an event is a worker's.
LEMMA RecordSteps ==
  ASSUME NEW e \in Events, NEW n \in Names, Records(e, n)
  PROVE  UNCHANGED <<now, sweep>>
BY DEF Records, Record, RecordFails

\* An event that was just recorded leaves a period to the sweep that is to close it.
LEMMA TimelyRecord ==
  ASSUME IInv, Timely, SweepOnTime(sweep[VIPHolder]), [Next]_vars,
         NEW e \in Events, NEW n \in Names, Records(e, n)
  PROVE  /\ hash'[n].last + 4 * Quiet <= hash'[n].expireAt
         /\ SweepInTime(n)'
<1>1. PICK s \in SweepState : s = sweep[VIPHolder] /\ s = sweep'[VIPHolder]
  BY RecordSteps DEF Timely, IInv, Types, SweepTypes
<1>2. /\ hash'[n].last = observed[e] /\ hash'[n].expireAt = now + 4 * Quiet
  BY NewHashFields DEF Records, IInv
<1>3. /\ observed[e] <= now /\ now <= observed[e] + MaxDelay
      /\ observed[e] \in Nat /\ now \in Nat
      /\ s.pc # "idle" => s.started <= now
  BY <1>1 DEF IInv, ClockInv, Records, Types, EventTypes, ClockTypes, Timely
<1>4. now <= hash'[n].last + Quiet - 1
  BY <1>2, <1>3, ParametersAreNumbers DEF Timely
<1>5. /\ Latest(n)' \in Int /\ Latest(n)' >= hash'[n].last + Quiet - 1 + Period
  <2>1. Latest(n)' = hash'[n].last + Quiet - 1 + (faults' + 1) * Period
    BY DEF Latest, Period
  <2>2. faults' \in Nat /\ hash'[n].last \in Nat
    <3>1. faults \in Nat
      BY DEF IInv, Types, ClockTypes
    <3>2. QED BY <1>2, <1>3, <3>1, FaultsGrow
  <2>3. PICK P \in Nat, f \in Nat, Q \in Nat, l \in Nat :
          P = Period /\ f = faults' /\ Q = Quiet /\ l = hash'[n].last
    BY <2>2, PeriodIsLongest, ParametersAreNumbers
  <2>4. (f + 1) * P = f * P + P /\ f * P \in Nat /\ (f + 1) * P \in Nat
    OBVIOUS
  <2>5. QED BY <2>1, <2>3, <2>4
<1>6. PICK lat \in Int : lat = Latest(n)' /\ lat >= now + Period
  <2>1. hash'[n].last \in Nat
    BY <1>2, <1>3
  <2>2. QED BY <1>3, <1>4, <1>5, <2>1, PeriodIsLongest, ParametersAreNumbers
<1>7. now' = now
  BY RecordSteps
<1>8. SweepInTime(n)'
  <2>1. CASE s.pc = "idle"
    <3>1. s.next <= now + SweepEvery /\ s.next \in Nat
      BY <1>1, <2>1 DEF SweepOnTime, SweepState
    <3>2. s.next <= lat /\ now <= lat
      BY <1>3, <1>6, <3>1, PeriodIsLongest, ParametersAreNumbers
    <3>3. QED BY <1>1, <1>6, <1>7, <2>1, <3>2 DEF SweepInTime, ClosesInTime
  <2>2. CASE s.pc # "idle"
    <3>1. s.started <= now /\ s.started \in Nat
      BY <1>3, <2>2 DEF SweepState
    <3>2. s.started <= lat /\ s.started + Period <= lat
      BY <1>3, <1>6, <3>1, PeriodIsLongest
    <3>3. QED BY <1>1, <1>6, <2>2, <3>2 DEF SweepInTime, ClosesInTime, Period
  <2>3. QED BY <2>1, <2>2
<1>9. QED BY <1>2, <1>3, <1>8, ParametersAreNumbers

LEMMA SweepStepForms ==
  ASSUME IInv, NEW r \in Replicas, SweepStep(r)
  PROVE  /\ now' = now
         /\ \/ StartSweep(r) \/ SkipSweep(r)
            \/ \E s : Continues(r, s) \/ Ends(r, s)
<1>1. now' = now
  BY DEF SweepStep, StartSweep, SkipSweep, Scan, Close, Peek, SendQuiet, SkipUnreadable,
         SendQuietFails, Drop
<1>2. SendQuiet(r) \/ SkipUnreadable(r) \/ SendQuietFails(r) => \E s : Continues(r, s)
  BY DeliverIs
<1>3. QED BY <1>1, <1>2, ScanIs, CloseIs, PeekIs, DropIs DEF SweepStep

LEMMA NowSteps ==
  ASSUME IInv, [Next]_vars, ~Tick
  PROVE  now' = now
<1>1. ASSUME NEW f \in Events, Work(f) PROVE now' = now
  BY <1>1 DEF Work, Observe, Record, RecordFails, Sent, SendFails, Release
<1>2. QED
  BY <1>1, SweepStepForms DEF Next, MoveVIP, Finished, vars

\* The VIP's holder starts its sweeps, and skips one only when a call fails.
LEMMA HolderSteps ==
  ASSUME IInv, Timely, OneSweeper, [Next]_vars, moves = 0, ~Tick
  PROVE  \/ sweep'[VIPHolder] = sweep[VIPHolder]
         \/ StartSweep(VIPHolder)
         \/ SkipSweep(VIPHolder) /\ Fault
         \/ SweepStep(VIPHolder) /\ \E s : Continues(VIPHolder, s) \/ Ends(VIPHolder, s)
<1>1. VIPHolder \in Replicas /\ vip = VIPHolder
  BY DEF Timely, OneSweeper
<1>2. SkipSweep(VIPHolder) => Fault
  BY <1>1 DEF SkipSweep, HasVIP
<1>3. QED BY <1>1, <1>2, SweepSteps, SweepStepForms

LEMMA NextOnTime ==
  ASSUME IInv, Timely, OneSweeper, [Next]_vars, moves = 0, SweepOnTime(sweep[VIPHolder])
  PROVE  SweepOnTime(sweep[VIPHolder])'
<1> DEFINE r == VIPHolder
<1>1. PICK s \in SweepState : s = sweep[r] /\ SweepOnTime(s) /\ r \in Replicas
  BY DEF Timely, IInv, Types, SweepTypes
<1>2. /\ now \in Nat /\ s.next \in Nat /\ s.started \in Nat
      /\ s.pc # "idle" => s.started <= now
  BY <1>1 DEF IInv, ClockInv, Types, ClockTypes, SweepState
<1>3. CASE Tick
  <2>1. /\ now' = now + 1 /\ sweep'[r] = s
        /\ IF s.pc = "idle" THEN now < s.next ELSE now < s.started + MaxSweep
    BY <1>1, <1>3 DEF Tick
  <2>2. IF s.pc = "idle" THEN s.next <= now + 1 + SweepEvery
        ELSE s.next = s.started + SweepEvery /\ now + 1 <= s.started + MaxSweep
    BY <1>1, <1>2, <2>1, ParametersAreNumbers DEF SweepOnTime
  <2>3. QED BY <2>1, <2>2 DEF SweepOnTime
<1>4. CASE ~Tick /\ sweep'[r] = sweep[r]
  BY <1>1, <1>4, NowSteps DEF SweepOnTime
<1>5. CASE ~Tick /\ StartSweep(r)
  <2>1. PICK t \in SweepState : /\ Sweep(r, t) /\ t.pc = "scanning" /\ t.started = now
                                /\ t.next = now + SweepEvery
    BY <1>1, <1>5, StartSweepIs
  <2>2. sweep'[r] = t /\ now' = now
    BY <1>1, <1>5, <2>1, NowSteps DEF Sweep, IInv, Types, SweepTypes
  <2>3. now <= now + MaxSweep
    BY <1>2, ParametersAreNumbers
  <2>4. QED BY <2>1, <2>2, <2>3 DEF SweepOnTime
<1>6. ASSUME ~Tick, NEW t, Continues(r, t) \/ Ends(r, t)
      PROVE  SweepOnTime(sweep[VIPHolder])'
  <2>1. sweep'[r] = t /\ now' = now /\ t.next = s.next /\ s.pc # "idle"
    BY <1>1, <1>6, NowSteps DEF Continues, Ends, Sweep, IInv, Types, SweepTypes
  <2>2. s.next = s.started + SweepEvery /\ now <= s.started + MaxSweep
    BY <1>1, <2>1 DEF SweepOnTime
  <2>3. t.pc # "idle" => t.started = s.started
    BY <1>1, <1>6 DEF Continues, Ends
  <2>4. s.next <= now + SweepEvery
    BY <1>2, <2>1, <2>2, ParametersAreNumbers
  <2>5. QED BY <2>1, <2>2, <2>3, <2>4 DEF SweepOnTime
<1>7. CASE ~Tick /\ SkipSweep(r)
  <2>1. PICK t \in SweepState : Sweep(r, t) /\ t.pc = "idle" /\ t.next = now + SweepEvery
    BY <1>1, <1>7, SkipSweepIs
  <2>2. sweep'[r] = t /\ now' = now
    BY <1>1, <1>7, <2>1, NowSteps DEF Sweep, IInv, Types, SweepTypes
  <2>3. now + SweepEvery <= now + SweepEvery
    BY <1>2, ParametersAreNumbers
  <2>4. QED BY <2>1, <2>2, <2>3 DEF SweepOnTime
<1>8. QED BY <1>3, <1>4, <1>5, <1>6, <1>7, HolderSteps

\* An incident that is left as it is has its sweep before it or a period to the next.
LEMMA TimelySame ==
  ASSUME IInv, Timely, OneSweeper, [Next]_vars, moves = 0, SweepOnTime(sweep[VIPHolder]),
         NEW n \in Names, Present(n), SweepInTime(n),
         Present(n)', hash'[n].last = hash[n].last
  PROVE  SweepInTime(n)'
<1> DEFINE r == VIPHolder
<1>1. PICK s \in SweepState, lat \in Int, lat2 \in Int, l \in Nat :
        /\ s = sweep[r] /\ lat = Latest(n) /\ l = hash[n].last
        /\ lat2 = Latest(n)' /\ r \in Replicas
        /\ \/ faults' = faults /\ lat2 = lat
           \/ faults' = faults + 1 /\ lat2 = lat + Period
  <2>1. sweep[r] \in SweepState /\ r \in Replicas
    BY DEF Timely, IInv, Types, SweepTypes
  <2>2. /\ Latest(n) \in Int
        /\ \/ faults' = faults /\ Latest(n)' = Latest(n)
           \/ faults' = faults + 1 /\ Latest(n)' = Latest(n) + Period
    BY LatestGrows
  <2>3. Latest(n)' \in Int
    BY <2>2, PeriodIsLongest
  <2>4. QED BY <2>1, <2>2, <2>3, Amounts DEF IInv
<1>2. /\ ClosesInTime(s, n, l, lat, now)
      /\ SweepInTime(n)' <=> ClosesInTime(sweep'[r], n, l, lat2, now')
  BY <1>1 DEF SweepInTime, ClosesInTime, Period
<1>3. /\ now \in Nat /\ s.next \in Nat /\ s.started \in Nat
      /\ s.pc # "idle" => /\ s.started <= now /\ s.cutoff = s.started - Quiet
                          /\ s.next = s.started + SweepEvery
                          /\ now <= s.started + MaxSweep
  BY <1>1 DEF IInv, ClockInv, Types, ClockTypes, SweepState, SweepOnTime
<1>4. lat <= lat2
  BY <1>1, PeriodIsLongest
<1>5. CASE Tick
  <2>1. /\ now' = now + 1 /\ sweep'[r] = s
        /\ s.pc = "idle" => now < s.next
    BY <1>1, <1>5 DEF Tick
  <2>2. ClosesInTime(s, n, l, lat2, now + 1)
    BY <1>2, <1>3, <1>4, <2>1, PeriodIsLongest, ParametersAreNumbers DEF ClosesInTime
  <2>3. QED BY <1>2, <2>1, <2>2
<1>6. CASE ~Tick /\ sweep'[r] = sweep[r]
  <2>1. ClosesInTime(s, n, l, lat2, now)
    BY <1>2, <1>3, <1>4, PeriodIsLongest, ParametersAreNumbers DEF ClosesInTime
  <2>2. QED BY <1>1, <1>2, <1>6, <2>1, NowSteps
<1>7. CASE ~Tick /\ StartSweep(r)
  <2>1. PICK t \in SweepState : Sweep(r, t) /\ t.pc = "scanning" /\ t.started = now
    BY <1>1, <1>7, StartSweepIs
  <2>2. sweep'[r] = t /\ now' = now /\ s.pc = "idle"
    BY <1>1, <1>7, <2>1, NowSteps DEF Sweep, StartSweep, IInv, Types, SweepTypes
  <2>3. now <= lat /\ lat >= l + Quiet - 1 + Period
    BY <1>1, <1>2, <2>2, LatestBeforeExpiry DEF ClosesInTime
  <2>4. ClosesInTime(t, n, l, lat2, now)
    BY <1>1, <1>3, <1>4, <2>1, <2>3, PeriodIsLongest, ParametersAreNumbers DEF ClosesInTime
  <2>5. QED BY <1>2, <2>2, <2>4
<1>8. ASSUME ~Tick, SweepStep(r), NEW u, Continues(r, u) \/ Ends(r, u)
      PROVE  ClosesInTime(sweep'[r], n, l, lat2, now')
  <2>1. PICK t \in SweepState :
          /\ t = sweep'[r] /\ now' = now /\ s.pc # "idle" /\ t.next = s.next
          /\ t.pc # "idle" => t.started = s.started
    BY <1>1, <1>8, NowSteps DEF Continues, Ends, Sweep, IInv, Types, SweepTypes
  <2>2. s.started <= lat
    BY <1>2, <2>1 DEF ClosesInTime
  <2>3. ASSUME s.started + Period <= lat2
        PROVE  ClosesInTime(t, n, l, lat2, now)
    BY <1>1, <1>3, <2>1, <2>3, PeriodIsLongest, ParametersAreNumbers DEF ClosesInTime
  <2>4. CASE s.started + Period <= lat
    BY <1>1, <1>3, <1>4, <2>1, <2>3, <2>4, PeriodIsLongest
  <2>5. CASE faults' = faults + 1
    BY <1>1, <1>3, <2>1, <2>2, <2>3, <2>5, PeriodIsLongest DEF IInv, Types, ClockTypes
  <2>6. CASE ~(s.started + Period <= lat) /\ faults' = faults
    <3>1. /\ s.started >= l + Quiet
          /\ s.pc = "scanning" \/ (s.pc = "closing" /\ n \in s.due)
      BY <1>2, <2>1, <2>6 DEF ClosesInTime
    <3>2. l <= s.cutoff
      BY <1>1, <1>3, <2>1, <3>1, ParametersAreNumbers
    <3>3. t.pc = "closing" /\ n \in t.due
      <4>1. ~Fault
        BY <2>6 DEF Fault, IInv, Types, ClockTypes
      <4>2. CASE Scan(r)
        <5>1. PICK v : /\ Continues(r, v) /\ v.pc = "closing"
                       /\ v.due = {m \in Names : active[m] # 0 /\ active[m] <= s.cutoff}
          BY <1>1, <4>1, <4>2, ScanIs
        <5>2. active[n] = l /\ active[n] # 0
          BY <1>1 DEF IInv, HashInv
        <5>3. t = v
          BY <1>1, <2>1, <5>1 DEF Continues, Sweep, IInv, Types, SweepTypes
        <5>4. QED BY <3>2, <5>1, <5>2, <5>3
      <4>3. CASE Close(r)
        <5>1. PICK v \in SweepState, m \in s.due :
                /\ Continues(r, v) /\ s.pc = "closing" /\ v.pc = "closing"
                /\ v.due = s.due \ {m} /\ m \in Names
                /\ CloseScript(m, s.cutoff)
          BY <1>1, <4>1, <4>3, CloseIs
        <5>2. t = v
          BY <1>1, <2>1, <5>1 DEF Continues, Sweep, IInv, Types, SweepTypes
        <5>3. m # n
          <6>1. SUFFICES ASSUME m = n PROVE FALSE
            OBVIOUS
          <6>2. StillQuiet(n, s.cutoff)
            BY <1>1, <3>2 DEF StillQuiet
          <6>3. hash'[n] = Absent
            BY <5>1, <6>1, <6>2 DEF CloseScript, IInv, Types, StoreTypes
          <6>4. QED BY <6>3, AbsentIsHash DEF Present
        <5>4. QED BY <3>1, <5>1, <5>2, <5>3
      <4>4. ~Peek(r)
        BY <1>1, <3>1, PeekIs
      <4>5. ~(SendQuiet(r) \/ SkipUnreadable(r) \/ SendQuietFails(r) \/ Drop(r))
        BY <1>1, <3>1 DEF SendQuiet, SkipUnreadable, SendQuietFails, Drop
      <4>6. ~(StartSweep(r) \/ SkipSweep(r))
        BY <1>1, <2>1 DEF StartSweep, SkipSweep
      <4>7. QED BY <1>8, <4>2, <4>3, <4>4, <4>5, <4>6 DEF SweepStep
    <3>4. QED BY <1>4, <2>1, <2>2, <3>1, <3>3, <1>3 DEF ClosesInTime
  <2>7. QED BY <1>1, <2>1, <2>4, <2>5, <2>6
<1>9. CASE ~Tick /\ SkipSweep(r) /\ Fault
  <2>1. PICK t \in SweepState : Sweep(r, t) /\ t.pc = "idle" /\ t.next = now + SweepEvery
    BY <1>1, <1>9, SkipSweepIs
  <2>2. sweep'[r] = t /\ now' = now /\ s.pc = "idle"
    BY <1>1, <1>9, <2>1, NowSteps DEF Sweep, SkipSweep, IInv, Types, SweepTypes
  <2>3. now <= lat /\ faults' = faults + 1
    BY <1>2, <1>9, <2>2 DEF ClosesInTime, Fault
  <2>4. lat2 = lat + Period
    BY <1>1, <2>3 DEF IInv, Types, ClockTypes
  <2>5. now + SweepEvery <= lat2 /\ now <= lat2
    BY <1>1, <1>3, <2>3, <2>4, PeriodIsLongest, ParametersAreNumbers
  <2>6. QED BY <1>2, <2>1, <2>2, <2>5 DEF ClosesInTime
<1>10. QED BY <1>2, <1>5, <1>6, <1>7, <1>8, <1>9, HolderSteps

LEMMA NoneExpires ==
  ASSUME IInv, Timely, TimelyInv, [Next]_vars, moves = 0
  PROVE  expired' = {}
<1> DEFINE r == VIPHolder
<1>1. expired = {}
  BY DEF TimelyInv
<1>2. ASSUME Tick, NEW n \in Names, Present(n) PROVE ~(hash[n].expireAt <= now')
  <2>1. PICK s \in SweepState : s = sweep[r] /\ r \in Replicas
    BY DEF Timely, IInv, Types, SweepTypes
  <2>2. PICK lat \in Int : /\ lat = Latest(n)
                           /\ ClosesInTime(s, n, hash[n].last, lat, now)
                           /\ lat + MaxSweep < hash[n].last + 4 * Quiet
    <3>1. Latest(n) \in Int
      <4>1. PICK P \in Nat, f \in Nat, Q \in Nat, l \in Nat :
              P = Period /\ f = faults /\ Q = Quiet /\ l = hash[n].last
        BY Amounts DEF IInv
      <4>2. (f + 1) * P \in Nat
        OBVIOUS
      <4>3. QED BY <4>1, <4>2 DEF Latest
    <3>2. SweepInTime(n)
      BY <1>2 DEF TimelyInv
    <3>3. QED BY <2>1, <3>1, <3>2, LatestBeforeExpiry DEF SweepInTime
  <2>3. /\ now' = now + 1
        /\ IF s.pc = "idle" THEN now < s.next ELSE now < s.started + MaxSweep
    BY <1>2, <2>1 DEF Tick
  <2>4. /\ now \in Nat /\ s.next \in Nat /\ s.started \in Nat
        /\ hash[n].expireAt \in Nat /\ hash[n].last \in Nat
        /\ hash[n].last + 4 * Quiet <= hash[n].expireAt
    BY <1>2 DEF TimelyInv, IInv, Types, ClockTypes, StoreTypes, Hash, SweepState
  <2>5. IF s.pc = "idle" THEN s.next <= lat ELSE s.started <= lat
    BY <2>2 DEF ClosesInTime
  <2>6. now + 1 <= lat + MaxSweep
    BY <2>3, <2>4, <2>5, ParametersAreNumbers
  <2>7. QED BY <2>2, <2>3, <2>4, <2>6, ParametersAreNumbers
<1>3. CASE Tick
  <2>1. \A n \in Names : ~(Present(n) /\ hash[n].expireAt <= now')
    BY <1>2, <1>3
  <2>2. PICK G : /\ G = {n \in Names : Present(n) /\ hash[n].expireAt <= now'}
                 /\ expired' = expired \cup {<<n, hash[n].id>> : n \in G}
    BY <1>3 DEF Tick
  <2>3. G = {}
    BY <2>1, <2>2
  <2>4. QED BY <1>1, <2>2, <2>3
<1>4. ASSUME NEW e \in Events, Work(e) PROVE expired' = expired
  BY <1>4 DEF Work, Observe, Record, RecordFails, Sent, SendFails, Release, RecordScript, store
<1>5. ASSUME NEW q \in Replicas, SweepStep(q) PROVE expired' = expired
  <2>1. CASE Close(q)
    <3>1. PICK n : \/ CloseScript(n, sweep[q].cutoff)
                   \/ UNCHANGED <<store, closed, trimmed, shifted>>
      BY <2>1, CloseIs
    <3>2. QED BY <3>1 DEF CloseScript, store
  <2>2. QED
    BY <1>5, <2>1 DEF SweepStep, StartSweep, SkipSweep, Scan, Peek, SendQuiet,
                      SkipUnreadable, SendQuietFails, Drop, store
<1>6. CASE MoveVIP \/ Finished \/ UNCHANGED vars
  BY <1>1, <1>6 DEF MoveVIP, Finished, vars, store
<1>7. QED BY <1>1, <1>3, <1>4, <1>5, <1>6 DEF Next

LEMMA NextTimely ==
  ASSUME IInv, Timely, OneSweeper, TimelyInv, [Next]_vars
  PROVE  TimelyInv'
<1> SUFFICES ASSUME moves' = 0
             PROVE  /\ expired' = {} /\ SweepOnTime(sweep[VIPHolder])'
                    /\ \A n \in Names : Present(n)' =>
                         /\ hash'[n].last + 4 * Quiet <= hash'[n].expireAt
                         /\ SweepInTime(n)'
  BY DEF TimelyInv
<1>1. moves = 0 /\ SweepOnTime(sweep[VIPHolder])
  BY MovesGrow DEF TimelyInv
<1>2. ASSUME NEW n \in Names, Present(n)'
      PROVE  hash'[n].last + 4 * Quiet <= hash'[n].expireAt /\ SweepInTime(n)'
  <2>1. CASE \E e \in Events : Records(e, n)
    BY <1>1, <2>1, TimelyRecord
  <2>2. CASE ~\E e \in Events : Records(e, n)
    <3>1. hash'[n] # Absent
      BY <1>2, AbsentIsHash DEF Present
    <3>2. hash'[n] = hash[n] \/ \E e \in Events : Releases(e, n)
      BY <2>2, <3>1, HashSteps
    <3>3. /\ hash'[n].count = hash[n].count /\ hash'[n].last = hash[n].last
          /\ hash'[n].expireAt = hash[n].expireAt
      BY <3>2, ReleasedFields DEF Releases, IInv
    <3>4. Present(n) /\ hash[n].last + 4 * Quiet <= hash[n].expireAt /\ SweepInTime(n)
      BY <1>1, <1>2, <3>3 DEF Present, TimelyInv
    <3>5. QED BY <1>1, <1>2, <3>3, <3>4, TimelySame
  <2>3. QED BY <2>1, <2>2
<1>3. QED BY <1>1, <1>2, NoneExpires, NextOnTime

\* As long as the VIP has not moved, and the TTL leaves time for the sweeps that
\* failing calls may cost, every incident is closed before its hash expires.
THEOREM IncidentsAreClosedInTime ==
  Timely => (Spec => [](moves = 0 => NoIncidentForgotten))
<1> SUFFICES ASSUME Timely PROVE Spec => [](moves = 0 => NoIncidentForgotten)
  OBVIOUS
<1>1. Init => OneSweeper /\ TimelyInv
  <2> SUFFICES ASSUME Init PROVE OneSweeper /\ TimelyInv
    OBVIOUS
  <2>1. /\ hash = [n \in Names |-> Absent] /\ expired = {} /\ now = 1
        /\ sweep = [r \in Replicas |-> IdleSweep] /\ vip = VIPHolder
    BY Zenon DEF Init
  <2>2. \A r \in Replicas : sweep[r].pc = "idle" /\ sweep[r].next = SweepEvery
    BY <2>1 DEF IdleSweep
  <2>3. \A n \in Names : ~Present(n)
    BY <2>1, AbsentIsHash DEF Present
  <2>4. SweepOnTime(sweep[VIPHolder])
    BY <2>1, <2>2, ParametersAreNumbers DEF SweepOnTime, Timely
  <2>5. QED BY <2>1, <2>2, <2>3, <2>4 DEF OneSweeper, TimelyInv
<1>2. IInv /\ OneSweeper /\ TimelyInv /\ [Next]_vars => OneSweeper' /\ TimelyInv'
  BY NextOneSweeper, NextTimely
<1>3. TimelyInv => (moves = 0 => NoIncidentForgotten)
  BY DEF TimelyInv, NoIncidentForgotten
<1>4. QED BY <1>1, <1>2, <1>3, Invariance, PTL DEF Spec
=============================================================================
