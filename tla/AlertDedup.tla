----------------------------- MODULE AlertDedup -----------------------------
(***************************************************************************)
(* Alert deduplication (src/alert_dedup.go, the store side in              *)
(* src/keydb/keydb.go) as the alert engine uses it (src/main.go,           *)
(* checkLine): an alert reserves its fingerprint, is sent, and gives the   *)
(* reservation back when the send failed.  Reservations live in the shared *)
(* store; when a store call fails they live in a map of the replica.       *)
(*                                                                         *)
(* Time is counted in ticks of one clock: replicas and store measure the   *)
(* same durations.  An expiry of 0 is an absent entry; an entry is in      *)
(* force while now is before its expiry.                                   *)
(***************************************************************************)
EXTENDS Naturals, FiniteSets

CONSTANTS Replicas,     \* processes sharing the store
          Alerts,       \* alerts that passed the decision step, in any order
          ReplicaOf,    \* the replica that handles each
          Fingerprints,
          TTLs,         \* cooldowns: the default one and decision overrides
          MaxSend,      \* the longest time from Allow to the end of Forget
          Outages,      \* may the store be down? a subset of BOOLEAN
          MaxFaults,    \* bound: failing calls of a store that is up
          MaxTime       \* bound: ticks

ASSUME AlertAssumption == IsFiniteSet(Alerts)
ASSUME ReplicaAssumption == ReplicaOf \in [Alerts -> Replicas]
ASSUME TTLAssumption == TTLs # {} /\ TTLs \subseteq Nat \ {0}
ASSUME TimeAssumption == {MaxSend, MaxFaults, MaxTime} \subseteq Nat
ASSUME OutageAssumption == Outages \subseteq BOOLEAN

VARIABLES
  now,
  down,         \* no call of the store succeeds, as long as the model runs
  store,        \* alert-dedup:<fingerprint>: when its TTL runs out
  expires,      \* d.expires of each replica
  pc,           \* each alert: "new", "fallback", "sending", "forgetting",
                \*             "forgettingLocal", "sent", "failed", "suppressed"
  fingerprint, ttl,
  allowedAt,    \* history: when Allow returned true, 0 if it has not
  duplicates,   \* history: alerts let through in the cooldown of another
  faults

vars == <<now, down, store, expires, pc, fingerprint, ttl, allowedAt,
          duplicates, faults>>

NoReservation == 0

Init ==
  /\ now = 1
  /\ down \in Outages
  /\ store = [f \in Fingerprints |-> NoReservation]
  /\ expires = [r \in Replicas |-> [f \in Fingerprints |-> 0]]
  /\ pc = [a \in Alerts |-> "new"]
  /\ fingerprint \in [Alerts -> Fingerprints]
  /\ ttl \in [Alerts -> TTLs]
  /\ allowedAt = [a \in Alerts |-> 0]
  /\ duplicates = {}
  /\ faults = 0

InForce(expiry) == now < expiry              \* now.Before(expiry); the key's TTL

GoTo(a, p) == pc' = [pc EXCEPT ![a] = p]
Local(a) == expires[ReplicaOf[a]][fingerprint[a]]

StoreAnswers == ~down /\ UNCHANGED faults
LosesReply == ~down /\ faults < MaxFaults /\ faults' = faults + 1
StoreFails == LosesReply \/ (down /\ UNCHANGED faults)

-----------------------------------------------------------------------------
(* alertDeduper.Allow.                                                     *)

Cooling(a) == allowedAt[a] # 0 /\ now < allowedAt[a] + ttl[a]
SameFingerprint(a, b) == a # b /\ fingerprint[a] = fingerprint[b]
Delivering(a) == pc[a] \in {"sending", "sent"}

NoteDuplicate(b) ==
  IF \E a \in Alerts : SameFingerprint(a, b) /\ Delivering(a) /\ Cooling(a)
  THEN duplicates \cup {b} ELSE duplicates

ReservationTwice(a) == now + 2 * ttl[a]   \* fault: wrong unit
Reservation(a) == now + ttl[a]

FreeAlways(a) == TRUE                        \* fault: SET without NX
StoreFree(a) == ~InForce(store[fingerprint[a]])

\* SETNX with a TTL: the reservation is made and Allow returns true.
Reserve(a) ==
  /\ pc[a] = "new"
  /\ StoreAnswers
  /\ StoreFree(a)
  /\ store' = [store EXCEPT ![fingerprint[a]] = Reservation(a)]
  /\ allowedAt' = [allowedAt EXCEPT ![a] = now]
  /\ duplicates' = NoteDuplicate(a)
  /\ GoTo(a, "sending")
  /\ UNCHANGED <<now, down, expires, fingerprint, ttl>>

\* SETNX finds the key: Allow returns false.
Suppress(a) ==
  /\ pc[a] = "new"
  /\ StoreAnswers
  /\ ~StoreFree(a)
  /\ GoTo(a, "suppressed")
  /\ UNCHANGED <<now, down, store, expires, fingerprint, ttl, duplicates, allowedAt>>

\* SETNX returns an error; the store may have executed it.
ReserveFails(a) ==
  /\ pc[a] = "new"
  /\ StoreFails
  /\ \/ UNCHANGED store
     \/ /\ ~down /\ StoreFree(a)
        /\ store' = [store EXCEPT ![fingerprint[a]] = Reservation(a)]
  /\ GoTo(a, "fallback")
  /\ UNCHANGED <<now, down, expires, fingerprint, ttl, duplicates, allowedAt>>

\* The reply of a SETNX is lost and the client library repeats it: the second
\* one finds the reservation the first one made, and Allow returns false.
ReserveRepeated(a) ==
  /\ pc[a] = "new"
  /\ LosesReply
  /\ StoreFree(a)
  /\ store' = [store EXCEPT ![fingerprint[a]] = Reservation(a)]
  /\ GoTo(a, "suppressed")
  /\ UNCHANGED <<now, down, expires, fingerprint, ttl, duplicates, allowedAt>>

\* The map after an insertion: entries no longer in force are deleted.
CleanedUp(m) == [f \in Fingerprints |-> IF InForce(m[f]) THEN m[f] ELSE 0]

LocalFreeAlways(a) == TRUE                   \* fault: the fallback does not look
LocalFree(a) == ~InForce(Local(a))

\* Under d.mu: the local cooldown.
AllowLocally(a) ==
  /\ pc[a] = "fallback"
  /\ LocalFree(a)
  /\ expires' = [expires EXCEPT ![ReplicaOf[a]] =
                   CleanedUp([@ EXCEPT ![fingerprint[a]] = now + ttl[a]])]
  /\ allowedAt' = [allowedAt EXCEPT ![a] = now]
  /\ duplicates' = NoteDuplicate(a)
  /\ GoTo(a, "sending")
  /\ UNCHANGED <<now, down, store, fingerprint, ttl, faults>>

SuppressLocally(a) ==
  /\ pc[a] = "fallback"
  /\ ~LocalFree(a)
  /\ GoTo(a, "suppressed")
  /\ UNCHANGED <<now, down, store, expires, fingerprint, ttl, duplicates, allowedAt, faults>>

-----------------------------------------------------------------------------
(* notifier.Send and alertDeduper.Forget.                                  *)

Sent(a) ==
  /\ pc[a] = "sending"
  /\ GoTo(a, "sent")
  /\ UNCHANGED <<now, down, store, expires, fingerprint, ttl, duplicates, allowedAt, faults>>

SendFailsKeeps == "failed"                   \* fault: no Forget after a failure
AfterFailedSend == "forgetting"

SendFails(a) ==
  /\ pc[a] = "sending"
  /\ GoTo(a, AfterFailedSend)
  /\ UNCHANGED <<now, down, store, expires, fingerprint, ttl, duplicates, allowedAt, faults>>

\* DEL of the key, whoever set it; an error is ignored, the store may have
\* executed it.
ForgetStore(a) ==
  /\ pc[a] = "forgetting"
  /\ \/ /\ StoreAnswers \/ LosesReply
        /\ store' = [store EXCEPT ![fingerprint[a]] = NoReservation]
     \/ StoreFails /\ UNCHANGED store
  /\ GoTo(a, "forgettingLocal")
  /\ UNCHANGED <<now, down, expires, fingerprint, ttl, duplicates, allowedAt>>

\* The reply of a DEL is lost and the client library repeats it: the second one
\* deletes what was set meanwhile.
ForgetRepeated(a) ==
  /\ pc[a] = "forgetting"
  /\ LosesReply
  /\ store' = [store EXCEPT ![fingerprint[a]] = NoReservation]
  /\ GoTo(a, "forgetting")
  /\ UNCHANGED <<now, down, expires, fingerprint, ttl, duplicates, allowedAt>>

ForgetLocal(a) ==
  /\ pc[a] = "forgettingLocal"
  /\ expires' = [expires EXCEPT ![ReplicaOf[a]][fingerprint[a]] = 0]
  /\ GoTo(a, "failed")
  /\ UNCHANGED <<now, down, store, fingerprint, ttl, duplicates, allowedAt, faults>>

Busy(a) == pc[a] \in {"sending", "forgetting", "forgettingLocal"}

\* Time passes; sending and forgetting end within MaxSend.
Tick ==
  /\ now < MaxTime
  /\ \A a \in Alerts : Busy(a) => now < allowedAt[a] + MaxSend
  /\ now' = now + 1
  /\ UNCHANGED <<down, store, expires, pc, fingerprint, ttl, allowedAt,
                 duplicates, faults>>

Step(a) == \/ Reserve(a) \/ Suppress(a) \/ ReserveFails(a) \/ ReserveRepeated(a)
           \/ AllowLocally(a) \/ SuppressLocally(a)
           \/ Sent(a) \/ SendFails(a) \/ ForgetStore(a) \/ ForgetRepeated(a) \/ ForgetLocal(a)

\* Every alert was handled and no more time is modelled.
Finished == /\ now = MaxTime
            /\ \A a \in Alerts : pc[a] \in {"sent", "failed", "suppressed"}
            /\ UNCHANGED vars

Next == Tick \/ (\E a \in Alerts : Step(a)) \/ Finished

Spec == Init /\ [][Next]_vars

-----------------------------------------------------------------------------
(* Properties.                                                             *)

\* The type of the deduplication state; no reservation outlasts the longest
\* cooldown.
TypeOK ==
  /\ now \in Nat /\ faults \in Nat /\ down \in BOOLEAN
  /\ store \in [Fingerprints -> Nat]
  /\ \A f \in Fingerprints : \E t \in TTLs : store[f] <= now + t
  /\ expires \in [Replicas -> [Fingerprints -> Nat]]
  /\ pc \in [Alerts -> {"new", "fallback", "sending", "forgetting",
                        "forgettingLocal", "sent", "failed", "suppressed"}]
  /\ fingerprint \in [Alerts -> Fingerprints]
  /\ ttl \in [Alerts -> TTLs]
  /\ allowedAt \in [Alerts -> Nat]
  /\ duplicates \subseteq Alerts

LetThrough(b) == allowedAt[b] = 0 /\ allowedAt'[b] # 0

\* While an alert that was delivered, or is being delivered, is in its
\* cooldown, no other alert of its fingerprint is let through by any replica;
\* when the store is down, by the same replica.  Only a call of the store that
\* failed by itself can break it: a failed sender gives back its own
\* reservation and no other.
NoDuplicateInCooldown ==
  [][\A a, b \in Alerts :
       /\ SameFingerprint(a, b) /\ LetThrough(b)
       /\ Delivering(a)
       /\ faults = 0
       /\ down => ReplicaOf[a] = ReplicaOf[b]
       => ~Cooling(a)]_vars

\* While no call of the store failed by itself, an alert is suppressed only in
\* the cooldown of another that was let through and has not failed: after a
\* failed delivery the next alert is sent, and a cooldown ends with its TTL.
SuppressedOnlyInCooldown ==
  [][\A b \in Alerts :
       pc[b] # "suppressed" /\ pc'[b] = "suppressed" /\ faults' = 0 =>
         \E a \in Alerts : SameFingerprint(a, b) /\ Cooling(a) /\ pc[a] # "failed"]_vars

\* A failing call of the store costs at most two duplicates when every cooldown
\* is the same: the alert allowed locally, and one more in its cooldown or after
\* it gave back a reservation that was another's; a repeated DEL costs no more.
FaultsExplainDuplicates ==
  ~down /\ (\A a, b \in Alerts : ttl[a] = ttl[b]) =>
     Cardinality({b \in duplicates : Delivering(b)}) <= 2 * faults
=============================================================================
