--------------------------- MODULE AlertDedupProofs ---------------------------
(***************************************************************************)
(* What TLAPS proves of AlertDedup for every set of replicas, alerts,      *)
(* fingerprints and cooldowns, with a store that answers and with one that *)
(* is down.                                                                *)
(***************************************************************************)
EXTENDS AlertDedup, FiniteSetTheorems, TLAPS

\* The entry Allow looks at, and the alerts that look at the same one.
Entry(a) == IF down THEN Local(a) ELSE store[fingerprint[a]]
Shares(a, b) == fingerprint[a] = fingerprint[b] /\ (down => ReplicaOf[a] = ReplicaOf[b])

\* An alert that was let through and has not given its entry back.
Holds(a) ==
  allowedAt[a] # 0 /\ pc[a] \in {"sending", "sent", "forgetting"} \cup
                               (IF down THEN {"forgettingLocal"} ELSE {})

\* An alert is let through once, and gives back within MaxSend.
TimesInv ==
  /\ now # 0
  /\ \A a \in Alerts :
    /\ allowedAt[a] <= now
    /\ pc[a] \in {"new", "fallback", "suppressed"} => allowedAt[a] = 0
    /\ Busy(a) => allowedAt[a] # 0 /\ now <= allowedAt[a] + MaxSend

\* While no call of the store failed by itself, an entry in force is of an alert
\* that holds it, and nobody falls back from a store that answers.
OwnerInv ==
  faults = 0 =>
    /\ \A b \in Alerts : InForce(Entry(b)) =>
         \E a \in Alerts : Shares(a, b) /\ Holds(a) /\ allowedAt[a] + ttl[a] = Entry(b)
    /\ ~down => \A a \in Alerts : pc[a] # "fallback"

IInv == TypeOK /\ TimesInv /\ OwnerInv

\* No delivery outlasts a cooldown.
CooldownsOutlastSends == \A t \in TTLs : MaxSend < t

\* Then the holder of an entry is the only one in its cooldown.
HolderInv ==
  faults = 0 =>
    /\ \A a \in Alerts : Holds(a) /\ Cooling(a) => Entry(a) = allowedAt[a] + ttl[a]
    /\ \A a, b \in Alerts :
         a # b /\ Shares(a, b) /\ Holds(a) /\ Cooling(a) /\ Holds(b) => ~Cooling(b)

-----------------------------------------------------------------------------
LEMMA Numbers == /\ \A t \in TTLs : t \in Nat \ {0}
                 /\ MaxSend \in Nat /\ MaxFaults \in Nat /\ MaxTime \in Nat
BY TTLAssumption, TimeAssumption

LEMMA InitIInv == Init => IInv /\ HolderInv
<1> SUFFICES ASSUME Init PROVE IInv /\ HolderInv
  OBVIOUS
<1>1. /\ now = 1 /\ faults = 0 /\ duplicates = {} /\ down \in BOOLEAN
      /\ store = [f \in Fingerprints |-> 0]
      /\ expires = [r \in Replicas |-> [f \in Fingerprints |-> 0]]
      /\ pc = [a \in Alerts |-> "new"] /\ allowedAt = [a \in Alerts |-> 0]
      /\ fingerprint \in [Alerts -> Fingerprints] /\ ttl \in [Alerts -> TTLs]
  BY OutageAssumption, Zenon DEF Init, NoReservation
<1>2. TypeOK
  <2>1. \A f \in Fingerprints : \E t \in TTLs : store[f] <= now + t
    <3>1. PICK t \in TTLs : t \in Nat
      BY TTLAssumption
    <3>2. 0 <= 1 + t
      BY <3>1
    <3>3. QED BY <1>1, <3>2
  <2>2. QED BY <1>1, <2>1 DEF TypeOK
<1>3. TimesInv
  BY <1>1 DEF TimesInv, Busy
<1>4. \A a \in Alerts : Entry(a) = 0 /\ ~Holds(a) /\ ~InForce(Entry(a))
  BY <1>1, ReplicaAssumption DEF Entry, Local, Holds, InForce
<1>5. OwnerInv /\ HolderInv
  BY <1>1, <1>4 DEF OwnerInv, HolderInv
<1>6. QED BY <1>2, <1>3, <1>5 DEF IInv

-----------------------------------------------------------------------------
(* Types and times.                                                        *)

\* A store that is written with a reservation or loses one keeps its type.
LEMMA StoreKeeps ==
  ASSUME TypeOK, NEW a \in Alerts,
         \/ UNCHANGED store
         \/ store' = [store EXCEPT ![fingerprint[a]] = Reservation(a)]
         \/ store' = [store EXCEPT ![fingerprint[a]] = NoReservation],
         now' = now
  PROVE  /\ store' \in [Fingerprints -> Nat]
         /\ \A f \in Fingerprints : \E t \in TTLs : store'[f] <= now' + t
<1>1. PICK n \in Nat, t \in TTLs, p \in Fingerprints :
        n = now /\ t = ttl[a] /\ p = fingerprint[a] /\ t \in Nat /\ n + t \in Nat
  BY Numbers DEF TypeOK
<1>2. CASE UNCHANGED store
  BY <1>2 DEF TypeOK
<1>3. CASE store' = [store EXCEPT ![p] = n + t]
  <2>1. store' \in [Fingerprints -> Nat] /\ store'[p] <= n + t
    BY <1>1, <1>3 DEF TypeOK
  <2>2. \A f \in Fingerprints \ {p} : store'[f] = store[f]
    BY <1>3 DEF TypeOK
  <2>3. QED BY <1>1, <2>1, <2>2 DEF TypeOK
<1>4. CASE store' = [store EXCEPT ![p] = 0]
  <2>1. store' \in [Fingerprints -> Nat] /\ store'[p] <= n + t
    BY <1>1, <1>4 DEF TypeOK
  <2>2. \A f \in Fingerprints \ {p} : store'[f] = store[f]
    BY <1>4 DEF TypeOK
  <2>3. QED BY <1>1, <2>1, <2>2 DEF TypeOK
<1>5. QED BY <1>1, <1>2, <1>3, <1>4 DEF Reservation, NoReservation

\* A step of an alert, by what it makes of the alert.
LEMMA StepForms ==
  ASSUME TypeOK, NEW a \in Alerts, Step(a)
  PROVE  /\ UNCHANGED <<now, down, fingerprint, ttl>>
         /\ faults' = faults \/ faults' = faults + 1
         /\ \E p \in {"fallback", "sending", "forgetting", "forgettingLocal", "sent",
                      "failed", "suppressed"} : GoTo(a, p)
         /\ \/ UNCHANGED allowedAt
            \/ allowedAt' = [allowedAt EXCEPT ![a] = now]
         /\ \/ UNCHANGED store
            \/ store' = [store EXCEPT ![fingerprint[a]] = Reservation(a)]
            \/ store' = [store EXCEPT ![fingerprint[a]] = NoReservation]
         /\ duplicates' \subseteq duplicates \cup {a}
BY DEF Step, Reserve, Suppress, ReserveFails, ReserveRepeated, AllowLocally, SuppressLocally,
       Sent, SendFails, ForgetStore, ForgetRepeated, ForgetLocal, StoreAnswers, LosesReply,
       StoreFails, NoteDuplicate, AfterFailedSend

\* Allowing an alert locally writes its cooldown and drops those that are over.
LEMMA AllowWrites ==
  ASSUME TypeOK, NEW a \in Alerts, AllowLocally(a)
  PROVE  /\ expires' \in [Replicas -> [Fingerprints -> Nat]]
         /\ expires'[ReplicaOf[a]][fingerprint[a]] = now + ttl[a]
         /\ \A f \in Fingerprints \ {fingerprint[a]} :
              expires'[ReplicaOf[a]][f] =
                IF InForce(expires[ReplicaOf[a]][f]) THEN expires[ReplicaOf[a]][f] ELSE 0
         /\ \A r \in Replicas \ {ReplicaOf[a]} : expires'[r] = expires[r]
<1>1. PICK r \in Replicas, p \in Fingerprints, t \in Nat, n \in Nat :
        /\ r = ReplicaOf[a] /\ p = fingerprint[a] /\ t = ttl[a] /\ n = now /\ t # 0
  BY Numbers, ReplicaAssumption DEF TypeOK
<1>2. expires \in [Replicas -> [Fingerprints -> Nat]]
  BY DEF TypeOK
<1>3. PICK m \in [Fingerprints -> Nat] : m = [expires[r] EXCEPT ![p] = n + t]
  <2>1. PICK e \in [Fingerprints -> Nat], s \in Nat : e = expires[r] /\ s = n + t
    BY <1>1, <1>2
  <2>2. [e EXCEPT ![p] = s] \in [Fingerprints -> Nat]
    OBVIOUS
  <2>3. QED BY <2>1, <2>2
<1>4. expires' = [expires EXCEPT ![r] = CleanedUp(m)]
  BY <1>1, <1>3 DEF AllowLocally
<1>5. /\ CleanedUp(m) \in [Fingerprints -> Nat]
      /\ \A f \in Fingerprints : CleanedUp(m)[f] = IF n < m[f] THEN m[f] ELSE 0
  BY <1>1 DEF CleanedUp, InForce
<1>6. CleanedUp(m)[p] = n + t
  <2>1. m[p] = n + t
    BY <1>2, <1>3
  <2>2. n < n + t
    BY <1>1
  <2>3. CleanedUp(m)[p] = IF n < m[p] THEN m[p] ELSE 0
    BY <1>5
  <2>4. QED BY <2>1, <2>2, <2>3
<1>7. \A f \in Fingerprints \ {p} :
        CleanedUp(m)[f] = IF n < expires[r][f] THEN expires[r][f] ELSE 0
  BY <1>2, <1>3, <1>5
<1> HIDE DEF CleanedUp
<1>8. /\ expires' \in [Replicas -> [Fingerprints -> Nat]] /\ expires'[r] = CleanedUp(m)
      /\ \A q \in Replicas \ {r} : expires'[q] = expires[q]
  BY <1>2, <1>4, <1>5
<1>9. QED BY <1>1, <1>6, <1>7, <1>8 DEF InForce

\* Forgetting an alert locally drops its cooldown.
LEMMA ForgetClears ==
  ASSUME TypeOK, NEW a \in Alerts, ForgetLocal(a)
  PROVE  /\ expires' \in [Replicas -> [Fingerprints -> Nat]]
         /\ expires'[ReplicaOf[a]][fingerprint[a]] = 0
         /\ \A f \in Fingerprints \ {fingerprint[a]} :
              expires'[ReplicaOf[a]][f] = expires[ReplicaOf[a]][f]
         /\ \A r \in Replicas \ {ReplicaOf[a]} : expires'[r] = expires[r]
<1>1. PICK r \in Replicas, p \in Fingerprints : r = ReplicaOf[a] /\ p = fingerprint[a]
  BY ReplicaAssumption DEF TypeOK
<1>2. expires \in [Replicas -> [Fingerprints -> Nat]] /\ expires' = [expires EXCEPT ![r][p] = 0]
  BY <1>1 DEF TypeOK, ForgetLocal
<1>3. QED BY <1>1, <1>2

\* No other step touches them.
LEMMA LocalForms ==
  ASSUME NEW a \in Alerts, Step(a)
  PROVE  AllowLocally(a) \/ ForgetLocal(a) \/ UNCHANGED expires
BY DEF Step, Reserve, Suppress, ReserveFails, ReserveRepeated, SuppressLocally, Sent,
       SendFails, ForgetStore, ForgetRepeated

LEMMA NextTypes ==
  ASSUME TypeOK, TimesInv, [Next]_vars
  PROVE  TypeOK' /\ TimesInv'
<1>1. ASSUME NEW a \in Alerts, Step(a) PROVE TypeOK'
  <2>1. /\ store' \in [Fingerprints -> Nat]
        /\ \A f \in Fingerprints : \E t \in TTLs : store'[f] <= now' + t
    BY <1>1, StepForms, StoreKeeps
  <2>2. expires' \in [Replicas -> [Fingerprints -> Nat]]
    BY <1>1, LocalForms, AllowWrites, ForgetClears DEF TypeOK
  <2>3. /\ pc' \in [Alerts -> {"new", "fallback", "sending", "forgetting", "forgettingLocal",
                               "sent", "failed", "suppressed"}]
        /\ allowedAt' \in [Alerts -> Nat] /\ duplicates' \subseteq Alerts
        /\ now' \in Nat /\ faults' \in Nat /\ down' \in BOOLEAN
        /\ fingerprint' \in [Alerts -> Fingerprints] /\ ttl' \in [Alerts -> TTLs]
    BY <1>1, StepForms DEF TypeOK, GoTo
  <2>4. QED BY <2>1, <2>2, <2>3 DEF TypeOK
<1>2. ASSUME NEW a \in Alerts, Step(a) PROVE TimesInv'
  <2>1. \A b \in Alerts \ {a} : pc'[b] = pc[b] /\ allowedAt'[b] = allowedAt[b]
    BY <1>2, StepForms DEF TypeOK, GoTo
  <2>2. now' = now /\ now \in Nat /\ allowedAt[a] \in Nat /\ MaxSend \in Nat
    BY <1>2, StepForms, Numbers DEF TypeOK
  <2>3. /\ allowedAt'[a] <= now
        /\ pc'[a] \in {"new", "fallback", "suppressed"} => allowedAt'[a] = 0
        /\ pc'[a] \in {"sending", "forgetting", "forgettingLocal"} =>
             allowedAt'[a] # 0 /\ now <= allowedAt'[a] + MaxSend
    <3>1. CASE Reserve(a) \/ AllowLocally(a)
      <4>1. allowedAt'[a] = now /\ pc'[a] = "sending" /\ now # 0
        BY <2>2, <3>1 DEF Reserve, AllowLocally, GoTo, TypeOK, TimesInv, Busy
      <4>2. QED BY <2>2, <4>1
    <3>2. CASE Suppress(a) \/ ReserveFails(a) \/ ReserveRepeated(a) \/ SuppressLocally(a)
      <4>1. /\ allowedAt'[a] = 0 /\ pc'[a] \in {"suppressed", "fallback"}
        BY <3>2 DEF Suppress, ReserveFails, ReserveRepeated, SuppressLocally, GoTo, TypeOK,
                    TimesInv
      <4>2. QED BY <2>2, <4>1
    <3>3. CASE Sent(a) \/ SendFails(a) \/ ForgetStore(a) \/ ForgetRepeated(a) \/ ForgetLocal(a)
      <4>1. /\ allowedAt'[a] = allowedAt[a] /\ Busy(a)
            /\ pc'[a] \in {"sent", "forgetting", "forgettingLocal", "failed"}
        BY <3>3 DEF Sent, SendFails, ForgetStore, ForgetRepeated, ForgetLocal, GoTo, TypeOK, Busy,
                    AfterFailedSend
      <4>2. QED BY <2>2, <4>1 DEF TimesInv
    <3>4. QED BY <1>2, <3>1, <3>2, <3>3 DEF Step
  <2>4. QED BY <2>1, <2>2, <2>3 DEF TimesInv, Busy
<1>3. CASE Tick
  <2>1. /\ now' = now + 1 /\ now \in Nat
        /\ UNCHANGED <<down, store, expires, pc, fingerprint, ttl, allowedAt, duplicates,
                       faults>>
        /\ \A a \in Alerts : Busy(a) => now < allowedAt[a] + MaxSend
    BY <1>3 DEF Tick, TypeOK
  <2>2. \A f \in Fingerprints : \E t \in TTLs : store[f] <= now + 1 + t
    <3>1. \A f \in Fingerprints : \E t \in TTLs : store[f] <= now + t
      BY DEF TypeOK
    <3>2. \A f \in Fingerprints, t \in TTLs : store[f] <= now + t => store[f] <= now + 1 + t
      BY <2>1, Numbers DEF TypeOK
    <3>3. QED BY <3>1, <3>2
  <2>3. TypeOK'
    BY <2>1, <2>2 DEF TypeOK
  <2>4. TimesInv'
    BY <2>1, Numbers DEF TimesInv, TypeOK, Busy
  <2>5. QED BY <2>3, <2>4
<1>4. CASE UNCHANGED vars
  BY <1>4 DEF vars, TypeOK, TimesInv, Busy
<1>5. QED BY <1>1, <1>2, <1>3, <1>4 DEF Next, Finished

-----------------------------------------------------------------------------
(* Whose an entry is.                                                      *)

\* While no call of the store fails by itself, a step of an alert opens an entry
\* nobody holds, gives its own entry back, or leaves every entry as it is.
Opens(a) ==
  /\ ~InForce(Entry(a)) /\ allowedAt[a] = 0 /\ pc[a] \in {"new", "fallback"}
  /\ Entry(a)' = now + ttl[a] /\ allowedAt'[a] = now /\ Holds(a)'
  /\ \A b \in Alerts : ~Shares(a, b) =>
       Entry(b)' = Entry(b) \/ (~InForce(Entry(b)) /\ Entry(b)' = 0)

GivesBack(a) ==
  /\ Holds(a) /\ Busy(a) /\ ~Holds(a)' /\ UNCHANGED allowedAt
  /\ Entry(a)' = 0
  /\ \A b \in Alerts : ~Shares(a, b) => Entry(b)' = Entry(b)

Leaves(a) ==
  /\ Holds(a)' = Holds(a) /\ UNCHANGED allowedAt
  /\ \A b \in Alerts : Entry(b)' = Entry(b)

LEMMA SharedEntry ==
  ASSUME NEW a \in Alerts, NEW b \in Alerts, Shares(a, b)
  PROVE  Entry(a) = Entry(b)
BY DEF Shares, Entry, Local

\* What a step of an alert leaves alone.
LEMMA StepKeeps ==
  ASSUME TypeOK, NEW a \in Alerts, Step(a)
  PROVE  /\ UNCHANGED <<now, down, fingerprint, ttl>>
         /\ faults' = 0 => faults = 0
         /\ \A b, c \in Alerts : Shares(b, c)' = Shares(b, c)
         /\ \A b \in Alerts \ {a} :
              pc'[b] = pc[b] /\ allowedAt'[b] = allowedAt[b] /\ Holds(b)' = Holds(b)
<1>1. UNCHANGED <<now, down, fingerprint, ttl>>
  BY StepForms
<1>2. faults' = 0 => faults = 0
  BY StepForms DEF TypeOK
<1>3. \A b \in Alerts \ {a} : pc'[b] = pc[b] /\ allowedAt'[b] = allowedAt[b]
  BY StepForms DEF TypeOK, GoTo
<1>4. QED BY <1>1, <1>2, <1>3 DEF Shares, Holds

\* Writing the entry of an alert in the store that is up changes no other.
LEMMA StoreEntries ==
  ASSUME TypeOK, ~down, UNCHANGED <<down, fingerprint>>, NEW a \in Alerts, NEW v \in Nat,
         store' = [store EXCEPT ![fingerprint[a]] = v]
  PROVE  /\ Entry(a)' = v
         /\ \A b \in Alerts : ~Shares(a, b) => Entry(b)' = Entry(b)
BY DEF TypeOK, Entry, Shares

LEMMA StepEffects ==
  ASSUME IInv, NEW a \in Alerts, Step(a), faults' = 0
  PROVE  Opens(a) \/ GivesBack(a) \/ Leaves(a)
<1> USE DEF IInv
<1>1. /\ UNCHANGED <<now, down, fingerprint, ttl>> /\ faults = 0 /\ down \in BOOLEAN
      /\ now \in Nat /\ ttl[a] \in Nat /\ now + ttl[a] \in Nat /\ now # 0
  BY StepKeeps, Numbers DEF TypeOK, TimesInv
<1>2. ~LosesReply /\ (StoreFails => down) /\ (pc[a] = "fallback" => down)
  <2>1. ~(faults' = faults + 1)
    BY <1>1
  <2>2. QED BY <1>1, <2>1 DEF LosesReply, StoreFails, OwnerInv
<1>3. /\ UNCHANGED store /\ UNCHANGED expires => \A b \in Alerts : Entry(b)' = Entry(b)
      /\ ~down /\ UNCHANGED store => \A b \in Alerts : Entry(b)' = Entry(b)
      /\ down /\ UNCHANGED expires => \A b \in Alerts : Entry(b)' = Entry(b)
  BY <1>1 DEF Entry, Local
<1>4. CASE Reserve(a)
  <2>1. /\ ~down /\ pc[a] = "new" /\ allowedAt[a] = 0 /\ ~InForce(Entry(a))
        /\ allowedAt'[a] = now /\ pc'[a] = "sending"
        /\ store' = [store EXCEPT ![fingerprint[a]] = now + ttl[a]]
    BY <1>4 DEF Reserve, StoreAnswers, StoreFree, Entry, Reservation, GoTo, TypeOK, TimesInv
  <2>2. /\ Entry(a)' = now + ttl[a]
        /\ \A b \in Alerts : ~Shares(a, b) => Entry(b)' = Entry(b)
    BY <1>1, <2>1, StoreEntries
  <2>3. QED BY <1>1, <2>1, <2>2 DEF Opens, Holds
<1>5. CASE AllowLocally(a)
  <2>1. /\ down /\ pc[a] = "fallback" /\ allowedAt[a] = 0 /\ ~InForce(Entry(a))
        /\ allowedAt'[a] = now /\ pc'[a] = "sending"
    BY <1>2, <1>5 DEF AllowLocally, LocalFree, Entry, GoTo, TypeOK, TimesInv
  <2>2. /\ expires'[ReplicaOf[a]][fingerprint[a]] = now + ttl[a]
        /\ \A f \in Fingerprints \ {fingerprint[a]} :
             expires'[ReplicaOf[a]][f] =
               IF InForce(expires[ReplicaOf[a]][f]) THEN expires[ReplicaOf[a]][f] ELSE 0
        /\ \A r \in Replicas \ {ReplicaOf[a]} : expires'[r] = expires[r]
    BY <1>5, AllowWrites
  <2>3. Entry(a)' = now + ttl[a]
    BY <1>1, <2>1, <2>2 DEF Entry, Local
  <2>4. \A b \in Alerts : ~Shares(a, b) =>
          Entry(b)' = Entry(b) \/ (~InForce(Entry(b)) /\ Entry(b)' = 0)
    BY <1>1, <2>1, <2>2, ReplicaAssumption DEF Entry, Local, Shares, TypeOK
  <2>5. QED BY <1>1, <2>1, <2>3, <2>4 DEF Opens, Holds
<1>6. CASE ForgetStore(a)
  <2>1. /\ pc[a] = "forgetting" /\ pc'[a] = "forgettingLocal" /\ UNCHANGED <<expires, allowedAt>>
        /\ allowedAt[a] # 0 /\ Busy(a)
        /\ ~down => store' = [store EXCEPT ![fingerprint[a]] = 0]
    BY <1>2, <1>6 DEF ForgetStore, StoreAnswers, NoReservation, GoTo, TypeOK, TimesInv, Busy
  <2>2. CASE down
    BY <1>1, <1>3, <2>1, <2>2 DEF Leaves, Holds
  <2>3. CASE ~down
    <3>1. /\ Entry(a)' = 0
          /\ \A b \in Alerts : ~Shares(a, b) => Entry(b)' = Entry(b)
      BY <1>1, <2>1, <2>3, StoreEntries
    <3>2. QED BY <1>1, <2>1, <2>3, <3>1 DEF GivesBack, Holds
  <2>4. QED BY <2>2, <2>3
<1>7. CASE ForgetLocal(a)
  <2>1. /\ pc[a] = "forgettingLocal" /\ pc'[a] = "failed" /\ UNCHANGED <<store, allowedAt>>
        /\ allowedAt[a] # 0 /\ Busy(a)
    BY <1>7 DEF ForgetLocal, GoTo, TypeOK, TimesInv, Busy
  <2>2. CASE ~down
    BY <1>1, <1>3, <2>1, <2>2 DEF Leaves, Holds
  <2>3. CASE down
    <3>1. /\ expires'[ReplicaOf[a]][fingerprint[a]] = 0
          /\ \A f \in Fingerprints \ {fingerprint[a]} :
               expires'[ReplicaOf[a]][f] = expires[ReplicaOf[a]][f]
          /\ \A r \in Replicas \ {ReplicaOf[a]} : expires'[r] = expires[r]
      BY <1>7, ForgetClears
    <3>2. Entry(a)' = 0
      BY <1>1, <2>3, <3>1 DEF Entry, Local
    <3>3. \A b \in Alerts : ~Shares(a, b) => Entry(b)' = Entry(b)
      BY <1>1, <2>3, <3>1, ReplicaAssumption DEF Entry, Local, Shares, TypeOK
    <3>4. QED BY <1>1, <2>1, <2>3, <3>2, <3>3 DEF GivesBack, Holds
  <2>4. QED BY <2>2, <2>3
<1>8. CASE Suppress(a) \/ ReserveFails(a) \/ SuppressLocally(a)
  <2>1. /\ UNCHANGED <<store, expires, allowedAt>> /\ allowedAt[a] = 0
    BY <1>2, <1>8 DEF Suppress, ReserveFails, SuppressLocally, TypeOK, TimesInv
  <2>2. QED BY <1>1, <1>3, <2>1 DEF Leaves, Holds
<1>9. CASE Sent(a) \/ SendFails(a)
  <2>1. /\ UNCHANGED <<store, expires, allowedAt>> /\ pc[a] = "sending"
        /\ pc'[a] \in {"sent", "forgetting"}
    BY <1>9 DEF Sent, SendFails, AfterFailedSend, GoTo, TypeOK
  <2>2. QED BY <1>1, <1>3, <2>1 DEF Leaves, Holds
<1>10. ~ReserveRepeated(a) /\ ~ForgetRepeated(a)
  BY <1>2 DEF ReserveRepeated, ForgetRepeated
<1>11. QED BY <1>4, <1>5, <1>6, <1>7, <1>8, <1>9, <1>10 DEF Step

-----------------------------------------------------------------------------
(* An entry in force has a holder.                                         *)

\* Time passes: an entry in force was in force before.
LEMMA TickKeeps ==
  ASSUME TypeOK, Tick
  PROVE  /\ now' = now + 1
         /\ UNCHANGED <<down, store, expires, pc, fingerprint, ttl, allowedAt, faults>>
         /\ \A n \in Nat : now' < n => now < n
         /\ \A a, b \in Alerts : Shares(a, b)' = Shares(a, b)
         /\ \A a \in Alerts : Holds(a)' = Holds(a) /\ Entry(a)' = Entry(a)
         /\ \A a \in Alerts : Entry(a) \in Nat /\ allowedAt[a] + ttl[a] \in Nat
<1>1. /\ now' = now + 1 /\ now \in Nat
      /\ UNCHANGED <<down, store, expires, pc, fingerprint, ttl, allowedAt, faults>>
  BY DEF Tick, TypeOK
<1>2. \A n \in Nat : now' < n => now < n
  BY <1>1
<1>3. /\ \A a, b \in Alerts : Shares(a, b)' = Shares(a, b)
      /\ \A a \in Alerts : Holds(a)' = Holds(a) /\ Entry(a)' = Entry(a)
  BY <1>1 DEF Shares, Holds, Entry, Local
<1>4. \A a \in Alerts : Entry(a) \in Nat
  BY ReplicaAssumption DEF Entry, Local, TypeOK
<1>5. \A a \in Alerts : allowedAt[a] + ttl[a] \in Nat
  <2>1. \A a \in Alerts : allowedAt[a] \in Nat /\ ttl[a] \in Nat
    BY Numbers DEF TypeOK
  <2>2. QED BY <2>1
<1>6. QED BY <1>1, <1>2, <1>3, <1>4, <1>5

\* Nobody falls back from a store that answers every call.
LEMMA StepFallsBack ==
  ASSUME IInv, NEW a \in Alerts, Step(a), faults' = 0
  PROVE  ~down' => \A b \in Alerts : pc'[b] # "fallback"
<1>1. faults = 0 /\ down' = down /\ \A b \in Alerts \ {a} : pc'[b] = pc[b]
  BY StepKeeps DEF IInv
<1>2. SUFFICES ASSUME ~down PROVE pc'[a] # "fallback"
  BY <1>1 DEF IInv, OwnerInv
<1>3. ~ReserveFails(a)
  <2>1. ~(faults' = faults + 1)
    BY <1>1
  <2>2. QED BY <1>2, <2>1 DEF ReserveFails, StoreFails, LosesReply
<1>4. QED BY <1>3 DEF IInv, TypeOK, Step, Reserve, Suppress, ReserveRepeated, AllowLocally,
     SuppressLocally, Sent, SendFails, ForgetStore, ForgetRepeated, ForgetLocal, GoTo, AfterFailedSend

LEMMA StepOwner ==
  ASSUME IInv, NEW a \in Alerts, Step(a)
  PROVE  OwnerInv'
<1> SUFFICES ASSUME faults' = 0 PROVE OwnerInv'
  BY DEF OwnerInv
<1>1. /\ UNCHANGED <<now, down, fingerprint, ttl>> /\ faults = 0
      /\ \A b, c \in Alerts : Shares(b, c)' = Shares(b, c)
      /\ \A b \in Alerts \ {a} : allowedAt'[b] = allowedAt[b] /\ Holds(b)' = Holds(b)
  BY StepKeeps DEF IInv
<1>2. now \in Nat /\ ~(now < 0) /\ Shares(a, a)
  BY DEF IInv, TypeOK, Shares
<1>3. ASSUME NEW b \in Alerts, now < Entry(b)'
      PROVE  \E c \in Alerts : Shares(c, b) /\ Holds(c)' /\ allowedAt'[c] + ttl[c] = Entry(b)'
  <2>1. ASSUME now < Entry(b)
        PROVE  \E c \in Alerts : Shares(c, b) /\ Holds(c) /\ allowedAt[c] + ttl[c] = Entry(b)
    BY <1>1, <2>1 DEF IInv, OwnerInv, InForce
  <2>2. CASE Opens(a)
    <3>1. CASE Shares(a, b)
      <4>1. Shares(a, b)'
        BY <1>1, <3>1
      <4>2. Entry(b)' = Entry(a)'
        BY <4>1 DEF Shares, Entry, Local
      <4>3. QED BY <2>2, <3>1, <4>2 DEF Opens
    <3>2. CASE ~Shares(a, b)
      <4>1. Entry(b)' = Entry(b)
        BY <1>2, <1>3, <2>2, <3>2 DEF Opens
      <4>2. PICK c \in Alerts : Shares(c, b) /\ Holds(c) /\ allowedAt[c] + ttl[c] = Entry(b)
        BY <1>3, <2>1, <4>1
      <4>3. c # a
        BY <3>2, <4>2
      <4>4. QED BY <1>1, <4>1, <4>2, <4>3
    <3>3. QED BY <3>1, <3>2
  <2>3. CASE GivesBack(a)
    <3>1. ~Shares(a, b)
      <4>1. Shares(a, b) => Entry(b)' = Entry(a)'
        BY <1>1 DEF Shares, Entry, Local
      <4>2. QED BY <1>2, <1>3, <2>3, <4>1 DEF GivesBack
    <3>2. Entry(b)' = Entry(b)
      BY <2>3, <3>1 DEF GivesBack
    <3>3. PICK c \in Alerts : Shares(c, b) /\ Holds(c) /\ allowedAt[c] + ttl[c] = Entry(b)
      BY <1>3, <2>1, <3>2
    <3>4. c # a
      BY <3>1, <3>3
    <3>5. QED BY <1>1, <3>2, <3>3, <3>4
  <2>4. CASE Leaves(a)
    <3>1. Entry(b)' = Entry(b)
      BY <2>4 DEF Leaves
    <3>2. PICK c \in Alerts : Shares(c, b) /\ Holds(c) /\ allowedAt[c] + ttl[c] = Entry(b)
      BY <1>3, <2>1, <3>1
    <3>3. Holds(c)' /\ allowedAt'[c] = allowedAt[c]
      BY <1>1, <2>4, <3>2 DEF Leaves
    <3>4. QED BY <3>1, <3>2, <3>3
  <2>5. QED BY <2>2, <2>3, <2>4, StepEffects
<1>4. ~down' => \A b \in Alerts : pc'[b] # "fallback"
  BY StepFallsBack
<1>5. QED BY <1>1, <1>3, <1>4 DEF OwnerInv, InForce

LEMMA NextIInv ==
  ASSUME IInv, [Next]_vars
  PROVE  IInv'
<1>1. TypeOK' /\ TimesInv'
  BY NextTypes DEF IInv
<1>2. ASSUME NEW a \in Alerts, Step(a) PROVE OwnerInv'
  BY <1>2, StepOwner
<1>3. CASE Tick
  <2>1. /\ \A b \in Alerts : InForce(Entry(b))' => InForce(Entry(b))
        /\ \A b \in Alerts : Entry(b)' = Entry(b)
        /\ \A a, b \in Alerts : (Shares(a, b) /\ Holds(a) /\ allowedAt[a] + ttl[a] = Entry(b))' =
             (Shares(a, b) /\ Holds(a) /\ allowedAt[a] + ttl[a] = Entry(b))
    BY <1>3, TickKeeps DEF IInv, InForce
  <2>2. UNCHANGED <<down, pc, faults>>
    BY <1>3, TickKeeps DEF IInv
  <2>3. OwnerInv'
    BY <2>1, <2>2 DEF IInv, OwnerInv
  <2>4. QED BY <1>1, <2>3 DEF IInv
<1>4. CASE UNCHANGED vars
  <2>1. OwnerInv'
    BY <1>4 DEF vars, IInv, OwnerInv, InForce, Entry, Local, Shares, Holds
  <2>2. QED BY <1>1, <2>1 DEF IInv
<1>5. QED BY <1>1, <1>2, <1>3, <1>4 DEF Next, Finished, IInv

LEMMA Invariance == Spec => []IInv
BY InitIInv, NextIInv, PTL DEF Spec

-----------------------------------------------------------------------------
(* An alert in its cooldown holds its entry alone.                         *)

LEMMA StepHolder ==
  ASSUME IInv, HolderInv, CooldownsOutlastSends, NEW a \in Alerts, Step(a)
  PROVE  HolderInv'
<1> SUFFICES ASSUME faults' = 0 PROVE HolderInv'
  BY DEF HolderInv
<1>1. /\ UNCHANGED <<now, down, fingerprint, ttl>> /\ faults = 0 /\ now \in Nat
      /\ \A b, c \in Alerts : Shares(b, c)' = Shares(b, c)
      /\ \A b \in Alerts \ {a} : allowedAt'[b] = allowedAt[b] /\ Holds(b)' = Holds(b)
  BY StepKeeps DEF IInv, TypeOK
<1>2. /\ \A b \in Alerts \ {a} : Cooling(b)' = Cooling(b)
      /\ \A b \in Alerts : Holds(b) /\ Cooling(b) =>
           Entry(b) = allowedAt[b] + ttl[b] /\ InForce(Entry(b))
      /\ \A b, c \in Alerts :
           b # c /\ Shares(b, c) /\ Holds(b) /\ Cooling(b) /\ Holds(c) => ~Cooling(c)
      /\ \A b, c \in Alerts : Shares(b, c) = Shares(c, b)
  BY <1>1 DEF HolderInv, Cooling, InForce, Shares
<1>3. CASE Opens(a)
  <2>1. \A b \in Alerts \ {a} : Holds(b) /\ Cooling(b) => ~Shares(a, b)
    BY <1>2, <1>3, SharedEntry DEF Opens
  <2>2. \A b \in Alerts \ {a} : Holds(b) /\ Cooling(b) => Entry(b)' = Entry(b)
    BY <1>2, <1>3, <2>1 DEF Opens
  <2>3. \A b \in Alerts : Holds(b)' /\ Cooling(b)' => Entry(b)' = allowedAt'[b] + ttl[b]
    BY <1>1, <1>2, <1>3, <2>2 DEF Opens
  <2>4. \A b, c \in Alerts :
          b # c /\ Shares(b, c) /\ Holds(b)' /\ Cooling(b)' /\ Holds(c)' => ~Cooling(c)'
    BY <1>1, <1>2, <2>1
  <2>5. QED BY <1>1, <2>3, <2>4 DEF HolderInv
<1>4. CASE GivesBack(a)
  <2>1. Cooling(a)
    <3>1. PICK n \in Nat, m \in Nat, t \in Nat, x \in Nat :
            n = now /\ m = allowedAt[a] /\ t = ttl[a] /\ x = MaxSend
      BY Numbers DEF IInv, TypeOK
    <3>2. m # 0 /\ n <= m + x /\ x < t
      BY <1>4, <3>1 DEF GivesBack, IInv, TimesInv, TypeOK, CooldownsOutlastSends
    <3>3. n < m + t
      BY <3>2
    <3>4. QED BY <3>1, <3>2, <3>3 DEF Cooling
  <2>2. \A b \in Alerts \ {a} : Holds(b) /\ Cooling(b) => ~Shares(a, b)
    BY <1>2, <1>4, <2>1 DEF GivesBack
  <2>3. \A b \in Alerts : Holds(b)' /\ Cooling(b)' => Entry(b)' = allowedAt'[b] + ttl[b]
    BY <1>1, <1>2, <1>4, <2>2 DEF GivesBack
  <2>4. \A b, c \in Alerts :
          b # c /\ Shares(b, c) /\ Holds(b)' /\ Cooling(b)' /\ Holds(c)' => ~Cooling(c)'
    BY <1>1, <1>2, <1>4 DEF GivesBack
  <2>5. QED BY <1>1, <2>3, <2>4 DEF HolderInv
<1>5. CASE Leaves(a)
  <2>1. Cooling(a)' = Cooling(a) /\ Holds(a)' = Holds(a) /\ UNCHANGED allowedAt
    BY <1>1, <1>5 DEF Leaves, Cooling
  <2>2. \A b \in Alerts : Cooling(b)' = Cooling(b) /\ Holds(b)' = Holds(b) /\ Entry(b)' = Entry(b)
    BY <1>1, <1>2, <1>5, <2>1 DEF Leaves
  <2>3. QED BY <1>1, <1>2, <2>1, <2>2 DEF HolderInv
<1>6. QED BY <1>3, <1>4, <1>5, StepEffects

LEMMA HolderInvariance == CooldownsOutlastSends => (Spec => [](IInv /\ HolderInv))
<1> SUFFICES ASSUME CooldownsOutlastSends PROVE Spec => [](IInv /\ HolderInv)
  OBVIOUS
<1>1. ASSUME IInv, HolderInv, [Next]_vars PROVE HolderInv'
  <2>1. ASSUME NEW a \in Alerts, Step(a) PROVE HolderInv'
    BY <1>1, <2>1, StepHolder
  <2>2. CASE Tick
    <3>1. \A b \in Alerts : Cooling(b)' => Cooling(b)
      BY <1>1, <2>2, TickKeeps DEF IInv, Cooling
    <3>2. QED BY <1>1, <2>2, <3>1, TickKeeps DEF IInv, HolderInv
  <2>3. CASE UNCHANGED vars
    BY <1>1, <2>3 DEF vars, HolderInv, Entry, Local, Shares, Holds, Cooling
  <2>4. QED BY <1>1, <2>1, <2>2, <2>3 DEF Next, Finished
<1>2. QED BY <1>1, InitIInv, NextIInv, PTL DEF Spec

-----------------------------------------------------------------------------
(* What the fingerprints promise.                                          *)

\* The deduplication state keeps its types, and no reservation outlasts the
\* longest cooldown (alertDeduper.Allow, Forget).
THEOREM TypeCorrect == Spec => []TypeOK
BY Invariance, PTL DEF IInv

\* Whatever the order of the alerts, their failures and the replicas', an alert
\* is suppressed only in the cooldown of another that was let through and has
\* not failed, for as long as no call of the store failed by itself.
THEOREM SuppressionsAreExplained == Spec => SuppressedOnlyInCooldown
<1>1. ASSUME IInv, Next, NEW b \in Alerts, pc[b] # "suppressed", pc'[b] = "suppressed",
             faults' = 0
      PROVE  \E a \in Alerts : SameFingerprint(a, b) /\ Cooling(a) /\ pc[a] # "failed"
  <2>1. Step(b)
    <3>1. ~Tick /\ ~Finished
      BY <1>1 DEF Tick, Finished, vars
    <3>2. PICK a \in Alerts : Step(a)
      BY <1>1, <3>1 DEF Next
    <3>3. a = b
      BY <1>1, <3>2, StepKeeps DEF IInv
    <3>4. QED BY <3>2, <3>3
  <2>2. faults = 0
    BY <1>1, <2>1, StepKeeps DEF IInv
  <2>3. Suppress(b) \/ SuppressLocally(b)
    <3>1. ~ReserveRepeated(b)
      <4>1. ~(faults' = faults + 1)
        BY <1>1, <2>2
      <4>2. QED BY <4>1 DEF ReserveRepeated, LosesReply
    <3>2. QED BY <1>1, <2>1, <3>1 DEF IInv, TypeOK, Step, Reserve, ReserveFails, AllowLocally,
           Sent, SendFails, ForgetStore, ForgetRepeated, ForgetLocal, GoTo, AfterFailedSend
  <2>4. InForce(Entry(b)) /\ ~Holds(b)
    <3>1. CASE Suppress(b)
      BY <3>1 DEF Suppress, StoreAnswers, StoreFree, Entry, Holds
    <3>2. CASE SuppressLocally(b)
      <4>1. down
        BY <1>1, <2>2, <3>2 DEF SuppressLocally, IInv, OwnerInv
      <4>2. QED BY <3>2, <4>1 DEF SuppressLocally, LocalFree, Entry, Holds
    <3>3. QED BY <2>3, <3>1, <3>2
  <2>5. PICK a \in Alerts : Shares(a, b) /\ Holds(a) /\ allowedAt[a] + ttl[a] = Entry(b)
    BY <1>1, <2>2, <2>4 DEF IInv, OwnerInv
  <2>6. SameFingerprint(a, b) /\ Cooling(a) /\ pc[a] # "failed"
    BY <2>4, <2>5 DEF SameFingerprint, Shares, Cooling, Holds, InForce
  <2>7. QED BY <2>6
<1>2. ASSUME IInv, [Next]_vars
      PROVE  [\A b \in Alerts :
                pc[b] # "suppressed" /\ pc'[b] = "suppressed" /\ faults' = 0 =>
                  \E a \in Alerts : SameFingerprint(a, b) /\ Cooling(a) /\ pc[a] # "failed"]_vars
  BY <1>1, <1>2
<1>3. QED BY <1>2, Invariance, PTL DEF Spec, SuppressedOnlyInCooldown

\* When no delivery outlasts a cooldown, no replica lets an alert through in the
\* cooldown of another that was delivered or is being delivered: across the
\* replicas while the store answers, within each while it is down.
THEOREM NoDuplicates == CooldownsOutlastSends => (Spec => NoDuplicateInCooldown)
<1> SUFFICES ASSUME CooldownsOutlastSends PROVE Spec => NoDuplicateInCooldown
  OBVIOUS
<1>1. ASSUME IInv, HolderInv, Next, NEW a \in Alerts, NEW b \in Alerts,
             SameFingerprint(a, b), LetThrough(b), Delivering(a), faults = 0,
             down => ReplicaOf[a] = ReplicaOf[b], Cooling(a)
      PROVE  FALSE
  <2>1. Step(b)
    <3>1. ~Tick /\ ~Finished
      BY <1>1 DEF Tick, Finished, vars, LetThrough
    <3>2. PICK c \in Alerts : Step(c)
      BY <1>1, <3>1 DEF Next
    <3>3. c = b
      BY <1>1, <3>2, StepKeeps DEF IInv, LetThrough
    <3>4. QED BY <3>2, <3>3
  <2>2. Reserve(b) \/ AllowLocally(b)
    BY <1>1, <2>1 DEF LetThrough, Step, Suppress, ReserveFails, ReserveRepeated,
       SuppressLocally, Sent, SendFails, ForgetStore, ForgetRepeated, ForgetLocal
  <2>3. ~InForce(Entry(b))
    <3>1. CASE Reserve(b)
      BY <3>1 DEF Reserve, StoreAnswers, StoreFree, Entry
    <3>2. CASE AllowLocally(b)
      <4>1. down
        BY <1>1, <3>2 DEF AllowLocally, IInv, OwnerInv
      <4>2. QED BY <3>2, <4>1 DEF AllowLocally, LocalFree, Entry
    <3>3. QED BY <2>2, <3>1, <3>2
  <2>4. Shares(a, b) /\ Holds(a)
    BY <1>1 DEF Shares, SameFingerprint, Holds, Delivering, Cooling
  <2>5. InForce(Entry(a))
    BY <1>1, <2>4 DEF HolderInv, Cooling, InForce
  <2>6. QED BY <2>3, <2>4, <2>5, SharedEntry
<1>2. ASSUME IInv, HolderInv, [Next]_vars
      PROVE  [\A a, b \in Alerts :
                /\ SameFingerprint(a, b) /\ LetThrough(b)
                /\ Delivering(a)
                /\ faults = 0
                /\ down => ReplicaOf[a] = ReplicaOf[b]
                => ~Cooling(a)]_vars
  BY <1>1, <1>2
<1>3. QED BY <1>2, HolderInvariance, PTL DEF Spec, NoDuplicateInCooldown

-----------------------------------------------------------------------------
(* What failing calls cost.                                                *)
(*                                                                         *)
(* The store is up and every cooldown is the same.  L is the set of alerts *)
(* that fell back to their replica, each after a call that failed; O the   *)
(* set of owners, the alerts whose own reservation is in the store.        *)

Even == ~down /\ \A a, b \in Alerts : ttl[a] = ttl[b]

\* Let through, in their cooldown, and their entry not given back.
Active == {a \in Alerts : pc[a] \in {"sending", "sent", "forgetting"} /\ Cooling(a)}

Pending(L) == {a \in L : pc[a] = "fallback"}
GaveBack(L) == {a \in L : pc[a] \in {"forgettingLocal", "failed"}}

\* Another active alert whose cooldown ends no later: its failure would take the
\* reservation of o away.
Rival(o) == \E u \in Active : SameFingerprint(u, o) /\ allowedAt[u] <= allowedAt[o]

\* The alerts let through by the store that count as duplicates, or may still make
\* room for one: they lost their reservation or may lose it.
Charged(L, O) ==
  {b \in duplicates \ L : Delivering(b)} \cup {h \in Active \ L : h \notin O \/ Rival(h)}

\* The fingerprints whose next reservation is, or will be, a duplicate: an active
\* alert is not covered to its end by the reservation of an owner.
Contested(O) ==
  {f \in Fingerprints : \E x \in Active :
     /\ fingerprint[x] = f
     /\ \A o \in O : fingerprint[o] = f => allowedAt[o] < allowedAt[x]}

Fallen(L) ==
  /\ L \subseteq Alerts
  /\ \A a \in Alerts : pc[a] = "fallback" => a \in L
  /\ \A a \in L : pc[a] # "new"
  /\ \A b \in duplicates : allowedAt[b] # 0

\* A fingerprint has one owner, the last of its alerts the store let through.
Owners(L, O) ==
  /\ O \subseteq Active \ L
  /\ \A o \in O : store[fingerprint[o]] = allowedAt[o] + ttl[o]
  /\ \A o, p \in O : ~SameFingerprint(o, p)
  /\ \A o \in O, h \in Active \ L :
       fingerprint[o] = fingerprint[h] => allowedAt[h] <= allowedAt[o]

\* A fallback pays for one alert, and for another one when its alert has failed;
\* any other call that failed pays for two.
Paid(L, O) ==
  /\ Cardinality(L) <= faults
  /\ Cardinality(Charged(L, O)) + Cardinality(Contested(O)) + Cardinality(Pending(L)) <=
       Cardinality(L) + Cardinality(GaveBack(L)) + 2 * (faults - Cardinality(L))

Balance(L, O) == Fallen(L) /\ Owners(L, O) /\ Paid(L, O)

BalanceInv == Even => \E L, O \in SUBSET Alerts : Balance(L, O)

\* How the number of elements follows a set that loses or gains one.
LEMMA Shrinks ==
  ASSUME NEW X, IsFiniteSet(X), NEW Y, Y \subseteq X
  PROVE  /\ IsFiniteSet(Y)
         /\ Cardinality(X) \in Nat /\ Cardinality(Y) \in Nat /\ Cardinality(Y) <= Cardinality(X)
BY FS_Subset, FS_CardinalityType

LEMMA Grows ==
  ASSUME NEW X, IsFiniteSet(X), NEW e, NEW Y, Y \subseteq X \cup {e}
  PROVE  /\ Cardinality(X) \in Nat /\ Cardinality(Y) \in Nat
         /\ Cardinality(Y) <= Cardinality(X) + 1
<1>1. /\ IsFiniteSet(X \cup {e}) /\ Cardinality(X) \in Nat
      /\ Cardinality(X \cup {e}) = IF e \in X THEN Cardinality(X) ELSE Cardinality(X) + 1
  BY FS_AddElement, FS_CardinalityType
<1>2. Cardinality(Y) \in Nat /\ Cardinality(Y) <= Cardinality(X \cup {e})
  BY <1>1, Shrinks
<1>3. QED BY <1>1, <1>2

LEMMA Loses ==
  ASSUME NEW X, IsFiniteSet(X), NEW e \in X, NEW Y, Y \subseteq X \ {e}
  PROVE  /\ Cardinality(X) \in Nat /\ Cardinality(Y) \in Nat
         /\ Cardinality(Y) + 1 <= Cardinality(X)
<1>1. /\ IsFiniteSet(X \ {e}) /\ Cardinality(X) \in Nat
      /\ Cardinality(X \ {e}) = Cardinality(X) - 1
  BY FS_RemoveElement, FS_CardinalityType
<1>2. Cardinality(Y) \in Nat /\ Cardinality(Y) <= Cardinality(X \ {e})
  BY <1>1, Shrinks
<1>3. QED BY <1>1, <1>2

\* Two sets counted together: they shrink, one of them gains an element, or one
\* loses an element where the other gains one.
LEMMA SumShrinks ==
  ASSUME NEW X, IsFiniteSet(X), NEW Y, IsFiniteSet(Y), NEW S, S \subseteq X, NEW T, T \subseteq Y
  PROVE  /\ Cardinality(S) \in Nat /\ Cardinality(T) \in Nat
         /\ Cardinality(S) + Cardinality(T) <= Cardinality(X) + Cardinality(Y)
<1>1. /\ Cardinality(X) \in Nat /\ Cardinality(S) \in Nat /\ Cardinality(S) <= Cardinality(X)
  BY Shrinks
<1>2. /\ Cardinality(Y) \in Nat /\ Cardinality(T) \in Nat /\ Cardinality(T) <= Cardinality(Y)
  BY Shrinks
<1>3. QED BY <1>1, <1>2

LEMMA SumGrows ==
  ASSUME NEW X, IsFiniteSet(X), NEW Y, IsFiniteSet(Y), NEW S, NEW T, NEW e,
         \/ S \subseteq X \cup {e} /\ T \subseteq Y
         \/ S \subseteq X /\ T \subseteq Y \cup {e}
  PROVE  /\ Cardinality(S) \in Nat /\ Cardinality(T) \in Nat
         /\ Cardinality(S) + Cardinality(T) <= Cardinality(X) + Cardinality(Y) + 1
<1>1. CASE S \subseteq X \cup {e} /\ T \subseteq Y
  <2>1. /\ Cardinality(X) \in Nat /\ Cardinality(S) \in Nat /\ Cardinality(S) <= Cardinality(X) + 1
    BY <1>1, Grows
  <2>2. /\ Cardinality(Y) \in Nat /\ Cardinality(T) \in Nat /\ Cardinality(T) <= Cardinality(Y)
    BY <1>1, Shrinks
  <2>3. QED BY <2>1, <2>2
<1>2. CASE S \subseteq X /\ T \subseteq Y \cup {e}
  <2>1. /\ Cardinality(X) \in Nat /\ Cardinality(S) \in Nat /\ Cardinality(S) <= Cardinality(X)
    BY <1>2, Shrinks
  <2>2. /\ Cardinality(Y) \in Nat /\ Cardinality(T) \in Nat /\ Cardinality(T) <= Cardinality(Y) + 1
    BY <1>2, Grows
  <2>3. QED BY <2>1, <2>2
<1>3. QED BY <1>1, <1>2

LEMMA SumTrades ==
  ASSUME NEW X, IsFiniteSet(X), NEW Y, IsFiniteSet(Y), NEW S, NEW T, NEW e, NEW f,
         \/ e \in X /\ S \subseteq X \ {e} /\ T \subseteq Y \cup {f}
         \/ f \in Y /\ S \subseteq X \cup {e} /\ T \subseteq Y \ {f}
  PROVE  /\ Cardinality(S) \in Nat /\ Cardinality(T) \in Nat
         /\ Cardinality(S) + Cardinality(T) <= Cardinality(X) + Cardinality(Y)
<1>1. CASE e \in X /\ S \subseteq X \ {e} /\ T \subseteq Y \cup {f}
  <2>1. /\ Cardinality(X) \in Nat /\ Cardinality(S) \in Nat /\ Cardinality(S) + 1 <= Cardinality(X)
    BY <1>1, Loses
  <2>2. /\ Cardinality(Y) \in Nat /\ Cardinality(T) \in Nat /\ Cardinality(T) <= Cardinality(Y) + 1
    BY <1>1, Grows
  <2>3. QED BY <2>1, <2>2
<1>2. CASE f \in Y /\ S \subseteq X \cup {e} /\ T \subseteq Y \ {f}
  <2>1. /\ Cardinality(X) \in Nat /\ Cardinality(S) \in Nat /\ Cardinality(S) <= Cardinality(X) + 1
    BY <1>2, Grows
  <2>2. /\ Cardinality(Y) \in Nat /\ Cardinality(T) \in Nat /\ Cardinality(T) + 1 <= Cardinality(Y)
    BY <1>2, Loses
  <2>3. QED BY <2>1, <2>2
<1>3. QED BY <1>1, <1>2

LEMMA FiniteParts ==
  ASSUME TypeOK, NEW L, L \subseteq Alerts, NEW O
  PROVE  /\ IsFiniteSet(L) /\ IsFiniteSet(Charged(L, O)) /\ IsFiniteSet(Contested(O))
         /\ IsFiniteSet(Pending(L)) /\ IsFiniteSet(GaveBack(L))
<1>1. /\ L \subseteq Alerts /\ Charged(L, O) \subseteq Alerts
      /\ Pending(L) \subseteq Alerts /\ GaveBack(L) \subseteq Alerts
  BY DEF TypeOK, Charged, Active, Pending, GaveBack
<1>2. IsFiniteSet(Contested(O))
  <2> DEFINE T == {fingerprint[a] : a \in Alerts}
  <2>1. fingerprint \in Surjection(Alerts, T)
    BY DEF TypeOK, Surjection
  <2>2. IsFiniteSet(T)
    BY <2>1, AlertAssumption, FS_Surjection
  <2>3. Contested(O) \subseteq T
    BY DEF Contested, Active
  <2>4. QED BY <2>2, <2>3, FS_Subset
<1>3. QED BY <1>1, <1>2, AlertAssumption, FS_Subset

-----------------------------------------------------------------------------
(* What a step of an alert leaves alone in the account.                    *)

LEMMA OthersStay ==
  ASSUME TypeOK, NEW a \in Alerts, Step(a)
  PROVE  /\ UNCHANGED <<now, down, fingerprint, ttl>> /\ faults <= faults'
         /\ Even' = Even
         /\ \A b, c \in Alerts : SameFingerprint(b, c)' = SameFingerprint(b, c)
         /\ \A b \in Alerts \ {a} :
              /\ pc'[b] = pc[b] /\ allowedAt'[b] = allowedAt[b]
              /\ b \in Active' <=> b \in Active
              /\ Delivering(b)' = Delivering(b)
<1>1. UNCHANGED <<now, down, fingerprint, ttl>>
  BY StepForms
<1>2. \A b \in Alerts \ {a} : pc'[b] = pc[b] /\ allowedAt'[b] = allowedAt[b]
  BY StepForms DEF TypeOK, GoTo
<1>3. faults <= faults'
  BY StepForms DEF TypeOK
<1>4. Even' = Even /\ \A b, c \in Alerts : SameFingerprint(b, c)' = SameFingerprint(b, c)
  BY <1>1 DEF Even, SameFingerprint
<1>5. \A b \in Alerts \ {a} : (b \in Active' <=> b \in Active) /\ Delivering(b)' = Delivering(b)
  BY <1>1, <1>2 DEF Active, Cooling, Delivering
<1>6. QED BY <1>1, <1>2, <1>3, <1>4, <1>5

\* Where the store is free nobody owns the fingerprint.
LEMMA NoOwner ==
  ASSUME TypeOK, NEW L, NEW O, Owners(L, O), NEW a \in Alerts, StoreFree(a)
  PROVE  \A o \in O : fingerprint[o] # fingerprint[a]
BY DEF Owners, Active, Cooling, StoreFree, InForce

\* A step that keeps what the alerts that fell back have paid.
LEMMA PaidStays ==
  ASSUME TypeOK, NEW L, L \subseteq Alerts, NEW O, NEW P, Paid(L, O), faults' \in Nat,
         faults <= faults',
         GaveBack(L) \subseteq GaveBack(L)', Pending(L)' \subseteq Pending(L),
         Cardinality(Charged(L, P)') \in Nat, Cardinality(Contested(P)') \in Nat,
         Cardinality(Charged(L, P)') + Cardinality(Contested(P)') <=
           Cardinality(Charged(L, O)) + Cardinality(Contested(O))
  PROVE  Paid(L, P)'
<1>1. /\ IsFiniteSet(L) /\ IsFiniteSet(Pending(L)) /\ IsFiniteSet(GaveBack(L))
      /\ IsFiniteSet(Charged(L, O)) /\ IsFiniteSet(Contested(O))
  BY FiniteParts
<1>2. IsFiniteSet(GaveBack(L)')
  BY <1>1, FS_Subset DEF GaveBack
<1>3. /\ Cardinality(Pending(L)') <= Cardinality(Pending(L))
      /\ Cardinality(Pending(L)') \in Nat /\ Cardinality(Pending(L)) \in Nat
  BY <1>1, Shrinks
<1>4. /\ Cardinality(GaveBack(L)) <= Cardinality(GaveBack(L)')
      /\ Cardinality(GaveBack(L)') \in Nat /\ Cardinality(GaveBack(L)) \in Nat
  BY <1>2, Shrinks
<1>5. /\ Cardinality(L) \in Nat /\ Cardinality(Charged(L, O)) \in Nat
      /\ Cardinality(Contested(O)) \in Nat /\ faults \in Nat
  BY <1>1, FS_CardinalityType DEF TypeOK
<1>6. QED BY <1>3, <1>4, <1>5 DEF Paid

\* A step that pays for one more: an alert is no longer pending, or gave back.
LEMMA OneMorePaid ==
  ASSUME TypeOK, NEW L, L \subseteq Alerts, NEW O, NEW P, Paid(L, O), faults' \in Nat,
         faults <= faults', NEW a,
         GaveBack(L) \subseteq GaveBack(L)', Pending(L)' \subseteq Pending(L),
         \/ a \in Pending(L) \ Pending(L)'
         \/ a \in GaveBack(L)' \ GaveBack(L),
         Cardinality(Charged(L, P)') \in Nat, Cardinality(Contested(P)') \in Nat,
         Cardinality(Charged(L, P)') + Cardinality(Contested(P)') <=
           Cardinality(Charged(L, O)) + Cardinality(Contested(O)) + 1
  PROVE  Paid(L, P)'
<1>1. /\ IsFiniteSet(L) /\ IsFiniteSet(Pending(L)) /\ IsFiniteSet(GaveBack(L))
      /\ IsFiniteSet(Charged(L, O)) /\ IsFiniteSet(Contested(O))
  BY FiniteParts
<1>2. IsFiniteSet(GaveBack(L)')
  BY <1>1, FS_Subset DEF GaveBack
<1>3. /\ Cardinality(Pending(L)') <= Cardinality(Pending(L))
      /\ Cardinality(Pending(L)') \in Nat /\ Cardinality(Pending(L)) \in Nat
  BY <1>1, Shrinks
<1>4. /\ Cardinality(GaveBack(L)) <= Cardinality(GaveBack(L)')
      /\ Cardinality(GaveBack(L)') \in Nat /\ Cardinality(GaveBack(L)) \in Nat
  BY <1>2, Shrinks
<1>5. /\ Cardinality(L) \in Nat /\ Cardinality(Charged(L, O)) \in Nat
      /\ Cardinality(Contested(O)) \in Nat /\ faults \in Nat
  BY <1>1, FS_CardinalityType DEF TypeOK
<1>6. CASE a \in Pending(L) \ Pending(L)'
  <2>1. Cardinality(Pending(L)') + 1 <= Cardinality(Pending(L))
    BY <1>1, <1>6, Loses
  <2>2. QED BY <1>3, <1>4, <1>5, <2>1 DEF Paid
<1>7. CASE a \in GaveBack(L)' \ GaveBack(L)
  <2>1. Cardinality(GaveBack(L)) + 1 <= Cardinality(GaveBack(L)')
    BY <1>2, <1>7, Loses
  <2>2. QED BY <1>3, <1>4, <1>5, <2>1 DEF Paid
<1>8. QED BY <1>6, <1>7

-----------------------------------------------------------------------------
(* One step of the account for every kind of step.                         *)

\* Answers that let nobody through, and the ends of a delivery.
LEMMA QuietCosts ==
  ASSUME TypeOK, TypeOK', TimesInv, Even, NEW L, NEW O, Balance(L, O), NEW a \in Alerts, Step(a),
         \/ Suppress(a) \/ ReserveRepeated(a) \/ SuppressLocally(a)
         \/ Sent(a) \/ SendFails(a) \/ ForgetLocal(a)
  PROVE  Balance(L, O)'
<1> USE OthersStay
<1>1. L \subseteq Alerts /\ O \subseteq Active \ L /\ O \subseteq Alerts
  BY DEF Balance, Fallen, Owners, Active
<1>2. /\ UNCHANGED <<allowedAt, duplicates>>
      /\ Delivering(a)' => Delivering(a)
      /\ pc'[a] \notin {"new", "fallback"}
      /\ pc[a] \in {"forgettingLocal", "failed"} => pc'[a] \in {"forgettingLocal", "failed"}
      /\ pc[a] \in {"sending", "sent", "forgetting"} <=> pc'[a] \in {"sending", "sent", "forgetting"}
  BY DEF TypeOK, Suppress, ReserveRepeated, SuppressLocally, Sent, SendFails, ForgetLocal, GoTo,
         Delivering, AfterFailedSend
<1>3. Active' = Active
  BY <1>2 DEF Active, Cooling
<1>4. \A o \in O : store'[fingerprint[o]] = store[fingerprint[o]]
  <2>1. CASE ReserveRepeated(a)
    BY <1>1, <2>1, NoOwner DEF ReserveRepeated, Balance, TypeOK
  <2>2. CASE ~ReserveRepeated(a)
    BY <2>2 DEF Suppress, SuppressLocally, Sent, SendFails, ForgetLocal
  <2>3. QED BY <2>1, <2>2
<1>5. Fallen(L)'
  BY <1>2 DEF Balance, Fallen
<1>6. Owners(L, O)'
  BY <1>1, <1>2, <1>3, <1>4 DEF Balance, Owners
<1>7. Charged(L, O)' \subseteq Charged(L, O)
  <2>1. \A h \in Alerts : Rival(h)' = Rival(h)
    BY <1>2, <1>3 DEF Rival, Active
  <2>2. QED BY <1>1, <1>2, <1>3, <2>1 DEF Charged, Active, TypeOK
<1>8. Contested(O)' = Contested(O)
  BY <1>2, <1>3 DEF Contested
<1>9. GaveBack(L) \subseteq GaveBack(L)' /\ Pending(L)' \subseteq Pending(L)
  BY <1>1, <1>2 DEF GaveBack, Pending
<1>10. /\ Cardinality(Charged(L, O)') <= Cardinality(Charged(L, O))
       /\ Cardinality(Charged(L, O)) \in Nat /\ Cardinality(Charged(L, O)') \in Nat
       /\ Cardinality(Contested(O)) \in Nat
  BY <1>1, <1>7, FiniteParts, Shrinks, FS_CardinalityType
<1>11. faults' \in Nat /\ faults <= faults' /\ Paid(L, O)
  BY DEF TypeOK, Balance
<1>12. Paid(L, O)'
  <2>1. /\ Cardinality(Contested(O)') \in Nat
        /\ Cardinality(Charged(L, O)') + Cardinality(Contested(O)') <=
             Cardinality(Charged(L, O)) + Cardinality(Contested(O))
    BY <1>8, <1>10
  <2>2. QED BY <1>1, <1>9, <1>10, <1>11, <2>1, PaidStays
<1>13. QED BY <1>5, <1>6, <1>12 DEF Balance

\* A call of the store fails and the alert falls back.
LEMMA FallbackCosts ==
  ASSUME TypeOK, TypeOK', TimesInv, Even, NEW L, NEW O, Balance(L, O), NEW a \in Alerts,
         ReserveFails(a)
  PROVE  Balance(L \cup {a}, O)'
<1>1. L \subseteq Alerts /\ O \subseteq Active \ L /\ O \subseteq Alerts
  BY DEF Balance, Fallen, Owners, Active
<1> DEFINE M == L \cup {a}
<1>2. /\ UNCHANGED <<now, down, fingerprint, ttl, allowedAt, duplicates>> /\ faults' = faults + 1
      /\ pc[a] = "new" /\ pc'[a] = "fallback"
      /\ \A b \in Alerts \ {a} : pc'[b] = pc[b]
  BY DEF ReserveFails, StoreFails, LosesReply, Even, GoTo, TypeOK
<1>3. a \notin L /\ a \notin Active /\ M \subseteq Alerts
  BY <1>1, <1>2 DEF Balance, Fallen, Active
<1>4. Active' = Active
  BY <1>2 DEF Active, Cooling
<1>5. \A o \in O : store'[fingerprint[o]] = store[fingerprint[o]]
  <2>1. CASE UNCHANGED store
    BY <2>1
  <2>2. CASE StoreFree(a) /\ store' = [store EXCEPT ![fingerprint[a]] = Reservation(a)]
    BY <1>1, <2>2, NoOwner DEF Balance, TypeOK
  <2>3. QED BY <2>1, <2>2 DEF ReserveFails
<1>6. Fallen(M)'
  BY <1>1, <1>2, <1>3 DEF Balance, Fallen
<1>7. Owners(M, O)'
  BY <1>1, <1>2, <1>3, <1>4, <1>5 DEF Balance, Owners, SameFingerprint
<1>8. Charged(M, O)' \subseteq Charged(L, O)
  <2>1. \A h \in Alerts : Rival(h)' = Rival(h)
    BY <1>2, <1>4 DEF Rival, Active, SameFingerprint
  <2>2. \A b \in Alerts \ {a} : Delivering(b)' = Delivering(b)
    BY <1>2 DEF Delivering
  <2>3. QED BY <1>1, <1>2, <1>3, <1>4, <2>1, <2>2 DEF Charged, Active, TypeOK
<1>9. Contested(O)' = Contested(O)
  BY <1>2, <1>4 DEF Contested
<1>10. GaveBack(L) \subseteq GaveBack(M)' /\ Pending(M)' \subseteq Pending(L) \cup {a}
  BY <1>1, <1>2, <1>3 DEF GaveBack, Pending
<1>11. /\ Cardinality(Charged(M, O)') <= Cardinality(Charged(L, O))
       /\ Cardinality(Charged(L, O)) \in Nat /\ Cardinality(Charged(M, O)') \in Nat
       /\ Cardinality(Contested(O)) \in Nat
  BY <1>1, <1>8, FiniteParts, Shrinks, FS_CardinalityType
<1>12. /\ IsFiniteSet(L) /\ IsFiniteSet(M) /\ IsFiniteSet(Pending(L)) /\ IsFiniteSet(GaveBack(M)')
  <2>1. IsFiniteSet(L) /\ IsFiniteSet(M) /\ IsFiniteSet(Pending(L))
    BY <1>1, <1>3, FiniteParts
  <2>2. QED BY <2>1, FS_Subset DEF GaveBack
<1>13. /\ Cardinality(Pending(M)') <= Cardinality(Pending(L)) + 1
       /\ Cardinality(Pending(M)') \in Nat /\ Cardinality(Pending(L)) \in Nat
  BY <1>10, <1>12, Grows
<1>14. /\ Cardinality(GaveBack(L)) <= Cardinality(GaveBack(M)')
       /\ Cardinality(GaveBack(M)') \in Nat /\ Cardinality(GaveBack(L)) \in Nat
  BY <1>10, <1>12, Shrinks
<1>15. Cardinality(M) = Cardinality(L) + 1 /\ Cardinality(L) \in Nat
  BY <1>3, <1>12, FS_AddElement, FS_CardinalityType
<1>16. faults \in Nat /\ Paid(L, O)
  BY DEF TypeOK, Balance
<1> HIDE DEF M
<1>17. Paid(M, O)'
  BY <1>2, <1>9, <1>11, <1>13, <1>14, <1>15, <1>16 DEF Paid
<1>18. QED BY <1>6, <1>7, <1>17 DEF Balance, M

\* An alert is let through: nothing else happens to the active ones.
LEMMA LetsThrough ==
  ASSUME TypeOK, TimesInv, NEW a \in Alerts, AllowLocally(a) \/ Reserve(a)
  PROVE  /\ UNCHANGED <<now, down, fingerprint, ttl>>
         /\ allowedAt[a] = 0 /\ allowedAt'[a] = now /\ pc'[a] = "sending"
         /\ \A b \in Alerts \ {a} : pc'[b] = pc[b] /\ allowedAt'[b] = allowedAt[b]
         /\ Active' = Active \cup {a} /\ a \notin Active
         /\ duplicates' \subseteq duplicates \cup {a}
         /\ \A b \in Active : allowedAt[b] <= now
         /\ now \in Nat /\ \A b \in Alerts : allowedAt[b] \in Nat
<1>1. /\ UNCHANGED <<now, down, fingerprint, ttl>>
      /\ allowedAt' = [allowedAt EXCEPT ![a] = now] /\ pc' = [pc EXCEPT ![a] = "sending"]
      /\ duplicates' = NoteDuplicate(a) /\ pc[a] \in {"new", "fallback"}
  BY DEF AllowLocally, Reserve, GoTo, StoreAnswers
<1>2. /\ allowedAt[a] = 0 /\ allowedAt'[a] = now /\ pc'[a] = "sending"
      /\ \A b \in Alerts \ {a} : pc'[b] = pc[b] /\ allowedAt'[b] = allowedAt[b]
  BY <1>1 DEF TypeOK, TimesInv
<1>3. now \in Nat /\ now # 0 /\ \A b \in Alerts : allowedAt[b] \in Nat /\ allowedAt[b] <= now
  BY DEF TypeOK, TimesInv
<1>4. a \in Active' /\ a \notin Active
  <2>1. ttl[a] \in Nat \ {0} /\ ttl'[a] = ttl[a] /\ now' = now
    BY <1>1, Numbers DEF TypeOK
  <2>2. QED BY <1>2, <1>3, <2>1 DEF Active, Cooling
<1>5. \A b \in Alerts \ {a} : b \in Active' <=> b \in Active
  BY <1>1, <1>2 DEF Active, Cooling
<1>6. Active' = Active \cup {a}
  BY <1>4, <1>5 DEF Active
<1>7. duplicates' \subseteq duplicates \cup {a}
  BY <1>1 DEF NoteDuplicate
<1>8. \A b \in Active : allowedAt[b] <= now
  BY <1>3 DEF Active
<1>9. QED BY <1>1, <1>2, <1>3, <1>4, <1>6, <1>7, <1>8

\* An alert that fell back is let through by its replica: an owner let through in
\* the same tick may lose its reservation, or the fingerprint becomes contested.
LEMMA LocalCosts ==
  ASSUME TypeOK, TypeOK', TimesInv, Even, NEW L, NEW O, Balance(L, O), NEW a \in Alerts,
         AllowLocally(a)
  PROVE  Balance(L, O)'
<1>1. L \subseteq Alerts /\ O \subseteq Active \ L /\ O \subseteq Alerts /\ Active \subseteq Alerts
  BY DEF Balance, Fallen, Owners, Active
<1>2. /\ UNCHANGED <<now, down, store, fingerprint, ttl, faults>>
      /\ pc[a] = "fallback" /\ pc'[a] = "sending" /\ allowedAt'[a] = now
      /\ \A b \in Alerts \ {a} : pc'[b] = pc[b] /\ allowedAt'[b] = allowedAt[b]
  BY LetsThrough DEF AllowLocally
<1>3. Active' = Active \cup {a} /\ a \notin Active /\ a \in L
  BY <1>2, LetsThrough DEF Balance, Fallen
<1>4. now \in Nat /\ now # 0 /\ \A b \in Active : allowedAt[b] <= now /\ allowedAt[b] \in Nat
  BY <1>1, LetsThrough DEF TimesInv
<1>5. duplicates' \subseteq duplicates \cup {a}
  BY LetsThrough
<1>6. Fallen(L)'
  <2>1. L \subseteq Alerts /\ (\A b \in Alerts : pc'[b] = "fallback" => b \in L) /\ \A b \in L : pc'[b] # "new"
    BY <1>2, <1>3 DEF Balance, Fallen
  <2>2. \A b \in duplicates' : allowedAt'[b] # 0
    BY <1>2, <1>4, <1>5 DEF Balance, Fallen, TypeOK
  <2>3. QED BY <2>1, <2>2 DEF Fallen
<1>7. Owners(L, O)'
  <2>1. \A o \in O : allowedAt'[o] = allowedAt[o]
    BY <1>1, <1>2, <1>3
  <2>2. Active' \ L = Active \ L /\ \A h \in Active \ L : allowedAt'[h] = allowedAt[h]
    BY <1>1, <1>2, <1>3
  <2>3. QED BY <1>1, <1>2, <2>1, <2>2 DEF Balance, Owners, SameFingerprint
<1>8. \A h \in Active \ L : Rival(h)' =>
        \/ Rival(h)
        \/ fingerprint[h] = fingerprint[a] /\ now <= allowedAt[h]
  BY <1>1, <1>2, <1>3 DEF Rival, SameFingerprint
<1>9. \A b \in duplicates' \ L : Delivering(b)' => b \in duplicates \ L /\ Delivering(b)
  BY <1>2, <1>3, <1>5 DEF Delivering, TypeOK
<1>10. \A g \in Contested(O)' :
         \/ g \in Contested(O)
         \/ /\ g = fingerprint[a]
            /\ \A o \in O : fingerprint[o] = fingerprint[a] => allowedAt[o] < now
  BY <1>1, <1>2, <1>3 DEF Contested
<1>11. \/ Charged(L, O)' \subseteq Charged(L, O) /\ Contested(O)' \subseteq Contested(O) \cup {fingerprint[a]}
       \/ \E o \in O : /\ Charged(L, O)' \subseteq Charged(L, O) \cup {o}
                       /\ Contested(O)' \subseteq Contested(O)
  <2>1. CASE \E o \in O : fingerprint[o] = fingerprint[a] /\ now <= allowedAt[o]
    <3>1. PICK o \in O : fingerprint[o] = fingerprint[a] /\ now <= allowedAt[o]
      BY <2>1
    <3>2. Contested(O)' \subseteq Contested(O)
      BY <1>1, <1>4, <1>10, <3>1
    <3>3. \A h \in O : fingerprint[h] = fingerprint[a] => h = o
      BY <3>1 DEF Balance, Owners, SameFingerprint
    <3>4. Charged(L, O)' \subseteq Charged(L, O) \cup {o}
      BY <1>3, <1>8, <1>9, <3>3 DEF Charged
    <3>5. QED BY <3>2, <3>4
  <2>2. CASE \A o \in O : fingerprint[o] = fingerprint[a] => ~(now <= allowedAt[o])
    <3>1. Charged(L, O)' \subseteq Charged(L, O)
      BY <1>3, <1>8, <1>9, <2>2 DEF Charged
    <3>2. Contested(O)' \subseteq Contested(O) \cup {fingerprint[a]}
      BY <1>10
    <3>3. QED BY <3>1, <3>2
  <2>3. QED BY <2>1, <2>2
<1>12. /\ GaveBack(L) \subseteq GaveBack(L)' /\ Pending(L)' \subseteq Pending(L)
       /\ a \in Pending(L) \ Pending(L)'
  BY <1>1, <1>2, <1>3 DEF GaveBack, Pending
<1>13. IsFiniteSet(Charged(L, O)) /\ IsFiniteSet(Contested(O))
  BY <1>1, FiniteParts
<1>14. /\ Cardinality(Charged(L, O)') \in Nat /\ Cardinality(Contested(O)') \in Nat
       /\ Cardinality(Charged(L, O)') + Cardinality(Contested(O)') <=
            Cardinality(Charged(L, O)) + Cardinality(Contested(O)) + 1
  BY <1>11, <1>13, SumGrows
<1>15. faults' \in Nat /\ faults <= faults' /\ Paid(L, O)
  BY <1>2 DEF TypeOK, Balance
<1>16. Paid(L, O)'
  BY <1>1, <1>12, <1>14, <1>15, OneMorePaid
<1>17. QED BY <1>6, <1>7, <1>16 DEF Balance

\* The store lets an alert through: a contested fingerprint has an owner again,
\* and the duplicate takes its place in the account.
LEMMA ReserveCosts ==
  ASSUME TypeOK, TypeOK', TimesInv, Even, NEW L, NEW O, Balance(L, O), NEW a \in Alerts,
         Reserve(a)
  PROVE  Balance(L, O \cup {a})'
<1>1. L \subseteq Alerts /\ O \subseteq Active \ L /\ O \subseteq Alerts /\ Active \subseteq Alerts
  BY DEF Balance, Fallen, Owners, Active
<1> DEFINE P == O \cup {a}
<1> DEFINE f == fingerprint[a]
<1>2. /\ UNCHANGED <<now, down, fingerprint, ttl, faults>>
      /\ pc[a] = "new" /\ pc'[a] = "sending" /\ allowedAt[a] = 0 /\ allowedAt'[a] = now
      /\ \A b \in Alerts \ {a} : pc'[b] = pc[b] /\ allowedAt'[b] = allowedAt[b]
      /\ store' = [store EXCEPT ![f] = now + ttl[a]] /\ StoreFree(a)
  BY LetsThrough DEF Reserve, StoreAnswers, Reservation
<1>3. Active' = Active \cup {a} /\ a \notin Active /\ a \notin L /\ a \notin O /\ P \subseteq Alerts
  BY <1>1, <1>2, LetsThrough DEF Balance, Fallen
<1>4. now \in Nat /\ now # 0 /\ \A b \in Active : allowedAt[b] <= now /\ allowedAt[b] \in Nat
  BY <1>1, LetsThrough DEF TimesInv
<1>5. duplicates' \subseteq duplicates \cup {a} /\ a \notin duplicates
  BY <1>2, LetsThrough DEF Balance, Fallen
<1>6. \A o \in O : fingerprint[o] # f /\ allowedAt'[o] = allowedAt[o] /\ store'[fingerprint[o]] = store[fingerprint[o]]
  BY <1>1, <1>2, <1>3, NoOwner DEF Balance, TypeOK
<1>7. Fallen(L)'
  <2>1. L \subseteq Alerts /\ (\A b \in Alerts : pc'[b] = "fallback" => b \in L) /\ \A b \in L : pc'[b] # "new"
    BY <1>1, <1>2, <1>3 DEF Balance, Fallen
  <2>2. \A b \in duplicates' : allowedAt'[b] # 0
    BY <1>2, <1>4, <1>5 DEF Balance, Fallen, TypeOK
  <2>3. QED BY <2>1, <2>2 DEF Fallen
<1>8. Owners(L, P)'
  <2>1. P \subseteq Active' \ L
    BY <1>1, <1>3
  <2>2. \A o \in P : store'[fingerprint[o]] = allowedAt'[o] + ttl[o]
    <3>1. store'[f] = allowedAt'[a] + ttl[a]
      BY <1>2 DEF TypeOK
    <3>2. \A o \in O : store'[fingerprint[o]] = allowedAt'[o] + ttl[o]
      BY <1>6 DEF Balance, Owners
    <3>3. QED BY <3>1, <3>2
  <2>3. \A o, p \in P : ~SameFingerprint(o, p)
    BY <1>6 DEF Balance, Owners, SameFingerprint
  <2>4. \A o \in P, h \in Active' \ L :
          fingerprint[o] = fingerprint[h] => allowedAt'[h] <= allowedAt'[o]
    <3>1. \A h \in Active' \ L : allowedAt'[h] \in Nat /\ allowedAt'[h] <= allowedAt'[a]
      BY <1>1, <1>2, <1>3, <1>4
    <3>2. \A o \in O, h \in Active \ L : fingerprint[o] = fingerprint[h] => allowedAt'[h] <= allowedAt'[o]
      BY <1>1, <1>2, <1>3, <1>6 DEF Balance, Owners
    <3>3. QED BY <1>3, <1>6, <3>1, <3>2
  <2>5. fingerprint' = fingerprint /\ ttl' = ttl
    BY <1>2
  <2>6. QED BY <2>1, <2>2, <2>3, <2>4, <2>5 DEF Owners, SameFingerprint
<1>9. Contested(P)' \subseteq Contested(O) \ {f}
  <2> SUFFICES ASSUME NEW g \in Contested(P)' PROVE g \in Contested(O) \ {f}
    OBVIOUS
  <2>1. PICK x \in Active' : /\ fingerprint'[x] = g
                             /\ \A o \in P : fingerprint'[o] = g => allowedAt'[o] < allowedAt'[x]
    BY DEF Contested
  <2>2. x \in Active /\ g # f
    BY <1>1, <1>2, <1>3, <1>4, <2>1
  <2>3. QED BY <1>1, <1>2, <1>3, <1>6, <2>1, <2>2 DEF Contested
<1>10. Charged(L, P)' \subseteq Charged(L, O) \cup {a}
  <2>1. \A b \in duplicates' \ L : b # a /\ Delivering(b)' => b \in duplicates \ L /\ Delivering(b)
    BY <1>2, <1>5 DEF Delivering, TypeOK
  <2>2. \A h \in Active \ L : Rival(h)' => Rival(h) \/ fingerprint[h] = f
    BY <1>1, <1>2, <1>3 DEF Rival, SameFingerprint
  <2>3. \A h \in (Active' \ L) \ {a} : h \notin P \/ Rival(h)' => h \notin O \/ Rival(h)
    BY <1>3, <1>6, <2>2
  <2>4. QED BY <1>3, <2>1, <2>3 DEF Charged
<1>11. \/ /\ f \in Contested(O)
          /\ Charged(L, P)' \subseteq Charged(L, O) \cup {a}
          /\ Contested(P)' \subseteq Contested(O) \ {f}
       \/ Charged(L, P)' \subseteq Charged(L, O) /\ Contested(P)' \subseteq Contested(O)
  <2>1. CASE f \in Contested(O)
    BY <1>9, <1>10, <2>1
  <2>2. CASE f \notin Contested(O)
    <3>1. \A x \in Active : fingerprint[x] # f
      <4>1. f \in Fingerprints /\ \A o \in O : fingerprint[o] # f
        BY <1>6 DEF TypeOK
      <4>2. QED BY <2>2, <4>1 DEF Contested
    <3>2. duplicates' = duplicates
      <4>1. \A b \in Alerts : SameFingerprint(b, a) /\ Delivering(b) /\ Cooling(b) => b \in Active /\ fingerprint[b] = f
        BY DEF SameFingerprint, Delivering, Active
      <4>2. ~\E b \in Alerts : SameFingerprint(b, a) /\ Delivering(b) /\ Cooling(b)
        BY <3>1, <4>1
      <4>3. QED BY <4>2 DEF Reserve, NoteDuplicate
    <3>3. ~Rival(a)'
      BY <1>1, <1>2, <1>3, <3>1 DEF Rival, SameFingerprint
    <3>4. a \notin Charged(L, P)'
      BY <1>5, <3>2, <3>3 DEF Charged
    <3>5. QED BY <1>9, <1>10, <3>4
  <2>3. QED BY <2>1, <2>2
<1>12. GaveBack(L) \subseteq GaveBack(L)' /\ Pending(L)' \subseteq Pending(L)
  BY <1>1, <1>2, <1>3 DEF GaveBack, Pending
<1>13. IsFiniteSet(Charged(L, O)) /\ IsFiniteSet(Contested(O))
  BY <1>1, FiniteParts
<1> HIDE DEF P, f
<1>14. /\ Cardinality(Charged(L, P)') \in Nat /\ Cardinality(Contested(P)') \in Nat
       /\ Cardinality(Charged(L, P)') + Cardinality(Contested(P)') <=
            Cardinality(Charged(L, O)) + Cardinality(Contested(O))
  <2>1. CASE Charged(L, P)' \subseteq Charged(L, O) /\ Contested(P)' \subseteq Contested(O)
    BY <1>13, <2>1, SumShrinks
  <2>2. CASE /\ f \in Contested(O)
             /\ Charged(L, P)' \subseteq Charged(L, O) \cup {a}
             /\ Contested(P)' \subseteq Contested(O) \ {f}
    BY <1>13, <2>2, SumTrades
  <2>3. QED BY <1>11, <2>1, <2>2
<1>15. faults' \in Nat /\ faults <= faults' /\ Paid(L, O)
  BY <1>2 DEF TypeOK, Balance
<1>16. Paid(L, P)'
  BY <1>1, <1>12, <1>14, <1>15, PaidStays
<1>17. QED BY <1>7, <1>8, <1>16 DEF Balance, P

\* Time passes: of two alerts of one cooldown the earlier one ends first, so an
\* owner leaves with everything it covered.
LEMMA TickCosts ==
  ASSUME TypeOK, TypeOK', TimesInv, Even, NEW L, NEW O, Balance(L, O), Tick
  PROVE  \E P \in SUBSET Alerts : Balance(L, P)'
<1>1. L \subseteq Alerts /\ O \subseteq Active \ L /\ O \subseteq Alerts /\ Active \subseteq Alerts
  BY DEF Balance, Fallen, Owners, Active
<1>2. PICK P \in SUBSET Alerts : P = O \cap Active'
  BY <1>1
<1>3. /\ now' = now + 1 /\ now \in Nat
      /\ UNCHANGED <<down, store, pc, fingerprint, ttl, allowedAt, duplicates, faults>>
      /\ \A b \in Alerts : allowedAt[b] \in Nat /\ ttl[b] \in Nat
  BY Numbers DEF Tick, TypeOK
<1>4. Active' \subseteq Active
  BY <1>3 DEF Active, Cooling
<1>5. \A o \in O, x \in Active' : allowedAt[x] <= allowedAt[o] => o \in P
  <2> SUFFICES ASSUME NEW o \in O, NEW x \in Active', allowedAt[x] <= allowedAt[o]
               PROVE  o \in Active'
    BY <1>2
  <2>1. /\ o \in Alerts /\ x \in Alerts /\ ttl[o] = ttl[x]
        /\ now + 1 < allowedAt[x] + ttl[x]
        /\ pc[o] \in {"sending", "sent", "forgetting"} /\ allowedAt[o] # 0
    BY <1>1, <1>3, <1>4 DEF Even, Active, Cooling
  <2>2. now + 1 < allowedAt[o] + ttl[o]
    BY <1>3, <2>1
  <2>3. QED BY <1>3, <2>1, <2>2 DEF Active, Cooling
<1>6. Fallen(L)'
  BY <1>3 DEF Balance, Fallen
<1>7. Owners(L, P)'
  BY <1>1, <1>2, <1>3, <1>4 DEF Balance, Owners, SameFingerprint
<1>8. Contested(P)' \subseteq Contested(O)
  <2> SUFFICES ASSUME NEW g \in Contested(P)' PROVE g \in Contested(O)
    OBVIOUS
  <2>1. PICK x \in Active' : /\ fingerprint[x] = g /\ g \in Fingerprints
                             /\ \A o \in P : fingerprint[o] = g => allowedAt[o] < allowedAt[x]
    BY <1>3 DEF Contested
  <2>2. \A o \in O : fingerprint[o] = g => allowedAt[o] < allowedAt[x]
    BY <1>1, <1>3, <1>4, <1>5, <2>1
  <2>3. QED BY <1>4, <2>1, <2>2 DEF Contested
<1>9. Charged(L, P)' \subseteq Charged(L, O)
  <2>1. \A h \in Alerts : Rival(h)' => Rival(h)
    BY <1>3, <1>4 DEF Rival, SameFingerprint
  <2>2. QED BY <1>1, <1>2, <1>3, <1>4, <2>1 DEF Charged, Delivering
<1>10. GaveBack(L) \subseteq GaveBack(L)' /\ Pending(L)' \subseteq Pending(L)
  BY <1>3 DEF GaveBack, Pending
<1>11. IsFiniteSet(Charged(L, O)) /\ IsFiniteSet(Contested(O))
  BY <1>1, FiniteParts
<1>12. /\ Cardinality(Charged(L, P)') \in Nat /\ Cardinality(Contested(P)') \in Nat
       /\ Cardinality(Charged(L, P)') + Cardinality(Contested(P)') <=
            Cardinality(Charged(L, O)) + Cardinality(Contested(O))
  BY <1>8, <1>9, <1>11, SumShrinks
<1>13. faults' \in Nat /\ faults <= faults' /\ Paid(L, O)
  BY <1>3 DEF TypeOK, Balance
<1>14. Paid(L, P)'
  BY <1>1, <1>10, <1>12, <1>13, PaidStays
<1>15. QED BY <1>6, <1>7, <1>14 DEF Balance

\* A failed delivery deletes the reservation, whoever owns it.  When that is
\* another alert's, an owner that could lose it was charged for it, or the
\* fingerprint was contested, or the alert that fell back pays for its failure.
LEMMA ForgetCosts ==
  ASSUME TypeOK, TypeOK', TimesInv, CooldownsOutlastSends, Even,
         NEW L, NEW O, Balance(L, O), NEW a \in Alerts, ForgetStore(a)
  PROVE  \E P \in SUBSET Alerts : Balance(L, P)'
<1>1. L \subseteq Alerts /\ O \subseteq Active \ L /\ O \subseteq Alerts /\ Active \subseteq Alerts
  BY DEF Balance, Fallen, Owners, Active
<1> DEFINE f == fingerprint[a]
<1>2. /\ UNCHANGED <<now, down, fingerprint, ttl, allowedAt, duplicates>>
      /\ pc[a] = "forgetting" /\ pc'[a] = "forgettingLocal"
      /\ \A b \in Alerts \ {a} : pc'[b] = pc[b]
      /\ store' = store \/ store' = [store EXCEPT ![f] = 0]
  BY DEF ForgetStore, GoTo, NoReservation, TypeOK
<1>3. \A b \in Alerts : allowedAt[b] \in Nat
  BY DEF TypeOK
<1>4. a \in Active
  <2>1. /\ allowedAt[a] # 0 /\ now <= allowedAt[a] + MaxSend
    BY <1>2 DEF TimesInv, Busy
  <2>2. MaxSend < ttl[a] /\ MaxSend \in Nat /\ ttl[a] \in Nat /\ now \in Nat
    BY Numbers DEF CooldownsOutlastSends, TypeOK
  <2>3. now < allowedAt[a] + ttl[a]
    BY <1>3, <2>1, <2>2
  <2>4. QED BY <1>2, <2>1, <2>3 DEF Active, Cooling
<1>5. Active' = Active \ {a}
  BY <1>1, <1>2 DEF Active, Cooling
<1>6. PICK P \in SUBSET Alerts : P = IF store' = store THEN O \ {a} ELSE {o \in O : fingerprint[o] # f}
  BY <1>1
<1>7. /\ P \subseteq O \ {a}
      /\ \A o \in P : store'[fingerprint[o]] = store[fingerprint[o]]
      /\ \A o \in O \ P : fingerprint[o] = f
  BY <1>1, <1>2, <1>6 DEF TypeOK
<1>8. Fallen(L)'
  <2>1. \A b \in Alerts : pc'[b] \in {"new", "fallback"} => pc[b] = pc'[b]
    BY <1>2
  <2>2. QED BY <1>1, <1>2, <2>1 DEF Balance, Fallen
<1>9. Owners(L, P)'
  <2>1. /\ P \subseteq Active' \ L /\ Active' \ L \subseteq Active \ L /\ P \subseteq O
    BY <1>1, <1>5, <1>7
  <2>2. \A o \in P : store'[fingerprint'[o]] = allowedAt'[o] + ttl'[o]
    BY <1>2, <1>7, <2>1 DEF Balance, Owners
  <2>3. QED BY <1>2, <2>1, <2>2 DEF Balance, Owners, SameFingerprint
<1>10. Contested(P)' \subseteq Contested(O) \cup {f}
  BY <1>2, <1>5, <1>7 DEF Contested
<1>11. P = O => Contested(P)' \subseteq Contested(O)
  BY <1>2, <1>5 DEF Contested
<1>12. \A h \in Alerts : Rival(h)' => Rival(h)
  BY <1>2, <1>5 DEF Rival, SameFingerprint
<1>13. \A b \in Alerts : Delivering(b)' => Delivering(b) /\ b # a
  BY <1>2 DEF Delivering
<1>14. /\ a \notin Charged(L, P)'
       /\ Charged(L, P)' \subseteq Charged(L, O) \cup (O \ P)
  <2>1. \A b \in duplicates' : b \in duplicates /\ b \in Alerts
    BY <1>2 DEF TypeOK
  <2>2. QED BY <1>1, <1>5, <1>12, <1>13, <2>1 DEF Charged
<1>15. \A o, p \in O : fingerprint[o] = fingerprint[p] => o = p
  BY DEF Balance, Owners, SameFingerprint
<1>16. \/ Charged(L, P)' \subseteq Charged(L, O) /\ Contested(P)' \subseteq Contested(O)
       \/ /\ a \in Charged(L, O)
          /\ Charged(L, P)' \subseteq Charged(L, O) \ {a}
          /\ Contested(P)' \subseteq Contested(O) \cup {f}
       \/ /\ a \in L
          /\ \/ /\ Charged(L, P)' \subseteq Charged(L, O)
                /\ Contested(P)' \subseteq Contested(O) \cup {f}
             \/ \E o \in O : /\ Charged(L, P)' \subseteq Charged(L, O) \cup {o}
                             /\ Contested(P)' \subseteq Contested(O)
  <2>1. CASE P = O
    BY <1>11, <1>14, <2>1
  <2>2. CASE P # O
    <3>1. PICK o \in O \ P : fingerprint[o] = f
      BY <1>7, <2>2
    <3>2. Charged(L, P)' \subseteq Charged(L, O) \cup {o}
      BY <1>7, <1>14, <1>15, <3>1
    <3>3. f \in Fingerprints /\ o \in Active \ L
      BY <1>1, <3>1 DEF TypeOK
    <3>4. Rival(o) => o \in Charged(L, O)
      BY <1>1, <3>3 DEF Charged
    <3>5. \A x \in Active : fingerprint[x] = f /\ allowedAt[o] < allowedAt[x] => f \in Contested(O)
      BY <1>15, <3>1, <3>3 DEF Contested
    <3>6. CASE o = a
      <4>1. Charged(L, P)' \subseteq Charged(L, O) \ {a}
        BY <1>14, <3>2, <3>6
      <4>2. CASE Rival(o)
        BY <1>10, <3>4, <3>6, <4>1, <4>2
      <4>3. CASE ~Rival(o)
        <5>1. ASSUME f \in Contested(P)' PROVE f \in Contested(O)
          <6>1. PICK x \in Active' : fingerprint[x] = f
            BY <1>2, <5>1 DEF Contested
          <6>2. x \in Active /\ x # o /\ x \in Alerts /\ o \in Alerts
            BY <1>1, <1>5, <3>3, <3>6, <6>1
          <6>3. allowedAt[o] < allowedAt[x]
            BY <1>3, <3>1, <4>3, <6>1, <6>2 DEF Rival, SameFingerprint
          <6>4. QED BY <3>5, <6>1, <6>2, <6>3
        <5>2. QED BY <1>10, <4>1, <5>1
      <4>4. QED BY <4>2, <4>3
    <3>7. CASE o # a
      <4>1. a \notin O /\ SameFingerprint(a, o)
        BY <1>15, <3>1, <3>7 DEF SameFingerprint
      <4>2. CASE allowedAt[a] <= allowedAt[o]
        <5>1. Charged(L, P)' \subseteq Charged(L, O)
          BY <1>4, <3>2, <3>4, <4>1, <4>2 DEF Rival
        <5>2. a \notin L => a \in Charged(L, O)
          BY <1>4, <4>1 DEF Charged
        <5>3. QED BY <1>10, <1>14, <5>1, <5>2
      <4>3. CASE ~(allowedAt[a] <= allowedAt[o])
        <5>1. a \in L
          BY <1>4, <3>1, <4>3 DEF Balance, Owners
        <5>2. f \in Contested(O)
          BY <1>1, <1>3, <1>4, <3>3, <3>5, <4>3
        <5>3. QED BY <1>10, <3>1, <3>2, <5>1, <5>2
      <4>4. QED BY <4>2, <4>3
    <3>8. QED BY <3>6, <3>7
  <2>3. QED BY <2>1, <2>2
<1>17. /\ GaveBack(L) \subseteq GaveBack(L)' /\ Pending(L)' \subseteq Pending(L)
       /\ a \in L => a \in GaveBack(L)' \ GaveBack(L)
  BY <1>1, <1>2 DEF GaveBack, Pending
<1>18. IsFiniteSet(Charged(L, O)) /\ IsFiniteSet(Contested(O))
  BY <1>1, FiniteParts
<1>19. faults' \in Nat /\ faults <= faults' /\ Paid(L, O)
  BY DEF TypeOK, Balance, ForgetStore, StoreAnswers, LosesReply, StoreFails
<1> HIDE DEF f
<1>20. Paid(L, P)'
  <2>1. CASE Charged(L, P)' \subseteq Charged(L, O) /\ Contested(P)' \subseteq Contested(O)
    <3>1. /\ Cardinality(Charged(L, P)') \in Nat /\ Cardinality(Contested(P)') \in Nat
          /\ Cardinality(Charged(L, P)') + Cardinality(Contested(P)') <=
               Cardinality(Charged(L, O)) + Cardinality(Contested(O))
      BY <1>18, <2>1, SumShrinks
    <3>2. QED BY <1>1, <1>17, <1>19, <3>1, PaidStays
  <2>2. CASE /\ a \in Charged(L, O)
             /\ Charged(L, P)' \subseteq Charged(L, O) \ {a}
             /\ Contested(P)' \subseteq Contested(O) \cup {f}
    <3>1. /\ Cardinality(Charged(L, P)') \in Nat /\ Cardinality(Contested(P)') \in Nat
          /\ Cardinality(Charged(L, P)') + Cardinality(Contested(P)') <=
               Cardinality(Charged(L, O)) + Cardinality(Contested(O))
      BY <1>18, <2>2, SumTrades
    <3>2. QED BY <1>1, <1>17, <1>19, <3>1, PaidStays
  <2>3. CASE /\ a \in L
             /\ \/ /\ Charged(L, P)' \subseteq Charged(L, O)
                   /\ Contested(P)' \subseteq Contested(O) \cup {f}
                \/ \E o \in O : /\ Charged(L, P)' \subseteq Charged(L, O) \cup {o}
                                /\ Contested(P)' \subseteq Contested(O)
    <3>1. /\ Cardinality(Charged(L, P)') \in Nat /\ Cardinality(Contested(P)') \in Nat
          /\ Cardinality(Charged(L, P)') + Cardinality(Contested(P)') <=
               Cardinality(Charged(L, O)) + Cardinality(Contested(O)) + 1
      BY <1>18, <2>3, SumGrows
    <3>2. QED BY <1>1, <1>17, <1>19, <2>3, <3>1, OneMorePaid
  <2>4. QED BY <1>16, <2>1, <2>2, <2>3
<1>21. QED BY <1>8, <1>9, <1>20 DEF Balance

\* A DEL that is repeated may delete the reservation of an alert that made it
\* meanwhile: the call that failed pays for it, and for the contested fingerprint.
LEMMA RepeatCosts ==
  ASSUME TypeOK, TypeOK', Even, NEW L, NEW O, Balance(L, O), NEW a \in Alerts, ForgetRepeated(a)
  PROVE  \E P \in SUBSET Alerts : Balance(L, P)'
<1>1. L \subseteq Alerts /\ O \subseteq Active \ L /\ O \subseteq Alerts
  BY DEF Balance, Fallen, Owners, Active
<1> DEFINE f == fingerprint[a]
<1>2. /\ UNCHANGED <<now, down, pc, fingerprint, ttl, allowedAt, duplicates>>
      /\ store' = [store EXCEPT ![f] = 0] /\ faults' = faults + 1
  BY DEF ForgetRepeated, LosesReply, GoTo, NoReservation, TypeOK
<1>3. PICK P \in SUBSET Alerts : P = {o \in O : fingerprint[o] # f}
  BY <1>1
<1>4. /\ Active' = Active /\ P \subseteq O
      /\ \A o \in P : store'[fingerprint[o]] = store[fingerprint[o]]
  BY <1>1, <1>2, <1>3 DEF TypeOK, Active, Cooling
<1>5. Fallen(L)'
  BY <1>2 DEF Balance, Fallen
<1>6. Owners(L, P)'
  BY <1>1, <1>2, <1>4 DEF Balance, Owners, SameFingerprint
<1>7. Contested(P)' \subseteq Contested(O) \cup {f}
  BY <1>2, <1>3, <1>4 DEF Contested
<1>8. PICK o : Charged(L, P)' \subseteq Charged(L, O) \cup {o}
  <2>1. \A q, p \in O : fingerprint[q] = fingerprint[p] => q = p
    BY DEF Balance, Owners, SameFingerprint
  <2>2. \E o : O \subseteq P \cup {o}
    BY <1>3, <2>1
  <2>3. Charged(L, P)' \subseteq Charged(L, O) \cup (O \ P)
    BY <1>1, <1>2, <1>4 DEF Charged, Rival, Delivering, SameFingerprint
  <2>4. QED BY <2>2, <2>3
<1>9. GaveBack(L)' = GaveBack(L) /\ Pending(L)' = Pending(L)
  BY <1>2 DEF GaveBack, Pending
<1>10. /\ IsFiniteSet(L) /\ IsFiniteSet(Charged(L, O)) /\ IsFiniteSet(Contested(O))
       /\ IsFiniteSet(Pending(L)) /\ IsFiniteSet(GaveBack(L))
  BY <1>1, FiniteParts
<1> HIDE DEF f
<1>11. /\ Cardinality(Charged(L, O)) \in Nat /\ Cardinality(Charged(L, P)') \in Nat
       /\ Cardinality(Charged(L, P)') <= Cardinality(Charged(L, O)) + 1
  BY <1>8, <1>10, Grows
<1>12. /\ Cardinality(Contested(O)) \in Nat /\ Cardinality(Contested(P)') \in Nat
       /\ Cardinality(Contested(P)') <= Cardinality(Contested(O)) + 1
  BY <1>7, <1>10, Grows
<1>13. /\ Cardinality(L) \in Nat /\ Cardinality(Pending(L)) \in Nat
       /\ Cardinality(GaveBack(L)) \in Nat /\ faults \in Nat
  BY <1>10, FS_CardinalityType DEF TypeOK
<1>14. Paid(L, O)
  BY DEF Balance
<1>15. Paid(L, P)'
  BY <1>2, <1>9, <1>11, <1>12, <1>13, <1>14 DEF Paid
<1>16. QED BY <1>5, <1>6, <1>15 DEF Balance

LEMMA InitBalance == Init => BalanceInv
<1> SUFFICES ASSUME Init PROVE BalanceInv
  OBVIOUS
<1>1. /\ faults = 0 /\ duplicates = {}
      /\ pc = [a \in Alerts |-> "new"] /\ allowedAt = [a \in Alerts |-> 0]
  BY Zenon DEF Init
<1>2. Active = {}
  BY <1>1 DEF Active
<1>3. /\ Charged({}, {}) = {} /\ Contested({}) = {} /\ Pending({}) = {} /\ GaveBack({}) = {}
  BY <1>1, <1>2 DEF Charged, Contested, Pending, GaveBack
<1>4. Paid({}, {})
  <2>1. Cardinality({}) = 0
    BY FS_EmptySet
  <2>2. QED BY <1>1, <1>3, <2>1 DEF Paid
<1>5. Fallen({}) /\ Owners({}, {})
  BY <1>1 DEF Fallen, Owners
<1>6. QED BY <1>4, <1>5 DEF Balance, BalanceInv

LEMMA NextBalance ==
  ASSUME TypeOK, TypeOK', TimesInv, CooldownsOutlastSends, BalanceInv, [Next]_vars
  PROVE  BalanceInv'
<1>1. UNCHANGED <<down, ttl>>
  <2>1. ASSUME NEW a \in Alerts, Step(a) PROVE UNCHANGED <<down, ttl>>
    BY <2>1, OthersStay
  <2>2. QED BY <2>1 DEF Next, Tick, Finished, vars
<1> SUFFICES ASSUME Even PROVE \E L, P \in SUBSET Alerts : Balance(L, P)'
  BY <1>1 DEF BalanceInv, Even
<1>2. PICK L \in SUBSET Alerts, O \in SUBSET Alerts : Balance(L, O)
  BY DEF BalanceInv
<1>3. CASE Tick
  BY <1>2, <1>3, TickCosts
<1>4. ASSUME NEW a \in Alerts, Step(a) PROVE \E M, P \in SUBSET Alerts : Balance(M, P)'
  <2>1. CASE \/ Suppress(a) \/ ReserveRepeated(a) \/ SuppressLocally(a)
             \/ Sent(a) \/ SendFails(a) \/ ForgetLocal(a)
    BY <1>2, <1>4, <2>1, QuietCosts
  <2>2. CASE ReserveFails(a)
    <3>1. Balance(L \cup {a}, O)'
      BY <1>2, <2>2, FallbackCosts
    <3>2. QED BY <1>2, <3>1
  <2>3. CASE AllowLocally(a)
    BY <1>2, <2>3, LocalCosts
  <2>4. CASE Reserve(a)
    <3>1. Balance(L, O \cup {a})'
      BY <1>2, <2>4, ReserveCosts
    <3>2. QED BY <1>2, <3>1
  <2>5. CASE ForgetStore(a)
    BY <1>2, <2>5, ForgetCosts
  <2>6. CASE ForgetRepeated(a)
    BY <1>2, <2>6, RepeatCosts
  <2>7. QED BY <1>4, <2>1, <2>2, <2>3, <2>4, <2>5, <2>6 DEF Step
<1>5. CASE UNCHANGED vars
  <2>1. Balance(L, O)'
    BY <1>2, <1>5
       DEF vars, Balance, Fallen, Owners, Paid, Charged, Contested, Pending, GaveBack, Rival, Active,
           Cooling, Delivering, SameFingerprint
  <2>2. QED BY <1>2, <2>1
<1>6. QED BY <1>3, <1>4, <1>5 DEF Next, Finished

\* The account bounds the duplicates that are, or will be, delivered: those of the
\* alerts that fell back and did not fail, and the charged ones.
LEMMA BalanceBounds ==
  ASSUME TypeOK, BalanceInv
  PROVE  FaultsExplainDuplicates
<1> SUFFICES ASSUME Even
             PROVE  Cardinality({b \in duplicates : Delivering(b)}) <= 2 * faults
  BY DEF FaultsExplainDuplicates, Even
<1>1. PICK L \in SUBSET Alerts, O \in SUBSET Alerts : Balance(L, O)
  BY DEF BalanceInv
<1> DEFINE D == {b \in duplicates : Delivering(b)}
<1> DEFINE K == L \ GaveBack(L)
<1>2. /\ IsFiniteSet(L) /\ IsFiniteSet(GaveBack(L)) /\ IsFiniteSet(Pending(L))
      /\ IsFiniteSet(Charged(L, O)) /\ IsFiniteSet(Contested(O))
  BY FiniteParts
<1>3. IsFiniteSet(K) /\ Cardinality(K) = Cardinality(L) - Cardinality(GaveBack(L))
  <2>1. GaveBack(L) \subseteq L
    BY DEF GaveBack
  <2>2. L \cap GaveBack(L) = GaveBack(L)
    BY <2>1
  <2>3. QED BY <1>2, <2>2, FS_Difference
<1>4. D \subseteq K \cup Charged(L, O)
  BY DEF Charged, GaveBack, Delivering, TypeOK
<1>5. /\ IsFiniteSet(K \cup Charged(L, O))
      /\ Cardinality(K \cup Charged(L, O)) <= Cardinality(K) + Cardinality(Charged(L, O))
  <2>1. /\ IsFiniteSet(K \cup Charged(L, O))
        /\ Cardinality(K \cup Charged(L, O)) =
             Cardinality(K) + Cardinality(Charged(L, O)) - Cardinality(K \cap Charged(L, O))
    BY <1>2, <1>3, FS_Union
  <2>2. Cardinality(K \cap Charged(L, O)) \in Nat
    BY <1>3, Shrinks
  <2>3. Cardinality(K) \in Nat /\ Cardinality(Charged(L, O)) \in Nat
    BY <1>2, <1>3, FS_CardinalityType
  <2>4. QED BY <2>1, <2>2, <2>3
<1>6. /\ Cardinality(D) \in Nat /\ Cardinality(D) <= Cardinality(K \cup Charged(L, O))
      /\ Cardinality(K \cup Charged(L, O)) \in Nat
  BY <1>4, <1>5, Shrinks
<1>7. /\ Cardinality(L) \in Nat /\ Cardinality(GaveBack(L)) \in Nat /\ Cardinality(Pending(L)) \in Nat
      /\ Cardinality(Charged(L, O)) \in Nat /\ Cardinality(Contested(O)) \in Nat
      /\ Cardinality(K) \in Nat /\ faults \in Nat
  BY <1>2, <1>3, FS_CardinalityType DEF TypeOK
<1>8. /\ Cardinality(L) <= faults
      /\ Cardinality(Charged(L, O)) + Cardinality(Contested(O)) + Cardinality(Pending(L)) <=
           Cardinality(L) + Cardinality(GaveBack(L)) + 2 * (faults - Cardinality(L))
  BY <1>1 DEF Balance, Paid
<1> HIDE DEF D, K
<1>9. Cardinality(D) <= 2 * faults
  BY <1>3, <1>5, <1>6, <1>7, <1>8
<1>10. QED BY <1>9 DEF D

LEMMA BalanceInvariance == CooldownsOutlastSends => (Spec => [](IInv /\ BalanceInv))
<1> SUFFICES ASSUME CooldownsOutlastSends PROVE Spec => [](IInv /\ BalanceInv)
  OBVIOUS
<1>1. Init => IInv /\ BalanceInv
  BY InitIInv, InitBalance
<1>2. IInv /\ BalanceInv /\ [Next]_vars => (IInv /\ BalanceInv)'
  <2> SUFFICES ASSUME IInv, BalanceInv, [Next]_vars PROVE (IInv /\ BalanceInv)'
    OBVIOUS
  <2>1. IInv'
    BY NextIInv
  <2>2. BalanceInv'
    BY <2>1, NextBalance DEF IInv
  <2>3. QED BY <2>1, <2>2
<1>3. QED BY <1>1, <1>2, PTL DEF Spec

\* A failing call of the store costs at most two duplicates: the account that a
\* fallback opens pays for its alert, and for one more only when that alert failed;
\* a repeated DEL pays for the reservation it deleted and the one made instead.
THEOREM FailuresExplainDuplicates == CooldownsOutlastSends => (Spec => []FaultsExplainDuplicates)
<1> SUFFICES ASSUME CooldownsOutlastSends PROVE Spec => []FaultsExplainDuplicates
  OBVIOUS
<1>1. IInv /\ BalanceInv => FaultsExplainDuplicates
  BY BalanceBounds DEF IInv
<1>2. QED BY <1>1, BalanceInvariance, PTL
=============================================================================
