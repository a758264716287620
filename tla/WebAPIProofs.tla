---------------------------- MODULE WebAPIProofs ----------------------------
(***************************************************************************)
(* What TLAPS proves of WebAPI for every load, limit, duration and bound.  *)
(***************************************************************************)
EXTENDS WebAPI, FiniteSetTheorems, TLAPS

\* The three handlers, whatever they are asked.
LEMMA VerdictsAgree ==
  ASSUME NEW f \in Form
  PROVE  /\ Verdict(f) \in Changes <=> f.token /\ Asks(f) \in Changes /\ Complete(f)
         /\ Verdict(f) \in Changes \cup {"list", "table"} => f.token /\ Verdict(f) = Asks(f)
<1> USE DEF Form, Verdict, Changes, Asks, Complete
<1>1. CASE f.handler = "slash"
  BY <1>1 DEF Slash, SlashCommand
<1>2. CASE f.handler = "mute"
  BY <1>2 DEF Mute
<1>3. CASE f.handler = "excludes"
  BY <1>3 DEF Excludes
<1>4. QED BY <1>1, <1>2, <1>3

AnswersAreVerdicts ==
  \A q \in Requests : stage[q] = "answered" => answer[q] = Verdict(form[q])

\* A time that was read is not 0, the zero time of a window that never began.
ClockRead == now # 0 /\ \A q \in Requests : stage[q] = "limiting" => observed[q] # 0

IInv == TypeOK /\ ClockRead /\ DOMAIN answer = Requests /\ AnswersAreVerdicts

LEMMA InitIInv == Init => IInv
<1> SUFFICES ASSUME Init PROVE IInv
  OBVIOUS
<1>1. TypeOK
  <2>1. \A c \in Clients : windows[c].start = 0 /\ windows[c].count = 0
    BY DEF Init, Requests
  <2>2. windows \in [Clients -> [start : Nat, count : Nat]]
    BY DEF Init, Requests
  <2>3. /\ stage \in [Requests -> {"new", "limiting", "admitted", "limited", "answered"}]
        /\ observed \in [Requests -> Nat] /\ enteredAt \in [Requests -> Nat]
        /\ now \in Nat /\ form \in Loads /\ client \in [Requests -> Clients]
    BY DEF Init, Requests
  <2>4. QED BY <2>1, <2>2, <2>3 DEF TypeOK
<1>2. ClockRead /\ DOMAIN answer = Requests /\ AnswersAreVerdicts
  <2>1. \A q \in Requests : stage[q] = "new"
    BY DEF Init, Requests
  <2>2. now = 1
    BY Zenon DEF Init
  <2>3. answer = [q \in Requests |-> ""]
    BY DEF Init, Requests
  <2>4. DOMAIN answer = Requests
    BY <2>3, Zenon DEF Requests
  <2>5. QED BY <2>1, <2>2, <2>4 DEF ClockRead, AnswersAreVerdicts
<1>3. QED BY <1>1, <1>2 DEF IInv

\* A window that counts a request began at the time one was read.
LEMMA CountInType ==
  ASSUME NEW w \in [start : Nat, count : Nat], NEW t \in Nat \ {0},
         w.start = 0 <=> w.count = 0
  PROVE  /\ CountIn(w, t) \in [start : Nat, count : Nat]
         /\ CountIn(w, t).start # 0 /\ CountIn(w, t).count # 0
<1>1. CASE WindowOver(w, t)
  BY <1>1 DEF CountIn
<1>2. CASE ~WindowOver(w, t)
  <2>1. w.start # 0
    BY <1>2 DEF WindowOver
  <2>2. CountIn(w, t) = [w EXCEPT !.count = w.count + 1]
    BY <1>2 DEF CountIn
  <2>3. QED BY <2>1, <2>2
<1>3. QED BY <1>1, <1>2

LEMMA NextIInv == IInv /\ [Next]_vars => IInv'
<1> SUFFICES ASSUME IInv, [Next]_vars PROVE IInv'
  OBVIOUS
<1> USE DEF IInv, TypeOK, ClockRead, AnswersAreVerdicts, Requests
<1>1. CASE Tick
  BY <1>1 DEF Tick
<1>2. ASSUME NEW q \in Requests, ReadClock(q) PROVE IInv'
  BY <1>2 DEF ReadClock
<1>3. ASSUME NEW q \in Requests, Allow(q) PROVE IInv'
  <2> DEFINE w == CountIn(windows[client[q]], observed[q])
  <2>1. /\ w \in [start : Nat, count : Nat]
        /\ w.start # 0 /\ w.count # 0
    <3>1. /\ windows[client[q]] \in [start : Nat, count : Nat]
          /\ observed[q] \in Nat \ {0}
          /\ windows[client[q]].start = 0 <=> windows[client[q]].count = 0
      BY <1>3 DEF Allow
    <3>2. QED BY <3>1, CountInType
  <2>2. /\ windows' = [windows EXCEPT ![client[q]] = w]
        /\ enteredAt' = [enteredAt EXCEPT ![q] = now]
        /\ stage' = [stage EXCEPT ![q] = IF w.count <= Limit THEN "admitted" ELSE "limited"]
        /\ UNCHANGED <<now, client, form, observed, answer>>
    BY <1>3 DEF Allow
  <2> HIDE DEF w
  <2>3. QED BY <2>1, <2>2
<1>4. ASSUME NEW q \in Requests, Serve(q) PROVE IInv'
  BY <1>4 DEF Serve
<1>5. CASE UNCHANGED vars
  BY <1>5 DEF vars
<1>6. QED BY <1>1, <1>2, <1>3, <1>4, <1>5 DEF Next, Finished

THEOREM Invariance == Spec => []IInv
BY InitIInv, NextIInv, PTL DEF Spec

\* Every reachable state of the limiter and its requests is well typed; a window
\* that has begun counts the request it began with.
THEOREM TypeCorrect == Spec => []TypeOK
<1>1. IInv => TypeOK
  BY DEF IInv
<1>2. QED BY <1>1, Invariance, PTL

\* The slash command, /api/mute and /api/excludes show or change the excludes for
\* authorised and complete requests only, and as asked.
THEOREM ThreeHandlersAgree == Spec => []HandlersAgree
<1>1. ASSUME IInv, NEW q \in Requests PROVE form[q] \in Form
  BY <1>1, LoadAssumption DEF IInv, TypeOK, Requests
<1>2. IInv => HandlersAgree
  BY <1>1, VerdictsAgree DEF IInv, AnswersAreVerdicts, HandlersAgree
<1>3. QED BY <1>2, Invariance, PTL

-----------------------------------------------------------------------------
(* The windows a limiter has gone through.  The code keeps only the current *)
(* one of each client; the invariant says that the requests Allow has       *)
(* decided on can be assigned to windows, each to the start of its own.     *)

CountedIn(w, c, s) == {q \in Requests : client[q] = c /\ Entered(q) /\ w[q] = s}
AdmittedIn(w, c, s) == {q \in Requests : client[q] = c /\ Admitted(q) /\ w[q] = s}

\* A request waits for the lock no longer than MaxDelay; no window begins in the
\* future.
WaitBounded ==
  /\ \A q \in Requests :
       /\ stage[q] = "limiting" => observed[q] <= now /\ now <= observed[q] + MaxDelay
       /\ Entered(q) => enteredAt[q] <= observed[q] + MaxDelay
  /\ \A c \in Clients : windows[c].start <= now

\* A request is decided on after its window began, and saw the clock before
\* the window was over.
InsideWindow(w) ==
  \A q \in Requests : Entered(q) =>
    /\ w[q] # 0 /\ w[q] <= enteredAt[q] /\ observed[q] < w[q] + Duration
    /\ w[q] = windows[client[q]].start \/ w[q] + Duration <= windows[client[q]].start

\* The windows of a client do not overlap.
Apart(w) ==
  \A p, q \in Requests : Entered(p) /\ Entered(q) /\ client[p] = client[q] =>
    w[p] = w[q] \/ w[p] + Duration <= w[q] \/ w[q] + Duration <= w[p]

\* The count of the current window; what a window admits and when it refuses.
Counts(w) ==
  /\ \A c \in Clients : windows[c].start # 0 =>
       Cardinality(CountedIn(w, c, windows[c].start)) = windows[c].count
  /\ \A c \in Clients, s \in Nat : Cardinality(AdmittedIn(w, c, s)) <= Limit
  /\ \A q \in Requests : stage[q] = "limited" =>
       Cardinality(CountedIn(w, client[q], w[q])) > Limit

Assigned(w) == InsideWindow(w) /\ Apart(w) /\ Counts(w)

WindowInv == WaitBounded /\ \E w \in [Requests -> Nat] : Assigned(w)

LEMMA RequestsFinite == IInv => IsFiniteSet(Requests)
BY LoadAssumption DEF IInv, TypeOK, Requests

LEMMA CountedFinite ==
  ASSUME IInv, NEW w, NEW c, NEW s
  PROVE  /\ IsFiniteSet(CountedIn(w, c, s)) /\ Cardinality(CountedIn(w, c, s)) \in Nat
         /\ AdmittedIn(w, c, s) \subseteq CountedIn(w, c, s)
         /\ IsFiniteSet(AdmittedIn(w, c, s)) /\ Cardinality(AdmittedIn(w, c, s)) \in Nat
<1>1. CountedIn(w, c, s) \in SUBSET Requests /\ AdmittedIn(w, c, s) \in SUBSET Requests
  BY DEF CountedIn, AdmittedIn
<1>2. AdmittedIn(w, c, s) \subseteq CountedIn(w, c, s)
  BY DEF CountedIn, AdmittedIn, Admitted, Entered
<1>3. QED BY <1>1, <1>2, RequestsFinite, FS_Subset, FS_CardinalityType

\* A step that decides on no request.
LEMMA UndecidedKeepsAssigned ==
  ASSUME IInv, NEW w \in [Requests -> Nat], Assigned(w),
         UNCHANGED <<windows, client, form, enteredAt>>,
         \A q \in Requests : /\ Entered(q)' <=> Entered(q)
                             /\ Admitted(q)' <=> Admitted(q)
                             /\ stage'[q] = "limited" <=> stage[q] = "limited"
                             /\ Entered(q) => observed'[q] = observed[q]
  PROVE  Assigned(w)'
<1>1. Requests' = Requests
  BY DEF Requests
<1>2. /\ \A c, s : /\ CountedIn(w, c, s)' = CountedIn(w, c, s)
                   /\ AdmittedIn(w, c, s)' = AdmittedIn(w, c, s)
  BY <1>1 DEF CountedIn, AdmittedIn
<1>3. InsideWindow(w)' /\ Apart(w)'
  BY <1>1 DEF Assigned, InsideWindow, Apart
<1>4. Counts(w)'
  <2>1. \A c \in Clients : windows'[c].start # 0 =>
           Cardinality(CountedIn(w, c, windows[c].start)') = windows'[c].count
    BY <1>2 DEF Assigned, Counts
  <2>2. \A c \in Clients, s \in Nat : Cardinality(AdmittedIn(w, c, s)') <= Limit
    BY <1>2 DEF Assigned, Counts
  <2>3. \A q \in Requests' : stage'[q] = "limited" =>
           Cardinality(CountedIn(w, client[q], w[q])') > Limit
    BY <1>1, <1>2 DEF Assigned, Counts
  <2>4. QED BY <2>1, <2>2, <2>3 DEF Counts
<1>5. QED BY <1>3, <1>4 DEF Assigned

\* Allow assigns the request to the window it is counted in: the current one, or
\* one that begins with it.
LEMMA AllowKeepsAssigned ==
  ASSUME IInv, WaitBounded, NEW w \in [Requests -> Nat], Assigned(w),
         NEW q \in Requests, Allow(q)
  PROVE  \E x \in [Requests -> Nat] : Assigned(x)'
<1>1. PICK c \in Clients, o \in Nat \ {0} : c = client[q] /\ o = observed[q]
  BY DEF IInv, TypeOK, ClockRead, Allow
<1>2. PICK old \in [start : Nat, count : Nat] :
        old = windows[c] /\ (old.start = 0 <=> old.count = 0)
  BY DEF IInv, TypeOK
<1>3. PICK new \in [start : Nat, count : Nat] :
        /\ new = CountIn(old, o) /\ new.start # 0 /\ new.count # 0
  BY <1>2, CountInType
<1>4. /\ windows' = [windows EXCEPT ![c] = new]
      /\ enteredAt' = [enteredAt EXCEPT ![q] = now]
      /\ stage' = [stage EXCEPT ![q] = IF new.count <= Limit THEN "admitted" ELSE "limited"]
      /\ stage[q] = "limiting"
      /\ UNCHANGED <<now, client, form, observed, answer>>
  BY <1>1, <1>2, <1>3 DEF Allow
<1>5. PICK s \in Nat \ {0}, k \in Nat \ {0} : s = new.start /\ k = new.count
  BY <1>3
<1>6. \/ (old.start = 0 \/ o >= old.start + Duration) /\ s = o /\ k = 1
      \/ old.start # 0 /\ o < old.start + Duration /\ s = old.start /\ k = old.count + 1
  <2>1. CASE WindowOver(old, o)
    BY <1>2, <1>3, <1>5, <2>1 DEF CountIn, WindowOver
  <2>2. CASE ~WindowOver(old, o)
    <3>1. new = [old EXCEPT !.count = old.count + 1]
      BY <1>3, <2>2 DEF CountIn
    <3>2. old.start # 0 /\ o < old.start + Duration
      BY <1>2, <2>2, TimeAssumption DEF WindowOver
    <3>3. QED BY <1>2, <1>5, <3>1, <3>2
  <2>3. QED BY <2>1, <2>2
<1> DEFINE x == [w EXCEPT ![q] = s]
<1>7. /\ x \in [Requests -> Nat] /\ x[q] = s
      /\ \A p \in Requests \ {q} : x[p] = w[p]
      /\ Requests' = Requests
  BY <1>4 DEF Requests
<1>8. /\ \A p \in Requests \ {q} : /\ stage'[p] = stage[p] /\ enteredAt'[p] = enteredAt[p]
                                   /\ Entered(p)' <=> Entered(p)
                                   /\ Admitted(p)' <=> Admitted(p)
      /\ ~Entered(q) /\ ~Admitted(q) /\ Entered(q)' /\ enteredAt'[q] = now
      /\ Admitted(q)' <=> k <= Limit
      /\ stage'[q] = "limited" => k > Limit
      /\ windows'[c].start = s /\ windows'[c].count = k
      /\ \A d \in Clients \ {c} : windows'[d] = windows[d]
  BY <1>2, <1>4, <1>5, LimitAssumption DEF Entered, Admitted, IInv, TypeOK
<1> HIDE DEF x
\* What was assigned before ended before the new window, or is in it.
<1>9. ASSUME NEW p \in Requests, Entered(p), client[p] = c
      PROVE  w[p] = s \/ w[p] + Duration <= s
  <2>1. w[p] # 0 /\ (w[p] = old.start \/ w[p] + Duration <= old.start)
    BY <1>2, <1>9 DEF Assigned, InsideWindow
  <2>2. w[p] \in Nat /\ Duration \in Nat
    BY TimeAssumption
  <2>3. QED BY <1>2, <1>6, <2>1, <2>2
<1>10. ASSUME NEW p \in Requests, Entered(p), client[p] = c, w[p] = s
       PROVE  s = old.start
  <2>1. w[p] # 0 /\ (w[p] = old.start \/ w[p] + Duration <= old.start)
    BY <1>2, <1>10 DEF Assigned, InsideWindow
  <2>2. w[p] \in Nat /\ Duration \in Nat \ {0}
    BY TimeAssumption
  <2>3. QED BY <1>2, <1>6, <1>10, <2>1, <2>2
<1>11. InsideWindow(x)'
  <2>1. ASSUME NEW p \in Requests \ {q}, Entered(p)
        PROVE  /\ w[p] # 0 /\ w[p] <= enteredAt'[p] /\ observed'[p] < w[p] + Duration
               /\ w[p] = windows'[client'[p]].start \/ w[p] + Duration <= windows'[client'[p]].start
    <3>1. /\ w[p] # 0 /\ w[p] <= enteredAt[p] /\ observed[p] < w[p] + Duration
          /\ w[p] = windows[client[p]].start \/ w[p] + Duration <= windows[client[p]].start
          /\ client[p] \in Clients
      BY <2>1 DEF Assigned, InsideWindow, IInv, TypeOK
    <3>2. CASE client[p] = c
      BY <1>4, <1>8, <1>9, <2>1, <3>1, <3>2
    <3>3. CASE client[p] # c
      BY <1>4, <1>8, <3>1, <3>3
    <3>4. QED BY <3>2, <3>3
  <2>2. /\ s # 0 /\ s <= enteredAt'[q] /\ observed'[q] < s + Duration
        /\ s = windows'[client'[q]].start
    <3>1. s <= now
      BY <1>1, <1>2, <1>4, <1>6 DEF WaitBounded
    <3>2. QED BY <1>1, <1>2, <1>4, <1>6, <1>8, <3>1, TimeAssumption
  <2>3. QED BY <1>7, <1>8, <2>1, <2>2 DEF InsideWindow
<1>12. Apart(x)'
  <2>1. ASSUME NEW p \in Requests \ {q}, Entered(p), client[p] = client[q]
        PROVE  w[p] = s \/ w[p] + Duration <= s
    BY <1>1, <1>9, <2>1
  <2>2. QED BY <1>4, <1>7, <1>8, <2>1 DEF Apart, Assigned
<1>13. /\ CountedIn(x, c, s)' = CountedIn(w, c, s) \cup {q} /\ q \notin CountedIn(w, c, s)
       /\ \A d, t : d # c \/ t # s => CountedIn(x, d, t)' = CountedIn(w, d, t)
  BY <1>1, <1>4, <1>7, <1>8 DEF CountedIn
<1>14. /\ ~(k <= Limit) => AdmittedIn(x, c, s)' = AdmittedIn(w, c, s)
       /\ \A d, t : d # c \/ t # s => AdmittedIn(x, d, t)' = AdmittedIn(w, d, t)
  BY <1>1, <1>4, <1>7, <1>8 DEF AdmittedIn
<1>15. Cardinality(CountedIn(w, c, s)) = k - 1
  <2>1. CASE old.start # 0 /\ s = old.start /\ k = old.count + 1
    BY <1>2, <2>1 DEF Assigned, Counts
  <2>2. CASE (old.start = 0 \/ o >= old.start + Duration) /\ s = o /\ k = 1
    <3>1. s # old.start
      BY <1>2, <2>2, TimeAssumption
    <3>2. CountedIn(w, c, s) = {}
      BY <1>10, <3>1 DEF CountedIn
    <3>3. QED BY <2>2, <3>2, FS_EmptySet
  <2>3. QED BY <1>6, <2>1, <2>2
<1>16. Cardinality(CountedIn(x, c, s)') = k
  <2>1. IsFiniteSet(CountedIn(w, c, s))
    BY CountedFinite
  <2>2. Cardinality(CountedIn(w, c, s) \cup {q}) = Cardinality(CountedIn(w, c, s)) + 1
    BY <1>13, <2>1, FS_AddElement
  <2>3. QED BY <1>13, <1>15, <2>2
<1>17. Counts(x)'
  <2>1. ASSUME NEW d \in Clients, windows'[d].start # 0
        PROVE  Cardinality(CountedIn(x, d, windows[d].start)') = windows'[d].count
    <3>1. CASE d = c
      BY <1>8, <1>16, <3>1
    <3>2. CASE d # c
      BY <1>8, <1>13, <2>1, <3>2 DEF Assigned, Counts
    <3>3. QED BY <3>1, <3>2
  <2>2. ASSUME NEW d \in Clients, NEW t \in Nat
        PROVE  Cardinality(AdmittedIn(x, d, t)') <= Limit
    <3>1. CASE d = c /\ t = s /\ k <= Limit
      <4>1. AdmittedIn(x, c, s)' \in SUBSET (CountedIn(x, c, s)')
        BY DEF AdmittedIn, CountedIn, Admitted, Entered
      <4>2. IsFiniteSet(CountedIn(x, c, s)')
        BY <1>13, CountedFinite, FS_AddElement
      <4>3. /\ Cardinality(AdmittedIn(x, c, s)') <= Cardinality(CountedIn(x, c, s)')
            /\ IsFiniteSet(AdmittedIn(x, c, s)')
        BY <4>1, <4>2, FS_Subset
      <4>4. Cardinality(AdmittedIn(x, c, s)') \in Nat
        BY <4>3, FS_CardinalityType
      <4>5. QED BY <1>16, <3>1, <4>3, <4>4, LimitAssumption
    <3>2. CASE ~(d = c /\ t = s /\ k <= Limit)
      BY <1>14, <3>2 DEF Assigned, Counts
    <3>3. QED BY <3>1, <3>2
  <2>3. ASSUME NEW p \in Requests', stage'[p] = "limited"
        PROVE  Cardinality(CountedIn(x, client[p], x[p])') > Limit
    <3>1. CASE p = q
      BY <1>1, <1>4, <1>7, <1>8, <1>16, <2>3, <3>1
    <3>2. CASE p # q
      <4>1. /\ client'[p] = client[p] /\ x[p] = w[p] /\ stage[p] = "limited"
            /\ Cardinality(CountedIn(w, client[p], w[p])) > Limit
        BY <1>4, <1>7, <1>8, <2>3, <3>2 DEF Assigned, Counts
      <4>2. CASE client[p] = c /\ w[p] = s
        BY <1>15, <1>16, <4>1, <4>2, LimitAssumption
      <4>3. CASE ~(client[p] = c /\ w[p] = s)
        BY <1>13, <4>1, <4>3
      <4>4. QED BY <4>2, <4>3
    <3>3. QED BY <3>1, <3>2
  <2>4. QED BY <2>1, <2>2, <2>3 DEF Counts
<1>18. QED BY <1>7, <1>11, <1>12, <1>17 DEF Assigned

LEMMA NextWindowInv == IInv /\ WindowInv /\ [Next]_vars => WindowInv'
<1> SUFFICES ASSUME IInv, WindowInv, [Next]_vars PROVE WindowInv'
  OBVIOUS
<1>1. PICK w \in [Requests -> Nat] : Assigned(w)
  BY DEF WindowInv
<1>2. WaitBounded /\ Requests' = Requests
  BY DEF WindowInv, Next, Tick, ReadClock, Allow, Serve, Finished, vars, Requests
<1>3. CASE Tick \/ UNCHANGED vars
  <2>1. WaitBounded'
    BY <1>2, <1>3, TimeAssumption
       DEF Tick, vars, WaitBounded, Entered, IInv, TypeOK
  <2>2. UNCHANGED <<windows, client, form, enteredAt, stage, observed>>
    BY <1>3 DEF Tick, vars
  <2>3. Assigned(w)'
    BY <1>1, <2>2, UndecidedKeepsAssigned DEF Entered, Admitted
  <2>4. QED BY <1>2, <2>1, <2>3 DEF WindowInv
<1>4. ASSUME NEW q \in Requests, ReadClock(q) PROVE WindowInv'
  <2>1. WaitBounded'
    BY <1>2, <1>4, TimeAssumption DEF ReadClock, WaitBounded, Entered, IInv, TypeOK
  <2>2. /\ UNCHANGED <<windows, client, form, enteredAt>>
        /\ \A p \in Requests : /\ Entered(p)' <=> Entered(p)
                               /\ Admitted(p)' <=> Admitted(p)
                               /\ stage'[p] = "limited" <=> stage[p] = "limited"
                               /\ Entered(p) => observed'[p] = observed[p]
    BY <1>4 DEF ReadClock, Entered, Admitted, IInv, TypeOK
  <2>3. Assigned(w)'
    BY <1>1, <2>2, UndecidedKeepsAssigned
  <2>4. QED BY <1>2, <2>1, <2>3 DEF WindowInv
<1>5. ASSUME NEW q \in Requests, Allow(q) PROVE WindowInv'
  <2>1. WaitBounded'
    <3>1. PICK old \in [start : Nat, count : Nat], o \in Nat :
            old = windows[client[q]] /\ o = observed[q]
      BY DEF IInv, TypeOK
    <3>2. CountIn(old, o).start = o \/ CountIn(old, o).start = old.start
      BY <3>1 DEF CountIn
    <3>3. /\ windows' = [windows EXCEPT ![client[q]] = CountIn(old, o)]
          /\ stage[q] = "limiting" /\ enteredAt' = [enteredAt EXCEPT ![q] = now]
          /\ UNCHANGED <<now, observed, client>>
          /\ \A p \in Requests \ {q} : stage'[p] = stage[p]
          /\ stage'[q] # "limiting"
      BY <1>5, <3>1 DEF Allow, IInv, TypeOK
    <3> HIDE DEF CountIn
    <3>4. \A d \in Clients : windows'[d].start <= now
      BY <1>2, <3>1, <3>2, <3>3 DEF WaitBounded, IInv, TypeOK
    <3>5. QED BY <1>2, <3>3, <3>4 DEF WaitBounded, Entered, IInv, TypeOK
  <2>2. \E x \in [Requests -> Nat] : Assigned(x)'
    BY <1>1, <1>2, <1>5, AllowKeepsAssigned
  <2>3. QED BY <1>2, <2>1, <2>2 DEF WindowInv
<1>6. ASSUME NEW q \in Requests, Serve(q) PROVE WindowInv'
  <2>1. WaitBounded'
    BY <1>2, <1>6 DEF Serve, WaitBounded, Entered, IInv, TypeOK
  <2>2. /\ UNCHANGED <<windows, client, form, enteredAt, observed>>
        /\ \A p \in Requests : /\ Entered(p)' <=> Entered(p)
                               /\ Admitted(p)' <=> Admitted(p)
                               /\ stage'[p] = "limited" <=> stage[p] = "limited"
    BY <1>6 DEF Serve, Entered, Admitted, IInv, TypeOK
  <2>3. Assigned(w)'
    BY <1>1, <2>2, UndecidedKeepsAssigned
  <2>4. QED BY <1>2, <2>1, <2>3 DEF WindowInv
<1>7. QED BY <1>3, <1>4, <1>5, <1>6 DEF Next, Finished

LEMMA InitWindowInv == Init => WindowInv
<1> SUFFICES ASSUME Init PROVE WindowInv
  OBVIOUS
<1>1. \A q \in Requests : stage[q] = "new"
  BY DEF Init, Requests
<1>2. \A c \in Clients : windows[c].start = 0
  BY DEF Init
<1>3. now = 1
  BY Zenon DEF Init
<1>4. WaitBounded
  BY <1>1, <1>2, <1>3 DEF WaitBounded, Entered
<1> DEFINE w == [q \in Requests |-> 0]
<1>5. \A c, s : AdmittedIn(w, c, s) = {}
  BY <1>1 DEF AdmittedIn, Admitted
<1>6. Counts(w)
  BY <1>1, <1>2, <1>5, FS_EmptySet, LimitAssumption DEF Counts
<1>7. InsideWindow(w) /\ Apart(w)
  BY <1>1 DEF InsideWindow, Apart, Entered
<1>8. w \in [Requests -> Nat]
  OBVIOUS
<1>9. QED BY <1>4, <1>6, <1>7, <1>8 DEF WindowInv, Assigned

LEMMA WindowInvariance == Spec => [](IInv /\ WindowInv)
BY InitIInv, NextIInv, InitWindowInv, NextWindowInv, PTL DEF Spec

\* Any two requests that pass within Duration, less the wait for the lock, are
\* in windows less than two durations apart, so at most two windows admit them.
LEMMA TwoWindows ==
  ASSUME IInv, WaitBounded, NEW w \in [Requests -> Nat], Assigned(w),
         NEW c \in Clients, NEW t \in Nat
  PROVE  Cardinality({q \in Requests : /\ client[q] = c /\ Admitted(q)
                                       /\ enteredAt[q] \in t..(t + Duration - MaxDelay)})
           <= 2 * Limit
<1> DEFINE S == {q \in Requests : /\ client[q] = c /\ Admitted(q)
                                  /\ enteredAt[q] \in t..(t + Duration - MaxDelay)}
<1>1. ASSUME NEW p \in S, NEW q \in S PROVE w[q] < w[p] + 2 * Duration
  <2>1. Entered(p) /\ Entered(q)
    BY DEF Entered, Admitted
  <2>2. /\ w[q] <= enteredAt[q] /\ observed[p] < w[p] + Duration
        /\ enteredAt[p] <= observed[p] + MaxDelay
    BY <2>1 DEF Assigned, InsideWindow, WaitBounded
  <2>3. t <= enteredAt[p] /\ enteredAt[q] <= t + Duration - MaxDelay
    OBVIOUS
  <2>4. /\ w[q] \in Nat /\ w[p] \in Nat /\ observed[p] \in Nat
        /\ enteredAt[p] \in Nat /\ enteredAt[q] \in Nat
    BY DEF IInv, TypeOK
  <2> HIDE DEF S
  <2>5. QED BY <2>2, <2>3, <2>4, TimeAssumption
<1>2. ASSUME NEW p \in S, NEW q \in S
      PROVE  w[p] = w[q] \/ w[p] + Duration <= w[q] \/ w[q] + Duration <= w[p]
  BY DEF Entered, Admitted, Assigned, Apart
<1>3. PICK a \in Nat, b \in Nat : \A q \in S : w[q] = a \/ w[q] = b
  <2>1. \A q \in S : w[q] \in Nat
    OBVIOUS
  <2> HIDE DEF S
  <2>2. CASE S = {}
    BY <2>2
  <2>3. ASSUME NEW p \in S PROVE \E a, b \in Nat : \A q \in S : w[q] = a \/ w[q] = b
    <3>1. CASE \A q \in S : w[q] = w[p]
      BY <2>1, <3>1
    <3>2. ASSUME NEW r \in S, w[r] # w[p]
          PROVE  \E a, b \in Nat : \A q \in S : w[q] = a \/ w[q] = b
      <4>1. ASSUME NEW q \in S PROVE w[q] = w[p] \/ w[q] = w[r]
        <5>1. /\ w[p] + Duration <= w[r] \/ w[r] + Duration <= w[p]
              /\ w[p] = w[q] \/ w[p] + Duration <= w[q] \/ w[q] + Duration <= w[p]
              /\ w[r] = w[q] \/ w[r] + Duration <= w[q] \/ w[q] + Duration <= w[r]
          BY <1>2, <3>2
        <5>2. /\ w[q] < w[p] + 2 * Duration /\ w[q] < w[r] + 2 * Duration
              /\ w[p] < w[q] + 2 * Duration /\ w[p] < w[r] + 2 * Duration
              /\ w[r] < w[q] + 2 * Duration /\ w[r] < w[p] + 2 * Duration
          BY <1>1
        <5>3. w[p] \in Nat /\ w[q] \in Nat /\ w[r] \in Nat
          BY <2>1
        <5>4. QED BY <5>1, <5>2, <5>3, TimeAssumption
      <4>2. QED BY <2>1, <4>1
    <3>3. QED BY <3>1, <3>2
  <2>4. QED BY <2>2, <2>3
<1>4. S \in SUBSET (AdmittedIn(w, c, a) \cup AdmittedIn(w, c, b))
  BY <1>3 DEF AdmittedIn
<1> DEFINE A == AdmittedIn(w, c, a)
           B == AdmittedIn(w, c, b)
<1>5. /\ IsFiniteSet(A) /\ IsFiniteSet(B) /\ Cardinality(A) \in Nat /\ Cardinality(B) \in Nat
      /\ Cardinality(A) <= Limit /\ Cardinality(B) <= Limit
  BY CountedFinite DEF Assigned, Counts
<1> HIDE DEF A, B, S
<1>6. IsFiniteSet(A \cup B) /\ Cardinality(A \cup B) <= 2 * Limit
  <2>1. /\ IsFiniteSet(A \cup B)
        /\ Cardinality(A \cup B) = Cardinality(A) + Cardinality(B) - Cardinality(A \cap B)
    BY <1>5, FS_Union
  <2>2. IsFiniteSet(A \cap B)
    BY <1>5, FS_Intersection
  <2>3. Cardinality(A \cap B) \in Nat
    BY <2>2, FS_CardinalityType
  <2>4. QED BY <1>5, <2>1, <2>3, LimitAssumption
<1>7. S \in SUBSET (A \cup B)
  BY <1>4 DEF A, B
<1>8. IsFiniteSet(S) /\ Cardinality(S) <= Cardinality(A \cup B)
  BY <1>6, <1>7, FS_Subset
<1>9. Cardinality(S) \in Nat /\ Cardinality(A \cup B) \in Nat
  BY <1>6, <1>8, FS_CardinalityType
<1>10. Cardinality(S) <= 2 * Limit
  BY <1>6, <1>8, <1>9, LimitAssumption
<1>11. QED BY <1>10 DEF S

\* The fixed window admits at most twice its limit around a boundary (web.go:
\* Allow opens a window of its own only when the last one is over).
THEOREM BurstsAreBounded == Spec => []AtMostTwiceLimit
<1>1. IInv /\ WindowInv => AtMostTwiceLimit
  BY TwoWindows, TimeAssumption DEF WindowInv, AtMostTwiceLimit
<1>2. QED BY <1>1, WindowInvariance, PTL

\* The requests of its window other than the one refused account for a refusal.
LEMMA RefusedBehindOthers ==
  ASSUME IInv, WaitBounded, NEW w \in [Requests -> Nat], Assigned(w),
         NEW q \in Requests, stage[q] = "limited"
  PROVE  Cardinality({p \in Requests \ {q} : /\ client[p] = client[q] /\ Entered(p)
                                             /\ observed[q] < observed[p] + Duration + MaxDelay})
           >= Limit
<1> DEFINE R == {p \in Requests \ {q} : /\ client[p] = client[q] /\ Entered(p)
                                        /\ observed[q] < observed[p] + Duration + MaxDelay}
           C == CountedIn(w, client[q], w[q])
<1>1. Cardinality(C) > Limit /\ IsFiniteSet(C) /\ Cardinality(C) \in Nat
  BY CountedFinite DEF Assigned, Counts
<1>2. q \in C
  BY DEF CountedIn, Entered
<1>3. C \ {q} \in SUBSET R
  <2>1. SUFFICES ASSUME NEW p \in C, p # q
                 PROVE  observed[q] < observed[p] + Duration + MaxDelay
    BY DEF CountedIn
  <2>2. p \in Requests /\ Entered(p) /\ Entered(q) /\ w[p] = w[q]
    BY DEF CountedIn, Entered
  <2>3. /\ observed[q] < w[p] + Duration /\ w[p] <= enteredAt[p]
        /\ enteredAt[p] <= observed[p] + MaxDelay
    BY <2>2 DEF Assigned, InsideWindow, WaitBounded
  <2>4. /\ observed[q] \in Nat /\ observed[p] \in Nat /\ w[p] \in Nat
        /\ enteredAt[p] \in Nat
    BY <2>2 DEF IInv, TypeOK
  <2> HIDE DEF C, R
  <2>5. QED BY <2>3, <2>4, TimeAssumption
<1>4. R \in SUBSET Requests
  OBVIOUS
<1> HIDE DEF C, R
<1>5. IsFiniteSet(C \ {q}) /\ Cardinality(C \ {q}) = Cardinality(C) - 1
  BY <1>1, <1>2, FS_RemoveElement
<1>6. IsFiniteSet(R)
  BY <1>4, RequestsFinite, FS_Subset
<1>7. Cardinality(C \ {q}) <= Cardinality(R) /\ Cardinality(R) \in Nat
  BY <1>3, <1>6, FS_Subset, FS_CardinalityType
<1>8. Cardinality(R) >= Limit
  BY <1>1, <1>5, <1>7, LimitAssumption
<1>9. QED BY <1>8 DEF R

\* A client is refused only for what it asked itself and recently (web.go: a
\* window counts the requests of one client, refused ones too, and is replaced
\* once it is over).
THEOREM RefusalsAreEarned == Spec => []RefusedOnlyOverLimit
<1>1. IInv /\ WindowInv => RefusedOnlyOverLimit
  BY RefusedBehindOthers DEF WindowInv, RefusedOnlyOverLimit
<1>2. QED BY <1>1, WindowInvariance, PTL
=============================================================================
