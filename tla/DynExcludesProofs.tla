-------------------------- MODULE DynExcludesProofs --------------------------
(***************************************************************************)
(* Proofs about DynExcludes, for every set of replicas, excludes and       *)
(* requests, every number of attempts and every choice of the bounds.      *)
(***************************************************************************)
EXTENDS DynExcludes, TLAPS

-----------------------------------------------------------------------------
(* The inductive invariant.                                                *)

\* WATCH protects what a request has read: while nobody wrote the key since,
\* the request has seen what the store holds.
Fresh ==
  \A q \in Requests : pc[q] = "read" /\ q \notin dirty => seen[q] = store

\* Every attempt that failed, or is bound to fail, had a write of its own.
Contended ==
  \A q \in Requests :
     /\ writes >= attempt[q]
     /\ pc[q] \in {"watching", "read"} /\ q \in dirty => writes >= attempt[q] + 1

\* A request gives up after its last attempt.
GaveUpLast == \A q \in Requests : pc[q] = "gaveUp" => attempt[q] = MaxRetries

IInv == TypeOK /\ Fresh /\ Contended /\ GaveUpLast

-----------------------------------------------------------------------------
(* The type invariant, one group of actions at a time.                     *)

LEMMA UpdatedType ==
  ASSUME NEW s \in SUBSET Excludes, NEW q \in Requests
  PROVE  Updated(s, q) \in SUBSET Excludes
BY RequestAssumption DEF Updated

LEMMA UpdateType ==
  ASSUME TypeOK, NEW q \in Requests, Update(q)
  PROVE  TypeOK'
<1>1. Result(q) \in SUBSET Excludes
  BY UpdatedType DEF TypeOK, Result
<1>2. CASE Watch(q)
  BY <1>2 DEF Watch, TypeOK, GoTo, replica, bounds
<1>3. CASE Get(q)
  BY <1>3 DEF Get, TypeOK, GoTo, replica, bounds
<1>4. CASE NoChange(q)
  BY <1>4 DEF NoChange, TypeOK, GoTo, replica, bounds
<1>5. CASE Exec(q)
  BY <1>1, <1>5 DEF Exec, Write, TypeOK, GoTo, replica, bounds
<1>6. CASE ExecAborted(q)
  <2>1. attempt[q] \in 0..MaxRetries /\ attempt[q] # MaxRetries
    BY <1>6 DEF ExecAborted, TypeOK
  <2>2. attempt[q] + 1 \in 0..MaxRetries
    BY <2>1, RetryAssumption
  <2>3. attempt' \in [Requests -> 0..MaxRetries]
    BY <1>6, <2>2 DEF ExecAborted, TypeOK
  <2>4. \A p \in Requests : attempt'[p] = MaxRetries => pc'[p] = "gaveUp"
    BY <1>6 DEF ExecAborted, TypeOK, GoTo, LastAttempt
  <2>5. pc' \in [Requests -> {"new", "watching", "read", "answering", "done",
                              "gaveUp", "failed", "lost"}]
    BY <1>6 DEF ExecAborted, TypeOK, GoTo
  <2>6. QED BY <1>6, <2>3, <2>4, <2>5 DEF ExecAborted, TypeOK, replica, bounds
<1>7. CASE UpdateFails(q)
  BY <1>1, <1>7 DEF UpdateFails, Fault, Write, TypeOK, GoTo, replica
<1>8. CASE Answer(q)
  BY <1>1, <1>8, RequestAssumption DEF Answer, TypeOK, GoTo, bounds
<1>9. QED BY <1>2, <1>3, <1>4, <1>5, <1>6, <1>7, <1>8 DEF Update

LEMMA ReplicaType ==
  ASSUME TypeOK, NEW r \in Replicas,
         \/ Boot(r) \/ TakeSnapshot(r) \/ WriteSnapshot(r)
         \/ \E k \in Readers : Read(r, k)
  PROVE  TypeOK'
<1>0. /\ Fault => restarts' \in Nat /\ losses' \in Nat /\ faults' \in Nat
      /\ UNCHANGED bounds => restarts' \in Nat /\ losses' \in Nat /\ faults' \in Nat
  BY DEF TypeOK, Fault, bounds
<1> USE <1>0 DEF TypeOK, request, Copy, NoCopy
<1>1. CASE Load(r)
  BY <1>1 DEF Load
<1>2. CASE Restore(r)
  BY <1>2 DEF Restore, Write
<1>3. CASE UseLoaded(r)
  BY <1>3 DEF UseLoaded
<1>4. CASE Start(r)
  BY <1>4 DEF Start
<1>5. CASE TakeSnapshot(r)
  BY <1>5 DEF TakeSnapshot
<1>6. CASE WriteSnapshot(r)
  BY <1>6 DEF WriteSnapshot
<1>7. ASSUME NEW k \in Readers, Read(r, k) PROVE TypeOK'
  <2>1. CASE ReadStore(r, k)
    BY <2>1 DEF ReadStore
  <2>2. CASE ReadStoreFails(r, k)
    BY <2>2 DEF ReadStoreFails, AfterReadError
  <2>3. CASE ReplaceLocal(r, k)
    BY <2>3 DEF ReplaceLocal
  <2>4. QED BY <1>7, <2>1, <2>2, <2>3 DEF Read
<1>8. QED BY <1>1, <1>2, <1>3, <1>4, <1>5, <1>6, <1>7 DEF Boot

LEMMA EnvironmentType ==
  ASSUME TypeOK, LoseStore \/ \E r \in Replicas : Restart(r)
  PROVE  TypeOK'
<1>1. CASE LoseStore
  BY <1>1 DEF LoseStore, Write, TypeOK, request, replica
<1>2. ASSUME NEW r \in Replicas, Restart(r) PROVE TypeOK'
  <2>1. /\ pc' \in [Requests -> {"new", "watching", "read", "answering", "done",
                                 "gaveUp", "failed", "lost"}]
        /\ \A q \in Requests : attempt'[q] = MaxRetries => pc'[q] = "gaveUp"
    BY <1>2 DEF Restart, TypeOK, Begun
  <2>2. QED BY <1>2, <2>1 DEF Restart, TypeOK, NoCopy
<1>3. QED BY <1>1, <1>2

-----------------------------------------------------------------------------
(* The other conjuncts: only a request's own steps, and writes of the key,  *)
(* touch what they speak of.                                                *)

LEMMA InitIInv == Init => IInv
<1> SUFFICES ASSUME Init PROVE IInv
  OBVIOUS
<1>1. store \in SUBSET Excludes /\ file \in [Replicas -> SUBSET Excludes]
  BY InitialAssumption DEF Init
<1>2. TypeOK
  BY <1>1, RetryAssumption DEF Init, TypeOK, NoCopy
<1>3. Fresh /\ Contended /\ GaveUpLast
  BY DEF Init, Fresh, Contended, GaveUpLast
<1>4. QED BY <1>2, <1>3 DEF IInv

\* A write of the key by anyone makes every request that watches it dirty.
LEMMA WriteKeeps ==
  ASSUME IInv, NEW s, Write(s),
         \A q \in Requests : /\ attempt'[q] = attempt[q]
                             /\ pc'[q] = pc[q] \/ pc'[q] # "gaveUp"
  PROVE  Fresh' /\ Contended' /\ GaveUpLast'
<1>1. writes' = writes + 1 /\ writes \in Nat /\ \A q \in Requests : attempt[q] \in Nat
  BY RetryAssumption DEF IInv, TypeOK, Write
<1>2. Fresh'
  BY DEF Write, Fresh
<1>3. Contended'
  BY <1>1 DEF IInv, Contended
<1>4. GaveUpLast'
  BY DEF IInv, GaveUpLast
<1>5. QED BY <1>2, <1>3, <1>4

\* Steps that leave the key and the requests' progress alone.
LEMMA QuietKeeps ==
  ASSUME IInv, UNCHANGED <<store, dirty, writes, attempt>>,
         \A q \in Requests : /\ pc'[q] = pc[q] \/ pc'[q] \in {"answering", "done", "failed", "lost"}
                             /\ pc'[q] = pc[q] => seen'[q] = seen[q] \/ pc[q] # "read"
  PROVE  Fresh' /\ Contended' /\ GaveUpLast'
<1>1. Fresh'
  BY DEF IInv, Fresh
<1>2. Contended'
  BY DEF IInv, Contended
<1>3. GaveUpLast'
  BY DEF IInv, GaveUpLast
<1>4. QED BY <1>1, <1>2, <1>3

LEMMA UpdateKeeps ==
  ASSUME IInv, NEW q \in Requests, Update(q)
  PROVE  Fresh' /\ Contended' /\ GaveUpLast'
<1>0. /\ TypeOK
      /\ writes \in Nat /\ \A p \in Requests : attempt[p] \in Nat
  BY RetryAssumption DEF IInv, TypeOK
<1>1. CASE Watch(q)
  <2>1. /\ pc' = [pc EXCEPT ![q] = "watching"] /\ dirty' = dirty \ {q}
        /\ UNCHANGED <<store, seen, attempt, writes>>
    BY <1>1 DEF Watch, GoTo
  <2>2. QED BY <1>0, <2>1 DEF IInv, TypeOK, Fresh, Contended, GaveUpLast
<1>2. CASE Get(q)
  <2>1. /\ pc[q] = "watching"
        /\ pc' = [pc EXCEPT ![q] = "read"] /\ seen' = [seen EXCEPT ![q] = store]
        /\ UNCHANGED <<store, dirty, attempt, writes>>
    BY <1>2 DEF Get, GoTo
  <2>2. QED BY <1>0, <2>1 DEF IInv, TypeOK, Fresh, Contended, GaveUpLast
<1>3. CASE NoChange(q)
  BY <1>0, <1>3, QuietKeeps DEF NoChange, GoTo, TypeOK
<1>4. CASE Exec(q)
  BY <1>0, <1>4, WriteKeeps DEF Exec, GoTo, TypeOK
<1>5. CASE ExecAborted(q)
  <2>1. /\ pc[q] = "read" /\ q \in dirty
        /\ attempt' = [attempt EXCEPT ![q] = @ + 1]
        /\ pc' = [pc EXCEPT ![q] = IF LastAttempt(q) THEN "gaveUp" ELSE "new"]
        /\ UNCHANGED <<store, dirty, seen, writes>>
    BY <1>5 DEF ExecAborted, Aborts, GoTo
  <2>2. attempt'[q] = attempt[q] + 1 /\ pc'[q] \in {"gaveUp", "new"}
    BY <1>0, <2>1 DEF TypeOK
  <2>3. \A p \in Requests : p # q => pc'[p] = pc[p] /\ attempt'[p] = attempt[p]
    BY <1>0, <2>1 DEF TypeOK
  <2>4. Fresh'
    BY <2>1, <2>2, <2>3 DEF IInv, Fresh
  <2>5. Contended'
    BY <1>0, <2>1, <2>2, <2>3 DEF IInv, Contended
  <2>6. GaveUpLast'
    BY <1>0, <2>1, <2>2, <2>3 DEF IInv, TypeOK, GaveUpLast, LastAttempt
  <2>7. QED BY <2>4, <2>5, <2>6
<1>6. CASE UpdateFails(q)
  <2>1. /\ pc' = [pc EXCEPT ![q] = "failed"] /\ seen' = [seen EXCEPT ![q] = {}]
        /\ attempt' = attempt
        /\ UNCHANGED <<store, dirty, writes>> \/ Write(Result(q))
    BY <1>6 DEF UpdateFails, GoTo
  <2>2. CASE Write(Result(q))
    BY <1>0, <2>1, <2>2, WriteKeeps DEF TypeOK
  <2>3. CASE UNCHANGED <<store, dirty, writes>>
    BY <1>0, <1>6, <2>1, <2>3, QuietKeeps DEF TypeOK, UpdateFails
  <2>4. QED BY <2>1, <2>2, <2>3
<1>7. CASE Answer(q)
  BY <1>0, <1>7, QuietKeeps DEF Answer, GoTo, TypeOK
<1>8. QED BY <1>1, <1>2, <1>3, <1>4, <1>5, <1>6, <1>7 DEF Update

LEMMA ReplicaKeeps ==
  ASSUME IInv, NEW r \in Replicas,
         \/ Boot(r) \/ TakeSnapshot(r) \/ WriteSnapshot(r) \/ Restart(r)
         \/ \E k \in Readers : Read(r, k)
  PROVE  Fresh' /\ Contended' /\ GaveUpLast'
<1>1. CASE Restore(r)
  <2>1. UNCHANGED request /\ (UNCHANGED <<store, dirty, writes>> \/ Write(file[r]))
    BY <1>1 DEF Restore
  <2>2. CASE Write(file[r])
    BY <2>1, <2>2, WriteKeeps DEF request
  <2>3. CASE UNCHANGED <<store, dirty, writes>>
    BY <2>1, <2>3, QuietKeeps DEF request
  <2>4. QED BY <2>1, <2>2, <2>3
<1>2. CASE Restart(r)
  BY <1>2, QuietKeeps DEF Restart, IInv, TypeOK
<1>3. CASE Load(r) \/ UseLoaded(r) \/ Start(r) \/ TakeSnapshot(r) \/ WriteSnapshot(r)
  BY <1>3, QuietKeeps DEF Load, UseLoaded, Start, TakeSnapshot, WriteSnapshot, request
<1>4. CASE \E k \in Readers : Read(r, k)
  BY <1>4, QuietKeeps DEF Read, ReadStore, ReadStoreFails, ReplaceLocal, request
<1>5. QED BY <1>1, <1>2, <1>3, <1>4 DEF Boot

LEMMA NextIInv == IInv /\ [Next]_vars => IInv'
<1> SUFFICES ASSUME IInv, [Next]_vars PROVE IInv'
  OBVIOUS
<1>1. CASE \E q \in Requests : Update(q)
  BY <1>1, UpdateType, UpdateKeeps DEF IInv
<1>2. ASSUME NEW r \in Replicas,
             \/ Boot(r) \/ Restart(r) \/ TakeSnapshot(r) \/ WriteSnapshot(r)
             \/ \E k \in Readers : Read(r, k)
      PROVE  IInv'
  BY <1>2, ReplicaType, EnvironmentType, ReplicaKeeps DEF IInv
<1>3. CASE LoseStore
  <2>1. TypeOK'
    BY <1>3, EnvironmentType DEF IInv
  <2>2. Fresh' /\ Contended' /\ GaveUpLast'
    BY <1>3, WriteKeeps DEF LoseStore, request
  <2>3. QED BY <2>1, <2>2 DEF IInv
<1>4. CASE UNCHANGED vars
  <2>1. TypeOK'
    BY <1>4 DEF IInv, TypeOK, vars, request, replica, bounds
  <2>2. Fresh' /\ Contended' /\ GaveUpLast'
    BY <1>4, QuietKeeps DEF vars, request
  <2>3. QED BY <2>1, <2>2 DEF IInv
<1>5. QED BY <1>1, <1>2, <1>3, <1>4 DEF Next

LEMMA Invariant == Spec => []IInv
<1>1. Init => IInv
  BY InitIInv
<1>2. IInv /\ [Next]_vars => IInv'
  BY NextIInv
<1>3. QED BY <1>1, <1>2, PTL DEF Spec

-----------------------------------------------------------------------------
(* The theorems.                                                           *)

\* Every state is well typed; no request of UpdateDynExclude makes more than
\* maxRetries attempts.
THEOREM TypeCorrect == Spec => []TypeOK
<1>1. IInv => TypeOK
  BY DEF IInv
<1>2. QED BY <1>1, Invariant, PTL

\* UpdateDynExclude returns "update excludes contention" only after as many
\* writes of the key as it made attempts.
THEOREM GivesUpUnderContention == Spec => []GivesUpOnlyUnderContention
<1>1. IInv => GivesUpOnlyUnderContention
  BY DEF IInv, GivesUpOnlyUnderContention, Contended, GaveUpLast
<1>2. QED BY <1>1, Invariant, PTL

LEMMA CommitOfOne ==
  ASSUME IInv, NEW p \in Requests, Update(p),
         NEW q \in Requests, q \in committed' \ committed
  PROVE  store' = Updated(store, q) /\ store' # store
<1>1. /\ q = p /\ store' = Result(p)
      /\ pc[p] = "read" /\ p \notin dirty /\ Result(p) # seen[p]
  BY DEF Update, Watch, Get, NoChange, Exec, ExecAborted, UpdateFails, Answer,
         Write, Aborts
<1>2. seen[p] = store
  BY <1>1 DEF IInv, Fresh
<1>3. QED BY <1>1, <1>2 DEF Result

\* The optimistic transaction loses no update: a commit changes the request's
\* own exclude in the set the store holds at that moment, and nothing else.
THEOREM NoLostUpdate == Spec => EachCommitIsItsOwn
<1> DEFINE Own == \A q \in Requests : q \in committed' \ committed =>
                     store' = Updated(store, q) /\ store' # store
<1>1. IInv /\ [Next]_vars => [Own]_vars
  <2> SUFFICES ASSUME IInv, Next, NEW q \in Requests, q \in committed' \ committed
               PROVE  store' = Updated(store, q) /\ store' # store
    OBVIOUS
  <2>1. CASE \E p \in Requests : Update(p)
    BY <2>1, CommitOfOne
  <2>2. CASE LoseStore
    BY <2>2 DEF LoseStore, request
  <2>3. ASSUME NEW r \in Replicas,
               \/ Boot(r) \/ Restart(r) \/ TakeSnapshot(r) \/ WriteSnapshot(r)
               \/ \E k \in Readers : Read(r, k)
        PROVE  FALSE
    BY <2>3 DEF Boot, Load, Restore, UseLoaded, Start, Restart, TakeSnapshot,
                WriteSnapshot, Read, ReadStore, ReadStoreFails, ReplaceLocal, request
  <2>4. QED BY <2>1, <2>2, <2>3 DEF Next
<1>2. QED BY <1>1, Invariant, PTL DEF Spec, EachCommitIsItsOwn

-----------------------------------------------------------------------------
(* DynExcludes implements ExcludeSet.                                      *)

\* The status of a request is a matter of its own progress.
LEMMA StatusStays ==
  ASSUME NEW q \in Requests, pc'[q] = pc[q], seen'[q] = seen[q]
  PROVE  Status(q)' = Status(q)
BY DEF Status, Result, Updated

LEMMA AllStay ==
  ASSUME \A q \in Requests : Status(q)' = Status(q)
  PROVE  [q \in Requests |-> Status(q)]' = [q \in Requests |-> Status(q)]
OBVIOUS

LEMMA OneMoves ==
  ASSUME NEW q \in Requests, NEW p, Status(q)' = p,
         \A x \in Requests \ {q} : Status(x)' = Status(x)
  PROVE  ES!Moves(q, p)
BY DEF ES!Moves

\* A transaction that ran changed the set as it was then.
LEMMA Committed ==
  ASSUME IInv, NEW q \in Requests, pc[q] = "read", Result(q) # seen[q], ~Aborts(q),
         Write(Result(q)), committed' = committed \cup {q}
  PROVE  ES!TakeEffect(q)
<1>1. seen[q] = store
  BY DEF IInv, Fresh, Aborts
<1>2. Status(q) = "open"
  BY DEF Status
<1>3. store' = Updated(store, q) /\ store' # store
  BY <1>1 DEF Write, Result
<1>4. QED BY <1>2, <1>3 DEF ES!TakeEffect, Updated

LEMMA UpdateAtomic ==
  ASSUME IInv, NEW q \in Requests, Update(q)
  PROVE  [ES!Next]_(ES!vars)
<1>1. TypeOK /\ pc \in [Requests -> {"new", "watching", "read", "answering", "done",
                                     "gaveUp", "failed", "lost"}]
  BY DEF IInv, TypeOK
<1>2. \A x \in Requests \ {q} : Status(x)' = Status(x)
  <2>1. \A x \in Requests \ {q} : pc'[x] = pc[x] /\ seen'[x] = seen[x]
    BY <1>1 DEF Update, Watch, Get, NoChange, Exec, ExecAborted, UpdateFails, Answer, GoTo, TypeOK
  <2>2. QED BY <2>1, StatusStays
<1>3. CASE Watch(q)
  <2>1. Status(q)' = Status(q) /\ UNCHANGED <<store, committed>>
    BY <1>1, <1>3 DEF Watch, GoTo, Status
  <2>2. QED BY <1>2, <2>1, AllStay DEF ES!vars
<1>4. CASE Get(q)
  <2>1. /\ pc[q] = "watching" /\ pc'[q] = "read" /\ seen'[q] = store
        /\ UNCHANGED <<store, committed>>
    BY <1>1, <1>4 DEF Get, GoTo, TypeOK
  <2>2. Status(q) = "open"
    BY <2>1 DEF Status
  <2>3. CASE Updated(store, q) = store
    <3>1. Status(q)' = "applied"
      BY <2>1, <2>3 DEF Status, Result, Updated
    <3>2. ES!TakeEffect(q)
      BY <2>1, <2>2, <2>3 DEF ES!TakeEffect, Updated
    <3>3. ES!Apply(q)
      BY <1>2, <3>1, <3>2, OneMoves DEF ES!Apply
    <3>4. QED BY <3>3 DEF ES!Next
  <2>4. CASE Updated(store, q) # store
    <3>1. Status(q)' = "open"
      BY <2>1, <2>4 DEF Status, Result, Updated
    <3>2. QED BY <1>2, <2>1, <2>2, <3>1, AllStay DEF ES!vars
  <2>5. QED BY <2>3, <2>4
<1>5. CASE NoChange(q)
  <2>1. Status(q)' = Status(q) /\ UNCHANGED <<store, committed>>
    BY <1>1, <1>5 DEF NoChange, GoTo, Status
  <2>2. QED BY <1>2, <2>1, AllStay DEF ES!vars
<1>6. CASE Exec(q)
  <2>1. Status(q)' = "applied"
    BY <1>1, <1>6 DEF Exec, GoTo, Status
  <2>2. ES!TakeEffect(q)
    BY <1>6, Committed DEF Exec
  <2>3. ES!Apply(q)
    BY <1>2, <2>1, <2>2, OneMoves DEF ES!Apply
  <2>4. QED BY <2>3 DEF ES!Next
<1>7. CASE ExecAborted(q)
  <2>1. /\ pc[q] = "read" /\ pc'[q] \in {"gaveUp", "new"} /\ Result(q) # seen[q]
        /\ UNCHANGED <<store, committed>>
    BY <1>1, <1>7 DEF ExecAborted, GoTo
  <2>2. Status(q) = "open"
    BY <2>1 DEF Status
  <2>3. CASE pc'[q] = "new"
    <3>1. Status(q)' = "open"
      BY <2>3 DEF Status
    <3>2. QED BY <1>2, <2>1, <2>2, <3>1, AllStay DEF ES!vars
  <2>4. CASE pc'[q] = "gaveUp"
    <3>1. Status(q)' = "refused"
      BY <2>4 DEF Status
    <3>2. ES!Refuse(q)
      BY <1>2, <2>1, <2>2, <3>1, OneMoves DEF ES!Refuse
    <3>3. QED BY <3>2 DEF ES!Next
  <2>5. QED BY <2>1, <2>3, <2>4
<1>8. CASE UpdateFails(q)
  <2>1. pc[q] \in {"watching", "read"} /\ pc'[q] = "failed"
    BY <1>1, <1>8 DEF UpdateFails, GoTo
  <2>2. Status(q)' = "failed" /\ Status(q) \in {"open", "applied"}
    BY <2>1 DEF Status
  <2>3. CASE UNCHANGED <<store, committed>>
    <3>1. [x \in Requests |-> Status(x)]' =
            [x \in Requests |-> IF x \in {q} THEN "failed" ELSE [y \in Requests |-> Status(y)][x]]
      BY <1>2, <2>2
    <3>2. ES!Fail({q})
      BY <2>2, <2>3, <3>1 DEF ES!Fail
    <3>3. QED BY <3>2 DEF ES!Next
  <2>4. CASE /\ pc[q] = "read" /\ Result(q) # seen[q] /\ ~Aborts(q)
             /\ Write(Result(q)) /\ committed' = committed \cup {q}
    <3>1. ES!ApplyAndFail(q)
      BY <1>2, <2>2, <2>4, Committed, OneMoves DEF ES!ApplyAndFail
    <3>2. QED BY <3>1 DEF ES!Next
  <2>5. QED BY <1>8, <2>3, <2>4 DEF UpdateFails
<1>9. CASE Answer(q)
  <2>1. /\ pc[q] = "answering" /\ pc'[q] = "done" /\ UNCHANGED <<store, committed>>
    BY <1>1, <1>9 DEF Answer, GoTo
  <2>2. Status(q) = "applied" /\ Status(q)' = "answered"
    BY <2>1 DEF Status
  <2>3. ES!Answer(q)
    BY <1>2, <2>1, <2>2, OneMoves DEF ES!Answer
  <2>4. QED BY <2>3 DEF ES!Next
<1>10. QED BY <1>3, <1>4, <1>5, <1>6, <1>7, <1>8, <1>9 DEF Update

\* A write of the key as a whole.
LEMMA WriteOverwrites ==
  ASSUME NEW s \in SUBSET Excludes, Write(s), UNCHANGED request
  PROVE  [ES!Next]_(ES!vars)
<1>1. [q \in Requests |-> Status(q)]' = [q \in Requests |-> Status(q)]
  BY StatusStays, AllStay DEF request
<1>2. ES!Overwrite
  BY <1>1 DEF ES!Overwrite, Write, request
<1>3. QED BY <1>2 DEF ES!Next

LEMMA RestartAtomic ==
  ASSUME IInv, NEW r \in Replicas, Restart(r)
  PROVE  [ES!Next]_(ES!vars)
<1> DEFINE S == {q \in Requests : ReplicaOf[q] = r /\ Begun(q)}
<1>1. /\ UNCHANGED <<store, committed, seen>>
      /\ \A q \in Requests : pc'[q] = IF q \in S THEN "lost" ELSE pc[q]
  BY DEF Restart
<1>2. \A q \in S : Status(q) \in {"open", "applied"}
  BY DEF Begun, Status
<1>3. \A q \in Requests : Status(q)' = IF q \in S THEN "failed" ELSE Status(q)
  <2>1. \A q \in S : Status(q)' = "failed"
    BY <1>1 DEF Status
  <2>2. \A q \in Requests \ S : Status(q)' = Status(q)
    BY <1>1, StatusStays
  <2>3. QED BY <2>1, <2>2
<1> HIDE DEF S
<1>4. S \subseteq Requests
  BY DEF S
<1>5. ES!Fail(S)
  BY <1>1, <1>2, <1>3, <1>4 DEF ES!Fail
<1>6. QED BY <1>4, <1>5 DEF ES!Next

LEMMA StepAtomic == IInv /\ [Next]_vars => [ES!Next]_(ES!vars)
<1> SUFFICES ASSUME IInv, [Next]_vars PROVE [ES!Next]_(ES!vars)
  OBVIOUS
<1>1. CASE \E q \in Requests : Update(q)
  BY <1>1, UpdateAtomic
<1>2. CASE \E r \in Replicas : Restart(r)
  BY <1>2, RestartAtomic
<1>3. ASSUME UNCHANGED <<request, store>> PROVE [ES!Next]_(ES!vars)
  <2>1. [q \in Requests |-> Status(q)]' = [q \in Requests |-> Status(q)]
    BY <1>3, StatusStays, AllStay DEF request
  <2>2. QED BY <1>3, <2>1 DEF ES!vars, request
<1>4. ASSUME NEW r \in Replicas, Restore(r) PROVE [ES!Next]_(ES!vars)
  <2>1. file[r] \in SUBSET Excludes
    BY DEF IInv, TypeOK
  <2>2. UNCHANGED request /\ (Write(file[r]) \/ UNCHANGED store)
    BY <1>4 DEF Restore
  <2>3. QED BY <1>3, <2>1, <2>2, WriteOverwrites
<1>5. CASE LoseStore
  BY <1>5, WriteOverwrites DEF LoseStore
<1>6. ASSUME NEW r \in Replicas,
             \/ Load(r) \/ UseLoaded(r) \/ Start(r) \/ TakeSnapshot(r) \/ WriteSnapshot(r)
             \/ \E k \in Readers : Read(r, k)
      PROVE  UNCHANGED <<request, store>>
  BY <1>6 DEF Load, UseLoaded, Start, TakeSnapshot, WriteSnapshot, Read, ReadStore,
              ReadStoreFails, ReplaceLocal
<1>7. CASE UNCHANGED vars
  BY <1>3, <1>7 DEF vars
<1>8. QED BY <1>1, <1>2, <1>3, <1>4, <1>5, <1>6, <1>7 DEF Next, Boot

\* UpdateDynExclude is atomic, whatever its retries, its errors, the restarts of
\* the replicas and the losses of the store: an answered request took effect once,
\* on the set as it was then, one that gave up for contention never did.
THEOREM MutesAreAtomic == Spec => UpdatesAreAtomic
<1>1. Init => ES!Init
  BY InitialAssumption DEF Init, ES!Init, Status
<1>2. QED BY <1>1, Invariant, StepAtomic, PTL DEF Spec, ES!Spec, UpdatesAreAtomic
=============================================================================
