----------------------------- MODULE DynExcludes -----------------------------
(***************************************************************************)
(* Dynamic excludes: the shared set in the store, changed by optimistic    *)
(* transactions (src/keydb/keydb.go), the copy each replica filters lines  *)
(* with, its refresher and its snapshot file (src/dynamic_excludes.go),    *)
(* the restore at startup (src/main.go) and the handlers that read and     *)
(* change the set (src/web.go).                                            *)
(*                                                                         *)
(* An exclude stands for a type and a value; a map of lists is the set of  *)
(* its excludes.                                                           *)
(***************************************************************************)
EXTENDS Naturals, FiniteSets

CONSTANTS Replicas, Excludes,
          Requests,     \* mute and unmute requests that passed validation
          ReplicaOf, ExcludeOf,
          Mutes,        \* the requests that add; the others remove
          MaxRetries,   \* maxRetries of UpdateDynExclude
          InitialSets,  \* what the store and the files may hold at first
          MaxRestarts, MaxLosses, MaxFaults  \* bounds

ASSUME RequestAssumption ==
  /\ ReplicaOf \in [Requests -> Replicas]
  /\ ExcludeOf \in [Requests -> Excludes]
  /\ Mutes \subseteq Requests
ASSUME RetryAssumption == MaxRetries \in Nat \ {0}
ASSUME InitialAssumption == InitialSets \subseteq SUBSET Excludes
ASSUME BoundAssumption == {MaxRestarts, MaxLosses, MaxFaults} \subseteq Nat

\* Who replaces the local copy besides the mutating handlers: the refresher and
\* GET /api/excludes.
Readers == {"refresher", "list"}
NoCopy == [taken |-> FALSE, set |-> {}]
Copy(s) == [taken |-> TRUE, set |-> s]

VARIABLES
  store,       \* the key "excludes"
  dirty,       \* requests whose watched key was written since they watched it
  pc, seen, attempt,     \* each request, as UpdateDynExclude
  phase,       \* each replica: "loading", "loaded", "starting" or "up"
  local,       \* dynamicExcludesStore.excludes
  loaded,      \* what GetDynExcludes returned at startup
  reader, got, \* each reader of a replica, and what it read
  copy,        \* the snapshotter's copy while it writes the file
  file,        \* the snapshot file
  committed, writes,     \* history: requests whose EXEC ran, writes of the key
  restarts, losses, faults

request == <<pc, seen, attempt, committed>>
replica == <<phase, local, loaded, reader, got, copy, file>>
bounds == <<restarts, losses, faults>>
vars == <<store, dirty, request, replica, writes, bounds>>

Init ==
  /\ store \in InitialSets
  /\ file \in [Replicas -> InitialSets]
  /\ dirty = {}
  /\ pc = [q \in Requests |-> "new"]
  /\ seen = [q \in Requests |-> {}]
  /\ attempt = [q \in Requests |-> 0]
  /\ phase = [r \in Replicas |-> "loading"]
  /\ local = [r \in Replicas |-> {}]
  /\ loaded = [r \in Replicas |-> {}]
  /\ reader = [r \in Replicas |-> [k \in Readers |-> "idle"]]
  /\ got = [r \in Replicas |-> [k \in Readers |-> {}]]
  /\ copy = [r \in Replicas |-> NoCopy]
  /\ committed = {} /\ writes = 0
  /\ restarts = 0 /\ losses = 0 /\ faults = 0

Fault == faults < MaxFaults /\ faults' = faults + 1 /\ UNCHANGED <<restarts, losses>>

\* Any write of the key aborts the transactions that watch it.
Write(s) == store' = s /\ dirty' = Requests /\ writes' = writes + 1

-----------------------------------------------------------------------------
(* UpdateDynExclude and updateDynamicExclude.                              *)

Live(q) == phase[ReplicaOf[q]] = "up"
GoTo(q, p) == pc' = [pc EXCEPT ![q] = p]
UpdatedAlone(s, q) == IF q \in Mutes THEN {ExcludeOf[q]} ELSE {}   \* fault: the list is replaced
Updated(s, q) == IF q \in Mutes THEN s \cup {ExcludeOf[q]} ELSE s \ {ExcludeOf[q]}
Result(q) == Updated(seen[q], q)

Watch(q) ==
  /\ Live(q) /\ pc[q] = "new"
  /\ dirty' = dirty \ {q}
  /\ GoTo(q, "watching")
  /\ UNCHANGED <<store, seen, attempt, committed, replica, writes, bounds>>

Get(q) ==
  /\ pc[q] = "watching"
  /\ seen' = [seen EXCEPT ![q] = store]
  /\ GoTo(q, "read")
  /\ UNCHANGED <<store, dirty, attempt, committed, replica, writes, bounds>>

\* Nothing to change: the transaction ends without EXEC.
NoChange(q) ==
  /\ pc[q] = "read"
  /\ Result(q) = seen[q]
  /\ GoTo(q, "answering")
  /\ UNCHANGED <<store, dirty, seen, attempt, committed, replica, writes, bounds>>

AbortsNever(q) == FALSE                      \* fault: the key is not watched
Aborts(q) == q \in dirty

Exec(q) ==
  /\ pc[q] = "read"
  /\ Result(q) # seen[q]
  /\ ~Aborts(q)
  /\ Write(Result(q))
  /\ committed' = committed \cup {q}
  /\ GoTo(q, "answering")
  /\ UNCHANGED <<seen, attempt, replica, bounds>>

LastAttemptEarly(q) == attempt[q] + 2 >= MaxRetries  \* fault: one attempt short
LastAttempt(q) == attempt[q] + 1 = MaxRetries

\* TxFailedErr: tried again up to maxRetries times.
ExecAborted(q) ==
  /\ pc[q] = "read"
  /\ Result(q) # seen[q]
  /\ Aborts(q)
  /\ attempt' = [attempt EXCEPT ![q] = @ + 1]
  /\ GoTo(q, IF LastAttempt(q) THEN "gaveUp" ELSE "new")
  /\ UNCHANGED <<store, dirty, seen, committed, replica, writes, bounds>>

\* Another error of the store ends the request; an EXEC may have run.
UpdateFails(q) ==
  /\ pc[q] \in {"watching", "read"}
  /\ Fault
  /\ \/ UNCHANGED <<store, dirty, writes, committed>>
     \/ /\ pc[q] = "read" /\ Result(q) # seen[q] /\ ~Aborts(q)
        /\ Write(Result(q))
        /\ committed' = committed \cup {q}
  /\ GoTo(q, "failed")
  /\ seen' = [seen EXCEPT ![q] = {}]
  /\ UNCHANGED <<attempt, replica>>

\* store.Replace with the set the transaction returned, and the answer.
Answer(q) ==
  /\ pc[q] = "answering"
  /\ local' = [local EXCEPT ![ReplicaOf[q]] = Result(q)]
  /\ GoTo(q, "done")
  /\ seen' = [seen EXCEPT ![q] = {}]
  /\ UNCHANGED <<store, dirty, attempt, committed, phase, loaded, reader, got,
                 copy, file, writes, bounds>>

-----------------------------------------------------------------------------
(* The refresher and GET /api/excludes: read the store, then replace.      *)

ReadStore(r, k) ==
  /\ phase[r] = "up" /\ reader[r][k] = "idle"
  /\ reader' = [reader EXCEPT ![r][k] = "read"]
  /\ got' = [got EXCEPT ![r][k] = store]
  /\ UNCHANGED <<store, dirty, request, phase, local, loaded, copy, file, writes, bounds>>

AfterReadErrorStops == "stopped"             \* fault: the refresher returns
AfterReadError == "idle"

ReadStoreFails(r, k) ==
  /\ phase[r] = "up" /\ reader[r][k] = "idle"
  /\ Fault
  /\ reader' = [reader EXCEPT ![r][k] = AfterReadError]
  /\ UNCHANGED <<store, dirty, request, phase, local, loaded, got, copy, file, writes>>

ReplaceLocal(r, k) ==
  /\ reader[r][k] = "read"
  /\ local' = [local EXCEPT ![r] = got[r][k]]
  /\ reader' = [reader EXCEPT ![r][k] = "idle"]
  /\ got' = [got EXCEPT ![r][k] = {}]
  /\ UNCHANGED <<store, dirty, request, phase, loaded, copy, file, writes, bounds>>

-----------------------------------------------------------------------------
(* SnapshotToFile: a copy under the lock, then a file renamed into place.  *)

TakeSnapshot(r) ==
  /\ phase[r] = "up" /\ ~copy[r].taken
  /\ copy' = [copy EXCEPT ![r] = Copy(local[r])]
  /\ UNCHANGED <<store, dirty, request, phase, local, loaded, reader, got, file, writes, bounds>>

WriteSnapshot(r) ==
  /\ copy[r].taken
  /\ copy' = [copy EXCEPT ![r] = NoCopy]
  /\ \/ file' = [file EXCEPT ![r] = copy[r].set] /\ UNCHANGED bounds
     \/ Fault /\ UNCHANGED file
  /\ UNCHANGED <<store, dirty, request, phase, local, loaded, reader, got, writes>>

-----------------------------------------------------------------------------
(* Startup and its end.                                                    *)

\* loadDynamicExcludes.  A failed attempt is repeated; after the last one the
\* process exits and is started again, which is another attempt.
Load(r) ==
  /\ phase[r] = "loading"
  /\ \/ /\ loaded' = [loaded EXCEPT ![r] = store]
        /\ phase' = [phase EXCEPT ![r] = "loaded"]
        /\ UNCHANGED bounds
     \/ Fault /\ UNCHANGED <<loaded, phase>>
  /\ UNCHANGED <<store, dirty, request, local, reader, got, copy, file, writes>>

NeedsRestore(r) == loaded[r] = {} /\ file[r] # {}

\* SetDynExcludes of the snapshot, whatever the key holds by now.  When it
\* fails the replica starts with the snapshot all the same.
Restore(r) ==
  /\ phase[r] = "loaded"
  /\ NeedsRestore(r)
  /\ \/ /\ UNCHANGED bounds \/ Fault
        /\ Write(file[r])
     \/ /\ Fault
        /\ UNCHANGED <<store, dirty, writes>>
  /\ local' = [local EXCEPT ![r] = file[r]]
  /\ phase' = [phase EXCEPT ![r] = "starting"]
  /\ UNCHANGED <<request, loaded, reader, got, copy, file>>

UseLoaded(r) ==
  /\ phase[r] = "loaded"
  /\ ~NeedsRestore(r)
  /\ local' = [local EXCEPT ![r] = loaded[r]]
  /\ phase' = [phase EXCEPT ![r] = "starting"]
  /\ UNCHANGED <<store, dirty, request, loaded, reader, got, copy, file, writes, bounds>>

\* The initial snapshot, then the snapshotter, the refresher and the web server.
Start(r) ==
  /\ phase[r] = "starting"
  /\ \/ file' = [file EXCEPT ![r] = local[r]] /\ UNCHANGED bounds
     \/ Fault /\ UNCHANGED file
  /\ phase' = [phase EXCEPT ![r] = "up"]
  /\ loaded' = [loaded EXCEPT ![r] = {}]
  /\ UNCHANGED <<store, dirty, request, local, reader, got, copy, writes>>

Begun(q) == pc[q] \in {"watching", "read", "answering"} \/ (pc[q] = "new" /\ attempt[q] > 0)

\* The process ends at any point and is started again: its file is left, its
\* requests stay unanswered.
Restart(r) ==
  /\ restarts < MaxRestarts /\ restarts' = restarts + 1
  /\ phase' = [phase EXCEPT ![r] = "loading"]
  /\ local' = [local EXCEPT ![r] = {}]
  /\ loaded' = [loaded EXCEPT ![r] = {}]
  /\ reader' = [reader EXCEPT ![r] = [k \in Readers |-> "idle"]]
  /\ got' = [got EXCEPT ![r] = [k \in Readers |-> {}]]
  /\ copy' = [copy EXCEPT ![r] = NoCopy]
  /\ pc' = [q \in Requests |->
              IF ReplicaOf[q] = r /\ Begun(q) THEN "lost" ELSE pc[q]]
  /\ UNCHANGED <<store, dirty, seen, attempt, committed, file, writes, losses, faults>>

\* The store loses its data.
LoseStore ==
  /\ losses < MaxLosses /\ losses' = losses + 1
  /\ Write({})
  /\ UNCHANGED <<request, replica, restarts, faults>>

-----------------------------------------------------------------------------
Update(q) == \/ Watch(q) \/ Get(q) \/ NoChange(q) \/ Exec(q) \/ ExecAborted(q)
             \/ UpdateFails(q) \/ Answer(q)
Boot(r) == Load(r) \/ Restore(r) \/ UseLoaded(r) \/ Start(r)
Read(r, k) == ReadStore(r, k) \/ ReadStoreFails(r, k) \/ ReplaceLocal(r, k)

Next ==
  \/ \E q \in Requests : Update(q)
  \/ \E r \in Replicas :
       \/ Boot(r) \/ Restart(r) \/ TakeSnapshot(r) \/ WriteSnapshot(r)
       \/ \E k \in Readers : Read(r, k)
  \/ LoseStore

Spec == Init /\ [][Next]_vars

\* A started handler and startup run on; the refresher's ticker fires.  Nothing
\* is assumed of clients, crashes or the snapshotter.
Fairness ==
  /\ \A q \in Requests : WF_vars(Begun(q) /\ Update(q))
  /\ \A r \in Replicas :
       /\ WF_vars(Boot(r))
       /\ WF_vars(ReadStore(r, "refresher"))
       /\ WF_vars(ReplaceLocal(r, "refresher"))

FairSpec == Spec /\ Fairness

-----------------------------------------------------------------------------
(* Properties.                                                             *)

\* The type of the shared set, the requests and the replicas; no request makes
\* more than MaxRetries attempts.
TypeOK ==
  /\ store \in SUBSET Excludes
  /\ dirty \in SUBSET Requests
  /\ pc \in [Requests -> {"new", "watching", "read", "answering", "done",
                          "gaveUp", "failed", "lost"}]
  /\ seen \in [Requests -> SUBSET Excludes]
  /\ attempt \in [Requests -> 0..MaxRetries]
  /\ \A q \in Requests : attempt[q] = MaxRetries => pc[q] = "gaveUp"
  /\ phase \in [Replicas -> {"loading", "loaded", "starting", "up"}]
  /\ local \in [Replicas -> SUBSET Excludes]
  /\ loaded \in [Replicas -> SUBSET Excludes]
  /\ reader \in [Replicas -> [Readers -> {"idle", "read"}]]
  /\ got \in [Replicas -> [Readers -> SUBSET Excludes]]
  /\ copy \in [Replicas -> [taken : BOOLEAN, set : SUBSET Excludes]]
  /\ file \in [Replicas -> SUBSET Excludes]
  /\ committed \in SUBSET Requests
  /\ writes \in Nat
  /\ restarts \in Nat /\ losses \in Nat /\ faults \in Nat

\* Concurrent API callers do not overwrite each other: a committed request
\* changes its own exclude in the set as it is then, and nothing else.
EachCommitIsItsOwn ==
  [][\A q \in Requests : q \in committed' \ committed =>
       store' = Updated(store, q) /\ store' # store]_vars

\* A request gives up only when the key was written once for each of its
\* attempts: updates of the set as a whole always make progress.
GivesUpOnlyUnderContention ==
  \A q \in Requests : pc[q] = "gaveUp" => writes >= MaxRetries

\* When a request took effect: with its EXEC, or as it read a set that it has
\* nothing to change in.
Status(q) ==
  CASE pc[q] = "done" -> "answered"
    [] pc[q] = "gaveUp" -> "refused"
    [] pc[q] \in {"failed", "lost"} -> "failed"
    [] pc[q] = "answering" \/ (pc[q] = "read" /\ Result(q) = seen[q]) -> "applied"
    [] OTHER -> "open"

\* Mutes and unmutes are atomic: UpdateDynExclude, its retries, its failures and
\* the restarts of the replicas keep the promise of ExcludeSet.
ES == INSTANCE ExcludeSet WITH
        set <- store, status <- [q \in Requests |-> Status(q)], changers <- committed

UpdatesAreAtomic == ES!Spec

\* When requests and faults are over, every replica ends up filtering with what
\* the store holds, also after stale answers, restarts and a lost store.
Converges == <>[](\A r \in Replicas : phase[r] = "up" /\ local[r] = store)
=============================================================================
