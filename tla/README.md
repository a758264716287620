# Verification of clattermark

TLA+ models of clattermark, TLC runs over small instances of them, and TLAPS
proofs of what matters most for every instance. Paths like `main.go:650` are
relative to the repository.

## 1. The system

clattermark follows log files, matches lines, asks an optional decision service,
groups incidents, suppresses duplicates and sends notifications. Replicas share
one Redis-compatible store.

| Component | State it keeps | Operations | What is hard |
|---|---|---|---|
| Alert pipeline and shutdown (`main.go:642-794`) | channel `alertJobs`, each tailer's offset, the wait groups | tailers read and enqueue, workers dequeue and call `checkLine`, `main` stops everything | backpressure, closing a channel others send on, timeouts in shutdown, offsets over rotations |
| Alert engine (`main.go:410-524`) | none of its own | `checkLine`: match, exclude, decide, aggregate, deduplicate, send | composes the stateful steps below, several per line |
| Decision service client (`decision.go`) | `inflight` flights | `GetOrEvaluate`, `shouldSendByDecisionService` | concurrent callers sharing one request |
| Alert deduplication (`alert_dedup.go`, `keydb/keydb.go:237-245`) | keys `alert-dedup:*` with a TTL, a local map | `Allow`, `Forget` | replicas racing, store failures, failed deliveries |
| Incident aggregation (`incident.go`, `keydb/keydb.go:14-72,247-288`) | a hash per incident, a sorted set, an outbox list | `Record`, `Release`, `closeQuiet`, `publishRecoveries` | scripts of many workers, a sweeper per replica, expiry |
| Dynamic excludes (`dynamic_excludes.go`, `keydb/keydb.go:143-235`, `web.go:216-351`, `main.go:592-612`) | key `excludes`, a local copy, a snapshot file | update, list, refresh, snapshot, restore | optimistic transactions, stale copies, restarts, a lost store |
| Notifier (`notifier.go`) | none | `Send` with a fallback | ambiguous failures |
| Web API and limiter (`web.go`) | a window per client address | handlers, `Allow` | window boundaries |
| Telemetry and health (`telemetry.go`) | counters, `ready`, `shuttingDown` | observe, `/healthz`, `/metrics` | readiness while starting and stopping |
| File watchdog (`main.go:353-393`) | `alerted` | a check each minute | failed notifications, a moving VIP |
| JSON and process excludes (`json_excludes.go`, `main.go:290-337`) | compiled patterns | matching | absent, null and empty fields |
| Process lifecycle (`main.go:29-57,527-794`, `dynamic_excludes.go:105-146`) | pid file, two log files, the snapshot file | startup, reopening on SIGHUP, the snapshotter, shutdown | SIGHUP while starting or stopping, failures inside a reopening, two writers of one temporary file |
| Configuration (`main.go:60-275`) | the configuration | read at startup | none: read once |
| Store client (`keydb/keydb.go`) | a connection pool | commands and scripts | retries of calls whose reply was lost |

Interactions: a tailer hands lines to workers through `alertJobs`; a worker runs
`checkLine`, which calls `dynamicExcludes.Snapshot`, `decisionCache.GetOrEvaluate`,
`incidents.Record/Release`, `deduper.Allow/Forget` and `notifier.Send` in that
order; the sweeper, refresher and snapshotter are goroutines stopped by the same
context; the web handlers change the shared excludes; replicas meet only in the
store.

What makes each part correct:

* pipeline: every line taken is checked once, in order of its file, or given up
  in shutdown; shutdown ends, and closes channel and store only when nobody uses
  them;
* decisions: one request per fingerprint, answers shared by concurrent callers
  only, no caller hangs;
* deduplication: one alert per fingerprint and cooldown over all replicas, none
  suppressed after a failed delivery;
* incidents: first and every n-th event are notified, no event is hidden behind
  a failed notification that was given back, an incident is closed only when it is
  quiet, and its quiet notification waits until it is sent;
* excludes: no lost update, every replica converges to the store, and the
  snapshot on disk can be read back;
* engine: what suppresses an alert stands for one that was sent, duplicates have
  a reason, a mute holds for a whole line, a rule drops a record only on fields that
  are there and say what the rule asks;
* web: three handlers, one rule; the limiter admits and refuses in bounds;
* watchdog: no outage is hidden by an earlier one, none is alerted twice by a
  replica that runs on and knows that it holds the VIP;
* lifecycle: the logs are open and follow rotations, `/healthz` tells the truth.

`PROJECT.json` lists the components, the hazards with the line where each bites,
and the definition-to-source map.

## 2. Modules

| Module | Contents |
|---|---|
| `LineDelivery` | abstract promise about a taken line |
| `Pipeline`, `MCPipeline`, `PipelineProofs` | the pipeline and its shutdown; implements `LineDelivery` |
| `DecisionCache`, `MCDecisionCache`, `DecisionCacheProofs` | single flight and the decision's outcome |
| `AlertEngine`, `MCAlertEngine`, `AlertEngineProofs` | `checkLine` through all monitors with the notifier: decision, aggregation, deduplication and delivery composed |
| `AlertDedup`, `MCAlertDedup`, `AlertDedupProofs` | reservations, local fallback, giving back |
| `Incidents`, `MCIncidents`, `IncidentsProofs` | recording, reminders, sweeps, outbox |
| `ExcludeSet` | abstract promise about mutes and unmutes of the shared set |
| `DynExcludes`, `MCDynExcludes`, `DynExcludesProofs` | shared set, local copies, snapshots, startup; implements `ExcludeSet` |
| `WebAPI`, `MCWebAPI`, `WebAPIProofs` | the request limiter and the verdicts of the handlers |
| `SnapshotFile` | the snapshot file, its temporary name and its writers |
| `Lifecycle`, `MCLifecycle`, `LifecycleProofs` | startup, SIGHUP, `/healthz`, shutdown; extends `SnapshotFile` with `main` and the snapshotter as the writers; the proofs about the process are those of `Lifecycle` and of `Watchdog` |
| `Watchdog`, `MCWatchdog` | `watchFileActivity` on all replicas; its common definitions carry the module's name (`WatchdogSpec`), so that one module can extend it and `Lifecycle` |

Each module has one action per step of the code between two points where another
goroutine, replica or the store can act. Definitions marked `fault:` are defects a
developer might introduce; no specification uses them. They show that each
property is able to fail: put in place of the definition that follows them, the
property named in `PROJECT.json` is violated.

### Pipeline

`tailer[f]` is the program counter of the goroutine of a file: `start` (before
`os.Stat`), `open` (before `tail.TailFile`), `following`, `enqueue` (the first
select), `blocked` (the second), `sleeping`, `exited`. `written`, `base` and
`rotations` are the file on disk, with rotation by renaming; `at` and `handle`
the open tail; lines are numbers. `nextOffset` counts lines where the code counts
bytes. `worker[w]` and `job[w]` are the workers, `main` the main goroutine from
`<-ctx.Done()` to its return. `read`, `boot`, `taken`, `processed` and `dropped`
are history. The tail library is external: it reopens a rotated file at the end
of the old one, starts over in a file that became shorter, and when it gives up
`Tell` may return its position, an error, or 0.

### AlertEngine

The parts meet here. A line is what the code can tell of it (`Shape`: monitors it
matches, whether it parsed, excludes it carries, its process, JSON object,
fingerprint and incident rule), and `Loads` is the lines of a behaviour. A pass
`<<l, m>>` is a line at a monitor; `pc` is where its worker stands in `checkLine`
and the `Send` it calls, `Finish` a `continue` of the loop. `Decide` takes either
answer (`DecisionCache` has how it comes about), `Record`, `RecordFails` and
`Release` are the scripts of `Incidents` for a rule with one incident, `Allow` and
`Forget` are `AlertDedup` with a store that answers. `Accepted` and `Unsent` are
one request to a receiver, with the case that the alert arrived and its answer did
not; a failing primary receiver is followed by the fallback if there is one.
A record that fails was executed or not, a release that fails was not, and the other
calls of the store succeed; repeated calls and a failing DEL are in `Incidents` and
`AlertDedup`.
Environment: cooldowns end at any moment (`Expire`), the sweeper closes incidents,
excludes change. `MatchesJSONFields` says what `json.Unmarshal` makes of a value:
`null` leaves a bool false and a slice nil.

### DecisionCache

A `*decisionFlight` is a number. `Join` and `Lead` are the critical section of
`GetOrEvaluate`, `Evaluate` the request outside the lock, `Publish` the second
critical section, `Wake` the receive on `flight.done`. `Responses` is what
`requestDecision` may return.

### AlertDedup

An alert is a fingerprint and a cooldown. `down` is a store no call reaches while
the model runs; otherwise up to `MaxFaults` calls fail, executed or not.
`Reserve`, `Suppress`, `ReserveFails` and `ReserveRepeated` are the outcomes of
SETNX (the last: a reply is lost and the client library repeats the call);
`AllowLocally` and `SuppressLocally` the fallback under the mutex; `SendFails`,
`ForgetStore`, `ForgetRepeated` (a DEL the client repeats) and `ForgetLocal` the
way back.
All clocks are one clock. The alerts of a behaviour are a finite set
(`AlertAssumption`).

### Incidents

`hash`, `active` and `outbox` are the store's keys and every script is one step.
An event reads the clock (`Observe`) before its script (`Record`). A sweep is
`StartSweep` (VIP test and cutoff), `Scan`, a `Close` per name, `Peek`,
`SendQuiet`, `Drop`; other steps come between any two of them. `SkipSweep` is a
check of a replica without the VIP, or of its holder when `hasVIP` cannot list the
addresses. The hash expires four quiet periods after the last record, its score
stays. `DueIncidents` returns at most 100 names, more than the model has. The
events of a behaviour are a finite set (`EventAssumption`).

The client of the store (go-redis, default retries) repeats a call whose reply is
lost, and no script knows that it ran before. So a record, a release, a close and a
trim that fail may have been executed or not, and are then repeated or given up; a
record counts its event twice this way, and a trim takes the next items of the
outbox. `MaxFaults` bounds the lost replies of a behaviour, and each call may lose
as many: the three retries of the client are among them.

`closed`, `sent`, `trimmed`, `expired` are history, and three variables name what
lost replies and overlapping sweeps leave behind. `lostClaims` has the incidents
whose mark of a notification nobody answers for, because the reply to the record that
made it was lost or its release failed, until a later event of the incident notifies.
`shifted` has the sweepers for whom the head of the outbox may have moved since they
read it (by a trim, their own included, or by an item pushed out). `overtrimmed` has
the incidents a shifted sweeper trimmed while nobody had sent them.

### DynExcludes

An exclude is a type and a value. `Watch`, `Get`, `Exec`, `ExecAborted` are one
attempt of `UpdateDynExclude`; `dirty` holds the requests whose watched key was
written since. Two readers per replica (the refresher and `GET /api/excludes`)
read the store and later replace the local copy; `TakeSnapshot` and
`WriteSnapshot` are the two halves of `SnapshotToFile`; `Load`, `Restore`,
`UseLoaded`, `Start` are startup. Restarts, lost data and failing calls happen
at any point.

`ExcludeSet` is what the comment at `keydb.go:174` promises: a request takes effect
at one moment between its call and its answer, on the set as it is then; one that is
answered took effect once, one refused for contention never, one that failed at
most once. The set may also be overwritten as a whole (a restore, a lost store). The
refinement mapping (`Status`) places the moment at EXEC, and for a request with
nothing to change, which ends without EXEC, already where it reads the set: an EXEC
of another request in between does not make its answer wrong. The mapping reads the
state as it is and needs no further history.

### WebAPI

`Loads` is the requests of a behaviour with the form of each. `ReadClock` and
`Allow` are the two halves of `requestLimiter.Allow`: the clock is read before the
lock is taken, so windows may see times out of order. `Verdict` is the handler's
answer by the order of its own tests; `Serve` gives it.

### Lifecycle and SnapshotFile

`main` is where `main` stands, `hup` where the goroutine of SIGHUP stands in its
loop and in `reopenLogFiles`, one step per file opened, logger switched and file
closed. A log's `generation` counts rotations; `open` is the set of open handles.
SIGHUP outside `signal.Notify` and `signal.Stop` ends the process. `ready`,
`shuttingDown` and `failureSeen` are written by `main` and the goroutine that waits
for the web server, and read one after the other by `ReadReady` and
`ReadShuttingDown`. In `SnapshotFile` names point to inodes, so that a rename may
move what another writer has open; a behaviour starts with what an earlier process
may have left.

### Watchdog

One action per outcome of a check: without the VIP, VIP unknown, stat failed,
fresh, stale and alerted, stale and alerting; `Sent` and `SendFails` end the `Send`.
`VIPUnknown` is the error path of `hasVIP`: the holder of the VIP cannot list its
addresses, is taken for another replica, and its flag is reset (`main.go:340-343`,
`367-370`). An outage is the minute of the last write before it. History:
`inCharge`, since when a replica runs and holds the VIP; `missedAt`, when a check of
the holder last could not look at the file; `blindAt`, when `os.Stat` failed on a file
that moved, until it is seen moving; `excused`, whether a replica lost the VIP, failed
to test for it or was restarted since its alert.

## 3. Runs

Bounds are constants of the `.cfg` files. Runs that pass:

| Run | Question | Instance and why it is enough |
|---|---|---|
| `pipeline_delivery` | Is any line lost, doubled or overtaken; is shutdown's order safe; is every line settled? | two files, so that tailers compete; two workers; a channel of 2, so that it fills with both files waiting; a signal in every state |
| `pipeline_restart` | Are lines skipped when tails stop? Does shutdown end if workers hang? | two restarts, so that an offset is remembered and used again, lines before, between and after them, one rotation; no fairness for workers |
| `decision` | Single flight, sharing, return | three callers, so that a leader, a waiter and a late caller meet; two fingerprints and two flights, on one fingerprint or on both |
| `dedup` | One alert per cooldown over replicas; what does a failing call cost? | two replicas; four alerts of a fingerprint, so that more than two duplicates would be possible; unequal cooldowns and time to the end of the longer one; one failing call, executed or not, repeated or not, or a store that is down |
| `incidents_record` | Reminders, releases, a full outbox | one replica; three events of one rule with a reminder every 2, the third after a failure or in a reopened incident; an outbox of one, so that it overflows; one call that fails or is repeated, or one failing VIP test |
| `incidents_outbox` | Are quiet notifications lost, incidents closed early or forgotten? | two replicas, one move of the VIP at any step, so that sweeps overlap; two events of one rule, so that an incident follows a closed one while its quiet notification waits; an outbox of two read one by one, so that a trim may take one item too many; one call that fails or is repeated, and any number of failing sends; time beyond the expiry of a hash. An item is overtrimmed by the overlap alone and by the repeated trim alone |
| `engine` | Do mutes, rules, claims and reservations agree over monitors and lines? | two lines of five shapes at two monitors, so that a line meets itself and another one; one fingerprint and one rule, so that they compete; one failing call, ended cooldown, closed incident and change of the excludes each; with and without deduplication and fallback; and one line of every JSON object of two fields against four rules |
| `web` | What passes the limiter; do the handlers agree? | five like requests of a client at a limit of two, so that twice the limit and one more is asked; windows of three ticks in eight; and a request of every form |
| `lifecycle` | Logs, signals, snapshots, probes | one rotation of each log with two SIGHUPs, so that one arrives during a reopening; two snapshots of the snapshotter beside `main`'s two, a probe and a signal; one failure of any kind in each |
| `watchdog` | Is an outage hidden or told twice? | two replicas, a threshold of one minute in six, so that three outages follow each other; one VIP move, one restart, any number of failing sends, stats and VIP tests |
| `excludes` | Is a mute atomic; retries; convergence | two requests with two attempts each, so that one can be starved by the other and a lost store; a restart, a failing call, both readers, a snapshot that may hold what the store does not; it starts with one exclude in the store and the file, and an unmute or a lost store empties them before a startup |

Fingerprints do not interact in `AlertDedup` and `AlertEngine` (each is a key of its own), so one is
enough there. `dedup`, `incidents_record`, `incidents_outbox`, `engine` and `web`
use symmetry: alerts of one replica, the two replicas with their alerts, the events
that did parse, the two events of a rule, the two lines and the five like requests are
interchangeable; all check safety only.

One run ends in a violation, a disagreement between the code and what the
repository says of it (`findings` in `PROJECT.json` quotes the lines):
`incidents_unlabelled`, an incident without hosts or processes is not decodable
and is dropped instead of being announced as quiet.

What the models show beside it. Four more times the code does not keep what a
document says; the property of the passing run is then stated without the case, or
counts it:

* A tail that stops across a rotation resumes in the new file with the old one's
  offset and skips its first lines (`main.go:732`, `OffsetAfterStat` of
  `Pipeline`), although `configuration.md:10-11` says that clattermark "follows
  appended complete lines across rotations". `NoLineSkipped` is stated for a file
  that is not rotated while its tail is down.
* `configuration.md:93-94` promises "a durable quiet notification" and
  `operations.md:41` "a durable outbox". LTRIM removes as many items as were
  delivered, whichever they are by then (`incident.go:236`): two sweepers that
  overlap after a VIP move, or one trim that the client repeats after a lost reply,
  remove an item nobody sent (`Trim`). `QuietNoticeKept` says that nothing else
  does, and that nothing is lost while the VIP stays and no call fails.
  `OutboxDurable`, the promise itself, is the property of `incidents_unlabelled`.
* "SIGINT and SIGTERM stop ingestion and drain queued work before exit. SIGHUP
  reopens the application and alert logs" (`operations.md:31-33`). The handler of
  SIGHUP is removed before the drain (`main.go:566`), so a rotation during the drain
  ends the process with queued lines unread (`SendHup` of `Lifecycle`). No property
  covers it: nothing in the code prevents it.
* If the store "is empty at startup and the snapshot is available, the snapshot is
  restored" (`operations.md:38-39`). The restore overwrites what another replica has
  added since this one read the empty store (`main.go:599-609`, `Restore` of
  `DynExcludes`).

What no document speaks of:

* `Forget` deletes a reservation another alert owns: after a fallback, when its DEL
  is repeated, or when a delivery outlasts its cooldown (`alert_dedup.go:112`);
  `FaultsExplainDuplicates` and `DuplicatesExplained` count what that may cost.
* A record whose reply is lost marks its incident as notified, and nobody sends:
  events are aggregated behind it until the next reminder is due (`lostClaims`).
* A VIP test that fails resets the watchdog's flag, and the outage is alerted again
  (`excused`). A stat that fails keeps the flag over the end of an outage, and the
  next one may go by untold (`blindAt`).
* The final snapshot may meet one of the snapshotter, and the file is then torn
  (`SnapshotReadable` excepts it). The web server is stopped after the final
  snapshot: a mute in between is not in it.
* `log.Fatal` leaves the pid file. SIGHUP ends the process before `signal.Notify`,
  too.
* The limiter admits up to twice its limit around a boundary. Its map of clients is
  never pruned.
* An incident counts a line once for each monitor that matches it.

The drain timeout abandons queued lines by design: they count as given up in
`LineAccounting`, and `StoreClosedOnlyWhenDrained` keeps the store open under a
worker that goes on. The sweeper, the refresher and the web handlers use the client
of the store as well; of them nothing is said when it is closed. Without a VIP nobody
sweeps and incidents expire unannounced; `NoIncidentForgotten` is checked with a VIP.
`SharedAnswer` says that the callers of a flight get one answer, whichever a failed
request yields: `fail_open` is one expression of `SendDecision`. `Converges` is checked
for one replica, and says that it ends up with what the store holds, not that a
restore put the right set there. Also visible in the models: `ClosedOnlyWhenQuiet` allows for
the time a record takes to reach the store, because the code reads the clock
first; `FaultsExplainDuplicates` allows two duplicates for one failure and holds
for equal cooldowns.

## 4. Fairness

* Goroutines that can run do run: weak fairness of the steps of tailers, callers
  and `main`.
* A Go select with several ready cases picks one at random, so a cancelled context
  is not passed over for ever: strong fairness of `TailerExit` and `GiveUpLine`.
* Blocked senders on a channel are served in order: strong fairness of `Enqueue`.
* `checkLine` ends: the decision request, the notifier (10 s) and the store client
  have timeouts. `ShutdownCompletes` does without this assumption, as the drain
  timer makes `main` go on.
* `excludes`: startup and begun handlers run on, the refresher's ticker
  fires. Nothing is assumed of clients, the snapshotter, crashes or failures.
* `lifecycle`: the goroutine of SIGHUP runs on (weak fairness of `HupSteps`).
  Nothing is assumed of `main`, of signals or of clients.
* `engine`, `web` and `watchdog` check safety only and state no fairness.
* In `Incidents` and `AlertDedup` time is explicit: a tick waits for the sweep that
  is due and for steps that have reached their longest duration (`MaxSend`,
  `MaxDelay`, `MaxSweep`). They state how late things may be, nothing more.

## 5. Proofs

Checked by TLAPS for all values of the constants that satisfy the named
assumptions:

* `PipelineProofs`: type correctness, `NoSendOnClosedChannel`, `NoLineSkipped`,
  `StoreClosedOnlyWhenDrained`, `LineAccounting`, `StartedInOrder`, and that
  `Pipeline` implements `LineDelivery`. The inductive invariant is the conjunction
  of the types with what a tailer or worker carries in each program location
  (`Carried`), the shutdown invariant (which of `closed`, `didDrain`,
  `storeClosed` and the exits of goroutines `main`'s location implies),
  `LineAccounting` and `StartedInOrder`. The strengthening is needed because
  neither order nor accounting is inductive without knowing that a line in hand
  is its tailer's latest, and closing the store is only safe because workers exit
  when the channel is closed and empty. `NoLineSkipped` needs the position of each
  tail (`Position`): in a file that was not rotated neither the open tail nor the
  offset kept for its next start has passed a line that was not taken, and a tail is
  opened only after that offset was set. Assumptions: there is a worker, the
  capacity is positive (what `PipelineConfig.values` ensures), bounds are numbers.
* `DecisionCacheProofs`: type correctness, single flight, no orphaned waiter, no reuse of a finished
  decision, one answer per flight. The invariant ties `inflight` to the one leader
  of each open flight and every flight to the key it was started for.
* `DynExcludesProofs`: type correctness, `EachCommitIsItsOwn`,
  `GivesUpOnlyUnderContention`, and that `DynExcludes` implements `ExcludeSet`
  (`UpdatesAreAtomic`, one step of the abstract set or none for each step of the
  model). The invariant says that a request which has read
  the key and is not dirty has seen what the store holds, that every attempt which
  failed or is bound to fail had a write of the key of its own, and that a request
  gives up at its last attempt; the first of the three is what makes an EXEC the
  abstract change of the set as it is then. Assumptions: at least one attempt; initial sets
  are sets of excludes.

* `AlertEngineProofs`: type correctness, `MutedForAllOrNone`, `NoiseNeedsEvidence`,
  `DuplicatesExplained`, `NothingSwallowed`. The invariant ties an outcome to the
  monitor a line is at (`PathTyped`), a mute to the excludes the line took
  (`MuteInv`), a reservation to the pass that holds it (`HolderInv`), a claim to
  the pass whose count is the incident's last one (`ClaimInv`), and bounds alerts
  received plus alerts that lines still owe plus one that may be reserved
  (`AlertsInv`): none of these properties is inductive without knowing what a line
  under way may still do. Assumptions: finitely many lines, a monitor, a positive
  reminder interval.
* `LifecycleProofs`: type correctness, `LogsStayOpen`, `SnapshotReadable`,
  `HealthyOnlyWhenServing`. `SnapshotReadable` is about the order of writing and
  renaming under a crash of the process, one writer at a time (the snapshotter's and
  `main`'s final snapshot may overlap, and that case is excepted); a crash of the
  machine, where fsync would matter, is not modelled. The invariant gives for each
  place of `hup` the handles that are open and those the loggers use, for each
  place of `main` the flags it has set, and for each writer and each name of the
  snapshot what its inode holds.
  For `Watchdog`, in the same module: type correctness, `OutageToldOrCounted`,
  `AlertsOncePerOutage`, with VIP tests and stats that fail at any check. The
  invariant says of which outage a raised flag or a pending send speaks: of the
  present one, unless a stat failed since the file moved (`blindAt`), and a flag is
  down in an outage that was alerted only if the replica is `excused`.
* `WebAPIProofs`: type correctness, `HandlersAgree` from the verdicts of the
  handlers over every form, and the limiter: `AtMostTwiceLimit` and
  `RefusedOnlyOverLimit`. Nothing in the code's state says which requests a counter
  stands for, and requests take the lock in another order than they read the clock.
  So the invariant states that the counted requests can be assigned to windows
  (`WindowInv`): a request lies inside its window up to the clocks' delay
  (`InsideWindow`), windows of a client do not overlap (`Apart`), the open one holds
  as many requests as its counter says, and none admits more than the limit or
  refuses below it (`Counts`). A stretch shorter than a window meets two of them at most.
* `AlertDedupProofs`: type correctness (no reservation outlasts the longest
  cooldown), `SuppressedOnlyInCooldown`, `NoDuplicateInCooldown`,
  `FaultsExplainDuplicates`. `Entry` is what
  `Allow` looks at, in the store or, while it is down, in the replica's map. The
  invariant says, until a call fails by itself, that an entry in force is of an
  alert that was let through and has not given it back (`OwnerInv`), and that an
  alert in its cooldown holds its entry alone (`HolderInv`). The second is true
  only if no delivery outlasts a cooldown (`CooldownsOutlastSends`): `Forget`
  deletes whatever is there. It is the hypothesis of `NoDuplicates` and
  `FailuresExplainDuplicates` and of no other theorem; the default cooldown
  (15 minutes, `alert_dedup.go:12`) against timeouts of seconds satisfies it, a
  cooldown of seconds set by a decision may not, and `AlertEngine` does without it.
  Assumptions: there is a cooldown and every one is positive; the alerts of a
  behaviour are finitely many.

  `FaultsExplainDuplicates` compares two numbers, and nothing in the state says which
  duplicate goes back to which failed call. So the invariant (`BalanceInv`) states
  that an account can be kept: there are a set of alerts that fell back after a call
  that failed (`Fallen`), one for each such call at most, and a set of alerts whose
  own reservation is in the store (`Owners`), such that what was charged is covered
  by what was paid (`Paid`). Charged are the delivered duplicates the store let
  through and every alert that may lose its reservation to another's failure
  (`Charged`), and each fingerprint whose next reservation would be a duplicate
  (`Contested`). An alert that fell back pays for one of these once it is let
  through, and for one more once it has given back; any other call that failed, a
  repeated DEL among them, pays for two. Each action keeps the balance
  (`LocalCosts`, `ReserveCosts`, `ForgetCosts`, `RepeatCosts`, `TickCosts` and the
  lemmas beside them): a reservation of a contested fingerprint charges its alert instead, and a
  deleted reservation makes the fingerprint contested in place of an alert that was
  charged. Equal cooldowns are needed in `TickCosts`: of two alerts the earlier one
  ends first. A delivered duplicate is charged or fell back without giving back, so
  there are at most two for each call that failed.
* `IncidentsProofs`: type correctness, `ClosedOnlyWhenQuiet`,
  `AggregatedBehindNotification`, `QuietNoticeKept`, `NoIncidentForgotten`, all with
  calls that are lost or repeated as often as `MaxFaults` allows.
  * `IInv`: the types with where an event (`EventInv`) and a sweep (`SweepInv`) may
    stand, what a present hash says of the event that wrote it (`HashInv`), and how
    far clock readings lie back (`ClockInv`). It gives type correctness.
  * `LastInv`: the last event a hash knows of is at most the delay of a record older
    than any event of the incident, hence `ClosedOnlyWhenQuiet`.
  * `NotifiedInv`: a hash that is marked as notified stands for an event that was
    sent or still may release the mark, or its incident is in `lostClaims`, hence
    `AggregatedBehindNotification`.
  * `OutboxInv`: every closed incident is announced, pushed out, overtrimmed or in
    the outbox; and what a sweep that is not `shifted` has read is still the head of
    the outbox, so that its trim takes what it delivered. Hence `QuietNoticeKept`
    for any moves of the VIP and any failing calls. With neither there is one
    sweeper (`OneSweeper`), which is not shifted while it publishes, and nothing is
    overtrimmed. Hypothesis `Labelled`: events have a host and a process (the others
    are the finding of `incidents_unlabelled`).
  * `TimelyInv`: an active incident is scanned before its hash expires, because the
    sweeps that failing calls and failing VIP tests may cost (`MaxFaults` of them),
    the period of the sweeper and the duration of a sweep fit into the three quiet
    periods between quiet and expiry. This is the hypothesis `Timely` of
    `IncidentsAreClosedInTime`, with a replica that holds the VIP, does not lose it
    (`moves = 0`), and records that arrive within a quiet period; without it incidents
    are forgotten. `incidents_outbox` satisfies `Labelled` and `Timely`, and checks
    one move of the VIP as well.

`TypeOK` of `Pipeline`, `DecisionCache`, `DynExcludes`, `AlertEngine`, `Lifecycle`,
`WebAPI`, `WatchdogTypeOK` and `NoOrphanedWaiter` of `DecisionCache` are proved and in
no run. Every safety property of the runs that pass is proved.

Only model-checked:

* liveness under fairness, outside what the provers handle: `EveryLineSettled`,
  `ShutdownCompletes`, `CallReturns`, `Converges`, `LogsFollowRotation`;
* that an incident without labels is announced: the run shows that it is not.

In `MCAlertDedup.cfg` cooldowns are longer than `MaxSend`, the hypothesis of
`NoDuplicates` and `FailuresExplainDuplicates`.

## 6. Not modelled

Text: parsing of syslog and JSON lines, fingerprint normalisation, regular
expressions (membership in `Shape`), cards, payloads, message wording, logging.
Configuration and secrets are read once, before anything runs concurrently;
packaging, dashboards and examples hold no program. Of `telemetry.go` the health
endpoint is modelled; its counters and histogram are atomic adds nothing reads back,
except `notificationFailures` in `Watchdog`. The store and the tail library are
external, modelled from how the code uses them.

What could still be added: an abstract reservation that `AlertDedup` implements while
the store answers, and abstract incidents for the scripts of `Incidents`.
