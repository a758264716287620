----------------------------- MODULE Lifecycle -----------------------------
(***************************************************************************)
(* The life of the process (main, reopenLogFiles in src/main.go): startup, *)
(* readiness, log rotation by SIGHUP, and the end of it, with the health   *)
(* endpoint (src/telemetry.go) and the snapshotter                         *)
(* (src/dynamic_excludes.go) at work beside main.  Pipeline has what       *)
(* happens between the signal and the end of the drain.                    *)
(*                                                                         *)
(* A log is a path whose file has a generation, the number of rotations.   *)
(* A handle is numbered by the reopening that opened it; main opens 0.     *)
(***************************************************************************)
EXTENDS SnapshotFile, FiniteSets

CONSTANT Budgets      \* bounds: how often the environment acts in a behaviour

ASSUME BudgetAssumption ==
  Budgets \subseteq [rotations : Nat, signals : Nat, probes : Nat, snapshots : Nat,
                     failures : Nat]
ASSUME WriterAssumption == Writers = {"main", "snapshotter"}

Logs == {"main", "alert"}

VARIABLES
  main,           \* "boot", "opening", "loading", "snapshot", "starting", "web",
                  \* "serving", "stopping", "draining", "final", "closing",
                  \* "exited", "killed"
  pidFile,
  cancelled,      \* ctx.Done(): SIGINT or SIGTERM came
  snapshotting,   \* the snapshotter goroutine runs
  web,            \* "off", "up", "failed"
  failureSeen,    \* its error reached the goroutine that waits for it
  ready, shuttingDown,
  hup,            \* the goroutine of SIGHUP: "none", "started", "listening",
                  \* "openMain", "openAlert", "setMain", "setAlert", "closeOld", "stopped"
  pending,        \* sigs holds a signal
  generation,     \* of the file at each log's path
  output,         \* the handle each logger writes to
  opened,         \* the handles reopenLogFiles has opened
  open,           \* open handles
  reopens,        \* calls of reopenLogFiles
  probe,          \* a request of /healthz: "idle", "sawReady", "healthy", "unavailable"
  notified,       \* history: the generations when SIGHUP last was accepted
  reopenFailed,   \* history
  budget          \* what is left of the bounds

mainVars == <<main, pidFile, cancelled, snapshotting>>
webVars == <<web, failureSeen, ready, shuttingDown>>
files == <<output, opened, open>>
hupVars == <<hup, reopens, reopenFailed, files>>
env == <<pending, notified, generation>>
vars == <<mainVars, webVars, hupVars, env, probe, budget, snapshotVars>>

Handle(log, n) == [log |-> log, id |-> n, generation |-> generation[log]]
Outputs == {output[log] : log \in Logs}

Init ==
  /\ SnapshotInit
  /\ main = "boot" /\ pidFile = FALSE /\ cancelled = FALSE /\ snapshotting = FALSE
  /\ web = "off" /\ failureSeen = FALSE
  /\ ready = FALSE /\ shuttingDown = FALSE
  /\ hup = "none" /\ reopens = 0 /\ reopenFailed = FALSE
  /\ generation = [log \in Logs |-> 0]
  /\ output = [log \in Logs |-> Handle(log, 0)]
  /\ opened = output /\ open = {}
  /\ pending = FALSE /\ notified = generation
  /\ probe = "idle"
  /\ budget \in Budgets

Gone == main \in {"exited", "killed"}

Spend(what) == budget[what] > 0 /\ budget' = [budget EXCEPT ![what] = @ - 1]

-----------------------------------------------------------------------------
(* main.                                                                   *)

Proceed(from, to) == ~Gone /\ main = from /\ main' = to

WritePid ==
  /\ Proceed("boot", "opening")
  /\ pidFile' = TRUE
  /\ UNCHANGED <<cancelled, snapshotting, webVars, hupVars, env, probe, budget, snapshotVars>>

\* The goroutine of SIGHUP has been started; it calls signal.Notify by itself.
OpenLogs ==
  /\ Proceed("opening", "loading")
  /\ output' = [log \in Logs |-> Handle(log, 0)]
  /\ opened' = output'
  /\ open' = {output'[log] : log \in Logs}
  /\ hup' = "started"
  /\ UNCHANGED <<pidFile, cancelled, snapshotting, webVars, reopens, reopenFailed, env,
                 probe, budget, snapshotVars>>

\* log.Fatal: a log, the configuration, a pattern, or the store after five attempts.
\* The pid file stays.
StartupFails ==
  /\ main \in {"opening", "loading"} /\ main' = "exited"
  /\ UNCHANGED <<pidFile, cancelled, snapshotting, webVars, hupVars, env, probe, budget, snapshotVars>>

\* The store or the snapshot has been read; the first snapshot begins, or its
\* file cannot be opened.
Load ==
  /\ Proceed("loading", "snapshot")
  /\ Open("main") \/ UNCHANGED snapshotVars
  /\ UNCHANGED <<pidFile, cancelled, snapshotting, webVars, hupVars, env, probe, budget>>

\* SnapshotToFile; an error is logged.
Snapshotting(w) == \/ (Fill(w) \/ Rename(w)) /\ UNCHANGED budget
                   \/ FillFails(w) /\ Spend("failures")

MainSnapshots ==
  /\ main \in {"snapshot", "final"}
  /\ Snapshotting("main")
  /\ UNCHANGED <<mainVars, webVars, hupVars, env, probe>>

StartGoroutines ==
  /\ ~Writing("main")
  /\ Proceed("snapshot", "starting")
  /\ snapshotting' = TRUE
  /\ UNCHANGED <<pidFile, cancelled, webVars, hupVars, env, probe, budget, snapshotVars>>

StartWeb ==
  /\ Proceed("starting", "web")
  /\ web' = "up"
  /\ UNCHANGED <<pidFile, cancelled, snapshotting, failureSeen, ready, shuttingDown,
                 hupVars, env, probe, budget, snapshotVars>>

BecomeReady ==
  /\ Proceed("web", "serving")
  /\ ready' = TRUE
  /\ UNCHANGED <<pidFile, cancelled, snapshotting, web, failureSeen, shuttingDown, hupVars,
                 env, probe, budget, snapshotVars>>

BeginShutdown ==
  /\ cancelled
  /\ Proceed("serving", "stopping")
  /\ shuttingDown' = TRUE
  /\ UNCHANGED <<pidFile, cancelled, snapshotting, web, failureSeen, ready, hupVars,
                 env, probe, budget, snapshotVars>>

ClearReady ==
  /\ Proceed("stopping", "draining")
  /\ ready' = FALSE
  /\ UNCHANGED <<pidFile, cancelled, snapshotting, web, failureSeen, shuttingDown, hupVars,
                 env, probe, budget, snapshotVars>>

\* The drain ends, or its timeout does.
Drained ==
  /\ Proceed("draining", "final")
  /\ Open("main") \/ UNCHANGED snapshotVars
  /\ UNCHANGED <<pidFile, cancelled, snapshotting, webVars, hupVars, env, probe, budget>>

ShutdownWeb ==
  /\ ~Writing("main")
  /\ Proceed("final", "closing")
  /\ web' = "off"
  /\ UNCHANGED <<pidFile, cancelled, snapshotting, failureSeen, ready, shuttingDown,
                 hupVars, env, probe, budget, snapshotVars>>

Exit ==
  /\ Proceed("closing", "exited")
  /\ pidFile' = FALSE
  /\ UNCHANGED <<cancelled, snapshotting, webVars, hupVars, env, probe, budget, snapshotVars>>

-----------------------------------------------------------------------------
(* The snapshotter.                                                        *)

\* Its ticker fires; a select with ctx.Done() also ready may take the ticker.
Snapshot ==
  /\ ~Gone /\ snapshotting
  /\ \/ Open("snapshotter") /\ Spend("snapshots")
     \/ Snapshotting("snapshotter")
  /\ UNCHANGED <<mainVars, webVars, hupVars, env, probe>>

SnapshotterReturns ==
  /\ ~Gone /\ snapshotting /\ cancelled /\ ~Writing("snapshotter")
  /\ snapshotting' = FALSE
  /\ UNCHANGED <<main, pidFile, cancelled, webVars, hupVars, env, probe, budget, snapshotVars>>

-----------------------------------------------------------------------------
(* The web server and /healthz.                                            *)

ListenerFails ==
  /\ ~Gone /\ web = "up"
  /\ web' = "failed"
  /\ Spend("failures")
  /\ UNCHANGED <<mainVars, failureSeen, ready, shuttingDown, hupVars, env, probe, snapshotVars>>

NoteFailure ==
  /\ ~Gone /\ web = "failed" /\ ~failureSeen
  /\ failureSeen' = TRUE
  /\ ready' = FALSE
  /\ UNCHANGED <<mainVars, web, shuttingDown, hupVars, env, probe, budget, snapshotVars>>

Probe(p) == probe' = p /\ UNCHANGED <<mainVars, webVars, hupVars, env, snapshotVars>>

\* !m.ready.Load() || m.shuttingDown.Load(), one after the other.  A handler that
\* runs when the listener fails goes on.
ReadReady ==
  /\ ~Gone /\ web = "up" /\ probe = "idle"
  /\ Spend("probes")
  /\ Probe(IF ready THEN "sawReady" ELSE "unavailable")

HealthyAlways == "healthy"                   \* fault: shuttingDown is not read
Health == IF shuttingDown THEN "unavailable" ELSE "healthy"

ReadShuttingDown ==
  /\ ~Gone /\ probe = "sawReady"
  /\ Probe(Health)
  /\ UNCHANGED budget

Answer ==
  /\ ~Gone /\ probe \in {"healthy", "unavailable"}
  /\ Probe("idle")
  /\ UNCHANGED budget

-----------------------------------------------------------------------------
(* SIGHUP.                                                                 *)

HupStep(from, to) == ~Gone /\ hup = from /\ hup' = to

HupUnchanged == UNCHANGED <<mainVars, webVars, generation, probe, snapshotVars>>

Notify ==
  /\ HupStep("started", "listening")
  /\ UNCHANGED <<budget, reopens, reopenFailed, files, pending, notified>> /\ HupUnchanged

TakeSignal ==
  /\ HupStep("listening", "openMain")
  /\ pending /\ pending' = FALSE
  /\ reopens' = reopens + 1
  /\ UNCHANGED <<budget, reopenFailed, files, notified>> /\ HupUnchanged

OpenMain ==
  /\ HupStep("openMain", "openAlert")
  /\ opened' = [opened EXCEPT !["main"] = Handle("main", reopens)]
  /\ open' = open \cup {opened'["main"]}
  /\ UNCHANGED <<budget, reopens, reopenFailed, output, pending, notified>> /\ HupUnchanged

\* The error is logged and the loop goes on.
AfterReopenError == "listening"

OpenMainFails ==
  /\ HupStep("openMain", AfterReopenError)
  /\ Spend("failures")
  /\ reopenFailed' = TRUE
  /\ UNCHANGED <<reopens, files, pending, notified>> /\ HupUnchanged

OpenAlert ==
  /\ HupStep("openAlert", "setMain")
  /\ opened' = [opened EXCEPT !["alert"] = Handle("alert", reopens)]
  /\ open' = open \cup {opened'["alert"]}
  /\ UNCHANGED <<budget, reopens, reopenFailed, output, pending, notified>> /\ HupUnchanged

OpenAlertFails ==
  /\ HupStep("openAlert", AfterReopenError)
  /\ open' = open \ {opened["main"]}
  /\ Spend("failures")
  /\ reopenFailed' = TRUE
  /\ UNCHANGED <<reopens, output, opened, pending, notified>> /\ HupUnchanged

SetOutput(log, from, to) ==
  /\ HupStep(from, to)
  /\ output' = [output EXCEPT ![log] = opened[log]]
  /\ UNCHANGED <<budget, reopens, reopenFailed, opened, open, pending, notified>> /\ HupUnchanged

\* oldLog and oldAlert.
ReplacedOfThisCall == {h \in open : h.id = reopens}      \* fault: the new ones
Replaced == {h \in open : h.id < reopens}

CloseOld ==
  /\ HupStep("closeOld", "listening")
  /\ open' = open \ Replaced
  /\ UNCHANGED <<budget, reopens, reopenFailed, output, opened, pending, notified>> /\ HupUnchanged

\* ctx.Done() is taken before a pending signal, and signal.Stop runs.
HupReturns ==
  /\ HupStep("listening", "stopped")
  /\ cancelled
  /\ pending' = FALSE
  /\ UNCHANGED <<budget, reopens, reopenFailed, files, notified>> /\ HupUnchanged

Handled == hup \notin {"none", "started", "stopped"}

-----------------------------------------------------------------------------
(* The environment.                                                        *)

Cancel ==
  /\ ~Gone /\ ~cancelled /\ cancelled' = TRUE
  /\ UNCHANGED <<main, pidFile, snapshotting, webVars, hupVars, env, probe, budget, snapshotVars>>

\* logrotate renames a log and creates a new file.
Rotate(log) ==
  /\ generation[log] < budget.rotations
  /\ generation' = [generation EXCEPT ![log] = @ + 1]
  /\ UNCHANGED <<mainVars, webVars, hupVars, pending, notified, probe, budget, snapshotVars>>

ReceivedOrLost == hup = "listening"          \* fault: an unbuffered channel
Received == TRUE            \* sigs holds one signal, the next ones merge with it

\* Then it sends SIGHUP to the process of the pid file.  While signal.Notify is not
\* in force SIGHUP ends the process.
SendHup ==
  /\ ~Gone /\ pidFile
  /\ Spend("signals")
  /\ IF Handled
     THEN /\ pending' = (pending \/ Received)
          /\ notified' = generation
          /\ reopenFailed' = FALSE
          /\ UNCHANGED main
     ELSE main' = "killed" /\ UNCHANGED <<pending, notified, reopenFailed>>
  /\ UNCHANGED <<pidFile, cancelled, snapshotting, webVars, hup, reopens, files,
                 generation, probe, snapshotVars>>

MainStep == \/ WritePid \/ OpenLogs \/ StartupFails \/ Load \/ MainSnapshots
            \/ StartGoroutines \/ StartWeb \/ BecomeReady \/ BeginShutdown
            \/ ClearReady \/ Drained \/ ShutdownWeb \/ Exit

HupSteps == \/ Notify \/ TakeSignal \/ OpenMain \/ OpenMainFails \/ OpenAlert
            \/ OpenAlertFails \/ SetOutput("main", "setMain", "setAlert")
            \/ SetOutput("alert", "setAlert", "closeOld") \/ CloseOld \/ HupReturns

Next == \/ MainStep \/ HupSteps
        \/ Snapshot \/ SnapshotterReturns
        \/ ListenerFails \/ NoteFailure \/ ReadReady \/ ReadShuttingDown \/ Answer
        \/ Cancel \/ (\E log \in Logs : Rotate(log)) \/ SendHup
        \/ (Gone /\ UNCHANGED vars)

Spec == Init /\ [][Next]_vars

\* Nothing is assumed of main and its clients; the goroutine of SIGHUP runs on.
FairSpec == Spec /\ WF_vars(HupSteps)

-----------------------------------------------------------------------------
(* Properties.                                                             *)

\* The type of the process; the pid file is there from before the logs are opened
\* until main returns.
TypeOK ==
  /\ {pidFile, cancelled, snapshotting, failureSeen, ready, shuttingDown, pending,
      reopenFailed, overlapped} \subseteq BOOLEAN
  /\ pidFile <=> main \notin {"boot", "exited"} \/ (main = "exited" /\ ~shuttingDown)
  /\ web \in {"off", "up", "failed"}
  /\ {path, tmp} \subseteq Inodes \cup {NoFile}
  /\ (tmp = NoFile /\ \E w \in Writers : ~Writing(w)) => Unused # {}
  /\ fd \in [Writers -> Inodes \cup {NoFile}]
  /\ \A w \in Writers : Writing(w) <=> fd[w] # NoFile

\* The loggers write to open files at every moment of a reopening, and when it is
\* over, failed or not, no other file is left open.
LogsStayOpen ==
  ~Gone /\ main \notin {"boot", "opening"} =>
    Outputs \subseteq open /\ (hup = "listening" => open = Outputs)

Rotations == UNION {1..b.rotations : b \in Budgets}

\* After the rotation of any log and its SIGHUP both logs are written to the new
\* files, however signals and reopenings overlap, unless a file could not be
\* opened or the process is on its way out.
LogsFollowRotation ==
  \A log \in Logs : \A g \in Rotations :
    notified[log] = g ~>
      output[log].generation >= g \/ reopenFailed \/ cancelled \/ Gone

\* /healthz says 200 only at a moment when main serves: after startup and before
\* shutdown has begun, although it reads two flags one after the other and main
\* and the web server's failure change them.
HealthyOnlyWhenServing ==
  [][probe' = "healthy" /\ probe # "healthy" => main = "serving"]_vars

\* The snapshot at its path can be read back at every moment, so also after a
\* crash, until the final snapshot meets one the snapshotter has not finished.
SnapshotReadable ==
  path # NoFile /\ content[path] # "intact" =>
    overlapped /\ main \in {"final", "closing", "exited", "killed"}
=============================================================================
