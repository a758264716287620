-------------------------- MODULE LifecycleProofs ---------------------------
(***************************************************************************)
(* What TLAPS proves of Lifecycle for every budget of the environment.     *)
(* The invariant has three parts over almost separate variables: where     *)
(* main is, the log files, and the snapshot file.                          *)
(***************************************************************************)
EXTENDS Lifecycle, Watchdog, TLAPS

\* Where main is says which flags are up and who runs.
Booting == {"boot", "opening", "loading", "snapshot", "starting", "web"}
Ending == {"stopping", "draining", "final", "closing"}

PhaseInv ==
  /\ main \in Booting \cup Ending \cup {"serving", "exited", "killed"}
  /\ {pidFile, cancelled, snapshotting, failureSeen, ready, shuttingDown, pending,
      reopenFailed} \subseteq BOOLEAN
  /\ web \in {"off", "up", "failed"}
  /\ pidFile <=> main \notin {"boot", "exited"} \/ (main = "exited" /\ ~shuttingDown)
  /\ main \in Booting => ~ready /\ ~shuttingDown /\ probe # "sawReady"
  /\ main \in Ending => shuttingDown
  /\ shuttingDown => main \in Ending \cup {"exited", "killed"}
  /\ hup = "stopped" => cancelled

\* The handles of a reopening are newer than the ones in use when it began.
FilesInv ==
  /\ reopens \in Nat
  /\ generation \in [Logs -> Nat]
  /\ output \in [Logs -> [log : Logs, id : Nat, generation : Nat]]
  /\ opened \in [Logs -> [log : Logs, id : Nat, generation : Nat]]
  /\ hup = "none" => main \in {"boot", "opening"} \/ Gone
  /\ hup # "none" =>
       /\ Outputs \subseteq open
       /\ \A h \in open : h.id <= reopens
  /\ hup \in {"started", "listening", "openMain", "stopped"} => open = Outputs
  /\ hup \in {"openMain", "openAlert", "setMain"} =>
       \A log \in Logs : output[log].id < reopens
  /\ hup = "openAlert" =>
       opened["main"].id = reopens /\ open = Outputs \cup {opened["main"]}
  /\ hup \in {"setMain", "setAlert", "closeOld"} =>
       /\ \A log \in Logs : opened[log].id = reopens /\ opened[log] \in open
       /\ \A h \in open : h.id < reopens \/ \E log \in Logs : h = opened[log]
  /\ hup \in {"setAlert", "closeOld"} => output["main"] = opened["main"]
  /\ hup = "closeOld" => output["alert"] = opened["alert"]

\* One writer at a time works on an inode that is not the snapshot in place.
FileType ==
  /\ overlapped \in BOOLEAN
  /\ {path, tmp} \subseteq Inodes \cup {NoFile}
  /\ content \in [Inodes -> {"none", "empty", "intact", "torn"}]
  /\ writer \in [Writers -> {"idle", "opened", "filled"}]
  /\ fd \in [Writers -> Inodes \cup {NoFile}]
  /\ \A w \in Writers : Writing(w) <=> fd[w] # NoFile

Tidy ==
  /\ path # NoFile => path # tmp /\ content[path] = "intact"
  /\ \A w \in Writers : Writing(w) => fd[w] = tmp
  /\ \A w \in Writers : writer[w] = "opened" => content[fd[w]] = "empty"
  /\ \A w \in Writers : writer[w] = "filled" => content[fd[w]] = "intact"
  /\ \A v, w \in Writers : Writing(v) /\ Writing(w) => v = w

WritersInv ==
  /\ Writing("snapshotter") => snapshotting
  /\ main \in {"boot", "opening", "loading", "snapshot"} => ~snapshotting
  /\ Writing("main") => main \in {"snapshot", "final", "killed"}
  /\ overlapped => main \in {"final", "closing", "exited", "killed"}

SnapshotInv == FileType /\ WritersInv /\ (overlapped \/ Tidy)

IInv == PhaseInv /\ FilesInv /\ SnapshotInv

USE WriterAssumption

-----------------------------------------------------------------------------
LEMMA InitIInv == Init => IInv
<1> SUFFICES ASSUME Init PROVE IInv
  OBVIOUS
<1>1. PhaseInv
  BY DEF Init, PhaseInv, Booting, Ending
<1>2. FilesInv
  BY DEF Init, FilesInv, Handle, Logs
<1>3. FileType /\ Tidy
  <2>1. PICK p \in {"none", "intact"}, t \in {"none", "torn"} :
          /\ content = [i \in Inodes |-> IF i = 1 THEN p ELSE IF i = 2 THEN t ELSE "none"]
          /\ path = IF p = "none" THEN NoFile ELSE 1
          /\ tmp = IF t = "none" THEN NoFile ELSE 2
    BY DEF Init, SnapshotInit
  <2>2. /\ writer = [w \in Writers |-> "idle"]
        /\ fd = [w \in Writers |-> NoFile]
        /\ overlapped = FALSE
    BY DEF Init, SnapshotInit
  <2>3. FileType
    <3>1. overlapped \in BOOLEAN /\ \A w \in Writers : Writing(w) <=> fd[w] # NoFile
      BY <2>2 DEF Writing
    <3>2. /\ {path, tmp} \subseteq Inodes \cup {NoFile}
          /\ content \in [Inodes -> {"none", "empty", "intact", "torn"}]
      BY <2>1 DEF Inodes, NoFile
    <3>3. /\ writer \in [Writers -> {"idle", "opened", "filled"}]
          /\ fd \in [Writers -> Inodes \cup {NoFile}]
      BY <2>2
    <3>4. QED BY <3>1, <3>2, <3>3 DEF FileType
  <2>4. Tidy
    BY <2>1, <2>2 DEF Tidy, Writing, Inodes, NoFile
  <2>5. QED BY <2>3, <2>4
<1>4. WritersInv
  BY DEF Init, SnapshotInit, WritersInv, Writing
<1>5. QED BY <1>1, <1>2, <1>3, <1>4 DEF IInv, SnapshotInv

-----------------------------------------------------------------------------
(* Where main is.                                                          *)

LEMMA PhaseMain == PhaseInv /\ MainStep => PhaseInv'
<1> SUFFICES ASSUME PhaseInv, MainStep PROVE PhaseInv'
  OBVIOUS
<1> USE DEF PhaseInv, Booting, Ending, Proceed, Gone, webVars, hupVars, env
<1>1. CASE WritePid
  BY <1>1 DEF WritePid
<1>2. CASE OpenLogs
  BY <1>2 DEF OpenLogs
<1>3. CASE StartupFails
  BY <1>3 DEF StartupFails
<1>4. CASE Load
  BY <1>4 DEF Load
<1>5. CASE MainSnapshots
  BY <1>5 DEF MainSnapshots, mainVars
<1>6. CASE StartGoroutines
  BY <1>6 DEF StartGoroutines
<1>7. CASE StartWeb
  BY <1>7 DEF StartWeb
<1>8. CASE BecomeReady
  BY <1>8 DEF BecomeReady
<1>9. CASE BeginShutdown
  BY <1>9 DEF BeginShutdown
<1>10. CASE ClearReady
  BY <1>10 DEF ClearReady
<1>11. CASE Drained
  BY <1>11 DEF Drained
<1>12. CASE ShutdownWeb
  BY <1>12 DEF ShutdownWeb
<1>13. CASE Exit
  BY <1>13 DEF Exit
<1>14. QED BY <1>1, <1>2, <1>3, <1>4, <1>5, <1>6, <1>7, <1>8, <1>9, <1>10, <1>11, <1>12,
              <1>13 DEF MainStep

LEMMA PhaseHup == PhaseInv /\ HupSteps => PhaseInv'
<1> SUFFICES ASSUME PhaseInv, HupSteps PROVE PhaseInv'
  OBVIOUS
<1>1. /\ UNCHANGED <<mainVars, webVars, probe>>
      /\ pending' \in BOOLEAN /\ reopenFailed' \in BOOLEAN
      /\ hup' = "stopped" => cancelled
  BY DEF PhaseInv, HupSteps, Notify, TakeSignal, OpenMain, OpenMainFails, OpenAlert,
         OpenAlertFails, SetOutput, CloseOld, HupReturns, HupStep, HupUnchanged,
         AfterReopenError
<1>2. QED BY <1>1 DEF PhaseInv, mainVars, webVars

LEMMA PhaseOthers ==
  ASSUME PhaseInv,
         \/ Snapshot \/ SnapshotterReturns \/ ListenerFails \/ NoteFailure \/ ReadReady
         \/ ReadShuttingDown \/ Answer \/ Cancel \/ SendHup \/ UNCHANGED vars
         \/ \E log \in Logs : Rotate(log)
  PROVE  PhaseInv'
<1> USE DEF PhaseInv, Booting, Ending, Gone, mainVars, webVars, hupVars, env
<1>1. CASE Snapshot \/ \E log \in Logs : Rotate(log)
  BY <1>1 DEF Snapshot, Rotate
<1>8. CASE SnapshotterReturns
  BY <1>8 DEF SnapshotterReturns
<1>9. CASE Cancel
  BY <1>9 DEF Cancel
<1>2. CASE ListenerFails
  BY <1>2 DEF ListenerFails
<1>7. CASE NoteFailure
  BY <1>7 DEF NoteFailure
<1>3. CASE ReadReady \/ ReadShuttingDown \/ Answer
  BY <1>3 DEF ReadReady, ReadShuttingDown, Answer, Probe, Health
<1>4. CASE SendHup
  BY <1>4 DEF SendHup, Handled, Received
<1>5. CASE UNCHANGED vars
  BY <1>5 DEF vars
<1>6. QED BY <1>1, <1>2, <1>3, <1>4, <1>5, <1>7, <1>8, <1>9

-----------------------------------------------------------------------------
(* The log files.                                                          *)

LEMMA FilesHup == FilesInv /\ HupSteps => FilesInv'
<1> SUFFICES ASSUME FilesInv, HupSteps PROVE FilesInv'
  OBVIOUS
<1> USE DEF FilesInv, Outputs, Logs, files, HupStep, HupUnchanged, mainVars, Gone
<1>1. CASE Notify
  BY <1>1 DEF Notify
<1>2. CASE TakeSignal
  BY <1>2 DEF TakeSignal
<1>3. CASE OpenMain
  BY <1>3 DEF OpenMain, Handle
<1>4. CASE OpenMainFails
  BY <1>4 DEF OpenMainFails, AfterReopenError
<1>5. CASE OpenAlert
  BY <1>5 DEF OpenAlert, Handle
<1>6. CASE OpenAlertFails
  BY <1>6 DEF OpenAlertFails, AfterReopenError
<1>7. CASE SetOutput("main", "setMain", "setAlert")
  BY <1>7 DEF SetOutput
<1>8. CASE SetOutput("alert", "setAlert", "closeOld")
  BY <1>8 DEF SetOutput
<1>9. CASE CloseOld
  BY <1>9 DEF CloseOld, Replaced
<1>10. CASE HupReturns
  BY <1>10 DEF HupReturns
<1>11. QED BY <1>1, <1>2, <1>3, <1>4, <1>5, <1>6, <1>7, <1>8, <1>9, <1>10 DEF HupSteps

\* Everybody else leaves the handles alone; main opens the first ones.
LEMMA FilesOthers ==
  ASSUME FilesInv, Next, ~HupSteps
  PROVE  FilesInv'
<1>1. CASE OpenLogs
  BY <1>1 DEF OpenLogs, FilesInv, Handle, Outputs, Logs, Proceed, Gone, env
<1>2. CASE \E log \in Logs : Rotate(log)
  BY <1>2 DEF Rotate, FilesInv, Outputs, mainVars, hupVars, files, Gone
<1>3. CASE MainStep /\ ~OpenLogs
  <2>1. UNCHANGED <<hupVars, generation>>
    BY <1>3 DEF MainStep, WritePid, StartupFails, Load, MainSnapshots, StartGoroutines,
                StartWeb, BecomeReady, BeginShutdown, ClearReady, Drained, ShutdownWeb,
                Exit, env
  <2>2. main \in {"boot", "opening"} => main' \in {"opening", "exited"}
    BY <1>3 DEF MainStep, WritePid, StartupFails, Load, MainSnapshots, StartGoroutines,
                StartWeb, BecomeReady, BeginShutdown, ClearReady, Drained, ShutdownWeb,
                Exit, Proceed, mainVars
  <2>3. Gone => main' = main
    BY <1>3 DEF MainStep, WritePid, StartupFails, Load, MainSnapshots, StartGoroutines,
                StartWeb, BecomeReady, BeginShutdown, ClearReady, Drained, ShutdownWeb,
                Exit, Proceed, mainVars, Gone
  <2>4. QED BY <2>1, <2>2, <2>3 DEF FilesInv, Outputs, hupVars, files, Gone
<1>4. CASE SendHup
  BY <1>4 DEF SendHup, FilesInv, Outputs, files, Gone, Handled
<1>5. CASE \/ Snapshot \/ SnapshotterReturns \/ ListenerFails \/ NoteFailure \/ ReadReady
           \/ ReadShuttingDown \/ Answer \/ Cancel \/ UNCHANGED vars
  <2>1. UNCHANGED <<main, hupVars, generation>>
    BY <1>5 DEF Snapshot, SnapshotterReturns, ListenerFails, NoteFailure, ReadReady,
                ReadShuttingDown, Answer, Probe, Cancel, vars, mainVars, env
  <2>2. QED BY <2>1 DEF FilesInv, Outputs, hupVars, files, Gone
<1>6. QED BY <1>1, <1>2, <1>3, <1>4, <1>5 DEF Next

-----------------------------------------------------------------------------
(* The snapshot file.                                                      *)

\* Somebody who is not at work finds a free inode.
LEMMA FreeInode ==
  ASSUME FileType, NEW w \in Writers, writer[w] = "idle", tmp = NoFile
  PROVE  Unused # {}
BY DEF FileType, Writing, Unused, Inodes, NoFile

LEMMA OpenKeeps ==
  ASSUME FileType, NEW w \in Writers, Open(w)
  PROVE  /\ FileType'
         /\ overlapped' <=> overlapped \/ \E v \in Writers : Writing(v)
         /\ Tidy /\ ~overlapped' => Tidy'
         /\ \A v \in Writers : v # w => writer'[v] = writer[v]
<1> DEFINE i == IF tmp # NoFile THEN tmp ELSE CHOOSE n \in Unused : TRUE
<1>1. tmp = NoFile => i \in Unused
  BY FreeInode DEF Open
<1>2. i \in Inodes
  BY <1>1 DEF FileType, Unused, NoFile
<1>3. i # NoFile /\ (Tidy => i # path)
  BY <1>1, <1>2 DEF Unused, Tidy, Inodes, NoFile
<1>4. /\ writer[w] = "idle" /\ tmp' = i /\ path' = path
      /\ content' = [content EXCEPT ![i] = "empty"]
      /\ fd' = [fd EXCEPT ![w] = i]
      /\ writer' = [writer EXCEPT ![w] = "opened"]
      /\ overlapped' = (overlapped \/ \E v \in Writers : Writing(v))
  BY DEF Open
<1> HIDE DEF i
<1>5. FileType'
  BY <1>2, <1>3, <1>4 DEF FileType, Writing
<1>6. Tidy /\ ~overlapped' => Tidy'
  BY <1>2, <1>3, <1>4 DEF FileType, Tidy, Writing
<1>7. QED BY <1>4, <1>5, <1>6 DEF FileType

LEMMA SnapshottingKeeps ==
  ASSUME FileType, NEW w \in Writers, Snapshotting(w)
  PROVE  /\ FileType' /\ overlapped' = overlapped
         /\ Tidy => Tidy'
         /\ \A v \in Writers : Writing(v)' => Writing(v)
<1>1. CASE Fill(w)
  <2>1. PICK c \in Written(fd[w]) : content' = [content EXCEPT ![fd[w]] = c]
    BY <1>1 DEF Fill
  <2>2. c \in {"intact", "torn"} /\ (content[fd[w]] = "empty" => c = "intact")
    BY <2>1 DEF Written
  <2>3. /\ writer[w] = "opened" /\ writer' = [writer EXCEPT ![w] = "filled"]
        /\ UNCHANGED <<path, tmp, fd, overlapped>>
    BY <1>1 DEF Fill
  <2>4. FileType'
    BY <2>1, <2>2, <2>3 DEF FileType, Writing
  <2>5. Tidy => Tidy'
    BY <2>1, <2>2, <2>3 DEF FileType, Tidy, Writing
  <2>6. QED BY <2>3, <2>4, <2>5 DEF FileType, Writing
<1>2. CASE FillFails(w)
  <2>1. FileType'
    BY <1>2 DEF FillFails, AfterError, FileType, Writing, NoFile
  <2>2. Tidy => Tidy'
    BY <1>2 DEF FillFails, AfterError, FileType, Tidy, Writing, NoFile
  <2>3. QED BY <1>2, <2>1, <2>2 DEF FillFails, AfterError, FileType, Writing
<1>3. CASE Rename(w)
  <2>1. FileType'
    BY <1>3 DEF Rename, FileType, Writing, NoFile
  <2>2. Tidy => Tidy'
    BY <1>3 DEF Rename, FileType, Tidy, Writing, NoFile, Unused
  <2>3. QED BY <1>3, <2>1, <2>2 DEF Rename, FileType, Writing
<1>4. QED BY <1>1, <1>2, <1>3 DEF Snapshotting

\* Before both writers are at work there is no snapshotter, or main waits.
LEMMA SnapshotMain == SnapshotInv /\ MainStep => SnapshotInv'
<1> SUFFICES ASSUME SnapshotInv, MainStep PROVE SnapshotInv'
  OBVIOUS
<1>1. ASSUME NEW from, NEW to, Proceed(from, to), Open("main") \/ UNCHANGED snapshotVars,
             snapshotting' = snapshotting,
             <<from, to>> \in {<<"loading", "snapshot">>, <<"draining", "final">>}
      PROVE  SnapshotInv'
  <2>1. CASE Open("main")
    <3>1. /\ FileType'
          /\ overlapped' <=> overlapped \/ \E v \in Writers : Writing(v)
          /\ Tidy /\ ~overlapped' => Tidy'
          /\ \A v \in Writers : v # "main" => writer'[v] = writer[v]
      BY <2>1, OpenKeeps DEF SnapshotInv
    <3>2. WritersInv'
      BY <1>1, <3>1 DEF SnapshotInv, WritersInv, Writing, Proceed, Gone
    <3>3. QED BY <3>1, <3>2 DEF SnapshotInv
  <2>2. CASE UNCHANGED snapshotVars
    BY <1>1, <2>2 DEF SnapshotInv, FileType, WritersInv, Tidy, Writing, snapshotVars,
                      Proceed, Gone
  <2>3. QED BY <1>1, <2>1, <2>2
<1>2. CASE Load
  BY <1>1, <1>2 DEF Load
<1>3. CASE Drained
  BY <1>1, <1>3 DEF Drained
<1>4. CASE MainSnapshots
  <2>1. PICK w \in {"main"} : Snapshotting(w)
    BY <1>4 DEF MainSnapshots
  <2>2. /\ FileType' /\ overlapped' = overlapped /\ (Tidy => Tidy')
        /\ \A v \in Writers : Writing(v)' => Writing(v)
    BY <2>1, SnapshottingKeeps DEF SnapshotInv
  <2>3. WritersInv'
    BY <1>4, <2>2 DEF MainSnapshots, SnapshotInv, WritersInv, mainVars
  <2>4. QED BY <2>2, <2>3 DEF SnapshotInv
<1>5. CASE StartGoroutines \/ ShutdownWeb
  BY <1>5 DEF StartGoroutines, ShutdownWeb, Proceed, Gone, SnapshotInv, FileType, WritersInv,
              Tidy, Writing, snapshotVars
<1>6. CASE \/ WritePid \/ OpenLogs \/ StartupFails \/ StartWeb \/ BecomeReady
           \/ BeginShutdown \/ ClearReady \/ Exit
  <2>1. UNCHANGED <<snapshotting, snapshotVars>>
    BY <1>6 DEF WritePid, OpenLogs, StartupFails, StartWeb, BecomeReady, BeginShutdown,
                ClearReady, Exit
  <2>2. \/ main = "boot" /\ main' = "opening"
        \/ main \in {"opening", "loading"} /\ main' \in {"loading", "exited"}
        \/ main = "starting" /\ main' = "web"
        \/ main = "web" /\ main' = "serving"
        \/ main = "serving" /\ main' = "stopping"
        \/ main = "stopping" /\ main' = "draining"
        \/ main = "closing" /\ main' = "exited"
    BY <1>6 DEF WritePid, OpenLogs, StartupFails, StartWeb, BecomeReady, BeginShutdown,
                ClearReady, Exit, Proceed
  <2>3. QED BY <2>1, <2>2 DEF SnapshotInv, FileType, WritersInv, Tidy, Writing, snapshotVars
<1>7. QED BY <1>2, <1>3, <1>4, <1>5, <1>6 DEF MainStep

LEMMA SnapshotSnapshotter == SnapshotInv /\ (Snapshot \/ SnapshotterReturns) => SnapshotInv'
<1> SUFFICES ASSUME SnapshotInv, Snapshot \/ SnapshotterReturns PROVE SnapshotInv'
  OBVIOUS
<1>1. CASE Snapshot /\ Open("snapshotter")
  <2>1. /\ FileType'
        /\ overlapped' <=> overlapped \/ \E v \in Writers : Writing(v)
        /\ Tidy /\ ~overlapped' => Tidy'
        /\ \A v \in Writers : v # "snapshotter" => writer'[v] = writer[v]
    BY <1>1, OpenKeeps DEF SnapshotInv
  <2>2. ~Writing("snapshotter")
    BY <1>1 DEF Open, Writing
  <2>3. WritersInv'
    BY <1>1, <2>1, <2>2 DEF Snapshot, SnapshotInv, WritersInv, Writing, Gone, mainVars
  <2>4. QED BY <2>1, <2>3 DEF SnapshotInv
<1>2. CASE Snapshot /\ Snapshotting("snapshotter")
  <2>1. /\ FileType' /\ overlapped' = overlapped /\ (Tidy => Tidy')
        /\ \A v \in Writers : Writing(v)' => Writing(v)
    BY <1>2, SnapshottingKeeps DEF SnapshotInv
  <2>2. WritersInv'
    BY <1>2, <2>1 DEF Snapshot, SnapshotInv, WritersInv, mainVars
  <2>3. QED BY <2>1, <2>2 DEF SnapshotInv
<1>3. CASE SnapshotterReturns
  BY <1>3 DEF SnapshotterReturns, SnapshotInv, FileType, WritersInv, Tidy, Writing, snapshotVars
<1>4. QED BY <1>1, <1>2, <1>3 DEF Snapshot

LEMMA SnapshotOthers ==
  ASSUME SnapshotInv, Next, ~MainStep, ~(Snapshot \/ SnapshotterReturns)
  PROVE  SnapshotInv'
<1>1. UNCHANGED <<snapshotting, snapshotVars>>
  BY DEF Next, HupSteps, Notify, TakeSignal, OpenMain, OpenMainFails, OpenAlert,
         OpenAlertFails, SetOutput, CloseOld, HupReturns, HupUnchanged, ListenerFails,
         NoteFailure, ReadReady, ReadShuttingDown, Answer, Probe, Cancel, Rotate, SendHup,
         vars, mainVars
<1>2. main' = main \/ (main' = "killed" /\ ~Gone)
  BY DEF Next, HupSteps, Notify, TakeSignal, OpenMain, OpenMainFails, OpenAlert,
         OpenAlertFails, SetOutput, CloseOld, HupReturns, HupUnchanged, ListenerFails,
         NoteFailure, ReadReady, ReadShuttingDown, Answer, Probe, Cancel, Rotate, SendHup,
         vars, mainVars
<1>3. QED BY <1>1, <1>2 DEF SnapshotInv, FileType, WritersInv, Tidy, Writing, snapshotVars, Gone

LEMMA NextIInv == IInv /\ [Next]_vars => IInv'
<1> SUFFICES ASSUME IInv, [Next]_vars PROVE IInv'
  OBVIOUS
<1>1. CASE UNCHANGED vars
  BY <1>1, PhaseOthers DEF IInv, FilesInv, SnapshotInv, FileType, WritersInv, Tidy, Writing,
     vars, hupVars, files, Outputs, mainVars, env, Gone, snapshotVars
<1>2. CASE Next
  <2>1. PhaseInv'
    BY <1>2, PhaseMain, PhaseHup, PhaseOthers DEF IInv, Next
  <2>2. FilesInv'
    BY <1>2, FilesHup, FilesOthers DEF IInv
  <2>3. SnapshotInv'
    BY <1>2, SnapshotMain, SnapshotSnapshotter, SnapshotOthers DEF IInv
  <2>4. QED BY <2>1, <2>2, <2>3 DEF IInv
<1>3. QED BY <1>1, <1>2

THEOREM Invariance == Spec => []IInv
BY InitIInv, NextIInv, PTL DEF Spec

-----------------------------------------------------------------------------
(* The results.                                                            *)

\* Every reachable state of the process is well typed; the pid file, by which
\* logrotate finds it, is there from before the logs are opened until main returns.
THEOREM TypeCorrect == Spec => []TypeOK
<1>1. ASSUME IInv PROVE TypeOK
  <2>1. \A w \in Writers : ~Writing(w) /\ tmp = NoFile => Unused # {}
    BY <1>1, FreeInode DEF IInv, SnapshotInv, FileType, Writing
  <2>2. QED BY <1>1, <2>1 DEF IInv, PhaseInv, FilesInv, SnapshotInv, FileType, TypeOK
<1>2. QED BY <1>1, Invariance, PTL

\* reopenLogFiles never leaves a logger with a closed file, nor a file open that no
\* logger uses.
THEOREM LogsAreOpen == Spec => []LogsStayOpen
<1>1. IInv => LogsStayOpen
  BY DEF IInv, FilesInv, LogsStayOpen, Gone
<1>2. QED BY <1>1, Invariance, PTL

\* A crash of the process at any step leaves a whole snapshot in place, or none, as
\* long as the final snapshot has not overlapped one of the snapshotter; when it
\* has, nothing is claimed.
THEOREM SnapshotIsWhole == Spec => []SnapshotReadable
<1>1. IInv => SnapshotReadable
  BY DEF IInv, SnapshotInv, WritersInv, Tidy, SnapshotReadable
<1>2. QED BY <1>1, Invariance, PTL

\* healthHandler answers 200 only at a moment when main serves.
THEOREM HealthIsTrue == Spec => HealthyOnlyWhenServing
<1>1. ASSUME IInv, [Next]_vars, probe' = "healthy", probe # "healthy"
      PROVE  main = "serving"
  <2>1. ReadShuttingDown
    BY <1>1 DEF Next, MainStep, WritePid, OpenLogs, StartupFails, Load, MainSnapshots,
       StartGoroutines, StartWeb, BecomeReady, BeginShutdown, ClearReady, Drained,
       ShutdownWeb, Exit, Proceed, HupSteps, Notify, TakeSignal, OpenMain, OpenMainFails,
       OpenAlert, OpenAlertFails, SetOutput, CloseOld, HupReturns, HupUnchanged, Snapshot,
       SnapshotterReturns, ListenerFails, NoteFailure, ReadReady, Answer,
       Probe, Cancel, Rotate, SendHup, vars, mainVars
  <2>2. ~Gone /\ probe = "sawReady" /\ ~shuttingDown
    BY <1>1, <2>1 DEF ReadShuttingDown, Probe, Health
  <2>3. main \in Booting \cup Ending \cup {"serving"}
    BY <1>1, <2>2 DEF IInv, PhaseInv, Gone
  <2>4. QED BY <1>1, <2>2, <2>3 DEF IInv, PhaseInv
<1>2. IInv /\ [Next]_vars =>
        [probe' = "healthy" /\ probe # "healthy" => main = "serving"]_vars
  BY <1>1
<1>3. QED BY <1>2, Invariance, PTL DEF Spec, HealthyOnlyWhenServing

-----------------------------------------------------------------------------
(***************************************************************************)
(* The file watchdog (Watchdog), for every set of replicas, threshold and  *)
(* bound.  Its names begin with Watchdog where Lifecycle has the plain     *)
(* ones.                                                                   *)
(***************************************************************************)
Notified(r) == told[r] = modified[r] \/ notificationFailures[r] > before[r]

\* The order of what a replica has seen: an alert is older than the threshold.
Ordered ==
  \A r \in Replicas :
    /\ modified[r] \in 1..now
    /\ before[r] <= notificationFailures[r]
    /\ attempt[r] = 0 \/ attempt[r] + ThresholdMinutes < now

\* The flag of an earlier outage outlives a write only until the next check.
FlagIsCurrent ==
  \A r \in Replicas :
    alerted[r] => \/ Notified(r)
                  \/ modified[r] = now
                  \/ modified[r] + 1 = now /\ r \in due
                  \/ blindAt[r] >= modified[r]

\* A notification under way is about this outage, or the file moved this minute.
SendsCurrent ==
  \A r \in sending : attempt[r] = modified[r] \/ modified[r] = now

\* Who alerted in this outage still has the flag, or is about to set it.
FlagKept ==
  \A r \in Replicas :
    attempt[r] = modified[r] /\ ~excused[r] => vip = r /\ (alerted[r] \/ r \in sending)

WatchdogInv == /\ WatchdogTypeOK /\ Ordered /\ FlagIsCurrent /\ SendsCurrent /\ FlagKept
        /\ OutageToldOrCounted

USE ThresholdAssumption, HolderAssumption

LEMMA WatchdogInitInv == WatchdogInit => WatchdogInv
BY DEF WatchdogInit, WatchdogInv, WatchdogTypeOK, Ordered, FlagIsCurrent, SendsCurrent, FlagKept,
       OutageToldOrCounted, Notified, Stale

-----------------------------------------------------------------------------
(* One step of the watchdog or of its environment keeps the types.         *)

LEMMA WatchdogTypeStep == WatchdogTypeOK /\ WatchdogNext => WatchdogTypeOK'
<1> SUFFICES ASSUME WatchdogTypeOK, WatchdogNext PROVE WatchdogTypeOK'
  OBVIOUS
<1> USE DEF WatchdogTypeOK, file, history, bounds
<1>1. CASE Tick
  BY <1>1 DEF Tick
<1>2. CASE Finished
  BY <1>2 DEF Finished, watchdogVars
<1>3. ASSUME NEW r \in Replicas, Watch(r) PROVE WatchdogTypeOK'
  <2>1. CASE CheckWithoutVIP(r)
    BY <2>1 DEF CheckWithoutVIP, Check, SetAlerted
  <2>2. CASE StatFails(r)
    BY <2>2 DEF StatFails, Check
  <2>3. CASE CheckFresh(r)
    BY <2>3 DEF CheckFresh, Check, SetAlerted, AfterFresh
  <2>4. CASE CheckAlerted(r)
    BY <2>4 DEF CheckAlerted, Check
  <2>5. CASE Alert(r)
    BY <2>5 DEF Alert, Check, Unalerted
  <2>6. CASE Sent(r)
    BY <2>6 DEF Sent, SetAlerted
  <2>7. CASE SendFails(r)
    BY <2>7 DEF SendFails, SetAlerted, AfterFailure, Counted
  <2>8. CASE VIPUnknown(r)
    BY <2>8 DEF VIPUnknown, Check, SetAlerted
  <2>9. QED BY <1>3, <2>1, <2>2, <2>3, <2>4, <2>5, <2>6, <2>7, <2>8 DEF Watch
<1>4. ASSUME NEW r \in Replicas, Write(r) PROVE WatchdogTypeOK'
  BY <1>4 DEF Write
<1>5. ASSUME NEW r \in Replicas, MoveVIP(r) PROVE WatchdogTypeOK'
  BY <1>5 DEF MoveVIP
<1>6. ASSUME NEW r \in Replicas, Restart(r) PROVE WatchdogTypeOK'
  BY <1>6 DEF Restart, SetAlerted
<1>7. QED BY <1>1, <1>2, <1>3, <1>4, <1>5, <1>6 DEF WatchdogNext

\* An action of a replica leaves what the others have seen as it is.
LEMMA WatchdogTickStep == WatchdogInv /\ Tick => WatchdogInv'
<1> SUFFICES ASSUME WatchdogInv, Tick PROVE WatchdogInv'
  OBVIOUS
<1>1. WatchdogTypeOK'
  BY WatchdogTypeStep DEF WatchdogInv, WatchdogNext
<1> USE DEF WatchdogInv, WatchdogTypeOK, Tick, file, history, bounds
<1>2. Ordered'
  BY DEF Ordered
<1>3. FlagIsCurrent'
  BY DEF Ordered, FlagIsCurrent, Notified
<1>4. SendsCurrent' /\ FlagKept'
  BY DEF SendsCurrent, FlagKept
<1>5. OutageToldOrCounted'
  BY DEF OutageToldOrCounted, Checked
<1>6. QED BY <1>1, <1>2, <1>3, <1>4, <1>5

LEMMA WatchdogWatchStep == ASSUME WatchdogInv, NEW r \in Replicas, Watch(r) PROVE WatchdogInv'
<1>1. WatchdogTypeOK'
  BY WatchdogTypeStep DEF WatchdogInv, WatchdogNext
<1> USE <1>1 DEF WatchdogInv, WatchdogTypeOK, Ordered, FlagIsCurrent, SendsCurrent, FlagKept,
             OutageToldOrCounted, Notified, Checked, Stale, Check, SetAlerted,
             file, history, bounds
<1>2. CASE CheckWithoutVIP(r)
  BY <1>2 DEF CheckWithoutVIP
<1>3. CASE StatFails(r)
  BY <1>3 DEF StatFails
<1>4. CASE CheckFresh(r)
  BY <1>4 DEF CheckFresh, AfterFresh
<1>5. CASE CheckAlerted(r)
  BY <1>5 DEF CheckAlerted
<1>6. CASE Alert(r)
  BY <1>6 DEF Alert, Unalerted
<1>7. CASE Sent(r)
  BY <1>7 DEF Sent
<1>8. CASE SendFails(r)
  BY <1>8 DEF SendFails, AfterFailure, Counted
<1>9. CASE VIPUnknown(r)
  BY <1>9 DEF VIPUnknown
<1>10. QED BY <1>2, <1>3, <1>4, <1>5, <1>6, <1>7, <1>8, <1>9 DEF Watch

LEMMA WatchdogEnvironmentStep ==
  ASSUME WatchdogInv, NEW r \in Replicas, Write(r) \/ MoveVIP(r) \/ Restart(r)
  PROVE  WatchdogInv'
<1>1. WatchdogTypeOK'
  BY WatchdogTypeStep DEF WatchdogInv, WatchdogNext
<1> USE <1>1 DEF WatchdogInv, WatchdogTypeOK, Ordered, FlagIsCurrent, SendsCurrent, FlagKept,
             OutageToldOrCounted, Notified, Checked, Stale, file, history, bounds
<1>2. CASE Write(r)
  BY <1>2 DEF Write
<1>3. CASE MoveVIP(r)
  BY <1>3 DEF MoveVIP
<1>4. CASE Restart(r)
  BY <1>4 DEF Restart, SetAlerted
<1>5. QED BY <1>2, <1>3, <1>4

LEMMA WatchdogNextInv == WatchdogInv /\ [WatchdogNext]_watchdogVars => WatchdogInv'
<1> SUFFICES ASSUME WatchdogInv, [WatchdogNext]_watchdogVars PROVE WatchdogInv'
  OBVIOUS
<1>1. CASE Tick
  BY <1>1, WatchdogTickStep
<1>2. CASE UNCHANGED watchdogVars
  BY <1>2 DEF watchdogVars, file, history, bounds, WatchdogInv, WatchdogTypeOK, Ordered,
              FlagIsCurrent, SendsCurrent, FlagKept, OutageToldOrCounted, Notified, Checked, Stale
<1>3. ASSUME NEW r \in Replicas, Watch(r) PROVE WatchdogInv'
  BY <1>3, WatchdogWatchStep
<1>4. ASSUME NEW r \in Replicas, Write(r) \/ MoveVIP(r) \/ Restart(r) PROVE WatchdogInv'
  BY <1>4, WatchdogEnvironmentStep
<1>5. QED BY <1>1, <1>2, <1>3, <1>4 DEF WatchdogNext, Finished

THEOREM WatchdogInvariance == WatchdogSpec => []WatchdogInv
BY WatchdogInitInv, WatchdogNextInv, PTL DEF WatchdogSpec

-----------------------------------------------------------------------------
(* The results.                                                            *)

\* Every reachable state of watchFileActivity on all replicas is well typed; the
\* flag is down while an alert is being sent.
THEOREM WatchdogTypeCorrect == WatchdogSpec => []WatchdogTypeOK
<1>1. WatchdogInv => WatchdogTypeOK
  BY DEF WatchdogInv
<1>2. QED BY <1>1, WatchdogInvariance, PTL

\* Once the holder of the VIP has looked at a silent file, its outage was told to
\* somebody or is counted in notificationFailures, whatever became of earlier
\* outages, sends, VIP moves and failed checks, unless stat failed as long as the
\* file moved.
THEOREM NoOutageHidden == WatchdogSpec => []OutageToldOrCounted
<1>1. WatchdogInv => OutageToldOrCounted
  BY DEF WatchdogInv
<1>2. QED BY <1>1, WatchdogInvariance, PTL

\* The alerted flag keeps a replica from alerting twice in an outage, unless it lost
\* the VIP, failed to test for it or was restarted in between.
THEOREM AlertsOnce == WatchdogSpec => AlertsOncePerOutage
<1>1. ASSUME WatchdogInv, [WatchdogNext]_watchdogVars, NEW r \in Replicas, r \in sending' \ sending
      PROVE  attempt[r] # modified[r] \/ excused[r]
  <2>1. PICK s \in Replicas : Alert(s)
    BY <1>1 DEF WatchdogNext, Tick, Finished, Watch, Write, MoveVIP, Restart, CheckWithoutVIP,
                VIPUnknown, StatFails, CheckFresh, CheckAlerted, Sent, SendFails, watchdogVars
  <2>2. s = r /\ ~alerted[r]
    BY <1>1, <2>1 DEF Alert, Unalerted
  <2>3. QED BY <1>1, <2>2 DEF WatchdogInv, FlagKept
<1>2. WatchdogInv /\ [WatchdogNext]_watchdogVars =>
        [\A r \in Replicas :
           r \in sending' \ sending => attempt[r] # modified[r] \/ excused[r]]_watchdogVars
  BY <1>1
<1>3. QED BY <1>2, WatchdogInvariance, PTL DEF WatchdogSpec, AlertsOncePerOutage
=============================================================================
