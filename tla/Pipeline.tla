------------------------------ MODULE Pipeline ------------------------------
(***************************************************************************)
(* The alert pipeline of clattermark (src/main.go, func main): one tailer  *)
(* goroutine per followed file, a bounded channel alertJobs, a pool of     *)
(* worker goroutines, and the shutdown sequence of the main goroutine.     *)
(*                                                                         *)
(* A file is a growing log: written[f] lines were appended to it since the *)
(* model began, and the inode now at its path starts after line base[f]    *)
(* (a rotation moves the path to an empty inode).  A tailer takes lines    *)
(* from an open handle; the n-th line it takes is the job <<f, n>>, so a   *)
(* line that is read twice is two jobs.                                    *)
(***************************************************************************)
EXTENDS Integers, Sequences, Functions

CONSTANTS Files,        \* cfg.MonFiles
          Workers,      \* the worker goroutines
          QueueSize,    \* capacity of alertJobs
          MaxLines,     \* bound: lines ever appended to one file
          MaxRotations, \* bound: rotations of one file
          MaxRestarts,  \* bound: tails that stop or fail to start, per file
          MaxTaken      \* bound: lines ever taken from one file

ASSUME WorkersAssumption == Workers # {}
ASSUME QueueSizeAssumption == QueueSize \in Nat \ {0}
ASSUME BoundsAssumption == /\ MaxLines \in Nat /\ MaxRotations \in Nat
                           /\ MaxRestarts \in Nat /\ MaxTaken \in Nat

NoJob == <<>>
Jobs == Files \X (1 .. MaxTaken)

VARIABLES
  written, base, rotations,             \* the log files (environment)
  tailer,                               \* program counter of each tailer
  nextOffset, offsetInitialized,        \* its local variables
  at, handle,                           \* the open tail: last line read, start of its inode
  restarts,
  hand,                                 \* line.Text received and not yet enqueued
  alertJobs, closed,                    \* the channel
  worker, job,                          \* each worker: program counter, line in checkLine
  cancelled,                            \* ctx.Done()
  main, didDrain, storeClosed,          \* the main goroutine
  taken, read, boot, processed, dropped \* history

fileVars == <<written, base, rotations>>
tailVars == <<nextOffset, offsetInitialized, at, handle, restarts>>
chanVars == <<alertJobs, closed>>
workVars == <<worker, job, processed>>
mainVars == <<main, didDrain, storeClosed>>
readVars == <<taken, read, boot>>
vars == <<written, base, rotations, tailer, nextOffset, offsetInitialized,
          at, handle, restarts, hand, alertJobs, closed, worker, job,
          cancelled, main, didDrain, storeClosed,
          taken, read, boot, processed, dropped>>

Init ==
  /\ written \in [Files -> {0, 1}]      \* a file may hold a line already
  /\ base = [f \in Files |-> 0]
  /\ rotations = [f \in Files |-> 0]
  /\ tailer = [f \in Files |-> "start"]
  /\ nextOffset = [f \in Files |-> 0]
  /\ offsetInitialized = [f \in Files |-> FALSE]
  /\ at = [f \in Files |-> 0]
  /\ handle = [f \in Files |-> 0]
  /\ restarts = [f \in Files |-> 0]
  /\ hand = [f \in Files |-> NoJob]
  /\ alertJobs = <<>>
  /\ closed = FALSE
  /\ worker = [w \in Workers |-> "idle"]
  /\ job = [w \in Workers |-> NoJob]
  /\ cancelled = FALSE
  /\ main = "running"
  /\ didDrain = FALSE
  /\ storeClosed = FALSE
  /\ taken = [f \in Files |-> 0]
  /\ read = [f \in Files |-> {}]
  /\ boot = [f \in Files |-> 0]
  /\ processed = {}
  /\ dropped = {}

Running == main # "exited"

-----------------------------------------------------------------------------
(* The log files: another program appends to them and rotates them.        *)

Append1(f) ==
  /\ written[f] < MaxLines
  /\ written' = [written EXCEPT ![f] = @ + 1]
  /\ UNCHANGED <<base, rotations, tailer, tailVars, hand, chanVars, workVars,
                 cancelled, mainVars, readVars, dropped>>

TailOpen(f) == tailer[f] \in {"following", "enqueue", "blocked"}

\* logrotate: the path now names an empty file.  An inode rotated away under
\* an open tail is read to its end before the file rotates again.
Rotate(f) ==
  /\ rotations[f] < MaxRotations
  /\ TailOpen(f) => handle[f] = base[f]
  /\ base' = [base EXCEPT ![f] = written[f]]
  /\ rotations' = [rotations EXCEPT ![f] = @ + 1]
  /\ UNCHANGED <<written, tailer, tailVars, hand, chanVars, workVars,
                 cancelled, mainVars, readVars, dropped>>

FileSize(f) == written[f] - base[f]

-----------------------------------------------------------------------------
(* A tailer goroutine.                                                     *)

GoTo(f, pc) == tailer' = [tailer EXCEPT ![f] = pc]

TailerExit(f) ==
  /\ tailer[f] \in {"start", "following", "sleeping"}
  /\ cancelled
  /\ GoTo(f, "exited")
  /\ UNCHANGED <<fileVars, tailVars, hand, chanVars, workVars, cancelled,
                 mainVars, readVars, dropped>>

OffsetAlwaysAtEnd(f) == FileSize(f)      \* fault: forgets nextOffset

\* os.Stat succeeds: the first time the tail begins at the end of the file,
\* later where it stopped, or at the start of a file that became shorter.
OffsetAfterStat(f) ==
  IF ~offsetInitialized[f] THEN FileSize(f)
  ELSE IF nextOffset[f] > FileSize(f) THEN 0 ELSE nextOffset[f]

Stat(f) ==
  /\ tailer[f] = "start"
  /\ ~cancelled
  /\ nextOffset' = [nextOffset EXCEPT ![f] = OffsetAfterStat(f)]
  /\ offsetInitialized' = [offsetInitialized EXCEPT ![f] = TRUE]
  /\ boot' = [boot EXCEPT ![f] = IF offsetInitialized[f] THEN @ ELSE written[f]]
  /\ GoTo(f, "open")
  /\ UNCHANGED <<fileVars, at, handle, restarts, hand, chanVars, workVars,
                 cancelled, mainVars, taken, read, dropped>>

\* os.Stat or tail.TailFile fails.
StartFails(f) ==
  /\ \/ tailer[f] = "start" /\ ~cancelled
     \/ tailer[f] = "open"
  /\ restarts[f] < MaxRestarts
  /\ restarts' = [restarts EXCEPT ![f] = @ + 1]
  /\ GoTo(f, "sleeping")
  /\ UNCHANGED <<fileVars, nextOffset, offsetInitialized, at, handle, hand,
                 chanVars, workVars, cancelled, mainVars, readVars, dropped>>

\* tail.TailFile opens the path and seeks to nextOffset.
TailFile(f) ==
  /\ tailer[f] = "open"
  /\ at' = [at EXCEPT ![f] = base[f] + nextOffset[f]]
  /\ handle' = [handle EXCEPT ![f] = base[f]]
  /\ GoTo(f, "following")
  /\ UNCHANGED <<fileVars, nextOffset, offsetInitialized, restarts, hand,
                 chanVars, workVars, cancelled, mainVars, readVars, dropped>>

\* The library reopens the path at the end of an inode rotated away, and
\* starts over in a file that is shorter than its position.
TailReopen(f) ==
  /\ TailOpen(f)
  /\ \/ handle[f] # base[f] /\ at[f] >= base[f]
     \/ at[f] > written[f]
  /\ at' = [at EXCEPT ![f] = base[f]]
  /\ handle' = [handle EXCEPT ![f] = base[f]]
  /\ UNCHANGED <<fileVars, tailer, nextOffset, offsetInitialized, restarts, hand,
                 chanVars, workVars, cancelled, mainVars, readVars, dropped>>

\* The last line of the inode the handle is open on.
EndOfHandle(f) == IF handle[f] = base[f] THEN written[f] ELSE base[f]

\* line, ok := <-t.Lines with a line.
ReceiveLine(f) ==
  /\ tailer[f] = "following"
  /\ at[f] < EndOfHandle(f)
  /\ taken[f] < MaxTaken
  /\ at' = [at EXCEPT ![f] = @ + 1]
  /\ read' = [read EXCEPT ![f] = @ \cup {at[f] + 1}]
  /\ taken' = [taken EXCEPT ![f] = @ + 1]
  /\ hand' = [hand EXCEPT ![f] = <<f, taken[f] + 1>>]
  /\ GoTo(f, "enqueue")
  /\ UNCHANGED <<fileVars, nextOffset, offsetInitialized, handle, restarts,
                 chanVars, workVars, cancelled, mainVars, boot, dropped>>

HasRoom == Len(alertJobs) < QueueSize

SendLineTwice(f) == alertJobs \o <<hand[f], hand[f]>>   \* fault
SendLineFirst(f) == <<hand[f]>> \o alertJobs            \* fault: overtakes

SendLine(f) == Append(alertJobs, hand[f])

\* alertJobs <- line.Text, in either select.
Enqueue(f) ==
  /\ tailer[f] \in {"enqueue", "blocked"}
  /\ HasRoom
  /\ alertJobs' = SendLine(f)
  /\ hand' = [hand EXCEPT ![f] = NoJob]
  /\ GoTo(f, "following")
  /\ UNCHANGED <<fileVars, tailVars, closed, workVars, cancelled, mainVars,
                 readVars, dropped>>

\* Fault: the saturated queue drops the line instead of blocking.
SaturateDrops(f) ==
  /\ tailer[f] = "enqueue"
  /\ ~HasRoom
  /\ ~cancelled
  /\ hand' = [hand EXCEPT ![f] = NoJob]
  /\ dropped' = dropped \cup {hand[f]}
  /\ GoTo(f, "following")
  /\ UNCHANGED <<fileVars, tailVars, chanVars, workVars, cancelled, mainVars,
                 readVars>>

\* The default case: neither ctx.Done() nor the channel is ready.
Saturate(f) ==
  /\ tailer[f] = "enqueue"
  /\ ~HasRoom
  /\ ~cancelled
  /\ GoTo(f, "blocked")
  /\ UNCHANGED <<fileVars, tailVars, hand, chanVars, workVars, cancelled,
                 mainVars, readVars, dropped>>

SendsWithoutDone(f) == tailer[f] = "enqueue"   \* fault: the second send ignores ctx

SelectsDone(f) == tailer[f] \in {"enqueue", "blocked"}

\* <-ctx.Done() in either select: the goroutine returns with the line.
GiveUpLine(f) ==
  /\ SelectsDone(f)
  /\ cancelled
  /\ hand' = [hand EXCEPT ![f] = NoJob]
  /\ dropped' = dropped \cup {hand[f]}
  /\ GoTo(f, "exited")
  /\ UNCHANGED <<fileVars, tailVars, chanVars, workVars, cancelled, mainVars,
                 readVars>>

\* What t.Tell() leaves in nextOffset after the library gave up: the position
\* in the inode it had open, the old value on an error, or 0 when the library
\* has dropped its file already.
OffsetAfterTell(f) == {at[f] - handle[f], nextOffset[f], 0}

\* t.Lines is closed (goto tailStopped): note the offset, report, sleep.
TailStopped(f) ==
  /\ tailer[f] = "following"
  /\ restarts[f] < MaxRestarts
  /\ restarts' = [restarts EXCEPT ![f] = @ + 1]
  /\ \E offset \in OffsetAfterTell(f) :
        nextOffset' = [nextOffset EXCEPT ![f] = offset]
  /\ GoTo(f, "sleeping")
  /\ UNCHANGED <<fileVars, offsetInitialized, at, handle, hand, chanVars, workVars,
                 cancelled, mainVars, readVars, dropped>>

\* sleepContext returns true.
Retry(f) ==
  /\ tailer[f] = "sleeping"
  /\ GoTo(f, "start")
  /\ UNCHANGED <<fileVars, tailVars, hand, chanVars, workVars, cancelled,
                 mainVars, readVars, dropped>>

Tailer(f) ==
  \/ TailerExit(f) \/ Stat(f) \/ StartFails(f) \/ TailFile(f) \/ TailReopen(f)
  \/ ReceiveLine(f) \/ Enqueue(f) \/ Saturate(f) \/ GiveUpLine(f)
  \/ TailStopped(f) \/ Retry(f)

-----------------------------------------------------------------------------
(* A worker goroutine: for line := range alertJobs { checkLine(line) }.    *)

Dequeue(w) ==
  /\ worker[w] = "idle"
  /\ alertJobs # <<>>
  /\ job' = [job EXCEPT ![w] = Head(alertJobs)]
  /\ alertJobs' = Tail(alertJobs)
  /\ worker' = [worker EXCEPT ![w] = "checking"]
  /\ UNCHANGED <<fileVars, tailer, tailVars, hand, closed, cancelled, mainVars,
                 readVars, processed, dropped>>

CheckDone(w) ==
  /\ worker[w] = "checking"
  /\ processed' = processed \cup {job[w]}
  /\ job' = [job EXCEPT ![w] = NoJob]
  /\ worker' = [worker EXCEPT ![w] = "idle"]
  /\ UNCHANGED <<fileVars, tailer, tailVars, hand, chanVars, cancelled, mainVars,
                 readVars, dropped>>

RangeEndsEarly == alertJobs = <<>>                 \* fault: leaves an empty channel

\* The range loop ends when the channel is closed and empty.
RangeEnds == closed /\ alertJobs = <<>>

WorkerExit(w) ==
  /\ worker[w] = "idle"
  /\ RangeEnds
  /\ worker' = [worker EXCEPT ![w] = "exited"]
  /\ UNCHANGED <<fileVars, tailer, tailVars, hand, chanVars, job, processed,
                 cancelled, mainVars, readVars, dropped>>

Worker(w) == Dequeue(w) \/ CheckDone(w) \/ WorkerExit(w)

-----------------------------------------------------------------------------
(* The main goroutine, from <-ctx.Done() to its return.                    *)

Signal ==
  /\ ~cancelled
  /\ cancelled' = TRUE
  /\ UNCHANGED <<fileVars, tailer, tailVars, hand, chanVars, workVars, mainVars,
                 readVars, dropped>>

SomeTailerExited == \E f \in Files : tailer[f] = "exited"   \* fault: WaitGroup count
TailersExited == \A f \in Files : tailer[f] = "exited"      \* tailWG
WorkersExited == \A w \in Workers : worker[w] = "exited"    \* workerWG

\* tailWG.Wait(); close(alertJobs)
CloseJobs ==
  /\ main = "running"
  /\ cancelled
  /\ TailersExited
  /\ closed' = TRUE
  /\ main' = "draining"
  /\ UNCHANGED <<fileVars, tailer, tailVars, hand, alertJobs, workVars, cancelled,
                 didDrain, storeClosed, readVars, dropped>>

\* case <-drained
Drained ==
  /\ main = "draining"
  /\ WorkersExited
  /\ didDrain' = TRUE
  /\ main' = "finishing"
  /\ UNCHANGED <<fileVars, tailer, tailVars, hand, chanVars, workVars, cancelled,
                 storeClosed, readVars, dropped>>

\* case <-time.After(drainTimeout)
DrainTimeout ==
  /\ main = "draining"
  /\ main' = "finishing"
  /\ UNCHANGED <<fileVars, tailer, tailVars, hand, chanVars, workVars, cancelled,
                 didDrain, storeClosed, readVars, dropped>>

StoreClosesAlways == TRUE      \* fault: Close() without the didDrain test
StoreCloses == didDrain

\* if didDrain { keyDBInst.Close() }, after the snapshot and the web server
CloseStore ==
  /\ main = "finishing"
  /\ storeClosed' = StoreCloses
  /\ main' = "returning"
  /\ UNCHANGED <<fileVars, tailer, tailVars, hand, chanVars, workVars, cancelled,
                 didDrain, readVars, dropped>>

Queued == Range(alertJobs)
InHand == {hand[f] : f \in {g \in Files : tailer[g] \in {"enqueue", "blocked"}}}
Checking == {job[w] : w \in {v \in Workers : worker[v] = "checking"}}

\* main returns: what the channel and the workers still hold dies with it.
Exit ==
  /\ main = "returning"
  /\ main' = "exited"
  /\ dropped' = dropped \cup Queued \cup Checking
  /\ UNCHANGED <<fileVars, tailer, tailVars, hand, chanVars, workVars, cancelled,
                 didDrain, storeClosed, readVars>>

Main == CloseJobs \/ Drained \/ DrainTimeout \/ CloseStore \/ Exit

Terminated == main = "exited" /\ UNCHANGED vars

Next ==
  \/ /\ Running
     /\ \/ \E f \in Files : Append1(f) \/ Rotate(f) \/ Tailer(f)
        \/ \E w \in Workers : Worker(w)
        \/ Signal
        \/ Main
  \/ Terminated

Spec == Init /\ [][Next]_vars

-----------------------------------------------------------------------------
(* Fairness.  The Go scheduler runs every ready goroutine; a select with   *)
(* several ready cases picks one at random, so a cancelled context is not  *)
(* passed over for ever; blocked senders of a channel are served in order. *)

TailerAdvances(f) == Stat(f) \/ TailFile(f) \/ Saturate(f) \/ Retry(f)
TailerStops(f) == TailerExit(f) \/ GiveUpLine(f)
WorkerAdvances(w) == Dequeue(w) \/ WorkerExit(w)

SchedulingFairness ==
  /\ \A f \in Files : /\ WF_vars(Running /\ TailerAdvances(f))
                      /\ SF_vars(Running /\ TailerStops(f))
                      /\ SF_vars(Running /\ Enqueue(f))
  /\ WF_vars(Running /\ Main)

\* checkLine returns: each of its requests has a timeout.
WorkerFairness ==
  \A w \in Workers : /\ WF_vars(Running /\ WorkerAdvances(w))
                     /\ WF_vars(Running /\ CheckDone(w))

FairSpec == Spec /\ SchedulingFairness /\ WorkerFairness

\* Workers that may hang in checkLine.
HungWorkersSpec == Spec /\ SchedulingFairness

-----------------------------------------------------------------------------
(* Properties.                                                             *)

FileTypes ==
  /\ written \in [Files -> Nat] /\ base \in [Files -> Nat]
  /\ rotations \in [Files -> Nat]

TailTypes ==
  /\ tailer \in [Files -> {"start", "open", "following", "enqueue", "blocked",
                           "sleeping", "exited"}]
  /\ nextOffset \in [Files -> Int] /\ offsetInitialized \in [Files -> BOOLEAN]
  /\ at \in [Files -> Int] /\ handle \in [Files -> Nat]
  /\ restarts \in [Files -> Nat]
  /\ hand \in [Files -> Jobs \cup {NoJob}]

WorkTypes ==
  /\ alertJobs \in Seq(Jobs) /\ Len(alertJobs) <= QueueSize
  /\ worker \in [Workers -> {"idle", "checking", "exited"}]
  /\ job \in [Workers -> Jobs \cup {NoJob}]
  /\ processed \subseteq Jobs /\ dropped \subseteq Jobs

MainTypes ==
  /\ cancelled \in BOOLEAN /\ closed \in BOOLEAN
  /\ main \in {"running", "draining", "finishing", "returning", "exited"}
  /\ didDrain \in BOOLEAN /\ storeClosed \in BOOLEAN

HistoryTypes ==
  /\ taken \in [Files -> 0 .. MaxTaken] /\ boot \in [Files -> Nat]
  /\ read \in [Files -> SUBSET Int]

\* The type of the pipeline's state; the channel never holds more than its
\* capacity.
TypeOK == FileTypes /\ TailTypes /\ WorkTypes /\ MainTypes /\ HistoryTypes

Taken == {j \in Jobs : j[2] <= taken[j[1]]}

\* Every line taken from a tail is in exactly one place: in its tailer's hand,
\* in alertJobs (once), with one worker, checked, or given up.  A send that is
\* lost on the way through the saturated select, a line enqueued twice or
\* checked by two workers breaks it.
LineAccounting ==
  /\ Taken = InHand \cup Queued \cup Checking \cup processed \cup dropped
  /\ InHand \cap (Queued \cup Checking \cup processed \cup dropped) = {}
  /\ Queued \cap (Checking \cup processed) = {}
  /\ Checking \cap processed = {}
  /\ processed \cap dropped = {}
  /\ Running => (Queued \cup Checking) \cap dropped = {}
  /\ \A i, k \in DOMAIN alertJobs : alertJobs[i] = alertJobs[k] => i = k
  /\ \A v, w \in Workers : worker[v] = "checking" /\ job[v] = job[w] => v = w

\* Lines of one file are started in the order they were taken: a waiting line
\* is later than every line of its file that is queued before it or that a
\* worker has begun.  The backpressure path may not overtake the queue.
StartedInOrder ==
  /\ \A i, k \in DOMAIN alertJobs :
        i < k /\ alertJobs[i][1] = alertJobs[k][1] => alertJobs[i][2] < alertJobs[k][2]
  /\ \A q \in Queued : \A j \in Checking \cup processed :
        j[1] = q[1] => j[2] < q[2]
  /\ \A h \in InHand : \A j \in Queued \cup Checking \cup processed :
        j[1] = h[1] => j[2] < h[2]

\* alertJobs is closed only when no tailer can send on it any more: a send on
\* a closed channel panics.
NoSendOnClosedChannel == closed => \A f \in Files : tailer[f] = "exited"

\* The store client is closed only after every worker has finished: a worker
\* still in checkLine uses it to reserve, record and release.
StoreClosedOnlyWhenDrained ==
  storeClosed => WorkersExited /\ alertJobs = <<>> /\ Checking = {}

\* Every line appended after the tail first began is taken, through any
\* number of stops and failed starts of the tail: the position of an open tail
\* of a file never rotated does not pass a line that was not taken.
NoLineSkipped ==
  \A f \in Files : TailOpen(f) /\ rotations[f] = 0 =>
     \A n \in 1 .. MaxLines : boot[f] < n /\ n <= at[f] => n \in read[f]

\* After SIGINT or SIGTERM the process exits, whatever tailers and workers are
\* doing, even when a worker never comes back from checkLine.
ShutdownCompletes == cancelled ~> main = "exited"

\* The pipeline keeps the promise of LineDelivery.
LD == INSTANCE LineDelivery WITH
        Lines <- Jobs, taken <- Taken, stopping <- cancelled

DeliversLines == LD!Spec

\* Every line taken is checked, or given up in shutdown.
EveryLineSettled == LD!EveryLineSettled
=============================================================================
