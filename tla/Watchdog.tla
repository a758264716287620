------------------------------ MODULE Watchdog ------------------------------
(***************************************************************************)
(* The file watchdog (watchFileActivity in src/main.go): once a minute the *)
(* replica that holds the VIP looks at the age of its log file and alerts  *)
(* once when the file has been silent for too long.                        *)
(*                                                                         *)
(* Time is counted in minutes.  An outage is named by the minute of the    *)
(* last write before it.  The VIP test and the stat of one check are one   *)
(* step: what happens between them could as well happen before or after.   *)
(***************************************************************************)
EXTENDS Naturals

CONSTANTS Replicas,
          ThresholdMinutes,
          Holders,      \* who may hold the VIP at first
          MaxMoves, MaxRestarts, MaxMinutes   \* bounds

ASSUME ThresholdAssumption == ThresholdMinutes \in Nat \ {0}
ASSUME HolderAssumption == Holders \subseteq Replicas
ASSUME BoundAssumption == {MaxMoves, MaxRestarts, MaxMinutes} \subseteq Nat

VARIABLES
  now, vip,
  due,          \* replicas whose ticker has fired in this minute
  sending,      \* replicas in notifier.Send
  alerted,
  modified,     \* the file's modification time
  notificationFailures,
  told, attempt,      \* history: the outage last delivered, last alerted
  inCharge,     \* history: since when the replica runs and holds the VIP
  excused,      \* history: since it alerted it lost the VIP, failed to test for it
                \* or restarted
  missedAt,     \* history: when a check last could not look at the file
  blindAt,      \* history: when stat failed on a moving file not seen moving since
  before,       \* history: the failures counted when the outage began
  moves, restarts

file == <<modified, before>>
history == <<told, attempt, inCharge, excused, missedAt, blindAt>>
bounds == <<moves, restarts>>
watchdogVars ==
  <<now, vip, due, sending, alerted, file, notificationFailures, history, bounds>>

WatchdogInit ==
  /\ now = 1 /\ vip \in Holders
  /\ due = {} /\ sending = {}
  /\ alerted = [r \in Replicas |-> FALSE]
  /\ modified = [r \in Replicas |-> 1]
  /\ notificationFailures = [r \in Replicas |-> 0]
  /\ told = [r \in Replicas |-> 0] /\ attempt = [r \in Replicas |-> 0]
  /\ inCharge = [r \in Replicas |-> 1]
  /\ excused = [r \in Replicas |-> FALSE]
  /\ missedAt = [r \in Replicas |-> 0] /\ blindAt = [r \in Replicas |-> 0]
  /\ before = [r \in Replicas |-> 0]
  /\ moves = 0 /\ restarts = 0

Stale(r) == now - modified[r] > ThresholdMinutes
SetAlerted(r, b) == alerted' = [alerted EXCEPT ![r] = b]

-----------------------------------------------------------------------------
(* One check.                                                              *)

Check(r) == r \in due /\ due' = due \ {r}

\* Without the VIP the next outage is a new one.
CheckWithoutVIP(r) ==
  /\ Check(r)
  /\ vip # r
  /\ SetAlerted(r, FALSE)
  /\ UNCHANGED <<now, vip, sending, file, notificationFailures, history, bounds>>

\* hasVIP cannot list the addresses and answers false to the holder as well.
VIPUnknown(r) ==
  /\ Check(r)
  /\ vip = r
  /\ SetAlerted(r, FALSE)
  /\ missedAt' = [missedAt EXCEPT ![r] = now]
  /\ excused' = [excused EXCEPT ![r] = TRUE]
  /\ UNCHANGED <<now, vip, sending, file, notificationFailures, told, attempt, inCharge,
                 blindAt, bounds>>

StatFails(r) ==
  /\ Check(r)
  /\ vip = r
  /\ missedAt' = [missedAt EXCEPT ![r] = now]
  /\ blindAt' = IF Stale(r) THEN blindAt ELSE [blindAt EXCEPT ![r] = now]
  /\ UNCHANGED <<now, vip, sending, alerted, file, notificationFailures, told, attempt,
                 inCharge, excused, bounds>>

AfterFreshKeeps(r) == alerted[r]             \* fault: the flag is never taken back
AfterFresh(r) == FALSE

CheckFresh(r) ==
  /\ Check(r)
  /\ vip = r /\ ~Stale(r)
  /\ SetAlerted(r, AfterFresh(r))
  /\ blindAt' = [blindAt EXCEPT ![r] = 0]
  /\ UNCHANGED <<now, vip, sending, file, notificationFailures, told, attempt, inCharge,
                 excused, missedAt, bounds>>

CheckAlerted(r) ==
  /\ Check(r)
  /\ vip = r /\ Stale(r) /\ alerted[r]
  /\ UNCHANGED <<now, vip, sending, alerted, file, notificationFailures, history, bounds>>

UnalertedIgnored(r) == TRUE                  \* fault: the flag is not looked at
Unalerted(r) == ~alerted[r]

Alert(r) ==
  /\ Check(r)
  /\ vip = r /\ Stale(r) /\ Unalerted(r)
  /\ sending' = sending \cup {r}
  /\ attempt' = [attempt EXCEPT ![r] = modified[r]]
  /\ excused' = [excused EXCEPT ![r] = FALSE]
  /\ UNCHANGED <<now, vip, alerted, file, notificationFailures, told, inCharge, missedAt,
                 blindAt, bounds>>

Sent(r) ==
  /\ r \in sending /\ sending' = sending \ {r}
  /\ told' = [told EXCEPT ![r] = attempt[r]]
  /\ SetAlerted(r, TRUE)
  /\ UNCHANGED <<now, vip, due, file, notificationFailures, attempt, inCharge, excused,
                 missedAt, blindAt, bounds>>

AfterFailure == TRUE
Counted(n) == n + 1

\* alerted is set as if the notification had been delivered.
SendFails(r) ==
  /\ r \in sending /\ sending' = sending \ {r}
  /\ notificationFailures' = [notificationFailures EXCEPT ![r] = Counted(@)]
  /\ SetAlerted(r, AfterFailure)
  /\ UNCHANGED <<now, vip, due, file, history, bounds>>

-----------------------------------------------------------------------------
(* The environment.                                                        *)

Write(r) ==
  /\ modified[r] # now
  /\ modified' = [modified EXCEPT ![r] = now]
  /\ before' = [before EXCEPT ![r] = notificationFailures[r]]
  /\ UNCHANGED <<now, vip, due, sending, alerted, notificationFailures, history, bounds>>

MoveVIP(r) ==
  /\ moves < MaxMoves /\ moves' = moves + 1
  /\ vip # r /\ vip' = r
  /\ inCharge' = [inCharge EXCEPT ![r] = now]
  /\ excused' = [excused EXCEPT ![vip] = TRUE]
  /\ UNCHANGED <<now, due, sending, alerted, file, notificationFailures, told, attempt,
                 missedAt, blindAt, restarts>>

\* The process ends and is started again; its ticker begins anew.
Restart(r) ==
  /\ restarts < MaxRestarts /\ restarts' = restarts + 1
  /\ due' = due \ {r} /\ sending' = sending \ {r}
  /\ SetAlerted(r, FALSE)
  /\ notificationFailures' = [notificationFailures EXCEPT ![r] = 0]
  /\ before' = [before EXCEPT ![r] = 0]
  /\ inCharge' = [inCharge EXCEPT ![r] = now]
  /\ excused' = [excused EXCEPT ![r] = TRUE]
  /\ UNCHANGED <<now, vip, modified, told, attempt, missedAt, blindAt, moves>>

\* A minute passes: every check, its notification included, takes less.
Tick ==
  /\ now < MaxMinutes /\ due = {} /\ sending = {}
  /\ now' = now + 1
  /\ due' = Replicas
  /\ UNCHANGED <<vip, sending, alerted, file, notificationFailures, history, bounds>>

Finished ==
  now = MaxMinutes /\ due = {} /\ sending = {} /\ UNCHANGED watchdogVars

Watch(r) == \/ CheckWithoutVIP(r) \/ VIPUnknown(r) \/ StatFails(r) \/ CheckFresh(r)
            \/ CheckAlerted(r) \/ Alert(r) \/ Sent(r) \/ SendFails(r)

WatchdogNext ==
  \/ Tick \/ Finished
  \/ \E r \in Replicas : Watch(r) \/ Write(r) \/ MoveVIP(r) \/ Restart(r)

WatchdogSpec == WatchdogInit /\ [][WatchdogNext]_watchdogVars

-----------------------------------------------------------------------------
(* Properties.                                                             *)

\* The type of the watchdog's state; the flag is down while it alerts.
WatchdogTypeOK ==
  /\ now \in Nat /\ vip \in Replicas
  /\ due \in SUBSET Replicas /\ sending \in SUBSET Replicas
  /\ alerted \in [Replicas -> BOOLEAN]
  /\ \A r \in sending : ~alerted[r]
  /\ modified \in [Replicas -> Nat] /\ before \in [Replicas -> Nat]
  /\ notificationFailures \in [Replicas -> Nat]
  /\ told \in [Replicas -> Nat] /\ attempt \in [Replicas -> Nat]
  /\ inCharge \in [Replicas -> Nat] /\ excused \in [Replicas -> BOOLEAN]
  /\ missedAt \in [Replicas -> Nat] /\ blindAt \in [Replicas -> Nat]
  /\ moves \in Nat /\ restarts \in Nat

Checked(r) == r \notin due \cup sending

\* Once the minute's check is over, an outage of the holder's file was told to
\* somebody or has been counted in notificationFailures, where an operator sees
\* it (a failed notification is not repeated); the flag left from an earlier
\* outage does not hide it.  A check that fails to look delays this by a minute;
\* only a file whose stat failed as long as it moved, so that the flag was not
\* taken back, is excepted.
OutageToldOrCounted ==
  \A r \in Replicas :
    /\ vip = r /\ inCharge[r] < now /\ Checked(r) /\ Stale(r)
    /\ missedAt[r] < now /\ blindAt[r] < modified[r]
    => told[r] = modified[r] \/ notificationFailures[r] > before[r]

\* A replica alerts once in an outage, also when the notification fails, unless
\* it lost the VIP, failed to test for it or was restarted since.
AlertsOncePerOutage ==
  [][\A r \in Replicas :
       r \in sending' \ sending => attempt[r] # modified[r] \/ excused[r]]_watchdogVars
=============================================================================
