--------------------------- MODULE PipelineProofs ---------------------------
(***************************************************************************)
(* Proofs about Pipeline, for every set of files and workers, every queue  *)
(* capacity and every bound.                                               *)
(***************************************************************************)
EXTENDS Pipeline, SequenceTheorems, TLAPS

-----------------------------------------------------------------------------
(* The channel as a sequence.                                              *)

LEMMA AppendAddsToRange ==
  ASSUME NEW S, NEW s \in Seq(S), NEW x \in S
  PROVE  Range(Append(s, x)) = Range(s) \cup {x}
<1>1. /\ Len(s) \in Nat /\ DOMAIN s = 1 .. Len(s)
      /\ DOMAIN Append(s, x) = 1 .. Len(s) + 1
      /\ Append(s, x)[Len(s) + 1] = x
      /\ \A i \in 1 .. Len(s) : Append(s, x)[i] = s[i]
  OBVIOUS
<1>2. Range(s) \cup {x} \subseteq Range(Append(s, x))
  BY <1>1 DEF Range
<1>3. Range(Append(s, x)) \subseteq Range(s) \cup {x}
  BY <1>1 DEF Range
<1>4. QED BY <1>2, <1>3

LEMMA TailKeepsRest ==
  ASSUME NEW S, NEW s \in Seq(S), s # <<>>
  PROVE  Range(s) = {Head(s)} \cup Range(Tail(s))
<1>1. /\ Len(s) \in Nat \ {0} /\ Head(s) = s[1]
      /\ Len(Tail(s)) = Len(s) - 1 /\ DOMAIN Tail(s) = 1 .. Len(Tail(s))
      /\ \A i \in 1 .. Len(Tail(s)) : Tail(s)[i] = s[i + 1]
  BY HeadTailProperties
<1>2. Range(s) \subseteq {Head(s)} \cup Range(Tail(s))
  <2>1. SUFFICES ASSUME NEW i \in 1 .. Len(s), i # 1
                 PROVE  s[i] \in Range(Tail(s))
    BY <1>1 DEF Range
  <2>2. i - 1 \in 1 .. Len(Tail(s)) /\ Tail(s)[i - 1] = s[i]
    BY <1>1, <2>1
  <2>3. QED BY <1>1, <2>2 DEF Range
<1>3. {Head(s)} \cup Range(Tail(s)) \subseteq Range(s)
  BY <1>1 DEF Range
<1>4. QED BY <1>2, <1>3

LEMMA NoJobIsNoJob == NoJob \notin Jobs
<1>1. SUFFICES ASSUME NEW f \in Files, NEW n \in 1 .. MaxTaken, NoJob = <<f, n>>
               PROVE  FALSE
  BY DEF Jobs
<1>2. Len(<<>>) = 0 /\ Len(<<f, n>>) = 2
  OBVIOUS
<1>3. QED BY <1>1, <1>2 DEF NoJob
-----------------------------------------------------------------------------
(* The strengthening of the type invariant: what a goroutine carries at    *)
(* each program counter.                                                   *)

\* A tailer about to send holds the last line it took; a worker holds a line
\* exactly while it checks it.
Carried ==
  /\ \A f \in Files : tailer[f] \in {"enqueue", "blocked"} =>
        taken[f] >= 1 /\ hand[f] = <<f, taken[f]>>
  /\ \A w \in Workers : IF worker[w] = "checking" THEN job[w] \in Jobs
                                                  ELSE job[w] = NoJob

TypeInv == TypeOK /\ Carried

LEMMA InitTypeInv == Init => TypeInv
<1> SUFFICES ASSUME Init PROVE TypeInv
  OBVIOUS
<1> USE DEF Init
<1>1. FileTypes
  BY DEF FileTypes
<1>2. TailTypes
  BY DEF TailTypes
<1>3. WorkTypes
  BY QueueSizeAssumption DEF WorkTypes
<1>4. MainTypes
  BY DEF MainTypes
<1>5. HistoryTypes
  BY BoundsAssumption DEF HistoryTypes
<1>6. Carried
  BY DEF Carried
<1>7. QED BY <1>1, <1>2, <1>3, <1>4, <1>5, <1>6 DEF TypeInv, TypeOK

LEMMA CarriedLineIsJob ==
  ASSUME TypeInv, NEW f \in Files, tailer[f] \in {"enqueue", "blocked"}
  PROVE  hand[f] \in Jobs
<1>1. hand[f] = <<f, taken[f]>> /\ taken[f] >= 1
  BY DEF TypeInv, Carried
<1>2. taken[f] \in 1 .. MaxTaken
  BY <1>1, BoundsAssumption DEF TypeInv, TypeOK, HistoryTypes
<1>3. QED BY <1>1, <1>2 DEF Jobs

LEMMA Append1Types ==
  ASSUME TypeInv, NEW f \in Files, Append1(f)
  PROVE  TypeInv'
<1> USE DEF Append1, tailVars, chanVars, workVars, mainVars, readVars
<1>1. FileTypes'
  BY DEF TypeInv, TypeOK, FileTypes
<1>2. TailTypes'
  BY DEF TypeInv, TypeOK, TailTypes
<1>3. WorkTypes'
  BY DEF TypeInv, TypeOK, WorkTypes
<1>4. MainTypes'
  BY DEF TypeInv, TypeOK, MainTypes
<1>5. HistoryTypes'
  BY DEF TypeInv, TypeOK, HistoryTypes
<1>6. Carried'
  BY DEF TypeInv, TypeOK, TailTypes, WorkTypes, HistoryTypes, Carried
<1>7. QED BY <1>1, <1>2, <1>3, <1>4, <1>5, <1>6 DEF TypeInv, TypeOK

LEMMA RotateTypes ==
  ASSUME TypeInv, NEW f \in Files, Rotate(f)
  PROVE  TypeInv'
<1> USE DEF Rotate, tailVars, chanVars, workVars, mainVars, readVars
<1>1. FileTypes'
  BY DEF TypeInv, TypeOK, FileTypes
<1>2. TailTypes'
  BY DEF TypeInv, TypeOK, TailTypes
<1>3. WorkTypes'
  BY DEF TypeInv, TypeOK, WorkTypes
<1>4. MainTypes'
  BY DEF TypeInv, TypeOK, MainTypes
<1>5. HistoryTypes'
  BY DEF TypeInv, TypeOK, HistoryTypes
<1>6. Carried'
  BY DEF TypeInv, TypeOK, TailTypes, WorkTypes, HistoryTypes, Carried
<1>7. QED BY <1>1, <1>2, <1>3, <1>4, <1>5, <1>6 DEF TypeInv, TypeOK

LEMMA TailerExitTypes ==
  ASSUME TypeInv, NEW f \in Files, TailerExit(f)
  PROVE  TypeInv'
<1> USE DEF TailerExit, GoTo, fileVars, tailVars, chanVars, workVars, mainVars, readVars
<1>1. FileTypes'
  BY DEF TypeInv, TypeOK, FileTypes
<1>2. TailTypes'
  BY DEF TypeInv, TypeOK, TailTypes
<1>3. WorkTypes'
  BY DEF TypeInv, TypeOK, WorkTypes
<1>4. MainTypes'
  BY DEF TypeInv, TypeOK, MainTypes
<1>5. HistoryTypes'
  BY DEF TypeInv, TypeOK, HistoryTypes
<1>6. Carried'
  BY DEF TypeInv, TypeOK, TailTypes, WorkTypes, HistoryTypes, Carried
<1>7. QED BY <1>1, <1>2, <1>3, <1>4, <1>5, <1>6 DEF TypeInv, TypeOK

LEMMA StatTypes ==
  ASSUME TypeInv, NEW f \in Files, Stat(f)
  PROVE  TypeInv'
<1> USE DEF Stat, GoTo, fileVars, chanVars, workVars, mainVars
<1>1. FileTypes'
  BY DEF TypeInv, TypeOK, FileTypes
<1>2. TailTypes'
  BY DEF TypeInv, TypeOK, TailTypes, FileTypes, OffsetAfterStat, FileSize
<1>3. WorkTypes'
  BY DEF TypeInv, TypeOK, WorkTypes
<1>4. MainTypes'
  BY DEF TypeInv, TypeOK, MainTypes
<1>5. HistoryTypes'
  BY DEF TypeInv, TypeOK, HistoryTypes, FileTypes
<1>6. Carried'
  BY DEF TypeInv, TypeOK, TailTypes, WorkTypes, HistoryTypes, Carried
<1>7. QED BY <1>1, <1>2, <1>3, <1>4, <1>5, <1>6 DEF TypeInv, TypeOK

LEMMA StartFailsTypes ==
  ASSUME TypeInv, NEW f \in Files, StartFails(f)
  PROVE  TypeInv'
<1> USE DEF StartFails, GoTo, fileVars, chanVars, workVars, mainVars, readVars
<1>1. FileTypes'
  BY DEF TypeInv, TypeOK, FileTypes
<1>2. TailTypes'
  BY DEF TypeInv, TypeOK, TailTypes
<1>3. WorkTypes'
  BY DEF TypeInv, TypeOK, WorkTypes
<1>4. MainTypes'
  BY DEF TypeInv, TypeOK, MainTypes
<1>5. HistoryTypes'
  BY DEF TypeInv, TypeOK, HistoryTypes
<1>6. Carried'
  BY DEF TypeInv, TypeOK, TailTypes, WorkTypes, HistoryTypes, Carried
<1>7. QED BY <1>1, <1>2, <1>3, <1>4, <1>5, <1>6 DEF TypeInv, TypeOK

LEMMA TailFileTypes ==
  ASSUME TypeInv, NEW f \in Files, TailFile(f)
  PROVE  TypeInv'
<1> USE DEF TailFile, GoTo, fileVars, chanVars, workVars, mainVars, readVars
<1>1. FileTypes'
  BY DEF TypeInv, TypeOK, FileTypes
<1>2. TailTypes'
  BY DEF TypeInv, TypeOK, TailTypes, FileTypes
<1>3. WorkTypes'
  BY DEF TypeInv, TypeOK, WorkTypes
<1>4. MainTypes'
  BY DEF TypeInv, TypeOK, MainTypes
<1>5. HistoryTypes'
  BY DEF TypeInv, TypeOK, HistoryTypes
<1>6. Carried'
  BY DEF TypeInv, TypeOK, TailTypes, WorkTypes, HistoryTypes, Carried
<1>7. QED BY <1>1, <1>2, <1>3, <1>4, <1>5, <1>6 DEF TypeInv, TypeOK

LEMMA TailReopenTypes ==
  ASSUME TypeInv, NEW f \in Files, TailReopen(f)
  PROVE  TypeInv'
<1> USE DEF TailReopen, fileVars, chanVars, workVars, mainVars, readVars
<1>1. FileTypes'
  BY DEF TypeInv, TypeOK, FileTypes
<1>2. TailTypes'
  BY DEF TypeInv, TypeOK, TailTypes, FileTypes
<1>3. WorkTypes'
  BY DEF TypeInv, TypeOK, WorkTypes
<1>4. MainTypes'
  BY DEF TypeInv, TypeOK, MainTypes
<1>5. HistoryTypes'
  BY DEF TypeInv, TypeOK, HistoryTypes
<1>6. Carried'
  BY DEF TypeInv, TypeOK, TailTypes, WorkTypes, HistoryTypes, Carried
<1>7. QED BY <1>1, <1>2, <1>3, <1>4, <1>5, <1>6 DEF TypeInv, TypeOK

LEMMA ReceiveLineTypes ==
  ASSUME TypeInv, NEW f \in Files, ReceiveLine(f)
  PROVE  TypeInv'
<1> USE DEF ReceiveLine, GoTo, fileVars, chanVars, workVars, mainVars
<1>1. <<f, taken[f] + 1>> \in Jobs /\ taken[f] + 1 \in 0 .. MaxTaken
  BY BoundsAssumption DEF TypeInv, TypeOK, HistoryTypes, Jobs
<1>2. FileTypes'
  BY DEF TypeInv, TypeOK, FileTypes
<1>3. TailTypes'
  BY <1>1 DEF TypeInv, TypeOK, TailTypes
<1>4. WorkTypes'
  BY DEF TypeInv, TypeOK, WorkTypes
<1>5. MainTypes'
  BY DEF TypeInv, TypeOK, MainTypes
<1>6. HistoryTypes'
  BY <1>1 DEF TypeInv, TypeOK, HistoryTypes, TailTypes
<1>7. Carried'
  BY <1>1 DEF TypeInv, TypeOK, TailTypes, WorkTypes, HistoryTypes, Carried
<1>8. QED BY <1>2, <1>3, <1>4, <1>5, <1>6, <1>7 DEF TypeInv, TypeOK

LEMMA EnqueueTypes ==
  ASSUME TypeInv, NEW f \in Files, Enqueue(f)
  PROVE  TypeInv'
<1> USE DEF Enqueue, SendLine, GoTo, fileVars, tailVars, workVars, mainVars, readVars
<1>1. hand[f] \in Jobs
  BY CarriedLineIsJob
<1>2. FileTypes'
  BY DEF TypeInv, TypeOK, FileTypes
<1>3. TailTypes'
  BY <1>1 DEF TypeInv, TypeOK, TailTypes
<1>4. WorkTypes'
  BY <1>1, QueueSizeAssumption DEF TypeInv, TypeOK, WorkTypes, HasRoom
<1>5. MainTypes'
  BY DEF TypeInv, TypeOK, MainTypes
<1>6. HistoryTypes'
  BY DEF TypeInv, TypeOK, HistoryTypes
<1>7. Carried'
  BY <1>1 DEF TypeInv, TypeOK, TailTypes, WorkTypes, HistoryTypes, Carried
<1>8. QED BY <1>2, <1>3, <1>4, <1>5, <1>6, <1>7 DEF TypeInv, TypeOK

LEMMA SaturateTypes ==
  ASSUME TypeInv, NEW f \in Files, Saturate(f)
  PROVE  TypeInv'
<1> USE DEF Saturate, GoTo, fileVars, tailVars, chanVars, workVars, mainVars, readVars
<1>1. FileTypes'
  BY DEF TypeInv, TypeOK, FileTypes
<1>2. TailTypes'
  BY DEF TypeInv, TypeOK, TailTypes
<1>3. WorkTypes'
  BY DEF TypeInv, TypeOK, WorkTypes
<1>4. MainTypes'
  BY DEF TypeInv, TypeOK, MainTypes
<1>5. HistoryTypes'
  BY DEF TypeInv, TypeOK, HistoryTypes
<1>6. Carried'
  BY DEF TypeInv, TypeOK, TailTypes, WorkTypes, HistoryTypes, Carried
<1>7. QED BY <1>1, <1>2, <1>3, <1>4, <1>5, <1>6 DEF TypeInv, TypeOK

LEMMA GiveUpLineTypes ==
  ASSUME TypeInv, NEW f \in Files, GiveUpLine(f)
  PROVE  TypeInv'
<1> USE DEF GiveUpLine, SelectsDone, GoTo, fileVars, tailVars, chanVars, workVars, mainVars, readVars
<1>1. hand[f] \in Jobs
  BY CarriedLineIsJob
<1>2. FileTypes'
  BY DEF TypeInv, TypeOK, FileTypes
<1>3. TailTypes'
  BY <1>1 DEF TypeInv, TypeOK, TailTypes
<1>4. WorkTypes'
  BY <1>1 DEF TypeInv, TypeOK, WorkTypes
<1>5. MainTypes'
  BY DEF TypeInv, TypeOK, MainTypes
<1>6. HistoryTypes'
  BY DEF TypeInv, TypeOK, HistoryTypes
<1>7. Carried'
  BY <1>1 DEF TypeInv, TypeOK, TailTypes, WorkTypes, HistoryTypes, Carried
<1>8. QED BY <1>2, <1>3, <1>4, <1>5, <1>6, <1>7 DEF TypeInv, TypeOK

LEMMA TailStoppedTypes ==
  ASSUME TypeInv, NEW f \in Files, TailStopped(f)
  PROVE  TypeInv'
<1> USE DEF TailStopped, GoTo, fileVars, chanVars, workVars, mainVars, readVars
<1>1. FileTypes'
  BY DEF TypeInv, TypeOK, FileTypes
<1>2. TailTypes'
  BY DEF TypeInv, TypeOK, TailTypes, OffsetAfterTell
<1>3. WorkTypes'
  BY DEF TypeInv, TypeOK, WorkTypes
<1>4. MainTypes'
  BY DEF TypeInv, TypeOK, MainTypes
<1>5. HistoryTypes'
  BY DEF TypeInv, TypeOK, HistoryTypes
<1>6. Carried'
  BY DEF TypeInv, TypeOK, TailTypes, WorkTypes, HistoryTypes, Carried
<1>7. QED BY <1>1, <1>2, <1>3, <1>4, <1>5, <1>6 DEF TypeInv, TypeOK

LEMMA RetryTypes ==
  ASSUME TypeInv, NEW f \in Files, Retry(f)
  PROVE  TypeInv'
<1> USE DEF Retry, GoTo, fileVars, tailVars, chanVars, workVars, mainVars, readVars
<1>1. FileTypes'
  BY DEF TypeInv, TypeOK, FileTypes
<1>2. TailTypes'
  BY DEF TypeInv, TypeOK, TailTypes
<1>3. WorkTypes'
  BY DEF TypeInv, TypeOK, WorkTypes
<1>4. MainTypes'
  BY DEF TypeInv, TypeOK, MainTypes
<1>5. HistoryTypes'
  BY DEF TypeInv, TypeOK, HistoryTypes
<1>6. Carried'
  BY DEF TypeInv, TypeOK, TailTypes, WorkTypes, HistoryTypes, Carried
<1>7. QED BY <1>1, <1>2, <1>3, <1>4, <1>5, <1>6 DEF TypeInv, TypeOK

LEMMA DequeueTypes ==
  ASSUME TypeInv, NEW w \in Workers, Dequeue(w)
  PROVE  TypeInv'
<1> USE DEF Dequeue, fileVars, tailVars, mainVars, readVars
<1>1. /\ Head(alertJobs) \in Jobs /\ Tail(alertJobs) \in Seq(Jobs)
      /\ Len(Tail(alertJobs)) <= QueueSize
  BY HeadTailProperties, QueueSizeAssumption DEF TypeInv, TypeOK, WorkTypes
<1>2. FileTypes'
  BY DEF TypeInv, TypeOK, FileTypes
<1>3. TailTypes'
  BY DEF TypeInv, TypeOK, TailTypes
<1>4. WorkTypes'
  BY <1>1 DEF TypeInv, TypeOK, WorkTypes
<1>5. MainTypes'
  BY DEF TypeInv, TypeOK, MainTypes
<1>6. HistoryTypes'
  BY DEF TypeInv, TypeOK, HistoryTypes
<1>7. Carried'
  BY <1>1 DEF TypeInv, TypeOK, TailTypes, WorkTypes, HistoryTypes, Carried
<1>8. QED BY <1>2, <1>3, <1>4, <1>5, <1>6, <1>7 DEF TypeInv, TypeOK

LEMMA CheckDoneTypes ==
  ASSUME TypeInv, NEW w \in Workers, CheckDone(w)
  PROVE  TypeInv'
<1> USE DEF CheckDone, fileVars, tailVars, chanVars, mainVars, readVars
<1>1. FileTypes'
  BY DEF TypeInv, TypeOK, FileTypes
<1>2. TailTypes'
  BY DEF TypeInv, TypeOK, TailTypes
<1>3. WorkTypes'
  BY DEF TypeInv, TypeOK, WorkTypes, Carried
<1>4. MainTypes'
  BY DEF TypeInv, TypeOK, MainTypes
<1>5. HistoryTypes'
  BY DEF TypeInv, TypeOK, HistoryTypes
<1>6. Carried'
  BY DEF TypeInv, TypeOK, TailTypes, WorkTypes, HistoryTypes, Carried
<1>7. QED BY <1>1, <1>2, <1>3, <1>4, <1>5, <1>6 DEF TypeInv, TypeOK

LEMMA WorkerExitTypes ==
  ASSUME TypeInv, NEW w \in Workers, WorkerExit(w)
  PROVE  TypeInv'
<1> USE DEF WorkerExit, fileVars, tailVars, chanVars, mainVars, readVars
<1>1. FileTypes'
  BY DEF TypeInv, TypeOK, FileTypes
<1>2. TailTypes'
  BY DEF TypeInv, TypeOK, TailTypes
<1>3. WorkTypes'
  BY DEF TypeInv, TypeOK, WorkTypes
<1>4. MainTypes'
  BY DEF TypeInv, TypeOK, MainTypes
<1>5. HistoryTypes'
  BY DEF TypeInv, TypeOK, HistoryTypes
<1>6. Carried'
  BY DEF TypeInv, TypeOK, TailTypes, WorkTypes, HistoryTypes, Carried
<1>7. QED BY <1>1, <1>2, <1>3, <1>4, <1>5, <1>6 DEF TypeInv, TypeOK

LEMMA SignalTypes ==
  ASSUME TypeInv, Signal
  PROVE  TypeInv'
<1> USE DEF Signal, fileVars, tailVars, chanVars, workVars, mainVars, readVars
<1>1. FileTypes'
  BY DEF TypeInv, TypeOK, FileTypes
<1>2. TailTypes'
  BY DEF TypeInv, TypeOK, TailTypes
<1>3. WorkTypes'
  BY DEF TypeInv, TypeOK, WorkTypes
<1>4. MainTypes'
  BY DEF TypeInv, TypeOK, MainTypes
<1>5. HistoryTypes'
  BY DEF TypeInv, TypeOK, HistoryTypes
<1>6. Carried'
  BY DEF TypeInv, TypeOK, TailTypes, WorkTypes, HistoryTypes, Carried
<1>7. QED BY <1>1, <1>2, <1>3, <1>4, <1>5, <1>6 DEF TypeInv, TypeOK

LEMMA CloseJobsTypes ==
  ASSUME TypeInv, CloseJobs
  PROVE  TypeInv'
<1> USE DEF CloseJobs, fileVars, tailVars, workVars, readVars
<1>1. FileTypes'
  BY DEF TypeInv, TypeOK, FileTypes
<1>2. TailTypes'
  BY DEF TypeInv, TypeOK, TailTypes
<1>3. WorkTypes'
  BY DEF TypeInv, TypeOK, WorkTypes
<1>4. MainTypes'
  BY DEF TypeInv, TypeOK, MainTypes
<1>5. HistoryTypes'
  BY DEF TypeInv, TypeOK, HistoryTypes
<1>6. Carried'
  BY DEF TypeInv, TypeOK, TailTypes, WorkTypes, HistoryTypes, Carried
<1>7. QED BY <1>1, <1>2, <1>3, <1>4, <1>5, <1>6 DEF TypeInv, TypeOK

LEMMA DrainedTypes ==
  ASSUME TypeInv, Drained
  PROVE  TypeInv'
<1> USE DEF Drained, fileVars, tailVars, chanVars, workVars, readVars
<1>1. FileTypes'
  BY DEF TypeInv, TypeOK, FileTypes
<1>2. TailTypes'
  BY DEF TypeInv, TypeOK, TailTypes
<1>3. WorkTypes'
  BY DEF TypeInv, TypeOK, WorkTypes
<1>4. MainTypes'
  BY DEF TypeInv, TypeOK, MainTypes
<1>5. HistoryTypes'
  BY DEF TypeInv, TypeOK, HistoryTypes
<1>6. Carried'
  BY DEF TypeInv, TypeOK, TailTypes, WorkTypes, HistoryTypes, Carried
<1>7. QED BY <1>1, <1>2, <1>3, <1>4, <1>5, <1>6 DEF TypeInv, TypeOK

LEMMA DrainTimeoutTypes ==
  ASSUME TypeInv, DrainTimeout
  PROVE  TypeInv'
<1> USE DEF DrainTimeout, fileVars, tailVars, chanVars, workVars, readVars
<1>1. FileTypes'
  BY DEF TypeInv, TypeOK, FileTypes
<1>2. TailTypes'
  BY DEF TypeInv, TypeOK, TailTypes
<1>3. WorkTypes'
  BY DEF TypeInv, TypeOK, WorkTypes
<1>4. MainTypes'
  BY DEF TypeInv, TypeOK, MainTypes
<1>5. HistoryTypes'
  BY DEF TypeInv, TypeOK, HistoryTypes
<1>6. Carried'
  BY DEF TypeInv, TypeOK, TailTypes, WorkTypes, HistoryTypes, Carried
<1>7. QED BY <1>1, <1>2, <1>3, <1>4, <1>5, <1>6 DEF TypeInv, TypeOK

LEMMA CloseStoreTypes ==
  ASSUME TypeInv, CloseStore
  PROVE  TypeInv'
<1> USE DEF CloseStore, StoreCloses, fileVars, tailVars, chanVars, workVars, readVars
<1>1. FileTypes'
  BY DEF TypeInv, TypeOK, FileTypes
<1>2. TailTypes'
  BY DEF TypeInv, TypeOK, TailTypes
<1>3. WorkTypes'
  BY DEF TypeInv, TypeOK, WorkTypes
<1>4. MainTypes'
  BY DEF TypeInv, TypeOK, MainTypes
<1>5. HistoryTypes'
  BY DEF TypeInv, TypeOK, HistoryTypes
<1>6. Carried'
  BY DEF TypeInv, TypeOK, TailTypes, WorkTypes, HistoryTypes, Carried
<1>7. QED BY <1>1, <1>2, <1>3, <1>4, <1>5, <1>6 DEF TypeInv, TypeOK

LEMMA ExitTypes ==
  ASSUME TypeInv, Exit
  PROVE  TypeInv'
<1> USE DEF Exit, fileVars, tailVars, chanVars, workVars, readVars
<1>1. Queued \cup Checking \subseteq Jobs
  BY DEF TypeInv, TypeOK, WorkTypes, Carried, Queued, Range, Checking
<1>2. FileTypes'
  BY DEF TypeInv, TypeOK, FileTypes
<1>3. TailTypes'
  BY DEF TypeInv, TypeOK, TailTypes
<1>4. WorkTypes'
  BY <1>1 DEF TypeInv, TypeOK, WorkTypes
<1>5. MainTypes'
  BY <1>1 DEF TypeInv, TypeOK, MainTypes
<1>6. HistoryTypes'
  BY DEF TypeInv, TypeOK, HistoryTypes
<1>7. Carried'
  BY <1>1 DEF TypeInv, TypeOK, TailTypes, WorkTypes, HistoryTypes, Carried
<1>8. QED BY <1>2, <1>3, <1>4, <1>5, <1>6, <1>7 DEF TypeInv, TypeOK

LEMMA NextTypeInv == TypeInv /\ [Next]_vars => TypeInv'
<1> SUFFICES ASSUME TypeInv, [Next]_vars PROVE TypeInv'
  OBVIOUS
<1>1. CASE UNCHANGED vars
  BY <1>1 DEF TypeInv, TypeOK, FileTypes, TailTypes, WorkTypes, MainTypes,
              HistoryTypes, Carried, vars
<1>2. ASSUME NEW f \in Files, Append1(f) \/ Rotate(f) PROVE TypeInv'
  BY <1>2, Append1Types, RotateTypes
<1>3. ASSUME NEW f \in Files, Tailer(f) PROVE TypeInv'
  BY <1>3, TailerExitTypes, StatTypes, StartFailsTypes, TailFileTypes,
     TailReopenTypes, ReceiveLineTypes, EnqueueTypes, SaturateTypes,
     GiveUpLineTypes, TailStoppedTypes, RetryTypes DEF Tailer
<1>4. ASSUME NEW w \in Workers, Worker(w) PROVE TypeInv'
  BY <1>4, DequeueTypes, CheckDoneTypes, WorkerExitTypes DEF Worker
<1>5. CASE Signal \/ Main
  BY <1>5, SignalTypes, CloseJobsTypes, DrainedTypes, DrainTimeoutTypes,
     CloseStoreTypes, ExitTypes DEF Main
<1>6. QED
  BY <1>1, <1>2, <1>3, <1>4, <1>5 DEF Next, Terminated

\* The pipeline's variables keep their types, and the channel its capacity.
THEOREM TypeCorrect == Spec => []TypeOK
<1>1. TypeInv => TypeOK
  BY DEF TypeInv
<1>2. QED BY <1>1, InitTypeInv, NextTypeInv, PTL DEF Spec

-----------------------------------------------------------------------------
(* Shutdown: the order in which main, tailers and workers stop.            *)

ShutdownInv ==
  /\ closed <=> main # "running"
  /\ closed => cancelled /\ TailersExited
  /\ \A w \in Workers : worker[w] = "exited" => RangeEnds
  /\ didDrain => WorkersExited
  /\ storeClosed => didDrain

LEMMA NextShutdownInv == TypeInv /\ ShutdownInv /\ [Next]_vars => ShutdownInv'
<1> SUFFICES ASSUME TypeInv, ShutdownInv, [Next]_vars PROVE ShutdownInv'
  OBVIOUS
<1> USE DEF ShutdownInv, TailersExited, WorkersExited, RangeEnds
<1>1. CASE UNCHANGED vars
  BY <1>1 DEF vars
<1>2. ASSUME NEW f \in Files, Append1(f) \/ Rotate(f) PROVE ShutdownInv'
  BY <1>2 DEF Append1, Rotate, chanVars, workVars, mainVars
<1>3. ASSUME NEW f \in Files, Tailer(f) PROVE ShutdownInv'
  <2>1. ~closed
    BY <1>3 DEF Tailer, TailerExit, Stat, StartFails, TailFile, TailReopen, TailOpen,
       ReceiveLine, Enqueue, Saturate, GiveUpLine, SelectsDone, TailStopped, Retry
  <2>2. UNCHANGED <<closed, main, cancelled, worker, didDrain, storeClosed>>
    BY <1>3 DEF Tailer, TailerExit, Stat, StartFails, TailFile, TailReopen,
       ReceiveLine, Enqueue, Saturate, GiveUpLine, TailStopped, Retry,
       chanVars, workVars, mainVars
  <2>3. QED BY <2>1, <2>2
<1>4. ASSUME NEW w \in Workers, Worker(w) PROVE ShutdownInv'
  <2>1. UNCHANGED <<closed, main, cancelled, tailer, didDrain, storeClosed>>
    BY <1>4 DEF Worker, Dequeue, CheckDone, WorkerExit, chanVars, mainVars
  <2>2. CASE Dequeue(w)
    BY <2>1, <2>2 DEF Dequeue, TypeInv, TypeOK, WorkTypes
  <2>3. CASE CheckDone(w)
    BY <2>1, <2>3 DEF CheckDone, chanVars, TypeInv, TypeOK, WorkTypes
  <2>4. CASE WorkerExit(w)
    BY <2>1, <2>4 DEF WorkerExit, chanVars, TypeInv, TypeOK, WorkTypes
  <2>5. QED BY <1>4, <2>2, <2>3, <2>4 DEF Worker
<1>5. CASE Signal
  BY <1>5 DEF Signal, chanVars, workVars, mainVars
<1>6. CASE Main
  BY <1>6 DEF Main, CloseJobs, Drained, DrainTimeout, CloseStore, StoreCloses, Exit,
     chanVars, workVars, mainVars
<1>7. QED
  BY <1>1, <1>2, <1>3, <1>4, <1>5, <1>6 DEF Next, Terminated

LEMMA ShutdownInvariant == Spec => [](TypeInv /\ ShutdownInv)
<1>1. Init => ShutdownInv
  BY WorkersAssumption DEF Init, ShutdownInv, TailersExited, WorkersExited
<1>2. QED BY <1>1, InitTypeInv, NextTypeInv, NextShutdownInv, PTL DEF Spec

\* alertJobs is closed only after every tailer has returned, so no tailer ever
\* sends on a closed channel (main.go: tailWG.Wait before close).
THEOREM NeverSendsOnClosedChannel == Spec => []NoSendOnClosedChannel
<1>1. ShutdownInv => NoSendOnClosedChannel
  BY DEF ShutdownInv, NoSendOnClosedChannel, TailersExited
<1>2. QED BY <1>1, ShutdownInvariant, PTL

\* The store client is closed only when the queue is empty and every worker has
\* returned (main.go: didDrain).
THEOREM StoreOutlivesWorkers == Spec => []StoreClosedOnlyWhenDrained
<1>1. TypeInv /\ ShutdownInv => StoreClosedOnlyWhenDrained
  BY WorkersAssumption DEF ShutdownInv, StoreClosedOnlyWhenDrained,
     WorkersExited, RangeEnds, Checking
<1>2. QED BY <1>1, ShutdownInvariant, PTL

-----------------------------------------------------------------------------
(* How each step moves lines between the tailers' hands, the channel, the  *)
(* workers and the two ends.                                               *)

LEMMA ReceiveLineMoves ==
  ASSUME TypeInv, NEW f \in Files, ReceiveLine(f)
  PROVE  /\ InHand' = InHand \cup {<<f, taken[f] + 1>>}
         /\ Taken' = Taken \cup {<<f, taken[f] + 1>>}
         /\ UNCHANGED <<alertJobs, Queued, Checking, worker, job, processed, dropped>>
<1> USE DEF ReceiveLine, GoTo, chanVars, workVars
<1>1. taken[f] \in 0 .. MaxTaken /\ taken[f] + 1 \in 1 .. MaxTaken
  BY BoundsAssumption DEF TypeInv, TypeOK, HistoryTypes
<1>2. /\ hand' = [hand EXCEPT ![f] = <<f, taken[f] + 1>>]
      /\ tailer' = [tailer EXCEPT ![f] = "enqueue"]
      /\ hand \in [Files -> Jobs \cup {NoJob}] /\ DOMAIN tailer = Files
      /\ tailer[f] = "following"
  BY DEF TypeInv, TypeOK, TailTypes
<1>3. InHand' = InHand \cup {<<f, taken[f] + 1>>}
  BY <1>2 DEF InHand
<1>4. Taken' = Taken \cup {<<f, taken[f] + 1>>}
  <2>1. taken' = [taken EXCEPT ![f] = @ + 1] /\ taken \in [Files -> 0 .. MaxTaken]
    BY DEF TypeInv, TypeOK, HistoryTypes
  <2>2. ASSUME NEW g \in Files, NEW n \in 1 .. MaxTaken
        PROVE  n <= taken'[g] <=> n <= taken[g] \/ (g = f /\ n = taken[f] + 1)
    BY <1>1, <2>1, BoundsAssumption
  <2>3. ASSUME NEW j \in Jobs
        PROVE  j[2] <= taken'[j[1]] <=> j[2] <= taken[j[1]] \/ j = <<f, taken[f] + 1>>
    BY <2>2 DEF Jobs
  <2>4. <<f, taken[f] + 1>> \in Jobs
    BY <1>1 DEF Jobs
  <2>5. QED BY <2>3, <2>4 DEF Taken
<1>5. QED BY <1>3, <1>4 DEF Queued, Checking

LEMMA EnqueueMoves ==
  ASSUME TypeInv, NEW f \in Files, Enqueue(f)
  PROVE  /\ hand[f] \in InHand \cap Jobs
         /\ InHand' = InHand \ {hand[f]}
         /\ alertJobs' = Append(alertJobs, hand[f])
         /\ Queued' = Queued \cup {hand[f]}
         /\ UNCHANGED <<Taken, Checking, worker, job, processed, dropped>>
<1> USE DEF Enqueue, SendLine, GoTo, readVars, workVars
<1>1. hand[f] \in InHand \cap Jobs
  BY CarriedLineIsJob DEF InHand
<1>2. \A g \in Files : tailer[g] \in {"enqueue", "blocked"} =>
         hand[g] = <<g, taken[g]>>
  BY DEF TypeInv, Carried
<1>3. InHand' = InHand \ {hand[f]}
  <2>1. /\ \A g \in Files : g # f => hand'[g] = hand[g] /\ tailer'[g] = tailer[g]
        /\ tailer'[f] = "following"
    BY DEF TypeInv, TypeOK, TailTypes
  <2>2. \A g \in Files : g # f /\ tailer[g] \in {"enqueue", "blocked"} => hand[g] # hand[f]
    BY <1>2
  <2>3. QED BY <2>1, <2>2 DEF InHand
<1>4. Queued' = Queued \cup {hand[f]}
  BY <1>1, AppendAddsToRange DEF Queued, TypeInv, TypeOK, WorkTypes
<1>5. QED BY <1>1, <1>3, <1>4 DEF Taken, Checking

LEMMA GiveUpLineMoves ==
  ASSUME TypeInv, NEW f \in Files, GiveUpLine(f)
  PROVE  /\ hand[f] \in InHand \cap Jobs
         /\ InHand' = InHand \ {hand[f]}
         /\ dropped' = dropped \cup {hand[f]}
         /\ UNCHANGED <<Taken, alertJobs, Queued, Checking, worker, job, processed>>
<1> USE DEF GiveUpLine, SelectsDone, GoTo, readVars, workVars, chanVars
<1>1. hand[f] \in InHand \cap Jobs
  BY CarriedLineIsJob DEF InHand
<1>2. \A g \in Files : tailer[g] \in {"enqueue", "blocked"} =>
         hand[g] = <<g, taken[g]>>
  BY DEF TypeInv, Carried
<1>3. InHand' = InHand \ {hand[f]}
  <2>1. /\ \A g \in Files : g # f => hand'[g] = hand[g] /\ tailer'[g] = tailer[g]
        /\ tailer'[f] = "exited"
    BY DEF TypeInv, TypeOK, TailTypes
  <2>2. \A g \in Files : g # f /\ tailer[g] \in {"enqueue", "blocked"} => hand[g] # hand[f]
    BY <1>2
  <2>3. QED BY <2>1, <2>2 DEF InHand
<1>4. QED BY <1>1, <1>3 DEF Taken, Queued, Checking

LEMMA DequeueMoves ==
  ASSUME TypeInv, NEW w \in Workers, Dequeue(w)
  PROVE  /\ Head(alertJobs) \in Queued \cap Jobs
         /\ alertJobs' = Tail(alertJobs)
         /\ Queued = {Head(alertJobs)} \cup Queued'
         /\ Checking' = Checking \cup {Head(alertJobs)}
         /\ job' = [job EXCEPT ![w] = Head(alertJobs)]
         /\ worker' = [worker EXCEPT ![w] = "checking"]
         /\ UNCHANGED <<Taken, InHand, processed, dropped>>
<1> USE DEF Dequeue, readVars
<1>1. alertJobs \in Seq(Jobs) /\ alertJobs # <<>>
  BY DEF TypeInv, TypeOK, WorkTypes
<1>2. Queued = {Head(alertJobs)} \cup Queued' /\ Head(alertJobs) \in Jobs
  BY <1>1, TailKeepsRest, HeadTailProperties DEF Queued
<1>3. Checking' = Checking \cup {Head(alertJobs)}
  BY DEF Checking, TypeInv, TypeOK, WorkTypes
<1>4. QED BY <1>2, <1>3 DEF Taken, InHand

LEMMA CheckDoneMoves ==
  ASSUME TypeInv, LineAccounting, NEW w \in Workers, CheckDone(w)
  PROVE  /\ job[w] \in Checking
         /\ Checking' = Checking \ {job[w]}
         /\ processed' = processed \cup {job[w]}
         /\ UNCHANGED <<Taken, InHand, alertJobs, Queued, dropped>>
<1> USE DEF CheckDone, readVars, chanVars
<1>1. \A v \in Workers : worker[v] = "checking" /\ v # w => job[v] # job[w]
  BY DEF LineAccounting
<1>2. /\ \A v \in Workers : v # w => job'[v] = job[v] /\ worker'[v] = worker[v]
      /\ worker'[w] = "idle"
  BY DEF TypeInv, TypeOK, WorkTypes
<1>3. Checking' = Checking \ {job[w]}
  BY <1>1, <1>2 DEF Checking
<1>4. QED BY <1>3 DEF Taken, InHand, Queued, Checking

\* The steps that move no line.
LinesUnmoved == UNCHANGED <<Taken, InHand, alertJobs, Checking, worker, job, processed, dropped>>

LEMMA OtherTailerStepsMoveNothing ==
  ASSUME TypeInv, NEW f \in Files,
         \/ TailerExit(f) \/ Stat(f) \/ StartFails(f) \/ TailFile(f) \/ TailReopen(f)
         \/ Saturate(f) \/ TailStopped(f) \/ Retry(f)
  PROVE  LinesUnmoved
<1>1. UNCHANGED <<taken, hand, alertJobs, worker, job, processed, dropped>>
  BY DEF TailerExit, Stat, StartFails, TailFile, TailReopen, Saturate, TailStopped,
     Retry, readVars, chanVars, workVars
<1>2. \A g \in Files : tailer'[g] \in {"enqueue", "blocked"}
                       <=> tailer[g] \in {"enqueue", "blocked"}
  BY DEF TailerExit, Stat, StartFails, TailFile, TailReopen, Saturate, TailStopped,
     Retry, GoTo, TypeInv, TypeOK, TailTypes
<1>3. QED BY <1>1, <1>2 DEF LinesUnmoved, Taken, InHand, Checking

LEMMA OtherStepsMoveNothing ==
  ASSUME TypeInv,
         \/ \E f \in Files : Append1(f) \/ Rotate(f)
         \/ \E w \in Workers : WorkerExit(w)
         \/ Signal \/ CloseJobs \/ Drained \/ DrainTimeout \/ CloseStore
         \/ UNCHANGED vars
  PROVE  /\ UNCHANGED <<Taken, InHand, alertJobs, Checking, processed, dropped>>
         /\ UNCHANGED job
         /\ \A w \in Workers : worker'[w] = "checking" <=> worker[w] = "checking"
<1>1. /\ UNCHANGED <<taken, hand, tailer, alertJobs, job, processed, dropped>>
      /\ \A w \in Workers : worker'[w] = "checking" <=> worker[w] = "checking"
  BY DEF Append1, Rotate, WorkerExit, Signal, CloseJobs, Drained, DrainTimeout,
     CloseStore, vars, readVars, chanVars, workVars, TypeInv, TypeOK, WorkTypes
<1>2. QED BY <1>1 DEF Taken, InHand, Checking

-----------------------------------------------------------------------------
(* Every line is in one place.                                             *)

\* A process that has exited does not run again.
LEMMA RunningBefore ==
  ASSUME [Next]_vars, Running'
  PROVE  Running
BY DEF Next, Terminated, vars, Running

LEMMA UnmovedAccounting ==
  ASSUME LineAccounting, Running' => Running,
         UNCHANGED <<Taken, InHand, alertJobs, Checking, processed, dropped, job>>,
         \A w \in Workers : worker'[w] = "checking" <=> worker[w] = "checking"
  PROVE  LineAccounting'
BY DEF LineAccounting, Queued

LEMMA NextLineAccounting ==
  TypeInv /\ LineAccounting /\ [Next]_vars => LineAccounting'
<1> SUFFICES ASSUME TypeInv, LineAccounting, [Next]_vars PROVE LineAccounting'
  OBVIOUS
<1>0. Running' => Running
  BY RunningBefore
<1>1. ASSUME NEW f \in Files, ReceiveLine(f) PROVE LineAccounting'
  <2>1. <<f, taken[f] + 1>> \notin Taken
    BY DEF Taken, TypeInv, TypeOK, HistoryTypes
  <2>2. QED
    BY <1>0, <1>1, <2>1, ReceiveLineMoves DEF LineAccounting
<1>2. ASSUME NEW f \in Files, Enqueue(f) PROVE LineAccounting'
  <2> DEFINE h == hand[f]
  <2>1. h \in InHand /\ h \in Jobs /\ InHand' = InHand \ {h} /\ Queued' = Queued \cup {h}
        /\ alertJobs' = Append(alertJobs, h)
        /\ UNCHANGED <<Taken, Checking, worker, job, processed, dropped>>
    BY <1>2, EnqueueMoves
  <2>2. \A i, k \in DOMAIN alertJobs' : alertJobs'[i] = alertJobs'[k] => i = k
    <3>1. /\ Len(alertJobs) \in Nat /\ DOMAIN alertJobs = 1 .. Len(alertJobs)
          /\ DOMAIN alertJobs' = 1 .. Len(alertJobs) + 1
          /\ alertJobs'[Len(alertJobs) + 1] = h
          /\ \A i \in 1 .. Len(alertJobs) : alertJobs'[i] = alertJobs[i]
      BY <2>1 DEF TypeInv, TypeOK, WorkTypes
    <3>2. \A i \in 1 .. Len(alertJobs) : alertJobs[i] # h
      BY <2>1, <3>1 DEF LineAccounting, Queued, Range
    <3>3. QED BY <3>1, <3>2 DEF LineAccounting
  <2>3. h \notin dropped
    BY <2>1 DEF LineAccounting
  <2> HIDE DEF h
  <2>4. QED BY <1>0, <2>1, <2>2, <2>3 DEF LineAccounting
<1>3. ASSUME NEW f \in Files, GiveUpLine(f) PROVE LineAccounting'
  <2>1. hand[f] \in InHand /\ InHand' = InHand \ {hand[f]} /\ dropped' = dropped \cup {hand[f]}
        /\ UNCHANGED <<Taken, alertJobs, Queued, Checking, worker, job, processed>>
    BY <1>3, GiveUpLineMoves
  <2>2. QED BY <1>0, <2>1 DEF LineAccounting
<1>4. ASSUME NEW w \in Workers, Dequeue(w) PROVE LineAccounting'
  <2> DEFINE h == Head(alertJobs)
  <2>1. /\ h \in Queued /\ h \in Jobs /\ alertJobs' = Tail(alertJobs)
        /\ Queued = {h} \cup Queued' /\ Checking' = Checking \cup {h}
        /\ job' = [job EXCEPT ![w] = h] /\ worker' = [worker EXCEPT ![w] = "checking"]
        /\ UNCHANGED <<Taken, InHand, processed, dropped>>
    BY <1>4, DequeueMoves
  <2>2. /\ Len(alertJobs) \in Nat \ {0} /\ h = alertJobs[1]
        /\ DOMAIN alertJobs = 1 .. Len(alertJobs)
        /\ DOMAIN alertJobs' = 1 .. Len(alertJobs) - 1
        /\ \A i \in 1 .. Len(alertJobs) - 1 : alertJobs'[i] = alertJobs[i + 1]
    <3>1. alertJobs \in Seq(Jobs) /\ alertJobs # <<>>
      BY <1>4 DEF Dequeue, TypeInv, TypeOK, WorkTypes
    <3>2. QED BY <2>1, <3>1, HeadTailProperties
  <2>3. \A i, k \in DOMAIN alertJobs' : alertJobs'[i] = alertJobs'[k] => i = k
    BY <2>2 DEF LineAccounting
  <2>4. h \notin Queued'
    BY <2>2 DEF LineAccounting, Queued, Range
  <2>5. \A u, v \in Workers : worker'[u] = "checking" /\ job'[u] = job'[v] => u = v
    <3>1. \A v \in Workers : worker[v] = "checking" => job[v] # h
      BY <2>1 DEF LineAccounting, Checking
    <3>2. \A v \in Workers : worker[v] # "checking" => job[v] # h
      BY <2>1, NoJobIsNoJob DEF TypeInv, Carried
    <3>3. QED
      BY <2>1, <3>1, <3>2 DEF LineAccounting, TypeInv, TypeOK, WorkTypes
  <2> HIDE DEF h
  <2>6. QED BY <1>0, <2>1, <2>3, <2>4, <2>5 DEF LineAccounting
<1>5. ASSUME NEW w \in Workers, CheckDone(w) PROVE LineAccounting'
  <2>1. /\ job[w] \in Checking /\ Checking' = Checking \ {job[w]}
        /\ processed' = processed \cup {job[w]}
        /\ UNCHANGED <<Taken, InHand, alertJobs, Queued, dropped>>
    BY <1>5, CheckDoneMoves
  <2>2. job[w] \notin dropped
    <3>1. Running
      BY <1>5 DEF Next, Terminated, vars, CheckDone, Running, TypeInv, TypeOK, WorkTypes
    <3>2. QED BY <2>1, <3>1 DEF LineAccounting
  <2>3. \A u, v \in Workers : worker'[u] = "checking" /\ job'[u] = job'[v] => u = v
    <3>1. /\ \A v \in Workers : v # w => job'[v] = job[v] /\ worker'[v] = worker[v]
          /\ worker'[w] = "idle" /\ job'[w] = NoJob
      BY <1>5 DEF CheckDone, TypeInv, TypeOK, WorkTypes
    <3>2. \A u \in Workers : worker[u] = "checking" => job[u] # NoJob
      BY NoJobIsNoJob DEF TypeInv, Carried
    <3>3. QED BY <3>1, <3>2 DEF LineAccounting
  <2>4. QED BY <1>0, <2>1, <2>2, <2>3 DEF LineAccounting
<1>6. CASE Exit
  <2>1. /\ UNCHANGED <<taken, hand, tailer, alertJobs, worker, job, processed>>
        /\ dropped' = dropped \cup Queued \cup Checking /\ ~Running'
    BY <1>6 DEF Exit, Running, readVars, chanVars, workVars
  <2>2. UNCHANGED <<Taken, InHand, Queued, Checking>>
    BY <2>1 DEF Taken, InHand, Queued, Checking
  <2>3. QED BY <2>1, <2>2 DEF LineAccounting
<1>7. CASE \/ \E f \in Files : Append1(f) \/ Rotate(f)
           \/ \E w \in Workers : WorkerExit(w)
           \/ Signal \/ CloseJobs \/ Drained \/ DrainTimeout \/ CloseStore
           \/ UNCHANGED vars
  BY <1>0, <1>7, OtherStepsMoveNothing, UnmovedAccounting
<1>8. ASSUME NEW f \in Files, \/ TailerExit(f) \/ Stat(f) \/ StartFails(f) \/ TailFile(f)
             \/ TailReopen(f) \/ Saturate(f) \/ TailStopped(f) \/ Retry(f)
      PROVE  LineAccounting'
  BY <1>0, <1>8, OtherTailerStepsMoveNothing, UnmovedAccounting DEF LinesUnmoved
<1>9. QED
  BY <1>1, <1>2, <1>3, <1>4, <1>5, <1>6, <1>7, <1>8
     DEF Next, Tailer, Worker, Main, Terminated

LEMMA AccountingInvariant == Spec => [](TypeInv /\ LineAccounting)
<1>1. Init => LineAccounting
  BY NoJobIsNoJob DEF Init, LineAccounting, Taken, InHand, Queued, Checking, Range, Jobs
<1>2. QED BY <1>1, InitTypeInv, NextTypeInv, NextLineAccounting, PTL DEF Spec

\* No line is lost, queued twice or checked twice between the tail and the
\* worker that checks it, through saturation and shutdown.
THEOREM EveryLineInOnePlace == Spec => []LineAccounting
BY AccountingInvariant, PTL

-----------------------------------------------------------------------------
(* Lines of one file are started in the order they were taken.             *)

LEMMA UnmovedOrder ==
  ASSUME StartedInOrder, UNCHANGED <<InHand, alertJobs, Checking, processed>>
  PROVE  StartedInOrder'
BY DEF StartedInOrder, Queued

LEMMA NextStartedInOrder ==
  TypeInv /\ LineAccounting /\ StartedInOrder /\ [Next]_vars => StartedInOrder'
<1> SUFFICES ASSUME TypeInv, LineAccounting, StartedInOrder, [Next]_vars
             PROVE  StartedInOrder'
  OBVIOUS
<1>1. ASSUME NEW f \in Files, ReceiveLine(f) PROVE StartedInOrder'
  <2>1. ASSUME NEW j \in Taken, j[1] = f PROVE j[2] < taken[f] + 1
    BY <2>1, BoundsAssumption DEF Taken, Jobs, TypeInv, TypeOK, HistoryTypes
  <2>2. Queued \cup Checking \cup processed \subseteq Taken
    BY DEF LineAccounting
  <2>3. QED
    BY <1>1, <2>1, <2>2, ReceiveLineMoves DEF StartedInOrder
<1>2. ASSUME NEW f \in Files, Enqueue(f) PROVE StartedInOrder'
  <2> DEFINE h == hand[f]
  <2>1. h \in InHand /\ InHand' = InHand \ {h} /\ Queued' = Queued \cup {h}
        /\ alertJobs' = Append(alertJobs, h) /\ h \in Jobs
        /\ UNCHANGED <<Taken, Checking, worker, job, processed, dropped>>
    BY <1>2, EnqueueMoves
  <2>2. \A i, k \in DOMAIN alertJobs' :
          i < k /\ alertJobs'[i][1] = alertJobs'[k][1] => alertJobs'[i][2] < alertJobs'[k][2]
    <3>1. /\ Len(alertJobs) \in Nat /\ DOMAIN alertJobs = 1 .. Len(alertJobs)
          /\ DOMAIN alertJobs' = 1 .. Len(alertJobs) + 1
          /\ alertJobs'[Len(alertJobs) + 1] = h
          /\ \A i \in 1 .. Len(alertJobs) : alertJobs'[i] = alertJobs[i]
      BY <2>1 DEF TypeInv, TypeOK, WorkTypes
    <3>2. \A i \in 1 .. Len(alertJobs) : alertJobs[i][1] = h[1] => alertJobs[i][2] < h[2]
      BY <2>1, <3>1 DEF StartedInOrder, Queued, Range
    <3>3. QED BY <3>1, <3>2 DEF StartedInOrder
  <2>3. ASSUME NEW g \in InHand', NEW j \in Queued' \cup Checking' \cup processed', j[1] = g[1]
        PROVE  j[2] < g[2]
    <3>1. CASE j = h
      <4>1. \A a, b \in Files : /\ tailer[a] \in {"enqueue", "blocked"}
                                /\ tailer[b] \in {"enqueue", "blocked"}
                                /\ hand[a][1] = hand[b][1]
                                => hand[a] = hand[b]
        BY DEF TypeInv, Carried
      <4>2. \A a, b \in InHand : a[1] = b[1] => a = b
        BY <4>1 DEF InHand
      <4>3. QED BY <2>1, <2>3, <3>1, <4>2
    <3>2. CASE j # h
      BY <2>1, <2>3, <3>2 DEF StartedInOrder
    <3>3. QED BY <3>1, <3>2
  <2> HIDE DEF h
  <2>4. \A q \in Queued' : \A j \in Checking' \cup processed' : j[1] = q[1] => j[2] < q[2]
    BY <2>1 DEF StartedInOrder
  <2>5. QED BY <2>2, <2>3, <2>4 DEF StartedInOrder
<1>3. ASSUME NEW f \in Files, GiveUpLine(f) PROVE StartedInOrder'
  BY <1>3, GiveUpLineMoves DEF StartedInOrder
<1>4. ASSUME NEW w \in Workers, Dequeue(w) PROVE StartedInOrder'
  <2> DEFINE h == Head(alertJobs)
  <2>1. /\ h \in Queued /\ Queued = {h} \cup Queued' /\ Checking' = Checking \cup {h}
        /\ UNCHANGED <<Taken, InHand, processed, dropped>>
    BY <1>4, DequeueMoves
  <2>2. /\ Len(alertJobs) \in Nat \ {0} /\ h = alertJobs[1]
        /\ DOMAIN alertJobs = 1 .. Len(alertJobs)
        /\ DOMAIN alertJobs' = 1 .. Len(alertJobs) - 1
        /\ \A i \in 1 .. Len(alertJobs) - 1 : alertJobs'[i] = alertJobs[i + 1]
    <3>1. alertJobs \in Seq(Jobs) /\ alertJobs # <<>> /\ alertJobs' = Tail(alertJobs)
      BY <1>4 DEF Dequeue, TypeInv, TypeOK, WorkTypes
    <3>2. QED BY <3>1, HeadTailProperties
  <2>3. \A i, k \in DOMAIN alertJobs' :
          i < k /\ alertJobs'[i][1] = alertJobs'[k][1] => alertJobs'[i][2] < alertJobs'[k][2]
    <3>1. SUFFICES ASSUME NEW i \in DOMAIN alertJobs', NEW k \in DOMAIN alertJobs', i < k,
                          alertJobs'[i][1] = alertJobs'[k][1]
                   PROVE  alertJobs'[i][2] < alertJobs'[k][2]
      OBVIOUS
    <3>2. /\ i + 1 \in DOMAIN alertJobs /\ k + 1 \in DOMAIN alertJobs /\ i + 1 < k + 1
          /\ alertJobs'[i] = alertJobs[i + 1] /\ alertJobs'[k] = alertJobs[k + 1]
      BY <2>2, <3>1
    <3>3. QED BY <3>1, <3>2 DEF StartedInOrder
  <2>4. \A q \in Queued' : h[1] = q[1] => h[2] < q[2]
    <3>1. SUFFICES ASSUME NEW i \in DOMAIN alertJobs', h[1] = alertJobs'[i][1]
                   PROVE  h[2] < alertJobs'[i][2]
      BY DEF Queued, Range
    <3>2. /\ 1 \in DOMAIN alertJobs /\ i + 1 \in DOMAIN alertJobs /\ 1 < i + 1
          /\ alertJobs'[i] = alertJobs[i + 1]
      BY <2>2
    <3>3. QED BY <2>2, <3>1, <3>2 DEF StartedInOrder
  <2> HIDE DEF h
  <2>5. QED BY <2>1, <2>3, <2>4 DEF StartedInOrder
<1>5. ASSUME NEW w \in Workers, CheckDone(w) PROVE StartedInOrder'
  BY <1>5, CheckDoneMoves DEF StartedInOrder
<1>6. CASE Exit
  <2>1. UNCHANGED <<hand, tailer, alertJobs, worker, job, processed>>
    BY <1>6 DEF Exit, chanVars, workVars
  <2>2. UNCHANGED <<InHand, alertJobs, Checking, processed>>
    BY <2>1 DEF InHand, Checking
  <2>3. QED BY <2>2, UnmovedOrder
<1>7. CASE \/ \E f \in Files : Append1(f) \/ Rotate(f)
           \/ \E w \in Workers : WorkerExit(w)
           \/ Signal \/ CloseJobs \/ Drained \/ DrainTimeout \/ CloseStore
           \/ UNCHANGED vars
  BY <1>7, OtherStepsMoveNothing, UnmovedOrder
<1>8. ASSUME NEW f \in Files, \/ TailerExit(f) \/ Stat(f) \/ StartFails(f) \/ TailFile(f)
             \/ TailReopen(f) \/ Saturate(f) \/ TailStopped(f) \/ Retry(f)
      PROVE  StartedInOrder'
  BY <1>8, OtherTailerStepsMoveNothing, UnmovedOrder DEF LinesUnmoved
<1>9. QED
  BY <1>1, <1>2, <1>3, <1>4, <1>5, <1>6, <1>7, <1>8
     DEF Next, Tailer, Worker, Main, Terminated

\* The backpressure path never lets a line of a file overtake an earlier one.
THEOREM LinesStartInOrder == Spec => []StartedInOrder
<1>1. Init => StartedInOrder
  BY DEF Init, StartedInOrder, InHand, Queued, Checking, Range
<1>2. QED BY <1>1, AccountingInvariant, NextStartedInOrder, PTL DEF Spec

-----------------------------------------------------------------------------
(* The tail's position.                                                    *)

\* Every line of f appended after its tail first began, up to position k, was
\* taken.
Covered(f, k) == \A n \in 1 .. MaxLines : boot[f] < n /\ n <= k => n \in read[f]

\* Neither the open tail of a file never rotated nor the offset kept for its
\* next start has passed a line that was not taken; a tail is opened only after
\* the offset was set.
Position(f) ==
  rotations[f] = 0 =>
    /\ base[f] = 0
    /\ tailer[f] = "open" \/ TailOpen(f) => offsetInitialized[f]
    /\ offsetInitialized[f] => Covered(f, nextOffset[f])
    /\ TailOpen(f) => handle[f] = 0 /\ Covered(f, at[f])

PositionInv == \A f \in Files : Position(f)

\* A step that leaves the position of f alone and does not open its tail.
PositionUnmoved(f) ==
  /\ UNCHANGED <<base[f], rotations[f], nextOffset[f], offsetInitialized[f],
                 at[f], handle[f], read[f], boot[f]>>
  /\ TailOpen(f)' => TailOpen(f)
  /\ tailer[f]' = "open" => tailer[f] = "open"

LEMMA UnmovedPosition ==
  ASSUME NEW f \in Files, Position(f), PositionUnmoved(f)
  PROVE  Position(f)'
BY DEF Position, PositionUnmoved, Covered

\* The offset of a start never lies behind what was covered: the end of the
\* file at the first start, later the old offset or 0.
LEMMA StatKeepsPosition ==
  ASSUME TypeInv, NEW f \in Files, Position(f), Stat(f)
  PROVE  Position(f)'
<1> USE DEF Stat, GoTo, fileVars, chanVars, workVars, mainVars
<1>1. SUFFICES ASSUME rotations[f] = 0 PROVE Position(f)'
  BY DEF Position, TypeInv, TypeOK, FileTypes
<1>2. /\ nextOffset'[f] = OffsetAfterStat(f) /\ offsetInitialized'[f] = TRUE
      /\ boot'[f] = IF offsetInitialized[f] THEN boot[f] ELSE written[f]
      /\ tailer'[f] = "open" /\ base[f] = 0 /\ UNCHANGED <<base, rotations, read>>
      /\ written[f] \in Nat /\ nextOffset[f] \in Int /\ boot[f] \in Nat
  BY <1>1 DEF TypeInv, TypeOK, TailTypes, FileTypes, HistoryTypes, Position
<1>3. Covered(f, nextOffset[f])'
  <2>1. CASE ~offsetInitialized[f]
    <3>1. nextOffset'[f] = boot'[f]
      BY <1>2, <2>1 DEF OffsetAfterStat, FileSize
    <3>2. QED BY <1>2, <2>1, <3>1 DEF Covered
  <2>2. CASE offsetInitialized[f]
    <3>1. Covered(f, nextOffset[f]) /\ boot'[f] = boot[f]
      BY <1>1, <1>2, <2>2 DEF Position
    <3>2. nextOffset'[f] = 0 \/ nextOffset'[f] = nextOffset[f]
      BY <1>2, <2>2 DEF OffsetAfterStat
    <3>3. QED BY <1>2, <3>1, <3>2 DEF Covered
  <2>3. QED BY <2>1, <2>2
<1>4. ~TailOpen(f)'
  BY <1>2 DEF TailOpen
<1>5. QED BY <1>2, <1>3, <1>4 DEF Position

LEMMA TailFileKeepsPosition ==
  ASSUME TypeInv, NEW f \in Files, Position(f), TailFile(f)
  PROVE  Position(f)'
<1> USE DEF TailFile, GoTo, fileVars, chanVars, workVars, mainVars, readVars
<1>1. SUFFICES ASSUME rotations[f] = 0 PROVE Position(f)'
  BY DEF Position
<1>2. /\ at'[f] = nextOffset[f] /\ handle'[f] = 0 /\ base[f] = 0
      /\ offsetInitialized[f] /\ Covered(f, nextOffset[f])
      /\ UNCHANGED <<base, rotations, read, boot, nextOffset, offsetInitialized>>
  BY <1>1 DEF Position, TypeInv, TypeOK, TailTypes
<1>3. QED BY <1>2 DEF Position, Covered

LEMMA TailReopenKeepsPosition ==
  ASSUME TypeInv, NEW f \in Files, Position(f), TailReopen(f)
  PROVE  Position(f)'
<1> USE DEF TailReopen, fileVars, chanVars, workVars, mainVars, readVars
<1>1. SUFFICES ASSUME rotations[f] = 0 PROVE Position(f)'
  BY DEF Position
<1>2. /\ at'[f] = 0 /\ handle'[f] = 0 /\ base[f] = 0
      /\ offsetInitialized[f] /\ Covered(f, nextOffset[f]) /\ boot[f] \in Nat
      /\ UNCHANGED <<base, rotations, read, boot, nextOffset, offsetInitialized, tailer>>
  BY <1>1 DEF Position, TypeInv, TypeOK, TailTypes, HistoryTypes
<1>3. QED BY <1>2 DEF Position, Covered

\* The one step that moves an open tail forward takes the line it passes.
LEMMA ReceiveLineKeepsPosition ==
  ASSUME TypeInv, NEW f \in Files, Position(f), ReceiveLine(f)
  PROVE  Position(f)'
<1> USE DEF ReceiveLine, GoTo, fileVars, chanVars, workVars, mainVars
<1>1. SUFFICES ASSUME rotations[f] = 0 PROVE Position(f)'
  BY DEF Position
<1>2. /\ at'[f] = at[f] + 1 /\ at[f] \in Int /\ read'[f] = read[f] \cup {at[f] + 1}
      /\ UNCHANGED <<base, rotations, boot, nextOffset, offsetInitialized, handle>>
  BY DEF TypeInv, TypeOK, TailTypes, HistoryTypes
<1>3. /\ base[f] = 0 /\ handle[f] = 0 /\ offsetInitialized[f]
      /\ Covered(f, nextOffset[f]) /\ Covered(f, at[f])
  BY <1>1 DEF Position, TailOpen
<1>4. Covered(f, nextOffset[f])' /\ Covered(f, at[f])'
  BY <1>2, <1>3 DEF Covered
<1>5. QED BY <1>2, <1>3, <1>4 DEF Position

\* Whatever Tell leaves is the position of the tail, the old offset or 0.
LEMMA TailStoppedKeepsPosition ==
  ASSUME TypeInv, NEW f \in Files, Position(f), TailStopped(f)
  PROVE  Position(f)'
<1> USE DEF TailStopped, GoTo, fileVars, chanVars, workVars, mainVars, readVars
<1>1. SUFFICES ASSUME rotations[f] = 0 PROVE Position(f)'
  BY DEF Position
<1>2. /\ base[f] = 0 /\ handle[f] = 0 /\ offsetInitialized[f] /\ boot[f] \in Nat
      /\ Covered(f, nextOffset[f]) /\ Covered(f, at[f])
      /\ UNCHANGED <<base, rotations, read, boot, offsetInitialized>>
      /\ tailer'[f] = "sleeping"
  BY <1>1 DEF Position, TailOpen, TypeInv, TypeOK, TailTypes, HistoryTypes
<1>3. nextOffset'[f] \in {at[f], nextOffset[f], 0}
  <2>1. PICK offset \in OffsetAfterTell(f) : nextOffset' = [nextOffset EXCEPT ![f] = offset]
    OBVIOUS
  <2>2. nextOffset'[f] = offset /\ at[f] \in Int
    BY <2>1 DEF TypeInv, TypeOK, TailTypes
  <2>3. QED BY <1>2, <2>1, <2>2 DEF OffsetAfterTell
<1>4. Covered(f, nextOffset[f])'
  BY <1>2, <1>3 DEF Covered
<1>5. QED BY <1>2, <1>4 DEF Position, TailOpen

LEMMA NextPositionInv == TypeInv /\ PositionInv /\ [Next]_vars => PositionInv'
<1> SUFFICES ASSUME TypeInv, PositionInv, [Next]_vars, NEW f \in Files
             PROVE  Position(f)'
  BY DEF PositionInv
<1>0. Position(f)
  BY DEF PositionInv
<1>1. ASSUME NEW g \in Files, Rotate(g) PROVE Position(f)'
  <2>1. CASE g = f
    BY <1>1, <2>1 DEF Rotate, Position, TypeInv, TypeOK, FileTypes
  <2>2. CASE g # f
    <3>1. PositionUnmoved(f)
      BY <1>1, <2>2 DEF Rotate, PositionUnmoved, TailOpen, tailVars, readVars,
         TypeInv, TypeOK, FileTypes
    <3>2. QED BY <1>0, <3>1, UnmovedPosition
  <2>3. QED BY <2>1, <2>2
<1>2. ASSUME NEW g \in Files, Tailer(g), g # f PROVE PositionUnmoved(f)
  <2>1. CASE TailerExit(g) \/ Enqueue(g) \/ Saturate(g) \/ GiveUpLine(g) \/ Retry(g)
    BY <1>2, <2>1 DEF TailerExit, Enqueue, Saturate, GiveUpLine, Retry, GoTo, PositionUnmoved,
       TailOpen, fileVars, tailVars, readVars, TypeInv, TypeOK, TailTypes
  <2>2. CASE Stat(g) \/ StartFails(g) \/ TailFile(g)
    BY <1>2, <2>2 DEF Stat, StartFails, TailFile, GoTo, PositionUnmoved,
       TailOpen, fileVars, readVars, TypeInv, TypeOK, TailTypes, HistoryTypes
  <2>3. CASE TailReopen(g) \/ ReceiveLine(g) \/ TailStopped(g)
    BY <1>2, <2>3 DEF TailReopen, ReceiveLine, TailStopped, GoTo, PositionUnmoved,
       TailOpen, fileVars, readVars, TypeInv, TypeOK, TailTypes, HistoryTypes
  <2>4. QED BY <1>2, <2>1, <2>2, <2>3 DEF Tailer
<1>3. CASE \/ TailerExit(f) \/ StartFails(f) \/ Enqueue(f) \/ Saturate(f)
           \/ GiveUpLine(f) \/ Retry(f)
  <2>1. PositionUnmoved(f)
    BY <1>3 DEF TailerExit, StartFails, Enqueue, Saturate, GiveUpLine, SelectsDone, Retry, GoTo,
       PositionUnmoved, TailOpen, fileVars, tailVars, readVars, TypeInv, TypeOK, TailTypes
  <2>2. QED BY <1>0, <2>1, UnmovedPosition
<1>4. CASE Tailer(f)
  BY <1>0, <1>3, <1>4, StatKeepsPosition, TailFileKeepsPosition, TailReopenKeepsPosition,
     ReceiveLineKeepsPosition, TailStoppedKeepsPosition DEF Tailer
<1>5. CASE \/ \E g \in Files : Append1(g)
           \/ \E w \in Workers : Worker(w)
           \/ Signal \/ Main \/ UNCHANGED vars
  <2>1. UNCHANGED <<base, rotations, tailer, nextOffset, offsetInitialized, at, handle,
                    read, boot>>
    BY <1>5 DEF Append1, Worker, Dequeue, CheckDone, WorkerExit, Signal, Main, CloseJobs,
       Drained, DrainTimeout, CloseStore, Exit, vars, fileVars, tailVars, readVars
  <2>2. PositionUnmoved(f)
    BY <2>1 DEF PositionUnmoved, TailOpen
  <2>3. QED BY <1>0, <2>2, UnmovedPosition
<1>6. QED
  BY <1>0, <1>1, <1>2, <1>4, <1>5, UnmovedPosition DEF Next, Terminated

\* No stop or failed start of a tail makes it pass a line of a file that was
\* never rotated (main.go: nextOffset is set from Tell when a tail stops, and
\* only lowered by the next start).
THEOREM NoLineIsSkipped == Spec => []NoLineSkipped
<1>1. Init => PositionInv
  BY DEF Init, PositionInv, Position, TailOpen
<1>2. TypeInv /\ PositionInv => NoLineSkipped
  BY DEF PositionInv, Position, Covered, NoLineSkipped
<1>3. QED BY <1>1, <1>2, InitTypeInv, NextTypeInv, NextPositionInv, PTL DEF Spec

-----------------------------------------------------------------------------
(* Pipeline implements LineDelivery.                                       *)

LEMMA StepRefines ==
  TypeInv /\ ShutdownInv /\ LineAccounting /\ LineAccounting' /\ [Next]_vars
    => [LD!Next]_(LD!vars)
<1> SUFFICES ASSUME TypeInv, ShutdownInv, LineAccounting, LineAccounting', [Next]_vars
             PROVE  [LD!Next]_(LD!vars)
  OBVIOUS
<1>1. ASSUME NEW f \in Files, ReceiveLine(f) PROVE [LD!Next]_(LD!vars)
  <2> DEFINE l == <<f, taken[f] + 1>>
  <2>1. l \in Jobs /\ l \notin Taken
    BY <1>1, BoundsAssumption DEF Jobs, Taken, ReceiveLine, TypeInv, TypeOK, HistoryTypes
  <2>2. Taken' = Taken \cup {l} /\ UNCHANGED <<processed, dropped, cancelled>>
    BY <1>1, ReceiveLineMoves DEF ReceiveLine
  <2>3. LD!Take(l)
    BY <2>1, <2>2 DEF LD!Take
  <2>4. QED BY <2>1, <2>3 DEF LD!Next
<1>2. ASSUME NEW f \in Files, GiveUpLine(f) PROVE [LD!Next]_(LD!vars)
  <2>1. /\ hand[f] \in InHand /\ dropped' = dropped \cup {hand[f]} /\ cancelled
        /\ UNCHANGED <<Taken, processed, cancelled>>
    BY <1>2, GiveUpLineMoves DEF GiveUpLine
  <2>2. {hand[f]} \in SUBSET LD!Pending
    BY <2>1 DEF LineAccounting, LD!Pending
  <2>3. LD!GiveUp({hand[f]})
    BY <2>1, <2>2 DEF LD!GiveUp
  <2>4. QED BY <2>2, <2>3 DEF LD!Next
<1>3. ASSUME NEW w \in Workers, CheckDone(w) PROVE [LD!Next]_(LD!vars)
  <2>1. /\ job[w] \in Checking /\ processed' = processed \cup {job[w]}
        /\ UNCHANGED <<Taken, dropped, cancelled>>
    BY <1>3, CheckDoneMoves DEF CheckDone
  <2>2. Running
    BY <1>3 DEF Next, Terminated, vars, CheckDone, Running, TypeInv, TypeOK, WorkTypes
  <2>3. job[w] \in LD!Pending /\ job[w] \in Jobs
    BY <2>1, <2>2 DEF LineAccounting, LD!Pending, Taken
  <2>4. LD!Process(job[w])
    BY <2>1, <2>3 DEF LD!Process
  <2>5. QED BY <2>3, <2>4 DEF LD!Next
<1>4. CASE Exit
  <2> DEFINE S == (Queued \cup Checking)
  <2>1. dropped' = dropped \cup S /\ UNCHANGED <<taken, processed, cancelled>>
    BY <1>4 DEF Exit, readVars, workVars
  <2>2. S \in SUBSET LD!Pending
    <3>1. Running
      BY <1>4 DEF Exit, Running
    <3>2. QED BY <3>1 DEF LineAccounting, LD!Pending
  <2>3. cancelled
    BY <1>4 DEF Exit, ShutdownInv
  <2>4. LD!GiveUp(S)
    BY <2>1, <2>2, <2>3 DEF LD!GiveUp, Taken
  <2> HIDE DEF S
  <2>5. QED BY <2>2, <2>4 DEF LD!Next
<1>5. CASE Signal
  <2>1. cancelled' = TRUE /\ UNCHANGED <<Taken, processed, dropped>>
    BY <1>5 DEF Signal, Taken, readVars, workVars
  <2>2. QED BY <2>1 DEF LD!Next, LD!Stop
<1>6. CASE \/ \E f \in Files : Append1(f) \/ Rotate(f) \/ Enqueue(f)
                 \/ TailerExit(f) \/ Stat(f) \/ StartFails(f) \/ TailFile(f)
                 \/ TailReopen(f) \/ Saturate(f) \/ TailStopped(f) \/ Retry(f)
           \/ \E w \in Workers : Dequeue(w) \/ WorkerExit(w)
           \/ CloseJobs \/ Drained \/ DrainTimeout \/ CloseStore
           \/ UNCHANGED vars
  <2>1. UNCHANGED <<taken, processed, dropped, cancelled>>
    BY <1>6 DEF Append1, Rotate, Enqueue, TailerExit, Stat, StartFails, TailFile,
       TailReopen, Saturate, TailStopped, Retry, Dequeue, WorkerExit, CloseJobs,
       Drained, DrainTimeout, CloseStore, vars, readVars, workVars
  <2>2. QED BY <2>1 DEF LD!vars, Taken
<1>7. QED
  BY <1>1, <1>2, <1>3, <1>4, <1>5, <1>6
     DEF Next, Tailer, Worker, Main, Terminated

\* A line taken from a file stays pending until it is checked once, or given
\* up after shutdown was requested.
THEOREM KeepsLineDelivery == Spec => DeliversLines
<1>1. Init => LD!Init
  BY DEF Init, LD!Init, Taken, Jobs
<1>2. QED
  BY <1>1, AccountingInvariant, ShutdownInvariant, StepRefines, PTL
     DEF Spec, LD!Spec, DeliversLines
=============================================================================
