-------------------------- MODULE Observers_proofs --------------------------
(***************************************************************************)
(* That the records of finished workflows are complete and that a replayed  *)
(* step has its original, for any workflow, cases, runs and crashes.        *)
(***************************************************************************)
EXTENDS Observers, TLAPS

USE ObserversAssumption

LEMMA StepsType == Len(Steps) \in Nat /\ DOMAIN Steps = 1..Len(Steps)
                   /\ \A i \in DOMAIN Steps : Steps[i] \in StepNames
BY DEF StepNames

LEMMA NotRunningType ==
  NotRunning \in RunStates
  /\ \A at \in {"idle", "step", "over", "done"} : [NotRunning EXCEPT !.at = at] \in RunStates
<1>1. 1 \in 1..(Len(Steps) + 1) /\ None \in Results /\ <<>> \in Seq(StepRecords)
  BY StepsType DEF Results
<1> QED BY <1>1 DEF NotRunning, RunStates

LEMMA InitType == Init => TypeOK
<1> SUFFICES ASSUME Init PROVE TypeOK
  OBVIOUS
<1>1. run \in [Cases -> RunStates] /\ runs \in [Cases -> Nat]
  BY NotRunningType DEF Init
<1>2. checkpoint \in [Cases -> [DOMAIN Steps -> Results]]
  BY DEF Init, Results
<1>3. {memory, buffer, file} \subseteq Seq(LogRecords) /\ channel \in Seq(LogRecords \cup Flushes)
  BY DEF Init
<1>4. /\ stored \subseteq Cases /\ ioFailed \in BOOLEAN /\ writer \in {"opening", "open", "ended"}
      /\ notified \subseteq Cases \X Nat /\ inherited \subseteq Cases \X StepNames
  BY DEF Init
<1>5. crashes \in 0..MaxCrashes
  BY DEF Init
<1> QED BY <1>1, <1>2, <1>3, <1>4, <1>5 DEF TypeOK

\* Emitting records of the logs' type keeps the logs.
LEMMA EmitType ==
  ASSUME TypeOK, NEW records \in Seq(LogRecords), Emit(records)
  PROVE  /\ {memory', buffer', file'} \subseteq Seq(LogRecords)
         /\ channel' \in Seq(LogRecords \cup Flushes)
         /\ writer' \in {"opening", "open", "ended"} /\ ioFailed' \in BOOLEAN
<1> USE DEF TypeOK
<1>1. memory' \in Seq(LogRecords)
  BY DEF Emit
<1>2. records \in Seq(LogRecords \cup Flushes)
  OBVIOUS
<1>3. channel \o records \in Seq(LogRecords \cup Flushes)
  BY <1>2
<1>4. channel' \in Seq(LogRecords \cup Flushes)
  BY <1>3 DEF Emit, Send
<1> QED BY <1>1, <1>4 DEF Emit

LEMMA StepRecordType ==
  ASSUME NEW c \in Cases, NEW s \in StepNames, NEW out \in Results, NEW cached \in BOOLEAN
  PROVE  StepRecord(c, s, out, cached) \in StepRecords
         /\ StepRecord(c, s, out, cached) \in LogRecords
         /\ LlmCallRecord(c, s, out) \in LogRecords
BY DEF StepRecord, StepRecords, LogRecords, LlmCallRecord

LEMMA ListedIsComplete ==
  ASSUME NEW list \in Seq(StepRecords), ListedUpTo(list, Len(Steps))
  PROVE  IsComplete(list)
<1>1. DOMAIN list = DOMAIN Steps
  BY StepsType DEF ListedUpTo
<1>2. [i \in DOMAIN list |-> list[i].step] = [i \in DOMAIN Steps |-> Steps[i]]
  BY <1>1, StepsType DEF ListedUpTo
<1>3. Steps = [i \in DOMAIN Steps |-> Steps[i]]
  OBVIOUS
<1> QED BY <1>1, <1>2, <1>3, StepsType DEF IsComplete, ListedUpTo

\* A delete of all checkpoints of a case.
LEMMA ClearedType ==
  ASSUME TypeOK, NEW c \in Cases
  PROVE  /\ Cleared(c) \in [Cases -> [DOMAIN Steps -> Results]]
         /\ \A d \in Cases, i \in DOMAIN Steps : Cleared(c)[d][i] \in {checkpoint[d][i], None}
<1>1. [i \in DOMAIN Steps |-> None] \in [DOMAIN Steps -> Results]
  BY DEF Results
<1> QED BY <1>1 DEF TypeOK, Cleared

LEMMA RunStepType ==
  ASSUME TypeOK, ListsInv, NEW c \in Cases, RunStep(c)
  PROVE  TypeOK'
<1> USE DEF TypeOK
<1>0. run[c] \in RunStates
  OBVIOUS
<1>1. CASE RunStart(c)
  BY <1>1, NotRunningType DEF RunStart, jsonl
<1>2. CASE StepRestored(c)
  <2>1. run[c].pos \in DOMAIN Steps /\ Step(c) \in StepNames
    BY <1>0, <1>2, StepsType DEF StepRestored, RunStates, Step
  <2>2. CheckpointRecord(c) \in StepRecords /\ CheckpointRecord(c) \in LogRecords
    <3>1. checkpoint[c][run[c].pos] \in Results
      BY <2>1
    <3> QED BY <2>1, <3>1, StepRecordType DEF CheckpointRecord
  <2>3. run' \in [Cases -> RunStates]
    BY <1>0, <1>2, <2>1, <2>2, StepsType DEF StepRestored, RunStates
  <2>4. <<CheckpointRecord(c)>> \in Seq(LogRecords)
    BY <2>2
  <2> QED BY <1>2, <2>3, <2>4, EmitType DEF StepRestored
<1>3. CASE StepRuns(c)
  <2>1. run' \in [Cases -> RunStates]
    BY <1>0, <1>3 DEF StepRuns, RunStates
  <2> QED BY <1>3, <2>1 DEF StepRuns, jsonl
<1>4. ASSUME NEW out \in Results, ClosureReturns(c, out) PROVE TypeOK'
  <2>1. run[c].pos \in DOMAIN Steps /\ Step(c) \in StepNames
    <3>1. run[c].pos \in 1..(Len(Steps) + 1) /\ run[c].pos <= Len(Steps)
      BY <1>0, <1>4 DEF ClosureReturns, ListsInv, ListsFor, RunStates, At
    <3> QED BY <3>1, StepsType DEF Step
  <2> DEFINE r == StepRecord(c, Step(c), out, FALSE)
  <2>2. r \in StepRecords /\ r \in LogRecords /\ LlmCallRecord(c, Step(c), out) \in LogRecords
    BY <2>1, StepRecordType
  <2> HIDE DEF r
  <2>3. Append(run[c].records, r) \in Seq(StepRecords)
    BY <1>0, <2>2 DEF RunStates
  <2>4. run' \in [Cases -> RunStates]
    <3>1. CASE out = None
      BY <1>4, <3>1, NotRunningType DEF ClosureReturns, Returned
    <3>2. CASE out # None
      <4>1. run' = [run EXCEPT ![c].at = "save", ![c].out = out, ![c].records = Append(@, r)]
        BY <1>4, <3>2 DEF ClosureReturns, Returned, r
      <4> QED BY <1>0, <2>3, <4>1 DEF RunStates
    <3> QED BY <3>1, <3>2
  <2>5. <<LlmCallRecord(c, Step(c), out), r>> \in Seq(LogRecords)
    BY <2>2
  <2>6. Emit(<<LlmCallRecord(c, Step(c), out), r>>)
    BY <1>4 DEF ClosureReturns, r
  <2> QED BY <1>4, <2>4, <2>5, <2>6, EmitType DEF ClosureReturns
<1>5. CASE SaveOk(c) \/ SaveErr(c)
  <2>1. run[c].pos \in DOMAIN Steps /\ run[c].out \in Results
    BY <1>0, <1>5, StepsType DEF SaveOk, SaveErr, ListsInv, ListsFor, At, RunStates
  <2>2. checkpoint' \in [Cases -> [DOMAIN Steps -> Results]]
    <3>1. [checkpoint EXCEPT ![c][run[c].pos] = run[c].out] \in [Cases -> [DOMAIN Steps -> Results]]
      BY <2>1
    <3> QED BY <1>5, <3>1 DEF SaveOk, SaveErr
  <2>3. run' \in [Cases -> RunStates]
    <3>1. CASE SaveOk(c)
      <4>1. run[c].pos + 1 \in 1..(Len(Steps) + 1) /\ None \in Results
        BY <2>1, StepsType DEF Results
      <4>2. [run[c] EXCEPT !.at = "step", !.pos = @ + 1, !.out = None] \in RunStates
        BY <1>0, <4>1 DEF RunStates
      <4>3. run' = [run EXCEPT ![c] = [run[c] EXCEPT !.at = "step", !.pos = @ + 1, !.out = None]]
        BY <3>1 DEF SaveOk
      <4> QED BY <4>2, <4>3
    <3>2. CASE SaveErr(c)
      BY <3>2, NotRunningType DEF SaveErr
    <3> QED BY <1>5, <3>1, <3>2
  <2> QED BY <1>5, <2>2, <2>3 DEF SaveOk, SaveErr, jsonl
<1>6. CASE FinishUpsert(c)
  <2>1. run' \in [Cases -> RunStates]
    <3>1. [run[c] EXCEPT !.at = "complete"] \in RunStates
      BY <1>0 DEF RunStates
    <3>2. \/ run' = [run EXCEPT ![c] = [run[c] EXCEPT !.at = "complete"]]
          \/ run' = [run EXCEPT ![c] = NotRunning]
      BY <1>6 DEF FinishUpsert
    <3> QED BY <3>1, <3>2, NotRunningType
  <2> QED BY <1>6, <2>1 DEF FinishUpsert, jsonl
<1>7. CASE FinishComplete(c)
  <2>1. run' \in [Cases -> RunStates]
    BY <1>0, <1>7 DEF FinishComplete, RunStates
  <2>2. checkpoint' \in [Cases -> [DOMAIN Steps -> Results]]
    BY <1>7, ClearedType DEF FinishComplete
  <2>3. run[c].records \in Seq(StepRecords) /\ ListedUpTo(run[c].records, Len(Steps))
    <3>1. run[c].pos = Len(Steps) + 1 /\ ListedUpTo(run[c].records, run[c].pos - 1)
      BY <1>7 DEF FinishComplete, ListsInv, ListsFor, At
    <3>2. run[c].pos - 1 = Len(Steps)
      BY <3>1, StepsType
    <3> QED BY <1>0, <3>1, <3>2 DEF RunStates
  <2>4. WorkflowRecord(c, run[c].records) \in LogRecords
    BY <2>3, ListedIsComplete DEF WorkflowRecord, LogRecords
  <2>5. <<WorkflowRecord(c, run[c].records)>> \in Seq(LogRecords)
    BY <2>4
  <2> QED BY <1>7, <2>1, <2>2, <2>5, EmitType DEF FinishComplete
<1>8. CASE FlushSend(c)
  <2>1. run' \in [Cases -> RunStates]
    BY <1>0, <1>8 DEF FlushSend, RunStates
  <2>2. <<[kind |-> "flush", case |-> c, run |-> runs[c]]>> \in Seq(LogRecords \cup Flushes)
    BY DEF Flushes
  <2>3. channel' \in Seq(LogRecords \cup Flushes)
    <3>1. channel \o <<[kind |-> "flush", case |-> c, run |-> runs[c]]>>
            \in Seq(LogRecords \cup Flushes)
      BY <2>2
    <3> QED BY <1>8, <3>1 DEF FlushSend, Send
  <2> QED BY <1>8, <2>1, <2>3 DEF FlushSend
<1>9. CASE FlushAwait(c)
  <2>1. [run[c] EXCEPT !.at = "waiting"] \in RunStates
    BY <1>0 DEF RunStates
  <2>2. run' \in [Cases -> RunStates]
    <3>1. \/ run' = [run EXCEPT ![c] = [run[c] EXCEPT !.at = "waiting"]]
          \/ run' = [run EXCEPT ![c] = [NotRunning EXCEPT !.at = "done"]]
      BY <1>9 DEF FlushAwait, FinishReturns
    <3> QED BY <2>1, <3>1, NotRunningType
  <2> QED BY <1>9, <2>2 DEF FlushAwait, jsonl
<1> QED BY <1>1, <1>2, <1>3, <1>4, <1>5, <1>6, <1>7, <1>8, <1>9 DEF RunStep, Results

\* The writer task only moves records along, and wakes runs.
LEMMA WriterType ==
  ASSUME TypeOK, Writer
  PROVE  TypeOK'
<1> USE DEF TypeOK
<1>1. CASE OpenFile
  <2>1. channel' = channel \/ channel' = <<>>
    BY <1>1 DEF OpenFile
  <2>2. <<>> \in Seq(LogRecords \cup Flushes) /\ channel \in Seq(LogRecords \cup Flushes)
    OBVIOUS
  <2>3. channel' \in Seq(LogRecords \cup Flushes)
    BY <2>1, <2>2
  <2> QED BY <1>1, <2>3 DEF OpenFile
<1>2. CASE WriteRecord
  <2>1. Head(channel) \in LogRecords /\ Tail(channel) \in Seq(LogRecords \cup Flushes)
    BY <1>2 DEF WriteRecord, Flushes
  <2>2. buffer' \in Seq(LogRecords)
    BY <1>2, <2>1 DEF WriteRecord
  <2> QED BY <1>2, <2>1, <2>2 DEF WriteRecord
<1>3. CASE FlushFile
  <2> DEFINE c == Head(channel).case  n == Head(channel).run
  <2>1. c \in Cases /\ n \in Nat /\ Tail(channel) \in Seq(LogRecords \cup Flushes)
    BY <1>3 DEF FlushFile, Flushes, LogRecords, StepRecords
  <2>2. NotifyOne(c, n)
    BY <1>3 DEF FlushFile
  <2> HIDE DEF c, n
  <2>3. run' \in [Cases -> RunStates] /\ notified' \subseteq Cases \X Nat
    <3>1. [NotRunning EXCEPT !.at = "done"] \in RunStates
      BY NotRunningType
    <3>2. \/ run' = [run EXCEPT ![c] = [NotRunning EXCEPT !.at = "done"]] /\ notified' = notified
          \/ run' = run /\ notified' = notified \cup {<<c, n>>}
      BY <2>2 DEF NotifyOne, FinishReturns
    <3>3. <<c, n>> \in Cases \X Nat
      BY <2>1
    <3>4. notified' \subseteq Cases \X Nat
      BY <3>2, <3>3
    <3>5. run' \in [Cases -> RunStates]
      BY <3>1, <3>2
    <3> QED BY <3>4, <3>5
  <2>4. file' \in Seq(LogRecords) /\ buffer' \in Seq(LogRecords) /\ ioFailed' \in BOOLEAN
    <3>1. file \o buffer \in Seq(LogRecords) /\ <<>> \in Seq(LogRecords)
      OBVIOUS
    <3> QED BY <1>3, <3>1 DEF FlushFile
  <2> QED BY <1>3, <2>1, <2>3, <2>4 DEF FlushFile
<1> QED BY <1>1, <1>2, <1>3 DEF Writer

LEMMA FaultType ==
  ASSUME TypeOK, Crash \/ \E c \in Cases : Abandon(c)
  PROVE  TypeOK'
<1> USE DEF TypeOK
<1>1. ASSUME NEW c \in Cases, Abandon(c) PROVE TypeOK'
  <2>1. checkpoint' \in [Cases -> [DOMAIN Steps -> Results]]
    BY <1>1, ClearedType DEF Abandon
  <2> QED BY <1>1, <2>1, NotRunningType DEF Abandon, jsonl
<1>2. CASE Crash
  <2>1. run' \in [Cases -> RunStates]
    <3>1. \A c \in Cases : NotRunning.at = "idle"
      BY DEF NotRunning
    <3> QED BY <1>2, <3>1, NotRunningType DEF Crash
  <2>2. PICK n \in 0..Len(buffer) : file' = file \o SubSeq(buffer, 1, n)
    BY <1>2 DEF Crash
  <2>3. SubSeq(buffer, 1, n) \in Seq(LogRecords)
    OBVIOUS
  <2>4. file' \in Seq(LogRecords)
    BY <2>2, <2>3
  <2>5. crashes' \in 0..MaxCrashes
    BY <1>2 DEF Crash
  <2>6. /\ memory' = <<>> /\ channel' = <<>> /\ buffer' = <<>> /\ notified' = {}
        /\ writer' = "opening" /\ inherited' \subseteq Cases \X StepNames
        /\ UNCHANGED <<runs, checkpoint, stored, ioFailed>>
    BY <1>2 DEF Crash
  <2> QED BY <2>1, <2>4, <2>5, <2>6
<1> QED BY <1>1, <1>2

-----------------------------------------------------------------------------
LEMMA AppendListed ==
  ASSUME NEW list \in Seq(StepRecords), NEW r \in StepRecords, NEW n \in Nat,
         ListedUpTo(list, n), r.step = Steps[n + 1], r.output # None
  PROVE  ListedUpTo(Append(list, r), n + 1)
<1>1. Len(list) = n /\ Len(Append(list, r)) = n + 1
  BY DEF ListedUpTo
<1>2. \A i \in 1..(n + 1) : Append(list, r)[i] = IF i = n + 1 THEN r ELSE list[i]
  BY <1>1
<1>3. \A i \in 1..(n + 1) : i = n + 1 \/ i \in 1..n
  OBVIOUS
<1> QED BY <1>1, <1>2, <1>3 DEF ListedUpTo

\* What a step of case c does to the lists of its run; the runs of other cases stand still.
LEMMA RunStepLists ==
  ASSUME TypeOK, ListsInv, NEW c \in Cases, RunStep(c)
  PROVE  ListsInv'
<1> USE DEF TypeOK
<1>0. run[c] \in RunStates /\ ListsFor(run[c])
  BY DEF ListsInv
<1>1. ListsFor(NotRunning) /\ ListsFor([NotRunning EXCEPT !.at = "step"])
      /\ ListsFor([NotRunning EXCEPT !.at = "done"])
  BY StepsType DEF ListsFor, NotRunning, ListedUpTo
<1>2. \A d \in Cases : d # c => run'[d] = run[d]
  BY DEF RunStep, RunStart, StepRestored, StepRuns, ClosureReturns, Returned, SaveOk, SaveErr,
         FinishUpsert, FinishComplete, FlushSend, FlushAwait, FinishReturns
<1>3. SUFFICES ASSUME NEW r, r = run'[c] PROVE ListsFor(r)
  BY <1>2 DEF ListsInv
<1>4. CASE RunStart(c)
  BY <1>1, <1>3, <1>4 DEF RunStart
<1>5. CASE StepRestored(c)
  <2>1. run[c].pos \in DOMAIN Steps
    BY <1>0, <1>5, StepsType DEF StepRestored, RunStates
  <2>2. Step(c) \in StepNames /\ checkpoint[c][run[c].pos] \in Results
    BY <2>1, StepsType DEF Step
  <2>3. CheckpointRecord(c) \in StepRecords
    BY <2>2, StepRecordType DEF CheckpointRecord
  <2>4. CheckpointRecord(c).step = Steps[run[c].pos] /\ CheckpointRecord(c).output # None
    BY <1>5 DEF StepRestored, CheckpointRecord, StepRecord, Step
  <2>5. ListedUpTo(run[c].records, run[c].pos - 1) /\ run[c].pos - 1 \in Nat
    BY <1>0, <1>5, <2>1, StepsType DEF StepRestored, ListsFor, At
  <2>6. ListedUpTo(Append(run[c].records, CheckpointRecord(c)), (run[c].pos - 1) + 1)
    BY <1>0, <2>1, <2>3, <2>4, <2>5, AppendListed, StepsType DEF RunStates
  <2>7. r = [run[c] EXCEPT !.pos = @ + 1, !.records = Append(@, CheckpointRecord(c))]
    BY <1>3, <1>5 DEF StepRestored
  <2>8. r.at = "step" /\ r.pos = run[c].pos + 1
        /\ r.records = Append(run[c].records, CheckpointRecord(c))
    BY <1>0, <1>5, <2>7 DEF StepRestored, RunStates, At
  <2>9. r.pos - 1 = (run[c].pos - 1) + 1
    BY <2>1, <2>8, StepsType
  <2> QED BY <2>6, <2>8, <2>9 DEF ListsFor
<1>6. CASE StepRuns(c)
  <2>1. r = [run[c] EXCEPT !.at = "call"]
    BY <1>3, <1>6 DEF StepRuns
  <2> QED BY <1>0, <1>6, <2>1 DEF StepRuns, ListsFor, RunStates, At
<1>7. ASSUME NEW out \in Results, ClosureReturns(c, out) PROVE ListsFor(r)
  <2>1. run[c].pos \in DOMAIN Steps /\ ListedUpTo(run[c].records, run[c].pos - 1)
    BY <1>0, <1>7, StepsType DEF ClosureReturns, ListsFor, RunStates, At
  <2> DEFINE new == StepRecord(c, Step(c), out, FALSE)
  <2>2. new \in StepRecords /\ new.step = Steps[run[c].pos] /\ new.output = out
    BY <2>1, StepsType, StepRecordType DEF Step, StepRecord
  <2>3. CASE out = None
    BY <1>1, <1>3, <1>7, <2>3 DEF ClosureReturns, Returned
  <2>4. CASE out # None
    <3>1. r = [run[c] EXCEPT !.at = "save", !.out = out, !.records = Append(@, new)]
      BY <1>3, <1>7, <2>4 DEF ClosureReturns, Returned
    <3> HIDE DEF new
    <3>2. r.at = "save" /\ r.pos = run[c].pos /\ r.records = Append(run[c].records, new)
      BY <1>0, <3>1 DEF RunStates
    <3>3. ListedUpTo(r.records, (run[c].pos - 1) + 1)
      BY <1>0, <2>1, <2>2, <2>4, <3>2, AppendListed, StepsType DEF RunStates
    <3> QED BY <2>1, <3>2, <3>3, StepsType DEF ListsFor
  <2> QED BY <2>3, <2>4
<1>8. CASE SaveOk(c)
  <2>1. r = [run[c] EXCEPT !.at = "step", !.pos = @ + 1, !.out = None]
    BY <1>3, <1>8 DEF SaveOk
  <2>2. r.at = "step" /\ r.pos - 1 = run[c].pos /\ r.records = run[c].records
    BY <1>0, <2>1, StepsType DEF RunStates
  <2> QED BY <1>0, <1>8, <2>2 DEF SaveOk, ListsFor, At
<1>9. CASE SaveErr(c)
  BY <1>1, <1>3, <1>9 DEF SaveErr
<1>10. CASE FinishUpsert(c)
  <2>1. r = NotRunning \/ r = [run[c] EXCEPT !.at = "complete"]
    BY <1>3, <1>10 DEF FinishUpsert
  <2>2. run[c].pos = Len(Steps) + 1 /\ run[c].at = "step"
    <3>1. run[c].pos \in 1..(Len(Steps) + 1) /\ run[c].pos > Len(Steps) /\ run[c].at = "step"
      BY <1>0, <1>10 DEF FinishUpsert, RunStates, At
    <3> QED BY <3>1, StepsType
  <2> QED BY <1>0, <1>1, <2>1, <2>2 DEF ListsFor, RunStates
<1>11. CASE FinishComplete(c) \/ FlushSend(c)
  <2>1. r = [run[c] EXCEPT !.at = "flush"] \/ r = [run[c] EXCEPT !.at = "notified"]
    BY <1>3, <1>11 DEF FinishComplete, FlushSend
  <2> QED BY <1>0, <2>1 DEF ListsFor, RunStates
<1>12. CASE FlushAwait(c)
  <2>1. r = [run[c] EXCEPT !.at = "waiting"] \/ r = [NotRunning EXCEPT !.at = "done"]
    BY <1>3, <1>12 DEF FlushAwait, FinishReturns
  <2> QED BY <1>0, <1>1, <2>1 DEF ListsFor, RunStates
<1> QED BY <1>4, <1>5, <1>6, <1>7, <1>8, <1>9, <1>10, <1>11, <1>12 DEF RunStep, Results

LEMMA OtherLists ==
  ASSUME TypeOK, ListsInv, Writer \/ Crash \/ (\E c \in Cases : Abandon(c)) \/ UNCHANGED vars
  PROVE  ListsInv'
<1> USE DEF TypeOK, ListsInv
<1>1. ListsFor(NotRunning) /\ \A at \in {"over", "done", "idle"} : ListsFor([NotRunning EXCEPT !.at = at])
  BY StepsType DEF ListsFor, NotRunning
<1>2. CASE OpenFile \/ WriteRecord \/ UNCHANGED vars
  BY <1>2 DEF OpenFile, WriteRecord, vars
<1>3. CASE FlushFile
  <2>1. PICK c, n : NotifyOne(c, n)
    BY <1>3 DEF FlushFile
  <2>2. run' = run \/ run' = [run EXCEPT ![c] = [NotRunning EXCEPT !.at = "done"]]
    BY <2>1 DEF NotifyOne, FinishReturns
  <2> QED BY <1>1, <2>2
<1>4. ASSUME NEW c \in Cases, Abandon(c) PROVE ListsInv'
  BY <1>1, <1>4 DEF Abandon
<1>5. CASE Crash
  <2>1. \A c \in Cases : run'[c] \in {run[c], NotRunning, [NotRunning EXCEPT !.at = "over"]}
    BY <1>5 DEF Crash, NotRunning
  <2> QED BY <1>1, <2>1
<1> QED BY <1>2, <1>3, <1>4, <1>5 DEF Writer

LEMMA ListsInvariant == Spec => [](TypeOK /\ ListsInv)
<1>1. Init => ListsInv
  BY DEF Init, ListsInv, ListsFor, NotRunning
<1>2. TypeOK /\ ListsInv /\ [Next]_vars => TypeOK' /\ ListsInv'
  <2> SUFFICES ASSUME TypeOK, ListsInv, [Next]_vars PROVE TypeOK' /\ ListsInv'
    OBVIOUS
  <2>1. UNCHANGED vars => TypeOK'
    BY DEF vars, jsonl, TypeOK
  <2> QED BY <2>1, RunStepType, WriterType, FaultType, RunStepLists, OtherLists DEF Next
<1> QED BY <1>1, <1>2, InitType, PTL DEF Spec

(* Runs, checkpoints, logs and notifications keep their types: the writer   *)
(* never takes a flush for a record.                                        *)
THEOREM TypeCorrect == Spec => []TypeOK
BY ListsInvariant, PTL

(* Every record of a finished workflow, in memory or in the file, lists all *)
(* its steps in order, for any workflow and after any crashes.              *)
THEOREM CompleteListsStepsAlways == Spec => []CompleteListsSteps
<1>1. TypeOK => CompleteListsSteps
  <2> SUFFICES ASSUME TypeOK, NEW r \in Records, r.kind = "workflow_complete"
               PROVE  IsComplete(r.steps)
    BY DEF CompleteListsSteps
  <2>1. r \in LogRecords
    BY DEF TypeOK, Records
  <2> QED BY <2>1 DEF LogRecords, StepRecords
<1> QED BY <1>1, ListsInvariant, PTL

-----------------------------------------------------------------------------
LEMMA ExtendTrace ==
  ASSUME NEW log \in Seq(LogRecords), NEW r \in LogRecords, TracesBack(log),
         (r.kind = "step" /\ r.cached /\ <<r.case, r.step>> \notin inherited) =>
           \E j \in DOMAIN log : log[j] = Original(r),
         (r.kind = "step" /\ ~r.cached) =>
           \E j \in DOMAIN log : log[j] = LlmCallRecord(r.case, r.step, r.output)
  PROVE  TracesBack(Append(log, r))
<1> DEFINE more == Append(log, r)
<1>1. DOMAIN more = 1..(Len(log) + 1) /\ more[Len(log) + 1] = r
      /\ DOMAIN log = 1..Len(log) /\ Len(log) \in Nat
  OBVIOUS
<1>2. \A i \in DOMAIN log : more[i] = log[i]
  OBVIOUS
<1> HIDE DEF more
<1>3. SUFFICES ASSUME NEW i \in DOMAIN more
      PROVE  /\ (more[i].kind = "step" /\ more[i].cached /\ <<more[i].case, more[i].step>> \notin inherited)
                  => \E j \in 1..(i - 1) : more[j] = Original(more[i])
             /\ (more[i].kind = "step" /\ ~more[i].cached)
                  => \E j \in 1..(i - 1) : more[j] = LlmCallRecord(more[i].case, more[i].step, more[i].output)
  BY DEF TracesBack, more
<1>4. CASE i \in DOMAIN log
  <2>1. \A j \in 1..(i - 1) : more[j] = log[j]
    BY <1>1, <1>2, <1>4
  <2>2. more[i] = log[i]
    BY <1>2, <1>4
  <2>3. /\ (log[i].kind = "step" /\ log[i].cached /\ <<log[i].case, log[i].step>> \notin inherited)
             => \E j \in 1..(i - 1) : log[j] = Original(log[i])
        /\ (log[i].kind = "step" /\ ~log[i].cached)
             => \E j \in 1..(i - 1) : log[j] = LlmCallRecord(log[i].case, log[i].step, log[i].output)
    BY <1>4 DEF TracesBack
  <2> QED BY <2>1, <2>2, <2>3
<1>5. CASE i = Len(log) + 1
  <2>1. more[i] = r /\ \A j \in DOMAIN log : j \in 1..(i - 1) /\ more[j] = log[j]
    BY <1>1, <1>2, <1>5
  <2> QED BY <2>1
<1> QED BY <1>1, <1>4, <1>5

LEMMA EmitRemembers ==
  ASSUME TypeOK, NEW records \in Seq(LogRecords), Emit(records)
  PROVE  /\ \A r : Has(memory, r) => Has(memory', r)
         /\ \A i \in DOMAIN records : Has(memory', records[i])
<1>1. memory \in Seq(LogRecords) /\ memory' = memory \o records
  BY DEF TypeOK, Emit
<1>2. \A i \in DOMAIN memory : i \in DOMAIN memory' /\ memory'[i] = memory[i]
  BY <1>1
<1>3. \A i \in DOMAIN records :
        Len(memory) + i \in DOMAIN memory' /\ memory'[Len(memory) + i] = records[i]
  BY <1>1
<1> QED BY <1>2, <1>3 DEF Has

LEMMA AsAppended ==
  ASSUME NEW log \in Seq(LogRecords), NEW r \in LogRecords, NEW t \in LogRecords
  PROVE  log \o <<r>> = Append(log, r) /\ log \o <<r, t>> = Append(Append(log, r), t)
OBVIOUS

\* A step that emits nothing and saves nothing.
LEMMA SilentOriginals ==
  ASSUME OriginalsInv, UNCHANGED <<memory, inherited>>,
         \A c \in Cases, i \in DOMAIN Steps : checkpoint'[c][i] \in {checkpoint[c][i], None},
         \A c \in Cases : At(c, "save")' => run'[c] = run[c]
  PROVE  OriginalsInv'
<1>1. \A x : Has(memory', x) <=> Has(memory, x)
  BY DEF Has
<1>2. CheckpointsInv'
  BY <1>1 DEF OriginalsInv, CheckpointsInv
<1>3. SavesInv'
  BY <1>1 DEF OriginalsInv, SavesInv, At, Step
<1>4. TracesBack(memory)'
  BY DEF OriginalsInv, TracesBack
<1> QED BY <1>2, <1>3, <1>4 DEF OriginalsInv

LEMMA EmittedOriginals ==
  ASSUME TypeOK, OriginalsInv, NEW records \in Seq(LogRecords), Emit(records),
         UNCHANGED inherited,
         \A c \in Cases, i \in DOMAIN Steps : checkpoint'[c][i] \in {checkpoint[c][i], None},
         TracesBack(memory)', SavesInv'
  PROVE  OriginalsInv'
<1>1. \A r : Has(memory, r) => Has(memory', r)
  BY EmitRemembers
<1>2. CheckpointsInv'
  BY <1>1 DEF OriginalsInv, CheckpointsInv
<1> QED BY <1>2 DEF OriginalsInv

LEMMA OriginalOf ==
  \A c, s, out : Original(StepRecord(c, s, out, TRUE)) = StepRecord(c, s, out, FALSE)
BY DEF Original, StepRecord

LEMMA RunStepOriginals ==
  ASSUME TypeOK, ListsInv, OriginalsInv, NEW c \in Cases, RunStep(c)
  PROVE  OriginalsInv'
<1> USE DEF TypeOK
<1>0. run[c] \in RunStates
  OBVIOUS
<1>1. \A d \in Cases : d # c => run'[d] = run[d]
  BY DEF RunStep, RunStart, StepRestored, StepRuns, ClosureReturns, Returned, SaveOk, SaveErr,
         FinishUpsert, FinishComplete, FlushSend, FlushAwait, FinishReturns
<1>2. NotRunning.at = "idle" /\ \A at : [NotRunning EXCEPT !.at = at].at = at
  BY DEF NotRunning
<1>3. CASE RunStart(c) \/ StepRuns(c) \/ FinishUpsert(c) \/ FlushSend(c) \/ FlushAwait(c)
  <2>1. UNCHANGED <<memory, inherited, checkpoint>>
    BY <1>3 DEF RunStart, StepRuns, FinishUpsert, FlushSend, FlushAwait, jsonl
  <2>2. run'[c].at # "save"
    <3>1. run'[c] \in {NotRunning, [NotRunning EXCEPT !.at = "step"], [NotRunning EXCEPT !.at = "done"]}
          \/ \E at \in {"call", "complete", "notified", "waiting"} : run'[c] = [run[c] EXCEPT !.at = at]
      BY <1>3 DEF RunStart, StepRuns, FinishUpsert, FlushSend, FlushAwait, FinishReturns
    <3> QED BY <1>0, <1>2, <3>1 DEF RunStates
  <2> QED BY <1>1, <2>1, <2>2, SilentOriginals DEF At
<1>4. CASE StepRestored(c)
  <2> DEFINE r == CheckpointRecord(c)
  <2>1. run[c].pos \in DOMAIN Steps /\ Step(c) \in StepNames /\ checkpoint[c][run[c].pos] \in Results
    BY <1>0, <1>4, StepsType DEF StepRestored, RunStates, Step
  <2>2. r \in LogRecords /\ r = StepRecord(c, Step(c), checkpoint[c][run[c].pos], TRUE)
    BY <2>1, StepRecordType DEF CheckpointRecord
  <2>3. Original(r) = StepRecord(c, Step(c), checkpoint[c][run[c].pos], FALSE)
    BY OriginalOf DEF CheckpointRecord
  <2>4. r.kind = "step" /\ r.cached /\ r.case = c /\ r.step = Step(c)
    BY <2>2 DEF StepRecord
  <2>5. <<c, Step(c)>> \notin inherited => Has(memory, Original(r))
    <3>1. checkpoint[c][run[c].pos] # None
      BY <1>4 DEF StepRestored
    <3>2. \/ <<c, Steps[run[c].pos]>> \in inherited
          \/ Has(memory, StepRecord(c, Steps[run[c].pos], checkpoint[c][run[c].pos], FALSE))
      BY <2>1, <3>1 DEF OriginalsInv, CheckpointsInv
    <3> QED BY <2>3, <3>2 DEF Step
  <2> HIDE DEF r
  <2>6. Emit(<<r>>) /\ inherited' = inherited /\ checkpoint' = checkpoint
    BY <1>4 DEF StepRestored, r
  <2>7. <<r>> \in Seq(LogRecords)
    <3>1. r \in LogRecords
      BY <2>2
    <3> QED BY <3>1
  <2>8. \A x : Has(memory, x) => Has(memory', x)
    BY <2>6, <2>7, EmitRemembers
  <2>9. memory' = Append(memory, r)
    BY <2>2, <2>6, AsAppended DEF Emit
  <2>10. TracesBack(Append(memory, r))
    BY <2>2, <2>4, <2>5, ExtendTrace DEF OriginalsInv, Has
  <2>11. TracesBack(memory)'
    BY <2>6, <2>9, <2>10 DEF TracesBack
  <2>12. run'[c].at = "step"
    BY <1>0, <1>4 DEF StepRestored, RunStates, At
  <2>13. SavesInv'
    BY <1>1, <2>12, <2>8 DEF OriginalsInv, SavesInv, At, Step
  <2> QED BY <2>6, <2>11, <2>13, <2>7, EmittedOriginals
<1>5. ASSUME NEW out \in Results, ClosureReturns(c, out) PROVE OriginalsInv'
  <2> DEFINE l == LlmCallRecord(c, Step(c), out)  r == StepRecord(c, Step(c), out, FALSE)
  <2>1. run[c].pos \in DOMAIN Steps /\ Step(c) \in StepNames
    <3>1. run[c].pos \in 1..(Len(Steps) + 1) /\ run[c].pos <= Len(Steps)
      BY <1>0, <1>5 DEF ClosureReturns, ListsInv, ListsFor, RunStates, At
    <3> QED BY <3>1, StepsType DEF Step
  <2>2. l \in LogRecords /\ r \in LogRecords
    BY <2>1, StepRecordType
  <2>3. /\ l.kind = "llm_call" /\ r.kind = "step" /\ ~r.cached
        /\ l = LlmCallRecord(r.case, r.step, r.output)
    BY DEF LlmCallRecord, StepRecord
  <2>4. run' = Returned(c, out) /\ Emit(<<l, r>>) /\ inherited' = inherited /\ checkpoint' = checkpoint
    BY <1>5 DEF ClosureReturns
  <2>5. out # None => run'[c].out = out /\ run'[c].pos = run[c].pos
    BY <1>0, <2>4 DEF Returned, RunStates
  <2>6. out = None => run'[c].at # "save"
    BY <1>2, <2>4 DEF Returned
  <2>7. \A s : StepRecord(c, s, out, FALSE) = r <=> s = Step(c)
    BY DEF StepRecord
  <2> HIDE DEF l, r
  <2>8. memory' = Append(Append(memory, l), r)
    BY <2>2, <2>4, AsAppended DEF Emit
  <2>9. TracesBack(Append(memory, l))
    BY <2>2, <2>3, ExtendTrace DEF OriginalsInv
  <2>10. Append(memory, l) \in Seq(LogRecords)
         /\ \E j \in DOMAIN Append(memory, l) : Append(memory, l)[j] = l
    <3>1. memory \in Seq(LogRecords) /\ Len(memory) \in Nat
      OBVIOUS
    <3>2. /\ Append(memory, l) \in Seq(LogRecords)
          /\ Len(memory) + 1 \in DOMAIN Append(memory, l)
          /\ Append(memory, l)[Len(memory) + 1] = l
      BY <2>2, <3>1
    <3> QED BY <3>2
  <2>11. TracesBack(Append(Append(memory, l), r))
    BY <2>2, <2>3, <2>9, <2>10, ExtendTrace
  <2>12. TracesBack(memory)'
    BY <2>4, <2>8, <2>11 DEF TracesBack
  <2>13. <<l, r>> \in Seq(LogRecords) /\ 2 \in DOMAIN <<l, r>> /\ <<l, r>>[2] = r
    BY <2>2
  <2>14. Has(memory', r) /\ \A x : Has(memory, x) => Has(memory', x)
    BY <2>4, <2>13, EmitRemembers
  <2>15. SavesInv'
    <3> SUFFICES ASSUME NEW d \in Cases, run'[d].at = "save"
                 PROVE  run'[d].out # None /\ Has(memory', StepRecord(d, Steps[run'[d].pos], run'[d].out, FALSE))
      BY DEF SavesInv, At, Step
    <3>1. CASE d = c
      BY <2>5, <2>6, <2>7, <2>14, <3>1 DEF Step
    <3>2. CASE d # c
      BY <1>1, <2>14, <3>2 DEF OriginalsInv, SavesInv, At, Step
    <3> QED BY <3>1, <3>2
  <2> QED BY <2>4, <2>12, <2>13, <2>15, EmittedOriginals
<1>6. CASE SaveOk(c) \/ SaveErr(c)
  <2>1. run[c].pos \in DOMAIN Steps
    <3>1. run[c].pos \in 1..(Len(Steps) + 1) /\ run[c].pos <= Len(Steps)
      BY <1>0, <1>6 DEF SaveOk, SaveErr, ListsInv, ListsFor, RunStates, At
    <3> QED BY <3>1, StepsType
  <2>2. UNCHANGED <<memory, inherited>> /\ At(c, "save")
    BY <1>6 DEF SaveOk, SaveErr, jsonl
  <2>3. \A x : Has(memory', x) <=> Has(memory, x)
    BY <2>2 DEF Has
  <2>4. checkpoint' = checkpoint \/ checkpoint' = [checkpoint EXCEPT ![c][run[c].pos] = run[c].out]
    BY <1>6 DEF SaveOk, SaveErr
  <2>5. \A d \in Cases, i \in DOMAIN Steps :
          \/ checkpoint'[d][i] = checkpoint[d][i]
          \/ d = c /\ i = run[c].pos /\ checkpoint'[d][i] = run[c].out
    BY <2>1, <2>4
  <2>6. CheckpointsInv'
    BY <2>2, <2>3, <2>5 DEF OriginalsInv, CheckpointsInv, SavesInv, Step
  <2>7. run'[c].at # "save"
    BY <1>0, <1>2, <1>6 DEF SaveOk, SaveErr, RunStates
  <2>8. SavesInv'
    BY <1>1, <2>3, <2>7 DEF OriginalsInv, SavesInv, At, Step
  <2>9. TracesBack(memory)'
    BY <2>2 DEF OriginalsInv, TracesBack
  <2> QED BY <2>6, <2>8, <2>9 DEF OriginalsInv
<1>7. CASE FinishComplete(c)
  <2> DEFINE r == WorkflowRecord(c, run[c].records)
  <2>1. memory' = memory \o <<r>> /\ Emit(<<r>>) /\ inherited' = inherited
    BY <1>7 DEF FinishComplete, Emit
  <2>2. r \in LogRecords
    <3>1. run[c].pos = Len(Steps) + 1 /\ ListedUpTo(run[c].records, run[c].pos - 1)
      BY <1>7 DEF FinishComplete, ListsInv, ListsFor, At
    <3>2. run[c].pos - 1 = Len(Steps)
      BY <3>1, StepsType
    <3>3. run[c].records \in Seq(StepRecords) /\ ListedUpTo(run[c].records, Len(Steps))
      BY <1>0, <3>1, <3>2 DEF RunStates
    <3> QED BY <3>3, ListedIsComplete DEF WorkflowRecord, LogRecords
  <2>3. r.kind # "step"
    BY DEF WorkflowRecord
  <2> HIDE DEF r
  <2>4. memory' = Append(memory, r)
    BY <2>1, <2>2, AsAppended
  <2>5. TracesBack(Append(memory, r))
    BY <2>2, <2>3, ExtendTrace DEF OriginalsInv
  <2>6. TracesBack(memory)'
    BY <2>1, <2>4, <2>5 DEF TracesBack
  <2>7. \A d \in Cases, i \in DOMAIN Steps : checkpoint'[d][i] \in {checkpoint[d][i], None}
    BY <1>7, ClearedType DEF FinishComplete
  <2>8. <<r>> \in Seq(LogRecords)
    BY <2>2
  <2>9. \A x : Has(memory, x) => Has(memory', x)
    BY <2>1, <2>8, EmitRemembers
  <2>10. run'[c].at = "flush"
    BY <1>0, <1>7 DEF FinishComplete, RunStates
  <2>11. SavesInv'
    BY <1>1, <2>10, <2>9 DEF OriginalsInv, SavesInv, At, Step
  <2> QED BY <2>1, <2>6, <2>7, <2>11, <2>8, EmittedOriginals
<1> QED BY <1>3, <1>4, <1>5, <1>6, <1>7 DEF RunStep, Results

LEMMA OtherOriginals ==
  ASSUME TypeOK, OriginalsInv,
         Writer \/ Crash \/ (\E c \in Cases : Abandon(c)) \/ UNCHANGED vars
  PROVE  OriginalsInv'
<1> USE DEF TypeOK
<1>1. NotRunning.at = "idle" /\ \A at : [NotRunning EXCEPT !.at = at].at = at
  BY DEF NotRunning
<1>2. CASE Writer \/ (\E c \in Cases : Abandon(c)) \/ UNCHANGED vars
  <2>1. UNCHANGED <<memory, inherited>>
        /\ \A d \in Cases, i \in DOMAIN Steps : checkpoint'[d][i] \in {checkpoint[d][i], None}
    <3>1. CASE UNCHANGED checkpoint
      BY <1>2, <3>1 DEF Writer, OpenFile, WriteRecord, FlushFile, Abandon, vars, jsonl
    <3>2. CASE \E c \in Cases : Abandon(c)
      BY <3>2, ClearedType DEF Abandon, jsonl
    <3> QED BY <1>2, <3>1, <3>2 DEF Writer, OpenFile, WriteRecord, FlushFile, vars
  <2>2. run' = run \/ \E c \in Cases : run' = [run EXCEPT ![c] = NotRunning]
        \/ \E d : run' = [run EXCEPT ![d] = [NotRunning EXCEPT !.at = "done"]]
    BY <1>2 DEF Writer, OpenFile, WriteRecord, FlushFile, NotifyOne, FinishReturns, Abandon, vars
  <2>3. \A c \in Cases : run'[c].at = "save" => run'[c] = run[c]
    BY <1>1, <2>2
  <2> QED BY <2>1, <2>3, SilentOriginals DEF At
<1>3. CASE Crash
  <2>1. \A c \in Cases : run'[c].at # "save"
    BY <1>1, <1>3 DEF Crash, NotRunning, At
  <2>2. SavesInv'
    BY <2>1 DEF SavesInv, At
  <2>3. CheckpointsInv'
    BY <1>3, StepsType DEF Crash, CheckpointsInv
  <2>4. TracesBack(memory)'
    BY <1>3 DEF Crash, TracesBack
  <2> QED BY <2>2, <2>3, <2>4 DEF OriginalsInv
<1> QED BY <1>2, <1>3

(* A replayed step has the record of its execution in memory, with the same *)
(* output, and that has its LLM call, unless an earlier process left the    *)
(* checkpoint.                                                              *)
THEOREM ReplayHasOriginalAlways == Spec => []ReplayHasOriginal
<1>1. Init => OriginalsInv
  <2> SUFFICES ASSUME Init PROVE OriginalsInv
    OBVIOUS
  <2>1. CheckpointsInv
    BY DEF Init, CheckpointsInv
  <2>2. SavesInv
    BY DEF Init, SavesInv, At, NotRunning
  <2>3. TracesBack(memory)
    BY DEF Init, TracesBack
  <2> QED BY <2>1, <2>2, <2>3 DEF OriginalsInv
<1>2. TypeOK /\ ListsInv /\ OriginalsInv /\ [Next]_vars => OriginalsInv'
  BY RunStepOriginals, OtherOriginals DEF Next
<1>3. OriginalsInv => ReplayHasOriginal
  BY DEF OriginalsInv, ReplayHasOriginal
<1> QED BY <1>1, <1>2, <1>3, ListsInvariant, PTL DEF Spec
-----------------------------------------------------------------------------
LEMMA ConcatFacts ==
  ASSUME NEW S, NEW s \in Seq(S), NEW t \in Seq(S)
  PROVE  /\ s \o t \in Seq(S) /\ Len(s) \in Nat
         /\ DOMAIN s = 1..Len(s) /\ DOMAIN t = 1..Len(t)
         /\ \A i \in DOMAIN s : i \in DOMAIN (s \o t) /\ (s \o t)[i] = s[i]
         /\ \A i \in DOMAIN t : Len(s) + i \in DOMAIN (s \o t) /\ (s \o t)[Len(s) + i] = t[i]
         /\ \A i \in DOMAIN (s \o t) : i \in DOMAIN s \/ \E k \in DOMAIN t : i = Len(s) + k
<1>1. /\ s \o t \in Seq(S) /\ Len(s) \in Nat /\ Len(t) \in Nat
      /\ DOMAIN s = 1..Len(s) /\ DOMAIN t = 1..Len(t)
      /\ DOMAIN (s \o t) = 1..(Len(s) + Len(t))
  OBVIOUS
<1>2. \A i \in DOMAIN s : i \in DOMAIN (s \o t) /\ (s \o t)[i] = s[i]
  OBVIOUS
<1>3. \A i \in DOMAIN t : Len(s) + i \in DOMAIN (s \o t) /\ (s \o t)[Len(s) + i] = t[i]
  OBVIOUS
<1>4. ASSUME NEW i \in DOMAIN (s \o t) PROVE i \in DOMAIN s \/ \E k \in DOMAIN t : i = Len(s) + k
  <2>1. CASE i > Len(s)
    <3>1. i - Len(s) \in DOMAIN t /\ i = Len(s) + (i - Len(s))
      BY <1>1, <2>1
    <3> QED BY <3>1
  <2>2. CASE ~(i > Len(s))
    BY <1>1, <2>2
  <2> QED BY <2>1, <2>2
<1> QED BY <1>1, <1>2, <1>3, <1>4

\* What was taken from the channel was its first element.
LEMMA TailFacts ==
  ASSUME NEW S, NEW s \in Seq(S), s # <<>>
  PROVE  /\ Tail(s) \in Seq(S) /\ 1 \in DOMAIN s /\ Head(s) = s[1]
         /\ \A i \in DOMAIN Tail(s) : i + 1 \in DOMAIN s /\ Tail(s)[i] = s[i + 1]
         /\ \A i \in DOMAIN s : i = 1 \/ (i - 1 \in DOMAIN Tail(s) /\ Tail(s)[i - 1] = s[i])
         /\ DOMAIN Tail(s) \subseteq Nat \ {0} /\ DOMAIN s \subseteq Nat \ {0}
<1>1. Len(s) \in Nat /\ Len(s) # 0 /\ DOMAIN s = 1..Len(s) /\ DOMAIN Tail(s) = 1..(Len(s) - 1)
  OBVIOUS
<1>2. \A i \in 1..(Len(s) - 1) : Tail(s)[i] = s[i + 1]
  OBVIOUS
<1>3. Tail(s) \in Seq(S) /\ Head(s) = s[1]
  OBVIOUS
<1>4. ASSUME NEW i \in DOMAIN s, i # 1 PROVE i - 1 \in 1..(Len(s) - 1) /\ (i - 1) + 1 = i
  BY <1>1, <1>4
<1>5. \A i \in DOMAIN s : i = 1 \/ (i - 1 \in DOMAIN Tail(s) /\ Tail(s)[i - 1] = s[i])
  BY <1>1, <1>2, <1>4
<1> QED BY <1>1, <1>2, <1>3, <1>5

\* The kind of an event tells what it holds.
LEMMA KindFacts ==
  ASSUME NEW r \in LogRecords \cup Flushes
  PROVE  /\ r.kind = "flush" => r.run \in Nat /\ r.case \in Cases
         /\ r.kind # "flush" => r \in LogRecords
         /\ r.kind = "workflow_complete" => r.steps \in Seq(StepRecords)
<1> DEFINE Calls == [kind : {"llm_call"}, case : Cases, step : StepNames, output : Results]
           Lists == {l \in Seq(StepRecords) : IsComplete(l)}
           Completes == [kind : {"workflow_complete"}, case : Cases, steps : Lists]
<1>1. r \in StepRecords \/ r \in Calls \/ r \in Completes \/ r \in Flushes
  BY DEF LogRecords
<1>2. Lists \subseteq Seq(StepRecords)
  OBVIOUS
<1>3. r \in StepRecords \/ r \in Calls \/ r \in Completes => r \in LogRecords
  BY DEF LogRecords
<1> HIDE DEF Lists
<1>4. CASE r \in StepRecords
  BY <1>3, <1>4 DEF StepRecords
<1>5. CASE r \in Calls
  BY <1>3, <1>5
<1>6. CASE r \in Completes
  BY <1>2, <1>3, <1>6
<1>7. CASE r \in Flushes
  BY <1>7 DEF Flushes
<1> QED BY <1>1, <1>4, <1>5, <1>6, <1>7

LEMMA WrittenFacts ==
  ASSUME TypeOK
  PROVE  /\ Written \in Seq(LogRecords) /\ channel \in Seq(LogRecords \cup Flushes)
         /\ \A i \in DOMAIN file : i \in DOMAIN Written /\ Written[i] = file[i]
         /\ \A i \in DOMAIN buffer : \E k \in DOMAIN Written : Written[k] = buffer[i]
         /\ \A i \in DOMAIN Written : i \in Nat \ {0}
         /\ \A i \in DOMAIN channel : i \in Nat \ {0}
<1>1. file \in Seq(LogRecords) /\ buffer \in Seq(LogRecords) /\ channel \in Seq(LogRecords \cup Flushes)
  BY DEF TypeOK
<1>2. Written \in Seq(LogRecords)
  BY <1>1 DEF Written
<1>3. /\ \A i \in DOMAIN Written : i \in Nat \ {0}
      /\ \A i \in DOMAIN channel : i \in Nat \ {0}
  BY <1>1, <1>2
<1>4. \A i \in DOMAIN file : i \in DOMAIN Written /\ Written[i] = file[i]
  BY <1>1, ConcatFacts DEF Written
<1>5. \A i \in DOMAIN buffer : Len(file) + i \in DOMAIN Written /\ Written[Len(file) + i] = buffer[i]
  BY <1>1, ConcatFacts DEF Written
<1> QED BY <1>1, <1>2, <1>3, <1>4, <1>5

LEMMA InitTrace == Init => TraceInv
<1> SUFFICES ASSUME Init PROVE TraceInv
  OBVIOUS
<1>1. Written = <<>> /\ channel = <<>> /\ notified = {} /\ \A c \in Cases : run[c] = NotRunning
  BY DEF Init, Written
<1>2. writer = "opening"
  BY DEF Init
<1> QED BY <1>1, <1>2 DEF TraceInv, FlushesFresh, ListedBefore, RunsSent, FlushesLast, At, Emitting,
             NotRunning

\* A step of one run that sends nothing.
LEMMA SilentTrace ==
  ASSUME TypeOK, TraceInv, NEW c \in Cases, UNCHANGED jsonl, notified' \subseteq notified,
         \A d \in Cases \ {c} : run'[d] = run[d] /\ runs'[d] = runs[d],
         runs[c] \in Nat, runs'[c] \in Nat, runs[c] <= runs'[c],
         run'[c].at \in Emitting =>
           \/ run[c].at \in Emitting /\ runs'[c] = runs[c] /\ run'[c].records = run[c].records
           \/ runs[c] < runs'[c] /\ run'[c].records = <<>>,
         run'[c].at # "flush",
         run'[c].at \in {"notified", "waiting"} =>
           run[c].at \in {"notified", "waiting"} /\ runs'[c] = runs[c],
         run'[c].at = "done" => (ioFailed \/ CompleteOnFile(c))
  PROVE  TraceInv'
<1>1. writer' = writer /\ channel' = channel /\ Written' = Written /\ file' = file
      /\ buffer' = buffer /\ ioFailed' = ioFailed
  BY DEF jsonl, Written
<1>2. (\A x : Sent(x)' <=> Sent(x)) /\ \A d : CompleteOnFile(d)' <=> CompleteOnFile(d)
  BY <1>1 DEF Sent, Has, CompleteOnFile, NothingOnItsWay
<1>3. FlushesFresh'
  <2>1. ASSUME NEW d \in Cases, NEW n \in Nat, n <= runs[d], run[d].at \in Emitting => n < runs[d]
        PROVE  n <= runs'[d] /\ (run'[d].at \in Emitting => n < runs'[d])
    <3>1. CASE d = c
      BY <2>1, <3>1
    <3>2. CASE d # c
      BY <2>1, <3>2 DEF Emitting
    <3> QED BY <3>1, <3>2
  <2>2. ASSUME NEW d \in Cases, NEW j \in DOMAIN channel,
               channel[j].kind = "flush", channel[j].case = d
        PROVE  channel[j].run <= runs'[d] /\ (run'[d].at \in Emitting => channel[j].run < runs'[d])
    <3>1. channel[j].run \in Nat
      BY <2>2, KindFacts DEF TypeOK
    <3>2. channel[j].run <= runs[d] /\ (run[d].at \in Emitting => channel[j].run < runs[d])
      BY <2>2 DEF TraceInv, FlushesFresh
    <3> QED BY <2>1, <3>1, <3>2
  <2>3. ASSUME NEW d \in Cases, NEW f \in notified', f[1] = d
        PROVE  f[2] <= runs'[d] /\ (run'[d].at \in Emitting => f[2] < runs'[d])
    <3>1. f \in notified /\ f[2] \in Nat
      BY DEF TypeOK
    <3> QED BY <2>1, <2>3, <3>1 DEF TraceInv, FlushesFresh
  <2> QED BY <1>1, <2>2, <2>3 DEF FlushesFresh
<1>4. ASSUME ~ioFailed PROVE ListedBefore' /\ RunsSent' /\ FlushesLast'
  <2>1. ListedBefore /\ RunsSent /\ FlushesLast
    BY <1>4 DEF TraceInv
  <2>2. ListedBefore'
    BY <1>1, <2>1 DEF ListedBefore, Has
  <2>3. RunsSent'
    <3> SUFFICES ASSUME writer # "ended", NEW d \in Cases, run'[d].at \in Emitting
                 PROVE  /\ \A k \in DOMAIN run'[d].records : Sent(run'[d].records[k])
                        /\ run'[d].at = "flush" => Sent(WorkflowRecord(d, run'[d].records))
      BY <1>1, <1>2 DEF RunsSent, At
    <3>1. CASE d = c
      BY <2>1, <3>1 DEF RunsSent
    <3>2. CASE d # c
      BY <2>1, <3>2 DEF RunsSent, At, Emitting
    <3> QED BY <3>1, <3>2
  <2>4. FlushesLast'
    <3> SUFFICES ASSUME NEW d \in Cases
                 PROVE  /\ run'[d].at \in {"notified", "waiting"} =>
                             /\ \A j \in DOMAIN channel : channel[j] = FlushOf(d)' =>
                                  /\ \A i \in DOMAIN channel : IsRecordOf(channel[i], d) => i < j
                                  /\ \/ \E i \in DOMAIN Written : IsCompleteOf(Written[i], d)
                                     \/ \E i \in 1..(j - 1) : IsCompleteOf(channel[i], d)
                             /\ <<d, runs'[d]>> \in notified' => CompleteOnFile(d)
                        /\ run'[d].at = "done" => CompleteOnFile(d)
      BY <1>1, <1>2 DEF FlushesLast, At
    <3>1. CASE d = c
      BY <1>4, <2>1, <3>1 DEF FlushesLast, FlushOf
    <3>2. CASE d # c
      BY <2>1, <3>2 DEF FlushesLast, FlushOf, At
    <3> QED BY <3>1, <3>2
  <2> QED BY <2>2, <2>3, <2>4
<1> QED BY <1>1, <1>3, <1>4 DEF TraceInv

\* A step of a run that emits records of its case, resting on what the run lists.
LEMMA EmitTrace ==
  ASSUME TypeOK, TraceInv, NEW c \in Cases, NEW records \in Seq(LogRecords), Emit(records),
         UNCHANGED <<runs, notified>>, \A d \in Cases \ {c} : run'[d] = run[d],
         run[c].at \in Emitting, run'[c].at \notin {"notified", "waiting", "done"},
         \A i \in DOMAIN records : records[i].case = c /\ records[i].kind # "flush",
         \A i \in DOMAIN records : records[i].kind = "workflow_complete" =>
           \A k \in DOMAIN records[i].steps : Has(run[c].records, records[i].steps[k]),
         run'[c].at \in Emitting => \A k \in DOMAIN run'[c].records :
           Has(run[c].records, run'[c].records[k]) \/ Has(records, run'[c].records[k]),
         run'[c].at = "flush" => Has(records, WorkflowRecord(c, run'[c].records))
  PROVE  TraceInv'
<1>1. /\ writer' = writer /\ file' = file /\ buffer' = buffer /\ ioFailed' = ioFailed
      /\ Written' = Written
      /\ channel' = IF writer = "ended" THEN channel ELSE channel \o records
  BY DEF Emit, Send, Written
<1>2. /\ channel \in Seq(LogRecords \cup Flushes) /\ records \in Seq(LogRecords \cup Flushes)
      /\ Len(channel) \in Nat
  BY DEF TypeOK
<1>3. /\ \A i \in DOMAIN channel : i \in DOMAIN channel' /\ channel'[i] = channel[i] /\ i <= Len(channel)
      /\ \A i \in DOMAIN channel' :
           \/ i \in DOMAIN channel
           \/ /\ writer # "ended" /\ i \in Nat /\ i > Len(channel)
              /\ \E k \in DOMAIN records : channel'[i] = records[k]
      /\ writer # "ended" => \A k \in DOMAIN records : \E i \in DOMAIN channel' : channel'[i] = records[k]
      /\ DOMAIN channel = 1..Len(channel)
  <2>1. CASE writer = "ended"
    BY <1>1, <1>2, <2>1
  <2>2. CASE writer # "ended"
    <3>1. channel' = channel \o records
      BY <1>1, <2>2
    <3>2. /\ DOMAIN channel = 1..Len(channel) /\ DOMAIN records = 1..Len(records)
          /\ \A i \in DOMAIN channel : i \in DOMAIN channel' /\ channel'[i] = channel[i]
          /\ \A i \in DOMAIN records : Len(channel) + i \in DOMAIN channel'
                                       /\ channel'[Len(channel) + i] = records[i]
          /\ \A i \in DOMAIN channel' : i \in DOMAIN channel
               \/ \E k \in DOMAIN records : i = Len(channel) + k
      BY <1>2, <3>1, ConcatFacts
    <3>3. \A k \in DOMAIN records : k \in Nat /\ k > 0
      BY <3>2
    <3>4. \A i \in DOMAIN channel' : i \in DOMAIN channel
            \/ /\ i \in Nat /\ i > Len(channel) /\ \E k \in DOMAIN records : channel'[i] = records[k]
      BY <1>2, <3>2, <3>3
    <3> QED BY <1>2, <2>2, <3>2, <3>4
  <2> QED BY <2>1, <2>2
<1>4. writer = "ended" => channel' = <<>>
  BY <1>1 DEF TraceInv
<1>5. \A d \in Cases : run'[d].at \in Emitting => run[d].at \in Emitting
  BY DEF Emitting
<1>6. FlushesFresh'
  <2>1. ASSUME NEW d \in Cases, NEW j \in DOMAIN channel',
               channel'[j].kind = "flush", channel'[j].case = d
        PROVE  channel'[j].run <= runs[d] /\ (run[d].at \in Emitting => channel'[j].run < runs[d])
    <3>1. j \in DOMAIN channel /\ channel'[j] = channel[j]
      BY <1>3, <2>1
    <3> QED BY <2>1, <3>1 DEF TraceInv, FlushesFresh
  <2>2. ASSUME NEW d \in Cases, NEW f \in notified, f[1] = d
        PROVE  f[2] <= runs[d] /\ (run[d].at \in Emitting => f[2] < runs[d])
    BY <2>2 DEF TraceInv, FlushesFresh
  <2> QED BY <1>5, <2>1, <2>2 DEF FlushesFresh
<1>7. ASSUME ~ioFailed PROVE ListedBefore' /\ RunsSent' /\ FlushesLast'
  <2>1. ListedBefore /\ RunsSent /\ FlushesLast
    BY <1>7 DEF TraceInv
  <2> DEFINE SentNow(x) == Has(Written, x) \/ Has(channel', x)
  <2>2. \A x : Sent(x) => SentNow(x)
    BY <1>3 DEF Sent, Has
  <2>3. writer # "ended" => \A x : Has(records, x) => SentNow(x)
    BY <1>3 DEF Has
  <2>4. writer # "ended" => \A x : Has(run[c].records, x) => Sent(x)
    BY <2>1 DEF RunsSent, Has
  <2>5. ListedBefore'
    <3>1. ASSUME NEW i \in DOMAIN channel', channel'[i].kind = "workflow_complete",
                 NEW k \in DOMAIN channel'[i].steps
          PROVE  Has(Written, channel'[i].steps[k])
                 \/ \E j \in 1..(i - 1) : channel'[j] = channel'[i].steps[k]
      <4>1. CASE i \in DOMAIN channel
        <5>1. channel'[i] = channel[i]
          BY <1>3, <4>1
        <5>2. Has(Written, channel[i].steps[k]) \/ \E j \in 1..(i - 1) : channel[j] = channel[i].steps[k]
          BY <2>1, <3>1, <4>1, <5>1 DEF ListedBefore
        <5>3. \A j \in 1..(i - 1) : j \in DOMAIN channel
          BY <1>2, <1>3, <4>1
        <5> QED BY <1>3, <5>1, <5>2, <5>3
      <4>2. CASE i \notin DOMAIN channel
        <5>1. writer # "ended" /\ i \in Nat /\ i > Len(channel)
              /\ \E n \in DOMAIN records : channel'[i] = records[n]
          BY <1>3, <4>2
        <5>2. Has(run[c].records, channel'[i].steps[k])
          BY <3>1, <5>1
        <5>3. Has(Written, channel'[i].steps[k]) \/ Has(channel, channel'[i].steps[k])
          BY <2>4, <5>1, <5>2 DEF Sent
        <5>4. \A j \in DOMAIN channel : j \in 1..(i - 1)
          BY <1>2, <1>3, <5>1
        <5> QED BY <1>3, <5>3, <5>4 DEF Has
      <4> QED BY <4>1, <4>2
    <3>2. \A i \in DOMAIN Written : Written[i].kind = "workflow_complete" =>
            \A k \in DOMAIN Written[i].steps : \E j \in 1..(i - 1) : Written[j] = Written[i].steps[k]
      BY <2>1 DEF ListedBefore
    <3>3. Written' = Written
      BY <1>1
    <3> HIDE DEF SentNow
    <3> QED BY <3>1, <3>2, <3>3, ZenonT(30) DEF ListedBefore
  <2>6. RunsSent'
    <3>1. ASSUME writer # "ended", NEW d \in Cases, run'[d].at \in Emitting
          PROVE  /\ \A k \in DOMAIN run'[d].records : SentNow(run'[d].records[k])
                 /\ run'[d].at = "flush" => SentNow(WorkflowRecord(d, run'[d].records))
      <4> HIDE DEF SentNow
      <4>1. CASE d = c
        <5>1. ASSUME NEW k \in DOMAIN run'[c].records PROVE SentNow(run'[c].records[k])
          <6>1. Has(run[c].records, run'[c].records[k]) \/ Has(records, run'[c].records[k])
            BY <3>1, <4>1
          <6> QED BY <2>2, <2>3, <2>4, <3>1, <6>1
        <5>2. run'[c].at = "flush" => SentNow(WorkflowRecord(c, run'[c].records))
          BY <2>3, <3>1
        <5> QED BY <4>1, <5>1, <5>2
      <4>2. CASE d # c
        <5>1. run'[d] = run[d]
          BY <4>2
        <5>2. \A k \in DOMAIN run[d].records : Sent(run[d].records[k])
          BY <1>5, <2>1, <3>1 DEF RunsSent
        <5>3. run[d].at = "flush" => Sent(WorkflowRecord(d, run[d].records))
          BY <1>5, <2>1, <3>1 DEF RunsSent, At
        <5> QED BY <2>2, <5>1, <5>2, <5>3
      <4> QED BY <4>1, <4>2
    <3> QED BY <1>1, <3>1 DEF RunsSent, At, Sent
  <2>7. FlushesLast'
    <3>1. ASSUME NEW d \in Cases, d # c, NEW i \in DOMAIN channel', IsRecordOf(channel'[i], d)
          PROVE  i \in DOMAIN channel /\ channel'[i] = channel[i]
      BY <1>3, <3>1 DEF IsRecordOf
    <3>2. ASSUME NEW d \in Cases, d # c PROVE CompleteOnFile(d) => CompleteOnFile(d)'
      BY <1>1, <3>1, <3>2 DEF CompleteOnFile, NothingOnItsWay
    <3> SUFFICES ASSUME NEW d \in Cases, d # c, run'[d] = run[d]
                 PROVE  /\ run[d].at \in {"notified", "waiting"} =>
                             /\ \A j \in DOMAIN channel' : channel'[j] = FlushOf(d) =>
                                  /\ \A i \in DOMAIN channel' : IsRecordOf(channel'[i], d) => i < j
                                  /\ \/ \E i \in DOMAIN Written : IsCompleteOf(Written[i], d)
                                     \/ \E i \in 1..(j - 1) : IsCompleteOf(channel'[i], d)
                             /\ <<d, runs[d]>> \in notified => CompleteOnFile(d)
                        /\ run[d].at = "done" => CompleteOnFile(d)
      <4>1. run'[c].at \notin {"notified", "waiting", "done"}
        OBVIOUS
      <4> QED BY <1>1, <3>2, <4>1 DEF FlushesLast, FlushOf, At
    <3>3. ASSUME run[d].at \in {"notified", "waiting"}, NEW j \in DOMAIN channel', channel'[j] = FlushOf(d)
          PROVE  /\ \A i \in DOMAIN channel' : IsRecordOf(channel'[i], d) => i < j
                 /\ \/ \E i \in DOMAIN Written : IsCompleteOf(Written[i], d)
                    \/ \E i \in 1..(j - 1) : IsCompleteOf(channel'[i], d)
      <4>1. j \in DOMAIN channel /\ channel'[j] = channel[j]
        BY <1>3, <3>3 DEF FlushOf
      <4>2. /\ \A i \in DOMAIN channel : IsRecordOf(channel[i], d) => i < j
            /\ \/ \E i \in DOMAIN Written : IsCompleteOf(Written[i], d)
               \/ \E i \in 1..(j - 1) : IsCompleteOf(channel[i], d)
        BY <2>1, <3>3, <4>1 DEF FlushesLast
      <4>3. \A i \in 1..(j - 1) : i \in DOMAIN channel
        BY <1>2, <1>3, <4>1
      <4> QED BY <1>3, <3>1, <4>2, <4>3
    <3>4. /\ run[d].at \in {"notified", "waiting"} /\ <<d, runs[d]>> \in notified => CompleteOnFile(d)
          /\ run[d].at = "done" => CompleteOnFile(d)
      BY <2>1 DEF FlushesLast, At
    <3> QED BY <3>3, <3>4
  <2> QED BY <2>5, <2>6, <2>7
<1> QED BY <1>1, <1>4, <1>6, <1>7 DEF TraceInv

\* The flush goes behind everything its run has sent.
LEMMA FlushTrace ==
  ASSUME TypeOK, TraceInv, NEW c \in Cases, FlushSend(c)
  PROVE  TraceInv'
<1> DEFINE f == FlushOf(c)
<1>1. /\ At(c, "flush") /\ run[c].at = "flush" /\ run[c].at \in Emitting
      /\ UNCHANGED <<runs, notified, writer, buffer, file, ioFailed>> /\ Written' = Written
      /\ channel' = IF writer = "ended" THEN channel ELSE channel \o <<f>>
      /\ run' = [run EXCEPT ![c].at = "notified"]
  BY DEF FlushSend, Send, At, Emitting, Written, FlushOf
<1>2. f \in Flushes /\ f.kind = "flush" /\ f.case = c /\ f.run = runs[c] /\ runs[c] \in Nat
  BY DEF FlushOf, Flushes, TypeOK
<1>3. /\ \A d \in Cases : run'[d].at = IF d = c THEN "notified" ELSE run[d].at
      /\ \A d \in Cases : run'[d].records = run[d].records
  BY <1>1 DEF TypeOK, RunStates
<1> HIDE DEF f
<1>4. channel \in Seq(LogRecords \cup Flushes) /\ DOMAIN channel = 1..Len(channel) /\ Len(channel) \in Nat
  BY DEF TypeOK
<1>5. /\ \A i \in DOMAIN channel : i \in DOMAIN channel' /\ channel'[i] = channel[i] /\ i <= Len(channel)
      /\ \A i \in DOMAIN channel' :
           i \in DOMAIN channel \/ (writer # "ended" /\ i = Len(channel) + 1 /\ channel'[i] = f)
  <2>1. CASE writer = "ended"
    BY <1>1, <1>4, <2>1
  <2>2. CASE writer # "ended"
    <3>1. channel' = channel \o <<f>>
      BY <1>1, <2>2
    <3>2. <<f>> \in Seq(LogRecords \cup Flushes) /\ DOMAIN <<f>> = {1} /\ <<f>>[1] = f
      BY <1>2
    <3> QED BY <1>4, <2>2, <3>1, <3>2, ConcatFacts
  <2> QED BY <2>1, <2>2
<1>6. writer = "ended" => channel' = <<>>
  BY <1>1 DEF TraceInv
<1>7. \A d \in Cases : run'[d].at \in Emitting => run[d].at \in Emitting /\ d # c
  BY <1>3 DEF Emitting
<1>8. FlushesFresh'
  <2>1. ASSUME NEW d \in Cases, NEW j \in DOMAIN channel',
               channel'[j].kind = "flush", channel'[j].case = d
        PROVE  channel'[j].run <= runs[d] /\ (run'[d].at \in Emitting => channel'[j].run < runs[d])
    <3>1. CASE j \in DOMAIN channel
      BY <1>5, <1>7, <2>1, <3>1 DEF TraceInv, FlushesFresh
    <3>2. CASE j \notin DOMAIN channel
      BY <1>2, <1>5, <1>7, <2>1, <3>2
    <3> QED BY <3>1, <3>2
  <2>2. ASSUME NEW d \in Cases, NEW p \in notified, p[1] = d
        PROVE  p[2] <= runs[d] /\ (run'[d].at \in Emitting => p[2] < runs[d])
    BY <1>7, <2>2 DEF TraceInv, FlushesFresh
  <2> QED BY <1>1, <2>1, <2>2 DEF FlushesFresh
<1>9. ASSUME ~ioFailed PROVE ListedBefore' /\ RunsSent' /\ FlushesLast'
  <2>1. ListedBefore /\ RunsSent /\ FlushesLast
    BY <1>9 DEF TraceInv
  <2>2. ListedBefore'
    <3>1. ASSUME NEW i \in DOMAIN channel', channel'[i].kind = "workflow_complete",
                 NEW k \in DOMAIN channel'[i].steps
          PROVE  Has(Written, channel'[i].steps[k])
                 \/ \E j \in 1..(i - 1) : channel'[j] = channel'[i].steps[k]
      <4>1. i \in DOMAIN channel /\ channel'[i] = channel[i]
        BY <1>2, <1>5, <3>1
      <4>2. Has(Written, channel[i].steps[k]) \/ \E j \in 1..(i - 1) : channel[j] = channel[i].steps[k]
        BY <2>1, <3>1, <4>1 DEF ListedBefore
      <4>3. \A j \in 1..(i - 1) : j \in DOMAIN channel
        BY <1>4, <4>1
      <4> QED BY <1>5, <4>1, <4>2, <4>3
    <3>2. \A i \in DOMAIN Written : Written[i].kind = "workflow_complete" =>
            \A k \in DOMAIN Written[i].steps : \E j \in 1..(i - 1) : Written[j] = Written[i].steps[k]
      BY <2>1 DEF ListedBefore
    <3>3. Written' = Written
      BY <1>1
    <3> QED BY <3>1, <3>2, <3>3, ZenonT(30) DEF ListedBefore
  <2>3. RunsSent'
    <3> DEFINE SentNow(x) == Has(Written, x) \/ Has(channel', x)
    <3>1. \A x : Sent(x) => SentNow(x)
      BY <1>5 DEF Sent, Has
    <3>2. ASSUME writer # "ended", NEW d \in Cases, run'[d].at \in Emitting
          PROVE  /\ \A k \in DOMAIN run'[d].records : SentNow(run'[d].records[k])
                 /\ run'[d].at = "flush" => SentNow(WorkflowRecord(d, run'[d].records))
      <4> HIDE DEF SentNow
      <4>1. \A k \in DOMAIN run[d].records : Sent(run[d].records[k])
        BY <1>7, <2>1, <3>2 DEF RunsSent
      <4>2. run[d].at = "flush" => Sent(WorkflowRecord(d, run[d].records))
        BY <1>7, <2>1, <3>2 DEF RunsSent, At
      <4> QED BY <1>3, <1>7, <3>1, <3>2, <4>1, <4>2
    <3> QED BY <1>1, <3>2 DEF RunsSent, At, Sent
  <2>4. FlushesLast'
    <3>1. ASSUME NEW d \in Cases, NEW i \in DOMAIN channel', IsRecordOf(channel'[i], d)
          PROVE  i \in DOMAIN channel /\ channel'[i] = channel[i]
      BY <1>2, <1>5, <3>1 DEF IsRecordOf
    <3>2. ASSUME NEW d \in Cases PROVE CompleteOnFile(d) => CompleteOnFile(d)'
      BY <1>1, <3>1, <3>2 DEF CompleteOnFile, NothingOnItsWay
    <3>3. <<c, runs[c]>> \notin notified
      <4> SUFFICES ASSUME <<c, runs[c]>> \in notified PROVE FALSE
        OBVIOUS
      <4>1. <<c, runs[c]>>[1] = c /\ <<c, runs[c]>>[2] = runs[c]
        OBVIOUS
      <4>2. runs[c] < runs[c]
        BY <1>1, <4>1 DEF TraceInv, FlushesFresh
      <4> QED BY <1>2, <4>2
    <3>4. ASSUME NEW d \in Cases, run'[d].at \in {"notified", "waiting"},
                 NEW j \in DOMAIN channel', channel'[j] = FlushOf(d)
          PROVE  /\ \A i \in DOMAIN channel' : IsRecordOf(channel'[i], d) => i < j
                 /\ \/ \E i \in DOMAIN Written : IsCompleteOf(Written[i], d)
                    \/ \E i \in 1..(j - 1) : IsCompleteOf(channel'[i], d)
      <4>1. CASE j \in DOMAIN channel
        <5>1. channel[j] = FlushOf(d) /\ FlushOf(d).kind = "flush" /\ FlushOf(d).case = d
              /\ FlushOf(d).run = runs[d]
          BY <1>5, <3>4, <4>1 DEF FlushOf
        <5>2. d # c
          <6>1. ASSUME d = c PROVE runs[c] < runs[c]
            BY <1>1, <4>1, <5>1, <6>1 DEF TraceInv, FlushesFresh
          <6> QED BY <1>2, <6>1
        <5>3. run[d].at \in {"notified", "waiting"}
          BY <1>3, <3>4, <5>2
        <5>4. /\ \A i \in DOMAIN channel : IsRecordOf(channel[i], d) => i < j
              /\ \/ \E i \in DOMAIN Written : IsCompleteOf(Written[i], d)
                 \/ \E i \in 1..(j - 1) : IsCompleteOf(channel[i], d)
          BY <2>1, <4>1, <5>1, <5>3 DEF FlushesLast
        <5>5. \A i \in 1..(j - 1) : i \in DOMAIN channel
          BY <1>4, <4>1
        <5> QED BY <1>5, <3>1, <5>4, <5>5
      <4>2. CASE j \notin DOMAIN channel
        <5>1. writer # "ended" /\ j = Len(channel) + 1 /\ channel'[j] = f
          BY <1>5, <4>2
        <5>2. d = c
          BY <1>2, <3>4, <5>1 DEF FlushOf
        <5>3. Sent(WorkflowRecord(c, run[c].records))
          BY <1>1, <2>1, <5>1 DEF RunsSent
        <5>4. IsCompleteOf(WorkflowRecord(c, run[c].records), c)
          BY DEF IsCompleteOf, WorkflowRecord
        <5>5. \A i \in DOMAIN channel : i \in 1..(j - 1)
          BY <1>4, <5>1
        <5>6. \/ \E i \in DOMAIN Written : IsCompleteOf(Written[i], c)
              \/ \E i \in 1..(j - 1) : IsCompleteOf(channel'[i], c)
          BY <1>5, <5>3, <5>4, <5>5 DEF Sent, Has
        <5>7. \A i \in DOMAIN channel' : IsRecordOf(channel'[i], c) => i < j
          BY <1>4, <1>5, <3>1, <5>1
        <5> QED BY <5>2, <5>6, <5>7
      <4> QED BY <4>1, <4>2
    <3>5. ASSUME NEW d \in Cases
          PROVE  /\ run'[d].at \in {"notified", "waiting"} /\ <<d, runs[d]>> \in notified => CompleteOnFile(d)
                 /\ run'[d].at = "done" => CompleteOnFile(d)
      <4>1. CASE d = c
        BY <1>3, <3>3, <4>1
      <4>2. CASE d # c
        BY <1>3, <2>1, <4>2 DEF FlushesLast, At
      <4> QED BY <4>1, <4>2
    <3>6. \A d \in Cases : FlushOf(d)' = FlushOf(d)
      BY <1>1 DEF FlushOf
    <3> QED BY <1>1, <3>2, <3>4, <3>5, <3>6 DEF FlushesLast, At
  <2> QED BY <2>2, <2>3, <2>4
<1> QED BY <1>1, <1>6, <1>8, <1>9 DEF TraceInv

LEMMA OpenTrace ==
  ASSUME TypeOK, TraceInv, OpenFile
  PROVE  TraceInv'
<1>1. /\ UNCHANGED <<run, runs, buffer, file, notified, ioFailed>> /\ Written' = Written
      /\ (writer' = "open" /\ channel' = channel) \/ (writer' = "ended" /\ channel' = <<>>)
      /\ writer # "ended"
  BY DEF OpenFile, Written
<1>2. \A i \in DOMAIN channel' : i \in DOMAIN channel /\ channel'[i] = channel[i] /\ channel' = channel
  BY <1>1
<1>3. FlushesFresh'
  BY <1>1, <1>2 DEF TraceInv, FlushesFresh, Emitting
<1>4. ASSUME ~ioFailed PROVE ListedBefore' /\ RunsSent' /\ FlushesLast'
  <2>1. ListedBefore /\ RunsSent /\ FlushesLast
    BY <1>4 DEF TraceInv
  <2>2. ListedBefore'
    BY <1>1, <2>1 DEF ListedBefore
  <2>3. RunsSent'
    BY <1>1, <2>1 DEF RunsSent, Emitting, At, Sent
  <2>4. \A d \in Cases : CompleteOnFile(d) => CompleteOnFile(d)'
    BY <1>1, <1>2 DEF CompleteOnFile, NothingOnItsWay
  <2>5. \A d \in Cases : FlushOf(d)' = FlushOf(d) /\ run'[d] = run[d]
    BY <1>1 DEF FlushOf
  <2>6. FlushesLast'
    BY <1>1, <2>1, <2>4, <2>5 DEF FlushesLast, At
  <2> QED BY <2>2, <2>3, <2>6
<1> QED BY <1>1, <1>3, <1>4 DEF TraceInv

LEMMA AppendBuffer ==
  ASSUME TypeOK, NEW h \in LogRecords, file' = file, buffer' = Append(buffer, h)
  PROVE  /\ Written' \in Seq(LogRecords) /\ Len(Written) \in Nat
         /\ DOMAIN Written = 1..Len(Written) /\ DOMAIN Written' = 1..(Len(Written) + 1)
         /\ \A i \in DOMAIN Written : Written'[i] = Written[i]
         /\ Written'[Len(Written) + 1] = h
<1>1. /\ file \in Seq(LogRecords) /\ buffer \in Seq(LogRecords)
      /\ Written = file \o buffer /\ Written' = file \o Append(buffer, h)
      /\ Len(file) \in Nat /\ Len(buffer) \in Nat
  BY DEF TypeOK, Written
<1>2. Append(buffer, h) \in Seq(LogRecords) /\ Len(Append(buffer, h)) = Len(buffer) + 1
  BY <1>1
<1>3. /\ Len(Written) = Len(file) + Len(buffer) /\ Len(Written') = Len(file) + Len(buffer) + 1
      /\ Written \in Seq(LogRecords) /\ Written' \in Seq(LogRecords)
  BY <1>1, <1>2
<1>4. \A i \in 1..Len(Written) : Written'[i] = Written[i]
  BY <1>1
<1>5. Written'[Len(Written) + 1] = h
  BY <1>1
<1> QED BY <1>3, <1>4, <1>5

\* Moving an event from the channel to the buffer keeps its place behind what it rests on.
LEMMA WriteTrace ==
  ASSUME TypeOK, TraceInv, WriteRecord
  PROVE  TraceInv'
<1> DEFINE h == channel[1]  m == Len(Written)
<1>1. /\ UNCHANGED <<run, runs, writer, file, notified, ioFailed>> /\ writer = "open"
      /\ buffer' = Append(buffer, Head(channel)) /\ channel' = Tail(channel) /\ channel # <<>>
      /\ Head(channel).kind # "flush"
  BY DEF WriteRecord
<1>2. channel \in Seq(LogRecords \cup Flushes)
  BY DEF TypeOK
<1>3. /\ 1 \in DOMAIN channel /\ Head(channel) = h
      /\ \A i \in DOMAIN channel' : i + 1 \in DOMAIN channel /\ channel'[i] = channel[i + 1]
      /\ \A i \in DOMAIN channel : i = 1 \/ (i - 1 \in DOMAIN channel' /\ channel'[i - 1] = channel[i])
      /\ DOMAIN channel' \subseteq Nat \ {0} /\ DOMAIN channel \subseteq Nat \ {0}
      /\ DOMAIN channel = 1..Len(channel) /\ Len(channel) \in Nat
  BY <1>1, <1>2, TailFacts
<1>4. h \in LogRecords /\ h.kind # "flush"
  BY <1>1, <1>2, <1>3, KindFacts
<1>5. /\ m \in Nat /\ DOMAIN Written = 1..m /\ DOMAIN Written' = 1..(m + 1)
      /\ \A i \in DOMAIN Written : Written'[i] = Written[i]
      /\ Written'[m + 1] = h
  BY <1>1, <1>3, <1>4, AppendBuffer
<1> HIDE DEF h, m
<1>6. \A x : Has(Written, x) \/ x = h => Has(Written', x)
  BY <1>5 DEF Has
<1>7. FlushesFresh'
  <2>1. \A d \in Cases, j \in DOMAIN channel :
          channel[j].kind = "flush" /\ channel[j].case = d =>
            channel[j].run <= runs[d] /\ (run[d].at \in Emitting => channel[j].run < runs[d])
    BY DEF TraceInv, FlushesFresh
  <2>2. \A d \in Cases, p \in notified : p[1] = d => p[2] <= runs[d] /\ (run[d].at \in Emitting => p[2] < runs[d])
    BY DEF TraceInv, FlushesFresh
  <2> QED BY <1>1, <1>3, <2>1, <2>2 DEF FlushesFresh, Emitting
<1>8. ASSUME ~ioFailed PROVE ListedBefore' /\ RunsSent' /\ FlushesLast'
  <2>1. ListedBefore /\ RunsSent /\ FlushesLast
    BY <1>8 DEF TraceInv
  <2>2. ListedBefore'
    <3>1. ASSUME NEW i \in DOMAIN channel', channel'[i].kind = "workflow_complete",
                 NEW k \in DOMAIN channel'[i].steps
          PROVE  Has(Written', channel'[i].steps[k])
                 \/ \E j \in 1..(i - 1) : channel'[j] = channel'[i].steps[k]
      <4>1. i + 1 \in DOMAIN channel /\ channel'[i] = channel[i + 1] /\ i \in Nat \ {0}
        BY <1>3
      <4>2. \/ Has(Written, channel[i + 1].steps[k])
            \/ \E j \in 1..((i + 1) - 1) : channel[j] = channel[i + 1].steps[k]
        BY <2>1, <3>1, <4>1 DEF ListedBefore
      <4>3. ASSUME NEW j \in 1..((i + 1) - 1), channel[j] = channel[i + 1].steps[k], j # 1
            PROVE  j - 1 \in 1..(i - 1) /\ channel'[j - 1] = channel[i + 1].steps[k]
        <5>1. j \in DOMAIN channel
          BY <1>3, <4>1
        <5> QED BY <1>3, <4>1, <4>3, <5>1
      <4>4. \A j \in 1..((i + 1) - 1) : j = 1 /\ channel[j] = channel[i + 1].steps[k] =>
              Has(Written', channel[i + 1].steps[k])
        BY <1>6 DEF h
      <4> QED BY <1>6, <4>1, <4>2, <4>3, <4>4
    <3>2. ASSUME NEW i \in DOMAIN Written', Written'[i].kind = "workflow_complete",
                 NEW k \in DOMAIN Written'[i].steps
          PROVE  \E j \in 1..(i - 1) : Written'[j] = Written'[i].steps[k]
      <4>1. CASE i \in DOMAIN Written
        <5>1. PICK j \in 1..(i - 1) : Written[j] = Written[i].steps[k]
          BY <1>5, <2>1, <3>2, <4>1 DEF ListedBefore
        <5> QED BY <1>5, <4>1, <5>1
      <4>2. CASE i = m + 1
        <5>1. Has(Written, h.steps[k]) \/ \E j \in 1..(1 - 1) : channel[j] = h.steps[k]
          BY <1>3, <1>5, <2>1, <3>2, <4>2 DEF ListedBefore, h
        <5>2. \E j \in DOMAIN Written : Written[j] = h.steps[k]
          BY <5>1 DEF Has
        <5> QED BY <1>5, <4>2, <5>2
      <4> QED BY <1>5, <4>1, <4>2
    <3> QED BY <3>1, <3>2, ZenonT(30) DEF ListedBefore
  <2>3. RunsSent'
    <3> DEFINE SentNow(x) == Has(Written', x) \/ Has(channel', x)
    <3>1. ASSUME NEW x, Sent(x) PROVE SentNow(x)
      <4>1. ASSUME NEW i \in DOMAIN channel, channel[i] = x PROVE SentNow(x)
        <5>1. CASE i = 1
          BY <1>6, <4>1, <5>1 DEF h
        <5>2. CASE i # 1
          BY <1>3, <4>1, <5>2 DEF Has
        <5> QED BY <5>1, <5>2
      <4>2. Has(Written, x) => SentNow(x)
        BY <1>6
      <4> QED BY <3>1, <4>1, <4>2 DEF Sent, Has
    <3>2. ASSUME NEW d \in Cases, run[d].at \in Emitting
          PROVE  /\ \A k \in DOMAIN run[d].records : SentNow(run[d].records[k])
                 /\ run[d].at = "flush" => SentNow(WorkflowRecord(d, run[d].records))
      <4> HIDE DEF SentNow
      <4> QED BY <1>1, <2>1, <3>1, <3>2 DEF RunsSent, At
    <3> QED BY <1>1, <3>2 DEF RunsSent, At, Sent, Emitting
  <2>4. FlushesLast'
    <3>1. ASSUME NEW d \in Cases, CompleteOnFile(d) PROVE CompleteOnFile(d)'
      <4>1. ~IsRecordOf(h, d)
        BY <1>3, <3>1 DEF CompleteOnFile, NothingOnItsWay, h
      <4>2. \A i \in DOMAIN buffer' : buffer'[i] = h \/ \E k \in DOMAIN buffer : buffer'[i] = buffer[k]
        <5>1. buffer \in Seq(LogRecords) /\ buffer' = Append(buffer, h) /\ Len(buffer) \in Nat
          BY <1>1, <1>3 DEF TypeOK
        <5>2. DOMAIN buffer' = 1..(Len(buffer) + 1) /\ DOMAIN buffer = 1..Len(buffer)
              /\ \A i \in 1..(Len(buffer) + 1) : buffer'[i] = IF i = Len(buffer) + 1 THEN h ELSE buffer[i]
          BY <1>4, <5>1
        <5> QED BY <5>1, <5>2
      <4>3. \A i \in DOMAIN buffer' : ~IsRecordOf(buffer'[i], d)
        BY <3>1, <4>1, <4>2 DEF CompleteOnFile, NothingOnItsWay
      <4>4. \A i \in DOMAIN channel' : ~IsRecordOf(channel'[i], d)
        BY <1>3, <3>1 DEF CompleteOnFile, NothingOnItsWay
      <4> QED BY <1>1, <3>1, <4>3, <4>4 DEF CompleteOnFile, NothingOnItsWay
    <3>2. ASSUME NEW d \in Cases, run[d].at \in {"notified", "waiting"},
                 NEW j \in DOMAIN channel', channel'[j] = FlushOf(d)
          PROVE  /\ \A i \in DOMAIN channel' : IsRecordOf(channel'[i], d) => i < j
                 /\ \/ \E i \in DOMAIN Written' : IsCompleteOf(Written'[i], d)
                    \/ \E i \in 1..(j - 1) : IsCompleteOf(channel'[i], d)
      <4>1. j + 1 \in DOMAIN channel /\ channel[j + 1] = FlushOf(d) /\ j \in Nat \ {0}
        BY <1>3, <3>2
      <4>2. /\ \A i \in DOMAIN channel : IsRecordOf(channel[i], d) => i < j + 1
            /\ \/ \E i \in DOMAIN Written : IsCompleteOf(Written[i], d)
               \/ \E i \in 1..((j + 1) - 1) : IsCompleteOf(channel[i], d)
        BY <2>1, <3>2, <4>1 DEF FlushesLast
      <4>3. \A i \in DOMAIN channel' : IsRecordOf(channel'[i], d) => i < j
        BY <1>3, <4>1, <4>2
      <4>4. ASSUME NEW i \in 1..((j + 1) - 1), IsCompleteOf(channel[i], d), i # 1
            PROVE  i - 1 \in 1..(j - 1) /\ IsCompleteOf(channel'[i - 1], d)
        <5>1. i \in DOMAIN channel
          BY <1>3, <4>1
        <5> QED BY <1>3, <4>1, <4>4, <5>1
      <4>5. ASSUME IsCompleteOf(channel[1], d) PROVE \E i \in DOMAIN Written' : IsCompleteOf(Written'[i], d)
        BY <1>5, <4>5 DEF h
      <4>6. \A i \in DOMAIN Written : i \in DOMAIN Written' /\ Written'[i] = Written[i]
        BY <1>5
      <4> QED BY <4>2, <4>3, <4>4, <4>5, <4>6
    <3>3. ASSUME NEW d \in Cases
          PROVE  /\ run[d].at \in {"notified", "waiting"} /\ <<d, runs[d]>> \in notified => CompleteOnFile(d)
                 /\ run[d].at = "done" => CompleteOnFile(d)
      BY <2>1 DEF FlushesLast, At
    <3>4. \A d \in Cases : FlushOf(d)' = FlushOf(d)
      BY <1>1 DEF FlushOf
    <3> QED BY <1>1, <3>1, <3>2, <3>3, <3>4 DEF FlushesLast, At
  <2> QED BY <2>2, <2>3, <2>4
<1> QED BY <1>1, <1>7, <1>8 DEF TraceInv

\* A flush that succeeds puts all that was written into the file before it answers.
LEMMA FlushFileTrace ==
  ASSUME TypeOK, TraceInv, FlushFile
  PROVE  TraceInv'
<1> DEFINE h == channel[1]
<1>1. /\ UNCHANGED <<runs, writer>> /\ writer = "open"
      /\ (file' = file \o buffer /\ ioFailed' = ioFailed) \/ ioFailed' = TRUE
      /\ file' = file \o buffer \/ file' = file
      /\ buffer' = <<>> /\ channel' = Tail(channel) /\ channel # <<>>
      /\ Head(channel).kind = "flush" /\ NotifyOne(Head(channel).case, Head(channel).run)
  BY DEF FlushFile
<1>2. channel \in Seq(LogRecords \cup Flushes)
  BY DEF TypeOK
<1>3. /\ 1 \in DOMAIN channel /\ Head(channel) = h
      /\ \A i \in DOMAIN channel' : i + 1 \in DOMAIN channel /\ channel'[i] = channel[i + 1]
      /\ \A i \in DOMAIN channel : i = 1 \/ (i - 1 \in DOMAIN channel' /\ channel'[i - 1] = channel[i])
      /\ DOMAIN channel' \subseteq Nat \ {0} /\ DOMAIN channel \subseteq Nat \ {0}
      /\ DOMAIN channel = 1..Len(channel) /\ Len(channel) \in Nat
  BY <1>1, <1>2, TailFacts
<1>4. PICK c \in Cases, n \in Nat : h.kind = "flush" /\ h.case = c /\ h.run = n
  BY <1>1, <1>2, <1>3, KindFacts
<1>5. \/ /\ run[c].at = "waiting" /\ runs[c] = n /\ notified' = notified
         /\ run' = [run EXCEPT ![c] = [NotRunning EXCEPT !.at = "done"]]
      \/ run' = run /\ notified' = notified \cup {<<c, n>>}
  BY <1>1, <1>3, <1>4 DEF NotifyOne, FinishReturns, At
<1>6. /\ \A d \in Cases : run'[d] = run[d] \/ (d = c /\ run[c].at = "waiting" /\ runs[c] = n /\ run'[d].at = "done")
      /\ \A p \in notified' : p \in notified \/ (p = <<c, n>> /\ run' = run)
  BY <1>4, <1>5 DEF TypeOK, NotRunning
<1>7. \A d \in Cases : run'[d].at \in Emitting => run[d].at \in Emitting /\ run'[d] = run[d]
  BY <1>6 DEF Emitting
<1>8. /\ \A d \in Cases, j \in DOMAIN channel :
           channel[j].kind = "flush" /\ channel[j].case = d =>
             channel[j].run <= runs[d] /\ (run[d].at \in Emitting => channel[j].run < runs[d])
      /\ \A d \in Cases, p \in notified : p[1] = d => p[2] <= runs[d] /\ (run[d].at \in Emitting => p[2] < runs[d])
  BY DEF TraceInv, FlushesFresh
<1>9. n <= runs[c] /\ (run[c].at \in Emitting => n < runs[c])
  BY <1>3, <1>4, <1>8
<1>10. FlushesFresh'
  <2>1. ASSUME NEW d \in Cases, NEW p \in notified', p[1] = d
        PROVE  p[2] <= runs[d] /\ (run'[d].at \in Emitting => p[2] < runs[d])
    <3>1. CASE p \in notified
      BY <1>7, <1>8, <2>1, <3>1
    <3>2. CASE p = <<c, n>>
      <4>1. p[1] = c /\ p[2] = n
        BY <3>2
      <4> QED BY <1>7, <1>9, <2>1, <4>1
    <3> QED BY <1>6, <3>1, <3>2
  <2>2. ASSUME NEW d \in Cases, NEW j \in DOMAIN channel',
               channel'[j].kind = "flush", channel'[j].case = d
        PROVE  channel'[j].run <= runs[d] /\ (run'[d].at \in Emitting => channel'[j].run < runs[d])
    BY <1>3, <1>7, <1>8, <2>2
  <2> QED BY <1>1, <2>1, <2>2 DEF FlushesFresh
<1>11. ASSUME ~ioFailed' PROVE ListedBefore' /\ RunsSent' /\ FlushesLast'
  <2>1. ~ioFailed /\ file' = Written
    BY <1>1, <1>11 DEF TypeOK, Written
  <2>2. ListedBefore /\ RunsSent /\ FlushesLast
    BY <2>1 DEF TraceInv
  <2>3. Written' = Written
    <3>1. Written \in Seq(LogRecords) /\ Written' = Written \o <<>>
      BY <1>1, <2>1, WrittenFacts DEF Written
    <3> QED BY <3>1
  <2>4. ListedBefore'
    <3>1. ASSUME NEW i \in DOMAIN channel', channel'[i].kind = "workflow_complete",
                 NEW k \in DOMAIN channel'[i].steps
          PROVE  Has(Written, channel'[i].steps[k])
                 \/ \E j \in 1..(i - 1) : channel'[j] = channel'[i].steps[k]
      <4>1. i + 1 \in DOMAIN channel /\ channel'[i] = channel[i + 1] /\ i \in Nat \ {0}
        BY <1>3
      <4>2. \/ Has(Written, channel[i + 1].steps[k])
            \/ \E j \in 1..((i + 1) - 1) : channel[j] = channel[i + 1].steps[k]
        BY <2>2, <3>1, <4>1 DEF ListedBefore
      <4>3. channel[i + 1].steps[k].kind = "step"
        <5>1. channel[i + 1].steps \in Seq(StepRecords)
          BY <1>2, <3>1, <4>1, KindFacts
        <5>2. channel[i + 1].steps[k] \in StepRecords
          BY <3>1, <4>1, <5>1
        <5> QED BY <5>2 DEF StepRecords
      <4>4. ASSUME NEW j \in 1..((i + 1) - 1), channel[j] = channel[i + 1].steps[k]
            PROVE  j - 1 \in 1..(i - 1) /\ channel'[j - 1] = channel[i + 1].steps[k]
        <5>1. j \in DOMAIN channel /\ j # 1
          BY <1>3, <1>4, <4>1, <4>3, <4>4
        <5> QED BY <1>3, <4>1, <4>4, <5>1
      <4> QED BY <4>1, <4>2, <4>4
    <3>2. \A i \in DOMAIN Written : Written[i].kind = "workflow_complete" =>
            \A k \in DOMAIN Written[i].steps : \E j \in 1..(i - 1) : Written[j] = Written[i].steps[k]
      BY <2>2 DEF ListedBefore
    <3> QED BY <2>3, <3>1, <3>2, ZenonT(30) DEF ListedBefore
  <2>5. RunsSent'
    <3> DEFINE SentNow(x) == Has(Written, x) \/ Has(channel', x)
    <3>1. ASSUME NEW x, x.kind # "flush", Sent(x) PROVE SentNow(x)
      <4>1. ASSUME NEW i \in DOMAIN channel, channel[i] = x PROVE Has(channel', x)
        <5>1. i # 1
          BY <1>4, <3>1, <4>1
        <5> QED BY <1>3, <4>1, <5>1 DEF Has
      <4> QED BY <3>1, <4>1 DEF Sent, Has
    <3>2. ASSUME NEW d \in Cases, run'[d].at \in Emitting
          PROVE  /\ \A k \in DOMAIN run'[d].records : SentNow(run'[d].records[k])
                 /\ run'[d].at = "flush" => SentNow(WorkflowRecord(d, run'[d].records))
      <4> HIDE DEF SentNow
      <4>1. run'[d] = run[d] /\ run[d].at \in Emitting
        BY <1>7, <3>2
      <4>2. \A k \in DOMAIN run[d].records : run[d].records[k].kind = "step"
        <5>1. run[d].records \in Seq(StepRecords)
          BY DEF TypeOK, RunStates
        <5>2. \A k \in DOMAIN run[d].records : run[d].records[k] \in StepRecords
          BY <5>1
        <5> QED BY <5>2 DEF StepRecords
      <4>3. WorkflowRecord(d, run[d].records).kind = "workflow_complete"
        BY DEF WorkflowRecord
      <4>4. /\ \A k \in DOMAIN run[d].records : Sent(run[d].records[k])
            /\ run[d].at = "flush" => Sent(WorkflowRecord(d, run[d].records))
        BY <1>1, <2>2, <4>1 DEF RunsSent, At
      <4>5. \A k \in DOMAIN run[d].records : SentNow(run[d].records[k])
        BY <3>1, <4>2, <4>4
      <4>6. run[d].at = "flush" => SentNow(WorkflowRecord(d, run[d].records))
        BY <3>1, <4>3, <4>4
      <4> QED BY <4>1, <4>5, <4>6
    <3> QED BY <2>3, <3>2 DEF RunsSent, At, Sent
  <2>6. FlushesLast'
    <3>1. ASSUME NEW d \in Cases, CompleteOnFile(d) PROVE CompleteOnFile(d)'
      <4>1. \E i \in DOMAIN file' : IsCompleteOf(file'[i], d)
        BY <2>1, <3>1, WrittenFacts DEF CompleteOnFile
      <4>2. \A i \in DOMAIN channel' : ~IsRecordOf(channel'[i], d)
        BY <1>3, <3>1 DEF CompleteOnFile, NothingOnItsWay
      <4> QED BY <1>1, <4>1, <4>2 DEF CompleteOnFile, NothingOnItsWay
    <3>2. ASSUME run[c].at \in {"notified", "waiting"}, n = runs[c] PROVE CompleteOnFile(c)'
      <4>1. channel[1] = FlushOf(c)
        <5>1. h \in Flushes
          BY <1>2, <1>3, <1>4 DEF LogRecords, StepRecords
        <5>2. h = [kind |-> h.kind, case |-> h.case, run |-> h.run]
          BY <5>1 DEF Flushes
        <5> QED BY <1>4, <3>2, <5>2 DEF FlushOf
      <4>2. /\ \A i \in DOMAIN channel : IsRecordOf(channel[i], c) => i < 1
            /\ \/ \E i \in DOMAIN Written : IsCompleteOf(Written[i], c)
               \/ \E i \in 1..(1 - 1) : IsCompleteOf(channel[i], c)
        BY <1>3, <1>4, <2>2, <3>2, <4>1 DEF FlushesLast
      <4>3. \E i \in DOMAIN file' : IsCompleteOf(file'[i], c)
        BY <2>1, <4>2
      <4>4. \A i \in DOMAIN channel' : ~IsRecordOf(channel'[i], c)
        BY <1>3, <4>2
      <4> QED BY <1>1, <4>3, <4>4 DEF CompleteOnFile, NothingOnItsWay
    <3>3. ASSUME NEW d \in Cases, run'[d].at \in {"notified", "waiting"},
                 NEW j \in DOMAIN channel', channel'[j] = FlushOf(d)
          PROVE  /\ \A i \in DOMAIN channel' : IsRecordOf(channel'[i], d) => i < j
                 /\ \/ \E i \in DOMAIN Written : IsCompleteOf(Written[i], d)
                    \/ \E i \in 1..(j - 1) : IsCompleteOf(channel'[i], d)
      <4>1. j + 1 \in DOMAIN channel /\ channel[j + 1] = FlushOf(d) /\ j \in Nat \ {0}
            /\ run[d].at \in {"notified", "waiting"}
        BY <1>3, <1>6, <3>3
      <4>2. /\ \A i \in DOMAIN channel : IsRecordOf(channel[i], d) => i < j + 1
            /\ \/ \E i \in DOMAIN Written : IsCompleteOf(Written[i], d)
               \/ \E i \in 1..((j + 1) - 1) : IsCompleteOf(channel[i], d)
        BY <2>2, <4>1 DEF FlushesLast
      <4>3. \A i \in DOMAIN channel' : IsRecordOf(channel'[i], d) => i < j
        BY <1>3, <4>1, <4>2
      <4>4. ASSUME NEW i \in 1..((j + 1) - 1), IsCompleteOf(channel[i], d)
            PROVE  i - 1 \in 1..(j - 1) /\ IsCompleteOf(channel'[i - 1], d)
        <5>1. i \in DOMAIN channel /\ i # 1
          BY <1>3, <1>4, <4>1, <4>4 DEF IsCompleteOf
        <5> QED BY <1>3, <4>1, <4>4, <5>1
      <4> QED BY <4>2, <4>3, <4>4
    <3>4. ASSUME NEW d \in Cases
          PROVE  /\ run'[d].at \in {"notified", "waiting"} /\ <<d, runs[d]>> \in notified' => CompleteOnFile(d)'
                 /\ run'[d].at = "done" => CompleteOnFile(d)'
      <4>1. /\ run[d].at \in {"notified", "waiting"} /\ <<d, runs[d]>> \in notified => CompleteOnFile(d)
            /\ run[d].at = "done" => CompleteOnFile(d)
        BY <2>2 DEF FlushesLast, At
      <4>2. ASSUME run'[d].at \in {"notified", "waiting"}, <<d, runs[d]>> \in notified' PROVE CompleteOnFile(d)'
        <5>1. run[d].at \in {"notified", "waiting"}
          BY <1>6, <4>2
        <5>2. CASE <<d, runs[d]>> \in notified
          BY <3>1, <4>1, <5>1, <5>2
        <5>3. CASE <<d, runs[d]>> = <<c, n>>
          <6>1. d = c /\ runs[d] = n
            BY <5>3
          <6> QED BY <3>2, <5>1, <6>1
        <5> QED BY <1>6, <4>2, <5>2, <5>3
      <4>3. ASSUME run'[d].at = "done" PROVE CompleteOnFile(d)'
        <5> QED BY <1>6, <3>1, <3>2, <4>1, <4>3
      <4> QED BY <4>2, <4>3
    <3>5. \A d \in Cases : FlushOf(d)' = FlushOf(d)
      BY <1>1 DEF FlushOf
    <3> QED BY <1>1, <2>3, <3>3, <3>4, <3>5 DEF FlushesLast, At
  <2> QED BY <2>4, <2>5, <2>6
<1> QED BY <1>1, <1>10, <1>11 DEF TraceInv

\* What survives a crash is a beginning of what was written.
LEMMA CrashTrace ==
  ASSUME TypeOK, TraceInv, Crash
  PROVE  TraceInv'
<1>1. PICK n \in 0..Len(buffer) : file' = file \o SubSeq(buffer, 1, n)
  BY DEF Crash
<1>2. /\ channel' = <<>> /\ buffer' = <<>> /\ notified' = {} /\ writer' = "opening"
      /\ UNCHANGED <<runs, ioFailed>>
  BY DEF Crash
<1>3. \A c \in Cases : IF run[c].at = "done" THEN run'[c] = run[c] ELSE run'[c].at \in {"over", "idle"}
  BY DEF Crash, At, NotRunning
<1>4. /\ file \in Seq(LogRecords) /\ buffer \in Seq(LogRecords) /\ SubSeq(buffer, 1, n) \in Seq(LogRecords)
      /\ Len(SubSeq(buffer, 1, n)) = n /\ n \in Nat /\ n <= Len(buffer)
      /\ \A i \in 1..n : SubSeq(buffer, 1, n)[i] = buffer[i]
  BY DEF TypeOK
<1>5. /\ file' \in Seq(LogRecords)
      /\ \A i \in DOMAIN file' : i \in DOMAIN Written /\ file'[i] = Written[i] /\ i \in Nat
      /\ \A i \in DOMAIN file : i \in DOMAIN file' /\ file'[i] = file[i]
      /\ DOMAIN file' = 1..Len(file') /\ Len(file') \in Nat
  BY <1>1, <1>4 DEF Written
<1>6. Written' = file'
  BY <1>2, <1>5 DEF Written
<1>7. FlushesFresh'
  BY <1>2 DEF FlushesFresh
<1>8. ASSUME ~ioFailed PROVE ListedBefore' /\ RunsSent' /\ FlushesLast'
  <2>1. ListedBefore /\ FlushesLast
    BY <1>8 DEF TraceInv
  <2>2. ListedBefore'
    <3>1. ASSUME NEW i \in DOMAIN file', file'[i].kind = "workflow_complete", NEW k \in DOMAIN file'[i].steps
          PROVE  \E j \in 1..(i - 1) : file'[j] = file'[i].steps[k]
      <4>1. PICK j \in 1..(i - 1) : Written[j] = Written[i].steps[k]
        BY <1>5, <2>1, <3>1 DEF ListedBefore
      <4>2. j \in DOMAIN file'
        BY <1>5, <3>1
      <4> QED BY <1>5, <3>1, <4>1, <4>2
    <3> QED BY <1>2, <1>6, <3>1 DEF ListedBefore
  <2>3. RunsSent'
    BY <1>3 DEF RunsSent, Emitting
  <2>4. \A c \in Cases : CompleteOnFile(c) => CompleteOnFile(c)'
    BY <1>2, <1>5 DEF CompleteOnFile, NothingOnItsWay
  <2>5. FlushesLast'
    BY <1>2, <1>3, <2>1, <2>4 DEF FlushesLast, At
  <2> QED BY <2>2, <2>3, <2>5
<1> QED BY <1>2, <1>7, <1>8 DEF TraceInv

LEMMA AppendFacts ==
  ASSUME NEW S, NEW s \in Seq(S), NEW r \in S, NEW k \in DOMAIN Append(s, r)
  PROVE  Append(s, r)[k] = r \/ Has(s, Append(s, r)[k])
BY DEF Has

LEMMA RunStepTrace ==
  ASSUME TypeOK, ListsInv, TraceInv, NEW c \in Cases, RunStep(c) \/ Abandon(c)
  PROVE  TraceInv'
<1>0. /\ run \in [Cases -> RunStates] /\ runs \in [Cases -> Nat]
      /\ checkpoint \in [Cases -> [DOMAIN Steps -> Results]]
      /\ run[c] \in RunStates /\ runs[c] \in Nat
  BY DEF TypeOK
<1>1. /\ NotRunning.at = "idle" /\ NotRunning.records = <<>>
      /\ \A at : [NotRunning EXCEPT !.at = at].at = at /\ [NotRunning EXCEPT !.at = at].records = <<>>
  BY DEF NotRunning
<1>2. CASE RunStart(c)
  <2>1. /\ run' = [run EXCEPT ![c] = [NotRunning EXCEPT !.at = "step"]]
        /\ runs' = [runs EXCEPT ![c] = @ + 1] /\ UNCHANGED <<jsonl, notified>>
    BY <1>2 DEF RunStart
  <2>2. /\ run'[c].at = "step" /\ run'[c].records = <<>> /\ runs'[c] = runs[c] + 1
        /\ \A d \in Cases \ {c} : run'[d] = run[d] /\ runs'[d] = runs[d]
    BY <1>0, <1>1, <2>1
  <2>3. run'[c].at \in Emitting =>
          \/ run[c].at \in Emitting /\ runs'[c] = runs[c] /\ run'[c].records = run[c].records
          \/ runs[c] < runs'[c] /\ run'[c].records = <<>>
    BY <1>0, <2>1, <2>2
  <2>4. /\ run'[c].at # "flush"
        /\ run'[c].at \in {"notified", "waiting"} =>
             run[c].at \in {"notified", "waiting"} /\ runs'[c] = runs[c]
        /\ run'[c].at = "done" => (ioFailed \/ CompleteOnFile(c))
        /\ runs'[c] \in Nat /\ runs[c] <= runs'[c] /\ UNCHANGED jsonl /\ notified' \subseteq notified
        /\ \A d \in Cases \ {c} : run'[d] = run[d] /\ runs'[d] = runs[d]
    BY <1>0, <2>1, <2>2
  <2> QED BY <1>0, <2>3, <2>4, SilentTrace
<1>3. CASE StepRuns(c) \/ SaveOk(c)
  <2>1. /\ run'[c].at \in {"call", "step"} /\ run'[c].records = run[c].records
        /\ \A d \in Cases \ {c} : run'[d] = run[d]
    BY <1>0, <1>3 DEF StepRuns, SaveOk, RunStates
  <2>2. UNCHANGED <<runs, notified, jsonl>> /\ run[c].at \in Emitting
    BY <1>3 DEF StepRuns, SaveOk, At, Emitting
  <2>3. run'[c].at \in Emitting =>
          \/ run[c].at \in Emitting /\ runs'[c] = runs[c] /\ run'[c].records = run[c].records
          \/ runs[c] < runs'[c] /\ run'[c].records = <<>>
    BY <1>0, <2>1, <2>2
  <2>4. /\ run'[c].at # "flush"
        /\ run'[c].at \in {"notified", "waiting"} =>
             run[c].at \in {"notified", "waiting"} /\ runs'[c] = runs[c]
        /\ run'[c].at = "done" => (ioFailed \/ CompleteOnFile(c))
        /\ runs'[c] \in Nat /\ runs[c] <= runs'[c] /\ UNCHANGED jsonl /\ notified' \subseteq notified
        /\ \A d \in Cases \ {c} : run'[d] = run[d] /\ runs'[d] = runs[d]
    BY <1>0, <2>1, <2>2
  <2> QED BY <1>0, <2>3, <2>4, SilentTrace
<1>4. CASE SaveErr(c) \/ Abandon(c)
  <2>1. run'[c].at = "idle" /\ \A d \in Cases \ {c} : run'[d] = run[d]
    BY <1>0, <1>1, <1>4 DEF SaveErr, Abandon
  <2>2. UNCHANGED <<runs, jsonl>> /\ notified' \subseteq notified /\ run'[c].at \notin Emitting
    BY <1>4, <2>1 DEF SaveErr, Abandon, Emitting
  <2> QED BY <1>0, <2>1, <2>2, SilentTrace
<1>5. CASE FinishUpsert(c)
  <2>1. run' = [run EXCEPT ![c].at = "complete"] \/ run' = [run EXCEPT ![c] = NotRunning]
    BY <1>5 DEF FinishUpsert
  <2>2. /\ run'[c].at \in {"complete", "idle"}
        /\ run'[c].at = "complete" => run'[c].records = run[c].records
        /\ \A d \in Cases \ {c} : run'[d] = run[d]
    BY <1>0, <1>1, <2>1 DEF RunStates
  <2>3. UNCHANGED <<runs, notified, jsonl>> /\ run[c].at \in Emitting
    BY <1>5 DEF FinishUpsert, At, Emitting
  <2>4. run'[c].at \in Emitting => run'[c].at = "complete"
    BY <2>2 DEF Emitting
  <2>5. run'[c].at \in Emitting =>
          \/ run[c].at \in Emitting /\ runs'[c] = runs[c] /\ run'[c].records = run[c].records
          \/ runs[c] < runs'[c] /\ run'[c].records = <<>>
    BY <1>0, <2>2, <2>3, <2>4
  <2>6. /\ run'[c].at # "flush"
        /\ run'[c].at \in {"notified", "waiting"} =>
             run[c].at \in {"notified", "waiting"} /\ runs'[c] = runs[c]
        /\ run'[c].at = "done" => (ioFailed \/ CompleteOnFile(c))
        /\ runs'[c] \in Nat /\ runs[c] <= runs'[c] /\ UNCHANGED jsonl /\ notified' \subseteq notified
        /\ \A d \in Cases \ {c} : run'[d] = run[d] /\ runs'[d] = runs[d]
    BY <1>0, <2>2, <2>3, <2>4
  <2> QED BY <1>0, <2>5, <2>6, SilentTrace
<1>6. CASE FlushAwait(c)
  <2>1. UNCHANGED <<runs, jsonl>> /\ run[c].at = "notified"
    BY <1>6 DEF FlushAwait, At
  <2>2. CASE <<c, runs[c]>> \in notified
    <3>1. /\ notified' \subseteq notified
          /\ run' = [run EXCEPT ![c] = [NotRunning EXCEPT !.at = "done"]]
      BY <1>6, <2>2 DEF FlushAwait, FinishReturns
    <3>2. run'[c].at = "done" /\ \A d \in Cases \ {c} : run'[d] = run[d]
      BY <1>0, <1>1, <3>1
    <3>3. ioFailed \/ CompleteOnFile(c)
      BY <2>1, <2>2 DEF TraceInv, FlushesLast
    <3>4. run'[c].at \notin Emitting
      BY <3>2 DEF Emitting
    <3>5. /\ run'[c].at # "flush"
          /\ run'[c].at \in {"notified", "waiting"} =>
               run[c].at \in {"notified", "waiting"} /\ runs'[c] = runs[c]
          /\ run'[c].at = "done" => (ioFailed \/ CompleteOnFile(c))
          /\ runs'[c] \in Nat /\ runs[c] <= runs'[c] /\ UNCHANGED jsonl /\ notified' \subseteq notified
          /\ \A d \in Cases \ {c} : run'[d] = run[d] /\ runs'[d] = runs[d]
      BY <1>0, <2>1, <3>1, <3>2, <3>3
    <3> QED BY <1>0, <3>4, <3>5, SilentTrace
  <2>3. CASE <<c, runs[c]>> \notin notified
    <3>1. notified' = notified /\ run' = [run EXCEPT ![c].at = "waiting"]
      BY <1>6, <2>3 DEF FlushAwait
    <3>2. run'[c].at = "waiting" /\ \A d \in Cases \ {c} : run'[d] = run[d]
      BY <1>0, <3>1 DEF RunStates
    <3>3. run'[c].at \notin Emitting
      BY <3>2 DEF Emitting
    <3> QED BY <1>0, <2>1, <3>1, <3>2, <3>3, SilentTrace
  <2> QED BY <2>2, <2>3
<1>7. CASE FlushSend(c)
  BY <1>7, FlushTrace
<1>8. CASE StepRestored(c)
  <2> DEFINE r == CheckpointRecord(c)
  <2>1. run[c].pos \in DOMAIN Steps /\ Step(c) \in StepNames /\ checkpoint[c][run[c].pos] \in Results
    BY <1>0, <1>8, StepsType DEF StepRestored, RunStates, Step
  <2>2. r \in StepRecords /\ r \in LogRecords /\ r.case = c /\ r.kind = "step"
    BY <2>1, StepRecordType DEF CheckpointRecord, StepRecord
  <2> HIDE DEF r
  <2>3. /\ run' = [run EXCEPT ![c].pos = @ + 1, ![c].records = Append(@, r)]
        /\ Emit(<<r>>) /\ UNCHANGED <<runs, notified>> /\ run[c].at \in Emitting /\ run[c].at = "step"
    BY <1>8 DEF StepRestored, r, Emitting, At
  <2>4. /\ run'[c].at = "step" /\ run'[c].records = Append(run[c].records, r)
        /\ \A d \in Cases \ {c} : run'[d] = run[d]
    BY <1>0, <2>3 DEF RunStates
  <2>5. \A k \in DOMAIN run'[c].records :
          Has(run[c].records, run'[c].records[k]) \/ run'[c].records[k] = r
    <3>1. run[c].records \in Seq(StepRecords)
      BY <1>0 DEF RunStates
    <3> QED BY <2>2, <2>4, <3>1, AppendFacts
  <2>6. <<r>> \in Seq(LogRecords) /\ DOMAIN <<r>> = {1} /\ <<r>>[1] = r /\ Has(<<r>>, r)
    BY <2>2 DEF Has
  <2> DEFINE rs == <<r>>
  <2>7. \A k \in DOMAIN run'[c].records :
          Has(run[c].records, run'[c].records[k]) \/ Has(rs, run'[c].records[k])
    BY <2>5, <2>6
  <2>8. \A i \in DOMAIN rs : rs[i].case = c /\ rs[i].kind = "step"
    BY <2>2, <2>6
  <2>9. run'[c].at \notin {"notified", "waiting", "done", "flush"}
    BY <2>4
  <2>10. rs \in Seq(LogRecords) /\ Emit(rs) /\ UNCHANGED <<runs, notified>> /\ run[c].at \in Emitting
    BY <2>3, <2>6
  <2> HIDE DEF rs
  <2> QED BY <2>4, <2>7, <2>8, <2>9, <2>10, EmitTrace
<1>9. ASSUME NEW out \in Results, ClosureReturns(c, out) PROVE TraceInv'
  <2> DEFINE l == LlmCallRecord(c, Step(c), out)  r == StepRecord(c, Step(c), out, FALSE)
  <2>1. run[c].pos \in DOMAIN Steps /\ Step(c) \in StepNames
    <3>1. run[c].pos \in 1..(Len(Steps) + 1) /\ run[c].pos <= Len(Steps)
      BY <1>0, <1>9 DEF ClosureReturns, ListsInv, ListsFor, RunStates, At
    <3> QED BY <3>1, StepsType DEF Step
  <2>2. /\ l \in LogRecords /\ r \in LogRecords /\ r \in StepRecords
        /\ l.case = c /\ l.kind = "llm_call" /\ r.case = c /\ r.kind = "step"
    BY <1>0, <2>1, StepRecordType DEF LlmCallRecord, StepRecord
  <2>3. /\ run' = IF out = None THEN [run EXCEPT ![c] = NotRunning]
                  ELSE [run EXCEPT ![c].at = "save", ![c].out = out, ![c].records = Append(@, r)]
        /\ Emit(<<l, r>>) /\ UNCHANGED <<runs, notified>> /\ run[c].at \in Emitting /\ run[c].at = "call"
    BY <1>9 DEF ClosureReturns, Returned, Emitting, At
  <2> HIDE DEF l, r
  <2>4. /\ run'[c].at \in {"save", "idle"}
        /\ run'[c].at = "save" => run'[c].records = Append(run[c].records, r)
        /\ \A d \in Cases \ {c} : run'[d] = run[d]
    BY <1>0, <1>1, <2>3 DEF RunStates
  <2>5. <<l, r>> \in Seq(LogRecords) /\ DOMAIN <<l, r>> = {1, 2} /\ <<l, r>>[1] = l /\ <<l, r>>[2] = r
    BY <2>2
  <2>6. Has(<<l, r>>, r)
    BY <2>5 DEF Has
  <2>7. ASSUME run'[c].at \in Emitting, NEW k \in DOMAIN run'[c].records
        PROVE  Has(run[c].records, run'[c].records[k]) \/ Has(<<l, r>>, run'[c].records[k])
    <3>1. run[c].records \in Seq(StepRecords)
      BY <1>0 DEF RunStates
    <3>2. run'[c].records = Append(run[c].records, r)
      BY <2>4, <2>7 DEF Emitting
    <3>3. run'[c].records[k] = r \/ Has(run[c].records, run'[c].records[k])
      BY <2>2, <2>7, <3>1, <3>2, AppendFacts
    <3> QED BY <2>6, <3>3
  <2> DEFINE rs == <<l, r>>
  <2>8. \A i \in DOMAIN rs : rs[i].case = c /\ rs[i].kind \in {"step", "llm_call"}
    BY <2>2, <2>5
  <2>9. run'[c].at \notin {"notified", "waiting", "done", "flush"}
    BY <2>4
  <2>10. /\ rs \in Seq(LogRecords) /\ Emit(rs) /\ UNCHANGED <<runs, notified>> /\ run[c].at \in Emitting
         /\ run'[c].at \in Emitting => \A k \in DOMAIN run'[c].records :
              Has(run[c].records, run'[c].records[k]) \/ Has(rs, run'[c].records[k])
    BY <2>3, <2>5, <2>7
  <2> HIDE DEF rs
  <2> QED BY <2>4, <2>8, <2>9, <2>10, EmitTrace
<1>10. CASE FinishComplete(c)
  <2> DEFINE r == WorkflowRecord(c, run[c].records)
  <2>1. r \in LogRecords /\ r.case = c /\ r.kind = "workflow_complete" /\ r.steps = run[c].records
    <3>1. run[c].pos = Len(Steps) + 1 /\ ListedUpTo(run[c].records, run[c].pos - 1)
      BY <1>10 DEF FinishComplete, ListsInv, ListsFor, At
    <3>2. run[c].pos - 1 = Len(Steps)
      BY <3>1, StepsType
    <3>3. run[c].records \in Seq(StepRecords) /\ ListedUpTo(run[c].records, Len(Steps))
      BY <1>0, <3>1, <3>2 DEF RunStates
    <3> QED BY <3>3, ListedIsComplete DEF WorkflowRecord, LogRecords
  <2>2. /\ run'[c].at = "flush" /\ run'[c].records = run[c].records
        /\ \A d \in Cases \ {c} : run'[d] = run[d]
    BY <1>0, <1>10 DEF FinishComplete, RunStates
  <2>3. Emit(<<r>>) /\ UNCHANGED <<runs, notified>> /\ run[c].at \in Emitting /\ r = WorkflowRecord(c, run'[c].records)
    BY <1>10, <2>2 DEF FinishComplete, Emitting, At
  <2> HIDE DEF r
  <2>4. <<r>> \in Seq(LogRecords) /\ DOMAIN <<r>> = {1} /\ <<r>>[1] = r /\ Has(<<r>>, r)
    BY <2>1 DEF Has
  <2>5. \A k \in DOMAIN run[c].records : Has(run[c].records, run[c].records[k])
    BY DEF Has
  <2>6. \A i \in DOMAIN <<r>> : <<r>>[i].case = c /\ <<r>>[i].kind # "flush"
    BY <2>1, <2>4
  <2>7. \A i \in DOMAIN <<r>> : \A k \in DOMAIN <<r>>[i].steps : Has(run[c].records, <<r>>[i].steps[k])
    BY <2>1, <2>4, <2>5
  <2>8. \A k \in DOMAIN run'[c].records : Has(run[c].records, run'[c].records[k])
    BY <2>2, <2>5
  <2>9. Has(<<r>>, WorkflowRecord(c, run'[c].records))
    BY <2>3, <2>4
  <2>10. run'[c].at \notin {"notified", "waiting", "done"}
    BY <2>2
  <2> QED BY <2>2, <2>3, <2>4, <2>6, <2>7, <2>8, <2>9, <2>10, EmitTrace
<1> QED BY <1>2, <1>3, <1>4, <1>5, <1>6, <1>7, <1>8, <1>9, <1>10 DEF RunStep, Results

LEMMA StutterTrace == ASSUME TraceInv, UNCHANGED vars PROVE TraceInv'
<1>1. /\ UNCHANGED <<run, runs, notified, writer, channel, buffer, file, ioFailed>>
      /\ Written' = Written
  BY DEF vars, jsonl, Written
<1>2. \A d : FlushOf(d)' = FlushOf(d) /\ (CompleteOnFile(d)' <=> CompleteOnFile(d))
  BY <1>1 DEF FlushOf, CompleteOnFile, NothingOnItsWay
<1>3. FlushesFresh' <=> FlushesFresh
  BY <1>1 DEF FlushesFresh, Emitting
<1>4. ListedBefore' <=> ListedBefore
  BY <1>1 DEF ListedBefore
<1>5. RunsSent' <=> RunsSent
  BY <1>1 DEF RunsSent, Emitting, At, Sent
<1>6. FlushesLast' <=> FlushesLast
  BY <1>1, <1>2 DEF FlushesLast, At
<1> QED BY <1>1, <1>3, <1>4, <1>5, <1>6 DEF TraceInv

(* When finish() has returned, the trace of the run is in the file, across  *)
(* crashes as well, with each step before the record that lists it, and     *)
(* nothing of the case is still on its way: for any cases, steps and runs,  *)
(* however the writer task falls behind.                                    *)
THEOREM FinishedIsOnFileAlways == Spec => []FinishedIsOnFile
<1>1. TypeOK /\ ListsInv /\ TraceInv /\ [Next]_vars => TraceInv'
  BY RunStepTrace, OpenTrace, WriteTrace, FlushFileTrace, CrashTrace, StutterTrace DEF Next, Writer
<1>2. TypeOK /\ TraceInv => FinishedIsOnFile
  <2> SUFFICES ASSUME TypeOK, TraceInv, NEW c \in Cases, At(c, "done"), ~ioFailed
               PROVE  /\ \E i \in DOMAIN file :
                           /\ IsCompleteOf(file[i], c)
                           /\ \A k \in DOMAIN file[i].steps : \E j \in 1..(i - 1) : file[j] = file[i].steps[k]
                      /\ NothingOnItsWay(c)
    BY DEF FinishedIsOnFile
  <2>1. ListedBefore /\ CompleteOnFile(c)
    BY DEF TraceInv, FlushesLast
  <2>2. PICK i \in DOMAIN file : IsCompleteOf(file[i], c)
    BY <2>1 DEF CompleteOnFile
  <2>3. i \in DOMAIN Written /\ Written[i] = file[i] /\ file[i].kind = "workflow_complete"
    BY <2>2, WrittenFacts DEF IsCompleteOf
  <2>4. \A k \in DOMAIN file[i].steps : \E j \in 1..(i - 1) : Written[j] = file[i].steps[k]
    BY <2>1, <2>3 DEF ListedBefore
  <2>5. \A j \in 1..(i - 1) : j \in DOMAIN file
    BY DEF TypeOK
  <2>6. \A k \in DOMAIN file[i].steps : \E j \in 1..(i - 1) : file[j] = file[i].steps[k]
    BY <2>4, <2>5, WrittenFacts
  <2> QED BY <2>1, <2>2, <2>6 DEF CompleteOnFile
<1> QED BY <1>1, <1>2, InitTrace, ListsInvariant, PTL DEF Spec
=============================================================================
