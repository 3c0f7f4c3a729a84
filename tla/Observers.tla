----------------------------- MODULE Observers -----------------------------
(***************************************************************************)
(* The records of workflow runs on their way to the observers.  Each case   *)
(* runs the same list of steps and finishes; each step makes one observed   *)
(* LLM call and returns its response.  A run emits its records between its  *)
(* awaits, and finish() waits for the observer to flush.                    *)
(*                                                                         *)
(* The observer is a CompositeObserver over an InMemoryObserver, which      *)
(* keeps the records of the process, and a JsonlObserver, which sends them  *)
(* through a channel to a writer task that writes them into the buffer of   *)
(* the file.  A record is handed to one child after the other without       *)
(* suspending in between, so one step of the model is the whole delivery.   *)
(***************************************************************************)
EXTENDS Integers, Sequences, Functions

CONSTANTS Cases,
          Steps,       \* the sequence of step names of the workflow
          Outputs,     \* responses of the LLM, non-null
          None,        \* no output, no checkpoint
          MaxRuns,     \* bound: runs started, of all cases
          MaxCrashes   \* bound: restarts of the process

ASSUME ObserversAssumption ==
  /\ None \notin Outputs
  /\ Steps \in Seq(STRING) /\ \A i, j \in DOMAIN Steps : Steps[i] = Steps[j] => i = j
  /\ MaxRuns \in Nat /\ MaxCrashes \in Nat

StepNames == {Steps[i] : i \in DOMAIN Steps}

VARIABLES
  run,         \* the run of each case: where it is and the context's step_records
  runs,        \* how many runs of each case were started
  checkpoint,  \* the StateStore entries of each case
  stored,      \* the cases the CaseStore holds as Finished
  memory,      \* the records of the InMemoryObserver
  writer,      \* the writer task: opening the file, open, or ended
  channel,     \* events sent to the writer and not yet received
  buffer,      \* lines written and not yet flushed
  file,        \* lines in the file
  notified,    \* the flushes whose Notify holds a permit
  ioFailed,    \* history: lines of the buffer could not be written
  crashes,
  inherited    \* history: checkpoints that were there when a process started

jsonl == <<writer, channel, buffer, file, ioFailed>>
vars == <<run, runs, checkpoint, stored, memory, jsonl, notified, crashes, inherited>>

StepRecord(c, s, out, cached) ==
  [kind |-> "step", case |-> c, step |-> s, output |-> out, cached |-> cached]
LlmCallRecord(c, s, out) == [kind |-> "llm_call", case |-> c, step |-> s, output |-> out]
WorkflowRecord(c, records) == [kind |-> "workflow_complete", case |-> c, steps |-> records]

NotRunning == [at |-> "idle", pos |-> 1, out |-> None, records |-> <<>>]

Init ==
  /\ run = [c \in Cases |-> NotRunning]
  /\ runs = [c \in Cases |-> 0]
  /\ checkpoint = [c \in Cases |-> [i \in DOMAIN Steps |-> None]]
  /\ stored = {} /\ memory = <<>>
  /\ writer = "opening" /\ channel = <<>> /\ buffer = <<>> /\ file = <<>>
  /\ notified = {} /\ ioFailed = FALSE
  /\ crashes = 0 /\ inherited = {}

-----------------------------------------------------------------------------
(* What a record does when it is emitted.  A channel whose receiver is gone *)
(* refuses the event, and the refusal is ignored.                           *)

Send(events) == channel' = IF writer = "ended" THEN channel ELSE channel \o events

Emit(records) ==
  /\ memory' = memory \o records
  /\ Send(records)
  /\ UNCHANGED <<writer, buffer, file, ioFailed>>

-----------------------------------------------------------------------------
(* A run of case c.                                                         *)

Started == FoldFunction(+, 0, runs)
At(c, where) == run[c].at = where
Step(c) == Steps[run[c].pos]

\* Each tick gives the workflow a new context, with no records.
RunStart(c) ==
  /\ At(c, "idle") /\ Started < MaxRuns
  /\ run' = [run EXCEPT ![c] = [NotRunning EXCEPT !.at = "step"]]
  /\ runs' = [runs EXCEPT ![c] = @ + 1]
  /\ UNCHANGED <<checkpoint, stored, memory, jsonl, notified, crashes, inherited>>

CheckpointRecord(c) == StepRecord(c, Step(c), checkpoint[c][run[c].pos], TRUE)

\* The list of the run's steps holds those that were executed.
StepRestoredUnlisted(c) ==
  /\ At(c, "step") /\ run[c].pos <= Len(Steps)
  /\ checkpoint[c][run[c].pos] # None
  /\ run' = [run EXCEPT ![c].pos = @ + 1]
  /\ Emit(<<CheckpointRecord(c)>>)
  /\ UNCHANGED <<runs, checkpoint, stored, notified, crashes, inherited>>

StepRestored(c) ==
  /\ At(c, "step") /\ run[c].pos <= Len(Steps)
  /\ checkpoint[c][run[c].pos] # None
  /\ run' = [run EXCEPT ![c].pos = @ + 1, ![c].records = Append(@, CheckpointRecord(c))]
  /\ Emit(<<CheckpointRecord(c)>>)
  /\ UNCHANGED <<runs, checkpoint, stored, notified, crashes, inherited>>

StepRuns(c) ==
  /\ At(c, "step") /\ run[c].pos <= Len(Steps)
  /\ checkpoint[c][run[c].pos] = None
  /\ run' = [run EXCEPT ![c].at = "call"]
  /\ UNCHANGED <<runs, checkpoint, stored, memory, jsonl, notified, crashes, inherited>>

Returned(c, out) ==
  IF out = None THEN [run EXCEPT ![c] = NotRunning]
  ELSE [run EXCEPT ![c].at = "save", ![c].out = out,
                   ![c].records = Append(@, StepRecord(c, Step(c), out, FALSE))]

\* The step itself leaves no record.
ClosureReturnsQuietly(c, out) ==
  /\ At(c, "call")
  /\ run' = Returned(c, out)
  /\ Emit(<<LlmCallRecord(c, Step(c), out)>>)
  /\ UNCHANGED <<runs, checkpoint, stored, notified, crashes, inherited>>

\* observe_llm_call records the answered or failed call, the closure returns the answer,
\* and step() emits its record before it saves: none of it suspends.
ClosureReturns(c, out) ==
  /\ At(c, "call")
  /\ run' = Returned(c, out)
  /\ Emit(<<LlmCallRecord(c, Step(c), out), StepRecord(c, Step(c), out, FALSE)>>)
  /\ UNCHANGED <<runs, checkpoint, stored, notified, crashes, inherited>>

SaveOk(c) ==
  /\ At(c, "save")
  /\ checkpoint' = [checkpoint EXCEPT ![c][run[c].pos] = run[c].out]
  /\ run' = [run EXCEPT ![c].at = "step", ![c].pos = @ + 1, ![c].out = None]
  /\ UNCHANGED <<runs, stored, memory, jsonl, notified, crashes, inherited>>

SaveErr(c) ==
  /\ At(c, "save")
  /\ checkpoint' \in {checkpoint, [checkpoint EXCEPT ![c][run[c].pos] = run[c].out]}
  /\ run' = [run EXCEPT ![c] = NotRunning]
  /\ UNCHANGED <<runs, stored, memory, jsonl, notified, crashes, inherited>>

-----------------------------------------------------------------------------
(* finish(): store the case, delete its checkpoints, emit the record of the *)
(* workflow, and flush the observer.                                        *)

FinishUpsert(c) ==
  /\ At(c, "step") /\ run[c].pos > Len(Steps)
  /\ \/ stored' = stored \cup {c} /\ run' = [run EXCEPT ![c].at = "complete"]
     \/ stored' \in {stored, stored \cup {c}} /\ run' = [run EXCEPT ![c] = NotRunning]
  /\ UNCHANGED <<runs, checkpoint, memory, jsonl, notified, crashes, inherited>>

Cleared(c) == [checkpoint EXCEPT ![c] = [i \in DOMAIN Steps |-> None]]

FinishComplete(c) ==
  /\ At(c, "complete")
  /\ checkpoint' \in {checkpoint, Cleared(c)}
  /\ run' = [run EXCEPT ![c].at = "flush"]
  /\ Emit(<<WorkflowRecord(c, run[c].records)>>)
  /\ UNCHANGED <<runs, stored, notified, crashes, inherited>>

FinishReturns(c) == run' = [run EXCEPT ![c] = [NotRunning EXCEPT !.at = "done"]]

\* The flush of the memory does nothing.  A flush of the file has a Notify of its own,
\* named here by its case and the case's run.
FlushSend(c) ==
  /\ At(c, "flush")
  /\ Send(<<[kind |-> "flush", case |-> c, run |-> runs[c]]>>)
  /\ run' = [run EXCEPT ![c].at = "notified"]
  /\ UNCHANGED <<runs, checkpoint, stored, memory, writer, buffer, file, ioFailed,
                 notified, crashes, inherited>>

\* notified().await takes a permit that is there already, or waits.
FlushAwait(c) ==
  /\ At(c, "notified")
  /\ IF <<c, runs[c]>> \in notified
       THEN notified' = notified \ {<<c, runs[c]>>} /\ FinishReturns(c)
       ELSE run' = [run EXCEPT ![c].at = "waiting"] /\ UNCHANGED notified
  /\ UNCHANGED <<runs, checkpoint, stored, memory, jsonl, crashes, inherited>>

-----------------------------------------------------------------------------
(* The writer task of JsonlObserver.  It opens the file once, and ends when *)
(* that fails: the receiver is dropped with what was sent.  A write that    *)
(* fails shows at the next flush, here with the loss of the whole buffer.   *)

OpenFile ==
  /\ writer = "opening"
  /\ \/ writer' = "open" /\ UNCHANGED channel
     \/ writer' = "ended" /\ channel' = <<>>
  /\ UNCHANGED <<run, runs, checkpoint, stored, memory, buffer, file, ioFailed,
                 notified, crashes, inherited>>

WriteRecord ==
  /\ writer = "open" /\ channel # <<>> /\ Head(channel).kind # "flush"
  /\ buffer' = Append(buffer, Head(channel))
  /\ channel' = Tail(channel)
  /\ UNCHANGED <<run, runs, checkpoint, stored, memory, writer, file, ioFailed,
                 notified, crashes, inherited>>

\* notify_waiters() wakes those that wait already and leaves no permit.
NotifyWaiters(c, n) ==
  /\ IF At(c, "waiting") /\ runs[c] = n THEN FinishReturns(c) ELSE UNCHANGED run
  /\ UNCHANGED notified

NotifyOne(c, n) ==
  IF At(c, "waiting") /\ runs[c] = n
    THEN FinishReturns(c) /\ UNCHANGED notified
    ELSE notified' = notified \cup {<<c, n>>} /\ UNCHANGED run

\* The lines stay in the buffer for a later flush.
FlushFileLate ==
  /\ writer = "open" /\ channel # <<>> /\ Head(channel).kind = "flush"
  /\ NotifyOne(Head(channel).case, Head(channel).run)
  /\ channel' = Tail(channel)
  /\ UNCHANGED <<runs, checkpoint, stored, memory, writer, buffer, file, ioFailed,
                 crashes, inherited>>

FlushFile ==
  /\ writer = "open" /\ channel # <<>> /\ Head(channel).kind = "flush"
  /\ \/ file' = file \o buffer /\ UNCHANGED ioFailed
     \/ ioFailed' = TRUE /\ UNCHANGED file
  /\ buffer' = <<>>
  /\ NotifyOne(Head(channel).case, Head(channel).run)
  /\ channel' = Tail(channel)
  /\ UNCHANGED <<runs, checkpoint, stored, memory, writer, crashes, inherited>>

Writer == OpenFile \/ WriteRecord \/ FlushFile

-----------------------------------------------------------------------------
(* The caller of tick() drops its future at an await of the run, or the     *)
(* read of a checkpoint fails, which ends the run in the same way.  The     *)
(* delete of the checkpoints may have been applied; a save or an upsert in  *)
(* the same position is one that fails after its write.                     *)
Abandon(c) ==
  /\ run[c].at \in {"step", "call", "save", "complete", "notified", "waiting"}
  /\ \/ UNCHANGED checkpoint
     \/ At(c, "complete") /\ checkpoint' = Cleared(c)
  /\ run' = [run EXCEPT ![c] = NotRunning]
  /\ notified' = {n \in notified : n[1] # c}
  /\ UNCHANGED <<runs, stored, memory, jsonl, crashes, inherited>>

(* The process dies and a new one takes over the cases that are not stored  *)
(* as Finished.  Any part of the buffer may have reached the file.          *)
Crash ==
  /\ crashes < MaxCrashes
  /\ crashes' = crashes + 1
  /\ \E n \in 0..Len(buffer) : file' = file \o SubSeq(buffer, 1, n)
  /\ memory' = <<>> /\ channel' = <<>> /\ buffer' = <<>> /\ notified' = {}
  /\ writer' = "opening"
  /\ run' = [c \in Cases |-> IF At(c, "done") THEN run[c]
                             ELSE [NotRunning EXCEPT !.at = IF c \in stored THEN "over" ELSE @]]
  /\ inherited' = {cs \in Cases \X StepNames :
                     \E i \in DOMAIN Steps : cs[2] = Steps[i] /\ checkpoint[cs[1]][i] # None}
  /\ UNCHANGED <<runs, checkpoint, stored, ioFailed>>

RunStep(c) ==
  \/ RunStart(c) \/ StepRestored(c) \/ StepRuns(c)
  \/ \E out \in Outputs \cup {None} : ClosureReturns(c, out)
  \/ SaveOk(c) \/ SaveErr(c)
  \/ FinishUpsert(c) \/ FinishComplete(c) \/ FlushSend(c) \/ FlushAwait(c)

Next ==
  \/ \E c \in Cases : RunStep(c) \/ Abandon(c)
  \/ Writer
  \/ Crash

\* The runtime polls the writer task and a run that can go on.
Fairness ==
  /\ WF_vars(Writer)
  /\ \A c \in Cases : WF_vars(FlushSend(c)) /\ WF_vars(FlushAwait(c))

Spec == Init /\ [][Next]_vars /\ Fairness

-----------------------------------------------------------------------------
Records == {memory[i] : i \in DOMAIN memory} \cup {file[i] : i \in DOMAIN file}

\* "steps is the complete list for the workflow" (observe.rs:41-43): all steps once, in
\* order, with their results.
IsComplete(list) ==
  /\ [i \in DOMAIN list |-> list[i].step] = Steps
  /\ \A i \in DOMAIN list : list[i].output # None

Results     == Outputs \cup {None}
StepRecords == [kind : {"step"}, case : Cases, step : StepNames, output : Results, cached : BOOLEAN]
LogRecords  ==
  StepRecords
    \cup [kind : {"llm_call"}, case : Cases, step : StepNames, output : Results]
    \cup [kind : {"workflow_complete"}, case : Cases, steps : {l \in Seq(StepRecords) : IsComplete(l)}]

Flushes == [kind : {"flush"}, case : Cases, run : Nat]
RunStates ==
  [at : {"idle", "step", "call", "save", "complete", "flush", "notified", "waiting", "done", "over"},
   pos : 1..(Len(Steps) + 1), out : Results, records : Seq(StepRecords)]

TypeOK ==
  /\ run \in [Cases -> RunStates]
  /\ runs \in [Cases -> Nat]
  /\ checkpoint \in [Cases -> [DOMAIN Steps -> Results]]
  /\ stored \subseteq Cases /\ ioFailed \in BOOLEAN
  /\ {memory, buffer, file} \subseteq Seq(LogRecords)
  /\ channel \in Seq(LogRecords \cup Flushes)
  /\ writer \in {"opening", "open", "ended"}
  /\ notified \subseteq Cases \X Nat
  /\ crashes \in 0..MaxCrashes /\ inherited \subseteq Cases \X StepNames

Original(r) == StepRecord(r.case, r.step, r.output, FALSE)

\* Each record of a log has before it the records it rests on.
TracesBack(log) ==
  \A i \in DOMAIN log : LET r == log[i] IN
    /\ (r.kind = "step" /\ r.cached /\ <<r.case, r.step>> \notin inherited) =>
         \E j \in 1..(i - 1) : log[j] = Original(r)
    /\ (r.kind = "step" /\ ~r.cached) =>
         \E j \in 1..(i - 1) : log[j] = LlmCallRecord(r.case, r.step, r.output)

(* The records in memory make a dataset without holes ("use the originals", *)
(* dataset.rs:52): a replayed step has the record of its execution before   *)
(* it, with the same output, and an execution the LLM call it rests on,     *)
(* though saves fail with and without effect and runs are dropped.  Only a  *)
(* checkpoint that an earlier process left has its original elsewhere.      *)
ReplayHasOriginal == TracesBack(memory)

(* Each record of a finished workflow, in memory or in the file, lists all  *)
(* steps of the workflow, though most runs of a case end before the last    *)
(* one and leave their records in the same logs.                            *)
CompleteListsSteps ==
  \A r \in Records : r.kind = "workflow_complete" => IsComplete(r.steps)

IsCompleteOf(r, c) == r.kind = "workflow_complete" /\ r.case = c
IsRecordOf(r, c)   == r.kind # "flush" /\ r.case = c

NothingOnItsWay(c) ==
  /\ \A i \in DOMAIN channel : ~IsRecordOf(channel[i], c)
  /\ \A i \in DOMAIN buffer : ~IsRecordOf(buffer[i], c)

(* When finish() has returned, the trace of the run is in the file, across  *)
(* a crash as well: its complete record, each step listed there before it,  *)
(* and nothing of the case is still on its way ("Waits until all previously *)
(* sent events are written", jsonl.rs:116).  A file that refuses writes is  *)
(* only logged.                                                             *)
FinishedIsOnFile ==
  \A c \in Cases : (At(c, "done") /\ ~ioFailed) =>
    /\ \E i \in DOMAIN file :
         /\ IsCompleteOf(file[i], c)
         /\ \A k \in DOMAIN file[i].steps : \E j \in 1..(i - 1) : file[j] = file[i].steps[k]
    /\ NothingOnItsWay(c)

(* A flush comes back, whether the writer is faster or slower than the run  *)
(* that waits for it, unless the file could not be opened: then nobody is   *)
(* left to notify it, and finish() waits for ever.                          *)
FlushReturns ==
  \A c \in Cases :
    run[c].at \in {"flush", "notified", "waiting"}
      ~> (run[c].at \notin {"flush", "notified", "waiting"} \/ writer = "ended")

\* What strengthens these to inductive invariants: a run lists the steps it has come
\* through, and each checkpoint, saved or about to be, has the record of its execution.
ListedUpTo(list, n) ==
  /\ Len(list) = n
  /\ \A i \in 1..n : list[i].step = Steps[i] /\ list[i].output # None

ListsFor(r) ==
  /\ r.at \in {"step", "call", "complete"} => ListedUpTo(r.records, r.pos - 1)
  /\ r.at = "save" => ListedUpTo(r.records, r.pos)
  /\ r.at \in {"call", "save"} => r.pos <= Len(Steps)
  /\ r.at = "complete" => r.pos = Len(Steps) + 1

ListsInv == \A c \in Cases : ListsFor(run[c])

Has(log, r) == \E i \in DOMAIN log : log[i] = r

CheckpointsInv ==
  \A c \in Cases, i \in DOMAIN Steps :
    \/ checkpoint[c][i] = None \/ <<c, Steps[i]>> \in inherited
    \/ Has(memory, StepRecord(c, Steps[i], checkpoint[c][i], FALSE))

SavesInv ==
  \A c \in Cases : At(c, "save") =>
    run[c].out # None /\ Has(memory, StepRecord(c, Step(c), run[c].out, FALSE))

OriginalsInv == CheckpointsInv /\ SavesInv /\ TracesBack(memory)

\* The trace of a run on its way to the file: what the writer has written, flushed or not,
\* and what was sent to it and not yet received.
Written == file \o buffer
Sent(r) == Has(Written, r) \/ Has(channel, r)

\* The steps a complete record lists go before it.
ListedBefore ==
  /\ \A i \in DOMAIN Written : Written[i].kind = "workflow_complete" =>
       \A k \in DOMAIN Written[i].steps : \E j \in 1..(i - 1) : Written[j] = Written[i].steps[k]
  /\ \A i \in DOMAIN channel : channel[i].kind = "workflow_complete" =>
       \A k \in DOMAIN channel[i].steps :
         \/ Has(Written, channel[i].steps[k])
         \/ \E j \in 1..(i - 1) : channel[j] = channel[i].steps[k]

\* A run that emits has sent what it lists, and before it flushes its complete record.
Emitting == {"step", "call", "save", "complete", "flush"}

RunsSent ==
  writer # "ended" => \A c \in Cases : run[c].at \in Emitting =>
    /\ \A k \in DOMAIN run[c].records : Sent(run[c].records[k])
    /\ At(c, "flush") => Sent(WorkflowRecord(c, run[c].records))

FlushOf(c) == [kind |-> "flush", case |-> c, run |-> runs[c]]

CompleteOnFile(c) == (\E i \in DOMAIN file : IsCompleteOf(file[i], c)) /\ NothingOnItsWay(c)

\* The flush a run waits for is behind all of its records; once it is answered, they are
\* in the file and stay the last ones of the case.
FlushesLast ==
  \A c \in Cases :
    /\ run[c].at \in {"notified", "waiting"} =>
         /\ \A j \in DOMAIN channel : channel[j] = FlushOf(c) =>
              /\ \A i \in DOMAIN channel : IsRecordOf(channel[i], c) => i < j
              /\ \/ \E i \in DOMAIN Written : IsCompleteOf(Written[i], c)
                 \/ \E i \in 1..(j - 1) : IsCompleteOf(channel[i], c)
         /\ <<c, runs[c]>> \in notified => CompleteOnFile(c)
    /\ At(c, "done") => CompleteOnFile(c)

\* Flushes and permits of earlier runs cannot be taken for one of the run under way.
FlushesFresh ==
  \A c \in Cases :
    LET Old(n) == n <= runs[c] /\ (run[c].at \in Emitting => n < runs[c])
    IN  /\ \A j \in DOMAIN channel :
             channel[j].kind = "flush" /\ channel[j].case = c => Old(channel[j].run)
        /\ \A f \in notified : f[1] = c => Old(f[2])

TraceInv ==
  /\ writer = "ended" => channel = <<>>
  /\ FlushesFresh
  /\ ~ioFailed => ListedBefore /\ RunsSent /\ FlushesLast
=============================================================================
