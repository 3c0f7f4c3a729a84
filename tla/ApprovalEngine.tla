--------------------------- MODULE ApprovalEngine ---------------------------
(***************************************************************************)
(* The scheduler driving the approval workflow over the two stores: submit  *)
(* once (a checkpointed step), wait for the review decision, finish.  Every *)
(* await of a run is a step of its own, so the runs of several cases        *)
(* interleave in Parallel mode and the process can die, a store call fail   *)
(* or tick() be abandoned between any two of them.                          *)
(***************************************************************************)
EXTENDS SchedulerV2

CONSTANTS Review,        \* the poll for the decision of a case, resource "review_decision"
          MaxFaults      \* bound: failed store calls and fetches, and crashes

ASSUME ApprovalAssumption ==
  Polls = {Review} /\ RouterPolls = {} /\ Registered = Cases /\ MaxFaults \in Nat

VARIABLES
  pc,          \* where the open run of each case stands in ApprovalWorkflow::run
  submitted,   \* cases whose "submitted" checkpoint is in the StateStore
  stored,      \* cases the CaseStore holds as Finished
  published,   \* cases whose decision the event bus serves to the fetcher
  decided,     \* cases whose resource_data in the dict holds the decision
  effects,     \* history: how often the "submitted" closure of each case ran
  faults       \* bounded counter of faults

stores == <<submitted, stored>>
review == <<published, decided>>
engine == <<vars, pc, stores, review, effects, faults>>

EInit ==
  /\ Init
  /\ exec = [c \in Cases |-> "Running"] /\ paused = {}
  /\ pc = [c \in Cases |-> "none"]
  /\ submitted = {} /\ stored = {}
  /\ published = {} /\ decided = {}
  /\ effects = [c \in Cases |-> 0]
  /\ faults = 0

Goto(c, l) == pc' = [pc EXCEPT ![c] = l]
Fault == faults < MaxFaults /\ faults' = faults + 1

-----------------------------------------------------------------------------
(* One run of the workflow, up to its result.                               *)

RestoreIgnored(c) ==                 \* runs the closure whatever the checkpoint says
  /\ pc[c] = "step"
  /\ Goto(c, "save")
  /\ effects' = [effects EXCEPT ![c] = @ + 1]
  /\ UNCHANGED <<vars, stores, review, faults>>

RestoreStep(c) ==
  /\ pc[c] = "step"
  /\ \/ /\ Goto(c, IF c \in submitted THEN "decide" ELSE "save")
        /\ effects' = IF c \in submitted THEN effects ELSE [effects EXCEPT ![c] = @ + 1]
        /\ UNCHANGED faults
     \/ Fault /\ Goto(c, "err") /\ UNCHANGED effects
  /\ UNCHANGED <<vars, stores, review>>

SaveStep(c) ==
  /\ pc[c] = "save"
  /\ \/ submitted' = submitted \cup {c} /\ Goto(c, "decide") /\ UNCHANGED faults
     \/ Fault /\ submitted' \in {submitted, submitted \cup {c}} /\ Goto(c, "err")
  /\ UNCHANGED <<vars, stored, review, effects>>

\* The decision is read from the run's own clone of the case.
Decide(c) ==
  /\ pc[c] = "decide"
  /\ Goto(c, IF c \in decided THEN "finish" ELSE "waiting")
  /\ UNCHANGED <<vars, stores, review, effects, faults>>

CleanupFirst(c) ==                   \* the checkpoints go before the case is stored
  /\ pc[c] = "finish"
  /\ submitted' = submitted \ {c}
  /\ \/ stored' = stored \cup {c} /\ Goto(c, "finished") /\ UNCHANGED faults
     \/ Fault /\ UNCHANGED stored /\ Goto(c, "err")
  /\ UNCHANGED <<vars, review, effects>>

FinishErrIgnored(c) ==               \* cleans up although the case was not stored
  /\ pc[c] = "finish"
  /\ Goto(c, "cleanup")
  /\ \/ stored' = stored \cup {c} /\ UNCHANGED faults
     \/ Fault /\ UNCHANGED stored
  /\ UNCHANGED <<vars, submitted, review, effects>>

FinishUpsert(c) ==
  /\ pc[c] = "finish"
  /\ \/ stored' = stored \cup {c} /\ Goto(c, "cleanup") /\ UNCHANGED faults
     \/ Fault /\ stored' \in {stored, stored \cup {c}} /\ Goto(c, "err")
  /\ UNCHANGED <<vars, submitted, review, effects>>

FinishCleanup(c) ==
  /\ pc[c] = "cleanup"
  /\ Goto(c, "finished")
  /\ \/ submitted' = submitted \ {c} /\ UNCHANGED faults
     \/ Fault /\ UNCHANGED submitted
  /\ UNCHANGED <<vars, stored, review, effects>>

RunStep(c) ==
  RestoreStep(c) \/ SaveStep(c) \/ Decide(c) \/ FinishUpsert(c) \/ FinishCleanup(c)

-----------------------------------------------------------------------------
(* The scheduler's own steps, with the results the workflow gave.           *)

Start(c) ==
  /\ ProbeStart(c) \/ ExecStart(c)
  /\ Goto(c, "step")
  /\ UNCHANGED <<stores, review, effects, faults>>

Return(c) ==
  /\ \/ /\ pc[c] = "waiting"
        /\ ExecWaiting(c) \/ ProbeWaiting(c)
        /\ ctxs[c] = "probe" => <<c, Review>> \in probe_results'
     \/ pc[c] = "finished" /\ (ProbeFinished(c) \/ ExecFinished(c))
     \/ pc[c] = "err" /\ (ProbeErr(c) \/ ExecErr(c))
  /\ Goto(c, "none")
  /\ UNCHANGED <<stores, review, effects, faults>>

\* The fetch takes the decision off the bus.
PollConsumes(c) ==
  /\ \/ c \in published /\ PollMatched(c, Review) /\ published' = published \ {c}
     \/ c \notin published /\ PollUnmatched(c, Review) /\ UNCHANGED published
  /\ UNCHANGED <<pc, stores, decided, effects, faults>>

\* The event bus is the fetcher of every tick; a fetch may fail.
Poll(c) ==
  /\ \/ c \in published /\ PollMatched(c, Review) /\ UNCHANGED faults
     \/ c \notin published /\ PollUnmatched(c, Review) /\ UNCHANGED faults
     \/ Fault /\ PollUnmatched(c, Review)
  /\ UNCHANGED <<pc, stores, review, effects>>

Sweep ==
  /\ \/ TickStart \/ PollsDone \/ TickEnd
     \/ ProbesDone /\ probe_results' = probe_results
  /\ UNCHANGED <<pc, stores, review, effects, faults>>

EngineStep ==
  \/ \E c \in Cases : RunStep(c) \/ Start(c) \/ Return(c) \/ Poll(c)
  \/ Sweep

-----------------------------------------------------------------------------
(* The reviewer, the orchestrator and the faults.                           *)

Publish(c) ==
  /\ published' = published \cup {c}
  /\ UNCHANGED <<vars, pc, stores, decided, effects, faults>>

\* Between two ticks the orchestrator writes the decision into the case of the dict,
\* and may wake the case as well.
Inject(c) ==
  /\ phase = "idle" /\ c \in published \ decided
  /\ decided' = decided \cup {c}
  /\ WakeCase(c) \/ UNCHANGED vars
  /\ UNCHANGED <<pc, stores, published, effects, faults>>

Abandon ==
  /\ TickAborted
  /\ pc' = [c \in Cases |-> "none"]
  /\ UNCHANGED <<stores, review, effects, faults>>

\* The process dies; its successor builds a new environment from the same case keys, as
\* new cases unless the CaseStore holds them as Finished, and re-reads no decision.
Crash ==
  /\ Fault
  /\ exec' = [c \in Cases |-> IF c \in stored THEN "Finished" ELSE "Running"]
  /\ pc' = [c \in Cases |-> "none"]
  /\ decided' = {}
  /\ phase' = "idle" /\ result' = "None" /\ any_executed' = FALSE
  /\ woken' = {} /\ waiting_keys' = {} /\ probe_results' = {} /\ ready_keys' = {}
  /\ ctxs' = NoCtx /\ runs' = [c \in Cases |-> {}]
  /\ UNCHANGED <<paused, mode, shutdown, aborts, stores, published, effects>>

Demo == EngineStep \/ \E c \in Cases : Publish(c)

ENext == Demo \/ (\E c \in Cases : Inject(c)) \/ Abandon \/ Crash

\* The loop keeps ticking, every await returns, and between ticks the orchestrator
\* gets its turn again and again.
ESpec == EInit /\ [][ENext]_engine /\ WF_engine(EngineStep)
           /\ \A c \in Cases : SF_engine(Inject(c))

\* The loop of the example's main: decisions go to the event bus and nowhere else.
DemoSpec == EInit /\ [][Demo]_engine /\ WF_engine(EngineStep)

-----------------------------------------------------------------------------
ETypeOK ==
  /\ TypeOK
  /\ pc \in [Cases -> {"none", "step", "save", "decide", "finish", "cleanup",
                       "waiting", "finished", "err"}]
  /\ submitted \in SUBSET Cases /\ stored \in SUBSET Cases
  /\ published \in SUBSET Cases /\ decided \in SUBSET Cases
  /\ effects \in [Cases -> Nat]
  /\ faults \in 0..MaxFaults

(* The submission takes effect again only for a fault that hit it: the       *)
(* probes and ticks that re-run the workflow add nothing, and neither does a *)
(* wait of any length.                                                       *)
SubmittedOncePerFault == \A c \in Cases : effects[c] <= 1 + faults + aborts

(* A case waits only once its submission is durable, so that the run that    *)
(* resumes it, after a crash too, starts from the checkpoint; the checkpoint *)
(* goes only when the case is stored as Finished.                            *)
WaitsWithCheckpoint ==
  \A c \in Cases : exec[c] = "Waiting" => c \in submitted \cup stored

(* The scheduler calls a case Finished only after the CaseStore does, and    *)
(* the submission of a case the store holds as Finished is not run again     *)
(* unless a tick was abandoned between finish() and the dict's mc_finish().  *)
FinishedIsStored ==
  /\ \A c \in Cases : exec[c] = "Finished" => c \in stored
  /\ aborts = 0 => \A c \in Cases : pc[c] = "save" => c \notin stored

\* What makes the three above inductive, beside TickInv: a run is open exactly while a
\* context is; what the position of a run says of the stores; and that an effect no
\* checkpoint vouches for was lost to a fault or to an abandoned tick.
OpenInv == \A c \in Cases : pc[c] = "none" <=> ctxs[c] = "none"

StoresInv ==
  \A c \in Cases :
    /\ pc[c] = "save" => c \notin submitted
    /\ pc[c] \in {"decide", "waiting", "finish", "cleanup"} => c \in submitted
    /\ pc[c] \in {"cleanup", "finished"} => c \in stored
    /\ aborts = 0 /\ c \in stored =>
         c \in submitted \/ pc[c] = "finished" \/ exec[c] = "Finished"

EffectsInv ==
  \A c \in Cases :
    \/ c \in submitted \/ pc[c] \in {"save", "finished"} \/ exec[c] = "Finished"
    \/ effects[c] <= faults + aborts

ApprovalInv ==
  /\ OpenInv /\ StoresInv /\ EffectsInv
  /\ SubmittedOncePerFault /\ WaitsWithCheckpoint /\ FinishedIsStored

(* A published decision finishes the case, in the dict and in the store,     *)
(* through faults, crashes and abandoned ticks.                              *)
DecisionFinishes ==
  \A c \in Cases : c \in published ~> (exec[c] = "Finished" /\ c \in stored)
=============================================================================
