----------------------------- MODULE SchedulerV2 -----------------------------
(***************************************************************************)
(* SchedulerV2::tick over the cases of one SchedulerEnvironment.  A tick   *)
(* partitions the dict, probes the waiting cases by running their workflow, *)
(* evaluates the polls the probes returned and runs what is ready, one by   *)
(* one or as concurrent tasks.  What a workflow does inside run() is left   *)
(* open here: it may return any WorkflowResult or an error.                 *)
(***************************************************************************)
EXTENDS Naturals

CONSTANTS Cases,          \* case keys
          Registered,     \* cases whose workflow_code the registry knows
          Polls,          \* poll predicates a workflow may wait on
          RouterPolls,    \* the polls with an intent_desc, evaluated after the others
          MaxAborts       \* bound: ticks abandoned half way

ASSUME SchedulerAssumption ==
  /\ Registered \subseteq Cases
  /\ RouterPolls \subseteq Polls
  /\ MaxAborts \in Nat

VARIABLES
  exec,           \* execution_state in env.current_case_dict, "Absent" when not there
  paused,         \* cases of the dict whose lifecycle_state is "pause" or "stop"
  mode,           \* env.execution_mode
  shutdown,       \* the shutdown signal has fired
  phase,          \* where the tick stands; "idle" between ticks
  woken,          \* self.woken_keys, the one piece of scheduler state kept across ticks
  waiting_keys,   \* waiting cases of this tick not probed yet
  probe_results,  \* polls <<case, poll>> collected by probes and not evaluated yet
  ready_keys,     \* running_keys, then the cases of phase 4 not dispatched yet
  ctxs,           \* the WorkflowContext open on each case: by a probe, by phase 4, none
  any_executed,   \* the flag tick() turns into its result
  result,         \* TickResult of the last completed tick
  runs,           \* history: the kinds of run each case had in the current tick
  aborts          \* bounded counter of abandoned ticks

vars == <<exec, paused, mode, shutdown, phase, woken, waiting_keys, probe_results,
          ready_keys, ctxs, any_executed, result, runs, aborts>>

\* Everything outside the tick's own progress.
caller == <<paused, mode, shutdown, aborts>>

LC == INSTANCE CaseLifecycle

Modes      == {"Sequential", "Parallel"}
Results    == {"None", "Executed", "Idle", "ShutdownRequested"}
NoCtx      == [c \in Cases |-> "none"]
NoCtxOpen  == ctxs = NoCtx

Init ==
  /\ exec \in [Cases -> LC!ExecutionStates \cup {"Absent"}]
  /\ paused \in SUBSET Cases
  /\ mode \in Modes
  /\ shutdown = FALSE
  /\ phase = "idle"
  /\ woken = {} /\ waiting_keys = {} /\ probe_results = {} /\ ready_keys = {}
  /\ ctxs = NoCtx
  /\ any_executed = FALSE
  /\ result = "None"
  /\ runs = [c \in Cases |-> {}]
  /\ aborts = 0

-----------------------------------------------------------------------------
(* The caller owns the environment and touches it only between ticks: tick *)
(* borrows it mutably.  The shutdown signal is asynchronous.                *)

AddCase(c) ==
  /\ phase = "idle" /\ exec[c] = "Absent"
  /\ exec' = [exec EXCEPT ![c] = "Running"]
  /\ UNCHANGED <<caller, phase, woken, waiting_keys, probe_results, ready_keys, ctxs,
                 any_executed, result, runs>>

\* The owner wakes a waiting case itself (c.mc_run()), having changed its data.
WakeCase(c) ==
  /\ phase = "idle" /\ exec[c] = "Waiting" /\ c \notin paused
  /\ exec' = [exec EXCEPT ![c] = "Running"]
  /\ UNCHANGED <<caller, phase, woken, waiting_keys, probe_results, ready_keys, ctxs,
                 any_executed, result, runs>>

SetLifecycle(c) ==
  /\ phase = "idle" /\ exec[c] # "Absent"
  /\ paused' = IF c \in paused THEN paused \ {c} ELSE paused \cup {c}
  /\ UNCHANGED <<exec, mode, shutdown, phase, woken, waiting_keys, probe_results,
                 ready_keys, ctxs, any_executed, result, runs, aborts>>

RequestShutdown ==
  /\ shutdown' = TRUE
  /\ UNCHANGED <<exec, paused, mode, phase, woken, waiting_keys, probe_results,
                 ready_keys, ctxs, any_executed, result, runs, aborts>>

-----------------------------------------------------------------------------
(* Phase 1: the shutdown check, and the partition of the active cases.     *)

NotFinished(c) == exec[c] \notin {"Absent", "Finished"}    \* forgets lifecycle_state

Active(c) == exec[c] \notin {"Absent", "Finished"} /\ c \notin paused

TickRefused ==
  /\ phase = "idle" /\ shutdown
  /\ result' = "ShutdownRequested"
  /\ UNCHANGED <<exec, caller, phase, woken, waiting_keys, probe_results, ready_keys,
                 ctxs, any_executed, runs>>

TickEmpty ==
  /\ phase = "idle" /\ ~shutdown
  /\ \A c \in Cases : exec[c] = "Absent"
  /\ woken' = {}
  /\ result' = "Idle"
  /\ runs' = [c \in Cases |-> {}]
  /\ UNCHANGED <<exec, caller, phase, waiting_keys, probe_results, ready_keys, ctxs,
                 any_executed>>

Partition(kept) ==
  /\ phase = "idle"
  /\ \E c \in Cases : exec[c] # "Absent"
  /\ woken' = kept
  /\ ready_keys'   = {c \in Cases : Active(c) /\ exec[c] = "Running"}
  /\ waiting_keys' = {c \in Cases : Active(c) /\ exec[c] = "Waiting"}
  /\ probe_results' = {}
  /\ any_executed' = FALSE
  /\ runs' = [c \in Cases |-> {}]
  /\ phase' = "probe"
  /\ UNCHANGED <<exec, caller, ctxs, result>>

TickStartStaleWoken     == ~shutdown /\ Partition(woken)   \* forgets woken_keys.clear()
TickStartIgnoreShutdown == Partition({})                   \* forgets the signal

TickStart == ~shutdown /\ Partition({})

-----------------------------------------------------------------------------
(* Phase 2: every waiting case is probed, one after the other, by running   *)
(* its workflow on a clone of the case.                                     *)

ProbeStart(c) ==
  /\ phase = "probe" /\ c \in waiting_keys \cap Registered /\ NoCtxOpen
  /\ waiting_keys' = waiting_keys \ {c}
  /\ ctxs' = [ctxs EXCEPT ![c] = "probe"]
  /\ runs' = [runs EXCEPT ![c] = @ \cup {"probe"}]
  /\ UNCHANGED <<exec, caller, phase, woken, probe_results, ready_keys, any_executed,
                 result>>

ProbeSkip(c) ==
  /\ phase = "probe" /\ c \in waiting_keys \ Registered /\ NoCtxOpen
  /\ waiting_keys' = waiting_keys \ {c}
  /\ UNCHANGED <<exec, caller, phase, woken, probe_results, ready_keys, ctxs,
                 any_executed, result, runs>>

ProbeReturns(c) ==
  /\ ctxs[c] = "probe"
  /\ ctxs' = [ctxs EXCEPT ![c] = "none"]
  /\ UNCHANGED <<caller, phase, waiting_keys, ready_keys, any_executed, result, runs>>

ProbeWaiting(c) ==
  /\ ProbeReturns(c)
  /\ \E polls \in SUBSET Polls : probe_results' = probe_results \cup ({c} \X polls)
  /\ UNCHANGED <<exec, woken>>

ProbeContinue(c) ==
  /\ ProbeReturns(c)
  /\ exec' = [exec EXCEPT ![c] = "Running"]
  /\ woken' = woken \cup {c}
  /\ UNCHANGED probe_results

ProbeFinished(c) ==
  /\ ProbeReturns(c)
  /\ exec' = [exec EXCEPT ![c] = "Finished"]
  /\ UNCHANGED <<woken, probe_results>>

ProbeErr(c) == ProbeReturns(c) /\ UNCHANGED <<exec, woken, probe_results>>

\* Without a fetcher the collected polls are dropped unread.
ProbesDone ==
  /\ phase = "probe" /\ waiting_keys = {} /\ NoCtxOpen
  /\ phase' = "poll"
  /\ \E fetcher \in BOOLEAN :
       probe_results' = IF fetcher THEN probe_results ELSE {}
  /\ UNCHANGED <<exec, caller, woken, waiting_keys, ready_keys, ctxs, any_executed,
                 result, runs>>

-----------------------------------------------------------------------------
(* Phase 3: each poll is fetched on its own, the router polls last; a fetch *)
(* that fails counts as no match.                                           *)

EvaluatePoll(c, p) ==
  /\ phase = "poll" /\ <<c, p>> \in probe_results
  /\ p \in RouterPolls => probe_results \subseteq Cases \X RouterPolls
  /\ probe_results' = probe_results \ {<<c, p>>}
  /\ UNCHANGED <<caller, phase, waiting_keys, ready_keys, ctxs, any_executed, result, runs>>

PollMatchedNoRun(c, p) ==            \* forgets mc_run()
  EvaluatePoll(c, p) /\ woken' = woken \cup {c} /\ UNCHANGED exec

PollMatched(c, p) ==
  /\ EvaluatePoll(c, p)
  /\ exec' = [exec EXCEPT ![c] = "Running"]
  /\ woken' = woken \cup {c}

PollUnmatched(c, p) == EvaluatePoll(c, p) /\ UNCHANGED <<exec, woken>>

Execute(extra) ==
  /\ phase = "poll" /\ probe_results = {}
  /\ phase' = "execute"
  /\ ready_keys' = ready_keys \cup extra
  /\ UNCHANGED <<exec, caller, woken, waiting_keys, probe_results, ctxs, any_executed,
                 result, runs>>

PollsDoneForgetWoken == Execute({})      \* leaves the woken cases to a later tick

PollsDone == Execute(woken)

-----------------------------------------------------------------------------
(* Phase 4: the ready cases run, one at a time or as a JoinSet of tasks     *)
(* whose results are applied, in any order, once all are spawned.           *)

ExecStart(c) ==
  /\ phase = "execute" /\ c \in ready_keys \cap Registered
  /\ mode = "Sequential" => NoCtxOpen
  /\ ready_keys' = ready_keys \ {c}
  /\ ctxs' = [ctxs EXCEPT ![c] = "exec"]
  /\ runs' = [runs EXCEPT ![c] = @ \cup {"exec"}]
  /\ UNCHANGED <<exec, caller, phase, woken, waiting_keys, probe_results, any_executed,
                 result>>

ExecSkip(c) ==
  /\ phase = "execute" /\ c \in ready_keys \ Registered
  /\ mode = "Sequential" => NoCtxOpen
  /\ ready_keys' = ready_keys \ {c}
  /\ UNCHANGED <<exec, caller, phase, woken, waiting_keys, probe_results, ctxs,
                 any_executed, result, runs>>

ExecReturns(c, ok) ==
  /\ ctxs[c] = "exec"
  /\ mode = "Parallel" => ready_keys = {}
  /\ ctxs' = [ctxs EXCEPT ![c] = "none"]
  /\ any_executed' = (any_executed \/ ok)
  /\ UNCHANGED <<caller, phase, woken, waiting_keys, probe_results, result, runs>>

ExecContinue(c) == ExecReturns(c, TRUE) /\ UNCHANGED <<exec, ready_keys>>

ExecWaiting(c) ==
  /\ ExecReturns(c, TRUE)
  /\ exec' = [exec EXCEPT ![c] = "Waiting"]
  /\ UNCHANGED ready_keys

ExecFinished(c) ==
  /\ ExecReturns(c, TRUE)
  /\ exec' = [exec EXCEPT ![c] = "Finished"]
  /\ UNCHANGED ready_keys

\* The error leaves the loop: the rest of the ready cases is not run.
ExecErrBreaks(c) == ExecReturns(c, FALSE) /\ ready_keys' = {} /\ UNCHANGED exec

\* The failing case is put in a state ExecutionState does not have.
ExecErrParks(c) ==
  /\ ExecReturns(c, FALSE)
  /\ exec' = [exec EXCEPT ![c] = "Failed"]
  /\ UNCHANGED ready_keys

\* An error, or in Parallel a panic of the task, is logged and costs the case its run.
ExecErr(c) == ExecReturns(c, FALSE) /\ UNCHANGED <<exec, ready_keys>>

TickEnd ==
  /\ phase = "execute" /\ ready_keys = {} /\ NoCtxOpen
  /\ phase' = "idle"
  /\ result' = IF any_executed THEN "Executed" ELSE "Idle"
  /\ UNCHANGED <<exec, caller, woken, waiting_keys, probe_results, ready_keys, ctxs,
                 any_executed, runs>>

\* The future of tick() is dropped, or a workflow panics outside a spawned task: the
\* locals of the tick and its contexts are gone, the dict and woken_keys stay as they are.
TickAborted ==
  /\ phase # "idle" /\ aborts < MaxAborts
  /\ aborts' = aborts + 1
  /\ phase' = "idle"
  /\ waiting_keys' = {} /\ probe_results' = {} /\ ready_keys' = {}
  /\ ctxs' = NoCtx
  /\ any_executed' = FALSE
  /\ result' = "None"
  /\ UNCHANGED <<exec, paused, mode, shutdown, woken, runs>>

-----------------------------------------------------------------------------
Probe(c) ==
  \/ ProbeStart(c) \/ ProbeSkip(c)
  \/ ProbeWaiting(c) \/ ProbeContinue(c) \/ ProbeFinished(c) \/ ProbeErr(c)

Exec(c) ==
  \/ ExecStart(c) \/ ExecSkip(c)
  \/ ExecContinue(c) \/ ExecWaiting(c) \/ ExecFinished(c) \/ ExecErr(c)

TickStep ==
  \/ TickRefused \/ TickEmpty \/ TickStart
  \/ \E c \in Cases : Probe(c)
  \/ ProbesDone
  \/ \E c \in Cases, p \in Polls : PollMatched(c, p) \/ PollUnmatched(c, p)
  \/ PollsDone
  \/ \E c \in Cases : Exec(c)
  \/ TickEnd

CallerStep ==
  \/ \E c \in Cases : AddCase(c) \/ WakeCase(c) \/ SetLifecycle(c)
  \/ RequestShutdown
  \/ TickAborted

Next == TickStep \/ CallerStep

Spec == Init /\ [][Next]_vars

\* The caller keeps ticking, and every workflow run and every fetch comes back.
FairSpec == Spec /\ WF_vars(TickStep)

-----------------------------------------------------------------------------
TypeOK ==
  /\ exec \in [Cases -> LC!ExecutionStates \cup {"Absent"}]
  /\ paused \in SUBSET Cases
  /\ mode \in Modes
  /\ shutdown \in BOOLEAN
  /\ phase \in {"idle", "probe", "poll", "execute"}
  /\ woken \in SUBSET Cases
  /\ waiting_keys \in SUBSET Cases
  /\ probe_results \in SUBSET (Cases \X Polls)
  /\ ready_keys \in SUBSET Cases
  /\ ctxs \in [Cases -> {"none", "probe", "exec"}]
  /\ any_executed \in BOOLEAN
  /\ result \in Results
  /\ runs \in [Cases -> SUBSET {"probe", "exec"}]
  /\ aborts \in 0..MaxAborts

(* What a tick acts on still holds when it acts: a case queued or running in *)
(* phase 4 is Running in the dict, a probed case is Waiting, and neither is  *)
(* paused, stopped or Finished, although the keys were collected phases      *)
(* earlier and woken_keys outlives the tick.                                 *)
RunsMatchDict ==
  /\ \A c \in ready_keys : Active(c) /\ exec[c] = "Running"
  /\ \A c \in Cases :
       /\ ctxs[c] = "exec" => Active(c) /\ exec[c] = "Running"
       /\ ctxs[c] = "probe" => Active(c) /\ exec[c] = "Waiting"

(* A tick that completes has run, in phase 4, every case it woke: a wake is  *)
(* not left for later.                                                       *)
NoLostWake ==
  phase = "idle" /\ result \in {"Executed", "Idle"} =>
    \A c \in woken \cap Registered : "exec" \in runs[c]

\* The phase structure that makes the two above inductive.
PhaseInv ==
  /\ phase = "idle" => waiting_keys = {} /\ probe_results = {} /\ ready_keys = {} /\ NoCtxOpen
  /\ waiting_keys # {} => phase = "probe"
  /\ \A c \in Cases : ctxs[c] = "probe" =>
       /\ phase = "probe" /\ c \notin waiting_keys
       /\ \A d \in Cases : d # c => ctxs[d] = "none"
  /\ \A c \in Cases : ctxs[c] = "exec" => phase = "execute" /\ c \notin ready_keys
  /\ \A c \in waiting_keys : Active(c) /\ exec[c] = "Waiting"
  /\ phase = "execute" => probe_results = {}
  /\ \A c \in Cases, p \in Polls : <<c, p>> \in probe_results =>
       Active(c) /\ exec[c] \in {"Waiting", "Running"} /\ ctxs[c] = "none"
         /\ c \notin waiting_keys
  /\ phase \in {"probe", "poll"} => \A c \in woken :
       Active(c) /\ exec[c] = "Running" /\ ctxs[c] = "none" /\ c \notin waiting_keys
  /\ phase = "execute" => \A c \in woken \cap Registered :
       c \in ready_keys \/ "exec" \in runs[c]

TickInv == RunsMatchDict /\ NoLostWake /\ PhaseInv

(* The scheduler implements the life of a case: Finished is final, a paused  *)
(* case does not move, and each step moves one case along a legal edge.      *)
ImplementsCaseLifecycle == LC!Spec

Runnable(c) == exec[c] = "Running" /\ c \notin paused /\ ~shutdown

(* No case starves: a Running case that is neither paused nor overtaken by   *)
(* the shutdown is dispatched, whatever errors the other cases return and    *)
(* although ticks may be abandoned.                                          *)
EveryRunnableIsDispatched ==
  \A c \in Registered : Runnable(c) ~> (ctxs[c] = "exec" \/ ~Runnable(c))

(* After the shutdown signal the tick in progress is the last one.           *)
ShutdownDrains == shutdown ~> [](phase = "idle")
=============================================================================
