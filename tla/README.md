# Tianshu in TLA+

A TLA+ development kept beside Tianshu, a Rust engine that runs checkpointed
workflows in scheduler ticks (`src/crates/workflow_engine`) with its stores, observers,
LLM provider, dashboard and an example orchestrator. The modules model the code;
TLC checks them on small instances and TLAPS proves the central results for every
value of the constants. Everything below names files under `src/`.

## 1. Inventory

| component (source) | state it keeps | operations | hard behaviours | what makes it correct |
| --- | --- | --- | --- | --- |
| Scheduler (`workflow_engine/src/engine.rs`) | `woken_keys` across ticks; the case dict of the environment; the locals of a tick | `tick`: partition, probe, poll, execute; `ShutdownSignal` | keys collected in one phase are used phases later; tasks in Parallel; errors and panics of one case; a dropped tick; shutdown during a tick | acts only on what the dict still says; loses no wake; starves no case; drains |
| Case (`case.rs`) | execution and lifecycle state | `mc_run`, `mc_wait`, `mc_finish`, `is_active` | written by scheduler and owner | Finished is final, a paused case does not move |
| Workflow context (`context.rs`) | checkpoint cache of one run over the StateStore | `step`, `tool_step`, `clear_step(s)`, `get_state`, `set_state`, `finish` | store calls that fail before or after their write; a crash at any await | a returned result is durable and write-once, its closure does not run again |
| Session variables (`context.rs`) | shared entries, cached per context | `get_session_state`, `set_session_state` | Parallel cases, stale caches, writes whose answer is lost | a case never goes back to an older value than it read or stored |
| Child workflows (`spawn.rs`, `context.rs`) | child cases and `child_keys` in the CaseStore | `spawn_child(ren)`, `child_status`, `await_children` | crash between two upserts, re-runs that spawn again, clones that overwrite | a parent ends after its children, none takes another's place, re-runs spawn none again |
| Stages (`stage.rs`) | checkpoints of the stages | `run_stages`, `clear` | a clear that stops half way; going round on restored results | the workflow finishes on results made from each other; a run returns |
| Retry, resilient LLM (`retry.rs`, `llm_resilient.rs`) | attempt, last error class | `with_retry`, `complete` | which fallback an attempt uses, escalation | bounded attempts, each fallback tried |
| Tools (`tool.rs`, `tool_loop.rs`) | calls of a round, permits | `execute_with_concurrency`, `run_tool_loop` | parallel batches, zero permits, panics | order of results, exclusive calls alone |
| Stores (`store.rs`, `workflow_engine_postgres`) | cases, checkpoints, sessions | `upsert`, `list`, `count`, `save`, `get`, `delete_by_case` | lost answers; two implementations that differ in what an upsert keeps | one entry per key; the same answers from both |
| Polls (`poll.rs`) | none | `evaluate`, intent `classify` | failed fetches | a failure is "not ready" |
| Observers (`observe.rs`, `workflow_engine_observe`) | records in memory; a channel, its writer task and the buffer of the file | `on_*`, `flush`, fan-out by `CompositeObserver` | a flush that races the writer, a crash with lines in the buffer, runs that replay steps | a replay has its original in the trace, a finished workflow is in the file, a flush returns |
| Streaming provider (`workflow_engine_llm_openai`) | tool calls assembled so far | `stream`, `collect_events_from_sse` | a dropped receiver, a broken connection, chunks of several calls | one final event; texts and calls whole and in order |
| Compaction (`compact.rs`) | a conversation | pure functions | boundaries | what is kept |
| Dashboard (`workflow_engine_dashboard`) | none | pages of cases, active cases, statistics | several store calls for one answer while cases change | pages miss no case, no case counts twice |
| Registry, LLM types | fixed before the ticks, or data | | | |
| Approval example (`examples/approval_workflow`) | event bus, case data | the workflow and the orchestrator's loop | everything above together | a decision finishes its case |

The engine is a library: an orchestrator owns a `SchedulerEnvironment` and calls
`tick(&mut env, ..)` again and again.  A tick runs workflows; a workflow calls its
`WorkflowContext`; the context calls the two stores.  A context lives for one run, the
dict for the life of the process, the stores longer than that.  Nothing but the
borrow of `env` serialises them, so the interesting states are those between two
awaits.

## 2. Modules

| module | models | depends on |
| --- | --- | --- |
| `CaseLifecycle` | abstract: the legal moves of a case's state | |
| `SchedulerV2` | `tick` with its callers; refines `CaseLifecycle` | `CaseLifecycle` |
| `DurableSteps` | abstract: a write-once record of step results | |
| `WorkflowContext` | the checkpoints and session variables of one case; refines `DurableSteps` | `DurableSteps` |
| `ApprovalEngine` | scheduler, approval workflow, both stores, event bus, orchestrator, faults and crashes composed | extends `SchedulerV2` |
| `SpawnTree` | a parent case with its children over the CaseStore | |
| `ResilientLlm` | one call of `ResilientLlmProvider::complete` through `with_retry` | |
| `ToolLoop` | `run_tool_loop` over `execute_with_concurrency` | |
| `Stages` | `run_stages` over the checkpoints of a case | |
| `SseStream` | `OpenAiProvider::stream` and `collect_events_from_sse` | |
| `Observers` | the records of runs on their way to memory and to the JSONL file | |
| `Dashboard` | both case stores, and the requests that read one of them | |
| `MCSchedulerV2`, `MCWorkflowContext`, `MCApprovalEngine`, `MCObservers`, `MCDashboard` | values of the constants for TLC | |
| `Engine_proofs` (of `SchedulerV2` and `ApprovalEngine`), `WorkflowContext_proofs`, `Llm_proofs` (of `ResilientLlm` and `SseStream`), `ToolLoop_proofs`, `Stages_proofs`, `SpawnTree_proofs`, `Observers_proofs`, `Dashboard_proofs` | the theorems | TLAPS |

`SpawnTree`, `ResilientLlm`, `ToolLoop`, `Stages` and `SseStream` are run directly: their
constants are numbers and need no module of their own. The definitions that precede a definition with a name
like its own (`FirstOfAll` before `FirstExtra`, `JoinAnyFinished` before `Join`) are
variants of it with a plausible mistake, kept to see that a property notices.

### SchedulerV2

`exec` is `execution_state` in `env.current_case_dict` (with `"Absent"` for a key not
there), `paused` the cases whose `lifecycle_state` is `pause` or `stop`. `phase` is where
`tick` stands. `woken` is the field `woken_keys`; `waiting_keys`, `probe_results` and
`ready_keys` are the locals of the same names, of which an element is removed when the
loop takes it. `ctxs` are the contexts of the runs in progress: one at a time while
probing and in Sequential mode, any number in Parallel. The order in which the dict, a
`HashMap`, is walked is left open. `runs` and `aborts` are history.

What a workflow does inside `run` is not modelled here: each run returns any
`WorkflowResult` or an error. A probe and an execution differ in what the scheduler
makes of the result, and the actions follow the match arms one by one (`ProbeWaiting`,
`ProbeContinue`, `ProbeFinished`, `ProbeErr`; `ExecContinue`, ...). A panic of a spawned
task ends like an error; any other panic, and a `tick` future that is dropped, is
`TickAborted`. Between ticks the owner adds, wakes, pauses and resumes cases; the
shutdown signal can come at any time.

### WorkflowContext

`store` and `cache` map the keys of one case's entries to a value, JSON null or
`Absent`. Each await is a step boundary: `StepRuns` calls the closure, `ClosureOk`
returns from it, `SaveOk`/`SaveErr` is the store call. A store call that fails may or may
not have written. `RunEnds` is a run that returns or dies; the next run begins with an
empty cache. `got` and `put` remember what the workflow was told.
A read that fails, and a checkpoint that no longer parses as the type the workflow
asks for, return an error and leave the variables unchanged, as does a
`get_checkpoint` that finds nothing. `save_checkpoint` is public, and a workflow that calls
it directly can overwrite any entry; the model covers the calls named above.

The value of a session variable is its version, the number of the write that made it.
`shared` is what the store holds, `scache` the cache of the context, `seen` the version the
case last read or stored with success. `GetSessionState` answers from the cache if it can;
`SetSessionState` writes the store and then the cache, or fails before the cache;
`OtherCaseWrites` is another case of the session, at any time. `SessionReadsForward` is what
this leaves: a case may read a value long overwritten, but never one older than it has seen.

### ApprovalEngine

`pc` is the program counter of each open run of `ApprovalWorkflow::run`, with one label
per await. `submitted` and `stored` are what the two stores hold, `published` what the
event bus serves, `decided` the cases of the dict whose `resource_data` holds the
decision. `EngineStep` conjoins each return of the workflow with the scheduler action
for that result. `Crash` loses the dict and rebuilds it from the CaseStore.

### SpawnTree

The parent's author decides (`mode`) whether its handles are kept in a checkpoint
(`guarded`, which `spawn_children` does not do by itself), whether the children get keys
(`fixed`) and whether they run the same workflow (`shared`). `pc` is the call its run makes
next; `SpawnChild` and `StoreParent` are the two upserts of `spawn_child`, with
`child_keys` pushed in between; `Await` is one turn of the loop of `await_children`, so
that children finish while it goes on. `now` is the millisecond that goes into a generated
key: two spawns may see the same. The scheduler enters as `RunStart`, `Pending` and
`Return`: each run starts on a clone of the `dict` entry, of which the scheduler changes
only the state. `RunFails` is a store call that fails (before or after its write), a panic
or a dropped tick; `Restart` takes the parent from the store.

### ResilientLlm

`stage` is where `complete` stands: in `with_retry` (`loop`), in the loop over the fallbacks
behind it (`extra`), or at the one more call to the primary after a changed request
(`escalated`, `compacted`). `attempt` and `last_class` are those of `RetryContext`, `Target` is the closure's
choice of provider. A provider's answer is `Ok` or an error of any class, since the classifier is
the caller's. `tokens` is `max_tokens`, doubled modulo `Width` as a release build
does (a debug build panics). `asked` and `errors` are history; the delays between the
attempts are left out.

### ToolLoop

`stage` is the position of the run: `llm`, then `dispatch` at the head of the `while` over
the calls, `exclusive` during an inline tool, `spawn` and `batch` while a batch is spawned
and joined. A call is its kind and its index. `tasks` and `permits` are the spawned tasks and
the semaphore, which belong to the runtime: they go on when the run panics
(`Panic`) or is dropped (`Abandon`). A call to an unknown tool counts as exclusive in the
code and is answered with an error, as is one whose arguments do not parse
(`RefuseCall`); a read-only call with bad arguments passes through its task. What a tool
answers is left out. Only one run is modelled: the tasks a panicked or dropped run leaves
behind may still run while the next run of the case calls an exclusive tool, which
`NoToolBeside` does not exclude since it speaks of one batch.

### Stages

Stage `s` has one checkpointed step; what it makes is a result with a `version`, the version
`on` of the previous stage's result it was made from, and the stage it sends the workflow
`back` to, if any. `pc` is the position of `run_stages`. A run starts at stage 1 again and
comes through what is restored (`StageRestored`) to where it stood. The author is taken to
clear the stages from the target up to the current one (`ToClear`), as a stage that is not
cleared is not repeated, and lists them in an order of his own: `order` is the place of each
stage in these lists, `todo` what is left of the loop over `clear_stages`, of which
`ClearStage` takes the first, one for each await.
`next` to a later stage than the following one, and stages that are not registered (skipped
by the clears, an error of the run otherwise, which is a `RunFails`), are left out.

### SseStream

`body` is the lines received so far, each the kind of its data and what the delta of its
first choice holds; a text or a piece of arguments is named by the position of its line.
`Parse` is `parse_sse_chunk` with its order of precedence, `acc` the accumulator, `events`
what the receiver was sent while it was there (`open`). `Legal` is the protocol: calls start
in the order of their indices, pieces come after their start, one delta gives the finish
reason and `[DONE]` comes after it; usage and comments come at any time. `Collect` is one
turn of the second consumer's loop and `collect` its locals, which take each line as it is
received: the result for a body is that of its last line. Since a text is known by its line and
a completion delivers at most one call, sequences of events are compared by quantifying over
positions (`Enumerates`, `TextsOf`, `SameBesideUsage`).
Arguments in the chunk of a start are dropped by the code, which states that there are
none. Left out are the channel's back-pressure, a last line without newline, and characters
split between packets (`streaming.rs:81` decodes each packet on its own).

### Observers

Every case runs the same steps, each with one observed LLM call. `run` is where its run
stands, with the `step_records` of its context; `memory` is the `InMemoryObserver`,
`channel`, `writer`, `buffer` and `file` belong to the `JsonlObserver`. `CompositeObserver`
hands a record to its children without suspending in between, so `Emit` is one step; so is
`ClosureReturns`, since the record of the call, the return of the closure and the record of the
step come without an await. `step` emits before it saves: a save that fails leaves a record
of an execution whose step runs again. A flush is a message in the same channel with a
`Notify` of its own, named by case and run (`FlushSend`, `FlushAwait`, `FlushFile`); the permit
`notify_one` leaves when nobody waits is an element of `notified`. `Crash` loses memory,
channel and some suffix of the buffer; the next process opens the file again. A writer that
cannot open the file ends, and events sent to it are dropped. `Abandon` is a run dropped at any of
its awaits, or ended by a checkpoint that cannot be read; the delete at the end of `finish` may have been
applied by then.

### Dashboard

`tables` holds the rows of the in-memory and of the PostgreSQL case store, which take the same
upserts side by side; they differ in `created_at` when a row is replaced. `Create` is
`Case::new`, which moves the `clock`, so creation times are distinct unless a copy is stored
again; `Upsert` stores any copy that was ever made of the case, in any state. A request asks one
store in several calls, with upserts between them: `PageList` and `PageCount` for a page and its total,
`CallNext` for the calls of the statistics (`StatsCalls`: count running, count waiting, list finished,
running and waiting) or of the active cases (`ActiveCalls`: list running, waiting). A count stands for the
set of cases it counts, `counted`; what the lists gave is `found`. A client asks for pages of any of
`PageSizes`, the server makes them no larger than `MaxLimit` (100 in the code), and the client
moves its offset by what it asked for. A call that fails answers like an empty store, as the code's
`unwrap_or_default` does, and a failed count with the length of the page. Requests only read,
so one at a time shows everything; nothing is stored after it has been answered, which only
bounds the runs. A store's sorted answer is given by the `Place` of each
row in it, the number of rows found that were created earlier, and `Page` takes the places between two
offsets; no two rows of a store have one creation time.

## 3. Runs

| run | instance | checks |
| --- | --- | --- |
| `scheduler` | 3 cases, one of an unknown workflow, 2 polls (one with an intent), 1 abandoned tick, both modes, every initial dict | `TypeOK`, `RunsMatchDict`, `NoLostWake`, `ImplementsCaseLifecycle`, `EveryRunnableIsDispatched`, `ShutdownDrains` |
| `checkpoints` | 2 steps, 1 tool step, 1 state variable, 2 values; 1 session variable written twice | `ReturnedIsDurable`, `CacheAgrees`, `ReturnedNotRerun`, `ImplementsDurableSteps`, `SessionReadsForward` |
| `approval` | 2 cases, 2 faults (failed calls or crashes) and 1 abandoned tick | `SubmittedOncePerFault`, `WaitsWithCheckpoint`, `FinishedIsStored`, `DecisionFinishes` |
| `spawn_tree` | 2 children, 3 milliseconds, 3 runs that spawn, 2 faults, every mode | `FinishesLast`, `KeyedConfigsRun`, `GuardedSpawnsOnce`, `GuardedParentFinishes` |
| `resilient_llm` | every policy with up to 4 attempts, 4 fallbacks and 16 token counts, ceiling 6 | `FallbackAtMostOnce`, `OverloadTriesAll`, `EscalatedLimit`, `Terminates` |
| `tool_loop` | 2 rounds of up to 4 calls, 2 permits | `ConversationWellFormed`, `NoToolBeside`, `ConcurrencyCapped`, `EveryRunEnds` |
| `stages` | 4 stages, every order of clears, 6 results, 2 runs cut short | `FinishesConsistent`, `RunReturns` |
| `sse_stream` | up to 2 calls, bodies of up to 5 lines | `EndsOnce`, `TextsDelivered`, `CallsWhole`, `AsCollected` |
| `observers` | 2 cases, 2 steps, 1 response or a failed call, 2 runs, 1 crash | `ReplayHasOriginal`, `CompleteListsSteps`, `FinishedIsOnFile`, `FlushReturns` |
| `dashboard` | 3 keys, page sizes 1 and 2 with a cap of 1, 3 creations | `PagesMissNone`, `CountedOnce`, `StoresAgree` |
| `tool_step_reruns` | as `checkpoints` | violates `ToolStepNotRerun` |
| `demo_waits_forever` | as `approval`, without faults, decisions only published | violates `DecisionFinishes` |

The type invariants of `ApprovalEngine`, `WorkflowContext`, `ResilientLlm`, `ToolLoop`, `Stages`,
`SpawnTree`, `SseStream` and `Observers` are proved (section 4) and not run again; `Dashboard` has its types in `RowsInv` and `RequestInv`.

*Bounds.* Cases meet only in the locals of a tick and in the JoinSet, so two that can run
show every pair of interleaved results and the third shows an unregistered one. Two
polls cover the data and the router half of phase 3, and a case with two matches.
`MaxAborts` and `MaxFaults` bound only how often the environment interferes; two faults
give a crash after a failed call and a crash during the recovery from another. The checkpoints of the
context have no counter; two steps are what it takes to see one step disturb
another, and two values to see a result replaced. Two writes to a session variable put one of
another case between two reads of this one, or after its own. Two children are what it takes for one
to end while the other is asked for, and for two keys to coincide; `MaxSpawns` exceeds
`MaxFaults`, so that a guarded parent is never stopped by the bound. Four attempts and four fallbacks hold calls with more of either than of the other, and `max_attempts` 0; of the 16
token counts some lie above the ceiling, some double beyond the width. Four calls hold a batch that waits for a permit together with an exclusive call on
either side; a second round sees what the first left behind. Three stages are the first
number at which a clear can stop between two stages that both stay behind, and with a fourth
the stage that goes back need not be the last one; two runs cut
short give a crash in a clear and one in the repetition. Five lines hold two calls with
a piece each, or a text between the pieces of one, before the line that ends the body.
Two runs are two cases whose records mix, or a case that runs again on what its first run
left, and the crash falls between them, within one, or after a flush; one response is enough because a record is told by case and step, and a
failed call is the other output. Three keys on pages of one give a client
three pages with upserts between any two; the three creations are one of each case, or two cases of which one is made
again under its key. Size 2 is above the cap.

*Fairness.* `FairSpec` says the orchestrator keeps calling `tick` and that each workflow run
and each fetch comes back: with that, a tick step is always taken in the end (`WF`). It
does not say which case is served: that no case starves follows from the code, which
sweeps all of them in every tick. In `ESpec` the orchestrator also gets, between
ticks, the turn in which it writes a decision into the case, again and again: that turn
is enabled only while no tick runs, hence `SF(Inject)`. `DemoSpec` keeps the fairness
of the engine and has no such turn. In `SpawnTree` the owner of the parent keeps ticking it, feeds the children to a
scheduler, and these finish (`WF`); nothing in the engine does that by itself. In
`ResilientLlm` and `ToolLoop` providers and tools answer in the end; of the tasks no one is
preferred, and `Abandon` is never forced. In `Stages` a run that was started goes on, and
`RunReturns` rests on `MaxMade`: stages that go back for ever with new results do not return.
In `Observers` the runtime polls the writer task and a run that can go on (`WF` of `Writer`,
`FlushSend` and `FlushAwait`); no run is forced to come to its flush.
`SseStream` and `Dashboard` have only safety properties. Deadlock is checked in `scheduler`,
`checkpoints` and `approval`, which never stop; elsewhere a call or a case comes to its end, or the bounds are used up.

*What the violations show.* `tool_step` runs its tool loop again although its doc
(`context.rs:480`) says it is never re-executed. The example's
main publishes the decision to the event bus only; the scheduler drops the payload of the
match, the workflow looks in `resource_data`, so the case is woken by each tick and waits
for ever, where `main.rs:271` says the workflow finishes.

*What `FinishesConsistent` needs.* It holds for clears listed first to last or last to
first. In another order (stage 1, 3, 2) a run cut short after two clears leaves the result
of stage 2 beside a new result of stage 1, and the workflow goes on from it to its end. The
code documents no order, so the property names the two that are safe.

## 4. Proofs

| theorem | module | statement |
| --- | --- | --- |
| `TypeCorrect` | all but `Dashboard_proofs` | `Spec => []TypeOK` |
| `RunsMatchDictAlways`, `NoLostWakeAlways` | `Engine_proofs` | the two safety invariants of the scheduler |
| `SchedulerRefinesCaseLifecycle` | `Engine_proofs` | `Spec => ImplementsCaseLifecycle` |
| `EngineTypeCorrect` | `Engine_proofs` | `ESpec => []ETypeOK` |
| `SubmittedOncePerFaultAlways`, `WaitsWithCheckpointAlways`, `FinishedIsStoredAlways` | `Engine_proofs` | the three safety invariants of the composed engine |
| `FinishedIsFinal` | `Engine_proofs` | no step of the composed engine, a crash included, takes a case out of Finished |
| `CheckpointsSafe`, `ReturnedIsDurableAlways`, `CacheAgreesAlways`, `ReturnedNotRerunAlways` | `WorkflowContext_proofs` | the inductive invariant of the context and its three invariants, if `NoKeyCollision` |
| `ContextRefinesDurableSteps` | `WorkflowContext_proofs` | `Spec => ImplementsDurableSteps`, if `NoKeyCollision` |
| `SessionReadsForwardAlways` | `WorkflowContext_proofs` | the action property of session variables |
| `CallsSafe`, `FallbackAtMostOnceAlways`, `EscalatedLimitAlways` | `Llm_proofs` | the three invariants of a call |
| `StreamTypeCorrect` | `Llm_proofs` | `StreamSpec => []StreamTypeOK`, and no slot but 0 is in use |
| `EndsOnceAlways`, `TextsDeliveredAlways`, `CallsWholeAlways`, `AsCollectedAlways` | `Llm_proofs` | the four invariants of a streamed completion |
| `NoToolBesideAlways`, `ConcurrencyCappedAlways`, `ConversationWellFormedAlways` | `ToolLoop_proofs` | the safety invariants of the tool loop |
| `FinishesConsistentAlways` | `Stages_proofs` | for any number of stages, a finished workflow's results were made from each other |
| `FinishesLastAlways`, `KeyedConfigsRunAlways`, `GuardedSpawnsOnceAlways` | `SpawnTree_proofs` | the three invariants of a parent and its children |
| `CompleteListsStepsAlways`, `ReplayHasOriginalAlways`, `FinishedIsOnFileAlways` | `Observers_proofs` | the three invariants of the records |
| `CountedOnceAlways`, `StoresAgreeAlways`, `PagesMissNoneAlways` | `Dashboard_proofs` | the three invariants of the case stores and the requests |

They hold for every value of the constants that satisfies the named assumption of the module
(`SchedulerAssumption`, `ContextAssumption`, `ResilientAssumption`, ...): any sets of cases,
polls, steps, keys and values, any numbers of attempts, rounds, calls, permits, stages,
children, lines, rows, faults and crashes. Every invariant and every action property that a passing
run checks is the conclusion of one of these theorems.

*Scheduler.* `RunsMatchDict` speaks of the keys that are about to run and is not
inductive: a key that becomes ready in phase 4 was collected in phase 1 or woken in
phase 2 or 3. `PhaseInv` adds what holds on the way: which local can be non-empty in
which phase, that a key not probed yet is Waiting, that a probed case with open polls is
still Waiting or already woken, that in phases 2 and 3 every key in `woken` is Running,
and that a woken key is either still queued in phase 4 or has run. The conjunction
`TickInv` is inductive together with `TypeOK`; the refinement follows, because each
write to the dict then starts from the state the abstract move requires.

*Composed engine.* Every step but `Crash` is a scheduler step (`SurvivesIsNext`), so `TickInv` carries
over to `ESpec`, and so does the refinement's fact that Finished is final. `ApprovalInv` adds what
the stores say of a run: a context is open exactly while a run has a position (`OpenInv`); a run
about to save has no checkpoint, one behind the save has it, one behind the upsert is stored
(`StoresInv`); and each effect no checkpoint vouches for was lost to a fault or an abandoned
tick (`EffectsInv`). The case to watch is a crash between the closure of `step` and its save: the
run is gone, the effect stays, and the fault that is counted pays for it. A crash keeps Finished because the rebuilt
dict takes it from the store, where `FinishedIsStored` has it.

*Context.* `CheckpointInv` adds to the three invariants that a pending save is of a step with
no result yet (`PendingIsNew`) and that the cleanup of `finish` comes after the case is
stored (`CleanupIsLast`). `NoKeyCollision` is an assumption of the theorems and not of
the module: the code does not keep a step `state_x` and a variable `x` apart. `SessionReadsForward` follows
from `SessionInv`: a cached version is the one seen last, and no version seen is newer than the
stored one.

*Resilient call.* `CallInv` adds one conjunct per stage to the invariants. In the loop
(`LoopInv`), the primary was called at most `attempt` times, only fallbacks below `attempt`
were called, and all of these if every error was an overload; in the extra stage
(`ExtraInv`) the same holds with `next`, because the loop is left with `attempt` one below
`Greater(max_attempts, 1)`, where `next` starts. That equality is what keeps a fallback from
being called twice; that "called" is only some of "below `attempt`" is why one can be
passed over (section 5). `EscalatedLimit` speaks of every limit a request can have: the limit sent is within the
ceiling, higher than the one that was too small if that was below the ceiling and not 0, and lower only if it was above
it. The assumption `2 * Ceiling < Width`, which 128000 and a `u32` meet, is what keeps a limit below the ceiling from
wrapping (`DoubledBounds`); one above may wrap or is cut (section 5).

*Tool loop.* `BatchInv` says that the tasks not ended belong to the handles still to be joined
and that the permits and the running tasks together do not exceed the cap; counting them
uses the cardinality theorems of the library. `RoundInv` says that results are those of
calls 1, 2, ... up to the one the run has come to, the handles the calls after them up to
`i`, and that the conversation before the last answer is complete. `BatchInv` gives
`NoToolBeside` and `ConcurrencyCapped`; `ConversationWellFormed` needs `RoundInv` as well.

*Stages.* What stays behind when a clear is cut short differs with the order of the list.
`Outdated` is a result not made from the one the stage before it has now. Cleared last to first, nothing is
ever outdated (`LastToFirstInv`): behind a stage that is missing or goes back nothing is there.
Cleared first to last, outdated results exist, but each lies at or before a stage that will
go back behind it (`FirstToLastInv`), so the run cannot reach the end on them: at `finish` every
stage is there and none goes back (`WalkInv`).

*Children.* `TreeInv` is `ProgressInv` (where the run stands and what it has collected),
`HandlesInv` (its handles name children in the store, finished up to the one it asks
for next while none was pending), `KeyedInv` (with keys or
workflows of their own, each child's key names its configuration) and `SpawnsInv`: a child is created at most
`1 + faults` times, and at most `faults` times while a guarded parent is between runs, unfinished
and without a checkpoint. The last is needed because only a fault separates a
spawn from its checkpoint.

*Observers.* `CompleteListsSteps` rests on `ListsInv`, which follows the records of a run to
the step it has come to. `ReplayHasOriginal` rests on `CheckpointsInv` and `SavesInv`: every
checkpoint, and every output about to be saved, has the record of its execution in memory or
was left by an earlier process. A step emits before it saves, which is what makes them inductive.
`FinishedIsOnFile` rests on `TraceInv`, which follows a record from `channel` through `buffer` to `file`:
what a complete record lists goes before it all the way (`ListedBefore`); a run has sent all that it lists
before it flushes (`RunsSent`); the flush it waits for is behind all its records and, once
answered, they are in the file and nothing of the case is behind them (`FlushesLast`); and a flush or
permit of an earlier run carries that run's number, so the run at hand does not take it for its own (`FlushesFresh`).
A crash cuts the buffer, never the file, and ends every run that still waits.

*Dashboard.* `RowsInv` says that both stores hold the same keys in the same states, each with a
creation time of that key; without a second time they hold the same rows, hence
`StoresAgree`. `FinalInv` says that a case the request found finished still is, or is in
`reopened`, and one it counted as active still is, or is in `ended`; and that nothing is listed before the finished cases are. `PagesInv` says where a case that a client has to be shown is: on a page it was given, or at a
place not below the offset of the next one (`ShownOrAhead`). An upsert between two pages never
lowers its place: what enters the answer can only push it back, what is in the answer of a paged request does not leave it while
`due` is not given up, and a row that is stored again keeps its creation time, in PostgreSQL
always, in memory unless its case was made again. All this is for sizes up to the cap, whatever it is: then a page
reaches to where the next one begins. The client stops when its offset has passed the
total, and every place is below the total; that needs the cardinality theorems of the library.

*Streaming.* Before the end (`ReadInv`) both parsers have the same slots, neither has sent anything final,
and what each has sent, usage aside, is the texts of the lines so far in their order. `FirstSlot` says that
slot 0 is free until a call starts, which is then call 0, and holds all its pieces. At the end
both append the call in slot 0 and `Done` (`Closed`), the collector with a `Usage` in between. That such
sequences are alike follows because order is decided by kind and line: texts by position, then the call, then
`Done`. `CallsWhole` asks for the first call, and for no more of the others than that one which is delivered is whole. That no slot
but 0 is ever used (`OneSlot`) loses them (section 5); a `stream` that filed each start under its index would satisfy the
property as well.

Liveness (`EveryRunnableIsDispatched`, `ShutdownDrains`, `DecisionFinishes`, `Terminates`,
`EveryRunEnds`, `GuardedParentFinishes`, `RunReturns`, `FlushReturns`) is only
model-checked: TLAPS has no ENABLED, hence no fairness. The violations are TLC's as well: they are
behaviours of small instances.

## 5. Divergences without a run, and what is not modelled

Some statements in docs and comments are contradicted by the code in a way that can be
read off the model, and have no run of their own:

- `tick` is documented (`engine.rs:190`) to return `Executed` if any workflow ran. `any_executed`
  (`engine.rs:508`) ignores probes and runs that fail, which report `Idle`.
- `llm_resilient.rs:73` promises untried fallbacks a shot. An attempt uses a fallback only
  right after an overload, but `max_attempts - 1` fallbacks are skipped as tried: after a
  transient error and an overload with two attempts, one is left untried.
- `README.md:256` calls spawning and waiting checkpoint safe. `spawn_children` checkpoints
  nothing, so a parent written as shown there spawns again in every run (`RunStart`,
  `SpawnChild` in `SpawnTree` with `mode.guarded` FALSE).
- `stream` is documented (`streaming.rs:22`) to always send a final event; a request that cannot
  be sent returns an error without one (`SendFails`). `EndsOnce` speaks of what follows an answer.
- `parse_sse_chunk` reports one thing per delta: a text beside a call or a finish reason is
  dropped, and `stop` ends the stream before a usage chunk that comes after it.
- The two `analyze` children of the example at `README.md:256`, spawned in one millisecond,
  get one key (`context.rs:379`): the first is replaced and never runs. `KeyedConfigsRun`
  names the parents to whom this cannot happen.
- A second tool call of a streamed completion is lost: each start goes to slot 0
  (`streaming.rs:98`), where `sse.rs:148` says that calls are assembled, and `llm.rs:48` and `llm.rs:117` that they
  are parsed and run as they arrive. No property asks for this; `CallsWhole` shows that the first call is not
  damaged by what is lost.
- `llm_resilient.rs:89` says the limit is escalated, but the doubled limit is cut to 128000: a request for 200000 tokens
  that hit its limit is sent again with 128000. From 2^31 on the doubling wraps; a debug build panics there.
- One answer of the statistics need not add up: `running_count` and `waiting_count` are taken (`metrics.rs:25`)
  before the finished cases are listed, so that a case which finishes in between is in both. The completion rate uses
  the lists alone; `CountedOnce` keeps the two apart.
- A page has at most 100 cases whatever limit is asked for (`handlers.rs:67`); a client that moves its offset by a larger
  limit leaves cases out. The dashboard's own page asks for fewer.
- `CompositeObserver` is said to fan out every event and `JsonlObserver` to write every event; the composite
  forwards no probe, tool-call and retry records, the file keeps none of them.
- A trace file that cannot be opened ends the writer task (`jsonl.rs:120`): the next `flush` waits for ever,
  with it `finish` and the tick. `FlushReturns` makes the exception.
- A crash between the upsert and the flush of `finish` leaves a stored Finished case without its
  record in the file, and one after a save leaves a checkpoint whose original is in no file.
- The active listing asks for Running and then for Waiting cases: one that moves between the two
  calls is shown twice or not at all.
- A case reaches the `CaseStore` in `spawn_child` and `finish` only. The dashboard, which is to
  "inspect running cases" (`workflow_engine_dashboard/src/lib.rs:7`), shows no active case its owner
  has not stored, and never a state that `mc_wait` set.
- The order of pages is stable (`store.rs:237`) only while creation times differ; ties are
  left in the order of the map or of the table. A case made again under its key changes its place in
  the in-memory store and keeps it in PostgreSQL, as `StoresAgree` and `PagesMissNone` allow for.
- A step `state_x` and a state variable `x` share a key (`context.rs:84`), a step with a null
  result is run again in every run (`context.rs:110`), and `child_keys` are lost with the clone
  that learned them (`context.rs:396`): `SpawnTree` keeps both copies apart.

Not modelled:

- *Compaction* (`compact.rs`): the engine never calls it; a strategy of the user decides what is
  kept, and the shipped ones estimate tokens from text lengths, arithmetic with no state.
  `ResilientLlm` has the handler that may call it.
- *Intent routing*: `IntentRouterV2::route` is one LLM call and the parsing of its answer; `tick` never
  calls it.
- `OpenAiProvider::complete`: one HTTP call, which sends no tools and returns no calls.
- *State and session stores of PostgreSQL*: one SQL statement per call, seen as a store call that may
  fail, with or without its effect.
- *Probe, tool-call and retry records*, datasets and percentiles: nothing is decided by them.
- HTTP, SQL, serialisation, byte decoding (a character split between two packets is damaged,
  `streaming.rs:81`), command lines and logging.
