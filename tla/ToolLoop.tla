------------------------------ MODULE ToolLoop ------------------------------
(***************************************************************************)
(* run_tool_loop and ToolRegistry::execute_with_concurrency: rounds of an   *)
(* LLM call followed by the tool calls it asks for.  Consecutive read-only  *)
(* calls run as spawned tasks under a semaphore and are joined in order,    *)
(* every other call runs alone and inline.  A tool may panic and the run    *)
(* may be dropped at an await; the spawned tasks then go on by themselves.  *)
(* What a tool answers, an error included, is left out: it is a result.     *)
(***************************************************************************)
EXTENDS Naturals, FiniteSets, Sequences

CONSTANTS MaxRounds,        \* max_rounds of the ToolLoopConfig
          MaxConcurrency,   \* max_concurrency of the ToolLoopConfig
          MaxCalls          \* bound: calls in one answer of the LLM

ASSUME ToolLoopAssumption ==
  {MaxRounds, MaxConcurrency, MaxCalls} \subseteq Nat \ {0}

Ids   == 1..MaxCalls
Kinds == {"ReadOnly", "Exclusive", "Unknown"}   \* Unknown: no tool has that name

VARIABLES
  stage,      \* "llm", "dispatch", "exclusive", "spawn", "batch"; "ended": the run has
              \* returned; "broken": it has panicked or was dropped
  rounds,     \* answers of the LLM
  calls,      \* kinds of the calls of this round; a call's id is its index
  i,          \* first call of the round not yet taken up
  handles,    \* ids of the spawned tasks still to be joined, the least one next
  results,    \* ids of the calls with a result, in the order of the results
  messages,   \* the conversation
  tasks,      \* tasks[c]: the last task spawned for a call with id c
  permits     \* free permits of the semaphore of the last batch

loop == <<stage, rounds, calls, i, handles, results, messages>>
vars == <<loop, tasks, permits>>

User         == [role |-> "user", call |-> 0]
Assistant(n) == [role |-> "assistant", call |-> n]   \* asks for n calls
Tool(c)      == [role |-> "tool", call |-> c]        \* the result of call c

Init ==
  /\ stage = "llm" /\ rounds = 0 /\ calls = <<>> /\ i = 1
  /\ handles = {} /\ results = <<>> /\ messages = <<User>>
  /\ tasks = [c \in Ids |-> "none"]
  /\ permits = 0

-----------------------------------------------------------------------------
(* The loop. *)

RoundsExceeded ==
  /\ stage = "llm" /\ rounds >= MaxRounds
  /\ stage' = "ended"
  /\ UNCHANGED <<rounds, calls, i, handles, results, messages, tasks, permits>>

LlmFails ==
  /\ stage = "llm" /\ rounds < MaxRounds
  /\ stage' = "ended"
  /\ UNCHANGED <<rounds, calls, i, handles, results, messages, tasks, permits>>

LlmText ==
  /\ stage = "llm" /\ rounds < MaxRounds
  /\ stage' = "ended"
  /\ rounds' = rounds + 1
  /\ messages' = Append(messages, Assistant(0))
  /\ UNCHANGED <<calls, i, handles, results, tasks, permits>>

LlmCalls(cs) ==
  /\ stage = "llm" /\ rounds < MaxRounds
  /\ stage' = "dispatch"
  /\ rounds' = rounds + 1
  /\ messages' = Append(messages, Assistant(Len(cs)))
  /\ calls' = cs /\ i' = 1 /\ results' = <<>>
  /\ UNCHANGED <<handles, tasks, permits>>

RoundDone ==
  /\ stage = "dispatch" /\ i > Len(calls)
  /\ stage' = "llm"
  /\ messages' = messages \o [k \in DOMAIN results |-> Tool(results[k])]
  /\ UNCHANGED <<rounds, calls, i, handles, results, tasks, permits>>

-----------------------------------------------------------------------------
(* execute_with_concurrency. *)

Answer(c) == results' = Append(results, c) /\ i' = i + 1

RunExclusive ==
  /\ stage = "dispatch" /\ i <= Len(calls) /\ calls[i] = "Exclusive"
  /\ stage' = "exclusive"
  /\ UNCHANGED <<rounds, calls, i, handles, results, messages, tasks, permits>>

ExclusiveReturns ==
  /\ stage = "exclusive"
  /\ stage' = "dispatch"
  /\ Answer(i)
  /\ UNCHANGED <<rounds, calls, handles, messages, tasks, permits>>

\* No tool of that name, or arguments that do not parse: the result is an error.
RefuseCall ==
  /\ stage = "dispatch" /\ i <= Len(calls) /\ calls[i] # "ReadOnly"
  /\ Answer(i)
  /\ UNCHANGED <<stage, rounds, calls, handles, messages, tasks, permits>>

\* A batch: the read-only calls from i up to the next one that is not, each
\* spawned as a task, which may run before the next one is spawned.
StartBatch ==
  /\ stage = "dispatch" /\ i <= Len(calls) /\ calls[i] = "ReadOnly"
  /\ stage' = "spawn"
  /\ permits' = MaxConcurrency
  /\ UNCHANGED <<rounds, calls, i, handles, results, messages, tasks>>

Spawn ==
  /\ stage = "spawn" /\ i <= Len(calls) /\ calls[i] = "ReadOnly"
  /\ handles' = handles \cup {i}
  /\ tasks' = [tasks EXCEPT ![i] = "queued"]
  /\ i' = i + 1
  /\ UNCHANGED <<stage, rounds, calls, results, messages, permits>>

BatchSpawned ==
  /\ stage = "spawn"
  /\ i <= Len(calls) => calls[i] # "ReadOnly"
  /\ stage' = "batch"
  /\ UNCHANGED <<rounds, calls, i, handles, results, messages, tasks, permits>>

AcquireAlways(c) ==                \* no permit needed
  /\ tasks[c] = "queued"
  /\ tasks' = [tasks EXCEPT ![c] = "running"]
  /\ permits' = IF permits > 0 THEN permits - 1 ELSE 0
  /\ UNCHANGED loop

Acquire(c) ==
  /\ tasks[c] = "queued" /\ permits > 0
  /\ tasks' = [tasks EXCEPT ![c] = "running"]
  /\ permits' = permits - 1
  /\ UNCHANGED loop

TaskEndsKeepingPermit(c) ==        \* a permit forgotten
  /\ tasks[c] = "running"
  /\ \E end \in {"finished", "panicked"} : tasks' = [tasks EXCEPT ![c] = end]
  /\ UNCHANGED <<loop, permits>>

\* The permit is released when the task ends, by a panic too.
TaskEnds(c) ==
  /\ tasks[c] = "running"
  /\ \E end \in {"finished", "panicked"} : tasks' = [tasks EXCEPT ![c] = end]
  /\ permits' = permits + 1
  /\ UNCHANGED loop

JoinAnyFinished ==                    \* results in the order the tasks finish
  /\ stage = "batch"
  /\ \E c \in handles :
       /\ tasks[c] = "finished"
       /\ results' = Append(results, c)
       /\ handles' = handles \ {c}
  /\ UNCHANGED <<stage, rounds, calls, i, messages, tasks, permits>>

Awaited(c) == stage = "batch" /\ c \in handles /\ \A d \in handles : c <= d

Join ==
  /\ \E c \in Ids :
       /\ Awaited(c) /\ tasks[c] = "finished"
       /\ results' = Append(results, c)
       /\ handles' = handles \ {c}
  /\ UNCHANGED <<stage, rounds, calls, i, messages, tasks, permits>>

BatchDoneEarly ==                     \* goes on once a first result is there
  /\ stage = "batch" /\ results # <<>>
  /\ stage' = "dispatch"
  /\ UNCHANGED <<rounds, calls, i, handles, results, messages, tasks, permits>>

BatchDone ==
  /\ stage = "batch" /\ handles = {}
  /\ stage' = "dispatch"
  /\ UNCHANGED <<rounds, calls, i, handles, results, messages, tasks, permits>>

\* Joining a task that panicked panics the run, as an inline tool does.
Panic ==
  /\ \/ stage = "exclusive"
     \/ \E c \in Ids : Awaited(c) /\ tasks[c] = "panicked"
  /\ stage' = "broken"
  /\ handles' = {}
  /\ UNCHANGED <<rounds, calls, i, results, messages, tasks, permits>>

-----------------------------------------------------------------------------
\* External: the run's future is dropped at an await.
Abandon ==
  /\ stage \in {"llm", "exclusive", "batch"}
  /\ stage' = "broken"
  /\ handles' = {}
  /\ UNCHANGED <<rounds, calls, i, results, messages, tasks, permits>>

Step ==
  \/ RoundsExceeded \/ LlmFails \/ LlmText
  \/ (\E n \in Ids : \E cs \in [1..n -> Kinds] : LlmCalls(cs))
  \/ RunExclusive \/ ExclusiveReturns \/ RefuseCall
  \/ StartBatch \/ Spawn \/ BatchSpawned \/ Join \/ BatchDone \/ Panic \/ RoundDone
  \/ (\E c \in Ids : Acquire(c) \/ TaskEnds(c))

Next == Step \/ Abandon

\* The LLM and the tools answer in the end.
Spec == Init /\ [][Next]_vars /\ WF_vars(Step)

-----------------------------------------------------------------------------
Statuses == {"none", "queued", "running", "finished", "panicked"}

TypeOK ==
  /\ stage \in {"llm", "dispatch", "exclusive", "spawn", "batch", "ended", "broken"}
  /\ rounds \in 0..MaxRounds
  /\ calls \in Seq(Kinds) /\ Len(calls) <= MaxCalls
  /\ i \in Nat \ {0}
  /\ handles \in SUBSET Ids /\ results \in Seq(Ids)
  /\ messages \in Seq([role : {"user", "assistant", "tool"}, call : 0..MaxCalls])
  /\ tasks \in [Ids -> Statuses]
  /\ permits \in 0..MaxConcurrency

Running == {c \in Ids : tasks[c] = "running"}
Live    == Running \cup {c \in Ids : tasks[c] = "queued"}

\* Up to its l-th message, the calls and results of conversation m match.
Answered(m, l) ==
  \A p \in 1..l :
    /\ m[p].role = "assistant" =>
         \A c \in 1..m[p].call : p + c <= l /\ m[p + c] = Tool(c)
    /\ m[p].role = "tool" =>
         /\ m[p].call < p
         /\ m[p - m[p].call].role = "assistant"
         /\ m[p].call <= m[p - m[p].call].call

(* The LLM is only ever called with a conversation in which the answer that *)
(* asked for tools is followed by one result per call, in the order of the  *)
(* calls, and in which no other result occurs.                              *)
ConversationWellFormed == stage = "llm" => Answered(messages, Len(messages))

(* While an exclusive tool runs, no other tool does; and a run that asks the *)
(* LLM to go on, or returns, has left no tool behind.                        *)
NoToolBeside == stage \in {"exclusive", "llm", "ended"} => Live = {}

(* No more than max_concurrency tools run at a time, however tools finish or *)
(* panic and whatever becomes of the run.                                    *)
ConcurrencyCapped == Cardinality(Running) <= MaxConcurrency

\* Strengthens the invariants above: where the run stands in the batch and the round.
BatchInv ==
  /\ stage \in {"llm", "dispatch", "exclusive", "ended"} => Live = {}
  /\ stage \in {"spawn", "batch"} => Live \subseteq handles
  /\ permits + Cardinality(Running) <= MaxConcurrency

UpTo(n) == [k \in 1..n |-> k]

RoundInv ==
  /\ stage \in {"llm", "dispatch", "exclusive"} => handles = {}
  /\ stage \in {"dispatch", "exclusive"} => results = UpTo(i - 1)
  /\ stage = "exclusive" => i <= Len(calls)
  /\ stage \in {"spawn", "batch"} =>
       /\ results = UpTo(Len(results))
       /\ handles = (Len(results) + 1)..(i - 1) /\ Len(results) < i
  /\ stage \in {"dispatch", "exclusive", "spawn", "batch"} =>
       /\ i <= Len(calls) + 1
       /\ messages # <<>> /\ messages[Len(messages)] = Assistant(Len(calls))
       /\ Answered(messages, Len(messages) - 1)

(* The run ends and its tools with it, one that panicked or was dropped      *)
(* included, as long as the LLM and the tools answer.                        *)
EveryRunEnds == <>[](stage \in {"ended", "broken"} /\ Live = {})
=============================================================================
