--------------------------- MODULE WorkflowContext ---------------------------
(***************************************************************************)
(* The checkpoints of one case.  A workflow run owns a WorkflowContext with *)
(* an in-memory cache over the StateStore; it calls step, tool_step,        *)
(* clear_step, get_state, set_state and finish in any order.  The run can   *)
(* end at any await: it returns, fails, or the process crashes.  The next   *)
(* run of the case starts from an empty cache and what the stores kept.     *)
(*                                                                         *)
(* A store call succeeds, fails without effect, or fails after its write    *)
(* was applied (the answer of the database is lost).  A read that fails     *)
(* returns its error and changes nothing, so it is a stuttering step here.  *)
(*                                                                         *)
(* Session variables are shared with the other cases of the session, whose  *)
(* writes arrive at any time.  A value of one is its version: the number of *)
(* writes the store has applied to the variable, 0 when it is not set.      *)
(***************************************************************************)

EXTENDS Naturals

CONSTANTS Steps,      \* names used with step()
          ToolSteps,  \* names used with tool_step()
          Names,      \* names of state variables
          Keys,       \* keys of the StateStore entries of the case
          StepKey,    \* checkpoint_step_key: "wf_" and the step name
          StateKey,   \* state_step_key: "wf_state_" and the variable name
          Vals,       \* non-null results and state values
          Null,       \* JSON null: a result, and the mark of a cleared step
          Absent,     \* no entry
          Shared,     \* names of session variables
          MaxWrites   \* bound: writes to one session variable

AllSteps == Steps \cup ToolSteps

ASSUME ContextAssumption ==
  /\ Steps \cap ToolSteps = {}
  /\ StepKey \in [AllSteps -> Keys]
  /\ StateKey \in [Names -> Keys]
  /\ \A s, t \in AllSteps : StepKey[s] = StepKey[t] => s = t
  /\ \A m, n \in Names : StateKey[m] = StateKey[n] => m = n
  /\ {Null, Absent} \cap Vals = {} /\ Null # Absent
  /\ MaxWrites \in Nat

\* The code does not ensure this: a step named "state_x" and a variable "x" share an entry.
NoKeyCollision == \A s \in AllSteps, n \in Names : StepKey[s] # StateKey[n]

Data == Vals \cup {Null, Absent}

VARIABLES
  store,      \* StateStore entries of the case
  cache,      \* checkpoint_cache of the current context
  finished,   \* the CaseStore holds the case as Finished
  call,       \* the call of the run that is at an await
  got,        \* history: the last result each step returned to the workflow, until cleared
  put,        \* history: the last value set_state stored with success
  shared,     \* session entries of the StateStore: the version of each variable
  scache,     \* the versions in the cache of the current context, 0 when not cached
  seen        \* history: the version the case last read, or wrote with success

session == <<shared, scache, seen>>
vars == <<store, cache, finished, call, got, put, session>>

NoCall     == [op |-> "none"]
Calls      == {NoCall} \cup [op : {"run"}, step : AllSteps]
                \cup [op : {"save"}, step : AllSteps, val : Vals \cup {Null}]
                \cup {[op |-> "cleanup"]}
EmptyCache == [k \in Keys |-> Absent]

Init ==
  /\ store = [k \in Keys |-> Absent]
  /\ cache = EmptyCache
  /\ finished = FALSE
  /\ call = NoCall
  /\ got = [s \in AllSteps |-> Absent]
  /\ put = [n \in Names |-> Absent]
  /\ shared = [n \in Shared |-> 0]
  /\ scache = [n \in Shared |-> 0]
  /\ seen = [n \in Shared |-> 0]

-----------------------------------------------------------------------------
(* step: restore the checkpoint, or run the closure and save its result.    *)

\* The cache is never consulted for a miss: only the store's entry counts.
LookupIgnoresStore(k) == cache[k]

\* get_checkpoint: the cached value, even null, before the store's.
Lookup(k) == IF cache[k] # Absent THEN cache[k] ELSE store[k]

StepRestored(s) ==
  LET v == Lookup(StepKey[s]) IN
  /\ call = NoCall /\ v \in Vals
  /\ cache' = [cache EXCEPT ![StepKey[s]] = v]
  /\ got' = [got EXCEPT ![s] = v]
  /\ UNCHANGED <<store, finished, call, put>>

StepRuns(s) ==
  /\ call = NoCall /\ Lookup(StepKey[s]) \notin Vals
  /\ call' = [op |-> "run", step |-> s]
  /\ UNCHANGED <<store, cache, finished, got, put>>

\* tool_step starts its tool loop without looking for a checkpoint.
ToolStepRuns(s) ==
  /\ call = NoCall
  /\ call' = [op |-> "run", step |-> s]
  /\ UNCHANGED <<store, cache, finished, got, put>>

\* A tool loop ends with a text, a step closure with any value.
ClosureOk(s, v) ==
  /\ call = [op |-> "run", step |-> s]
  /\ s \in ToolSteps => v # Null
  /\ call' = [op |-> "save", step |-> s, val |-> v]
  /\ UNCHANGED <<store, cache, finished, got, put>>

ClosureErr(s) ==
  /\ call = [op |-> "run", step |-> s]
  /\ call' = NoCall
  /\ UNCHANGED <<store, cache, finished, got, put>>

\* The result is returned although the save failed.
SaveErrIgnored(s, v, written) ==
  /\ call = [op |-> "save", step |-> s, val |-> v]
  /\ store' = IF written THEN [store EXCEPT ![StepKey[s]] = v] ELSE store
  /\ call' = NoCall
  /\ got' = [got EXCEPT ![s] = v]
  /\ UNCHANGED <<cache, finished, put>>

SaveOk(s, v) ==
  /\ call = [op |-> "save", step |-> s, val |-> v]
  /\ store' = [store EXCEPT ![StepKey[s]] = v]
  /\ cache' = [cache EXCEPT ![StepKey[s]] = v]
  /\ got' = [got EXCEPT ![s] = v]
  /\ call' = NoCall
  /\ UNCHANGED <<finished, put>>

SaveErr(s, v, written) ==
  /\ call = [op |-> "save", step |-> s, val |-> v]
  /\ store' = IF written THEN [store EXCEPT ![StepKey[s]] = v] ELSE store
  /\ call' = NoCall
  /\ UNCHANGED <<cache, finished, got, put>>

-----------------------------------------------------------------------------
(* clear_step drops the cached value first and then stores null.  Once it   *)
(* is called the workflow no longer relies on the result.                   *)

ClearKeepingCache(s) ==
  /\ call = NoCall
  /\ store' \in {store, [store EXCEPT ![StepKey[s]] = Null]}
  /\ got' = [got EXCEPT ![s] = Absent]
  /\ UNCHANGED <<cache, finished, call, put>>

ClearStep(s) ==
  /\ call = NoCall
  /\ cache' = [cache EXCEPT ![StepKey[s]] = Absent]
  /\ store' \in {store, [store EXCEPT ![StepKey[s]] = Null]}
  /\ got' = [got EXCEPT ![s] = Absent]
  /\ UNCHANGED <<finished, call, put>>

GetState(n) ==
  /\ call = NoCall /\ Lookup(StateKey[n]) # Absent
  /\ cache' = [cache EXCEPT ![StateKey[n]] = Lookup(StateKey[n])]
  /\ UNCHANGED <<store, finished, call, got, put>>

SetState(n, v) ==
  /\ call = NoCall
  /\ \/ /\ store' = [store EXCEPT ![StateKey[n]] = v]
        /\ cache' = [cache EXCEPT ![StateKey[n]] = v]
        /\ put' = [put EXCEPT ![n] = v]
     \/ /\ store' \in {store, [store EXCEPT ![StateKey[n]] = v]}
        /\ put' = [put EXCEPT ![n] = Absent]
        /\ UNCHANGED cache
  /\ UNCHANGED <<finished, call, got>>

-----------------------------------------------------------------------------
(* Session variables.  Nothing is locked between the cases of a session,    *)
(* and a default is returned for a missing variable without being cached.   *)

GetSessionState(n) ==
  LET version == IF scache[n] # 0 THEN scache[n] ELSE shared[n] IN
  /\ call = NoCall
  /\ scache' = [scache EXCEPT ![n] = version]
  /\ seen' = [seen EXCEPT ![n] = version]
  /\ UNCHANGED <<store, cache, finished, call, got, put, shared>>

\* The version read before stays in the cache.
SetSessionKeepingCache(n) ==
  /\ call = NoCall /\ shared[n] < MaxWrites
  /\ shared' = [shared EXCEPT ![n] = @ + 1]
  /\ seen' \in {seen, [seen EXCEPT ![n] = shared'[n]]}
  /\ UNCHANGED <<store, cache, finished, call, got, put, scache>>

SetSessionState(n) ==
  /\ call = NoCall /\ shared[n] < MaxWrites
  /\ shared' = [shared EXCEPT ![n] = @ + 1]
  /\ \/ /\ scache' = [scache EXCEPT ![n] = shared'[n]]
        /\ seen' = [seen EXCEPT ![n] = shared'[n]]
     \/ UNCHANGED <<scache, seen>>
  /\ UNCHANGED <<store, cache, finished, call, got, put>>

OtherCaseWrites(n) ==
  /\ shared[n] < MaxWrites
  /\ shared' = [shared EXCEPT ![n] = @ + 1]
  /\ UNCHANGED <<store, cache, finished, call, got, put, scache, seen>>

SessionCall == \E n \in Shared :
  GetSessionState(n) \/ SetSessionState(n) \/ OtherCaseWrites(n)

-----------------------------------------------------------------------------
(* finish: the case is stored as Finished, then its entries are deleted; a  *)
(* delete that fails is only logged.  Session entries are no entries of the *)
(* case: they stay, and only the cached copies go.                          *)

FinishDeletesFirst ==
  /\ call = NoCall
  /\ store' = [k \in Keys |-> Absent]
  /\ \/ finished' = TRUE /\ call' = [op |-> "cleanup"]
     \/ UNCHANGED <<finished, call>>
  /\ UNCHANGED <<cache, got, put>>

FinishUpsert ==
  /\ call = NoCall
  /\ \/ finished' = TRUE /\ call' = [op |-> "cleanup"]
     \/ finished' \in {finished, TRUE} /\ UNCHANGED call
  /\ UNCHANGED <<store, cache, got, put>>

FinishCleanup ==
  /\ call.op = "cleanup"
  /\ store' \in {store, [k \in Keys |-> Absent]}
  /\ cache' = EmptyCache
  /\ got' = [s \in AllSteps |-> Absent]
  /\ put' = [n \in Names |-> Absent]
  /\ call' = NoCall
  /\ scache' = [n \in Shared |-> 0]
  /\ UNCHANGED <<finished, shared, seen>>

\* The run returns, or dies at the await it is in, and its context with it.
RunEnds ==
  /\ cache' = EmptyCache
  /\ call' = NoCall
  /\ scache' = [n \in Shared |-> 0]
  /\ UNCHANGED <<store, finished, got, put, shared, seen>>

CallStep(s) ==
  \/ ClosureErr(s) \/ ClearStep(s)
  \/ \E v \in Vals \cup {Null} :
       \/ ClosureOk(s, v)
       \/ SaveOk(s, v)
       \/ \E written \in BOOLEAN : SaveErr(s, v, written)

CallState(n) == GetState(n) \/ \E v \in Vals : SetState(n, v)

CaseCall ==
  \/ \E s \in Steps : StepRestored(s) \/ StepRuns(s)
  \/ \E s \in ToolSteps : ToolStepRuns(s)
  \/ \E s \in AllSteps : CallStep(s)
  \/ \E n \in Names : CallState(n)
  \/ FinishUpsert

Next ==
  \/ CaseCall /\ UNCHANGED session
  \/ SessionCall
  \/ FinishCleanup \/ RunEnds

Spec == Init /\ [][Next]_vars

-----------------------------------------------------------------------------
TypeOK ==
  /\ store \in [Keys -> Data]
  /\ cache \in [Keys -> Data]
  /\ finished \in BOOLEAN
  /\ call \in Calls
  /\ got \in [AllSteps -> Data]
  /\ put \in [Names -> Vals \cup {Absent}]
  /\ shared \in [Shared -> Nat]
  /\ scache \in [Shared -> Nat]
  /\ seen \in [Shared -> Nat]

(* What a run was told is durable: every non-null result step() returned,   *)
(* and every value set_state() acknowledged, is the value the StateStore    *)
(* holds, across failed calls, ended runs and crashes, until the step is    *)
(* cleared, the variable is set again or the case is finished.              *)
ReturnedIsDurable ==
  /\ \A s \in Steps : got[s] \in Vals => store[StepKey[s]] = got[s]
  /\ \A n \in Names : put[n] # Absent => store[StateKey[n]] = put[n]

(* A non-null step checkpoint served from the cache is the one in the store. *)
CacheAgrees ==
  \A s \in Steps :
    cache[StepKey[s]] \in Vals => cache[StepKey[s]] = store[StepKey[s]]

(* Once step() has returned a non-null result its closure does not run      *)
(* again before the step is cleared, in this run or a later one.            *)
ReturnedNotRerun ==
  \A s \in Steps : call = [op |-> "run", step |-> s] => got[s] \notin Vals

\* Strengthens the three above to an inductive invariant.
PendingIsNew ==
  \A s \in Steps :
    /\ (call.op \in {"run", "save"} /\ call.step = s) =>
         got[s] \notin Vals /\ cache[StepKey[s]] \notin Vals
    /\ cache[StepKey[s]] = Null => got[s] \notin Vals

CleanupIsLast == call.op = "cleanup" => finished

CheckpointInv ==
  ReturnedIsDurable /\ CacheAgrees /\ ReturnedNotRerun /\ PendingIsNew /\ CleanupIsLast

(* A session variable never goes back: whatever the other cases of the      *)
(* session write, whichever write of its own is applied without an answer,  *)
(* and across its finish and its runs, a case never reads an older value    *)
(* than one it has read or has stored with success.  A read of another case *)
(* that is served from the cache may be old, it is never older.             *)
SessionReadsForward == [][\A n \in Shared : seen'[n] >= seen[n]]_vars

\* What makes it so: a cached version is the one seen last, and stored.
SessionInv == \A n \in Shared : scache[n] \in {0, seen[n]} /\ seen[n] <= shared[n]

Memo == [s \in Steps |-> IF got[s] \in Vals THEN got[s] ELSE Absent]
DS == INSTANCE DurableSteps WITH None <- Absent, memo <- Memo, done <- finished

(* The results a workflow sees from its steps behave like a write-once      *)
(* record: two returns of a step agree unless it was cleared in between,    *)
(* and the record as a whole goes only after the case is stored Finished.   *)
ImplementsDurableSteps == DS!Spec

(* "checkpoints the entire result so the step is never re-executed": the    *)
(* loop of a tool step that has returned a result does not run again.       *)
ToolStepNotRerun ==
  \A s \in ToolSteps : call = [op |-> "run", step |-> s] => got[s] = Absent
=============================================================================
