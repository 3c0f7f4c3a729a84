----------------------- MODULE WorkflowContext_proofs -----------------------
(***************************************************************************)
(* Proofs about the checkpoints of a case, for any set of steps, variables  *)
(* and values.  Type correctness needs only the assumptions on the          *)
(* constants.  Everything else holds as long as no state variable shares    *)
(* its entry with a step (NoKeyCollision), which the code leaves to the     *)
(* names the workflow chooses.                                              *)
(***************************************************************************)
EXTENDS WorkflowContext, TLAPS

LEMMA InitType == Init => TypeOK
<1> SUFFICES ASSUME Init PROVE TypeOK
  OBVIOUS
<1>1. /\ store \in [Keys -> Data] /\ cache \in [Keys -> Data] /\ finished \in BOOLEAN
      /\ call \in Calls /\ got \in [AllSteps -> Data] /\ put \in [Names -> Vals \cup {Absent}]
  BY ContextAssumption DEF Init, NoCall, Calls, EmptyCache, Data
<1>2. shared \in [Shared -> Nat] /\ scache \in [Shared -> Nat] /\ seen \in [Shared -> Nat]
  BY DEF Init
<1> QED BY <1>1, <1>2 DEF TypeOK

\* A value looked up is a value of the store or of the cache.
LEMMA LookupType ==
  ASSUME TypeOK, NEW k \in Keys
  PROVE  Lookup(k) \in Data
BY DEF TypeOK, Lookup

LEMMA NextType == TypeOK /\ [Next]_vars => TypeOK'
<1> SUFFICES ASSUME TypeOK, [Next]_vars PROVE TypeOK'
  OBVIOUS
<1> USE ContextAssumption DEF TypeOK, session
<1>1. ASSUME NEW s \in Steps, StepRestored(s), UNCHANGED session PROVE TypeOK'
  BY <1>1, LookupType DEF StepRestored, Data, AllSteps
<1>2. ASSUME NEW s \in Steps, StepRuns(s), UNCHANGED session PROVE TypeOK'
  BY <1>2 DEF StepRuns, Calls, AllSteps
<1>3. ASSUME NEW s \in ToolSteps, ToolStepRuns(s), UNCHANGED session PROVE TypeOK'
  BY <1>3 DEF ToolStepRuns, Calls, AllSteps
<1>4. ASSUME NEW s \in AllSteps, ClosureErr(s), UNCHANGED session PROVE TypeOK'
  BY <1>4 DEF ClosureErr, Calls
<1>5. ASSUME NEW s \in AllSteps, ClearStep(s), UNCHANGED session PROVE TypeOK'
  BY <1>5 DEF ClearStep, Data
<1>6. ASSUME NEW s \in AllSteps, NEW v \in Vals \cup {Null}, ClosureOk(s, v), UNCHANGED session
      PROVE TypeOK'
  BY <1>6 DEF ClosureOk, Calls
<1>7. ASSUME NEW s \in AllSteps, NEW v \in Vals \cup {Null}, SaveOk(s, v), UNCHANGED session
      PROVE TypeOK'
  BY <1>7 DEF SaveOk, Calls, Data
<1>8. ASSUME NEW s \in AllSteps, NEW v \in Vals \cup {Null}, NEW w \in BOOLEAN,
             SaveErr(s, v, w), UNCHANGED session
      PROVE TypeOK'
  BY <1>8 DEF SaveErr, Calls, Data
<1>9. ASSUME NEW n \in Names, GetState(n), UNCHANGED session PROVE TypeOK'
  BY <1>9, LookupType DEF GetState
<1>10. ASSUME NEW n \in Names, NEW v \in Vals, SetState(n, v), UNCHANGED session PROVE TypeOK'
  BY <1>10 DEF SetState, Data
<1>11. CASE FinishUpsert /\ UNCHANGED session
  BY <1>11 DEF FinishUpsert, Calls
<1>12. CASE FinishCleanup
  BY <1>12 DEF FinishCleanup, EmptyCache, Calls, Data
<1>13. CASE RunEnds
  BY <1>13 DEF RunEnds, EmptyCache, Calls, Data
<1>14. CASE UNCHANGED vars
  BY <1>14 DEF vars
<1>15. CASE SessionCall
  <2>1. PICK n \in Shared : GetSessionState(n) \/ SetSessionState(n) \/ OtherCaseWrites(n)
    BY <1>15 DEF SessionCall
  <2>2. CASE GetSessionState(n)
    BY <2>2 DEF GetSessionState
  <2>3. CASE SetSessionState(n)
    BY <2>3 DEF SetSessionState
  <2>4. CASE OtherCaseWrites(n)
    BY <2>4 DEF OtherCaseWrites
  <2> QED BY <2>1, <2>2, <2>3, <2>4
<1> HIDE ContextAssumption DEF TypeOK, session
<1>16. QED
  BY <1>1, <1>2, <1>3, <1>4, <1>5, <1>6, <1>7, <1>8, <1>9, <1>10, <1>11, <1>12,
     <1>13, <1>14, <1>15 DEF Next, CaseCall, CallStep, CallState

(* The state of the model is always well typed, for every choice of steps,   *)
(* keys and values.                                                          *)
THEOREM TypeCorrect == Spec => []TypeOK
BY InitType, NextType, PTL DEF Spec

-----------------------------------------------------------------------------
(* What the calls do to the step entries.                                   *)

LEMMA KeysApart ==
  /\ \A s, t \in AllSteps : s # t => StepKey[s] # StepKey[t]
  /\ \A n, m \in Names : n # m => StateKey[n] # StateKey[m]
  /\ \A s \in AllSteps : StepKey[s] \in Keys
  /\ \A n \in Names : StateKey[n] \in Keys
  /\ Steps \subseteq AllSteps /\ ToolSteps \subseteq AllSteps
  /\ Null \notin Vals /\ Absent \notin Vals
BY ContextAssumption DEF AllSteps

LEMMA InitCheckpoint == Init => CheckpointInv
<1> SUFFICES ASSUME Init PROVE CheckpointInv
  OBVIOUS
<1>1. ReturnedIsDurable /\ CacheAgrees
  BY KeysApart DEF Init, EmptyCache, ReturnedIsDurable, CacheAgrees
<1>2. ReturnedNotRerun /\ PendingIsNew /\ CleanupIsLast
  BY KeysApart, ContextAssumption
     DEF Init, NoCall, EmptyCache, ReturnedNotRerun, PendingIsNew, CleanupIsLast
<1> QED BY <1>1, <1>2 DEF CheckpointInv

LEMMA NextCheckpoint ==
  ASSUME NoKeyCollision, TypeOK, CheckpointInv, [Next]_vars
  PROVE  CheckpointInv'
<1> USE KeysApart, NoKeyCollision
    DEF NoKeyCollision, TypeOK, CheckpointInv, ReturnedIsDurable, CacheAgrees,
        ReturnedNotRerun, PendingIsNew, CleanupIsLast, NoCall
<1>1. ASSUME NEW s \in Steps, StepRestored(s) PROVE CheckpointInv'
  BY <1>1 DEF StepRestored, Lookup
<1>2. ASSUME NEW s \in Steps, StepRuns(s) PROVE CheckpointInv'
  <2>1. Lookup(StepKey[s]) \notin Vals => got[s] \notin Vals /\ cache[StepKey[s]] \notin Vals
    BY DEF Lookup, Data
  <2>2. got[s] \notin Vals /\ cache[StepKey[s]] \notin Vals /\ call'.step = s
    BY <1>2, <2>1 DEF StepRuns
  <2>3. ReturnedIsDurable' /\ CacheAgrees'
    BY <1>2 DEF StepRuns
  <2>4. ReturnedNotRerun'
    BY <1>2, <2>2 DEF StepRuns
  <2>5. PendingIsNew'
    BY <1>2, <2>2 DEF StepRuns
  <2>6. CleanupIsLast'
    BY <1>2 DEF StepRuns
  <2> QED BY <2>3, <2>4, <2>5, <2>6
<1>3. ASSUME NEW s \in ToolSteps, ToolStepRuns(s) PROVE CheckpointInv'
  BY <1>3, ContextAssumption DEF ToolStepRuns
<1>4. ASSUME NEW s \in AllSteps, ClosureErr(s) PROVE CheckpointInv'
  BY <1>4 DEF ClosureErr
<1>5. ASSUME NEW s \in AllSteps, ClearStep(s) PROVE CheckpointInv'
  BY <1>5 DEF ClearStep
<1>6. ASSUME NEW s \in AllSteps, NEW v \in Vals \cup {Null}, ClosureOk(s, v)
      PROVE CheckpointInv'
  BY <1>6 DEF ClosureOk
<1>7. ASSUME NEW s \in AllSteps, NEW v \in Vals \cup {Null}, SaveOk(s, v)
      PROVE CheckpointInv'
  BY <1>7 DEF SaveOk
<1>8. ASSUME NEW s \in AllSteps, NEW v \in Vals \cup {Null}, NEW w \in BOOLEAN,
             SaveErr(s, v, w)
      PROVE CheckpointInv'
  BY <1>8 DEF SaveErr
<1>9. ASSUME NEW n \in Names, GetState(n) PROVE CheckpointInv'
  BY <1>9 DEF GetState
<1>10. ASSUME NEW n \in Names, NEW v \in Vals, SetState(n, v) PROVE CheckpointInv'
  BY <1>10 DEF SetState
<1>11. CASE FinishUpsert
  <2>1. CASE call' = call
    BY <1>11, <2>1 DEF FinishUpsert
  <2>2. CASE call' = [op |-> "cleanup"]
    BY <1>11, <2>2 DEF FinishUpsert
  <2> QED BY <1>11, <2>1, <2>2 DEF FinishUpsert
<1>12. CASE FinishCleanup
  <2>1. /\ \A s \in Steps : got'[s] = Absent /\ cache'[StepKey[s]] = Absent
        /\ \A n \in Names : put'[n] = Absent
        /\ call'.op = "none"
    BY <1>12 DEF FinishCleanup, EmptyCache
  <2>2. Absent # Null
    BY ContextAssumption
  <2> QED BY <2>1, <2>2
<1>13. CASE RunEnds
  <2>1. /\ \A s \in Steps : cache'[StepKey[s]] = Absent
        /\ call'.op = "none"
    BY <1>13 DEF RunEnds, EmptyCache
  <2>2. Absent # Null
    BY ContextAssumption
  <2> QED BY <1>13, <2>1, <2>2 DEF RunEnds
<1>14. CASE UNCHANGED vars
  BY <1>14 DEF vars
<1> HIDE KeysApart
    DEF NoKeyCollision, TypeOK, CheckpointInv, ReturnedIsDurable, CacheAgrees,
        ReturnedNotRerun, PendingIsNew, CleanupIsLast, NoCall
<1>15. ASSUME SessionCall PROVE CheckpointInv'
  <2>1. UNCHANGED <<store, cache, finished, call, got, put>>
    BY <1>15 DEF SessionCall, GetSessionState, SetSessionState, OtherCaseWrites
  <2> QED BY <2>1 DEF CheckpointInv, ReturnedIsDurable, CacheAgrees,
                      ReturnedNotRerun, PendingIsNew, CleanupIsLast
<1>16. QED
  BY <1>1, <1>2, <1>3, <1>4, <1>5, <1>6, <1>7, <1>8, <1>9, <1>10, <1>11, <1>12,
     <1>13, <1>14, <1>15 DEF Next, CaseCall, CallStep, CallState

(* For every choice of constants without a key collision: what a run was    *)
(* told stays in the StateStore, the cache serves nothing else, and the     *)
(* closure of a step whose result was returned does not run again.          *)
THEOREM CheckpointsSafe ==
  ASSUME NoKeyCollision
  PROVE  Spec => [](ReturnedIsDurable /\ CacheAgrees /\ ReturnedNotRerun)
<1>1. Spec => []CheckpointInv
  <2>1. TypeOK /\ CheckpointInv /\ [Next]_vars => CheckpointInv'
    BY NextCheckpoint
  <2> QED BY InitCheckpoint, TypeCorrect, <2>1, PTL DEF Spec
<1>2. CheckpointInv => ReturnedIsDurable /\ CacheAgrees /\ ReturnedNotRerun
  BY DEF CheckpointInv
<1> QED BY <1>1, <1>2, PTL

(* What step() returned and set_state() acknowledged stays in the store,     *)
(* through failed calls, ended runs and crashes (context.rs 122-137, 289-305). *)
THEOREM ReturnedIsDurableAlways ==
  ASSUME NoKeyCollision
  PROVE  Spec => []ReturnedIsDurable
<1>1. Spec => [](ReturnedIsDurable /\ CacheAgrees /\ ReturnedNotRerun)
  BY CheckpointsSafe
<1> QED BY <1>1, PTL

(* get_checkpoint never answers from the cache what the store does not hold  *)
(* (context.rs 99-119).                                                      *)
THEOREM CacheAgreesAlways ==
  ASSUME NoKeyCollision
  PROVE  Spec => []CacheAgrees
<1>1. Spec => [](ReturnedIsDurable /\ CacheAgrees /\ ReturnedNotRerun)
  BY CheckpointsSafe
<1> QED BY <1>1, PTL

(* The closure of a step whose result was returned does not run again before *)
(* the step is cleared (context.rs 182-262).                                 *)
THEOREM ReturnedNotRerunAlways ==
  ASSUME NoKeyCollision
  PROVE  Spec => []ReturnedNotRerun
<1>1. Spec => [](ReturnedIsDurable /\ CacheAgrees /\ ReturnedNotRerun)
  BY CheckpointsSafe
<1> QED BY <1>1, PTL

-----------------------------------------------------------------------------
(* Session variables: a cached version is the one seen last and is stored.   *)

LEMMA InitSession == Init => SessionInv
BY DEF Init, SessionInv

LEMMA NextSession ==
  ASSUME TypeOK, SessionInv, [Next]_vars
  PROVE  SessionInv' /\ \A n \in Shared : seen'[n] >= seen[n]
<1> DEFINE Goal == SessionInv' /\ \A n \in Shared : seen'[n] >= seen[n]
<1> USE DEF TypeOK, SessionInv
<1>1. ASSUME UNCHANGED session PROVE Goal
  BY <1>1 DEF session
<1>2. ASSUME NEW n \in Shared, GetSessionState(n) PROVE Goal
  BY <1>2 DEF GetSessionState
<1>3. ASSUME NEW n \in Shared, SetSessionState(n) PROVE Goal
  BY <1>3 DEF SetSessionState
<1>4. ASSUME NEW n \in Shared, OtherCaseWrites(n) PROVE Goal
  BY <1>4 DEF OtherCaseWrites
<1>5. ASSUME scache' = [n \in Shared |-> 0], UNCHANGED <<shared, seen>> PROVE Goal
  BY <1>5
<1> HIDE DEF TypeOK, SessionInv, Goal
<1>6. Goal
  BY <1>1, <1>2, <1>3, <1>4, <1>5
     DEF Next, vars, SessionCall, FinishCleanup, RunEnds
<1> QED BY <1>6 DEF Goal

(* For any number of session variables and of writes by other cases, a case  *)
(* never reads a session variable older than it has seen it                  *)
(* (context.rs 323-371).                                                     *)
THEOREM SessionReadsForwardAlways == Spec => SessionReadsForward
<1>1. TypeOK /\ SessionInv /\ [Next]_vars => SessionInv'
  BY NextSession
<1>2. TypeOK /\ SessionInv /\ [Next]_vars => [\A n \in Shared : seen'[n] >= seen[n]]_vars
  BY NextSession
<1> QED
  BY <1>1, <1>2, InitSession, TypeCorrect, PTL DEF Spec, SessionReadsForward

-----------------------------------------------------------------------------
(* The refinement: every step of the context is a step of the write-once    *)
(* record, or changes nothing of it.                                        *)

LEMMA InitRefines == Init => DS!Init
BY ContextAssumption, KeysApart DEF Init, DS!Init, Memo

LEMMA NextRefines ==
  ASSUME NoKeyCollision, TypeOK, CheckpointInv, [Next]_vars
  PROVE  [DS!Next]_(DS!vars)
<1> USE KeysApart DEF TypeOK
<1>1. ASSUME NEW s \in Steps, StepRestored(s) PROVE [DS!Next]_(DS!vars)
  <2> DEFINE v == Lookup(StepKey[s])
  <2>1. got[s] \in Vals => got[s] = v
    BY <1>1 DEF StepRestored, Lookup, CheckpointInv, ReturnedIsDurable, CacheAgrees
  <2>2. v \in Vals /\ got' = [got EXCEPT ![s] = v] /\ finished' = finished
    BY <1>1 DEF StepRestored
  <2> HIDE DEF v
  <2>3. CASE got[s] \in Vals
    BY <2>1, <2>2, <2>3 DEF Memo, DS!vars
  <2>4. CASE got[s] \notin Vals
    <3>1. Memo[s] = Absent /\ Memo' = [Memo EXCEPT ![s] = v]
      BY <2>2, <2>4 DEF Memo
    <3> QED BY <2>2, <3>1 DEF DS!Next, DS!Record
  <2> QED BY <2>3, <2>4
<1>2. ASSUME NEW s \in AllSteps, ClearStep(s) PROVE [DS!Next]_(DS!vars)
  <2>1. CASE s \in Steps
    <3>1. Memo' = [Memo EXCEPT ![s] = Absent] /\ finished' = finished
      BY <1>2, <2>1 DEF ClearStep, Memo
    <3> QED BY <2>1, <3>1 DEF DS!Next, DS!Clear
  <2>2. CASE s \notin Steps
    BY <1>2, <2>2 DEF ClearStep, Memo, DS!vars
  <2> QED BY <2>1, <2>2
<1>3. ASSUME NEW s \in AllSteps, NEW v \in Vals \cup {Null}, SaveOk(s, v)
      PROVE [DS!Next]_(DS!vars)
  <2>1. s \in Steps => got[s] \notin Vals
    BY <1>3 DEF SaveOk, CheckpointInv, PendingIsNew
  <2>2. got' = [got EXCEPT ![s] = v] /\ finished' = finished
    BY <1>3 DEF SaveOk
  <2>3. CASE s \in Steps /\ v \in Vals
    <3>1. Memo[s] = Absent /\ Memo' = [Memo EXCEPT ![s] = v]
      BY <2>1, <2>2, <2>3 DEF Memo
    <3> QED BY <2>2, <2>3, <3>1 DEF DS!Next, DS!Record
  <2>4. CASE s \notin Steps \/ v \notin Vals
    BY <2>1, <2>2, <2>4 DEF Memo, DS!vars
  <2> QED BY <2>3, <2>4
<1>4. CASE FinishUpsert
  BY <1>4 DEF FinishUpsert, Memo, DS!vars, DS!Next, DS!Finish
<1>5. CASE FinishCleanup
  <2>1. finished /\ finished' = finished
    BY <1>5 DEF FinishCleanup, CheckpointInv, CleanupIsLast
  <2>2. Memo' = [s \in Steps |-> Absent]
    BY <1>5 DEF FinishCleanup, Memo
  <2> QED BY <2>1, <2>2 DEF DS!Next, DS!Discard
<1>6. ASSUME got' = got, finished' = finished PROVE [DS!Next]_(DS!vars)
  BY <1>6 DEF Memo, DS!vars
<1> QED
  <2> HIDE KeysApart DEF TypeOK
  <2>1. CASE UNCHANGED vars
    BY <1>6, <2>1 DEF vars
  <2>2. CASE Next
    <3>1. ASSUME NEW s \in AllSteps, CallStep(s) PROVE [DS!Next]_(DS!vars)
      BY <1>2, <1>3, <1>6, <3>1 DEF CallStep, ClosureErr, ClosureOk, SaveErr
    <3>2. ASSUME NEW n \in Names, CallState(n) PROVE [DS!Next]_(DS!vars)
      BY <1>6, <3>2 DEF CallState, GetState, SetState
    <3>3. (\E s \in Steps : StepRuns(s)) \/ (\E s \in ToolSteps : ToolStepRuns(s)) \/ RunEnds
            => got' = got /\ finished' = finished
      BY DEF StepRuns, ToolStepRuns, RunEnds
    <3>4. SessionCall => got' = got /\ finished' = finished
      BY DEF SessionCall, GetSessionState, SetSessionState, OtherCaseWrites
    <3> QED BY <1>1, <1>4, <1>5, <1>6, <2>2, <3>1, <3>2, <3>3, <3>4 DEF Next, CaseCall
  <2> QED BY <2>1, <2>2

(* Without a key collision, checkpointing implements the write-once record: *)
(* ImplementsDurableSteps for all values of the constants.                  *)
THEOREM ContextRefinesDurableSteps ==
  ASSUME NoKeyCollision
  PROVE  Spec => ImplementsDurableSteps
<1>1. Spec => []CheckpointInv
  <2>1. TypeOK /\ CheckpointInv /\ [Next]_vars => CheckpointInv'
    BY NextCheckpoint
  <2> QED BY InitCheckpoint, TypeCorrect, <2>1, PTL DEF Spec
<1>2. TypeOK /\ CheckpointInv /\ [Next]_vars => [DS!Next]_(DS!vars)
  BY NextRefines
<1> QED
  BY <1>1, <1>2, TypeCorrect, InitRefines, PTL DEF Spec, ImplementsDurableSteps, DS!Spec
=============================================================================
