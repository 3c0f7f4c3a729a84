------------------------------- MODULE Stages -------------------------------
(***************************************************************************)
(* run_stages over the checkpoints of a case: stages 1 to N, each with one  *)
(* checkpointed step whose result sends the workflow on or back to an       *)
(* earlier stage.  Going back clears the checkpoints of the stages named,   *)
(* one await after the other.  Every tick runs the workflow from stage 1;   *)
(* a run can be cut short at any await.  A step is a write-once record as   *)
(* in DurableSteps; a stage finds the results of earlier stages there.      *)
(***************************************************************************)
EXTENDS Naturals

CONSTANTS N,          \* number of stages
          MaxMade,    \* bound: results the stages make
          MaxFaults   \* bound: runs cut short

ASSUME StagesAssumption == N \in Nat \ {0} /\ MaxMade \in Nat /\ MaxFaults \in Nat

Stage == 1..N

\* The place of each stage in the author's lists of stages to be cleared.
Orders == {f \in [Stage -> Stage] : \A s, t \in Stage : s # t => f[s] # f[t]}

VARIABLES
  order,     \* fixed
  store,     \* the checkpoint of each stage's step
  pc,        \* where the run stands: what it does next
  at,        \* current
  todo,      \* the stages still to be cleared
  status,    \* the case in the dict: "Active" or "Finished"
  made,      \* the number of results made; a result's version is its number
  faults

run  == <<pc, at, todo>>
vars == <<order, store, run, status, made, faults>>

\* on: the version of the previous stage's result; back: the stage to go back to, or 0.
None == [version |-> 0, on |-> 0, back |-> 0]

Init ==
  /\ order \in Orders
  /\ store = [s \in Stage |-> None]
  /\ pc = "idle" /\ at = 1 /\ todo = {}
  /\ status = "Active" /\ made = 0 /\ faults = 0

-----------------------------------------------------------------------------
RunStart ==
  /\ pc = "idle" /\ status = "Active"
  /\ pc' = "stage" /\ at' = 1
  /\ UNCHANGED <<order, store, todo, status, made, faults>>

\* The stage waits for an event before its step.
StageWaits ==
  /\ pc = "stage" /\ store[at] = None
  /\ pc' = "idle"
  /\ UNCHANGED <<order, store, at, todo, status, made, faults>>

StageRestored ==
  /\ pc = "stage" /\ store[at] # None
  /\ pc' = "outcome"
  /\ UNCHANGED <<order, store, at, todo, status, made, faults>>

Previous == IF at = 1 THEN 0 ELSE store[at - 1].version

StageRuns ==
  /\ pc = "stage" /\ store[at] = None /\ made < MaxMade
  /\ made' = made + 1
  /\ \E b \in 0..at :
       store' = [store EXCEPT ![at] = [version |-> made + 1, on |-> Previous, back |-> b]]
  /\ pc' = "outcome"
  /\ UNCHANGED <<order, at, todo, status, faults>>

Advance ==
  /\ pc = "outcome" /\ store[at].back = 0 /\ at < N
  /\ at' = at + 1 /\ pc' = "stage"
  /\ UNCHANGED <<order, store, todo, status, made, faults>>

Finish ==
  /\ pc = "outcome" /\ store[at].back = 0 /\ at = N
  /\ pc' = "finish"
  /\ UNCHANGED <<order, store, at, todo, status, made, faults>>

TargetAndCurrent(j) == {j, at}
AllButCurrent(j)    == j..(at - 1)

\* next_with_clear: the stages to be repeated, the current one among them.
ToClear(j) == j..at

Back ==
  /\ pc = "outcome" /\ store[at].back # 0
  /\ todo' = ToClear(store[at].back)
  /\ at' = store[at].back
  /\ pc' = "clear"
  /\ UNCHANGED <<order, store, status, made, faults>>

ClearStage ==
  /\ pc = "clear"
  /\ \E s \in todo : /\ \A t \in todo : order[s] <= order[t]
                    /\ store' = [store EXCEPT ![s] = None]
                    /\ todo' = todo \ {s}
  /\ UNCHANGED <<order, pc, at, status, made, faults>>

ClearEnds ==
  /\ pc = "clear" /\ todo = {}
  /\ pc' = "stage"
  /\ UNCHANGED <<order, store, at, todo, status, made, faults>>

\* finish() stores the case, then deletes the checkpoints or fails to.
FinishUpsert ==
  /\ pc = "finish"
  /\ pc' = "cleanup"
  /\ UNCHANGED <<order, store, at, todo, status, made, faults>>

FinishCleanup ==
  /\ pc = "cleanup"
  /\ store' \in {store, [s \in Stage |-> None]}
  /\ pc' = "return"
  /\ UNCHANGED <<order, at, todo, status, made, faults>>

Return ==
  /\ pc = "return"
  /\ pc' = "idle" /\ status' = "Finished"
  /\ UNCHANGED <<order, store, at, todo, made, faults>>

-----------------------------------------------------------------------------
\* External: a store call that fails, a panic, a dropped tick or a crash.
RunFails ==
  /\ pc # "idle" /\ faults < MaxFaults
  /\ faults' = faults + 1
  /\ pc' = "idle" /\ todo' = {}
  /\ UNCHANGED <<order, store, at, status, made>>

Step ==
  \/ StageWaits \/ StageRestored \/ StageRuns \/ Advance \/ Finish \/ Back
  \/ ClearStage \/ ClearEnds \/ FinishUpsert \/ FinishCleanup \/ Return

Next == RunStart \/ Step \/ RunFails

\* A run that was started goes on.
Spec == Init /\ [][Next]_vars /\ WF_vars(Step)

-----------------------------------------------------------------------------
Results == [version : 0..MaxMade, on : 0..MaxMade, back : 0..N]

TypeOK ==
  /\ order \in Orders
  /\ store \in [Stage -> Results]
  /\ pc \in {"idle", "stage", "outcome", "clear", "finish", "cleanup", "return"}
  /\ at \in Stage /\ todo \subseteq Stage
  /\ status \in {"Active", "Finished"} /\ made \in 0..MaxMade /\ faults \in 0..MaxFaults

\* Every stage's result was made from the result the previous stage has now.
Consistent == \A s \in 2..N : store[s].on = store[s - 1].version

FirstToLast == \A s, t \in Stage : s < t => order[s] < order[t]
LastToFirst == \A s, t \in Stage : s < t => order[t] < order[s]
InOrder     == FirstToLast \/ LastToFirst

(* A workflow whose back-transitions clear the stages first to last, or last *)
(* to first, finishes only on results that were made from each other, though *)
(* a clear was cut short half way.                                           *)
FinishesConsistent == pc \in {"finish", "cleanup"} /\ InOrder => Consistent

\* Strengthens FinishesConsistent to an inductive invariant.  A stage is outdated if its
\* result was not made from the one the stage before it has now.
Present(s)  == store[s] # None
Outdated(s) == s > 1 /\ Present(s) /\ store[s].on # store[s - 1].version

\* Results are made from earlier ones, and a stage that goes back has nothing newer behind it.
ResultsInv ==
  \A s \in Stage :
    /\ store[s].version <= made /\ store[s].on <= made
    /\ Present(s) => store[s].version > 0 /\ (s > 1 => store[s].on > 0)
    /\ (s < N /\ store[s].back # 0 /\ Present(s + 1)) => Outdated(s + 1)
    /\ store[s].back <= s

\* A run has come through the stages before the one it is at.
WalkInv ==
  /\ pc \in {"stage", "outcome", "clear"} =>
       \A s \in Stage : s < at => Present(s) /\ store[s].back = 0
  /\ pc = "outcome" => Present(at)
  /\ pc = "clear" => todo \subseteq at..N
  /\ pc \in {"finish", "cleanup"} =>
       \A s \in Stage : Present(s) /\ store[s].back = 0

\* First to last: whatever is outdated lies before a stage that will go back behind it.
FirstToLastInv ==
  /\ \A s \in Stage : Outdated(s) =>
       \E b \in Stage : b >= s /\ Present(b) /\ store[b].back \in 1..(s - 1)
  /\ pc = "clear" /\ todo # {} => \E b \in todo :
       /\ Present(b) /\ store[b].back = at
       /\ todo \subseteq at..b
       /\ \A s \in Stage : s < b => store[s].back = 0
       /\ \A s \in at..b : s \notin todo => ~Present(s)

\* Last to first: nothing is ever outdated, nor there behind a stage that is not or goes back.
LastToFirstInv ==
  /\ \A s \in Stage : ~Outdated(s)
  /\ \A s, t \in Stage : s < t /\ (~Present(s) \/ store[s].back # 0) => ~Present(t)
  /\ pc = "clear" => \A s \in at..N : Present(s) => s \in todo

StagesInv ==
  /\ ResultsInv /\ WalkInv
  /\ FirstToLast => FirstToLastInv
  /\ LastToFirst => LastToFirstInv

(* A run whose stages make finitely many results returns: going back, it does *)
(* not go round for ever on what it made before.                              *)
RunReturns == pc # "idle" ~> pc = "idle"
=============================================================================
