---------------------------- MODULE Stages_proofs ----------------------------
(***************************************************************************)
(* The type invariant of Stages, and that a workflow finishes only on       *)
(* results made from each other, for any number of stages, results and runs *)
(* cut short.                                                               *)
(***************************************************************************)
EXTENDS Stages, TLAPS

USE StagesAssumption

LEMMA NoneIsResult == None \in Results /\ None.version = 0 /\ None.on = 0 /\ None.back = 0
BY DEF None, Results

LEMMA InitType == Init => TypeOK
BY NoneIsResult DEF Init, TypeOK, Stage

LEMMA NextType == TypeOK /\ [Next]_vars => TypeOK'
<1> SUFFICES ASSUME TypeOK, [Next]_vars PROVE TypeOK'
  OBVIOUS
<1> USE DEF TypeOK
<1>1. CASE RunStart
  BY <1>1 DEF RunStart, Stage
<1>2. CASE StageRuns
  <2>1. PICK b \in 0..at :
          store' = [store EXCEPT ![at] = [version |-> made + 1, on |-> Previous, back |-> b]]
    BY <1>2 DEF StageRuns
  <2>2. Previous \in 0..MaxMade
    BY DEF Previous, Results, Stage
  <2>3. made + 1 \in 0..MaxMade /\ b \in 0..N
    BY <1>2 DEF StageRuns, Stage
  <2>4. store' \in [Stage -> Results]
    BY <2>1, <2>2, <2>3 DEF Results
  <2> QED BY <1>2, <2>3, <2>4 DEF StageRuns
<1>3. CASE Advance
  BY <1>3 DEF Advance, Stage
<1>4. CASE Back
  <2>1. store[at].back \in 1..N
    BY <1>4 DEF Back, Results
  <2>2. store[at].back \in Stage /\ ToClear(store[at].back) \subseteq Stage
    BY <2>1 DEF Stage, ToClear
  <2> QED BY <1>4, <2>2 DEF Back
<1>5. CASE ClearStage
  BY <1>5, NoneIsResult DEF ClearStage
<1>6. CASE FinishCleanup
  BY <1>6, NoneIsResult DEF FinishCleanup
<1>7. CASE StageWaits \/ StageRestored \/ Finish \/ ClearEnds \/ FinishUpsert \/ Return
  BY <1>7 DEF StageWaits, StageRestored, Finish, ClearEnds, FinishUpsert, Return
<1>8. CASE RunFails
  BY <1>8 DEF RunFails
<1>9. CASE UNCHANGED vars
  BY <1>9 DEF vars, run
<1> QED BY <1>1, <1>2, <1>3, <1>4, <1>5, <1>6, <1>7, <1>8, <1>9 DEF Next, Step

(* Checkpoints, position and counters keep their types; no result is made   *)
(* beyond the bound and no stage is cleared that does not exist.            *)
THEOREM TypeCorrect == Spec => []TypeOK
BY InitType, NextType, PTL DEF Spec

-----------------------------------------------------------------------------
LEMMA InitStages == Init => StagesInv
BY NoneIsResult DEF Init, StagesInv, ResultsInv, WalkInv, FirstToLastInv, LastToFirstInv,
   Present, Outdated, Stage

\* A step that leaves the checkpoints alone leaves outdated what was.
LEMMA SameResults ==
  ASSUME UNCHANGED <<order, store, made>>
  PROVE  /\ ResultsInv => ResultsInv'
         /\ \A s \in Stage : Present(s)' = Present(s) /\ Outdated(s)' = Outdated(s)
         /\ FirstToLast' = FirstToLast /\ LastToFirst' = LastToFirst
BY DEF ResultsInv, Present, Outdated, FirstToLast, LastToFirst

\* Outside of a clear, the invariants of both orders are about the checkpoints only.
LEMMA NotClearing ==
  ASSUME StagesInv, UNCHANGED <<order, store, made>>, pc' # "clear", WalkInv'
  PROVE  StagesInv'
<1>1. FirstToLast /\ FirstToLastInv => FirstToLastInv'
  BY SameResults DEF FirstToLastInv
<1>2. LastToFirst /\ LastToFirstInv => LastToFirstInv'
  BY SameResults DEF LastToFirstInv
<1> QED BY <1>1, <1>2, SameResults DEF StagesInv

LEMMA MovesStages ==
  ASSUME TypeOK, StagesInv,
         RunStart \/ StageWaits \/ StageRestored \/ Advance \/ Finish \/ ClearEnds
           \/ FinishUpsert \/ Return \/ RunFails
  PROVE  StagesInv'
<1> USE DEF TypeOK, WalkInv, Present
<1>1. UNCHANGED <<order, store, made>> /\ pc' # "clear"
  BY DEF RunStart, StageWaits, StageRestored, Advance, Finish, ClearEnds, FinishUpsert,
         Return, RunFails
<1>2. WalkInv
  BY DEF StagesInv
<1>3. CASE Advance
  <2>1. \A s \in Stage : s < at' => s < at \/ s = at
    BY <1>3 DEF Advance, Stage
  <2> QED BY <1>1, <1>2, <1>3, <2>1, NotClearing DEF Advance
<1>4. CASE Finish
  <2>1. \A s \in Stage : s < at \/ s = at
    BY <1>4 DEF Finish, Stage
  <2> QED BY <1>1, <1>2, <1>4, <2>1, NotClearing DEF Finish
<1>5. CASE RunStart
  BY <1>1, <1>5, NotClearing DEF RunStart, Stage
<1>6. CASE StageWaits \/ Return \/ RunFails
  BY <1>1, <1>6, NotClearing DEF StageWaits, Return, RunFails
<1>7. CASE StageRestored \/ ClearEnds \/ FinishUpsert
  BY <1>1, <1>2, <1>7, NotClearing DEF StageRestored, ClearEnds, FinishUpsert
<1> QED BY <1>3, <1>4, <1>5, <1>6, <1>7

\* The new result is newer than all others: what was made from an older one of the stage
\* was outdated before, by its absence.
LEMMA StageRunsStages ==
  ASSUME TypeOK, StagesInv, StageRuns
  PROVE  StagesInv'
<1> USE DEF TypeOK, Stage
<1>1. PICK b \in 0..at :
        store' = [store EXCEPT ![at] = [version |-> made + 1, on |-> Previous, back |-> b]]
  BY DEF StageRuns
<1> DEFINE new == [version |-> made + 1, on |-> Previous, back |-> b]
<1>2. /\ pc = "stage" /\ pc' = "outcome" /\ at' = at /\ made' = made + 1
      /\ order' = order /\ store[at] = None
  BY DEF StageRuns
<1>3. \A s \in Stage : store'[s] = IF s = at THEN new ELSE store[s]
  BY <1>1
<1>4. \A s \in Stage : store[s] \in Results
  OBVIOUS
<1>5. ResultsInv /\ WalkInv
  BY DEF StagesInv
<1>6. Previous \in 0..made /\ (at > 1 => Previous > 0 /\ Previous = store[at - 1].version)
  BY <1>2, <1>4, <1>5 DEF Previous, ResultsInv, WalkInv, Results
<1>7. \A s \in Stage : Present(s)' <=> s = at \/ Present(s)
  BY <1>2, <1>3, NoneIsResult DEF Present
<1>8. \A s \in Stage : Outdated(s)' <=> s # at /\ Outdated(s)
  <2>1. ASSUME NEW s \in Stage, s = at PROVE ~Outdated(s)'
    BY <1>3, <1>6, <2>1 DEF Outdated
  <2>2. ASSUME NEW s \in Stage, s = at + 1, Present(s) PROVE Outdated(s) /\ Outdated(s)'
    <3>1. store[s].on > 0 /\ store[s].on <= made
      BY <1>4, <1>5, <2>2 DEF ResultsInv
    <3>2. store[s - 1].version = 0 /\ store'[s - 1].version = made + 1 /\ store'[s] = store[s]
      BY <1>2, <1>3, <2>2, NoneIsResult
    <3> QED BY <1>7, <2>2, <3>1, <3>2 DEF Outdated
  <2>3. ASSUME NEW s \in Stage, s # at, s # at + 1 PROVE Outdated(s)' <=> Outdated(s)
    BY <1>3, <1>7, <2>3 DEF Outdated
  <2>4. \A s \in Stage : s # at => (~Present(s) => ~Outdated(s) /\ ~Outdated(s)')
    BY <1>7 DEF Outdated
  <2> QED BY <2>1, <2>2, <2>3, <2>4
<1>9. ResultsInv'
  <2> SUFFICES ASSUME NEW s \in Stage
               PROVE  /\ store'[s].version <= made' /\ store'[s].on <= made'
                      /\ Present(s)' => store'[s].version > 0 /\ (s > 1 => store'[s].on > 0)
                      /\ (s < N /\ store'[s].back # 0 /\ Present(s + 1)') => Outdated(s + 1)'
                      /\ store'[s].back <= s
    BY DEF ResultsInv
  <2>1. CASE s = at
    <3>1. store'[s] = new
      BY <1>3, <2>1
    <3>2. s < N /\ Present(s + 1)' => Outdated(s + 1)'
      <4>1. ASSUME s < N, Present(s + 1) PROVE Outdated(s + 1)
        <5>1. store[s].version = 0 /\ store[s + 1].on > 0
          BY <1>2, <1>5, <2>1, <4>1, NoneIsResult DEF ResultsInv
        <5> QED BY <1>4, <4>1, <5>1 DEF Outdated, Results
      <4> QED BY <1>7, <1>8, <2>1, <4>1
    <3> QED BY <1>2, <1>6, <2>1, <3>1, <3>2
  <2>2. CASE s # at
    <3>1. store'[s] = store[s]
      BY <1>3, <2>2
    <3>2. ASSUME s < N, store[s].back # 0, Present(s + 1)' PROVE Outdated(s + 1)'
      <4>1. s + 1 # at
        BY <1>2, <1>5, <3>2 DEF WalkInv
      <4> QED BY <1>5, <1>7, <1>8, <3>2, <4>1 DEF ResultsInv
    <3>3. /\ store[s].version <= made /\ store[s].on <= made /\ store[s].back <= s
          /\ Present(s) => store[s].version > 0 /\ (s > 1 => store[s].on > 0)
      BY <1>5 DEF ResultsInv
    <3>4. store'[s].version <= made' /\ store'[s].on <= made'
      <4>1. store[s].version \in Nat /\ store[s].on \in Nat
        BY <1>4 DEF Results
      <4> QED BY <1>2, <3>1, <3>3, <4>1
    <3>5. Present(s)' => Present(s)
      BY <1>7, <2>2
    <3> QED BY <3>1, <3>2, <3>3, <3>4, <3>5
  <2> QED BY <2>1, <2>2
<1>10. WalkInv'
  BY <1>2, <1>3, <1>5, <1>7 DEF WalkInv
<1>11. FirstToLast' = FirstToLast /\ LastToFirst' = LastToFirst
  BY <1>2 DEF FirstToLast, LastToFirst
<1>12. FirstToLastInv => FirstToLastInv'
  <2>1. ASSUME FirstToLastInv, NEW s \in Stage, Outdated(s)'
        PROVE  \E c \in Stage : c >= s /\ Present(c)' /\ store'[c].back \in 1..(s - 1)
    <3>1. PICK c \in Stage : c >= s /\ Present(c) /\ store[c].back \in 1..(s - 1)
      BY <1>8, <2>1 DEF FirstToLastInv
    <3>2. c # at
      BY <1>2, <3>1 DEF Present
    <3> QED BY <1>3, <1>7, <3>1, <3>2
  <2> QED BY <1>2, <2>1 DEF FirstToLastInv
<1>13. LastToFirstInv => LastToFirstInv'
  <2>1. ASSUME LastToFirstInv, NEW s \in Stage, NEW t \in Stage, s < t,
               ~Present(s)' \/ store'[s].back # 0
        PROVE  ~Present(t)'
    <3>1. s # at => ~Present(s) \/ store[s].back # 0
      BY <1>3, <1>7, <2>1
    <3>2. t # at
      BY <1>2, <1>5, <2>1, <3>1 DEF WalkInv
    <3>3. ~Present(t)
      BY <1>2, <2>1, <3>1 DEF LastToFirstInv, Present
    <3> QED BY <1>7, <3>2, <3>3
  <2> QED BY <1>2, <1>8, <2>1 DEF LastToFirstInv
<1> QED BY <1>9, <1>10, <1>11, <1>12, <1>13 DEF StagesInv

LEMMA BackStages ==
  ASSUME TypeOK, StagesInv, Back
  PROVE  StagesInv'
<1> USE DEF TypeOK, Stage
<1>1. /\ pc = "outcome" /\ pc' = "clear" /\ UNCHANGED <<order, store, made>>
      /\ store[at].back # 0 /\ at' = store[at].back /\ todo' = at'..at
  BY DEF Back, ToClear
<1>2. at' \in 1..at
  BY <1>1 DEF StagesInv, ResultsInv, Results
<1>3. \A s \in Stage : s < at => Present(s) /\ store[s].back = 0
  BY <1>1 DEF StagesInv, WalkInv
<1>4. Present(at)
  BY <1>1 DEF StagesInv, WalkInv
<1>5. WalkInv'
  BY <1>1, <1>2, <1>3 DEF WalkInv, Present
<1>6. ASSUME FirstToLastInv PROVE FirstToLastInv'
  <2>1. \A s \in Stage : Outdated(s)' = Outdated(s) /\ Present(s)' = Present(s)
    BY <1>1, SameResults
  <2>2. PICK e \in Stage : e = at
    OBVIOUS
  <2>3. ASSUME NEW s \in Stage, Outdated(s)'
        PROVE  \E b \in Stage : b >= s /\ Present(b)' /\ store'[b].back \in 1..(s - 1)
    <3>1. PICK b \in Stage : b >= s /\ Present(b) /\ store[b].back \in 1..(s - 1)
      BY <1>6, <2>1, <2>3 DEF FirstToLastInv
    <3> QED BY <1>1, <2>1, <3>1
  <2>4. \E b \in todo' : /\ Present(b)' /\ store'[b].back = at' /\ todo' \subseteq at'..b
                         /\ \A s \in Stage : s < b => store'[s].back = 0
                         /\ \A s \in at'..b : s \notin todo' => ~Present(s)'
    <3>1. e \in todo' /\ Present(e)' /\ store'[e].back = at' /\ todo' = at'..e
      BY <1>1, <1>2, <1>4, <2>1, <2>2
    <3> QED BY <1>1, <1>3, <2>2, <3>1
  <2> QED
    <3> HIDE DEF TypeOK, Stage
    <3> QED BY <2>3, <2>4 DEF FirstToLastInv
<1>7. LastToFirstInv => LastToFirstInv'
  <2>1. ASSUME LastToFirstInv, NEW s \in at'..N, Present(s) PROVE s \in at'..at
    BY <1>1, <1>2, <2>1 DEF LastToFirstInv
  <2> QED BY <1>1, <2>1, SameResults DEF LastToFirstInv, Present
<1> QED BY <1>1, <1>5, <1>6, <1>7, SameResults DEF StagesInv

LEMMA ClearStageStages ==
  ASSUME TypeOK, StagesInv, ClearStage
  PROVE  StagesInv'
<1> USE DEF TypeOK, Stage
<1>1. PICK k \in todo : /\ \A t \in todo : order[k] <= order[t]
                       /\ store' = [store EXCEPT ![k] = None]
                       /\ todo' = todo \ {k}
  BY DEF ClearStage
<1>2. pc = "clear" /\ UNCHANGED <<order, pc, at, status, made>>
  BY DEF ClearStage
<1>3. k \in Stage /\ k \in at..N /\ ResultsInv /\ WalkInv
  BY <1>2 DEF StagesInv, WalkInv
<1>4. \A s \in Stage : store'[s] = IF s = k THEN None ELSE store[s]
  BY <1>1
<1>5. \A s \in Stage : Present(s)' <=> s # k /\ Present(s)
  BY <1>4 DEF Present
<1>6. \A s \in Stage : s # k + 1 => (Outdated(s)' <=> s # k /\ Outdated(s))
  BY <1>4, <1>5 DEF Outdated
<1>7. ResultsInv'
  <2> SUFFICES ASSUME NEW s \in Stage
               PROVE  /\ store'[s].version <= made /\ store'[s].on <= made
                      /\ Present(s)' => store'[s].version > 0 /\ (s > 1 => store'[s].on > 0)
                      /\ (s < N /\ store'[s].back # 0 /\ Present(s + 1)') => Outdated(s + 1)'
                      /\ store'[s].back <= s
    BY <1>2 DEF ResultsInv
  <2>1. CASE s = k
    <3>1. store'[s] = None
      BY <1>4, <2>1
    <3> QED BY <1>5, <2>1, <3>1, NoneIsResult
  <2>2. CASE s # k
    <3>1. store'[s] = store[s] /\ (Present(s)' <=> Present(s))
      BY <1>4, <1>5, <2>2
    <3>2. ASSUME s < N, store[s].back # 0, Present(s + 1)' PROVE Outdated(s + 1)'
      BY <1>3, <1>5, <1>6, <2>2, <3>2 DEF ResultsInv
    <3> QED BY <1>3, <3>1, <3>2 DEF ResultsInv
  <2> QED BY <2>1, <2>2
<1>8. WalkInv'
  BY <1>1, <1>2, <1>3, <1>4, <1>5 DEF WalkInv
<1>9. ASSUME FirstToLast, FirstToLastInv PROVE FirstToLastInv'
  <2>1. \A t \in todo : k <= t
    BY <1>1, <1>3, <1>9 DEF FirstToLast, Orders
  <2>2. PICK b \in todo : /\ Present(b) /\ store[b].back = at
                          /\ todo \subseteq at..b
                          /\ \A s \in Stage : s < b => store[s].back = 0
                          /\ \A s \in at..b : s \notin todo => ~Present(s)
    BY <1>1, <1>2, <1>9 DEF FirstToLastInv
  <2>3. b \in Stage /\ k <= b
    BY <2>1
  <2>4. ASSUME NEW s \in Stage, Outdated(s)'
        PROVE  \E c \in Stage : c >= s /\ Present(c)' /\ store'[c].back \in 1..(s - 1)
    <3>1. CASE s = k + 1 /\ k < b
      <4>1. b >= s /\ Present(b)' /\ store'[b].back \in 1..(s - 1)
        BY <1>3, <1>4, <1>5, <2>2, <2>3, <3>1
      <4> QED BY <2>3, <4>1
    <3>2. CASE s = k + 1 /\ k = b
      <4>1. Outdated(s)
        BY <1>3, <1>5, <2>2, <2>4, <3>2 DEF ResultsInv, Outdated
      <4>2. PICK c \in Stage : c >= s /\ Present(c) /\ store[c].back \in 1..(s - 1)
        BY <1>9, <4>1 DEF FirstToLastInv
      <4> QED BY <1>4, <1>5, <3>2, <4>2
    <3>3. CASE s # k + 1
      <4>1. s # k /\ Outdated(s) /\ Present(s)
        BY <1>6, <2>4, <3>3 DEF Outdated
      <4>2. PICK c \in Stage : c >= s /\ Present(c) /\ store[c].back \in 1..(s - 1)
        BY <1>9, <4>1 DEF FirstToLastInv
      <4>3. c # k
        <5>1. SUFFICES ASSUME c = k PROVE FALSE
          OBVIOUS
        <5>2. k = b
          BY <1>3, <2>2, <2>3, <4>2, <5>1
        <5>3. s \in at..b /\ s < k
          BY <2>2, <4>1, <4>2, <5>1, <5>2
        <5> QED BY <2>1, <2>2, <4>1, <5>3
      <4> QED BY <1>4, <1>5, <4>2, <4>3
    <3> QED BY <1>3, <2>3, <3>1, <3>2, <3>3
  <2>5. ASSUME todo' # {} PROVE b # k
    <3>1. \A t \in todo : t \in at..b /\ k <= t
      BY <2>1, <2>2
    <3>2. k = b => \A t \in todo : t = k
      BY <1>3, <3>1
    <3> QED BY <1>1, <2>5, <3>2
  <2>6. ASSUME todo' # {}
        PROVE  /\ b \in todo' /\ Present(b)' /\ store'[b].back = at
               /\ todo' \subseteq at..b
               /\ \A s \in Stage : s < b => store'[s].back = 0
               /\ \A s \in at..b : s \notin todo' => ~Present(s)'
    BY <1>1, <1>4, <1>5, <2>2, <2>3, <2>5, <2>6, NoneIsResult
  <2> QED BY <1>2, <2>4, <2>6 DEF FirstToLastInv
<1>10. ASSUME LastToFirst, LastToFirstInv PROVE LastToFirstInv'
  <2>1. \A t \in todo : t <= k
    BY <1>1, <1>3, <1>10 DEF LastToFirst, Orders
  <2>2. \A t \in Stage : t > k => ~Present(t)
    BY <1>2, <1>3, <1>10, <2>1 DEF LastToFirstInv
  <2>3. \A s \in Stage : ~Outdated(s)'
    <3>1. ASSUME NEW s \in Stage, s = k + 1 PROVE ~Outdated(s)'
      BY <1>3, <1>5, <2>2, <3>1 DEF Outdated
    <3>2. ASSUME NEW s \in Stage, s # k + 1 PROVE ~Outdated(s)'
      BY <1>6, <1>10, <3>2 DEF LastToFirstInv
    <3> QED BY <3>1, <3>2
  <2>4. ASSUME NEW s \in Stage, NEW t \in Stage, s < t, ~Present(s)' \/ store'[s].back # 0
        PROVE  ~Present(t)'
    BY <1>4, <1>5, <1>10, <2>2, <2>4 DEF LastToFirstInv
  <2>5. \A s \in at..N : Present(s)' => s \in todo'
    BY <1>1, <1>2, <1>3, <1>5, <1>10 DEF LastToFirstInv
  <2> QED BY <1>2, <2>3, <2>4, <2>5 DEF LastToFirstInv
<1>11. FirstToLast' = FirstToLast /\ LastToFirst' = LastToFirst
  BY <1>2 DEF FirstToLast, LastToFirst
<1> QED BY <1>7, <1>8, <1>9, <1>10, <1>11 DEF StagesInv

LEMMA FinishCleanupStages ==
  ASSUME TypeOK, StagesInv, FinishCleanup
  PROVE  StagesInv'
<1>1. /\ UNCHANGED <<order, made>> /\ pc' = "return"
      /\ store' = store \/ store' = [s \in Stage |-> None]
  BY DEF FinishCleanup
<1>2. WalkInv'
  BY <1>1 DEF WalkInv
<1>3. CASE store' = store
  BY <1>1, <1>2, <1>3, NotClearing
<1>4. CASE store' = [s \in Stage |-> None]
  <2>1. \A s \in Stage : ~Present(s)' /\ ~Outdated(s)' /\ store'[s] = None
    BY <1>4 DEF Present, Outdated
  <2>2. ResultsInv'
    BY <1>1, <2>1, NoneIsResult DEF TypeOK, ResultsInv, Stage
  <2>3. FirstToLastInv' /\ LastToFirstInv'
    BY <1>1, <2>1 DEF FirstToLastInv, LastToFirstInv
  <2> QED BY <1>2, <2>2, <2>3 DEF StagesInv
<1> QED BY <1>1, <1>3, <1>4

LEMMA NextStages == TypeOK /\ StagesInv /\ [Next]_vars => StagesInv'
<1> SUFFICES ASSUME TypeOK, StagesInv, [Next]_vars PROVE StagesInv'
  OBVIOUS
<1>1. CASE UNCHANGED vars
  BY <1>1 DEF vars, run, StagesInv, ResultsInv, WalkInv, FirstToLastInv, LastToFirstInv,
     Present, Outdated, FirstToLast, LastToFirst
<1> QED BY <1>1, MovesStages, StageRunsStages, BackStages, ClearStageStages,
           FinishCleanupStages DEF Next, Step

(* For any number of stages, and wherever runs are cut short, a workflow     *)
(* whose clears go first to last or last to first finishes only on results   *)
(* made from each other.                                                     *)
THEOREM FinishesConsistentAlways == Spec => []FinishesConsistent
<1>1. TypeOK /\ StagesInv => FinishesConsistent
  <2> SUFFICES ASSUME TypeOK, StagesInv, pc \in {"finish", "cleanup"}, InOrder,
                      NEW s \in 2..N
               PROVE  store[s].on = store[s - 1].version
    BY DEF FinishesConsistent, Consistent
  <2>1. s \in Stage /\ Present(s) /\ \A b \in Stage : store[b].back = 0
    BY DEF StagesInv, WalkInv, Stage
  <2>2. ~Outdated(s)
    BY <2>1 DEF StagesInv, InOrder, FirstToLastInv, LastToFirstInv
  <2> QED BY <2>1, <2>2 DEF Outdated
<1> QED BY <1>1, InitStages, NextStages, TypeCorrect, PTL DEF Spec
=============================================================================
