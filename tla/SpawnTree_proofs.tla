-------------------------- MODULE SpawnTree_proofs --------------------------
(***************************************************************************)
(* The type invariant of SpawnTree, and that a parent finishes after its    *)
(* children, one of every config, each spawned once per run cut short, for  *)
(* any number of children, runs and faults.                                 *)
(***************************************************************************)
EXTENDS SpawnTree, TLAPS

USE SpawnAssumption

LEMMA KeyIsKey ==
  ASSUME TypeOK, NEW k \in Configs, NEW t \in 0..MaxTime
  PROVE  /\ Key(k, t) \in Keys
         /\ mode.fixed \/ ~mode.shared => Key(k, t)[1] = k
<1>1. 0 \in 0..MaxTime /\ 1 \in Configs
  BY DEF Configs
<1> QED BY <1>1 DEF Key, Keys, Configs

LEMMA InitType == Init => TypeOK
<1> SUFFICES ASSUME Init PROVE TypeOK
  OBVIOUS
<1>1. stored \in Parent /\ dict = stored /\ case = stored
  BY DEF Init, Parent
<1>2. saved \in Seq(Keys) /\ handles \in Seq(Keys) /\ Len(handles) <= Children
  BY DEF Init
<1> QED BY <1>1, <1>2 DEF Init, TypeOK

LEMMA InitTree == Init => TreeInv
BY DEF Init, TreeInv, ProgressInv, HandlesInv, KeyedInv, SpawnsInv, Answered, AllAnswered,
   Configs, Absent

\* A step of the run that spawns nothing leaves the counts of the spawns alone.
LEMMA ProgressType ==
  ASSUME TypeOK, ProgressInv, SpawnsInv, [Next]_vars
  PROVE  TypeOK'
<1> USE DEF TypeOK
<1>1. CASE RunStart
  <2>1. CASE Restore
    <3>1. saved # <<>>
      BY <2>1 DEF Restore
    <3>2. handles' = saved /\ Len(saved) = Children
      BY <1>1, <2>1, <3>1 DEF RunStart, ProgressInv
    <3> QED BY <1>1, <2>1, <3>2 DEF RunStart
  <2>2. CASE ~Restore
    <3>1. handles' = <<>> /\ spawns' \in 0..MaxSpawns
      BY <1>1, <2>2 DEF RunStart
    <3>2. handles' \in Seq(Keys) /\ Len(handles') <= Children
      BY <3>1
    <3> QED BY <1>1, <2>2, <3>1, <3>2 DEF RunStart
  <2> QED BY <2>1, <2>2
<1>2. CASE SpawnChild
  <2> DEFINE k == Len(handles) + 1
  <2>1. PICK t \in now..MaxTime :
          LET key == Key(k, t)
          IN  /\ now' = t
              /\ children' = [children EXCEPT ![key] = [state |-> "Running", config |-> k]]
              /\ created' = [created EXCEPT ![k] = @ + 1]
              /\ case' = [case EXCEPT !.child_keys = @ \cup {key}]
              /\ handles' = Append(handles, key)
    BY <1>2 DEF SpawnChild
  <2>2. k \in Configs /\ Len(handles) < Children
    BY <1>2 DEF SpawnChild, ProgressInv, Configs
  <2>3. t \in 0..MaxTime /\ t \in 1..MaxTime
    OBVIOUS
  <2>4. Key(k, t) \in Keys
    BY <2>2, <2>3, KeyIsKey
  <2>5. created[k] + 1 <= spawns
    BY <1>2, <2>2 DEF SpawnChild, SpawnsInv
  <2>6. created' \in [Configs -> 0..MaxSpawns]
    BY <2>1, <2>2, <2>5
  <2>7. children' \in [Keys -> Child \cup {Absent}]
    BY <2>1, <2>2, <2>4 DEF Child
  <2>8. case' \in Parent
    BY <2>1, <2>4 DEF Parent
  <2>9. handles' \in Seq(Keys) /\ Len(handles') <= Children
    BY <2>1, <2>2, <2>4
  <2> QED BY <1>2, <2>1, <2>3, <2>6, <2>7, <2>8, <2>9 DEF SpawnChild
<1>3. CASE StoreParent
  BY <1>3 DEF StoreParent, Spawned
<1>4. CASE SaveHandles
  BY <1>4 DEF SaveHandles
<1>5. CASE Await
  <2>1. c' \in 1..(Children + 1)
    BY <1>5 DEF Await
  <2>2. pending' \in 0..Children
    BY <1>5 DEF Await, ProgressInv
  <2> QED BY <1>5, <2>1, <2>2 DEF Await
<1>6. CASE Pending
  BY <1>6 DEF Pending, Parent
<1>7. CASE AllDone
  BY <1>7 DEF AllDone, Parent
<1>8. CASE FinishUpsert
  BY <1>8 DEF FinishUpsert
<1>9. CASE FinishCleanup
  <2>1. saved' = saved \/ saved' = <<>>
    BY <1>9 DEF FinishCleanup
  <2>2. <<>> \in Seq(Keys) /\ saved \in Seq(Keys)
    OBVIOUS
  <2>3. saved' \in Seq(Keys)
    BY <2>1, <2>2
  <2> QED BY <1>9, <2>3 DEF FinishCleanup
<1>10. CASE Return
  BY <1>10 DEF Return, Parent
<1>11. CASE RunFails \/ Restart
  BY <1>11 DEF RunFails, Restart
<1>12. ASSUME NEW k \in Keys, ChildFinishes(k) PROVE TypeOK'
  <2>1. children[k] \in Child
    BY <1>12 DEF ChildFinishes, Absent
  <2>2. children' \in [Keys -> Child \cup {Absent}]
    BY <1>12, <2>1 DEF ChildFinishes, Child
  <2> QED BY <1>12, <2>2 DEF ChildFinishes, run
<1>13. CASE UNCHANGED vars
  BY <1>13 DEF vars, run
<1> QED
  BY <1>1, <1>2, <1>3, <1>4, <1>5, <1>6, <1>7, <1>8, <1>9, <1>10, <1>11, <1>12, <1>13
  DEF Next, Step

LEMMA NextProgress == TypeOK /\ ProgressInv /\ [Next]_vars => ProgressInv'
<1> SUFFICES ASSUME TypeOK, ProgressInv, [Next]_vars PROVE ProgressInv'
  OBVIOUS
<1> USE DEF TypeOK, ProgressInv
<1>1. CASE RunStart
  BY <1>1 DEF RunStart, Restore
<1>2. CASE SpawnChild
  <2>1. PICK key : handles' = Append(handles, key)
    BY <1>2 DEF SpawnChild
  <2>2. Len(handles') = Len(handles) + 1
    BY <2>1
  <2> QED BY <1>2, <2>2 DEF SpawnChild
<1>3. CASE StoreParent
  BY <1>3 DEF StoreParent, Spawned
<1>4. CASE SaveHandles
  BY <1>4 DEF SaveHandles
<1>5. CASE Await
  BY <1>5 DEF Await
<1>6. CASE Pending
  BY <1>6 DEF Pending
<1>7. CASE AllDone
  BY <1>7 DEF AllDone
<1>8. CASE FinishUpsert
  BY <1>8 DEF FinishUpsert
<1>9. CASE FinishCleanup
  BY <1>9 DEF FinishCleanup
<1>10. CASE Return
  BY <1>10 DEF Return
<1>11. CASE RunFails \/ Restart
  BY <1>11 DEF RunFails, Restart
<1>12. ASSUME NEW k \in Keys, ChildFinishes(k) PROVE ProgressInv'
  BY <1>12 DEF ChildFinishes, run
<1>13. CASE UNCHANGED vars
  BY <1>13 DEF vars, run
<1> QED
  BY <1>1, <1>2, <1>3, <1>4, <1>5, <1>6, <1>7, <1>8, <1>9, <1>10, <1>11, <1>12, <1>13
  DEF Next, Step

\* Only RunStart counts a spawn and only SpawnChild makes one; a run that leaves saved
\* empty behind has finished the parent or is counted among the faults.
LEMMA NextSpawns == TypeOK /\ ProgressInv /\ SpawnsInv /\ [Next]_vars => SpawnsInv'
<1> SUFFICES ASSUME TypeOK, ProgressInv, SpawnsInv, [Next]_vars PROVE SpawnsInv'
  OBVIOUS
<1> USE DEF TypeOK, SpawnsInv
<1>1. CASE RunStart
  <2>1. CASE Restore
    BY <1>1, <2>1 DEF RunStart, Restore
  <2>2. CASE ~Restore
    <3>1. \A k \in Configs : created[k] \in Nat /\ created[k] <= spawns
      OBVIOUS
    <3>2. pc' = "child" /\ handles' = <<>> /\ spawns' = spawns + 1 /\ created' = created
          /\ faults' = faults /\ mode' = mode /\ pc = "idle" /\ dict.state # "Finished"
      BY <1>1, <2>2 DEF RunStart
    <3>3. mode.guarded => spawns' <= 1 + faults'
      BY <2>2, <3>2 DEF Restore
    <3>4. \A k \in Configs : created'[k] + 1 <= spawns' /\ created'[k] + 0 <= spawns'
      BY <3>1, <3>2
    <3> QED BY <3>2, <3>3, <3>4
  <2> QED BY <2>1, <2>2
<1>2. CASE SpawnChild
  <2> DEFINE k == Len(handles) + 1
  <2>1. PICK key : handles' = Append(handles, key) /\ created' = [created EXCEPT ![k] = @ + 1]
    BY <1>2 DEF SpawnChild
  <2>2. Len(handles') = k /\ k \in Configs
    BY <1>2, <2>1 DEF SpawnChild, ProgressInv, Configs
  <2>3. pc = "child" /\ pc' = "parent" /\ spawns' = spawns /\ faults' = faults
        /\ mode' = mode /\ saved' = saved
    BY <1>2 DEF SpawnChild
  <2>4. \A j \in Configs : created'[j] + (IF j > k THEN 1 ELSE 0) <= spawns'
    <3> SUFFICES ASSUME NEW j \in Configs PROVE created'[j] + (IF j > k THEN 1 ELSE 0) <= spawns'
      OBVIOUS
    <3>1. created[j] + (IF j > Len(handles) THEN 1 ELSE 0) <= spawns /\ created[j] \in Nat
      BY <2>3
    <3>2. created'[j] = IF j = k THEN created[j] + 1 ELSE created[j]
      BY <2>1, <2>2
    <3> QED BY <2>2, <2>3, <3>1, <3>2 DEF Configs
  <2> HIDE DEF k
  <2> QED BY <2>2, <2>3, <2>4
<1>3. CASE StoreParent
  <2>1. \A k \in Configs : created[k] \in Nat /\ created[k] <= spawns
    OBVIOUS
  <2> QED BY <1>3, <2>1 DEF StoreParent, Spawned
<1>4. CASE SaveHandles
  BY <1>4 DEF SaveHandles, ProgressInv
<1>5. CASE Await
  BY <1>5 DEF Await
<1>6. CASE Pending
  BY <1>6 DEF Pending
<1>7. CASE AllDone
  BY <1>7 DEF AllDone
<1>8. CASE FinishUpsert
  BY <1>8 DEF FinishUpsert
<1>9. CASE FinishCleanup
  BY <1>9 DEF FinishCleanup
<1>10. CASE Return
  BY <1>10 DEF Return, Parent
<1>11. CASE RunFails \/ Restart
  <2>1. \A k \in Configs : created[k] \in Nat /\ created[k] <= spawns
    OBVIOUS
  <2>2. pc' = "idle" /\ faults' = faults + 1
        /\ UNCHANGED <<mode, saved, handles, spawns, created>>
    BY <1>11 DEF RunFails, Restart
  <2> QED BY <2>1, <2>2
<1>12. ASSUME NEW k \in Keys, ChildFinishes(k) PROVE SpawnsInv'
  BY <1>12 DEF ChildFinishes, run
<1>13. CASE UNCHANGED vars
  BY <1>13 DEF vars, run
<1> QED
  BY <1>1, <1>2, <1>3, <1>4, <1>5, <1>6, <1>7, <1>8, <1>9, <1>10, <1>11, <1>12, <1>13
  DEF Next, Step

-----------------------------------------------------------------------------
\* A step that removes no child, and restarts none, leaves what the handles name.
LEMMA NextHandles ==
  TypeOK /\ ProgressInv /\ HandlesInv /\ [Next]_vars => HandlesInv'
<1> SUFFICES ASSUME TypeOK, ProgressInv, HandlesInv, [Next]_vars PROVE HandlesInv'
  OBVIOUS
<1> USE DEF TypeOK, HandlesInv, AllAnswered, Answered
<1>1. CASE RunStart
  <2>1. pc' \in {"await", "child"} /\ c' = 1 /\ children' = children /\ saved' = saved
    BY <1>1 DEF RunStart
  <2>2. \A h \in DOMAIN handles' : children[handles'[h]] # Absent
    BY <1>1 DEF RunStart
  <2> QED BY <2>1, <2>2
<1>2. CASE SpawnChild
  <2> DEFINE k == Len(handles) + 1
  <2>1. PICK t \in now..MaxTime :
          /\ children' = [children EXCEPT ![Key(k, t)] = [state |-> "Running", config |-> k]]
          /\ handles' = Append(handles, Key(k, t))
    BY <1>2 DEF SpawnChild
  <2>2. k \in Configs /\ t \in 0..MaxTime
    BY <1>2 DEF SpawnChild, ProgressInv, Configs
  <2>3. Key(k, t) \in Keys
    BY <2>2, KeyIsKey
  <2>4. \A key \in Keys : children[key] # Absent \/ key = Key(k, t) => children'[key] # Absent
    BY <2>1, <2>3 DEF Absent
  <2>5. \A h \in DOMAIN handles : handles[h] \in Keys
    OBVIOUS
  <2>6. \A h \in DOMAIN saved : saved[h] \in Keys
    OBVIOUS
  <2>7. \A h \in DOMAIN handles' : h = k \/ h \in DOMAIN handles
    BY <2>1
  <2>8. \A h \in DOMAIN handles' : handles'[h] = IF h = k THEN Key(k, t) ELSE handles[h]
    BY <2>1
  <2>9. pc' = "parent" /\ saved' = saved
    BY <1>2 DEF SpawnChild
  <2> HIDE DEF k
  <2>10. \A h \in DOMAIN handles' : children'[handles'[h]] # Absent
    BY <2>3, <2>4, <2>5, <2>7, <2>8
  <2>11. \A h \in DOMAIN saved' : children'[saved'[h]] # Absent
    BY <2>4, <2>6, <2>9
  <2> QED BY <2>9, <2>10, <2>11
<1>3. CASE StoreParent
  BY <1>3 DEF StoreParent, Spawned, ProgressInv
<1>4. CASE SaveHandles
  BY <1>4 DEF SaveHandles, ProgressInv
<1>5. CASE Await
  <2>1. /\ pc = "await" /\ pc' = pc /\ c \in DOMAIN handles /\ c' = c + 1
        /\ UNCHANGED <<children, saved, handles>>
        /\ pending' = IF InFlight(handles[c]) THEN pending + 1 ELSE pending
    BY <1>5 DEF Await
  <2>2. ASSUME pending' = 0 PROVE pending = 0 /\ children[handles[c]].state = "Finished"
    <3>1. pending = 0 /\ children[handles[c]].state # "Running"
      BY <2>1, <2>2 DEF InFlight
    <3>2. handles[c] \in Keys /\ children[handles[c]] # Absent
      BY <2>1
    <3> QED BY <3>1, <3>2 DEF Child
  <2>3. \A h \in 1..(c' - 1) : h \in 1..(c - 1) \/ h = c
    BY <2>1
  <2> QED BY <2>1, <2>2, <2>3
<1>6. CASE Pending
  BY <1>6 DEF Pending
<1>7. CASE AllDone
  <2>1. c - 1 = Children
    BY <1>7 DEF AllDone, ProgressInv
  <2> QED BY <1>7, <2>1 DEF AllDone
<1>8. CASE FinishUpsert
  BY <1>8 DEF FinishUpsert
<1>9. CASE FinishCleanup
  <2>1. saved' = saved \/ saved' = <<>>
    BY <1>9 DEF FinishCleanup
  <2> QED BY <1>9, <2>1 DEF FinishCleanup
<1>10. CASE Return
  BY <1>10 DEF Return
<1>11. CASE RunFails \/ Restart
  BY <1>11 DEF RunFails, Restart
<1>12. ASSUME NEW k \in Keys, ChildFinishes(k) PROVE HandlesInv'
  <2>1. \A key \in Keys :
          /\ children[key] # Absent => children'[key] # Absent
          /\ children[key].state = "Finished" => children'[key].state = "Finished"
    <3>1. children[k] \in Child
      BY <1>12 DEF ChildFinishes, Absent
    <3> QED BY <1>12, <3>1 DEF ChildFinishes, Child, Absent
  <2>2. \A h \in DOMAIN handles : handles[h] \in Keys
    OBVIOUS
  <2>3. \A h \in DOMAIN saved : saved[h] \in Keys
    OBVIOUS
  <2>4. UNCHANGED <<saved, pc, handles, c, pending>>
    BY <1>12 DEF ChildFinishes, run
  <2>5. pc = "await" => \A h \in 1..(c - 1) : h \in DOMAIN handles
    BY DEF ProgressInv
  <2>6. pc \in {"finish", "cleanup", "return"} => \A h \in 1..Children : h \in DOMAIN handles
    BY DEF ProgressInv
  <2> QED BY <2>1, <2>2, <2>3, <2>4, <2>5, <2>6
<1>13. CASE UNCHANGED vars
  BY <1>13 DEF vars, run
<1> QED
  BY <1>1, <1>2, <1>3, <1>4, <1>5, <1>6, <1>7, <1>8, <1>9, <1>10, <1>11, <1>12, <1>13
  DEF Next, Step

\* Children with keys or workflows of their own never take each other's place.
LEMMA NextKeyed == TypeOK /\ ProgressInv /\ KeyedInv /\ [Next]_vars => KeyedInv'
<1> SUFFICES ASSUME TypeOK, ProgressInv, KeyedInv, [Next]_vars, mode.fixed \/ ~mode.shared
             PROVE  /\ \A key \in Keys : children'[key] # Absent => children'[key].config = key[1]
                    /\ \A h \in DOMAIN handles' : handles'[h][1] = h
                    /\ \A h \in DOMAIN saved' : saved'[h][1] = h
  <2>1. CASE Step
    BY <2>1 DEF Step, RunStart, SpawnChild, StoreParent, SaveHandles, Await, Pending, AllDone,
                FinishUpsert, FinishCleanup, Return, KeyedInv
  <2>2. CASE RunFails \/ Restart \/ UNCHANGED vars
    BY <2>2 DEF RunFails, Restart, vars, KeyedInv
  <2>3. ASSUME NEW k \in Keys, ChildFinishes(k) PROVE mode' = mode
    BY <2>3 DEF ChildFinishes
  <2> QED BY <2>1, <2>2, <2>3 DEF Next, KeyedInv
<1> USE DEF TypeOK, KeyedInv
<1>1. CASE RunStart
  BY <1>1 DEF RunStart
<1>2. CASE SpawnChild
  <2> DEFINE k == Len(handles) + 1
  <2>1. PICK t \in now..MaxTime :
          /\ children' = [children EXCEPT ![Key(k, t)] = [state |-> "Running", config |-> k]]
          /\ handles' = Append(handles, Key(k, t))
    BY <1>2 DEF SpawnChild
  <2>2. k \in Configs /\ t \in 0..MaxTime
    BY <1>2 DEF SpawnChild, ProgressInv, Configs
  <2>3. Key(k, t) \in Keys /\ Key(k, t)[1] = k
    BY <2>2, KeyIsKey
  <2>4. \A h \in DOMAIN handles' : h = k \/ h \in DOMAIN handles
    BY <2>1
  <2>5. \A h \in DOMAIN handles' : handles'[h] = IF h = k THEN Key(k, t) ELSE handles[h]
    BY <2>1
  <2>6. \A key \in Keys : children'[key] =
          IF key = Key(k, t) THEN [state |-> "Running", config |-> k] ELSE children[key]
    BY <2>1, <2>3
  <2>7. saved' = saved
    BY <1>2 DEF SpawnChild
  <2>8. /\ \A key \in Keys : children[key] # Absent => children[key].config = key[1]
        /\ \A h \in DOMAIN handles : handles[h][1] = h
        /\ \A h \in DOMAIN saved : saved[h][1] = h
    OBVIOUS
  <2> HIDE DEF k
  <2>9. \A key \in Keys : children'[key] # Absent => children'[key].config = key[1]
    BY <2>3, <2>6, <2>8
  <2>10. \A h \in DOMAIN handles' : handles'[h][1] = h
    BY <2>3, <2>4, <2>5, <2>8
  <2> QED BY <2>7, <2>8, <2>9, <2>10
<1>3. CASE StoreParent
  BY <1>3 DEF StoreParent
<1>4. CASE SaveHandles
  BY <1>4 DEF SaveHandles
<1>5. CASE Await \/ Pending \/ AllDone \/ FinishUpsert \/ Return \/ RunFails \/ Restart
  BY <1>5 DEF Await, Pending, AllDone, FinishUpsert, Return, RunFails, Restart
<1>6. CASE FinishCleanup
  <2>1. saved' = saved \/ saved' = <<>>
    BY <1>6 DEF FinishCleanup
  <2> QED BY <1>6, <2>1 DEF FinishCleanup
<1>7. ASSUME NEW k \in Keys, ChildFinishes(k)
      PROVE  /\ \A key \in Keys : children'[key] # Absent => children'[key].config = key[1]
             /\ \A h \in DOMAIN handles' : handles'[h][1] = h
             /\ \A h \in DOMAIN saved' : saved'[h][1] = h
  <2>1. children[k] \in Child
    BY <1>7 DEF ChildFinishes, Absent
  <2>2. \A key \in Keys : children'[key].config = children[key].config
                          /\ (children[key] = Absent => children'[key] = Absent)
    BY <1>7, <2>1 DEF ChildFinishes, Child, Absent
  <2> QED BY <1>7, <2>2 DEF ChildFinishes, run
<1>8. CASE UNCHANGED vars
  BY <1>8 DEF vars, run
<1> QED BY <1>1, <1>2, <1>3, <1>4, <1>5, <1>6, <1>7, <1>8 DEF Next, Step

-----------------------------------------------------------------------------
LEMMA TreeInvariant == Spec => [](TypeOK /\ TreeInv)
<1>1. Init => TypeOK /\ TreeInv
  BY InitType, InitTree
<1>2. TypeOK /\ TreeInv /\ [Next]_vars => TypeOK' /\ TreeInv'
  BY ProgressType, NextProgress, NextSpawns, NextHandles, NextKeyed DEF TreeInv
<1> QED BY <1>1, <1>2, PTL DEF Spec

(* The parent, its children and its run keep their types; no child is       *)
(* created more often than runs spawned.                                    *)
THEOREM TypeCorrect == Spec => []TypeOK
BY TreeInvariant, PTL

(* A parent finishes after the children of its handles, however many there  *)
(* are and whatever key they share.                                         *)
THEOREM FinishesLastAlways == Spec => []FinishesLast
<1>1. TypeOK /\ TreeInv => FinishesLast
  <2> SUFFICES ASSUME TypeOK, TreeInv, AllAnswered,
                      NEW h \in DOMAIN handles
               PROVE  children[handles[h]].state = "Finished"
    BY DEF FinishesLast
  <2>1. Answered(Children) /\ Len(handles) <= Children
    BY DEF TreeInv, HandlesInv, TypeOK
  <2>2. h \in 1..Children
    BY <2>1 DEF TypeOK
  <2> QED BY <2>1, <2>2 DEF Answered
<1> QED BY <1>1, TreeInvariant, PTL

(* With keys or workflows of their own, a child of every config has finished *)
(* before the parent does.                                                   *)
THEOREM KeyedConfigsRunAlways == Spec => []KeyedConfigsRun
<1>1. TypeOK /\ TreeInv => KeyedConfigsRun
  <2> SUFFICES ASSUME TypeOK, TreeInv, mode.fixed \/ ~mode.shared, AllAnswered,
                      NEW k \in Configs
               PROVE  \E key \in Keys : children[key] = [state |-> "Finished", config |-> k]
    BY DEF KeyedConfigsRun, EachConfigRuns
  <2>1. k \in DOMAIN handles
    BY DEF AllAnswered, TreeInv, ProgressInv, TypeOK, Configs
  <2>2. handles[k] \in Keys /\ handles[k][1] = k
    BY <2>1 DEF TreeInv, KeyedInv, TypeOK
  <2>3. children[handles[k]] # Absent /\ children[handles[k]].state = "Finished"
    BY <2>1 DEF TreeInv, HandlesInv, Answered, Configs
  <2>4. children[handles[k]].config = k
    BY <2>2, <2>3 DEF TreeInv, KeyedInv
  <2>5. children[handles[k]] \in Child
    BY <2>2, <2>3 DEF TypeOK
  <2>6. children[handles[k]] = [state |-> "Finished", config |-> k]
    BY <2>3, <2>4, <2>5 DEF Child
  <2> QED BY <2>2, <2>6
<1> QED BY <1>1, TreeInvariant, PTL

(* A parent that checkpoints its handles creates each child at most once,   *)
(* and once more for each run cut short.                                    *)
THEOREM GuardedSpawnsOnceAlways == Spec => []GuardedSpawnsOnce
<1>1. TypeOK /\ TreeInv => GuardedSpawnsOnce
  <2> SUFFICES ASSUME TypeOK, TreeInv, mode.guarded, NEW k \in Configs
               PROVE  created[k] <= 1 + faults
    BY DEF GuardedSpawnsOnce
  <2>1. created[k] \in Nat /\ spawns \in Nat /\ faults \in Nat
    BY DEF TypeOK
  <2>2. created[k] <= spawns
    BY <2>1 DEF TreeInv, SpawnsInv
  <2>3. spawns <= 1 + faults
    BY DEF TreeInv, SpawnsInv
  <2> QED BY <2>1, <2>2, <2>3
<1> QED BY <1>1, TreeInvariant, PTL
=============================================================================
