----------------------------- MODULE SpawnTree -----------------------------
(***************************************************************************)
(* A parent case that spawns children with spawn_children and waits for     *)
(* them with await_children, over the CaseStore.  Every tick runs the       *)
(* parent's workflow from its start, on a clone of the case the scheduler's *)
(* caller holds.  A run can end at any await (a failed store call, a        *)
(* dropped tick) and the process can restart from the store.                *)
(***************************************************************************)
EXTENDS Naturals, Sequences

CONSTANTS Children,    \* number of children the parent wants
          MaxTime,     \* bound: milliseconds the clock advances
          MaxSpawns,   \* bound: runs that spawn
          MaxFaults    \* bound: runs cut short and restarts

ASSUME SpawnAssumption ==
  /\ {Children, MaxTime, MaxSpawns} \subseteq Nat \ {0} /\ MaxFaults \in Nat
  /\ MaxFaults < MaxSpawns

Configs == 1..Children

\* What the parent's author chose: whether the handles are checkpointed, so that
\* only a run that finds none spawns; whether the children's keys are given, all
\* different; and whether all children run the same workflow, or each its own.
Modes == [guarded : BOOLEAN, fixed : BOOLEAN, shared : BOOLEAN]

VARIABLES
  mode,      \* fixed
  children,  \* the children in the CaseStore, by key
  stored,    \* the parent in the CaseStore
  dict,      \* the parent in the dict of the scheduler's caller
  saved,     \* the checkpoint of the handles, empty if there is none
  pc,        \* where the parent's run stands: the call it makes next
  case,      \* the parent as the run's context holds it
  handles,   \* the keys of the children this run has spawned or restored
  c,         \* the handle await_children is at
  pending,   \* children await_children found in flight
  now,       \* the clock
  spawns, faults,
  created    \* history: how often a child of each config was created

run  == <<pc, case, handles, c, pending>>
vars == <<mode, children, stored, dict, saved, run, now, spawns, faults, created>>

KeyOfTime(k, t) == IF mode.fixed THEN <<k, 0>> ELSE <<1, t>>

\* The key of a spawned child; without a given key, its time and its workflow.
Key(k, t) == IF mode.fixed THEN <<k, 0>> ELSE <<IF mode.shared THEN 1 ELSE k, t>>

Keys == Configs \X (0..MaxTime)

\* A child in the store, with the config its data came from.  A child that waits
\* is as little done as one that runs.
Child  == [state : {"Running", "Finished"}, config : Configs]
Absent == [state |-> "absent", config |-> 0]

Parent == [state : {"Running", "Waiting", "Finished"}, child_keys : SUBSET Keys]

Init ==
  /\ mode \in Modes
  /\ children = [k \in Keys |-> Absent]
  /\ stored = [state |-> "Running", child_keys |-> {}]
  /\ dict = stored /\ case = stored
  /\ saved = <<>>
  /\ pc = "idle" /\ handles = <<>> /\ c = 1 /\ pending = 0
  /\ now = 1 /\ spawns = 0 /\ faults = 0
  /\ created = [k \in Configs |-> 0]

-----------------------------------------------------------------------------
(* The parent's run. *)

\* The run finds its handles in the checkpoint.
Restore == mode.guarded /\ saved # <<>>

RunStart ==
  /\ pc = "idle" /\ dict.state # "Finished"
  /\ case' = dict
  /\ c' = 1 /\ pending' = 0
  /\ IF Restore
       THEN pc' = "await" /\ handles' = saved /\ UNCHANGED spawns
       ELSE /\ spawns < MaxSpawns
            /\ pc' = "child" /\ handles' = <<>> /\ spawns' = spawns + 1
  /\ UNCHANGED <<mode, children, stored, dict, saved, now, faults, created>>

\* spawn_child stores the new child, Running, whatever is stored under its key.
SpawnChild ==
  /\ pc = "child"
  /\ \E t \in now..MaxTime :
       LET k == Len(handles) + 1
           key == Key(k, t)
       IN  /\ now' = t
           /\ children' = [children EXCEPT ![key] = [state |-> "Running", config |-> k]]
           /\ created' = [created EXCEPT ![k] = @ + 1]
           /\ case' = [case EXCEPT !.child_keys = @ \cup {key}]
           /\ handles' = Append(handles, key)
  /\ pc' = "parent"
  /\ UNCHANGED <<mode, stored, dict, saved, c, pending, spawns, faults>>

Spawned == IF mode.guarded THEN "save" ELSE "await"

\* ... and then the parent with the child's key.
StoreParent ==
  /\ pc = "parent"
  /\ stored' = case
  /\ pc' = IF Len(handles) < Children THEN "child" ELSE Spawned
  /\ UNCHANGED <<mode, children, dict, saved, case, handles, c, pending, now, spawns, faults, created>>

SaveNothing ==
  /\ pc = "save"
  /\ pc' = "await"
  /\ UNCHANGED <<mode, children, stored, dict, saved, case, handles, c, pending, now, spawns, faults, created>>

SaveHandles ==
  /\ pc = "save"
  /\ saved' = handles
  /\ pc' = "await"
  /\ UNCHANGED <<mode, children, stored, dict, case, handles, c, pending, now, spawns, faults, created>>

InFlightUnlessAbsent(k) == children[k] # Absent

InFlight(k) == children[k].state = "Running"

AwaitLast ==                          \* only the last child's status counts
  /\ pc = "await" /\ c <= Len(handles)
  /\ c' = c + 1
  /\ pending' = IF InFlight(handles[c]) THEN 1 ELSE 0
  /\ UNCHANGED <<mode, children, stored, dict, saved, pc, case, handles, now, spawns, faults, created>>

\* await_children asks for one child after the other; one not found has failed.
Await ==
  /\ pc = "await" /\ c <= Len(handles)
  /\ c' = c + 1
  /\ pending' = IF InFlight(handles[c]) THEN pending + 1 ELSE pending
  /\ UNCHANGED <<mode, children, stored, dict, saved, pc, case, handles, now, spawns, faults, created>>

Pending ==
  /\ pc = "await" /\ c > Len(handles) /\ pending > 0
  /\ dict' = [dict EXCEPT !.state = "Waiting"]
  /\ pc' = "idle"
  /\ UNCHANGED <<mode, children, stored, saved, case, handles, c, pending, now, spawns, faults, created>>

AllDone ==
  /\ pc = "await" /\ c > Len(handles) /\ pending = 0
  /\ case' = [case EXCEPT !.state = "Finished"]
  /\ pc' = "finish"
  /\ UNCHANGED <<mode, children, stored, dict, saved, handles, c, pending, now, spawns, faults, created>>

FinishUpsert ==
  /\ pc = "finish"
  /\ stored' = case
  /\ pc' = "cleanup"
  /\ UNCHANGED <<mode, children, dict, saved, case, handles, c, pending, now, spawns, faults, created>>

\* finish() deletes the checkpoints, or fails to and goes on.
FinishCleanup ==
  /\ pc = "cleanup"
  /\ saved' \in {saved, <<>>}
  /\ pc' = "return"
  /\ UNCHANGED <<mode, children, stored, dict, case, handles, c, pending, now, spawns, faults, created>>

Return ==
  /\ pc = "return"
  /\ dict' = [dict EXCEPT !.state = "Finished"]
  /\ pc' = "idle"
  /\ UNCHANGED <<mode, children, stored, saved, case, handles, c, pending, now, spawns, faults, created>>

-----------------------------------------------------------------------------
(* External: the children's own runs, and what cuts the parent's short. *)

ChildFinishes(k) ==
  /\ children[k].state = "Running"
  /\ children' = [children EXCEPT ![k].state = "Finished"]
  /\ UNCHANGED <<mode, stored, dict, saved, run, now, spawns, faults, created>>

RunFails ==
  /\ pc # "idle" /\ faults < MaxFaults
  /\ faults' = faults + 1
  /\ pc' = "idle"
  /\ UNCHANGED <<mode, children, stored, dict, saved, case, handles, c, pending, now, spawns, created>>

\* The successor of a process that died takes the parent from the store.
Restart ==
  /\ faults < MaxFaults
  /\ faults' = faults + 1
  /\ pc' = "idle"
  /\ dict' = stored
  /\ UNCHANGED <<mode, children, stored, saved, case, handles, c, pending, now, spawns, created>>

Step ==
  \/ RunStart \/ SpawnChild \/ StoreParent \/ SaveHandles \/ Await \/ Pending
  \/ AllDone \/ FinishUpsert \/ FinishCleanup \/ Return

Next == Step \/ RunFails \/ Restart \/ \E k \in Keys : ChildFinishes(k)

\* The scheduler is ticked, its caller feeds it the children, and they finish.
Spec ==
  /\ Init /\ [][Next]_vars
  /\ WF_vars(Step)
  /\ \A k \in Keys : WF_vars(ChildFinishes(k))

-----------------------------------------------------------------------------
TypeOK ==
  /\ mode \in Modes
  /\ children \in [Keys -> Child \cup {Absent}]
  /\ {stored, dict, case} \subseteq Parent
  /\ {saved, handles} \subseteq Seq(Keys) /\ Len(handles) <= Children
  /\ pc \in {"idle", "child", "parent", "save", "await", "finish", "cleanup", "return"}
  /\ c \in 1..(Children + 1) /\ pending \in 0..Children
  /\ now \in 1..MaxTime /\ spawns \in 0..MaxSpawns /\ faults \in 0..MaxFaults
  /\ created \in [Configs -> 0..MaxSpawns]

AllAnswered == pc \in {"finish", "cleanup", "return"}

\* Once await_children has answered AllDone, a child of every config has finished.
EachConfigRuns ==
  AllAnswered => \A k \in Configs : \E key \in Keys :
                   children[key] = [state |-> "Finished", config |-> k]

(* A parent does not finish before its children: once await_children has    *)
(* answered AllDone every child of its handles is finished, though it asked  *)
(* for one after the other while they went on.                               *)
FinishesLast ==
  AllAnswered => \A h \in DOMAIN handles : children[handles[h]].state = "Finished"

(* A parent that gives its children keys, or different workflows, finishes   *)
(* only once a child of every config has: none takes another's place.        *)
KeyedConfigsRun == mode.fixed \/ ~mode.shared => EachConfigRuns

(* A parent that checkpoints its handles creates each child once, and once   *)
(* more for each run cut short; a finished child is not reset otherwise.     *)
GuardedSpawnsOnce == mode.guarded => \A k \in Configs : created[k] <= 1 + faults

\* What strengthens these to an inductive invariant: how far a run has come, what its
\* handles name, and what was spawned by how many runs.
ProgressInv ==
  /\ pc = "child" => Len(handles) < Children
  /\ pc = "parent" => Len(handles) > 0
  /\ pc \notin {"idle", "child", "parent"} => Len(handles) = Children
  /\ saved = <<>> \/ Len(saved) = Children
  /\ pending < c /\ (pc \in {"child", "parent", "save"} => c = 1)

Answered(n) == \A h \in 1..n : children[handles[h]].state = "Finished"

HandlesInv ==
  /\ \A h \in DOMAIN handles : children[handles[h]] # Absent
  /\ \A h \in DOMAIN saved : children[saved[h]] # Absent
  /\ pc = "await" /\ pending = 0 => Answered(c - 1)
  /\ AllAnswered => Answered(Children)

KeyedInv ==
  mode.fixed \/ ~mode.shared =>
    /\ \A key \in Keys : children[key] # Absent => children[key].config = key[1]
    /\ \A h \in DOMAIN handles : handles[h][1] = h
    /\ \A h \in DOMAIN saved : saved[h][1] = h

SpawnsInv ==
  /\ \A k \in Configs :
       created[k] + (IF pc \in {"child", "parent"} /\ k > Len(handles) THEN 1 ELSE 0) <= spawns
  /\ mode.guarded =>
       /\ spawns <= 1 + faults
       /\ pc = "idle" /\ saved = <<>> /\ dict.state # "Finished" => spawns <= faults
       /\ pc \in {"await", "finish", "cleanup"} => saved # <<>>

TreeInv == ProgressInv /\ HandlesInv /\ KeyedInv /\ SpawnsInv

(* "Parent suspends here, resumes when all children are done": a parent that *)
(* checkpoints its handles finishes, whatever run is cut short.              *)
GuardedParentFinishes == mode.guarded => <>[](dict.state = "Finished")
=============================================================================
