---------------------------- MODULE DurableSteps ----------------------------
(***************************************************************************)
(* What checkpointing promises a workflow author about the steps of one     *)
(* case: a step's result is recorded once and is never replaced, it is      *)
(* forgotten only when the step is cleared, and the record as a whole goes  *)
(* only after the case is finished.                                         *)
(***************************************************************************)
CONSTANTS Steps, Vals,
          None                     \* no result recorded

VARIABLES memo,                    \* the recorded result of each step
          done                     \* the case is finished

vars == <<memo, done>>

Init == memo = [s \in Steps |-> None] /\ done = FALSE

Record(s, v) ==
  /\ memo[s] = None
  /\ memo' = [memo EXCEPT ![s] = v]
  /\ UNCHANGED done

Clear(s) ==
  /\ memo' = [memo EXCEPT ![s] = None]
  /\ UNCHANGED done

Finish == done' = TRUE /\ UNCHANGED memo

Discard == done /\ memo' = [s \in Steps |-> None] /\ UNCHANGED done

Next ==
  \/ \E s \in Steps : Clear(s) \/ \E v \in Vals : Record(s, v)
  \/ Finish
  \/ Discard

Spec == Init /\ [][Next]_vars
=============================================================================
