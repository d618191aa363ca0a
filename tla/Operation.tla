----------------------------- MODULE Operation ------------------------------
(***************************************************************************)
(* What the accelerator promises its driver: an operation is begun by a    *)
(* team of units, each of them finishes once, and the completion is        *)
(* reported together with the last one, and stays so until the driver      *)
(* acknowledges it or begins the next operation.                           *)
(***************************************************************************)
CONSTANT Units

VARIABLES
  team,      \* the units of the present operation
  finished,  \* those that have finished
  reported   \* the completion signal

opVars == <<team, finished, reported>>

OpInit == team = {} /\ finished = {} /\ reported = FALSE

Begin ==
  /\ team = {} \/ reported
  /\ team' \in (SUBSET Units) \ {{}}
  /\ finished' = {}
  /\ reported' = FALSE

Finish(u) ==
  /\ u \in team \ finished
  /\ finished' = finished \cup {u}
  /\ reported' = (finished' = team)
  /\ UNCHANGED team

Acknowledge ==
  /\ reported
  /\ team' = {} /\ finished' = {} /\ reported' = FALSE

OpNext == Begin \/ Acknowledge \/ \E u \in Units : Finish(u)

(* Every unit finishes in the end. *)
OpSpec == OpInit /\ [][OpNext]_opVars /\ \A u \in Units : WF_opVars(Finish(u))
=============================================================================
