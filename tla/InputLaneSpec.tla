--------------------------- MODULE InputLaneSpec ---------------------------
(***************************************************************************)
(* The lane contract as a specification of one lane and its surroundings:  *)
(* the shutdown flag, and the intake that the resolver may close.          *)
(***************************************************************************)
EXTENDS LaneContract

VARIABLES
  cancel,  \* the process-wide shutdown flag
  open,    \* the resolver still holds the intake
  lane     \* what the lane has handed over

laneVars == <<cancel, open, lane>>

LaneInit == cancel = FALSE /\ open = TRUE /\ lane = NewLane

Surroundings ==
  /\ cancel' \in {cancel, TRUE}
  /\ open' \in {open, FALSE}
  /\ UNCHANGED lane

LaneStep ==
  /\ \/ open /\ \/ HandsOverData(lane, lane')
                \/ HandsOverError(lane, lane', cancel)
                \/ HandsOverOwed(lane, lane')
                \/ HandsOverStop(lane, lane', cancel)
     \/ SkipsRest(lane, lane')
     \/ FailsProfiling(lane, lane')
     \/ ~open /\ GivesUp(lane, lane')
  /\ UNCHANGED <<cancel, open>>

LaneSpec == LaneInit /\ [][Surroundings \/ LaneStep]_laneVars
=============================================================================
