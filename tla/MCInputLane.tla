---------------------------- MODULE MCInputLane ----------------------------
(***************************************************************************)
(* An input lane on small instances.                                       *)
(***************************************************************************)
EXTENDS InputLane, TLC
=============================================================================
