---------------------------- MODULE MCInputPhase ----------------------------
(***************************************************************************)
(* The input phase on small instances.                                     *)
(***************************************************************************)
EXTENDS InputPhase, TLC

=============================================================================
