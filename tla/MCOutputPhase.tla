--------------------------- MODULE MCOutputPhase ---------------------------
(***************************************************************************)
(* The output phase on small instances.  No action treats one unit         *)
(* differently from another, so the safety runs may permute them.          *)
(***************************************************************************)
EXTENDS OutputPhase, TLC

UnitSymmetry == Permutations(Units)
=============================================================================
