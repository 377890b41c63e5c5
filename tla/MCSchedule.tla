----------------------------- MODULE MCSchedule -----------------------------
(***************************************************************************)
(* Every combination of small schedule settings.                           *)
(***************************************************************************)
EXTENDS Schedule, TLC

CONSTANTS MaxRepeat, MaxAttempts

SmallSettings ==
  [once : BOOLEAN, repeat : 0..MaxRepeat, duration : BOOLEAN,
   maxAttempts : 1..MaxAttempts, policy : Policies]
=============================================================================
