------------------------- MODULE MCBrokerDelivery -------------------------
(***************************************************************************)
(* A small instance of broker delivery: every worker may panic, and the    *)
(* lists of a 207 answer may repeat an id twice and name one stranger.     *)
(* Entities are not symmetric, since termination is checked in the same    *)
(* run.                                                                    *)
(***************************************************************************)
EXTENDS BrokerDelivery
=============================================================================
