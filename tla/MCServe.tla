------------------------------ MODULE MCServe ------------------------------
(***************************************************************************)
(* Instances of Serve for TLC: the unit, and one process started by hand.  *)
(***************************************************************************)
EXTENDS Serve

CONSTANTS unit, hand
=============================================================================
