--------------------------- MODULE MCInvitations ---------------------------
(***************************************************************************)
(* Instances of Invitations for TLC.                                       *)
(***************************************************************************)
EXTENDS Invitations, TLC

CONSTANTS a, b, ann, bob

Symmetry == Permutations(Guests) \cup Permutations(Clients)
=============================================================================
