------------------------------ MODULE MCAtRest ------------------------------
(***************************************************************************)
(* Instances of AtRest for TLC: the goroutine that boots the daemon, and   *)
(* one more that makes calls.                                              *)
(***************************************************************************)
EXTENDS AtRest

CONSTANTS boot, call, auth, cmd
=============================================================================
