-------------------------------- MODULE MCVfkit --------------------------------
(* One VM; the state space is finite but for the bounds on faults and crashes. *)
EXTENDS Vfkit
=============================================================================
