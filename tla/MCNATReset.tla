------------------------------ MODULE MCNATReset ------------------------------
(* Two NAT clusters and a bridge cluster on a pool of two addresses, and       *)
(* resets between the commands of the user who runs them.                      *)
EXTENDS NATReset, TLC

CONSTANTS a, b, c, none, p1

Mixed == (a :> 0 @@ b :> 0 @@ c :> 9)
OneUser == (p1 :> Commands)
EitherNAT == Permutations({a, b})
=============================================================================
