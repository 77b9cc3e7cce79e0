--------------------------- MODULE MCClusterManager ---------------------------
(* Two NAT clusters and a bridge cluster, or one NAT cluster, on a pool as     *)
(* small as the interesting cases allow; one user who runs every command.      *)
EXTENDS ClusterManager, TLC

CONSTANTS a, b, c, none, p1

OneNAT == (a :> 0)
Mixed == (a :> 0 @@ b :> 0 @@ c :> 9)
OneUser == (p1 :> Commands)
=============================================================================
