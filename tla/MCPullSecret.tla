----------------------------- MODULE MCPullSecret -----------------------------
(* Two processes, of any of the commands, over one pull secret.               *)
EXTENDS PullSecret

CONSTANTS p1, p2
=============================================================================
