---------------------------- MODULE MCArtifactCache ----------------------------
(* Creates one after another, and two side by side, on a macOS host.          *)
EXTENDS ArtifactCache

CONSTANTS p1, p2

Bounds == [connect |-> 2, copy |-> 1, local |-> 1]
=============================================================================
