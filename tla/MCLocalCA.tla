------------------------------- MODULE MCLocalCA -------------------------------
(* Two processes on a new host, each with a cluster of its own, and key pairs  *)
(* enough for one that a killed create loses.                                  *)
EXTENDS LocalCA

CONSTANTS p1, p2, k1, k2
=============================================================================
