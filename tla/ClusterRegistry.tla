--------------------------- MODULE ClusterRegistry ---------------------------
(***************************************************************************)
(* What config.json promises about the clusters of a host, whatever the    *)
(* commands do to reach it: the phase every cluster is in and the pool     *)
(* address it owns.  ClusterManager implements this module (its            *)
(* RegistrySpec), crashes and failing stages included, as long as one      *)
(* command runs at a time.                                                 *)
(*                                                                         *)
(* The promise is deliberately weak on leaks: an address may be lost       *)
(* (reserved and owned by nobody, until `nat-network reset`), never given  *)
(* to two clusters.  And it is weak on kills: the file may be lost as a    *)
(* whole, and then nothing follows.                                        *)
(***************************************************************************)
EXTENDS Naturals, FiniteSets

CONSTANTS
  Clusters,   \* cluster names
  Addresses,  \* the NAT pool (192.168.126.5 .. .20)
  NoAddr,     \* the value of addr for a cluster that owns none
  MaxClusters \* DefaultClustersMax

VARIABLES
  phase,    \* what `list` shows: absent, creating, running or stopped
  addr,     \* the pool address a registered cluster owns, or NoAddr
  reserved, \* GlobalState.UsedIPs
  lost      \* the file cannot be read any more

vars == <<phase, addr, reserved, lost>>

Phase == {"absent", "creating", "running", "stopped"}

Registered == {c \in Clusters : phase[c] # "absent"}

Init ==
  /\ phase = [c \in Clusters |-> "absent"]
  /\ addr = [c \in Clusters |-> NoAddr]
  /\ reserved = {} /\ lost = FALSE

Move(c, from, to) ==
  /\ phase[c] \in from
  /\ phase' = [phase EXCEPT ![c] = to]
  /\ UNCHANGED <<addr, reserved>>

Register(c) ==
  /\ Cardinality(Registered) < MaxClusters
  /\ Move(c, {"absent"}, "creating")

\* A cluster under construction takes an address nobody has reserved.
Assign(c, a) ==
  /\ phase[c] # "absent" /\ addr[c] = NoAddr /\ a \in Addresses \ reserved
  /\ addr' = [addr EXCEPT ![c] = a]
  /\ reserved' = reserved \cup {a}
  /\ UNCHANGED phase

\* Reserved for an owner config.json does not know: lost until a reset.
Lose(a) ==
  /\ a \in Addresses \ reserved
  /\ reserved' = reserved \cup {a}
  /\ UNCHANGED <<phase, addr>>

\* Lost addresses come back; an owned one does not.
Reclaim(S) ==
  /\ S # {} /\ \A c \in Clusters : addr[c] \notin S
  /\ reserved' = reserved \ S
  /\ UNCHANGED <<phase, addr>>

Finish(c)  == Move(c, {"creating", "stopped"}, "running")
Halt(c)    == Move(c, {"running"}, "stopped")
Unwind(c)  == Move(c, {"stopped"}, "creating")

\* A running cluster keeps its address.
Unassign(c) ==
  /\ phase[c] \in {"creating", "stopped"} /\ addr[c] # NoAddr
  /\ addr' = [addr EXCEPT ![c] = NoAddr]
  /\ reserved' = reserved \ {addr[c]}
  /\ UNCHANGED phase

\* A running cluster has to be stopped first.  An address it still owned is
\* lost.
Forget(c) ==
  /\ phase[c] \in {"creating", "stopped"}
  /\ phase' = [phase EXCEPT ![c] = "absent"]
  /\ addr' = [addr EXCEPT ![c] = NoAddr]
  /\ UNCHANGED reserved

Change ==
  \/ \E c \in Clusters :
       \/ Register(c) \/ Finish(c) \/ Halt(c) \/ Unwind(c) \/ Unassign(c) \/ Forget(c)
       \/ \E a \in Addresses : Assign(c, a)
  \/ \E a \in Addresses : Lose(a)
  \/ \E S \in SUBSET reserved : Reclaim(S)

\* A command is killed inside its write of the file.  No command is run on what
\* that leaves, so it is the last thing that happens to the registry.
Ruin ==
  /\ lost' = TRUE
  /\ UNCHANGED <<phase, addr, reserved>>

Next == ~lost /\ (Ruin \/ (Change /\ UNCHANGED lost))

Spec == Init /\ [][Next]_vars

RegistryTypeOK ==
  /\ phase \in [Clusters -> Phase]
  /\ addr \in [Clusters -> Addresses \cup {NoAddr}]
  /\ reserved \subseteq Addresses
  /\ lost \in BOOLEAN

\* No pool address is owned by two clusters, and every owned address is
\* reserved: configuration.md's "so NAT clusters never collide".
NeverCollide ==
  /\ \A c \in Clusters : addr[c] # NoAddr => addr[c] \in reserved
  /\ \A c, d \in Clusters : c # d /\ addr[c] # NoAddr => addr[c] # addr[d]

=============================================================================
