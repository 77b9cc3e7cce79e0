----------------------------- MODULE VerifyMasterIP -----------------------------
(***************************************************************************)
(* verify-master-ip, of a create in bridge mode: before etcd can bind an   *)
(* address for good, the stage polls until the master answers on the       *)
(* address reserved for its MAC, or on another one, or for eight minutes.  *)
(*                                                                         *)
(* It sees the LAN through a TCP connect, which also makes the host        *)
(* resolve the address, and /proc/net/arp.  That table remembers what was  *)
(* true once: a VM of the same MAC that is gone, an address that is now a  *)
(* neighbour's.                                                            *)
(***************************************************************************)
EXTENDS Naturals

CONSTANTS
  Want,      \* the reserved address
  Elsewhere, \* the other addresses of the LAN
  Nowhere,   \* no address
  MaxMoves   \* bound on how often the master comes up

ASSUME VerifyAssumption ==
  /\ Want \notin Elsewhere /\ Nowhere \notin Elsewhere \cup {Want}
  /\ MaxMoves \in Nat

VARIABLES
  at,         \* where the master's sshd answers
  been,       \* where it has since the VM was created
  neighbours, \* where another machine's does
  arp,        \* the addresses /proc/net/arp has for the master's MAC
  vpc,        \* the stage: dial, lookup, confirm, deadline, or its verdict
  live, got,  \* liveAtWant and gotIP
  late,       \* the deadline has passed
  moves

lan == <<at, been, neighbours, arp, late, moves>>
verifyVars == <<lan, vpc, live, got>>

Addresses == {Want} \cup Elsewhere
Verdicts == {"ok", "mismatch", "timeout"}

VerifyInit ==
  /\ at = Nowhere /\ been = {} /\ late = FALSE /\ moves = 0
  /\ neighbours \in SUBSET Addresses /\ arp \in SUBSET Addresses
  /\ vpc = "dial" /\ live = FALSE /\ got = Nowhere

-----------------------------------------------------------------------------
(* The stage *)

Answers(a) == at = a \/ a \in neighbours

\* What an attempt to reach a leaves in the host's table: whoever answers is
\* entered; when nobody does, an old entry stays or goes.
Resolve(a) ==
  \/ at = a /\ arp' = arp \cup {a}
  \/ a \in neighbours /\ arp' = arp \ {a}
  \/ ~Answers(a) /\ arp' \in {arp, arp \ {a}}

DialWant ==
  /\ vpc = "dial" /\ vpc' = "lookup"
  /\ live' = Answers(Want) /\ Resolve(Want)
  /\ UNCHANGED <<at, been, neighbours, late, moves, got>>

LookUp ==
  /\ vpc = "lookup" /\ got' \in (IF arp = {} THEN {Nowhere} ELSE arp)
  /\ vpc' = CASE live /\ got' = Want -> "ok"
              [] got' \in Elsewhere -> "confirm"
              [] OTHER -> "deadline"
  /\ UNCHANGED <<lan, live>>

\* Mutant of Confirm: an entry elsewhere is proof enough.
ConfirmNothing ==
  /\ vpc = "confirm" /\ vpc' = "mismatch"
  /\ UNCHANGED <<lan, live, got>>

Confirm ==
  /\ vpc = "confirm" /\ vpc' = IF Answers(got) THEN "mismatch" ELSE "deadline"
  /\ Resolve(got)
  /\ UNCHANGED <<at, been, neighbours, late, moves, live, got>>

\* Out of time, an entry elsewhere is blamed without a connect.
Deadline ==
  /\ vpc = "deadline"
  /\ vpc' = CASE ~late -> "dial"
              [] late /\ got \in Elsewhere -> "mismatch"
              [] OTHER -> "timeout"
  /\ UNCHANGED <<lan, live, got>>

VerifyStep == DialWant \/ LookUp \/ Confirm \/ Deadline

-----------------------------------------------------------------------------
(* The LAN *)

Verifying == vpc \notin Verdicts

\* The master comes up on a, and announces itself there, which the host may hear.
ComeUp(a) ==
  /\ Verifying /\ moves < MaxMoves /\ moves' = moves + 1
  /\ at' = a /\ been' = been \cup {a}
  /\ arp' \in {arp, arp \cup {a}}
  /\ UNCHANGED <<neighbours, late, vpc, live, got>>

GoDown ==
  /\ Verifying /\ at # Nowhere /\ moves < MaxMoves /\ at' = Nowhere
  /\ UNCHANGED <<been, neighbours, arp, late, moves, vpc, live, got>>

Neighbour(a) ==
  /\ Verifying
  /\ neighbours' = IF a \in neighbours THEN neighbours \ {a} ELSE neighbours \cup {a}
  /\ UNCHANGED <<at, been, arp, late, moves, vpc, live, got>>

Expire ==
  /\ Verifying /\ ~late /\ late' = TRUE
  /\ UNCHANGED <<at, been, neighbours, arp, moves, vpc, live, got>>

-----------------------------------------------------------------------------
(* Properties *)

\* A create goes on to its install only when the master has come up on the
\* reserved address: neither a neighbour that answers there nor an entry of an
\* earlier VM is taken for it ("a stale /proc/net/arp entry can't produce a
\* false verdict"), because the entry is read after the connect that renews it.
\* It is given up for a master on another address only when that has been
\* there, as long as there is time left and the address is no neighbour's: the
\* entry was read before the connect that a neighbour may answer, and at the
\* deadline there is none.
VerdictIsTrue ==
  /\ vpc = "ok" => Want \in been
  /\ vpc = "mismatch" /\ ~late /\ got \notin neighbours => got \in been
=============================================================================
