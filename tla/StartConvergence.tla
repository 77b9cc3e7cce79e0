--------------------------- MODULE StartConvergence ---------------------------
(***************************************************************************)
(* What `easyshift start` does once the VM is booted (app/converge.go, with *)
(* the OCCSRApprover): it waits for the API, then looks at the node and at *)
(* the certificate signing requests until it is content, while a goroutine *)
(* approves every request it finds.                                        *)
(*                                                                         *)
(* The node is external: after a stop across a certificate rotation its    *)
(* kubelet cannot report until its client request is approved, and asks    *)
(* for a serving certificate after that.  Until the node lifecycle         *)
(* controller gives up waiting for a report, the API shows the condition   *)
(* of before the stop.                                                     *)
(***************************************************************************)
EXTENDS Naturals, FiniteSets

CONSTANT MaxFaults \* bound on failing oc calls

ASSUME ConvergenceAssumption == MaxFaults \in Nat

CSRs == {"client", "serving"}

Deadlines == {"api", "converge"}

VARIABLES
  stale,  \* the API shows the node Ready before it has reported
  short,  \* the deadlines that may pass before this guest gets ready
  api,    \* the API answers
  node,   \* the API shows the node Ready
  csr,    \* each request: not needed, wanted, pending or approved
  pc,     \* start: wait, ready, pending, sleep, cancel, then ok or failed
  ready,  \* what nodeReady returned
  apc,    \* the approver: off, sweep, approve, tick
  listed, \* the requests its sweep has still to approve
  canceled, faults

given == <<stale, short>>
guest == <<api, node, csr>>
approver == <<apc, listed>>
vars == <<given, guest, pc, ready, approver, canceled, faults>>

\* After the boot: which certificates have expired is anybody's guess.
Init ==
  /\ stale \in BOOLEAN /\ short \in SUBSET Deadlines
  /\ api = FALSE /\ node = stale
  /\ csr \in [CSRs -> {"none", "wanted"}]
  /\ pc = "wait" /\ ready = FALSE
  /\ apc = "off" /\ listed = {} /\ canceled = FALSE /\ faults = 0

Joined == csr["client"] \in {"none", "approved"}
Pending == {k \in CSRs : csr[k] = "pending"}

Fault == faults < MaxFaults /\ faults' = faults + 1

-----------------------------------------------------------------------------
(* The guest *)

APIComes == ~api /\ api' = TRUE /\ UNCHANGED <<given, node, csr, pc, ready, approver, canceled, faults>>

Request(k) ==
  /\ api /\ csr[k] = "wanted" /\ (k = "serving" => Joined)
  /\ csr' = [csr EXCEPT ![k] = "pending"]
  /\ UNCHANGED <<given, api, node, pc, ready, approver, canceled, faults>>

\* The kubelet reports, or has not for too long.
Report ==
  /\ api /\ node # Joined /\ node' = Joined
  /\ UNCHANGED <<given, api, csr, pc, ready, approver, canceled, faults>>

GuestStep == APIComes \/ (\E k \in CSRs : Request(k)) \/ Report

-----------------------------------------------------------------------------
(* waitForAPI, nodeReady, csrsPending, and the loop over them *)

\* The approver starts with a sweep.
APIAnswers ==
  /\ pc = "wait" /\ api /\ pc' = "ready" /\ apc' = "sweep"
  /\ UNCHANGED <<given, guest, ready, listed, canceled, faults>>

APITimeout ==
  /\ pc = "wait" /\ "api" \in short /\ pc' = "failed"
  /\ UNCHANGED <<given, guest, ready, approver, canceled, faults>>

\* Mutant of NodeReady: an error counts as ready, as it counts as none pending.
NodeReadyOnError ==
  /\ pc = "ready" /\ pc' = "pending"
  /\ \/ ready' = node /\ UNCHANGED faults
     \/ ready' = TRUE /\ Fault
  /\ UNCHANGED <<given, guest, approver, canceled>>

\* An error counts as not ready.
NodeReady ==
  /\ pc = "ready" /\ pc' = "pending"
  /\ \/ ready' = node /\ UNCHANGED faults
     \/ ready' = FALSE /\ Fault
  /\ UNCHANGED <<given, guest, approver, canceled>>

\* An error counts as none pending.
CSRsPending ==
  /\ pc = "pending"
  /\ \E pending \in BOOLEAN :
       /\ (pending = (Pending # {}) /\ UNCHANGED faults) \/ (~pending /\ Fault)
       /\ pc' = IF ready /\ ~pending THEN "cancel" ELSE "sleep"
  /\ UNCHANGED <<given, guest, ready, approver, canceled>>

PollAgain ==
  /\ pc = "sleep" /\ pc' = "ready"
  /\ UNCHANGED <<given, guest, ready, approver, canceled, faults>>

ConvergeTimeout ==
  /\ pc = "sleep" /\ "converge" \in short
  /\ pc' = "cancel" /\ ready' = FALSE
  /\ UNCHANGED <<given, guest, approver, canceled, faults>>

Cancel ==
  /\ pc = "cancel" /\ ~canceled /\ canceled' = TRUE
  /\ UNCHANGED <<given, guest, pc, ready, approver, faults>>

\* The approver is waited for.
Return ==
  /\ pc = "cancel" /\ canceled /\ apc = "off"
  /\ pc' = IF ready THEN "ok" ELSE "failed"
  /\ UNCHANGED <<given, guest, ready, approver, canceled, faults>>

-----------------------------------------------------------------------------
(* OCCSRApprover.Run *)

\* A call under a canceled context fails; one that was under way may not.
Sweep ==
  /\ apc = "sweep"
  /\ \/ listed' = Pending /\ apc' = "approve" /\ UNCHANGED faults
     \/ apc' = "tick" /\ UNCHANGED listed /\ (Fault \/ (canceled /\ UNCHANGED faults))
  /\ UNCHANGED <<given, guest, pc, ready, canceled>>

Approve(k) ==
  /\ apc = "approve" /\ k \in listed /\ listed' = listed \ {k}
  /\ \/ csr' = [csr EXCEPT ![k] = "approved"] /\ UNCHANGED faults
     \/ UNCHANGED csr /\ (Fault \/ (canceled /\ UNCHANGED faults))
  /\ UNCHANGED <<given, api, node, pc, ready, apc, canceled>>

Swept ==
  /\ apc = "approve" /\ listed = {} /\ apc' = "tick"
  /\ UNCHANGED <<given, guest, pc, ready, listed, canceled, faults>>

\* When the ticker and the context are both ready, select takes either.
Tick ==
  /\ apc = "tick"
  /\ apc' = "sweep" \/ (canceled /\ apc' = "off")
  /\ UNCHANGED <<given, guest, pc, ready, listed, canceled, faults>>

ApproverStep == Sweep \/ (\E k \in CSRs : Approve(k)) \/ Swept \/ Tick
StartStep ==
  \/ APIAnswers \/ APITimeout \/ NodeReady \/ CSRsPending \/ PollAgain
  \/ ConvergeTimeout \/ Cancel \/ Return

Next == GuestStep \/ StartStep \/ ApproverStep

Spec == Init /\ [][Next]_vars

-----------------------------------------------------------------------------
(* Properties *)

TypeOK ==
  /\ stale \in BOOLEAN /\ short \subseteq Deadlines
  /\ api \in BOOLEAN /\ node \in BOOLEAN /\ canceled \in BOOLEAN /\ ready \in BOOLEAN
  /\ csr \in [CSRs -> {"none", "wanted", "pending", "approved"}]
  /\ pc \in {"wait", "ready", "pending", "sleep", "cancel", "ok", "failed"}
  /\ apc \in {"off", "sweep", "approve", "tick"} /\ listed \subseteq CSRs
  /\ pc = "wait" => apc = "off" /\ faults = 0
  /\ faults \in 0..MaxFaults

\* "Blocks until ... pending CSRs are approved, and the node is Ready"
\* (usage.md): when start returns with success the node has rejoined the
\* cluster, what it needed an approval for is approved, in spite of calls that
\* fail.  A condition of before the stop that the API still shows is taken for
\* the node's own.
StartMeansJoined == (pc = "ok" /\ ~stale) => Joined
=============================================================================
