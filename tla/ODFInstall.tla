------------------------------- MODULE ODFInstall -------------------------------
(***************************************************************************)
(* The install-odf stage and the ODFInstaller under it, for a cluster      *)
(* created with --odf.  Four phases apply objects to the cluster and wait  *)
(* for what its operators make of them.  Every object is applied by one    *)
(* `oc` call that may fail; every wait polls, swallows the errors of its   *)
(* probes and ends the stage when its time is up.  The stage has no        *)
(* rollback: `create` is run again and applies everything again, onto what *)
(* the cluster has become in the meantime.                                 *)
(***************************************************************************)
EXTENDS Naturals

CONSTANTS
  MaxFaults,  \* bound on oc calls that fail and on waits that time out
  MaxCrashes  \* bound on creates that are killed

ASSUME ODFAssumption == MaxFaults \in Nat /\ MaxCrashes \in Nat

VARIABLES
  lingers, \* Available still speaks of the old pod after the template changed
  done,    \* the objects applied to the cluster, patch and label included
  guest,   \* what the cluster's operators have brought up
  env,     \* ocs-operator's Deployment has SINGLE_NODE in its template
  pod,     \* the ocs-operator that runs: none, plain, single
  avail,   \* the Available condition of the Deployment
  taken,   \* the operators (plain, single) that have reconciled the StorageCluster
  applied, \* state.json lists install-odf
  pc, faults, crashes

cluster == <<done, guest, env, pod, avail, taken>>
vars == <<lingers, cluster, applied, pc, faults, crashes>>

Init ==
  /\ lingers \in BOOLEAN
  /\ done = {} /\ guest = {} /\ taken = {}
  /\ env = FALSE /\ pod = "none" /\ avail = FALSE
  /\ applied = FALSE /\ pc = "idle" /\ faults = 0 /\ crashes = 0

LaunchCreate ==
  /\ pc = "idle" /\ ~applied /\ pc' = "operators"
  /\ UNCHANGED <<lingers, cluster, applied, faults, crashes>>

-----------------------------------------------------------------------------
(* The stage *)

\* Mutant of Then: EnableSingleNode runs after CreateStorageCluster.
ThenLate == [operators |-> "csv", lvm |-> "lvmready", class |-> "storage",
             patch |-> "settle", label |-> "rbd", rbd |-> "cephfs",
             cephfs |-> "trim", trim |-> "ready", storage |-> "patch"]

\* What one `oc apply`, patch or label is followed by.
Then == [operators |-> "csv", lvm |-> "lvmready", class |-> "patch",
         patch |-> "settle", label |-> "rbd", rbd |-> "cephfs",
         cephfs |-> "trim", trim |-> "storage", storage |-> "ready"]

Apply ==
  /\ pc \in DOMAIN Then
  /\ done' = done \cup {pc} /\ pc' = Then[pc]
  /\ UNCHANGED <<lingers, guest, env, pod, avail, taken, applied, faults, crashes>>

\* A wait over one thing the guest brings up, and what the stage does next.
Await == [csv |-> "lvm", lvmready |-> "class", ready |-> "classes", classes |-> "record"]

PollSeen ==
  /\ pc \in DOMAIN Await /\ pc \in guest /\ pc' = Await[pc]
  /\ UNCHANGED <<lingers, cluster, applied, faults, crashes>>

\* Mutant of PollEnv: Available is asked for, whatever the template says.
PollNoEnv ==
  /\ pc = "settle" /\ pc' = "avail"
  /\ UNCHANGED <<lingers, cluster, applied, faults, crashes>>

\* The wait for the restart reads the template first,
PollEnv ==
  /\ pc = "settle" /\ env /\ pc' = "avail"
  /\ UNCHANGED <<lingers, cluster, applied, faults, crashes>>

\* and the condition next; when that is not True it starts over.
PollAvailable ==
  /\ pc = "avail" /\ pc' = IF avail THEN "label" ELSE "settle"
  /\ UNCHANGED <<lingers, cluster, applied, faults, crashes>>

\* A probe that fails is a probe that says no: the poll goes on, and only its
\* deadline ends the stage.
TimesOut ==
  /\ pc \in DOMAIN Await \cup {"settle", "avail"}
  /\ faults < MaxFaults /\ faults' = faults + 1 /\ pc' = "idle"
  /\ UNCHANGED <<lingers, cluster, applied, crashes>>

\* A call that changes something is made once.
ApplyFails ==
  /\ pc \in DOMAIN Then
  /\ faults < MaxFaults /\ faults' = faults + 1 /\ pc' = "idle"
  /\ UNCHANGED <<lingers, cluster, applied, crashes>>

\* Mutant of Record: the stage is not recorded.
RecordNothing ==
  /\ pc = "record" /\ UNCHANGED applied /\ pc' = "idle"
  /\ UNCHANGED <<lingers, cluster, faults, crashes>>

\* The runner records the stage; later creates skip it.
Record ==
  /\ pc = "record" /\ applied' = TRUE /\ pc' = "idle"
  /\ UNCHANGED <<lingers, cluster, faults, crashes>>

Crash ==
  /\ pc # "idle" /\ crashes < MaxCrashes
  /\ crashes' = crashes + 1 /\ pc' = "idle"
  /\ UNCHANGED <<lingers, cluster, applied, faults>>

Step == Apply \/ PollSeen \/ PollEnv \/ PollAvailable \/ Record

-----------------------------------------------------------------------------
(* The cluster *)

\* OLM installs the operators of the Subscriptions.
OperatorsSucceed ==
  /\ "operators" \in done /\ "csv" \notin guest
  /\ guest' = guest \cup {"csv"} /\ pod' = "plain" /\ avail' = TRUE
  /\ UNCHANGED <<lingers, done, env, taken, applied, pc, faults, crashes>>

LVMComesUp ==
  /\ "csv" \in guest /\ "lvm" \in done /\ "lvmready" \notin guest
  /\ guest' = guest \cup {"lvmready"}
  /\ UNCHANGED <<lingers, done, env, pod, avail, taken, applied, pc, faults, crashes>>

\* OLM writes the Subscription's patch into the Deployment's template.
TemplateChanges ==
  /\ "patch" \in done /\ ~env /\ env' = TRUE
  /\ IF lingers THEN UNCHANGED <<pod, avail>> ELSE pod' = "none" /\ avail' = FALSE
  /\ UNCHANGED <<lingers, done, guest, taken, applied, pc, faults, crashes>>

PodRestarts ==
  /\ env /\ pod # "single" /\ pod' = "single" /\ avail' = TRUE
  /\ UNCHANGED <<lingers, done, guest, env, taken, applied, pc, faults, crashes>>

\* The operator that runs sees the StorageCluster.
Reconcile ==
  /\ "storage" \in done /\ pod \notin taken \cup {"none"}
  /\ taken' = taken \cup {pod}
  /\ UNCHANGED <<lingers, done, guest, env, pod, avail, applied, pc, faults, crashes>>

\* Ceph's volumes are bound through the Immediate class, and only a single-node
\* operator is content with one node.
StorageComesUp ==
  /\ "single" \in taken /\ "ready" \notin guest
  /\ "lvmready" \in guest /\ {"class", "label", "rbd", "cephfs"} \subseteq done
  /\ guest' = guest \cup {"ready"}
  /\ UNCHANGED <<lingers, done, env, pod, avail, taken, applied, pc, faults, crashes>>

ClassesAppear ==
  /\ "ready" \in guest /\ "classes" \notin guest
  /\ guest' = guest \cup {"classes"}
  /\ UNCHANGED <<lingers, done, env, pod, avail, taken, applied, pc, faults, crashes>>

Guest ==
  \/ OperatorsSucceed \/ LVMComesUp \/ TemplateChanges \/ PodRestarts
  \/ Reconcile \/ StorageComesUp \/ ClassesAppear

Next == LaunchCreate \/ Step \/ ApplyFails \/ TimesOut \/ Crash \/ Guest

Spec == Init /\ [][Next]_vars

\* A create that failed is run again, a running one goes on, and each of the
\* cluster's operators gets to what it can do.
FairSpec ==
  /\ Spec /\ WF_vars(LaunchCreate) /\ WF_vars(Step)
  /\ WF_vars(OperatorsSucceed) /\ WF_vars(LVMComesUp) /\ WF_vars(TemplateChanges)
  /\ WF_vars(PodRestarts) /\ WF_vars(Reconcile) /\ WF_vars(StorageComesUp)
  /\ WF_vars(ClassesAppear)

-----------------------------------------------------------------------------
(* Properties *)

TypeOK ==
  /\ lingers \in BOOLEAN /\ done \subseteq DOMAIN Then /\ guest \subseteq DOMAIN Await
  /\ env \in BOOLEAN /\ pod \in {"none", "plain", "single"} /\ avail \in BOOLEAN
  /\ taken \subseteq {"plain", "single"} /\ applied \in BOOLEAN
  /\ pc \in {"idle", "settle", "avail", "record"} \cup DOMAIN Then \cup DOMAIN Await
  /\ faults \in 0..MaxFaults /\ crashes \in 0..MaxCrashes

\* The StorageCluster is created on a cluster that has everything it needs
\* there first: the class its volumes bind through, the node's label, both CSI
\* drivers and the monitoring trim - whatever of an earlier create was cut short
\* (EnableSingleNode: "both must land before the StorageCluster is created").
StorageComesLast == "storage" \in done => done = DOMAIN Then

\* When the StorageCluster is created ocs-operator's Deployment has SINGLE_NODE in
\* its template, whatever of an earlier create was cut short: the only operator in
\* another mode that may see it is a pod from before.  None does, and the restart
\* is over, where Available ends with the old pod.
TemplateFirst == "storage" \in done => env /\ (lingers \/ pod = "single")

\* A create that has recorded the stage leaves a cluster with both ceph
\* StorageClasses (CreateStorageCluster: "Ready alone is not completion").
RecordedIsUsable == applied => "classes" \in guest

\* `create` resume re-runs the stage safely: however often it fails or is
\* killed, but inside the write of state.json (ClusterManager's StateUnreadable),
\* the create that is run again completes it.
RetriesGetThrough == <>applied
=============================================================================
