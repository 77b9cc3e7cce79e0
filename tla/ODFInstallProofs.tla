--------------------------- MODULE ODFInstallProofs ---------------------------
(* The safety of install-odf, for any number of failures and kills.           *)
EXTENDS ODFInstall, TLAPS

Objects == {"operators", "lvm", "class", "patch", "label", "rbd", "cephfs", "trim", "storage"}
Waits == {"csv", "lvmready", "ready", "classes"}

LEMMA Orders == DOMAIN Then = Objects /\ DOMAIN Await = Waits
  BY DEF Then, Await, Objects, Waits

\* What every create has applied, it or one before it, by the time it is at
\* a place of the stage.
AppliedBefore ==
  /\ pc \in {"csv", "lvm"} => {"operators"} \subseteq done
  /\ pc \in {"lvmready", "class"} => {"operators", "lvm"} \subseteq done
  /\ pc = "patch" => {"operators", "lvm", "class"} \subseteq done
  /\ pc \in {"settle", "avail", "label"} => {"operators", "lvm", "class", "patch"} \subseteq done
  /\ pc = "rbd" => {"operators", "lvm", "class", "patch", "label"} \subseteq done
  /\ pc = "cephfs" => {"operators", "lvm", "class", "patch", "label", "rbd"} \subseteq done
  /\ pc = "trim" => Objects \ {"trim", "storage"} \subseteq done
  /\ pc = "storage" => Objects \ {"storage"} \subseteq done
  /\ pc \in {"ready", "classes", "record"} => Objects \subseteq done

\* The record follows the wait for the classes, which nothing takes away.
UsableBefore ==
  /\ pc = "record" => "classes" \in guest
  /\ applied => "classes" \in guest

ODFInv == TypeOK /\ StorageComesLast /\ AppliedBefore /\ UsableBefore

LEMMA ODFInit == Init => ODFInv
<1> SUFFICES ASSUME Init PROVE ODFInv
  OBVIOUS
<1>1. TypeOK
  <2>1. faults \in 0..MaxFaults /\ crashes \in 0..MaxCrashes
    BY ODFAssumption DEF Init
  <2>2. QED BY <2>1 DEF Init, TypeOK
<1>2. StorageComesLast /\ AppliedBefore /\ UsableBefore
  BY DEF Init, StorageComesLast, AppliedBefore, UsableBefore
<1>3. QED BY <1>1, <1>2 DEF ODFInv

\* Each object, one after the other.
LEMMA ApplyStep == ODFInv /\ Apply => ODFInv'
<1> SUFFICES ASSUME ODFInv, Apply PROVE ODFInv'
  OBVIOUS
<1> USE Orders DEF ODFInv, TypeOK, StorageComesLast, AppliedBefore, UsableBefore, Objects, Waits
<1>1. PICK o \in Objects : pc = o /\ done' = done \cup {o} /\ pc' = Then[o]
  BY DEF Apply
<1>2. UNCHANGED <<lingers, guest, env, pod, avail, taken, applied, faults, crashes>>
  BY DEF Apply
<1>3. CASE o \in {"operators", "lvm", "class"}
  BY <1>1, <1>2, <1>3 DEF Then
<1>4. CASE o \in {"patch", "label", "rbd"}
  BY <1>1, <1>2, <1>4 DEF Then
<1>5. CASE o \in {"cephfs", "trim", "storage"}
  BY <1>1, <1>2, <1>5 DEF Then
<1>6. QED BY <1>1, <1>3, <1>4, <1>5

\* A step that applies nothing: the types, and the place it goes to, remain.
LEMMA Frame ==
  ASSUME ODFInv, TypeOK', UNCHANGED done, AppliedBefore', UsableBefore'
  PROVE  ODFInv'
  BY Orders DEF ODFInv, StorageComesLast

LEMMA WaitStep == ODFInv /\ (PollSeen \/ PollEnv \/ PollAvailable \/ Record) => ODFInv'
<1> SUFFICES ASSUME ODFInv, PollSeen \/ PollEnv \/ PollAvailable \/ Record PROVE ODFInv'
  OBVIOUS
<1> USE DEF ODFInv, PollSeen, PollEnv, PollAvailable, Record, cluster
<1>1. PICK l \in {"idle", "lvm", "class", "classes", "record", "avail", "settle", "label"} : pc' = l
  BY Orders DEF Await, Waits
<1>2. TypeOK'
  BY <1>1, Orders DEF TypeOK, Objects, Waits
<1>3. AppliedBefore'
  BY <1>1, Orders DEF AppliedBefore, Await, Waits, Objects
<1>4. UsableBefore'
  BY Orders DEF UsableBefore, Await, Waits
<1>5. QED BY <1>2, <1>3, <1>4, Frame

\* Whatever ends a create early, and what begins one, leaves the cluster alone.
LEMMA LaunchStep == ODFInv /\ (LaunchCreate \/ ApplyFails \/ TimesOut \/ Crash) => ODFInv'
<1> SUFFICES ASSUME ODFInv, LaunchCreate \/ ApplyFails \/ TimesOut \/ Crash PROVE ODFInv'
  OBVIOUS
<1>1. /\ pc' \in {"idle", "operators"} /\ UNCHANGED <<lingers, cluster, applied>>
      /\ faults' \in {faults, faults + 1} /\ (faults' # faults => faults < MaxFaults)
      /\ crashes' \in {crashes, crashes + 1} /\ (crashes' # crashes => crashes < MaxCrashes)
  BY DEF LaunchCreate, ApplyFails, TimesOut, Crash
<1>2. faults' \in 0..MaxFaults /\ crashes' \in 0..MaxCrashes
  BY <1>1, ODFAssumption DEF ODFInv, TypeOK
<1>3. TypeOK'
  BY <1>1, <1>2, Orders DEF ODFInv, TypeOK, cluster, Objects
<1>4. AppliedBefore' /\ UsableBefore'
  BY <1>1 DEF ODFInv, AppliedBefore, UsableBefore, cluster
<1>5. QED BY <1>1, <1>3, <1>4, Frame DEF cluster

\* The operators of the cluster apply nothing and take nothing away.
LEMMA GuestStep == ODFInv /\ Guest => ODFInv'
<1> SUFFICES ASSUME ODFInv, Guest PROVE ODFInv'
  OBVIOUS
<1>1. UNCHANGED <<done, pc, lingers, applied, faults, crashes>>
  BY DEF Guest, OperatorsSucceed, LVMComesUp, TemplateChanges, PodRestarts, Reconcile,
         StorageComesUp, ClassesAppear
<1>2. /\ guest \subseteq guest' /\ guest' \subseteq guest \cup Waits
      /\ env' \in BOOLEAN /\ avail' \in BOOLEAN /\ pod' \in {"none", "plain", "single"}
      /\ taken' \subseteq {"plain", "single"}
  BY DEF Guest, OperatorsSucceed, LVMComesUp, TemplateChanges, PodRestarts, Reconcile,
         StorageComesUp, ClassesAppear, ODFInv, TypeOK, Waits
<1>3. TypeOK'
  BY <1>1, <1>2, Orders DEF ODFInv, TypeOK
<1>4. AppliedBefore' /\ UsableBefore'
  BY <1>1, <1>2 DEF ODFInv, AppliedBefore, UsableBefore
<1>5. QED BY <1>1, <1>3, <1>4, Frame

LEMMA ODFStep == ODFInv /\ [Next]_vars => ODFInv'
<1>1. ODFInv /\ UNCHANGED vars => ODFInv'
  BY Orders DEF ODFInv, TypeOK, StorageComesLast, AppliedBefore, UsableBefore, vars, cluster
<1>2. QED BY <1>1, ApplyStep, WaitStep, LaunchStep, GuestStep DEF Next, Step

LEMMA ODFInvariant == Spec => []ODFInv
  BY ODFInit, ODFStep, PTL DEF Spec

\* Every step of the stage, of its failures and of the cluster's operators keeps
\* the types (install-odf, any number of retries).
THEOREM ODFTypeCorrect == Spec => []TypeOK
<1>1. ODFInv => TypeOK
  BY DEF ODFInv
<1>2. QED BY ODFInvariant, <1>1, PTL

\* However often the stage is cut short and run again, the StorageCluster is
\* applied to a cluster that has everything else.
THEOREM StorageAlwaysLast == Spec => []StorageComesLast
<1>1. ODFInv => StorageComesLast
  BY DEF ODFInv
<1>2. QED BY ODFInvariant, <1>1, PTL

\* A recorded install-odf left both ceph StorageClasses.
THEOREM RecordedAlwaysUsable == Spec => []RecordedIsUsable
<1>1. ODFInv => RecordedIsUsable
  BY DEF ODFInv, UsableBefore, RecordedIsUsable
<1>2. QED BY ODFInvariant, <1>1, PTL

\* A stage past its first wait has operators to wait for no more, and one past
\* EnableSingleNode's a Deployment with SINGLE_NODE in its template, as has the
\* create that goes back to the beginning.
BeforeCSV == {"idle", "operators", "csv"}
BeforeEnv == BeforeCSV \cup {"lvm", "lvmready", "class", "patch", "settle"}

SingleNodeFirst ==
  /\ pc \notin BeforeCSV \/ "patch" \in done \/ env => "csv" \in guest
  /\ pc \notin BeforeEnv \/ "storage" \in done => env

\* Where Available ends with the old pod, it is the new one's once the template
\* has changed, and whoever has waited for it has waited for the new one.
Settled ==
  ~lingers => /\ env /\ avail => pod = "single"
              /\ pc \notin BeforeEnv \cup {"avail"} \/ "storage" \in done => pod = "single"

SingleInv == ODFInv /\ SingleNodeFirst /\ Settled

LEMMA SingleStage ==
  ASSUME SingleInv, Step \/ LaunchCreate \/ ApplyFails \/ TimesOut \/ Crash
  PROVE  SingleNodeFirst'
<1> USE DEF SingleInv, SingleNodeFirst, BeforeCSV, BeforeEnv, cluster
<1>1. CASE Apply
  <2>1. PICK o \in Objects : pc = o /\ done' = done \cup {o} /\ pc' = Then[o]
    BY <1>1, Orders DEF Apply
  <2>2. UNCHANGED <<guest, env>>
    BY <1>1 DEF Apply
  <2>3. QED BY <2>1, <2>2 DEF Objects, Then
<1>2. CASE PollSeen
  BY <1>2, Orders DEF PollSeen, Await, Waits
<1>3. CASE PollEnv \/ PollAvailable \/ Record
  BY <1>3 DEF PollEnv, PollAvailable, Record
<1>4. CASE LaunchCreate \/ ApplyFails \/ TimesOut \/ Crash
  BY <1>4 DEF LaunchCreate, ApplyFails, TimesOut, Crash
<1>5. QED BY <1>1, <1>2, <1>3, <1>4 DEF Step

LEMMA SingleStep == SingleInv /\ [Next]_vars => SingleInv'
<1> SUFFICES ASSUME SingleInv, [Next]_vars PROVE SingleInv'
  OBVIOUS
<1>1. ODFInv'
  BY ODFStep DEF SingleInv
<1>2. CASE Step \/ LaunchCreate \/ ApplyFails \/ TimesOut \/ Crash
  <2>1. UNCHANGED <<lingers, env, pod, avail>>
    BY <1>2 DEF Step, Apply, PollSeen, PollEnv, PollAvailable, Record, LaunchCreate, ApplyFails,
                TimesOut, Crash, cluster
  <2>2. "storage" \in done' => "storage" \in done \/ pc = "storage"
    BY <1>2 DEF Step, Apply, PollSeen, PollEnv, PollAvailable, Record, LaunchCreate, ApplyFails,
                TimesOut, Crash, cluster
  <2>3. pc' \notin BeforeEnv \cup {"avail"} => pc \notin BeforeEnv \cup {"avail"} \/ (pc = "avail" /\ avail)
    <3>1. CASE Apply
      <4>1. PICK o \in Objects : pc = o /\ pc' = Then[o]
        BY <3>1, Orders DEF Apply
      <4>2. QED BY <4>1 DEF Objects, Then, BeforeEnv, BeforeCSV
    <3>2. CASE PollSeen
      BY <3>2, Orders DEF PollSeen, Await, Waits, BeforeEnv, BeforeCSV
    <3>3. CASE PollEnv \/ PollAvailable \/ Record \/ LaunchCreate \/ ApplyFails \/ TimesOut \/ Crash
      BY <3>3 DEF PollEnv, PollAvailable, Record, LaunchCreate, ApplyFails, TimesOut, Crash,
                  BeforeEnv, BeforeCSV
    <3>4. QED BY <1>2, <3>1, <3>2, <3>3 DEF Step
  <2>4. Settled'
    <3>1. pc = "avail" => env
      BY DEF SingleInv, SingleNodeFirst, BeforeEnv, BeforeCSV
    <3>2. pc = "storage" => pc \notin BeforeEnv \cup {"avail"}
      BY DEF BeforeEnv, BeforeCSV
    <3>3. QED BY <2>1, <2>2, <2>3, <3>1, <3>2 DEF SingleInv, Settled
  <2>5. QED BY <1>1, <1>2, <2>4, SingleStage DEF SingleInv
<1>3. CASE Guest
  <2> USE <1>3 DEF Guest, OperatorsSucceed, LVMComesUp, TemplateChanges, PodRestarts, Reconcile,
                   StorageComesUp, ClassesAppear, SingleInv
  <2>1. SingleNodeFirst'
    BY DEF SingleNodeFirst
  <2>2. Settled'
    BY DEF SingleNodeFirst, Settled, BeforeEnv
  <2>3. QED BY <1>1, <2>1, <2>2
<1>4. CASE UNCHANGED vars
  BY <1>1, <1>4 DEF SingleInv, SingleNodeFirst, Settled, vars, cluster
<1>5. QED BY <1>2, <1>3, <1>4 DEF Next

\* Whatever fails or is killed, the StorageCluster is created when the template of
\* ocs-operator's Deployment has SINGLE_NODE, and when the restart is over, but for
\* an Available that is still the old pod's.
THEOREM TemplateAlwaysFirst == Spec => []TemplateFirst
<1>1. Init => SingleInv
  BY ODFInit DEF Init, SingleInv, SingleNodeFirst, Settled, BeforeCSV, BeforeEnv
<1>2. SingleInv => TemplateFirst
  BY DEF SingleInv, SingleNodeFirst, Settled, TemplateFirst
<1>3. QED BY <1>1, <1>2, SingleStep, PTL DEF Spec
=============================================================================
