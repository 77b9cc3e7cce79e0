------------------------- MODULE KubeconfigMergeProofs -------------------------
(* Contexts resolve, what is recorded is merged, and a delete removes all of  *)
(* it, for any number of clusters, processes and kubeconfigs.                 *)
EXTENDS KubeconfigMerge, TLAPS

LEMMA Orders ==
  /\ Len(SetOrder) = 3 /\ Len(DeleteOrder) = 3
  /\ SetOrder[1] = "cluster" /\ SetOrder[2] = "user" /\ SetOrder[3] = "context"
  /\ DeleteOrder[1] = "context" /\ DeleteOrder[2] = "cluster" /\ DeleteOrder[3] = "user"
  BY DEF SetOrder, DeleteOrder

\* A process at a cluster has an environment, and the cluster, which exists, to
\* itself.
OneEach ==
  \A p \in Procs :
    /\ pc[p] # "idle" => env[p] \in Targets /\ who[p] \in built
    /\ \A q \in Procs : p # q /\ who[p] = who[q] => who[p] = None

\* A create that is at an entry has set those before it.
SetInOrder ==
  \A p \in Procs : pc[p] = "set" =>
    /\ step[p] > 1 => <<"cluster", who[p]>> \in entries[env[p]]
    /\ step[p] > 2 => <<"user", who[p]>> \in entries[env[p]]
    /\ step[p] > 3 => <<"context", who[p]>> \in entries[env[p]]

\* A delete removes entries of a cluster that is not the current one, the
\* context first.
DeletedInOrder ==
  faults = 0 => \A p \in Procs : pc[p] = "delete" =>
    /\ current[Target(p)] # who[p]
    /\ step[p] > 1 => <<"context", who[p]>> \notin entries[Target(p)]

MergeInv ==
  TypeOK /\ OneEach /\ SetInOrder /\ DeletedInOrder /\ ContextResolves /\ CurrentResolves

LEMMA MergeInit == Init => MergeInv
<1> SUFFICES ASSUME Init PROVE MergeInv
  OBVIOUS
<1>1. faults \in 0..MaxFaults /\ crashes \in 0..MaxCrashes /\ overlaps \in 0..MaxOverlaps
  BY MergeAssumption DEF Init
<1>2. TypeOK
  BY <1>1, Orders DEF Init, TypeOK, NoTargets
<1>3. OneEach /\ SetInOrder /\ DeletedInOrder /\ ContextResolves /\ CurrentResolves
  BY MergeAssumption DEF Init, OneEach, SetInOrder, DeletedInOrder, ContextResolves, CurrentResolves
<1>4. QED BY <1>2, <1>3 DEF MergeInv

LEMMA TargetType ==
  ASSUME TypeOK, OneEach, NEW p \in Procs, pc[p] # "idle"
  PROVE  Target(p) \in Targets
  BY DEF TypeOK, OneEach, Target

LEMMA ExitTypes ==
  ASSUME TypeOK, NEW p \in Procs, Exit(p)
  PROVE  /\ pc' \in [Procs -> {"idle", "target", "set", "record", "current", "unset", "delete", "forget"}]
         /\ step' \in [Procs -> 1..Len(SetOrder) + 1]
         /\ who' \in [Procs -> Clusters \cup {None}] /\ env' \in [Procs -> Targets \cup {None}]
         /\ mem' \in [Procs -> [Clusters -> Targets \cup {None}]]
         /\ \A q \in Procs : (pc'[q] = "idle") = (who'[q] = None)
  BY Orders DEF TypeOK, Exit, Goto, NoTargets

\* A process that ends, having touched no kubeconfig with its last step.
LEMMA ExitKeeps ==
  ASSUME MergeInv, NEW p \in Procs, Exit(p), UNCHANGED <<entries, current>>,
         faults' = 0 => faults = 0, built' = built \/ built' = built \ {who[p]}
  PROVE  OneEach' /\ SetInOrder' /\ DeletedInOrder' /\ ContextResolves' /\ CurrentResolves'
<1> USE DEF MergeInv
<1>1. OneEach'
  BY MergeAssumption DEF TypeOK, OneEach, Exit, Goto
<1>2. SetInOrder'
  BY DEF TypeOK, SetInOrder, Exit, Goto
<1>3. DeletedInOrder'
  BY DEF TypeOK, DeletedInOrder, Exit, Goto, Target
<1>4. ContextResolves' /\ CurrentResolves'
  BY DEF ContextResolves, CurrentResolves
<1>5. QED BY <1>1, <1>2, <1>3, <1>4

LEMMA LaunchKeeps ==
  ASSUME MergeInv, NEW p \in Procs, NEW c \in Clusters, LaunchCreate(p, c) \/ LaunchDelete(p, c)
  PROVE  MergeInv'
<1> USE DEF MergeInv
<1>1. overlaps' \in 0..MaxOverlaps /\ UNCHANGED <<faults, crashes>>
  BY MergeAssumption DEF TypeOK, LaunchCreate, LaunchDelete, Launch
<1>2. PICK l \in {"target", "current", "forget"} :
        pc' = [pc EXCEPT ![p] = l] /\ step' = [step EXCEPT ![p] = 1]
  BY DEF LaunchCreate, LaunchDelete, Launch, Goto
<1>3. PICK t \in Targets : env' = [env EXCEPT ![p] = t]
  BY DEF LaunchCreate, LaunchDelete, Launch
<1> /\ pc[p] = "idle" /\ \A q \in Procs : who[q] # c
    /\ who' = [who EXCEPT ![p] = c] /\ mem' = [mem EXCEPT ![p] = saved]
    /\ built' = built \cup {c} /\ UNCHANGED <<entries, current, saved, applied>>
  BY DEF LaunchCreate, LaunchDelete, Launch, disk
<1>4. TypeOK'
  <2>1. /\ pc' \in [Procs -> {"idle", "target", "set", "record", "current", "unset", "delete", "forget"}]
        /\ step' \in [Procs -> 1..Len(SetOrder) + 1]
    BY <1>2, Orders DEF TypeOK
  <2>2. /\ who' \in [Procs -> Clusters \cup {None}] /\ env' \in [Procs -> Targets \cup {None}]
        /\ mem' \in [Procs -> [Clusters -> Targets \cup {None}]]
    BY <1>3 DEF TypeOK
  <2>3. \A q \in Procs : (pc'[q] = "idle") = (who'[q] = None)
    BY <1>2, MergeAssumption DEF TypeOK
  <2>4. applied' \subseteq built' /\ built' \subseteq Clusters /\ UNCHANGED <<entries, current, saved>>
    BY DEF TypeOK
  <2>5. QED BY <1>1, <2>1, <2>2, <2>3, <2>4 DEF TypeOK
<1>5. OneEach'
  <2>1. ASSUME NEW q \in Procs, pc'[q] # "idle" PROVE env'[q] \in Targets /\ who'[q] \in built'
    BY <1>2, <1>3, <2>1 DEF TypeOK, OneEach
  <2>2. ASSUME NEW q \in Procs, NEW r \in Procs, q # r, who'[q] = who'[r] PROVE who'[q] = None
    BY <2>2 DEF TypeOK, OneEach
  <2>3. QED BY <2>1, <2>2 DEF OneEach
<1>6. SetInOrder'
  BY <1>2, <1>3 DEF TypeOK, SetInOrder
<1>7. DeletedInOrder'
  <2>1. ASSUME NEW q \in Procs, pc'[q] = "delete"
        PROVE  q # p /\ pc[q] = "delete" /\ Target(q)' = Target(q) /\ UNCHANGED <<who[q], step[q]>>
    BY <1>2, <1>3, <2>1 DEF TypeOK, Target
  <2>2. QED BY <1>1, <2>1 DEF DeletedInOrder
<1>8. ContextResolves' /\ CurrentResolves'
  BY <1>1 DEF ContextResolves, CurrentResolves
<1>9. QED BY <1>4, <1>5, <1>6, <1>7, <1>8

LEMMA ApplyKeeps ==
  ASSUME MergeInv, NEW p \in Procs, ApplyStep(p)
  PROVE  MergeInv'
<1> USE DEF MergeInv
<1>1. CASE Resolve(p)
  <2> USE <1>1 DEF Resolve, SaveTarget, Goto, bounds
  <2>1. TypeOK'
    BY Orders, MergeAssumption DEF TypeOK, OneEach
  <2>2. OneEach' /\ SetInOrder'
    BY DEF TypeOK, OneEach, SetInOrder
  <2>3. DeletedInOrder'
    BY DEF TypeOK, DeletedInOrder, Target
  <2>4. ContextResolves' /\ CurrentResolves'
    BY DEF ContextResolves, CurrentResolves
  <2>5. QED BY <2>1, <2>2, <2>3, <2>4
<1>2. CASE SetEntry(p)
  <2> USE <1>2 DEF SetEntry, bounds
  <2>1. step[p] \in 1..3 /\ env[p] \in Targets /\ who[p] \in Clusters
    BY Orders DEF TypeOK, OneEach
  <2>2. SetOrder[step[p]] \in Kinds
    BY <2>1, Orders DEF Kinds
  <2>3. TypeOK'
    BY <2>1, <2>2, Orders DEF TypeOK
  <2>4. OneEach'
    BY DEF OneEach
  <2>5. SetInOrder'
    <3>1. ASSUME NEW q \in Procs, NEW e, e \in entries[env[q]] PROVE e \in entries'[env[q]]
      BY <2>1, <3>1 DEF TypeOK
    <3>2. <<SetOrder[step[p]], who[p]>> \in entries'[env[p]] /\ step'[p] = step[p] + 1
      BY <2>1 DEF TypeOK
    <3>3. ASSUME NEW q \in Procs, q # p PROVE step'[q] = step[q]
      BY <3>3 DEF TypeOK
    <3>4. /\ step'[p] > 1 => <<"cluster", who[p]>> \in entries'[env[p]]
          /\ step'[p] > 2 => <<"user", who[p]>> \in entries'[env[p]]
          /\ step'[p] > 3 => <<"context", who[p]>> \in entries'[env[p]]
      BY <2>1, <3>1, <3>2, Orders DEF SetInOrder
    <3>5. QED BY <3>1, <3>3, <3>4 DEF SetInOrder
  <2>6. DeletedInOrder'
    <3>1. ASSUME NEW q \in Procs, pc[q] = "delete"
          PROVE  q # p /\ who[q] # who[p] /\ step'[q] = step[q]
      BY <2>1, <3>1, MergeAssumption DEF TypeOK, OneEach
    <3>2. ASSUME NEW q \in Procs, NEW u \in Targets, who[q] # who[p],
                 <<"context", who[q]>> \notin entries[u]
          PROVE  <<"context", who[q]>> \notin entries'[u]
      BY <3>2 DEF TypeOK
    <3>3. \A q \in Procs : pc[q] = "delete" => Target(q) \in Targets /\ Target(q)' = Target(q)
      BY TargetType DEF Target
    <3>4. QED BY <3>1, <3>2, <3>3 DEF DeletedInOrder
  <2>7. ContextResolves'
    BY <2>1, Orders DEF TypeOK, SetInOrder, ContextResolves
  <2>8. CurrentResolves'
    BY <2>1 DEF TypeOK, CurrentResolves
  <2>9. QED BY <2>3, <2>4, <2>5, <2>6, <2>7, <2>8
<1>3. CASE UseContext(p)
  <2> USE <1>3 DEF UseContext, Goto, bounds
  <2>1. step[p] > 3 /\ env[p] \in Targets /\ who[p] \in Clusters
    BY Orders DEF TypeOK, OneEach
  <2>2. TypeOK'
    BY <2>1, Orders DEF TypeOK
  <2>3. OneEach' /\ SetInOrder' /\ ContextResolves'
    BY DEF TypeOK, OneEach, SetInOrder, ContextResolves
  <2>4. DeletedInOrder'
    BY <2>1, MergeAssumption DEF TypeOK, OneEach, DeletedInOrder, Target
  <2>5. CurrentResolves'
    BY <2>1 DEF TypeOK, SetInOrder, CurrentResolves
  <2>6. QED BY <2>2, <2>3, <2>4, <2>5
<1>4. CASE Record(p)
  <2>1. TypeOK'
    BY <1>4, ExitTypes DEF Record, TypeOK, OneEach, bounds
  <2>2. QED BY <1>4, <2>1, ExitKeeps DEF Record, bounds
<1>5. QED BY <1>1, <1>2, <1>3, <1>4 DEF ApplyStep

LEMMA RollbackKeeps ==
  ASSUME MergeInv, NEW p \in Procs, RollbackStep(p)
  PROVE  MergeInv'
<1> USE DEF MergeInv
<1>1. CASE FindsCurrent(p)
  <2> USE <1>1 DEF FindsCurrent, Goto, disk, bounds
  <2>1. TypeOK'
    BY Orders, MergeAssumption DEF TypeOK, OneEach
  <2>2. OneEach' /\ SetInOrder' /\ ContextResolves' /\ CurrentResolves'
    BY DEF TypeOK, OneEach, SetInOrder, ContextResolves, CurrentResolves
  <2>3. DeletedInOrder'
    <3>1. \A q \in Procs : Target(q)' = Target(q)
      BY DEF Target
    <3>2. ASSUME NEW q \in Procs, pc'[q] = "delete"
          PROVE  \/ pc[q] = "delete" /\ step'[q] = step[q]
                 \/ current[Target(q)] # who[q] /\ step'[q] = 1
      BY <3>2 DEF TypeOK
    <3>3. QED BY <3>1, <3>2 DEF DeletedInOrder
  <2>4. QED BY <2>1, <2>2, <2>3
<1>2. CASE UnsetCurrent(p)
  <2> USE <1>2 DEF UnsetCurrent, Goto, bounds
  <2>1. Target(p) \in Targets /\ who[p] \in Clusters
    BY TargetType DEF TypeOK, OneEach
  <2>2. TypeOK'
    BY <2>1, Orders DEF TypeOK
  <2>3. OneEach' /\ SetInOrder' /\ ContextResolves'
    BY DEF TypeOK, OneEach, SetInOrder, ContextResolves
  <2>4. CurrentResolves'
    BY <2>1, MergeAssumption DEF TypeOK, CurrentResolves
  <2>5. DeletedInOrder'
    BY <2>1, MergeAssumption DEF TypeOK, OneEach, DeletedInOrder, Target
  <2>6. QED BY <2>2, <2>3, <2>4, <2>5
<1>3. CASE DeleteEntry(p)
  <2> USE <1>3 DEF DeleteEntry, bounds
  <2>1. Target(p) \in Targets /\ who[p] \in Clusters /\ step[p] \in 1..3
    BY TargetType, Orders DEF TypeOK, OneEach
  <2>2. TypeOK'
    BY <2>1, Orders DEF TypeOK
  <2>3. OneEach'
    BY DEF OneEach
  <2>4. SetInOrder'
    BY <2>1, MergeAssumption DEF TypeOK, OneEach, SetInOrder
  <2>5. DeletedInOrder'
    BY <2>1, Orders DEF TypeOK, DeletedInOrder, Target
  <2>6. ContextResolves'
    BY <2>1, Orders DEF TypeOK, DeletedInOrder, ContextResolves
  <2>7. CurrentResolves'
    BY <2>1 DEF TypeOK, DeletedInOrder, CurrentResolves
  <2>8. QED BY <2>2, <2>3, <2>4, <2>5, <2>6, <2>7
<1>4. CASE Unmerged(p)
  <2> USE <1>4 DEF Unmerged, SaveTarget, Goto, bounds
  <2>1. TypeOK'
    BY Orders, MergeAssumption DEF TypeOK, OneEach
  <2>2. OneEach' /\ SetInOrder' /\ ContextResolves' /\ CurrentResolves'
    BY DEF TypeOK, OneEach, SetInOrder, ContextResolves, CurrentResolves
  <2>3. DeletedInOrder'
    BY DEF TypeOK, DeletedInOrder, Target
  <2>4. QED BY <2>1, <2>2, <2>3
<1>5. CASE Forget(p)
  <2>1. TypeOK'
    BY <1>5, ExitTypes DEF Forget, TypeOK, OneEach, bounds
  <2>2. QED BY <1>5, <2>1, ExitKeeps DEF Forget, bounds
<1>6. QED BY <1>1, <1>2, <1>3, <1>4, <1>5 DEF RollbackStep

LEMMA FailureKeeps ==
  ASSUME MergeInv, NEW p \in Procs, ApplyFails(p) \/ RollbackFails(p) \/ Crash(p)
  PROVE  MergeInv'
<1> USE DEF MergeInv
<1>1. faults' \in 0..MaxFaults /\ crashes' \in 0..MaxCrashes /\ (faults' = 0 => faults = 0)
  BY MergeAssumption DEF TypeOK, ApplyFails, RollbackFails, Crash
<1>2. CASE ApplyFails(p) \/ Crash(p)
  <2>1. TypeOK'
    BY <1>1, <1>2, ExitTypes DEF ApplyFails, Crash, TypeOK, disk
  <2>2. QED BY <1>1, <1>2, <2>1, ExitKeeps DEF ApplyFails, Crash, disk
<1>3. CASE RollbackFails(p)
  <2> USE <1>3 DEF RollbackFails, Goto, disk
  <2>1. TypeOK'
    <3>1. CASE pc[p] \in {"current", "unset"} /\ Goto(p, "delete")
      BY <1>1, <3>1, Orders, MergeAssumption DEF TypeOK, OneEach
    <3>2. CASE step[p] <= Len(DeleteOrder) /\ step' = [step EXCEPT ![p] = @ + 1] /\ UNCHANGED pc
      <4>1. step' \in [Procs -> 1..Len(SetOrder) + 1]
        BY <3>2, Orders DEF TypeOK
      <4>2. QED BY <1>1, <3>2, <4>1 DEF TypeOK
    <3>3. QED BY <3>1, <3>2
  <2>2. faults' > 0
    BY DEF TypeOK
  <2>3. DeletedInOrder' /\ ContextResolves' /\ CurrentResolves'
    BY <2>2 DEF DeletedInOrder, ContextResolves, CurrentResolves
  <2>4. OneEach' /\ SetInOrder'
    BY DEF TypeOK, OneEach, SetInOrder
  <2>5. QED BY <2>1, <2>3, <2>4
<1>4. QED BY <1>2, <1>3

LEMMA MergeStep == MergeInv /\ [Next]_vars => MergeInv'
<1> SUFFICES ASSUME MergeInv, [Next]_vars PROVE MergeInv'
  OBVIOUS
<1>1. CASE UNCHANGED vars
  BY <1>1 DEF MergeInv, TypeOK, OneEach, SetInOrder, DeletedInOrder, ContextResolves,
              CurrentResolves, Target, vars, disk, proc, bounds
<1>2. CASE Next
  BY <1>2, LaunchKeeps, ApplyKeeps, RollbackKeeps, FailureKeeps DEF Next
<1>3. QED BY <1>1, <1>2

LEMMA MergeInvariant == Spec => []MergeInv
  BY MergeInit, MergeStep, PTL DEF Spec

\* Every create, delete, kill and failing call keeps the types.
THEOREM MergeTypeCorrect == Spec => []TypeOK
<1>1. MergeInv => TypeOK
  BY DEF MergeInv
<1>2. QED BY MergeInvariant, <1>1, PTL

\* However many processes create and delete, and are killed, a context is there
\* only with its cluster and its user, and a current context is there with its
\* context, as long as no call of oc fails.
THEOREM ContextsAlwaysResolve == Spec => []ContextsResolve
<1>1. MergeInv => ContextsResolve
  BY DEF MergeInv, ContextsResolve
<1>2. QED BY MergeInvariant, <1>1, PTL

-----------------------------------------------------------------------------
(* What is recorded and what is left, while one command runs at a time and    *)
(* none is killed: config.json and the memory of the command agree.           *)

Quiet == crashes = 0 /\ overlaps = 0

Alone == \A p, q \in Procs : pc[p] # "idle" /\ pc[q] # "idle" => p = q

\* What a command has saved, recorded and set by the time it is at a place.
Work(p) ==
  /\ mem[p] = saved
  /\ pc[p] \in {"target", "set"} => who[p] \notin applied
  /\ pc[p] \in {"set", "record"} => saved[who[p]] = env[p]
  /\ pc[p] = "record" => \A k \in Kinds : <<k, who[p]>> \in entries[env[p]]
  /\ pc[p] \in {"current", "unset", "delete"} => who[p] \in applied /\ saved[who[p]] \in Targets
  /\ pc[p] = "forget" => who[p] \notin applied

Merged(c) == saved[c] \in Targets /\ \A k \in Kinds : <<k, c>> \in entries[saved[c]]

Idle(c) == \A p \in Procs : who[p] # c

RecordedInv ==
  Quiet => /\ Alone
           /\ \A p \in Procs : pc[p] # "idle" => Work(p)
           /\ \A c \in applied : Idle(c) => Merged(c)

LEMMA QuietGrows == MergeInv /\ Next => (Quiet' => Quiet)
<1> SUFFICES ASSUME MergeInv, Next PROVE Quiet' => Quiet
  OBVIOUS
<1>1. PICK p \in Procs :
        \/ \E c \in Clusters : LaunchCreate(p, c) \/ LaunchDelete(p, c)
        \/ ApplyStep(p) \/ RollbackStep(p) \/ ApplyFails(p) \/ RollbackFails(p) \/ Crash(p)
  BY DEF Next
<1>2. crashes' \in {crashes, crashes + 1} /\ overlaps' \in {overlaps, overlaps + 1}
  BY <1>1 DEF LaunchCreate, LaunchDelete, Launch, ApplyStep, Resolve, SetEntry, UseContext, Record,
              RollbackStep, FindsCurrent, UnsetCurrent, DeleteEntry, Unmerged, Forget, ApplyFails,
              RollbackFails, Crash, bounds
<1>3. crashes \in Nat /\ overlaps \in Nat
  BY MergeAssumption DEF MergeInv, TypeOK
<1>4. QED BY <1>2, <1>3 DEF Quiet

\* A step of p that goes on: no other process runs, and of the rest only what is
\* recorded of the clusters nobody is at has to be looked at.
LEMMA RecordedClose ==
  ASSUME RecordedInv, NEW p \in Procs, pc[p] # "idle", Quiet' => Quiet,
         \A q \in Procs : q # p => pc'[q] = pc[q],
         Quiet' => (pc'[p] # "idle" => Work(p)') /\ \A c \in applied' : Idle(c)' => Merged(c)'
  PROVE  RecordedInv'
<1>1. Quiet' => \A q \in Procs : q # p => pc'[q] = "idle"
  BY DEF RecordedInv, Alone
<1>2. QED BY <1>1 DEF RecordedInv, Alone

LEMMA RecordedLaunch ==
  ASSUME MergeInv, RecordedInv, Quiet' => Quiet, NEW p \in Procs, NEW c \in Clusters,
         LaunchCreate(p, c) \/ LaunchDelete(p, c)
  PROVE  RecordedInv'
<1> USE DEF MergeInv
<1>1. Quiet' => \A q \in Procs : pc[q] = "idle"
  BY MergeAssumption DEF Quiet, TypeOK, LaunchCreate, LaunchDelete, Launch
<1>2. /\ \A q \in Procs : q # p => pc'[q] = pc[q]
      /\ who' = [who EXCEPT ![p] = c] /\ mem'[p] = saved
      /\ UNCHANGED <<entries, saved, applied>>
      /\ \/ pc'[p] = "target" /\ c \notin applied
         \/ pc'[p] = "current" /\ c \in applied
         \/ pc'[p] = "forget" /\ c \notin applied
  BY DEF TypeOK, LaunchCreate, LaunchDelete, Launch, Goto, disk
<1>3. who'[p] = c /\ Idle(c) /\ \A d \in Clusters : Idle(d)' => Idle(d) \/ d = None
  BY <1>2 DEF TypeOK, Idle, LaunchCreate, LaunchDelete, Launch
<1>4. Quiet' => Work(p)'
  BY <1>2, <1>3 DEF Work, RecordedInv, Merged
<1>5. Quiet' => \A d \in applied' : Idle(d)' => Merged(d)'
  <2>1. applied \subseteq Clusters /\ None \notin Clusters
    BY MergeAssumption DEF TypeOK
  <2>2. QED BY <1>2, <1>3, <2>1 DEF RecordedInv, Merged
<1>6. Quiet' => \A q \in Procs : q # p => pc'[q] = "idle"
  BY <1>1, <1>2
<1>7. QED BY <1>4, <1>5, <1>6 DEF RecordedInv, Alone

LEMMA RecordedApply ==
  ASSUME MergeInv, RecordedInv, Quiet' => Quiet, NEW p \in Procs, ApplyStep(p)
  PROVE  RecordedInv'
<1> USE DEF MergeInv
<1>1. pc[p] # "idle" /\ who[p] \in Clusters /\ env[p] \in Targets
  BY DEF TypeOK, OneEach, ApplyStep, Resolve, SetEntry, UseContext, Record
<1>2. \A q \in Procs : q # p => pc'[q] = pc[q]
  BY DEF TypeOK, ApplyStep, Resolve, SetEntry, UseContext, Record, Exit, Goto
<1>3. Quiet => Work(p) /\ \A c \in applied : Idle(c) => Merged(c)
  BY <1>1 DEF RecordedInv
<1>4. applied \subseteq Clusters /\ None \notin Clusters
  BY MergeAssumption DEF TypeOK
<1>5. CASE Resolve(p)
  <2>1. /\ pc'[p] = "set" /\ mem'[p] = saved' /\ saved'[who[p]] = env[p]
        /\ \A c \in Clusters : c # who[p] => saved'[c] = mem[p][c]
        /\ UNCHANGED <<entries, applied, who, env>> /\ pc[p] = "target"
    BY <1>1, <1>5 DEF TypeOK, Resolve, SaveTarget, Goto
  <2>2. Quiet => Work(p)'
    BY <1>3, <2>1 DEF Work
  <2>3. Quiet => \A c \in applied' : Idle(c)' => Merged(c)'
    BY <1>3, <1>4, <2>1 DEF Work, Idle, Merged
  <2>4. QED BY <1>1, <1>2, <2>2, <2>3, RecordedClose
<1>6. CASE SetEntry(p)
  <2>1. /\ UNCHANGED <<saved, applied, who, env, mem>> /\ pc'[p] = pc[p] /\ pc[p] = "set"
        /\ \A t \in Targets : entries[t] \subseteq entries'[t]
    BY <1>6 DEF TypeOK, SetEntry
  <2>2. Quiet => Work(p)'
    BY <1>3, <2>1 DEF Work
  <2>3. Quiet => \A c \in applied' : Idle(c)' => Merged(c)'
    BY <1>3, <2>1 DEF Idle, Merged
  <2>4. QED BY <1>1, <1>2, <2>2, <2>3, RecordedClose
<1>7. CASE UseContext(p)
  <2>1. /\ UNCHANGED <<entries, saved, applied, who, env, mem>>
        /\ pc[p] = "set" /\ pc'[p] = "record" /\ step[p] > 3
    BY <1>7, Orders DEF TypeOK, UseContext, Goto
  <2>2. \A k \in Kinds : <<k, who[p]>> \in entries[env[p]]
    <3>1. step[p] \in Nat
      BY Orders DEF TypeOK
    <3>2. /\ <<"cluster", who[p]>> \in entries[env[p]] /\ <<"user", who[p]>> \in entries[env[p]]
          /\ <<"context", who[p]>> \in entries[env[p]]
      BY <2>1, <3>1 DEF SetInOrder
    <3>3. QED BY <3>2 DEF Kinds
  <2>3. Quiet => Work(p)'
    BY <1>3, <2>1, <2>2 DEF Work
  <2>4. Quiet => \A c \in applied' : Idle(c)' => Merged(c)'
    BY <1>3, <2>1 DEF Idle, Merged
  <2>5. QED BY <1>1, <1>2, <2>3, <2>4, RecordedClose
<1>8. CASE Record(p)
  <2>1. /\ UNCHANGED <<entries, saved>> /\ pc'[p] = "idle" /\ pc[p] = "record"
        /\ applied' = applied \cup {who[p]}
        /\ \A c \in Clusters : Idle(c)' => Idle(c) \/ c = who[p]
    BY <1>1, <1>8 DEF TypeOK, OneEach, Record, Exit, Goto, Idle
  <2>2. Quiet => \A c \in applied' : Idle(c)' => Merged(c)'
    BY <1>1, <1>3, <1>4, <2>1 DEF Work, Merged
  <2>3. QED BY <1>1, <1>2, <2>1, <2>2, RecordedClose
<1>9. QED BY <1>5, <1>6, <1>7, <1>8 DEF ApplyStep

LEMMA RecordedRollback ==
  ASSUME MergeInv, RecordedInv, Quiet' => Quiet, NEW p \in Procs, RollbackStep(p)
  PROVE  RecordedInv'
<1> USE DEF MergeInv
<1>1. pc[p] # "idle" /\ who[p] \in Clusters /\ Target(p) \in Targets
  <2>1. pc[p] # "idle"
    BY DEF RollbackStep, FindsCurrent, UnsetCurrent, DeleteEntry, Unmerged, Forget
  <2>2. QED BY <2>1, TargetType DEF TypeOK, OneEach
<1>2. \A q \in Procs : q # p => pc'[q] = pc[q]
  BY DEF TypeOK, RollbackStep, FindsCurrent, UnsetCurrent, DeleteEntry, Unmerged, Forget, Exit, Goto
<1>3. Quiet => Work(p) /\ \A c \in applied : Idle(c) => Merged(c)
  BY <1>1 DEF RecordedInv
<1>4. applied \subseteq Clusters /\ None \notin Clusters
  BY MergeAssumption DEF TypeOK
<1>5. CASE FindsCurrent(p) \/ UnsetCurrent(p) \/ DeleteEntry(p)
  <2>1. /\ UNCHANGED <<saved, applied, who, env, mem>>
        /\ pc[p] \in {"current", "unset", "delete"} /\ pc'[p] \in {"current", "unset", "delete"}
    BY <1>5 DEF TypeOK, FindsCurrent, UnsetCurrent, DeleteEntry, Goto, disk
  <2>2. \A t \in Targets, c \in Clusters, k \in Kinds :
          <<k, c>> \in entries[t] => <<k, c>> \in entries'[t] \/ c = who[p]
    BY <1>1, <1>5 DEF TypeOK, FindsCurrent, UnsetCurrent, DeleteEntry, disk
  <2>3. Quiet => Work(p)'
    BY <1>3, <2>1 DEF Work
  <2>4. Quiet => \A c \in applied' : Idle(c)' => Merged(c)'
    BY <1>3, <1>4, <2>1, <2>2 DEF Idle, Merged
  <2>5. QED BY <1>1, <1>2, <2>3, <2>4, RecordedClose
<1>6. CASE Unmerged(p)
  <2>1. /\ UNCHANGED <<entries, who, env>> /\ pc'[p] = "forget"
        /\ applied' = applied \ {who[p]} /\ mem'[p] = saved'
        /\ \A c \in Clusters : c # who[p] => saved'[c] = mem[p][c]
    BY <1>1, <1>6 DEF TypeOK, Unmerged, SaveTarget, Goto
  <2>2. Quiet => Work(p)'
    BY <2>1 DEF Work
  <2>3. Quiet => \A c \in applied' : Idle(c)' => Merged(c)'
    BY <1>3, <1>4, <2>1 DEF Work, Idle, Merged
  <2>4. QED BY <1>1, <1>2, <2>2, <2>3, RecordedClose
<1>7. CASE Forget(p)
  <2>1. /\ UNCHANGED entries /\ pc'[p] = "idle" /\ applied' = applied \ {who[p]}
        /\ \A c \in Clusters : c # who[p] => saved'[c] = mem[p][c]
        /\ \A c \in Clusters : Idle(c)' => Idle(c) \/ c = who[p]
    BY <1>1, <1>7 DEF TypeOK, OneEach, Forget, Exit, Goto, Idle
  <2>2. Quiet => \A c \in applied' : Idle(c)' => Merged(c)'
    BY <1>3, <1>4, <2>1 DEF Work, Merged
  <2>3. QED BY <1>1, <1>2, <2>1, <2>2, RecordedClose
<1>8. QED BY <1>5, <1>6, <1>7 DEF RollbackStep

LEMMA RecordedFailure ==
  ASSUME MergeInv, RecordedInv, Quiet' => Quiet, NEW p \in Procs,
         ApplyFails(p) \/ RollbackFails(p) \/ Crash(p)
  PROVE  RecordedInv'
<1> USE DEF MergeInv
<1>1. pc[p] # "idle" /\ who[p] \in Clusters
  BY DEF TypeOK, OneEach, ApplyFails, RollbackFails, Crash
<1>2. \A q \in Procs : q # p => pc'[q] = pc[q]
  BY DEF TypeOK, ApplyFails, RollbackFails, Crash, Exit, Goto
<1>3. Quiet => Work(p) /\ \A c \in applied : Idle(c) => Merged(c)
  BY <1>1 DEF RecordedInv
<1>4. UNCHANGED <<entries, saved, applied>> /\ applied \subseteq Clusters
  BY DEF TypeOK, ApplyFails, RollbackFails, Crash, disk
<1>5. CASE ApplyFails(p)
  <2>1. pc[p] = "set" /\ pc'[p] = "idle" /\ \A c \in Clusters : Idle(c)' => Idle(c) \/ c = who[p]
    BY <1>1, <1>5 DEF TypeOK, OneEach, ApplyFails, Exit, Goto, Idle
  <2>2. Quiet => \A c \in applied' : Idle(c)' => Merged(c)'
    BY <1>3, <1>4, <2>1 DEF Work, Merged
  <2>3. QED BY <1>1, <1>2, <2>1, <2>2, RecordedClose
<1>6. CASE RollbackFails(p)
  <2>1. /\ UNCHANGED <<who, env, mem>>
        /\ pc[p] \in {"current", "unset", "delete"} /\ pc'[p] = "delete"
    BY <1>6 DEF TypeOK, RollbackFails, Goto
  <2>2. Quiet => Work(p)'
    BY <1>3, <1>4, <2>1 DEF Work
  <2>3. Quiet => \A c \in applied' : Idle(c)' => Merged(c)'
    BY <1>3, <1>4, <2>1 DEF Idle, Merged
  <2>4. QED BY <1>1, <1>2, <2>2, <2>3, RecordedClose
<1>7. CASE Crash(p)
  <2>1. ~Quiet'
    BY <1>7, MergeAssumption DEF TypeOK, Crash, Quiet
  <2>2. QED BY <2>1 DEF RecordedInv
<1>8. QED BY <1>5, <1>6, <1>7

LEMMA RecordedStep == MergeInv /\ RecordedInv /\ [Next]_vars => RecordedInv'
<1> SUFFICES ASSUME MergeInv, RecordedInv, [Next]_vars PROVE RecordedInv'
  OBVIOUS
<1>1. CASE UNCHANGED vars
  BY <1>1 DEF RecordedInv, Quiet, Alone, Work, Idle, Merged, vars, disk, proc, bounds
<1>2. CASE Next
  BY <1>2, QuietGrows, RecordedLaunch, RecordedApply, RecordedRollback, RecordedFailure DEF Next
<1>3. QED BY <1>1, <1>2

LEMMA RecordedInvariant == Spec => []RecordedInv
<1>1. Init => RecordedInv
  BY DEF Init, RecordedInv, Alone
<1>2. QED BY MergeInvariant, <1>1, RecordedStep, PTL DEF Spec

\* A recorded stage has merged all entries into the file that config.json names,
\* for any number of clusters, kubeconfigs and failing calls, while no command is
\* killed and none overlaps another.
THEOREM RecordedAlwaysMerged == Spec => []RecordedIsMerged
<1>1. RecordedInv => RecordedIsMerged
  BY DEF RecordedInv, Quiet, Merged, Idle, RecordedIsMerged
<1>2. QED BY RecordedInvariant, <1>1, PTL

-----------------------------------------------------------------------------
(* What a delete leaves: while no call fails either, a kubeconfig has entries *)
(* of a cluster only if it is the one saved, and a delete takes them from it  *)
(* one by one.                                                                *)

Has(t, c) == \E k \in Kinds : <<k, c>> \in entries[t]

\* Whose entries there may be: recorded clusters', and those of a create that
\* has saved its target.
Merging(c) == \E p \in Procs : who[p] = c /\ pc[p] \in {"set", "record"}

Calm == Quiet /\ faults = 0

LeftInv ==
  Calm =>
    /\ \A c \in Clusters, t \in Targets : Has(t, c) => t = saved[c] /\ (c \in applied \/ Merging(c))
    /\ \A p \in Procs : pc[p] = "delete" =>
         \A i \in 1..3 : i < step[p] => <<DeleteOrder[i], who[p]>> \notin entries[Target(p)]

\* In a step of p no other process is at a cluster.
LEMMA LeftClose ==
  ASSUME RecordedInv, LeftInv, NEW p \in Procs, pc[p] # "idle", UNCHANGED bounds,
         \A q \in Procs : q # p => pc'[q] = pc[q],
         Calm => /\ \A c \in Clusters, t \in Targets :
                      Has(t, c)' => /\ t = saved'[c]
                                    /\ c \in applied' \/ (who'[p] = c /\ pc'[p] \in {"set", "record"})
                 /\ pc'[p] = "delete" =>
                      \A i \in 1..3 : i < step'[p] => <<DeleteOrder[i], who'[p]>> \notin entries'[Target(p)']
  PROVE  LeftInv'
<1>1. Calm' => Calm /\ Quiet
  BY DEF Calm, Quiet, bounds
<1>2. Quiet => \A q \in Procs : q # p => pc'[q] = "idle"
  BY DEF RecordedInv, Alone
<1>3. QED BY <1>1, <1>2 DEF LeftInv, Merging

\* What p is at while it is at a cluster, and what the others have left.
LEMMA LeftOpen ==
  ASSUME MergeInv, RecordedInv, LeftInv, NEW p \in Procs, pc[p] # "idle", Calm
  PROVE  /\ Work(p)
         /\ \A c \in Clusters, t \in Targets :
              Has(t, c) => t = saved[c] /\ (c \in applied \/ (who[p] = c /\ pc[p] \in {"set", "record"}))
  BY DEF RecordedInv, Alone, LeftInv, Merging, Calm

LEMMA LeftLaunch ==
  ASSUME MergeInv, RecordedInv, LeftInv, NEW p \in Procs, NEW c \in Clusters,
         LaunchCreate(p, c) \/ LaunchDelete(p, c)
  PROVE  LeftInv'
<1> USE DEF MergeInv
<1>1. Quiet' => \A q \in Procs : pc[q] = "idle"
  BY MergeAssumption DEF Quiet, TypeOK, LaunchCreate, LaunchDelete, Launch
<1>2. /\ \A q \in Procs : q # p => pc'[q] = pc[q]
      /\ UNCHANGED <<entries, saved, applied>> /\ pc'[p] \in {"target", "current", "forget"}
  BY DEF TypeOK, LaunchCreate, LaunchDelete, Launch, Goto, disk
<1>3. Calm' => Calm
  BY MergeAssumption DEF Calm, Quiet, TypeOK, LaunchCreate, LaunchDelete, Launch
<1>4. Calm' => \A d \in Clusters, t \in Targets : Has(t, d)' => t = saved'[d] /\ d \in applied'
  BY <1>1, <1>2, <1>3 DEF LeftInv, Has, Merging, Calm
<1>5. Calm' => \A q \in Procs : pc'[q] # "delete"
  BY <1>1, <1>2 DEF Calm
<1>6. QED BY <1>4, <1>5 DEF LeftInv

LEMMA LeftApply ==
  ASSUME MergeInv, RecordedInv, LeftInv, NEW p \in Procs, ApplyStep(p)
  PROVE  LeftInv'
<1> USE DEF MergeInv
<1>1. pc[p] # "idle" /\ who[p] \in Clusters /\ env[p] \in Targets
  BY DEF TypeOK, OneEach, ApplyStep, Resolve, SetEntry, UseContext, Record
<1>2. (\A q \in Procs : q # p => pc'[q] = pc[q]) /\ UNCHANGED bounds
  BY DEF TypeOK, ApplyStep, Resolve, SetEntry, UseContext, Record, Exit, Goto
<1>3. pc'[p] # "delete"
  BY DEF TypeOK, ApplyStep, Resolve, SetEntry, UseContext, Record, Exit, Goto
<1>4. ASSUME Calm, NEW c \in Clusters, NEW t \in Targets, Has(t, c)'
      PROVE  t = saved'[c] /\ (c \in applied' \/ (who'[p] = c /\ pc'[p] \in {"set", "record"}))
  <2>1. /\ Work(p)
        /\ Has(t, c) => t = saved[c] /\ (c \in applied \/ (who[p] = c /\ pc[p] \in {"set", "record"}))
    BY <1>1, <1>4, LeftOpen
  <2>2. CASE Resolve(p)
    <3>1. /\ \A d \in Clusters : d # who[p] => saved'[d] = mem[p][d]
          /\ UNCHANGED <<entries, applied>> /\ pc[p] = "target"
      BY <1>1, <2>2 DEF TypeOK, Resolve, SaveTarget
    <3>2. Has(t, c)
      BY <1>4, <3>1 DEF Has
    <3>3. QED BY <2>1, <3>1, <3>2 DEF Work
  <2>3. CASE SetEntry(p)
    <3>1. /\ UNCHANGED <<saved, applied, who>> /\ pc'[p] = pc[p] /\ pc[p] = "set"
          /\ \A k : <<k, c>> \in entries'[t] => <<k, c>> \in entries[t] \/ (t = env[p] /\ c = who[p])
      BY <1>1, <2>3 DEF TypeOK, SetEntry
    <3>2. Has(t, c) \/ (t = env[p] /\ c = who[p])
      BY <1>4, <3>1 DEF Has
    <3>3. QED BY <2>1, <3>1, <3>2 DEF Work
  <2>4. CASE UseContext(p)
    <3>1. UNCHANGED <<entries, saved, applied, who>> /\ pc'[p] = "record" /\ pc[p] = "set"
      BY <2>4 DEF TypeOK, UseContext, Goto
    <3>2. QED BY <1>4, <2>1, <3>1 DEF Has
  <2>5. CASE Record(p)
    <3>1. UNCHANGED <<entries, saved>> /\ applied' = applied \cup {who[p]}
      BY <2>5 DEF Record
    <3>2. QED BY <1>4, <2>1, <3>1 DEF Has
  <2>6. QED BY <2>2, <2>3, <2>4, <2>5 DEF ApplyStep
<1>5. QED BY <1>1, <1>2, <1>3, <1>4, LeftClose

LEMMA LeftRollback ==
  ASSUME MergeInv, RecordedInv, LeftInv, NEW p \in Procs, RollbackStep(p)
  PROVE  LeftInv'
<1> USE DEF MergeInv
<1>1. pc[p] # "idle" /\ who[p] \in Clusters /\ Target(p) \in Targets
  <2>1. pc[p] # "idle"
    BY DEF RollbackStep, FindsCurrent, UnsetCurrent, DeleteEntry, Unmerged, Forget
  <2>2. QED BY <2>1, TargetType DEF TypeOK, OneEach
<1>2. (\A q \in Procs : q # p => pc'[q] = pc[q]) /\ UNCHANGED bounds
  BY DEF TypeOK, RollbackStep, FindsCurrent, UnsetCurrent, DeleteEntry, Unmerged, Forget, Exit, Goto
<1>3. Calm => /\ Work(p)
              /\ \A c \in Clusters, t \in Targets :
                   Has(t, c) => t = saved[c] /\ (c \in applied \/ (who[p] = c /\ pc[p] \in {"set", "record"}))
  BY <1>1, LeftOpen
<1>4. CASE FindsCurrent(p) \/ UnsetCurrent(p)
  <2>1. /\ UNCHANGED <<entries, saved, applied>> /\ pc[p] \in {"current", "unset"}
        /\ step'[p] = 1
    BY <1>4 DEF TypeOK, FindsCurrent, UnsetCurrent, Goto, disk
  <2>2. Calm => \A c \in Clusters, t \in Targets : Has(t, c)' => t = saved'[c] /\ c \in applied'
    BY <1>3, <2>1 DEF Has
  <2>3. \A i \in 1..3 : ~(i < step'[p])
    BY <2>1
  <2>4. QED BY <1>1, <1>2, <2>2, <2>3, LeftClose
<1>5. CASE DeleteEntry(p)
  <2>1. /\ UNCHANGED <<saved, applied, who, Target(p)>> /\ pc[p] = "delete"
        /\ step[p] \in 1..3 /\ step'[p] = step[p] + 1
        /\ entries'[Target(p)] = entries[Target(p)] \ {<<DeleteOrder[step[p]], who[p]>>}
        /\ \A t \in Targets : entries'[t] \subseteq entries[t]
    BY <1>1, <1>5, Orders DEF TypeOK, DeleteEntry, Target
  <2>2. Calm => \A c \in Clusters, t \in Targets : Has(t, c)' => t = saved'[c] /\ c \in applied'
    BY <1>3, <2>1 DEF Has
  <2>3. Calm => \A i \in 1..3 : i < step[p] => <<DeleteOrder[i], who[p]>> \notin entries[Target(p)]
    BY <2>1 DEF LeftInv
  <2>4. Calm => \A i \in 1..3 : i < step'[p] => <<DeleteOrder[i], who'[p]>> \notin entries'[Target(p)']
    BY <2>1, <2>3
  <2>5. QED BY <1>1, <1>2, <2>2, <2>4, LeftClose
<1>6. CASE Unmerged(p) \/ Forget(p)
  <2>1. /\ UNCHANGED entries /\ pc'[p] \in {"forget", "idle"} /\ applied' = applied \ {who[p]}
        /\ \A d \in Clusters : d # who[p] => saved'[d] = mem[p][d]
    BY <1>1, <1>6 DEF TypeOK, Unmerged, Forget, SaveTarget, Exit, Goto
  <2>2. Calm => \A t \in Targets : ~Has(t, who[p])
    <3>1. CASE Forget(p)
      BY <1>1, <1>3, <3>1 DEF Forget, Work
    <3>2. CASE Unmerged(p)
      <4>1. /\ pc[p] = "delete" /\ \A i \in 1..3 : i < step[p]
            /\ Kinds = {DeleteOrder[1], DeleteOrder[2], DeleteOrder[3]}
        BY <3>2, Orders DEF Unmerged, TypeOK, Kinds
      <4>2. Calm => \A i \in 1..3 : <<DeleteOrder[i], who[p]>> \notin entries[Target(p)]
        BY <4>1 DEF LeftInv
      <4>3. Calm => ~Has(Target(p), who[p])
        BY <4>1, <4>2 DEF Has
      <4>4. Calm => Target(p) = saved[who[p]]
        BY <1>1, <1>3, <4>1, MergeAssumption DEF Work, Target, TypeOK, OneEach
      <4>5. QED BY <1>1, <1>3, <4>3, <4>4
    <3>3. QED BY <1>6, <3>1, <3>2
  <2>3. Calm => \A c \in Clusters, t \in Targets : Has(t, c)' => t = saved'[c] /\ c \in applied'
    <3>1. \A c, t : Has(t, c)' <=> Has(t, c)
      BY <2>1 DEF Has
    <3>2. pc[p] \in {"delete", "forget"}
      BY <1>6 DEF Unmerged, Forget
    <3>3. QED BY <1>3, <2>1, <2>2, <3>1, <3>2 DEF Work
  <2>4. QED BY <1>1, <1>2, <2>1, <2>3, LeftClose
<1>7. QED BY <1>4, <1>5, <1>6 DEF RollbackStep

LEMMA LeftStep == MergeInv /\ RecordedInv /\ LeftInv /\ [Next]_vars => LeftInv'
<1> SUFFICES ASSUME MergeInv, RecordedInv, LeftInv, [Next]_vars PROVE LeftInv'
  OBVIOUS
<1>1. CASE UNCHANGED vars
  BY <1>1 DEF LeftInv, Calm, Quiet, Has, Merging, Target, vars, disk, proc, bounds
<1>2. ASSUME NEW p \in Procs, ApplyFails(p) \/ RollbackFails(p) \/ Crash(p) PROVE LeftInv'
  <2>1. ~Calm'
    BY <1>2, MergeAssumption DEF MergeInv, TypeOK, ApplyFails, RollbackFails, Crash, Calm, Quiet
  <2>2. QED BY <2>1 DEF LeftInv
<1>3. CASE Next
  BY <1>2, <1>3, LeftLaunch, LeftApply, LeftRollback DEF Next
<1>4. QED BY <1>1, <1>3

\* A deleted cluster has no entries in any kubeconfig, for any number of clusters
\* and kubeconfigs and however $KUBECONFIG changes, while no call fails and no
\* command is killed or overlaps another.
THEOREM DeletesLeaveNoEntries == Spec => []DeleteLeavesNoEntries
<1>1. Init => LeftInv
  BY DEF Init, LeftInv, Has
<1>2. MergeInv /\ RecordedInv /\ LeftInv => DeleteLeavesNoEntries
  <2>1. SUFFICES ASSUME MergeInv, RecordedInv, LeftInv, Calm, NEW c \in Clusters \ built,
                        NEW t \in Targets, NEW e \in entries[t], e[2] = c
                 PROVE  FALSE
    BY DEF DeleteLeavesNoEntries, Calm, Quiet
  <2>2. PICK k \in Kinds : e = <<k, c>>
    BY <2>1 DEF MergeInv, TypeOK
  <2>3. c \in applied \/ Merging(c)
    BY <2>1, <2>2 DEF LeftInv, Has
  <2>4. c \in built
    <3>1. CASE c \in applied
      BY <2>1, <3>1 DEF MergeInv, TypeOK
    <3>2. CASE Merging(c)
      BY <2>1, <3>2 DEF MergeInv, OneEach, Merging
    <3>3. QED BY <2>3, <3>1, <3>2
  <2>5. QED BY <2>4
<1>3. QED BY MergeInvariant, RecordedInvariant, <1>1, <1>2, LeftStep, PTL DEF Spec
=============================================================================
