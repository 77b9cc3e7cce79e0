---------------------------- MODULE KubeconfigMerge ----------------------------
(***************************************************************************)
(* merge-kubeconfig: the context, cluster and user entries of each cluster *)
(* in the user's kubeconfig, and its current context.                      *)
(*                                                                         *)
(* Which file that is depends on $KUBECONFIG, which may differ from one    *)
(* command to the next; the stage saves its choice in config.json so that  *)
(* delete finds the file that create wrote.  config.json is read once, by  *)
(* a command that starts, and written as a whole.  Every change to a       *)
(* kubeconfig is one `oc config` call, which locks the file.               *)
(*                                                                         *)
(* A create is what is left of it when its other stages are applied, a     *)
(* delete is this stage's rollback and the removal of the cluster.         *)
(***************************************************************************)
EXTENDS Naturals, Sequences, FiniteSets

CONSTANTS
  Clusters,   \* names of clusters
  Targets,    \* the kubeconfig files $KUBECONFIG may name
  None,       \* no cluster, no target
  Foreign,    \* a context of the user's own
  Procs,      \* easyshift processes, at most one at a cluster at a time
  MaxFaults,  \* bound on failing oc calls
  MaxCrashes, \* bound on commands that are killed
  MaxOverlaps \* bound on commands that are launched while another one runs

ASSUME MergeAssumption ==
  /\ {None, Foreign} \cap (Clusters \cup Targets) = {} /\ None # Foreign
  /\ MaxFaults \in Nat /\ MaxCrashes \in Nat /\ MaxOverlaps \in Nat

Kinds == {"cluster", "user", "context"}

\* Mutant of DeleteOrder: the order in which the entries were set.
ContextLast == <<"cluster", "user", "context">>

\* The order of the set-* calls of Apply and of the removals of Rollback.
SetOrder == <<"cluster", "user", "context">>
DeleteOrder == <<"context", "cluster", "user">>

VARIABLES
  entries,  \* each kubeconfig: the entries of easyshift's clusters
  current,  \* each kubeconfig: its current context
  saved,    \* config.json: the KubeconfigTarget of each cluster
  applied,  \* the clusters whose state.json lists merge-kubeconfig
  built,    \* the clusters that exist
  pc, step, who, env, mem, \* each process: where it is, its cluster, $KUBECONFIG, its config
  faults, crashes, overlaps

disk == <<entries, current, saved, applied, built>>
proc == <<pc, step, who, env, mem>>
bounds == <<faults, crashes, overlaps>>
vars == <<disk, proc, bounds>>

NoTargets == [c \in Clusters |-> None]

Init ==
  /\ entries = [t \in Targets |-> {}] /\ current \in [Targets -> {None, Foreign}]
  /\ saved = NoTargets /\ applied = {} /\ built = {}
  /\ pc = [p \in Procs |-> "idle"] /\ step = [p \in Procs |-> 1]
  /\ who = [p \in Procs |-> None] /\ env = [p \in Procs |-> None]
  /\ mem = [p \in Procs |-> NoTargets]
  /\ faults = 0 /\ crashes = 0 /\ overlaps = 0

Goto(p, l) == pc' = [pc EXCEPT ![p] = l] /\ step' = [step EXCEPT ![p] = 1]

Exit(p) ==
  /\ Goto(p, "idle")
  /\ who' = [who EXCEPT ![p] = None] /\ env' = [env EXCEPT ![p] = None]
  /\ mem' = [mem EXCEPT ![p] = NoTargets]

\* Save: the whole of what p has in memory.
SaveTarget(p, t) ==
  /\ mem' = [mem EXCEPT ![p][who[p]] = t]
  /\ saved' = mem'[p]

Launch(p, c, l) ==
  /\ pc[p] = "idle" /\ c \notin {who[q] : q \in Procs}
  /\ Goto(p, l)
  /\ who' = [who EXCEPT ![p] = c] /\ mem' = [mem EXCEPT ![p] = saved]
  /\ \E t \in Targets : env' = [env EXCEPT ![p] = t]
  /\ IF \A q \in Procs : pc[q] = "idle"
       THEN UNCHANGED overlaps
       ELSE overlaps < MaxOverlaps /\ overlaps' = overlaps + 1
  /\ UNCHANGED <<faults, crashes>>

-----------------------------------------------------------------------------
(* Apply *)

LaunchCreate(p, c) ==
  /\ c \notin applied /\ Launch(p, c, "target")
  /\ built' = built \cup {c}
  /\ UNCHANGED <<entries, current, saved, applied>>

\* Mutant of Resolve: the choice stays in memory.
ResolveUnsaved(p) ==
  /\ pc[p] = "target" /\ Goto(p, "set")
  /\ UNCHANGED <<disk, who, env, mem, bounds>>

Resolve(p) ==
  /\ pc[p] = "target" /\ Goto(p, "set")
  /\ SaveTarget(p, env[p])
  /\ UNCHANGED <<entries, current, applied, built, who, env, bounds>>

\* set-cluster, set-credentials and set-context.
SetEntry(p) ==
  /\ pc[p] = "set" /\ step[p] <= Len(SetOrder)
  /\ entries' = [entries EXCEPT ![env[p]] = @ \cup {<<SetOrder[step[p]], who[p]>>}]
  /\ step' = [step EXCEPT ![p] = @ + 1]
  /\ UNCHANGED <<current, saved, applied, built, pc, who, env, mem, bounds>>

UseContext(p) ==
  /\ pc[p] = "set" /\ step[p] > Len(SetOrder)
  /\ current' = [current EXCEPT ![env[p]] = who[p]]
  /\ Goto(p, "record")
  /\ UNCHANGED <<entries, saved, applied, built, who, env, mem, bounds>>

\* Mutant of ApplyFails: a call that failed is taken for one that succeeded.
ApplyFailsUnnoticed(p) ==
  /\ pc[p] = "set" /\ faults < MaxFaults /\ faults' = faults + 1
  /\ Goto(p, "record")
  /\ UNCHANGED <<disk, who, env, mem, crashes, overlaps>>

\* Reading the admin kubeconfig or one of the set calls fails.
ApplyFails(p) ==
  /\ pc[p] = "set" /\ faults < MaxFaults /\ faults' = faults + 1
  /\ Exit(p) /\ UNCHANGED <<disk, crashes, overlaps>>

Record(p) ==
  /\ pc[p] = "record" /\ applied' = applied \cup {who[p]}
  /\ Exit(p) /\ UNCHANGED <<entries, current, saved, built, bounds>>

-----------------------------------------------------------------------------
(* Rollback *)

\* Only a stage that state.json lists is rolled back.
LaunchDelete(p, c) ==
  /\ c \in built /\ Launch(p, c, IF c \in applied THEN "current" ELSE "forget")
  /\ UNCHANGED disk

\* The saved target, or that of $KUBECONFIG now.
Target(p) == IF mem[p][who[p]] = None THEN env[p] ELSE mem[p][who[p]]

FindsCurrent(p) ==
  /\ pc[p] = "current"
  /\ Goto(p, IF current[Target(p)] = who[p] THEN "unset" ELSE "delete")
  /\ UNCHANGED <<disk, who, env, mem, bounds>>

UnsetCurrent(p) ==
  /\ pc[p] = "unset" /\ Goto(p, "delete")
  /\ current' = [current EXCEPT ![Target(p)] = None]
  /\ UNCHANGED <<entries, saved, applied, built, who, env, mem, bounds>>

DeleteEntry(p) ==
  /\ pc[p] = "delete" /\ step[p] <= Len(DeleteOrder)
  /\ entries' = [entries EXCEPT ![Target(p)] = @ \ {<<DeleteOrder[step[p]], who[p]>>}]
  /\ step' = [step EXCEPT ![p] = @ + 1]
  /\ UNCHANGED <<current, saved, applied, built, pc, who, env, mem, bounds>>

\* The stage's own save, and its name leaves state.json.
Unmerged(p) ==
  /\ pc[p] = "delete" /\ step[p] > Len(DeleteOrder)
  /\ SaveTarget(p, None) /\ applied' = applied \ {who[p]}
  /\ Goto(p, "forget")
  /\ UNCHANGED <<entries, current, built, who, env, bounds>>

\* The record leaves config.json, the cluster directory with state.json goes.
Forget(p) ==
  /\ pc[p] = "forget"
  /\ saved' = [mem[p] EXCEPT ![who[p]] = None]
  /\ applied' = applied \ {who[p]} /\ built' = built \ {who[p]}
  /\ Exit(p) /\ UNCHANGED <<entries, current, bounds>>

\* Best effort: a call that fails is logged.
RollbackFails(p) ==
  /\ faults < MaxFaults /\ faults' = faults + 1
  /\ \/ pc[p] \in {"current", "unset"} /\ Goto(p, "delete")
     \/ /\ pc[p] = "delete" /\ step[p] <= Len(DeleteOrder)
        /\ step' = [step EXCEPT ![p] = @ + 1] /\ UNCHANGED pc
  /\ UNCHANGED <<disk, who, env, mem, crashes, overlaps>>

Crash(p) ==
  /\ pc[p] # "idle" /\ crashes < MaxCrashes /\ crashes' = crashes + 1
  /\ Exit(p) /\ UNCHANGED <<disk, faults, overlaps>>

ApplyStep(p) == Resolve(p) \/ SetEntry(p) \/ UseContext(p) \/ Record(p)
RollbackStep(p) ==
  FindsCurrent(p) \/ UnsetCurrent(p) \/ DeleteEntry(p) \/ Unmerged(p) \/ Forget(p)

Next ==
  \E p \in Procs :
    \/ \E c \in Clusters : LaunchCreate(p, c) \/ LaunchDelete(p, c)
    \/ ApplyStep(p) \/ RollbackStep(p)
    \/ ApplyFails(p) \/ RollbackFails(p) \/ Crash(p)

Spec == Init /\ [][Next]_vars

-----------------------------------------------------------------------------
(* Properties *)

TypeOK ==
  /\ entries \in [Targets -> SUBSET (Kinds \X Clusters)]
  /\ current \in [Targets -> Clusters \cup {None, Foreign}]
  /\ saved \in [Clusters -> Targets \cup {None}]
  /\ applied \subseteq built /\ built \subseteq Clusters
  /\ pc \in [Procs -> {"idle", "target", "set", "record", "current", "unset", "delete", "forget"}]
  /\ step \in [Procs -> 1..Len(SetOrder) + 1]
  /\ who \in [Procs -> Clusters \cup {None}] /\ env \in [Procs -> Targets \cup {None}]
  /\ mem \in [Procs -> [Clusters -> Targets \cup {None}]]
  /\ \A p \in Procs : (pc[p] = "idle") = (who[p] = None)
  /\ faults \in 0..MaxFaults /\ crashes \in 0..MaxCrashes /\ overlaps \in 0..MaxOverlaps

\* A context is there only with the cluster and the user it names, whatever is
\* killed between two calls and whoever else is at the file: Apply sets it
\* last, Rollback removes it first.  A removal that fails is only logged.
ContextResolves ==
  faults = 0 =>
    \A t \in Targets, c \in Clusters :
      <<"context", c>> \in entries[t] => {<<"cluster", c>>, <<"user", c>>} \subseteq entries[t]

\* No kubeconfig's current context is one that was deleted, with other
\* clusters created and deleted in between ("unset ... only if ours").
CurrentResolves ==
  faults = 0 =>
    \A t \in Targets : current[t] \in Clusters => <<"context", current[t]>> \in entries[t]

\* Neither a context nor the current context of a kubeconfig dangles.
ContextsResolve == ContextResolves /\ CurrentResolves

\* A stage that is recorded has merged all entries into the file that is
\* saved, whatever failed on the way, and in whichever environment create was
\* repeated; a rollback that removes entries also takes it off the record,
\* unless it is killed or another process overwrites config.json.
RecordedIsMerged ==
  crashes = 0 /\ overlaps = 0 =>
    \A c \in applied :
      c \notin {who[p] : p \in Procs} =>
        saved[c] \in Targets /\ Kinds \X {c} \subseteq entries[saved[c]]

\* When a cluster is deleted no kubeconfig mentions it, although $KUBECONFIG
\* may name another file by then ("Rollback removes exactly the entries Apply
\* created"), as long as no call failed, none was killed and none overlapped.
DeleteLeavesNoEntries ==
  faults = 0 /\ crashes = 0 /\ overlaps = 0 =>
    \A c \in Clusters \ built, t \in Targets : \A e \in entries[t] : e[2] # c
=============================================================================
