------------------------------- MODULE NATReset -------------------------------
(***************************************************************************)
(* `easyshift nat-network reset` (app/natreset.go) next to the cluster     *)
(* commands of ClusterManager: they share config.json and the one libvirt  *)
(* network of all NAT clusters.                                            *)
(*                                                                         *)
(* A reset first plans, comparing its copy of config.json with the         *)
(* network it inspects, and then applies the plan in several calls.  Drift *)
(* is whatever the interrupted commands of ClusterManager leave behind,    *)
(* and a network some older easyshift defined with another DHCP range.     *)
(***************************************************************************)
EXTENDS ClusterManager

CONSTANTS
  OneAtATime,         \* a reset and a cluster command never run together
  ResetInterruptible  \* a reset may crash

ASSUME ResetAssumption == OneAtATime \in BOOLEAN /\ ResetInterruptible \in BOOLEAN

VARIABLES
  net,    \* the shared network's definition: absent, or with which DHCP range
  rpc,    \* where the reset is
  rcopy,  \* its copy of config.json
  plan    \* the NATResetPlan, less what it has already done

resetLocal == <<rpc, rcopy, plan>>
allVars == <<vars, net, resetLocal>>

NoPlan == [force |-> FALSE, recreate |-> FALSE, orphans |-> {}, leaked |-> {}, restore |-> {}]

ResetInit ==
  /\ Init
  /\ net \in {"absent", "outdated"}
  /\ rpc = "idle" /\ rcopy = EmptyConfig /\ plan = NoPlan

-----------------------------------------------------------------------------
(* The commands of ClusterManager on a network that may be missing. *)

\* virt-install and virsh start fail on a NIC whose network is not defined,
\* and an install on it does not finish.
NeedsNetwork(p) ==
  /\ pc[p] = "boot" \/ Applying(p, CreateVM) \/ Applying(p, WaitInstall)
  /\ NAT(name[p])

NoNetwork(p) ==
  /\ NeedsNetwork(p) /\ net = "absent"
  /\ Exit(p)
  /\ UNCHANGED <<files, host, bounds, damage, net>>

\* EnsureNetwork: create-network defines an absent network before it adds the
\* reservation, and keeps the one it finds, whatever its range.
EnsureNetwork == net' = IF net = "absent" /\ resv' # {} THEN "current" ELSE net

Manager(p) ==
  /\ ~(NeedsNetwork(p) /\ net = "absent")
  /\ LaunchStep(p) \/ Step(p)
  /\ EnsureNetwork

Managers ==
  /\ OneAtATime => rpc = "idle"
  /\ \E p \in Procs : Manager(p) \/ NoNetwork(p) \/ (Crash(p) /\ UNCHANGED net)
  /\ UNCHANGED resetLocal

-----------------------------------------------------------------------------
(* The reset *)

\* knownAddrs: a MAC is known exactly when the address allocated with it is.
KnownIPs(m) == {m.data[c].ip : c \in m.known}

NATClusters(m) == {c \in m.known : NAT(c)}

ResetExits == rpc' = "idle" /\ rcopy' = EmptyConfig /\ plan' = NoPlan
UntouchedHost == UNCHANGED <<vm, iso, state, pc, local>>

LaunchReset ==
  /\ rpc = "idle" /\ ~torn
  /\ OneAtATime => \A p \in Procs : pc[p] = "idle"
  /\ rpc' = "inspect" /\ rcopy' = config
  /\ \E f \in BOOLEAN : plan' = [NoPlan EXCEPT !.force = f]
  /\ UNCHANGED <<vars, net>>

\* PlanNATReset up to the liveness probes.
Inspected ==
  [plan EXCEPT
    !.recreate = net = "outdated",
    !.orphans = {r \in resv : r[2] \notin KnownIPs(rcopy)},
    !.leaked = rcopy.used \ KnownIPs(rcopy)]

HasWork(q) == q.recreate \/ q.orphans # {} \/ q.leaked # {}

Inspect ==
  /\ rpc = "inspect" /\ HasWork(Inspected)
  /\ plan' = Inspected
  /\ rpc' = IF Inspected.recreate THEN "probe" ELSE "apply"
  /\ UNCHANGED <<vars, net, rcopy>>

NothingToDo ==
  /\ rpc = "inspect" /\ ~HasWork(Inspected)
  /\ ResetExits
  /\ UNCHANGED <<vars, net>>

\* The clusters found running; a probe that fails finds its cluster off.
Probe ==
  /\ rpc = "probe"
  /\ \E failed \in SUBSET NATClusters(rcopy) :
       /\ failed # {} => Spare /\ faults < MaxFaults
       /\ faults' = IF failed # {} THEN faults + 1 ELSE faults
       /\ IF plan.force \/ \A c \in NATClusters(rcopy) \ failed : vm[c].st # "on"
            THEN rpc' = "recreate" /\ UNCHANGED <<rcopy, plan>>
            ELSE ResetExits
  /\ UNCHANGED <<files, host, pc, local, crashes, cut, damage, net>>

\* ResetNetwork: every reservation goes with the definition.
ResetNetwork ==
  /\ rpc = "recreate"
  /\ net' = "absent" /\ resv' = {}
  /\ plan' = [plan EXCEPT !.orphans = {}]
  /\ rpc' = IF NATClusters(rcopy) # {} THEN "ensure" ELSE "apply"
  /\ UNCHANGED <<config, rcopy, bounds, damage>> /\ UntouchedHost

\* Mutant of Rebuild: only the clusters that are up get their reservation back.
RebuildRunning ==
  /\ rpc = "ensure"
  /\ net' = IF net = "absent" THEN "current" ELSE net
  /\ plan' = [plan EXCEPT !.restore = {c \in NATClusters(rcopy) : vm[c].st = "on"}]
  /\ rpc' = "apply"
  /\ UNCHANGED <<vars, rcopy>>

Rebuild ==
  /\ rpc = "ensure"
  /\ net' = IF net = "absent" THEN "current" ELSE net
  /\ plan' = [plan EXCEPT !.restore = {c \in NATClusters(rcopy) : rcopy.data[c].ip # NoIP}]
  /\ rpc' = "apply"
  /\ UNCHANGED <<vars, rcopy>>

Restore(c) ==
  /\ rpc = "apply" /\ c \in plan.restore
  /\ AddHost(c, rcopy.data[c].ip)
  /\ plan' = [plan EXCEPT !.restore = @ \ {c}]
  /\ UNCHANGED <<config, state, pc, local, bounds, damage, net, rpc, rcopy>>

RemoveOrphan(r) ==
  /\ rpc = "apply" /\ r \in plan.orphans
  /\ resv' = resv \ {r}
  /\ plan' = [plan EXCEPT !.orphans = @ \ {r}]
  /\ UNCHANGED <<config, bounds, damage, net, rpc, rcopy>> /\ UntouchedHost

\* All that is left to do is the Save at the end.
Pruning == rpc = "apply" /\ plan.restore = {} /\ plan.orphans = {}

\* Mutants of Prune: the leaked allocations stay; all allocations go.
PruneNothing ==
  /\ Pruning
  /\ config' = Saved(rcopy)
  /\ ResetExits /\ torn' = FALSE
  /\ UNCHANGED <<resv, bounds, spoilt, net>> /\ UntouchedHost
PruneAll ==
  /\ Pruning
  /\ config' = Saved([rcopy EXCEPT !.used = {}])
  /\ ResetExits /\ torn' = FALSE
  /\ UNCHANGED <<resv, bounds, spoilt, net>> /\ UntouchedHost

Prune ==
  /\ Pruning
  /\ config' = Saved([rcopy EXCEPT !.used = @ \ plan.leaked])
  /\ ResetExits /\ torn' = FALSE
  /\ UNCHANGED <<resv, bounds, spoilt, net>> /\ UntouchedHost

\* A call to libvirt fails: the reset ends where it is.
ResetFails ==
  /\ rpc \in {"recreate", "ensure"} \/ plan.restore # {} \/ (rpc = "apply" /\ plan.orphans # {})
  /\ Spare /\ faults < MaxFaults /\ faults' = faults + 1
  /\ ResetExits
  /\ UNCHANGED <<files, host, pc, local, crashes, cut, damage, net>>

\* In the middle of the write that ends a reset, the file is left half written.
ResetCrash ==
  /\ rpc # "idle" /\ ResetInterruptible
  /\ Spare /\ crashes < MaxCrashes /\ crashes' = crashes + 1
  /\ torn' \in {torn, torn \/ Pruning}
  /\ ResetExits
  /\ UNCHANGED <<files, host, pc, local, faults, cut, spoilt, net>>

\* The network is defined persistently and with autostart.
Reboot ==
  /\ rpc # "idle" => ResetInterruptible
  /\ HostReboot /\ Tears(Procs, Pruning \/ \E p \in Procs : Saving(p))
  /\ ResetExits /\ UNCHANGED net

ResetStep ==
  \/ Inspect \/ NothingToDo \/ Probe \/ ResetNetwork \/ Rebuild \/ Prune \/ ResetFails
  \/ \E c \in Clusters : Restore(c)
  \/ \E r \in plan.orphans : RemoveOrphan(r)

ResetNext ==
  \/ Managers \/ LaunchReset \/ ResetStep \/ ResetCrash \/ Reboot
  \/ LoadConfigFails /\ UNCHANGED <<net, resetLocal>>

ResetSpec == ResetInit /\ [][ResetNext]_allVars

-----------------------------------------------------------------------------
(* Properties *)

Owner(a) == {c \in config.known : config.data[c].ip = a}

\* What a reset is for (usage.md): no allocation and no reservation is left
\* that belongs to no current cluster, and the network has the current range.
Reconciled ==
  /\ net # "outdated"
  /\ \A a \in config.used : Owner(a) # {}
  /\ \A r \in resv : Owner(r[2]) # {}

\* A reset that reports success has reconciled the network and config.json,
\* and a second one would find nothing to do.
ResetReconciles == [][Prune \/ NothingToDo => Reconciled']_allVars

\* A reset spares the clusters.  Without --force it takes the network from no
\* NAT cluster that is up ("reset refuses to do it while one is up", usage.md),
\* as long as every probe of a cluster answers: one that fails counts as off.
\* And the reservation of a cluster past create-network outlives a reset that
\* reports success ("the surviving clusters' reservations are restored
\* automatically", usage.md), unless an earlier one stopped half way: its plan
\* is lost, and the next one finds no network to recreate.
ResetSparesClusters ==
  /\ [][ResetNetwork /\ ~plan.force /\ faults = 0 =>
         \A c \in NATClusters(config) : vm[c].st # "on"]_allVars
  /\ [][(Prune \/ NothingToDo) /\ crashes = 0 /\ faults = 0 =>
         \A c \in NATClusters(config) : CreateNetwork \in state[c] =>
           <<c, config.data[c].ip>> \in resv']_allVars
=============================================================================
