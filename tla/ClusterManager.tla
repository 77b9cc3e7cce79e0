---------------------------- MODULE ClusterManager ----------------------------
(***************************************************************************)
(* The create / start / stop / delete commands of easyshift: the           *)
(* ClusterManager of app/manager.go driving the stage Runner of            *)
(* app/runner.go over the two files it keeps (config.json, one state.json  *)
(* per cluster) and the host resources its stages create.                  *)
(*                                                                         *)
(* Every command is a process of its own: it reads config.json once, when  *)
(* it starts, works on that copy, and writes the whole copy back at every  *)
(* Save.  A step below is one externally visible effect (a file write, a   *)
(* hypervisor, network or DNS call) with the local work around it, so a    *)
(* crash or another command may come between any two effects.              *)
(*                                                                         *)
(* The pipeline is the Linux one, without the stages whose effect is only  *)
(* a file under the cluster directory or a shared cache (downloads, image  *)
(* bake, ssh key, ignition) and without apply-tls-certs, merge-kubeconfig  *)
(* and install-odf; verify-master-ip and wait-for-install are one stage.   *)
(* What upsert-dns does at the provider is PublicNames' subject: here it   *)
(* is a stage that may fail and is recorded.                               *)
(*                                                                         *)
(* A failing write of config.json or state.json ends the command like a    *)
(* crash at that point does.  Two commands that write the same file at the *)
(* very same moment write it one after the other here.                     *)
(***************************************************************************)
EXTENDS Integers, FiniteSets

CONSTANTS
  Clusters,      \* cluster names
  MasterIP,      \* --master-ip of a bridge cluster, 0 for a NAT cluster
  PoolSize,      \* the NAT pool is 1..PoolSize (NetworkStart..NetworkEnd)
  MaxClusters,   \* DefaultClustersMax
  NoName,        \* the target of a process that runs no command
  Procs,         \* easyshift processes that may run at the same time
  Launchable,    \* the commands each of them is used for
  Interruptible, \* commands that may crash
  MaxCrashes,    \* bound on crashes and host reboots
  MaxFaults,     \* bound on failing external calls
  MaxTrouble     \* bound on both together

NoIP == 0
Pool == 1..PoolSize
Commands == {"create", "start", "stop", "delete"}

ASSUME ManagerAssumption ==
  /\ PoolSize \in Nat /\ MaxClusters \in Nat
  /\ MaxCrashes \in Nat /\ MaxFaults \in Nat /\ MaxTrouble \in Nat
  /\ MasterIP \in [Clusters -> Nat \ Pool]
  /\ Interruptible \subseteq Commands /\ Launchable \in [Procs -> SUBSET Commands]
  /\ NoName \notin Clusters

(* The pipeline of buildStages, in order. *)
Register == 1
Allocate == 2
UpsertDNS == 3
EnsureDir == 4
EmbedISO == 5
CreateNetwork == 6
CreateVM == 7
WaitInstall == 8
Finalize == 9
Stages == 1..9

VARIABLES
  config,  \* config.json: names registered, their records, GlobalState.UsedIPs
  state,   \* clusters/<name>/state.json: the stages recorded (none: no file)
  vm,      \* the hypervisor: each cluster's master domain
  iso,     \* the address the ISO in the storage pool pins, NoIP if no ISO
  resv,    \* DHCP reservations <<cluster, address>> of the shared NAT network
  pc,      \* where each process is
  cmd,     \* the command it runs
  name,    \* the cluster it runs it on
  mem,     \* its copy of config.json (cm.cfg), the target's record included
  done,    \* its copy of state.json (the Runner's state.Stages)
  at,      \* the stage its Runner is at
  crashes, faults,
  cut,     \* the commands that some crash has cut short
  torn,    \* a kill has left config.json half written: nothing can read it
  spoilt   \* the clusters whose state.json a kill has left half written

files == <<config, state>>
host == <<vm, iso, resv>>
local == <<cmd, name, mem, done, at>>
bounds == <<crashes, faults, cut>>
damage == <<torn, spoilt>>
vars == <<files, host, pc, local, bounds, damage>>

-----------------------------------------------------------------------------
(* Data *)

Phases == {"none", "creating", "running", "stopped"}
Blank == [phase |-> "none", ip |-> NoIP, domain |-> NoIP, boot |-> FALSE]
Records == [phase : Phases, ip : Nat, domain : Nat, boot : BOOLEAN]
Configs == [known : SUBSET Clusters, data : [Clusters -> Records], used : SUBSET Pool]
EmptyConfig == [known |-> {}, data |-> [c \in Clusters |-> Blank], used |-> {}]

NAT(n) == MasterIP[n] = NoIP

\* Mutant of Saved: a deregistered cluster's record stays in the file.
SavedWithTombstones(m) == m

\* What Save writes of a process's copy: only the registered clusters.
Saved(m) == [m EXCEPT !.data = [c \in Clusters |-> IF c \in m.known THEN m.data[c] ELSE Blank]]

NoVM == [st |-> "absent", ip |-> NoIP, installed |-> FALSE]
VMs == [st : {"absent", "off", "on"}, ip : Nat, installed : BOOLEAN]

\* cm.find(n).State, "none" when n is not registered.
PhaseOf(m, n) == IF n \in m.known THEN m.data[n].phase ELSE "none"

PCs == {"idle", "load", "apply", "imported", "record", "reassert", "boot", "started",
        "halt", "stopped", "unload", "rollback", "removed", "drop", "wipe", "flush"}

Init ==
  /\ config = EmptyConfig
  /\ state = [c \in Clusters |-> {}]
  /\ vm = [c \in Clusters |-> NoVM]
  /\ iso = [c \in Clusters |-> NoIP]
  /\ resv = {}
  /\ pc = [p \in Procs |-> "idle"]
  /\ cmd = [p \in Procs |-> "none"]
  /\ name = [p \in Procs |-> NoName]
  /\ mem = [p \in Procs |-> EmptyConfig]
  /\ done = [p \in Procs |-> {}]
  /\ at = [p \in Procs |-> 0]
  /\ crashes = 0 /\ faults = 0 /\ cut = {}
  /\ torn = FALSE /\ spoilt = {}

\* One more crash or fault is within the bounds.
Spare == crashes + faults < MaxTrouble

Goto(p, l) == pc' = [pc EXCEPT ![p] = l]

\* The process exits, with success or with an error; its copies are gone.
Exit(p) ==
  /\ Goto(p, "idle")
  /\ cmd' = [cmd EXCEPT ![p] = "none"]
  /\ name' = [name EXCEPT ![p] = NoName]
  /\ mem' = [mem EXCEPT ![p] = EmptyConfig]
  /\ done' = [done EXCEPT ![p] = {}]
  /\ at' = [at EXCEPT ![p] = 0]

\* cm.cfg.Save() of the copy m: the whole file is overwritten.  (What a kill
\* in the middle of the write leaves is in Tears.)
Save(p, m) ==
  /\ mem' = [mem EXCEPT ![p] = m]
  /\ config' = Saved(m)

\* The record of p's target in its copy (the *ClusterConfig c).
Rec(p) == mem[p].data[name[p]]
WithRec(p, r) == [mem[p] EXCEPT !.data[name[p]] = r]
SetPhase(p, ph) == WithRec(p, [Rec(p) EXCEPT !.phase = ph])

-----------------------------------------------------------------------------
(* Launching a command: LoadConfig, which ends the program if the file does *)
(* not parse, then the checks that need nothing else.  A command that is    *)
(* refused has no effect and is no step of the model.                       *)

Launch(p, c, n, l) ==
  /\ pc[p] = "idle" /\ c \in Launchable[p] /\ ~torn
  /\ Goto(p, l)
  /\ cmd' = [cmd EXCEPT ![p] = c]
  /\ name' = [name EXCEPT ![p] = n]
  /\ mem' = [mem EXCEPT ![p] = config]
  /\ UNCHANGED <<files, host, done, at, bounds, damage>>

\* A command on a torn config.json ends in LoadConfig, whatever it is.
LoadConfigFails == torn /\ UNCHANGED vars

LaunchCreate(p, n) ==
  /\ IF n \in config.known
       THEN PhaseOf(config, n) # "running"
       ELSE Cardinality(config.known) < MaxClusters
  /\ Launch(p, "create", n, "load")

LaunchStart(p, n) ==
  /\ PhaseOf(config, n) \notin {"none", "running"}
  /\ Launch(p, "start", n, "boot")

LaunchStop(p, n) ==
  /\ PhaseOf(config, n) = "running"
  /\ Launch(p, "stop", n, "halt")

LaunchDelete(p, n) ==
  /\ n \in config.known
  /\ Launch(p, "delete", n, IF PhaseOf(config, n) = "running" THEN "halt" ELSE "unload")

-----------------------------------------------------------------------------
(* Create: Runner.Apply *)

LoadState(p) ==
  /\ pc[p] = "load" /\ name[p] \notin spoilt
  /\ done' = [done EXCEPT ![p] = state[name[p]]]
  /\ at' = [at EXCEPT ![p] = Register]
  /\ Goto(p, "apply")
  /\ UNCHANGED <<files, host, cmd, name, mem, bounds>>

SkipApplied(p) ==
  /\ pc[p] = "apply" /\ at[p] \in done[p]
  /\ at' = [at EXCEPT ![p] = @ + 1]
  /\ UNCHANGED <<files, host, pc, cmd, name, mem, done, bounds>>

Applying(p, s) == pc[p] = "apply" /\ at[p] = s /\ s \notin done[p]

\* The stage succeeded without touching anything but the given variables.
Applied(p) == Goto(p, "record") /\ UNCHANGED <<state, cmd, name, done, at, bounds>>

ApplyRegister(p) ==
  /\ Applying(p, Register)
  /\ IF name[p] \in mem[p].known
       THEN UNCHANGED <<config, mem>>
       ELSE Save(p, [SetPhase(p, "creating") EXCEPT !.known = @ \cup {name[p]}])
  /\ UNCHANGED host /\ Applied(p)

\* Mutant of FirstFree: the used map is not consulted.
FirstOfPool(used) == CHOOSE x \in Pool : \A y \in Pool : x <= y

\* allocateIP: the lowest address of the pool the copy does not show used.
FirstFree(used) == CHOOSE x \in Pool \ used : \A y \in Pool \ used : x <= y

\* deriveMagicDomain: only a cluster without a domain gets one.
WithAddress(r, a) == [r EXCEPT !.ip = a, !.domain = IF @ = NoIP THEN a ELSE @]

ApplyAllocate(p) ==
  /\ Applying(p, Allocate)
  /\ IF Rec(p).ip # NoIP
       THEN UNCHANGED <<config, mem>>
       ELSE IF NAT(name[p])
         THEN /\ Pool \ mem[p].used # {}
              /\ LET x == FirstFree(mem[p].used)
                 IN  Save(p, [WithRec(p, WithAddress(Rec(p), x)) EXCEPT !.used = @ \cup {x}])
         ELSE Save(p, WithRec(p, [Rec(p) EXCEPT !.ip = MasterIP[name[p]]]))
  /\ UNCHANGED host /\ Applied(p)

PoolExhausted(p) ==
  /\ Applying(p, Allocate) /\ Rec(p).ip = NoIP /\ NAT(name[p])
  /\ Pool \subseteq mem[p].used
  /\ Exit(p)
  /\ UNCHANGED <<files, host, bounds>>

(* Effects of the stages that reach outside the process. *)
ImportISO(n, a) == iso' = [iso EXCEPT ![n] = a] /\ UNCHANGED <<vm, resv>>
\* An entry with this host name or this address is "already" there: no error.
AddHost(n, a) ==
  /\ resv' = IF \E r \in resv : r[1] = n \/ r[2] = a THEN resv ELSE resv \cup {<<n, a>>}
  /\ UNCHANGED <<vm, iso>>
SetVM(n, v) == vm' = [vm EXCEPT ![n] = v] /\ UNCHANGED <<iso, resv>>

ApplyUpsertDNS(p) ==
  /\ Applying(p, UpsertDNS)
  /\ UNCHANGED <<host, config, mem>> /\ Applied(p)

ApplyEnsureDir(p) ==
  /\ Applying(p, EnsureDir)
  /\ UNCHANGED <<host, config, mem>> /\ Applied(p)

\* StaticNetworkKeyfile refuses a cluster without an address.
ApplyEmbedISO(p) ==
  /\ Applying(p, EmbedISO) /\ Rec(p).ip # NoIP
  /\ ImportISO(name[p], Rec(p).ip)
  /\ Goto(p, "imported")
  /\ UNCHANGED <<files, local, bounds>>

\* BootISOVolPath is set.
Imported(p) ==
  /\ pc[p] = "imported"
  /\ Save(p, WithRec(p, [Rec(p) EXCEPT !.boot = TRUE]))
  /\ UNCHANGED host /\ Applied(p)

ApplyCreateNetwork(p) ==
  /\ Applying(p, CreateNetwork)
  /\ IF NAT(name[p]) THEN AddHost(name[p], Rec(p).ip) ELSE UNCHANGED host
  /\ UNCHANGED <<config, mem>> /\ Applied(p)

\* virt-install: the domain boots the ISO the record names, or PXE without
\* one.  A domain of that name, or a missing ISO, is an error.
Creatable(p) == vm[name[p]].st = "absent" /\ (Rec(p).boot => iso[name[p]] # NoIP)
NewVM(p) ==
  [st |-> "on", ip |-> IF Rec(p).boot THEN iso[name[p]] ELSE NoIP, installed |-> FALSE]

ApplyCreateVM(p) ==
  /\ Applying(p, CreateVM) /\ Creatable(p)
  /\ SetVM(name[p], NewVM(p))
  /\ UNCHANGED <<config, mem>> /\ Applied(p)

\* The watchdog of wait-for-install restarts a domain that is off; the
\* installer finishes only on a domain that exists and booted an ISO.
Installable(n) == vm[n].st # "absent" /\ vm[n].ip # NoIP
InstalledVM(n) == [vm[n] EXCEPT !.st = "on", !.installed = TRUE]

ApplyWaitInstall(p) ==
  /\ Applying(p, WaitInstall) /\ Installable(name[p])
  /\ SetVM(name[p], InstalledVM(name[p]))
  /\ UNCHANGED <<config, mem>> /\ Applied(p)

ApplyFinalize(p) ==
  /\ Applying(p, Finalize)
  /\ Save(p, SetPhase(p, "running"))
  /\ UNCHANGED host /\ Applied(p)

\* A stage that cannot succeed in the state it finds ends the command.
ApplyRefused(p) ==
  /\ \/ Applying(p, EmbedISO) /\ Rec(p).ip = NoIP
     \/ Applying(p, CreateVM) /\ ~Creatable(p)
     \/ Applying(p, WaitInstall) /\ ~Installable(name[p])
  /\ Exit(p)
  /\ UNCHANGED <<files, host, bounds>>

\* Mutant of ApplyFails: the error of a stage is not looked at.
ApplyFailsUnnoticed(p) ==
  /\ Spare /\ faults < MaxFaults /\ faults' = faults + 1
  /\ at[p] \in {EmbedISO, CreateVM} /\ Applying(p, at[p])
  /\ Goto(p, "record")
  /\ UNCHANGED <<files, host, local, crashes, cut>>

\* A stage fails on its own: before its effect or, having had it, before its
\* last call returned; an import that fails has dropped the stale volume.  The
\* command ends and nothing is recorded.
ApplyFails(p) ==
  /\ Spare /\ faults < MaxFaults /\ faults' = faults + 1
  /\ \/ Applying(p, UpsertDNS) /\ ~NAT(name[p]) /\ UNCHANGED host
     \/ /\ Applying(p, EmbedISO)
        /\ UNCHANGED host \/ ImportISO(name[p], NoIP) \/ ImportISO(name[p], Rec(p).ip)
     \/ /\ Applying(p, CreateNetwork) /\ NAT(name[p])
        /\ AddHost(name[p], Rec(p).ip) \/ UNCHANGED host
     \/ /\ Applying(p, CreateVM) /\ Creatable(p)
        /\ SetVM(name[p], NewVM(p)) \/ UNCHANGED host
     \/ /\ Applying(p, WaitInstall) /\ Installable(name[p])
        /\ SetVM(name[p], InstalledVM(name[p])) \/ UNCHANGED host
  /\ Exit(p)
  /\ UNCHANGED <<files, crashes, cut>>

Record(p) ==
  /\ pc[p] = "record"
  /\ done' = [done EXCEPT ![p] = @ \cup {at[p]}]
  /\ state' = [state EXCEPT ![name[p]] = done[p] \cup {at[p]}]
  /\ at' = [at EXCEPT ![p] = @ + 1]
  /\ Goto(p, "apply")
  /\ UNCHANGED <<config, host, cmd, name, mem, bounds>>

ApplyDone(p) ==
  /\ pc[p] = "apply" /\ at[p] > Finalize
  /\ Goto(p, "reassert")
  /\ UNCHANGED <<files, host, local, bounds>>

\* Mutant of Reassert: the terminal phase is left to finalize alone.
LeaveToFinalize(p) ==
  /\ pc[p] = "reassert"
  /\ Exit(p)
  /\ UNCHANGED <<files, host, bounds>>

Reassert(p) ==
  /\ pc[p] = "reassert"
  /\ config' = IF Rec(p).phase # "running" THEN Saved(SetPhase(p, "running")) ELSE config
  /\ Exit(p)
  /\ UNCHANGED <<state, host, bounds>>

-----------------------------------------------------------------------------
(* Start and Stop *)

\* virsh start refuses a domain that is absent or active.
Boot(p) ==
  /\ pc[p] = "boot" /\ vm[name[p]].st = "off"
  /\ SetVM(name[p], [vm[name[p]] EXCEPT !.st = "on"])
  /\ Goto(p, "started")
  /\ UNCHANGED <<files, local, bounds>>

BootRefused(p) ==
  /\ pc[p] = "boot" /\ vm[name[p]].st # "off"
  /\ Exit(p)
  /\ UNCHANGED <<files, host, bounds>>

\* virsh start fails, or the domain is up only after the 60s Start waits.
BootFails(p) ==
  /\ pc[p] = "boot" /\ vm[name[p]].st = "off"
  /\ Spare /\ faults < MaxFaults /\ faults' = faults + 1
  /\ SetVM(name[p], [vm[name[p]] EXCEPT !.st = "on"]) \/ UNCHANGED host
  /\ Exit(p)
  /\ UNCHANGED <<files, crashes, cut>>

Started(p) ==
  /\ pc[p] = "started"
  /\ config' = Saved(SetPhase(p, "running"))
  /\ Exit(p)
  /\ UNCHANGED <<state, host, bounds>>

PoweredOff(v) == IF v.st = "on" THEN [v EXCEPT !.st = "off"] ELSE v

\* An error of VM.Stop is only logged.
Halt(p) ==
  /\ pc[p] = "halt"
  /\ SetVM(name[p], PoweredOff(vm[name[p]]))
  /\ Goto(p, "stopped")
  /\ UNCHANGED <<files, local, bounds>>

HaltFails(p) ==
  /\ pc[p] = "halt" /\ vm[name[p]].st = "on"
  /\ Spare /\ faults < MaxFaults /\ faults' = faults + 1
  /\ Goto(p, "stopped")
  /\ UNCHANGED <<files, host, local, crashes, cut>>

MarkStopped(p) ==
  /\ pc[p] = "stopped"
  /\ IF cmd[p] = "delete"
       THEN /\ Save(p, SetPhase(p, "stopped")) /\ Goto(p, "unload")
            /\ UNCHANGED <<cmd, name, done, at>>
       ELSE config' = Saved(SetPhase(p, "stopped")) /\ Exit(p)
  /\ UNCHANGED <<state, host, bounds>>

-----------------------------------------------------------------------------
(* Delete: Runner.Rollback *)

\* Mutant of LoadRollback: the stages are walked in pipeline order.
LoadRollbackForward(p) ==
  /\ pc[p] = "unload" /\ name[p] \notin spoilt
  /\ done' = [done EXCEPT ![p] = state[name[p]]]
  /\ at' = [at EXCEPT ![p] = Register]
  /\ Goto(p, "rollback")
  /\ UNCHANGED <<files, host, cmd, name, mem, bounds>>

LoadRollback(p) ==
  /\ pc[p] = "unload" /\ name[p] \notin spoilt
  /\ done' = [done EXCEPT ![p] = state[name[p]]]
  /\ at' = [at EXCEPT ![p] = Finalize]
  /\ Goto(p, "rollback")
  /\ UNCHANGED <<files, host, cmd, name, mem, bounds>>

SkipUnrecorded(p) ==
  /\ pc[p] = "rollback" /\ at[p] \in Stages \ done[p]
  /\ at' = [at EXCEPT ![p] = @ - 1]
  /\ UNCHANGED <<files, host, pc, cmd, name, mem, done, bounds>>

Undoing(p, s) == pc[p] = "rollback" /\ at[p] = s /\ s \in done[p]

Undone(p) == Goto(p, "drop") /\ UNCHANGED <<cmd, name, done, at, bounds>>

RollbackFinalize(p) ==
  /\ Undoing(p, Finalize)
  /\ Save(p, SetPhase(p, "creating"))
  /\ UNCHANGED <<host, state>> /\ Undone(p)

RollbackWaitInstall(p) ==
  /\ Undoing(p, WaitInstall)
  /\ UNCHANGED <<host, files, mem>> /\ Undone(p)

\* Mutant of RollbackCreateVM: the domain is powered off and stays defined.
HaltOnly(p) ==
  /\ Undoing(p, CreateVM)
  /\ SetVM(name[p], PoweredOff(vm[name[p]]))
  /\ UNCHANGED <<files, mem>> /\ Undone(p)

\* VM.Delete with its storage, the ISO if the domain still has it in a drive;
\* undefining an absent domain fails and is only logged.
RollbackCreateVM(p) ==
  /\ Undoing(p, CreateVM)
  /\ vm' = [vm EXCEPT ![name[p]] = NoVM]
  /\ \/ UNCHANGED iso
     \/ vm[name[p]].st # "absent" /\ iso' = [iso EXCEPT ![name[p]] = NoIP]
  /\ UNCHANGED <<resv, files, mem>> /\ Undone(p)

\* Mutant of RollbackCreateNetwork: the network is shared, so nothing is done.
KeepReservation(p) ==
  /\ Undoing(p, CreateNetwork)
  /\ UNCHANGED <<host, files, mem>> /\ Undone(p)

RollbackCreateNetwork(p) ==
  /\ Undoing(p, CreateNetwork)
  /\ resv' = resv \ {<<name[p], Rec(p).ip>>} /\ UNCHANGED <<vm, iso>>
  /\ UNCHANGED <<files, mem>> /\ Undone(p)

RollbackEmbedISO(p) ==
  /\ Undoing(p, EmbedISO)
  /\ ImportISO(name[p], NoIP)
  /\ Goto(p, "removed")
  /\ UNCHANGED <<files, local, bounds>>

Removed(p) ==
  /\ pc[p] = "removed"
  /\ Save(p, WithRec(p, [Rec(p) EXCEPT !.boot = FALSE]))
  /\ UNCHANGED <<host, state>> /\ Undone(p)

\* RemoveAll of the cluster directory, state.json included.
RollbackEnsureDir(p) ==
  /\ Undoing(p, EnsureDir)
  /\ state' = [state EXCEPT ![name[p]] = {}]
  /\ UNCHANGED <<host, config, mem>> /\ Undone(p)

RollbackUpsertDNS(p) ==
  /\ Undoing(p, UpsertDNS)
  /\ UNCHANGED <<host, files, mem>> /\ Undone(p)

\* Mutant of RollbackAllocate: the address is released but stays in the record.
ReleaseOnly(p) ==
  /\ Undoing(p, Allocate)
  /\ Save(p, [mem[p] EXCEPT !.used = @ \ {Rec(p).ip}])
  /\ UNCHANGED <<host, state>> /\ Undone(p)

\* The address goes back to the pool; the domain derived from it stays.
RollbackAllocate(p) ==
  /\ Undoing(p, Allocate)
  /\ Save(p, [WithRec(p, [Rec(p) EXCEPT !.ip = NoIP]) EXCEPT !.used = @ \ {Rec(p).ip}])
  /\ UNCHANGED <<host, state>> /\ Undone(p)

RollbackRegister(p) ==
  /\ Undoing(p, Register)
  /\ Save(p, [mem[p] EXCEPT !.known = @ \ {name[p]}])
  /\ UNCHANGED <<host, state>> /\ Undone(p)

\* A failing Rollback is logged and the stage dropped all the same.
RollbackFails(p) ==
  /\ Spare /\ faults < MaxFaults /\ faults' = faults + 1
  /\ \/ Undoing(p, UpsertDNS) /\ ~NAT(name[p]) /\ UNCHANGED host /\ Goto(p, "drop")
     \/ Undoing(p, EmbedISO) /\ UNCHANGED host /\ Goto(p, "removed")
     \/ Undoing(p, CreateNetwork) /\ NAT(name[p]) /\ UNCHANGED host /\ Goto(p, "drop")
     \/ /\ Undoing(p, CreateVM) /\ vm[name[p]].st # "absent"
        /\ SetVM(name[p], PoweredOff(vm[name[p]])) \/ UNCHANGED host
        /\ Goto(p, "drop")
  /\ UNCHANGED <<files, local, crashes, cut>>

Drop(p) ==
  /\ pc[p] = "drop"
  /\ done' = [done EXCEPT ![p] = @ \ {at[p]}]
  /\ state' = [state EXCEPT ![name[p]] = done[p] \ {at[p]}]
  /\ at' = [at EXCEPT ![p] = @ - 1]
  /\ Goto(p, "rollback")
  /\ UNCHANGED <<config, host, cmd, name, mem, bounds>>

RollbackDone(p) ==
  /\ pc[p] = "rollback" /\ at[p] < Register
  /\ Goto(p, "wipe")
  /\ UNCHANGED <<files, host, local, bounds>>

WipeDir(p) ==
  /\ pc[p] = "wipe"
  /\ state' = [state EXCEPT ![name[p]] = {}]
  /\ Goto(p, "flush")
  /\ UNCHANGED <<config, host, local, bounds>>

FinishDelete(p) ==
  /\ pc[p] = "flush"
  /\ config' = Saved(mem[p])
  /\ Exit(p)
  /\ UNCHANGED <<state, host, bounds>>

-----------------------------------------------------------------------------
(* Half-written files.  os.WriteFile truncates a file before it writes it.  *)
(* A kill in between leaves what neither LoadConfig nor loadState parses;    *)
(* config and state then are what was complete last, which nobody can read.  *)

\* The next step of p overwrites config.json, or the state.json of its target.
Saving(p) ==
  \/ pc[p] \in {"imported", "started", "stopped", "removed", "flush"}
  \/ pc[p] = "reassert" /\ Rec(p).phase # "running"
  \/ Applying(p, Register) /\ name[p] \notin mem[p].known
  \/ Applying(p, Allocate) /\ Rec(p).ip = NoIP /\ (NAT(name[p]) => ~(Pool \subseteq mem[p].used))
  \/ Applying(p, Finalize)
  \/ \E s \in {Register, Allocate, Finalize} : Undoing(p, s)
Noting(p) == pc[p] \in {"record", "drop"}

\* What a step of p writes is whole again, and a removed file is no file.
Mends(p) ==
  /\ torn' = (torn /\ ~Saving(p))
  /\ spoilt' = IF Noting(p) \/ pc[p] = "wipe" \/ Undoing(p, EnsureDir)
                 THEN spoilt \ {name[p]} ELSE spoilt

\* The processes P are killed, each perhaps in the middle of its write; saving
\* says whether one that is killed was about to write config.json.
Tears(P, saving) ==
  /\ torn' \in {torn, torn \/ saving}
  /\ \E S \in SUBSET {p \in P : Noting(p)} : spoilt' = spoilt \cup {name[p] : p \in S}

\* loadState fails: the create or the delete ends.
StateUnreadable(p) ==
  /\ pc[p] \in {"load", "unload"} /\ name[p] \in spoilt
  /\ Exit(p)
  /\ UNCHANGED <<files, host, bounds>>

-----------------------------------------------------------------------------
(* The environment *)

\* Ctrl-C (no signal handler), kill, power loss of the terminal session.
Crash(p) ==
  /\ pc[p] # "idle" /\ cmd[p] \in Interruptible
  /\ Spare /\ crashes < MaxCrashes /\ crashes' = crashes + 1
  /\ cut' = cut \cup {cmd[p]}
  /\ Exit(p) /\ Tears({p}, Saving(p))
  /\ UNCHANGED <<files, host, faults>>

\* Every process dies and every domain is off: virt-install sets no autostart.
\* (The files that this leaves half written: Next.)
HostReboot ==
  /\ \A p \in Procs : pc[p] = "idle" \/ cmd[p] \in Interruptible
  /\ Spare /\ crashes < MaxCrashes /\ crashes' = crashes + 1
  /\ cut' = cut \cup {cmd[p] : p \in Procs}
  /\ vm' = [c \in Clusters |-> PoweredOff(vm[c])]
  /\ pc' = [p \in Procs |-> "idle"]
  /\ cmd' = [p \in Procs |-> "none"]
  /\ name' = [p \in Procs |-> NoName]
  /\ mem' = [p \in Procs |-> EmptyConfig]
  /\ done' = [p \in Procs |-> {}]
  /\ at' = [p \in Procs |-> 0]
  /\ UNCHANGED <<files, iso, resv, faults>>

CreateStep(p) ==
  \/ LoadState(p) \/ SkipApplied(p) \/ Record(p) \/ ApplyDone(p) \/ Reassert(p)
  \/ ApplyRegister(p) \/ ApplyAllocate(p) \/ PoolExhausted(p) \/ ApplyUpsertDNS(p)
  \/ ApplyEnsureDir(p) \/ ApplyEmbedISO(p) \/ Imported(p) \/ ApplyCreateNetwork(p) \/ ApplyCreateVM(p)
  \/ ApplyWaitInstall(p) \/ ApplyFinalize(p) \/ ApplyRefused(p) \/ ApplyFails(p)

PowerStep(p) ==
  \/ Boot(p) \/ BootRefused(p) \/ BootFails(p) \/ Started(p)
  \/ Halt(p) \/ HaltFails(p) \/ MarkStopped(p)

DeleteStep(p) ==
  \/ LoadRollback(p) \/ SkipUnrecorded(p) \/ Drop(p) \/ RollbackDone(p)
  \/ WipeDir(p) \/ FinishDelete(p)
  \/ RollbackFinalize(p) \/ RollbackWaitInstall(p) \/ RollbackCreateVM(p)
  \/ RollbackCreateNetwork(p) \/ RollbackEmbedISO(p) \/ Removed(p) \/ RollbackEnsureDir(p)
  \/ RollbackUpsertDNS(p) \/ RollbackAllocate(p) \/ RollbackRegister(p) \/ RollbackFails(p)

LaunchStep(p) ==
  \E n \in Clusters :
    LaunchCreate(p, n) \/ LaunchStart(p, n) \/ LaunchStop(p, n) \/ LaunchDelete(p, n)

\* A step of the command p runs, with what it does to half-written files.
Step(p) ==
  /\ CreateStep(p) \/ PowerStep(p) \/ DeleteStep(p) \/ StateUnreadable(p)
  /\ Mends(p)

Next ==
  \/ \E p \in Procs : LaunchStep(p) \/ Step(p) \/ Crash(p)
  \/ LoadConfigFails
  \/ HostReboot /\ Tears(Procs, \E p \in Procs : Saving(p))

Spec == Init /\ [][Next]_vars

\* A process that runs a command takes its next step: the code between two
\* external calls is straight-line, and every external call returns.
FairSpec == Spec /\ \A p \in Procs : WF_vars(Step(p))

-----------------------------------------------------------------------------
(* Properties *)

\* Every variable keeps its type: no command takes more stages off or adds
\* more to a state.json than buildStages has, and no address from outside
\* the pool is marked used.
TypeOK ==
  /\ config \in Configs
  /\ state \in [Clusters -> SUBSET Stages]
  /\ vm \in [Clusters -> VMs]
  /\ iso \in [Clusters -> Nat]
  /\ resv \subseteq Clusters \X Nat
  /\ pc \in [Procs -> PCs]
  /\ cmd \in [Procs -> Commands \cup {"none"}]
  /\ name \in [Procs -> Clusters \cup {NoName}]
  /\ mem \in [Procs -> Configs]
  /\ done \in [Procs -> SUBSET Stages]
  /\ at \in [Procs -> 0..10]
  /\ crashes \in 0..MaxCrashes /\ faults \in 0..MaxFaults
  /\ cut \subseteq Commands \cup {"none"}

DamageOK == torn \in BOOLEAN /\ spoilt \subseteq Clusters

Deleting(c) == \E p \in Procs : name[p] = c /\ cmd[p] = "delete"
Prefix(S) == \A s \in S : 1..s \subseteq S

\* The stages a state.json records are an initial segment of the pipeline,
\* so that the Runner, which skips what is recorded, resumes "from the last
\* completed stage" (runner.go).  For any number of commands and crashes.
PrefixRecorded == \A c \in Clusters : Prefix(state[c])

\* The pool address config.json shows a cluster to own.
Addr(c) == IF c \in config.known /\ NAT(c) THEN config.data[c].ip ELSE NoIP

\* NAT clusters never collide (configuration.md): an address of the pool has
\* one owner in config.json and is marked used while it has.
UniqueAddresses ==
  /\ \A c \in Clusters : Addr(c) # NoIP => Addr(c) \in config.used
  /\ \A c, d \in Clusters : c # d /\ Addr(c) # NoIP => Addr(c) # Addr(d)

\* What stage s leaves behind for c, as a later stage or command finds it.
Effect(c, s) ==
  /\ s = Register => c \in config.known
  /\ s = Allocate => config.data[c].ip # NoIP
  /\ s = EmbedISO => iso[c] = config.data[c].ip /\ config.data[c].boot
  /\ s = CreateVM => vm[c].st # "absent" /\ vm[c].ip = config.data[c].ip
  /\ s = WaitInstall => vm[c].installed
  /\ s = Finalize => config.data[c].phase \in {"running", "stopped"}

\* What the files say is true.  A stage recorded in state.json is in effect,
\* unless a delete is taking the cluster down or one has crashed: what Apply's
\* skip of recorded stages relies on.  And a cluster `list` shows as running has
\* a libvirt domain.  Create, start and stop may crash or fail anywhere.
RecordIsTruthful ==
  /\ "delete" \notin cut =>
       \A c \in Clusters : ~Deleting(c) => \A s \in state[c] : Effect(c, s)
  /\ \A c \in config.known : config.data[c].phase = "running" => vm[c].st # "absent"

\* None of these commands was killed, and no external call failed.
Uncut(commands) == faults = 0 /\ cut \cap commands = {}

\* No create, no delete and no call was cut short; starts and stops may have
\* been killed, and the host rebooted.
Undisturbed == Uncut({"create", "delete"})

\* A NAT cluster past create-network has the DHCP reservation of its address
\* (AddHost takes any "already" from virsh for success), until a create is
\* killed between an effect and its record, or a delete.
ReservationHeld ==
  Undisturbed =>
    \A c \in Clusters : ~Deleting(c) /\ NAT(c) /\ CreateNetwork \in state[c] =>
      <<c, config.data[c].ip>> \in resv

\* The addresses pinned by what n boots or has booted (embed-ignition-iso).
Pinned(n) == {iso[n], vm[n].ip} \ {NoIP}

\* No two clusters pin the same address, in a domain or in an ISO of the pool,
\* with deletes that are killed.  A create that is killed may pin an address
\* that a later delete gives back without knowing.
PinnedAddressesUnique ==
  Uncut({"create"}) =>
    \A c, d \in Clusters : c # d => Pinned(c) \cap Pinned(d) = {}

\* A NAT cluster's magic domain names the address it owns (deriveMagicDomain),
\* as long as no delete has crashed: the rollback of allocate-network leaves
\* the domain, and only a delete that ends removes it with the record.
DomainNamesOwnAddress ==
  "delete" \notin cut =>
    \A c \in config.known : Addr(c) # NoIP => config.data[c].domain = Addr(c)

Gone(c) ==
  /\ c \notin config.known /\ state[c] = {} /\ vm[c].st = "absent" /\ iso[c] = NoIP
  /\ \A r \in resv : r[1] # c

\* A delete that returns success leaves nothing of the cluster behind
\* (usage.md: it rolls back each applied stage and removes the directory),
\* unless a create was killed before the record of an effect.
DeleteLeavesNothing ==
  [][\A p \in Procs, c \in Clusters :
       name[p] = c /\ FinishDelete(p) /\ Undisturbed => Gone(c)']_vars

Runs(k, c) == \E p \in Procs : cmd[p] = k /\ name[p] = c

\* A create ends with the cluster running: the pipeline of buildStages has no
\* state that it cannot complete.
CreateCompletes ==
  \A c \in Clusters :
    Runs("create", c) /\ Undisturbed
      ~> (c \in config.known /\ config.data[c].phase = "running") \/ ~Undisturbed

\* A delete ends with the cluster unregistered and its address back in the
\* pool, whatever the stage its create had reached.
DeleteCompletes ==
  \A c \in Clusters :
    Runs("delete", c) /\ Undisturbed
      ~> (c \notin config.known /\ config.used \subseteq {Addr(d) : d \in Clusters})
           \/ ~Undisturbed

\* From wherever the earlier commands left a cluster, both get to their end, once
\* they are launched: a start or a stop that is killed inside its write of
\* config.json is the last command that is.
CommandsComplete == CreateCompletes /\ DeleteCompletes

Registry == INSTANCE ClusterRegistry WITH
  Addresses <- Pool, NoAddr <- NoIP,
  phase <- [c \in Clusters |-> IF c \in config.known THEN config.data[c].phase ELSE "absent"],
  addr <- [c \in Clusters |-> Addr(c)],
  reserved <- config.used,
  lost <- torn

\* With one command at a time config.json moves only as ClusterRegistry
\* allows, crashes and failing stages included.
RegistrySpec == Registry!Spec

-----------------------------------------------------------------------------
(* What a comment of the repository says and the code does not do: refuted   *)
(* by a run of its own.                                                      *)

\* A create that returns success leaves the domain up (Create's comment: "the
\* cluster is fully built ... even though it is up").
CreateLeavesUp ==
  [][\A p \in Procs : Reassert(p) => vm[name[p]].st = "on"]_vars

=============================================================================
