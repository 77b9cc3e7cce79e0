------------------------- MODULE ClusterManagerProofs -------------------------
(***************************************************************************)
(* What the runs check on small instances, proved of ClusterManager for    *)
(* every number of clusters, addresses, concurrent commands, crashes and   *)
(* failing calls: the types, that state.json records an initial segment of *)
(* the pipeline, and that no two clusters of config.json own one address.  *)
(*                                                                         *)
(* From Serial on, one command runs at a time, of any number of processes: *)
(* the code takes no lock on config.json, so what it promises of a whole   *)
(* command it promises of a command that runs alone: the refinement of     *)
(* ClusterRegistry first, then what the commands do on the host.           *)
(*                                                                         *)
(* Last, the resets of NATReset: what they keep of all this, and what they *)
(* promise themselves.                                                     *)
(***************************************************************************)
EXTENDS NATReset, TLAPS, WellFoundedInduction

-----------------------------------------------------------------------------
(* Data: the operators that build a copy of config.json keep its type. *)

LEMMA EmptyType == Blank \in Records /\ EmptyConfig \in Configs
  BY DEF Blank, Records, Phases, NoIP, EmptyConfig, Configs

LEMMA SavedType ==
  ASSUME NEW m \in Configs
  PROVE  Saved(m) \in Configs
  BY EmptyType DEF Saved, Configs

LEMMA RecType ==
  ASSUME TypeOK, NEW p \in Procs, name[p] \in Clusters
  PROVE  Rec(p) \in Records
  BY DEF TypeOK, Rec, Configs

LEMMA WithRecType ==
  ASSUME TypeOK, NEW p \in Procs, name[p] \in Clusters, NEW r \in Records
  PROVE  WithRec(p, r) \in Configs
  BY DEF TypeOK, WithRec, Configs

LEMMA SetPhaseType ==
  ASSUME TypeOK, NEW p \in Procs, name[p] \in Clusters, NEW ph \in Phases
  PROVE  SetPhase(p, ph) \in Configs
<1>1. [Rec(p) EXCEPT !.phase = ph] \in Records
  BY RecType DEF Records
<1>2. QED BY <1>1, WithRecType DEF SetPhase

\* allocateIP returns an address of the pool that is not used, if there is one.
LEMMA FirstFreeIsFree ==
  ASSUME NEW used, Pool \ used # {}
  PROVE  FirstFree(used) \in Pool \ used
<1> DEFINE Free == Pool \ used
<1>1. Free \subseteq Nat
  BY ManagerAssumption DEF Pool
<1>2. PICK x \in Free : \A y \in Free : ~ (<<y, x>> \in OpToRel(<, Nat))
  BY <1>1, NatLessThanWellFounded, WFMin
<1>3. \A y \in Free : x <= y
  <2>1. SUFFICES ASSUME NEW y \in Free, y < x PROVE FALSE
    BY <1>1
  <2>2. <<y, x>> \in OpToRel(<, Nat)
    BY <1>1, <2>1 DEF OpToRel
  <2>3. QED BY <1>2, <2>2
<1>4. \E z \in Pool \ used : \A y \in Pool \ used : z <= y
  BY <1>3
<1>5. QED BY <1>4 DEF FirstFree

-----------------------------------------------------------------------------
(* Types.  TypeOK is inductive once it is known that a process that runs a   *)
(* command has a target, and that the Runner's stage is one of the pipeline  *)
(* while it is being applied or undone.                                      *)

Targets == \A p \in Procs : pc[p] # "idle" => name[p] \in Clusters

Positions ==
  \A p \in Procs :
    /\ pc[p] = "apply" => at[p] \in 1..10
    /\ pc[p] = "rollback" => at[p] \in 0..9
    /\ pc[p] \in {"imported", "record", "removed", "drop"} => at[p] \in Stages

TypeInv == TypeOK /\ Targets /\ Positions

\* A step, without what it does to half-written files.
Moved ==
  \/ \E p \in Procs :
       LaunchStep(p) \/ CreateStep(p) \/ PowerStep(p) \/ DeleteStep(p) \/ StateUnreadable(p) \/ Crash(p)
  \/ HostReboot
  \/ UNCHANGED vars

LEMMA NextMoves == [Next]_vars => Moved
  BY DEF Next, Step, LoadConfigFails, Moved

LEMMA TypeInit == Init => TypeInv
  BY ManagerAssumption, EmptyType
  DEF Init, TypeInv, TypeOK, Targets, Positions, PCs, NoVM, VMs, NoIP, Commands, Stages

HostOK ==
  /\ vm \in [Clusters -> VMs] /\ iso \in [Clusters -> Nat]
  /\ resv \subseteq Clusters \X Nat

\* What Exit and Save leave behind, for any action that ends in one.
LEMMA ExitTypes ==
  ASSUME TypeInv, NEW p \in Procs, Exit(p),
         config' \in Configs, state' \in [Clusters -> SUBSET Stages],
         HostOK',
         crashes' \in 0..MaxCrashes, faults' \in 0..MaxFaults,
         cut' \subseteq Commands \cup {"none"}
  PROVE  TypeInv'
  BY EmptyType DEF TypeInv, TypeOK, HostOK, Targets, Positions, Exit, Goto, PCs, Stages

LEMMA SaveTypes ==
  ASSUME TypeOK, NEW p \in Procs, NEW m \in Configs, Save(p, m)
  PROVE  config' \in Configs /\ mem' \in [Procs -> Configs]
  BY SavedType DEF TypeOK, Save

LEMMA VMTypes ==
  ASSUME TypeOK, NEW n \in Clusters
  PROVE  /\ NoVM \in VMs /\ PoweredOff(vm[n]) \in VMs /\ InstalledVM(n) \in VMs
         /\ [vm[n] EXCEPT !.st = "on"] \in VMs
<1>1. vm[n] \in VMs
  BY DEF TypeOK
<1>2. QED BY <1>1 DEF NoVM, VMs, NoIP, PoweredOff, InstalledVM

LEMMA NewVMType ==
  ASSUME TypeOK, NEW p \in Procs, name[p] \in Clusters
  PROVE  NewVM(p) \in VMs
  BY DEF TypeOK, NewVM, VMs, NoIP

\* Every effect on the host keeps the host's types.
LEMMA HostTypes ==
  ASSUME TypeOK, NEW n \in Clusters, NEW x \in Nat, NEW v \in VMs,
         \/ SetVM(n, v) \/ ImportISO(n, x) \/ AddHost(n, x) \/ UNCHANGED host
  PROVE  HostOK'
<1>1. CASE SetVM(n, v)
  BY <1>1 DEF TypeOK, HostOK, SetVM
<1>2. CASE ImportISO(n, x)
  BY <1>2 DEF TypeOK, HostOK, ImportISO
<1>3. CASE AddHost(n, x)
  BY <1>3 DEF TypeOK, HostOK, AddHost
<1>4. CASE UNCHANGED host
  BY <1>4 DEF TypeOK, HostOK, host
<1>5. QED BY <1>1, <1>2, <1>3, <1>4

LEMMA LaunchType ==
  ASSUME TypeInv, NEW p \in Procs, NEW n \in Clusters,
         LaunchCreate(p, n) \/ LaunchStart(p, n) \/ LaunchStop(p, n) \/ LaunchDelete(p, n)
  PROVE  TypeInv'
<1>1. \E l \in {"load", "boot", "halt", "unload"}, c \in Commands : Launch(p, c, n, l)
  BY DEF LaunchCreate, LaunchStart, LaunchStop, LaunchDelete, Commands
<1>2. QED
  BY <1>1 DEF TypeInv, TypeOK, Targets, Positions, Launch, Goto, PCs, files, host, bounds

LEMMA CreateType ==
  ASSUME TypeInv, NEW p \in Procs, CreateStep(p)
  PROVE  TypeInv'
<1> USE DEF Stages, NoIP
<1>0. pc[p] # "idle" /\ name[p] \in Clusters /\ TypeOK
  BY DEF TypeInv, Targets, CreateStep, LoadState, SkipApplied, Record, ApplyDone, Reassert,
     ApplyRegister, ApplyAllocate, PoolExhausted, ApplyUpsertDNS, ApplyEnsureDir, ApplyEmbedISO,
     Imported, ApplyCreateNetwork, ApplyCreateVM, ApplyWaitInstall, ApplyFinalize, ApplyRefused,
     ApplyFails, Applying
<1>1. CASE LoadState(p)
  BY <1>0, <1>1 DEF TypeInv, TypeOK, Targets, Positions, LoadState, Goto, PCs, Register, files, host, bounds
<1>2. CASE SkipApplied(p)
  BY <1>0, <1>2 DEF TypeInv, TypeOK, Targets, Positions, SkipApplied, files, host, bounds
<1>3. CASE Record(p)
  BY <1>0, <1>3 DEF TypeInv, TypeOK, Targets, Positions, Record, Goto, PCs, host, bounds
<1>4. CASE ApplyDone(p)
  BY <1>0, <1>4 DEF TypeInv, TypeOK, Targets, Positions, ApplyDone, Goto, PCs, files, host, local, bounds
<1>5. CASE Reassert(p)
  <2>1. config' \in Configs
    BY <1>0, <1>5, SetPhaseType, SavedType DEF TypeOK, Reassert, Phases
  <2>2. QED BY <1>0, <1>5, <2>1, ExitTypes DEF Reassert, TypeInv, TypeOK, HostOK, host, bounds
<1>6. CASE PoolExhausted(p) \/ ApplyRefused(p)
  BY <1>0, <1>6, ExitTypes DEF PoolExhausted, ApplyRefused, TypeInv, TypeOK, HostOK, files, host, bounds
<1>7. CASE ApplyFails(p)
  <2>1. HostOK'
    <3>1. Rec(p).ip \in Nat /\ 0 \in Nat
      BY <1>0, RecType DEF Records
    <3>2. \E v \in VMs, x \in Nat :
            \/ SetVM(name[p], v) \/ ImportISO(name[p], x) \/ AddHost(name[p], x)
            \/ UNCHANGED host
      BY <1>0, <1>7, <3>1, VMTypes, NewVMType DEF ApplyFails
    <3>3. QED BY <1>0, <3>2, HostTypes
  <2>2. faults' \in 0..MaxFaults
    BY <1>0, <1>7, ManagerAssumption DEF ApplyFails, TypeOK
  <2>3. QED BY <1>0, <1>7, <2>1, <2>2, ExitTypes DEF ApplyFails, TypeOK, files
<1>8. CASE ApplyEmbedISO(p)
  <2>1. Rec(p).ip \in Nat
    BY <1>0, RecType DEF Records
  <2>2. HostOK'
    BY <1>0, <1>8, <2>1, HostTypes, VMTypes DEF ApplyEmbedISO
  <2>3. QED BY <1>0, <1>8, <2>2 DEF TypeInv, TypeOK, HostOK, Targets, Positions,
            ApplyEmbedISO, Applying, EmbedISO, Goto, PCs, files, local, bounds
<1>9. ASSUME pc[p] \in {"apply", "imported"}, at[p] \in Stages, HostOK',
             config' \in Configs, mem' \in [Procs -> Configs], Applied(p)
      PROVE  TypeInv'
  BY <1>0, <1>9 DEF TypeInv, TypeOK, HostOK, Targets, Positions, Applied, Goto, PCs, bounds
<1>10. CASE Imported(p)
  <2>1. [Rec(p) EXCEPT !.boot = TRUE] \in Records
    BY <1>0, RecType DEF Records
  <2>2. config' \in Configs /\ mem' \in [Procs -> Configs]
    BY <1>0, <1>10, <2>1, WithRecType, SaveTypes DEF Imported
  <2>3. QED BY <1>0, <1>9, <1>10, <2>2 DEF Imported, TypeInv, TypeOK, HostOK, Positions, host
<1>11. ASSUME NEW s, Applying(p, s), s \in Stages PROVE pc[p] = "apply" /\ at[p] \in Stages
  BY <1>11 DEF Applying
<1>12. CASE ApplyRegister(p)
  <2>1. [SetPhase(p, "creating") EXCEPT !.known = @ \cup {name[p]}] \in Configs
    BY <1>0, SetPhaseType DEF Configs, Phases
  <2>2. config' \in Configs /\ mem' \in [Procs -> Configs]
    BY <1>0, <1>12, <2>1, SaveTypes DEF ApplyRegister, TypeOK
  <2>3. QED BY <1>0, <1>9, <1>11, <1>12, <2>2 DEF ApplyRegister, TypeOK, HostOK, host, Register
<1>13. CASE ApplyAllocate(p)
  <2>1. ASSUME Pool \ mem[p].used # {}
        PROVE  [WithRec(p, WithAddress(Rec(p), FirstFree(mem[p].used)))
                 EXCEPT !.used = @ \cup {FirstFree(mem[p].used)}] \in Configs
    <3>1. FirstFree(mem[p].used) \in Pool /\ FirstFree(mem[p].used) \in Nat
      BY <2>1, FirstFreeIsFree, ManagerAssumption DEF Pool
    <3>2. WithAddress(Rec(p), FirstFree(mem[p].used)) \in Records
      BY <1>0, <3>1, RecType DEF Records, WithAddress
    <3>3. QED BY <1>0, <3>1, <3>2, WithRecType DEF Configs
  <2>2. WithRec(p, [Rec(p) EXCEPT !.ip = MasterIP[name[p]]]) \in Configs
    <3>1. [Rec(p) EXCEPT !.ip = MasterIP[name[p]]] \in Records
      BY <1>0, RecType, ManagerAssumption DEF Records
    <3>2. QED BY <1>0, <3>1, WithRecType
  <2>3. config' \in Configs /\ mem' \in [Procs -> Configs]
    BY <1>0, <1>13, <2>1, <2>2, SaveTypes DEF ApplyAllocate, TypeOK
  <2>4. QED BY <1>0, <1>9, <1>11, <1>13, <2>3 DEF ApplyAllocate, TypeOK, HostOK, host, Allocate
<1>14. CASE ApplyUpsertDNS(p)
  BY <1>0, <1>9, <1>11, <1>14, HostTypes, VMTypes DEF ApplyUpsertDNS, TypeOK, UpsertDNS
<1>15. CASE ApplyEnsureDir(p)
  BY <1>0, <1>9, <1>11, <1>15 DEF ApplyEnsureDir, TypeOK, HostOK, host, EnsureDir
<1>16. CASE ApplyCreateNetwork(p)
  <2>1. Rec(p).ip \in Nat
    BY <1>0, RecType DEF Records
  <2>2. QED BY <1>0, <1>9, <1>11, <1>16, <2>1, HostTypes, VMTypes
        DEF ApplyCreateNetwork, TypeOK, CreateNetwork
<1>17. CASE ApplyCreateVM(p)
  BY <1>0, <1>9, <1>11, <1>17, HostTypes, NewVMType DEF ApplyCreateVM, TypeOK, CreateVM
<1>18. CASE ApplyWaitInstall(p)
  <2>1. HostOK'
    BY <1>0, <1>18, HostTypes, VMTypes DEF ApplyWaitInstall
  <2>2. QED BY <1>0, <1>9, <1>11, <1>18, <2>1 DEF ApplyWaitInstall, TypeOK, WaitInstall
<1>19. CASE ApplyFinalize(p)
  <2>1. config' \in Configs /\ mem' \in [Procs -> Configs]
    BY <1>0, <1>19, SetPhaseType, SaveTypes DEF ApplyFinalize, Phases
  <2>2. QED BY <1>0, <1>9, <1>11, <1>19, <2>1 DEF ApplyFinalize, TypeOK, HostOK, host, Finalize
<1>20. QED
  BY <1>1, <1>2, <1>3, <1>4, <1>5, <1>6, <1>7, <1>8, <1>10, <1>12, <1>13, <1>14, <1>15,
     <1>16, <1>17, <1>18, <1>19 DEF CreateStep

LEMMA PowerType ==
  ASSUME TypeInv, NEW p \in Procs, PowerStep(p)
  PROVE  TypeInv'
<1>0. pc[p] # "idle" /\ name[p] \in Clusters /\ TypeOK
  BY DEF TypeInv, Targets, PowerStep, Boot, BootRefused, BootFails, Started, Halt, HaltFails, MarkStopped
<1>1. CASE Boot(p) \/ Halt(p) \/ HaltFails(p)
  <2>1. HostOK'
    BY <1>0, <1>1, HostTypes, VMTypes DEF Boot, Halt, HaltFails
  <2>2. faults' \in 0..MaxFaults /\ crashes' = crashes /\ cut' = cut
    BY <1>1, <1>0, ManagerAssumption DEF Boot, Halt, HaltFails, TypeOK, bounds
  <2>3. QED BY <1>0, <1>1, <2>1, <2>2 DEF TypeInv, TypeOK, HostOK, Targets, Positions, Boot,
            Halt, HaltFails, Goto, PCs, files, local
<1>2. CASE BootRefused(p)
  BY <1>0, <1>2, ExitTypes DEF BootRefused, TypeOK, HostOK, files, host, bounds
<1>3. CASE BootFails(p)
  <2>1. HostOK'
    BY <1>0, <1>3, HostTypes, VMTypes DEF BootFails
  <2>2. faults' \in 0..MaxFaults
    BY <1>0, <1>3, ManagerAssumption DEF BootFails, TypeOK
  <2>3. QED BY <1>0, <1>3, <2>1, <2>2, ExitTypes DEF BootFails, TypeOK, files
<1>4. CASE Started(p)
  <2>1. config' \in Configs
    BY <1>0, <1>4, SetPhaseType, SavedType DEF Started, Phases
  <2>2. QED BY <1>0, <1>4, <2>1, ExitTypes DEF Started, TypeOK, HostOK, host, bounds
<1>5. CASE MarkStopped(p)
  <2>1. SetPhase(p, "stopped") \in Configs
    BY <1>0, SetPhaseType DEF Phases
  <2>2. CASE cmd[p] = "delete"
    <3>1. config' \in Configs /\ mem' \in [Procs -> Configs]
      BY <1>0, <1>5, <2>1, <2>2, SaveTypes DEF MarkStopped
    <3>2. QED BY <1>0, <1>5, <2>2, <3>1 DEF TypeInv, TypeOK, Targets, Positions, MarkStopped,
              Goto, PCs, host, bounds
  <2>3. CASE cmd[p] # "delete"
    BY <1>0, <1>5, <2>1, <2>3, SavedType, ExitTypes DEF MarkStopped, TypeOK, HostOK, host, bounds
  <2>4. QED BY <2>2, <2>3
<1>6. QED BY <1>1, <1>2, <1>3, <1>4, <1>5 DEF PowerStep

LEMMA DeleteType ==
  ASSUME TypeInv, NEW p \in Procs, DeleteStep(p)
  PROVE  TypeInv'
<1> USE DEF Stages, NoIP
<1>0. pc[p] # "idle" /\ name[p] \in Clusters /\ TypeOK
  BY DEF TypeInv, Targets, DeleteStep, LoadRollback, SkipUnrecorded, Drop, RollbackDone, WipeDir,
     FinishDelete, RollbackFinalize, RollbackWaitInstall, RollbackCreateVM, RollbackCreateNetwork,
     RollbackEmbedISO, Removed, RollbackEnsureDir, RollbackUpsertDNS, RollbackAllocate,
     RollbackRegister, RollbackFails, Undoing
<1>1. CASE LoadRollback(p)
  BY <1>0, <1>1 DEF TypeInv, TypeOK, Targets, Positions, LoadRollback, Finalize, Goto, PCs, files, host, bounds
<1>2. CASE SkipUnrecorded(p)
  BY <1>0, <1>2 DEF TypeInv, TypeOK, Targets, Positions, SkipUnrecorded, files, host, bounds
<1>3. CASE Drop(p)
  BY <1>0, <1>3 DEF TypeInv, TypeOK, Targets, Positions, Drop, Goto, PCs, host, bounds
<1>4. CASE RollbackDone(p)
  BY <1>0, <1>4 DEF TypeInv, TypeOK, Targets, Positions, RollbackDone, Goto, PCs, files, host, local, bounds
<1>5. CASE WipeDir(p)
  BY <1>0, <1>5 DEF TypeInv, TypeOK, Targets, Positions, WipeDir, Goto, PCs, host, local, bounds
<1>6. CASE FinishDelete(p)
  BY <1>0, <1>6, SavedType, ExitTypes DEF FinishDelete, TypeOK, HostOK, host, bounds
\* What every Rollback ends in: the stage is about to be dropped.
<1>7. ASSUME pc[p] \in {"rollback", "removed"}, at[p] \in Stages, HostOK',
             config' \in Configs, state' \in [Clusters -> SUBSET Stages],
             mem' \in [Procs -> Configs], Goto(p, "drop") \/ Goto(p, "removed"),
             UNCHANGED <<cmd, name, done, at>>,
             crashes' \in 0..MaxCrashes, faults' \in 0..MaxFaults, UNCHANGED cut
      PROVE  TypeInv'
  BY <1>0, <1>7 DEF TypeInv, TypeOK, HostOK, Targets, Positions, Goto, PCs
<1>8. ASSUME NEW s \in Stages, Undoing(p, s) PROVE pc[p] = "rollback" /\ at[p] \in Stages
  BY <1>8 DEF Undoing
<1>9. CASE RollbackFinalize(p)
  <2>1. config' \in Configs /\ mem' \in [Procs -> Configs]
    BY <1>0, <1>9, SetPhaseType, SaveTypes DEF RollbackFinalize, Phases
  <2>2. QED BY <1>0, <1>7, <1>8, <1>9, <2>1 DEF RollbackFinalize, Finalize, Undone, TypeOK, HostOK, host, bounds
<1>10. CASE RollbackWaitInstall(p)
  BY <1>0, <1>7, <1>8, <1>10 DEF RollbackWaitInstall, WaitInstall, Undone, TypeOK, HostOK, host, files, bounds
<1>11. CASE RollbackCreateVM(p)
  <2>1. HostOK'
    <3>1. NoVM \in VMs
      BY DEF NoVM, VMs
    <3>2. vm' \in [Clusters -> VMs]
      BY <1>0, <1>11, <3>1 DEF RollbackCreateVM, TypeOK
    <3>3. iso' \in [Clusters -> Nat]
      BY <1>0, <1>11 DEF RollbackCreateVM, TypeOK
    <3>4. QED BY <1>0, <1>11, <3>2, <3>3 DEF RollbackCreateVM, HostOK, TypeOK
  <2>2. QED BY <1>0, <1>7, <1>8, <1>11, <2>1 DEF RollbackCreateVM, CreateVM, Undone, TypeOK, files, bounds
<1>12. CASE RollbackCreateNetwork(p)
  <2>1. HostOK'
    BY <1>0, <1>12 DEF RollbackCreateNetwork, TypeOK, HostOK
  <2>2. QED BY <1>0, <1>7, <1>8, <1>12, <2>1
        DEF RollbackCreateNetwork, CreateNetwork, Undone, TypeOK, files, bounds
<1>13. CASE RollbackEmbedISO(p)
  <2>1. HostOK'
    BY <1>0, <1>13, HostTypes, VMTypes DEF RollbackEmbedISO
  <2>2. QED BY <1>0, <1>7, <1>8, <1>13, <2>1 DEF RollbackEmbedISO, EmbedISO, TypeOK, files, local, bounds
<1>14. CASE Removed(p)
  <2>1. [Rec(p) EXCEPT !.boot = FALSE] \in Records
    BY <1>0, RecType DEF Records
  <2>2. config' \in Configs /\ mem' \in [Procs -> Configs]
    BY <1>0, <1>14, <2>1, WithRecType, SaveTypes DEF Removed
  <2>3. at[p] \in Stages
    BY <1>14 DEF Removed, TypeInv, Positions
  <2>4. QED BY <1>0, <1>7, <1>14, <2>2, <2>3 DEF Removed, Undone, TypeOK, HostOK, host, bounds
<1>15. CASE RollbackEnsureDir(p)
  BY <1>0, <1>7, <1>8, <1>15 DEF RollbackEnsureDir, EnsureDir, Undone, TypeOK, HostOK, host, bounds
<1>16. CASE RollbackUpsertDNS(p)
  <2>1. HostOK'
    BY <1>0, <1>16 DEF RollbackUpsertDNS, TypeOK, HostOK, host
  <2>2. QED BY <1>0, <1>7, <1>8, <1>16, <2>1
        DEF RollbackUpsertDNS, UpsertDNS, Undone, TypeOK, files, bounds
<1>17. CASE RollbackAllocate(p)
  <2>1. [Rec(p) EXCEPT !.ip = NoIP] \in Records
    BY <1>0, RecType DEF Records
  <2>2. [WithRec(p, [Rec(p) EXCEPT !.ip = NoIP]) EXCEPT !.used = @ \ {Rec(p).ip}] \in Configs
    BY <1>0, <2>1, WithRecType DEF Configs
  <2>3. config' \in Configs /\ mem' \in [Procs -> Configs]
    BY <1>0, <1>17, <2>2, SaveTypes DEF RollbackAllocate
  <2>4. QED BY <1>0, <1>7, <1>8, <1>17, <2>3 DEF RollbackAllocate, Allocate, Undone, TypeOK, HostOK, host, bounds
<1>18. CASE RollbackRegister(p)
  <2>1. [mem[p] EXCEPT !.known = @ \ {name[p]}] \in Configs
    BY <1>0 DEF TypeOK, Configs
  <2>2. config' \in Configs /\ mem' \in [Procs -> Configs]
    BY <1>0, <1>18, <2>1, SaveTypes DEF RollbackRegister
  <2>3. QED BY <1>0, <1>7, <1>8, <1>18, <2>2 DEF RollbackRegister, Register, Undone, TypeOK, HostOK, host, bounds
<1>19. CASE RollbackFails(p)
  <2>1. HostOK'
    BY <1>0, <1>19, HostTypes, VMTypes DEF RollbackFails
  <2>2. faults' \in 0..MaxFaults
    BY <1>0, <1>19, ManagerAssumption DEF RollbackFails, TypeOK
  <2>3. pc[p] = "rollback" /\ at[p] \in Stages
    BY <1>19 DEF RollbackFails, Undoing, UpsertDNS, EmbedISO, CreateNetwork, CreateVM
  <2>4. QED BY <1>0, <1>7, <1>19, <2>1, <2>2, <2>3 DEF RollbackFails, TypeOK, files, local
<1>20. QED
  BY <1>1, <1>2, <1>3, <1>4, <1>5, <1>6, <1>9, <1>10, <1>11, <1>12, <1>13, <1>14, <1>15,
     <1>16, <1>17, <1>18, <1>19 DEF DeleteStep

LEMMA EnvironmentType ==
  ASSUME TypeInv, HostReboot \/ \E p \in Procs : Crash(p) \/ StateUnreadable(p)
  PROVE  TypeInv'
<1>1. ASSUME NEW p \in Procs, Crash(p) PROVE TypeInv'
  BY <1>1, ExitTypes, ManagerAssumption DEF Crash, TypeInv, TypeOK, HostOK, files, host
<1>4. ASSUME NEW p \in Procs, StateUnreadable(p) PROVE TypeInv'
  BY <1>4, ExitTypes DEF StateUnreadable, TypeInv, TypeOK, HostOK, files, host, bounds
<1>2. CASE HostReboot
  <2>1. vm' \in [Clusters -> VMs]
    BY <1>2, VMTypes DEF HostReboot, TypeInv, TypeOK
  <2>2. crashes' \in 0..MaxCrashes
    BY <1>2, ManagerAssumption DEF HostReboot, TypeInv, TypeOK
  <2>3. QED BY <1>2, <2>1, <2>2, EmptyType DEF HostReboot, TypeInv, TypeOK, Targets, Positions, PCs, files
<1>3. QED BY <1>1, <1>2, <1>4

LEMMA TypeStep == TypeInv /\ Moved => TypeInv'
<1> SUFFICES ASSUME TypeInv, Moved PROVE TypeInv'
  OBVIOUS
<1>1. CASE UNCHANGED vars
  BY <1>1 DEF TypeInv, TypeOK, Targets, Positions, vars, files, host, local, bounds
<1>2. QED
  BY <1>1, LaunchType, CreateType, PowerType, DeleteType, EnvironmentType DEF Moved, LaunchStep

LEMMA TypeInvariant == Spec => []TypeInv
  BY TypeInit, TypeStep, NextMoves, PTL DEF Spec

\* Of the files a kill can leave half written only config.json is not some
\* cluster's.
LEMMA DamageStep == TypeInv /\ DamageOK /\ [Next]_vars => DamageOK'
<1> SUFFICES ASSUME TypeInv, DamageOK, [Next]_vars PROVE DamageOK'
  OBVIOUS
<1>1. ASSUME NEW p \in Procs, LaunchStep(p) PROVE DamageOK'
  BY <1>1 DEF LaunchStep, LaunchCreate, LaunchStart, LaunchStop, LaunchDelete, Launch, DamageOK, damage
<1>2. ASSUME NEW p \in Procs, Mends(p) PROVE DamageOK'
  BY <1>2 DEF Mends, DamageOK
<1>3. ASSUME NEW P \in SUBSET Procs, NEW x \in BOOLEAN, Tears(P, x) PROVE DamageOK'
  <2>1. \A q \in P : Noting(q) => name[q] \in Clusters
    BY DEF TypeInv, Targets, Noting
  <2>2. QED BY <1>3, <2>1 DEF Tears, DamageOK
<1>4. ASSUME NEW p \in Procs, Crash(p) PROVE DamageOK'
  BY <1>3, <1>4 DEF Crash, Saving, Applying, Undoing
<1>5. ASSUME Tears(Procs, \E p \in Procs : Saving(p)) PROVE DamageOK'
  BY <1>3, <1>5
<1>6. QED BY <1>1, <1>2, <1>4, <1>5 DEF Next, Step, LoadConfigFails, vars, damage, DamageOK

\* Every variable keeps its type, for any number of clusters, commands,
\* crashes and failing calls.
THEOREM TypeCorrect == Spec => [](TypeOK /\ DamageOK)
<1>1. TypeInv => TypeOK
  BY DEF TypeInv
<1>2. Init => DamageOK
  BY DEF Init, DamageOK
<1>3. QED BY TypeInvariant, DamageStep, <1>1, <1>2, PTL DEF Spec

-----------------------------------------------------------------------------
(* PrefixRecorded.  A command writes its own copy of the recorded stages, so *)
(* the invariant speaks of the copies: a copy is a prefix; Apply has done    *)
(* all the stages before the one it is at, Rollback none after it.           *)

Applyings == {"apply", "imported", "record"}
Undoings == {"rollback", "removed", "drop"}

CopyInOrder(p) ==
  /\ Prefix(done[p])
  /\ pc[p] \in Applyings => 1..(at[p] - 1) \subseteq done[p]
  /\ pc[p] \in Undoings => done[p] \subseteq 1..at[p]

PrefixInv == PrefixRecorded /\ \A p \in Procs : CopyInOrder(p)

LEMMA PrefixInit == Init => PrefixInv
  BY DEF Init, PrefixInv, PrefixRecorded, CopyInOrder, Prefix, Applyings, Undoings

\* An action of p that leaves the copies alone, wiping a state.json at most.
LEMMA PrefixFrame ==
  ASSUME TypeInv, PrefixInv, NEW p \in Procs,
         state' = state \/ state' = [state EXCEPT ![name[p]] = {}],
         UNCHANGED <<done, at>>, NEW l, Goto(p, l),
         l \in Applyings => pc[p] \in Applyings,
         l \in Undoings => pc[p] \in Undoings
  PROVE  PrefixInv'
<1>1. PrefixRecorded'
  BY DEF TypeInv, TypeOK, PrefixInv, PrefixRecorded, Prefix
<1>2. ASSUME NEW q \in Procs PROVE CopyInOrder(q)'
  BY DEF TypeInv, TypeOK, PrefixInv, CopyInOrder, Prefix, Goto
<1>3. QED BY <1>1, <1>2 DEF PrefixInv

LEMMA PrefixExit ==
  ASSUME TypeInv, PrefixInv, NEW p \in Procs, Exit(p), UNCHANGED state
  PROVE  PrefixInv'
  BY DEF TypeInv, TypeOK, PrefixInv, PrefixRecorded, CopyInOrder, Prefix, Exit, Goto,
     Applyings, Undoings

\* p replaces its copy and its position.
LEMMA PrefixMove ==
  ASSUME TypeInv, PrefixInv, NEW p \in Procs, NEW S \in SUBSET Stages, NEW i \in 0..10, NEW l,
         Prefix(S),
         l \in Applyings => 1..(i - 1) \subseteq S,
         l \in Undoings => S \subseteq 1..i,
         done' = [done EXCEPT ![p] = S], at' = [at EXCEPT ![p] = i],
         Goto(p, l),
         state' = state \/ state' = [state EXCEPT ![name[p]] = S]
  PROVE  PrefixInv'
<1>1. PrefixRecorded'
  BY DEF TypeInv, TypeOK, PrefixInv, PrefixRecorded, Prefix
<1>2. CopyInOrder(p)'
  BY DEF TypeInv, TypeOK, CopyInOrder, Prefix, Goto
<1>3. ASSUME NEW q \in Procs \ {p} PROVE CopyInOrder(q)'
  BY DEF TypeInv, TypeOK, PrefixInv, CopyInOrder, Prefix, Goto
<1>4. QED BY <1>1, <1>2, <1>3 DEF PrefixInv

LEMMA PrefixCreate ==
  ASSUME TypeInv, PrefixInv, NEW p \in Procs, CreateStep(p)
  PROVE  PrefixInv'
<1>1. CASE LoadState(p)
  <2>1. Prefix(state[name[p]]) /\ state[name[p]] \in SUBSET Stages
    BY <1>1 DEF LoadState, TypeInv, TypeOK, Targets, PrefixInv, PrefixRecorded
  <2>2. 1 \in 0..10 /\ 1..(1 - 1) \subseteq state[name[p]]
    OBVIOUS
  <2>3. /\ done' = [done EXCEPT ![p] = state[name[p]]] /\ at' = [at EXCEPT ![p] = 1]
        /\ Goto(p, "apply") /\ state' = state
    BY <1>1 DEF LoadState, Register, files
  <2>4. QED BY <2>1, <2>2, <2>3, PrefixMove DEF Undoings
<1>2. CASE SkipApplied(p)
  <2>1. at[p] + 1 \in 0..10 /\ 1..((at[p] + 1) - 1) \subseteq done[p]
    BY <1>2 DEF SkipApplied, TypeInv, TypeOK, PrefixInv, CopyInOrder, Prefix, Stages
  <2>2. done' = [done EXCEPT ![p] = done[p]] /\ Prefix(done[p]) /\ done[p] \in SUBSET Stages
    BY <1>2 DEF SkipApplied, TypeInv, TypeOK, PrefixInv, CopyInOrder
  <2>3. Goto(p, "apply")
    BY <1>2 DEF SkipApplied, Goto, TypeInv, TypeOK
  <2>4. QED BY <1>2, <2>1, <2>2, <2>3, PrefixMove DEF SkipApplied, Applyings, Undoings, files, TypeInv, TypeOK
<1>3. CASE Record(p)
  <2>1. at[p] \in Stages /\ 1..(at[p] - 1) \subseteq done[p] /\ done[p] \in SUBSET Stages /\ Prefix(done[p])
    BY <1>3 DEF Record, TypeInv, TypeOK, Positions, PrefixInv, CopyInOrder, Applyings
  <2>2. Prefix(done[p] \cup {at[p]}) /\ 1..((at[p] + 1) - 1) \subseteq done[p] \cup {at[p]}
    BY <2>1 DEF Prefix, Stages
  <2>3. at[p] + 1 \in 0..10 /\ done[p] \cup {at[p]} \in SUBSET Stages
    BY <2>1 DEF Stages
  <2>4. QED BY <1>3, <2>2, <2>3, PrefixMove DEF Record, Applyings, Undoings, TypeInv, TypeOK
<1>4. CASE ApplyDone(p)
  BY <1>4, PrefixFrame DEF ApplyDone, Applyings, Undoings, files, local
<1>5. CASE Reassert(p) \/ PoolExhausted(p) \/ ApplyRefused(p) \/ ApplyFails(p)
  BY <1>5, PrefixExit DEF Reassert, PoolExhausted, ApplyRefused, ApplyFails, files
<1>6. CASE ApplyEmbedISO(p)
  BY <1>6, PrefixFrame DEF ApplyEmbedISO, Applying, Applyings, Undoings, files, local
<1>7. ASSUME pc[p] \in Applyings, Applied(p) PROVE PrefixInv'
  BY <1>7, PrefixFrame DEF Applied, Applyings, Undoings
<1>8. QED
  BY <1>1, <1>2, <1>3, <1>4, <1>5, <1>6, <1>7 DEF CreateStep, ApplyRegister, ApplyAllocate,
     ApplyUpsertDNS, ApplyEnsureDir, Imported, ApplyCreateNetwork, ApplyCreateVM,
     ApplyWaitInstall, ApplyFinalize, Applying, Applyings

LEMMA PrefixPower ==
  ASSUME TypeInv, PrefixInv, NEW p \in Procs, PowerStep(p)
  PROVE  PrefixInv'
<1>1. CASE Boot(p) \/ Halt(p) \/ HaltFails(p)
  BY <1>1, PrefixFrame DEF Boot, Halt, HaltFails, files, local, Applyings, Undoings
<1>2. CASE BootRefused(p) \/ BootFails(p) \/ Started(p)
  BY <1>2, PrefixExit DEF BootRefused, BootFails, Started, files
<1>3. CASE MarkStopped(p)
  <2>1. CASE cmd[p] = "delete"
    BY <1>3, <2>1, PrefixFrame DEF MarkStopped, Applyings, Undoings
  <2>2. CASE cmd[p] # "delete"
    BY <1>3, <2>2, PrefixExit DEF MarkStopped
  <2>3. QED BY <2>1, <2>2
<1>4. QED BY <1>1, <1>2, <1>3 DEF PowerStep

LEMMA PrefixDelete ==
  ASSUME TypeInv, PrefixInv, NEW p \in Procs, DeleteStep(p)
  PROVE  PrefixInv'
<1>1. CASE LoadRollback(p)
  <2>1. Prefix(state[name[p]]) /\ state[name[p]] \in SUBSET Stages
    BY <1>1 DEF LoadRollback, TypeInv, TypeOK, Targets, PrefixInv, PrefixRecorded
  <2>2. 9 \in 0..10 /\ state[name[p]] \subseteq 1..9
    BY <2>1 DEF Stages
  <2>3. /\ done' = [done EXCEPT ![p] = state[name[p]]] /\ at' = [at EXCEPT ![p] = 9]
        /\ Goto(p, "rollback") /\ state' = state
    BY <1>1 DEF LoadRollback, Finalize, files
  <2>4. QED BY <2>1, <2>2, <2>3, PrefixMove DEF Applyings
<1>2. CASE SkipUnrecorded(p)
  <2>1. done[p] \in SUBSET Stages /\ Prefix(done[p]) /\ done[p] \subseteq 1..at[p]
    BY <1>2 DEF SkipUnrecorded, TypeInv, TypeOK, PrefixInv, CopyInOrder, Undoings
  <2>2. at[p] - 1 \in 0..10 /\ done[p] \subseteq 1..(at[p] - 1)
    BY <1>2, <2>1 DEF SkipUnrecorded, Stages
  <2>3. done' = [done EXCEPT ![p] = done[p]] /\ Goto(p, "rollback")
    BY <1>2 DEF SkipUnrecorded, Goto, TypeInv, TypeOK
  <2>4. QED BY <1>2, <2>1, <2>2, <2>3, PrefixMove
        DEF SkipUnrecorded, Applyings, Undoings, files, TypeInv, TypeOK
<1>3. CASE Drop(p)
  <2>1. at[p] \in Stages /\ done[p] \in SUBSET Stages /\ Prefix(done[p]) /\ done[p] \subseteq 1..at[p]
    BY <1>3 DEF Drop, TypeInv, TypeOK, Positions, PrefixInv, CopyInOrder, Undoings
  <2>2. done[p] \ {at[p]} \subseteq 1..(at[p] - 1) /\ at[p] - 1 \in 0..10
    BY <2>1 DEF Stages
  <2>3. Prefix(done[p] \ {at[p]})
    BY <2>1, <2>2 DEF Prefix, Stages
  <2>4. QED BY <1>3, <2>1, <2>2, <2>3, PrefixMove DEF Drop, Applyings, Undoings, TypeInv, TypeOK
<1>4. CASE RollbackDone(p) \/ WipeDir(p)
  BY <1>4, PrefixFrame DEF RollbackDone, WipeDir, files, local, Applyings, Undoings
<1>5. CASE FinishDelete(p)
  BY <1>5, PrefixExit DEF FinishDelete
<1>6. CASE RollbackEnsureDir(p)
  BY <1>6, PrefixFrame DEF RollbackEnsureDir, Undoing, Undone, Applyings, Undoings
<1>7. CASE RollbackEmbedISO(p)
  BY <1>7, PrefixFrame DEF RollbackEmbedISO, Undoing, Applyings, Undoings, files, local
<1>8. CASE RollbackFails(p)
  BY <1>8, PrefixFrame DEF RollbackFails, Undoing, Applyings, Undoings, files, local
<1>9. ASSUME pc[p] \in Undoings, Undone(p), UNCHANGED state PROVE PrefixInv'
  BY <1>9, PrefixFrame DEF Undone, Applyings, Undoings
<1>10. QED
  BY <1>1, <1>2, <1>3, <1>4, <1>5, <1>6, <1>7, <1>8, <1>9 DEF DeleteStep, RollbackFinalize,
     RollbackWaitInstall, RollbackCreateVM, RollbackCreateNetwork, Removed, RollbackUpsertDNS,
     RollbackAllocate, RollbackRegister, Undoing, Undoings, files

LEMMA PrefixStep == TypeInv /\ PrefixInv /\ Moved => PrefixInv'
<1> SUFFICES ASSUME TypeInv, PrefixInv, Moved PROVE PrefixInv'
  OBVIOUS
<1>1. ASSUME NEW p \in Procs, LaunchStep(p) PROVE PrefixInv'
  <2>1. \E l \in {"load", "boot", "halt", "unload"} : Goto(p, l) /\ UNCHANGED <<state, done, at>>
    BY <1>1 DEF LaunchStep, LaunchCreate, LaunchStart, LaunchStop, LaunchDelete, Launch, files
  <2>2. QED BY <2>1, PrefixFrame DEF Applyings, Undoings
<1>2. ASSUME NEW p \in Procs, Crash(p) PROVE PrefixInv'
  BY <1>2, PrefixExit DEF Crash, files
<1>6. ASSUME NEW p \in Procs, StateUnreadable(p) PROVE PrefixInv'
  BY <1>6, PrefixExit DEF StateUnreadable, files
<1>3. CASE HostReboot
  BY <1>3 DEF HostReboot, PrefixInv, PrefixRecorded, CopyInOrder, Prefix, Applyings, Undoings, files
<1>4. CASE UNCHANGED vars
  BY <1>4 DEF PrefixInv, PrefixRecorded, CopyInOrder, Prefix, Applyings, Undoings, vars, files, local
<1>5. QED BY <1>1, <1>2, <1>3, <1>4, <1>6, PrefixCreate, PrefixPower, PrefixDelete DEF Moved

\* state.json records an initial segment of the pipeline, so that a resumed
\* create continues after the last completed stage: for any number of
\* commands on one cluster at the same time and any crash.
THEOREM PrefixAlwaysRecorded == Spec => []PrefixRecorded
<1>1. PrefixInv => PrefixRecorded
  BY DEF PrefixInv
<1>2. QED BY TypeInvariant, PrefixInit, PrefixStep, NextMoves, <1>1, PTL DEF Spec

-----------------------------------------------------------------------------
(* UniqueAddresses.  Save overwrites the whole file, so what a command writes*)
(* is consistent because its copy is: a copy gives every address of the pool *)
(* at most one owner and marks it used.  Commands may overwrite each other's *)
(* allocations; a file with two owners of an address cannot come of it.      *)

OneOwner(m) ==
  \A c \in Clusters :
    /\ NAT(c) /\ m.data[c].ip # NoIP => m.data[c].ip \in m.used
    /\ ~NAT(c) => m.data[c].ip \in {NoIP, MasterIP[c]}
    /\ \A d \in Clusters :
         c # d /\ NAT(c) /\ NAT(d) /\ m.data[c].ip # NoIP => m.data[c].ip # m.data[d].ip

AddressInv == OneOwner(config) /\ \A p \in Procs : OneOwner(mem[p])

LEMMA EmptyOneOwner == OneOwner(EmptyConfig)
  BY DEF OneOwner, EmptyConfig, Blank

LEMMA SavedOneOwner ==
  ASSUME NEW m \in Configs, OneOwner(m)
  PROVE  OneOwner(Saved(m))
<1>1. /\ Saved(m).used = m.used
      /\ \A c \in Clusters : Saved(m).data[c].ip \in {NoIP, m.data[c].ip}
  BY DEF Saved, Configs, Blank
<1>2. QED BY <1>1 DEF OneOwner

\* Everything but an allocation and a release leaves the addresses alone.
LEMMA SameOneOwner ==
  ASSUME NEW m \in Configs, OneOwner(m), NEW k \in Configs,
         k.used = m.used, \A c \in Clusters : k.data[c].ip = m.data[c].ip
  PROVE  OneOwner(k)
  BY DEF OneOwner

\* A free address of the pool for a cluster, as allocate gives it.
LEMMA AllocateOneOwner ==
  ASSUME NEW m \in Configs, OneOwner(m), NEW k \in Configs,
         NEW n \in Clusters, NAT(n), NEW x \in Pool \ m.used,
         k.used = m.used \cup {x}, k.data[n].ip = x,
         \A c \in Clusters \ {n} : k.data[c].ip = m.data[c].ip
  PROVE  OneOwner(k)
  BY DEF OneOwner

LEMMA BridgeOneOwner ==
  ASSUME NEW m \in Configs, OneOwner(m), NEW k \in Configs,
         NEW n \in Clusters, ~NAT(n),
         k.used = m.used, k.data[n].ip = MasterIP[n],
         \A c \in Clusters \ {n} : k.data[c].ip = m.data[c].ip
  PROVE  OneOwner(k)
  BY DEF OneOwner

\* release takes the address of n only, because n was its only owner.
LEMMA ReleaseOneOwner ==
  ASSUME NEW m \in Configs, OneOwner(m), NEW k \in Configs,
         NEW n \in Clusters,
         k.used = m.used \ {m.data[n].ip}, k.data[n].ip = NoIP,
         \A c \in Clusters \ {n} : k.data[c].ip = m.data[c].ip
  PROVE  OneOwner(k)
<1>1. m.used \subseteq Pool /\ NoIP \notin Pool
  BY ManagerAssumption DEF Configs, Pool, NoIP
<1>2. ASSUME NEW c \in Clusters \ {n}, NAT(c), m.data[c].ip # NoIP
      PROVE  m.data[c].ip \in k.used
  <2>1. CASE NAT(n)
    BY <1>2, <2>1 DEF OneOwner
  <2>2. CASE ~NAT(n)
    <3>1. m.data[n].ip \notin Pool
      BY <1>1, <2>2, ManagerAssumption DEF OneOwner
    <3>2. QED BY <1>1, <1>2, <3>1 DEF OneOwner
  <2>3. QED BY <2>1, <2>2
<1>3. QED BY <1>2 DEF OneOwner

LEMMA AddressInit == Init => AddressInv
  BY EmptyOneOwner DEF Init, AddressInv

\* The three ways config.json and the copies change.
LEMMA AddressSave ==
  ASSUME TypeInv, AddressInv, NEW p \in Procs, NEW m \in Configs, OneOwner(m), Save(p, m)
  PROVE  AddressInv'
  BY SavedOneOwner DEF TypeInv, TypeOK, AddressInv, Save

LEMMA AddressExit ==
  ASSUME TypeInv, AddressInv, NEW p \in Procs, Exit(p),
         \/ config' = config
         \/ \E m \in Configs : OneOwner(m) /\ config' = Saved(m)
  PROVE  AddressInv'
<1>1. OneOwner(config')
  BY SavedOneOwner DEF AddressInv
<1>2. ASSUME NEW q \in Procs PROVE OneOwner(mem'[q])
  BY EmptyOneOwner DEF TypeInv, TypeOK, AddressInv, Exit
<1>3. QED BY <1>1, <1>2 DEF AddressInv

LEMMA AddressFrame ==
  ASSUME AddressInv, UNCHANGED <<config, mem>>
  PROVE  AddressInv'
  BY DEF AddressInv

\* A change of the target's record that keeps its address.
LEMMA RecordKept ==
  ASSUME TypeInv, AddressInv, NEW p \in Procs, name[p] \in Clusters,
         NEW r \in Records, r.ip = Rec(p).ip
  PROVE  WithRec(p, r) \in Configs /\ OneOwner(WithRec(p, r))
<1>1. WithRec(p, r) \in Configs /\ mem[p] \in Configs
  BY WithRecType DEF TypeInv, TypeOK
<1>2. /\ WithRec(p, r).used = mem[p].used
      /\ \A c \in Clusters : WithRec(p, r).data[c].ip = mem[p].data[c].ip
  BY <1>1 DEF WithRec, Configs, Rec
<1>3. QED BY <1>1, <1>2, SameOneOwner DEF AddressInv

LEMMA PhaseKept ==
  ASSUME TypeInv, AddressInv, NEW p \in Procs, name[p] \in Clusters, NEW ph \in Phases
  PROVE  SetPhase(p, ph) \in Configs /\ OneOwner(SetPhase(p, ph))
<1>1. Rec(p) \in Records
  BY RecType DEF TypeInv
<1>2. [Rec(p) EXCEPT !.phase = ph] \in Records /\ [Rec(p) EXCEPT !.phase = ph].ip = Rec(p).ip
  BY <1>1 DEF Records
<1>3. QED BY <1>2, RecordKept DEF SetPhase

LEMMA KnownKept ==
  ASSUME NEW m \in Configs, OneOwner(m), NEW K \in SUBSET Clusters
  PROVE  [m EXCEPT !.known = K] \in Configs /\ OneOwner([m EXCEPT !.known = K])
<1>1. [m EXCEPT !.known = K] \in Configs
  BY DEF Configs
<1>2. /\ [m EXCEPT !.known = K].used = m.used
      /\ [m EXCEPT !.known = K].data = m.data
  BY DEF Configs
<1>3. QED BY <1>1, <1>2, SameOneOwner

LEMMA AddressAllocate ==
  ASSUME TypeInv, AddressInv, NEW p \in Procs, ApplyAllocate(p), name[p] \in Clusters
  PROVE  AddressInv'
<1>1. TypeOK /\ mem[p] \in Configs /\ OneOwner(mem[p]) /\ Rec(p) \in Records
  BY RecType DEF TypeInv, TypeOK, AddressInv
<1>2. CASE Rec(p).ip # NoIP
  BY <1>2, AddressFrame DEF ApplyAllocate
<1>3. CASE Rec(p).ip = NoIP /\ NAT(name[p])
  <2> DEFINE x == FirstFree(mem[p].used)
             r == WithAddress(Rec(p), x)
             k == [WithRec(p, r) EXCEPT !.used = @ \cup {x}]
  <2>1. Save(p, k) /\ Pool \ mem[p].used # {}
    BY <1>3 DEF ApplyAllocate
  <2>2. x \in Pool \ mem[p].used
    BY <2>1, FirstFreeIsFree
  <2>3. x \in Nat
    BY <2>2, ManagerAssumption DEF Pool
  <2>4. r \in Records /\ r.ip = x
    BY <1>1, <2>3 DEF Records, WithAddress
  <2>5. WithRec(p, r) \in Configs
    BY <1>1, <2>4, WithRecType
  <2>6. k \in Configs
    BY <2>2, <2>5 DEF Configs
  <2>7. /\ k.used = mem[p].used \cup {x} /\ k.data[name[p]].ip = x
        /\ \A c \in Clusters \ {name[p]} : k.data[c].ip = mem[p].data[c].ip
    BY <1>1, <2>4, <2>5 DEF WithRec, Configs
  <2>8. OneOwner(k)
    BY <1>1, <1>3, <2>2, <2>6, <2>7, AllocateOneOwner
  <2>9. QED BY <2>1, <2>6, <2>8, AddressSave
<1>4. CASE Rec(p).ip = NoIP /\ ~NAT(name[p])
  <2> DEFINE r == [Rec(p) EXCEPT !.ip = MasterIP[name[p]]]
             k == WithRec(p, r)
  <2>1. Save(p, k)
    BY <1>4 DEF ApplyAllocate
  <2>2. r \in Records /\ r.ip = MasterIP[name[p]]
    BY <1>1, ManagerAssumption DEF Records
  <2>3. k \in Configs
    BY <1>1, <2>2, WithRecType
  <2>4. /\ k.used = mem[p].used /\ k.data[name[p]].ip = MasterIP[name[p]]
        /\ \A c \in Clusters \ {name[p]} : k.data[c].ip = mem[p].data[c].ip
    BY <1>1, <2>2 DEF WithRec, Configs
  <2>5. OneOwner(k)
    BY <1>1, <1>4, <2>3, <2>4, BridgeOneOwner
  <2>6. QED BY <2>1, <2>3, <2>5, AddressSave
<1>5. QED BY <1>2, <1>3, <1>4

LEMMA AddressRelease ==
  ASSUME TypeInv, AddressInv, NEW p \in Procs, RollbackAllocate(p), name[p] \in Clusters
  PROVE  AddressInv'
<1> DEFINE r == [Rec(p) EXCEPT !.ip = NoIP]
           k == [WithRec(p, r) EXCEPT !.used = @ \ {Rec(p).ip}]
<1>1. TypeOK /\ mem[p] \in Configs /\ OneOwner(mem[p]) /\ Rec(p) \in Records
  BY RecType DEF TypeInv, TypeOK, AddressInv
<1>2. Save(p, k)
  BY DEF RollbackAllocate
<1>3. r \in Records /\ r.ip = NoIP
  BY <1>1 DEF Records, NoIP
<1>4. WithRec(p, r) \in Configs
  BY <1>1, <1>3, WithRecType
<1>5. k \in Configs
  BY <1>4 DEF Configs
<1>6. /\ k.used = mem[p].used \ {mem[p].data[name[p]].ip} /\ k.data[name[p]].ip = NoIP
      /\ \A c \in Clusters \ {name[p]} : k.data[c].ip = mem[p].data[c].ip
  BY <1>1, <1>3, <1>4 DEF WithRec, Configs, Rec
<1>7. OneOwner(k)
  BY <1>1, <1>5, <1>6, ReleaseOneOwner
<1>8. QED BY <1>2, <1>5, <1>7, AddressSave

LEMMA AddressCreate ==
  ASSUME TypeInv, AddressInv, NEW p \in Procs, CreateStep(p)
  PROVE  AddressInv'
<1>0. name[p] \in Clusters /\ TypeOK /\ mem[p] \in Configs /\ OneOwner(mem[p])
  BY DEF TypeInv, TypeOK, Targets, AddressInv, CreateStep, LoadState, SkipApplied, Record, ApplyDone,
     Reassert, ApplyRegister, ApplyAllocate, PoolExhausted, ApplyUpsertDNS, ApplyEnsureDir,
     ApplyEmbedISO, Imported, ApplyCreateNetwork, ApplyCreateVM, ApplyWaitInstall, ApplyFinalize,
     ApplyRefused, ApplyFails, Applying, UpsertDNS, EmbedISO, CreateNetwork, CreateVM, WaitInstall
<1>1. CASE ApplyRegister(p)
  <2> DEFINE m == SetPhase(p, "creating")
  <2>1. m \in Configs /\ OneOwner(m)
    BY <1>0, PhaseKept DEF Phases
  <2>2. m.known \cup {name[p]} \in SUBSET Clusters
    BY <1>0, <2>1 DEF Configs
  <2>3. [m EXCEPT !.known = @ \cup {name[p]}] = [m EXCEPT !.known = m.known \cup {name[p]}]
    BY <2>1 DEF Configs
  <2>4. CASE name[p] \in mem[p].known
    BY <1>1, <2>4, AddressFrame DEF ApplyRegister
  <2>5. CASE name[p] \notin mem[p].known
    BY <1>1, <2>1, <2>2, <2>3, <2>5, KnownKept, AddressSave DEF ApplyRegister
  <2>6. QED BY <2>4, <2>5
<1>2. CASE ApplyAllocate(p)
  BY <1>0, <1>2, AddressAllocate
<1>3. CASE Imported(p)
  <2>1. [Rec(p) EXCEPT !.boot = TRUE] \in Records /\ [Rec(p) EXCEPT !.boot = TRUE].ip = Rec(p).ip
    BY <1>0, RecType DEF Records
  <2>2. QED BY <1>0, <1>3, <2>1, RecordKept, AddressSave DEF Imported
<1>4. CASE ApplyFinalize(p)
  BY <1>0, <1>4, PhaseKept, AddressSave DEF ApplyFinalize, Phases
<1>5. CASE Reassert(p)
  BY <1>0, <1>5, PhaseKept, AddressExit DEF Reassert, Phases
<1>6. CASE PoolExhausted(p) \/ ApplyRefused(p) \/ ApplyFails(p)
  BY <1>6, AddressExit DEF PoolExhausted, ApplyRefused, ApplyFails, files
<1>7. QED
  BY <1>1, <1>2, <1>3, <1>4, <1>5, <1>6, AddressFrame DEF CreateStep, LoadState, SkipApplied, Record,
     ApplyDone, ApplyUpsertDNS, ApplyEnsureDir, ApplyEmbedISO, ApplyCreateNetwork, ApplyCreateVM,
     ApplyWaitInstall, files, local

LEMMA AddressPower ==
  ASSUME TypeInv, AddressInv, NEW p \in Procs, PowerStep(p)
  PROVE  AddressInv'
<1>0. name[p] \in Clusters
  BY DEF TypeInv, Targets, PowerStep, Boot, BootRefused, BootFails, Started, Halt, HaltFails, MarkStopped
<1>1. CASE Boot(p) \/ Halt(p) \/ HaltFails(p)
  BY <1>1, AddressFrame DEF Boot, Halt, HaltFails, files, local
<1>2. CASE BootRefused(p) \/ BootFails(p) \/ Started(p)
  BY <1>0, <1>2, PhaseKept, AddressExit DEF BootRefused, BootFails, Started, files, Phases
<1>3. CASE MarkStopped(p)
  BY <1>0, <1>3, PhaseKept, AddressSave, AddressExit DEF MarkStopped, Phases
<1>4. QED BY <1>1, <1>2, <1>3 DEF PowerStep

LEMMA AddressDelete ==
  ASSUME TypeInv, AddressInv, NEW p \in Procs, DeleteStep(p)
  PROVE  AddressInv'
<1>0. name[p] \in Clusters /\ TypeOK /\ mem[p] \in Configs /\ OneOwner(mem[p])
  BY DEF TypeInv, TypeOK, Targets, AddressInv, DeleteStep, LoadRollback, SkipUnrecorded, Drop,
     RollbackDone, WipeDir, FinishDelete, RollbackFinalize, RollbackWaitInstall, RollbackCreateVM,
     RollbackCreateNetwork, RollbackEmbedISO, Removed, RollbackEnsureDir, RollbackUpsertDNS,
     RollbackAllocate, RollbackRegister, RollbackFails, Undoing
<1>1. CASE RollbackFinalize(p)
  BY <1>0, <1>1, PhaseKept, AddressSave DEF RollbackFinalize, Phases
<1>2. CASE Removed(p)
  <2>1. [Rec(p) EXCEPT !.boot = FALSE] \in Records /\ [Rec(p) EXCEPT !.boot = FALSE].ip = Rec(p).ip
    BY <1>0, RecType DEF Records
  <2>2. QED BY <1>0, <1>2, <2>1, RecordKept, AddressSave DEF Removed
<1>3. CASE RollbackAllocate(p)
  BY <1>0, <1>3, AddressRelease
<1>4. CASE RollbackRegister(p)
  <2>1. mem[p].known \ {name[p]} \in SUBSET Clusters
    BY <1>0 DEF Configs
  <2>2. [mem[p] EXCEPT !.known = @ \ {name[p]}] = [mem[p] EXCEPT !.known = mem[p].known \ {name[p]}]
    BY <1>0 DEF Configs
  <2>3. QED BY <1>0, <1>4, <2>1, <2>2, KnownKept, AddressSave DEF RollbackRegister
<1>5. CASE FinishDelete(p)
  BY <1>0, <1>5, AddressExit DEF FinishDelete
<1>6. QED
  BY <1>1, <1>2, <1>3, <1>4, <1>5, AddressFrame DEF DeleteStep, LoadRollback, SkipUnrecorded, Drop,
     RollbackDone, WipeDir, RollbackWaitInstall, RollbackCreateVM, RollbackCreateNetwork,
     RollbackEmbedISO, RollbackEnsureDir, RollbackUpsertDNS, RollbackFails, files, local

LEMMA AddressStep == TypeInv /\ AddressInv /\ Moved => AddressInv'
<1> SUFFICES ASSUME TypeInv, AddressInv, Moved PROVE AddressInv'
  OBVIOUS
<1>1. ASSUME NEW p \in Procs, LaunchStep(p) PROVE AddressInv'
  <2>1. config' = config /\ mem' = [mem EXCEPT ![p] = config]
    BY <1>1 DEF LaunchStep, LaunchCreate, LaunchStart, LaunchStop, LaunchDelete, Launch, files
  <2>2. QED BY <2>1 DEF AddressInv, TypeInv, TypeOK
<1>2. ASSUME NEW p \in Procs, Crash(p) PROVE AddressInv'
  BY <1>2, AddressExit DEF Crash, files
<1>6. ASSUME NEW p \in Procs, StateUnreadable(p) PROVE AddressInv'
  BY <1>6, AddressExit DEF StateUnreadable, files
<1>3. CASE HostReboot
  BY <1>3, EmptyOneOwner DEF HostReboot, AddressInv, files
<1>4. CASE UNCHANGED vars
  BY <1>4, AddressFrame DEF vars, files, local
<1>5. QED BY <1>1, <1>2, <1>3, <1>4, <1>6, AddressCreate, AddressPower, AddressDelete DEF Moved

\* No two clusters of config.json own the same pool address, and an owned
\* address is marked used: for any number of commands that overwrite each
\* other's config.json and any crash between their writes.
THEOREM AddressesAlwaysUnique == Spec => []UniqueAddresses
<1>1. AddressInv => UniqueAddresses
  BY DEF AddressInv, OneOwner, UniqueAddresses, Addr
<1>2. QED BY TypeInvariant, AddressInit, AddressStep, NextMoves, <1>1, PTL DEF Spec

\* A command runs only while no other does; how many processes there are does
\* not matter.
Serial == \A p, q \in Procs : pc[p] # "idle" /\ pc[q] # "idle" => p = q

-----------------------------------------------------------------------------
(* Writes to config.json.  A command changes the record of its target, the   *)
(* registered names and the used addresses of its copy, and nothing else of  *)
(* the copy.                                                                 *)

Copy(p, r, K, U) == [known |-> K, data |-> [mem[p].data EXCEPT ![name[p]] = r], used |-> U]

\* p writes its copy with the record r of its target, the names K and the used
\* addresses U, and keeps it or ends.
Writes(p, r, K, U) ==
  /\ r \in Records /\ K \in SUBSET Clusters /\ U \in SUBSET Pool
  /\ K \ {name[p]} = mem[p].known \ {name[p]}
  /\ config' = Saved(Copy(p, r, K, U))
  /\ mem' = [mem EXCEPT ![p] = Copy(p, r, K, U)] \/ Exit(p)

LEMMA CopyType ==
  ASSUME TypeOK, NEW p \in Procs, name[p] \in Clusters,
         NEW r \in Records, NEW K \in SUBSET Clusters, NEW U \in SUBSET Pool
  PROVE  /\ Copy(p, r, K, U) \in Configs
         /\ Copy(p, r, K, U).known = K /\ Copy(p, r, K, U).used = U
         /\ Copy(p, r, K, U).data[name[p]] = r
         /\ \A c \in Clusters \ {name[p]} : Copy(p, r, K, U).data[c] = mem[p].data[c]
  BY DEF TypeOK, Configs, Copy

LEMMA SavedIs ==
  ASSUME NEW m \in Configs
  PROVE  /\ Saved(m).known = m.known /\ Saved(m).used = m.used
         /\ \A c \in m.known : Saved(m).data[c] = m.data[c]
         /\ \A c \in Clusters \ m.known : Saved(m).data[c] = Blank
  BY DEF Saved, Configs

\* The copies the actions build, in that form.
LEMMA ExceptForms ==
  ASSUME NEW m \in Configs, NEW S
  PROVE  /\ m = [known |-> m.known, data |-> m.data, used |-> m.used]
         /\ [m EXCEPT !.known = S] = [known |-> S, data |-> m.data, used |-> m.used]
         /\ [m EXCEPT !.used = S] = [known |-> m.known, data |-> m.data, used |-> S]
         /\ [m EXCEPT !.data = S] = [known |-> m.known, data |-> S, used |-> m.used]
  BY DEF Configs

LEMMA CopyForms ==
  ASSUME TypeOK, NEW p \in Procs, name[p] \in Clusters, NEW r \in Records, NEW x
  PROVE  /\ WithRec(p, r) = Copy(p, r, mem[p].known, mem[p].used)
         /\ [WithRec(p, r) EXCEPT !.known = @ \cup {name[p]}]
              = Copy(p, r, mem[p].known \cup {name[p]}, mem[p].used)
         /\ [WithRec(p, r) EXCEPT !.used = @ \cup {x}]
              = Copy(p, r, mem[p].known, mem[p].used \cup {x})
         /\ [WithRec(p, r) EXCEPT !.used = @ \ {x}]
              = Copy(p, r, mem[p].known, mem[p].used \ {x})
         /\ [mem[p] EXCEPT !.known = @ \ {name[p]}]
              = Copy(p, Rec(p), mem[p].known \ {name[p]}, mem[p].used)
         /\ mem[p] = Copy(p, Rec(p), mem[p].known, mem[p].used)
<1>1. mem[p] \in Configs /\ WithRec(p, r) \in Configs
  BY WithRecType DEF TypeOK
<1>2. mem[p].data = [mem[p].data EXCEPT ![name[p]] = Rec(p)]
  BY <1>1 DEF Configs, Rec
<1>3. WithRec(p, r) = [mem[p] EXCEPT !.data = [mem[p].data EXCEPT ![name[p]] = r]]
  BY DEF WithRec
<1>4. WithRec(p, r) = Copy(p, r, mem[p].known, mem[p].used)
  BY <1>1, <1>3, ExceptForms DEF Copy
<1>5. /\ WithRec(p, r).known = mem[p].known /\ WithRec(p, r).used = mem[p].used
      /\ WithRec(p, r).data = [mem[p].data EXCEPT ![name[p]] = r]
  BY <1>4 DEF Copy
<1>6. \A S : /\ [WithRec(p, r) EXCEPT !.known = S] = Copy(p, r, S, mem[p].used)
              /\ [WithRec(p, r) EXCEPT !.used = S] = Copy(p, r, mem[p].known, S)
  <2> DEFINE w == WithRec(p, r)
  <2>1. SUFFICES ASSUME NEW S
                 PROVE  /\ [w EXCEPT !.known = S] = Copy(p, r, S, mem[p].used)
                        /\ [w EXCEPT !.used = S] = Copy(p, r, mem[p].known, S)
    OBVIOUS
  <2>2. /\ [w EXCEPT !.known = S] = [known |-> S, data |-> w.data, used |-> w.used]
        /\ [w EXCEPT !.used = S] = [known |-> w.known, data |-> w.data, used |-> S]
    BY <1>1, ExceptForms
  <2>3. QED BY <1>5, <2>2 DEF Copy
<1>7. /\ [WithRec(p, r) EXCEPT !.known = @ \cup {name[p]}]
            = Copy(p, r, mem[p].known \cup {name[p]}, mem[p].used)
      /\ [WithRec(p, r) EXCEPT !.used = @ \cup {x}]
            = Copy(p, r, mem[p].known, mem[p].used \cup {x})
      /\ [WithRec(p, r) EXCEPT !.used = @ \ {x}]
            = Copy(p, r, mem[p].known, mem[p].used \ {x})
  BY <1>5, <1>6
<1>8. /\ [mem[p] EXCEPT !.known = @ \ {name[p]}]
            = Copy(p, Rec(p), mem[p].known \ {name[p]}, mem[p].used)
      /\ mem[p] = Copy(p, Rec(p), mem[p].known, mem[p].used)
  <2> DEFINE m == mem[p]
  <2>1. /\ m = [known |-> m.known, data |-> m.data, used |-> m.used]
        /\ [m EXCEPT !.known = @ \ {name[p]}]
             = [known |-> m.known \ {name[p]}, data |-> m.data, used |-> m.used]
    BY <1>1, ExceptForms
  <2>2. QED BY <1>2, <2>1 DEF Copy
<1>9. QED BY <1>4, <1>7, <1>8

LEMMA RecordTypes ==
  ASSUME TypeInv, NEW p \in Procs, name[p] \in Clusters
  PROVE  /\ Rec(p) \in Records
         /\ \A ph \in Phases : [Rec(p) EXCEPT !.phase = ph] \in Records
         /\ \A b \in BOOLEAN : [Rec(p) EXCEPT !.boot = b] \in Records
         /\ \A x \in Nat : [Rec(p) EXCEPT !.ip = x] \in Records
         /\ \A x \in Nat : WithAddress(Rec(p), x) \in Records
<1>1. Rec(p) \in Records
  BY RecType DEF TypeInv
<1>2. \A ph \in Phases : [Rec(p) EXCEPT !.phase = ph] \in Records
  BY <1>1 DEF Records
<1>3. \A b \in BOOLEAN : [Rec(p) EXCEPT !.boot = b] \in Records
  BY <1>1 DEF Records
<1>4. \A x \in Nat : [Rec(p) EXCEPT !.ip = x] \in Records
  BY <1>1 DEF Records
<1>5. \A x \in Nat : WithAddress(Rec(p), x) \in Records
  BY <1>1 DEF Records, WithAddress
<1>6. QED BY <1>1, <1>2, <1>3, <1>4, <1>5

LEMMA WritesIs ==
  ASSUME TypeInv, NEW p \in Procs, name[p] \in Clusters, config = Saved(mem[p]),
         NEW r, NEW K, NEW U, Writes(p, r, K, U)
  PROVE  /\ config'.known = K /\ config'.used = U
         /\ name[p] \in K => config'.data[name[p]] = r
         /\ name[p] \notin K => config'.data[name[p]] = Blank
         /\ \A c \in Clusters \ {name[p]} :
              config'.data[c] = config.data[c] /\ (c \in K <=> c \in config.known)
         /\ \/ Exit(p)
            \/ /\ config' = Saved(mem'[p]) /\ mem'[p] \in Configs
               /\ mem'[p].known = K /\ mem'[p].used = U /\ mem'[p].data[name[p]] = r
               /\ \A c \in Clusters \ {name[p]} : mem'[p].data[c] = mem[p].data[c]
               /\ \A q \in Procs \ {p} : mem'[q] = mem[q]
<1> DEFINE n == name[p]
           k == Copy(p, r, K, U)
<1>1. r \in Records /\ K \in SUBSET Clusters /\ U \in SUBSET Pool /\ K \ {n} = mem[p].known \ {n}
  BY DEF Writes
<1>2. /\ k \in Configs /\ k.known = K /\ k.used = U /\ k.data[n] = r
      /\ \A c \in Clusters \ {n} : k.data[c] = mem[p].data[c]
  BY <1>1, CopyType DEF TypeInv
<1>3. mem[p] \in Configs
  BY DEF TypeInv, TypeOK
<1>4. /\ config'.known = K /\ config'.used = U
      /\ \A c \in K : config'.data[c] = k.data[c]
      /\ \A c \in Clusters \ K : config'.data[c] = Blank
  BY <1>2, SavedIs DEF Writes
<1>5. /\ config.known = mem[p].known
      /\ \A c \in config.known : config.data[c] = mem[p].data[c]
      /\ \A c \in Clusters \ config.known : config.data[c] = Blank
  BY <1>3, SavedIs
<1>6. \A c \in Clusters \ {n} : config'.data[c] = config.data[c] /\ (c \in K <=> c \in config.known)
  BY <1>1, <1>2, <1>4, <1>5
<1>7. CASE mem' = [mem EXCEPT ![p] = k]
  <2>1. mem'[p] = k /\ \A q \in Procs \ {p} : mem'[q] = mem[q]
    BY <1>7 DEF TypeInv, TypeOK
  <2>2. QED BY <1>1, <1>2, <1>4, <1>6, <2>1 DEF Writes
<1>8. CASE Exit(p)
  BY <1>1, <1>2, <1>4, <1>6, <1>8
<1>9. QED BY <1>7, <1>8 DEF Writes

RecPhase(p, ph) == [Rec(p) EXCEPT !.phase = ph]

LEMMA PhaseWrites ==
  ASSUME TypeInv, NEW p \in Procs, name[p] \in Clusters, NEW ph \in Phases,
         config' = Saved(SetPhase(p, ph)),
         mem' = [mem EXCEPT ![p] = SetPhase(p, ph)] \/ Exit(p)
  PROVE  Writes(p, RecPhase(p, ph), mem[p].known, mem[p].used)
<1>1. RecPhase(p, ph) \in Records /\ mem[p] \in Configs
  BY RecordTypes DEF TypeInv, TypeOK, RecPhase
<1>2. SetPhase(p, ph) = Copy(p, RecPhase(p, ph), mem[p].known, mem[p].used)
  BY <1>1, CopyForms DEF SetPhase, RecPhase, TypeInv
<1>3. QED BY <1>1, <1>2 DEF Writes, Configs

LEMMA RegisterWrites ==
  ASSUME TypeInv, NEW p \in Procs, name[p] \in Clusters, ApplyRegister(p), name[p] \notin mem[p].known
  PROVE  Writes(p, RecPhase(p, "creating"), mem[p].known \cup {name[p]}, mem[p].used)
<1>1. RecPhase(p, "creating") \in Records /\ mem[p] \in Configs
  BY RecordTypes DEF TypeInv, TypeOK, RecPhase, Phases
<1>2. [SetPhase(p, "creating") EXCEPT !.known = @ \cup {name[p]}]
        = Copy(p, RecPhase(p, "creating"), mem[p].known \cup {name[p]}, mem[p].used)
  BY <1>1, CopyForms DEF SetPhase, RecPhase, TypeInv
<1>3. QED BY <1>1, <1>2 DEF Writes, Configs, ApplyRegister, Save

LEMMA AllocateWrites ==
  ASSUME TypeInv, NEW p \in Procs, name[p] \in Clusters, ApplyAllocate(p)
  PROVE  \/ Rec(p).ip # NoIP /\ UNCHANGED <<config, mem>>
         \/ /\ Rec(p).ip = NoIP /\ NAT(name[p])
            /\ \E x \in Pool \ mem[p].used :
                 Writes(p, WithAddress(Rec(p), x), mem[p].known, mem[p].used \cup {x})
         \/ /\ Rec(p).ip = NoIP /\ ~NAT(name[p])
            /\ Writes(p, [Rec(p) EXCEPT !.ip = MasterIP[name[p]]], mem[p].known, mem[p].used)
<1>1. mem[p] \in Configs /\ Pool \subseteq Nat /\ MasterIP[name[p]] \in Nat
  BY ManagerAssumption DEF TypeInv, TypeOK, Pool
<1>2. ASSUME Rec(p).ip = NoIP, NAT(name[p])
      PROVE  \E x \in Pool \ mem[p].used :
               Writes(p, WithAddress(Rec(p), x), mem[p].known, mem[p].used \cup {x})
  <2> DEFINE x == FirstFree(mem[p].used)
             r == WithAddress(Rec(p), x)
  <2>1. x \in Pool \ mem[p].used
    BY <1>2, FirstFreeIsFree DEF ApplyAllocate
  <2>2. r \in Records
    BY <1>1, <2>1, RecordTypes
  <2>3. Save(p, Copy(p, r, mem[p].known, mem[p].used \cup {x}))
    BY <1>2, <2>2, CopyForms DEF ApplyAllocate, TypeInv
  <2>4. Writes(p, r, mem[p].known, mem[p].used \cup {x})
    BY <1>1, <2>1, <2>2, <2>3 DEF Writes, Save, Configs
  <2>5. QED BY <2>1, <2>4
<1>3. ASSUME Rec(p).ip = NoIP, ~NAT(name[p])
      PROVE  Writes(p, [Rec(p) EXCEPT !.ip = MasterIP[name[p]]], mem[p].known, mem[p].used)
  <2>1. [Rec(p) EXCEPT !.ip = MasterIP[name[p]]] \in Records
    BY <1>1, RecordTypes
  <2>2. QED BY <1>1, <1>3, <2>1, CopyForms DEF ApplyAllocate, Writes, Save, Configs, TypeInv
<1>4. QED BY <1>2, <1>3 DEF ApplyAllocate

LEMMA BootWrites ==
  ASSUME TypeInv, NEW p \in Procs, name[p] \in Clusters, NEW b \in BOOLEAN,
         Save(p, WithRec(p, [Rec(p) EXCEPT !.boot = b]))
  PROVE  Writes(p, [Rec(p) EXCEPT !.boot = b], mem[p].known, mem[p].used)
<1>1. [Rec(p) EXCEPT !.boot = b] \in Records /\ mem[p] \in Configs
  BY RecordTypes DEF TypeInv, TypeOK
<1>2. QED BY <1>1, CopyForms DEF Writes, Save, Configs, TypeInv

LEMMA ReleaseWrites ==
  ASSUME TypeInv, NEW p \in Procs, name[p] \in Clusters, RollbackAllocate(p)
  PROVE  Writes(p, [Rec(p) EXCEPT !.ip = NoIP], mem[p].known, mem[p].used \ {Rec(p).ip})
<1>1. mem[p] \in Configs
  BY DEF TypeInv, TypeOK
<1>2. [Rec(p) EXCEPT !.ip = NoIP] \in Records
  BY RecordTypes DEF NoIP
<1>3. [WithRec(p, [Rec(p) EXCEPT !.ip = NoIP]) EXCEPT !.used = @ \ {Rec(p).ip}]
        = Copy(p, [Rec(p) EXCEPT !.ip = NoIP], mem[p].known, mem[p].used \ {Rec(p).ip})
  BY <1>2, CopyForms DEF TypeInv
<1>4. Save(p, Copy(p, [Rec(p) EXCEPT !.ip = NoIP], mem[p].known, mem[p].used \ {Rec(p).ip}))
  BY <1>3 DEF RollbackAllocate
<1>5. QED BY <1>1, <1>2, <1>4 DEF Writes, Save, Configs

LEMMA UnregisterWrites ==
  ASSUME TypeInv, NEW p \in Procs, name[p] \in Clusters, RollbackRegister(p)
  PROVE  Writes(p, Rec(p), mem[p].known \ {name[p]}, mem[p].used)
<1>1. Rec(p) \in Records /\ mem[p] \in Configs
  BY RecordTypes DEF TypeInv, TypeOK
<1>2. QED BY <1>1, CopyForms DEF RollbackRegister, Writes, Save, Configs, TypeInv

-----------------------------------------------------------------------------
(* Who is where: the steps of the commands, by where a process is.           *)

Creating == {"load", "reassert"} \cup Applyings
Starting == {"boot", "started"}
Stopping == {"halt", "stopped"}
Unloading == {"unload", "wipe", "flush"} \cup Undoings

Roles == \A p \in Procs :
  /\ pc[p] = "idle" => cmd[p] = "none"
  /\ pc[p] \in Creating => cmd[p] = "create"
  /\ pc[p] \in Starting => cmd[p] = "start"
  /\ pc[p] \in Stopping => cmd[p] \in {"stop", "delete"}
  /\ pc[p] \in Unloading => cmd[p] = "delete"
  /\ pc[p] \in {"imported", "removed"} => at[p] = EmbedISO

\* A step of p, or its end, is nothing to the other processes.
Others(p) == \A q \in Procs \ {p} :
  /\ pc'[q] = pc[q] /\ cmd'[q] = cmd[q] /\ name'[q] = name[q]
  /\ mem'[q] = mem[q] /\ done'[q] = done[q] /\ at'[q] = at[q]

LEMMA ExitIs ==
  ASSUME TypeOK, NEW p \in Procs, Exit(p)
  PROVE  /\ pc'[p] = "idle" /\ cmd'[p] = "none" /\ name'[p] = NoName /\ mem'[p] = EmptyConfig
         /\ Others(p)
  BY DEF TypeOK, Exit, Goto, Others

LEMMA LaunchIs ==
  ASSUME TypeOK, NEW p \in Procs, LaunchStep(p)
  PROVE  \E n \in Clusters, k \in Commands, l \in {"load", "boot", "halt", "unload"} :
           /\ pc[p] = "idle" /\ pc'[p] = l /\ cmd'[p] = k /\ name'[p] = n /\ mem'[p] = config
           /\ k = "create" => l = "load"
           /\ k = "start" => l = "boot"
           /\ k = "stop" => l = "halt"
           /\ k = "delete" => l \in {"halt", "unload"}
           /\ l = "load" /\ n \notin config.known => Cardinality(config.known) < MaxClusters
           /\ l # "load" => n \in config.known
           /\ l = "halt" => config.data[n].phase = "running"
           /\ l = "unload" => config.data[n].phase # "running"
           /\ UNCHANGED <<files, host, done, at, bounds>>
           /\ Others(p)
<1>1. ASSUME NEW n \in Clusters, NEW k \in Commands, NEW l, Launch(p, k, n, l)
      PROVE  /\ pc[p] = "idle" /\ pc'[p] = l /\ cmd'[p] = k /\ name'[p] = n /\ mem'[p] = config
             /\ UNCHANGED <<files, host, done, at, bounds>>
             /\ Others(p)
  BY <1>1 DEF TypeOK, Launch, Goto, Others
<1>2. PICK n \in Clusters :
        LaunchCreate(p, n) \/ LaunchStart(p, n) \/ LaunchStop(p, n) \/ LaunchDelete(p, n)
  BY DEF LaunchStep
<1>3. CASE LaunchCreate(p, n)
  BY <1>1, <1>3 DEF LaunchCreate, Commands
<1>4. CASE LaunchStart(p, n)
  BY <1>1, <1>4 DEF LaunchStart, Commands, PhaseOf
<1>5. CASE LaunchStop(p, n)
  BY <1>1, <1>5 DEF LaunchStop, Commands, PhaseOf
<1>6. CASE LaunchDelete(p, n)
  BY <1>1, <1>6 DEF LaunchDelete, Commands, PhaseOf
<1>7. QED BY <1>2, <1>3, <1>4, <1>5, <1>6

LEMMA CreateOthers ==
  ASSUME TypeOK, NEW p \in Procs, CreateStep(p)
  PROVE  Others(p) /\ pc[p] \in Creating /\ (UNCHANGED <<cmd, name>> \/ Exit(p))
<1>1. CASE Exit(p)
  BY <1>1, ExitIs DEF CreateStep, LoadState, SkipApplied, Record, ApplyDone, Reassert,
     ApplyRegister, ApplyAllocate, PoolExhausted, ApplyUpsertDNS, ApplyEnsureDir, ApplyEmbedISO,
     Imported, ApplyCreateNetwork, ApplyCreateVM, ApplyWaitInstall, ApplyFinalize, ApplyRefused,
     ApplyFails, Applying, Applyings, Creating
<1>2. CASE ~Exit(p)
  <2>1. \/ UNCHANGED mem \/ \E m : mem' = [mem EXCEPT ![p] = m]
    BY <1>2 DEF CreateStep, LoadState, SkipApplied, Record, ApplyDone, Reassert,
     ApplyRegister, ApplyAllocate, PoolExhausted, ApplyUpsertDNS, ApplyEnsureDir, ApplyEmbedISO,
     Imported, ApplyCreateNetwork, ApplyCreateVM, ApplyWaitInstall, ApplyFinalize, ApplyRefused,
     ApplyFails, Save, local
  <2>2. /\ pc[p] \in Creating
        /\ \/ UNCHANGED pc \/ \E l : pc' = [pc EXCEPT ![p] = l]
        /\ UNCHANGED <<cmd, name>>
        /\ \/ UNCHANGED done \/ \E S : done' = [done EXCEPT ![p] = S]
        /\ \/ UNCHANGED at \/ \E i : at' = [at EXCEPT ![p] = i]
    BY <1>2 DEF CreateStep, LoadState, SkipApplied, Record, ApplyDone, Reassert,
     ApplyRegister, ApplyAllocate, PoolExhausted, ApplyUpsertDNS, ApplyEnsureDir, ApplyEmbedISO,
     Imported, ApplyCreateNetwork, ApplyCreateVM, ApplyWaitInstall, ApplyFinalize, ApplyRefused,
     ApplyFails, Applying, Applied, Goto, local, Creating, Applyings
  <2>3. QED BY <2>1, <2>2 DEF TypeOK, Others
<1>3. QED BY <1>1, <1>2

LEMMA PowerOthers ==
  ASSUME TypeOK, NEW p \in Procs, PowerStep(p)
  PROVE  Others(p) /\ pc[p] \in Starting \cup Stopping /\ (UNCHANGED <<cmd, name>> \/ Exit(p))
<1>1. pc[p] \in Starting \cup Stopping
  BY DEF PowerStep, Boot, BootRefused, BootFails, Started, Halt, HaltFails, MarkStopped, Starting, Stopping
<1>2. CASE Exit(p)
  BY <1>1, <1>2, ExitIs
<1>3. CASE ~Exit(p)
  <2>1. /\ UNCHANGED <<cmd, name, done, at>>
        /\ \/ UNCHANGED mem \/ \E m : mem' = [mem EXCEPT ![p] = m]
        /\ \E l : pc' = [pc EXCEPT ![p] = l]
    BY <1>3 DEF PowerStep, Boot, BootRefused, BootFails, Started, Halt, HaltFails, MarkStopped,
       Save, Goto, local
  <2>2. QED BY <1>1, <2>1 DEF TypeOK, Others
<1>4. QED BY <1>2, <1>3

LEMMA DeleteOthers ==
  ASSUME TypeOK, NEW p \in Procs, DeleteStep(p)
  PROVE  Others(p) /\ pc[p] \in Unloading /\ (UNCHANGED <<cmd, name>> \/ Exit(p))
<1>1. pc[p] \in Unloading
  BY DEF DeleteStep, LoadRollback, SkipUnrecorded, Drop, RollbackDone, WipeDir, FinishDelete,
     RollbackFinalize, RollbackWaitInstall, RollbackCreateVM, RollbackCreateNetwork, RollbackEmbedISO,
     Removed, RollbackEnsureDir, RollbackUpsertDNS, RollbackAllocate, RollbackRegister, RollbackFails,
     Undoing, Unloading, Undoings
<1>2. CASE Exit(p)
  BY <1>1, <1>2, ExitIs
<1>3. CASE ~Exit(p)
  <2>1. \/ UNCHANGED mem \/ \E m : mem' = [mem EXCEPT ![p] = m]
    BY <1>3 DEF DeleteStep, LoadRollback, SkipUnrecorded, Drop, RollbackDone, WipeDir, FinishDelete,
       RollbackFinalize, RollbackWaitInstall, RollbackCreateVM, RollbackCreateNetwork, RollbackEmbedISO,
       Removed, RollbackEnsureDir, RollbackUpsertDNS, RollbackAllocate, RollbackRegister, RollbackFails,
       Save, local
  <2>2. /\ \/ UNCHANGED pc \/ \E l : pc' = [pc EXCEPT ![p] = l]
        /\ UNCHANGED <<cmd, name>>
        /\ \/ UNCHANGED done \/ \E S : done' = [done EXCEPT ![p] = S]
        /\ \/ UNCHANGED at \/ \E i : at' = [at EXCEPT ![p] = i]
    BY <1>3 DEF DeleteStep, LoadRollback, SkipUnrecorded, Drop, RollbackDone, WipeDir, FinishDelete,
       RollbackFinalize, RollbackWaitInstall, RollbackCreateVM, RollbackCreateNetwork, RollbackEmbedISO,
       Removed, RollbackEnsureDir, RollbackUpsertDNS, RollbackAllocate, RollbackRegister, RollbackFails,
       Undone, Goto, local
  <2>3. QED BY <1>1, <2>1, <2>2 DEF TypeOK, Others
<1>4. QED BY <1>2, <1>3

\* Where each step takes p.
LEMMA CreateRoles ==
  ASSUME TypeInv, Roles, NEW p \in Procs, CreateStep(p), ~Exit(p)
  PROVE  pc'[p] \in Creating /\ (pc'[p] = "imported" => at'[p] = EmbedISO)
<1>1. pc[p] \in PCs /\ at[p] \in 0..10 /\ pc \in [Procs -> PCs]
  BY DEF TypeInv, TypeOK
<1>2. CASE ApplyEmbedISO(p)
  BY <1>1, <1>2 DEF ApplyEmbedISO, Applying, Goto, local, Creating, Applyings
<1>3. CASE LoadState(p) \/ SkipApplied(p) \/ Record(p) \/ ApplyDone(p)
  BY <1>1, <1>3 DEF LoadState, SkipApplied, Record, ApplyDone, Goto, Creating, Applyings
<1>4. ASSUME Applied(p) PROVE pc'[p] = "record"
  BY <1>1, <1>4 DEF Applied, Goto
<1>5. QED
  BY <1>2, <1>3, <1>4 DEF CreateStep, Reassert, ApplyRegister, ApplyAllocate, PoolExhausted,
     ApplyUpsertDNS, ApplyEnsureDir, Imported, ApplyCreateNetwork, ApplyCreateVM, ApplyWaitInstall,
     ApplyFinalize, ApplyRefused, ApplyFails, Creating, Applyings

LEMMA PowerRoles ==
  ASSUME TypeInv, Roles, NEW p \in Procs, PowerStep(p), ~Exit(p)
  PROVE  \/ pc[p] = "boot" /\ pc'[p] = "started"
         \/ pc[p] = "halt" /\ pc'[p] = "stopped"
         \/ pc[p] = "stopped" /\ pc'[p] = "unload" /\ cmd[p] = "delete"
  BY DEF TypeInv, TypeOK, PowerStep, Boot, BootRefused, BootFails, Started, Halt, HaltFails,
     MarkStopped, Goto

LEMMA DeleteRoles ==
  ASSUME TypeInv, Roles, NEW p \in Procs, DeleteStep(p), ~Exit(p)
  PROVE  pc'[p] \in Unloading /\ (pc'[p] = "removed" => at'[p] = EmbedISO)
<1>1. pc \in [Procs -> PCs]
  BY DEF TypeInv, TypeOK
<1>2. CASE RollbackEmbedISO(p)
  BY <1>1, <1>2 DEF RollbackEmbedISO, Undoing, Goto, local, Unloading, Undoings
<1>3. CASE RollbackFails(p)
  BY <1>1, <1>3 DEF RollbackFails, Undoing, Goto, local, Unloading, Undoings
<1>4. CASE LoadRollback(p) \/ SkipUnrecorded(p) \/ Drop(p) \/ RollbackDone(p) \/ WipeDir(p)
  BY <1>1, <1>4 DEF LoadRollback, SkipUnrecorded, Drop, RollbackDone, WipeDir, Goto, Unloading, Undoings
<1>5. ASSUME Undone(p) PROVE pc'[p] = "drop"
  BY <1>1, <1>5 DEF Undone, Goto
<1>6. QED
  BY <1>2, <1>3, <1>4, <1>5 DEF DeleteStep, FinishDelete, RollbackFinalize, RollbackWaitInstall,
     RollbackCreateVM, RollbackCreateNetwork, Removed, RollbackEnsureDir, RollbackUpsertDNS,
     RollbackAllocate, RollbackRegister, Unloading, Undoings

LEMMA RolesStep == TypeInv /\ Roles /\ Moved => Roles'
<1> SUFFICES ASSUME TypeInv, Roles, Moved PROVE Roles'
  OBVIOUS
<1> USE DEF Creating, Starting, Stopping, Unloading, Applyings, Undoings
<1>0. TypeOK
  BY DEF TypeInv
<1>1. ASSUME NEW p \in Procs, Others(p), pc'[p] = "idle" /\ cmd'[p] = "none" PROVE Roles'
  BY <1>1 DEF Roles, Others
<1>2. ASSUME NEW p \in Procs, Exit(p) PROVE Roles'
  BY <1>0, <1>1, <1>2, ExitIs
<1>3. ASSUME NEW p \in Procs, LaunchStep(p) PROVE Roles'
  <2>1. PICK k \in Commands, l \in {"load", "boot", "halt", "unload"} :
          /\ pc'[p] = l /\ cmd'[p] = k
          /\ k = "create" => l = "load"
          /\ k = "start" => l = "boot"
          /\ k = "stop" => l = "halt"
          /\ k = "delete" => l \in {"halt", "unload"}
          /\ Others(p)
    BY <1>0, <1>3, LaunchIs
  <2>2. QED BY <2>1 DEF Roles, Others, Commands
<1>4. ASSUME NEW p \in Procs, CreateStep(p) PROVE Roles'
  <2>1. CASE ~Exit(p)
    <3>1. Others(p) /\ pc[p] \in Creating /\ cmd'[p] = cmd[p]
      BY <1>0, <1>4, <2>1, CreateOthers
    <3>2. pc'[p] \in Creating /\ (pc'[p] = "imported" => at'[p] = EmbedISO)
      BY <1>4, <2>1, CreateRoles
    <3>3. QED BY <3>1, <3>2 DEF Roles, Others
  <2>2. QED BY <1>2, <2>1
<1>5. ASSUME NEW p \in Procs, PowerStep(p) PROVE Roles'
  <2>1. CASE ~Exit(p)
    BY <1>0, <1>5, <2>1, PowerOthers, PowerRoles DEF Roles, Others
  <2>2. QED BY <1>2, <2>1
<1>6. ASSUME NEW p \in Procs, DeleteStep(p) PROVE Roles'
  <2>1. CASE ~Exit(p)
    <3>1. Others(p) /\ pc[p] \in Unloading /\ cmd'[p] = cmd[p]
      BY <1>0, <1>6, <2>1, DeleteOthers
    <3>2. pc'[p] \in Unloading /\ (pc'[p] = "removed" => at'[p] = EmbedISO)
      BY <1>6, <2>1, DeleteRoles
    <3>3. QED BY <3>1, <3>2 DEF Roles, Others
  <2>2. QED BY <1>2, <2>1
<1>7. CASE HostReboot
  BY <1>7 DEF HostReboot, Roles
<1>8. CASE UNCHANGED vars
  BY <1>8 DEF vars, local, Roles
<1>9. QED BY <1>2, <1>3, <1>4, <1>5, <1>6, <1>7, <1>8 DEF Moved, Crash, StateUnreadable

-----------------------------------------------------------------------------
(* What a command that runs alone knows: the files are what its copies say.  *)

\* Only a registered cluster has a record, and it has a phase.
Tidy ==
  /\ \A c \in Clusters \ config.known : config.data[c] = Blank
  /\ \A c \in config.known : config.data[c].phase # "none"

ActsOnFile(p) ==
  /\ config = Saved(mem[p])
  /\ pc[p] = "load" \/ (pc[p] = "apply" /\ at[p] = Register) => mem[p] = config

KnowsState(p) ==
  /\ pc[p] \in Applyings \cup {"reassert"} => done[p] = state[name[p]]
  /\ pc[p] = "reassert" => Stages \subseteq done[p]
  /\ pc[p] \in Undoings => state[name[p]] \subseteq done[p]
  /\ pc[p] \in {"wipe", "flush"} => state[name[p]] = {}

\* The rollback of register is yet to come.
Unwinding(p) ==
  \/ pc[p] = "unload"
  \/ pc[p] \in Undoings /\ at[p] # 0 /\ ~(pc[p] = "drop" /\ at[p] = Register)

KnowsPhase(p) ==
  /\ pc[p] \in Creating /\ name[p] \notin config.known => Cardinality(config.known) < MaxClusters
  /\ pc[p] \in Starting \cup Stopping \/ Unwinding(p) => name[p] \in config.known
  /\ pc[p] \in Stopping => config.data[name[p]].phase = "running"
  /\ pc[p] \in Unloading => config.data[name[p]].phase # "running"
  /\ pc[p] = "drop" /\ at[p] = Register => name[p] \notin config.known

SerialInv ==
  /\ Tidy
  /\ \A p \in Procs : pc[p] # "idle" => ActsOnFile(p) /\ KnowsState(p) /\ KnowsPhase(p)

LEMMA SerialClose ==
  ASSUME Serial, NEW p \in Procs, Others(p), pc[p] # "idle", Tidy',
         pc'[p] # "idle" => ActsOnFile(p)' /\ KnowsState(p)' /\ KnowsPhase(p)'
  PROVE  SerialInv'
<1>1. \A q \in Procs \ {p} : pc'[q] = "idle"
  BY DEF Serial, Others
<1>2. QED BY <1>1 DEF SerialInv

LEMMA SerialExit ==
  ASSUME TypeInv, Serial, SerialInv, NEW p \in Procs, pc[p] # "idle", Exit(p), UNCHANGED config
  PROVE  SerialInv'
<1>1. Tidy'
  BY DEF SerialInv, Tidy
<1>2. Others(p) /\ pc'[p] = "idle"
  BY ExitIs DEF TypeInv
<1>3. QED BY <1>1, <1>2, SerialClose

\* A running command and its copy of config.json.
LEMMA CopyIs ==
  ASSUME TypeInv, NEW p \in Procs, config = Saved(mem[p]), name[p] \in Clusters
  PROVE  /\ config.known = mem[p].known /\ config.used = mem[p].used
         /\ name[p] \in config.known => config.data[name[p]] = Rec(p)
         /\ \A c \in config.known : config.data[c] = mem[p].data[c]
<1>1. mem[p] \in Configs
  BY DEF TypeInv, TypeOK
<1>2. QED BY <1>1, SavedIs DEF Rec

\* A write leaves config.json tidy and p's copy in agreement with it.
LEMMA WritesTidy ==
  ASSUME TypeInv, Tidy, NEW p \in Procs, name[p] \in Clusters, config = Saved(mem[p]),
         NEW r, NEW K, NEW U, Writes(p, r, K, U), name[p] \in K => r.phase # "none"
  PROVE  Tidy'
<1>1. K \in SUBSET Clusters
  BY DEF Writes
<1>2. QED BY <1>1, WritesIs DEF Tidy

LEMMA SerialWrites ==
  ASSUME TypeInv, Serial, SerialInv, NEW p \in Procs, pc[p] # "idle", Others(p),
         NEW r, NEW K, NEW U, Writes(p, r, K, U), name[p] \in K => r.phase # "none",
         pc'[p] # "idle" => pc'[p] \notin {"load", "apply"} /\ KnowsState(p)' /\ KnowsPhase(p)'
  PROVE  SerialInv'
<1>1. name[p] \in Clusters /\ Tidy /\ config = Saved(mem[p])
  BY DEF TypeInv, Targets, SerialInv, ActsOnFile
<1>2. Tidy'
  BY <1>1, WritesTidy
<1>3. pc'[p] # "idle" => config' = Saved(mem'[p])
  BY <1>1, WritesIs, ExitIs DEF TypeInv
<1>4. QED BY <1>2, <1>3, SerialClose DEF ActsOnFile

LEMMA SerialInit == Init => SerialInv /\ Roles
  BY DEF Init, SerialInv, Roles, Tidy, EmptyConfig, Blank, Creating, Starting, Stopping, Unloading,
     Applyings, Undoings

LEMMA SerialLaunch ==
  ASSUME TypeInv, Serial', SerialInv, NEW p \in Procs, LaunchStep(p)
  PROVE  SerialInv'
<1>1. PICK n \in Clusters, l \in {"load", "boot", "halt", "unload"} :
        /\ pc'[p] = l /\ name'[p] = n /\ mem'[p] = config
        /\ l = "load" /\ n \notin config.known => Cardinality(config.known) < MaxClusters
        /\ l # "load" => n \in config.known
        /\ l = "halt" => config.data[n].phase = "running"
        /\ l = "unload" => config.data[n].phase # "running"
        /\ UNCHANGED files
  BY LaunchIs DEF TypeInv
<1>2. Tidy' /\ config' = config /\ config = Saved(config)
  <2>1. config' = config /\ Tidy /\ config \in Configs
    BY <1>1 DEF files, SerialInv, TypeInv, TypeOK
  <2>2. config.data = [c \in Clusters |-> IF c \in config.known THEN config.data[c] ELSE Blank]
    BY <2>1 DEF Tidy, Configs
  <2>3. config = Saved(config)
    BY <2>1, <2>2, ExceptForms DEF Saved
  <2>4. QED BY <2>1, <2>3 DEF Tidy
<1>3. KnowsState(p)' /\ ActsOnFile(p)'
  BY <1>1, <1>2 DEF KnowsState, ActsOnFile, Applyings, Undoings
<1>4. KnowsPhase(p)'
  BY <1>1, <1>2 DEF KnowsPhase, Unwinding, Creating, Starting, Stopping, Unloading, Applyings, Undoings
<1>5. \A q \in Procs \ {p} : pc'[q] = "idle"
  BY <1>1 DEF Serial
<1>6. QED BY <1>2, <1>3, <1>4, <1>5 DEF SerialInv

\* A step that changes no file, in which p moves on.
LEMMA SerialFrame ==
  ASSUME Serial, SerialInv, NEW p \in Procs, pc[p] # "idle", Others(p),
         UNCHANGED <<config, state, mem, name>>,
         pc'[p] # "load",
         pc'[p] = "apply" /\ at'[p] = Register => pc[p] = "load",
         KnowsState(p)', KnowsPhase(p)'
  PROVE  SerialInv'
<1>1. Tidy'
  BY DEF SerialInv, Tidy
<1>2. ActsOnFile(p)'
  BY DEF SerialInv, ActsOnFile
<1>3. QED BY <1>1, <1>2, SerialClose

\* Where p goes and what it does not touch, of each step of a create.
LEMMA SerialCreate ==
  ASSUME TypeInv, PrefixInv, Roles, Serial, SerialInv, NEW p \in Procs, CreateStep(p)
  PROVE  SerialInv'
<1> USE DEF Creating, Starting, Stopping, Unloading, Applyings, Undoings
<1> DEFINE n == name[p]
<1>0. /\ TypeOK /\ Others(p) /\ pc[p] \in Creating /\ pc[p] # "idle"
      /\ name[p] \in Clusters /\ pc \in [Procs -> PCs] /\ at[p] \in 0..10
      /\ done \in [Procs -> SUBSET Stages] /\ at \in [Procs -> 0..10]
      /\ state \in [Clusters -> SUBSET Stages]
  BY CreateOthers DEF TypeInv, Targets, TypeOK
<1>1. ActsOnFile(p) /\ KnowsState(p) /\ KnowsPhase(p) /\ config = Saved(mem[p])
  BY <1>0 DEF SerialInv, ActsOnFile
<1>2. CASE LoadState(p)
  <2>1. /\ pc[p] = "load" /\ pc'[p] = "apply" /\ at'[p] = Register /\ done'[p] = state[n]
        /\ UNCHANGED <<config, state, mem, name>>
    BY <1>0, <1>2 DEF LoadState, Goto, files
  <2>2. QED BY <1>0, <1>1, <2>1, SerialFrame DEF KnowsState, KnowsPhase, Unwinding
<1>3. CASE SkipApplied(p)
  <2>1. /\ pc[p] = "apply" /\ pc'[p] = "apply" /\ at'[p] = at[p] + 1 /\ at[p] \in 1..10
        /\ UNCHANGED <<config, state, mem, name, done>>
    BY <1>0, <1>3 DEF SkipApplied, files, TypeInv, Positions
  <2>2. QED BY <1>0, <1>1, <2>1, SerialFrame DEF KnowsState, KnowsPhase, Unwinding, Register
<1>4. CASE Record(p)
  <2>1. /\ pc[p] = "record" /\ pc'[p] = "apply" /\ at'[p] = at[p] + 1 /\ at[p] \in Stages
        /\ done'[p] = done[p] \cup {at[p]} /\ state'[n] = done[p] \cup {at[p]}
        /\ UNCHANGED <<config, mem, name>>
    BY <1>0, <1>4 DEF Record, Goto, TypeInv, Positions
  <2>2. Tidy' /\ ActsOnFile(p)'
    BY <1>1, <2>1 DEF SerialInv, Tidy, ActsOnFile, Register, Stages
  <2>3. KnowsState(p)' /\ KnowsPhase(p)'
    BY <1>1, <2>1 DEF KnowsState, KnowsPhase, Unwinding
  <2>4. QED BY <1>0, <2>2, <2>3, SerialClose
<1>5. CASE ApplyDone(p)
  <2>1. /\ pc[p] = "apply" /\ pc'[p] = "reassert" /\ at[p] \in 0..10 /\ at[p] > 9
        /\ UNCHANGED <<config, state, mem, name, done>>
    BY <1>0, <1>5 DEF ApplyDone, files, local, Goto, Finalize
  <2>2. 1..(at[p] - 1) \subseteq done[p]
    BY <2>1 DEF PrefixInv, CopyInOrder
  <2>3. Stages \subseteq done[p]
    BY <2>1, <2>2 DEF Stages
  <2>4. QED BY <1>0, <1>1, <2>1, <2>3, SerialFrame DEF KnowsState, KnowsPhase, Unwinding
<1>6. CASE PoolExhausted(p) \/ ApplyRefused(p) \/ ApplyFails(p)
  BY <1>0, <1>6, SerialExit DEF PoolExhausted, ApplyRefused, ApplyFails, files
<1>7. CASE ApplyEmbedISO(p)
  <2>1. /\ pc[p] = "apply" /\ pc'[p] = "imported"
        /\ UNCHANGED <<config, state, mem, name, done>>
    BY <1>0, <1>7 DEF ApplyEmbedISO, Applying, files, local, Goto
  <2>2. QED BY <1>0, <1>1, <2>1, SerialFrame DEF KnowsState, KnowsPhase, Unwinding
\* The stages end in one way.
<1>8. ASSUME Applied(p)
      PROVE  pc'[p] = "record" /\ UNCHANGED <<state, name, done, at>>
  BY <1>0, <1>8 DEF Applied, Goto
<1>9. ASSUME Applied(p), UNCHANGED <<config, mem>>, pc[p] = "apply"
      PROVE  SerialInv'
  BY <1>0, <1>1, <1>8, <1>9, SerialFrame DEF KnowsState, KnowsPhase, Unwinding
<1>10. CASE ApplyUpsertDNS(p) \/ ApplyEnsureDir(p) \/ ApplyCreateNetwork(p) \/ ApplyCreateVM(p)
            \/ ApplyWaitInstall(p)
  BY <1>9, <1>10 DEF ApplyUpsertDNS, ApplyEnsureDir, ApplyCreateNetwork, ApplyCreateVM,
     ApplyWaitInstall, Applying
<1>11. ASSUME NEW r, NEW K, NEW U, Writes(p, r, K, U), Applied(p),
              pc[p] \in {"apply", "imported"},
              n \in K => r.phase # "none", K = config.known \/ n \in K
       PROVE  SerialInv'
  <2>1. KnowsState(p)'
    BY <1>1, <1>8, <1>11 DEF KnowsState
  <2>2. config'.known = K
    BY <1>0, <1>1, <1>11, WritesIs
  <2>3. KnowsPhase(p)'
    BY <1>1, <1>8, <1>11, <2>2 DEF KnowsPhase, Unwinding
  <2>4. QED BY <1>0, <1>8, <1>11, <2>1, <2>3, SerialWrites
<1>12. Rec(p) \in Records /\ config.known = mem[p].known /\ (n \in config.known => Rec(p).phase # "none")
  BY <1>0, <1>1, CopyIs, RecordTypes DEF SerialInv, Tidy
<1>13. CASE ApplyRegister(p)
  <2>1. CASE n \in mem[p].known
    BY <1>9, <1>13, <2>1 DEF ApplyRegister, Applying
  <2>2. CASE n \notin mem[p].known
    <3>1. RecPhase(p, "creating").phase # "none"
      BY <1>12 DEF RecPhase, Records
    <3>2. QED BY <1>0, <1>11, <1>13, <2>2, <3>1, RegisterWrites DEF ApplyRegister, Applying
  <2>3. QED BY <2>1, <2>2
<1>14. CASE ApplyAllocate(p)
  <2>1. pc[p] = "apply" /\ Applied(p)
    BY <1>14 DEF ApplyAllocate, Applying
  <2>2. \A x : WithAddress(Rec(p), x).phase = Rec(p).phase /\ [Rec(p) EXCEPT !.ip = x].phase = Rec(p).phase
    BY <1>12 DEF WithAddress, Records
  <2>3. QED BY <1>0, <1>9, <1>11, <1>12, <1>14, <2>1, <2>2, AllocateWrites
<1>15. CASE Imported(p)
  <2>1. [Rec(p) EXCEPT !.boot = TRUE].phase = Rec(p).phase
    BY <1>12 DEF Records
  <2>2. QED BY <1>0, <1>11, <1>12, <1>15, <2>1, BootWrites DEF Imported
<1>16. CASE ApplyFinalize(p)
  <2>1. RecPhase(p, "running").phase # "none"
    BY <1>12 DEF RecPhase, Records
  <2>2. Writes(p, RecPhase(p, "running"), mem[p].known, mem[p].used)
    BY <1>0, <1>16, PhaseWrites DEF ApplyFinalize, Save, Phases
  <2>3. QED BY <1>11, <1>12, <1>16, <2>1, <2>2 DEF ApplyFinalize, Applying
<1>17. CASE Reassert(p)
  <2>1. Exit(p) /\ pc'[p] = "idle"
    BY <1>0, <1>17, ExitIs DEF Reassert
  <2>2. CASE config' = config
    BY <1>0, <2>1, <2>2, SerialExit
  <2>3. CASE config' = Saved(SetPhase(p, "running"))
    <3>1. RecPhase(p, "running").phase # "none"
      BY <1>12 DEF RecPhase, Records
    <3>2. Writes(p, RecPhase(p, "running"), mem[p].known, mem[p].used)
      BY <1>0, <2>1, <2>3, PhaseWrites DEF Phases
    <3>3. QED BY <1>0, <2>1, <3>1, <3>2, SerialWrites
  <2>4. QED BY <1>17, <2>2, <2>3 DEF Reassert
<1>18. QED BY <1>2, <1>3, <1>4, <1>5, <1>6, <1>7, <1>10, <1>13, <1>14, <1>15, <1>16, <1>17 DEF CreateStep

LEMMA SerialPower ==
  ASSUME TypeInv, Roles, Serial, SerialInv, NEW p \in Procs, PowerStep(p)
  PROVE  SerialInv'
<1> USE DEF Creating, Starting, Stopping, Unloading, Applyings, Undoings
<1> DEFINE n == name[p]
<1>0. /\ TypeOK /\ Others(p) /\ pc[p] \in Starting \cup Stopping /\ pc[p] # "idle"
      /\ n \in Clusters /\ pc \in [Procs -> PCs]
  BY PowerOthers DEF TypeInv, Targets, TypeOK
<1>1. ActsOnFile(p) /\ KnowsState(p) /\ KnowsPhase(p) /\ config = Saved(mem[p])
  BY <1>0 DEF SerialInv, ActsOnFile
<1>2. Rec(p) \in Records /\ config.known = mem[p].known /\ n \in config.known
  BY <1>0, <1>1, CopyIs, RecordTypes DEF KnowsPhase
<1>3. CASE Boot(p) \/ Halt(p) \/ HaltFails(p)
  <2>1. /\ pc'[p] \in {"started", "stopped"} /\ (pc'[p] = "stopped" => pc[p] = "halt")
        /\ UNCHANGED <<config, state, mem, name>>
    BY <1>0, <1>3 DEF Boot, Halt, HaltFails, Goto, files, local
  <2>2. QED BY <1>0, <1>1, <2>1, SerialFrame DEF KnowsState, KnowsPhase, Unwinding
<1>4. CASE BootRefused(p) \/ BootFails(p)
  BY <1>0, <1>4, SerialExit DEF BootRefused, BootFails, files
\* The phase is written and the command ends, or a delete goes on to unload.
<1>5. ASSUME NEW ph \in Phases, ph # "none", Writes(p, RecPhase(p, ph), mem[p].known, mem[p].used),
             pc'[p] # "idle" => pc'[p] = "unload" /\ UNCHANGED name /\ ph = "stopped"
      PROVE  SerialInv'
  <2>1. RecPhase(p, ph).phase = ph
    BY <1>2 DEF RecPhase, Records
  <2>2. config'.known = mem[p].known /\ config'.data[n] = RecPhase(p, ph)
    BY <1>0, <1>1, <1>2, <1>5, WritesIs
  <2>3. pc'[p] # "idle" => KnowsState(p)' /\ KnowsPhase(p)'
    BY <1>2, <1>5, <2>1, <2>2 DEF KnowsState, KnowsPhase, Unwinding
  <2>4. QED BY <1>0, <1>5, <2>1, <2>3, SerialWrites
<1>6. CASE Started(p)
  <2>1. pc'[p] = "idle"
    BY <1>0, <1>6, ExitIs DEF Started
  <2>2. QED BY <1>0, <1>5, <1>6, <2>1, PhaseWrites DEF Started, Phases
<1>7. CASE MarkStopped(p)
  <2>1. pc'[p] # "idle" => pc'[p] = "unload" /\ UNCHANGED name
    BY <1>0, <1>7, ExitIs DEF MarkStopped, Goto
  <2>2. Writes(p, RecPhase(p, "stopped"), mem[p].known, mem[p].used)
    BY <1>0, <1>7, PhaseWrites DEF MarkStopped, Save, Phases
  <2>3. QED BY <1>5, <2>1, <2>2 DEF Phases
<1>8. QED BY <1>3, <1>4, <1>6, <1>7 DEF PowerStep

LEMMA SerialDelete ==
  ASSUME TypeInv, PrefixInv, Roles, Serial, SerialInv, NEW p \in Procs, DeleteStep(p)
  PROVE  SerialInv'
<1> USE DEF Creating, Starting, Stopping, Unloading, Applyings, Undoings
<1> DEFINE n == name[p]
<1>0. /\ TypeOK /\ Others(p) /\ pc[p] \in Unloading /\ pc[p] # "idle"
      /\ n \in Clusters /\ pc \in [Procs -> PCs] /\ at[p] \in 0..10
      /\ done \in [Procs -> SUBSET Stages] /\ at \in [Procs -> 0..10]
      /\ state \in [Clusters -> SUBSET Stages]
  BY DeleteOthers DEF TypeInv, Targets, TypeOK
<1>1. ActsOnFile(p) /\ KnowsState(p) /\ KnowsPhase(p) /\ config = Saved(mem[p])
  BY <1>0 DEF SerialInv, ActsOnFile
<1>2. /\ Rec(p) \in Records /\ config.known = mem[p].known
      /\ n \in config.known => config.data[n] = Rec(p) /\ Rec(p).phase # "none"
  BY <1>0, <1>1, CopyIs, RecordTypes DEF SerialInv, Tidy
<1>3. CASE LoadRollback(p)
  <2>1. /\ pc[p] = "unload" /\ pc'[p] = "rollback" /\ at'[p] = Finalize /\ done'[p] = state[n]
        /\ UNCHANGED <<config, state, mem, name>>
    BY <1>0, <1>3 DEF LoadRollback, Goto, files
  <2>2. QED BY <1>0, <1>1, <2>1, SerialFrame DEF KnowsState, KnowsPhase, Unwinding
<1>4. CASE SkipUnrecorded(p)
  <2>1. /\ pc[p] = "rollback" /\ pc'[p] = "rollback" /\ at'[p] = at[p] - 1 /\ at[p] \in Stages
        /\ UNCHANGED <<config, state, mem, name, done>>
    BY <1>0, <1>4 DEF SkipUnrecorded, files
  <2>2. QED BY <1>0, <1>1, <2>1, SerialFrame DEF KnowsState, KnowsPhase, Unwinding, Stages
<1>5. CASE Drop(p)
  <2>1. /\ pc[p] = "drop" /\ pc'[p] = "rollback" /\ at'[p] = at[p] - 1 /\ at[p] \in Stages
        /\ done'[p] = done[p] \ {at[p]} /\ state'[n] = done[p] \ {at[p]}
        /\ UNCHANGED <<config, mem, name>>
    BY <1>0, <1>5 DEF Drop, Goto, TypeInv, Positions
  <2>2. Tidy' /\ ActsOnFile(p)'
    BY <1>1, <2>1 DEF SerialInv, Tidy, ActsOnFile
  <2>3. KnowsState(p)' /\ KnowsPhase(p)'
    BY <1>1, <2>1 DEF KnowsState, KnowsPhase, Unwinding, Register, Stages
  <2>4. QED BY <1>0, <2>2, <2>3, SerialClose
<1>6. CASE RollbackDone(p)
  <2>1. /\ pc[p] = "rollback" /\ pc'[p] = "wipe" /\ at[p] < 1
        /\ UNCHANGED <<config, state, mem, name, done>>
    BY <1>0, <1>6 DEF RollbackDone, Goto, files, local, Register
  <2>2. done[p] \subseteq 1..at[p]
    BY <2>1 DEF PrefixInv, CopyInOrder
  <2>3. state[n] = {}
    BY <1>0, <1>1, <2>1, <2>2 DEF KnowsState
  <2>4. QED BY <1>0, <1>1, <2>1, <2>3, SerialFrame DEF KnowsState, KnowsPhase, Unwinding
<1>7. CASE WipeDir(p)
  <2>1. /\ pc[p] = "wipe" /\ pc'[p] = "flush" /\ state'[n] = {}
        /\ UNCHANGED <<config, mem, name>>
    BY <1>0, <1>7 DEF WipeDir, Goto, local
  <2>2. Tidy' /\ ActsOnFile(p)' /\ KnowsState(p)' /\ KnowsPhase(p)'
    BY <1>1, <2>1 DEF SerialInv, Tidy, ActsOnFile, KnowsState, KnowsPhase, Unwinding
  <2>3. QED BY <1>0, <2>2, SerialClose
<1>8. CASE FinishDelete(p)
  BY <1>0, <1>1, <1>8, SerialExit DEF FinishDelete
\* A stage is undone, without or with a write of config.json.
<1>9. ASSUME pc[p] = "rollback", pc'[p] \in {"drop", "removed"},
             UNCHANGED <<config, mem, name, done, at>>, at[p] \in Stages \ {Register},
             state' = state \/ state' = [state EXCEPT ![n] = {}]
      PROVE  SerialInv'
  <2>1. Tidy' /\ ActsOnFile(p)'
    BY <1>1, <1>9 DEF SerialInv, Tidy, ActsOnFile
  <2>2. KnowsState(p)' /\ KnowsPhase(p)'
    BY <1>0, <1>1, <1>9 DEF KnowsState, KnowsPhase, Unwinding, Stages
  <2>3. QED BY <1>0, <2>1, <2>2, SerialClose
<1>10. CASE RollbackWaitInstall(p) \/ RollbackCreateVM(p) \/ RollbackCreateNetwork(p)
            \/ RollbackEmbedISO(p) \/ RollbackEnsureDir(p) \/ RollbackUpsertDNS(p) \/ RollbackFails(p)
  <2>1. pc[p] = "rollback" /\ at[p] \in Stages \ {Register}
    BY <1>10 DEF RollbackWaitInstall, RollbackCreateVM, RollbackCreateNetwork, RollbackEmbedISO,
       RollbackEnsureDir, RollbackUpsertDNS, RollbackFails, Undoing, Stages, Register, WaitInstall,
       CreateVM, CreateNetwork, EmbedISO, EnsureDir, UpsertDNS
  <2>2. UNCHANGED <<config, mem, name, done, at>> /\ (state' = state \/ state' = [state EXCEPT ![n] = {}])
    BY <1>10 DEF RollbackWaitInstall, RollbackCreateVM, RollbackCreateNetwork, RollbackEmbedISO,
       RollbackEnsureDir, RollbackUpsertDNS, RollbackFails, Undone, files, local
  <2>3. pc'[p] \in {"drop", "removed"}
    BY <1>0, <1>10 DEF RollbackWaitInstall, RollbackCreateVM, RollbackCreateNetwork, RollbackEmbedISO,
       RollbackEnsureDir, RollbackUpsertDNS, RollbackFails, Undone, Goto
  <2>4. QED BY <1>9, <2>1, <2>2, <2>3
<1>11. ASSUME NEW r, NEW K, NEW U, Writes(p, r, K, U), Undone(p), UNCHANGED state,
              pc[p] \in {"rollback", "removed"}, at[p] \in Stages,
              IF at[p] = Register THEN n \notin K /\ config.data[n].phase # "running" ELSE K = config.known,
              n \in K => r.phase \notin {"none", "running"}
       PROVE  SerialInv'
  <2>1. pc'[p] = "drop" /\ UNCHANGED <<state, name, done, at>>
    BY <1>0, <1>11 DEF Undone, Goto
  <2>2. KnowsState(p)'
    BY <1>1, <1>11, <2>1 DEF KnowsState
  <2>3. config'.known = K /\ (n \in K => config'.data[n] = r) /\ (n \notin K => config'.data[n] = Blank)
    BY <1>0, <1>1, <1>11, WritesIs
  <2>4. KnowsPhase(p)'
    BY <1>1, <1>11, <2>1, <2>3 DEF KnowsPhase, Unwinding, Blank, Stages
  <2>5. QED BY <1>0, <1>11, <2>1, <2>2, <2>4, SerialWrites
<1>12. n \in config.known => Rec(p).phase \notin {"none", "running"}
  BY <1>0, <1>1, <1>2 DEF KnowsPhase
<1>13. CASE RollbackFinalize(p)
  <2>1. RecPhase(p, "creating").phase = "creating"
    BY <1>2 DEF RecPhase, Records
  <2>2. Writes(p, RecPhase(p, "creating"), mem[p].known, mem[p].used)
    BY <1>0, <1>13, PhaseWrites DEF RollbackFinalize, Save, Phases
  <2>3. QED BY <1>2, <1>11, <1>13, <2>1, <2>2
        DEF RollbackFinalize, Undoing, Finalize, Stages, Register
<1>14. CASE Removed(p)
  <2>1. [Rec(p) EXCEPT !.boot = FALSE].phase = Rec(p).phase
    BY <1>2 DEF Records
  <2>2. at[p] = EmbedISO
    BY <1>14 DEF Removed, Roles
  <2>3. /\ pc[p] = "removed" /\ Undone(p) /\ UNCHANGED state
        /\ at[p] \in Stages /\ at[p] # Register
    BY <1>14, <2>2 DEF Removed, EmbedISO, Stages, Register
  <2>4. Writes(p, [Rec(p) EXCEPT !.boot = FALSE], mem[p].known, mem[p].used)
    BY <1>0, <1>14, BootWrites DEF Removed
  <2>5. QED BY <1>2, <1>11, <1>12, <2>1, <2>3, <2>4
<1>15. CASE RollbackAllocate(p)
  <2>1. [Rec(p) EXCEPT !.ip = NoIP].phase = Rec(p).phase
    BY <1>2 DEF Records
  <2>2. /\ pc[p] = "rollback" /\ Undone(p) /\ UNCHANGED state
        /\ at[p] \in Stages /\ at[p] # Register
    BY <1>15 DEF RollbackAllocate, Undoing, Allocate, Stages, Register
  <2>3. Writes(p, [Rec(p) EXCEPT !.ip = NoIP], mem[p].known, mem[p].used \ {Rec(p).ip})
    BY <1>0, <1>15, ReleaseWrites
  <2>4. QED BY <1>2, <1>11, <1>12, <2>1, <2>2, <2>3
<1>16. CASE RollbackRegister(p)
  <2>1. config.data[n].phase # "running"
    BY <1>0, <1>1 DEF KnowsPhase
  <2>2. QED BY <1>0, <1>2, <1>11, <1>16, <2>1, UnregisterWrites
        DEF RollbackRegister, Undoing, Register, Stages
<1>17. QED BY <1>3, <1>4, <1>5, <1>6, <1>7, <1>8, <1>10, <1>13, <1>14, <1>15, <1>16 DEF DeleteStep

LEMMA SerialStep ==
  TypeInv /\ PrefixInv /\ Roles /\ Serial /\ Serial' /\ SerialInv /\ Moved => SerialInv'
<1> SUFFICES ASSUME TypeInv, PrefixInv, Roles, Serial, Serial', SerialInv, Moved
             PROVE  SerialInv'
  OBVIOUS
<1>1. ASSUME NEW p \in Procs, Crash(p) PROVE SerialInv'
  BY <1>1, SerialExit DEF Crash, files
<1>5. ASSUME NEW p \in Procs, StateUnreadable(p) PROVE SerialInv'
  BY <1>5, SerialExit DEF StateUnreadable, files
<1>2. CASE HostReboot
  BY <1>2 DEF HostReboot, SerialInv, Tidy, files
<1>3. CASE UNCHANGED vars
  BY <1>3 DEF vars, files, local, SerialInv, Tidy, ActsOnFile, KnowsState, KnowsPhase, Unwinding
<1>4. QED
  BY <1>1, <1>2, <1>3, <1>5, SerialLaunch, SerialCreate, SerialPower, SerialDelete DEF Moved

-----------------------------------------------------------------------------
(* ClusterRegistry.  Every write of config.json is a step of the registry or *)
(* changes nothing of what it shows.                                         *)

\* The refinement mapping of Registry.
PhaseMap == [c \in Clusters |-> IF c \in config.known THEN config.data[c].phase ELSE "absent"]
AddrMap == [c \in Clusters |-> Addr(c)]

LEMMA RegistryInit == Init => Registry!Init
  BY DEF Init, Registry!Init, EmptyConfig, Addr

\* What a command does to what the registry shows.
Moves ==
  \/ Registry!Change
  \/ PhaseMap' = PhaseMap /\ AddrMap' = AddrMap /\ config'.used = config.used

LEMMA RegistryStutter ==
  ASSUME PhaseMap' = PhaseMap, AddrMap' = AddrMap, config'.used = config.used
  PROVE  Moves
  BY DEF Moves

\* The registry's view of a write.
LEMMA WritesMap ==
  ASSUME TypeInv, NEW p \in Procs, name[p] \in Clusters, config = Saved(mem[p]),
         NEW r, NEW K, NEW U, Writes(p, r, K, U)
  PROVE  /\ PhaseMap' = [PhaseMap EXCEPT ![name[p]] = IF name[p] \in K THEN r.phase ELSE "absent"]
         /\ AddrMap' = [AddrMap EXCEPT ![name[p]] =
                          IF name[p] \in K /\ NAT(name[p]) THEN r.ip ELSE NoIP]
         /\ config'.used = U
<1> DEFINE n == name[p]
<1>1. /\ config'.known = K /\ config'.used = U
      /\ n \in K => config'.data[n] = r
      /\ \A c \in Clusters \ {n} :
              config'.data[c] = config.data[c] /\ (c \in K <=> c \in config.known)
  BY WritesIs
<1>2. PhaseMap' = [PhaseMap EXCEPT ![n] = IF n \in K THEN r.phase ELSE "absent"]
  BY <1>1 DEF PhaseMap
<1>3. AddrMap' = [AddrMap EXCEPT ![n] = IF n \in K /\ NAT(n) THEN r.ip ELSE NoIP]
  <2>1. \A c \in Clusters \ {n} : Addr(c)' = Addr(c)
    BY <1>1 DEF Addr, NAT
  <2>2. \A c \in Clusters : c = n => Addr(c)' = IF c \in K /\ NAT(c) THEN r.ip ELSE NoIP
    BY <1>1 DEF Addr, NAT
  <2>3. QED BY <2>1, <2>2 DEF AddrMap
<1>4. QED BY <1>1, <1>2, <1>3

LEMMA MapIs ==
  ASSUME NEW n \in Clusters
  PROVE  /\ PhaseMap[n] = IF n \in config.known THEN config.data[n].phase ELSE "absent"
         /\ AddrMap[n] = Addr(n)
         /\ PhaseMap = [PhaseMap EXCEPT ![n] = PhaseMap[n]]
         /\ AddrMap = [AddrMap EXCEPT ![n] = AddrMap[n]]
  BY DEF PhaseMap, AddrMap

\* A write of a phase.
LEMMA RegistryPhase ==
  ASSUME TypeInv, Tidy, NEW p \in Procs, name[p] \in Clusters, config = Saved(mem[p]),
         NEW ph \in {"creating", "running", "stopped"},
         Writes(p, RecPhase(p, ph), mem[p].known, mem[p].used),
         ph = "stopped" => config.data[name[p]].phase = "running",
         ph = "creating" => config.data[name[p]].phase # "running"
  PROVE  Moves
<1>0. PICK n \in Clusters : n = name[p]
  OBVIOUS
<1>1. /\ config.known = mem[p].known /\ config.used = mem[p].used
      /\ n \in config.known => config.data[n] = Rec(p)
  BY <1>0, CopyIs
<1>2. Rec(p) \in Records
  BY RecordTypes
<1>3. RecPhase(p, ph).phase = ph /\ RecPhase(p, ph).ip = Rec(p).ip
  BY <1>2 DEF RecPhase, Records
<1>4. /\ PhaseMap' = [PhaseMap EXCEPT ![n] = IF n \in config.known THEN ph ELSE "absent"]
      /\ AddrMap' = [AddrMap EXCEPT ![n] = IF n \in config.known /\ NAT(n) THEN Rec(p).ip ELSE NoIP]
      /\ config'.used = config.used
  BY <1>0, <1>1, <1>3, WritesMap
<1>5. AddrMap' = AddrMap
  BY <1>1, <1>4, MapIs DEF Addr
<1>6. CASE n \notin config.known \/ ph = PhaseMap[n]
  <2>1. PhaseMap' = PhaseMap
    BY <1>4, <1>6, MapIs
  <2>2. QED BY <1>4, <1>5, <2>1, RegistryStutter
<1>7. CASE n \in config.known /\ ph # PhaseMap[n]
  <2>1. PhaseMap[n] \in {"creating", "running", "stopped"}
    BY <1>1, <1>2, <1>7, MapIs DEF Tidy, Records, Phases
  <2>2. /\ ph = "stopped" => Registry!Halt(n)
        /\ ph = "creating" => Registry!Unwind(n)
        /\ ph = "running" => Registry!Finish(n)
    BY <1>0, <1>4, <1>5, <1>7, <2>1, MapIs DEF Registry!Halt, Registry!Unwind, Registry!Finish,
       Registry!Move, PhaseMap, AddrMap
  <2>3. \E c \in Clusters : Registry!Halt(c) \/ Registry!Unwind(c) \/ Registry!Finish(c)
    BY <2>2
  <2>4. QED BY <2>3 DEF Moves, Registry!Change
<1>8. QED BY <1>6, <1>7

\* A registered cluster is in a phase of the registry.
LEMMA PhaseMapIs ==
  ASSUME TypeOK, Tidy, NEW n \in Clusters
  PROVE  IF n \in config.known THEN PhaseMap[n] \in {"creating", "running", "stopped"}
                               ELSE PhaseMap[n] = "absent"
<1>1. config.data[n] \in Records
  BY DEF TypeOK, Configs
<1>2. QED BY <1>1, MapIs DEF Tidy, Records, Phases

LEMMA RegistryRegister ==
  ASSUME TypeInv, SerialInv, NEW p \in Procs, name[p] \in Clusters, pc[p] # "idle", ApplyRegister(p)
  PROVE  Moves
<1>0. PICK n \in Clusters : n = name[p]
  OBVIOUS
<1>1. CASE n \in mem[p].known
  <2>1. config' = config
    BY <1>0, <1>1 DEF ApplyRegister
  <2>2. QED BY <2>1, RegistryStutter DEF PhaseMap, AddrMap, Addr
<1>2. CASE n \notin mem[p].known
  <2>1. /\ mem[p] = config /\ config = Saved(mem[p]) /\ Tidy
        /\ Cardinality(config.known) < MaxClusters
    BY <1>0, <1>2 DEF SerialInv, ActsOnFile, KnowsPhase, ApplyRegister, Applying, Creating, Applyings
  <2>2. Rec(p) = Blank
    BY <1>0, <1>2, <2>1 DEF Tidy, Rec
  <2>3. RecPhase(p, "creating").phase = "creating" /\ RecPhase(p, "creating").ip = NoIP
    BY <2>2 DEF RecPhase, Blank
  <2>4. /\ PhaseMap' = [PhaseMap EXCEPT ![n] = "creating"]
        /\ AddrMap' = [AddrMap EXCEPT ![n] = NoIP]
        /\ config'.used = config.used
    <3>1. PICK r, K, U : /\ r.phase = "creating" /\ r.ip = NoIP /\ n \in K /\ U = config.used
                         /\ Writes(p, r, K, U)
      BY <1>0, <1>2, <2>1, <2>3, RegisterWrites
    <3>2. QED BY <1>0, <2>1, <3>1, WritesMap
  <2>5. AddrMap' = AddrMap
    BY <1>2, <2>1, <2>4, MapIs DEF Addr
  <2>6. PhaseMap[n] = "absent"
    BY <1>2, <2>1, PhaseMapIs DEF TypeInv
  <2>7. Registry!Registered = config.known
    <3>1. config.known \subseteq Clusters
      BY DEF TypeInv, TypeOK, Configs
    <3>2. \A c \in Clusters : PhaseMap[c] # "absent" <=> c \in config.known
      BY <2>1, PhaseMapIs DEF TypeInv
    <3>3. QED BY <3>1, <3>2 DEF Registry!Registered, PhaseMap
  <2>8. Registry!Register(n)
    <3>1. Registry!Move(n, {"absent"}, "creating")
      BY <2>4, <2>5, <2>6 DEF Registry!Move, PhaseMap, AddrMap
    <3>2. Registry!Cardinality(Registry!Registered) < MaxClusters
      <4>1. Registry!Cardinality(config.known) = Cardinality(config.known)
        BY DEF Registry!Cardinality, Cardinality
      <4>2. QED BY <2>1, <2>7, <4>1
    <3>3. QED BY <3>1, <3>2 DEF Registry!Register
  <2>9. QED BY <2>8 DEF Moves, Registry!Change
<1>3. QED BY <1>1, <1>2

LEMMA RegistryAllocate ==
  ASSUME TypeInv, SerialInv, NEW p \in Procs, name[p] \in Clusters, pc[p] # "idle", ApplyAllocate(p)
  PROVE  Moves
<1>0. PICK n \in Clusters : n = name[p]
  OBVIOUS
<1>1. /\ config = Saved(mem[p]) /\ Tidy /\ Rec(p) \in Records
      /\ config.known = mem[p].known /\ config.used = mem[p].used
      /\ n \in config.known => config.data[n] = Rec(p)
  BY <1>0, CopyIs, RecordTypes DEF SerialInv, ActsOnFile
<1>2. \A x : /\ WithAddress(Rec(p), x).phase = Rec(p).phase /\ WithAddress(Rec(p), x).ip = x
             /\ [Rec(p) EXCEPT !.ip = x].phase = Rec(p).phase
  BY <1>1 DEF WithAddress, Records
<1>3. PhaseMap[n] = IF n \in config.known THEN Rec(p).phase ELSE "absent"
  BY <1>1, MapIs
<1>4. CASE UNCHANGED <<config, mem>>
  BY <1>4, RegistryStutter DEF PhaseMap, AddrMap, Addr
<1>5. ASSUME Rec(p).ip = NoIP, NAT(n), NEW x \in Pool \ mem[p].used,
             Writes(p, WithAddress(Rec(p), x), mem[p].known, mem[p].used \cup {x})
      PROVE  Moves
  <2>1. /\ PhaseMap' = PhaseMap /\ config'.used = config.used \cup {x}
        /\ AddrMap' = [AddrMap EXCEPT ![n] = IF n \in config.known THEN x ELSE NoIP]
    BY <1>0, <1>1, <1>2, <1>3, <1>5, WritesMap, MapIs
  <2>2. AddrMap[n] = NoIP
    BY <1>1, <1>5, MapIs DEF Addr
  <2>3. CASE n \in config.known
    <3>1. PhaseMap[n] # "absent"
      BY <1>1, <2>3, PhaseMapIs DEF TypeInv
    <3>2. Registry!Assign(n, x)
      BY <1>1, <1>5, <2>1, <2>2, <2>3, <3>1 DEF Registry!Assign, PhaseMap, AddrMap
    <3>3. QED BY <1>5, <3>2 DEF Moves, Registry!Change
  <2>4. CASE n \notin config.known
    <3>1. AddrMap' = AddrMap
      BY <2>1, <2>2, <2>4, MapIs
    <3>2. Registry!Lose(x)
      BY <1>1, <1>5, <2>1, <3>1 DEF Registry!Lose, PhaseMap, AddrMap
    <3>3. QED BY <1>5, <3>2 DEF Moves, Registry!Change
  <2>5. QED BY <2>3, <2>4
<1>6. ASSUME ~NAT(n), Writes(p, [Rec(p) EXCEPT !.ip = MasterIP[n]], mem[p].known, mem[p].used)
      PROVE  Moves
  <2>1. /\ PhaseMap' = PhaseMap /\ config'.used = config.used
        /\ AddrMap' = [AddrMap EXCEPT ![n] = NoIP]
    <3>1. PICK r, K, U : /\ r.phase = Rec(p).phase /\ K = config.known /\ U = config.used
                         /\ Writes(p, r, K, U)
      BY <1>1, <1>2, <1>6
    <3>2. QED BY <1>0, <1>1, <1>3, <1>6, <3>1, WritesMap, MapIs
  <2>2. AddrMap' = AddrMap
    BY <1>6, <2>1, MapIs DEF Addr
  <2>3. QED BY <2>1, <2>2, RegistryStutter
<1>7. QED BY <1>0, <1>4, <1>5, <1>6, AllocateWrites

LEMMA RegistryRelease ==
  ASSUME TypeInv, SerialInv, AddressInv, NEW p \in Procs, name[p] \in Clusters, pc[p] # "idle",
         RollbackAllocate(p)
  PROVE  Moves
<1>0. PICK n \in Clusters : n = name[p]
  OBVIOUS
<1>1. /\ config = Saved(mem[p]) /\ Tidy /\ Rec(p) \in Records
      /\ config.known = mem[p].known /\ config.used = mem[p].used
      /\ n \in config.known => config.data[n] = Rec(p)
  BY <1>0, CopyIs, RecordTypes DEF SerialInv, ActsOnFile
<1>2. [Rec(p) EXCEPT !.ip = NoIP].phase = Rec(p).phase /\ [Rec(p) EXCEPT !.ip = NoIP].ip = NoIP
  BY <1>1 DEF Records
<1>3. n \in config.known /\ config.data[n].phase # "running" /\ config.data[n] = Rec(p)
  <2>1. pc[p] = "rollback" /\ at[p] = Allocate
    BY DEF RollbackAllocate, Undoing
  <2>2. QED BY <1>0, <1>1, <2>1 DEF SerialInv, KnowsPhase, Unwinding, Undoings, Unloading, Allocate
<1>4. PhaseMap[n] = Rec(p).phase
  BY <1>3, MapIs
<1>5. /\ PhaseMap' = PhaseMap /\ config'.used = config.used \ {Rec(p).ip}
      /\ AddrMap' = [AddrMap EXCEPT ![n] = NoIP]
  <2>1. PICK r, K, U : /\ r.phase = Rec(p).phase /\ r.ip = NoIP /\ K = config.known
                       /\ U = config.used \ {Rec(p).ip} /\ Writes(p, r, K, U)
    BY <1>1, <1>2, ReleaseWrites
  <2>2. QED BY <1>0, <1>1, <1>3, <1>4, <2>1, WritesMap, MapIs
<1>6. CASE NAT(n) /\ Rec(p).ip # NoIP
  <2>1. AddrMap[n] = Rec(p).ip
    BY <1>3, <1>6, MapIs DEF Addr
  <2>2. PhaseMap[n] \in {"creating", "stopped"}
    BY <1>1, <1>3, <1>4, PhaseMapIs DEF TypeInv
  <2>3. Registry!Unassign(n)
    BY <1>5, <1>6, <2>1, <2>2 DEF Registry!Unassign, PhaseMap, AddrMap
  <2>4. QED BY <2>3 DEF Moves, Registry!Change
<1>7. CASE ~NAT(n) \/ Rec(p).ip = NoIP
  <2>1. Rec(p).ip \notin config.used
    <3>1. config.used \subseteq Pool /\ NoIP \notin Pool
      BY DEF TypeInv, TypeOK, Configs, NoIP, Pool
    <3>2. ~NAT(n) => Rec(p).ip \in {NoIP, MasterIP[n]}
      BY <1>0 DEF AddressInv, OneOwner, Rec
    <3>3. QED BY <1>7, <3>1, <3>2, ManagerAssumption
  <2>2. AddrMap' = AddrMap
    BY <1>3, <1>5, <1>7, MapIs DEF Addr
  <2>3. QED BY <1>5, <2>1, <2>2, RegistryStutter
<1>8. QED BY <1>6, <1>7

LEMMA RegistryUnregister ==
  ASSUME TypeInv, SerialInv, NEW p \in Procs, name[p] \in Clusters, pc[p] # "idle",
         RollbackRegister(p)
  PROVE  Moves
<1>0. PICK n \in Clusters : n = name[p]
  OBVIOUS
<1>1. config = Saved(mem[p]) /\ Tidy /\ config.used = mem[p].used
  BY <1>0, CopyIs DEF SerialInv, ActsOnFile
<1>2. n \in config.known /\ config.data[n].phase # "running"
  <2>1. pc[p] = "rollback" /\ at[p] = Register
    BY DEF RollbackRegister, Undoing
  <2>2. QED BY <1>0, <1>1, <2>1 DEF SerialInv, KnowsPhase, Unwinding, Undoings, Unloading, Register
<1>3. /\ PhaseMap' = [PhaseMap EXCEPT ![n] = "absent"] /\ config'.used = config.used
      /\ AddrMap' = [AddrMap EXCEPT ![n] = NoIP]
  <2>1. PICK r, K, U : n \notin K /\ U = config.used /\ Writes(p, r, K, U)
    BY <1>0, <1>1, UnregisterWrites
  <2>2. QED BY <1>0, <1>1, <2>1, WritesMap
<1>4. PhaseMap[n] \in {"creating", "stopped"}
  BY <1>1, <1>2, PhaseMapIs, MapIs DEF TypeInv
<1>5. Registry!Forget(n)
  BY <1>3, <1>4 DEF Registry!Forget, PhaseMap, AddrMap
<1>6. QED BY <1>5 DEF Moves, Registry!Change

LEMMA RegistryUnchanged ==
  ASSUME config' = config
  PROVE  Moves
  BY RegistryStutter DEF PhaseMap, AddrMap, Addr

LEMMA RegistryBoot ==
  ASSUME TypeInv, NEW p \in Procs, name[p] \in Clusters, config = Saved(mem[p]), NEW b \in BOOLEAN,
         Writes(p, [Rec(p) EXCEPT !.boot = b], mem[p].known, mem[p].used)
  PROVE  Moves
<1>0. PICK n \in Clusters : n = name[p]
  OBVIOUS
<1>1. /\ config.known = mem[p].known /\ config.used = mem[p].used /\ Rec(p) \in Records
      /\ n \in config.known => config.data[n] = Rec(p)
  BY <1>0, CopyIs, RecordTypes
<1>2. PICK r, K, U : /\ r.phase = Rec(p).phase /\ r.ip = Rec(p).ip /\ K = config.known
                     /\ U = config.used /\ Writes(p, r, K, U)
  BY <1>1 DEF Records
<1>3. PhaseMap' = PhaseMap /\ AddrMap' = AddrMap /\ config'.used = config.used
  BY <1>0, <1>1, <1>2, WritesMap, MapIs DEF Addr
<1>4. QED BY <1>3, RegistryStutter

LEMMA RegistryMoves ==
  ASSUME TypeInv, Roles, AddressInv, SerialInv, Moved
  PROVE  Moves
<1>1. ASSUME NEW p \in Procs, CreateStep(p)
      PROVE  Moves
  <2>0. /\ name[p] \in Clusters /\ pc[p] # "idle" /\ pc[p] \in Creating
        /\ config = Saved(mem[p]) /\ Tidy /\ TypeOK
    BY <1>1, CreateOthers DEF TypeInv, Targets, Creating, Applyings, SerialInv, ActsOnFile
  <2>1. CASE ApplyRegister(p) \/ ApplyAllocate(p)
    BY <2>0, <2>1, RegistryRegister, RegistryAllocate
  <2>2. CASE Imported(p)
    BY <2>0, <2>2, BootWrites, RegistryBoot DEF Imported
  <2>3. CASE ApplyFinalize(p)
    <3>1. Writes(p, RecPhase(p, "running"), mem[p].known, mem[p].used)
      BY <2>0, <2>3, PhaseWrites DEF ApplyFinalize, Save, Phases
    <3>2. QED BY <2>0, <3>1, RegistryPhase
  <2>4. CASE Reassert(p)
    <3>1. CASE config' = Saved(SetPhase(p, "running"))
      <4>1. Writes(p, RecPhase(p, "running"), mem[p].known, mem[p].used)
        BY <2>0, <2>4, <3>1, PhaseWrites DEF Reassert, Phases
      <4>2. QED BY <2>0, <4>1, RegistryPhase
    <3>2. QED BY <2>4, <3>1, RegistryUnchanged DEF Reassert
  <2>5. QED
    BY <1>1, <2>1, <2>2, <2>3, <2>4, RegistryUnchanged DEF CreateStep, LoadState, SkipApplied, Record,
       ApplyDone, PoolExhausted, ApplyUpsertDNS, ApplyEnsureDir, ApplyEmbedISO, ApplyCreateNetwork,
       ApplyCreateVM, ApplyWaitInstall, ApplyRefused, ApplyFails, files
<1>2. ASSUME NEW p \in Procs, PowerStep(p)
      PROVE  Moves
  <2>0. /\ name[p] \in Clusters /\ pc[p] \in Starting \cup Stopping
        /\ config = Saved(mem[p]) /\ Tidy /\ TypeOK
    BY <1>2, PowerOthers DEF TypeInv, Targets, Starting, Stopping, SerialInv, ActsOnFile
  <2>1. CASE Started(p)
    <3>1. Writes(p, RecPhase(p, "running"), mem[p].known, mem[p].used)
      BY <2>0, <2>1, PhaseWrites DEF Started, Phases
    <3>2. QED BY <2>0, <3>1, RegistryPhase
  <2>2. CASE MarkStopped(p)
    <3>1. Writes(p, RecPhase(p, "stopped"), mem[p].known, mem[p].used)
      BY <2>0, <2>2, PhaseWrites DEF MarkStopped, Save, Phases
    <3>2. config.data[name[p]].phase = "running"
      BY <2>2 DEF MarkStopped, SerialInv, KnowsPhase, Stopping
    <3>3. QED BY <2>0, <3>1, <3>2, RegistryPhase
  <2>3. QED
    BY <1>2, <2>1, <2>2, RegistryUnchanged DEF PowerStep, Boot, BootRefused, BootFails, Halt, HaltFails, files
<1>3. ASSUME NEW p \in Procs, DeleteStep(p)
      PROVE  Moves
  <2>0. /\ name[p] \in Clusters /\ pc[p] \in Unloading /\ pc[p] # "idle"
        /\ config = Saved(mem[p]) /\ Tidy /\ TypeOK
    BY <1>3, DeleteOthers DEF TypeInv, Targets, Unloading, Undoings, SerialInv, ActsOnFile
  <2>1. CASE RollbackFinalize(p)
    <3>1. Writes(p, RecPhase(p, "creating"), mem[p].known, mem[p].used)
      BY <2>0, <2>1, PhaseWrites DEF RollbackFinalize, Save, Phases
    <3>2. config.data[name[p]].phase # "running"
      BY <2>0 DEF SerialInv, KnowsPhase
    <3>3. QED BY <2>0, <3>1, <3>2, RegistryPhase
  <2>2. CASE Removed(p)
    BY <2>0, <2>2, BootWrites, RegistryBoot DEF Removed
  <2>3. CASE RollbackAllocate(p) \/ RollbackRegister(p)
    BY <2>0, <2>3, RegistryRelease, RegistryUnregister
  <2>4. CASE FinishDelete(p)
    BY <2>0, <2>4, RegistryUnchanged DEF FinishDelete
  <2>5. QED
    BY <1>3, <2>1, <2>2, <2>3, <2>4, RegistryUnchanged DEF DeleteStep, LoadRollback, SkipUnrecorded,
       Drop, RollbackDone, WipeDir, RollbackWaitInstall, RollbackCreateVM, RollbackCreateNetwork,
       RollbackEmbedISO, RollbackEnsureDir, RollbackUpsertDNS, RollbackFails, files, local
<1>4. ASSUME NEW p \in Procs, LaunchStep(p) \/ StateUnreadable(p) \/ Crash(p)
      PROVE  Moves
  BY <1>4, RegistryUnchanged DEF LaunchStep, LaunchCreate, LaunchStart, LaunchStop, LaunchDelete,
     Launch, StateUnreadable, Crash, files
<1>5. CASE HostReboot \/ UNCHANGED vars
  BY <1>5, RegistryUnchanged DEF HostReboot, vars, files
<1>6. QED BY <1>1, <1>2, <1>3, <1>4, <1>5 DEF Moved

\* A torn config.json ends every command before it does anything.
TornInv == torn \in BOOLEAN /\ (torn => \A p \in Procs : pc[p] = "idle")

LEMMA StepRuns ==
  ASSUME TypeOK, NEW p \in Procs,
         CreateStep(p) \/ PowerStep(p) \/ DeleteStep(p) \/ StateUnreadable(p)
  PROVE  pc[p] # "idle"
  BY CreateOthers, PowerOthers, DeleteOthers
     DEF StateUnreadable, Creating, Starting, Stopping, Unloading, Applyings, Undoings

\* The commands that a kill ends: nobody else was running.
LEMMA TornEnds ==
  ASSUME TypeOK, Serial, TornInv, NEW P \in SUBSET Procs, NEW x \in BOOLEAN, Tears(P, x),
         HostReboot \/ \E p \in Procs : Crash(p)
  PROVE  TornInv' /\ config' = config /\ (torn => torn') /\ \A q \in Procs : pc'[q] = "idle"
<1>1. torn' \in BOOLEAN /\ (torn => torn')
  BY DEF Tears, TornInv
<1>2. CASE HostReboot
  BY <1>1, <1>2 DEF HostReboot, TornInv, files
<1>3. ASSUME NEW p \in Procs, Crash(p) PROVE \A q \in Procs : pc'[q] = "idle"
  <2>1. pc'[p] = "idle" /\ Others(p)
    BY <1>3, ExitIs DEF Crash
  <2>2. QED BY <1>3, <2>1 DEF Serial, Others, Crash
<1>4. QED BY <1>1, <1>2, <1>3 DEF TornInv, Crash, files

LEMMA TornStep == TypeInv /\ Serial /\ TornInv /\ [Next]_vars => TornInv'
<1> SUFFICES ASSUME TypeInv, Serial, TornInv, [Next]_vars PROVE TornInv'
  OBVIOUS
<1>0. TypeOK
  BY DEF TypeInv
<1>1. ASSUME NEW p \in Procs, LaunchStep(p) PROVE TornInv'
  BY <1>1 DEF LaunchStep, LaunchCreate, LaunchStart, LaunchStop, LaunchDelete, Launch, TornInv, damage
<1>2. ASSUME NEW p \in Procs, Step(p) PROVE TornInv'
  <2>1. pc[p] # "idle"
    BY <1>0, <1>2, StepRuns DEF Step
  <2>2. QED BY <1>2, <2>1 DEF Step, Mends, TornInv
<1>3. ASSUME NEW p \in Procs, Crash(p) PROVE TornInv'
  <2>1. Tears({p}, Saving(p)) /\ Saving(p) \in BOOLEAN
    BY <1>3 DEF Crash, Saving, Applying, Undoing
  <2>2. QED BY <1>0, <1>3, <2>1, TornEnds
<1>4. CASE HostReboot /\ Tears(Procs, \E p \in Procs : Saving(p))
  BY <1>0, <1>4, TornEnds
<1>5. CASE UNCHANGED vars
  BY <1>5 DEF vars, damage, TornInv
<1>6. QED BY <1>1, <1>2, <1>3, <1>4, <1>5 DEF Next, LoadConfigFails

\* A change by a command that finds the file whole and leaves it whole.
LEMMA RegistryWhole ==
  ASSUME Moves, torn = FALSE, torn' = FALSE
  PROVE  [Registry!Next]_(Registry!vars)
  BY DEF Moves, Registry!Next, Registry!vars, PhaseMap, AddrMap

\* The file is not written, or a kill leaves it half written.
LEMMA RegistryTorn ==
  ASSUME config' = config, torn \in BOOLEAN, torn' \in BOOLEAN, torn => torn'
  PROVE  [Registry!Next]_(Registry!vars)
<1>1. PhaseMap' = PhaseMap /\ AddrMap' = AddrMap /\ config'.used = config.used
  BY DEF PhaseMap, AddrMap, Addr
<1>2. CASE torn' = torn
  BY <1>1, <1>2 DEF Registry!vars, PhaseMap, AddrMap
<1>3. CASE ~torn /\ torn'
  BY <1>1, <1>3 DEF Registry!Next, Registry!Ruin, PhaseMap, AddrMap
<1>4. QED BY <1>2, <1>3

LEMMA RegistryStep ==
  ASSUME TypeInv, Roles, AddressInv, SerialInv, Serial, TornInv, [Next]_vars
  PROVE  [Registry!Next]_(Registry!vars)
<1>0. TypeOK /\ torn \in BOOLEAN /\ torn' \in BOOLEAN
  BY TornStep DEF TypeInv, TornInv
<1>1. ASSUME NEW p \in Procs, LaunchStep(p)
      PROVE  [Registry!Next]_(Registry!vars)
  BY <1>0, <1>1, RegistryTorn DEF LaunchStep, LaunchCreate, LaunchStart, LaunchStop, LaunchDelete,
     Launch, files, damage
<1>2. ASSUME NEW p \in Procs, Step(p)
      PROVE  [Registry!Next]_(Registry!vars)
  <2>1. pc[p] # "idle"
    BY <1>0, <1>2, StepRuns DEF Step
  <2>2. torn = FALSE /\ torn' = FALSE
    BY <1>2, <2>1 DEF Step, Mends, TornInv
  <2>3. QED BY <2>2, NextMoves, RegistryMoves, RegistryWhole
<1>3. ASSUME NEW p \in Procs, Crash(p)
      PROVE  [Registry!Next]_(Registry!vars)
  BY <1>0, <1>3, RegistryTorn DEF Crash, Tears, files
<1>4. CASE HostReboot /\ Tears(Procs, \E p \in Procs : Saving(p))
  BY <1>0, <1>4, RegistryTorn DEF HostReboot, Tears, files
<1>5. CASE UNCHANGED vars
  BY <1>0, <1>5, RegistryTorn DEF vars, files, damage
<1>6. QED BY <1>1, <1>2, <1>3, <1>4, <1>5 DEF Next, LoadConfigFails

LEMMA SerialInvariant == Spec /\ []Serial => [](TypeInv /\ PrefixInv /\ AddressInv /\ Roles /\ SerialInv)
  BY TypeInit, TypeStep, PrefixInit, PrefixStep, AddressInit, AddressStep, SerialInit, RolesStep,
     SerialStep, NextMoves, PTL DEF Spec

\* With one command at a time config.json moves only as ClusterRegistry
\* allows: a phase and an address change by one of its actions, an address is
\* assigned free and given back by its owner, whatever crashes or fails, until
\* a kill in the middle of a write makes the file unreadable for good.
THEOREM RegistryImplemented == Spec /\ []Serial => RegistrySpec
<1>1. TypeInv /\ Roles /\ AddressInv /\ SerialInv /\ Serial /\ TornInv /\ [Next]_vars
        => [Registry!Next]_(Registry!vars)
  BY RegistryStep
<1>2. Init => TornInv
  BY DEF Init, TornInv
<1>3. QED BY SerialInvariant, RegistryInit, TornStep, <1>1, <1>2, PTL
      DEF Spec, RegistrySpec, Registry!Spec

-----------------------------------------------------------------------------
(* The registry by itself: Assign takes an address outside reserved, so      *)
(* outside the addresses owned, and an owned address leaves reserved only    *)
(* with its owner (Unassign, which needs it to be the only owner).           *)

RegistryInv ==
  /\ PhaseMap \in [Clusters -> {"absent", "creating", "running", "stopped"}]
  /\ AddrMap \in [Clusters -> Pool \cup {NoIP}]
  /\ config.used \subseteq Pool /\ torn \in BOOLEAN
  /\ \A c \in Clusters : AddrMap[c] # NoIP => AddrMap[c] \in config.used
  /\ \A c, d \in Clusters : c # d /\ AddrMap[c] # NoIP => AddrMap[c] # AddrMap[d]

LEMMA RegistryInvIs == RegistryInv <=> Registry!RegistryTypeOK /\ Registry!NeverCollide
  BY DEF RegistryInv, Registry!RegistryTypeOK, Registry!NeverCollide, Registry!Phase, PhaseMap, AddrMap

LEMMA AbstractInit == Registry!Init => RegistryInv
  BY RegistryInvIs DEF Registry!Init, Registry!RegistryTypeOK, Registry!NeverCollide, Registry!Phase

LEMMA AbstractMove ==
  ASSUME RegistryInv, NEW c \in Clusters, NEW from,
         NEW to \in {"absent", "creating", "running", "stopped"}, Registry!Move(c, from, to),
         torn' \in BOOLEAN
  PROVE  RegistryInv'
<1>1. PhaseMap' = [PhaseMap EXCEPT ![c] = to] /\ AddrMap' = AddrMap /\ config'.used = config.used
  BY DEF Registry!Move, PhaseMap, AddrMap
<1>2. QED BY <1>1 DEF RegistryInv

LEMMA AbstractStep == RegistryInv /\ [Registry!Next]_(Registry!vars) => RegistryInv'
<1> SUFFICES ASSUME RegistryInv, [Registry!Next]_(Registry!vars) PROVE RegistryInv'
  OBVIOUS
<1>0. torn' \in BOOLEAN
  BY DEF Registry!Next, Registry!Ruin, Registry!vars, RegistryInv
<1>1. ASSUME NEW c \in Clusters, NEW x \in Pool, Registry!Assign(c, x) PROVE RegistryInv'
  <2>1. /\ x \in Pool \ config.used /\ PhaseMap' = PhaseMap
        /\ AddrMap' = [AddrMap EXCEPT ![c] = x] /\ config'.used = config.used \cup {x}
    BY <1>1 DEF Registry!Assign, PhaseMap, AddrMap
  <2>2. QED BY <1>0, <2>1 DEF RegistryInv
<1>2. ASSUME NEW c \in Clusters, Registry!Unassign(c) PROVE RegistryInv'
  <2>1. /\ PhaseMap' = PhaseMap /\ AddrMap[c] # NoIP
        /\ AddrMap' = [AddrMap EXCEPT ![c] = NoIP] /\ config'.used = config.used \ {AddrMap[c]}
    BY <1>2 DEF Registry!Unassign, PhaseMap, AddrMap
  <2>2. QED BY <1>0, <2>1 DEF RegistryInv
<1>3. ASSUME NEW c \in Clusters, Registry!Forget(c) PROVE RegistryInv'
  <2>1. /\ PhaseMap' = [PhaseMap EXCEPT ![c] = "absent"]
        /\ AddrMap' = [AddrMap EXCEPT ![c] = NoIP] /\ config'.used = config.used
    BY <1>3 DEF Registry!Forget, PhaseMap, AddrMap
  <2>2. QED BY <1>0, <2>1 DEF RegistryInv
<1>4. ASSUME NEW x \in Pool, Registry!Lose(x) PROVE RegistryInv'
  <2>1. PhaseMap' = PhaseMap /\ AddrMap' = AddrMap /\ config'.used = config.used \cup {x}
    BY <1>4 DEF Registry!Lose, PhaseMap, AddrMap
  <2>2. QED BY <1>0, <2>1 DEF RegistryInv
<1>5. ASSUME NEW S \in SUBSET config.used, Registry!Reclaim(S) PROVE RegistryInv'
  <2>1. /\ PhaseMap' = PhaseMap /\ AddrMap' = AddrMap /\ config'.used = config.used \ S
        /\ \A c \in Clusters : AddrMap[c] \notin S
    BY <1>5 DEF Registry!Reclaim, PhaseMap, AddrMap
  <2>2. QED BY <1>0, <2>1 DEF RegistryInv
<1>6. ASSUME NEW c \in Clusters,
             Registry!Register(c) \/ Registry!Finish(c) \/ Registry!Halt(c) \/ Registry!Unwind(c)
      PROVE  RegistryInv'
  BY <1>0, <1>6, AbstractMove DEF Registry!Register, Registry!Finish, Registry!Halt, Registry!Unwind
<1>7. CASE UNCHANGED Registry!vars \/ Registry!Ruin
  <2>1. PhaseMap' = PhaseMap /\ AddrMap' = AddrMap /\ config'.used = config.used
    BY <1>7 DEF Registry!vars, Registry!Ruin, PhaseMap, AddrMap
  <2>2. QED BY <1>0, <2>1 DEF RegistryInv
<1>8. QED BY <1>1, <1>2, <1>3, <1>4, <1>5, <1>6, <1>7 DEF Registry!Next, Registry!Change

\* What the registry promises by itself: types, and that no pool address is
\* owned by two clusters while every owned address is reserved, for any number
\* of clusters and addresses (configuration.md: "so NAT clusters never
\* collide").
THEOREM RegistryNeverCollides ==
  RegistrySpec => [](Registry!RegistryTypeOK /\ Registry!NeverCollide)
  BY AbstractInit, AbstractStep, RegistryInvIs, PTL DEF RegistrySpec, Registry!Spec

\* Serial is no restriction when there is one process, as in the runs that check
\* the properties below: everything proved under it holds of that process.
THEOREM OneProcessIsSerial ==
  ASSUME NEW u, Procs = {u}
  PROVE  Spec => []Serial
<1>1. Serial
  BY DEF Serial
<1>2. QED BY <1>1, PTL

-----------------------------------------------------------------------------
(* What a command that runs alone does to config.json and to the host.       *)
(*                                                                           *)
(* Each property has an invariant of its own, which says what holds between  *)
(* the effect of a stage and its record in state.json, and in the half of a  *)
(* rollback that state.json no longer tells of.  The proof that a step keeps *)
(* it has the same shape every time: a Close lemma reduces the invariant to  *)
(* the target of the step (Elsewhere: nothing of another cluster changes),   *)
(* then one lemma each for the steps of create, of start and stop, and of    *)
(* delete, and Environment for the rest.                                     *)

-----------------------------------------------------------------------------
(* How a command that runs alone changes config.json, field by field.        *)

SameBut(n) == \A c \in Clusters \ {n} :
  config'.data[c] = config.data[c] /\ (c \in config'.known <=> c \in config.known)

\* The record of the registered cluster n keeps all fields but those in F.
Keeps(n, F) ==
  /\ SameBut(n)
  /\ n \in config.known <=> n \in config'.known
  /\ n \notin config.known => config'.data[n] = config.data[n]
  /\ n \in config.known =>
       /\ "phase" \in F \/ config'.data[n].phase = config.data[n].phase
       /\ "ip" \in F \/ config'.data[n].ip = config.data[n].ip
       /\ "domain" \in F \/ config'.data[n].domain = config.data[n].domain
       /\ "boot" \in F \/ config'.data[n].boot = config.data[n].boot

Alone(p, n) == TypeInv /\ SerialInv /\ pc[p] # "idle" /\ name[p] = n

LEMMA AloneIs ==
  ASSUME NEW p \in Procs, NEW n \in Clusters, Alone(p, n)
  PROVE  /\ TypeOK /\ Tidy /\ config = Saved(mem[p]) /\ Rec(p) \in Records
         /\ config.known = mem[p].known /\ config.used = mem[p].used
         /\ n \in config.known => config.data[n] = Rec(p)
         /\ n \notin config.known => config.data[n] = Blank
  BY CopyIs, RecordTypes DEF Alone, TypeInv, SerialInv, ActsOnFile, Tidy

LEMMA KeepsAll ==
  ASSUME NEW n \in Clusters, config' = config
  PROVE  \A F : Keeps(n, F)
  BY DEF Keeps, SameBut

\* A write that neither registers nor deregisters.
LEMMA WritesKeeps ==
  ASSUME NEW p \in Procs, NEW n \in Clusters, Alone(p, n),
         NEW r, NEW U, Writes(p, r, mem[p].known, U), NEW F,
         "phase" \in F \/ r.phase = Rec(p).phase, "ip" \in F \/ r.ip = Rec(p).ip,
         "domain" \in F \/ r.domain = Rec(p).domain, "boot" \in F \/ r.boot = Rec(p).boot
  PROVE  /\ Keeps(n, F) /\ config'.used = U /\ config'.known = config.known
         /\ n \in config.known => config'.data[n] = r
<1>1. /\ config'.known = mem[p].known /\ config'.used = U
      /\ n \in mem[p].known => config'.data[n] = r
      /\ n \notin mem[p].known => config'.data[n] = Blank
      /\ \A c \in Clusters \ {n} :
           config'.data[c] = config.data[c] /\ (c \in mem[p].known <=> c \in config.known)
  BY AloneIs, WritesIs DEF Alone
<1>2. QED BY <1>1, AloneIs DEF Keeps, SameBut

LEMMA RegisterFile ==
  ASSUME NEW p \in Procs, NEW n \in Clusters, Alone(p, n), ApplyRegister(p)
  PROVE  \/ config' = config
         \/ /\ n \notin config.known /\ config'.known = config.known \cup {n}
            /\ SameBut(n) /\ config'.used = config.used
            /\ config'.data[n] = [Blank EXCEPT !.phase = "creating"]
<1>1. CASE n \in mem[p].known
  BY <1>1 DEF ApplyRegister, Alone
<1>2. CASE n \notin mem[p].known
  <2>1. mem[p] = config
    BY DEF Alone, SerialInv, ActsOnFile, ApplyRegister, Applying
  <2>2. Rec(p) = Blank
    BY <1>2, <2>1, AloneIs DEF Alone, Rec
  <2>3. PICK r, K, U : /\ r = [Blank EXCEPT !.phase = "creating"] /\ K = config.known \cup {n}
                       /\ U = config.used /\ Writes(p, r, K, U)
    BY <1>2, <2>2, AloneIs, RegisterWrites DEF Alone, RecPhase
  <2>4. QED BY <1>2, <2>3, AloneIs, WritesIs DEF Alone, SameBut
<1>3. QED BY <1>1, <1>2

LEMMA AllocateFile ==
  ASSUME NEW p \in Procs, NEW n \in Clusters, Alone(p, n), ApplyAllocate(p)
  PROVE  \/ config' = config /\ (n \in config.known => config.data[n].ip # NoIP)
         \/ /\ Keeps(n, {"ip", "domain"}) /\ config'.known = config.known
            /\ n \in config.known => config.data[n].ip = NoIP
            /\ \/ /\ ~NAT(n) /\ config'.used = config.used
                  /\ n \in config.known => config'.data[n].ip = MasterIP[n]
               \/ \E x \in Pool \ config.used :
                    /\ NAT(n) /\ config'.used = config.used \cup {x}
                    /\ n \in config.known =>
                         /\ config'.data[n].ip = x
                         /\ config'.data[n].domain =
                              IF config.data[n].domain = NoIP THEN x ELSE config.data[n].domain
<1>1. CASE Rec(p).ip # NoIP /\ UNCHANGED <<config, mem>>
  BY <1>1, AloneIs
<1>2. ASSUME Rec(p).ip = NoIP, NAT(n), NEW x \in Pool \ mem[p].used,
             Writes(p, WithAddress(Rec(p), x), mem[p].known, mem[p].used \cup {x})
      PROVE  /\ Keeps(n, {"ip", "domain"}) /\ config'.known = config.known
             /\ config'.used = config.used \cup {x} /\ x \in Pool \ config.used
             /\ n \in config.known =>
                  /\ config.data[n].ip = NoIP
                  /\ config'.data[n].ip = x
                  /\ config'.data[n].domain =
                       IF config.data[n].domain = NoIP THEN x ELSE config.data[n].domain
  <2>1. PICK r, U : /\ r.phase = Rec(p).phase /\ r.boot = Rec(p).boot /\ r.ip = x
                    /\ r.domain = (IF Rec(p).domain = NoIP THEN x ELSE Rec(p).domain)
                    /\ U = config.used \cup {x} /\ Writes(p, r, mem[p].known, U)
    BY <1>2, AloneIs DEF WithAddress, Records
  <2>2. QED BY <1>2, <2>1, AloneIs, WritesKeeps
<1>3. ASSUME Rec(p).ip = NoIP, ~NAT(n),
             Writes(p, [Rec(p) EXCEPT !.ip = MasterIP[n]], mem[p].known, mem[p].used)
      PROVE  /\ Keeps(n, {"ip", "domain"}) /\ config'.known = config.known
             /\ config'.used = config.used
             /\ n \in config.known => config.data[n].ip = NoIP /\ config'.data[n].ip = MasterIP[n]
  <2>1. PICK r, U : /\ r.phase = Rec(p).phase /\ r.boot = Rec(p).boot /\ r.ip = MasterIP[n]
                    /\ U = config.used /\ Writes(p, r, mem[p].known, U)
    BY <1>3, AloneIs DEF Records
  <2>2. QED BY <1>3, <2>1, AloneIs, WritesKeeps
<1>4. name[p] = n /\ n \in Clusters /\ TypeInv
  BY DEF Alone
<1>5. \/ Rec(p).ip # NoIP /\ UNCHANGED <<config, mem>>
      \/ /\ Rec(p).ip = NoIP /\ NAT(n)
         /\ \E x \in Pool \ mem[p].used :
              Writes(p, WithAddress(Rec(p), x), mem[p].known, mem[p].used \cup {x})
      \/ /\ Rec(p).ip = NoIP /\ ~NAT(n)
         /\ Writes(p, [Rec(p) EXCEPT !.ip = MasterIP[n]], mem[p].known, mem[p].used)
  BY <1>4, AllocateWrites
<1>6. QED BY <1>1, <1>2, <1>3, <1>5

LEMMA BootFile ==
  ASSUME NEW p \in Procs, NEW n \in Clusters, Alone(p, n), NEW b \in BOOLEAN,
         Save(p, WithRec(p, [Rec(p) EXCEPT !.boot = b]))
  PROVE  /\ Keeps(n, {"boot"}) /\ config'.used = config.used /\ config'.known = config.known
         /\ n \in config.known => config'.data[n].boot = b
<1>1. PICK r, U : /\ r.phase = Rec(p).phase /\ r.ip = Rec(p).ip /\ r.domain = Rec(p).domain
                  /\ r.boot = b /\ U = config.used /\ Writes(p, r, mem[p].known, U)
  BY AloneIs, BootWrites DEF Records, Alone
<1>2. QED BY <1>1, WritesKeeps

LEMMA PhaseFile ==
  ASSUME NEW p \in Procs, NEW n \in Clusters, Alone(p, n), NEW ph \in Phases,
         config' = Saved(SetPhase(p, ph)),
         mem' = [mem EXCEPT ![p] = SetPhase(p, ph)] \/ Exit(p)
  PROVE  /\ Keeps(n, {"phase"}) /\ config'.used = config.used /\ config'.known = config.known
         /\ n \in config.known => config'.data[n].phase = ph
<1>1. PICK r, U : /\ r.boot = Rec(p).boot /\ r.ip = Rec(p).ip /\ r.domain = Rec(p).domain
                  /\ r.phase = ph /\ U = config.used /\ Writes(p, r, mem[p].known, U)
  BY AloneIs, PhaseWrites DEF Records, Alone, RecPhase
<1>2. QED BY <1>1, WritesKeeps

LEMMA ReleaseFile ==
  ASSUME NEW p \in Procs, NEW n \in Clusters, Alone(p, n), RollbackAllocate(p)
  PROVE  /\ n \in config.known /\ Keeps(n, {"ip"}) /\ config'.known = config.known
         /\ config'.data[n].ip = NoIP /\ config'.used = config.used \ {config.data[n].ip}
<1>1. PICK r, U : /\ r.boot = Rec(p).boot /\ r.phase = Rec(p).phase /\ r.domain = Rec(p).domain
                  /\ r.ip = NoIP /\ U = config.used \ {Rec(p).ip} /\ Writes(p, r, mem[p].known, U)
  BY AloneIs, ReleaseWrites DEF Records, Alone
<1>2. n \in config.known
  <2>1. pc[p] = "rollback" /\ at[p] = Allocate
    BY DEF RollbackAllocate, Undoing
  <2>2. QED BY <2>1 DEF Alone, SerialInv, KnowsPhase, Unwinding, Undoings, Allocate, Register
<1>3. /\ Keeps(n, {"ip"}) /\ config'.used = U /\ config'.known = config.known
      /\ n \in config.known => config'.data[n] = r
  <2>1. /\ r.boot = Rec(p).boot /\ r.phase = Rec(p).phase /\ r.domain = Rec(p).domain
        /\ Writes(p, r, mem[p].known, U)
    BY <1>1
  <2>2. QED BY <2>1, WritesKeeps
<1>4. QED BY <1>1, <1>2, <1>3, AloneIs

LEMMA UnregisterFile ==
  ASSUME NEW p \in Procs, NEW n \in Clusters, Alone(p, n), RollbackRegister(p)
  PROVE  /\ SameBut(n) /\ n \notin config'.known /\ config'.data[n] = Blank
         /\ config'.used = config.used
<1>1. PICK r, K, U : n \notin K /\ U = config.used /\ Writes(p, r, K, U)
  BY AloneIs, UnregisterWrites DEF Alone
<1>2. QED BY <1>1, AloneIs, WritesIs DEF Alone, SameBut

\* Every step of a create, and what it does to config.json.
CreateFile(p, n) ==
  \/ config' = config
  \/ ApplyRegister(p) /\ n \notin config.known
  \/ ApplyAllocate(p) /\ Keeps(n, {"ip", "domain"})
  \/ Imported(p) /\ Keeps(n, {"boot"}) /\ config'.used = config.used
  \/ /\ ApplyFinalize(p) \/ Reassert(p)
     /\ Keeps(n, {"phase"}) /\ config'.used = config.used
     /\ n \in config.known => config'.data[n].phase = "running"

LEMMA CreateFiles ==
  ASSUME NEW p \in Procs, NEW n \in Clusters, Alone(p, n), CreateStep(p)
  PROVE  CreateFile(p, n)
<1>1. CASE ApplyRegister(p)
  BY <1>1, RegisterFile DEF CreateFile
<1>2. CASE ApplyAllocate(p)
  BY <1>2, AllocateFile DEF CreateFile
<1>3. CASE Imported(p)
  BY <1>3, BootFile DEF CreateFile, Imported
<1>4. CASE ApplyFinalize(p)
  BY <1>4, PhaseFile DEF CreateFile, ApplyFinalize, Save, Phases
<1>5. CASE Reassert(p)
  BY <1>5, PhaseFile DEF CreateFile, Reassert, Phases
<1>6. QED
  BY <1>1, <1>2, <1>3, <1>4, <1>5 DEF CreateFile, CreateStep, LoadState, SkipApplied, Record,
     ApplyDone, PoolExhausted, ApplyUpsertDNS, ApplyEnsureDir, ApplyEmbedISO, ApplyCreateNetwork,
     ApplyCreateVM, ApplyWaitInstall, ApplyRefused, ApplyFails, files

PowerFile(p, n) ==
  \/ config' = config
  \/ /\ Started(p) /\ Keeps(n, {"phase"}) /\ config'.used = config.used
     /\ n \in config.known => config'.data[n].phase = "running"
  \/ /\ MarkStopped(p) /\ Keeps(n, {"phase"}) /\ config'.used = config.used
     /\ n \in config.known => config'.data[n].phase = "stopped"

LEMMA PowerFiles ==
  ASSUME NEW p \in Procs, NEW n \in Clusters, Alone(p, n), PowerStep(p)
  PROVE  PowerFile(p, n)
<1>1. CASE Started(p)
  BY <1>1, PhaseFile DEF PowerFile, Started, Phases
<1>2. CASE MarkStopped(p)
  BY <1>2, PhaseFile DEF PowerFile, MarkStopped, Save, Phases
<1>3. QED
  BY <1>1, <1>2 DEF PowerFile, PowerStep, Boot, BootRefused, BootFails, Halt, HaltFails, files

DeleteFile(p, n) ==
  \/ config' = config
  \/ /\ RollbackFinalize(p) /\ Keeps(n, {"phase"}) /\ config'.used = config.used
     /\ n \in config.known => config'.data[n].phase = "creating"
  \/ Removed(p) /\ Keeps(n, {"boot"}) /\ config'.used = config.used
  \/ RollbackAllocate(p) /\ Keeps(n, {"ip"})
  \/ RollbackRegister(p) /\ SameBut(n) /\ n \notin config'.known

LEMMA DeleteFiles ==
  ASSUME NEW p \in Procs, NEW n \in Clusters, Alone(p, n), DeleteStep(p)
  PROVE  DeleteFile(p, n)
<1>1. CASE RollbackFinalize(p)
  BY <1>1, PhaseFile DEF DeleteFile, RollbackFinalize, Save, Phases
<1>2. CASE Removed(p)
  BY <1>2, BootFile DEF DeleteFile, Removed
<1>3. CASE RollbackAllocate(p)
  BY <1>3, ReleaseFile DEF DeleteFile
<1>4. CASE RollbackRegister(p)
  BY <1>4, UnregisterFile DEF DeleteFile
<1>5. CASE FinishDelete(p)
  BY <1>5, AloneIs DEF DeleteFile, FinishDelete
<1>6. QED
  BY <1>1, <1>2, <1>3, <1>4, <1>5 DEF DeleteFile, DeleteStep, LoadRollback, SkipUnrecorded, Drop,
     RollbackDone, WipeDir, RollbackWaitInstall, RollbackCreateVM, RollbackCreateNetwork,
     RollbackEmbedISO, RollbackEnsureDir, RollbackUpsertDNS, RollbackFails, files, local

\* Nothing of another cluster changes: record, state.json, host resources.
Elsewhere(n) ==
  /\ SameBut(n)
  /\ \A c \in Clusters \ {n} :
       /\ state'[c] = state[c] /\ vm'[c] = vm[c] /\ iso'[c] = iso[c]
  /\ \A r \in Clusters \X Nat : r[1] # n => (r \in resv' <=> r \in resv)

LEMMA ElsewhereCreate ==
  ASSUME NEW p \in Procs, NEW n \in Clusters, Alone(p, n), CreateStep(p)
  PROVE  Elsewhere(n)
<1>1. SameBut(n)
  BY CreateFiles, RegisterFile DEF CreateFile, Keeps, SameBut
<1>2. TypeOK /\ name[p] = n
  BY DEF Alone, TypeInv
<1>3. \/ UNCHANGED state \/ \E S : state' = [state EXCEPT ![n] = S]
  BY <1>2 DEF CreateStep, LoadState, SkipApplied, Record, ApplyDone, Reassert, ApplyRegister,
     ApplyAllocate, PoolExhausted, ApplyUpsertDNS, ApplyEnsureDir, ApplyEmbedISO, Imported,
     ApplyCreateNetwork, ApplyCreateVM, ApplyWaitInstall, ApplyFinalize, ApplyRefused, ApplyFails,
     Applied, files
<1>4. \/ UNCHANGED host \/ \E v : SetVM(n, v)
      \/ \E a : ImportISO(n, a) \/ \E ip : AddHost(n, ip)
  BY <1>2 DEF CreateStep, LoadState, SkipApplied, Record, ApplyDone, Reassert, ApplyRegister,
     ApplyAllocate, PoolExhausted, ApplyUpsertDNS, ApplyEnsureDir, ApplyEmbedISO, Imported,
     ApplyCreateNetwork, ApplyCreateVM, ApplyWaitInstall, ApplyFinalize, ApplyRefused, ApplyFails
<1>5. \A c \in Clusters \ {n} : state'[c] = state[c]
  BY <1>2, <1>3 DEF TypeOK
<1>6. /\ \A c \in Clusters \ {n} : vm'[c] = vm[c] /\ iso'[c] = iso[c]
      /\ \A r \in Clusters \X Nat : r[1] # n => (r \in resv' <=> r \in resv)
  BY <1>2, <1>4 DEF TypeOK, host, SetVM, ImportISO, AddHost
<1>7. QED BY <1>1, <1>5, <1>6 DEF Elsewhere

LEMMA ElsewherePower ==
  ASSUME NEW p \in Procs, NEW n \in Clusters, Alone(p, n), PowerStep(p)
  PROVE  Elsewhere(n)
<1>1. SameBut(n)
  BY PowerFiles DEF PowerFile, Keeps, SameBut
<1>2. TypeOK /\ name[p] = n
  BY DEF Alone, TypeInv
<1>3. UNCHANGED state /\ (UNCHANGED host \/ \E v : SetVM(n, v))
  BY <1>2 DEF PowerStep, Boot, BootRefused, BootFails, Started, Halt, HaltFails, MarkStopped, files
<1>4. QED BY <1>1, <1>2, <1>3 DEF TypeOK, host, SetVM, Elsewhere

LEMMA ElsewhereDelete ==
  ASSUME NEW p \in Procs, NEW n \in Clusters, Alone(p, n), DeleteStep(p)
  PROVE  Elsewhere(n)
<1>1. SameBut(n)
  BY DeleteFiles DEF DeleteFile, Keeps, SameBut
<1>2. TypeOK /\ name[p] = n
  BY DEF Alone, TypeInv
<1>3. \/ UNCHANGED state \/ \E S : state' = [state EXCEPT ![n] = S]
  BY <1>2 DEF DeleteStep, LoadRollback, SkipUnrecorded, Drop, RollbackDone, WipeDir, FinishDelete,
     RollbackFinalize, RollbackWaitInstall, RollbackCreateVM, RollbackCreateNetwork, RollbackEmbedISO,
     Removed, RollbackEnsureDir, RollbackUpsertDNS, RollbackAllocate, RollbackRegister, RollbackFails,
     files
<1>4. \/ UNCHANGED host \/ (\E v : SetVM(n, v)) \/ (\E a : ImportISO(n, a))
      \/ /\ \E v, a : vm' = [vm EXCEPT ![n] = v] /\ (UNCHANGED iso \/ iso' = [iso EXCEPT ![n] = a])
         /\ UNCHANGED <<resv>>
      \/ (\E a : resv' = resv \ {<<n, a>>}) /\ UNCHANGED <<vm, iso>>
  BY <1>2 DEF DeleteStep, LoadRollback, SkipUnrecorded, Drop, RollbackDone, WipeDir, FinishDelete,
     RollbackFinalize, RollbackWaitInstall, RollbackCreateVM, RollbackCreateNetwork, RollbackEmbedISO,
     Removed, RollbackEnsureDir, RollbackUpsertDNS, RollbackAllocate, RollbackRegister, RollbackFails
<1>5. \A c \in Clusters \ {n} : state'[c] = state[c]
  BY <1>2, <1>3 DEF TypeOK
<1>6. /\ \A c \in Clusters \ {n} : vm'[c] = vm[c] /\ iso'[c] = iso[c]
      /\ \A r \in Clusters \X Nat : r[1] # n => (r \in resv' <=> r \in resv)
  BY <1>2, <1>4 DEF TypeOK, host, SetVM, ImportISO
<1>7. QED BY <1>1, <1>5, <1>6 DEF Elsewhere

\* Between the effect of a stage and its record in state.json.
InFlight(c, s) == \E p \in Procs : name[p] = c /\ pc[p] \in {"imported", "record"} /\ at[p] = s

\* A command that runs alone is at work on its target only.
LEMMA OnlyTarget ==
  ASSUME Roles, Serial, NEW p \in Procs, NEW n \in Clusters, pc[p] # "idle", name[p] = n
  PROVE  /\ \A c \in Clusters \ {n} : ~Deleting(c) /\ \A s : ~InFlight(c, s)
         /\ Deleting(n) <=> cmd[p] = "delete"
         /\ \A s : InFlight(n, s) <=> pc[p] \in {"imported", "record"} /\ at[p] = s
         /\ \A q \in Procs \ {p} : pc[q] = "idle" /\ cmd[q] = "none"
<1>1. \A q \in Procs \ {p} : pc[q] = "idle" /\ cmd[q] = "none"
  BY DEF Serial, Roles
<1>2. QED BY <1>1 DEF Deleting, InFlight

\* Steps other than those of a command under way: one begins, one is killed or
\* cannot read its state.json, the host reboots, nothing happens.
LEMMA Environment ==
  ASSUME TypeInv, Roles, Moved, \A p \in Procs : ~CreateStep(p) /\ ~PowerStep(p) /\ ~DeleteStep(p)
  PROVE  /\ config' = config /\ state' = state /\ iso' = iso /\ resv' = resv
         /\ faults' = faults /\ cut \subseteq cut'
         /\ \A c \in Clusters : vm'[c] \in {vm[c], PoweredOff(vm[c])}
         /\ \A q \in Procs :
              \/ pc'[q] = "idle" /\ (mem'[q] = EmptyConfig \/ (pc[q] = "idle" /\ mem'[q] = mem[q]))
              \/ pc[q] = "idle" /\ pc'[q] \in {"load", "boot", "halt", "unload"} /\ mem'[q] = config
              \/ /\ pc'[q] = pc[q] /\ cmd'[q] = cmd[q] /\ name'[q] = name[q]
                 /\ mem'[q] = mem[q] /\ done'[q] = done[q] /\ at'[q] = at[q]
         /\ \A q \in Procs : pc[q] # "idle" =>
              \/ cmd[q] \in cut'
              \/ pc[q] \in {"load", "unload"} /\ pc'[q] = "idle" /\ name[q] \in spoilt
              \/ /\ pc'[q] = pc[q] /\ cmd'[q] = cmd[q] /\ name'[q] = name[q]
                 /\ mem'[q] = mem[q] /\ done'[q] = done[q] /\ at'[q] = at[q]
<1>0. TypeOK
  BY DEF TypeInv
<1>1. ASSUME NEW p \in Procs, LaunchStep(p)
      PROVE  /\ UNCHANGED <<files, host, bounds>> /\ Others(p)
             /\ pc[p] = "idle" /\ pc'[p] \in {"load", "boot", "halt", "unload"} /\ mem'[p] = config
  BY <1>0, <1>1, LaunchIs
<1>2. ASSUME NEW p \in Procs, Crash(p)
      PROVE  /\ UNCHANGED <<files, host, faults>> /\ Others(p)
             /\ pc'[p] = "idle" /\ mem'[p] = EmptyConfig /\ cut' = cut \cup {cmd[p]}
  BY <1>0, <1>2, ExitIs DEF Crash
<1>3. ASSUME HostReboot
      PROVE  /\ UNCHANGED <<config, state, iso, resv, faults>>
             /\ vm' = [c \in Clusters |-> PoweredOff(vm[c])]
             /\ cut' = cut \cup {cmd[p] : p \in Procs}
             /\ \A q \in Procs : pc'[q] = "idle" /\ mem'[q] = EmptyConfig
  BY <1>3 DEF HostReboot, files
<1>4. CASE \E p \in Procs : LaunchStep(p)
  BY <1>1, <1>4 DEF Others, files, host, bounds
<1>5. CASE \E p \in Procs : Crash(p)
  BY <1>2, <1>5 DEF Others, files, host
<1>6. CASE HostReboot
  <2>1. \A q \in Procs : pc'[q] = "idle" /\ mem'[q] = EmptyConfig /\ cmd[q] \in cut'
    BY <1>3, <1>6
  <2>2. /\ UNCHANGED <<config, state, iso, resv, faults>> /\ cut \subseteq cut'
        /\ \A c \in Clusters : vm'[c] = PoweredOff(vm[c])
    BY <1>3, <1>6
  <2>3. QED BY <2>1, <2>2
<1>7. CASE UNCHANGED vars
  <2>1. UNCHANGED <<config, state, iso, resv, faults, cut, vm, pc, cmd, name, mem, done, at>>
    BY <1>7 DEF vars, files, host, local, bounds
  <2>2. QED BY <2>1
<1>8. CASE \E p \in Procs : StateUnreadable(p)
  <2>1. ASSUME NEW p \in Procs, StateUnreadable(p)
        PROVE  /\ UNCHANGED <<files, host, bounds>> /\ Others(p)
               /\ pc'[p] = "idle" /\ mem'[p] = EmptyConfig
               /\ pc[p] \in {"load", "unload"} /\ name[p] \in spoilt
    BY <1>0, <2>1, ExitIs DEF StateUnreadable
  <2>2. QED BY <1>8, <2>1 DEF Others, files, host, bounds
<1>9. QED BY <1>4, <1>5, <1>6, <1>7, <1>8 DEF Moved

\* Only the kill of a create or a delete leaves a state.json half written.
SpoiltInv == spoilt # {} => "create" \in cut \/ "delete" \in cut

LEMMA NotingRoles ==
  ASSUME Roles, NEW p \in Procs, Noting(p)
  PROVE  cmd[p] \in {"create", "delete"}
  BY DEF Noting, Roles, Creating, Unloading, Applyings, Undoings

LEMMA SpoiltByCommand ==
  ASSUME Roles, SpoiltInv, NEW p \in Procs, LaunchStep(p) \/ Step(p) \/ Crash(p)
  PROVE  SpoiltInv'
<1>1. CASE LaunchStep(p)
  BY <1>1 DEF LaunchStep, LaunchCreate, LaunchStart, LaunchStop, LaunchDelete, Launch, SpoiltInv,
     damage, bounds
<1>2. CASE Step(p)
  <2>1. cut' = cut
    BY <1>2 DEF Step, CreateStep, LoadState, SkipApplied, Record, ApplyDone, Reassert, ApplyRegister,
       ApplyAllocate, PoolExhausted, ApplyUpsertDNS, ApplyEnsureDir, ApplyEmbedISO, Imported,
       ApplyCreateNetwork, ApplyCreateVM, ApplyWaitInstall, ApplyFinalize, ApplyRefused, ApplyFails,
       Applied, PowerStep, Boot, BootRefused, BootFails, Started, Halt, HaltFails, MarkStopped,
       DeleteStep, LoadRollback, SkipUnrecorded, Drop, RollbackDone, WipeDir, FinishDelete,
       RollbackFinalize, RollbackWaitInstall, RollbackCreateVM, RollbackCreateNetwork,
       RollbackEmbedISO, Removed, RollbackEnsureDir, RollbackUpsertDNS, RollbackAllocate,
       RollbackRegister, RollbackFails, Undone, StateUnreadable, bounds
  <2>2. QED BY <1>2, <2>1 DEF Step, Mends, SpoiltInv
<1>3. CASE Crash(p)
  <2>1. PICK S \in SUBSET {q \in {p} : Noting(q)} : spoilt' = spoilt \cup {name[q] : q \in S}
    BY <1>3 DEF Crash, Tears
  <2>2. S # {} => cmd[p] \in {"create", "delete"} /\ cmd[p] \in cut'
    BY <1>3, <2>1, NotingRoles DEF Crash
  <2>3. cut \subseteq cut'
    BY <1>3 DEF Crash
  <2>4. QED BY <2>1, <2>2, <2>3 DEF SpoiltInv
<1>4. QED BY <1>1, <1>2, <1>3

LEMMA SpoiltByReboot ==
  ASSUME Roles, SpoiltInv, HostReboot, NEW x, Tears(Procs, x)
  PROVE  SpoiltInv'
<1>1. PICK S \in SUBSET {q \in Procs : Noting(q)} : spoilt' = spoilt \cup {name[q] : q \in S}
  BY DEF Tears
<1>2. cut \subseteq cut' /\ \A q \in S : cmd[q] \in {"create", "delete"} /\ cmd[q] \in cut'
  BY <1>1, NotingRoles DEF HostReboot
<1>3. QED BY <1>1, <1>2 DEF SpoiltInv

LEMMA SpoiltStep == Roles /\ SpoiltInv /\ [Next]_vars => SpoiltInv'
<1>1. UNCHANGED vars /\ SpoiltInv => SpoiltInv'
  BY DEF vars, damage, bounds, SpoiltInv
<1>2. QED BY <1>1, SpoiltByCommand, SpoiltByReboot DEF Next, LoadConfigFails

LEMMA SpoiltInit == Init => SpoiltInv
  BY DEF Init, SpoiltInv

LEMMA SpoiltInvariant == Spec /\ []Serial => []SpoiltInv
  BY SerialInvariant, SpoiltInit, SpoiltStep, PTL DEF Spec

-----------------------------------------------------------------------------
(* RecordIsTruthful, second half: a cluster that config.json shows running   *)
(* has a domain.  The phase is written on the strength of state.json, of the *)
(* boot just made, or of the install just seen.                              *)

Present(c) == vm[c].st # "absent"

VMInv ==
  /\ \A c \in Clusters : WaitInstall \in state[c] \/ PhaseOf(config, c) = "running" => Present(c)
  /\ \A p \in Procs :
       \/ pc[p] = "started"
       \/ pc[p] = "record" /\ at[p] = WaitInstall
       \/ pc[p] \in Undoings /\ WaitInstall \in done[p]
       => Present(name[p])

LEMMA VMInit == Init => VMInv
  BY DEF Init, VMInv, EmptyConfig, PhaseOf, Undoings

\* A step of p at n: what it must not do to n.
LEMMA VMClose ==
  ASSUME Roles, Serial, NEW p \in Procs, NEW n \in Clusters, Alone(p, n), VMInv,
         Others(p), Elsewhere(n), UNCHANGED name \/ Exit(p),
         WaitInstall \in state'[n] \/ PhaseOf(config', n) = "running" => vm'[n].st # "absent",
         \/ pc'[p] = "started"
         \/ pc'[p] = "record" /\ at'[p] = WaitInstall
         \/ pc'[p] \in Undoings /\ WaitInstall \in done'[p]
         => vm'[n].st # "absent"
  PROVE  VMInv'
<1>1. \A q \in Procs \ {p} : pc'[q] = "idle"
  BY OnlyTarget DEF Alone, Others
<1>2. \A c \in Clusters : WaitInstall \in state'[c] \/ PhaseOf(config', c) = "running" => vm'[c].st # "absent"
  BY DEF Elsewhere, SameBut, VMInv, Present, PhaseOf
<1>3. pc'[p] # "idle" => name'[p] = n
  BY ExitIs DEF Alone, TypeInv
<1>4. \A q \in Procs :
       \/ pc'[q] = "started"
       \/ pc'[q] = "record" /\ at'[q] = WaitInstall
       \/ pc'[q] \in Undoings /\ WaitInstall \in done'[q]
       => vm'[name'[q]].st # "absent"
  BY <1>1, <1>3 DEF Undoings
<1>5. QED BY <1>2, <1>4 DEF VMInv, Present, PhaseOf

LEMMA VMCreate ==
  ASSUME Roles, PrefixInv, Serial, NEW p \in Procs, NEW n \in Clusters, Alone(p, n), VMInv, CreateStep(p)
  PROVE  VMInv'
<1> USE DEF Creating, Applyings, Undoings
<1>0. /\ TypeOK /\ Others(p) /\ Elsewhere(n) /\ pc[p] \in Creating /\ (UNCHANGED name \/ Exit(p))
      /\ pc \in [Procs -> PCs] /\ vm \in [Clusters -> VMs] /\ state \in [Clusters -> SUBSET Stages]
      /\ KnowsState(p) /\ name[p] = n
  BY CreateOthers, ElsewhereCreate DEF Alone, TypeInv, TypeOK, SerialInv
<1>1. vm[n].st # "absent" => vm'[n].st # "absent"
  BY <1>0 DEF CreateStep, LoadState, SkipApplied, Record, ApplyDone, Reassert, ApplyRegister,
     ApplyAllocate, PoolExhausted, ApplyUpsertDNS, ApplyEnsureDir, ApplyEmbedISO, Imported,
     ApplyCreateNetwork, ApplyCreateVM, ApplyWaitInstall, ApplyFinalize, ApplyRefused, ApplyFails,
     host, SetVM, ImportISO, AddHost, Creatable, NewVM, InstalledVM, VMs
<1>2. WaitInstall \in state'[n] => vm'[n].st # "absent"
  <2>1. WaitInstall \in state'[n] => WaitInstall \in state[n] \/ (pc[p] = "record" /\ at[p] = WaitInstall)
    BY <1>0 DEF CreateStep, LoadState, SkipApplied, Record, ApplyDone, Reassert, ApplyRegister,
     ApplyAllocate, PoolExhausted, ApplyUpsertDNS, ApplyEnsureDir, ApplyEmbedISO, Imported,
     ApplyCreateNetwork, ApplyCreateVM, ApplyWaitInstall, ApplyFinalize, ApplyRefused, ApplyFails,
     Applied, files, KnowsState
  <2>2. QED BY <1>0, <1>1, <2>1 DEF VMInv, Present
<1>3. PhaseOf(config', n) = "running" => vm'[n].st # "absent"
  <2>1. CASE PhaseOf(config, n) = "running"
    BY <1>1, <2>1 DEF VMInv, Present
  <2>2. CASE ApplyFinalize(p) \/ Reassert(p)
    <3>1. WaitInstall \in done[p] /\ done[p] = state[n]
      <4>1. CASE ApplyFinalize(p)
        <5>1. pc[p] = "apply" /\ at[p] = 9
          BY <4>1 DEF ApplyFinalize, Applying, Finalize
        <5>2. 1..(at[p] - 1) \subseteq done[p]
          BY <5>1 DEF PrefixInv, CopyInOrder
        <5>3. QED BY <1>0, <5>1, <5>2 DEF KnowsState, WaitInstall
      <4>2. CASE Reassert(p)
        BY <1>0, <4>2 DEF Reassert, KnowsState, Stages, WaitInstall
      <4>3. QED BY <2>2, <4>1, <4>2
    <3>2. QED BY <1>1, <3>1 DEF VMInv, Present
  <2>3. CASE PhaseOf(config, n) # "running" /\ ~ApplyFinalize(p) /\ ~Reassert(p)
    <3>1. PhaseOf(config', n) # "running"
      <4>1. CASE ApplyRegister(p)
        BY <2>3, <4>1, RegisterFile DEF PhaseOf, Blank
      <4>2. CASE ~ApplyRegister(p)
        BY <2>3, <4>2, CreateFiles DEF CreateFile, Keeps, PhaseOf
      <4>3. QED BY <4>1, <4>2
    <3>2. QED BY <3>1
  <2>4. QED BY <2>1, <2>2, <2>3
<1>4. pc'[p] \notin Undoings \cup {"started"}
  BY <1>0, CreateRoles, ExitIs DEF Alone
<1>5. pc'[p] = "record" /\ at'[p] = WaitInstall => vm'[n].st # "absent"
  <2>1. CASE ApplyWaitInstall(p)
    BY <1>0, <2>1 DEF ApplyWaitInstall, SetVM, InstalledVM, VMs
  <2>2. CASE ~ApplyWaitInstall(p)
    BY <1>0, <2>2 DEF CreateStep, LoadState, SkipApplied, Record, ApplyDone, Reassert, ApplyRegister,
     ApplyAllocate, PoolExhausted, ApplyUpsertDNS, ApplyEnsureDir, ApplyEmbedISO, Imported,
     ApplyCreateNetwork, ApplyCreateVM, ApplyFinalize, ApplyRefused, ApplyFails, Applying, Applied, Goto,
     Exit, Register, Allocate, UpsertDNS, EnsureDir, EmbedISO, CreateNetwork, CreateVM, WaitInstall,
     Finalize, Roles
  <2>3. QED BY <2>1, <2>2
<1>6. QED BY <1>0, <1>2, <1>3, <1>4, <1>5, VMClose

LEMMA VMPower ==
  ASSUME Roles, Serial, NEW p \in Procs, NEW n \in Clusters, Alone(p, n), VMInv, PowerStep(p)
  PROVE  VMInv'
<1>0. /\ TypeOK /\ Others(p) /\ Elsewhere(n) /\ (UNCHANGED name \/ Exit(p))
      /\ pc \in [Procs -> PCs] /\ vm \in [Clusters -> VMs] /\ name[p] = n
  BY PowerOthers, ElsewherePower DEF Alone, TypeInv, TypeOK
<1>1. UNCHANGED state /\ (vm[n].st # "absent" => vm'[n].st # "absent")
  BY <1>0 DEF PowerStep, Boot, BootRefused, BootFails, Started, Halt, HaltFails, MarkStopped, files,
     host, SetVM, PoweredOff, VMs
<1>2. PhaseOf(config', n) = "running" => vm'[n].st # "absent"
  BY <1>0, <1>1, PowerFiles DEF PowerFile, Keeps, PhaseOf, VMInv, Present, Started
<1>3. pc'[p] \notin Undoings \cup {"record"} /\ (pc'[p] = "started" => vm'[n].st # "absent")
  <2>1. CASE Boot(p)
    BY <1>0, <2>1 DEF Boot, Goto, SetVM, VMs, Undoings
  <2>2. CASE ~Boot(p)
    BY <1>0, <2>2 DEF PowerStep, BootRefused, BootFails, Started, Halt, HaltFails, MarkStopped,
       Exit, Goto, Undoings
  <2>3. QED BY <2>1, <2>2
<1>4. QED BY <1>0, <1>1, <1>2, <1>3, VMClose DEF VMInv, Present

LEMMA VMDelete ==
  ASSUME Roles, PrefixInv, Serial, NEW p \in Procs, NEW n \in Clusters, Alone(p, n), VMInv, DeleteStep(p)
  PROVE  VMInv'
<1> USE DEF Unloading, Undoings
<1>0. /\ TypeOK /\ Others(p) /\ Elsewhere(n) /\ pc[p] \in Unloading /\ (UNCHANGED name \/ Exit(p))
      /\ pc \in [Procs -> PCs] /\ vm \in [Clusters -> VMs] /\ state \in [Clusters -> SUBSET Stages]
      /\ done \in [Procs -> SUBSET Stages] /\ at \in [Procs -> 0..10]
      /\ KnowsState(p) /\ KnowsPhase(p) /\ name[p] = n
      /\ (pc[p] \in Undoings => done[p] \subseteq 1..at[p])
  BY DeleteOthers, ElsewhereDelete DEF Alone, TypeInv, TypeOK, SerialInv, PrefixInv, CopyInOrder
<1>1. PhaseOf(config', n) # "running"
  BY <1>0, DeleteFiles, KeepsAll DEF DeleteFile, Keeps, PhaseOf, KnowsPhase
<1>2. CASE RollbackCreateVM(p)
  <2>1. /\ pc[p] = "rollback" /\ at[p] = 7 /\ pc'[p] = "drop" /\ UNCHANGED <<state, done, at>>
    BY <1>0, <1>2 DEF RollbackCreateVM, Undoing, Undone, Goto, CreateVM, files
  <2>2. WaitInstall \notin done[p] /\ WaitInstall \notin state[n]
    BY <1>0, <2>1 DEF KnowsState, WaitInstall
  <2>3. QED BY <1>0, <1>1, <2>1, <2>2, VMClose
<1>3. CASE ~RollbackCreateVM(p)
  <2>1. vm[n].st # "absent" => vm'[n].st # "absent"
    BY <1>0, <1>3 DEF DeleteStep, LoadRollback, SkipUnrecorded, Drop, RollbackDone, WipeDir, FinishDelete,
       RollbackFinalize, RollbackWaitInstall, RollbackCreateNetwork, RollbackEmbedISO, Removed,
       RollbackEnsureDir, RollbackUpsertDNS, RollbackAllocate, RollbackRegister, RollbackFails, host,
       SetVM, ImportISO, PoweredOff, VMs
  <2>2. WaitInstall \in state'[n] => WaitInstall \in state[n] \/ (pc[p] \in Undoings /\ WaitInstall \in done[p])
    BY <1>0, <1>3 DEF DeleteStep, LoadRollback, SkipUnrecorded, Drop, RollbackDone, WipeDir, FinishDelete,
       RollbackFinalize, RollbackWaitInstall, RollbackCreateNetwork, RollbackEmbedISO, Removed,
       RollbackEnsureDir, RollbackUpsertDNS, RollbackAllocate, RollbackRegister, RollbackFails, files
  <2>3. /\ pc'[p] \notin {"started", "record"}
        /\ pc'[p] \in Undoings /\ WaitInstall \in done'[p] =>
             WaitInstall \in state[n] \/ (pc[p] \in Undoings /\ WaitInstall \in done[p])
    BY <1>0, <1>3 DEF DeleteStep, LoadRollback, SkipUnrecorded, Drop, RollbackDone, WipeDir, FinishDelete,
       RollbackFinalize, RollbackWaitInstall, RollbackCreateNetwork, RollbackEmbedISO, Removed,
       RollbackEnsureDir, RollbackUpsertDNS, RollbackAllocate, RollbackRegister, RollbackFails, Undone,
       Undoing, Goto, Exit, files, local
  <2>4. QED BY <1>0, <1>1, <2>1, <2>2, <2>3, VMClose DEF VMInv, Present
<1>4. QED BY <1>2, <1>3

LEMMA VMStep ==
  ASSUME TypeInv, PrefixInv, Roles, Serial, SerialInv, VMInv, Moved
  PROVE  VMInv'
<1>1. ASSUME NEW p \in Procs, CreateStep(p) \/ PowerStep(p) \/ DeleteStep(p)
      PROVE  VMInv'
  <2>1. TypeOK
    BY DEF TypeInv
  <2>2. pc[p] # "idle"
    BY <1>1, <2>1, CreateOthers, PowerOthers, DeleteOthers
       DEF Creating, Starting, Stopping, Unloading, Applyings, Undoings
  <2>3. PICK n \in Clusters : name[p] = n
    BY <2>2 DEF TypeInv, Targets
  <2>4. QED BY <1>1, <2>2, <2>3, VMCreate, VMPower, VMDelete DEF Alone
<1>2. CASE \A p \in Procs : ~CreateStep(p) /\ ~PowerStep(p) /\ ~DeleteStep(p)
  <2>1. /\ config' = config /\ state' = state
        /\ \A c \in Clusters : vm'[c] \in {vm[c], PoweredOff(vm[c])}
        /\ \A q \in Procs : pc'[q] \in {"started", "record"} \cup Undoings =>
             pc'[q] = pc[q] /\ name'[q] = name[q] /\ done'[q] = done[q] /\ at'[q] = at[q]
    BY <1>2, Environment DEF Undoings
  <2>2. \A c \in Clusters : vm[c].st # "absent" => vm'[c].st # "absent"
    BY <2>1 DEF TypeInv, TypeOK, PoweredOff, VMs
  <2>3. ASSUME NEW c \in Clusters, WaitInstall \in state'[c] \/ PhaseOf(config', c) = "running"
        PROVE  vm'[c].st # "absent"
    BY <2>1, <2>2, <2>3 DEF VMInv, Present, PhaseOf
  <2>4. ASSUME NEW q \in Procs,
               \/ pc'[q] = "started"
               \/ pc'[q] = "record" /\ at'[q] = WaitInstall
               \/ pc'[q] \in Undoings /\ WaitInstall \in done'[q]
        PROVE  vm'[name'[q]].st # "absent"
    <3>1. pc[q] # "idle" /\ name[q] \in Clusters
      BY <2>1, <2>4 DEF Undoings, TypeInv, Targets
    <3>2. Present(name[q])
      BY <2>1, <2>4 DEF VMInv
    <3>3. QED BY <2>1, <2>2, <2>4, <3>1, <3>2 DEF Present
  <2>5. QED BY <2>3, <2>4 DEF VMInv, Present, PhaseOf
<1>3. QED BY <1>1, <1>2

-----------------------------------------------------------------------------
(* RecordIsTruthful, first half: what state.json records is in effect.       *)

\* A stage whose effect is made and which state.json does not record yet.
Recording(c, s) == \E p \in Procs : name[p] = c /\ pc[p] = "record" /\ at[p] = s
Importing(c) == \E p \in Procs : name[p] = c /\ pc[p] = "imported"

Sound(c) ==
  /\ \A s \in Stages : s \in state[c] \/ Recording(c, s) => Effect(c, s)
  /\ Importing(c) => iso[c] = config.data[c].ip

\* A delete that has read state.json.
TakingDown(c) ==
  \E p \in Procs : name[p] = c /\ cmd[p] = "delete" /\ pc[p] \notin {"halt", "stopped", "unload"}

TruthInv == "delete" \notin cut => \A c \in Clusters : ~TakingDown(c) => Sound(c)

LEMMA TruthInit == Init => TruthInv
  BY DEF Init, TruthInv, Sound, Recording, Importing

\* What the stages have left behind for another cluster stays.
LEMMA EffectElsewhere ==
  ASSUME NEW n \in Clusters, Elsewhere(n), NEW c \in Clusters \ {n}, NEW s
  PROVE  Effect(c, s) => Effect(c, s)'
  BY DEF Elsewhere, SameBut, Effect

\* A step of p at n: what it must make of n.
LEMMA TruthClose ==
  ASSUME TypeInv, Roles, Serial, NEW p \in Procs, NEW n \in Clusters, Alone(p, n), TruthInv,
         Others(p), Elsewhere(n), UNCHANGED <<cmd, name>> \/ Exit(p), cut \subseteq cut',
         /\ "delete" \notin cut'
         /\ cmd[p] = "delete" => Exit(p) \/ pc'[p] \in {"halt", "stopped", "unload"}
         => /\ \A s \in Stages : s \in state'[n] \/ (pc'[p] = "record" /\ at'[p] = s) => Effect(n, s)'
            /\ pc'[p] = "imported" => iso'[n] = config'.data[n].ip
  PROVE  TruthInv'
<1>1. SUFFICES ASSUME "delete" \notin cut', NEW c \in Clusters, ~TakingDown(c)'
               PROVE  Sound(c)'
  BY DEF TruthInv
<1>2. pc[p] # "idle" /\ name[p] = n /\ TypeOK
  BY DEF Alone, TypeInv
<1>3. /\ \A q \in Procs \ {p} : pc'[q] = "idle"
      /\ pc'[p] # "idle" => name'[p] = n /\ cmd'[p] = cmd[p]
  BY <1>2, OnlyTarget, ExitIs DEF Others
<1>4. CASE c = n
  <2>1. \A s : Recording(n, s)' => pc'[p] = "record" /\ at'[p] = s
    BY <1>3 DEF Recording
  <2>2. Importing(n)' => pc'[p] = "imported"
    BY <1>3 DEF Importing
  <2>3. cmd[p] = "delete" => Exit(p) \/ pc'[p] \in {"halt", "stopped", "unload"}
    BY <1>1, <1>2, <1>4 DEF TakingDown
  <2>4. QED BY <1>1, <1>4, <2>1, <2>2, <2>3 DEF Sound
<1>5. CASE c # n
  <2>1. \A s : ~Recording(c, s)' /\ ~Importing(c)'
    BY <1>3, <1>5 DEF Recording, Importing
  <2>2. ~TakingDown(c) /\ "delete" \notin cut
    BY <1>1, <1>2, <1>5, OnlyTarget DEF Deleting, TakingDown
  <2>3. \A s \in state[c] \cap Stages : Effect(c, s)
    BY <2>2 DEF TruthInv, Sound
  <2>4. state'[c] = state[c]
    BY <1>5 DEF Elsewhere
  <2>5. QED BY <1>5, <2>1, <2>3, <2>4, EffectElsewhere DEF Sound
<1>6. QED BY <1>4, <1>5

\* A create applies the first stage that state.json does not record.
LEMMA AppliesNext ==
  ASSUME PrefixInv, NEW p \in Procs, NEW n \in Clusters, Alone(p, n), NEW s \in Stages, Applying(p, s)
  PROVE  \A t \in Stages : t \in state[n] <=> t < s
<1>1. /\ done[p] = state[n] /\ at[p] = s /\ s \notin done[p] /\ s \in 1..9 /\ pc[p] \in Applyings
      /\ state[n] \in SUBSET Stages
  BY DEF Alone, SerialInv, KnowsState, Applying, Applyings, Stages, TypeInv, TypeOK
<1>2. 1..(s - 1) \subseteq done[p] /\ Prefix(state[n])
  BY <1>1 DEF PrefixInv, CopyInOrder, PrefixRecorded
<1>3. QED BY <1>1, <1>2 DEF Prefix, Stages

LEMMA TruthCreate ==
  ASSUME Roles, PrefixInv, Serial, NEW p \in Procs, NEW n \in Clusters, Alone(p, n), TruthInv, CreateStep(p)
  PROVE  TruthInv'
<1> USE DEF Creating, Applyings
<1>0. /\ TypeInv /\ TypeOK /\ Others(p) /\ Elsewhere(n) /\ pc[p] \in Creating
      /\ (UNCHANGED <<cmd, name>> \/ Exit(p)) /\ name[p] = n /\ cmd[p] = "create"
      /\ pc \in [Procs -> PCs] /\ at \in [Procs -> 0..10] /\ at[p] \in 0..10
      /\ state \in [Clusters -> SUBSET Stages] /\ done \in [Procs -> SUBSET Stages]
      /\ vm \in [Clusters -> VMs] /\ iso \in [Clusters -> Nat] /\ KnowsState(p)
  BY CreateOthers, ElsewhereCreate DEF Alone, TypeInv, TypeOK, SerialInv, Roles
<1>1. cut' = cut
  BY <1>0 DEF CreateStep, LoadState, SkipApplied, Record, ApplyDone, Reassert, ApplyRegister,
     ApplyAllocate, PoolExhausted, ApplyUpsertDNS, ApplyEnsureDir, ApplyEmbedISO, Imported,
     ApplyCreateNetwork, ApplyCreateVM, ApplyWaitInstall, ApplyFinalize, ApplyRefused, ApplyFails,
     Applied, bounds
<1>2. SUFFICES ASSUME "delete" \notin cut
               PROVE  /\ \A s \in Stages : s \in state'[n] \/ (pc'[p] = "record" /\ at'[p] = s) => Effect(n, s)'
                      /\ pc'[p] = "imported" => iso'[n] = config'.data[n].ip
  BY <1>0, <1>1, TruthClose
<1>3. /\ \A s \in state[n] : Effect(n, s)
      /\ pc[p] = "record" => Effect(n, at[p])
      /\ pc[p] = "imported" => iso[n] = config.data[n].ip
  <2>1. Sound(n)
    BY <1>0, <1>2, OnlyTarget DEF TruthInv, Deleting, TakingDown
  <2>2. pc[p] = "record" => at[p] \in Stages /\ Recording(n, at[p])
    BY <1>0 DEF Recording, TypeInv, Positions
  <2>3. pc[p] = "imported" => Importing(n)
    BY <1>0 DEF Importing
  <2>4. QED BY <1>0, <2>1, <2>2, <2>3 DEF Sound
\* Steps that make no effect.
<1>4. ASSUME UNCHANGED <<files, host>>, pc'[p] \notin {"record", "imported"}
      PROVE  /\ \A s \in Stages : s \in state'[n] \/ (pc'[p] = "record" /\ at'[p] = s) => Effect(n, s)'
             /\ pc'[p] = "imported" => iso'[n] = config'.data[n].ip
  BY <1>3, <1>4 DEF files, host, Effect
<1>5. CASE LoadState(p) \/ SkipApplied(p) \/ ApplyDone(p) \/ PoolExhausted(p) \/ ApplyRefused(p)
  <2>1. UNCHANGED <<files, host>> /\ pc'[p] \notin {"record", "imported"}
    BY <1>0, <1>5 DEF LoadState, SkipApplied, ApplyDone, PoolExhausted, ApplyRefused, Goto, Exit
  <2>2. QED BY <1>4, <2>1
<1>6. CASE Record(p)
  <2>1. /\ pc[p] = "record" /\ pc'[p] = "apply" /\ state'[n] = state[n] \cup {at[p]}
        /\ UNCHANGED <<config, host>>
    BY <1>0, <1>6 DEF Record, Goto, KnowsState
  <2>2. \A s \in state'[n] : Effect(n, s)
    BY <1>3, <2>1
  <2>3. QED BY <2>1, <2>2 DEF host, Effect
\* Steps that write config.json.
<1>7. CASE Reassert(p) \/ ApplyFinalize(p)
  <2>1. UNCHANGED <<state, host>>
    BY <1>7 DEF Reassert, ApplyFinalize, Applied
  <2>2. \/ config' = config /\ Reassert(p)
        \/ /\ n \in config.known /\ n \in config'.known /\ config'.data[n].phase = "running"
           /\ config'.data[n].ip = config.data[n].ip /\ config'.data[n].boot = config.data[n].boot
    <3>1. n \in config.known
      <4>1. Register \in state[n]
        <5>1. CASE Reassert(p)
          BY <1>0, <5>1 DEF Reassert, KnowsState, Stages, Register
        <5>2. CASE ApplyFinalize(p)
          BY <1>0, <5>2, AppliesNext DEF ApplyFinalize, Stages, Register, Finalize
        <5>3. QED BY <1>7, <5>1, <5>2
      <4>2. QED BY <1>3, <4>1 DEF Effect
    <3>2. CASE ApplyFinalize(p)
      BY <3>1, <3>2, PhaseFile DEF Keeps, ApplyFinalize, Save, Phases
    <3>3. CASE Reassert(p)
      BY <3>1, <3>3, PhaseFile DEF Keeps, Reassert, Phases
    <3>4. QED BY <1>7, <3>2, <3>3
  <2>3. \/ pc'[p] = "idle" /\ Reassert(p)
        \/ pc'[p] = "record" /\ at'[p] = Finalize /\ ApplyFinalize(p)
    BY <1>0, <1>7 DEF Reassert, ApplyFinalize, Applying, Applied, Exit, Goto
  <2>4. CASE config' = config /\ Reassert(p)
    BY <1>4, <2>1, <2>3, <2>4 DEF files, ApplyFinalize, Reassert, Applying
  <2>5. CASE config'.data[n].phase = "running" /\ n \in config'.known
             /\ config'.data[n].ip = config.data[n].ip /\ config'.data[n].boot = config.data[n].boot
    <3>1. \A s \in state'[n] : Effect(n, s)'
      BY <1>3, <2>1, <2>5 DEF host, Effect
    <3>2. Effect(n, Finalize)'
      BY <2>5 DEF Effect, Register, Allocate, UpsertDNS, EmbedISO, CreateVM, WaitInstall, Finalize
    <3>3. QED BY <2>3, <3>1, <3>2
  <2>6. QED BY <2>2, <2>4, <2>5
<1>8. CASE Imported(p)
  <2>1. /\ pc[p] = "imported" /\ pc'[p] = "record" /\ at'[p] = EmbedISO /\ at[p] = EmbedISO
        /\ UNCHANGED <<state, host>>
    BY <1>0, <1>8 DEF Imported, Applied, Goto, Roles
  <2>2. Register \in state[n]
    <3>1. 1..(at[p] - 1) \subseteq done[p] /\ done[p] = state[n]
      BY <1>0, <2>1 DEF KnowsState, PrefixInv, CopyInOrder
    <3>2. QED BY <2>1, <3>1 DEF Register, EmbedISO
  <2>3. n \in config.known
    BY <1>3, <2>2 DEF Effect
  <2>4. /\ config'.data[n].ip = config.data[n].ip /\ config'.data[n].boot = TRUE
        /\ config'.data[n].phase = config.data[n].phase /\ n \in config'.known
    BY <1>8, <2>3, BootFile DEF Keeps, Imported
  <2>5. \A s \in state'[n] : Effect(n, s)'
    BY <1>3, <2>1, <2>4 DEF host, Effect
  <2>6. Effect(n, EmbedISO)'
    BY <1>3, <2>1, <2>4 DEF host, Effect, Register, Allocate, UpsertDNS, EmbedISO, CreateVM, WaitInstall, Finalize
  <2>7. QED BY <2>1, <2>5, <2>6
\* A stage applied: those below it are recorded, and it does not disturb them.
<1>9. ASSUME NEW t \in Stages, Applying(p, t), UNCHANGED state,
             pc'[p] # "record" \/ at'[p] = t, pc'[p] # "imported",
             \A s \in Stages : s < t /\ Effect(n, s) => Effect(n, s)',
             pc'[p] = "record" => Effect(n, t)'
      PROVE  /\ \A s \in Stages : s \in state'[n] \/ (pc'[p] = "record" /\ at'[p] = s) => Effect(n, s)'
             /\ pc'[p] = "imported" => iso'[n] = config'.data[n].ip
  <2>1. \A s \in Stages : s \in state[n] <=> s < t
    BY <1>9, AppliesNext
  <2>2. QED BY <1>3, <1>9, <2>1
<1>10. ASSUME Applied(p) PROVE pc'[p] = "record" /\ at'[p] = at[p] /\ UNCHANGED state
  BY <1>0, <1>10 DEF Applied, Goto
<1>11. CASE ApplyRegister(p)
  <2>1. Applying(p, Register) /\ Applied(p)
    BY <1>11 DEF ApplyRegister
  <2>2. n \in config'.known
    <3>1. CASE n \in mem[p].known
      BY <1>11, <3>1, AloneIs DEF ApplyRegister, Alone
    <3>2. CASE n \notin mem[p].known
      <4>1. mem[p] = config
        BY <2>1 DEF Alone, SerialInv, ActsOnFile, Applying
      <4>2. PICK r, K, U : n \in K /\ Writes(p, r, K, U)
        BY <1>0, <1>11, <3>2, RegisterWrites
      <4>3. QED BY <1>0, <4>2, WritesIs, AloneIs
    <3>3. QED BY <3>1, <3>2
  <2>3. Effect(n, Register)'
    BY <2>2 DEF Effect, Register, Allocate, UpsertDNS, EmbedISO, CreateVM, WaitInstall, Finalize
  <2>4. \A s \in Stages : ~(s < Register)
    BY DEF Stages, Register
  <2>5. Register \in Stages /\ at[p] = Register
    BY <2>1 DEF Stages, Register, Applying
  <2>6. pc'[p] = "record" /\ at'[p] = Register /\ UNCHANGED state
    BY <1>10, <2>1, <2>5
  <2>7. QED BY <1>9, <2>1, <2>3, <2>4, <2>5, <2>6
<1>12. \A t \in Stages : Applying(p, t) /\ 1 < t => n \in config.known
  <2>1. SUFFICES ASSUME NEW t \in Stages, Applying(p, t), 1 < t PROVE n \in config.known
    OBVIOUS
  <2>2. 1 \in state[n]
    BY <2>1, AppliesNext DEF Stages
  <2>3. QED BY <1>3, <2>2 DEF Effect, Register
<1>13. CASE ApplyAllocate(p)
  <2>1. Applying(p, 2) /\ Applied(p) /\ UNCHANGED host
    BY <1>13 DEF ApplyAllocate, Allocate
  <2>2. n \in config.known /\ 2 \in Stages
    BY <1>12, <2>1 DEF Stages
  <2>3. n \in config'.known /\ config'.data[n].ip # NoIP
    <3>1. NoIP \notin Pool /\ (~NAT(n) => MasterIP[n] # NoIP)
      BY DEF NoIP, Pool, NAT
    <3>2. QED BY <1>13, <2>2, <3>1, AllocateFile DEF Keeps
  <2>4. \A s \in Stages : s < 2 /\ Effect(n, s) => Effect(n, s)'
    BY <2>3 DEF Effect, Stages, Register, Allocate, UpsertDNS, EmbedISO, CreateVM, WaitInstall, Finalize
  <2>5. Effect(n, 2)'
    BY <2>3 DEF Effect, Register, Allocate, UpsertDNS, EmbedISO, CreateVM, WaitInstall, Finalize
  <2>6. pc'[p] = "record" /\ at'[p] = 2 /\ UNCHANGED state
    BY <1>10, <2>1 DEF Applying
  <2>7. QED BY <1>9, <2>1, <2>2, <2>4, <2>5, <2>6
<1>14. CASE ApplyUpsertDNS(p)
  <2>1. Applying(p, 3) /\ Applied(p) /\ UNCHANGED <<config, vm, iso>> /\ 3 \in Stages
    BY <1>0, <1>14 DEF ApplyUpsertDNS, UpsertDNS, Stages, host
  <2>2. \A s \in Stages : Effect(n, s) => Effect(n, s)'
    BY <2>1 DEF Effect
  <2>3. Effect(n, 3)'
    BY <2>1 DEF Effect, Register, Allocate, UpsertDNS, EmbedISO, CreateVM, WaitInstall, Finalize
  <2>4. pc'[p] = "record" /\ at'[p] = 3 /\ UNCHANGED state
    BY <1>10, <2>1 DEF Applying
  <2>5. QED BY <1>9, <2>1, <2>2, <2>3, <2>4
<1>15. CASE ApplyEnsureDir(p) \/ ApplyCreateNetwork(p)
  <2>1. PICK t \in {4, 6} : Applying(p, t)
    BY <1>15 DEF ApplyEnsureDir, ApplyCreateNetwork, EnsureDir, CreateNetwork
  <2>2. Applied(p) /\ UNCHANGED <<config, vm, iso>> /\ t \in Stages
    BY <1>15 DEF ApplyEnsureDir, ApplyCreateNetwork, AddHost, Stages, host
  <2>3. \A s \in Stages : Effect(n, s) => Effect(n, s)'
    BY <2>2 DEF Effect
  <2>4. Effect(n, t)'
    BY <2>1 DEF Effect, Register, Allocate, UpsertDNS, EmbedISO, CreateVM, WaitInstall, Finalize
  <2>5. pc'[p] = "record" /\ at'[p] = t /\ UNCHANGED state
    BY <1>10, <2>1, <2>2 DEF Applying
  <2>6. QED BY <1>9, <2>1, <2>2, <2>3, <2>4, <2>5
<1>16. CASE ApplyEmbedISO(p)
  <2>1. /\ Applying(p, 5) /\ iso' = [iso EXCEPT ![n] = Rec(p).ip] /\ UNCHANGED <<files, vm>>
        /\ pc'[p] = "imported" /\ 5 \in Stages
    BY <1>0, <1>16 DEF ApplyEmbedISO, EmbedISO, ImportISO, Goto, Stages
  <2>2. Rec(p) = config.data[n]
    BY <1>12, <2>1, AloneIs
  <2>3. iso'[n] = config'.data[n].ip
    BY <1>0, <2>1, <2>2 DEF files
  <2>4. \A s \in Stages : s \in state[n] => s < 5
    BY <2>1, AppliesNext
  <2>5. \A s \in Stages : s < 5 /\ Effect(n, s) => Effect(n, s)'
    BY <2>1 DEF Effect, files, Stages, EmbedISO
  <2>6. QED BY <1>0, <1>3, <2>1, <2>3, <2>4, <2>5 DEF files
<1>17. CASE ApplyCreateVM(p)
  <2>1. /\ Applying(p, 7) /\ Creatable(p) /\ vm' = [vm EXCEPT ![n] = NewVM(p)] /\ 7 \in Stages
        /\ UNCHANGED <<config, iso>> /\ Applied(p)
    BY <1>0, <1>17 DEF ApplyCreateVM, SetVM, CreateVM, Stages
  <2>2. Rec(p) = config.data[n]
    BY <1>12, <2>1, AloneIs
  <2>3. 5 \in state[n]
    BY <2>1, AppliesNext DEF Stages
  <2>4. iso[n] = config.data[n].ip /\ config.data[n].boot
    BY <1>3, <2>3 DEF Effect, EmbedISO
  <2>5. vm'[n].st = "on" /\ vm'[n].ip = config'.data[n].ip
    BY <1>0, <2>1, <2>2, <2>4 DEF NewVM
  <2>6. \A s \in Stages : s < 7 /\ Effect(n, s) => Effect(n, s)'
    BY <2>1 DEF Effect, Stages, CreateVM, WaitInstall
  <2>7. Effect(n, 7)'
    BY <2>5 DEF Effect, Register, Allocate, UpsertDNS, EmbedISO, CreateVM, WaitInstall, Finalize
  <2>8. pc'[p] = "record" /\ at'[p] = 7 /\ UNCHANGED state
    BY <1>10, <2>1 DEF Applying
  <2>9. QED BY <1>9, <2>1, <2>6, <2>7, <2>8
<1>18. CASE ApplyWaitInstall(p)
  <2>1. /\ Applying(p, 8) /\ vm' = [vm EXCEPT ![n] = InstalledVM(n)] /\ 8 \in Stages
        /\ UNCHANGED <<config, iso>> /\ Applied(p)
    BY <1>0, <1>18 DEF ApplyWaitInstall, SetVM, WaitInstall, Stages
  <2>2. vm'[n].st = "on" /\ vm'[n].ip = vm[n].ip /\ vm'[n].installed
    BY <1>0, <2>1 DEF InstalledVM, VMs
  <2>3. \A s \in Stages : Effect(n, s) => Effect(n, s)'
    BY <2>1, <2>2 DEF Effect
  <2>4. Effect(n, 8)'
    BY <2>2 DEF Effect, Register, Allocate, UpsertDNS, EmbedISO, CreateVM, WaitInstall, Finalize
  <2>5. pc'[p] = "record" /\ at'[p] = 8 /\ UNCHANGED state
    BY <1>10, <2>1 DEF Applying
  <2>6. QED BY <1>9, <2>1, <2>3, <2>4, <2>5
<1>19. CASE ApplyFails(p)
  <2>1. pc'[p] = "idle" /\ UNCHANGED files
    BY <1>0, <1>19 DEF ApplyFails, Exit, Goto
  <2>2. \/ Applying(p, 3) /\ UNCHANGED <<vm, iso>>
        \/ Applying(p, 5) /\ UNCHANGED <<vm>>
        \/ Applying(p, 6) /\ UNCHANGED <<vm, iso>>
        \/ Applying(p, 7) /\ UNCHANGED <<iso>>
        \/ Applying(p, 8) /\ UNCHANGED <<iso>> /\ (vm' = vm \/ vm' = [vm EXCEPT ![n] = InstalledVM(n)])
    BY <1>0, <1>19 DEF ApplyFails, UpsertDNS, EmbedISO, CreateNetwork, CreateVM, WaitInstall,
       ImportISO, AddHost, SetVM, host
  <2>3. \A t \in {3, 5, 6, 7, 8} : Applying(p, t) => \A s \in state[n] : s < t
    BY <1>0, AppliesNext DEF Stages
  <2>4. \A s \in state[n] : Effect(n, s)'
    <3>1. CASE Applying(p, 8) /\ UNCHANGED <<iso>> /\ vm' = [vm EXCEPT ![n] = InstalledVM(n)]
      <4>1. vm'[n].st = "on" /\ vm'[n].ip = vm[n].ip /\ vm'[n].installed
        BY <1>0, <3>1 DEF InstalledVM, VMs
      <4>2. QED BY <1>3, <2>1, <3>1, <4>1 DEF Effect, files
    <3>2. CASE \/ Applying(p, 3) /\ UNCHANGED <<vm, iso>>
               \/ Applying(p, 6) /\ UNCHANGED <<vm, iso>>
               \/ Applying(p, 8) /\ UNCHANGED <<vm, iso>>
      BY <1>3, <2>1, <3>2 DEF Effect, files
    <3>3. CASE \/ Applying(p, 5) /\ UNCHANGED <<vm>>
               \/ Applying(p, 7) /\ UNCHANGED <<iso>>
      <4>1. \A s \in state[n] : s \in Stages /\ (Applying(p, 5) => s < 5) /\ (Applying(p, 7) => s < 7)
        BY <1>0, <2>3
      <4>2. QED BY <1>3, <2>1, <3>3, <4>1 DEF Effect, files, EmbedISO, CreateVM, WaitInstall, Stages
    <3>4. QED BY <2>2, <3>1, <3>2, <3>3
  <2>5. QED BY <2>1, <2>4 DEF files
<1>20. QED
  BY <1>5, <1>6, <1>7, <1>8, <1>11, <1>13, <1>14, <1>15, <1>16, <1>17, <1>18, <1>19 DEF CreateStep

LEMMA TruthPower ==
  ASSUME Roles, Serial, NEW p \in Procs, NEW n \in Clusters, Alone(p, n), TruthInv, PowerStep(p)
  PROVE  TruthInv'
<1> USE DEF Starting, Stopping
<1>0. /\ TypeInv /\ TypeOK /\ Others(p) /\ Elsewhere(n) /\ pc[p] \in Starting \cup Stopping
      /\ (UNCHANGED <<cmd, name>> \/ Exit(p)) /\ name[p] = n /\ pc[p] # "idle"
      /\ pc \in [Procs -> PCs] /\ vm \in [Clusters -> VMs] /\ state[n] \in SUBSET Stages
  BY PowerOthers, ElsewherePower DEF Alone, TypeInv, TypeOK
<1>1. cut' = cut /\ UNCHANGED <<state, iso>>
  BY DEF PowerStep, Boot, BootRefused, BootFails, Started, Halt, HaltFails, MarkStopped, SetVM, host,
     files, bounds
<1>2. pc'[p] \notin {"record", "imported"}
  BY <1>0 DEF PowerStep, Boot, BootRefused, BootFails, Started, Halt, HaltFails, MarkStopped, Exit, Goto
<1>3. vm'[n].ip = vm[n].ip /\ vm'[n].installed = vm[n].installed
      /\ (vm[n].st # "absent" => vm'[n].st # "absent")
  BY <1>0 DEF PowerStep, Boot, BootRefused, BootFails, Started, Halt, HaltFails, MarkStopped, SetVM,
     host, files, PoweredOff, VMs
<1>4. \/ config' = config
      \/ /\ n \in config.known /\ n \in config'.known /\ config'.data[n].phase \in {"running", "stopped"}
         /\ config'.data[n].ip = config.data[n].ip /\ config'.data[n].boot = config.data[n].boot
  <2>1. n \in config.known
    BY <1>0 DEF Alone, SerialInv, KnowsPhase
  <2>2. QED BY <2>1, PowerFiles DEF PowerFile, Keeps
<1>5. "delete" \notin cut => Sound(n)
  <2>1. ~TakingDown(n)
    BY <1>0, OnlyTarget DEF TakingDown, Roles
  <2>2. QED BY <2>1 DEF TruthInv
<1>6. "delete" \notin cut => \A s \in state[n] : Effect(n, s)'
  BY <1>0, <1>1, <1>3, <1>4, <1>5 DEF Sound, Effect
<1>7. QED BY <1>0, <1>1, <1>2, <1>6, TruthClose

LEMMA TruthDelete ==
  ASSUME Roles, Serial, NEW p \in Procs, NEW n \in Clusters, Alone(p, n), TruthInv, DeleteStep(p)
  PROVE  TruthInv'
<1> USE DEF Unloading, Undoings
<1>0. /\ TypeInv /\ TypeOK /\ Others(p) /\ Elsewhere(n) /\ pc[p] \in Unloading
      /\ (UNCHANGED <<cmd, name>> \/ Exit(p)) /\ name[p] = n /\ pc[p] # "idle"
      /\ pc \in [Procs -> PCs] /\ cmd[p] = "delete"
  BY DeleteOthers, ElsewhereDelete DEF Alone, TypeInv, TypeOK, Roles
<1>1. cut' = cut
  BY DEF DeleteStep, LoadRollback, SkipUnrecorded, Drop, RollbackDone, WipeDir, FinishDelete,
     RollbackFinalize, RollbackWaitInstall, RollbackCreateVM, RollbackCreateNetwork, RollbackEmbedISO,
     Removed, RollbackEnsureDir, RollbackUpsertDNS, RollbackAllocate, RollbackRegister, RollbackFails,
     Undone, bounds
<1>2. CASE FinishDelete(p)
  <2>1. state'[n] = {} /\ pc'[p] = "idle"
    BY <1>0, <1>2, ExitIs DEF FinishDelete, Alone, SerialInv, KnowsState
  <2>2. QED BY <1>0, <1>1, <2>1, TruthClose
<1>3. CASE ~FinishDelete(p)
  <2>1. ~Exit(p) /\ pc'[p] \notin {"halt", "stopped", "unload"}
    BY <1>0, <1>3 DEF DeleteStep, LoadRollback, SkipUnrecorded, Drop, RollbackDone, WipeDir,
       RollbackFinalize, RollbackWaitInstall, RollbackCreateVM, RollbackCreateNetwork, RollbackEmbedISO,
       Removed, RollbackEnsureDir, RollbackUpsertDNS, RollbackAllocate, RollbackRegister, RollbackFails,
       Undone, Undoing, Goto, Exit, files, local
  <2>2. QED BY <1>0, <1>1, <2>1, TruthClose
<1>4. QED BY <1>2, <1>3

LEMMA TruthStep ==
  ASSUME TypeInv, PrefixInv, Roles, Serial, SerialInv, TruthInv, Moved
  PROVE  TruthInv'
<1>0. TypeOK
  BY DEF TypeInv
<1>1. ASSUME NEW p \in Procs, CreateStep(p) \/ PowerStep(p) \/ DeleteStep(p)
      PROVE  TruthInv'
  <2>1. pc[p] # "idle"
    BY <1>0, <1>1, CreateOthers, PowerOthers, DeleteOthers
       DEF Creating, Starting, Stopping, Unloading, Applyings, Undoings
  <2>2. PICK n \in Clusters : name[p] = n
    BY <2>1 DEF TypeInv, Targets
  <2>3. QED BY <1>1, <2>1, <2>2, TruthCreate, TruthPower, TruthDelete DEF Alone
<1>2. CASE \A p \in Procs : ~CreateStep(p) /\ ~PowerStep(p) /\ ~DeleteStep(p)
  <2>1. /\ config' = config /\ state' = state /\ iso' = iso /\ cut \subseteq cut'
        /\ \A c \in Clusters : vm'[c] \in {vm[c], PoweredOff(vm[c])}
        /\ \A q \in Procs : pc'[q] \in {"record", "imported"} =>
             pc'[q] = pc[q] /\ name'[q] = name[q] /\ at'[q] = at[q]
        /\ \A q \in Procs : pc[q] # "idle" =>
             \/ cmd[q] \in cut' \/ pc[q] \in {"load", "unload"}
             \/ pc'[q] = pc[q] /\ name'[q] = name[q] /\ cmd'[q] = cmd[q]
    BY <1>2, Environment
  <2>2. SUFFICES ASSUME "delete" \notin cut', NEW c \in Clusters, ~TakingDown(c)' PROVE Sound(c)'
    BY DEF TruthInv
  <2>3. Sound(c)
    <3>1. ~TakingDown(c)
      BY <2>1, <2>2 DEF TakingDown, Roles, Creating
    <3>2. QED BY <2>1, <2>2, <3>1 DEF TruthInv
  <2>4. /\ vm'[c].ip = vm[c].ip /\ vm'[c].installed = vm[c].installed
        /\ vm[c].st # "absent" => vm'[c].st # "absent"
    BY <1>0, <2>1 DEF PoweredOff, TypeOK, VMs
  <2>5. \A s : Effect(c, s) => Effect(c, s)'
    BY <2>1, <2>4 DEF Effect
  <2>6. (\A s : Recording(c, s)' => Recording(c, s)) /\ (Importing(c)' => Importing(c))
    BY <2>1 DEF Recording, Importing
  <2>7. \A s \in Stages : s \in state'[c] \/ Recording(c, s)' => Effect(c, s)'
    BY <2>1, <2>3, <2>5, <2>6 DEF Sound
  <2>8. QED BY <2>1, <2>3, <2>6, <2>7 DEF Sound
<1>3. QED BY <1>1, <1>2

LEMMA TruthInvariant == Spec /\ []Serial => [](VMInv /\ TruthInv)
  BY SerialInvariant, VMInit, VMStep, TruthInit, TruthStep, NextMoves, PTL DEF Spec

LEMMA TruthIs == TypeInv /\ VMInv /\ TruthInv => RecordIsTruthful
<1> SUFFICES ASSUME TypeInv, VMInv, TruthInv PROVE RecordIsTruthful
  OBVIOUS
<1>1. \A c \in Clusters : state[c] \subseteq Stages
  BY DEF TypeInv, TypeOK
<1>2. "delete" \notin cut => \A c \in Clusters : ~Deleting(c) => \A s \in state[c] : Effect(c, s)
  BY <1>1 DEF TruthInv, Sound, Deleting, TakingDown
<1>3. \A c \in config.known : config.data[c].phase = "running" => vm[c].st # "absent"
  BY DEF VMInv, PhaseOf, Present, TypeInv, TypeOK, Configs
<1>4. QED BY <1>2, <1>3 DEF RecordIsTruthful

\* RecordIsTruthful: a stage that state.json records is in effect, and what
\* `list` shows running has a domain, whatever create, start or stop is killed
\* or fails at whatever step; what the Runner's skip of recorded stages needs.
THEOREM RecordAlwaysTruthful == Spec /\ []Serial => []RecordIsTruthful
  BY SerialInvariant, TruthInvariant, TruthIs, PTL

-----------------------------------------------------------------------------
(* DomainNamesOwnAddress.  Only a rollback of allocate-network parts the     *)
(* domain from the address, and that rollback goes on to deregister.         *)

Releasing(c) == \E p \in Procs : name[p] = c /\ pc[p] \in Undoings /\ Register \in done[p]

DomainInv == "delete" \notin cut =>
  \A c \in Clusters :
    c \in config.known /\ NAT(c) /\ config.data[c].domain # config.data[c].ip
      => config.data[c].ip = NoIP /\ Releasing(c)

LEMMA DomainInit == Init => DomainInv
  BY DEF Init, DomainInv, EmptyConfig

LEMMA DomainClose ==
  ASSUME TypeInv, Roles, Serial, NEW p \in Procs, NEW n \in Clusters, Alone(p, n), DomainInv,
         Others(p), SameBut(n), UNCHANGED <<cmd, name>> \/ Exit(p), "delete" \in cut => "delete" \in cut',
         "delete" \notin cut' /\ n \in config'.known /\ NAT(n) /\ config'.data[n].domain # config'.data[n].ip
         => config'.data[n].ip = NoIP /\ pc'[p] \in Undoings /\ Register \in done'[p]
  PROVE  DomainInv'
<1>1. SUFFICES ASSUME "delete" \notin cut', NEW c \in Clusters,
                      c \in config'.known, NAT(c), config'.data[c].domain # config'.data[c].ip
               PROVE  config'.data[c].ip = NoIP /\ Releasing(c)'
  BY DEF DomainInv, NAT
<1>3. pc[p] # "idle" /\ name[p] = n /\ TypeOK
  BY DEF Alone, TypeInv
<1>4. CASE c = n
  <2>1. config'.data[n].ip = NoIP /\ pc'[p] \in Undoings /\ Register \in done'[p]
    BY <1>1, <1>4
  <2>2. name'[p] = n
    BY <1>3, <2>1, ExitIs DEF Undoings
  <2>3. QED BY <1>4, <2>1, <2>2 DEF Releasing
<1>5. CASE c # n
  <2>1. c \in config.known /\ config.data[c] = config'.data[c]
    BY <1>1, <1>5 DEF SameBut
  <2>2. Releasing(c)
    BY <1>1, <2>1 DEF DomainInv
  <2>3. PICK q \in Procs : name[q] = c /\ pc[q] \in Undoings
    BY <2>2 DEF Releasing
  <2>4. QED BY <1>3, <1>5, <2>3 DEF Serial, Undoings
<1>6. QED BY <1>4, <1>5

LEMMA DomainCreate ==
  ASSUME Roles, Serial, NEW p \in Procs, NEW n \in Clusters, Alone(p, n), DomainInv,
         CreateStep(p) \/ PowerStep(p)
  PROVE  DomainInv'
<1>0. /\ TypeInv /\ TypeOK /\ Others(p) /\ pc[p] \in Creating \cup Starting \cup Stopping
      /\ (UNCHANGED <<cmd, name>> \/ Exit(p)) /\ SameBut(n) /\ pc[p] # "idle" /\ name[p] = n
  BY CreateOthers, PowerOthers, ElsewhereCreate, ElsewherePower DEF Alone, TypeInv, Elsewhere
<1>1. cut' = cut
  BY DEF CreateStep, LoadState, SkipApplied, Record, ApplyDone, Reassert, ApplyRegister,
     ApplyAllocate, PoolExhausted, ApplyUpsertDNS, ApplyEnsureDir, ApplyEmbedISO, Imported,
     ApplyCreateNetwork, ApplyCreateVM, ApplyWaitInstall, ApplyFinalize, ApplyRefused, ApplyFails,
     Applied, bounds, PowerStep, Boot, BootRefused, BootFails, Started, Halt, HaltFails, MarkStopped
<1>2. "delete" \notin cut /\ n \in config.known /\ NAT(n) => config.data[n].domain = config.data[n].ip
  <2>1. ~Releasing(n)
    BY <1>0 DEF Releasing, Serial, Creating, Starting, Stopping, Applyings, Undoings
  <2>2. QED BY <2>1 DEF DomainInv
<1>3. "delete" \notin cut /\ n \in config'.known /\ NAT(n) => config'.data[n].domain = config'.data[n].ip
  <2>1. CASE config' = config
    BY <1>2, <2>1
  <2>2. CASE ApplyRegister(p) /\ config' # config
    BY <2>2, RegisterFile DEF Blank
  <2>3. CASE ApplyAllocate(p) /\ config' # config
    BY <1>2, <2>3, AllocateFile
  <2>4. CASE \E F \in {{"phase"}, {"boot"}} : Keeps(n, F)
    BY <1>2, <2>4 DEF Keeps
  <2>5. QED BY <2>1, <2>2, <2>3, <2>4, CreateFiles, PowerFiles DEF CreateFile, PowerFile
<1>4. QED BY <1>0, <1>1, <1>3, DomainClose

LEMMA DomainDelete ==
  ASSUME PrefixInv, Roles, Serial, NEW p \in Procs, NEW n \in Clusters, Alone(p, n), DomainInv, DeleteStep(p)
  PROVE  DomainInv'
<1> USE DEF Unloading, Undoings
<1>0. /\ TypeInv /\ TypeOK /\ Others(p) /\ pc[p] \in Unloading /\ pc \in [Procs -> PCs]
      /\ (UNCHANGED <<cmd, name>> \/ Exit(p)) /\ SameBut(n) /\ pc[p] # "idle" /\ name[p] = n
      /\ done \in [Procs -> SUBSET Stages] /\ at \in [Procs -> 0..10] /\ at[p] \in 0..10
      /\ KnowsPhase(p) /\ Prefix(done[p]) /\ (pc[p] \in Undoings => done[p] \subseteq 1..at[p])
  BY DeleteOthers, ElsewhereDelete
     DEF Alone, TypeInv, TypeOK, Elsewhere, SerialInv, PrefixInv, CopyInOrder
<1>1. cut' = cut
  BY DEF DeleteStep, LoadRollback, SkipUnrecorded, Drop, RollbackDone, WipeDir, FinishDelete,
     RollbackFinalize, RollbackWaitInstall, RollbackCreateVM, RollbackCreateNetwork, RollbackEmbedISO,
     Removed, RollbackEnsureDir, RollbackUpsertDNS, RollbackAllocate, RollbackRegister, RollbackFails,
     Undone, bounds
<1>2. CASE RollbackAllocate(p)
  <2>1. /\ pc[p] = "rollback" /\ Allocate \in done[p] /\ pc'[p] = "drop" /\ done' = done
    BY <1>0, <1>2 DEF RollbackAllocate, Undoing, Undone, Goto
  <2>2. Register \in done[p]
    BY <1>0, <2>1 DEF Prefix, Register, Allocate
  <2>3. QED BY <1>0, <1>1, <1>2, <2>1, <2>2, ReleaseFile, DomainClose
<1>3. CASE RollbackRegister(p)
  BY <1>0, <1>1, <1>3, UnregisterFile, DomainClose
<1>4. CASE ~RollbackAllocate(p) /\ ~RollbackRegister(p)
  <2>1. /\ config'.data[n].domain = config.data[n].domain /\ config'.data[n].ip = config.data[n].ip
        /\ n \in config'.known <=> n \in config.known
    BY <1>4, DeleteFiles DEF DeleteFile, Keeps
  <2>2. ASSUME n \in config.known, pc[p] \in Undoings, Register \in done[p]
        PROVE  pc'[p] \in Undoings /\ Register \in done'[p]
    <3>1. at[p] >= 1 /\ ~(pc[p] = "drop" /\ at[p] = Register)
      BY <1>0, <2>2 DEF KnowsPhase, Register
    <3>2. QED
      BY <1>0, <1>4, <2>2, <3>1 DEF DeleteStep, LoadRollback, SkipUnrecorded, Drop, RollbackDone,
     WipeDir, FinishDelete, RollbackFinalize, RollbackWaitInstall, RollbackCreateVM,
     RollbackCreateNetwork, RollbackEmbedISO, Removed, RollbackEnsureDir, RollbackUpsertDNS,
     RollbackFails, Undone, Undoing, Goto, local, Register
  <2>3. "delete" \notin cut /\ n \in config.known /\ NAT(n) /\ config.data[n].domain # config.data[n].ip
        => config.data[n].ip = NoIP /\ pc[p] \in Undoings /\ Register \in done[p]
    BY <1>0 DEF DomainInv, Releasing, Serial
  <2>4. QED BY <1>0, <1>1, <2>1, <2>2, <2>3, DomainClose
<1>5. QED BY <1>2, <1>3, <1>4

LEMMA DomainStep ==
  ASSUME TypeInv, PrefixInv, Roles, Serial, SerialInv, DomainInv, Moved
  PROVE  DomainInv'
<1>1. ASSUME NEW p \in Procs, CreateStep(p) \/ PowerStep(p) \/ DeleteStep(p)
      PROVE  DomainInv'
  <2>1. pc[p] # "idle"
    BY <1>1, CreateOthers, PowerOthers, DeleteOthers
       DEF Creating, Starting, Stopping, Unloading, Applyings, Undoings, TypeInv
  <2>2. PICK n \in Clusters : name[p] = n
    BY <2>1 DEF TypeInv, Targets
  <2>3. QED BY <1>1, <2>1, <2>2, DomainCreate, DomainDelete DEF Alone
<1>2. CASE \A p \in Procs : ~CreateStep(p) /\ ~PowerStep(p) /\ ~DeleteStep(p)
  <2>1. config' = config /\ cut \subseteq cut'
    BY <1>2, Environment
  <2>2. \A c : Releasing(c) /\ "delete" \notin cut' => Releasing(c)'
    <3>1. SUFFICES ASSUME NEW c, NEW q \in Procs, name[q] = c, pc[q] \in Undoings, Register \in done[q],
                          "delete" \notin cut'
                   PROVE  Releasing(c)'
      BY DEF Releasing
    <3>2. cmd[q] = "delete" /\ pc[q] # "idle"
      BY <3>1 DEF Roles, Unloading, Undoings
    <3>3. pc'[q] = pc[q] /\ name'[q] = name[q] /\ done'[q] = done[q]
      BY <1>2, <3>1, <3>2, Environment DEF Undoings
    <3>4. QED BY <3>1, <3>3 DEF Releasing
  <2>3. QED BY <2>1, <2>2 DEF DomainInv
<1>3. QED BY <1>1, <1>2

\* DomainNamesOwnAddress: the magic domain that deriveMagicDomain writes once
\* names the address the cluster has, however often it is created and deleted.
THEOREM DomainAlwaysNamesOwnAddress == Spec /\ []Serial => []DomainNamesOwnAddress
<1>1. TypeInv /\ DomainInv => DomainNamesOwnAddress
  BY DEF DomainInv, DomainNamesOwnAddress, Addr, TypeInv, TypeOK, Configs
<1>2. QED BY SerialInvariant, DomainInit, DomainStep, NextMoves, <1>1, PTL DEF Spec

-----------------------------------------------------------------------------
(* ReservationHeld.  The reservations are those of the NAT clusters past     *)
(* create-network, each of the cluster's own address: no other cluster has   *)
(* that address, so the "already" that AddHost takes for success never hides *)
(* somebody else's entry.                                                    *)

PastNetwork(c) == CreateNetwork \in state[c] \/ Recording(c, CreateNetwork)
Unreserving(c) == \E p \in Procs : name[p] = c /\ pc[p] = "drop" /\ at[p] = CreateNetwork

ResvInv == Undisturbed =>
  /\ \A c \in Clusters : ~Deleting(c) /\ NAT(c) /\ PastNetwork(c) => <<c, config.data[c].ip>> \in resv
  /\ \A c \in Clusters, a \in Nat : <<c, a>> \in resv =>
       NAT(c) /\ a = config.data[c].ip /\ a # NoIP /\ PastNetwork(c) /\ ~Unreserving(c)

LEMMA ResvInit == Init => ResvInv
  BY DEF Init, ResvInv, PastNetwork, Recording

LEMMA ResvClose ==
  ASSUME TypeInv, Roles, Serial, NEW p \in Procs, NEW n \in Clusters, Alone(p, n), ResvInv,
         Others(p), Elsewhere(n), UNCHANGED <<cmd, name>> \/ Exit(p), Undisturbed' => Undisturbed,
         Undisturbed' =>
           /\ /\ cmd'[p] # "delete" /\ NAT(n)
              /\ CreateNetwork \in state'[n] \/ (pc'[p] = "record" /\ at'[p] = CreateNetwork)
              => <<n, config'.data[n].ip>> \in resv'
           /\ \A a \in Nat : <<n, a>> \in resv' =>
                /\ NAT(n) /\ a = config'.data[n].ip /\ a # NoIP
                /\ CreateNetwork \in state'[n] \/ (pc'[p] = "record" /\ at'[p] = CreateNetwork)
                /\ ~(pc'[p] = "drop" /\ at'[p] = CreateNetwork)
  PROVE  ResvInv'
<1>1. SUFFICES ASSUME Undisturbed', NEW c \in Clusters
               PROVE  /\ ~Deleting(c)' /\ NAT(c) /\ PastNetwork(c)' => <<c, config'.data[c].ip>> \in resv'
                      /\ \A a \in Nat : <<c, a>> \in resv' =>
                           /\ NAT(c) /\ a = config'.data[c].ip /\ a # NoIP
                           /\ PastNetwork(c)' /\ ~Unreserving(c)'
  BY DEF ResvInv, NAT
<1>2. pc[p] # "idle" /\ name[p] = n /\ TypeOK
  BY DEF Alone, TypeInv
<1>3. /\ \A q \in Procs \ {p} : pc'[q] = "idle"
      /\ pc'[p] # "idle" => name'[p] = n /\ cmd'[p] = cmd[p]
      /\ name'[p] = n \/ cmd'[p] = "none"
  BY <1>2, OnlyTarget, ExitIs DEF Others
<1>4. CASE c = n
  <2>1. Recording(n, CreateNetwork)' <=> pc'[p] = "record" /\ at'[p] = CreateNetwork
    BY <1>3 DEF Recording
  <2>2. Unreserving(n)' => pc'[p] = "drop" /\ at'[p] = CreateNetwork
    BY <1>3 DEF Unreserving
  <2>3. ~Deleting(n)' => cmd'[p] # "delete"
    BY <1>3 DEF Deleting
  <2>4. QED BY <1>1, <1>4, <2>1, <2>2, <2>3 DEF PastNetwork
<1>5. CASE c # n
  <2>1. ~Recording(c, CreateNetwork)' /\ ~Recording(c, CreateNetwork) /\ ~Unreserving(c)'
    BY <1>2, <1>3, <1>5 DEF Recording, Unreserving, Serial
  <2>2. ~Deleting(c)
    BY <1>2, <1>5, OnlyTarget
  <2>3. state'[c] = state[c] /\ config'.data[c] = config.data[c]
        /\ \A a \in Nat : <<c, a>> \in resv' <=> <<c, a>> \in resv
    BY <1>5 DEF Elsewhere, SameBut
  <2>4. config.data[c].ip \in Nat
    BY <1>2 DEF TypeOK, Configs, Records
  <2>5. QED BY <1>1, <2>1, <2>2, <2>3, <2>4 DEF ResvInv, PastNetwork
<1>6. QED BY <1>4, <1>5

LEMMA ResvCreate ==
  ASSUME Roles, PrefixInv, AddressInv, Serial, NEW p \in Procs, NEW n \in Clusters, Alone(p, n),
         TruthInv, ResvInv, CreateStep(p)
  PROVE  ResvInv'
<1> USE DEF Creating, Applyings
<1>0. /\ TypeInv /\ TypeOK /\ Others(p) /\ Elsewhere(n) /\ pc[p] \in Creating
      /\ (UNCHANGED <<cmd, name>> \/ Exit(p)) /\ name[p] = n /\ cmd[p] = "create" /\ pc[p] # "idle"
      /\ pc \in [Procs -> PCs] /\ at \in [Procs -> 0..10] /\ at[p] \in 0..10
      /\ state \in [Clusters -> SUBSET Stages] /\ done \in [Procs -> SUBSET Stages] /\ KnowsState(p)
  BY CreateOthers, ElsewhereCreate DEF Alone, TypeInv, TypeOK, SerialInv, Roles
<1>1. CASE ApplyFails(p)
  <2>1. ~Undisturbed'
    BY <1>0, <1>1 DEF ApplyFails, Undisturbed, Uncut, TypeOK
  <2>2. QED BY <1>0, <2>1, ResvClose
<1>2. CASE ~ApplyFails(p)
  <2>1. cut' = cut /\ faults' = faults
    BY <1>2 DEF CreateStep, LoadState, SkipApplied, Record, ApplyDone, Reassert, ApplyRegister,
     ApplyAllocate, PoolExhausted, ApplyUpsertDNS, ApplyEnsureDir, ApplyEmbedISO, Imported,
     ApplyCreateNetwork, ApplyCreateVM, ApplyWaitInstall, ApplyFinalize, ApplyRefused,
     Applied, bounds
  <2>2. Undisturbed' => Undisturbed /\ "delete" \notin cut
    BY <2>1 DEF Undisturbed, Uncut
  <2>3. ~Deleting(n) /\ ~TakingDown(n) /\ ~Unreserving(n)
        /\ (Recording(n, CreateNetwork) <=> pc[p] = "record" /\ at[p] = CreateNetwork)
    BY <1>0, OnlyTarget DEF Deleting, TakingDown, Unreserving, Recording, Serial
  <2>4. pc'[p] # "drop"
    BY <1>0, CreateRoles, ExitIs DEF Alone
  <2>5. CASE ApplyCreateNetwork(p)
    <3>1. /\ Applying(p, CreateNetwork) /\ pc'[p] = "record" /\ at'[p] = CreateNetwork
          /\ UNCHANGED <<state, config>>
      BY <1>0, <2>5 DEF ApplyCreateNetwork, Applied, Applying, Goto
    <3>2. CASE ~NAT(n)
      <4>1. UNCHANGED resv
        BY <1>0, <2>5, <3>2 DEF ApplyCreateNetwork, host
      <4>2. QED BY <1>0, <2>2, <3>1, <3>2, <4>1, ResvClose DEF ResvInv
    <3>3. CASE NAT(n)
      <4>1. SUFFICES ASSUME Undisturbed
                     PROVE  \A a \in Nat : <<n, a>> \in resv' <=> a = config.data[n].ip /\ a # NoIP
        <5>1. config.data[n].ip \in Nat
          BY <1>0 DEF TypeOK, Configs, Records
        <5>2. Undisturbed => config.data[n].ip # NoIP
          <6>1. Allocate \in state[n]
            BY <3>1, AppliesNext DEF Stages, Allocate, CreateNetwork
          <6>2. QED BY <1>0, <2>3, <6>1 DEF TruthInv, Sound, Effect, Undisturbed, Uncut, Stages, Allocate
        <5>3. QED BY <1>0, <2>2, <2>4, <3>1, <3>3, <4>1, <5>1, <5>2, ResvClose
      <4>2. CreateNetwork \notin state[n] /\ n \in config.known /\ config.data[n].ip # NoIP
        <5>1. /\ \A t \in Stages : t \in state[n] <=> t < CreateNetwork
          BY <3>1, AppliesNext DEF Stages, CreateNetwork
        <5>2. Register \in state[n] /\ Allocate \in state[n] /\ CreateNetwork \notin state[n]
          BY <5>1 DEF Stages, Register, Allocate, CreateNetwork
        <5>3. Sound(n)
          BY <2>3, <4>1 DEF TruthInv, Undisturbed, Uncut
        <5>4. QED BY <5>2, <5>3 DEF Sound, Effect, Stages, Register, Allocate
      <4>3. \A a \in Nat : <<n, a>> \notin resv
        BY <2>3, <3>1, <4>1, <4>2 DEF ResvInv, PastNetwork, Applying
      <4>4. \A c \in Clusters \ {n} : <<c, config.data[n].ip>> \notin resv
        <5>1. SUFFICES ASSUME NEW c \in Clusters \ {n}, <<c, config.data[n].ip>> \in resv PROVE FALSE
          OBVIOUS
        <5>2. config.data[n].ip \in Nat
          BY <1>0 DEF TypeOK, Configs, Records
        <5>3. NAT(c) /\ config.data[n].ip = config.data[c].ip
          BY <4>1, <5>1, <5>2 DEF ResvInv
        <5>4. QED BY <3>3, <4>2, <5>3 DEF AddressInv, OneOwner
      <4>5. resv' = resv \cup {<<n, config.data[n].ip>>}
        <5>1. Rec(p).ip = config.data[n].ip
          BY <4>2, AloneIs
        <5>2. resv \subseteq Clusters \X Nat
          BY <1>0 DEF TypeOK
        <5>3. \A r \in resv : r[1] # n /\ r[2] # config.data[n].ip
          BY <4>3, <4>4, <5>2
        <5>4. QED BY <1>0, <2>5, <3>3, <5>1, <5>3 DEF ApplyCreateNetwork, AddHost
      <4>6. QED BY <4>2, <4>3, <4>5
    <3>4. QED BY <3>2, <3>3
  <2>6. CASE ~ApplyCreateNetwork(p)
    <3>1. UNCHANGED resv
      BY <1>2, <2>6 DEF CreateStep, LoadState, SkipApplied, Record, ApplyDone, Reassert, ApplyRegister,
     ApplyAllocate, PoolExhausted, ApplyUpsertDNS, ApplyEnsureDir, ApplyEmbedISO, Imported,
     ApplyCreateVM, ApplyWaitInstall, ApplyFinalize, ApplyRefused, ImportISO, SetVM, host
    <3>2. CreateNetwork \in state'[n] \/ (pc'[p] = "record" /\ at'[p] = CreateNetwork) <=> PastNetwork(n)
      BY <1>0, <1>2, <2>3, <2>6 DEF CreateStep, LoadState, SkipApplied, Record, ApplyDone, Reassert,
     ApplyRegister, ApplyAllocate, PoolExhausted, ApplyUpsertDNS, ApplyEnsureDir, ApplyEmbedISO, Imported,
     ApplyCreateVM, ApplyWaitInstall, ApplyFinalize, ApplyRefused, Applied, Applying, Goto, Exit, files,
     KnowsState, PastNetwork, Roles, Register, Allocate, UpsertDNS, EnsureDir, EmbedISO, CreateNetwork,
     CreateVM, WaitInstall, Finalize
    <3>3. config'.data[n].ip = config.data[n].ip \/ (config.data[n].ip = NoIP /\ ApplyAllocate(p))
      <4>1. CASE ApplyRegister(p)
        BY <4>1, RegisterFile, AloneIs DEF Blank
      <4>2. CASE ApplyAllocate(p)
        BY <4>2, AllocateFile DEF Keeps
      <4>3. CASE ~ApplyRegister(p) /\ ~ApplyAllocate(p)
        BY <4>3, CreateFiles DEF CreateFile, Keeps
      <4>4. QED BY <4>1, <4>2, <4>3
    <3>4. ApplyAllocate(p) => ~PastNetwork(n)
      <4>1. SUFFICES ASSUME ApplyAllocate(p) PROVE ~PastNetwork(n)
        OBVIOUS
      <4>2. Applying(p, Allocate) /\ Allocate \in Stages /\ CreateNetwork \in Stages /\ ~(CreateNetwork < Allocate)
        BY <4>1 DEF ApplyAllocate, Stages, Allocate, CreateNetwork
      <4>3. CreateNetwork \notin state[n] /\ pc[p] = "apply"
        BY <4>2, AppliesNext DEF Applying
      <4>4. QED BY <2>3, <4>3 DEF PastNetwork
    <3>5. QED BY <1>0, <2>2, <2>3, <2>4, <3>1, <3>2, <3>3, <3>4, ResvClose DEF ResvInv
  <2>7. QED BY <2>5, <2>6
<1>3. QED BY <1>1, <1>2

LEMMA ResvPower ==
  ASSUME Roles, Serial, NEW p \in Procs, NEW n \in Clusters, Alone(p, n), ResvInv, PowerStep(p)
  PROVE  ResvInv'
<1> USE DEF Starting, Stopping
<1>0. /\ TypeInv /\ TypeOK /\ Others(p) /\ Elsewhere(n) /\ pc[p] \in Starting \cup Stopping
      /\ (UNCHANGED <<cmd, name>> \/ Exit(p)) /\ name[p] = n /\ pc[p] # "idle" /\ pc \in [Procs -> PCs]
      /\ faults \in Nat
  BY PowerOthers, ElsewherePower, ManagerAssumption DEF Alone, TypeInv, TypeOK
<1>1. UNCHANGED <<state, resv>> /\ cut' = cut /\ (faults' = faults \/ faults' = faults + 1)
  BY DEF PowerStep, Boot, BootRefused, BootFails, Started, Halt, HaltFails, MarkStopped, SetVM, host,
     files, bounds
<1>2. Undisturbed' => Undisturbed
  BY <1>0, <1>1 DEF Undisturbed, Uncut
<1>3. /\ pc'[p] \notin {"record", "drop"}
      /\ cmd'[p] # "delete" => cmd[p] # "delete"
  <2>1. CASE Exit(p)
    BY <1>0, <2>1, ExitIs DEF PowerStep, Boot, BootRefused, BootFails, Started, Halt, HaltFails,
       MarkStopped, Exit, Goto, Roles
  <2>2. CASE ~Exit(p)
    BY <1>0, <2>2, PowerRoles
  <2>3. QED BY <2>1, <2>2
<1>4. config'.data[n].ip = config.data[n].ip
  BY PowerFiles DEF PowerFile, Keeps
<1>5. ~Recording(n, CreateNetwork) /\ (Deleting(n) <=> cmd[p] = "delete")
  BY <1>0, OnlyTarget DEF Recording, Serial
<1>6. QED BY <1>0, <1>1, <1>2, <1>3, <1>4, <1>5, ResvClose DEF ResvInv, PastNetwork

LEMMA ResvDelete ==
  ASSUME Roles, PrefixInv, Serial, NEW p \in Procs, NEW n \in Clusters, Alone(p, n), ResvInv, DeleteStep(p)
  PROVE  ResvInv'
<1> USE DEF Unloading, Undoings
<1>0. /\ TypeInv /\ TypeOK /\ Others(p) /\ Elsewhere(n) /\ pc[p] \in Unloading
      /\ (UNCHANGED <<cmd, name>> \/ Exit(p)) /\ name[p] = n /\ pc[p] # "idle"
      /\ pc \in [Procs -> PCs] /\ cmd[p] = "delete" /\ state \in [Clusters -> SUBSET Stages]
      /\ done \in [Procs -> SUBSET Stages] /\ at \in [Procs -> 0..10] /\ at[p] \in 0..10
      /\ resv \subseteq Clusters \X Nat /\ faults \in Nat
      /\ KnowsPhase(p) /\ KnowsState(p) /\ (pc[p] \in Undoings => done[p] \subseteq 1..at[p])
  BY DeleteOthers, ElsewhereDelete, ManagerAssumption
     DEF Alone, TypeInv, TypeOK, Roles, SerialInv, PrefixInv, CopyInOrder
<1>1. CASE RollbackFails(p)
  <2>1. ~Undisturbed'
    BY <1>0, <1>1 DEF RollbackFails, Undisturbed, Uncut
  <2>2. QED BY <1>0, <2>1, ResvClose
<1>2. CASE ~RollbackFails(p)
  <2>1. cut' = cut /\ faults' = faults
    BY <1>2 DEF DeleteStep, LoadRollback, SkipUnrecorded, Drop, RollbackDone, WipeDir, FinishDelete,
     RollbackFinalize, RollbackWaitInstall, RollbackCreateVM, RollbackCreateNetwork, RollbackEmbedISO,
     Removed, RollbackEnsureDir, RollbackUpsertDNS, RollbackAllocate, RollbackRegister, Undone, bounds
  <2>2. Undisturbed' => Undisturbed
    BY <2>1 DEF Undisturbed, Uncut
  <2>3. ~Recording(n, CreateNetwork)
    BY <1>0 DEF Recording, Serial
  <2>4. CASE RollbackCreateNetwork(p)
    <3>1. /\ pc[p] = "rollback" /\ at[p] = CreateNetwork /\ pc'[p] = "drop"
          /\ UNCHANGED <<files, cmd>> /\ resv' = resv \ {<<n, Rec(p).ip>>}
      BY <1>0, <2>4 DEF RollbackCreateNetwork, Undoing, Undone, Goto
    <3>2. Rec(p) = config.data[n]
      BY <1>0, <3>1, AloneIs DEF KnowsPhase, Unwinding, Register, CreateNetwork
    <3>3. Undisturbed => \A a \in Nat : <<n, a>> \notin resv'
      BY <3>1, <3>2 DEF ResvInv
    <3>4. QED BY <1>0, <2>2, <3>1, <3>3, ResvClose
  <2>5. CASE FinishDelete(p)
    <3>1. UNCHANGED resv /\ pc'[p] = "idle" /\ state' = state /\ state[n] = {}
      BY <1>0, <2>5, ExitIs DEF FinishDelete, KnowsState, host
    <3>2. Undisturbed => \A a \in Nat : <<n, a>> \notin resv'
      BY <2>3, <3>1 DEF ResvInv, PastNetwork
    <3>3. QED BY <1>0, <2>2, <3>1, <3>2, ResvClose
  <2>6. CASE ~RollbackCreateNetwork(p) /\ ~FinishDelete(p)
    <3>1. UNCHANGED resv /\ cmd'[p] = "delete"
      BY <1>0, <1>2, <2>6 DEF DeleteStep, LoadRollback, SkipUnrecorded, Drop, RollbackDone, WipeDir,
     RollbackFinalize, RollbackWaitInstall, RollbackCreateVM, RollbackEmbedISO, ImportISO,
     Removed, RollbackEnsureDir, RollbackUpsertDNS, RollbackAllocate, RollbackRegister, Undone, host, local
    \* A reservation of n is there only while create-network is recorded.
    <3>2. SUFFICES ASSUME Undisturbed, NEW a \in Nat, <<n, a>> \in resv
                   PROVE  /\ config'.data[n].ip = config.data[n].ip
                          /\ CreateNetwork \in state'[n]
                          /\ ~(pc'[p] = "drop" /\ at'[p] = CreateNetwork)
      BY <1>0, <2>2, <3>1, ResvClose DEF ResvInv
    <3>3. CreateNetwork \in state[n] /\ ~(pc[p] = "drop" /\ at[p] = CreateNetwork)
      BY <1>0, <2>3, <3>2 DEF ResvInv, PastNetwork, Unreserving
    <3>4. /\ pc[p] \in Undoings => CreateNetwork \in done[p] /\ at[p] >= CreateNetwork
          /\ pc[p] \notin {"wipe", "flush"}
      BY <1>0, <3>3 DEF KnowsState, CreateNetwork
    <3>5. ~RollbackAllocate(p) /\ ~RollbackRegister(p) /\ ~RollbackEnsureDir(p)
      BY <3>4 DEF RollbackAllocate, RollbackRegister, RollbackEnsureDir, Undoing, Allocate, Register,
         EnsureDir, CreateNetwork
    <3>6. config'.data[n].ip = config.data[n].ip
      BY <3>5, DeleteFiles DEF DeleteFile, Keeps
    <3>7. CreateNetwork \in state'[n] /\ ~(pc'[p] = "drop" /\ at'[p] = CreateNetwork)
      BY <1>0, <1>2, <2>6, <3>3, <3>4, <3>5 DEF DeleteStep, LoadRollback, SkipUnrecorded, Drop,
     RollbackDone, WipeDir, RollbackFinalize, RollbackWaitInstall, RollbackCreateVM, RollbackEmbedISO,
     Removed, RollbackUpsertDNS, Undone, Undoing, Goto, files, local, Roles,
     UpsertDNS, EmbedISO, CreateNetwork, CreateVM, WaitInstall, Finalize
    <3>8. QED BY <3>6, <3>7
  <2>7. QED BY <2>4, <2>5, <2>6
<1>3. QED BY <1>1, <1>2

LEMMA ResvStep ==
  ASSUME TypeInv, PrefixInv, AddressInv, Roles, Serial, SerialInv, SpoiltInv, TruthInv, ResvInv,
         Moved
  PROVE  ResvInv'
<1>1. ASSUME NEW p \in Procs, CreateStep(p) \/ PowerStep(p) \/ DeleteStep(p)
      PROVE  ResvInv'
  <2>1. pc[p] # "idle"
    BY <1>1, CreateOthers, PowerOthers, DeleteOthers
       DEF Creating, Starting, Stopping, Unloading, Applyings, Undoings, TypeInv
  <2>2. PICK n \in Clusters : name[p] = n
    BY <2>1 DEF TypeInv, Targets
  <2>3. QED BY <1>1, <2>1, <2>2, ResvCreate, ResvPower, ResvDelete DEF Alone
<1>2. CASE \A p \in Procs : ~CreateStep(p) /\ ~PowerStep(p) /\ ~DeleteStep(p)
  <2>1. /\ config' = config /\ state' = state /\ resv' = resv /\ faults' = faults /\ cut \subseteq cut'
        /\ \A q \in Procs : pc'[q] \in {"record", "drop"} =>
             pc'[q] = pc[q] /\ name'[q] = name[q] /\ at'[q] = at[q]
        /\ \A q \in Procs : pc[q] # "idle" =>
             \/ cmd[q] \in cut' \/ name[q] \in spoilt
             \/ pc'[q] = pc[q] /\ cmd'[q] = cmd[q] /\ name'[q] = name[q] /\ at'[q] = at[q]
    BY <1>2, Environment
  <2>2. Undisturbed' => Undisturbed /\ "create" \notin cut' /\ "delete" \notin cut' /\ spoilt = {}
    BY <2>1 DEF Undisturbed, Uncut, SpoiltInv
  <2>3. SUFFICES ASSUME Undisturbed', NEW c \in Clusters
                 PROVE  /\ Deleting(c) => Deleting(c)'
                        /\ PastNetwork(c)' <=> PastNetwork(c)
                        /\ Unreserving(c)' => Unreserving(c)
    BY <2>1, <2>2 DEF ResvInv, NAT
  <2>4. Deleting(c) => Deleting(c)'
    BY <2>1, <2>2, <2>3 DEF Deleting, Roles
  <2>5. Recording(c, CreateNetwork)' <=> Recording(c, CreateNetwork)
    <3>1. \A q \in Procs : pc[q] = "record" => cmd[q] = "create"
      BY DEF Roles, Creating, Applyings
    <3>2. QED BY <2>1, <2>2, <2>3, <3>1 DEF Recording
  <2>6. Unreserving(c)' => Unreserving(c)
    BY <2>1 DEF Unreserving
  <2>7. QED BY <2>1, <2>4, <2>5, <2>6 DEF PastNetwork
<1>3. QED BY <1>1, <1>2

LEMMA ResvInvariant == Spec /\ []Serial => []ResvInv
  BY SerialInvariant, SpoiltInvariant, TruthInvariant, ResvInit, ResvStep, NextMoves, PTL DEF Spec

\* ReservationHeld: although AddHost takes any "already" from virsh for its own
\* entry, the DHCP reservation of a NAT cluster past create-network is there.
THEOREM ReservationAlwaysHeld == Spec /\ []Serial => []ReservationHeld
<1>1. ResvInv => ReservationHeld
  BY DEF ResvInv, ReservationHeld, PastNetwork
<1>2. QED BY ResvInvariant, <1>1, PTL

-----------------------------------------------------------------------------
(* What pins an address is there only while its stage is recorded, or about  *)
(* to be; with deletes that are killed.                                      *)

Removing(c, s) == \E p \in Procs : name[p] = c /\ pc[p] \in {"removed", "drop"} /\ at[p] = s

HostInv ==
  /\ \A c \in Clusters : vm[c].st = "absent" => vm[c].ip = NoIP
  /\ Uncut({"create"}) => \A c \in Clusters :
       /\ iso[c] # NoIP => EmbedISO \in state[c] \/ InFlight(c, EmbedISO)
       /\ vm[c].st # "absent" => CreateVM \in state[c] \/ InFlight(c, CreateVM)
       /\ Removing(c, EmbedISO) => iso[c] = NoIP
       /\ Removing(c, CreateVM) => vm[c].st = "absent"

LEMMA HostInit == Init => HostInv
  BY DEF Init, HostInv, NoVM, Removing

LEMMA HostClose ==
  ASSUME TypeInv, Roles, Serial, NEW p \in Procs, NEW n \in Clusters, Alone(p, n), HostInv,
         Others(p), Elsewhere(n), UNCHANGED <<cmd, name>> \/ Exit(p),
         Uncut({"create"})' => Uncut({"create"}),
         vm'[n].st = "absent" => vm'[n].ip = NoIP,
         Uncut({"create"})' =>
           /\ iso'[n] # NoIP => EmbedISO \in state'[n] \/ (pc'[p] \in {"imported", "record"} /\ at'[p] = EmbedISO)
           /\ vm'[n].st # "absent" => CreateVM \in state'[n] \/ (pc'[p] \in {"imported", "record"} /\ at'[p] = CreateVM)
           /\ pc'[p] \in {"removed", "drop"} /\ at'[p] = EmbedISO => iso'[n] = NoIP
           /\ pc'[p] \in {"removed", "drop"} /\ at'[p] = CreateVM => vm'[n].st = "absent"
  PROVE  HostInv'
<1>1. pc[p] # "idle" /\ name[p] = n /\ TypeOK
  BY DEF Alone, TypeInv
<1>2. /\ \A q \in Procs \ {p} : pc'[q] = "idle"
      /\ pc'[p] # "idle" => name'[p] = n
  BY <1>1, OnlyTarget, ExitIs DEF Others
<1>3. \A c \in Clusters : vm'[c].st = "absent" => vm'[c].ip = NoIP
  BY DEF Elsewhere, HostInv
<1>4. ASSUME Uncut({"create"})', NEW c \in Clusters
      PROVE  /\ iso'[c] # NoIP => EmbedISO \in state'[c] \/ InFlight(c, EmbedISO)'
             /\ vm'[c].st # "absent" => CreateVM \in state'[c] \/ InFlight(c, CreateVM)'
             /\ Removing(c, EmbedISO)' => iso'[c] = NoIP
             /\ Removing(c, CreateVM)' => vm'[c].st = "absent"
  <2>1. CASE c = n
    <3>1. \A s : InFlight(n, s)' <=> pc'[p] \in {"imported", "record"} /\ at'[p] = s
      BY <1>2 DEF InFlight
    <3>2. \A s : Removing(n, s)' => pc'[p] \in {"removed", "drop"} /\ at'[p] = s
      BY <1>2 DEF Removing
    <3>3. QED BY <1>4, <2>1, <3>1, <3>2
  <2>2. CASE c # n
    <3>1. \A s : ~InFlight(c, s) /\ ~InFlight(c, s)' /\ ~Removing(c, s)'
      BY <1>1, <1>2, <2>2 DEF InFlight, Removing, Serial
    <3>2. QED BY <1>4, <2>2, <3>1 DEF HostInv, Elsewhere
  <2>3. QED BY <2>1, <2>2
<1>5. QED BY <1>3, <1>4 DEF HostInv

LEMMA HostCreate ==
  ASSUME Roles, PrefixInv, Serial, NEW p \in Procs, NEW n \in Clusters, Alone(p, n), HostInv, CreateStep(p)
  PROVE  HostInv'
<1> USE DEF Creating, Applyings
<1>0. /\ TypeInv /\ TypeOK /\ Others(p) /\ Elsewhere(n) /\ pc[p] \in Creating
      /\ (UNCHANGED <<cmd, name>> \/ Exit(p)) /\ name[p] = n /\ pc[p] # "idle"
      /\ pc \in [Procs -> PCs] /\ at \in [Procs -> 0..10] /\ at[p] \in 0..10 /\ faults \in Nat
      /\ state \in [Clusters -> SUBSET Stages] /\ done \in [Procs -> SUBSET Stages]
      /\ vm \in [Clusters -> VMs] /\ iso \in [Clusters -> Nat] /\ KnowsState(p)
  BY CreateOthers, ElsewhereCreate, ManagerAssumption DEF Alone, TypeInv, TypeOK, SerialInv
<1>1. \/ UNCHANGED vm
      \/ ApplyCreateVM(p)
      \/ ApplyFails(p) /\ vm'[n].st # "absent"
      \/ vm[n].st # "absent" /\ vm'[n].st # "absent"
  <2>1. NewVM(p).st = "on" /\ InstalledVM(n).st = "on"
    BY <1>0 DEF NewVM, InstalledVM, VMs
  <2>2. CASE ApplyFails(p)
    <3>1. UNCHANGED vm \/ vm' = [vm EXCEPT ![n] = NewVM(p)] \/ vm' = [vm EXCEPT ![n] = InstalledVM(n)]
      BY <1>0, <2>2 DEF ApplyFails, ImportISO, AddHost, SetVM, host
    <3>2. QED BY <1>0, <2>1, <2>2, <3>1
  <2>3. CASE ApplyWaitInstall(p)
    <3>1. vm[n].st # "absent" /\ vm' = [vm EXCEPT ![n] = InstalledVM(n)]
      BY <1>0, <2>3 DEF ApplyWaitInstall, Installable, SetVM
    <3>2. QED BY <1>0, <2>1, <3>1
  <2>4. CASE ~ApplyFails(p) /\ ~ApplyWaitInstall(p)
    BY <2>4 DEF CreateStep, LoadState, SkipApplied, Record, ApplyDone, Reassert, ApplyRegister,
     ApplyAllocate, PoolExhausted, ApplyUpsertDNS, ApplyEnsureDir, ApplyEmbedISO, Imported,
     ApplyCreateNetwork, ApplyFinalize, ApplyRefused, ImportISO, AddHost, host
  <2>5. QED BY <2>2, <2>3, <2>4
<1>2. ApplyCreateVM(p) => vm'[n].st # "absent"
  BY <1>0 DEF ApplyCreateVM, SetVM, NewVM
<1>3. vm'[n].st = "absent" => vm'[n].ip = NoIP
  BY <1>1, <1>2 DEF HostInv
<1>4. CASE ApplyFails(p)
  <2>1. ~Uncut({"create"})'
    BY <1>0, <1>4 DEF ApplyFails, Uncut
  <2>2. QED BY <1>0, <1>3, <2>1, HostClose
<1>5. CASE ~ApplyFails(p)
  <2>1. UNCHANGED <<cut, faults>>
    BY <1>5 DEF CreateStep, LoadState, SkipApplied, Record, ApplyDone, Reassert, ApplyRegister,
     ApplyAllocate, PoolExhausted, ApplyUpsertDNS, ApplyEnsureDir, ApplyEmbedISO, Imported,
     ApplyCreateNetwork, ApplyCreateVM, ApplyWaitInstall, ApplyFinalize, ApplyRefused,
     Applied, bounds
  <2>2. Uncut({"create"})' => Uncut({"create"})
    BY <2>1 DEF Uncut
  <2>3. /\ iso'[n] # NoIP => iso[n] # NoIP \/ ApplyEmbedISO(p)
        /\ vm'[n].st # "absent" => vm[n].st # "absent" \/ ApplyCreateVM(p)
    <3>1. UNCHANGED iso \/ ApplyEmbedISO(p)
      BY <1>0, <1>5 DEF CreateStep, LoadState, SkipApplied, Record, ApplyDone, Reassert, ApplyRegister,
     ApplyAllocate, PoolExhausted, ApplyUpsertDNS, ApplyEnsureDir, Imported, ApplyCreateVM,
     ApplyCreateNetwork, ApplyWaitInstall, ApplyFinalize, ApplyRefused, AddHost, SetVM, host
    <3>2. QED BY <1>1, <1>5, <3>1
  <2>4. \A s \in {EmbedISO, CreateVM} :
          \/ s \in state[n]
          \/ pc[p] \in {"imported", "record"} /\ at[p] = s
          \/ s = EmbedISO /\ ApplyEmbedISO(p)
          \/ s = CreateVM /\ ApplyCreateVM(p)
          => s \in state'[n] \/ (pc'[p] \in {"imported", "record"} /\ at'[p] = s)
    BY <1>0, <1>5 DEF CreateStep, LoadState, SkipApplied, Record, ApplyDone, Reassert, ApplyRegister,
     ApplyAllocate, PoolExhausted, ApplyUpsertDNS, ApplyEnsureDir, ApplyEmbedISO, Imported,
     ApplyCreateNetwork, ApplyCreateVM, ApplyWaitInstall, ApplyFinalize, ApplyRefused,
     Applied, Applying, Goto, Exit, files, local, KnowsState
  <2>5. \A s : InFlight(n, s) => pc[p] \in {"imported", "record"} /\ at[p] = s
    BY <1>0 DEF InFlight, Serial
  <2>6. pc'[p] \notin {"removed", "drop"}
    BY <1>0, CreateRoles, ExitIs DEF Alone
  <2>7. QED BY <1>0, <1>3, <2>2, <2>3, <2>4, <2>5, <2>6, HostClose DEF HostInv
<1>6. QED BY <1>4, <1>5

LEMMA HostPower ==
  ASSUME Roles, Serial, NEW p \in Procs, NEW n \in Clusters, Alone(p, n), HostInv, PowerStep(p)
  PROVE  HostInv'
<1> USE DEF Starting, Stopping
<1>0. /\ TypeInv /\ TypeOK /\ Others(p) /\ Elsewhere(n) /\ pc[p] \in Starting \cup Stopping
      /\ (UNCHANGED <<cmd, name>> \/ Exit(p)) /\ name[p] = n /\ pc[p] # "idle"
      /\ pc \in [Procs -> PCs] /\ vm \in [Clusters -> VMs] /\ faults \in Nat
  BY PowerOthers, ElsewherePower, ManagerAssumption DEF Alone, TypeInv, TypeOK
<1>1. UNCHANGED <<state, iso, cut>> /\ (faults' = faults \/ faults' = faults + 1)
  BY DEF PowerStep, Boot, BootRefused, BootFails, Started, Halt, HaltFails, MarkStopped, SetVM, host,
     files, bounds
<1>2. Uncut({"create"})' => Uncut({"create"})
  BY <1>0, <1>1 DEF Uncut
<1>3. vm'[n].ip = vm[n].ip /\ (vm'[n].st = "absent" <=> vm[n].st = "absent")
  BY <1>0 DEF PowerStep, Boot, BootRefused, BootFails, Started, Halt, HaltFails, MarkStopped, SetVM,
     host, files, PoweredOff, VMs
<1>4. pc'[p] \notin {"removed", "drop"}
  BY <1>0, PowerRoles, ExitIs DEF Alone
<1>5. \A s : ~InFlight(n, s)
  BY <1>0 DEF InFlight, Serial
<1>6. QED BY <1>0, <1>1, <1>2, <1>3, <1>4, <1>5, HostClose DEF HostInv

LEMMA HostDelete ==
  ASSUME Roles, PrefixInv, Serial, NEW p \in Procs, NEW n \in Clusters, Alone(p, n), HostInv, DeleteStep(p)
  PROVE  HostInv'
<1> USE DEF Unloading, Undoings
<1>0. /\ TypeInv /\ TypeOK /\ Others(p) /\ Elsewhere(n) /\ pc[p] \in Unloading
      /\ (UNCHANGED <<cmd, name>> \/ Exit(p)) /\ name[p] = n /\ pc[p] # "idle" /\ faults \in Nat
      /\ pc \in [Procs -> PCs] /\ at \in [Procs -> 0..10] /\ at[p] \in 0..10
      /\ state \in [Clusters -> SUBSET Stages] /\ done \in [Procs -> SUBSET Stages]
      /\ vm \in [Clusters -> VMs] /\ iso \in [Clusters -> Nat]
      /\ KnowsState(p) /\ (pc[p] \in Undoings => done[p] \subseteq 1..at[p])
  BY DeleteOthers, ElsewhereDelete, ManagerAssumption
     DEF Alone, TypeInv, TypeOK, SerialInv, PrefixInv, CopyInOrder
<1>1. /\ vm'[n].st # "absent" => vm[n].st # "absent"
      /\ vm'[n].ip # NoIP => vm'[n].ip = vm[n].ip
      /\ vm'[n].st = "absent" => vm[n].st = "absent" \/ vm'[n].ip = NoIP
      /\ iso'[n] # NoIP => iso[n] # NoIP
  BY <1>0 DEF DeleteStep, LoadRollback, SkipUnrecorded, Drop, RollbackDone, WipeDir, FinishDelete,
     RollbackFinalize, RollbackWaitInstall, RollbackCreateVM, RollbackCreateNetwork, RollbackEmbedISO,
     Removed, RollbackEnsureDir, RollbackUpsertDNS, RollbackAllocate, RollbackRegister, RollbackFails,
     host, SetVM, ImportISO, PoweredOff, VMs, NoVM
<1>2. vm'[n].st = "absent" => vm'[n].ip = NoIP
  BY <1>1 DEF HostInv
<1>3. CASE RollbackFails(p)
  <2>1. ~Uncut({"create"})'
    BY <1>0, <1>3 DEF RollbackFails, Uncut
  <2>2. QED BY <1>0, <1>2, <2>1, HostClose
<1>4. CASE ~RollbackFails(p)
  <2>1. UNCHANGED <<cut, faults>>
    BY <1>4 DEF DeleteStep, LoadRollback, SkipUnrecorded, Drop, RollbackDone, WipeDir, FinishDelete,
     RollbackFinalize, RollbackWaitInstall, RollbackCreateVM, RollbackCreateNetwork, RollbackEmbedISO,
     Removed, RollbackEnsureDir, RollbackUpsertDNS, RollbackAllocate, RollbackRegister, Undone, bounds
  <2>2. Uncut({"create"})' => Uncut({"create"})
    BY <2>1 DEF Uncut
  <2>3. \A s : ~InFlight(n, s)
    BY <1>0 DEF InFlight, Serial
  <2>4. \A s : pc[p] \in {"removed", "drop"} /\ at[p] = s => Removing(n, s)
    BY <1>0 DEF Removing
  \* Nothing is undone at a stage below that of what is still there.
  <2>5. /\ pc[p] \notin {"wipe", "flush"} \/ state[n] = {}
        /\ pc[p] \in Undoings => \A s \in state[n] : s \in done[p] /\ s <= at[p]
    BY <1>0 DEF KnowsState
  <2>6. ASSUME NEW s \in {EmbedISO, CreateVM}, s \in state[n],
               ~(s = EmbedISO /\ RollbackEmbedISO(p)), ~(s = CreateVM /\ RollbackCreateVM(p)),
               ~(pc[p] \in {"removed", "drop"} /\ at[p] = s)
        PROVE  s \in state'[n] /\ ~(pc'[p] \in {"removed", "drop"} /\ at'[p] = s)
    BY <1>0, <1>4, <2>5, <2>6 DEF DeleteStep, LoadRollback, SkipUnrecorded, Drop, RollbackDone, WipeDir,
     FinishDelete, RollbackFinalize, RollbackWaitInstall, RollbackCreateVM, RollbackCreateNetwork,
     RollbackEmbedISO, Removed, RollbackEnsureDir, RollbackUpsertDNS, RollbackAllocate, RollbackRegister,
     Undone, Undoing, Goto, Exit, files, local, Roles, Register, Allocate, UpsertDNS, EnsureDir, EmbedISO,
     CreateNetwork, CreateVM, WaitInstall, Finalize
  <2>7. RollbackEmbedISO(p) => iso'[n] = NoIP
    BY <1>0 DEF RollbackEmbedISO, ImportISO
  <2>8. RollbackCreateVM(p) => vm'[n].st = "absent"
    BY <1>0 DEF RollbackCreateVM, NoVM
  <2>9. Uncut({"create"}) =>
          /\ iso'[n] # NoIP => EmbedISO \in state[n] /\ ~(pc[p] \in {"removed", "drop"} /\ at[p] = EmbedISO)
                                /\ ~RollbackEmbedISO(p)
          /\ vm'[n].st # "absent" => CreateVM \in state[n] /\ ~(pc[p] \in {"removed", "drop"} /\ at[p] = CreateVM)
                                /\ ~RollbackCreateVM(p)
    BY <1>1, <2>3, <2>4, <2>7, <2>8 DEF HostInv
  <2>10. EmbedISO # CreateVM
    BY DEF EmbedISO, CreateVM
  <2>11. Uncut({"create"}) =>
          /\ iso'[n] # NoIP => EmbedISO \in state'[n] /\ ~(pc'[p] \in {"removed", "drop"} /\ at'[p] = EmbedISO)
          /\ vm'[n].st # "absent" => CreateVM \in state'[n] /\ ~(pc'[p] \in {"removed", "drop"} /\ at'[p] = CreateVM)
    BY <2>6, <2>9, <2>10
  <2>12. QED BY <1>0, <1>2, <2>2, <2>11, HostClose
<1>5. QED BY <1>3, <1>4

LEMMA HostStep ==
  ASSUME TypeInv, PrefixInv, Roles, Serial, SerialInv, HostInv, Moved
  PROVE  HostInv'
<1>1. ASSUME NEW p \in Procs, CreateStep(p) \/ PowerStep(p) \/ DeleteStep(p)
      PROVE  HostInv'
  <2>1. pc[p] # "idle"
    BY <1>1, CreateOthers, PowerOthers, DeleteOthers
       DEF Creating, Starting, Stopping, Unloading, Applyings, Undoings, TypeInv
  <2>2. PICK n \in Clusters : name[p] = n
    BY <2>1 DEF TypeInv, Targets
  <2>3. QED BY <1>1, <2>1, <2>2, HostCreate, HostPower, HostDelete DEF Alone
<1>2. CASE \A p \in Procs : ~CreateStep(p) /\ ~PowerStep(p) /\ ~DeleteStep(p)
  <2>1. /\ state' = state /\ iso' = iso /\ faults' = faults /\ cut \subseteq cut'
        /\ \A c \in Clusters : vm'[c] \in {vm[c], PoweredOff(vm[c])}
        /\ \A q \in Procs : pc'[q] \in {"removed", "drop"} =>
             pc'[q] = pc[q] /\ name'[q] = name[q] /\ at'[q] = at[q]
        /\ \A q \in Procs : pc[q] # "idle" =>
             \/ cmd[q] \in cut' \/ pc[q] \in {"load", "unload"}
             \/ pc'[q] = pc[q] /\ cmd'[q] = cmd[q] /\ name'[q] = name[q] /\ at'[q] = at[q]
    BY <1>2, Environment
  <2>2. Uncut({"create"})' => Uncut({"create"}) /\ "create" \notin cut'
    BY <2>1 DEF Uncut
  <2>3. \A c \in Clusters : vm'[c].ip = vm[c].ip /\ (vm'[c].st = "absent" <=> vm[c].st = "absent")
    BY <2>1 DEF PoweredOff, VMs, TypeInv, TypeOK
  <2>4. \A c, s : /\ Removing(c, s)' => Removing(c, s)
                  /\ InFlight(c, s) /\ "create" \notin cut' => InFlight(c, s)'
    <3>1. \A q \in Procs : pc[q] \in {"imported", "record"} => cmd[q] = "create"
      BY DEF Roles, Creating, Applyings
    <3>2. QED BY <2>1, <3>1 DEF Removing, InFlight
  <2>5. QED BY <2>1, <2>2, <2>3, <2>4 DEF HostInv
<1>3. QED BY <1>1, <1>2

-----------------------------------------------------------------------------
(* PinnedAddressesUnique.  What a cluster pins, in its ISO or its domain, is *)
(* an address that config.json shows used (a NAT cluster) or the cluster's   *)
(* own --master-ip, and no other cluster's record or copy holds it: nobody   *)
(* gives it back or hands it out.  The record of the cluster itself may be   *)
(* gone: a create that resumes on what a killed delete left does not         *)
(* register again.                                                           *)

\* Bridge clusters are given distinct addresses.
DistinctMasters == \A c, d \in Clusters : c # d /\ ~NAT(c) /\ ~NAT(d) => MasterIP[c] # MasterIP[d]

PinInv ==
  /\ \A q \in Procs : pc[q] = "idle" => mem[q] = EmptyConfig
  /\ Uncut({"create"}) => \A d \in Clusters :
       /\ Pinned(d) \subseteq IF NAT(d) THEN config.used ELSE {MasterIP[d]}
       /\ \A c \in Clusters \ {d} :
            /\ Pinned(c) \cap Pinned(d) = {}
            /\ config.data[c].ip \notin Pinned(d)
            /\ \A q \in Procs : mem[q].data[c].ip \notin Pinned(d)

LEMMA PinInit == Init => PinInv
  BY DEF Init, PinInv, Pinned, NoVM

\* A step of p at n: what it must not do to the pins and the records of others.
LEMMA PinClose ==
  ASSUME TypeInv, Roles, Serial, NEW p \in Procs, NEW n \in Clusters, Alone(p, n), PinInv,
         Others(p), Elsewhere(n), Exit(p) \/ pc'[p] # "idle",
         Uncut({"create"})' => Uncut({"create"}),
         Uncut({"create"})' =>
           /\ Pinned(n)' \subseteq IF NAT(n) THEN config'.used ELSE {MasterIP[n]}
           /\ \A d \in Clusters \ {n} : NAT(d) => Pinned(d) \subseteq config'.used
           /\ \A c \in Clusters \ {n} :
                /\ Pinned(c) \cap Pinned(n)' = {}
                /\ config.data[c].ip \notin Pinned(n)' /\ config'.data[n].ip \notin Pinned(c)
                /\ ~Exit(p) =>
                     /\ mem[p].data[c].ip \notin Pinned(n)' /\ mem'[p].data[n].ip \notin Pinned(c)
                     /\ mem'[p].data[c].ip = mem[p].data[c].ip
  PROVE  PinInv'
<1>1. /\ TypeOK /\ pc[p] # "idle" /\ name[p] = n
      /\ Exit(p) => pc'[p] = "idle" /\ mem'[p] = EmptyConfig
  BY ExitIs DEF Alone, TypeInv
<1>2. \A q \in Procs \ {p} : pc'[q] = "idle" /\ mem'[q] = EmptyConfig
  BY <1>1, OnlyTarget DEF Others, PinInv
<1>3. \A q \in Procs : pc'[q] = "idle" => mem'[q] = EmptyConfig
  BY <1>1, <1>2
<1>4. \A d \in Clusters \ {n} : Pinned(d)' = Pinned(d)
  BY DEF Elsewhere, Pinned
<1>5. \A c, d \in Clusters : NoIP \notin Pinned(d)' /\ EmptyConfig.data[c].ip = NoIP
  BY DEF Pinned, EmptyConfig, Blank
<1>6. ASSUME Uncut({"create"})', NEW d \in Clusters
      PROVE  /\ Pinned(d)' \subseteq IF NAT(d) THEN config'.used ELSE {MasterIP[d]}
             /\ \A c \in Clusters \ {d} :
                  /\ Pinned(c)' \cap Pinned(d)' = {}
                  /\ config'.data[c].ip \notin Pinned(d)'
                  /\ \A q \in Procs : mem'[q].data[c].ip \notin Pinned(d)'
  <2>1. /\ Pinned(d) \subseteq IF NAT(d) THEN config.used ELSE {MasterIP[d]}
        /\ \A c \in Clusters \ {d} :
             /\ Pinned(c) \cap Pinned(d) = {}
             /\ config.data[c].ip \notin Pinned(d)
             /\ \A q \in Procs : mem[q].data[c].ip \notin Pinned(d)
    BY <1>6 DEF PinInv
  <2>2. Pinned(d)' \subseteq IF NAT(d) THEN config'.used ELSE {MasterIP[d]}
    BY <1>4, <1>6, <2>1
  <2>3. ASSUME NEW c \in Clusters \ {d} PROVE Pinned(c)' \cap Pinned(d)' = {}
    BY <1>4, <1>6, <2>1, <2>3
  <2>4. ASSUME NEW c \in Clusters \ {d} PROVE config'.data[c].ip \notin Pinned(d)'
    BY <1>4, <1>6, <2>1, <2>4 DEF Elsewhere, SameBut
  <2>5. ASSUME NEW c \in Clusters \ {d}, NEW q \in Procs PROVE mem'[q].data[c].ip \notin Pinned(d)'
    <3>1. CASE pc'[q] = "idle"
      BY <1>3, <1>5, <2>5, <3>1
    <3>2. CASE pc'[q] # "idle"
      BY <1>1, <1>2, <1>4, <1>6, <2>1, <2>5, <3>2
    <3>3. QED BY <3>1, <3>2
  <2>6. QED BY <2>2, <2>3, <2>4, <2>5
<1>7. QED BY <1>3, <1>6 DEF PinInv, NAT

\* A step of a command cuts nothing short, and may be a failing call.
LEMMA StepBounds ==
  ASSUME TypeOK, NEW p \in Procs, CreateStep(p) \/ PowerStep(p) \/ DeleteStep(p)
  PROVE  /\ cut' = cut
         /\ \A S : Uncut(S)' => Uncut(S) /\ ~ApplyFails(p) /\ ~RollbackFails(p)
<1>0. faults \in Nat
  BY ManagerAssumption DEF TypeOK
<1>1. CASE CreateStep(p)
  <2>1. cut' = cut /\ faults' = (IF ApplyFails(p) THEN faults + 1 ELSE faults) /\ pc[p] # "rollback"
    BY <1>1 DEF CreateStep, LoadState, SkipApplied, Record, ApplyDone, Reassert, ApplyRegister,
     ApplyAllocate, PoolExhausted, ApplyUpsertDNS, ApplyEnsureDir, ApplyEmbedISO, Imported,
     ApplyCreateNetwork, ApplyCreateVM, ApplyWaitInstall, ApplyFinalize, ApplyRefused, ApplyFails,
     Applied, Applying, bounds
  <2>2. QED BY <1>0, <2>1 DEF Uncut, RollbackFails, Undoing
<1>2. CASE PowerStep(p)
  <2>1. cut' = cut /\ faults' \in {faults, faults + 1} /\ pc[p] \notin {"apply", "rollback"}
    BY <1>2 DEF PowerStep, Boot, BootRefused, BootFails, Started, Halt, HaltFails, MarkStopped, bounds
  <2>2. QED BY <1>0, <2>1 DEF Uncut, RollbackFails, Undoing, ApplyFails, Applying
<1>3. CASE DeleteStep(p)
  <2>1. cut' = cut /\ faults' = (IF RollbackFails(p) THEN faults + 1 ELSE faults) /\ pc[p] # "apply"
    BY <1>3 DEF DeleteStep, LoadRollback, SkipUnrecorded, Drop, RollbackDone, WipeDir, FinishDelete,
     RollbackFinalize, RollbackWaitInstall, RollbackCreateVM, RollbackCreateNetwork, RollbackEmbedISO,
     Removed, RollbackEnsureDir, RollbackUpsertDNS, RollbackAllocate, RollbackRegister, RollbackFails,
     Undone, Undoing, bounds
  <2>2. QED BY <1>0, <2>1 DEF Uncut, ApplyFails, Applying
<1>4. QED BY <1>1, <1>2, <1>3

\* The address of the target in p's copy and in config.json.
LEMMA OwnAddress ==
  ASSUME NEW p \in Procs, NEW n \in Clusters, Alone(p, n)
  PROVE  config.data[n].ip \in {Rec(p).ip, NoIP}
  BY AloneIs DEF Blank

\* A step that writes nothing and pins nothing new.
LEMMA PinFrame ==
  ASSUME Roles, Serial, NEW p \in Procs, NEW n \in Clusters, Alone(p, n), PinInv, Others(p), Elsewhere(n),
         CreateStep(p) \/ PowerStep(p) \/ DeleteStep(p), Exit(p) \/ (pc'[p] # "idle" /\ mem' = mem),
         config' = config, Pinned(n)' \subseteq Pinned(n)
  PROVE  PinInv'
<1>1. TypeInv /\ (Uncut({"create"})' => Uncut({"create"}))
  BY StepBounds DEF Alone, TypeInv
<1>2. Uncut({"create"}) =>
        /\ Pinned(n)' \subseteq IF NAT(n) THEN config.used ELSE {MasterIP[n]}
        /\ \A d \in Clusters \ {n} : NAT(d) => Pinned(d) \subseteq config.used
        /\ \A c \in Clusters \ {n} :
             /\ Pinned(c) \cap Pinned(n)' = {}
             /\ config.data[c].ip \notin Pinned(n)' /\ config.data[n].ip \notin Pinned(c)
             /\ mem[p].data[c].ip \notin Pinned(n)' /\ mem[p].data[n].ip \notin Pinned(c)
  BY DEF PinInv
<1>3. QED BY <1>1, <1>2, PinClose

\* A step that writes config.json and pins nothing.
LEMMA PinWrites ==
  ASSUME Roles, Serial, NEW p \in Procs, NEW n \in Clusters, Alone(p, n), PinInv, Others(p), Elsewhere(n),
         CreateStep(p) \/ PowerStep(p) \/ DeleteStep(p), Exit(p) \/ pc'[p] # "idle",
         NEW r, NEW K, NEW U, Writes(p, r, K, U), UNCHANGED <<vm, iso>>,
         Uncut({"create"}) =>
           \A d \in Clusters : /\ NAT(d) => Pinned(d) \subseteq U
                               /\ d # n => r.ip \notin Pinned(d)
  PROVE  PinInv'
<1>1. TypeInv /\ (Uncut({"create"})' => Uncut({"create"})) /\ name[p] = n
  BY StepBounds DEF Alone, TypeInv
<1>2. Pinned(n)' = Pinned(n)
  BY DEF Pinned
<1>3. /\ config'.used = U /\ config'.data[n].ip \in {r.ip, NoIP}
      /\ \A c \in Clusters \ {n} : config'.data[c] = config.data[c]
      /\ ~Exit(p) => /\ mem'[p].data[n] = r
                     /\ \A c \in Clusters \ {n} : mem'[p].data[c] = mem[p].data[c]
  BY <1>1, WritesIs, AloneIs DEF Blank
<1>4. \A c \in Clusters : NoIP \notin Pinned(c)
  BY DEF Pinned
<1>5. Uncut({"create"}) =>
        /\ Pinned(n) \subseteq IF NAT(n) THEN U ELSE {MasterIP[n]}
        /\ \A d \in Clusters \ {n} : NAT(d) => Pinned(d) \subseteq U
        /\ \A c \in Clusters \ {n} :
             /\ Pinned(c) \cap Pinned(n) = {}
             /\ config.data[c].ip \notin Pinned(n) /\ config'.data[n].ip \notin Pinned(c)
             /\ ~Exit(p) => mem[p].data[c].ip \notin Pinned(n) /\ mem'[p].data[n].ip \notin Pinned(c)
  BY <1>3, <1>4 DEF PinInv
<1>6. QED BY <1>1, <1>2, <1>3, <1>5, PinClose

\* The same, with the address of the target kept.
LEMMA PinKeeps ==
  ASSUME Roles, Serial, NEW p \in Procs, NEW n \in Clusters, Alone(p, n), PinInv, Others(p), Elsewhere(n),
         CreateStep(p) \/ PowerStep(p) \/ DeleteStep(p), Exit(p) \/ pc'[p] # "idle",
         NEW r, NEW K, Writes(p, r, K, mem[p].used), r.ip = Rec(p).ip, UNCHANGED <<vm, iso>>
  PROVE  PinInv'
<1>1. name[p] = n /\ mem[p].used = config.used
  BY AloneIs DEF Alone
<1>2. Uncut({"create"}) =>
           \A d \in Clusters : /\ NAT(d) => Pinned(d) \subseteq config.used
                               /\ d # n => r.ip \notin Pinned(d)
  BY <1>1 DEF PinInv, Rec
<1>3. QED BY <1>1, <1>2, PinWrites

LEMMA PinCreate ==
  ASSUME DistinctMasters, AddressInv, Roles, Serial, NEW p \in Procs, NEW n \in Clusters, Alone(p, n),
         PinInv, CreateStep(p)
  PROVE  PinInv'
<1> USE DEF Creating, Applyings
<1>0. /\ TypeInv /\ TypeOK /\ Others(p) /\ Elsewhere(n) /\ name[p] = n
      /\ Exit(p) \/ pc'[p] # "idle"
      /\ vm \in [Clusters -> VMs] /\ iso \in [Clusters -> Nat] /\ Rec(p) \in Records
      /\ config.used = mem[p].used /\ config.used \in SUBSET Pool
  BY CreateOthers, ElsewhereCreate, CreateRoles, AloneIs DEF Alone, TypeInv, TypeOK, Configs
<1>1. CASE ApplyEmbedISO(p) \/ (ApplyFails(p) /\ Applying(p, EmbedISO))
  <2>1. /\ UNCHANGED <<config, vm>> /\ iso'[n] \in {iso[n], NoIP, Rec(p).ip}
        /\ Exit(p) \/ mem' = mem
    BY <1>0, <1>1 DEF ApplyEmbedISO, ApplyFails, Applying, ImportISO, files, local, host,
       UpsertDNS, EmbedISO, CreateNetwork, CreateVM, WaitInstall
  <2>2. Pinned(n)' \subseteq Pinned(n) \cup ({Rec(p).ip} \ {NoIP})
    BY <2>1 DEF Pinned
  <2>3. CASE Rec(p).ip = NoIP
    BY <1>0, <2>1, <2>2, <2>3, PinFrame
  <2>4. CASE Rec(p).ip # NoIP
    <3> DEFINE x == mem[p].data[n].ip
    <3>1. Rec(p).ip = x /\ OneOwner(mem[p]) /\ OneOwner(config)
      BY <1>0 DEF Rec, AddressInv
    <3>2. x \in IF NAT(n) THEN config.used ELSE {MasterIP[n]}
      BY <1>0, <2>4, <3>1 DEF OneOwner
    <3>3. ASSUME NEW c \in Clusters \ {n}, NEW m, OneOwner(m), m.used = config.used,
                 m.data[n].ip = x \/ m = config
          PROVE  m.data[c].ip # x
      <4>1. NoIP \notin Pool /\ (~NAT(n) => MasterIP[n] \notin Pool) /\ (~NAT(c) => MasterIP[c] \notin Pool)
        BY ManagerAssumption DEF NoIP, Pool
      <4>2. config.data[n].ip \in {x, NoIP}
        BY <3>1, OwnAddress
      <4>3. CASE NAT(n) /\ NAT(c)
        <5>1. m.data[n].ip = x => m.data[c].ip # x
          BY <2>4, <3>1, <3>3, <4>3 DEF OneOwner
        <5>2. config.data[c].ip # x
          <6>1. config.data[c].ip \in {mem[p].data[c].ip, NoIP}
            BY <1>0, AloneIs, CopyIs DEF Tidy, Blank
          <6>2. QED BY <2>4, <3>1, <4>3, <6>1 DEF OneOwner
        <5>3. QED BY <3>3, <5>1, <5>2
      <4>4. CASE ~NAT(n) /\ ~NAT(c)
        BY <2>4, <3>1, <3>2, <3>3, <4>4 DEF OneOwner, DistinctMasters
      <4>5. CASE NAT(n) /\ ~NAT(c)
        BY <1>0, <2>4, <3>1, <3>2, <3>3, <4>1, <4>5 DEF OneOwner
      <4>6. CASE ~NAT(n) /\ NAT(c)
        BY <1>0, <2>4, <3>1, <3>2, <3>3, <4>1, <4>6 DEF OneOwner
      <4>7. QED BY <4>3, <4>4, <4>5, <4>6
    <3>4. \A c \in Clusters \ {n} : config.data[c].ip # x /\ mem[p].data[c].ip # x
      BY <1>0, <3>1, <3>3
    <3>5. Uncut({"create"})' => Uncut({"create"})
      BY <1>0, StepBounds
    <3>6. Uncut({"create"}) =>
           /\ Pinned(n) \subseteq IF NAT(n) THEN config.used ELSE {MasterIP[n]}
           /\ \A c \in Clusters \ {n} :
                /\ Pinned(c) \cap Pinned(n) = {}
                /\ config.data[c].ip \notin Pinned(n) /\ config.data[n].ip \notin Pinned(c)
                /\ mem[p].data[c].ip \notin Pinned(n) /\ x \notin Pinned(c)
                /\ NAT(c) => Pinned(c) \subseteq config.used
      BY DEF PinInv
    <3>7. Uncut({"create"}) =>
           /\ Pinned(n)' \subseteq IF NAT(n) THEN config.used ELSE {MasterIP[n]}
           /\ \A c \in Clusters \ {n} :
                /\ Pinned(c) \cap Pinned(n)' = {}
                /\ config.data[c].ip \notin Pinned(n)' /\ mem[p].data[c].ip \notin Pinned(n)'
      BY <2>2, <3>1, <3>2, <3>4, <3>6
    <3>8. QED BY <1>0, <2>1, <3>5, <3>6, <3>7, PinClose
  <2>5. QED BY <2>3, <2>4
<1>2. CASE ApplyAllocate(p)
  <2>1. UNCHANGED <<vm, iso>>
    BY <1>2 DEF ApplyAllocate, host
  <2>2. ASSUME NEW x, x \notin config.used, x = MasterIP[n] \/ (NAT(n) /\ x \in Pool), Uncut({"create"}),
               ~NAT(n) \/ x # MasterIP[n]
        PROVE  \A d \in Clusters \ {n} : x \notin Pinned(d)
    BY <2>2, <1>0, ManagerAssumption DEF PinInv, DistinctMasters
  <2>3. Uncut({"create"}) => \A d \in Clusters : NAT(d) => Pinned(d) \subseteq config.used
    BY DEF PinInv
  <2>4. NoIP \notin Pool /\ (~NAT(n) => MasterIP[n] \notin Pool)
    BY ManagerAssumption DEF NoIP, Pool
  <2>5. CASE UNCHANGED <<config, mem>>
    <3>1. Pinned(n)' = Pinned(n)
      BY <2>1 DEF Pinned
    <3>2. QED BY <1>0, <2>5, <3>1, PinFrame
  <2>6. ASSUME NAT(n), NEW x \in Pool \ mem[p].used,
               Writes(p, WithAddress(Rec(p), x), mem[p].known, mem[p].used \cup {x})
        PROVE  PinInv'
    <3>1. PICK r, K, U : r.ip = x /\ U = config.used \cup {x} /\ Writes(p, r, K, U)
      BY <1>0, <2>6 DEF WithAddress, Records
    <3>2. Uncut({"create"}) => \A d \in Clusters \ {n} : x \notin Pinned(d)
      BY <1>0, <2>2, <2>4, <2>6 DEF NAT
    <3>3. QED BY <1>0, <2>1, <2>3, <3>1, <3>2, PinWrites
  <2>7. ASSUME ~NAT(n), Writes(p, [Rec(p) EXCEPT !.ip = MasterIP[n]], mem[p].known, mem[p].used)
        PROVE  PinInv'
    <3>1. PICK r, K, U : r.ip = MasterIP[n] /\ U = config.used /\ Writes(p, r, K, U)
      BY <1>0, <2>7 DEF Records
    <3>2. Uncut({"create"}) => \A d \in Clusters \ {n} : MasterIP[n] \notin Pinned(d)
      BY <1>0, <2>2, <2>4, <2>7
    <3>3. QED BY <1>0, <2>1, <2>3, <3>1, <3>2, PinWrites
  <2>8. QED BY <1>0, <1>2, <2>5, <2>6, <2>7, AllocateWrites
<1>3. CASE ApplyRegister(p) /\ n \notin mem[p].known
  <2>1. PICK r, K, U : r.ip = Rec(p).ip /\ U = mem[p].used /\ Writes(p, r, K, U)
    BY <1>0, <1>3, RegisterWrites DEF RecPhase, Records
  <2>2. QED BY <1>0, <1>3, <2>1, PinKeeps DEF ApplyRegister, host
<1>4. CASE Imported(p)
  <2>1. PICK r, K, U : r.ip = Rec(p).ip /\ U = mem[p].used /\ Writes(p, r, K, U)
    BY <1>0, <1>4, BootWrites DEF Imported, Records
  <2>2. QED BY <1>0, <1>4, <2>1, PinKeeps DEF Imported, host
<1>5. CASE ApplyFinalize(p) \/ (Reassert(p) /\ config' # config)
  <2>1. PICK r, K, U : r.ip = Rec(p).ip /\ U = mem[p].used /\ Writes(p, r, K, U)
    <3>1. Writes(p, RecPhase(p, "running"), mem[p].known, mem[p].used)
      BY <1>0, <1>5, PhaseWrites DEF ApplyFinalize, Reassert, Save, Phases
    <3>2. QED BY <1>0, <3>1 DEF RecPhase, Records
  <2>2. QED BY <1>0, <1>5, <2>1, PinKeeps DEF ApplyFinalize, Reassert, host
<1>6. CASE /\ ~ApplyEmbedISO(p) /\ ~(ApplyFails(p) /\ Applying(p, EmbedISO)) /\ ~ApplyAllocate(p)
           /\ ~(ApplyRegister(p) /\ n \notin mem[p].known) /\ ~Imported(p) /\ ~ApplyFinalize(p)
           /\ ~(Reassert(p) /\ config' # config)
  <2>1. config' = config /\ (Exit(p) \/ mem' = mem)
    BY <1>0, <1>6 DEF CreateStep, LoadState, SkipApplied, Record, ApplyDone, Reassert, ApplyRegister,
     PoolExhausted, ApplyUpsertDNS, ApplyEnsureDir, ApplyCreateNetwork, ApplyCreateVM, ApplyWaitInstall,
     ApplyRefused, ApplyFails, files, local
  <2>2. NewVM(p).ip \in {iso[n], NoIP} /\ InstalledVM(n).ip = vm[n].ip
    BY <1>0 DEF NewVM, InstalledVM, VMs
  <2>3. UNCHANGED iso /\ (UNCHANGED vm \/ SetVM(n, NewVM(p)) \/ SetVM(n, InstalledVM(n)))
    BY <1>0, <1>6 DEF CreateStep, LoadState, SkipApplied, Record, ApplyDone, Reassert, ApplyRegister,
     PoolExhausted, ApplyUpsertDNS, ApplyEnsureDir, ApplyCreateNetwork, ApplyCreateVM, ApplyWaitInstall,
     ApplyRefused, ApplyFails, AddHost, SetVM, host
  <2>4. vm'[n].ip \in {vm[n].ip, iso[n], NoIP}
    BY <1>0, <2>2, <2>3 DEF SetVM
  <2>5. Pinned(n)' \subseteq Pinned(n)
    BY <2>3, <2>4 DEF Pinned
  <2>6. QED BY <1>0, <2>1, <2>5, PinFrame
<1>7. QED BY <1>1, <1>2, <1>3, <1>4, <1>5, <1>6

LEMMA PinPower ==
  ASSUME Roles, Serial, NEW p \in Procs, NEW n \in Clusters, Alone(p, n), PinInv, PowerStep(p)
  PROVE  PinInv'
<1>0. /\ TypeInv /\ TypeOK /\ Others(p) /\ Elsewhere(n) /\ name[p] = n
      /\ Exit(p) \/ pc'[p] # "idle"
      /\ vm \in [Clusters -> VMs] /\ Rec(p) \in Records
  BY PowerOthers, ElsewherePower, PowerRoles, AloneIs DEF Alone, TypeInv, TypeOK
<1>1. CASE Started(p) \/ MarkStopped(p)
  <2>1. PICK r, K, U : r.ip = Rec(p).ip /\ U = mem[p].used /\ Writes(p, r, K, U)
    <3>1. \E ph \in Phases : Writes(p, RecPhase(p, ph), mem[p].known, mem[p].used)
      <4>1. CASE Started(p)
        BY <1>0, <4>1, PhaseWrites DEF Started, Phases
      <4>2. CASE MarkStopped(p)
        BY <1>0, <4>2, PhaseWrites DEF MarkStopped, Save, Phases
      <4>3. QED BY <1>1, <4>1, <4>2
    <3>2. QED BY <1>0, <3>1 DEF RecPhase, Records
  <2>2. QED BY <1>0, <1>1, <2>1, PinKeeps DEF Started, MarkStopped, host
<1>2. CASE ~Started(p) /\ ~MarkStopped(p)
  <2>1. config' = config /\ (Exit(p) \/ mem' = mem) /\ UNCHANGED iso
    BY <1>2 DEF PowerStep, Boot, BootRefused, BootFails, Halt, HaltFails, SetVM, host, files, local
  <2>2. vm'[n].ip = vm[n].ip
    BY <1>0, <1>2 DEF PowerStep, Boot, BootRefused, BootFails, Halt, HaltFails, SetVM, host, PoweredOff, VMs
  <2>3. Pinned(n)' = Pinned(n)
    BY <2>1, <2>2 DEF Pinned
  <2>4. QED BY <1>0, <2>1, <2>3, PinFrame
<1>3. QED BY <1>1, <1>2

LEMMA PinDelete ==
  ASSUME PrefixInv, Roles, Serial, NEW p \in Procs, NEW n \in Clusters, Alone(p, n), HostInv, PinInv,
         DeleteStep(p)
  PROVE  PinInv'
<1>0. /\ TypeInv /\ TypeOK /\ Others(p) /\ Elsewhere(n) /\ name[p] = n
      /\ Exit(p) \/ pc'[p] # "idle"
      /\ vm \in [Clusters -> VMs] /\ Rec(p) \in Records /\ config.used = mem[p].used
  BY DeleteOthers, ElsewhereDelete, DeleteRoles, AloneIs
     DEF Alone, TypeInv, TypeOK, Unloading, Undoings
<1>1. CASE RollbackFinalize(p) \/ Removed(p) \/ RollbackRegister(p)
  <2>1. PICK r, K, U : r.ip = Rec(p).ip /\ U = mem[p].used /\ Writes(p, r, K, U)
    <3>1. CASE RollbackFinalize(p)
      <4>1. Writes(p, RecPhase(p, "creating"), mem[p].known, mem[p].used)
        BY <1>0, <3>1, PhaseWrites DEF RollbackFinalize, Save, Phases
      <4>2. QED BY <1>0, <4>1 DEF RecPhase, Records
    <3>2. CASE Removed(p)
      BY <1>0, <3>2, BootWrites DEF Removed, Records
    <3>3. CASE RollbackRegister(p)
      BY <1>0, <3>3, UnregisterWrites
    <3>4. QED BY <1>1, <3>1, <3>2, <3>3
  <2>2. QED BY <1>0, <1>1, <2>1, PinKeeps DEF RollbackFinalize, Removed, RollbackRegister, host
\* An address is given back when its cluster pins nothing any more.
<1>2. CASE RollbackAllocate(p)
  <2>1. PICK r, K, U : r.ip = NoIP /\ U = config.used \ {Rec(p).ip} /\ Writes(p, r, K, U)
    BY <1>0, <1>2, ReleaseWrites DEF Records
  <2>2. Uncut({"create"}) => Pinned(n) = {}
    <3>1. pc[p] = "rollback" /\ at[p] = Allocate
      BY <1>2 DEF RollbackAllocate, Undoing
    <3>2. EmbedISO \notin state[n] /\ CreateVM \notin state[n]
      <4>1. state[n] \subseteq done[p] /\ done[p] \subseteq 1..Allocate
        BY <1>0, <3>1 DEF Alone, SerialInv, KnowsState, PrefixInv, CopyInOrder, Undoings
      <4>2. QED BY <4>1 DEF Allocate, EmbedISO, CreateVM
    <3>3. \A s : ~InFlight(n, s)
      BY <1>0, <3>1, OnlyTarget
    <3>4. QED BY <3>2, <3>3 DEF HostInv, Pinned
  <2>3. Uncut({"create"}) =>
           \A d \in Clusters : /\ NAT(d) => Pinned(d) \subseteq U
                               /\ d # n => NoIP \notin Pinned(d)
    <3>1. \A d \in Clusters : NoIP \notin Pinned(d)
      BY DEF Pinned
    <3>2. Uncut({"create"}) => \A d \in Clusters \ {n} :
            (NAT(d) => Pinned(d) \subseteq config.used) /\ Rec(p).ip \notin Pinned(d)
      BY <1>0 DEF PinInv, Rec
    <3>3. QED BY <2>1, <2>2, <3>1, <3>2
  <2>4. QED BY <1>0, <1>2, <2>1, <2>3, PinWrites DEF RollbackAllocate, host
<1>3. CASE ~RollbackFinalize(p) /\ ~Removed(p) /\ ~RollbackRegister(p) /\ ~RollbackAllocate(p)
  <2>1. config' = config /\ (Exit(p) \/ mem' = mem)
    <3>1. CASE FinishDelete(p)
      BY <3>1, AloneIs DEF FinishDelete
    <3>2. CASE ~FinishDelete(p)
      BY <1>3, <3>2 DEF DeleteStep, LoadRollback, SkipUnrecorded, Drop, RollbackDone, WipeDir,
     RollbackWaitInstall, RollbackCreateVM, RollbackCreateNetwork, RollbackEmbedISO, RollbackEnsureDir,
     RollbackUpsertDNS, RollbackFails, files, local
    <3>3. QED BY <3>1, <3>2
  <2>2. vm'[n].ip \in {vm[n].ip, NoIP} /\ iso'[n] \in {iso[n], NoIP}
    BY <1>0, <1>3 DEF DeleteStep, LoadRollback, SkipUnrecorded, Drop, RollbackDone, WipeDir, FinishDelete,
     RollbackWaitInstall, RollbackCreateVM, RollbackCreateNetwork, RollbackEmbedISO, RollbackEnsureDir,
     RollbackUpsertDNS, RollbackFails, SetVM, ImportISO, PoweredOff, VMs, NoVM, host, TypeOK
  <2>3. Pinned(n)' \subseteq Pinned(n)
    BY <2>2 DEF Pinned
  <2>4. QED BY <1>0, <2>1, <2>3, PinFrame
<1>4. QED BY <1>1, <1>2, <1>3

LEMMA PinStep ==
  ASSUME DistinctMasters, TypeInv, PrefixInv, AddressInv, Roles, Serial, SerialInv, HostInv, PinInv,
         Moved, TypeInv'
  PROVE  PinInv'
<1>1. ASSUME NEW p \in Procs, CreateStep(p) \/ PowerStep(p) \/ DeleteStep(p)
      PROVE  PinInv'
  <2>1. pc[p] # "idle"
    BY <1>1, CreateOthers, PowerOthers, DeleteOthers
       DEF Creating, Starting, Stopping, Unloading, Applyings, Undoings, TypeInv
  <2>2. PICK n \in Clusters : name[p] = n
    BY <2>1 DEF TypeInv, Targets
  <2>3. QED BY <1>1, <2>1, <2>2, PinCreate, PinPower, PinDelete DEF Alone
<1>2. CASE \A p \in Procs : ~CreateStep(p) /\ ~PowerStep(p) /\ ~DeleteStep(p)
  <2>1. /\ config' = config /\ iso' = iso /\ faults' = faults /\ cut \subseteq cut'
        /\ \A c \in Clusters : vm'[c] \in {vm[c], PoweredOff(vm[c])}
    BY <1>2, Environment
  <2>2. Uncut({"create"})' => Uncut({"create"})
    BY <2>1 DEF Uncut
  <2>3. \A c \in Clusters : Pinned(c)' = Pinned(c)
    BY <2>1 DEF PoweredOff, VMs, TypeInv, TypeOK, Pinned
  <2>4. \A q \in Procs : /\ pc'[q] = "idle" => mem'[q] = EmptyConfig
                        /\ mem'[q] \in {mem[q], EmptyConfig, config}
    BY <1>2, Environment DEF PinInv
  <2>5. \A c, d \in Clusters : EmptyConfig.data[c].ip = NoIP /\ NoIP \notin Pinned(d)
    BY DEF Pinned, EmptyConfig, Blank
  <2>6. ASSUME Uncut({"create"})', NEW d \in Clusters
        PROVE  /\ Pinned(d) \subseteq IF NAT(d) THEN config.used ELSE {MasterIP[d]}
               /\ \A c \in Clusters \ {d} :
                    /\ Pinned(c) \cap Pinned(d) = {}
                    /\ config.data[c].ip \notin Pinned(d)
                    /\ \A q \in Procs : mem'[q].data[c].ip \notin Pinned(d)
    BY <2>2, <2>4, <2>5, <2>6 DEF PinInv
  <2>7. QED BY <2>1, <2>3, <2>4, <2>6 DEF PinInv, NAT
<1>3. QED BY <1>1, <1>2

LEMMA HostInvariant == Spec /\ []Serial => []HostInv
  BY SerialInvariant, HostInit, HostStep, NextMoves, PTL DEF Spec

LEMMA PinInvariant == ASSUME DistinctMasters PROVE Spec /\ []Serial => []PinInv
<1>1. TypeInv /\ PrefixInv /\ AddressInv /\ Roles /\ Serial /\ SerialInv /\ HostInv /\ PinInv
      /\ Moved /\ TypeInv' => PinInv'
  BY PinStep
<1>2. QED BY SerialInvariant, HostInvariant, PinInit, NextMoves, <1>1, PTL DEF Spec

\* PinnedAddressesUnique: what an ISO or a domain pins (embed-ignition-iso,
\* create-vm) no other cluster's pins, with deletes killed half way.  The code
\* takes --master-ip as given: two clusters given the same one do collide.
THEOREM PinsAlwaysUnique ==
  ASSUME DistinctMasters PROVE Spec /\ []Serial => []PinnedAddressesUnique
<1>1. PinInv => PinnedAddressesUnique
  BY DEF PinInv, PinnedAddressesUnique
<1>2. QED BY PinInvariant, <1>1, PTL

-----------------------------------------------------------------------------
(* DeleteLeavesNothing.  A registration is there only while its stage is     *)
(* recorded in state.json, about to be, or known to the delete that is to    *)
(* undo it: it removes state.json half way.                                  *)

Kept(p, c, s) ==
  \/ s \in state[c]
  \/ pc[p] = "record" /\ at[p] = s
  \/ pc[p] \in Undoings /\ s \in done[p]

Held(c, s) == s \in state[c] \/ \E p \in Procs : name[p] = c /\ Kept(p, c, s)

LeftInv == Undisturbed => \A c \in Clusters : c \in config.known => Held(c, Register)

LEMMA LeftInit == Init => LeftInv
  BY DEF Init, LeftInv, EmptyConfig

LEMMA LeftClose ==
  ASSUME TypeInv, Roles, Serial, NEW p \in Procs, NEW n \in Clusters, Alone(p, n), LeftInv,
         Others(p), Elsewhere(n), UNCHANGED name \/ Exit(p), Undisturbed' => Undisturbed,
         Undisturbed' /\ n \in config'.known => Kept(p, n, Register)'
  PROVE  LeftInv'
<1>1. pc[p] # "idle" /\ name[p] = n /\ TypeOK
  BY DEF Alone, TypeInv
<1>2. /\ \A q \in Procs \ {p} : pc'[q] = "idle"
      /\ pc'[p] # "idle" => name'[p] = n
  BY <1>1, OnlyTarget, ExitIs DEF Others
<1>3. ASSUME Undisturbed', NEW c \in Clusters, c \in config'.known
      PROVE  Held(c, Register)'
  <2>1. CASE c = n
    <3>1. \A s : Kept(p, n, s)' => Held(n, s)'
      BY <1>2 DEF Kept, Held, Undoings
    <3>2. QED BY <1>3, <2>1, <3>1
  <2>2. CASE c # n
    <3>1. \A s : Held(c, s) => s \in state[c]
      BY <1>1, <2>2 DEF Held, Kept, Serial, Undoings
    <3>2. \A s : s \in state'[c] => Held(c, s)'
      BY DEF Held
    <3>3. QED BY <1>3, <2>2, <3>1, <3>2 DEF LeftInv, Elsewhere, SameBut
  <2>3. QED BY <2>1, <2>2
<1>4. QED BY <1>3 DEF LeftInv

LEMMA HeldIs ==
  ASSUME Serial, NEW p \in Procs, NEW n \in Clusters, Alone(p, n)
  PROVE  \A s : Held(n, s) <=> Kept(p, n, s)
  BY DEF Held, Kept, Serial, Alone, Undoings

LEMMA LeftCreate ==
  ASSUME Roles, Serial, NEW p \in Procs, NEW n \in Clusters, Alone(p, n), LeftInv, CreateStep(p)
  PROVE  LeftInv'
<1> USE DEF Creating, Applyings
<1>0. /\ TypeInv /\ TypeOK /\ Others(p) /\ Elsewhere(n) /\ pc[p] \in Creating
      /\ (UNCHANGED name \/ Exit(p)) /\ name[p] = n /\ pc[p] # "idle"
      /\ pc \in [Procs -> PCs] /\ at \in [Procs -> 0..10] /\ at[p] \in 0..10 /\ faults \in Nat
      /\ state \in [Clusters -> SUBSET Stages] /\ done \in [Procs -> SUBSET Stages] /\ KnowsState(p)
  BY CreateOthers, ElsewhereCreate, ManagerAssumption DEF Alone, TypeInv, TypeOK, SerialInv
<1>1. CASE ApplyFails(p)
  <2>1. ~Undisturbed'
    BY <1>0, <1>1 DEF ApplyFails, Undisturbed, Uncut
  <2>2. QED BY <1>0, <2>1, LeftClose
<1>2. CASE ~ApplyFails(p)
  <2>1. UNCHANGED <<cut, faults>>
    BY <1>2 DEF CreateStep, LoadState, SkipApplied, Record, ApplyDone, Reassert, ApplyRegister,
     ApplyAllocate, PoolExhausted, ApplyUpsertDNS, ApplyEnsureDir, ApplyEmbedISO, Imported,
     ApplyCreateNetwork, ApplyCreateVM, ApplyWaitInstall, ApplyFinalize, ApplyRefused,
     Applied, bounds
  <2>2. Undisturbed' => Undisturbed
    BY <2>1 DEF Undisturbed, Uncut
  <2>3. n \in config'.known => n \in config.known \/ ApplyRegister(p)
    BY CreateFiles, AllocateFile DEF CreateFile, Keeps
  <2>5. Register \in state[n] \/ (pc[p] = "record" /\ at[p] = Register) \/ ApplyRegister(p)
          => Register \in state'[n] \/ (pc'[p] = "record" /\ at'[p] = Register)
    BY <1>0, <1>2 DEF CreateStep, LoadState, SkipApplied, Record, ApplyDone, Reassert, ApplyRegister,
     ApplyAllocate, PoolExhausted, ApplyUpsertDNS, ApplyEnsureDir, ApplyEmbedISO, Imported,
     ApplyCreateNetwork, ApplyCreateVM, ApplyWaitInstall, ApplyFinalize, ApplyRefused,
     Applied, Applying, Goto, Exit, files, local, KnowsState, Roles, EmbedISO, Register, UpsertDNS
  <2>6. \A s : Held(n, s) => s \in state[n] \/ (pc[p] = "record" /\ at[p] = s)
    BY <1>0, HeldIs DEF Kept, Undoings
  <2>7. QED BY <1>0, <2>2, <2>3, <2>5, <2>6, LeftClose DEF LeftInv, Kept
<1>3. QED BY <1>1, <1>2

LEMMA LeftPower ==
  ASSUME Roles, Serial, NEW p \in Procs, NEW n \in Clusters, Alone(p, n), LeftInv, PowerStep(p)
  PROVE  LeftInv'
<1> USE DEF Starting, Stopping
<1>0. /\ TypeInv /\ TypeOK /\ Others(p) /\ Elsewhere(n) /\ pc[p] \in Starting \cup Stopping
      /\ (UNCHANGED name \/ Exit(p)) /\ name[p] = n /\ pc[p] # "idle" /\ faults \in Nat
  BY PowerOthers, ElsewherePower, ManagerAssumption DEF Alone, TypeInv, TypeOK
<1>1. UNCHANGED <<state, cut>> /\ (faults' = faults \/ faults' = faults + 1)
  BY DEF PowerStep, Boot, BootRefused, BootFails, Started, Halt, HaltFails, MarkStopped, SetVM, host,
     files, bounds
<1>2. Undisturbed' => Undisturbed
  BY <1>0, <1>1 DEF Undisturbed, Uncut
<1>3. n \in config'.known => n \in config.known
  BY PowerFiles DEF PowerFile, Keeps
<1>5. \A s : Held(n, s) => s \in state[n]
  BY <1>0, HeldIs DEF Kept, Undoings
<1>6. QED BY <1>0, <1>1, <1>2, <1>3, <1>5, LeftClose DEF LeftInv, Kept

LEMMA LeftDelete ==
  ASSUME Roles, PrefixInv, Serial, NEW p \in Procs, NEW n \in Clusters, Alone(p, n), LeftInv, DeleteStep(p)
  PROVE  LeftInv'
<1> USE DEF Unloading, Undoings
<1>0. /\ TypeInv /\ TypeOK /\ Others(p) /\ Elsewhere(n) /\ pc[p] \in Unloading
      /\ (UNCHANGED name \/ Exit(p)) /\ name[p] = n /\ pc[p] # "idle" /\ faults \in Nat
      /\ pc \in [Procs -> PCs] /\ at \in [Procs -> 0..10] /\ at[p] \in 0..10
      /\ state \in [Clusters -> SUBSET Stages] /\ done \in [Procs -> SUBSET Stages]
      /\ KnowsState(p) /\ KnowsPhase(p) /\ (pc[p] \in Undoings => done[p] \subseteq 1..at[p])
  BY DeleteOthers, ElsewhereDelete, ManagerAssumption
     DEF Alone, TypeInv, TypeOK, SerialInv, PrefixInv, CopyInOrder
<1>1. CASE RollbackFails(p)
  <2>1. ~Undisturbed'
    BY <1>0, <1>1 DEF RollbackFails, Undisturbed, Uncut
  <2>2. QED BY <1>0, <2>1, LeftClose
<1>2. CASE ~RollbackFails(p)
  <2>1. UNCHANGED <<cut, faults>>
    BY <1>2 DEF DeleteStep, LoadRollback, SkipUnrecorded, Drop, RollbackDone, WipeDir, FinishDelete,
     RollbackFinalize, RollbackWaitInstall, RollbackCreateVM, RollbackCreateNetwork, RollbackEmbedISO,
     Removed, RollbackEnsureDir, RollbackUpsertDNS, RollbackAllocate, RollbackRegister, Undone, bounds
  <2>2. Undisturbed' => Undisturbed
    BY <2>1 DEF Undisturbed, Uncut
  <2>3. n \in config'.known => n \in config.known /\ ~RollbackRegister(p)
    <3>1. RollbackRegister(p) => n \notin config'.known
      BY UnregisterFile
    <3>2. n \in config'.known => n \in config.known
      BY DeleteFiles DEF DeleteFile, Keeps
    <3>3. QED BY <3>1, <3>2
  \* Register, unless it is undone or dropped, stays known.
  <2>5. /\ pc[p] \in Undoings => state[n] \subseteq done[p] /\ \A s \in done[p] : s <= at[p]
        /\ pc[p] \in {"wipe", "flush"} => state[n] = {}
    BY <1>0 DEF KnowsState
  <2>6. ASSUME Kept(p, n, Register), ~RollbackRegister(p),
               ~(pc[p] \in {"removed", "drop"} /\ at[p] = Register)
        PROVE  Kept(p, n, Register)'
    BY <1>0, <1>2, <2>5, <2>6 DEF Kept, DeleteStep, LoadRollback, SkipUnrecorded, Drop, RollbackDone,
     WipeDir, FinishDelete, RollbackFinalize, RollbackWaitInstall, RollbackCreateVM,
     RollbackCreateNetwork, RollbackEmbedISO, Removed, RollbackEnsureDir, RollbackUpsertDNS,
     RollbackAllocate, RollbackRegister, Undone, Undoing, Goto, Exit, files, local, Roles, Register,
     Allocate, UpsertDNS, EnsureDir, EmbedISO, CreateNetwork, CreateVM, WaitInstall, Finalize
  <2>7. Undisturbed /\ n \in config.known =>
          Kept(p, n, Register) /\ ~(pc[p] \in {"removed", "drop"} /\ at[p] = Register)
    <3>1. ~(pc[p] = "removed" /\ at[p] = Register)
      BY DEF Roles, EmbedISO, Register
    <3>2. n \in config.known => ~(pc[p] = "drop" /\ at[p] = Register)
      BY <1>0 DEF KnowsPhase
    <3>3. QED BY <3>1, <3>2, HeldIs DEF LeftInv
  <2>8. QED BY <1>0, <2>2, <2>3, <2>6, <2>7, LeftClose
<1>3. QED BY <1>1, <1>2

LEMMA LeftStep ==
  ASSUME TypeInv, PrefixInv, Roles, Serial, SerialInv, LeftInv, Moved
  PROVE  LeftInv'
<1>1. ASSUME NEW p \in Procs, CreateStep(p) \/ PowerStep(p) \/ DeleteStep(p)
      PROVE  LeftInv'
  <2>1. pc[p] # "idle"
    BY <1>1, CreateOthers, PowerOthers, DeleteOthers
       DEF Creating, Starting, Stopping, Unloading, Applyings, Undoings, TypeInv
  <2>2. PICK n \in Clusters : name[p] = n
    BY <2>1 DEF TypeInv, Targets
  <2>3. QED BY <1>1, <2>1, <2>2, LeftCreate, LeftPower, LeftDelete DEF Alone
<1>2. CASE \A p \in Procs : ~CreateStep(p) /\ ~PowerStep(p) /\ ~DeleteStep(p)
  <2>1. /\ config' = config /\ state' = state /\ faults' = faults /\ cut \subseteq cut'
        /\ \A q \in Procs : pc[q] # "idle" =>
             \/ cmd[q] \in cut' \/ pc[q] \in {"load", "unload"}
             \/ pc'[q] = pc[q] /\ name'[q] = name[q] /\ done'[q] = done[q] /\ at'[q] = at[q]
    BY <1>2, Environment
  <2>2. Undisturbed' => Undisturbed /\ "create" \notin cut' /\ "delete" \notin cut'
    BY <2>1 DEF Undisturbed, Uncut
  <2>3. \A q \in Procs : pc[q] \in {"record"} \cup Undoings => cmd[q] \in {"create", "delete"}
    BY DEF Roles, Creating, Applyings, Unloading
  <2>4. \A c \in Clusters : \A s : Held(c, s) /\ Undisturbed' => Held(c, s)'
    BY <2>1, <2>2, <2>3 DEF Held, Kept, Undoings
  <2>5. QED BY <2>1, <2>2, <2>4 DEF LeftInv
<1>3. QED BY <1>1, <1>2

\* DeleteLeavesNothing: what a delete that returns success has removed, for
\* any clusters, any number of processes, any bounds on crashes and failures.
THEOREM DeletesLeaveNothing == Spec /\ []Serial => DeleteLeavesNothing
<1>1. ASSUME TypeInv, Roles, Serial, SerialInv, HostInv, ResvInv, LeftInv,
             NEW p \in Procs, NEW c \in Clusters, name[p] = c, FinishDelete(p), Undisturbed
      PROVE  Gone(c)'
  <2>1. pc[p] = "flush" /\ UNCHANGED <<state, vm, iso, resv>> /\ Alone(p, c)
    BY <1>1 DEF FinishDelete, host, Alone
  <2>2. config' = config /\ state[c] = {}
    <3>1. config' = Saved(mem[p])
      BY <1>1 DEF FinishDelete
    <3>2. QED BY <2>1, <3>1, AloneIs DEF Alone, SerialInv, KnowsState
  <2>3. \A s : ~InFlight(c, s) /\ ~Held(c, s) /\ ~Recording(c, s)
    BY <1>1, <2>1, <2>2 DEF InFlight, Held, Kept, Recording, Serial, Undoings
  <2>4. vm[c].st = "absent" /\ iso[c] = NoIP
    BY <1>1, <2>2, <2>3 DEF HostInv, Undisturbed, Uncut
  <2>5. c \notin config.known
    BY <1>1, <2>3 DEF LeftInv
  <2>6. \A r \in resv : r[1] # c
    <3>1. \A a \in Nat : <<c, a>> \notin resv
      BY <1>1, <2>2, <2>3 DEF ResvInv, PastNetwork
    <3>2. QED BY <1>1, <3>1 DEF TypeInv, TypeOK
  <2>7. QED BY <2>1, <2>2, <2>4, <2>5, <2>6 DEF Gone
<1>2. TypeInv /\ PrefixInv /\ Roles /\ Serial /\ SerialInv /\ LeftInv /\ Moved => LeftInv'
  BY LeftStep
<1>3. TypeInv /\ Roles /\ Serial /\ SerialInv /\ HostInv /\ ResvInv /\ LeftInv
        => [\A p \in Procs, c \in Clusters :
              name[p] = c /\ FinishDelete(p) /\ Undisturbed => Gone(c)']_vars
  BY <1>1
<1>4. QED
  BY SerialInvariant, HostInvariant, ResvInvariant, LeftInit, NextMoves, <1>2, <1>3, PTL
     DEF Spec, DeleteLeavesNothing

-----------------------------------------------------------------------------
(* Resets (NATReset).  A step of ResetSpec is a step of a command, a command *)
(* that ends for want of the network, or a step of a reset: that leaves the  *)
(* processes alone, and config.json but for what it prunes.                  *)

Plans == [force : BOOLEAN, recreate : BOOLEAN, orphans : SUBSET (Clusters \X Nat),
          leaked : SUBSET Pool, restore : SUBSET Clusters]

ResetTypes ==
  /\ net \in {"absent", "outdated", "current"}
  /\ rpc \in {"idle", "inspect", "probe", "recreate", "ensure", "apply"}
  /\ rcopy \in Configs /\ plan \in Plans

ResetTouches ==
  /\ rpc # "idle"
  /\ UNCHANGED <<state, vm, iso, pc, local, cut>>
  /\ config' = config \/ Prune
  /\ resv' \subseteq Clusters \X Nat
  /\ crashes' \in 0..MaxCrashes /\ faults' \in 0..MaxFaults
  /\ crashes <= crashes' /\ faults <= faults'

\* What a reset reads and plans.  Its copy has one owner of every address, and
\* it plans to release none that belongs to a cluster of the copy.
ResetInv ==
  /\ ResetTypes
  /\ OneOwner(rcopy)
  /\ rpc = "idle" => plan.restore = {}
  /\ \A c \in rcopy.known : rcopy.data[c].ip \notin plan.leaked

LEMMA ResetParts ==
  [ResetNext]_allVars =>
    Managers \/ LaunchReset \/ ResetStep \/ ResetCrash \/ Reboot \/ UNCHANGED allVars
  BY DEF ResetNext, LoadConfigFails, allVars

LEMMA ResetKinds ==
  ASSUME TypeInv, ResetInv, [ResetNext]_allVars
  PROVE  Moved \/ (\E p \in Procs : NoNetwork(p)) \/ ResetTouches
<1>1. TypeOK /\ ResetTypes /\ MaxCrashes \in Nat /\ MaxFaults \in Nat
  BY ManagerAssumption DEF TypeInv, ResetInv
<1>2. CASE Managers
  BY <1>2 DEF Managers, Manager, Step, Moved
<1>3. CASE LaunchReset \/ Inspect \/ NothingToDo \/ Rebuild \/ UNCHANGED allVars
  BY <1>3 DEF LaunchReset, Inspect, NothingToDo, Rebuild, allVars, Moved
<1>4. CASE Reboot
  BY <1>4 DEF Reboot, Moved
<1>5. CASE Probe \/ ResetFails \/ ResetCrash
  BY <1>1, <1>5 DEF Probe, ResetFails, ResetCrash, ResetInv, ResetTouches, Spare, TypeOK, files, host, local
<1>6. CASE ResetNetwork \/ Prune \/ \E r \in plan.orphans : RemoveOrphan(r)
  BY <1>1, <1>6 DEF ResetNetwork, Pruning, Prune, RemoveOrphan, ResetTouches, UntouchedHost, TypeOK,
     bounds, local
<1>7. ASSUME NEW c \in Clusters, Restore(c) PROVE ResetTouches
  <2>1. rcopy.data[c].ip \in Nat
    BY <1>1 DEF ResetTypes, Configs, Records
  <2>2. QED BY <1>1, <1>7, <2>1 DEF Restore, AddHost, ResetTouches, TypeOK, bounds, local
<1>8. QED BY <1>2, <1>3, <1>4, <1>5, <1>6, <1>7, ResetParts DEF ResetStep

LEMMA PlanTypes ==
  /\ NoPlan \in Plans /\ NoPlan.leaked = {} /\ NoPlan.restore = {}
  /\ ResetTypes /\ TypeInv => Inspected \in Plans
<1>1. NoPlan \in Plans /\ NoPlan.leaked = {} /\ NoPlan.restore = {}
  BY DEF NoPlan, Plans
<1>2. ResetTypes /\ TypeInv => Inspected \in Plans
  BY DEF ResetTypes, Inspected, Plans, TypeInv, TypeOK, Configs
<1>3. QED BY <1>1, <1>2

LEMMA ResetStart == ResetInit => ResetInv
  BY PlanTypes, EmptyType, EmptyOneOwner DEF ResetInit, ResetInv, ResetTypes, EmptyConfig

\* A reset that begins, or ends.
LEMMA ResetCopies ==
  ASSUME TypeInv, AddressInv, rcopy' \in {config, EmptyConfig}, plan' \in Plans, plan'.leaked = {},
         plan'.restore = {},
         net' \in {"absent", "outdated", "current"}, rpc' \in {"idle", "inspect"}
  PROVE  ResetInv'
  BY EmptyType, EmptyOneOwner DEF ResetInv, ResetTypes, AddressInv, TypeInv, TypeOK

LEMMA ResetInvStep == TypeInv /\ AddressInv /\ ResetInv /\ [ResetNext]_allVars => ResetInv'
<1> SUFFICES ASSUME TypeInv, AddressInv, ResetInv, [ResetNext]_allVars PROVE ResetInv'
  OBVIOUS
<1>0. /\ ResetTypes /\ plan \in Plans /\ rcopy \in Configs
      /\ net \in {"absent", "outdated", "current"}
  BY DEF ResetInv, ResetTypes
<1>1. CASE ResetExits /\ net' = net
  BY <1>0, <1>1, PlanTypes, ResetCopies DEF ResetExits
<1>2. CASE Managers
  <2>1. net' \in {"absent", "outdated", "current"} /\ UNCHANGED <<rpc, rcopy, plan>>
    BY <1>0, <1>2 DEF Managers, Manager, NoNetwork, EnsureNetwork, resetLocal
  <2>2. QED BY <2>1 DEF ResetInv, ResetTypes, OneOwner
<1>3. CASE LaunchReset
  <2>1. plan' \in Plans /\ plan'.leaked = {} /\ plan'.restore = {}
    BY <1>3 DEF LaunchReset, NoPlan, Plans
  <2>2. QED BY <1>0, <1>3, <2>1, ResetCopies DEF LaunchReset
<1>4. CASE Inspect
  <2>1. Inspected \in Plans /\ Inspected.leaked = rcopy.used \ KnownIPs(rcopy)
    BY <1>0, PlanTypes DEF Inspected, Plans
  <2>2. QED BY <1>0, <1>4, <2>1 DEF Inspect, ResetInv, ResetTypes, OneOwner, KnownIPs
<1>5. CASE Probe \/ ResetNetwork \/ Rebuild \/ (\E c \in Clusters : Restore(c))
            \/ \E r \in plan.orphans : RemoveOrphan(r)
  <2>1. CASE ResetExits /\ net' = net
    BY <1>1, <2>1
  <2>2. CASE ~(ResetExits /\ net' = net)
    <3>1. /\ rcopy' = rcopy /\ net' \in {"absent", "outdated", "current"}
          /\ rpc' \in {"recreate", "ensure", "apply"}
      BY <1>0, <1>5, <2>2 DEF Probe, ResetNetwork, Rebuild, Restore, RemoveOrphan, ResetInv, ResetTypes
    <3>2. plan' \in Plans /\ plan'.leaked = plan.leaked
      BY <1>0, <1>5, <2>2 DEF Probe, ResetNetwork, Rebuild, Restore, RemoveOrphan, Plans, NATClusters, Configs
    <3>3. QED BY <1>0, <3>1, <3>2 DEF ResetInv, ResetTypes, OneOwner
  <2>3. QED BY <2>1, <2>2
<1>6. CASE NothingToDo \/ Prune \/ ResetFails \/ ResetCrash \/ Reboot
  BY <1>1, <1>6 DEF NothingToDo, Prune, ResetFails, ResetCrash, Reboot
<1>7. CASE UNCHANGED allVars
  BY <1>7 DEF allVars, resetLocal, ResetInv, ResetTypes, OneOwner
<1>8. QED BY <1>2, <1>3, <1>4, <1>5, <1>6, <1>7, ResetParts DEF ResetStep

LEMMA PruneIs ==
  ASSUME ResetInv, Prune
  PROVE  /\ config' \in Configs /\ OneOwner(config')
         /\ config'.known = rcopy.known /\ config'.used = rcopy.used \ plan.leaked
         /\ \A c \in Clusters : config'.data[c] = IF c \in rcopy.known THEN rcopy.data[c] ELSE Blank
<1> DEFINE m == [rcopy EXCEPT !.used = @ \ plan.leaked]
<1>1. m \in Configs /\ config' = Saved(m) /\ rcopy \in Configs
  BY DEF Prune, ResetInv, ResetTypes, Configs
<1>2. /\ config'.known = rcopy.known /\ config'.used = rcopy.used \ plan.leaked
      /\ \A c \in Clusters : config'.data[c] = IF c \in rcopy.known THEN rcopy.data[c] ELSE Blank
  BY <1>1 DEF Saved, Configs
<1>3. config' \in Configs
  BY <1>1, SavedType
<1>4. OneOwner(config')
  BY <1>2, <1>3 DEF ResetInv, OneOwner, Blank
<1>5. QED BY <1>2, <1>3, <1>4

LEMMA ResetTypeStep ==
  TypeInv /\ ResetInv /\ [ResetNext]_allVars => TypeInv'
<1> SUFFICES ASSUME TypeInv, ResetInv, [ResetNext]_allVars PROVE TypeInv'
  OBVIOUS
<1>1. ASSUME NEW p \in Procs, NoNetwork(p) PROVE TypeInv'
  BY <1>1, ExitTypes DEF NoNetwork, TypeInv, TypeOK, HostOK, files, host, bounds
<1>2. CASE ResetTouches
  BY <1>2, PruneIs DEF ResetTouches, TypeInv, TypeOK, Targets, Positions, local
<1>3. QED BY <1>1, <1>2, ResetKinds, TypeStep

LEMMA ResetPrefixStep ==
  TypeInv /\ ResetInv /\ PrefixInv /\ [ResetNext]_allVars => PrefixInv'
<1> SUFFICES ASSUME TypeInv, ResetInv, PrefixInv, [ResetNext]_allVars PROVE PrefixInv'
  OBVIOUS
<1>1. ASSUME NEW p \in Procs, NoNetwork(p) PROVE PrefixInv'
  BY <1>1, PrefixExit DEF NoNetwork, files
<1>2. CASE ResetTouches
  BY <1>2 DEF ResetTouches, local, PrefixInv, PrefixRecorded, CopyInOrder, Prefix, Applyings, Undoings
<1>3. QED BY <1>1, <1>2, ResetKinds, PrefixStep

LEMMA ResetAddressStep ==
  TypeInv /\ ResetInv /\ AddressInv /\ [ResetNext]_allVars => AddressInv'
<1> SUFFICES ASSUME TypeInv, ResetInv, AddressInv, [ResetNext]_allVars PROVE AddressInv'
  OBVIOUS
<1>1. ASSUME NEW p \in Procs, NoNetwork(p) PROVE AddressInv'
  BY <1>1, AddressExit DEF NoNetwork, files
<1>2. CASE ResetTouches
  BY <1>2, PruneIs DEF ResetTouches, AddressInv, local
<1>3. QED BY <1>1, <1>2, ResetKinds, AddressStep

LEMMA ResetInvariant == ResetSpec => [](TypeInv /\ ResetInv /\ PrefixInv /\ AddressInv)
<1>1. ResetInit => TypeInv /\ ResetInv /\ PrefixInv /\ AddressInv
  BY TypeInit, ResetStart, PrefixInit, AddressInit DEF ResetInit
<1>2. QED
  BY <1>1, ResetTypeStep, ResetInvStep, ResetPrefixStep, ResetAddressStep, PTL DEF ResetSpec

\* Resets beside any number of commands, also at the same time: none makes
\* state.json skip a stage, although it ends commands whose network is missing.
THEOREM PrefixSurvivesResets == ResetSpec => []PrefixRecorded
<1>1. PrefixInv => PrefixRecorded
  BY DEF PrefixInv
<1>2. QED BY ResetInvariant, <1>1, PTL

\* A reset that writes its copy back over what a create has saved since never
\* leaves one address with two owners, or frees one that has an owner.
THEOREM AddressesSurviveResets == ResetSpec => []UniqueAddresses
<1>1. AddressInv => UniqueAddresses
  BY DEF AddressInv, OneOwner, UniqueAddresses, Addr
<1>2. QED BY ResetInvariant, <1>1, PTL

-----------------------------------------------------------------------------
(* A reset by itself (OneAtATime): its copy is the file, and no command runs *)
(* meanwhile.  What it has planned is what the file and the network differ   *)
(* in, and by the time it saves the differences are gone.                    *)

\* The allocations of config.json that a reset is to release are those of no
\* cluster; a network it has redefined is empty; at the end every reservation
\* that it is not about to remove is a cluster's.
PlanInv == rpc # "idle" =>
  /\ rcopy = config /\ \A p \in Procs : pc[p] = "idle"
  /\ rpc # "apply" => plan.restore = {}
  /\ rpc \in {"inspect", "ensure"} => plan.orphans = {}
  /\ plan.leaked = IF rpc = "inspect" THEN {} ELSE config.used \ KnownIPs(config)
  /\ plan.restore \subseteq {c \in NATClusters(config) : config.data[c].ip # NoIP}
  /\ \A r \in plan.orphans : r[2] \notin KnownIPs(config)
  /\ rpc = "ensure" => net = "absent" /\ resv = {}
  /\ rpc = "apply" => /\ net # "outdated"
                      /\ \A r \in resv : r[2] \in KnownIPs(config) \/ r \in plan.orphans

LEMMA PlanStart == ResetInit => PlanInv
  BY DEF ResetInit, PlanInv

LEMMA PlanStep == OneAtATime /\ TypeInv /\ ResetInv /\ PlanInv /\ [ResetNext]_allVars => PlanInv'
<1> SUFFICES ASSUME OneAtATime, TypeInv, ResetInv, PlanInv, [ResetNext]_allVars PROVE PlanInv'
  OBVIOUS
<1>0. ResetTypes /\ plan \in Plans /\ rcopy \in Configs
  BY DEF ResetInv, ResetTypes
<1>1. CASE ResetExits
  BY <1>1 DEF ResetExits, PlanInv
<1>2. CASE Managers
  BY <1>2 DEF Managers, resetLocal, PlanInv
<1>3. CASE LaunchReset
  <2>1. plan'.leaked = {} /\ plan'.restore = {} /\ plan'.orphans = {}
    BY <1>3 DEF LaunchReset, NoPlan
  <2>2. QED BY <1>3, <2>1 DEF LaunchReset, PlanInv, vars, files, host
<1>4. CASE Inspect
  <2>1. /\ plan' = Inspected /\ rpc' = IF Inspected.recreate THEN "probe" ELSE "apply"
        /\ UNCHANGED <<config, resv, pc, net, rcopy>> /\ rpc = "inspect"
    BY <1>4 DEF Inspect, vars, files, host
  <2>2. /\ rcopy = config /\ (\A p \in Procs : pc[p] = "idle")
        /\ plan.restore = {}
    BY <2>1 DEF PlanInv
  <2>3. /\ Inspected.recreate = (net = "outdated") /\ Inspected.restore = plan.restore
        /\ Inspected.orphans = {r \in resv : r[2] \notin KnownIPs(config)}
        /\ Inspected.leaked = config.used \ KnownIPs(config)
    BY <1>0, <2>2 DEF Inspected, Plans
  <2>4. QED BY <2>1, <2>2, <2>3 DEF PlanInv, KnownIPs, NATClusters
<1>5. CASE Probe /\ ~ResetExits
  <2>1. rpc = "probe" /\ rpc' = "recreate" /\ UNCHANGED <<config, resv, pc, rcopy, plan, net>>
    BY <1>5 DEF Probe, files, host
  <2>2. QED BY <2>1 DEF PlanInv, KnownIPs, NATClusters
<1>6. CASE ResetNetwork
  <2>1. /\ rpc = "recreate" /\ net' = "absent" /\ resv' = {}
        /\ rpc' \in {"ensure", "apply"} /\ UNCHANGED <<config, rcopy, pc>>
    BY <1>6 DEF ResetNetwork, UntouchedHost
  <2>2. plan'.orphans = {} /\ plan'.restore = plan.restore /\ plan'.leaked = plan.leaked
    BY <1>0, <1>6 DEF ResetNetwork, Plans
  <2>3. QED BY <2>1, <2>2 DEF PlanInv, KnownIPs, NATClusters
<1>7. CASE Rebuild
  <2>1. /\ rpc = "ensure" /\ net' \in {"current", net} /\ (net = "absent" => net' = "current")
        /\ rpc' = "apply" /\ UNCHANGED <<config, resv, rcopy, pc>>
    BY <1>7 DEF Rebuild, vars, files, host
  <2>2. /\ plan'.orphans = plan.orphans /\ plan'.leaked = plan.leaked
        /\ plan'.restore = {c \in NATClusters(rcopy) : rcopy.data[c].ip # NoIP}
    BY <1>0, <1>7 DEF Rebuild, Plans
  <2>3. QED BY <2>1, <2>2 DEF PlanInv, KnownIPs, NATClusters
<1>8. ASSUME NEW c \in Clusters, Restore(c) PROVE PlanInv'
  <2>1. /\ rpc = "apply" /\ c \in plan.restore
        /\ \A r \in resv' : r \in resv \/ r = <<c, rcopy.data[c].ip>>
        /\ UNCHANGED <<config, pc, net, rpc, rcopy>>
    BY <1>8 DEF Restore, AddHost
  <2>2. /\ plan'.orphans = plan.orphans /\ plan'.leaked = plan.leaked
        /\ plan'.restore = plan.restore \ {c}
    BY <1>0, <1>8 DEF Restore, Plans
  <2>3. c \in rcopy.known /\ rcopy = config
    BY <2>1 DEF PlanInv, NATClusters
  <2>4. QED BY <2>1, <2>2, <2>3 DEF PlanInv, KnownIPs, NATClusters
<1>9. ASSUME NEW r \in plan.orphans, RemoveOrphan(r) PROVE PlanInv'
  <2>1. /\ rpc = "apply" /\ resv' = resv \ {r} /\ UNCHANGED <<config, pc, net, rpc, rcopy>>
    BY <1>9 DEF RemoveOrphan, UntouchedHost
  <2>2. /\ plan'.orphans = plan.orphans \ {r} /\ plan'.leaked = plan.leaked
        /\ plan'.restore = plan.restore
    BY <1>0, <1>9 DEF RemoveOrphan, Plans
  <2>3. QED BY <2>1, <2>2 DEF PlanInv, KnownIPs, NATClusters
<1>10. CASE NothingToDo \/ Prune \/ ResetFails \/ ResetCrash \/ Reboot
  BY <1>1, <1>10 DEF NothingToDo, Prune, ResetFails, ResetCrash, Reboot
<1>11. CASE UNCHANGED allVars
  BY <1>11 DEF allVars, vars, files, host, resetLocal, PlanInv, KnownIPs, NATClusters
<1>12. QED
  BY <1>1, <1>2, <1>3, <1>4, <1>5, <1>6, <1>7, <1>8, <1>9, <1>10, <1>11, ResetParts
     DEF ResetStep

LEMMA PlanInvariant == ASSUME OneAtATime PROVE ResetSpec => []PlanInv
<1>1. TypeInv /\ ResetInv /\ PlanInv /\ [ResetNext]_allVars => PlanInv'
  BY PlanStep
<1>2. QED BY ResetInvariant, PlanStart, <1>1, PTL DEF ResetSpec

\* What usage.md says a reset is for: it reports success only when config.json
\* and the network agree, whatever earlier commands and resets have left.
THEOREM ResetsReconcile == ASSUME OneAtATime PROVE ResetSpec => ResetReconciles
<1>1. ASSUME TypeInv, ResetInv, PlanInv, Prune PROVE Reconciled'
  <2>1. /\ rpc = "apply" /\ plan.orphans = {} /\ resv' = resv /\ net' = net
        /\ rcopy = config /\ plan.leaked = config.used \ KnownIPs(config)
        /\ net # "outdated" /\ (\A r \in resv : r[2] \in KnownIPs(config))
    BY <1>1 DEF Pruning, Prune, PlanInv
  <2>2. /\ config'.known = config.known /\ config'.used \subseteq KnownIPs(config)
        /\ \A c \in config.known : config'.data[c] = config.data[c]
    BY <1>1, <2>1, PruneIs DEF ResetInv, ResetTypes, Configs
  <2>3. \A a \in KnownIPs(config) : Owner(a)' # {}
    BY <2>2 DEF KnownIPs, Owner
  <2>4. QED BY <2>1, <2>2, <2>3 DEF Reconciled
<1>2. ASSUME TypeInv, ResetInv, PlanInv, NothingToDo PROVE Reconciled'
  <2>1. /\ rpc = "inspect" /\ UNCHANGED <<config, resv, net>> /\ rcopy = config
        /\ ~HasWork(Inspected)
    BY <1>2 DEF NothingToDo, PlanInv, vars, files, host
  <2>2. /\ Inspected.recreate = (net = "outdated")
        /\ Inspected.orphans = {r \in resv : r[2] \notin KnownIPs(config)}
        /\ Inspected.leaked = config.used \ KnownIPs(config)
    BY <1>2, <2>1 DEF Inspected, Plans, ResetInv, ResetTypes
  <2>3. \A a \in KnownIPs(config) : Owner(a)' # {}
    BY <2>1 DEF KnownIPs, Owner
  <2>4. QED BY <2>1, <2>2, <2>3 DEF Reconciled, HasWork
<1>3. TypeInv /\ ResetInv /\ PlanInv => [Prune \/ NothingToDo => Reconciled']_allVars
  BY <1>1, <1>2
<1>4. QED BY ResetInvariant, PlanInvariant, <1>3, PTL DEF ResetReconciles

-----------------------------------------------------------------------------
(* One command or reset at a time.  What the records say of the host         *)
(* survives a reset, as it runs between commands and writes no record; and a *)
(* command that finds no network just ends.                                  *)

\* A create or start whose network is gone leaves everything as it was.
Ended(p) ==
  /\ pc[p] \in {"boot", "apply"} /\ cmd[p] \in {"start", "create"} /\ name[p] \in Clusters
  /\ pc[p] = "apply" => at[p] \in {CreateVM, WaitInstall} \ done[p]
  /\ Exit(p) /\ Others(p)
  /\ pc'[p] = "idle" /\ cmd'[p] = "none" /\ name'[p] = NoName
  /\ UNCHANGED <<config, state, vm, iso, resv, crashes, faults, cut>>

LEMMA NoNetworkIs ==
  ASSUME TypeInv, Roles, NEW p \in Procs, NoNetwork(p)
  PROVE  Ended(p)
<1>1. /\ Exit(p) /\ UNCHANGED <<config, state, vm, iso, resv, crashes, faults, cut>>
      /\ pc[p] = "boot" \/ (pc[p] = "apply" /\ at[p] \in {CreateVM, WaitInstall} \ done[p])
  BY DEF NoNetwork, NeedsNetwork, Applying, files, host, bounds
<1>2. cmd[p] \in {"start", "create"} /\ name[p] \in Clusters
  BY <1>1 DEF Roles, Creating, Starting, Applyings, TypeInv, Targets
<1>3. QED BY <1>1, <1>2, ExitIs DEF Ended, TypeInv

\* A step of a reset changes which addresses are marked used, and the host's
\* reservations.
Resets ==
  /\ config'.known = config.known /\ config'.data = config.data
  /\ config'.used = config.used \/ config'.used = config.used \ plan.leaked
  /\ plan.leaked \subseteq config.used \ KnownIPs(config)
  /\ \A p \in Procs : pc[p] = "idle"
  /\ UNCHANGED <<state, vm, iso, pc, cmd, name, mem, done, at, cut>>
  /\ Undisturbed' => Undisturbed

LEMMA ResetIs ==
  ASSUME TypeInv, ResetInv, PlanInv, Tidy, ResetTouches
  PROVE  Resets
<1>1. /\ rcopy = config /\ (\A p \in Procs : pc[p] = "idle")
      /\ plan.leaked = IF rpc = "inspect" THEN {} ELSE config.used \ KnownIPs(config)
  BY DEF ResetTouches, PlanInv
<1>2. UNCHANGED <<state, vm, iso, pc, cmd, name, mem, done, at, cut>>
  BY DEF ResetTouches, local
<1>3. Undisturbed' => Undisturbed
  BY DEF ResetTouches, Undisturbed, Uncut, TypeInv, TypeOK
<1>4. CASE Prune
  <2>1. /\ config' \in Configs /\ config \in Configs
        /\ config'.known = config.known /\ config'.used = config.used \ plan.leaked
        /\ \A c \in Clusters : config'.data[c] = config.data[c]
    BY <1>1, <1>4, PruneIs DEF Tidy, TypeInv, TypeOK
  <2>2. config'.data = config.data
    BY <2>1 DEF Configs
  <2>3. rpc = "apply"
    BY <1>4 DEF Pruning, Prune
  <2>4. QED BY <1>1, <1>2, <1>3, <2>1, <2>2, <2>3 DEF Resets
<1>5. CASE ~Prune
  <2>1. config' = config
    BY <1>5 DEF ResetTouches
  <2>2. plan.leaked \subseteq config.used \ KnownIPs(config)
    BY <1>1
  <2>3. QED BY <1>1, <1>2, <1>3, <2>1, <2>2 DEF Resets
<1>6. QED BY <1>4, <1>5

LEMMA EndedKeeps ==
  ASSUME TypeInv, Serial, Roles, SerialInv, VMInv, TruthInv, DomainInv, LeftInv, NEW p \in Procs, Ended(p)
  PROVE  /\ Roles' /\ SerialInv' /\ VMInv' /\ TruthInv' /\ DomainInv' /\ LeftInv'
         /\ ResvInv => ResvInv'
<1>1. /\ pc[p] \in {"boot", "apply"} /\ cmd[p] # "delete" /\ pc'[p] = "idle" /\ cmd'[p] = "none"
      /\ UNCHANGED <<config, state, vm, iso, resv, cut>> /\ Others(p)
      /\ Undisturbed' = Undisturbed
  BY DEF Ended, Undisturbed, Uncut
<1>2. \A q \in Procs : pc'[q] # "idle" =>
        q # p /\ pc'[q] = pc[q] /\ name'[q] = name[q] /\ at'[q] = at[q] /\ done'[q] = done[q]
  BY <1>1 DEF Others
<1>3. Roles'
  BY <1>1 DEF Roles, Others, Creating, Starting, Stopping, Unloading, Applyings, Undoings
<1>4. SerialInv'
  BY <1>1, SerialExit DEF Ended
<1>5. VMInv'
  BY <1>1, <1>2 DEF VMInv, Present, PhaseOf, Undoings
<1>6. \A c : /\ Deleting(c)' <=> Deleting(c)
             /\ TakingDown(c)' <=> TakingDown(c)
             /\ \A s : Recording(c, s)' <=> Recording(c, s)
             /\ Importing(c)' <=> Importing(c)
             /\ Releasing(c)' <=> Releasing(c)
             /\ Unreserving(c)' <=> Unreserving(c)
             /\ \A s : Removing(c, s)' <=> Removing(c, s)
  BY <1>1 DEF Others, Deleting, TakingDown, Recording, Importing, Releasing, Unreserving, Removing,
     Undoings
<1>7. TruthInv'
  BY <1>1, <1>6 DEF TruthInv, Sound, Effect, NAT
<1>8. DomainInv'
  BY <1>1, <1>6 DEF DomainInv, NAT
<1>9. LeftInv'
  <2>1. \A c : \A s : Held(c, s) => Held(c, s)'
    BY <1>1 DEF Held, Kept, Others, Undoings
  <2>2. QED BY <1>1, <1>6, <2>1 DEF LeftInv
<1>10. ResvInv => ResvInv'
  BY <1>1, <1>6 DEF ResvInv, PastNetwork, NAT
<1>11. QED BY <1>3, <1>4, <1>5, <1>7, <1>8, <1>9, <1>10

LEMMA ResetsKeep ==
  ASSUME TypeInv, Roles, SerialInv, VMInv, TruthInv, DomainInv, LeftInv, Resets
  PROVE  Roles' /\ SerialInv' /\ VMInv' /\ TruthInv' /\ DomainInv' /\ LeftInv'
<1>1. /\ config'.known = config.known /\ config'.data = config.data
      /\ \A q \in Procs : pc[q] = "idle"
      /\ UNCHANGED <<state, vm, iso, pc, cmd, name, mem, done, at, cut>>
      /\ Undisturbed' => Undisturbed
  BY DEF Resets
<1>2. Roles'
  BY <1>1 DEF Roles
<1>3. SerialInv'
  BY <1>1 DEF SerialInv, Tidy
<1>4. VMInv'
  BY <1>1 DEF VMInv, Present, PhaseOf
<1>5. \A c : TakingDown(c)' <=> TakingDown(c)
  BY <1>1 DEF TakingDown
<1>6. \A c : \A s : ~Recording(c, s)' /\ ~Importing(c)' /\ ~Removing(c, s)'
  BY <1>1 DEF Recording, Importing, Removing
<1>7. TruthInv'
  BY <1>1, <1>5, <1>6 DEF TruthInv, Sound, Effect, NAT
<1>8. DomainInv'
  <2>1. \A c : ~Releasing(c)
    BY <1>1 DEF Releasing, Undoings
  <2>2. QED BY <1>1, <2>1 DEF DomainInv, NAT
<1>9. LeftInv'
  <2>1. \A c : \A s : Held(c, s) => Held(c, s)'
    BY <1>1 DEF Held, Kept, Undoings
  <2>2. QED BY <1>1, <1>6, <2>1 DEF LeftInv
<1>10. QED BY <1>2, <1>3, <1>4, <1>7, <1>8, <1>9

\* All that a command that runs alone, between resets, can rely on.
LifeInv == Roles /\ SerialInv /\ SpoiltInv /\ VMInv /\ TruthInv /\ DomainInv /\ LeftInv

LEMMA LifeStart == ResetInit => LifeInv
  BY SerialInit, SpoiltInit, VMInit, TruthInit, DomainInit, LeftInit DEF ResetInit, LifeInv

\* A reset writes no state.json.
LEMMA SpoiltByReset ==
  ASSUME Roles, SpoiltInv, [ResetNext]_allVars
  PROVE  SpoiltInv'
<1>1. ASSUME NEW p \in Procs, NoNetwork(p) PROVE SpoiltInv'
  BY <1>1 DEF NoNetwork, SpoiltInv, damage, bounds
<1>2. CASE Managers
  BY <1>1, <1>2, SpoiltByCommand DEF Managers, Manager
<1>3. CASE Reboot
  BY <1>3, SpoiltByReboot DEF Reboot
<1>4. CASE LaunchReset \/ ResetStep \/ ResetCrash \/ UNCHANGED allVars
  <2>1. UNCHANGED <<spoilt, cut>>
    BY <1>4 DEF LaunchReset, ResetStep, Inspect, NothingToDo, Probe, ResetNetwork, Rebuild, Prune,
       ResetFails, Restore, RemoveOrphan, ResetCrash, allVars, vars, bounds, damage
  <2>2. QED BY <2>1 DEF SpoiltInv
<1>5. QED BY <1>2, <1>3, <1>4, ResetParts

LEMMA LifeStep ==
  TypeInv /\ ResetInv /\ PrefixInv /\ PlanInv /\ Serial /\ Serial' /\ LifeInv /\ [ResetNext]_allVars
    => LifeInv'
<1> SUFFICES ASSUME TypeInv, ResetInv, PrefixInv, PlanInv, Serial, Serial', LifeInv, [ResetNext]_allVars
             PROVE  LifeInv'
  OBVIOUS
<1>0. /\ Roles /\ SerialInv /\ VMInv /\ TruthInv /\ DomainInv /\ LeftInv /\ Tidy
      /\ SpoiltInv'
  BY SpoiltByReset DEF LifeInv, SerialInv
<1>1. CASE Moved
  BY <1>0, <1>1, RolesStep, SerialStep, VMStep, TruthStep, DomainStep, LeftStep DEF LifeInv
<1>2. ASSUME NEW p \in Procs, NoNetwork(p) PROVE LifeInv'
  BY <1>0, <1>2, NoNetworkIs, EndedKeeps DEF LifeInv
<1>3. CASE ResetTouches
  BY <1>0, <1>3, ResetIs, ResetsKeep DEF LifeInv
<1>4. QED BY <1>1, <1>2, <1>3, ResetKinds

LEMMA LifeInvariant ==
  ASSUME OneAtATime
  PROVE  ResetSpec /\ []Serial => [](TypeInv /\ ResetInv /\ PrefixInv /\ AddressInv /\ PlanInv /\ LifeInv)
  BY ResetInvariant, PlanInvariant, LifeStart, LifeStep, PTL DEF ResetSpec

\* What state.json records stays in effect, and a cluster shown as running keeps
\* its domain, through every reset, finished or not.
THEOREM RecordSurvivesResets ==
  ASSUME OneAtATime
  PROVE  ResetSpec /\ []Serial => []RecordIsTruthful
<1>1. TypeInv /\ LifeInv => RecordIsTruthful
  BY TruthIs DEF LifeInv
<1>2. QED BY LifeInvariant, <1>1, PTL

\* A reset never gives away the address that a cluster's magic domain names.
THEOREM DomainSurvivesResets ==
  ASSUME OneAtATime
  PROVE  ResetSpec /\ []Serial => []DomainNamesOwnAddress
<1>1. TypeInv /\ LifeInv => DomainNamesOwnAddress
  BY DEF LifeInv, DomainInv, DomainNamesOwnAddress, Addr, TypeInv, TypeOK, Configs
<1>2. QED BY LifeInvariant, <1>1, PTL

\* To the registry a reset reclaims lost addresses, or changes nothing.
LEMMA ResetReclaims ==
  ASSUME TypeInv, Resets
  PROVE  Moves
<1>1. PhaseMap' = PhaseMap /\ AddrMap' = AddrMap
  BY DEF Resets, PhaseMap, AddrMap, Addr, NAT
<1>2. CASE config'.used = config.used
  BY <1>1, <1>2, RegistryStutter
<1>3. CASE config'.used # config.used
  <2>1. /\ config'.used = config.used \ plan.leaked /\ plan.leaked \in SUBSET config.used
        /\ plan.leaked # {} /\ config.used \subseteq Pool
    BY <1>3 DEF Resets, TypeInv, TypeOK, Configs
  <2>2. \A c \in Clusters : AddrMap[c] \notin plan.leaked
    <3>1. NoIP \notin plan.leaked
      BY <2>1 DEF Pool, NoIP
    <3>2. QED BY <3>1 DEF Resets, AddrMap, Addr, KnownIPs
  <2>3. Registry!Reclaim(plan.leaked)
    BY <1>1, <2>1, <2>2 DEF Registry!Reclaim, PhaseMap, AddrMap
  <2>4. QED BY <2>1, <2>3 DEF Registry!Change, Moves
<1>4. QED BY <1>2, <1>3

\* A torn config.json ends a reset, like a command, before it does anything.
ResetTornInv == torn \in BOOLEAN /\ (torn => rpc = "idle" /\ \A p \in Procs : pc[p] = "idle")

LEMMA ResetStepWhole ==
  ASSUME ResetInv, ResetTornInv, ResetStep
  PROVE  torn = FALSE /\ torn' = FALSE
<1>1. rpc # "idle"
  BY DEF ResetStep, Inspect, NothingToDo, Probe, ResetNetwork, Rebuild, Pruning, Prune, ResetFails,
     Restore, RemoveOrphan, ResetInv
<1>2. torn' \in {torn, FALSE}
  BY DEF ResetStep, Inspect, NothingToDo, Probe, ResetNetwork, Rebuild, Prune, ResetFails, Restore,
     RemoveOrphan, vars, damage
<1>3. QED BY <1>1, <1>2 DEF ResetTornInv

\* What the steps of commands and resets do to torn.
LEMMA ManagersTorn ==
  ASSUME OneAtATime, TypeInv, Serial, ResetTornInv, Managers
  PROVE  /\ ResetTornInv'
         /\ \/ torn = FALSE /\ torn' = FALSE
            \/ config' = config /\ (torn => torn')
<1>0. TypeOK /\ TornInv /\ rpc = "idle" /\ rpc' = "idle"
  BY DEF TypeInv, ResetTornInv, TornInv, Managers, resetLocal
<1>1. ASSUME NEW p \in Procs, LaunchStep(p)
      PROVE  torn = FALSE /\ torn' = FALSE
  BY <1>0, <1>1 DEF LaunchStep, LaunchCreate, LaunchStart, LaunchStop, LaunchDelete, Launch, damage,
     TornInv
<1>2. ASSUME NEW p \in Procs, Step(p)
      PROVE  torn = FALSE /\ torn' = FALSE
  <2>1. pc[p] # "idle"
    BY <1>0, <1>2, StepRuns DEF Step
  <2>2. QED BY <1>0, <1>2, <2>1 DEF Step, Mends, TornInv
<1>3. ASSUME NEW p \in Procs, NoNetwork(p)
      PROVE  torn = FALSE /\ torn' = FALSE
  BY <1>0, <1>3 DEF NoNetwork, NeedsNetwork, Applying, damage, TornInv
<1>4. ASSUME NEW p \in Procs, Crash(p)
      PROVE  ResetTornInv' /\ config' = config /\ (torn => torn')
  <2>1. Tears({p}, Saving(p)) /\ Saving(p) \in BOOLEAN
    BY <1>4 DEF Crash, Saving, Applying, Undoing
  <2>2. TornInv' /\ config' = config /\ (torn => torn')
    BY <1>0, <1>4, <2>1, TornEnds
  <2>3. QED BY <1>0, <2>2 DEF TornInv, ResetTornInv
<1>5. QED BY <1>1, <1>2, <1>3, <1>4 DEF Managers, Manager, ResetTornInv

LEMMA ResetEndsTorn ==
  ASSUME OneAtATime, PlanInv, ResetTornInv, ResetCrash \/ Reboot
  PROVE  ResetTornInv' /\ config' = config /\ (torn => torn')
<1>1. CASE ResetCrash
  BY <1>1 DEF ResetCrash, Pruning, ResetExits, PlanInv, ResetTornInv, files
<1>2. CASE Reboot
  <2>1. torn' \in {torn, torn \/ (Pruning \/ \E p \in Procs : Saving(p))}
    BY <1>2 DEF Reboot, Tears
  <2>2. torn' \in BOOLEAN /\ (torn => torn')
    BY <2>1 DEF ResetTornInv
  <2>3. QED BY <1>2, <2>2 DEF Reboot, HostReboot, ResetExits, ResetTornInv, files
<1>3. QED BY <1>1, <1>2

LEMMA ResetTornStep ==
  ASSUME OneAtATime, TypeInv, ResetInv, PlanInv, Serial, ResetTornInv, [ResetNext]_allVars
  PROVE  ResetTornInv'
<1>1. CASE ResetStep
  BY <1>1, ResetStepWhole DEF ResetTornInv
<1>2. CASE LaunchReset \/ UNCHANGED allVars
  BY <1>2 DEF LaunchReset, allVars, vars, damage, resetLocal, ResetTornInv
<1>3. QED BY <1>1, <1>2, ResetParts, ManagersTorn, ResetEndsTorn

\* With resets between the commands config.json still moves only as
\* ClusterRegistry allows: a reset is its Reclaim, and a kill in the middle of the write of
\* either its Ruin.
THEOREM RegistrySurvivesResets ==
  ASSUME OneAtATime
  PROVE  ResetSpec /\ []Serial => RegistrySpec
<1>1. ASSUME TypeInv, ResetInv, AddressInv, PlanInv, LifeInv, Serial, ResetTornInv,
             [ResetNext]_allVars
      PROVE  [Registry!Next]_(Registry!vars)
  <2>0. Roles /\ SerialInv /\ Tidy /\ torn \in BOOLEAN /\ torn' \in BOOLEAN
    BY <1>1, ResetTornStep DEF LifeInv, SerialInv, ResetTornInv
  <2>1. Moves
    <3>1. ASSUME NEW p \in Procs, NoNetwork(p) PROVE Moves
      BY <3>1, RegistryUnchanged DEF NoNetwork, files
    <3>2. QED BY <1>1, <2>0, <3>1, ResetKinds, RegistryMoves, ResetIs, ResetReclaims
  <2>2. CASE torn = FALSE /\ torn' = FALSE
    BY <2>1, <2>2, RegistryWhole
  <2>3. CASE config' = config /\ (torn => torn')
    BY <2>0, <2>3, RegistryTorn
  <2>4. CASE LaunchReset \/ UNCHANGED allVars
    BY <2>3, <2>4 DEF LaunchReset, allVars, vars, files, damage
  <2>5. QED BY <1>1, <2>2, <2>3, <2>4, ResetParts, ResetStepWhole, ManagersTorn, ResetEndsTorn
<1>2. ResetInit => Registry!Init /\ ResetTornInv
  BY RegistryInit DEF ResetInit, Init, ResetTornInv
<1>3. TypeInv /\ ResetInv /\ AddressInv /\ PlanInv /\ LifeInv /\ Serial /\ ResetTornInv
        /\ [ResetNext]_allVars => [Registry!Next]_(Registry!vars)
  BY <1>1
<1>4. TypeInv /\ ResetInv /\ PlanInv /\ Serial /\ ResetTornInv /\ [ResetNext]_allVars
        => ResetTornInv'
  BY ResetTornStep
<1>5. QED BY LifeInvariant, <1>2, <1>3, <1>4, PTL DEF ResetSpec, RegistrySpec, Registry!Spec

-----------------------------------------------------------------------------
(* ResetSparesClusters.  As long as nothing has crashed or failed, a cluster *)
(* at rest that has an address also has its reservation, and whatever is     *)
(* reserved belongs to a cluster: a reset takes that apart and puts it       *)
(* together again.                                                           *)

Busy(c) == Runs("create", c) \/ Runs("delete", c)

\* Undisturbed, a NAT cluster with an address that no command is building or
\* taking down is past create-network.
AllocInv == Undisturbed => \A c \in Clusters :
  NAT(c) /\ config.data[c].ip # NoIP /\ ~Busy(c) => CreateNetwork \in state[c]

LEMMA AllocStart == ResetInit => AllocInv
  BY DEF ResetInit, Init, AllocInv, EmptyConfig, Blank

LEMMA OnlyBusy ==
  ASSUME Roles, Serial, NEW p \in Procs, NEW n \in Clusters, pc[p] # "idle", name[p] = n
  PROVE  /\ \A c \in Clusters \ {n} : ~Busy(c)
         /\ Busy(n) <=> cmd[p] \in {"create", "delete"}
  BY OnlyTarget DEF Busy, Runs

\* A create or delete that ends.
LEMMA AllocExits ==
  ASSUME Roles, PrefixInv, Serial, LeftInv, NEW p \in Procs, NEW n \in Clusters, Alone(p, n), Undisturbed',
         CreateStep(p) \/ DeleteStep(p), ~UNCHANGED <<cmd, name>>
  PROVE  config'.data[n].ip = NoIP \/ CreateNetwork \in state'[n]
<1>0. /\ TypeInv /\ TypeOK /\ name[p] = n /\ pc[p] # "idle" /\ KnowsState(p)
      /\ Undisturbed /\ ~ApplyFails(p)
  BY StepBounds DEF Alone, TypeInv, SerialInv, Undisturbed
<1>1. CASE CreateStep(p)
  <2>1. PoolExhausted(p) \/ ApplyRefused(p) \/ Reassert(p)
    BY <1>0, <1>1 DEF CreateStep, LoadState, SkipApplied, Record, ApplyDone, ApplyRegister,
     ApplyAllocate, ApplyUpsertDNS, ApplyEnsureDir, ApplyEmbedISO, Imported, ApplyCreateNetwork,
     ApplyCreateVM, ApplyWaitInstall, ApplyFinalize, Applied, local
  <2>2. state' = state
    BY <2>1 DEF PoolExhausted, ApplyRefused, Reassert, files
  <2>3. CASE Reassert(p)
    <3>1. CreateNetwork \in state[n]
      BY <1>0, <2>3 DEF Reassert, KnowsState, Stages, CreateNetwork
    <3>2. QED BY <2>2, <3>1
  <2>4. CASE PoolExhausted(p) \/ (ApplyRefused(p) /\ at[p] = EmbedISO)
    <3>1. Rec(p).ip = NoIP /\ config' = config
      BY <2>4 DEF PoolExhausted, ApplyRefused, Applying, EmbedISO, CreateVM, WaitInstall, files
    <3>2. QED BY <3>1, OwnAddress
  <2>5. CASE ApplyRefused(p) /\ at[p] # EmbedISO
    <3>1. Applying(p, CreateVM) \/ Applying(p, WaitInstall)
      BY <2>5 DEF ApplyRefused, Applying
    <3>2. CreateNetwork \in state[n]
      BY <3>1, AppliesNext DEF Stages, CreateNetwork, CreateVM, WaitInstall
    <3>3. QED BY <2>2, <3>2
  <2>6. QED BY <2>1, <2>3, <2>4, <2>5
<1>2. CASE DeleteStep(p)
  <2>1. FinishDelete(p)
    BY <1>2 DEF DeleteStep, LoadRollback, SkipUnrecorded, Drop, RollbackDone, WipeDir,
     RollbackFinalize, RollbackWaitInstall, RollbackCreateVM, RollbackCreateNetwork, RollbackEmbedISO,
     Removed, RollbackEnsureDir, RollbackUpsertDNS, RollbackAllocate, RollbackRegister, RollbackFails,
     Undone, local
  <2>2. pc[p] = "flush" /\ config' = config
    BY <2>1, AloneIs DEF FinishDelete
  <2>3. ~Held(n, Register)
    BY <1>0, <2>2, HeldIs DEF Kept, KnowsState, Undoings
  <2>4. n \notin config.known
    BY <1>0, <2>3 DEF LeftInv
  <2>5. QED BY <2>2, <2>4, AloneIs DEF Blank
<1>3. QED BY <1>1, <1>2

LEMMA AllocMove ==
  ASSUME Roles, PrefixInv, Serial, LeftInv, AllocInv, NEW p \in Procs, NEW n \in Clusters, Alone(p, n),
         CreateStep(p) \/ PowerStep(p) \/ DeleteStep(p)
  PROVE  AllocInv'
<1>0. /\ TypeInv /\ TypeOK /\ name[p] = n /\ pc[p] # "idle" /\ Elsewhere(n)
      /\ (Undisturbed' => Undisturbed) /\ (UNCHANGED <<cmd, name>> \/ Exit(p))
  BY StepBounds, ElsewhereCreate, ElsewherePower, ElsewhereDelete, CreateOthers, PowerOthers, DeleteOthers
     DEF Alone, TypeInv, Undisturbed
<1>1. SUFFICES ASSUME Undisturbed', NEW c \in Clusters, NAT(c), config'.data[c].ip # NoIP, ~Busy(c)'
               PROVE  CreateNetwork \in state'[c]
  BY DEF AllocInv, NAT
<1>2. CASE c # n
  <2>1. ~Busy(c) /\ state'[c] = state[c] /\ config'.data[c] = config.data[c]
    BY <1>0, <1>2, OnlyBusy DEF Elsewhere, SameBut
  <2>2. QED BY <1>0, <1>1, <2>1 DEF AllocInv
<1>3. CASE c = n /\ ~PowerStep(p)
  <2>1. cmd[p] \in {"create", "delete"}
    BY <1>3, CreateOthers, DeleteOthers, <1>0 DEF Roles
  <2>2. ~UNCHANGED <<cmd, name>>
    BY <1>0, <1>1, <1>3, <2>1 DEF Busy, Runs
  <2>3. QED BY <1>1, <1>3, <2>2, AllocExits
<1>4. CASE c = n /\ PowerStep(p)
  <2>1. cmd[p] \in {"start", "stop", "delete"}
    BY <1>0, <1>4, PowerOthers DEF Roles
  <2>2. cmd[p] = "delete" => UNCHANGED <<cmd, name>>
    BY <1>4 DEF PowerStep, Boot, BootRefused, BootFails, Started, Halt, HaltFails, MarkStopped,
       local, Roles, Starting
  <2>3. ~Busy(n)
    BY <1>0, <1>1, <1>4, <2>1, <2>2, OnlyBusy DEF Busy, Runs
  <2>4. state' = state
    BY <1>4 DEF PowerStep, Boot, BootRefused, BootFails, Started, Halt, HaltFails, MarkStopped, files
  <2>5. config'.data[n].ip = config.data[n].ip
    BY <1>4, PowerFiles DEF PowerFile, Keeps
  <2>6. QED BY <1>0, <1>1, <1>4, <2>3, <2>4, <2>5 DEF AllocInv
<1>5. QED BY <1>2, <1>3, <1>4

LEMMA AllocStep ==
  ASSUME TypeInv, PrefixInv, Roles, Serial, SerialInv, SpoiltInv, LeftInv, AllocInv, Moved
  PROVE  AllocInv'
<1>1. ASSUME NEW p \in Procs, CreateStep(p) \/ PowerStep(p) \/ DeleteStep(p)
      PROVE  AllocInv'
  <2>1. pc[p] # "idle"
    BY <1>1, CreateOthers, PowerOthers, DeleteOthers
       DEF Creating, Starting, Stopping, Unloading, Applyings, Undoings, TypeInv
  <2>2. PICK n \in Clusters : name[p] = n
    BY <2>1 DEF TypeInv, Targets
  <2>3. QED BY <1>1, <2>1, <2>2, AllocMove DEF Alone
<1>2. CASE \A p \in Procs : ~CreateStep(p) /\ ~PowerStep(p) /\ ~DeleteStep(p)
  <2>1. /\ config' = config /\ state' = state /\ faults' = faults /\ cut \subseteq cut'
        /\ \A q \in Procs : pc[q] # "idle" =>
             cmd[q] \in cut' \/ name[q] \in spoilt \/ (cmd'[q] = cmd[q] /\ name'[q] = name[q])
    BY <1>2, Environment
  <2>2. Undisturbed' => Undisturbed /\ "create" \notin cut' /\ "delete" \notin cut' /\ spoilt = {}
    BY <2>1 DEF Undisturbed, Uncut, SpoiltInv
  <2>3. \A c \in Clusters : Undisturbed' /\ Busy(c) => Busy(c)'
    BY <2>1, <2>2 DEF Busy, Runs, Roles
  <2>4. QED BY <2>1, <2>2, <2>3 DEF AllocInv, NAT
<1>3. QED BY <1>1, <1>2

LEMMA AllocEnded ==
  ASSUME TypeInv, PrefixInv, Roles, Serial, SerialInv, AllocInv, NEW p \in Procs, Ended(p)
  PROVE  AllocInv'
<1> DEFINE n == name[p]
<1>1. /\ n \in Clusters /\ Alone(p, n) /\ pc[p] # "idle"
      /\ UNCHANGED <<config, state>> /\ (Undisturbed' <=> Undisturbed)
  BY DEF Ended, Alone, Undisturbed, Uncut
<1>2. CASE pc[p] = "apply"
  <2>1. Applying(p, CreateVM) \/ Applying(p, WaitInstall)
    BY <1>2 DEF Ended, Applying
  <2>2. CreateNetwork \in state[n]
    BY <1>1, <2>1, AppliesNext DEF Stages, CreateNetwork, CreateVM, WaitInstall
  <2>3. QED BY <1>1, <2>2, OnlyBusy DEF AllocInv, NAT
<1>3. CASE pc[p] = "boot"
  <2>1. cmd[p] = "start"
    BY <1>3 DEF Roles, Starting
  <2>2. QED BY <1>1, <2>1, OnlyBusy DEF AllocInv, NAT
<1>4. QED BY <1>2, <1>3 DEF Ended

LEMMA AllocResets ==
  ASSUME AllocInv, Resets
  PROVE  AllocInv'
<1>1. \A c : Busy(c)' <=> Busy(c)
  BY DEF Resets, Busy, Runs
<1>2. QED BY <1>1 DEF Resets, AllocInv, NAT

\* The counts only grow, a crash counts, and no step undoes what it cut.
LEMMA CountersGrow ==
  ASSUME TypeOK, Moved
  PROVE  /\ crashes' >= crashes /\ faults' >= faults
         /\ cut' = cut \/ crashes' > crashes
<1>0. crashes \in Nat /\ faults \in Nat
  BY ManagerAssumption DEF TypeOK
<1>1. ASSUME NEW p \in Procs, CreateStep(p) \/ PowerStep(p) \/ DeleteStep(p)
      PROVE  cut' = cut /\ crashes' = crashes /\ faults' \in {faults, faults + 1}
  <2>1. CASE CreateStep(p)
    BY <2>1 DEF CreateStep, LoadState, SkipApplied, Record, ApplyDone, Reassert, ApplyRegister,
     ApplyAllocate, PoolExhausted, ApplyUpsertDNS, ApplyEnsureDir, ApplyEmbedISO, Imported,
     ApplyCreateNetwork, ApplyCreateVM, ApplyWaitInstall, ApplyFinalize, ApplyRefused, ApplyFails,
     Applied, bounds
  <2>2. CASE PowerStep(p)
    BY <2>2 DEF PowerStep, Boot, BootRefused, BootFails, Started, Halt, HaltFails, MarkStopped, bounds
  <2>3. CASE DeleteStep(p)
    BY <2>3 DEF DeleteStep, LoadRollback, SkipUnrecorded, Drop, RollbackDone, WipeDir, FinishDelete,
     RollbackFinalize, RollbackWaitInstall, RollbackCreateVM, RollbackCreateNetwork, RollbackEmbedISO,
     Removed, RollbackEnsureDir, RollbackUpsertDNS, RollbackAllocate, RollbackRegister, RollbackFails,
     Undone, bounds
  <2>4. QED BY <1>1, <2>1, <2>2, <2>3
<1>2. ASSUME NEW p \in Procs, LaunchStep(p) PROVE UNCHANGED bounds
  BY <1>2, LaunchIs
<1>3. CASE HostReboot \/ \E p \in Procs : Crash(p)
  <2>1. crashes' = crashes + 1 /\ faults' = faults
    BY <1>3 DEF HostReboot, Crash
  <2>2. QED BY <1>0, <2>1
<1>4. CASE UNCHANGED vars \/ \E p \in Procs : StateUnreadable(p)
  BY <1>0, <1>4 DEF vars, bounds, StateUnreadable
<1>5. QED BY <1>0, <1>1, <1>2, <1>3, <1>4 DEF Moved, bounds

CutInv == crashes = 0 => cut = {}

LEMMA ResetCounters ==
  ASSUME TypeInv, ResetInv, Roles, CutInv, [ResetNext]_allVars
  PROVE  /\ CutInv'
         /\ crashes' = 0 => crashes = 0
         /\ faults' = 0 => faults = 0
<1>0. TypeOK /\ crashes \in Nat /\ faults \in Nat /\ crashes' \in Nat /\ faults' \in Nat
  BY ResetTypeStep, ManagerAssumption DEF TypeInv, TypeOK
<1>1. CASE Moved
  BY <1>0, <1>1, CountersGrow DEF CutInv
<1>2. ASSUME NEW p \in Procs, NoNetwork(p)
      PROVE  crashes' = crashes /\ faults' = faults /\ cut' = cut
  BY <1>2 DEF NoNetwork, bounds
<1>3. CASE ResetTouches
  BY <1>0, <1>3 DEF ResetTouches, CutInv
<1>4. QED BY <1>0, <1>1, <1>2, <1>3, ResetKinds DEF CutInv

\* A reset without --force that has found every NAT cluster off finds it off.
PowerInv == rpc = "recreate" /\ ~plan.force /\ faults = 0 =>
  \A c \in NATClusters(rcopy) : vm[c].st # "on"

LEMMA PowerInvStep ==
  ASSUME TypeInv, ResetInv, PowerInv, OneAtATime, [ResetNext]_allVars
  PROVE  PowerInv'
<1>1. CASE rpc' = "recreate" /\ rpc # "recreate"
  <2>1. Probe /\ ~ResetExits
    BY <1>1, ResetParts DEF ResetStep, Managers, resetLocal, LaunchReset, Inspect, NothingToDo,
     ResetNetwork, Rebuild, Restore, RemoveOrphan, Prune, ResetFails, ResetCrash, Reboot, ResetExits, allVars
  <2>2. faults \in Nat
    BY ManagerAssumption DEF TypeInv, TypeOK
  <2>3. /\ faults' = 0 => plan.force \/ \A c \in NATClusters(rcopy) : vm[c].st # "on"
        /\ rcopy' = rcopy /\ plan' = plan /\ vm' = vm
    BY <2>1, <2>2 DEF Probe, host
  <2>4. QED BY <2>3 DEF PowerInv, NATClusters
<1>2. CASE rpc' = "recreate" /\ rpc = "recreate"
  <2>1. UNCHANGED allVars
    BY <1>2, ResetParts DEF ResetStep, Managers, LaunchReset, Inspect, NothingToDo, Probe,
     ResetNetwork, Rebuild, Restore, RemoveOrphan, Prune, ResetFails, ResetCrash, Reboot, ResetExits
  <2>2. QED BY <2>1 DEF allVars, vars, host, bounds, resetLocal, PowerInv, NATClusters
<1>3. CASE rpc' # "recreate"
  BY <1>3 DEF PowerInv
<1>4. QED BY <1>1, <1>2, <1>3

\* While a reset redefines the network its entries are those of clusters, and at
\* the end the others' are yet to come.
SparedInv == crashes = 0 /\ faults = 0 =>
  /\ rpc \notin {"ensure", "apply"} => ResvInv
  /\ rpc \in {"ensure", "apply"} =>
       \A r \in resv : r[1] \in NATClusters(config) /\ r[2] = config.data[r[1]].ip /\ r[2] # NoIP
  /\ rpc = "apply" => \A c \in NATClusters(config) : config.data[c].ip # NoIP =>
       c \in plan.restore \/ <<c, config.data[c].ip>> \in resv

LEMMA SparedStart == ResetInit => CutInv /\ PowerInv /\ SparedInv
  BY ResvInit DEF ResetInit, Init, CutInv, PowerInv, SparedInv

\* Between the commands: what state.json, config.json and the network tell.
LEMMA AtRest ==
  ASSUME TypeInv, PrefixInv, TruthInv, AllocInv, Roles, crashes = 0, faults = 0, CutInv,
         \A p \in Procs : pc[p] = "idle"
  PROVE  /\ Undisturbed
         /\ \A c \in Clusters : CreateNetwork \in state[c] => c \in config.known /\ config.data[c].ip # NoIP
         /\ \A c \in Clusters : NAT(c) /\ config.data[c].ip # NoIP => CreateNetwork \in state[c]
         /\ ResvInv <=>
              /\ \A c \in Clusters : NAT(c) /\ CreateNetwork \in state[c] => <<c, config.data[c].ip>> \in resv
              /\ \A c \in Clusters, a \in Nat : <<c, a>> \in resv =>
                   NAT(c) /\ a = config.data[c].ip /\ a # NoIP /\ CreateNetwork \in state[c]
<1>1. Undisturbed /\ "delete" \notin cut
  BY DEF CutInv, Undisturbed, Uncut
<1>2. \A p \in Procs : cmd[p] = "none"
  BY DEF Roles
<1>3. ASSUME NEW c \in Clusters, CreateNetwork \in state[c]
      PROVE  c \in config.known /\ config.data[c].ip # NoIP
  <2>1. Register \in state[c] /\ Allocate \in state[c]
    BY <1>3 DEF PrefixInv, PrefixRecorded, Prefix, CreateNetwork, Register, Allocate
  <2>2. ~TakingDown(c)
    BY <1>2 DEF TakingDown
  <2>3. \A s \in Stages : s \in state[c] => Effect(c, s)
    BY <1>1, <2>2 DEF TruthInv, Sound
  <2>4. QED BY <2>1, <2>3 DEF Effect, Stages, Register, Allocate
<1>4. \A c \in Clusters : ~Busy(c) /\ ~Deleting(c) /\ ~Recording(c, CreateNetwork) /\ ~Unreserving(c)
  BY <1>2 DEF Busy, Runs, Deleting, Recording, Unreserving
<1>5. \A c \in Clusters : NAT(c) /\ config.data[c].ip # NoIP => CreateNetwork \in state[c]
  BY <1>1, <1>4 DEF AllocInv
<1>6. QED BY <1>1, <1>3, <1>4, <1>5 DEF ResvInv, PastNetwork

LEMMA ResvUnchanged ==
  ASSUME ResvInv, UNCHANGED <<state, resv, pc, cmd, name, at>>, config'.data = config.data, Undisturbed
  PROVE  ResvInv'
<1>1. \A c : /\ PastNetwork(c)' <=> PastNetwork(c)
             /\ Unreserving(c)' <=> Unreserving(c)
             /\ Deleting(c)' <=> Deleting(c)
  BY DEF PastNetwork, Recording, Unreserving, Deleting
<1>2. QED BY <1>1 DEF ResvInv, NAT

LEMMA SparedStep ==
  ASSUME OneAtATime, TypeInv, ResetInv, PrefixInv, AddressInv, PlanInv, Serial, LifeInv, AllocInv, CutInv,
         SparedInv, [ResetNext]_allVars
  PROVE  SparedInv'
<1> SUFFICES ASSUME crashes' = 0, faults' = 0 PROVE SparedInv'
  BY DEF SparedInv
<1>0. /\ Roles /\ SerialInv /\ SpoiltInv /\ VMInv /\ TruthInv /\ DomainInv /\ LeftInv
      /\ crashes = 0 /\ faults = 0 /\ Undisturbed
  BY ResetCounters DEF LifeInv, CutInv, Undisturbed, Uncut
<1>1. /\ ResetTypes /\ plan \in Plans /\ config \in Configs /\ rcopy \in Configs
      /\ resv \subseteq Clusters \X Nat /\ NATClusters(config) \subseteq Clusters
  BY DEF ResetInv, ResetTypes, TypeInv, TypeOK, Configs, NATClusters
<1>2. rpc # "idle" =>
        /\ rcopy = config
        /\ \A c \in Clusters : CreateNetwork \in state[c] => c \in config.known /\ config.data[c].ip # NoIP
        /\ \A c \in Clusters : NAT(c) /\ config.data[c].ip # NoIP => CreateNetwork \in state[c]
        /\ ResvInv <=>
             /\ \A c \in Clusters : NAT(c) /\ CreateNetwork \in state[c] => <<c, config.data[c].ip>> \in resv
             /\ \A c \in Clusters, a \in Nat : <<c, a>> \in resv =>
                  NAT(c) /\ a = config.data[c].ip /\ a # NoIP /\ CreateNetwork \in state[c]
  BY <1>0, AtRest DEF PlanInv
<1>3. CASE Managers
  <2>1. rpc = "idle" /\ rpc' = "idle" /\ ResvInv
    BY <1>0, <1>3 DEF Managers, resetLocal, SparedInv
  <2>2. ASSUME NEW p \in Procs, Manager(p) PROVE ResvInv'
    <3>1. Moved
      BY <2>2 DEF Manager, Step, Moved
    <3>2. QED BY <1>0, <2>1, <3>1, ResvStep
  <2>3. ASSUME NEW p \in Procs, NoNetwork(p) PROVE ResvInv'
    BY <1>0, <2>1, <2>3, NoNetworkIs, EndedKeeps
  <2>4. ASSUME NEW p \in Procs, Crash(p) PROVE FALSE
    BY <1>0, <2>4 DEF Crash
  <2>5. QED BY <1>3, <2>1, <2>2, <2>3, <2>4 DEF Managers, SparedInv
<1>4. CASE rpc' \notin {"ensure", "apply"} /\ rpc \notin {"ensure", "apply"} /\ UNCHANGED <<config, state, resv, pc, cmd, name, at>>
  BY <1>0, <1>4, ResvUnchanged DEF SparedInv
<1>5. CASE LaunchReset \/ NothingToDo \/ Probe \/ (Inspect /\ rpc' # "apply")
  <2>1. /\ rpc' \notin {"ensure", "apply"} /\ rpc \notin {"ensure", "apply"}
        /\ UNCHANGED <<config, state, resv, pc, cmd, name, at>>
    BY <1>5 DEF LaunchReset, NothingToDo, Probe, Inspect, ResetExits, vars, files, host, local
  <2>2. QED BY <1>4, <2>1
<1>6. CASE Inspect /\ rpc' = "apply"
  <2>1. rpc = "inspect" /\ ResvInv /\ UNCHANGED <<config, resv>>
    BY <1>0, <1>6 DEF Inspect, SparedInv, vars, files, host
  <2>2. \A r \in resv : r[1] \in NATClusters(config) /\ r[2] = config.data[r[1]].ip /\ r[2] # NoIP
    BY <1>1, <1>2, <2>1 DEF NATClusters
  <2>3. \A c \in NATClusters(config) : config.data[c].ip # NoIP => <<c, config.data[c].ip>> \in resv
    BY <1>1, <1>2, <2>1 DEF NATClusters
  <2>4. QED BY <1>6, <2>1, <2>2, <2>3 DEF SparedInv, NATClusters, NAT
<1>7. CASE ResetNetwork
  <2>1. /\ resv' = {} /\ config' = config /\ rpc' \in {"ensure", "apply"} /\ rpc = "recreate"
        /\ rpc' = "apply" => NATClusters(rcopy) = {}
    BY <1>7 DEF ResetNetwork
  <2>2. QED BY <1>2, <2>1 DEF SparedInv, NATClusters, NAT
<1>8. CASE Rebuild
  <2>1. rpc = "ensure" /\ rpc' = "apply" /\ UNCHANGED <<config, resv>> /\ resv = {}
    BY <1>8 DEF Rebuild, vars, files, host, PlanInv
  <2>2. plan'.restore = {c \in NATClusters(rcopy) : rcopy.data[c].ip # NoIP}
    BY <1>1, <1>8 DEF Rebuild, Plans
  <2>3. QED BY <1>2, <2>1, <2>2 DEF SparedInv, NATClusters, NAT
<1>9. ASSUME NEW c \in Clusters, Restore(c) PROVE SparedInv'
  <2>1. /\ rpc = "apply" /\ rpc' = "apply" /\ c \in plan.restore /\ config' = config
        /\ AddHost(c, config.data[c].ip) /\ rcopy = config
        /\ plan'.restore = plan.restore \ {c}
    BY <1>1, <1>2, <1>9 DEF Restore, Plans
  <2>2. c \in NATClusters(config) /\ config.data[c].ip # NoIP
    BY <2>1 DEF PlanInv
  <2>3. \A r \in resv : r[1] \in NATClusters(config) /\ r[2] = config.data[r[1]].ip /\ r[2] # NoIP
    BY <1>0, <2>1 DEF SparedInv
  <2>4. \A r \in resv : r[1] = c \/ r[2] = config.data[c].ip => r = <<c, config.data[c].ip>>
    <3>1. \A d \in NATClusters(config) : config.data[d].ip = config.data[c].ip => d = c
      BY <1>1, <2>2 DEF AddressInv, OneOwner, NATClusters
    <3>2. QED BY <1>1, <2>3, <3>1
  <2>5. <<c, config.data[c].ip>> \in resv' /\ resv' \subseteq resv \cup {<<c, config.data[c].ip>>} /\ resv \subseteq resv'
    BY <2>1, <2>4 DEF AddHost
  <2>6. \A r \in resv' : r[1] \in NATClusters(config) /\ r[2] = config.data[r[1]].ip /\ r[2] # NoIP
    BY <2>2, <2>3, <2>5
  <2>7. \A d \in NATClusters(config) : config.data[d].ip # NoIP =>
          d \in plan'.restore \/ <<d, config.data[d].ip>> \in resv'
    BY <1>0, <2>1, <2>5 DEF SparedInv
  <2>8. QED BY <2>1, <2>6, <2>7 DEF SparedInv, NATClusters, NAT
<1>10. ASSUME NEW r \in plan.orphans, RemoveOrphan(r) PROVE SparedInv'
  <2>1. /\ rpc = "apply" /\ rpc' = "apply" /\ config' = config /\ resv' = resv \ {r}
        /\ plan'.restore = plan.restore
    BY <1>1, <1>10 DEF RemoveOrphan, Plans
  <2>2. r[2] \notin KnownIPs(config)
    BY <2>1 DEF PlanInv
  <2>3. \A c \in NATClusters(config) : <<c, config.data[c].ip>> # r
    BY <2>2 DEF NATClusters, KnownIPs
  <2>4. QED BY <1>0, <2>1, <2>3 DEF SparedInv, NATClusters, NAT
<1>11. CASE Prune
  <2>1. /\ rpc = "apply" /\ plan.restore = {} /\ rpc' = "idle"
        /\ UNCHANGED <<state, resv, pc, cmd, name, at>>
    BY <1>11 DEF Pruning, Prune, ResetExits, UntouchedHost, local
  <2>2. config'.data = config.data
    <3>1. \A c \in Clusters : config'.data[c] = config.data[c]
      BY <1>0, <1>2, <1>11, <2>1, PruneIs DEF SerialInv, Tidy
    <3>2. config' \in Configs
      BY <1>11, PruneIs
    <3>3. QED BY <1>1, <3>1, <3>2 DEF Configs
  <2>3. ResvInv
    <3>1. \A r \in resv : r[1] \in NATClusters(config) /\ r[2] = config.data[r[1]].ip /\ r[2] # NoIP
      BY <1>0, <2>1 DEF SparedInv
    <3>2. \A c \in NATClusters(config) : config.data[c].ip # NoIP => <<c, config.data[c].ip>> \in resv
      BY <1>0, <2>1 DEF SparedInv
    <3>3. ASSUME NEW c \in Clusters, NAT(c), CreateNetwork \in state[c] PROVE <<c, config.data[c].ip>> \in resv
      BY <1>2, <2>1, <3>2, <3>3 DEF NATClusters
    <3>4. ASSUME NEW c \in Clusters, NEW a \in Nat, <<c, a>> \in resv
          PROVE  NAT(c) /\ a = config.data[c].ip /\ a # NoIP /\ CreateNetwork \in state[c]
      <4>1. c \in NATClusters(config) /\ a = config.data[c].ip /\ a # NoIP
        BY <3>1, <3>4
      <4>2. QED BY <1>2, <2>1, <4>1 DEF NATClusters
    <3>5. QED BY <1>2, <2>1, <3>3, <3>4
  <2>4. QED BY <1>0, <2>1, <2>2, <2>3, ResvUnchanged DEF SparedInv
<1>12. CASE ResetFails \/ ResetCrash \/ Reboot
  BY <1>0, <1>12 DEF ResetFails, ResetCrash, Reboot, HostReboot
<1>13. CASE UNCHANGED allVars
  <2>1. UNCHANGED <<config, state, resv, pc, cmd, name, at, rpc, plan>>
    BY <1>13 DEF allVars, vars, files, host, local, resetLocal
  <2>2. CASE rpc \in {"ensure", "apply"}
    BY <1>0, <2>1, <2>2 DEF SparedInv, NATClusters, NAT
  <2>3. QED BY <1>4, <2>1, <2>2
<1>14. QED
  BY <1>3, <1>5, <1>6, <1>7, <1>8, <1>9, <1>10, <1>11, <1>12, <1>13, ResetParts DEF ResetStep

LEMMA SparedInvariant ==
  ASSUME OneAtATime
  PROVE  ResetSpec /\ []Serial => [](AllocInv /\ CutInv /\ PowerInv /\ SparedInv)
<1>1. TypeInv /\ ResetInv /\ PrefixInv /\ AddressInv /\ PlanInv /\ LifeInv /\ Serial
        /\ AllocInv /\ CutInv /\ PowerInv /\ SparedInv /\ [ResetNext]_allVars
        => AllocInv' /\ CutInv' /\ PowerInv' /\ SparedInv'
  <2> SUFFICES ASSUME TypeInv, ResetInv, PrefixInv, AddressInv, PlanInv, LifeInv, Serial,
                      AllocInv, CutInv, PowerInv, SparedInv, [ResetNext]_allVars
               PROVE  AllocInv' /\ CutInv' /\ PowerInv' /\ SparedInv'
    OBVIOUS
  <2>1. Roles /\ SerialInv /\ SpoiltInv /\ LeftInv /\ Tidy
    BY DEF LifeInv, SerialInv
  <2>2. AllocInv'
    BY <2>1, ResetKinds, AllocStep, NoNetworkIs, AllocEnded, ResetIs, AllocResets
  <2>3. QED BY <2>1, <2>2, ResetCounters, PowerInvStep, SparedStep
<1>2. QED BY LifeInvariant, AllocStart, SparedStart, <1>1, PTL DEF ResetSpec

\* ResetSparesClusters: no cluster that is up loses its network to a reset
\* without --force, and the reservations outlive one that reports success.
THEOREM ResetsSpareClusters ==
  ASSUME OneAtATime
  PROVE  ResetSpec /\ []Serial => ResetSparesClusters
<1>1. ASSUME PlanInv, PowerInv, ResetNetwork, ~plan.force, faults = 0
      PROVE  \A c \in NATClusters(config) : vm[c].st # "on"
  BY <1>1 DEF ResetNetwork, PlanInv, PowerInv
<1>2. ASSUME TypeInv, PrefixInv, PlanInv, LifeInv, AllocInv, CutInv, SparedInv,
             Prune \/ NothingToDo, crashes = 0, faults = 0,
             NEW c \in NATClusters(config), CreateNetwork \in state[c]
      PROVE  <<c, config.data[c].ip>> \in resv'
  <2>1. /\ rpc \in {"apply", "inspect"} /\ resv' = resv /\ (\A p \in Procs : pc[p] = "idle")
        /\ rpc = "apply" => plan.restore = {}
    BY <1>2 DEF Pruning, Prune, NothingToDo, PlanInv, vars, host
  <2>2. c \in Clusters /\ NAT(c)
    BY <1>2 DEF NATClusters, TypeInv, TypeOK, Configs
  <2>3. /\ config.data[c].ip # NoIP
        /\ ResvInv => <<c, config.data[c].ip>> \in resv
    BY <1>2, <2>1, <2>2, AtRest DEF LifeInv
  <2>4. QED BY <1>2, <2>1, <2>3 DEF SparedInv
<1>3. PlanInv /\ PowerInv =>
        [ResetNetwork /\ ~plan.force /\ faults = 0 =>
           \A c \in NATClusters(config) : vm[c].st # "on"]_allVars
  BY <1>1
<1>4. TypeInv /\ PrefixInv /\ PlanInv /\ LifeInv /\ AllocInv /\ CutInv /\ SparedInv =>
        [(Prune \/ NothingToDo) /\ crashes = 0 /\ faults = 0 =>
           \A c \in NATClusters(config) : CreateNetwork \in state[c] =>
             <<c, config.data[c].ip>> \in resv']_allVars
  BY <1>2
<1>5. QED BY LifeInvariant, SparedInvariant, <1>3, <1>4, PTL DEF ResetSparesClusters
=============================================================================
