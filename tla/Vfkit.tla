--------------------------------- MODULE Vfkit ---------------------------------
(***************************************************************************)
(* The macOS backend: providers/vfkit/vfkit.go supervising one vfkit       *)
(* process per VM, the vmnet-helper sidecar of each launch                 *)
(* (providers/vmnethelper/sidecar.go), and the part of a create that       *)
(* drives them: publish-pxe-assets, create-master-vms and the watchdog of  *)
(* wait-for-install.                                                       *)
(*                                                                         *)
(* Four threads may launch the VM: the create command itself, the          *)
(* install-reboot watcher its first launch starts, the watchdog, and a     *)
(* later `easyshift start`.  None of them holds a lock across a launch.    *)
(*                                                                         *)
(* One VM.  What vfkit, vmnet-helper and the guest do is external: a       *)
(* second vfkit on a disk in use fails to start (with or without having    *)
(* overwritten the pidfile), a VM keeps talking to the helper that was     *)
(* there when it started, and a relaunch may or may not keep the console   *)
(* log.  A running vfkit has written its pidfile by the next tick.         *)
(*                                                                         *)
(* spec.json and the phase file are written by os.WriteFile: truncated,    *)
(* then filled.  Another thread may read, and a kill may come, in between. *)
(***************************************************************************)
EXTENDS Naturals

CONSTANTS
  MaxMacFaults,  \* bound on VMs that die, launches that fail and watches that time out
  MaxMacCrashes  \* bound on commands that end early (Ctrl-C, kill, install error)

ASSUME VfkitAssumption == MaxMacFaults \in Nat /\ MaxMacCrashes \in Nat

VARIABLES
  \* files and processes of the host
  phase,    \* vmDir/phase: install (a missing file reads so), run, or empty
  spec,     \* spec.json: none (or torn), bare, or full: with KernelArgs
  disk,     \* disk.img: blank or holding an installed system
  vm,       \* the vfkit process that holds the disk, by the phase it booted
  term,     \* it has been sent SIGTERM
  pid,      \* vfkit.pid names that process
  wired,    \* its vmnet-helper is the one that is running
  guest,    \* the guest of an install-phase VM: down, live or rebooted
  boots,    \* "First Boot Complete" lines in console.log, two standing for more
  \* easyshift
  cluster,  \* ClusterConfig.State, absent when not registered
  cmdline,  \* InstallKernelCmdline in config.json is set
  stages,   \* state.json: which of the stages below are recorded
  mem,      \* InstallKernelCmdline in the create's copy is set
  handle,   \* the create's m.procs entry: none, live or dead
  thread,   \* where each thread is
  seen,     \* the phase a launch in progress read
  presumed, \* the last start or create took a VM that is off, or going, for up
  misread,  \* a launch read the phase file truncated and not yet written
  macFaults, macCrashes

hostVars == <<phase, spec, disk, vm, term, pid, wired, guest, boots>>
cliVars == <<cluster, cmdline, stages>>
createVars == <<mem, handle, thread, seen>>
macBounds == <<presumed, misread, macFaults, macCrashes>>
macVars == <<hostVars, cliVars, createVars, macBounds>>

Threads == {"create", "watcher", "watchdog", "start"}

MacInit ==
  /\ phase = "install" /\ spec = "none" /\ disk = "blank"
  /\ vm = "off" /\ term = FALSE /\ pid = FALSE /\ wired = FALSE
  /\ guest = "down" /\ boots = 0
  /\ cluster = "absent" /\ cmdline = FALSE /\ stages = {}
  /\ mem = FALSE /\ handle = "none"
  /\ thread = [t \in Threads |-> "idle"] /\ seen = [t \in Threads |-> "install"]
  /\ presumed = FALSE /\ misread = FALSE /\ macFaults = 0 /\ macCrashes = 0

MoveTo(t, l) == thread' = [thread EXCEPT ![t] = l]

IsRunning == pid /\ vm # "off"

\* No thread of an easyshift process.
Quiet == \A t \in Threads : thread[t] = "idle"

\* The process that holds the disk is gone.
Off ==
  /\ vm' = "off" /\ term' = FALSE /\ pid' = FALSE /\ guest' = "down"
  /\ handle' = IF handle = "live" THEN "dead" ELSE handle

-----------------------------------------------------------------------------
(* Launching (launch), by any thread *)

\* The spec and the phase are read, the old sidecar is replaced by a new one.
Launch(t) ==
  /\ thread[t] = "launch" /\ spec # "none"
  /\ seen' = [seen EXCEPT ![t] = phase]
  /\ misread' = (misread \/ phase = "empty")
  /\ wired' = FALSE
  /\ MoveTo(t, "spawn")
  /\ UNCHANGED <<phase, spec, disk, vm, term, pid, guest, boots, cliVars, mem, handle,
                 presumed, macFaults, macCrashes>>

\* Where each thread goes on when its launch, or its Start, has returned.
Afterwards == [create |-> "record", watcher |-> "idle", watchdog |-> "watch", start |-> "mark"]

\* A start whose create was killed before it had written spec.json fails.
NoSpec ==
  /\ thread["start"] = "launch" /\ spec = "none"
  /\ MoveTo("start", "idle")
  /\ UNCHANGED <<hostVars, cliVars, mem, handle, seen, macBounds>>

\* vfkit starts; the first launch of an install phase starts the watcher.
Return(t) ==
  thread' = [thread EXCEPT ![t] = Afterwards[t],
                   !["watcher"] = IF t = "watcher" THEN "idle"
                                  ELSE IF seen[t] = "install" /\ @ = "idle" THEN "poll" ELSE @]

Hold(t, h) == handle' = IF t = "start" THEN handle ELSE h

\* Any phase but run boots the live kernel; only install has it watched.
SpawnRuns(t) ==
  /\ thread[t] = "spawn" /\ vm = "off"
  /\ vm' = (IF seen[t] = "run" THEN "run" ELSE "install") /\ pid' = TRUE /\ wired' = TRUE
  /\ IF seen[t] = "run" THEN UNCHANGED boots ELSE boots' \in {0, boots}
  /\ Hold(t, "live") /\ Return(t)
  /\ UNCHANGED <<phase, spec, disk, term, guest, cliVars, mem, seen, macBounds>>

\* The helper or vfkit cannot be executed: a create ends, the others log it.
LaunchFails(t) ==
  /\ thread[t] = "launch" /\ spec # "none"
  /\ macFaults < MaxMacFaults /\ macFaults' = macFaults + 1
  /\ wired' = FALSE
  /\ IF t = "create"
       THEN /\ thread' = [u \in Threads |-> "idle"]
            /\ handle' = "none" /\ mem' = FALSE
       ELSE /\ MoveTo(t, IF t = "watchdog" THEN "watch" ELSE "idle")
            /\ UNCHANGED <<handle, mem>>
  /\ UNCHANGED <<phase, spec, disk, vm, term, pid, guest, boots, cliVars, seen,
                 presumed, misread, macCrashes>>

SpawnFails(t) ==
  /\ thread[t] = "spawn" /\ vm # "off"
  /\ pid' \in {pid, FALSE}
  /\ Hold(t, "dead") /\ Return(t)
  /\ UNCHANGED <<phase, spec, disk, vm, term, wired, guest, boots, cliVars, mem, seen,
                 macBounds>>

\* setPhase, from any thread: the file is truncated, then written.
TruncatePhase(t) ==
  /\ thread[t] = "phase"
  /\ phase' = "empty"
  /\ MoveTo(t, "write")
  /\ UNCHANGED <<spec, disk, vm, term, pid, wired, guest, boots, cliVars, mem, handle,
                 seen, macBounds>>

WritePhase(t) ==
  /\ thread[t] = "write"
  /\ phase' = IF t = "create" THEN "install" ELSE "run"
  /\ MoveTo(t, "launch")
  /\ UNCHANGED <<spec, disk, vm, term, pid, wired, guest, boots, cliVars, mem, handle,
                 seen, macBounds>>

\* Mutant of Start: a VM no longer in its install phase is taken for started.
StartOnce(t) ==
  /\ thread[t] = "check" /\ ~IsRunning
  /\ MoveTo(t, IF phase = "install" THEN "phase" ELSE Afterwards[t])
  /\ UNCHANGED <<hostVars, cliVars, mem, handle, seen, macBounds>>

\* VMManager.Start: the phase moves on if it is still install.
Start(t) ==
  /\ thread[t] = "check" /\ ~IsRunning
  /\ MoveTo(t, IF phase = "install" THEN "phase" ELSE "launch")
  /\ UNCHANGED <<hostVars, cliVars, mem, handle, seen, macBounds>>

StartFindsRunning(t) ==
  /\ thread[t] = "check" /\ IsRunning
  /\ presumed' = (presumed \/ term)
  /\ MoveTo(t, Afterwards[t])
  /\ UNCHANGED <<hostVars, cliVars, mem, handle, seen, misread, macFaults, macCrashes>>

-----------------------------------------------------------------------------
(* The create command *)

NextStage(S) ==
  IF "pxe" \notin S THEN "pxe"
  ELSE IF "vm" \notin S THEN "prepare"
  ELSE IF "wait" \notin S THEN "wait" ELSE "finish"

\* The watchdog runs as long as wait-for-install does.
EnterStage(S) ==
  thread' = [thread EXCEPT !["create"] = NextStage(S),
                   !["watchdog"] = IF NextStage(S) = "wait" THEN "watch" ELSE "idle"]

\* A stopped cluster is resumed like one in creation: with the install
\* recorded, no stage looks at its VM.
LaunchMacCreate ==
  /\ Quiet /\ cluster # "running"
  /\ cluster' = IF cluster = "absent" THEN "creating" ELSE cluster
  /\ mem' = cmdline
  /\ EnterStage(stages)
  /\ presumed' = (presumed \/ (cluster = "stopped" /\ "wait" \in stages))
  /\ UNCHANGED <<hostVars, cmdline, stages, handle, seen, misread, macFaults, macCrashes>>

\* publish-pxe-assets: the command line is set in memory and not saved.
PublishPXE ==
  /\ thread["create"] = "pxe"
  /\ mem' = TRUE
  /\ stages' = stages \cup {"pxe"}
  /\ EnterStage(stages')
  /\ UNCHANGED <<hostVars, cluster, cmdline, handle, seen, macBounds>>

\* VMManager.Create up to its launch; an existing disk is kept.
Prepare ==
  /\ thread["create"] = "prepare"
  /\ spec' = "none"
  /\ MoveTo("create", "persist")
  /\ UNCHANGED <<phase, disk, vm, term, pid, wired, guest, boots, cliVars, mem, handle,
                 seen, macBounds>>

Persist ==
  /\ thread["create"] = "persist"
  /\ spec' = IF mem THEN "full" ELSE "bare"
  /\ MoveTo("create", "phase")
  /\ UNCHANGED <<phase, disk, vm, term, pid, wired, guest, boots, cliVars, mem, handle,
                 seen, macBounds>>

RecordVM ==
  /\ thread["create"] = "record"
  /\ stages' = stages \cup {"vm"}
  /\ EnterStage(stages')
  /\ UNCHANGED <<hostVars, cluster, cmdline, mem, handle, seen, macBounds>>

\* The installer reports completion, and the watchdog is joined.
InstallCompletes ==
  /\ thread["create"] = "wait" /\ thread["watchdog"] = "watch"
  /\ vm = "run" /\ disk = "installed" /\ wired /\ ~term
  /\ stages' = stages \cup {"wait"}
  /\ EnterStage(stages')
  /\ UNCHANGED <<hostVars, cluster, cmdline, mem, handle, seen, macBounds>>

\* finalize, and what Create does after the pipeline, whatever it skipped: the
\* state and the command line are saved.  A watcher dies with the process.
Finish ==
  /\ thread["create"] = "finish"
  /\ cluster' = "running" /\ cmdline' = mem
  /\ thread' = [t \in Threads |-> "idle"] /\ handle' = "none" /\ mem' = FALSE
  /\ UNCHANGED <<hostVars, stages, seen, macBounds>>

\* What the VM that runs is not going to finish the install from.
Stuck ==
  /\ vm # "off"
  /\ \/ ~wired
     \/ vm = "run" /\ disk = "blank"
     \/ vm = "install" /\ (spec # "full" \/ thread["watcher"] = "idle")

\* The last round of the installer's wait ends in an error, and the create.
WaitGivesUp ==
  /\ thread["create"] = "wait" /\ thread["watchdog"] = "watch"
  /\ thread["watcher"] \in {"idle", "poll"} /\ Stuck
  /\ thread' = [t \in Threads |-> "idle"] /\ handle' = "none" /\ mem' = FALSE
  /\ UNCHANGED <<hostVars, cliVars, seen, macBounds>>

-----------------------------------------------------------------------------
(* The install-reboot watcher *)

WatcherLeaves ==
  /\ thread["watcher"] = "poll" /\ phase # "install"
  /\ MoveTo("watcher", "idle")
  /\ UNCHANGED <<hostVars, cliVars, mem, handle, seen, macBounds>>

\* The live phase outlasts rebootWatchTimeout.
WatcherTimesOut ==
  /\ thread["watcher"] = "poll" /\ phase = "install"
  /\ macFaults < MaxMacFaults /\ macFaults' = macFaults + 1
  /\ MoveTo("watcher", "idle")
  /\ UNCHANGED <<hostVars, cliVars, mem, handle, seen, presumed, misread, macCrashes>>

\* Mutant of rebootDetected: the first boot counts.
FirstBoot == boots >= 1

\* Mutant of rebootDetected: one more boot is waited for.
ThirdBoot == boots > 2

rebootDetected == boots >= 2

\* forceStop: the process of the handle, or of the pidfile without one, is
\* killed and reaped, and the sidecar with it.
ForceStop ==
  /\ thread["watcher"] = "poll" /\ phase = "install" /\ rebootDetected
  /\ IF handle = "live" \/ (handle = "none" /\ IsRunning)
       THEN vm' = "off" /\ term' = FALSE /\ pid' = FALSE /\ guest' = "down"
       ELSE UNCHANGED <<vm, term, pid, guest>>
  /\ handle' = "none" /\ wired' = FALSE
  /\ MoveTo("watcher", "phase")
  /\ UNCHANGED <<phase, spec, disk, boots, cliVars, mem, seen, macBounds>>

(* The watchdog of wait-for-install *)

Tick ==
  /\ thread["watchdog"] = "watch" /\ ~IsRunning
  /\ MoveTo("watchdog", "check")
  /\ UNCHANGED <<hostVars, cliVars, mem, handle, seen, macBounds>>

-----------------------------------------------------------------------------
(* start, stop and delete: commands of their own, with no handle *)

LaunchStart ==
  /\ Quiet /\ cluster \in {"creating", "stopped"}
  /\ MoveTo("start", "check")
  /\ UNCHANGED <<hostVars, cliVars, mem, handle, seen, macBounds>>

MarkStarted ==
  /\ thread["start"] = "mark"
  /\ cluster' = "running"
  /\ MoveTo("start", "idle")
  /\ UNCHANGED <<hostVars, cmdline, stages, mem, handle, seen, macBounds>>

\* SIGTERM to the process of the pidfile; Stop does not wait for it to exit.
Stop ==
  /\ Quiet /\ cluster = "running"
  /\ cluster' = "stopped"
  /\ term' = (term \/ IsRunning)
  /\ wired' = FALSE /\ presumed' = FALSE
  /\ UNCHANGED <<phase, spec, disk, vm, pid, guest, boots, cmdline, stages, createVars,
                 misread, macFaults, macCrashes>>

\* The VM's directory goes only if create-master-vms is recorded; a vfkit that
\* outlives it has lost its disk and its socket.
Delete ==
  /\ Quiet /\ cluster # "absent"
  /\ cluster' = "absent" /\ cmdline' = FALSE /\ stages' = {}
  /\ IF "vm" \in stages
       THEN /\ phase' = "install" /\ spec' = "none" /\ disk' = "blank"
            /\ vm' = "off" /\ term' = FALSE /\ pid' = FALSE /\ wired' = FALSE
            /\ guest' = "down" /\ boots' = 0 /\ misread' = FALSE
       ELSE UNCHANGED <<hostVars, misread>>
  /\ UNCHANGED <<createVars, presumed, macFaults, macCrashes>>

-----------------------------------------------------------------------------
(* The guest and the environment *)

\* The live environment comes up; with its ignition and its network it
\* installs to the disk and reboots, into the live environment again.
GuestBoots ==
  /\ vm = "install" /\ guest = "down"
  /\ guest' = "live" /\ boots' = IF boots < 2 THEN boots + 1 ELSE boots
  /\ UNCHANGED <<phase, spec, disk, vm, term, pid, wired, cliVars, createVars, macBounds>>

GuestInstalls ==
  /\ vm = "install" /\ guest = "live" /\ spec = "full" /\ wired
  /\ disk' = "installed"
  /\ guest' = "rebooted" /\ boots' = 2
  /\ UNCHANGED <<phase, spec, vm, term, pid, wired, cliVars, createVars, macBounds>>

\* Nobody stops the VM at its reboot: the live environment is up again.
GuestLoops ==
  /\ vm = "install" /\ guest = "rebooted"
  /\ guest' = "live"
  /\ UNCHANGED <<phase, spec, disk, vm, term, pid, wired, boots, cliVars, createVars,
                 macBounds>>

Terminates ==
  /\ vm # "off" /\ term
  /\ Off
  /\ UNCHANGED <<phase, spec, disk, wired, boots, cliVars, mem, thread, seen, macBounds>>

Dies ==
  /\ vm # "off" /\ macFaults < MaxMacFaults /\ macFaults' = macFaults + 1
  /\ Off
  /\ UNCHANGED <<phase, spec, disk, wired, boots, cliVars, mem, thread, seen, presumed, misread,
                 macCrashes>>

\* A create or a start ends early; vfkit and the helper share its process group
\* and may go with it.
MacCrash ==
  /\ ~Quiet /\ macCrashes < MaxMacCrashes /\ macCrashes' = macCrashes + 1
  /\ \/ vm' = "off" /\ term' = FALSE /\ pid' = FALSE /\ guest' = "down"
     \/ UNCHANGED <<vm, term, pid, guest>>
  /\ wired' \in {wired, FALSE}
  /\ thread' = [t \in Threads |-> "idle"] /\ handle' = "none" /\ mem' = FALSE
  /\ UNCHANGED <<phase, spec, disk, boots, cliVars, seen, presumed, misread, macFaults>>

Thread(t) ==
  \/ Launch(t) \/ SpawnRuns(t) \/ SpawnFails(t) \/ Start(t) \/ StartFindsRunning(t)
  \/ TruncatePhase(t) \/ WritePhase(t)

CreateStep ==
  \/ Thread("create") \/ PublishPXE \/ Prepare \/ Persist \/ RecordVM
  \/ InstallCompletes \/ WaitGivesUp \/ Finish
WatcherStep == Thread("watcher") \/ WatcherLeaves \/ ForceStop
WatchdogStep == Thread("watchdog") \/ Tick
StartStep == Thread("start") \/ NoSpec \/ MarkStarted
GuestStep == GuestBoots \/ GuestInstalls \/ GuestLoops \/ Terminates

MacNext ==
  \/ CreateStep \/ WatcherStep \/ WatchdogStep \/ StartStep \/ GuestStep
  \/ LaunchMacCreate \/ LaunchStart \/ Stop \/ Delete \/ Dies \/ MacCrash \/ WatcherTimesOut
  \/ \E t \in Threads : LaunchFails(t)

MacSpec == MacInit /\ [][MacNext]_macVars

\* Every thread of a running command, and the guest, goes on: the sleeps,
\* polls and ticks of the code are finite.  The user need not do anything.
FairMacSpec ==
  /\ MacSpec
  /\ WF_macVars(CreateStep) /\ WF_macVars(WatcherStep) /\ WF_macVars(WatchdogStep)
  /\ WF_macVars(StartStep) /\ WF_macVars(GuestStep)

-----------------------------------------------------------------------------
(* Properties *)

\* Nothing died, failed, timed out or was killed.
Undisturbed == macFaults = 0 /\ macCrashes = 0

\* The EFI boot of the run phase finds an installed disk (vfkit.go: "the disk
\* is now installed"), in an install that nothing disturbs: Start takes any VM
\* that is off in its install phase for installed.
BootsInstalledDisk == Undisturbed => (vm = "run" => disk = "installed")

\* A cluster that config.json calls running has its VM, through creates, stops
\* and starts in any order, with no VM that dies by itself.  But for two cases:
\* a start that comes before the VM of a stop is gone takes it for running, and
\* a create of a stopped cluster whose install is recorded takes it for running
\* without a look (manager.go:110-116 and 148-150).
RunningIsUp == Undisturbed /\ ~presumed => (cluster = "running" => vm # "off")

\* Whoever wins the race after an undisturbed install, the watcher or the
\* watchdog, the installed disk gets booted, unless the one has launched in the
\* instant in which the other was rewriting the phase file.
InstalledIsBooted ==
  disk = "installed" /\ thread["create"] # "idle"
    ~> vm = "run" \/ cluster \in {"running", "absent"} \/ ~Undisturbed \/ misread

\* While a create waits, a VM that is off is brought up again (watchdog),
\* whatever fails or has been killed before.
WatchdogRevives ==
  thread["create"] = "wait" /\ vm = "off" ~> vm # "off" \/ thread["create"] # "wait"
=============================================================================
