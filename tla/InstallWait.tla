------------------------------ MODULE InstallWait ------------------------------
(***************************************************************************)
(* The two commands that wait for a guest, each beside an OCCSRApprover of *)
(* its own: `start` (StartConvergence), and create from verify-master-ip   *)
(* (VerifyMasterIP) through wait-for-install.                              *)
(*                                                                         *)
(* wait-for-install runs the installer's own wait, three windows of it at  *)
(* most.  Meanwhile the guest boots more than once, loses its hostname and *)
(* may be left switched off, so that two more goroutines inject the one    *)
(* and watch the other.  The stage returns when all three have ended.      *)
(***************************************************************************)
EXTENDS StartConvergence, VerifyMasterIP

CONSTANT Boots \* boots of an install: the live ISO, the disk, its pivots

ASSUME BootsAssumption == Boots \in Nat \ {0}

waitForInstallRetries == 3

\* What may come between a create and its cluster: the master's eight minutes
\* and its address, then the installer's three windows or another exit of it.
VerifyHitches == {"master", "address"}
InstallHitches == {"windows", "exit"}

VARIABLES
  command,  \* start or create
  power,    \* the VM runs
  boot,     \* which boot of the install it is in
  hostname, \* localhost, or its own
  attempt,  \* the window the installer waits in
  hpc,      \* the injector: off, try, tick
  dpc       \* the watchdog: off, tick, start

helpers == <<hpc, dpc>>
installGuest == <<power, boot, hostname>>
installVars == <<command, installGuest, attempt, helpers>>
allVars == <<vars, verifyVars, installVars>>

\* In NAT mode there is nothing to verify.
StartInit ==
  /\ Init /\ VerifyInit /\ command = "start"
  /\ neighbours = {} /\ arp = {}

CreateInit ==
  /\ stale = FALSE /\ short \in SUBSET VerifyHitches
  /\ api = FALSE /\ node = FALSE /\ csr = [k \in CSRs |-> "none"]
  /\ pc = "verify" /\ ready = FALSE
  /\ apc = "off" /\ listed = {} /\ canceled = FALSE /\ faults = 0
  /\ command = "create"
  /\ \/ VerifyInit /\ ("address" \in short \/ (neighbours = {} /\ arp = {}))
     \/ /\ at = Want /\ been = {Want} /\ neighbours = {} /\ arp = {} /\ late = FALSE
        /\ moves = 0 /\ vpc = "ok" /\ live = FALSE /\ got = Nowhere

InstallInit ==
  /\ StartInit \/ CreateInit
  /\ power = TRUE /\ boot = 1 /\ hostname = "localhost"
  /\ attempt = 1 /\ hpc = "off" /\ dpc = "off"

-----------------------------------------------------------------------------
(* The stage's own goroutine *)

\* Nobody looks at the LAN again; the node keeps the address it has.  What the
\* kubelet will ask for, and what may come between, is open.
Begin ==
  /\ pc = "verify" /\ vpc = "ok" /\ pc' = "run"
  /\ apc' = "sweep" /\ hpc' = "try" /\ dpc' = "tick"
  /\ at' = Want /\ been' = {Want} /\ neighbours' = {} /\ arp' = {}
  /\ late' = FALSE /\ moves' = 0 /\ live' = FALSE /\ got' = Nowhere
  /\ short' \in SUBSET InstallHitches /\ csr' \in [CSRs -> {"none", "wanted"}]
  /\ UNCHANGED <<stale, api, node, ready, listed, canceled, faults, vpc,
                 command, installGuest, attempt>>

VerifyFails ==
  /\ pc = "verify" /\ vpc \in {"mismatch", "timeout"} /\ pc' = "failed"
  /\ UNCHANGED <<given, guest, ready, approver, canceled, faults, verifyVars, installVars>>

\* The installer waits for a cluster that is complete.
Complete == node /\ \A k \in CSRs : csr[k] \in {"none", "approved"}

InstallerReturns ==
  /\ pc = "run" /\ Complete /\ pc' = "cancel" /\ ready' = TRUE
  /\ UNCHANGED <<given, guest, approver, canceled, faults, verifyVars, installVars>>

\* Exit status 6, and the wait is repeated: "the cluster keeps progressing".
WindowPasses ==
  /\ pc = "run" /\ attempt < waitForInstallRetries /\ attempt' = attempt + 1
  /\ UNCHANGED <<vars, verifyVars, command, installGuest, helpers>>

InstallerFails ==
  /\ pc = "run" /\ pc' = "cancel"
  /\ \/ "windows" \in short /\ attempt = waitForInstallRetries
     \/ "exit" \in short
  /\ UNCHANGED <<given, guest, ready, approver, canceled, faults, verifyVars, installVars>>

CancelHelpers ==
  /\ command = "create" /\ Cancel
  /\ UNCHANGED <<verifyVars, installVars>>

\* And so are the other two.
InstallReturn ==
  /\ command = "create" /\ hpc = "off" /\ dpc = "off" /\ Return
  /\ UNCHANGED <<verifyVars, installVars>>

InstallStep ==
  \/ Begin \/ VerifyFails \/ InstallerReturns \/ WindowPasses \/ InstallerFails
  \/ CancelHelpers \/ InstallReturn

-----------------------------------------------------------------------------
(* SSHHostnameInjector.Run *)

Reachable == power /\ at = Want

\* Mutant of Try: it is content once the hostname was set.
TryOnce ==
  /\ hpc = "try"
  /\ \/ Reachable /\ hostname' = "own" /\ hpc' = "done" /\ UNCHANGED faults
     \/ UNCHANGED hostname /\ hpc' = "tick" /\ (Fault \/ (UNCHANGED faults /\ (canceled \/ ~Reachable)))
  /\ UNCHANGED <<given, guest, pc, ready, approver, canceled, verifyVars, command, power, boot, attempt, dpc>>

Try ==
  /\ hpc = "try" /\ hpc' = "tick"
  /\ \/ Reachable /\ hostname' = "own" /\ UNCHANGED faults
     \/ UNCHANGED hostname /\ (Fault \/ (UNCHANGED faults /\ (canceled \/ ~Reachable)))
  /\ UNCHANGED <<given, guest, pc, ready, approver, canceled, verifyVars, command, power, boot, attempt, dpc>>

TryAgain ==
  /\ hpc = "tick" /\ hpc' = "try"
  /\ UNCHANGED <<vars, verifyVars, command, installGuest, attempt, dpc>>

InjectorEnds ==
  /\ hpc = "tick" /\ canceled /\ hpc' = "off"
  /\ UNCHANGED <<vars, verifyVars, command, installGuest, attempt, dpc>>

-----------------------------------------------------------------------------
(* watchdog *)

\* A query that fails, or finds the VM running, changes nothing.
SeesOff ==
  /\ dpc = "tick" /\ ~power /\ dpc' = "start"
  /\ UNCHANGED <<vars, verifyVars, command, installGuest, attempt, hpc>>

Restart ==
  /\ dpc = "start" /\ dpc' = "tick"
  /\ \/ power' = TRUE /\ UNCHANGED faults
     \/ UNCHANGED power /\ (Fault \/ (canceled /\ UNCHANGED faults))
  /\ UNCHANGED <<given, guest, pc, ready, approver, canceled, verifyVars, command, boot, hostname, attempt, hpc>>

WatchdogEnds ==
  /\ dpc = "tick" /\ canceled /\ dpc' = "off"
  /\ UNCHANGED <<vars, verifyVars, command, installGuest, attempt, hpc>>

-----------------------------------------------------------------------------
(* The guest *)

\* A reboot resets the hostname, and libvirt may leave the VM off.
Reboot ==
  /\ pc = "run" /\ power /\ boot < Boots
  /\ boot' = boot + 1 /\ hostname' = "localhost" /\ power' \in BOOLEAN
  /\ UNCHANGED <<vars, verifyVars, command, attempt, helpers>>

\* node-valid-hostname holds the kubelet back until the node has a name, after
\* the last boot.
Installed == boot = Boots /\ power /\ hostname = "own"

InstallGuestStep ==
  /\ pc = "run" /\ (api \/ Installed) /\ GuestStep
  /\ UNCHANGED <<verifyVars, installVars>>

\* The address is a hitch of its own.
LANStep ==
  /\ pc = "verify"
  /\ \/ ComeUp(Want)
     \/ "address" \in short /\ (GoDown \/ \E a \in Elsewhere : ComeUp(a))
     \/ "address" \in short /\ \E a \in Addresses : Neighbour(a)
     \/ short # {} /\ Expire
  /\ UNCHANGED <<vars, installVars>>

VerifyMaster == pc = "verify" /\ VerifyStep /\ UNCHANGED <<vars, installVars>>

-----------------------------------------------------------------------------

Starts ==
  /\ command = "start" /\ (GuestStep \/ StartStep)
  /\ UNCHANGED <<verifyVars, installVars>>

Approves == ApproverStep /\ UNCHANGED <<verifyVars, installVars>>
Injects == Try \/ TryAgain \/ InjectorEnds
Watches == SeesOff \/ Restart \/ WatchdogEnds

InstallNext ==
  \/ Starts \/ Approves \/ VerifyMaster \/ InstallStep \/ Injects \/ Watches
  \/ Reboot \/ InstallGuestStep \/ LANStep

InstallSpec == InstallInit /\ [][InstallNext]_allVars

\* The guest boots and its kubelet asks, the LAN lets it; the goroutines run,
\* and no select chooses the ticker over a canceled context for ever.
Ends(l, step) == l = "tick" /\ canceled /\ step

FairSpec ==
  /\ InstallSpec
  /\ WF_allVars(command = "start" /\ GuestStep /\ UNCHANGED <<verifyVars, installVars>>)
  /\ WF_allVars(command = "start" /\ StartStep /\ UNCHANGED <<verifyVars, installVars>>)
  /\ WF_allVars(InstallGuestStep) /\ WF_allVars(Reboot)
  /\ WF_allVars(LANStep /\ at' = Want /\ at # Want) /\ WF_allVars(LANStep /\ late' # late)
  /\ WF_allVars(VerifyMaster) /\ WF_allVars(InstallStep)
  /\ WF_allVars(Approves) /\ WF_allVars(Injects) /\ WF_allVars(Watches)
  /\ SF_allVars(apc = "tick" /\ apc' = "off" /\ Approves)
  /\ SF_allVars(InjectorEnds) /\ SF_allVars(WatchdogEnds)

-----------------------------------------------------------------------------
(* Properties *)

\* A start or an install returns, whatever the guest does, and with success
\* unless a deadline, the address or the installer came between: a hostname
\* that every boot resets, a reboot that leaves the VM off, two windows that
\* pass, requests to approve and calls that fail do not.
CommandReturns == <>(pc = "ok" \/ (pc = "failed" /\ short # {}))
=============================================================================
