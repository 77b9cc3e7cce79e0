-------------------------- MODULE InstallWaitProofs --------------------------
(***************************************************************************)
(* The safety of the commands that wait for a guest: of start alone, and   *)
(* of start or create beside their goroutines, for any number of failing   *)
(* calls, boots, moves of the master and addresses of the LAN.             *)
(*                                                                         *)
(* ConvergenceInv is what start, create, guest and approver share; it      *)
(* leaves open where the command is, so that its lemmas serve both         *)
(* specifications.                                                         *)
(***************************************************************************)
EXTENDS InstallWait, TLAPS

Types ==
  /\ stale \in BOOLEAN /\ api \in BOOLEAN /\ node \in BOOLEAN
  /\ canceled \in BOOLEAN /\ ready \in BOOLEAN
  /\ csr \in [CSRs -> {"none", "wanted", "pending", "approved"}]
  /\ apc \in {"off", "sweep", "approve", "tick"} /\ listed \subseteq CSRs
  /\ faults \in 0..MaxFaults

\* Nobody but the command ends the approver, and only a canceled one ends.
ApproverLives ==
  /\ pc \in {"wait", "verify"} => apc = "off" /\ faults = 0
  /\ pc \in {"wait", "ready", "pending", "sleep", "verify", "run"} => ~canceled
  /\ apc = "off" => pc \in {"wait", "verify"} \/ canceled \/ pc = "failed"
  /\ pc = "ok" => ready

\* Whatever says that the node is ready says so after it has rejoined: a node
\* that has rejoined stays so.
ReadyIsJoined == ~stale => (node \/ ready => Joined)

ConvergenceInv == Types /\ ApproverLives /\ ReadyIsJoined

LEMMA ConvergenceInit == Init => ConvergenceInv
<1> SUFFICES ASSUME Init PROVE ConvergenceInv
  OBVIOUS
<1>1. faults \in 0..MaxFaults
  BY ConvergenceAssumption DEF Init
<1>2. Types
  BY <1>1 DEF Init, Types
<1>3. ApproverLives /\ ReadyIsJoined
  BY DEF Init, ApproverLives, ReadyIsJoined
<1>4. QED BY <1>2, <1>3 DEF ConvergenceInv

LEMMA FaultCounts ==
  ASSUME faults \in 0..MaxFaults, Fault
  PROVE  faults' \in 0..MaxFaults
  BY ConvergenceAssumption DEF Fault

LEMMA GuestKeeps == ConvergenceInv /\ GuestStep => ConvergenceInv'
<1> SUFFICES ASSUME ConvergenceInv, GuestStep PROVE ConvergenceInv'
  OBVIOUS
<1> USE DEF ConvergenceInv
<1>1. UNCHANGED <<stale, short, pc, ready, apc, listed, canceled, faults>>
  BY DEF GuestStep, APIComes, Request, Report, given, approver
<1>2. Types'
  <2> api' \in BOOLEAN
    BY DEF GuestStep, APIComes, Request, Report, Types
  <2>1. node' \in BOOLEAN
    <3>1. node' = node \/ node' = Joined
      BY DEF GuestStep, APIComes, Request, Report
    <3>2. Joined = TRUE \/ Joined = FALSE
      BY DEF Joined
    <3>3. QED BY <3>1, <3>2 DEF Types
  <2>2. csr' \in [CSRs -> {"none", "wanted", "pending", "approved"}]
    BY DEF GuestStep, APIComes, Request, Report, Types
  <2>3. QED BY <1>1, <2>1, <2>2 DEF Types
<1>3. ApproverLives'
  BY <1>1 DEF ApproverLives
<1>4. Joined => Joined'
  BY DEF GuestStep, APIComes, Request, Report, Joined, Types, CSRs
<1>5. node' => node \/ Joined'
  BY DEF GuestStep, APIComes, Request, Report, Joined
<1>6. ReadyIsJoined'
  BY <1>1, <1>4, <1>5 DEF ReadyIsJoined
<1>7. QED BY <1>2, <1>3, <1>6

LEMMA StartKeeps == ConvergenceInv /\ StartStep => ConvergenceInv'
<1> SUFFICES ASSUME ConvergenceInv, StartStep PROVE ConvergenceInv'
  OBVIOUS
<1> USE DEF ConvergenceInv
<1>1. UNCHANGED <<given, guest, listed>>
  BY DEF StartStep, APIAnswers, APITimeout, NodeReady, CSRsPending, PollAgain,
         ConvergeTimeout, Cancel, Return, approver
<1>2. ready' \in {ready, node, FALSE}
  BY DEF StartStep, APIAnswers, APITimeout, NodeReady, CSRsPending, PollAgain,
         ConvergeTimeout, Cancel, Return, approver
<1>3. ReadyIsJoined'
  BY <1>1, <1>2 DEF ReadyIsJoined, Joined, given, guest, Types
<1>4. faults' \in 0..MaxFaults
  BY FaultCounts
  DEF Types, StartStep, APIAnswers, APITimeout, NodeReady, CSRsPending, PollAgain,
      ConvergeTimeout, Cancel, Return
<1>5. Types'
  BY <1>1, <1>4
  DEF Types, StartStep, APIAnswers, APITimeout, NodeReady, CSRsPending, PollAgain,
      ConvergeTimeout, Cancel, Return, approver, given, guest
<1>6. ApproverLives'
  BY DEF Types, ApproverLives, StartStep, APIAnswers, APITimeout, NodeReady,
         CSRsPending, PollAgain, ConvergeTimeout, Cancel, Return, approver
<1>7. QED BY <1>3, <1>5, <1>6

LEMMA ApproverKeeps == ConvergenceInv /\ ApproverStep => ConvergenceInv'
<1> SUFFICES ASSUME ConvergenceInv, ApproverStep PROVE ConvergenceInv'
  OBVIOUS
<1> USE DEF ConvergenceInv
<1>1. apc # "off" /\ UNCHANGED <<given, api, node, pc, ready, canceled>>
  BY DEF ApproverStep, Sweep, Approve, Swept, Tick, guest
<1>2. pc \notin {"wait", "verify"}
  BY <1>1 DEF ApproverLives
<1>3. faults' \in 0..MaxFaults
  BY FaultCounts DEF Types, ApproverStep, Sweep, Approve, Swept, Tick
<1>4. Types'
  <2>1. csr' \in [CSRs -> {"none", "wanted", "pending", "approved"}]
    BY DEF Types, ApproverStep, Sweep, Approve, Swept, Tick, guest
  <2>2. apc' \in {"off", "sweep", "approve", "tick"} /\ listed' \subseteq CSRs
    BY DEF Types, ApproverStep, Sweep, Approve, Swept, Tick, Pending
  <2>3. QED BY <1>1, <1>2, <1>3, <2>1, <2>2 DEF Types, given
<1>5. ApproverLives'
  BY <1>1, <1>2 DEF ApproverLives, ApproverStep, Sweep, Approve, Swept, Tick
<1>6. Joined => Joined'
  BY DEF Types, CSRs, Joined, ApproverStep, Sweep, Approve, Swept, Tick, guest
<1>7. ReadyIsJoined'
  BY <1>1, <1>6 DEF ReadyIsJoined, given
<1>8. QED BY <1>4, <1>5, <1>7

LEMMA ConvergenceStep == ConvergenceInv /\ [Next]_vars => ConvergenceInv'
<1>1. ConvergenceInv /\ UNCHANGED vars => ConvergenceInv'
  BY DEF ConvergenceInv, Types, ApproverLives, ReadyIsJoined, Joined,
         vars, given, guest, approver
<1>2. QED BY <1>1, GuestKeeps, StartKeeps, ApproverKeeps DEF Next

LEMMA ConvergenceInvariant == Spec => []ConvergenceInv
  BY ConvergenceInit, ConvergenceStep, PTL DEF Spec

\* Every step of start, of its approver and of the guest keeps the types.
THEOREM ConvergenceTypeCorrect == Spec => []TypeOK
<1> DEFINE Places == /\ short \subseteq Deadlines
                     /\ pc \in {"wait", "ready", "pending", "sleep", "cancel", "ok", "failed"}
<1>1. Init => Places
  BY DEF Init
<1>2. Places /\ [Next]_vars => Places'
  BY DEF Next, GuestStep, APIComes, Request, Report, StartStep, APIAnswers, APITimeout, NodeReady,
         CSRsPending, PollAgain, ConvergeTimeout, Cancel, Return, ApproverStep, Sweep, Approve, Swept,
         Tick, vars, given
<1>3. ConvergenceInv /\ Places => TypeOK
  BY DEF ConvergenceInv, Types, ApproverLives, TypeOK
<1>4. QED BY ConvergenceInvariant, <1>1, <1>2, <1>3, PTL DEF Spec

\* A start that succeeds, and was not shown a condition of before the stop, has
\* seen the node rejoin, however many calls have failed.
THEOREM StartAlwaysJoins == Spec => []StartMeansJoined
<1>1. ConvergenceInv => StartMeansJoined
  BY DEF ConvergenceInv, ApproverLives, ReadyIsJoined, StartMeansJoined
<1>2. QED BY ConvergenceInvariant, <1>1, PTL

-----------------------------------------------------------------------------
(* verify-master-ip *)

\* An entry of the table that is older than the connect is worth nothing; one
\* that a connect has left says where the master was.
VerdictInv ==
  /\ at \in Addresses \cup {Nowhere} /\ arp \subseteq Addresses
  /\ at # Nowhere => at \in been
  /\ vpc = "lookup" /\ live /\ Want \in arp => Want \in been
  /\ vpc = "confirm" => got \in Elsewhere
  /\ VerdictIsTrue

LEMMA ResolveTypes ==
  ASSUME NEW a \in Addresses, arp \subseteq Addresses, Resolve(a)
  PROVE  arp' \subseteq Addresses
  BY DEF Resolve

LEMMA VerifyKeeps == VerdictInv /\ VerifyStep => VerdictInv'
<1> SUFFICES ASSUME VerdictInv, VerifyStep PROVE VerdictInv'
  OBVIOUS
<1> USE DEF VerdictInv
<1>1. CASE DialWant
  <2>1. arp' \subseteq Addresses
    BY <1>1, ResolveTypes DEF DialWant, Addresses
  <2>2. live' /\ Want \in arp' => at = Want
    BY <1>1 DEF DialWant, Resolve, Answers
  <2>3. QED BY <1>1, <2>1, <2>2, VerifyAssumption DEF DialWant, VerdictIsTrue
<1>2. CASE LookUp
  <2>1. got' = Want => Want \in arp
    BY <1>2, VerifyAssumption DEF LookUp
  <2>2. \/ vpc' = "ok" /\ live /\ got' = Want
        \/ vpc' = "confirm" /\ got' \in Elsewhere
        \/ vpc' = "deadline"
    BY <1>2 DEF LookUp
  <2>3. QED BY <1>2, <2>1, <2>2 DEF LookUp, lan, VerdictIsTrue
<1>3. CASE Confirm
  <2>1. got \in Elsewhere /\ got # Nowhere
    BY <1>3, VerifyAssumption DEF Confirm
  <2>2. arp' \subseteq Addresses
    BY <1>3, <2>1, ResolveTypes DEF Confirm, Addresses
  <2>3. QED BY <1>3, <2>1, <2>2 DEF Confirm, Answers, VerdictIsTrue
<1>4. CASE Deadline
  BY <1>4 DEF Deadline, lan, VerdictIsTrue
<1>5. QED BY <1>1, <1>2, <1>3, <1>4 DEF VerifyStep

LEMMA LANKeeps == VerdictInv /\ LANStep => VerdictInv'
<1> SUFFICES ASSUME VerdictInv, LANStep PROVE VerdictInv'
  OBVIOUS
<1> USE DEF VerdictInv, Verifying, Verdicts
<1>1. ASSUME NEW a \in Addresses, ComeUp(a) PROVE VerdictInv'
  BY <1>1 DEF ComeUp, VerdictIsTrue
<1>2. CASE GoDown
  BY <1>2 DEF GoDown, VerdictIsTrue
<1>3. ASSUME NEW a \in Addresses, Neighbour(a) PROVE VerdictInv'
  BY <1>3 DEF Neighbour, VerdictIsTrue
<1>4. CASE Expire
  BY <1>4 DEF Expire, VerdictIsTrue
<1>5. QED BY <1>1, <1>2, <1>3, <1>4 DEF LANStep, Addresses

-----------------------------------------------------------------------------
(* The two commands and their goroutines *)

\* Where each command can be, and what it has running there.
Commands ==
  /\ command = "start" => pc \notin {"verify", "run"} /\ hpc = "off" /\ dpc = "off"
  /\ command = "create" => pc # "wait"
  /\ command \in {"start", "create"}
  /\ pc = "verify" => ~node /\ ~ready /\ hpc = "off" /\ dpc = "off"

InstallInv == ConvergenceInv /\ VerdictInv /\ Commands

LEMMA InstallStarts == InstallInit => InstallInv
<1> SUFFICES ASSUME InstallInit PROVE InstallInv
  OBVIOUS
<1>1. Commands
  BY DEF InstallInit, StartInit, CreateInit, Init, Commands
<1>2. VerdictInv
  <2>1. CASE VerifyInit
    BY <2>1 DEF VerifyInit, VerdictInv, VerdictIsTrue
  <2>2. CASE ~VerifyInit
    BY <2>2, VerifyAssumption DEF InstallInit, StartInit, CreateInit, VerdictInv, VerdictIsTrue, Addresses
  <2>3. QED BY <2>1, <2>2
<1>3. ConvergenceInv
  <2>1. CASE StartInit
    BY <2>1, ConvergenceInit DEF StartInit
  <2>2. CASE CreateInit
    <3>1. 0 \in 0..MaxFaults
      BY ConvergenceAssumption
    <3>2. Types
      BY <2>2, <3>1 DEF CreateInit, Types
    <3>3. QED BY <2>2, <3>2 DEF CreateInit, ConvergenceInv, ApproverLives, ReadyIsJoined
  <2>3. QED BY <2>1, <2>2 DEF InstallInit
<1>4. QED BY <1>1, <1>2, <1>3 DEF InstallInv

\* What start shares with StartConvergence, and the guest and the approver of
\* both commands.
LEMMA SharedKeeps == InstallInv /\ (Starts \/ Approves \/ InstallGuestStep) => InstallInv'
<1> SUFFICES ASSUME InstallInv, Starts \/ Approves \/ InstallGuestStep PROVE InstallInv'
  OBVIOUS
<1> USE DEF InstallInv
<1>1. UNCHANGED <<verifyVars, installVars>> /\ (GuestStep \/ StartStep \/ ApproverStep)
  BY DEF Starts, Approves, InstallGuestStep
<1>2. ConvergenceInv'
  BY <1>1, GuestKeeps, StartKeeps, ApproverKeeps
<1>3. VerdictInv'
  BY <1>1 DEF VerdictInv, VerdictIsTrue, verifyVars, lan
<1>4. Commands'
  <2>1. UNCHANGED <<command, hpc, dpc>>
    BY <1>1 DEF installVars, helpers
  <2>2. CASE StartStep
    <3>1. command = "start" /\ pc' \notin {"verify", "run"}
      BY <2>2 DEF Starts, Approves, InstallGuestStep, ApproverStep, Sweep, Approve, Swept, Tick, GuestStep,
           APIComes, Request, Report, StartStep, APIAnswers, APITimeout, NodeReady, CSRsPending,
           PollAgain, ConvergeTimeout, Cancel, Return, Commands
    <3>2. QED BY <2>1, <3>1 DEF Commands
  <2>3. CASE GuestStep \/ ApproverStep
    <3>1. UNCHANGED <<pc, ready>>
      BY <2>3 DEF GuestStep, APIComes, Request, Report, ApproverStep, Sweep, Approve, Swept, Tick
    <3>2. pc # "verify"
      BY <2>3 DEF Starts, Approves, InstallGuestStep, Commands, ApproverStep, Sweep, Approve, Swept, Tick,
           ConvergenceInv, ApproverLives
    <3>3. QED BY <2>1, <3>1, <3>2 DEF Commands
  <2>4. QED BY <1>1, <2>2, <2>3
<1>5. QED BY <1>2, <1>3, <1>4

\* The hostname injector, the watchdog and the reboots touch nothing of it.
LEMMA HelpersKeep == InstallInv /\ (Injects \/ Watches \/ Reboot) => InstallInv'
<1> SUFFICES ASSUME InstallInv, Injects \/ Watches \/ Reboot PROVE InstallInv'
  OBVIOUS
<1> USE DEF InstallInv
<1>1. /\ UNCHANGED <<given, guest, pc, ready, approver, canceled, verifyVars, command>>
      /\ (hpc' = "off" \/ hpc # "off") /\ (hpc = "off" => hpc' = "off")
      /\ (dpc = "off" => dpc' = "off")
      /\ (faults' = faults \/ (Fault /\ (hpc # "off" \/ dpc # "off")))
  BY DEF Injects, Watches, Reboot, Try, TryAgain, InjectorEnds, SeesOff, Restart, WatchdogEnds, vars, helpers,
     installGuest
<1>2. faults' \in 0..MaxFaults
  BY <1>1, FaultCounts DEF ConvergenceInv, Types
<1>3. pc \in {"wait", "verify"} => hpc = "off" /\ dpc = "off"
  BY DEF Commands, ConvergenceInv
<1>4. ConvergenceInv'
  BY <1>1, <1>2, <1>3 DEF ConvergenceInv, Types, ApproverLives, ReadyIsJoined, Joined, given, guest,
     approver
<1>5. VerdictInv'
  BY <1>1 DEF VerdictInv, VerdictIsTrue, verifyVars, lan
<1>6. Commands'
  BY <1>1 DEF Commands, guest
<1>7. QED BY <1>4, <1>5, <1>6

LEMMA BeginKeeps == InstallInv /\ (Begin \/ VerifyFails \/ VerifyMaster \/ LANStep) => InstallInv'
<1> SUFFICES ASSUME InstallInv, Begin \/ VerifyFails \/ VerifyMaster \/ LANStep PROVE InstallInv'
  OBVIOUS
<1> USE DEF InstallInv
<1>1. CASE Begin
  <2>1. ConvergenceInv'
    BY <1>1 DEF Begin, ConvergenceInv, Types, ApproverLives, ReadyIsJoined, Joined, Commands
  <2>2. VerdictInv'
    BY <1>1, VerifyAssumption DEF Begin, VerdictInv, VerdictIsTrue, Addresses
  <2>3. Commands'
    BY <1>1 DEF Begin, Commands
  <2>4. QED BY <2>1, <2>2, <2>3
<1>2. CASE VerifyFails
  <2>1. ConvergenceInv'
    BY <1>2 DEF VerifyFails, ConvergenceInv, Types, ApproverLives, ReadyIsJoined, Joined,
         given, guest, approver
  <2>2. VerdictInv'
    BY <1>2 DEF VerifyFails, VerdictInv, VerdictIsTrue, verifyVars, lan
  <2>3. Commands'
    BY <1>2 DEF VerifyFails, Commands, installVars, helpers
  <2>4. QED BY <2>1, <2>2, <2>3
<1>3. CASE VerifyMaster \/ LANStep
  <2>1. UNCHANGED <<vars, installVars>> /\ (VerifyStep \/ LANStep)
    BY <1>3 DEF VerifyMaster, LANStep
  <2>2. VerdictInv'
    BY <2>1, VerifyKeeps, LANKeeps
  <2>3. ConvergenceInv'
    BY <2>1 DEF vars, given, guest, approver, ConvergenceInv, Types, ApproverLives,
         ReadyIsJoined, Joined
  <2>4. Commands'
    BY <2>1 DEF Commands, vars, guest, installVars, helpers
  <2>5. QED BY <2>2, <2>3, <2>4
<1>4. QED BY <1>1, <1>2, <1>3

LEMMA InstallerKeeps ==
  InstallInv /\ (InstallerReturns \/ WindowPasses \/ InstallerFails \/ CancelHelpers \/ InstallReturn)
    => InstallInv'
<1> SUFFICES ASSUME InstallInv,
                    InstallerReturns \/ WindowPasses \/ InstallerFails \/ CancelHelpers \/ InstallReturn
             PROVE  InstallInv'
  OBVIOUS
<1> USE DEF InstallInv
<1>1. /\ UNCHANGED <<verifyVars, command, helpers, given, guest, approver, faults>>
      /\ \/ pc = "run" /\ pc' = "run" /\ UNCHANGED <<ready, canceled>>
         \/ pc = "run" /\ pc' = "cancel" /\ UNCHANGED canceled /\ (UNCHANGED ready \/ (ready' = TRUE /\ Complete))
         \/ pc = "cancel" /\ pc' = "cancel" /\ canceled' = TRUE /\ UNCHANGED ready
         \/ /\ pc = "cancel" /\ pc' = (IF ready THEN "ok" ELSE "failed") /\ apc = "off" /\ canceled
            /\ hpc = "off" /\ dpc = "off" /\ UNCHANGED <<ready, canceled>>
  BY DEF InstallerReturns, WindowPasses, InstallerFails, CancelHelpers, InstallReturn, Cancel, Return, vars,
         installVars
<1>2. Complete => Joined
  BY DEF Complete, Joined, CSRs
<1>3. ReadyIsJoined'
  BY <1>1, <1>2 DEF ConvergenceInv, ReadyIsJoined, Joined, given, guest
<1>4. Types'
  BY <1>1 DEF ConvergenceInv, Types, given, guest, approver
<1>5. ApproverLives'
  BY <1>1 DEF ConvergenceInv, ApproverLives, approver
<1>6. VerdictInv'
  BY <1>1 DEF VerdictInv, VerdictIsTrue, verifyVars, lan
<1>7. Commands'
  BY <1>1 DEF Commands, helpers
<1>8. QED BY <1>3, <1>4, <1>5, <1>6, <1>7 DEF ConvergenceInv

LEMMA InstallInvariant == InstallSpec => []InstallInv
<1>1. InstallInv /\ UNCHANGED allVars => InstallInv'
  BY DEF InstallInv, ConvergenceInv, Types, ApproverLives, ReadyIsJoined, Joined, VerdictInv,
         VerdictIsTrue, Commands, allVars, vars, given, guest, approver, verifyVars, lan,
         installVars, helpers
<1>2. InstallInv /\ [InstallNext]_allVars => InstallInv'
  BY <1>1, SharedKeeps, HelpersKeep, BeginKeeps, InstallerKeeps DEF InstallNext, InstallStep
<1>3. QED BY InstallStarts, <1>2, PTL DEF InstallSpec

\* A start that succeeds has seen the node rejoin, a create the installed node,
\* in the midst of all the goroutines, failing calls and reboots.
THEOREM InstallAlwaysJoins == InstallSpec => []StartMeansJoined
<1>1. InstallInv => StartMeansJoined
  BY DEF InstallInv, ConvergenceInv, ApproverLives, ReadyIsJoined, StartMeansJoined
<1>2. QED BY InstallInvariant, <1>1, PTL

\* verify-master-ip lets a create go on, or ends it, for where the master has
\* been, on a LAN of any size with any neighbours and any old entries.
THEOREM VerdictAlwaysTrue == InstallSpec => []VerdictIsTrue
<1>1. InstallInv => VerdictIsTrue
  BY DEF InstallInv, VerdictInv
<1>2. QED BY InstallInvariant, <1>1, PTL
=============================================================================
