------------------------------- MODULE PullSecret -------------------------------
(***************************************************************************)
(* The pull secret: `pull-secret set` and `pull-secret login` write it,    *)
(* `create` reads it.  A create that finds none, in a terminal, logs in    *)
(* first: Fetcher asks Red Hat SSO for a device code, polls until the user *)
(* has authorized it, and fetches the secret.  The file is looked at three *)
(* times in one create (does it exist, is it valid, what does it say),     *)
(* with downloads between the last two, and nothing locks it.              *)
(***************************************************************************)
EXTENDS Naturals

CONSTANTS
  Procs,      \* processes of the CLI
  Commands,   \* what they are run with: set, login, create
  MaxFaults,  \* bound on requests to Red Hat that fail
  MaxCrashes  \* bound on processes that are killed

ASSUME SecretAssumption ==
  Commands \subseteq {"set", "login", "create"} /\ MaxFaults \in Nat /\ MaxCrashes \in Nat

VARIABLES
  file,   \* the secret on disk: none, torn (cut off or empty), junk, good
  cmd,    \* each process's command
  pc,     \* and where it is
  data,   \* the secret in its memory
  code,   \* its device code: none, pending, authorized, denied
  late,   \* its clock has passed the code's expiry
  met,    \* a write has met another, or a create between its looks at the file
  faults, crashes

locals == <<cmd, data, code, late>>
vars == <<file, met, locals, pc, faults, crashes>>

Secrets == {"none", "torn", "junk", "good"}

Init ==
  /\ file = "none" /\ met = FALSE /\ faults = 0 /\ crashes = 0
  /\ cmd = [p \in Procs |-> "none"] /\ pc = [p \in Procs |-> "idle"]
  /\ data = [p \in Procs |-> "none"] /\ code = [p \in Procs |-> "none"]
  /\ late = [p \in Procs |-> FALSE]

Move(p, l) == pc' = [pc EXCEPT ![p] = l]
Holds(p, s) == data' = [data EXCEPT ![p] = s]

\* A process that ends takes along what it had in memory.
Exit(p) ==
  /\ Move(p, "idle") /\ Holds(p, "none")
  /\ cmd' = [cmd EXCEPT ![p] = "none"] /\ code' = [code EXCEPT ![p] = "none"]
  /\ late' = [late EXCEPT ![p] = FALSE]

Goto(p, l) == IF l = "idle" THEN Exit(p) ELSE Move(p, l) /\ UNCHANGED locals

-----------------------------------------------------------------------------
(* The commands *)

\* `set` takes whatever the user's file says.
LaunchSet(p) ==
  /\ pc[p] = "idle" /\ "set" \in Commands /\ cmd' = [cmd EXCEPT ![p] = "set"]
  /\ \E s \in {"junk", "good"}: Holds(p, s)
  /\ Move(p, "write") /\ UNCHANGED <<file, met, code, late, faults, crashes>>

LaunchLogin(p) ==
  /\ pc[p] = "idle" /\ "login" \in Commands /\ cmd' = [cmd EXCEPT ![p] = "login"]
  /\ Move(p, "start") /\ UNCHANGED <<file, met, data, code, late, faults, crashes>>

LaunchCreate(p) ==
  /\ pc[p] = "idle" /\ "create" \in Commands /\ cmd' = [cmd EXCEPT ![p] = "create"]
  /\ Move(p, "ensure") /\ UNCHANGED <<file, met, data, code, late, faults, crashes>>

\* EnsurePullSecret only stats the file.  Without one, the user is asked to log
\* in, and may not want to, or there is no terminal to ask on.
Ensure(p) ==
  /\ pc[p] = "ensure"
  /\ \/ file # "none" /\ Goto(p, "preflight")
     \/ file = "none" /\ Goto(p, "start")
     \/ file = "none" /\ Exit(p)
  /\ UNCHANGED <<file, met, faults, crashes>>

\* Mutant of Preflight: the file is only looked for.
PreflightStats(p) ==
  /\ pc[p] = "preflight"
  /\ Goto(p, IF file # "none" THEN "read" ELSE "idle")
  /\ UNCHANGED <<file, met, faults, crashes>>

\* generate-ignition's preflight parses it,
Preflight(p) ==
  /\ pc[p] = "preflight"
  /\ Goto(p, IF file = "good" THEN "read" ELSE "idle")
  /\ UNCHANGED <<file, met, faults, crashes>>

\* and its Apply, an install's downloads later, reads it into the install config.
ReadPullSecret(p) ==
  /\ pc[p] = "read" /\ file # "none" /\ Holds(p, file) /\ Move(p, "installs")
  /\ UNCHANGED <<file, met, cmd, code, late, faults, crashes>>

Finish(p) ==
  /\ pc[p] = "installs" /\ Exit(p)
  /\ UNCHANGED <<file, met, faults, crashes>>

-----------------------------------------------------------------------------
(* The device login *)

StartDeviceAuth(p) ==
  /\ pc[p] = "start" /\ code' = [code EXCEPT ![p] = "pending"]
  /\ late' = [late EXCEPT ![p] = FALSE] /\ Move(p, "poll")
  /\ UNCHANGED <<file, met, cmd, data, faults, crashes>>

\* authorization_pending, or slow_down, which an authorized code gets as well.
PollPending(p) ==
  /\ pc[p] = "poll" /\ code[p] \in {"pending", "authorized"} /\ Goto(p, "wait")
  /\ UNCHANGED <<file, met, faults, crashes>>

\* Mutant of PollAgain: the poll goes on for as long as it is told to.
PollOn(p) ==
  /\ pc[p] = "wait" /\ Goto(p, "poll")
  /\ UNCHANGED <<file, met, faults, crashes>>

\* The interval is slept through and the poll repeated, until the client's own
\* clock says that the code has expired.
PollAgain(p) ==
  /\ pc[p] = "wait" /\ Goto(p, IF late[p] THEN "idle" ELSE "poll")
  /\ UNCHANGED <<file, met, faults, crashes>>

\* The code is spent.
PollToken(p) ==
  /\ pc[p] = "poll" /\ code[p] = "authorized" /\ Move(p, "fetch")
  /\ code' = [code EXCEPT ![p] = "none"] /\ late' = [late EXCEPT ![p] = FALSE]
  /\ UNCHANGED <<file, met, cmd, data, faults, crashes>>

\* access_denied, expired_token.
PollRefused(p) ==
  /\ pc[p] = "poll" /\ (code[p] = "denied" \/ late[p]) /\ Exit(p)
  /\ UNCHANGED <<file, met, faults, crashes>>

\* Any 2xx body is taken for the secret.
FetchPullSecret(p) ==
  /\ pc[p] = "fetch" /\ \E s \in {"junk", "good"}: Holds(p, s)
  /\ Move(p, "vet") /\ UNCHANGED <<file, met, cmd, code, late, faults, crashes>>

\* Mutant of Validate: what was fetched is stored.
ValidateNothing(p) ==
  /\ pc[p] = "vet" /\ Goto(p, "write")
  /\ UNCHANGED <<file, met, faults, crashes>>

Validate(p) ==
  /\ pc[p] = "vet" /\ Goto(p, IF data[p] = "good" THEN "write" ELSE "idle")
  /\ UNCHANGED <<file, met, faults, crashes>>

\* A request that gets no answer, or another one, is not repeated.
RequestFails(p) ==
  /\ pc[p] \in {"start", "poll", "fetch"} /\ faults < MaxFaults
  /\ faults' = faults + 1 /\ Exit(p)
  /\ UNCHANGED <<file, met, crashes>>

-----------------------------------------------------------------------------
(* WritePullSecret truncates the file, then writes it *)

Meets(p) == met' = (met \/ \E q \in Procs \ {p} : pc[q] \in {"read", "finish"})

Truncate(p) ==
  /\ pc[p] = "write" /\ file' = "torn" /\ Goto(p, "finish") /\ Meets(p)
  /\ UNCHANGED <<faults, crashes>>

\* What another process wrote in between may be longer, and its end stays.  A
\* create that has logged in goes on to Create.
FinishWrite(p) ==
  /\ pc[p] = "finish"
  /\ file' \in {data[p]} \cup (IF file = "torn" THEN {} ELSE {"torn"})
  /\ Goto(p, IF cmd[p] = "create" THEN "preflight" ELSE "idle") /\ Meets(p)
  /\ UNCHANGED <<faults, crashes>>

Crash(p) ==
  /\ pc[p] # "idle" /\ crashes < MaxCrashes /\ crashes' = crashes + 1
  /\ Exit(p) /\ UNCHANGED <<file, met, faults>>

-----------------------------------------------------------------------------
(* The user and the clock, which matter as long as a code is polled *)

Answer(p) ==
  /\ pc[p] \in {"poll", "wait"} /\ code[p] = "pending"
  /\ \E c \in {"authorized", "denied"}: code' = [code EXCEPT ![p] = c]
  /\ UNCHANGED <<file, met, cmd, pc, data, late, faults, crashes>>

Expire(p) ==
  /\ pc[p] \in {"poll", "wait"} /\ ~late[p] /\ late' = [late EXCEPT ![p] = TRUE]
  /\ UNCHANGED <<file, met, cmd, pc, data, code, faults, crashes>>

Login(p) ==
  \/ StartDeviceAuth(p) \/ PollPending(p) \/ PollAgain(p) \/ PollToken(p) \/ PollRefused(p)
  \/ FetchPullSecret(p) \/ Validate(p) \/ Truncate(p) \/ FinishWrite(p)

Create(p) == Ensure(p) \/ Preflight(p) \/ ReadPullSecret(p) \/ Finish(p)

Next ==
  \E p \in Procs:
    \/ LaunchSet(p) \/ LaunchLogin(p) \/ LaunchCreate(p)
    \/ Login(p) \/ Create(p) \/ RequestFails(p) \/ Crash(p) \/ Answer(p) \/ Expire(p)

Spec == Init /\ [][Next]_vars

\* A started login goes on, and time passes.
FairSpec ==
  Spec /\ \A p \in Procs: WF_vars(Login(p)) /\ WF_vars(Expire(p))

-----------------------------------------------------------------------------
(* Properties *)

TypeOK ==
  /\ file \in Secrets
  /\ cmd \in [Procs -> {"none"} \cup Commands]
  /\ pc \in [Procs -> {"idle", "ensure", "preflight", "read", "installs", "start",
                       "poll", "wait", "fetch", "vet", "write", "finish"}]
  /\ data \in [Procs -> Secrets]
  /\ code \in [Procs -> {"none", "pending", "authorized", "denied"}]
  /\ late \in [Procs -> BOOLEAN] /\ met \in BOOLEAN
  /\ faults \in 0..MaxFaults /\ crashes \in 0..MaxCrashes

\* No install begins with a secret that is not one, whatever `set` was given and
\* wherever a write was cut off (ValidatePullSecretJSON: "Run as a preflight so a
\* malformed secret fails fast instead of mid-install"), unless it is written
\* between the preflight and the stage that reads it, or by two at once.
InstallsValid == ~met => \A p \in Procs : pc[p] = "installs" => data[p] = "good"

\* Whoever changes the file is a `set`, or has vetted what it writes: a login or
\* a create empties it only for a fetched secret that is one, and puts that in.
\* Killed between the two it leaves a torn file, over a valid secret too; two
\* writes at once may.
LoginStoresVetted ==
  [][file' # file /\ ~met' =>
       \E p \in Procs :
         /\ pc[p] \in {"write", "finish"} /\ pc'[p] # pc[p]
         /\ \/ cmd[p] = "set"
            \/ data[p] = "good" /\ file' = IF pc[p] = "write" THEN "torn" ELSE "good"]_vars

\* A login's wait ends - with the token, a refusal, or the code's expiry - even
\* when the server only ever says that the authorization is pending.
LoginEnds ==
  \A p \in Procs : pc[p] = "poll" ~> pc[p] \notin {"poll", "wait"}
=============================================================================
