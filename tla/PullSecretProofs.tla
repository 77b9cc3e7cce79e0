--------------------------- MODULE PullSecretProofs ---------------------------
(* The safety of the pull secret, for any number of processes.                *)
EXTENDS PullSecret, TLAPS

\* A process between its looks at the file has seen it valid, and one between
\* the two steps of its write has emptied it, as long as none has met another.
SeenIsThere ==
  ~met => \A p \in Procs :
    /\ pc[p] = "read" => file = "good"
    /\ pc[p] = "finish" => file = "torn"

\* What a process writes was given to `set`, or vetted.
WriteIsVetted == \A p \in Procs : pc[p] \in {"write", "finish"} => cmd[p] = "set" \/ data[p] = "good"

SecretInv == TypeOK /\ InstallsValid /\ SeenIsThere /\ WriteIsVetted

LEMMA SecretInit == Init => SecretInv
<1> SUFFICES ASSUME Init PROVE SecretInv
  OBVIOUS
<1>1. faults \in 0..MaxFaults /\ crashes \in 0..MaxCrashes
  BY SecretAssumption DEF Init
<1>2. TypeOK
  BY <1>1 DEF Init, TypeOK, Secrets
<1>3. InstallsValid /\ SeenIsThere /\ WriteIsVetted
  BY DEF Init, InstallsValid, SeenIsThere, WriteIsVetted
<1>4. QED BY <1>2, <1>3 DEF SecretInv

\* A command that begins.
LEMMA LaunchKeeps ==
  ASSUME SecretInv, NEW p \in Procs, LaunchSet(p) \/ LaunchLogin(p) \/ LaunchCreate(p)
  PROVE  SecretInv'
<1> USE DEF SecretInv, LaunchSet, LaunchLogin, LaunchCreate, Move, Holds
<1>1. TypeOK'
  BY SecretAssumption DEF TypeOK, Secrets
<1>2. InstallsValid' /\ SeenIsThere' /\ WriteIsVetted'
  BY DEF TypeOK, InstallsValid, SeenIsThere, WriteIsVetted
<1>3. QED BY <1>1, <1>2

\* create's own looks at the file.
LEMMA CreateKeeps ==
  ASSUME SecretInv, NEW p \in Procs, Create(p)
  PROVE  SecretInv'
<1> USE DEF SecretInv, Create, Ensure, Preflight, ReadPullSecret, Finish, Exit, Move, Goto, Holds, locals
<1>1. TypeOK'
  BY DEF TypeOK, Secrets
<1>2. InstallsValid' /\ SeenIsThere' /\ WriteIsVetted'
  BY DEF TypeOK, InstallsValid, SeenIsThere, WriteIsVetted
<1>3. QED BY <1>1, <1>2

\* The login up to its write.
Polling(p) ==
  \/ StartDeviceAuth(p) \/ PollPending(p) \/ PollAgain(p) \/ PollToken(p) \/ PollRefused(p)
  \/ FetchPullSecret(p) \/ Validate(p)

LEMMA PollingKeeps ==
  ASSUME SecretInv, NEW p \in Procs, Polling(p)
  PROVE  SecretInv'
<1> USE DEF SecretInv, Polling, StartDeviceAuth, PollPending, PollAgain, PollToken, PollRefused,
            FetchPullSecret, Validate, Exit, Move, Goto, Holds, locals
<1>1. TypeOK'
  BY DEF TypeOK, Secrets
<1>2. InstallsValid' /\ SeenIsThere' /\ WriteIsVetted'
  BY DEF TypeOK, InstallsValid, SeenIsThere, WriteIsVetted
<1>3. QED BY <1>1, <1>2

\* A write, which is met when another process is at the file.
LEMMA WriteKeeps ==
  ASSUME SecretInv, NEW p \in Procs, Truncate(p) \/ FinishWrite(p)
  PROVE  SecretInv'
<1> USE DEF SecretInv, Truncate, FinishWrite, Meets, Exit, Move, Goto, Holds, locals
<1>1. TypeOK'
  BY DEF TypeOK, Secrets
<1>2. InstallsValid'
  BY DEF TypeOK, InstallsValid
<1>3. SeenIsThere'
  BY DEF TypeOK, SeenIsThere
<1>4. WriteIsVetted'
  BY DEF TypeOK, WriteIsVetted
<1>5. QED BY <1>1, <1>2, <1>3, <1>4

\* A request that fails, a kill, the user's answer, and the time that passes.
LEMMA EnvironmentKeeps ==
  ASSUME SecretInv, NEW p \in Procs, RequestFails(p) \/ Crash(p) \/ Answer(p) \/ Expire(p)
  PROVE  SecretInv'
<1> USE DEF SecretInv, RequestFails, Crash, Answer, Expire, Exit, Move, Holds, locals
<1>1. faults' \in 0..MaxFaults /\ crashes' \in 0..MaxCrashes
  BY SecretAssumption DEF TypeOK
<1>2. TypeOK'
  BY <1>1 DEF TypeOK, Secrets
<1>3. InstallsValid' /\ SeenIsThere' /\ WriteIsVetted'
  BY DEF TypeOK, InstallsValid, SeenIsThere, WriteIsVetted
<1>4. QED BY <1>2, <1>3

LEMMA SecretStep == SecretInv /\ [Next]_vars => SecretInv'
<1> SUFFICES ASSUME SecretInv, [Next]_vars PROVE SecretInv'
  OBVIOUS
<1>1. CASE UNCHANGED vars
  BY <1>1 DEF SecretInv, TypeOK, InstallsValid, SeenIsThere, WriteIsVetted, vars, locals
<1>2. CASE Next
  BY <1>2, LaunchKeeps, CreateKeeps, PollingKeeps, WriteKeeps, EnvironmentKeeps
  DEF Next, Login, Polling
<1>3. QED BY <1>1, <1>2

LEMMA SecretInvariant == Spec => []SecretInv
  BY SecretInit, SecretStep, PTL DEF Spec

\* Every command, kill and failing request keeps the types.
THEOREM SecretTypeCorrect == Spec => []TypeOK
<1>1. SecretInv => TypeOK
  BY DEF SecretInv
<1>2. QED BY SecretInvariant, <1>1, PTL

\* However many processes set, log in and create, no install begins with an
\* invalid secret, unless a write has met another or a create's looks.
THEOREM InstallsAlwaysValid == Spec => []InstallsValid
<1>1. SecretInv => InstallsValid
  BY DEF SecretInv
<1>2. QED BY SecretInvariant, <1>1, PTL

\* Under the same premise a login, or a create that logs in, empties the file only
\* for a secret it has vetted, and writes that one.
THEOREM LoginAlwaysStoresVetted == Spec => LoginStoresVetted
<1> DEFINE Vetted(p) == /\ pc[p] \in {"write", "finish"} /\ pc'[p] # pc[p]
                        /\ \/ cmd[p] = "set"
                           \/ data[p] = "good" /\ file' = IF pc[p] = "write" THEN "torn" ELSE "good"
<1>1. ASSUME SecretInv, [Next]_vars, file' # file, ~met'
      PROVE  \E p \in Procs : Vetted(p)
  <2>1. PICK p \in Procs : Truncate(p) \/ FinishWrite(p)
    BY <1>1 DEF Next, vars, locals, LaunchSet, LaunchLogin, LaunchCreate, Login, Create, RequestFails,
       Crash, Answer, Expire, Ensure, Preflight, ReadPullSecret, Finish, StartDeviceAuth, PollPending,
       PollAgain, PollToken, PollRefused, FetchPullSecret, Validate
  <2>2. pc[p] \in {"write", "finish"} /\ pc'[p] # pc[p]
    BY <1>1, <2>1 DEF Truncate, FinishWrite, Goto, Exit, Move, SecretInv, TypeOK
  <2>3. CASE Truncate(p)
    BY <1>1, <2>2, <2>3 DEF Truncate, SecretInv, WriteIsVetted
  <2>4. CASE FinishWrite(p)
    BY <1>1, <2>2, <2>4 DEF FinishWrite, Meets, SecretInv, SeenIsThere, WriteIsVetted
  <2>5. QED BY <2>1, <2>3, <2>4
<1>2. SecretInv /\ [Next]_vars => [file' # file /\ ~met' => \E p \in Procs : Vetted(p)]_vars
  BY <1>1
<1>3. QED BY SecretInvariant, <1>2, PTL DEF Spec, LoginStoresVetted
=============================================================================
