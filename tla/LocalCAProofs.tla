---------------------------- MODULE LocalCAProofs ----------------------------
(* The types of the CA, that there is one CA, and that the marker is right,    *)
(* for any number of processes and key pairs.                                 *)
EXTENDS LocalCA, TLAPS

\* Nothing is read that was not generated.
Generated == used \cup {"absent", "empty"}
FilesGenerated == ca \in [Files -> Generated] /\ seen \in [Procs -> Generated]

\* What runs is among the commands.
Running ==
  \A p \in Procs : pc[p] # "idle" =>
    /\ what[p] \in {"api", "apps"} => "create" \in Commands
    /\ what[p] \in {"trust", "untrust"} => what[p] \in Commands
    /\ pc[p] = "extract" => what[p] \in {"trust", "untrust"}

CAInv == TypeOK /\ FilesGenerated /\ Running

LEMMA CAInit == Init => CAInv
<1> SUFFICES ASSUME Init PROVE CAInv
  OBVIOUS
<1>1. faults \in 0..MaxFaults /\ crashes \in 0..MaxCrashes
  BY CAAssumption DEF Init
<1>2. TypeOK
  BY <1>1 DEF Init, TypeOK, NoLeaf, NoKey
<1>3. FilesGenerated /\ Running
  BY DEF Init, FilesGenerated, Generated, Running
<1>4. QED BY <1>2, <1>3 DEF CAInv

LEMMA ExitTypes ==
  ASSUME CAInv, NEW p \in Procs, Exit(p), UNCHANGED <<ca, used>>
  PROVE  /\ pc' \in [Procs -> {"idle", "load", "read", "generated", "crt", "written", "key",
                               "loaded", "publish", "append", "record",
                               "extract", "mark"}]
         /\ what' \in [Procs -> {"api", "apps", "trust", "untrust"}]
         /\ seen' \in [Procs -> Keys \cup {"absent", "empty"}]
         /\ mine' \in [Procs -> used' \cup {NoKey}]
         /\ \A q \in Procs : pc'[q] = "idle" => mine'[q] = NoKey
         /\ FilesGenerated' /\ Running'
<1> USE DEF CAInv, TypeOK, Exit, Goto
<1>1. FilesGenerated'
  BY DEF FilesGenerated, Generated
<1>2. Running'
  BY DEF Running
<1>3. QED BY <1>1, <1>2 DEF NoKey

\* Loading and generating.
LEMMA LoadKeeps ==
  ASSUME CAInv, NEW p \in Procs, LoadStep(p)
  PROVE  CAInv'
<1> USE DEF CAInv
<1>1. CASE ReadCert(p)
  <2> USE <1>1 DEF ReadCert, Goto, host, clusters, bounds
  <2>1. ca["crt"] \in Generated /\ Generated \subseteq Keys \cup {"absent", "empty"}
    BY DEF FilesGenerated, Files, TypeOK, Generated
  <2>2. TypeOK'
    BY <2>1 DEF TypeOK
  <2>3. FilesGenerated' /\ Running'
    BY <2>1 DEF TypeOK, FilesGenerated, Generated, Running
  <2>4. QED BY <2>2, <2>3
<1>2. CASE Loaded(p)
  <2> USE <1>2 DEF Loaded, Goto, host, clusters, bounds
  <2>1. ca["key"] \in used
    BY CAAssumption DEF FilesGenerated, Files, Generated
  <2>2. TypeOK'
    BY <2>1 DEF TypeOK
  <2>3. FilesGenerated' /\ Running'
    BY DEF TypeOK, FilesGenerated, Generated, Running
  <2>4. QED BY <2>2, <2>3
<1>3. CASE Corrupt(p)
  <2>1. TypeOK'
    BY <1>3, ExitTypes DEF Corrupt, TypeOK, host, clusters, bounds
  <2>2. QED BY <1>3, <2>1, ExitTypes DEF Corrupt, host
<1>4. CASE Generate(p)
  <2> USE <1>4 DEF Generate, Goto, clusters, bounds
  <2>1. PICK k \in Keys \ used : mine' = [mine EXCEPT ![p] = k] /\ used' = used \cup {k}
    OBVIOUS
  <2>2. /\ leaf' \in [Procs -> [api : used' \cup {NoKey}, apps : used' \cup {NoKey}]]
        /\ serving' \in [Procs -> [api : used' \cup {NoKey}, apps : used' \cup {NoKey}]]
        /\ bundle' \in [Procs -> SUBSET used'] /\ mine' \in [Procs -> used' \cup {NoKey}]
    BY <2>1 DEF TypeOK
  <2>3. TypeOK'
    BY <2>1, <2>2 DEF TypeOK
  <2>4. FilesGenerated' /\ Running'
    BY <2>1 DEF TypeOK, FilesGenerated, Generated, Running
  <2>5. QED BY <2>3, <2>4
<1>5. CASE Write(p)
  <2>1. PICK f \in Files, v \in {"empty", mine[p]}, l \in {"crt", "written", "key", "loaded"} :
          pc[p] # "idle" /\ Goto(p, l) /\ ca' = [ca EXCEPT ![f] = v]
    BY <1>5 DEF Write, WriteCA, Files
  <2>2. UNCHANGED <<used, anchor, trusted, marker, clusters, what, seen, mine, told, raced, bounds>>
    BY <1>5 DEF Write, WriteCA
  <2>3. v \in Generated /\ v \in Keys \cup {"absent", "empty"}
    BY <2>1 DEF TypeOK, Generated, NoKey
  <2>4. TypeOK'
    BY <2>1, <2>2, <2>3 DEF TypeOK, Goto, clusters, bounds
  <2>5. FilesGenerated' /\ Running'
    BY <2>1, <2>2, <2>3 DEF TypeOK, FilesGenerated, Generated, Running, Goto
  <2>6. QED BY <2>4, <2>5
<1>6. QED BY <1>1, <1>2, <1>3, <1>4, <1>5 DEF LoadStep

\* Issuing, publishing and recording.
LEMMA TLSKeeps ==
  ASSUME CAInv, NEW p \in Procs, TLSStep(p)
  PROVE  CAInv'
<1> USE DEF CAInv
<1>1. CASE Issue(p)
  <2> USE <1>1 DEF Issue, host, bounds
  <2>1. leaf' \in [Procs -> [api : used \cup {NoKey}, apps : used \cup {NoKey}]]
    BY DEF TypeOK
  <2>2. PICK l \in {"load", "publish"} : pc' = [pc EXCEPT ![p] = l]
    BY DEF Load, Goto
  <2>3. what' \in {what, [what EXCEPT ![p] = "apps"]} /\ raced' \in BOOLEAN
    BY DEF Load, TypeOK
  <2>4. TypeOK'
    BY <2>1, <2>2, <2>3 DEF TypeOK
  <2>5. FilesGenerated' /\ Running'
    BY <2>2, <2>3 DEF TypeOK, FilesGenerated, Generated, Running
  <2>6. QED BY <2>4, <2>5
<1>2. CASE Publish(p)
  <2>1. TypeOK'
    BY <1>2 DEF Publish, Goto, host, bounds, TypeOK
  <2>2. FilesGenerated' /\ Running'
    BY <1>2 DEF Publish, Goto, host, TypeOK, FilesGenerated, Generated, Running
  <2>3. QED BY <2>1, <2>2
<1>3. CASE AppendCA(p)
  <2>1. ca["crt"] \in used
    BY <1>3, CAAssumption DEF AppendCA, FilesGenerated, Files, Generated
  <2>2. TypeOK'
    BY <1>3, <2>1 DEF AppendCA, Goto, host, bounds, TypeOK
  <2>3. FilesGenerated' /\ Running'
    BY <1>3 DEF AppendCA, Goto, host, TypeOK, FilesGenerated, Generated, Running
  <2>4. QED BY <2>2, <2>3
<1>4. CASE AppendRefused(p) \/ Record(p)
  <2>1. TypeOK'
    BY <1>4, ExitTypes DEF AppendRefused, Record, TypeOK, host, clusters, bounds
  <2>2. QED BY <1>4, <2>1, ExitTypes DEF AppendRefused, Record, host
<1>5. QED BY <1>1, <1>2, <1>3, <1>4 DEF TLSStep

\* Trusting and untrusting.
LEMMA TrustKeeps ==
  ASSUME CAInv, NEW p \in Procs, TrustStep(p)
  PROVE  CAInv'
<1> USE DEF CAInv
<1>1. CASE Install(p) \/ Uninstall(p)
  <2>1. anchor' \in Keys \cup {"absent", "empty"}
    BY <1>1 DEF Install, Uninstall, TypeOK, Files, NoKey
  <2>2. TypeOK'
    BY <1>1, <2>1 DEF Install, Uninstall, Goto, TypeOK, clusters, bounds
  <2>3. FilesGenerated' /\ Running'
    BY <1>1 DEF Install, Uninstall, Goto, TypeOK, FilesGenerated, Generated, Running
  <2>4. QED BY <2>2, <2>3
<1>2. CASE Mark(p)
  <2>1. marker' \in BOOLEAN
    BY <1>2 DEF Mark
  <2>2. TypeOK'
    BY <1>2, <2>1, ExitTypes DEF Mark, TypeOK, clusters, bounds
  <2>3. QED BY <1>2, <2>2, ExitTypes DEF Mark
<1>3. CASE Extract(p)
  <2>1. TypeOK'
    BY <1>3 DEF Extract, Goto, TypeOK, clusters, bounds
  <2>2. FilesGenerated' /\ Running'
    BY <1>3 DEF Extract, Goto, TypeOK, FilesGenerated, Generated, Running
  <2>3. QED BY <2>1, <2>2
<1>4. QED BY <1>1, <1>2, <1>3 DEF TrustStep

\* What begins or ends a command, and what the user does to the files.
LEMMA UserKeeps ==
  ASSUME CAInv,
         RemoveCA \/ \E p \in Procs :
           \/ LaunchCreate(p) \/ LaunchTrust(p) \/ Delete(p)
           \/ OcFails(p) \/ AnchorFails(p) \/ ExtractFails(p) \/ Crash(p)
  PROVE  CAInv'
<1> USE DEF CAInv
<1>1. CASE RemoveCA
  BY <1>1 DEF RemoveCA, TypeOK, FilesGenerated, Generated, Running, clusters, bounds
<1>2. ASSUME NEW p \in Procs, LaunchCreate(p) \/ LaunchTrust(p) PROVE CAInv'
  <2>1. PICK w \in {"api", "trust", "untrust"} :
          /\ what' = [what EXCEPT ![p] = w] /\ pc' = [pc EXCEPT ![p] = "load"]
          /\ raced' \in BOOLEAN
          /\ w = "api" => "create" \in Commands
          /\ w # "api" => w \in Commands
    BY <1>2 DEF LaunchCreate, LaunchTrust, Launch, Load, Goto
  <2>2. UNCHANGED <<host, clusters, seen, mine, told, bounds>>
    BY <1>2 DEF LaunchCreate, LaunchTrust, Launch
  <2>3. TypeOK'
    BY <2>1, <2>2 DEF TypeOK, host, clusters, bounds
  <2>4. FilesGenerated' /\ Running'
    BY <2>1, <2>2 DEF TypeOK, FilesGenerated, Generated, Running, host
  <2>5. QED BY <2>3, <2>4
<1>3. ASSUME NEW p \in Procs, Delete(p) PROVE CAInv'
  BY <1>3 DEF Delete, TypeOK, FilesGenerated, Generated, Running, NoLeaf, NoKey, host, bounds
<1>4. ASSUME NEW p \in Procs, OcFails(p) PROVE CAInv'
  <2>1. faults' \in 0..MaxFaults
    BY <1>4, CAAssumption DEF OcFails, TypeOK
  <2>2. serving' \in [Procs -> [api : used \cup {NoKey}, apps : used \cup {NoKey}]]
    BY <1>4 DEF OcFails, TypeOK
  <2>3. TypeOK'
    BY <1>4, <2>1, <2>2, ExitTypes DEF OcFails, TypeOK, host
  <2>4. QED BY <1>4, <2>3, ExitTypes DEF OcFails, host
<1>5. ASSUME NEW p \in Procs, Crash(p) PROVE CAInv'
  <2>1. crashes' \in 0..MaxCrashes
    BY <1>5, CAAssumption DEF Crash, TypeOK
  <2>2. cut' \subseteq Commands
    BY <1>5 DEF Crash, TypeOK, Running
  <2>3. TypeOK'
    BY <1>5, <2>1, <2>2, ExitTypes DEF Crash, TypeOK, host, clusters
  <2>4. QED BY <1>5, <2>3, ExitTypes DEF Crash, host
<1>6. ASSUME NEW p \in Procs, AnchorFails(p) \/ ExtractFails(p) PROVE CAInv'
  <2>1. faults' \in 0..MaxFaults
    BY <1>6, CAAssumption DEF AnchorFails, ExtractFails, TypeOK
  <2>2. cut' \subseteq Commands
    <3>1. CASE AnchorFails(p)
      BY <3>1 DEF AnchorFails, TypeOK
    <3>2. CASE ExtractFails(p)
      BY <3>2 DEF ExtractFails, TypeOK, Running
    <3>3. QED BY <1>6, <3>1, <3>2
  <2>3. TypeOK'
    BY <1>6, <2>1, <2>2, ExitTypes DEF AnchorFails, ExtractFails, TypeOK, host, clusters
  <2>4. QED BY <1>6, <2>3, ExitTypes DEF AnchorFails, ExtractFails, host
<1>7. QED BY <1>1, <1>2, <1>3, <1>4, <1>5, <1>6

LEMMA CAStep == CAInv /\ [Next]_vars => CAInv'
<1> SUFFICES ASSUME CAInv, [Next]_vars PROVE CAInv'
  OBVIOUS
<1>1. CASE UNCHANGED vars
  BY <1>1 DEF CAInv, TypeOK, FilesGenerated, Generated, Running, vars, host, clusters, bounds
<1>2. CASE Next
  BY <1>2, LoadKeeps, TLSKeeps, TrustKeeps, UserKeeps DEF Next
<1>3. QED BY <1>1, <1>2

\* Every command, kill and failing call keeps the types: no certificate and no
\* bundle names a key pair that was never generated.
THEOREM CATypeCorrect == Spec => []TypeOK
<1>1. CAInv => TypeOK
  BY DEF CAInv
<1>2. QED BY CAInit, CAStep, <1>1, PTL DEF Spec

-----------------------------------------------------------------------------
(* Unless two processes have been at it at once, the CA that has signed        *)
(* anything is the one whose two files are there, and stays so.                *)

Whole(k) == ca["crt"] = k /\ ca["key"] = k

\* "remove ca.crt and ca.key to regenerate" is said of these files only.
Broken == ca["crt"] # "absent" /\ ca["key"] # "absent" /\ (ca["crt"] = "empty" \/ ca["key"] # ca["crt"])
Removed == ca["crt"] = "absent" /\ ca["key"] = "absent"

\* What p has built on a key pair, or is about to.
SignsFor(p, k) ==
  \/ k \in {leaf[p].api, leaf[p].apps, serving[p].api, serving[p].apps} \cup bundle[p]
  \/ pc[p] = "loaded" /\ mine[p] = k

InStore(k) == k \in {anchor, trusted}

Signs(k) == InStore(k) \/ \E p \in Procs : SignsFor(p, k)

Generating(p) == pc[p] \in {"generated", "crt", "written", "key"}

\* What a process may rely on at a place.
Place(p) ==
  /\ pc[p] = "read" => seen[p] = ca["crt"] \/ Removed
  /\ Generating(p) => mine[p] \in Keys /\ ~told /\ \A k \in Keys : ~Signs(k)
  /\ pc[p] \in {"written", "key"} => ca["crt"] = mine[p]
  /\ pc[p] = "loaded" => mine[p] \in Keys
  /\ pc[p] # "idle" /\ what[p] \in {"api", "apps"} => p \notin applied
  /\ pc[p] # "idle" /\ what[p] = "apps" => leaf[p].api \in Keys
  /\ pc[p] \in {"publish", "append", "record"} => what[p] = "apps" /\ leaf[p].apps \in Keys
  /\ pc[p] \in {"append", "record"} => serving[p] = leaf[p]
  /\ pc[p] = "record" => serving[p].api \in bundle[p]
  /\ pc[p] \in {"extract", "mark"} => what[p] \in {"trust", "untrust"}
  /\ pc[p] = "extract" /\ what[p] = "trust" => anchor \in Keys
  /\ pc[p] = "mark" /\ what[p] = "trust" => trusted \in Keys

Served(p) == serving[p].api \in Keys \cap bundle[p] /\ serving[p].apps \in Keys

Apart == \A p, q \in Procs : Exposed(p) /\ Exposed(q) => p = q

OneCAInv ==
  ~raced => /\ Apart
            /\ \A k \in Keys : Signs(k) => Whole(k)
            /\ told => Broken
            /\ \A p \in Procs : Place(p)
            /\ \A p \in Procs : p \in applied => Served(p)

Others(p) == \A q \in Procs : q # p =>
  /\ UNCHANGED <<pc[q], what[q], seen[q], mine[q], leaf[q], serving[q], bundle[q]>>
  /\ q \in applied' <=> q \in applied

\* A step of p that leaves the files and what they have signed alone, or is at
\* the files, where no other process is.
LEMMA OneCAClose ==
  ASSUME CAInv, OneCAInv, NEW p \in Procs, Others(p), ~raced' => ~raced,
         ~raced' => (Exposed(p)' => \A q \in Procs : q # p => ~Exposed(q)),
         ~raced => \/ Exposed(p)
                   \/ UNCHANGED <<ca, told, anchor, trusted>> /\ \A k \in Keys : SignsFor(p, k)' => Signs(k),
         ~raced => \A k \in Keys : SignsFor(p, k)' \/ InStore(k)' => Whole(k)',
         ~raced => Place(p)' /\ (told' => Broken') /\ (p \in applied' => Served(p)'),
         ~raced => UNCHANGED ca \/ \A k \in Keys : ~Signs(k)
  PROVE  OneCAInv'
<1>1. SUFFICES ASSUME ~raced' PROVE OneCAInv'
  BY DEF OneCAInv
<1>2. ~raced
  BY <1>1
<1>3. \A q \in Procs : q # p => (Exposed(q)' <=> Exposed(q))
  BY DEF Others, Exposed
<1>4. Apart'
  BY <1>1, <1>2, <1>3 DEF OneCAInv, Apart
<1>5. \A q \in Procs : q # p => \A k : SignsFor(q, k)' <=> SignsFor(q, k)
  BY DEF Others, SignsFor
<1>6. \A k \in Keys : Signs(k)' => Signs(k) \/ SignsFor(p, k)' \/ InStore(k)'
  BY <1>5 DEF Signs
<1>7. \A k \in Keys : Signs(k)' => Whole(k)'
  BY <1>2, <1>6 DEF OneCAInv, Whole
<1>8. \A q \in Procs : q # p => Place(q)'
  BY <1>2, <1>3, <1>6 DEF OneCAInv, Apart, Others, Place, Generating, Exposed, Removed, Signs, InStore
<1>9. \A q \in Procs : q \in applied' => Served(q)'
  BY <1>2 DEF OneCAInv, Others, Served
<1>10. QED BY <1>1, <1>2, <1>4, <1>7, <1>8, <1>9 DEF OneCAInv

LEMMA Alone ==
  ASSUME CAInv, NEW p \in Procs,
         \/ LoadStep(p) \/ TLSStep(p) \/ TrustStep(p)
         \/ LaunchCreate(p) \/ LaunchTrust(p) \/ Delete(p) \/ OcFails(p) \/ Crash(p)
         \/ AnchorFails(p) \/ ExtractFails(p)
  PROVE  Others(p)
<1> USE DEF CAInv, TypeOK, Others, Exit, Goto, clusters
<1>1. CASE LoadStep(p)
  BY <1>1 DEF LoadStep, ReadCert, Loaded, Corrupt, Generate, Write, WriteCA
<1>2. CASE TLSStep(p)
  BY <1>2 DEF TLSStep, Issue, Publish, AppendCA, AppendRefused, Record, Load
<1>3. CASE TrustStep(p)
  BY <1>3 DEF TrustStep, Install, Uninstall, Extract, Mark
<1>4. CASE LaunchCreate(p) \/ LaunchTrust(p) \/ Delete(p) \/ OcFails(p) \/ Crash(p)
  BY <1>4 DEF LaunchCreate, LaunchTrust, Launch, Load, Delete, OcFails, Crash
<1>5. CASE AnchorFails(p) \/ ExtractFails(p)
  BY <1>5 DEF AnchorFails, ExtractFails, host
<1>6. QED BY <1>1, <1>2, <1>3, <1>4, <1>5

LEMMA SafeLoad ==
  ASSUME CAInv, OneCAInv, NEW p \in Procs, LoadStep(p)
  PROVE  OneCAInv'
<1> USE DEF CAInv
<1>1. /\ UNCHANGED <<anchor, trusted, raced>> /\ Others(p) /\ Exposed(p)
      /\ UNCHANGED <<leaf, serving, bundle, applied>>
  BY Alone DEF LoadStep, ReadCert, Loaded, Corrupt, Generate, Write, WriteCA, host, clusters, Exposed
<1>2. ~raced => Place(p) /\ (told => Broken) /\ (\A k \in Keys : Signs(k) => Whole(k))
                /\ (p \in applied' => Served(p)')
  BY <1>1 DEF OneCAInv, Served
<1>3. ~raced' => (Exposed(p)' => \A q \in Procs : q # p => ~Exposed(q))
  BY <1>1 DEF OneCAInv, Apart
<1>4. \A k : SignsFor(p, k)' => SignsFor(p, k) \/ (pc'[p] = "loaded" /\ mine'[p] = k)
  BY <1>1 DEF SignsFor
<1>5. CASE ReadCert(p)
  <2>1. /\ UNCHANGED <<ca, told>> /\ pc'[p] = "read" /\ seen'[p] = ca["crt"] /\ UNCHANGED what
    BY <1>5 DEF ReadCert, Goto, TypeOK, host
  <2>2. ~raced => Place(p)'
    BY <1>2, <1>5, <2>1, <1>1 DEF Place, Generating, ReadCert
  <2>3. ~raced => \A k \in Keys : SignsFor(p, k)' \/ InStore(k)' => Whole(k)'
    BY <1>1, <1>2, <1>4, <2>1 DEF InStore, Signs, Whole
  <2>4. QED BY <1>1, <1>2, <1>3, <2>1, <2>2, <2>3, OneCAClose DEF Broken
<1>6. CASE Loaded(p)
  <2>1. /\ UNCHANGED <<ca, told, what>> /\ pc'[p] = "loaded" /\ mine'[p] = ca["key"]
        /\ seen[p] \in Keys /\ ca["key"] = seen[p] /\ pc[p] = "read"
    BY <1>6 DEF Loaded, Goto, TypeOK, host
  <2>2. ~raced => Whole(mine'[p])
    BY <1>2, <2>1, CAAssumption DEF Place, Removed, Whole
  <2>3. ~raced => Place(p)'
    BY <1>1, <1>2, <2>1 DEF Place, Generating
  <2>4. ~raced => \A k \in Keys : SignsFor(p, k)' \/ InStore(k)' => Whole(k)'
    BY <1>1, <1>2, <1>4, <2>1, <2>2 DEF InStore, Signs, Whole
  <2>5. QED BY <1>1, <1>2, <1>3, <2>1, <2>3, <2>4, OneCAClose DEF Broken
<1>7. CASE Corrupt(p)
  <2>1. /\ UNCHANGED ca /\ pc'[p] = "idle" /\ pc[p] = "read"
        /\ seen[p] # "absent" /\ ca["key"] # "absent" /\ (seen[p] = "empty" \/ ca["key"] # seen[p])
    BY <1>7 DEF Corrupt, Exit, Goto, TypeOK, host
  <2>2. ~raced => Broken
    BY <1>2, <2>1 DEF Place, Removed, Broken
  <2>3. Place(p)'
    BY <2>1 DEF Place, Generating
  <2>4. ~raced => \A k \in Keys : SignsFor(p, k)' \/ InStore(k)' => Whole(k)'
    BY <1>1, <1>2, <1>4, <2>1 DEF InStore, Signs, Whole
  <2>5. QED BY <1>1, <1>2, <1>3, <2>1, <2>2, <2>3, <2>4, OneCAClose DEF Broken
<1>8. CASE Generate(p)
  <2>1. /\ UNCHANGED <<ca, told, what>> /\ pc'[p] = "generated" /\ pc[p] = "read" /\ mine'[p] \in Keys
        /\ seen[p] = "absent" \/ ca["key"] = "absent"
    BY <1>8 DEF Generate, Goto, TypeOK
  <2>2. ~raced => ~Broken /\ \A k \in Keys : ~Whole(k)
    BY <1>2, <2>1, CAAssumption DEF Place, Removed, Broken, Whole
  <2>3. \A k : SignsFor(p, k)' => SignsFor(p, k)
    BY <1>4, <2>1
  <2>4. ~raced => \A k \in Keys : ~Signs(k) /\ ~SignsFor(p, k)' /\ ~InStore(k)'
    BY <1>1, <1>2, <2>2, <2>3 DEF InStore, Signs
  <2>5. ~raced => \A k \in Keys : ~Signs(k)'
    BY <1>1, <2>4 DEF Signs, SignsFor, Others
  <2>6. ~raced => Place(p)'
    BY <1>1, <1>2, <2>1, <2>2, <2>5 DEF Place, Generating
  <2>7. QED BY <1>1, <1>2, <1>3, <2>1, <2>4, <2>6, OneCAClose DEF Broken
<1>9. CASE Write(p)
  <2>1. /\ UNCHANGED <<told, what, mine>> /\ Generating(p)
        /\ \/ pc[p] = "generated" /\ pc'[p] = "crt"
           \/ pc[p] = "crt" /\ pc'[p] = "written" /\ ca'["crt"] = mine[p]
           \/ pc[p] = "written" /\ pc'[p] = "key" /\ ca'["crt"] = ca["crt"]
           \/ pc[p] = "key" /\ pc'[p] = "loaded" /\ ca'["crt"] = ca["crt"] /\ ca'["key"] = mine[p]
    BY <1>9 DEF Write, WriteCA, Goto, TypeOK, Generating, Files
  <2>2. ~raced => ~told /\ mine[p] \in Keys /\ \A k \in Keys : ~Signs(k)
    BY <1>2, <2>1 DEF Place
  <2>3. ~raced => (pc'[p] = "loaded" => Whole(mine[p])')
    BY <1>2, <2>1 DEF Place, Whole
  <2>4. ~raced => \A k \in Keys : ~InStore(k)' /\ (SignsFor(p, k)' => pc'[p] = "loaded" /\ k = mine[p])
    BY <1>1, <1>4, <2>1, <2>2 DEF InStore, Signs
  <2>5. ~raced => (pc'[p] # "loaded" => \A k \in Keys : ~Signs(k)')
    BY <1>1, <2>2, <2>4 DEF Signs, SignsFor, Others
  <2>6. ~raced => Place(p)'
    BY <1>1, <1>2, <2>1, <2>2, <2>5 DEF Place, Generating
  <2>7. ~raced => \A k \in Keys : SignsFor(p, k)' \/ InStore(k)' => Whole(k)'
    BY <2>3, <2>4, <2>1
  <2>8. QED BY <1>1, <1>2, <1>3, <2>1, <2>2, <2>6, <2>7, OneCAClose
<1>10. QED BY <1>5, <1>6, <1>7, <1>8, <1>9 DEF LoadStep

LEMMA SafeTLS ==
  ASSUME CAInv, OneCAInv, NEW p \in Procs, TLSStep(p)
  PROVE  OneCAInv'
<1> USE DEF CAInv
<1>1. /\ UNCHANGED <<ca, anchor, trusted, told>> /\ Others(p) /\ (raced => raced') /\ raced \in BOOLEAN
      /\ raced' \in BOOLEAN
  BY Alone DEF TLSStep, Issue, Publish, AppendCA, AppendRefused, Record, Load, TypeOK, host
<1>2. /\ ~raced => Place(p) /\ (told => Broken) /\ (\A k \in Keys : Signs(k) => Whole(k))
                   /\ (p \in applied => Served(p))
      /\ \A k : SignsFor(p, k) => Signs(k)
  BY DEF OneCAInv, Signs, InStore
<1>3. ~raced => \A k \in Keys : Signs(k)' => Signs(k) \/ SignsFor(p, k)'
  BY <1>1 DEF InStore, Signs, SignsFor, Others
<1>4. ~raced => \A k \in Keys : InStore(k)' => Whole(k)'
  BY <1>1, <1>2 DEF InStore, Signs, Whole
\* What remains of a case: p signs with what is signed with already.
<1>5. ASSUME ~raced' => (Exposed(p)' => \A q \in Procs : q # p => ~Exposed(q)),
             ~raced => \A k \in Keys : SignsFor(p, k)' => Signs(k),
             ~raced => Place(p)' /\ (p \in applied' => Served(p)')
      PROVE  OneCAInv'
  <2>1. ~raced => \A k \in Keys : SignsFor(p, k)' \/ InStore(k)' => Whole(k)'
    BY <1>1, <1>2, <1>4, <1>5 DEF Whole
  <2>2. ~raced' => ~raced
    BY <1>1
  <2>3. ~raced => (told' => Broken')
    BY <1>1, <1>2 DEF Broken
  <2>4. QED BY <1>1, <1>5, <2>1, <2>2, <2>3, OneCAClose
<1>6. CASE Issue(p)
  <2>1. /\ pc[p] = "loaded" /\ what[p] \in {"api", "apps"} /\ mine'[p] = mine[p]
        /\ leaf'[p] = [leaf[p] EXCEPT ![what[p]] = mine[p]]
        /\ UNCHANGED <<serving, bundle, applied>>
        /\ \/ what[p] = "api" /\ pc'[p] = "load" /\ what'[p] = "apps" /\ Load(p, "apps")
           \/ what[p] = "apps" /\ pc'[p] = "publish" /\ what'[p] = "apps"
    BY <1>6 DEF Issue, Load, Goto, TypeOK
  <2>2. /\ leaf'[p].api \in {leaf[p].api, mine[p]} /\ leaf'[p].apps \in {leaf[p].apps, mine[p]}
        /\ (what[p] = "api" => leaf'[p].api = mine[p])
        /\ (what[p] = "apps" => leaf'[p].api = leaf[p].api /\ leaf'[p].apps = mine[p])
    BY <2>1 DEF TypeOK
  <2>3. ~raced => \A k \in Keys : SignsFor(p, k)' => Signs(k)
    BY <1>2, <2>1, <2>2 DEF SignsFor
  <2>4. ~raced => Place(p)'
    BY <1>2, <2>1, <2>2 DEF Place, Generating
  <2>5. ~raced => (p \in applied' => Served(p)')
    BY <1>2, <2>1 DEF Served
  <2>6. ~raced' => (Exposed(p)' => \A q \in Procs : q # p => ~Exposed(q))
    BY <2>1 DEF Load, Exposed
  <2>7. QED BY <1>5, <2>3, <2>4, <2>5, <2>6
<1>7. CASE Publish(p)
  <2>1. /\ pc[p] = "publish" /\ pc'[p] = "append" /\ serving'[p] = leaf[p]
        /\ UNCHANGED <<leaf, bundle, applied, what>>
    BY <1>7 DEF Publish, Goto, TypeOK
  <2>2. ~raced => what[p] = "apps" /\ ~Exposed(p)'
    BY <1>2, <2>1 DEF Place, Exposed
  <2>3. ~raced => \A k \in Keys : SignsFor(p, k)' => Signs(k)
    BY <1>2, <2>1 DEF SignsFor
  <2>4. ~raced => Place(p)' /\ (p \in applied' => Served(p)')
    BY <1>2, <2>1 DEF Place, Generating
  <2>5. QED BY <1>1, <1>5, <2>2, <2>3, <2>4
<1>8. CASE AppendCA(p)
  <2>1. /\ pc[p] = "append" /\ pc'[p] = "record" /\ bundle'[p] = bundle[p] \cup {ca["crt"]}
        /\ UNCHANGED <<leaf, serving, applied, what>>
    BY <1>8 DEF AppendCA, Goto, TypeOK
  <2>2. ~raced => what[p] = "apps" /\ ~Exposed(p)'
    BY <1>2, <2>1 DEF Place, Exposed
  <2>3. ~raced => serving[p].api \in Keys /\ SignsFor(p, serving[p].api) /\ serving[p].api = ca["crt"]
    BY <1>2, <2>1 DEF Place, SignsFor, Whole
  <2>4. ~raced => \A k \in Keys : SignsFor(p, k)' => Signs(k)
    BY <1>2, <2>1, <2>3 DEF SignsFor
  <2>5. ~raced => Place(p)' /\ (p \in applied' => Served(p)')
    BY <1>2, <2>1, <2>3 DEF Place, Generating
  <2>6. QED BY <1>1, <1>5, <2>2, <2>4, <2>5
<1>9. CASE AppendRefused(p) \/ Record(p)
  <2>1. /\ pc'[p] = "idle" /\ what'[p] = "api" /\ UNCHANGED <<leaf, serving, bundle>>
        /\ applied' \subseteq applied \cup {p} /\ (p \in applied' => p \in applied \/ pc[p] = "record")
    BY <1>9 DEF AppendRefused, Record, Exit, Goto, TypeOK, clusters
  <2>2. Place(p)' /\ ~Exposed(p)'
    BY <2>1 DEF Place, Generating, Exposed
  <2>3. ~raced => \A k \in Keys : SignsFor(p, k)' => Signs(k)
    BY <1>2, <2>1 DEF SignsFor
  <2>4. ~raced => (p \in applied' => Served(p)')
    BY <1>2, <2>1 DEF Place, Served
  <2>5. QED BY <1>5, <2>2, <2>3, <2>4
<1>10. QED BY <1>6, <1>7, <1>8, <1>9 DEF TLSStep

LEMMA SafeTrust ==
  ASSUME CAInv, OneCAInv, NEW p \in Procs, TrustStep(p) \/ ExtractFails(p)
  PROVE  OneCAInv'
<1> USE DEF CAInv
<1>1. /\ UNCHANGED <<ca, told, raced, leaf, serving, bundle, applied>> /\ Others(p)
      /\ pc[p] \in {"loaded", "extract", "mark"} /\ pc'[p] \in {"extract", "mark", "idle"}
  BY Alone DEF TrustStep, Install, Uninstall, Extract, ExtractFails, Mark, Exit, Goto, TypeOK, clusters
<1>2. ~raced => Place(p) /\ (told => Broken) /\ (\A k \in Keys : Signs(k) => Whole(k))
                /\ (p \in applied' => Served(p)')
  BY <1>1 DEF OneCAInv, Served
<1>3. \A k : SignsFor(p, k)' => SignsFor(p, k) /\ Signs(k)
  BY <1>1 DEF SignsFor, Signs, InStore
<1>4. ~raced => Exposed(p)
  BY <1>1, <1>2 DEF TrustStep, Install, Uninstall, Mark, Exposed, Place, Extract, ExtractFails
<1>5. ~raced => \A k \in Keys : InStore(k)' => Signs(k)
  BY <1>2, CAAssumption DEF TrustStep, Install, Uninstall, Extract, ExtractFails, Mark,
                             Place, Signs, InStore, SignsFor, Whole, NoKey
<1>6. ~raced => \A k \in Keys : SignsFor(p, k)' \/ InStore(k)' => Whole(k)'
  BY <1>1, <1>2, <1>3, <1>5 DEF Whole
<1>7. ~raced => Place(p)'
  <2>1. CASE Install(p)
    <3>1. pc'[p] = "extract" /\ what'[p] = "trust"
      BY <2>1 DEF Install, Goto, TypeOK
    <3>2. ~raced => anchor' \in Keys
      BY <1>2, <2>1 DEF Install, Place, Signs, InStore, SignsFor, Whole
    <3>3. QED BY <3>1, <3>2 DEF Place, Generating
  <2>2. CASE Uninstall(p)
    <3>1. pc'[p] = "extract" /\ what'[p] = "untrust"
      BY <2>2 DEF Uninstall, Goto, TypeOK
    <3>2. QED BY <3>1 DEF Place, Generating
  <2>3. CASE Extract(p)
    BY <1>1, <1>2, <2>3 DEF Place, Generating, Extract
  <2>4. CASE Mark(p) \/ ExtractFails(p)
    BY <1>1, <2>4 DEF Place, Generating, Mark, ExtractFails, Exit, Goto, TypeOK
  <2>5. QED BY <2>1, <2>2, <2>3, <2>4 DEF TrustStep
<1>8. ~raced' => (Exposed(p)' => \A q \in Procs : q # p => ~Exposed(q))
  BY <1>1, <1>4 DEF OneCAInv, Apart
<1>9. QED BY <1>1, <1>2, <1>4, <1>6, <1>7, <1>8, OneCAClose DEF Broken

LEMMA SafeUser ==
  ASSUME CAInv, OneCAInv, NEW p \in Procs,
         \/ LaunchCreate(p) \/ LaunchTrust(p) \/ Delete(p)
         \/ OcFails(p) \/ AnchorFails(p) \/ Crash(p)
  PROVE  OneCAInv'
<1> USE DEF CAInv
<1>1. /\ UNCHANGED host /\ UNCHANGED told /\ Others(p) /\ (raced => raced')
      /\ raced \in BOOLEAN /\ raced' \in BOOLEAN
  BY Alone DEF LaunchCreate, LaunchTrust, Launch, Load, Delete, OcFails, AnchorFails, Crash, TypeOK, host
<1>2. /\ ~raced => Place(p) /\ (told => Broken) /\ (\A k \in Keys : Signs(k) => Whole(k))
                   /\ (p \in applied => Served(p))
      /\ \A k : SignsFor(p, k) => Signs(k)
  BY DEF OneCAInv, Signs, InStore
<1>3. ASSUME ~raced' => (Exposed(p)' => \A q \in Procs : q # p => ~Exposed(q)),
             ~raced => \A k \in Keys : SignsFor(p, k)' => Signs(k),
             ~raced => Place(p)' /\ (p \in applied' => Served(p)')
      PROVE  OneCAInv'
  <2>1. ~raced => \A k \in Keys : SignsFor(p, k)' \/ InStore(k)' => Whole(k)'
    BY <1>1, <1>2, <1>3 DEF Whole, Signs, InStore, host
  <2>2. ~raced' => ~raced
    BY <1>1
  <2>3. ~raced => (told' => Broken')
    BY <1>1, <1>2 DEF Broken, host
  <2>4. UNCHANGED <<ca, told, anchor, trusted>>
    BY <1>1 DEF host
  <2>5. QED BY <1>1, <1>3, <2>1, <2>2, <2>3, <2>4, OneCAClose
<1>4. CASE LaunchCreate(p) \/ LaunchTrust(p)
  <2>1. /\ UNCHANGED <<leaf, serving, bundle, applied>> /\ pc'[p] = "load"
        /\ (what'[p] = "api" /\ p \notin applied) \/ what'[p] \in {"trust", "untrust"}
        /\ raced' = (raced \/ \E q \in Procs \ {p} : Exposed(q))
    BY <1>4 DEF LaunchCreate, LaunchTrust, Launch, Load, Goto, TypeOK, clusters
  <2>2. ~raced => Place(p)' /\ (p \in applied' => Served(p)')
    BY <1>2, <2>1 DEF Place, Generating, Served
  <2>3. ~raced => \A k \in Keys : SignsFor(p, k)' => Signs(k)
    BY <1>2, <2>1 DEF SignsFor
  <2>4. QED BY <1>3, <2>1, <2>2, <2>3
<1>5. CASE Delete(p)
  <2>1. /\ pc[p] = "idle" /\ pc'[p] = "idle" /\ p \notin applied'
        /\ leaf'[p] = NoLeaf /\ serving'[p] = NoLeaf /\ bundle'[p] = {}
    BY <1>5 DEF Delete, TypeOK
  <2>2. Place(p)' /\ ~Exposed(p)'
    BY <2>1 DEF Place, Generating, Exposed
  <2>3. \A k \in Keys : ~SignsFor(p, k)'
    BY <2>1, CAAssumption DEF SignsFor, NoLeaf, NoKey
  <2>4. QED BY <1>3, <2>1, <2>2, <2>3
<1>6. CASE OcFails(p) \/ AnchorFails(p) \/ Crash(p)
  <2>1. /\ UNCHANGED <<leaf, bundle, applied>> /\ pc'[p] = "idle" /\ what'[p] = "api"
        /\ serving'[p] \in {serving[p], leaf[p]}
        /\ serving'[p] # serving[p] => pc[p] \in {"publish", "append"}
    BY <1>6 DEF OcFails, AnchorFails, Crash, Exit, Goto, TypeOK, clusters
  <2>2. Place(p)' /\ ~Exposed(p)'
    BY <2>1 DEF Place, Generating, Exposed
  <2>3. ~raced => \A k \in Keys : SignsFor(p, k)' => Signs(k)
    BY <1>2, <2>1 DEF SignsFor
  <2>4. ~raced => (p \in applied' => Served(p)')
    BY <1>2, <2>1 DEF Place, Served
  <2>5. QED BY <1>3, <2>2, <2>3, <2>4
<1>7. QED BY <1>4, <1>5, <1>6

\* The user removes the files when they are said to be corrupt, and nothing is
\* signed with them then.
LEMMA SafeRemoval == CAInv /\ OneCAInv /\ RemoveCA => OneCAInv'
<1> SUFFICES ASSUME CAInv, OneCAInv, RemoveCA, ~raced' PROVE OneCAInv'
  BY DEF OneCAInv
<1>1. /\ UNCHANGED <<anchor, trusted, clusters, pc, what, seen, mine, raced>> /\ told /\ ~told'
      /\ ca'["crt"] = "absent" /\ ca'["key"] = "absent"
  BY DEF RemoveCA, Files
<1>2. \A k \in Keys : ~Signs(k)
  BY <1>1, CAAssumption DEF OneCAInv, Broken, Whole
<1>3. \A k : Signs(k)' <=> Signs(k)
  BY <1>1 DEF Signs, InStore, SignsFor, clusters
<1>4. Apart'
  BY <1>1 DEF OneCAInv, Apart, Exposed
<1>5. \A p \in Procs : Place(p)'
  BY <1>1 DEF OneCAInv, Place, Generating, Removed, clusters
<1>6. \A p \in Procs : p \in applied' => Served(p)'
  BY <1>1 DEF OneCAInv, Served, clusters
<1>7. QED BY <1>1, <1>2, <1>3, <1>4, <1>5, <1>6 DEF OneCAInv

LEMMA OneCAInvariant == Spec => [](CAInv /\ OneCAInv)
<1>1. Init => OneCAInv
  <2>1. SUFFICES ASSUME Init PROVE OneCAInv
    OBVIOUS
  <2>2. Apart /\ \A k \in Keys : ~Signs(k)
    BY <2>1, CAAssumption DEF Init, Apart, Exposed, Signs, InStore, SignsFor, NoLeaf, NoKey
  <2>3. \A p \in Procs : Place(p) /\ p \notin applied
    BY <2>1 DEF Init, Place, Generating
  <2>4. QED BY <2>1, <2>2, <2>3 DEF Init, OneCAInv
<1>2. CAInv /\ OneCAInv /\ UNCHANGED vars => OneCAInv'
  BY DEF OneCAInv, Apart, Exposed, Signs, InStore, SignsFor, Whole, Broken, Removed, Place, Generating, Served,
         vars, host, clusters
<1>3. CAInv /\ OneCAInv /\ [Next]_vars => OneCAInv'
  BY <1>2, SafeLoad, SafeTLS, SafeTrust, SafeUser, SafeRemoval DEF Next
<1>4. QED BY CAInit, CAStep, <1>1, <1>3, PTL DEF Spec

\* One CA signs the certificates of every cluster, and each kubeconfig validates
\* what its api serves, for any number of processes, kills and failing calls,
\* until two of them generate the CA at once.
THEOREM AlwaysOneCA == Spec => []OneCA
<1>1. CAInv /\ OneCAInv => OneCA
  <2>1. SUFFICES ASSUME CAInv, OneCAInv, ~raced, NEW p \in applied
                 PROVE  /\ serving[p] = [api |-> ca["crt"], apps |-> ca["crt"]]
                        /\ serving[p].api \in bundle[p]
    BY DEF OneCA
  <2>2. p \in Procs /\ Served(p) /\ serving[p] \in [api : used \cup {NoKey}, apps : used \cup {NoKey}]
    BY <2>1 DEF CAInv, TypeOK, OneCAInv
  <2>3. Signs(serving[p].api) /\ Signs(serving[p].apps)
    BY <2>2 DEF Signs, SignsFor
  <2>4. serving[p].api = ca["crt"] /\ serving[p].apps = ca["crt"]
    BY <2>1, <2>2, <2>3 DEF OneCAInv, Served, Whole
  <2>5. QED BY <2>2, <2>4 DEF Served
<1>2. QED BY OneCAInvariant, <1>1, PTL

\* The marker follows the trust store, but for an untrust that is killed or is
\* between the two.
MarkInv ==
  ~raced /\ "untrust" \notin cut /\ marker
    => trusted \in Keys \/ \E p \in Procs : pc[p] = "mark" /\ what[p] = "untrust"

LEMMA MarkStep == CAInv /\ OneCAInv /\ MarkInv /\ [Next]_vars => MarkInv'
<1> SUFFICES ASSUME CAInv, OneCAInv, MarkInv, [Next]_vars, ~raced', "untrust" \notin cut', marker'
             PROVE  trusted' \in Keys \/ \E p \in Procs : pc'[p] = "mark" /\ what'[p] = "untrust"
  BY DEF MarkInv
<1>1. ~raced /\ "untrust" \notin cut
  BY DEF CAInv, TypeOK, Next, vars, host, clusters, bounds, LaunchCreate, LaunchTrust, Launch, Load, Delete,
         OcFails, Crash, LoadStep, ReadCert, Loaded, Corrupt, Generate, Write, WriteCA, TLSStep, Issue,
         Publish, AppendCA, AppendRefused, Record, TrustStep, Install, Uninstall, Extract, Mark, RemoveCA,
         AnchorFails, ExtractFails
<1>2. \A p \in Procs : Place(p)
  BY <1>1 DEF OneCAInv
<1>3. ASSUME UNCHANGED <<trusted, marker>>,
             \A p \in Procs : pc[p] = "mark" /\ what[p] = "untrust" => UNCHANGED <<pc[p], what[p]>>
      PROVE  trusted' \in Keys \/ \E p \in Procs : pc'[p] = "mark" /\ what'[p] = "untrust"
  BY <1>1, <1>3 DEF MarkInv
<1>4. ASSUME NEW p \in Procs,
             \/ LaunchCreate(p) \/ LaunchTrust(p) \/ Delete(p) \/ LoadStep(p) \/ TLSStep(p)
             \/ Install(p) \/ Uninstall(p) \/ OcFails(p) \/ AnchorFails(p) \/ Crash(p)
      PROVE  trusted' \in Keys \/ \E q \in Procs : pc'[q] = "mark" /\ what'[q] = "untrust"
  <2>1. UNCHANGED <<trusted, marker>>
    BY <1>4 DEF host, clusters, LaunchCreate, LaunchTrust, Launch, Delete, OcFails, Crash, LoadStep, ReadCert,
         Loaded, Corrupt, Generate, Write, WriteCA, TLSStep, Issue, Publish, AppendCA, AppendRefused, Record,
         Install, Uninstall, AnchorFails
  <2>2. Others(p)
    BY <1>4, Alone DEF TrustStep
  <2>3. ~(pc[p] = "mark" /\ what[p] = "untrust") \/ UNCHANGED <<pc[p], what[p]>>
    BY <1>4 DEF LaunchCreate, LaunchTrust, Launch, Delete, OcFails, Crash, LoadStep, ReadCert, Loaded, Corrupt,
         Generate, Write, WriteCA, TLSStep, Issue, Publish, AppendCA, AppendRefused, Record, Install,
         Uninstall, AnchorFails
  <2>4. QED BY <1>3, <2>1, <2>2, <2>3 DEF Others
<1>5. ASSUME NEW p \in Procs, Extract(p)
      PROVE  trusted' \in Keys \/ \E q \in Procs : pc'[q] = "mark" /\ what'[q] = "untrust"
  <2>1. pc[p] = "extract" /\ pc'[p] = "mark" /\ what'[p] = what[p] /\ trusted' = anchor
    BY <1>5 DEF Extract, Goto, CAInv, TypeOK
  <2>2. (what[p] = "trust" /\ anchor \in Keys) \/ what[p] = "untrust"
    BY <1>2, <2>1 DEF Place
  <2>3. QED BY <2>1, <2>2
<1>6. ASSUME NEW p \in Procs, ExtractFails(p)
      PROVE  trusted' \in Keys \/ \E q \in Procs : pc'[q] = "mark" /\ what'[q] = "untrust"
  <2>1. pc[p] = "extract" /\ what[p] = "trust" /\ trusted' \in {trusted, anchor} /\ marker' = marker
    BY <1>2, <1>6 DEF ExtractFails, Place
  <2>2. anchor \in Keys
    BY <1>2, <2>1 DEF Place
  <2>3. \A q \in Procs : pc[q] = "mark" /\ what[q] = "untrust" => UNCHANGED <<pc[q], what[q]>>
    BY <1>6, <2>1, Alone DEF Others
  <2>4. CASE trusted' = anchor
    BY <2>2, <2>4
  <2>5. CASE trusted' = trusted
    BY <1>3, <2>1, <2>3, <2>5
  <2>6. QED BY <2>1, <2>4, <2>5
<1>7. ASSUME NEW p \in Procs, Mark(p)
      PROVE  trusted' \in Keys
  BY <1>2, <1>7 DEF Mark, Place
<1>8. CASE RemoveCA \/ UNCHANGED vars
  BY <1>3, <1>8 DEF RemoveCA, vars, host
<1>9. QED BY <1>4, <1>5, <1>6, <1>7, <1>8 DEF Next, TrustStep

\* When the marker says that the CA is trusted, the system's trust store has the
\* CA of every cluster, for any number of processes, kills and failing calls, but
\* for an untrust that is cut short and for two commands that meet.
THEOREM MarkedAlwaysTrusted == Spec => []MarkedIsTrusted
<1>1. Init => MarkInv
  BY DEF Init, MarkInv
<1>2. CAInv /\ OneCAInv /\ MarkInv => MarkedIsTrusted
  <2>1. SUFFICES ASSUME CAInv, OneCAInv, MarkInv, marker, ~raced, "untrust" \notin cut,
                        \A q \in Procs : pc[q] # "mark", NEW p \in applied
                 PROVE  trusted = serving[p].apps
    BY DEF MarkedIsTrusted
  <2>2. p \in Procs /\ serving[p].apps \in Keys /\ trusted \in Keys
    BY <2>1 DEF CAInv, TypeOK, OneCAInv, Served, MarkInv
  <2>3. Signs(serving[p].apps) /\ Signs(trusted)
    BY <2>2 DEF Signs, InStore, SignsFor
  <2>4. QED BY <2>1, <2>2, <2>3 DEF OneCAInv, Whole
<1>3. QED BY OneCAInvariant, <1>1, <1>2, MarkStep, PTL DEF Spec
=============================================================================
