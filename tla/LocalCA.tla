-------------------------------- MODULE LocalCA --------------------------------
(***************************************************************************)
(* The host's own certificate authority (providers/localca), the serving   *)
(* certificates apply-tls-certs issues with it, and `easyshift trust`.     *)
(*                                                                         *)
(* The CA is two files.  Whoever finds one of them missing generates both: *)
(* reads and writes are separate calls, a write empties the file first,    *)
(* and nothing locks them.  A create loads the CA twice, for the api and   *)
(* the apps certificate, and reads ca.crt a third time when it appends the *)
(* CA to the bundle of the cluster's admin kubeconfig.                     *)
(*                                                                         *)
(* Every process builds a cluster of its own, with no --tls-email.  The    *)
(* trust store is the system's, as on Linux: an anchor file, and what      *)
(* update-ca-trust has made of it.  The NSS databases of browsers, which   *)
(* `trust` serves where it can, and the one call of macOS are left out.    *)
(***************************************************************************)
EXTENDS FiniteSets, Naturals

CONSTANTS
  Procs,      \* easyshift processes, and the cluster each of them builds
  Keys,       \* the key pairs that may be generated, a bound
  Commands,   \* among "create", "delete", "trust", "untrust"
  MaxFaults,  \* bound on failing calls of oc and of the trust commands
  MaxCrashes  \* bound on commands that are killed

ASSUME CAAssumption ==
  /\ Keys \cap {"absent", "empty"} = {}
  /\ Commands \subseteq {"create", "delete", "trust", "untrust"}
  /\ MaxFaults \in Nat /\ MaxCrashes \in Nat

Files == {"crt", "key"}
NoKey == "absent"

VARIABLES
  ca,       \* ca.crt and ca.key: absent, empty, or of which key pair
  used,     \* the key pairs that were generated
  anchor,   \* the CA in the anchors of the host's trust store
  trusted,  \* the CA the host trusts, as last extracted from the anchors
  marker,   \* the file that says that it is trusted
  leaf,     \* the CA of the api and apps certificate in each cluster directory
  serving,  \* the CA of the api and apps certificate each cluster serves
  bundle,   \* the CAs appended to the bundle of each admin kubeconfig
  applied,  \* the clusters whose state.json lists apply-tls-certs
  pc, what, \* each process: where it is, and what it loads the CA for
  seen,     \* what it read of ca.crt
  mine,     \* the key pair it has loaded or generated
  told,     \* the user was told to remove ca.crt and ca.key
  raced,    \* two processes have been at the CA or the trust store at once
  cut,      \* the commands that some crash or failing extraction cut short
  faults, crashes

host == <<ca, used, anchor, trusted, marker>>
clusters == <<leaf, serving, bundle, applied>>
bounds == <<cut, faults, crashes>>
vars == <<host, clusters, pc, what, seen, mine, told, raced, bounds>>

NoLeaf == [api |-> NoKey, apps |-> NoKey]

Init ==
  /\ ca = [f \in Files |-> "absent"] /\ used = {}
  /\ anchor = NoKey /\ trusted = NoKey /\ marker = FALSE
  /\ leaf = [p \in Procs |-> NoLeaf] /\ serving = [p \in Procs |-> NoLeaf]
  /\ bundle = [p \in Procs |-> {}] /\ applied = {}
  /\ pc = [p \in Procs |-> "idle"] /\ what = [p \in Procs |-> "api"]
  /\ seen = [p \in Procs |-> "absent"] /\ mine = [p \in Procs |-> NoKey]
  /\ told = FALSE /\ raced = FALSE /\ cut = {} /\ faults = 0 /\ crashes = 0

Goto(p, l) == pc' = [pc EXCEPT ![p] = l]

Exit(p) ==
  /\ Goto(p, "idle") /\ what' = [what EXCEPT ![p] = "api"]
  /\ seen' = [seen EXCEPT ![p] = "absent"] /\ mine' = [mine EXCEPT ![p] = NoKey]

-----------------------------------------------------------------------------
(* loadOrCreateCA *)

\* q is at the files of the CA, or between the trust store and the marker.
Exposed(q) ==
  \/ pc[q] \in {"load", "read", "generated", "crt", "written", "key"}
  \/ pc[q] # "idle" /\ what[q] \in {"trust", "untrust"}

Load(p, w) ==
  /\ Goto(p, "load") /\ what' = [what EXCEPT ![p] = w]
  /\ raced' = (raced \/ \E q \in Procs \ {p} : Exposed(q))

\* Of a race, the end of what has been launched: a bound.
Launch(p, w) ==
  /\ pc[p] = "idle" /\ ~raced /\ Load(p, w)
  /\ UNCHANGED <<host, clusters, seen, mine, told, bounds>>

LaunchCreate(p) == "create" \in Commands /\ p \notin applied /\ Launch(p, "api")
LaunchTrust(p) == \E w \in {"trust", "untrust"} \cap Commands : Launch(p, w)

ReadCert(p) ==
  /\ pc[p] = "load" /\ Goto(p, "read")
  /\ seen' = [seen EXCEPT ![p] = ca["crt"]]
  /\ UNCHANGED <<host, clusters, what, mine, told, raced, bounds>>

Loaded(p) ==
  /\ pc[p] = "read" /\ seen[p] \in Keys /\ ca["key"] = seen[p]
  /\ mine' = [mine EXCEPT ![p] = ca["key"]]
  /\ Goto(p, "loaded")
  /\ UNCHANGED <<host, clusters, what, seen, told, raced, bounds>>

\* "corrupt local CA ...; remove ca.crt and ca.key to regenerate"
Corrupt(p) ==
  /\ pc[p] = "read" /\ seen[p] # "absent" /\ ca["key"] # "absent"
  /\ seen[p] = "empty" \/ ca["key"] # seen[p]
  /\ told' = TRUE /\ Exit(p)
  /\ UNCHANGED <<host, clusters, raced, bounds>>

\* Mutant of Generate: a CA is generated only when neither file is there.
GenerateIfNeither(p) ==
  /\ pc[p] = "read" /\ seen[p] = "absent" /\ ca["key"] = "absent"
  /\ \E k \in Keys \ used :
       mine' = [mine EXCEPT ![p] = k] /\ used' = used \cup {k}
  /\ Goto(p, "generated")
  /\ UNCHANGED <<ca, anchor, trusted, marker, clusters, what, seen, told, raced, bounds>>

Generate(p) ==
  /\ pc[p] = "read" /\ (seen[p] = "absent" \/ ca["key"] = "absent")
  /\ \E k \in Keys \ used :
       mine' = [mine EXCEPT ![p] = k] /\ used' = used \cup {k}
  /\ Goto(p, "generated")
  /\ UNCHANGED <<ca, anchor, trusted, marker, clusters, what, seen, told, raced, bounds>>

WriteCA(p, f, v, from, to) ==
  /\ pc[p] = from /\ Goto(p, to)
  /\ ca' = [ca EXCEPT ![f] = v]
  /\ UNCHANGED <<used, anchor, trusted, marker, clusters, what, seen, mine, told, raced, bounds>>

\* os.WriteFile of ca.crt and then of ca.key: emptied, then written.
Write(p) ==
  \/ WriteCA(p, "crt", "empty", "generated", "crt")
  \/ WriteCA(p, "crt", mine[p], "crt", "written")
  \/ WriteCA(p, "key", "empty", "written", "key")
  \/ WriteCA(p, "key", mine[p], "key", "loaded")

-----------------------------------------------------------------------------
(* apply-tls-certs *)

\* The leaf is signed with the pair in memory, and written.
Issue(p) ==
  /\ pc[p] = "loaded" /\ what[p] \in {"api", "apps"}
  /\ leaf' = [leaf EXCEPT ![p][what[p]] = mine[p]]
  /\ IF what[p] = "api"
       THEN Load(p, "apps")
       ELSE Goto(p, "publish") /\ UNCHANGED <<what, raced>>
  /\ UNCHANGED <<host, serving, bundle, applied, seen, mine, told, bounds>>

\* The two secrets are applied, apiserver and ingresscontroller patched.
Publish(p) ==
  /\ pc[p] = "publish" /\ Goto(p, "append")
  /\ serving' = [serving EXCEPT ![p] = leaf[p]]
  /\ UNCHANGED <<host, leaf, bundle, applied, what, seen, mine, told, raced, bounds>>

\* ca.crt is read again.
AppendCA(p) ==
  /\ pc[p] = "append" /\ ca["crt"] \in Keys /\ Goto(p, "record")
  /\ bundle' = [bundle EXCEPT ![p] = @ \cup {ca["crt"]}]
  /\ UNCHANGED <<host, leaf, serving, applied, what, seen, mine, told, raced, bounds>>

AppendRefused(p) ==
  /\ pc[p] = "append" /\ ca["crt"] \notin Keys /\ Exit(p)
  /\ UNCHANGED <<host, clusters, told, raced, bounds>>

Record(p) ==
  /\ pc[p] = "record" /\ applied' = applied \cup {p} /\ Exit(p)
  /\ UNCHANGED <<host, leaf, serving, bundle, told, raced, bounds>>

\* Mutant of OcFails: a failed append is only worth a warning.
OcFailsWarned(p) ==
  /\ pc[p] = "append" /\ faults < MaxFaults /\ faults' = faults + 1
  /\ Goto(p, "record")
  /\ UNCHANGED <<host, clusters, what, seen, mine, told, raced, cut, crashes>>

\* A call of oc fails; secrets may be applied by then.
OcFails(p) ==
  /\ pc[p] \in {"publish", "append"} /\ faults < MaxFaults /\ faults' = faults + 1
  /\ \E s \in {serving[p], leaf[p]} : serving' = [serving EXCEPT ![p] = s]
  /\ Exit(p) /\ UNCHANGED <<host, leaf, bundle, applied, told, raced, cut, crashes>>

\* The stage's rollback does nothing: the certificates go with the cluster
\* directory and the VM.  The CA stays.
Delete(p) ==
  /\ "delete" \in Commands /\ pc[p] = "idle" /\ leaf[p] # NoLeaf
  /\ leaf' = [leaf EXCEPT ![p] = NoLeaf] /\ serving' = [serving EXCEPT ![p] = NoLeaf]
  /\ bundle' = [bundle EXCEPT ![p] = {}] /\ applied' = applied \ {p}
  /\ UNCHANGED <<host, pc, what, seen, mine, told, raced, bounds>>

-----------------------------------------------------------------------------
(* easyshift trust *)

\* ca.crt is copied to the anchors, over what was there.
Install(p) ==
  /\ pc[p] = "loaded" /\ what[p] = "trust" /\ Goto(p, "extract")
  /\ anchor' = ca["crt"]
  /\ UNCHANGED <<ca, used, trusted, marker, clusters, what, seen, mine, told, raced, bounds>>

Uninstall(p) ==
  /\ pc[p] = "loaded" /\ what[p] = "untrust" /\ Goto(p, "extract")
  /\ anchor' = NoKey
  /\ UNCHANGED <<ca, used, trusted, marker, clusters, what, seen, mine, told, raced, bounds>>

\* update-ca-trust extract, or update-ca-certificates.
Extract(p) ==
  /\ pc[p] = "extract" /\ Goto(p, "mark")
  /\ trusted' = anchor
  /\ UNCHANGED <<ca, used, anchor, marker, clusters, what, seen, mine, told, raced, bounds>>

\* sudo is refused, or there is no store that is known.  The command ends there,
\* and the marker stays as it is.
AnchorFails(p) ==
  /\ pc[p] = "loaded" /\ what[p] \in {"trust", "untrust"}
  /\ faults < MaxFaults /\ faults' = faults + 1
  /\ Exit(p) /\ UNCHANGED <<host, clusters, told, raced, cut, crashes>>

\* Mutant of ExtractFails: a failed extraction is only worth a warning.
ExtractFailsWarned(p) ==
  /\ pc[p] = "extract" /\ faults < MaxFaults /\ faults' = faults + 1
  /\ Goto(p, "mark")
  /\ UNCHANGED <<host, clusters, what, seen, mine, told, raced, cut, crashes>>

\* The anchor has changed by now, and the marker has not.
ExtractFails(p) ==
  /\ pc[p] = "extract" /\ faults < MaxFaults /\ faults' = faults + 1
  /\ trusted' \in {trusted, anchor} /\ cut' = cut \cup {what[p]}
  /\ Exit(p) /\ UNCHANGED <<ca, used, anchor, marker, clusters, told, raced, crashes>>

Mark(p) ==
  /\ pc[p] = "mark" /\ Exit(p) /\ marker' = (what[p] = "trust")
  /\ UNCHANGED <<ca, used, anchor, trusted, clusters, told, raced, bounds>>

-----------------------------------------------------------------------------

\* The user does as the error says.
RemoveCA ==
  /\ told /\ told' = FALSE
  /\ ca' = [f \in Files |-> "absent"]
  /\ UNCHANGED <<used, anchor, trusted, marker, clusters, pc, what, seen, mine, raced, bounds>>

Crash(p) ==
  /\ pc[p] # "idle" /\ crashes < MaxCrashes /\ crashes' = crashes + 1
  /\ cut' = cut \cup {IF what[p] \in {"api", "apps"} THEN "create" ELSE what[p]}
  /\ Exit(p) /\ UNCHANGED <<host, clusters, told, raced, faults>>

LoadStep(p) == ReadCert(p) \/ Loaded(p) \/ Corrupt(p) \/ Generate(p) \/ Write(p)
TLSStep(p) == Issue(p) \/ Publish(p) \/ AppendCA(p) \/ AppendRefused(p) \/ Record(p)
TrustStep(p) == Install(p) \/ Uninstall(p) \/ Extract(p) \/ Mark(p)

Next ==
  \/ \E p \in Procs :
       \/ LaunchCreate(p) \/ LaunchTrust(p) \/ Delete(p)
       \/ LoadStep(p) \/ TLSStep(p) \/ TrustStep(p)
       \/ OcFails(p) \/ AnchorFails(p) \/ ExtractFails(p) \/ Crash(p)
  \/ RemoveCA

Spec == Init /\ [][Next]_vars

\* A command goes on, a create is repeated until it is done, by a user who need
\* not start a race for it, and who does what its error says.
FairSpec ==
  /\ Spec /\ WF_vars(RemoveCA)
  /\ \A p \in Procs :
       SF_vars(LaunchCreate(p) /\ ~raced') /\ WF_vars(LoadStep(p) \/ TLSStep(p) \/ TrustStep(p))

-----------------------------------------------------------------------------
(* Properties *)

TypeOK ==
  /\ ca \in [Files -> Keys \cup {"absent", "empty"}] /\ used \subseteq Keys
  /\ anchor \in Keys \cup {"absent", "empty"}
  /\ trusted \in Keys \cup {"absent", "empty"} /\ marker \in BOOLEAN
  /\ leaf \in [Procs -> [api : used \cup {NoKey}, apps : used \cup {NoKey}]]
  /\ serving \in [Procs -> [api : used \cup {NoKey}, apps : used \cup {NoKey}]]
  /\ bundle \in [Procs -> SUBSET used] /\ applied \subseteq Procs
  /\ pc \in [Procs -> {"idle", "load", "read", "generated", "crt", "written", "key",
                       "loaded", "publish", "append", "record", "extract", "mark"}]
  /\ what \in [Procs -> {"api", "apps", "trust", "untrust"}]
  /\ seen \in [Procs -> Keys \cup {"absent", "empty"}]
  /\ mine \in [Procs -> used \cup {NoKey}]
  /\ told \in BOOLEAN /\ raced \in BOOLEAN /\ cut \subseteq Commands
  /\ \A p \in Procs : pc[p] = "idle" => mine[p] = NoKey
  /\ faults \in 0..MaxFaults /\ crashes \in 0..MaxCrashes

\* "One CA ... signs the api/apps serving certs of every cluster" (localca.go),
\* the one whose files are there, and the admin kubeconfig of each validates the
\* certificate its api serves (stage.go: "a failed append breaks oc once the
\* apiserver rollout completes"), in spite of creates that are killed while they
\* generate the CA, and of a CA that is generated anew.  Two processes that
\* generate it at once may break it, as nothing locks the files: then a cluster
\* may have a CA that exists nowhere else.
OneCA ==
  ~raced => \A p \in applied :
              /\ serving[p] = [api |-> ca["crt"], apps |-> ca["crt"]]
              /\ serving[p].api \in bundle[p]

\* When the marker says so, the system's trust store has the CA of every cluster
\* (truststore.go: "fatal on failure"; the browsers' own databases are best
\* effort).  `trust` and its reverse change the one after the other, in calls that
\* may fail: an untrust that fails or is killed after it has removed the anchor
\* leaves the marker, so none must have, nor must two commands have met.
MarkedIsTrusted ==
  (marker /\ ~raced /\ "untrust" \notin cut /\ \A p \in Procs : pc[p] # "mark")
    => \A p \in applied : trusted = serving[p].apps

\* A create that is repeated gets its certificates, although one before it was
\* killed in the middle of generating the CA.  (A kill inside the write of
\* state.json, which no create gets past, is ClusterManager's StateUnreadable.)
CertificatesIssued == \A p \in Procs : <>(p \in applied \/ raced)
=============================================================================
