------------------------------ MODULE PublicNames ------------------------------
(***************************************************************************)
(* The public side of a cluster: the request it is created from            *)
(* (CreateRequest), its three A records (upsert-dns, through the manager   *)
(* that a process chose when it started) and, with --tls-email, the ACME   *)
(* account that all clusters share (providers/tls).                        *)
(*                                                                         *)
(* `dns set` writes the token in any terminal at any time.  There is one   *)
(* command at a time for each cluster.  DNS provider and ACME directory    *)
(* are external: records are written and removed one by one, an account    *)
(* belongs to the key it was registered with.                              *)
(***************************************************************************)
EXTENDS CreateRequest, FiniteSets

CONSTANTS
  Clusters,
  Names,     \* what a cluster is found by: api, api-int and *.apps
  Requests,  \* the flags that a user may pass for each cluster
  NoName,    \* no cluster
  MaxTrouble \* bound on requests to the provider or to ACME that fail, on
             \* processes that are killed and on records removed by hand

ASSUME PublicAssumption ==
  /\ NoName \notin Clusters /\ Clusters \cap {"none", "torn"} = {}
  /\ \A c \in Clusters : Requests[c] \subseteq Flags
  /\ MaxTrouble \in Nat

VARIABLES
  token,    \* the token's file: none, torn (empty), whole
  records,  \* the addresses the cluster's names have in the zone
  known, request, \* config.json: the clusters, and what each was created from
  recorded, \* state.json: which of upsert-dns and apply-tls-certs
  key, account, \* account.key and account.json: none, torn, or whose key
  pc,       \* where the process of each cluster's command is
  manager,  \* the DNSManager it started with: libdns, nop
  left,     \* names it has still to set, or to delete
  mine, registered, \* its ACME key, and the key its registration is for
  trouble,  \* what a cluster has met that a claim excepts
  raced,    \* two processes generated an ACME key at once
  troubles

zone == <<token, records>>
config == <<known, request, recorded>>
acme == <<key, account>>
locals == <<manager, left, mine, registered>>
ghosts == <<trouble, raced>>
vars == <<zone, config, acme, pc, locals, ghosts, troubles>>

Unset == [n \in Names |-> NoAddr]

Init ==
  /\ token \in {"none", "torn", "whole"}
  /\ records = [c \in Clusters |-> Unset]
  /\ known = {} /\ request = [c \in Clusters |-> NoName]
  /\ recorded = [c \in Clusters |-> {}]
  /\ key = "none" /\ account = "none"
  /\ pc = [c \in Clusters |-> "idle"]
  /\ manager = [c \in Clusters |-> "nop"] /\ left = [c \in Clusters |-> {}]
  /\ mine = [c \in Clusters |-> "none"] /\ registered = [c \in Clusters |-> "none"]
  /\ trouble = [c \in Clusters |-> {}] /\ raced = FALSE
  /\ troubles = 0

Move(c, l) == pc' = [pc EXCEPT ![c] = l]
Goto(c, l) == Move(c, l) /\ UNCHANGED locals

\* A process that ends takes along what it had in memory.
Exit(c) ==
  /\ Move(c, "idle")
  /\ manager' = [manager EXCEPT ![c] = "nop"]
  /\ left' = [left EXCEPT ![c] = {}] /\ mine' = [mine EXCEPT ![c] = "none"]
  /\ registered' = [registered EXCEPT ![c] = "none"]

Asked(c) == request[c]
Meets(c, t) == trouble' = [trouble EXCEPT ![c] = @ \cup {t}]
Recovers(c, T) == trouble' = [trouble EXCEPT ![c] = T]
Spends == troubles < MaxTrouble /\ troubles' = troubles + 1
Forgotten(C) == request' = [c \in Clusters |-> IF c \in C THEN NoName ELSE request[c]]

-----------------------------------------------------------------------------
(* dns set: WriteDNSToken truncates, then writes *)

TruncateToken ==
  /\ token # "torn" /\ token' = "torn" /\ Spends
  /\ UNCHANGED <<records, config, acme, pc, locals, ghosts>>

WriteToken ==
  /\ token = "torn" /\ token' = "whole"
  /\ UNCHANGED <<records, config, acme, pc, locals, ghosts, troubles>>

-----------------------------------------------------------------------------
(* create, up to upsert-dns *)

\* newProductionDNSManager: without a token, one that does nothing and succeeds.
newProductionDNSManager(c) ==
  manager' = [manager EXCEPT ![c] = IF token = "whole" THEN "libdns" ELSE "nop"]

Launch(c, l) ==
  /\ pc[c] = "idle" /\ Move(c, l) /\ newProductionDNSManager(c)
  /\ UNCHANGED <<zone, known, acme, left, mine, registered, ghosts, troubles>>

\* A cluster that is there keeps its request, and is refused once it runs.
LaunchCreate(c) ==
  /\ Launch(c, "preflight") /\ UNCHANGED recorded
  /\ IF c \in known
       THEN "apply-tls-certs" \notin recorded[c] /\ UNCHANGED request
       ELSE \E r \in Requests[c] :
              /\ validateNew(applyDefaults(r), Cardinality(known))
              /\ request' = [request EXCEPT ![c] = applyDefaults(r)]

NextStage(c) ==
  IF "upsert-dns" \notin recorded[c] THEN "upsert" ELSE "tls"

PreflightPasses(r) ==
  /\ r.provider => token # "none"
  /\ r.email => r.provider

\* EnsureDNSToken only stats the file; register-cluster follows.
Preflight(c) ==
  /\ pc[c] = "preflight"
  /\ IF PreflightPasses(Asked(c))
       THEN /\ known' = known \cup {c} /\ Goto(c, NextStage(c))
            /\ UNCHANGED request
       ELSE Exit(c) /\ UNCHANGED known /\ Forgotten({c} \ known)
  /\ UNCHANGED <<zone, recorded, acme, ghosts, troubles>>

\* Without a provider the user minds the names.
UpsertNothing(c) ==
  /\ pc[c] = "upsert" /\ ~Asked(c).provider /\ Goto(c, "set")
  /\ UNCHANGED <<zone, config, acme, ghosts, troubles>>

UpsertNop(c) ==
  /\ pc[c] = "upsert" /\ Asked(c).provider /\ manager[c] = "nop"
  /\ Goto(c, "set") /\ Meets(c, "nop")
  /\ UNCHANGED <<zone, config, acme, raced, troubles>>

UpsertRefused(c) ==
  /\ pc[c] = "upsert" /\ Asked(c).provider /\ manager[c] = "libdns"
  /\ ~clusterRecords(Asked(c)) /\ Exit(c)
  /\ UNCHANGED <<zone, config, acme, ghosts, troubles>>

\* Until the stage is recorded, nobody knows that there may be records.
Upsert(c) ==
  /\ pc[c] = "upsert" /\ Asked(c).provider /\ manager[c] = "libdns"
  /\ clusterRecords(Asked(c))
  /\ Move(c, "set") /\ left' = [left EXCEPT ![c] = Names]
  /\ Recovers(c, {"unrecorded"})
  /\ UNCHANGED <<zone, config, acme, manager, mine, registered, raced, troubles>>

\* Mutant of SetRecord: a name that has a record keeps it.
AppendRecord(c, n) ==
  /\ pc[c] = "set" /\ n \in left[c] /\ left' = [left EXCEPT ![c] = @ \ {n}]
  /\ records' = [records EXCEPT ![c][n] = IF @ = NoAddr THEN Asked(c).ip ELSE @]
  /\ UNCHANGED <<token, config, acme, pc, manager, mine, registered, ghosts, troubles>>

SetRecord(c, n) ==
  /\ pc[c] = "set" /\ n \in left[c] /\ left' = [left EXCEPT ![c] = @ \ {n}]
  /\ records' = [records EXCEPT ![c][n] = Asked(c).ip]
  /\ UNCHANGED <<token, config, acme, pc, manager, mine, registered, ghosts, troubles>>

\* The stages in between take the better part of an hour; "tls" is all of them.
Upserted(c) ==
  /\ pc[c] = "set" /\ left[c] = {}
  /\ recorded' = [recorded EXCEPT ![c] = @ \cup {"upsert-dns"}]
  /\ Recovers(c, trouble[c] \ IF Asked(c).provider THEN {"unrecorded"} ELSE {})
  /\ Goto(c, "tls")
  /\ UNCHANGED <<zone, known, request, acme, raced, troubles>>

-----------------------------------------------------------------------------
(* apply-tls-certs: NewIssuer, with a token that is read anew, and Issue *)

Applied(c) == Exit(c) /\ recorded' = [recorded EXCEPT ![c] = @ \cup {"apply-tls-certs"}]

\* embed-ignition-iso, which comes before, has no network to pin the master in.
EmbedFails(c) ==
  /\ pc[c] = "tls" /\ KeyfileFails(Asked(c)) /\ Exit(c)
  /\ UNCHANGED <<zone, config, acme, ghosts, troubles>>

\* Without --tls-email the certificates are the local CA's.
ApplyLocal(c) ==
  /\ pc[c] = "tls" /\ ~KeyfileFails(Asked(c)) /\ ~Asked(c).email /\ Applied(c)
  /\ UNCHANGED <<zone, known, request, acme, ghosts, troubles>>

TokenRequired(c) ==
  /\ pc[c] = "tls" /\ ~KeyfileFails(Asked(c)) /\ Asked(c).email /\ token # "whole" /\ Exit(c)
  /\ UNCHANGED <<zone, config, acme, ghosts, troubles>>

Generates(c) ==
  /\ Move(c, "generated") /\ mine' = [mine EXCEPT ![c] = c]
  /\ raced' = (raced \/ \E q \in Clusters : pc[q] = "generated")
  /\ UNCHANGED <<zone, config, acme, manager, left, registered, trouble, troubles>>

Loads(c) ==
  /\ Move(c, "json") /\ mine' = [mine EXCEPT ![c] = key]
  /\ UNCHANGED <<zone, config, acme, manager, left, registered, ghosts, troubles>>

\* Mutant of loadOrCreateKey: a key without a registration is replaced.
LoadRegisteredKey(c) ==
  /\ pc[c] = "tls" /\ ~KeyfileFails(Asked(c)) /\ Asked(c).email /\ token = "whole"
  /\ \/ key \in Clusters /\ account # "none" /\ Loads(c)
     \/ key # "torn" /\ account = "none" /\ Generates(c)
     \/ key = "torn" /\ Exit(c) /\ UNCHANGED <<zone, config, acme, ghosts, troubles>>

\* A key that does not parse is an error for good: nothing replaces it.
loadOrCreateKey(c) ==
  /\ pc[c] = "tls" /\ ~KeyfileFails(Asked(c)) /\ Asked(c).email /\ token = "whole"
  /\ \/ key \in Clusters /\ Loads(c)
     \/ key = "none" /\ Generates(c)
     \/ key = "torn" /\ Exit(c) /\ UNCHANGED <<zone, config, acme, ghosts, troubles>>

TruncateKey(c) ==
  /\ pc[c] = "generated" /\ key' = "torn" /\ Goto(c, "writekey")
  /\ UNCHANGED <<zone, config, account, ghosts, troubles>>

WriteKey(c) ==
  /\ pc[c] = "writekey" /\ key' = mine[c] /\ Goto(c, "register")
  /\ UNCHANGED <<zone, config, account, ghosts, troubles>>

LoadAccount(c) ==
  /\ pc[c] = "json"
  /\ \/ account \in Clusters /\ Move(c, "issue") /\ registered' = [registered EXCEPT ![c] = account]
        /\ UNCHANGED <<manager, left, mine>>
     \/ account = "none" /\ Goto(c, "register")
     \/ account = "torn" /\ Exit(c)
  /\ UNCHANGED <<zone, config, acme, ghosts, troubles>>

\* A key that has an account gets it again.  saveACMEUser follows.
Register(c) ==
  /\ pc[c] = "register" /\ Move(c, "writeaccount")
  /\ registered' = [registered EXCEPT ![c] = mine[c]] /\ account' = "torn"
  /\ UNCHANGED <<zone, config, key, manager, left, mine, ghosts, troubles>>

WriteAccount(c) ==
  /\ pc[c] = "writeaccount" /\ account' = registered[c] /\ Goto(c, "issue")
  /\ UNCHANGED <<zone, config, key, ghosts, troubles>>

\* An order that is signed by another key than the account's is refused.
Issue(c) ==
  /\ pc[c] = "issue"
  /\ IF registered[c] = mine[c] THEN Applied(c) ELSE Exit(c) /\ UNCHANGED recorded
  /\ UNCHANGED <<zone, known, request, acme, ghosts, troubles>>

\* A request to the provider or to ACME fails, and the create.
RequestFails(c) ==
  /\ pc[c] \in {"set", "register", "issue"} /\ Asked(c).provider /\ manager[c] = "libdns"
  /\ Spends /\ Exit(c)
  /\ UNCHANGED <<zone, config, acme, ghosts>>

-----------------------------------------------------------------------------
(* delete: the stages are rolled back in the opposite order *)

\* apply-tls-certs comes first, and leaves everything to the cluster's end.
LaunchDelete(c) ==
  /\ c \in known /\ Launch(c, IF "upsert-dns" \in recorded[c] THEN "delete" ELSE "forget")
  /\ recorded' = [recorded EXCEPT ![c] = @ \ {"apply-tls-certs"}]
  /\ UNCHANGED request

DeleteNothing(c) ==
  /\ pc[c] = "delete" /\ ~Asked(c).provider /\ Goto(c, "drop")
  /\ UNCHANGED <<zone, config, acme, ghosts, troubles>>

DeleteNop(c) ==
  /\ pc[c] = "delete" /\ Asked(c).provider /\ manager[c] = "nop"
  /\ Goto(c, "drop") /\ Meets(c, "kept")
  /\ UNCHANGED <<zone, config, acme, raced, troubles>>

\* Mutant of ListRecords: the records are constructed, not looked up.
ConstructRecords(c) ==
  /\ pc[c] = "delete" /\ Asked(c).provider /\ manager[c] = "libdns" /\ Move(c, "remove")
  /\ left' = [left EXCEPT ![c] = {n \in Names : records[c][n] = Asked(c).ip}]
  /\ UNCHANGED <<zone, config, acme, manager, mine, registered, ghosts, troubles>>

\* Whatever has one of the three names, with whichever address.
ListRecords(c) ==
  /\ pc[c] = "delete" /\ Asked(c).provider /\ manager[c] = "libdns" /\ Move(c, "remove")
  /\ left' = [left EXCEPT ![c] = {n \in Names : records[c][n] # NoAddr}]
  /\ UNCHANGED <<zone, config, acme, manager, mine, registered, ghosts, troubles>>

DeleteRecord(c, n) ==
  /\ pc[c] = "remove" /\ n \in left[c] /\ records[c][n] # NoAddr
  /\ left' = [left EXCEPT ![c] = @ \ {n}]
  /\ records' = [records EXCEPT ![c][n] = NoAddr]
  /\ UNCHANGED <<token, config, acme, pc, manager, mine, registered, ghosts, troubles>>

\* The provider gives up at a record that is gone, and isDNSNotFound takes that
\* for success: the records after it stay.
NotFound(c, n) ==
  /\ pc[c] = "remove" /\ n \in left[c] /\ records[c][n] = NoAddr
  /\ Goto(c, "drop") /\ Meets(c, "kept")
  /\ UNCHANGED <<zone, config, acme, raced, troubles>>

\* A failing rollback is only logged.
RollbackFails(c) ==
  /\ pc[c] \in {"delete", "remove"} /\ Asked(c).provider /\ manager[c] = "libdns"
  /\ Spends /\ Goto(c, "drop") /\ Meets(c, "kept")
  /\ UNCHANGED <<zone, config, acme, raced>>

Drops(c) ==
  /\ recorded' = [recorded EXCEPT ![c] = {}] /\ Goto(c, "forget")
  /\ UNCHANGED <<zone, known, request, acme, raced, troubles>>

RecordsDeleted(c) == pc[c] = "remove" /\ left[c] = {} /\ Recovers(c, {}) /\ Drops(c)

Drop(c) == pc[c] = "drop" /\ UNCHANGED trouble /\ Drops(c)

Forget(c) ==
  /\ pc[c] = "forget" /\ known' = known \ {c} /\ Exit(c)
  /\ Forgotten({c})
  /\ UNCHANGED <<zone, recorded, acme, ghosts, troubles>>

-----------------------------------------------------------------------------
(* The environment *)

Deleting(c) == pc[c] \in {"remove", "drop"}

Crash(c) ==
  /\ pc[c] # "idle" /\ Spends /\ Exit(c)
  /\ IF Deleting(c) THEN Meets(c, "cut") ELSE UNCHANGED trouble
  /\ Forgotten({c} \ known)
  /\ UNCHANGED <<zone, known, recorded, acme, raced>>

RemoveByHand(c, n) ==
  /\ records[c][n] # NoAddr /\ records' = [records EXCEPT ![c][n] = NoAddr]
  /\ Spends /\ Meets(c, "edited")
  /\ UNCHANGED <<token, config, acme, pc, locals, raced>>

UpsertStep(c) ==
  \/ UpsertNothing(c) \/ UpsertNop(c) \/ UpsertRefused(c) \/ Upsert(c)
  \/ (\E n \in Names : SetRecord(c, n)) \/ Upserted(c)

ACMEStep(c) ==
  \/ EmbedFails(c) \/ ApplyLocal(c) \/ TokenRequired(c) \/ loadOrCreateKey(c) \/ TruncateKey(c) \/ WriteKey(c)
  \/ LoadAccount(c) \/ Register(c) \/ WriteAccount(c) \/ Issue(c)

DeleteStep(c) ==
  \/ DeleteNothing(c) \/ DeleteNop(c) \/ ListRecords(c)
  \/ (\E n \in Names : DeleteRecord(c, n) \/ NotFound(c, n))
  \/ RecordsDeleted(c) \/ RollbackFails(c) \/ Drop(c) \/ Forget(c)

Next ==
  \/ TruncateToken \/ WriteToken
  \/ \E c \in Clusters :
       \/ LaunchCreate(c) \/ LaunchDelete(c)
       \/ Preflight(c) \/ UpsertStep(c) \/ ACMEStep(c) \/ RequestFails(c)
       \/ DeleteStep(c) \/ Crash(c)
       \/ \E n \in Names : RemoveByHand(c, n)

Spec == Init /\ [][Next]_vars

-----------------------------------------------------------------------------
(* Properties *)

\* When upsert-dns is recorded the cluster's three names have its address,
\* whatever an earlier create or an earlier cluster of that name left in the
\* zone, with creates that are killed or refused half way.  It is recorded as
\* well by a process that started without a usable token and had one in its
\* preflight, and outlives a delete that is cut short.
RecordedResolves ==
  \A c \in known :
    /\ request[c].provider /\ "upsert-dns" \in recorded[c] /\ ~Deleting(c)
    /\ trouble[c] \cap {"nop", "cut", "edited"} = {}
    => \A n \in Names : records[c][n] = request[c].ip

\* "Removes them on easyshift delete" (dns-and-tls.md): a cluster that is gone
\* has no record left, with deletes that are killed and repeated.  Excepted
\* are records of an upsert-dns that was never recorded, and a delete without
\* a token, or one whose call failed, or found a record gone.
NamesFreed ==
  \A c \in Clusters \ known : trouble[c] = {} => records[c] = Unset

\* The registration on disk is that of the key on disk, and no certificate is
\* asked for with another one, whoever was killed before or runs beside: an
\* account that does not fit its key would stop every create with --tls-email
\* for good.  Two processes that generate the key at once may make one.
AccountFitsKey ==
  ~raced =>
    /\ key \in Clusters /\ account \in Clusters => account = key
    /\ \A c \in Clusters : pc[c] = "issue" => registered[c] = mine[c]

\* Every cluster in config.json is one that its stages can build, with the flags
\* checked after the defaults have changed them, but for the requests that
\* Buildable names: those are accepted, and fail in a stage every time or give a
\* master that finds no gateway.
KnownAreBuildable == \A c \in known : Buildable(request[c])
=============================================================================
