--------------------------- MODULE PublicNamesProofs ---------------------------
(***************************************************************************)
(* The public side of a cluster, for any number of clusters, names, flags  *)
(* and failures: what validateNew accepts can be built, but for requests   *)
(* of the kinds that are named, recorded names resolve, a deleted cluster  *)
(* leaves none behind, and the ACME account is the key's.                  *)
(***************************************************************************)
EXTENDS PublicNames, TLAPS

-----------------------------------------------------------------------------
(* Requests *)

LEMMA MagicFlags ==
  ASSUME NEW r \in Flags
  PROVE  LET m == resolveMagicDNS(r) IN m \in Flags /\ m = [r EXCEPT !.magic = m.magic]
  BY DEF resolveMagicDNS, Flags, MagicServices

LEMMA ODFFlags ==
  ASSUME NEW r \in Flags
  PROVE  LET o == ODFDefaults(r)
         IN /\ o \in Flags
            /\ o = [r EXCEPT !.cpus = o.cpus, !.ram = o.ram, !.disk = o.disk]
            /\ o.odf => o.cpus >= odfMinCPUs /\ o.ram >= odfMinRAMMiB /\ o.disk # 0
<1> DEFINE cpus == AtLeast(r.cpus, odfMinCPUs)
           ram == AtLeast(r.ram, odfMinRAMMiB)
           disk == IF r.disk = 0 THEN defaultODFDiskGB ELSE r.disk
<1>1. /\ cpus \in Int /\ ram \in Int /\ disk \in Int
      /\ cpus >= odfMinCPUs /\ ram >= odfMinRAMMiB /\ disk # 0
  <2>1. r.cpus \in Int /\ r.ram \in Int /\ r.disk \in Int
    BY DEF Flags
  <2>2. QED BY <2>1 DEF AtLeast, odfMinCPUs, odfMinRAMMiB, defaultODFDiskGB
<1>2. ODFDefaults(r) = IF ~r.odf THEN r ELSE [r EXCEPT !.cpus = cpus, !.ram = ram, !.disk = disk]
  BY DEF ODFDefaults
<1> HIDE DEF cpus, ram, disk
<1>3. CASE ~r.odf
  BY <1>2, <1>3 DEF Flags
<1>4. CASE r.odf
  BY <1>1, <1>2, <1>4 DEF Flags
<1>5. QED BY <1>3, <1>4 DEF Flags

LEMMA CIDRFlags ==
  ASSUME NEW a \in Addresses
  PROVE  DeriveMachineCIDR(a) \in CIDRs
  BY DEF DeriveMachineCIDR, CIDRs, Networks, NoCIDR, NoAddr

LEMMA GatewayFlags ==
  ASSUME NEW d \in CIDRs
  PROVE  DeriveGateway(d) \in Addresses /\ (DeriveGateway(d) = NoAddr <=> d.base \notin 0..255)
  BY DEF DeriveGateway, CIDRs, Networks, Addresses, NoAddr, Invalid, IPv6

\* A network of two addresses or more has the derived one: there is no wrap.
LEMMA GatewayInside ==
  ASSUME NEW d \in Networks, d.size # 1
  PROVE  DeriveGateway(d) \in Hosts(d)
<1>1. d.base \in 0..255 /\ d.base % d.size = 0 /\ d.size \in {2, 4, 8, 16, 32, 64, 128, 256}
  BY DEF Networks
<1>2. d.base # 255
  BY <1>1
<1>3. DeriveGateway(d) = d.base + 1
  BY <1>1, <1>2 DEF DeriveGateway
<1>4. QED BY <1>1, <1>3 DEF Hosts

\* The derived network has the address it was derived from.
LEMMA CIDRAround ==
  ASSUME NEW a \in Addresses, DeriveMachineCIDR(a) \in Networks
  PROVE  a \in Hosts(DeriveMachineCIDR(a))
  BY DEF DeriveMachineCIDR, Hosts, Networks, Addresses, NoCIDR, NoAddr, Invalid, IPv6

LEMMA NetworkFlags ==
  ASSUME NEW r \in Flags
  PROVE  LET w == NetworkDefaults(r)
         IN w \in Flags /\ w = [r EXCEPT !.cidr = w.cidr, !.gateway = w.gateway]
<1> DEFINE cidr == IF r.cidr = NoCIDR THEN DeriveMachineCIDR(r.ip) ELSE r.cidr
           gateway == IF r.gateway = NoAddr THEN DeriveGateway(cidr) ELSE r.gateway
<1>1. cidr \in CIDRs
  BY CIDRFlags DEF Flags
<1>2. gateway \in Addresses
  BY <1>1, GatewayFlags DEF Flags
<1>3. NetworkDefaults(r) = IF r.mode # "bridge" THEN r ELSE [r EXCEPT !.cidr = cidr, !.gateway = gateway]
  BY DEF NetworkDefaults
<1> HIDE DEF cidr, gateway
<1>4. QED BY <1>1, <1>2, <1>3 DEF Flags

LEMMA CPUsDefault == defaultMasterCPUs \in Int
  BY DEF defaultMasterCPUs

\* The request as it is before the network's defaults: its name is found in one
\* way at least.
LEMMA NameFlags ==
  ASSUME NEW r \in Flags
  PROVE  LET m == resolveMagicDNS([r EXCEPT !.mode = IF @ = "" THEN "nat" ELSE @])
             d == [m EXCEPT !.domain = IF m.magic = "" /\ @ = "" THEN "local" ELSE @,
                            !.cpus = IF @ = 0 THEN defaultMasterCPUs ELSE @]
         IN d \in Flags /\ (d.magic = "" => d.domain # "")
<1>1. PICK q : q = [r EXCEPT !.mode = IF @ = "" THEN "nat" ELSE @]
  OBVIOUS
<1>2. PICK m : m = resolveMagicDNS(q)
  OBVIOUS
<1>3. m \in Flags
  <2>1. q \in Flags
    BY <1>1 DEF Flags
  <2>2. QED BY <1>2, <2>1, MagicFlags
<1>4. PICK domain, cpus : /\ domain = (IF m.magic = "" /\ m.domain = "" THEN "local" ELSE m.domain)
                          /\ cpus = (IF m.cpus = 0 THEN defaultMasterCPUs ELSE m.cpus)
  OBVIOUS
<1>5. domain \in {"", "own", "local"} /\ cpus \in Int /\ (m.magic = "" => domain # "")
  <2>1. m.domain \in {"", "own", "local"} /\ m.cpus \in Int
    BY <1>3 DEF Flags
  <2>2. PICK was \in {"", "own", "local"}, n \in Int : was = m.domain /\ n = m.cpus
    BY <2>1
  <2>3. domain = (IF m.magic = "" /\ was = "" THEN "local" ELSE was)
    BY <1>4, <2>2
  <2>4. cpus = IF n = 0 THEN defaultMasterCPUs ELSE n
    BY <1>4, <2>2
  <2>5. cpus \in Int
    BY <2>2, <2>4, CPUsDefault
  <2>6. QED BY <2>1, <2>2, <2>3, <2>5
<1>6. PICK d : d = [m EXCEPT !.domain = domain, !.cpus = cpus]
  OBVIOUS
<1>7. d \in Flags /\ (d.magic = "" => d.domain # "")
  BY <1>3, <1>5, <1>6 DEF Flags
<1>8. QED BY <1>1, <1>2, <1>4, <1>6, <1>7

\* What validateNew accepts after the defaults can be built, but for the requests
\* that Buildable names.
LEMMA AcceptedIsBuildable ==
  ASSUME NEW r \in Flags, NEW n, validateNew(applyDefaults(r), n)
  PROVE  applyDefaults(r) \in Flags /\ Buildable(applyDefaults(r))
<1> DEFINE m == resolveMagicDNS([r EXCEPT !.mode = IF @ = "" THEN "nat" ELSE @])
           d == [m EXCEPT !.domain = IF m.magic = "" /\ @ = "" THEN "local" ELSE @,
                          !.cpus = IF @ = 0 THEN defaultMasterCPUs ELSE @]
           o == ODFDefaults(d)
           w == NetworkDefaults(o)
<1>1. w = applyDefaults(r)
  BY DEF applyDefaults
<1>2. d \in Flags /\ (d.magic = "" => d.domain # "")
  BY NameFlags
<1> HIDE DEF d, m
<1>3. /\ o \in Flags /\ (o.magic = "" => o.domain # "")
      /\ o.odf => o.cpus >= odfMinCPUs /\ o.ram >= odfMinRAMMiB /\ o.disk # 0
  <2>1. /\ o \in Flags
        /\ o = [d EXCEPT !.cpus = o.cpus, !.ram = o.ram, !.disk = o.disk]
        /\ o.odf => o.cpus >= odfMinCPUs /\ o.ram >= odfMinRAMMiB /\ o.disk # 0
    BY <1>2, ODFFlags
  <2> HIDE DEF o
  <2>2. o.magic = d.magic /\ o.domain = d.domain
    BY <1>2, <2>1 DEF Flags
  <2>3. QED BY <1>2, <2>1, <2>2
<1> HIDE DEF o
<1>4. /\ w \in Flags /\ (w.magic = "" => w.domain # "")
      /\ w.odf => w.cpus >= odfMinCPUs /\ w.ram >= odfMinRAMMiB /\ w.disk # 0
  <2>1. w \in Flags /\ w = [o EXCEPT !.cidr = w.cidr, !.gateway = w.gateway]
    BY <1>3, NetworkFlags
  <2> HIDE DEF w
  <2>2. w.magic = o.magic /\ w.domain = o.domain /\ w.odf = o.odf /\ w.cpus = o.cpus
        /\ w.ram = o.ram /\ w.disk = o.disk
    BY <1>3, <2>1 DEF Flags
  <2>3. QED BY <1>3, <2>1, <2>2
<1>5. validateNew(w, n)
  BY <1>1
<1> HIDE DEF w
<1>6. w.magic = "" <=> w.domain # ""
  BY <1>4, <1>5 DEF validateNew, ValidNames
<1>7. ~(w.provider /\ w.magic # "")
  BY <1>5 DEF validateNew, ValidNames
<1>8. Publishable(w) \/ Unpublishable(w)
  <2>1. SUFFICES ASSUME w.mode = "bridge", w.zone # "other" PROVE clusterRecords(w)
    BY <1>5 DEF Publishable, Unpublishable, validateNew
  <2>2. ValidateIP(w.ip) /\ w.zone \in {"", "parent"}
    BY <1>4, <1>5, <2>1 DEF validateNew, ValidBridge, Flags
  <2>3. QED BY <2>2 DEF clusterRecords, DNSZoneOrDomain
<1>9. ASSUME w.mode = "bridge"
      PROVE  w.cidr \in Networks \/ w.cidr.base = IPv6
  <2>1. w.cidr \in CIDRs /\ w.cidr # NoCIDR /\ w.cidr.base # Invalid
    BY <1>4, <1>5, <1>9 DEF validateNew, ValidBridge, Flags
  <2>2. QED BY <2>1 DEF CIDRs, NoCIDR
<1>10. Pinnable(w) \/ Unpinnable(w)
  <2>1. SUFFICES ASSUME w.mode = "bridge", w.cidr \in Networks PROVE ~KeyfileFails(w)
    BY <1>9, GatewayFlags DEF Pinnable, Unpinnable, KeyfileFails, IPv6, Invalid
  <2>2. QED BY <2>1 DEF KeyfileFails, DeriveGateway, Networks, NoAddr, Invalid
<1>11. Routed(w) \/ Misrouted(w)
  <2>1. SUFFICES ASSUME w.cidr \in Networks, ~Misrouted(w)
                 PROVE  {w.ip, w.gateway} \subseteq Hosts(w.cidr) /\ w.ip # w.gateway
    BY DEF Routed
  <2>2. w.ip \in Addresses
    BY <1>4 DEF Flags
  <2>3. w.ip \in Hosts(w.cidr)
    BY <2>1, <2>2, CIDRAround DEF Misrouted
  <2>4. w.gateway \in Hosts(w.cidr)
    BY <2>1, GatewayInside DEF Misrouted
  <2>5. QED BY <2>1, <2>3, <2>4 DEF Misrouted
<1>12. Equipped(w)
  <2> SUFFICES ASSUME w.odf PROVE Equipped(w)
    BY DEF Equipped
  <2>1. w.disk \in Int /\ w.disk >= 12
    BY <1>4, <1>5 DEF validateNew, ValidODF, Flags
  <2>2. w.disk \div 3 - 3 >= 1 /\ 3 * ((w.disk \div 3 - 3) + 3) <= w.disk
    BY <2>1
  <2>3. QED BY <1>4, <2>2 DEF DataPVCSizeGi, Equipped
<1>13. QED BY <1>1, <1>4, <1>6, <1>7, <1>8, <1>10, <1>11, <1>12 DEF Buildable, NamedOnce

-----------------------------------------------------------------------------
(* Types *)

Places ==
  {"idle", "preflight", "upsert", "set", "tls", "generated", "writekey", "json", "register",
   "writeaccount", "issue", "delete", "remove", "drop", "forget"}

SharedTypes ==
  /\ token \in {"none", "torn", "whole"} /\ records \in [Clusters -> [Names -> Addresses]]
  /\ known \subseteq Clusters /\ request \in [Clusters -> Flags \cup {NoName}]
  /\ recorded \in [Clusters -> SUBSET {"upsert-dns", "apply-tls-certs"}]
  /\ key \in Clusters \cup {"none", "torn"} /\ account \in Clusters \cup {"none", "torn"}
  /\ trouble \in [Clusters -> SUBSET {"nop", "unrecorded", "kept", "cut", "edited"}]
  /\ raced \in BOOLEAN /\ troubles \in 0..MaxTrouble

LocalTypes ==
  /\ pc \in [Clusters -> Places] /\ manager \in [Clusters -> {"nop", "libdns"}]
  /\ left \in [Clusters -> SUBSET Names]
  /\ mine \in [Clusters -> Clusters \cup {"none", "torn"}]
  /\ registered \in [Clusters -> Clusters \cup {"none", "torn"}]

Types == SharedTypes /\ LocalTypes

\* A cluster in config.json, and one in its preflight, was accepted; one that
\* is not there has no stage recorded and no command past its preflight.
Accepted(c) == request[c] \in Flags /\ Buildable(request[c])

Registered ==
  \A c \in Clusters :
    /\ c \in known \/ pc[c] = "preflight" => Accepted(c)
    /\ c \notin known => recorded[c] = {} /\ pc[c] \in {"idle", "preflight"}
    /\ pc[c] = "forget" => recorded[c] = {}

PublicInv == Types /\ Registered

\* What a step at c leaves of another cluster.
Others(c) == \A d \in Clusters \ {c} :
  /\ UNCHANGED <<pc[d], request[d], recorded[d], records[d], left[d], trouble[d], mine[d], registered[d]>>
  /\ d \in known' <=> d \in known

Step(c) ==
  \/ LaunchCreate(c) \/ LaunchDelete(c)
  \/ Preflight(c) \/ UpsertStep(c) \/ ACMEStep(c) \/ RequestFails(c)
  \/ DeleteStep(c) \/ Crash(c)
  \/ \E n \in Names : RemoveByHand(c, n)

LEMMA PublicInit == Init => PublicInv
<1> SUFFICES ASSUME Init PROVE PublicInv
  OBVIOUS
<1>1. Unset \in [Names -> Addresses]
  BY DEF Unset, Addresses
<1>2. Types
  <2>1. records \in [Clusters -> [Names -> Addresses]]
    BY <1>1 DEF Init
  <2>2. token \in {"none", "torn", "whole"} /\ troubles \in 0..MaxTrouble
    BY PublicAssumption DEF Init
  <2>3. QED BY <2>1, <2>2 DEF Init, Types, SharedTypes, LocalTypes, Places
<1>3. Registered
  BY DEF Init, Registered
<1>4. QED BY <1>2, <1>3 DEF PublicInv

LEMMA StepOthers == ASSUME Types, NEW c \in Clusters, Step(c) PROVE Others(c)
<1> USE DEF Types, SharedTypes, LocalTypes, Others, Exit, Move, Goto, locals, config, zone, ghosts, Meets, Recovers, Forgotten
<1>1. CASE LaunchCreate(c) \/ LaunchDelete(c)
  BY <1>1 DEF LaunchCreate, LaunchDelete, Launch
<1>2. CASE Preflight(c) \/ RequestFails(c) \/ Crash(c)
  BY <1>2 DEF Preflight, RequestFails, Crash
<1>3. CASE UpsertStep(c)
  BY <1>3 DEF UpsertStep, UpsertNothing, UpsertNop, UpsertRefused, Upsert, SetRecord, Upserted
<1>4. CASE ACMEStep(c)
  BY <1>4 DEF ACMEStep, Applied, ApplyLocal, TokenRequired, EmbedFails, Generates, Loads, loadOrCreateKey, TruncateKey,
              WriteKey, LoadAccount, Register, WriteAccount, Issue
<1>5. CASE DeleteStep(c)
  BY <1>5 DEF DeleteStep, DeleteNothing, DeleteNop, ListRecords, DeleteRecord, NotFound, RollbackFails,
              Drops, RecordsDeleted, Drop, Forget
<1>6. CASE \E n \in Names : RemoveByHand(c, n)
  BY <1>6 DEF RemoveByHand
<1>7. QED BY <1>1, <1>2, <1>3, <1>4, <1>5, <1>6 DEF Step

LEMMA ExitTypes ==
  ASSUME LocalTypes, NEW c \in Clusters, Exit(c)
  PROVE  LocalTypes'
  BY DEF LocalTypes, Exit, Move, Places

LEMMA GotoTypes ==
  ASSUME LocalTypes, NEW c \in Clusters, NEW l \in Places, Goto(c, l)
  PROVE  LocalTypes'
  BY DEF LocalTypes, Goto, Move, locals

LEMMA LocalKept ==
  ASSUME Types, NEW c \in Clusters, Step(c)
  PROVE  LocalTypes'
<1> USE DEF Types, LocalTypes, Move, Places
<1>1. ASSUME NEW l \in Places, Launch(c, l) PROVE LocalTypes'
  BY <1>1 DEF Launch, newProductionDNSManager
<1>2. CASE LaunchCreate(c) \/ LaunchDelete(c)
  BY <1>1, <1>2 DEF LaunchCreate, LaunchDelete
<1>3. ASSUME NEW l \in Places, Goto(c, l) PROVE LocalTypes'
  BY <1>3, GotoTypes
<1>4. CASE Exit(c)
  BY <1>4, ExitTypes
<1>5. CASE Preflight(c)
  BY <1>3, <1>4, <1>5 DEF Preflight, NextStage
<1>6. CASE RequestFails(c) \/ Crash(c)
  BY <1>4, <1>6 DEF RequestFails, Crash
<1>7. CASE UpsertStep(c)
  <2>1. CASE Upsert(c)
    BY <2>1 DEF Upsert
  <2>2. ASSUME NEW n \in Names, SetRecord(c, n) PROVE LocalTypes'
    BY <2>2 DEF SetRecord
  <2>3. QED BY <1>3, <1>4, <1>7, <2>1, <2>2 DEF UpsertStep, UpsertNothing, UpsertNop, UpsertRefused, Upserted
<1>8. CASE ACMEStep(c)
  <2>1. CASE Generates(c)
    BY <2>1 DEF Generates
  <2>2. CASE Loads(c)
    BY <2>2 DEF Loads, SharedTypes
  <2>3. CASE LoadAccount(c)
    <3>1. CASE account \in Clusters /\ Move(c, "issue") /\ registered' = [registered EXCEPT ![c] = account]
               /\ UNCHANGED <<manager, left, mine>>
      BY <3>1
    <3>2. QED BY <1>3, <1>4, <2>3, <3>1 DEF LoadAccount
  <2>4. CASE Register(c)
    BY <2>4 DEF Register
  <2>5. CASE ApplyLocal(c) \/ TokenRequired(c) \/ EmbedFails(c) \/ loadOrCreateKey(c) \/ TruncateKey(c) \/ WriteKey(c)
             \/ WriteAccount(c) \/ Issue(c)
    BY <1>3, <1>4, <2>1, <2>2, <2>5
       DEF ApplyLocal, Applied, TokenRequired, EmbedFails, loadOrCreateKey, TruncateKey, WriteKey, WriteAccount, Issue
  <2>6. QED BY <1>8, <2>3, <2>4, <2>5 DEF ACMEStep
<1>9. CASE DeleteStep(c)
  <2>1. CASE ListRecords(c)
    BY <2>1 DEF ListRecords
  <2>2. ASSUME NEW n \in Names, DeleteRecord(c, n) PROVE LocalTypes'
    BY <2>2 DEF DeleteRecord
  <2>3. ASSUME NEW n \in Names, NotFound(c, n) PROVE LocalTypes'
    BY <1>3, <2>3 DEF NotFound
  <2>4. QED BY <1>3, <1>4, <1>9, <2>1, <2>2, <2>3
               DEF DeleteStep, DeleteNothing, DeleteNop, RollbackFails, Drops, RecordsDeleted, Drop, Forget
<1>10. CASE \E n \in Names : RemoveByHand(c, n)
  BY <1>10 DEF RemoveByHand, locals
<1>11. QED BY <1>2, <1>5, <1>6, <1>7, <1>8, <1>9, <1>10 DEF Step

LEMMA SharedKept ==
  ASSUME Types, Registered, NEW c \in Clusters, Step(c)
  PROVE  SharedTypes'
<1> USE DEF Types, SharedTypes, config, zone, acme, ghosts, Meets, Recovers, Spends
<1>1. ASSUME NEW R \in SUBSET Clusters, Forgotten(R) PROVE request' \in [Clusters -> Flags \cup {NoName}]
  BY <1>1 DEF Forgotten
<1>2. CASE LaunchCreate(c)
  <2>1. ASSUME NEW r \in Requests[c], validateNew(applyDefaults(r), Cardinality(known))
        PROVE  applyDefaults(r) \in Flags
    BY <2>1, PublicAssumption, AcceptedIsBuildable
  <2>2. request' \in [Clusters -> Flags \cup {NoName}]
    BY <1>2, <2>1 DEF LaunchCreate
  <2>3. QED BY <1>2, <2>2 DEF LaunchCreate, Launch
<1>3. CASE LaunchDelete(c)
  BY <1>3 DEF LaunchDelete, Launch
<1>4. CASE Preflight(c)
  <2>1. request' \in [Clusters -> Flags \cup {NoName}]
    BY <1>1, <1>4 DEF Preflight
  <2>2. known' \subseteq Clusters
    BY <1>4 DEF Preflight
  <2>3. QED BY <1>4, <2>1, <2>2 DEF Preflight
<1>5. CASE RequestFails(c)
  BY <1>5, PublicAssumption DEF RequestFails
<1>6. CASE Crash(c)
  <2>1. request' \in [Clusters -> Flags \cup {NoName}]
    BY <1>1, <1>6 DEF Crash
  <2>2. trouble' \in [Clusters -> SUBSET {"nop", "unrecorded", "kept", "cut", "edited"}]
    BY <1>6 DEF Crash
  <2>3. troubles' \in 0..MaxTrouble
    BY <1>6, PublicAssumption DEF Crash
  <2>4. QED BY <1>6, <2>1, <2>2, <2>3 DEF Crash
<1>7. CASE UpsertStep(c)
  <2>1. ASSUME NEW n \in Names, SetRecord(c, n) PROVE SharedTypes'
    <3>1. c \in known
      BY <2>1 DEF SetRecord, Registered
    <3>2. Asked(c).ip \in Addresses
      BY <3>1 DEF Registered, Accepted, Asked, Flags
    <3>3. QED BY <2>1, <3>2 DEF SetRecord
  <2>2. CASE UpsertNothing(c) \/ UpsertRefused(c)
    BY <2>2 DEF UpsertNothing, UpsertRefused
  <2>3. CASE UpsertNop(c) \/ Upsert(c)
    BY <2>3 DEF UpsertNop, Upsert
  <2>4. CASE Upserted(c)
    BY <2>4 DEF Upserted
  <2>5. QED BY <1>7, <2>1, <2>2, <2>3, <2>4 DEF UpsertStep
<1>8. CASE ACMEStep(c)
  <2> USE DEF LocalTypes
  <2>1. CASE ApplyLocal(c) \/ TokenRequired(c) \/ EmbedFails(c)
    BY <2>1 DEF Applied, ApplyLocal, TokenRequired, EmbedFails
  <2>2. CASE Issue(c)
    BY <2>2 DEF Applied, Issue
  <2>3. CASE loadOrCreateKey(c)
    BY <2>3 DEF Generates, Loads, loadOrCreateKey
  <2>4. CASE TruncateKey(c) \/ WriteKey(c)
    BY <2>4 DEF TruncateKey, WriteKey
  <2>5. CASE LoadAccount(c) \/ Register(c) \/ WriteAccount(c)
    BY <2>5 DEF LoadAccount, Register, WriteAccount
  <2>6. QED BY <1>8, <2>1, <2>2, <2>3, <2>4, <2>5 DEF ACMEStep
<1>9. CASE DeleteStep(c)
  <2>1. CASE Forget(c)
    <3>1. request' \in [Clusters -> Flags \cup {NoName}]
      BY <1>1, <2>1 DEF Forget
    <3>2. QED BY <2>1, <3>1 DEF Forget
  <2>2. ASSUME NEW n \in Names, DeleteRecord(c, n) \/ NotFound(c, n) PROVE SharedTypes'
    <3>1. CASE DeleteRecord(c, n)
      BY <3>1 DEF DeleteRecord, Addresses
    <3>2. CASE NotFound(c, n)
      BY <3>2 DEF NotFound
    <3>3. QED BY <2>2, <3>1, <3>2
  <2>3. CASE DeleteNothing(c) \/ DeleteNop(c) \/ ListRecords(c)
    BY <2>3 DEF DeleteNothing, DeleteNop, ListRecords
  <2>4. CASE RollbackFails(c)
    BY <2>4, PublicAssumption DEF RollbackFails
  <2>5. CASE Drop(c) \/ RecordsDeleted(c)
    BY <2>5 DEF Drops, RecordsDeleted, Drop
  <2>6. QED BY <1>9, <2>1, <2>2, <2>3, <2>4, <2>5 DEF DeleteStep
<1>10. ASSUME NEW n \in Names, RemoveByHand(c, n) PROVE SharedTypes'
  BY <1>10, PublicAssumption DEF RemoveByHand, Addresses
<1>11. QED BY <1>2, <1>3, <1>4, <1>5, <1>6, <1>7, <1>8, <1>9, <1>10 DEF Step

LEMMA TypesKept == Types /\ Registered /\ [Next]_vars => Types'
<1> SUFFICES ASSUME Types, Registered, [Next]_vars PROVE Types'
  OBVIOUS
<1>1. ASSUME NEW c \in Clusters, Step(c) PROVE Types'
  BY <1>1, LocalKept, SharedKept DEF Types
<1>2. CASE TruncateToken \/ WriteToken
  BY <1>2, PublicAssumption DEF TruncateToken, WriteToken, Types, SharedTypes, LocalTypes, config, acme, locals, ghosts, Spends
<1>3. CASE UNCHANGED vars
  BY <1>3 DEF vars, Types, SharedTypes, LocalTypes, zone, config, acme, locals, ghosts
<1>4. QED BY <1>1, <1>2, <1>3 DEF Next, Step

-----------------------------------------------------------------------------
(* KnownAreBuildable *)

LEMMA RegisteredClose ==
  ASSUME Registered, NEW c \in Clusters, Others(c),
         c \in known' \/ pc'[c] = "preflight" => Accepted(c)',
         c \notin known' => recorded'[c] = {} /\ pc'[c] \in {"idle", "preflight"},
         pc'[c] = "forget" => recorded'[c] = {}
  PROVE  Registered'
  BY DEF Registered, Others, Accepted

\* Only a create that starts, a preflight and the end of a delete change what
\* is registered.
LEMMA RegisteredKept ==
  ASSUME PublicInv, NEW c \in Clusters, Step(c)
  PROVE  Registered'
<1>1. Others(c) /\ Types /\ Registered
  BY StepOthers DEF PublicInv
<1> USE DEF Types, SharedTypes, LocalTypes, Exit, Move, Goto, locals, config
<1>2. CASE LaunchCreate(c)
  <2>1. CASE c \in known
    BY <1>1, <1>2, <2>1, RegisteredClose DEF LaunchCreate, Launch, Registered, Accepted
  <2>2. CASE c \notin known
    <3>1. PICK r \in Requests[c] : /\ validateNew(applyDefaults(r), Cardinality(known))
                                   /\ request' = [request EXCEPT ![c] = applyDefaults(r)]
      BY <1>2, <2>2 DEF LaunchCreate
    <3>2. applyDefaults(r) \in Flags /\ Buildable(applyDefaults(r))
      BY <3>1, PublicAssumption, AcceptedIsBuildable
    <3>3. Accepted(c)'
      BY <1>1, <3>1, <3>2 DEF Accepted
    <3>4. known' = known /\ pc'[c] = "preflight" /\ recorded' = recorded
      BY <1>1, <1>2 DEF LaunchCreate, Launch
    <3>5. QED BY <1>1, <2>2, <3>3, <3>4, RegisteredClose DEF Registered
  <2>3. QED BY <2>1, <2>2
<1>3. CASE Preflight(c)
  <2>1. CASE c \in known' /\ UNCHANGED request
    <3>1. pc'[c] \in {"upsert", "tls"} \/ pc'[c] = "idle"
      BY <1>1, <1>3 DEF Preflight, NextStage
    <3>2. Accepted(c)
      BY <1>1, <1>3 DEF Preflight, Registered
    <3>3. QED BY <1>1, <2>1, <3>1, <3>2, RegisteredClose DEF Accepted
  <2>2. CASE Exit(c) /\ known' = known /\ Forgotten({c} \ known)
    <3>1. pc'[c] = "idle" /\ recorded' = recorded
      BY <1>1, <1>3, <2>2 DEF Preflight
    <3>2. c \in known => request'[c] = request[c]
      BY <1>1, <2>2 DEF Forgotten
    <3>3. QED BY <1>1, <2>2, <3>1, <3>2, RegisteredClose DEF Registered, Accepted
  <2>3. QED BY <1>1, <1>3, <2>1, <2>2 DEF Preflight
<1>4. ASSUME UNCHANGED <<known, request>>, c \in known, pc'[c] \notin {"preflight", "forget"}
      PROVE  Registered'
  BY <1>1, <1>4, RegisteredClose DEF Registered, Accepted
<1>5. CASE LaunchDelete(c)
  <2>1. UNCHANGED <<known, request>> /\ c \in known /\ pc'[c] \in {"delete", "forget"}
    BY <1>1, <1>5 DEF LaunchDelete, Launch
  <2>2. pc'[c] = "forget" => recorded'[c] = {}
    BY <1>1, <1>5 DEF LaunchDelete, Launch
  <2>3. QED BY <1>1, <2>1, <2>2, RegisteredClose DEF Registered, Accepted
<1>6. CASE UpsertStep(c) \/ ACMEStep(c) \/ RequestFails(c)
  <2>1. pc[c] \notin {"idle", "preflight"}
    BY <1>6 DEF UpsertStep, UpsertNothing, UpsertNop, UpsertRefused, Upsert, SetRecord, Upserted,
         ACMEStep, ApplyLocal, TokenRequired, EmbedFails, loadOrCreateKey, TruncateKey, WriteKey, LoadAccount,
         Register, WriteAccount, Issue, RequestFails
  <2>2. UNCHANGED <<known, request>>
    BY <1>6 DEF UpsertStep, UpsertNothing, UpsertNop, UpsertRefused, Upsert, SetRecord, Upserted,
         ACMEStep, ApplyLocal, TokenRequired, EmbedFails, loadOrCreateKey, Generates, Loads, TruncateKey, WriteKey,
         LoadAccount, Register, WriteAccount, Issue, RequestFails
  <2>3. pc'[c] \notin {"preflight", "forget"}
    BY <1>1, <1>6 DEF UpsertStep, UpsertNothing, UpsertNop, UpsertRefused, Upsert, SetRecord, Upserted,
         ACMEStep, ApplyLocal, Applied, TokenRequired, EmbedFails, loadOrCreateKey, Generates, Loads, TruncateKey, WriteKey,
         LoadAccount, Register, WriteAccount, Issue, RequestFails
  <2>4. QED BY <1>1, <1>4, <2>1, <2>2, <2>3 DEF Registered
<1>7. CASE DeleteStep(c)
  <2>1. CASE Forget(c)
    <3>1. c \notin known' /\ pc'[c] = "idle" /\ recorded' = recorded /\ pc[c] = "forget"
      BY <1>1, <2>1 DEF Forget
    <3>2. QED BY <1>1, <3>1, RegisteredClose DEF Registered
  <2>2. CASE RecordsDeleted(c) \/ Drop(c)
    <3>1. recorded'[c] = {} /\ pc'[c] = "forget" /\ UNCHANGED <<known, request>> /\ pc[c] \in {"remove", "drop"}
      BY <1>1, <2>2 DEF RecordsDeleted, Drop, Drops
    <3>2. QED BY <1>1, <3>1, RegisteredClose DEF Registered, Accepted
  <2>3. CASE DeleteNothing(c) \/ DeleteNop(c) \/ ListRecords(c) \/ RollbackFails(c)
             \/ \E n \in Names : DeleteRecord(c, n) \/ NotFound(c, n)
    <3>1. pc[c] \in {"delete", "remove"} /\ pc'[c] \in {"remove", "drop"} /\ UNCHANGED <<known, request>>
      BY <1>1, <2>3 DEF DeleteNothing, DeleteNop, ListRecords, RollbackFails, DeleteRecord, NotFound
    <3>2. QED BY <1>1, <1>4, <3>1 DEF Registered
  <2>4. QED BY <1>7, <2>1, <2>2, <2>3 DEF DeleteStep
<1>8. CASE Crash(c)
  <2>1. pc'[c] = "idle" /\ UNCHANGED <<known, recorded>> /\ (c \in known => request'[c] = request[c])
    BY <1>1, <1>8 DEF Crash, Forgotten
  <2>2. QED BY <1>1, <2>1, RegisteredClose DEF Registered, Accepted
<1>9. ASSUME NEW n \in Names, RemoveByHand(c, n) PROVE Registered'
  BY <1>1, <1>9, RegisteredClose DEF RemoveByHand, Registered, Accepted
<1>10. QED BY <1>2, <1>3, <1>5, <1>6, <1>7, <1>8, <1>9 DEF Step

LEMMA PublicStep == PublicInv /\ [Next]_vars => PublicInv'
<1> SUFFICES ASSUME PublicInv, [Next]_vars PROVE PublicInv'
  OBVIOUS
<1>1. Types'
  BY TypesKept DEF PublicInv
<1>2. ASSUME NEW c \in Clusters, Step(c) PROVE Registered'
  BY <1>2, RegisteredKept
<1>3. ASSUME TruncateToken \/ WriteToken \/ UNCHANGED vars PROVE Registered'
  BY <1>3 DEF TruncateToken, WriteToken, PublicInv, Registered, Accepted, vars, config
<1>4. (\E c \in Clusters : Step(c)) \/ TruncateToken \/ WriteToken \/ UNCHANGED vars
  BY DEF Next, Step
<1>5. QED BY <1>1, <1>2, <1>3, <1>4 DEF PublicInv

LEMMA PublicInvariant == Spec => []PublicInv
  BY PublicInit, PublicStep, PTL DEF Spec

\* Of the requests that a user may make, those that get into config.json can be
\* built by the stages, or are of the kinds that Buildable names, whatever happened
\* to the commands since.
THEOREM KnownAlwaysBuildable == Spec => []KnownAreBuildable
<1>1. PublicInv => KnownAreBuildable
  BY DEF PublicInv, Types, SharedTypes, Registered, Accepted, KnownAreBuildable
<1>2. QED BY PublicInvariant, <1>1, PTL
-----------------------------------------------------------------------------
(* AccountFitsKey.  The key is generated once; until its file is whole nobody *)
(* has an account, and from then on everybody works with that key.            *)

Generating(c) == pc[c] \in {"generated", "writekey"}
Loaded(c) == pc[c] \in {"json", "register", "writeaccount", "issue"}

AccountInv ==
  ~raced =>
    /\ key = "none" => \A c \in Clusters : pc[c] # "writekey" /\ ~Loaded(c)
    /\ key = "torn" => \A c \in Clusters : pc[c] # "generated" /\ ~Loaded(c)
    /\ key \in Clusters => \A c \in Clusters : ~Generating(c)
    /\ account \in {"none", "torn", key} /\ (key \notin Clusters => account = "none")
    /\ \A c, d \in Clusters : Generating(c) /\ Generating(d) => c = d
    /\ \A c \in Clusters :
         /\ Generating(c) => mine[c] \in Clusters
         /\ Loaded(c) => mine[c] = key
         /\ pc[c] \in {"writeaccount", "issue"} => registered[c] = key

LEMMA AccountInit == Init => AccountInv
  BY PublicAssumption DEF Init, AccountInv, Generating, Loaded

\* A step of c that leaves both files alone.
LEMMA AccountClose ==
  ASSUME AccountInv, Types, NEW c \in Clusters, Others(c), UNCHANGED acme, raced' => raced,
         raced => raced',
         pc'[c] = "generated" => /\ pc[c] = "tls" /\ key = "none" /\ mine'[c] = c
                                 /\ \A d \in Clusters \ {c} : ~raced' => pc[d] # "generated",
         pc'[c] # "writekey",
         Loaded(c)' => key \in Clusters /\ mine'[c] = key,
         pc'[c] \in {"writeaccount", "issue"} => registered'[c] = key
  PROVE  AccountInv'
<1> SUFFICES ASSUME ~raced' PROVE AccountInv'
  BY DEF AccountInv
<1>1. ~raced /\ key' = key /\ account' = account /\ "none" \notin Clusters /\ "torn" \notin Clusters
  BY PublicAssumption DEF acme
<1>2. \A d \in Clusters \ {c} : pc'[d] = pc[d] /\ mine'[d] = mine[d] /\ registered'[d] = registered[d]
  BY DEF Others
<1>3. pc'[c] = "generated" => \A d \in Clusters \ {c} : ~Generating(d)'
  BY <1>1, <1>2 DEF AccountInv, Generating
<1> USE DEF AccountInv, Generating, Loaded
<1>4. key' = "none" => \A d \in Clusters : pc'[d] # "writekey" /\ ~Loaded(d)'
  BY <1>1, <1>2
<1>5. key' = "torn" => \A d \in Clusters : pc'[d] # "generated" /\ ~Loaded(d)'
  BY <1>1, <1>2
<1>6. key' \in Clusters => \A d \in Clusters : ~Generating(d)'
  BY <1>1, <1>2
<1>7. \A d, e \in Clusters : Generating(d)' /\ Generating(e)' => d = e
  BY <1>1, <1>2, <1>3
<1>8. \A d \in Clusters :
         /\ Generating(d)' => mine'[d] \in Clusters
         /\ Loaded(d)' => mine'[d] = key'
         /\ pc'[d] \in {"writeaccount", "issue"} => registered'[d] = key'
  BY <1>1, <1>2
<1>9. QED BY <1>1, <1>4, <1>5, <1>6, <1>7, <1>8
\* A step of c at one of the files, where it is alone: what it may rely on.
LEMMA AccountStep ==
  ASSUME PublicInv, AccountInv, NEW c \in Clusters, Step(c)
  PROVE  AccountInv'
<1>1. Others(c) /\ Types
  BY StepOthers DEF PublicInv
<1>2. pc[c] \in Places /\ mine[c] \in Clusters \cup {"none", "torn"} /\ key \in Clusters \cup {"none", "torn"}
  BY <1>1 DEF Types, SharedTypes, LocalTypes
<1> USE DEF Types, SharedTypes, LocalTypes, Exit, Move, Goto, locals
<1>3. ASSUME UNCHANGED <<acme, raced>>, pc'[c] \in {"idle", "preflight", "upsert", "set", "tls", "delete", "remove", "drop", "forget"}
      PROVE  AccountInv'
  BY <1>1, <1>3, AccountClose DEF Loaded
<1>4. CASE LaunchCreate(c) \/ LaunchDelete(c) \/ Preflight(c) \/ RequestFails(c) \/ Crash(c)
  <2>1. UNCHANGED <<acme, raced>>
    BY <1>4 DEF LaunchCreate, LaunchDelete, Launch, Preflight, RequestFails, Crash, ghosts
  <2>2. pc'[c] \in {"idle", "preflight", "upsert", "set", "tls", "delete", "remove", "drop", "forget"}
    BY <1>1, <1>4 DEF LaunchCreate, LaunchDelete, Launch, Preflight, NextStage, RequestFails, Crash
  <2>3. QED BY <1>3, <2>1, <2>2
<1>5. CASE UpsertStep(c)
  <2>1. UNCHANGED <<acme, raced>>
    BY <1>5 DEF UpsertStep, UpsertNothing, UpsertNop, UpsertRefused, Upsert, SetRecord, Upserted, ghosts
  <2>2. pc'[c] \in {"idle", "set", "tls"}
    BY <1>1, <1>5 DEF UpsertStep, UpsertNothing, UpsertNop, UpsertRefused, Upsert, SetRecord, Upserted
  <2>3. QED BY <1>3, <2>1, <2>2
<1>6. CASE DeleteStep(c)
  <2>1. UNCHANGED <<acme, raced>>
    BY <1>6 DEF DeleteStep, DeleteNothing, DeleteNop, ListRecords, DeleteRecord, NotFound, RollbackFails,
              Drops, RecordsDeleted, Drop, Forget, ghosts
  <2>2. pc'[c] \in {"idle", "remove", "drop", "forget"}
    BY <1>1, <1>6 DEF DeleteStep, DeleteNothing, DeleteNop, ListRecords, DeleteRecord, NotFound, RollbackFails,
              Drops, RecordsDeleted, Drop, Forget
  <2>3. QED BY <1>3, <2>1, <2>2
<1>7. ASSUME NEW n \in Names, RemoveByHand(c, n) PROVE AccountInv'
  BY <1>7 DEF RemoveByHand, AccountInv, Generating, Loaded, acme
<1>8. CASE ACMEStep(c)
  <2>1. CASE raced'
    BY <2>1 DEF AccountInv
  <2>2. CASE ~raced'
    <3>1. ~raced /\ "none" \notin Clusters /\ "torn" \notin Clusters
      BY <1>1, <1>8, <2>2, PublicAssumption
         DEF ACMEStep, ApplyLocal, TokenRequired, EmbedFails, loadOrCreateKey, Generates, Loads, TruncateKey, WriteKey,
             LoadAccount, Register, WriteAccount, Issue, ghosts
    <3>2. CASE ApplyLocal(c) \/ TokenRequired(c) \/ EmbedFails(c) \/ Issue(c)
      <4>1. UNCHANGED <<acme, raced>> /\ pc'[c] = "idle"
        BY <1>1, <3>2 DEF ApplyLocal, Applied, TokenRequired, EmbedFails, Issue, ghosts
      <4>2. QED BY <1>3, <4>1
    <3>3. CASE loadOrCreateKey(c)
      <4>1. CASE key \in Clusters /\ Loads(c)
        <5>1. UNCHANGED <<acme, raced>> /\ pc'[c] = "json" /\ mine'[c] = key
          BY <1>1, <4>1 DEF Loads, ghosts
        <5>2. QED BY <1>1, <4>1, <5>1, AccountClose DEF Loaded
      <4>2. CASE key = "none" /\ Generates(c)
        <5>1. UNCHANGED acme /\ pc'[c] = "generated" /\ mine'[c] = c /\ (raced => raced')
              /\ \A d \in Clusters : pc[d] # "generated"
          BY <1>1, <2>2, <4>2 DEF Generates
        <5>2. pc[c] = "tls"
          BY <3>3 DEF loadOrCreateKey
        <5>3. QED BY <1>1, <2>2, <3>1, <4>2, <5>1, <5>2, AccountClose DEF Loaded
      <4>3. CASE Exit(c) /\ UNCHANGED <<acme, ghosts>>
        BY <1>1, <1>3, <4>3 DEF ghosts
      <4>4. QED BY <3>3, <4>1, <4>2, <4>3 DEF loadOrCreateKey
    <3>4. CASE TruncateKey(c)
      <4>1. /\ key' = "torn" /\ account' = account /\ mine' = mine /\ registered' = registered
            /\ pc[c] = "generated" /\ pc'[c] = "writekey"
        BY <1>1, <3>4 DEF TruncateKey
      <4>2. key = "none" /\ account = "none" /\ \A d \in Clusters \ {c} : ~Generating(d) /\ ~Loaded(d)
        BY <1>2, <3>1, <4>1 DEF AccountInv, Generating
      <4>3. \A d \in Clusters \ {c} : pc'[d] = pc[d]
        BY <1>1 DEF Others
      <4>4. QED BY <3>1, <4>1, <4>2, <4>3 DEF AccountInv, Generating, Loaded
    <3>5. CASE WriteKey(c)
      <4>1. /\ key' = mine[c] /\ account' = account /\ mine' = mine /\ registered' = registered
            /\ pc[c] = "writekey" /\ pc'[c] = "register"
        BY <1>1, <3>5 DEF WriteKey
      <4>2. /\ key = "torn" /\ account = "none" /\ mine[c] \in Clusters
            /\ \A d \in Clusters \ {c} : ~Generating(d) /\ ~Loaded(d)
        BY <1>2, <3>1, <4>1 DEF AccountInv, Generating
      <4>3. \A d \in Clusters \ {c} : pc'[d] = pc[d]
        BY <1>1 DEF Others
      <4>4. QED BY <3>1, <4>1, <4>2, <4>3 DEF AccountInv, Generating, Loaded
    <3>6. CASE LoadAccount(c)
      <4>1. UNCHANGED <<acme, raced>> /\ pc[c] = "json" /\ key \in Clusters /\ mine[c] = key
        <5>1. UNCHANGED <<acme, raced>> /\ pc[c] = "json"
          BY <3>6 DEF LoadAccount, ghosts
        <5>2. QED BY <1>1, <1>2, <3>1, <3>6, <5>1 DEF AccountInv, Loaded, LoadAccount
      <4>2. CASE /\ account \in Clusters /\ Move(c, "issue")
                 /\ registered' = [registered EXCEPT ![c] = account] /\ UNCHANGED mine
        <5>1. account = key
          BY <3>1, <4>2 DEF AccountInv
        <5>2. pc'[c] = "issue" /\ registered'[c] = key /\ mine' = mine
          BY <1>1, <4>2, <5>1
        <5>3. QED BY <1>1, <4>1, <5>2, AccountClose DEF Loaded
      <4>3. CASE Goto(c, "register")
        <5>1. pc'[c] = "register" /\ mine' = mine
          BY <1>1, <4>3
        <5>2. QED BY <1>1, <4>1, <5>1, AccountClose DEF Loaded
      <4>4. CASE Exit(c)
        BY <1>1, <1>3, <4>1, <4>4
      <4>5. QED BY <3>6, <4>2, <4>3, <4>4 DEF LoadAccount
    <3>7. CASE Register(c)
      <4>1. /\ key' = key /\ account' = "torn" /\ mine' = mine /\ registered'[c] = mine[c]
            /\ pc[c] = "register" /\ pc'[c] = "writeaccount"
        BY <1>1, <3>7 DEF Register
      <4>2. key \in Clusters /\ mine[c] = key
        BY <1>2, <3>1, <4>1 DEF AccountInv, Loaded
      <4>3. \A d \in Clusters \ {c} : pc'[d] = pc[d] /\ registered'[d] = registered[d]
        BY <1>1 DEF Others
      <4>4. QED BY <3>1, <4>1, <4>2, <4>3 DEF AccountInv, Generating, Loaded
    <3>8. CASE WriteAccount(c)
      <4>1. /\ key' = key /\ account' = registered[c] /\ mine' = mine /\ registered' = registered
            /\ pc[c] = "writeaccount" /\ pc'[c] = "issue"
        BY <1>1, <3>8 DEF WriteAccount
      <4>2. key \in Clusters /\ registered[c] = key
        BY <1>2, <3>1, <4>1 DEF AccountInv, Loaded
      <4>3. \A d \in Clusters \ {c} : pc'[d] = pc[d]
        BY <1>1 DEF Others
      <4>4. QED BY <3>1, <4>1, <4>2, <4>3 DEF AccountInv, Generating, Loaded
    <3>9. QED BY <1>8, <3>2, <3>3, <3>4, <3>5, <3>6, <3>7, <3>8 DEF ACMEStep
  <2>3. QED BY <2>1, <2>2
<1>9. QED BY <1>4, <1>5, <1>6, <1>7, <1>8 DEF Step

\* No create asks for a certificate with an account that is not its key's, and
\* the two files fit, for any number of creates that are killed or run beside.
THEOREM AccountAlwaysFitsKey == Spec => []AccountFitsKey
<1>1. PublicInv /\ AccountInv /\ [Next]_vars => AccountInv'
  <2> SUFFICES ASSUME PublicInv, AccountInv, [Next]_vars PROVE AccountInv'
    OBVIOUS
  <2>1. ASSUME TruncateToken \/ WriteToken \/ UNCHANGED vars PROVE AccountInv'
    <3>1. UNCHANGED <<acme, pc, mine, registered, raced>>
      BY <2>1 DEF TruncateToken, WriteToken, vars, locals, ghosts
    <3>2. QED BY <3>1 DEF AccountInv, Generating, Loaded, acme
  <2>2. (\E c \in Clusters : Step(c)) \/ TruncateToken \/ WriteToken \/ UNCHANGED vars
    BY DEF Next, Step
  <2>3. QED BY <2>1, <2>2, AccountStep
<1>2. AccountInv => AccountFitsKey
  <2> SUFFICES ASSUME AccountInv, ~raced
               PROVE  /\ key \in Clusters /\ account \in Clusters => account = key
                      /\ \A c \in Clusters : pc[c] = "issue" => registered[c] = mine[c]
    BY DEF AccountFitsKey
  <2>1. QED BY PublicAssumption DEF AccountInv, Loaded
<1>3. QED BY PublicInvariant, AccountInit, <1>1, <1>2, PTL DEF Spec
-----------------------------------------------------------------------------
(* RecordedResolves and NamesFreed.  Between the first record that is set and *)
(* the end of the delete that removes the last, what the zone has is said by  *)
(* the stage, the names left to set or delete, or an exception.               *)

\* The cluster is known to have records.
Keeps(c) == c \in known /\ request[c].provider /\ "upsert-dns" \in recorded[c]

ZoneOK(c) ==
  /\ pc[c] \in {"upsert", "set"} => "upsert-dns" \notin recorded[c]
  /\ left[c] # {} => pc[c] \in {"set", "remove", "drop", "forget"}
  /\ pc[c] = "set" => \/ ~request[c].provider /\ left[c] = {}
                      \/ left[c] = {} /\ "nop" \in trouble[c]
                      \/ "unrecorded" \in trouble[c]
  /\ pc[c] = "set" /\ request[c].provider /\ trouble[c] \cap {"nop", "edited"} = {} =>
       \A n \in Names \ left[c] : records[c][n] = request[c].ip
  /\ pc[c] = "remove" => \A n \in Names \ left[c] : records[c][n] = NoAddr
  /\ pc[c] = "drop" /\ request[c].provider => trouble[c] # {}
  /\ Keeps(c) /\ ~Deleting(c) /\ trouble[c] \cap {"nop", "cut", "edited"} = {} =>
       \A n \in Names : records[c][n] = request[c].ip
  /\ trouble[c] = {} => records[c] = Unset \/ Keeps(c)

ZoneInv == \A c \in Clusters : ZoneOK(c)

LEMMA ZoneInit == Init => ZoneInv
  BY DEF Init, ZoneInv, ZoneOK, Keeps

LEMMA ZoneElsewhere ==
  ASSUME ZoneInv, NEW c \in Clusters, Others(c), ZoneOK(c)'
  PROVE  ZoneInv'
  BY DEF ZoneInv, ZoneOK, Keeps, Deleting, Others

\* A step that ends, or moves between places where nothing is left to do.
LEMMA ZoneIdle ==
  ASSUME NEW c \in Clusters, ZoneOK(c), left'[c] = {},
         pc'[c] \notin {"upsert", "set", "remove", "drop"},
         UNCHANGED <<records[c]>>, Keeps(c)' => Keeps(c) /\ request'[c] = request[c],
         (~Deleting(c) /\ trouble'[c] = trouble[c]) \/ "cut" \in trouble'[c],
         Keeps(c) => Keeps(c)' \/ trouble'[c] # {}
  PROVE  ZoneOK(c)'
  BY DEF ZoneOK, Deleting

\* A step of upsert-dns.
LEMMA ZoneUpsert ==
  ASSUME PublicInv, NEW c \in Clusters, ZoneOK(c), UpsertStep(c)
  PROVE  ZoneOK(c)'
<1> USE DEF PublicInv, Types, SharedTypes, LocalTypes, Exit, Move, Goto, Meets, Recovers, locals, config, zone, ghosts
<1>1. c \in known /\ pc[c] \in {"upsert", "set"} /\ UNCHANGED <<known, request>>
  BY DEF UpsertStep, UpsertNothing, UpsertNop, UpsertRefused, Upsert, SetRecord, Upserted, Registered
<1>2. CASE UpsertNothing(c)
  <2>1. /\ pc[c] = "upsert" /\ pc'[c] = "set" /\ ~request[c].provider
        /\ UNCHANGED <<records, recorded, left, trouble>>
    BY <1>2 DEF UpsertNothing, Asked
  <2>2. QED BY <1>1, <2>1 DEF ZoneOK, Keeps, Deleting
<1>3. CASE UpsertNop(c)
  <2>1. /\ pc[c] = "upsert" /\ pc'[c] = "set" /\ trouble'[c] = trouble[c] \cup {"nop"}
        /\ UNCHANGED <<records, recorded, left>>
    BY <1>3 DEF UpsertNop
  <2>2. QED BY <1>1, <2>1 DEF ZoneOK, Keeps, Deleting
<1>4. CASE UpsertRefused(c)
  <2>1. pc[c] = "upsert" /\ pc'[c] = "idle" /\ left'[c] = {} /\ UNCHANGED <<records, recorded, trouble>>
    BY <1>4 DEF UpsertRefused
  <2>2. QED BY <1>1, <2>1, ZoneIdle DEF Keeps, Deleting
<1>5. CASE Upsert(c)
  <2>1. /\ pc[c] = "upsert" /\ pc'[c] = "set" /\ trouble'[c] = {"unrecorded"} /\ left'[c] = Names
        /\ UNCHANGED <<records, recorded>>
    BY <1>5 DEF Upsert
  <2>2. QED BY <1>1, <2>1 DEF ZoneOK, Keeps, Deleting
<1>6. ASSUME NEW n \in Names, SetRecord(c, n) PROVE ZoneOK(c)'
  <2>1. /\ pc[c] = "set" /\ pc'[c] = "set" /\ n \in left[c] /\ left'[c] = left[c] \ {n}
        /\ records'[c] = [records[c] EXCEPT ![n] = request[c].ip]
        /\ UNCHANGED <<recorded, trouble>>
    BY <1>6 DEF SetRecord, Asked
  <2>2. \A m \in Names : records'[c][m] = IF m = n THEN request[c].ip ELSE records[c][m]
    BY <2>1
  <2>3. trouble[c] # {} /\ "upsert-dns" \notin recorded[c]
    BY <2>1 DEF ZoneOK
  <2>4. request'[c] = request[c]
    BY <1>1
  <2>5. QED BY <2>1, <2>2, <2>3, <2>4 DEF ZoneOK, Keeps, Deleting
<1>7. CASE Upserted(c)
  <2>1. /\ pc[c] = "set" /\ pc'[c] = "tls" /\ left[c] = {}
        /\ recorded'[c] = recorded[c] \cup {"upsert-dns"}
        /\ trouble'[c] = trouble[c] \ IF request[c].provider THEN {"unrecorded"} ELSE {}
        /\ UNCHANGED <<records, left>>
    BY <1>7 DEF Upserted, Asked
  <2>2. request[c].provider \in BOOLEAN /\ request'[c] = request[c] /\ c \in known'
    BY <1>1 DEF Registered, Accepted, Flags
  <2>3. CASE request[c].provider
    BY <1>1, <2>1, <2>2, <2>3 DEF ZoneOK, Keeps, Deleting
  <2>4. CASE ~request[c].provider
    <3>1. trouble'[c] = trouble[c]
      BY <2>1, <2>4
    <3>2. QED BY <1>1, <2>1, <2>2, <2>4, <3>1 DEF ZoneOK, Keeps, Deleting
  <2>5. QED BY <2>2, <2>3, <2>4
<1>8. QED BY <1>2, <1>3, <1>4, <1>5, <1>6, <1>7 DEF UpsertStep

\* A step of a delete's rollback.
LEMMA ZoneDelete ==
  ASSUME PublicInv, NEW c \in Clusters, ZoneOK(c), DeleteStep(c)
  PROVE  ZoneOK(c)'
<1> USE DEF PublicInv, Types, SharedTypes, LocalTypes, Exit, Move, Goto, Meets, Recovers, locals, config, zone, ghosts
<1>1. c \in known /\ pc[c] \in {"delete", "remove", "drop", "forget"}
  BY DEF DeleteStep, DeleteNothing, DeleteNop, ListRecords, DeleteRecord, NotFound, RollbackFails,
         Drops, RecordsDeleted, Drop, Forget, Registered
<1>2. CASE DeleteNothing(c)
  <2>1. /\ pc[c] = "delete" /\ pc'[c] = "drop" /\ ~request[c].provider
        /\ UNCHANGED <<records, known, request, recorded, left, trouble>>
    BY <1>2 DEF DeleteNothing, Asked
  <2>2. QED BY <2>1 DEF ZoneOK, Keeps, Deleting
<1>3. ASSUME pc'[c] = "drop", pc[c] \in {"delete", "remove"}, trouble'[c] = trouble[c] \cup {"kept"},
             UNCHANGED <<records, known, request, recorded, left>>
      PROVE  ZoneOK(c)'
  BY <1>3 DEF ZoneOK, Keeps, Deleting
<1>4. CASE DeleteNop(c) \/ RollbackFails(c) \/ \E n \in Names : NotFound(c, n)
  BY <1>3, <1>4 DEF DeleteNop, RollbackFails, NotFound
<1>5. CASE ListRecords(c)
  <2>1. /\ pc[c] = "delete" /\ pc'[c] = "remove" /\ left'[c] = {n \in Names : records[c][n] # NoAddr}
        /\ UNCHANGED <<records, known, request, recorded, trouble>>
    BY <1>5 DEF ListRecords
  <2>2. QED BY <2>1 DEF ZoneOK, Keeps, Deleting
<1>6. ASSUME NEW n \in Names, DeleteRecord(c, n) PROVE ZoneOK(c)'
  <2>1. /\ pc[c] = "remove" /\ pc'[c] = "remove" /\ left'[c] = left[c] \ {n}
        /\ records[c][n] # NoAddr /\ records'[c] = [records[c] EXCEPT ![n] = NoAddr]
        /\ UNCHANGED <<known, request, recorded, trouble>>
    BY <1>6 DEF DeleteRecord
  <2>2. \A m \in Names : records'[c][m] = IF m = n THEN NoAddr ELSE records[c][m]
    BY <2>1
  <2>3. records[c] # Unset
    BY <2>1 DEF Unset
  <2>4. QED BY <2>1, <2>2, <2>3 DEF ZoneOK, Keeps, Deleting
<1>7. CASE RecordsDeleted(c)
  <2>1. /\ pc[c] = "remove" /\ pc'[c] = "forget" /\ left[c] = {} /\ left' = left
        /\ UNCHANGED <<records, known, request>> /\ recorded'[c] = {} /\ trouble'[c] = {}
    BY <1>7 DEF RecordsDeleted, Drops
  <2>2. records[c] = Unset
    <3>1. \A n \in Names : records[c][n] = NoAddr
      BY <2>1 DEF ZoneOK
    <3>2. QED BY <3>1 DEF Unset
  <2>3. QED BY <2>1, <2>2 DEF ZoneOK, Keeps, Deleting
<1>8. CASE Drop(c)
  <2>1. /\ pc[c] = "drop" /\ pc'[c] = "forget" /\ recorded'[c] = {}
        /\ UNCHANGED <<records, known, request, left, trouble>>
    BY <1>8 DEF Drop, Drops
  <2>2. QED BY <2>1 DEF ZoneOK, Keeps, Deleting
<1>9. CASE Forget(c)
  <2>1. /\ pc[c] = "forget" /\ pc'[c] = "idle" /\ left'[c] = {} /\ recorded[c] = {}
        /\ UNCHANGED <<records, recorded, trouble>>
    BY <1>9 DEF Forget, Registered
  <2>2. QED BY <2>1, ZoneIdle DEF Keeps, Deleting
<1>10. QED BY <1>2, <1>4, <1>5, <1>6, <1>7, <1>8, <1>9 DEF DeleteStep

LEMMA ZoneStep ==
  ASSUME PublicInv, NEW c \in Clusters, ZoneOK(c), Step(c)
  PROVE  ZoneOK(c)'
<1> USE DEF PublicInv, Types, SharedTypes, LocalTypes, Exit, Move, Goto, Meets, locals, config, zone, ghosts
<1>1. CASE LaunchCreate(c)
  <2>1. /\ pc[c] = "idle" /\ pc'[c] = "preflight" /\ left' = left
        /\ UNCHANGED <<records, known, recorded, trouble>> /\ (c \in known => request' = request)
    BY <1>1 DEF LaunchCreate, Launch
  <2>2. left'[c] = {}
    BY <2>1 DEF ZoneOK
  <2>3. QED BY <2>1, <2>2, ZoneIdle DEF Keeps, Deleting
<1>2. CASE LaunchDelete(c)
  <2>1. /\ pc[c] = "idle" /\ pc'[c] \in {"delete", "forget"} /\ left' = left
        /\ UNCHANGED <<records, known, request, trouble>>
        /\ recorded'[c] = recorded[c] \ {"apply-tls-certs"}
    BY <1>2 DEF LaunchDelete, Launch
  <2>2. left'[c] = {}
    BY <2>1 DEF ZoneOK
  <2>3. QED BY <2>1, <2>2, ZoneIdle DEF Keeps, Deleting
<1>3. CASE Preflight(c)
  <2>1. /\ pc[c] = "preflight" /\ left[c] = {} /\ left'[c] = {}
        /\ UNCHANGED <<records, recorded, trouble>> /\ (c \in known => request'[c] = request[c])
    BY <1>3 DEF Preflight, Forgotten, ZoneOK
  <2>2. CASE pc'[c] = "upsert"
    <3>1. "upsert-dns" \notin recorded[c]
      BY <1>3, <2>2 DEF Preflight, NextStage
    <3>2. QED BY <2>1, <2>2, <3>1 DEF ZoneOK, Keeps, Deleting
  <2>3. CASE pc'[c] # "upsert"
    <3>1. pc'[c] \in {"tls", "idle"}
      BY <1>3, <2>3 DEF Preflight, NextStage
    <3>2. c \notin known => recorded[c] = {}
      BY DEF Registered
    <3>3. c \in known => c \in known'
      BY <1>3 DEF Preflight
    <3>4. QED BY <2>1, <3>1, <3>2, <3>3, ZoneIdle DEF Keeps, Deleting
  <2>4. QED BY <2>2, <2>3
<1>4. CASE UpsertStep(c)
  BY <1>4, ZoneUpsert
<1>5. CASE ACMEStep(c)
  <2>1. /\ pc[c] \in {"tls", "generated", "writekey", "json", "register", "writeaccount", "issue"}
        /\ pc'[c] \in {"idle", "generated", "writekey", "json", "register", "writeaccount", "issue"}
    BY <1>5 DEF ACMEStep, Applied, ApplyLocal, TokenRequired, EmbedFails, Generates, Loads, loadOrCreateKey, TruncateKey,
                WriteKey, LoadAccount, Register, WriteAccount, Issue
  <2>2. left[c] = {}
    BY <2>1 DEF ZoneOK
  <2>3. left'[c] = {} /\ UNCHANGED <<records, known, request, trouble>>
    BY <1>5, <2>2 DEF ACMEStep, Applied, ApplyLocal, TokenRequired, EmbedFails, Generates, Loads, loadOrCreateKey, TruncateKey,
                WriteKey, LoadAccount, Register, WriteAccount, Issue
  <2>4. "upsert-dns" \in recorded'[c] <=> "upsert-dns" \in recorded[c]
    BY <1>5 DEF ACMEStep, Applied, ApplyLocal, TokenRequired, EmbedFails, Generates, Loads, loadOrCreateKey, TruncateKey,
                WriteKey, LoadAccount, Register, WriteAccount, Issue
  <2>5. QED BY <2>1, <2>3, <2>4, ZoneIdle DEF Keeps, Deleting
<1>6. CASE RequestFails(c)
  <2>1. /\ pc[c] \in {"set", "register", "issue"} /\ pc'[c] = "idle" /\ left'[c] = {}
        /\ UNCHANGED <<records, known, request, recorded, trouble>>
    BY <1>6 DEF RequestFails
  <2>2. QED BY <2>1, ZoneIdle DEF Keeps, Deleting
<1>7. CASE DeleteStep(c)
  BY <1>7, ZoneDelete
<1>8. CASE Crash(c)
  <2>1. /\ pc'[c] = "idle" /\ left'[c] = {} /\ UNCHANGED <<records, known, recorded>>
        /\ (c \in known => request'[c] = request[c])
    BY <1>8 DEF Crash, Forgotten
  <2>2. (~Deleting(c) /\ trouble'[c] = trouble[c]) \/ "cut" \in trouble'[c]
    BY <1>8 DEF Crash
  <2>3. QED BY <2>1, <2>2, ZoneIdle DEF Keeps
<1>9. ASSUME NEW n \in Names, RemoveByHand(c, n) PROVE ZoneOK(c)'
  <2>1. /\ records'[c] = [records[c] EXCEPT ![n] = NoAddr] /\ trouble'[c] = trouble[c] \cup {"edited"}
        /\ UNCHANGED <<pc, left, known, request, recorded>>
    BY <1>9 DEF RemoveByHand
  <2>2. \A m \in Names : records'[c][m] = IF m = n THEN NoAddr ELSE records[c][m]
    BY <2>1
  <2>3. QED BY <2>1, <2>2 DEF ZoneOK, Keeps, Deleting
<1>10. QED BY <1>1, <1>2, <1>3, <1>4, <1>5, <1>6, <1>7, <1>8, <1>9 DEF Step

LEMMA ZoneInvariant == Spec => []ZoneInv
<1>1. PublicInv /\ ZoneInv /\ [Next]_vars => ZoneInv'
  <2> SUFFICES ASSUME PublicInv, ZoneInv, [Next]_vars PROVE ZoneInv'
    OBVIOUS
  <2>1. ASSUME NEW c \in Clusters, Step(c) PROVE ZoneInv'
    <3>1. ZoneOK(c)
      BY DEF ZoneInv
    <3>2. ZoneOK(c)' /\ Others(c)
      BY <2>1, <3>1, ZoneStep, StepOthers DEF PublicInv
    <3>3. QED BY <3>2, ZoneElsewhere
  <2>2. ASSUME TruncateToken \/ WriteToken \/ UNCHANGED vars PROVE ZoneInv'
    <3>1. UNCHANGED <<records, config, pc, left, trouble>>
      BY <2>2 DEF TruncateToken, WriteToken, vars, zone, locals, ghosts
    <3>2. QED BY <3>1 DEF ZoneInv, ZoneOK, Keeps, Deleting, config
  <2>3. (\E c \in Clusters : Step(c)) \/ TruncateToken \/ WriteToken \/ UNCHANGED vars
    BY DEF Next, Step
  <2>4. QED BY <2>1, <2>2, <2>3
<1>2. QED BY PublicInvariant, ZoneInit, <1>1, PTL DEF Spec

\* When upsert-dns is recorded the cluster's names have its address, with any
\* number of clusters, names, creates and deletes that are cut short or fail.
THEOREM RecordedAlwaysResolve == Spec => []RecordedResolves
<1>1. PublicInv /\ ZoneInv => RecordedResolves
  BY DEF PublicInv, Types, SharedTypes, ZoneInv, ZoneOK, Keeps, RecordedResolves
<1>2. QED BY PublicInvariant, ZoneInvariant, <1>1, PTL

\* A cluster that is gone has left no record behind, unless something said so.
THEOREM NamesAlwaysFreed == Spec => []NamesFreed
<1>1. ZoneInv => NamesFreed
  BY DEF ZoneInv, ZoneOK, Keeps, NamesFreed
<1>2. QED BY ZoneInvariant, <1>1, PTL

=============================================================================
