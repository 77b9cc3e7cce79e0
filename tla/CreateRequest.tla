----------------------------- MODULE CreateRequest -----------------------------
(***************************************************************************)
(* What `easyshift create` makes of its flags before it does anything:     *)
(* applyDefaults, then validateNew (app/manager.go), with the network      *)
(* arithmetic of config/cluster.go and the disk arithmetic of install-odf. *)
(*                                                                         *)
(* A request is a record of flags.  Of an IPv4 address only the last byte  *)
(* is kept, all of them being in one /24; a CIDR has the last byte of its  *)
(* network address, after the mask, and how many addresses of the /24 are  *)
(* in it.  NoAddr stands for an empty flag, Invalid for one that does not  *)
(* parse, IPv6 for an address of that kind.                                *)
(***************************************************************************)
EXTENDS Integers

NoAddr == -1
Invalid == -2
IPv6 == -3

DefaultClustersMax == 3
defaultMasterCPUs == 4
defaultODFDiskGB == 100
odfMinCPUs == 8
odfMinRAMMiB == 24576

MagicServices == {"sslip.io", "nip.io"}

NoCIDR == [base |-> NoAddr, size |-> 0]

\* What a user may pass; "host" and "xip.io" stand for any word the program does
\* not know, "own" for any domain, "other" for a zone that is no parent of it.
Addresses == 0..255 \cup {NoAddr, Invalid, IPv6}
Networks == {n \in [base : 0..255, size : {1, 2, 4, 8, 16, 32, 64, 128, 256}] : n.base % n.size = 0}
CIDRs == Networks \cup [base : {NoAddr, Invalid, IPv6}, size : {0}]
Flags ==
  [mode : {"", "nat", "bridge", "host"},
   magic : {"", "auto", "off", "xip.io"} \cup MagicServices, domain : {"", "own", "local"},
   provider : BOOLEAN, zone : {"", "parent", "other"}, email : BOOLEAN,
   bridge : BOOLEAN, mac : {"", "valid", "invalid"},
   ip : Addresses, cidr : CIDRs, gateway : Addresses,
   masters : Int, workers : Int, odf : BOOLEAN, disk : Int, cpus : Int, ram : Int]

-----------------------------------------------------------------------------
(* config/cluster.go *)

ValidateIP(a) == a \in 0..255 \/ a = IPv6

\* The /24 of an IPv4 address; for anything else an error, and no CIDR.
DeriveMachineCIDR(a) == IF a \in 0..255 THEN [base |-> 0, size |-> 256] ELSE NoCIDR

\* The last byte is incremented, without a carry.
DeriveGateway(cidr) == IF cidr.base \in 0..255 THEN (cidr.base + 1) % 256 ELSE NoAddr

\* The keyfile that pins the master falls back to the derived gateway, and
\* fails when there is none.  In NAT mode allocate-network has filled it in.
KeyfileFails(r) ==
  r.mode = "bridge" /\ \/ r.cidr.base = Invalid
                       \/ r.gateway = NoAddr /\ DeriveGateway(r.cidr) = NoAddr

-----------------------------------------------------------------------------
(* applyDefaults *)

resolveMagicDNS(r) ==
  IF r.magic \in {"", "auto"}
    THEN [r EXCEPT !.magic = IF r.mode = "nat" /\ r.domain = "" THEN "sslip.io" ELSE ""]
    ELSE [r EXCEPT !.magic = IF @ = "off" THEN "" ELSE @]

AtLeast(n, low) == IF n < low THEN low ELSE n

ODFDefaults(r) ==
  IF ~r.odf THEN r
    ELSE [r EXCEPT !.cpus = AtLeast(@, odfMinCPUs), !.ram = AtLeast(@, odfMinRAMMiB),
                   !.disk = IF @ = 0 THEN defaultODFDiskGB ELSE @]

NetworkDefaults(r) ==
  LET cidr == IF r.cidr = NoCIDR THEN DeriveMachineCIDR(r.ip) ELSE r.cidr
  IN IF r.mode # "bridge" THEN r
       ELSE [r EXCEPT !.cidr = cidr,
                      !.gateway = IF @ = NoAddr THEN DeriveGateway(cidr) ELSE @]

\* The mode goes first, as --magic-dns depends on it, and the magic domain is
\* left to allocate-network.
applyDefaults(r) ==
  LET m == resolveMagicDNS([r EXCEPT !.mode = IF @ = "" THEN "nat" ELSE @])
      d == [m EXCEPT !.domain = IF m.magic = "" /\ @ = "" THEN "local" ELSE @,
                     !.cpus = IF @ = 0 THEN defaultMasterCPUs ELSE @]
  IN NetworkDefaults(ODFDefaults(d))

-----------------------------------------------------------------------------
(* validateNew *)

ValidNames(r) ==
  /\ r.magic \in MagicServices \cup {""}
  /\ r.magic # "" => ~r.provider /\ r.domain = ""

ValidNAT(r) == ~r.bridge /\ r.mac = "" /\ r.ip = NoAddr /\ r.cidr = NoCIDR /\ r.gateway = NoAddr

ValidBridge(r) ==
  /\ r.bridge /\ r.mac = "valid" /\ ValidateIP(r.ip)
  /\ r.cidr # NoCIDR /\ r.cidr.base # Invalid
  /\ r.gateway = NoAddr \/ ValidateIP(r.gateway)

\* Mutant of ValidODF: nothing is deducted from the third.
ValidThird(r) ==
  /\ ~r.odf => r.disk = 0
  /\ r.odf /\ r.disk # 0 => r.disk >= 3

ValidODF(r) ==
  /\ ~r.odf => r.disk = 0
  /\ r.odf /\ r.disk # 0 => r.disk >= 12

\* Next to n clusters that are there.
validateNew(r, n) ==
  /\ n < DefaultClustersMax
  /\ ValidNames(r)
  /\ r.masters = 1 /\ r.workers = 0
  /\ r.mode = "nat" => ValidNAT(r)
  /\ r.mode = "bridge" => ValidBridge(r)
  /\ r.mode \in {"nat", "bridge"}
  /\ ValidODF(r)

-----------------------------------------------------------------------------
(* What later stages compute from it *)

\* install-odf: the volume of each of the three OSDs, in GiB.
DataPVCSizeGi(r) == r.disk \div 3 - 3

\* upsert-dns: the zone is a parent of the cluster's name (r.zone says how the
\* given one relates), and there is an address to point it at.
DNSZoneOrDomain(r) == IF r.zone = "" THEN "parent" ELSE r.zone
clusterRecords(r) == ValidateIP(r.ip) /\ DNSZoneOrDomain(r) = "parent"

-----------------------------------------------------------------------------
(* Properties *)

\* What the stages count on: the cluster's name is found in one way and not in
\* two; there is an address to publish, in a zone that has the name; the keyfile
\* can be written; the master and its gateway are two addresses of its network;
\* and ODF has its resources, down to a data volume that is not empty ("a third of
\* it, minus overhead, becomes the per-OSD volume").
NamedOnce(r) == (r.magic = "" <=> r.domain # "") /\ ~(r.provider /\ r.magic # "")
Publishable(r) == r.provider => clusterRecords(r)
Pinnable(r) == ~KeyfileFails(r)

Hosts(cidr) == cidr.base .. (cidr.base + cidr.size - 1)
Routed(r) == r.mode = "bridge" /\ r.cidr \in Networks
               => {r.ip, r.gateway} \subseteq Hosts(r.cidr) /\ r.ip # r.gateway

Equipped(r) ==
  r.odf => /\ r.cpus >= odfMinCPUs /\ r.ram >= odfMinRAMMiB
           /\ DataPVCSizeGi(r) >= 1 /\ 3 * (DataPVCSizeGi(r) + 3) <= r.disk

\* What validateNew lets through all the same: a provider in NAT mode, where the
\* address is not known, or with a zone of another domain; an IPv6 network and no
\* gateway; and, as addresses are parsed and never compared, a master or a
\* gateway outside of the network that the user gave, a network of one address,
\* behind which the derived gateway falls or wraps, and a master that is at its
\* own gateway.
Unpublishable(r) == r.mode = "nat" \/ r.zone = "other"
Unpinnable(r) == r.cidr.base = IPv6 /\ r.gateway = NoAddr
Misrouted(r) ==
  \/ r.ip \notin Hosts(r.cidr) /\ r.cidr # DeriveMachineCIDR(r.ip)
  \/ r.gateway \notin Hosts(r.cidr) /\ (r.gateway # DeriveGateway(r.cidr) \/ r.cidr.size = 1)
  \/ r.ip = r.gateway

\* A request that was accepted can be built but for these.
Buildable(r) ==
  /\ NamedOnce(r) /\ Equipped(r)
  /\ Publishable(r) \/ Unpublishable(r)
  /\ Pinnable(r) \/ Unpinnable(r)
  /\ Routed(r) \/ Misrouted(r)
=============================================================================
