----------------------------- MODULE MCPublicNames -----------------------------
(* Two clusters on a LAN behind a DNS provider, with certificates or ODF, and *)
(* requests that cannot work, or are refused.                                 *)
EXTENDS PublicNames

CONSTANTS a, b, none

OnLAN == [mode |-> "bridge", magic |-> "auto", domain |-> "own", provider |-> TRUE, zone |-> "",
          email |-> TRUE, bridge |-> TRUE, mac |-> "valid", ip |-> 50, cidr |-> NoCIDR,
          gateway |-> NoAddr, masters |-> 1, workers |-> 0, odf |-> FALSE, disk |-> 0,
          cpus |-> 0, ram |-> 32768]
WithODF == [OnLAN EXCEPT !.ip = 51, !.email = FALSE, !.odf = TRUE, !.disk = 12]
InNAT == [OnLAN EXCEPT !.mode = "", !.bridge = FALSE, !.mac = "", !.ip = NoAddr, !.email = FALSE]

Refused ==
  { [WithODF EXCEPT !.disk = 11], [OnLAN EXCEPT !.disk = 50],
    [OnLAN EXCEPT !.magic = "nip.io"], [OnLAN EXCEPT !.magic = "xip.io", !.domain = ""],
    [OnLAN EXCEPT !.ip = IPv6], [OnLAN EXCEPT !.ip = Invalid], [OnLAN EXCEPT !.gateway = Invalid],
    [OnLAN EXCEPT !.workers = 1], [OnLAN EXCEPT !.mode = "host"],
    [InNAT EXCEPT !.ip = 50], [InNAT EXCEPT !.magic = "sslip.io"] }

\* Accepted, and not to be built: upsert-dns refuses the first two, the keyfile
\* the third; the last ones have no gateway in their network.
Overlooked ==
  { InNAT, [OnLAN EXCEPT !.zone = "other"],
    [OnLAN EXCEPT !.ip = IPv6, !.cidr = [base |-> IPv6, size |-> 0]],
    [OnLAN EXCEPT !.cidr = [base |-> 255, size |-> 1]],
    [OnLAN EXCEPT !.cidr = [base |-> 48, size |-> 16], !.gateway = 1],
    [OnLAN EXCEPT !.ip = 1] }

UserRequests ==
  [c \in Clusters |->
     Refused \cup
     IF c = a
       THEN Overlooked \cup
            { OnLAN, WithODF, [OnLAN EXCEPT !.cidr = [base |-> 48, size |-> 16]],
              [InNAT EXCEPT !.provider = FALSE, !.domain = ""] }
       ELSE { OnLAN } ]
=============================================================================
