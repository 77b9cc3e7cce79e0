----------------------------- MODULE ArtifactCache -----------------------------
(***************************************************************************)
(* The artifacts that all clusters of one OpenShift version share:         *)
(* download-binaries, download-rhcos and bake-image-store, with the        *)
(* HTTPDownloader and the image baker under them.                          *)
(*                                                                         *)
(* An artifact is cached when its file is there.  Some are written in      *)
(* place while they are fetched, some are fetched to a temporary file and  *)
(* unpacked from it, and the image store is packed from a directory that   *)
(* survives.  Nothing locks the files: two creates, or a create that is    *)
(* repeated after a failure, meet whatever the other has left.             *)
(*                                                                         *)
(* Every process is one create after another, of clusters that bake        *)
(* images.  Stages that state.json records are not told apart from stages  *)
(* that find their artifacts cached: both leave the files alone.           *)
(***************************************************************************)
EXTENDS Naturals, Sequences, FiniteSets

CONSTANTS
  Procs,      \* easyshift processes
  Darwin,     \* the host boots PXE assets, not a live ISO
  MaxFaults,  \* bound on the calls of each kind that fail
  MaxCrashes, \* bound on creates that are killed
  MaxOverlaps \* bound on creates that are launched while another one runs

Arches == {"x86_64", "aarch64"}

\* The order in which the three stages ask for their artifacts.
Order ==
  IF Darwin
    THEN <<"openshift-install", "oc", "initramfs", "rootfs", "kernel", "store">>
    ELSE <<"openshift-install", "oc", "coreos-installer", "iso", "store">>

Artifacts == {Order[i] : i \in 1..Len(Order)}

\* A process that writes a file is none of the other states of it.
ASSUME CacheAssumption ==
  /\ Darwin \in BOOLEAN
  /\ MaxFaults \in [{"connect", "copy", "local"} -> Nat]
  /\ MaxCrashes \in Nat /\ MaxOverlaps \in Nat
  /\ Procs \cap ({"absent", "whole", "torn"} \cup Artifacts) = {}

Tools == {"openshift-install", "oc", "kernel"} \cap Artifacts

\* Fetched to a temporary file; the two client tarballs have the same one.
Staged == Tools
Temp(f) == IF f = "kernel" THEN "kernel.download" ELSE "_download.tar.gz"
Temps == {Temp(f) : f \in Tools}

VARIABLES
  file,    \* each artifact: absent, whole, torn, or which process is writing it
  temp,    \* each temporary file: absent, torn, a writer, or what it holds
  overlay, \* the architectures whose images are in the baker's store directory
  packed,  \* the architectures the store that was packed last contains
  pc, at,  \* where each process is, and at which artifact of Order
  got,     \* what it has in hand: unpacked from a temporary file, enumerated
  faults, crashes, overlaps

host == <<file, temp, overlay, packed>>
bounds == <<faults, crashes, overlaps>>
vars == <<host, pc, at, got, bounds>>

Init ==
  /\ file = [f \in Artifacts |-> "absent"]
  /\ temp = [t \in Temps |-> "absent"]
  /\ overlay = {} /\ packed = {}
  /\ pc = [p \in Procs |-> "idle"] /\ at = [p \in Procs |-> 1] /\ got = [p \in Procs |-> {}]
  /\ faults = [k \in DOMAIN MaxFaults |-> 0] /\ crashes = 0 /\ overlaps = 0

Cur(p) == Order[at[p]]
Goto(p, l) == pc' = [pc EXCEPT ![p] = l]

\* What p was writing stays as it is when p ends or fails.
Abandoned(F, p) == [f \in DOMAIN F |-> IF F[f] = p THEN "torn" ELSE F[f]]

\* The writer that truncated the file last makes it whole.
Finished(F, p, f, v) == IF F[f] = p THEN [F EXCEPT ![f] = v] ELSE F

Exit(p) ==
  /\ Goto(p, "idle")
  /\ at' = [at EXCEPT ![p] = 1] /\ got' = [got EXCEPT ![p] = {}]

Onward(p) ==
  /\ got' = [got EXCEPT ![p] = {}]
  /\ IF at[p] = Len(Order)
       THEN Goto(p, "use") /\ UNCHANGED at
       ELSE Goto(p, "check") /\ at' = [at EXCEPT ![p] = @ + 1]

Fault(kind) ==
  /\ faults[kind] < MaxFaults[kind] /\ faults' = [faults EXCEPT ![kind] = @ + 1]
  /\ UNCHANGED <<crashes, overlaps>>

-----------------------------------------------------------------------------
(* The check that an artifact is cached *)

LaunchCreate(p) ==
  /\ pc[p] = "idle" /\ Goto(p, "check")
  /\ IF \A q \in Procs : pc[q] = "idle"
       THEN UNCHANGED overlaps
       ELSE overlaps < MaxOverlaps /\ overlaps' = overlaps + 1
  /\ UNCHANGED <<host, at, got, faults, crashes>>

Cached(p) ==
  /\ pc[p] = "check" /\ file[Cur(p)] # "absent"
  /\ Onward(p)
  /\ UNCHANGED <<host, bounds>>

\* Mutant of Missing: the store is baked whether it is there or not.
MissingOrStore(p) ==
  /\ pc[p] = "check" /\ (file[Cur(p)] = "absent" \/ Cur(p) = "store")
  /\ Goto(p, IF Cur(p) = "store" THEN "enumerate"
             ELSE IF Cur(p) \in Staged THEN "spool" ELSE "fetch")
  /\ UNCHANGED <<host, at, got, bounds>>

Missing(p) ==
  /\ pc[p] = "check" /\ file[Cur(p)] = "absent"
  /\ Goto(p, IF Cur(p) = "store" THEN "enumerate"
             ELSE IF Cur(p) \in Staged THEN "spool" ELSE "fetch")
  /\ UNCHANGED <<host, at, got, bounds>>

-----------------------------------------------------------------------------
(* HTTPDownloader.Download, in place *)

\* The response is there: the file is created, or emptied.
Open(p) ==
  /\ pc[p] = "fetch"
  /\ file' = [file EXCEPT ![Cur(p)] = p]
  /\ Goto(p, "copy")
  /\ UNCHANGED <<temp, overlay, packed, at, got, bounds>>

Copied(p) ==
  /\ pc[p] = "copy"
  /\ file' = Finished(file, p, Cur(p), "whole")
  /\ Onward(p)
  /\ UNCHANGED <<temp, overlay, packed, bounds>>

(* Download to the temporary file, then tar or uncompressKernel *)

Spool(p) ==
  /\ pc[p] = "spool"
  /\ temp' = [temp EXCEPT ![Temp(Cur(p))] = p]
  /\ Goto(p, "spooling")
  /\ UNCHANGED <<file, overlay, packed, at, got, bounds>>

Spooled(p) ==
  /\ pc[p] = "spooling"
  /\ temp' = Finished(temp, p, Temp(Cur(p)), Cur(p))
  /\ Goto(p, "unpack")
  /\ UNCHANGED <<file, overlay, packed, at, got, bounds>>

Held(p) == temp[Temp(Cur(p))]

\* The temporary file holds what the last writer fetched.
Unpack(p) ==
  /\ pc[p] = "unpack" /\ Held(p) \in Tools
  /\ file' = [file EXCEPT ![Held(p)] = p]
  /\ got' = [got EXCEPT ![p] = {Held(p)}]
  /\ Goto(p, "unpacking")
  /\ UNCHANGED <<temp, overlay, packed, at, bounds>>

Discard(p) == temp' = [temp EXCEPT ![Temp(Cur(p))] = "absent"]

UnpackRefused(p) ==
  /\ pc[p] = "unpack" /\ Held(p) \notin Tools
  /\ Discard(p) /\ Exit(p)
  /\ UNCHANGED <<file, overlay, packed, bounds>>

Unpacked(p) ==
  /\ pc[p] = "unpacking"
  /\ file' = Finished(file, p, CHOOSE f \in got[p] : TRUE, "whole")
  /\ Discard(p) /\ Onward(p)
  /\ UNCHANGED <<overlay, packed, bounds>>

\* tar meets the end of a tarball that another process is fetching anew; the
\* kernel is in memory by then.
UnpackTorn(p) ==
  /\ pc[p] = "unpacking" /\ Cur(p) # "kernel" /\ Held(p) \notin got[p] \cup {"absent"}
  /\ file' = Abandoned(file, p)
  /\ Discard(p) /\ Exit(p)
  /\ UNCHANGED <<overlay, packed, bounds>>

-----------------------------------------------------------------------------
(* Bake *)

\* An architecture whose release info cannot be had is taken for unpublished.
Enumerate(p) ==
  /\ pc[p] = "enumerate"
  /\ \E lost \in SUBSET Arches :
       /\ IF lost = {} THEN UNCHANGED bounds ELSE Fault("connect")
       /\ IF lost = Arches
            THEN Exit(p)
            ELSE /\ got' = [got EXCEPT ![p] = Arches \ lost]
                 /\ Goto(p, "bake") /\ UNCHANGED at
  /\ UNCHANGED host

\* skopeo adds to the directory, and the old disk is removed.
Bake(p) ==
  /\ pc[p] = "bake"
  /\ overlay' = overlay \cup got[p]
  /\ file' = [file EXCEPT !["store"] = "absent"]
  /\ Goto(p, "pack")
  /\ UNCHANGED <<temp, packed, at, got, bounds>>

Pack(p) ==
  /\ pc[p] = "pack"
  /\ file' = [file EXCEPT !["store"] = p] /\ packed' = overlay
  /\ Goto(p, "copy")
  /\ UNCHANGED <<temp, overlay, at, got, bounds>>

-----------------------------------------------------------------------------
(* Use, failure, crash *)

\* The later stages run the tools, embed into the ISO or serve the PXE assets,
\* and import the store; the cache is left as it is.
Use(p) ==
  /\ pc[p] = "use" /\ Exit(p)
  /\ UNCHANGED <<host, bounds>>

\* Mutant of ConnectFails: the file is created before the status is looked at.
ConnectFailsOpened(p) ==
  /\ pc[p] = "fetch" /\ Fault("connect")
  /\ file' = [file EXCEPT ![Cur(p)] = "torn"]
  /\ Exit(p) /\ UNCHANGED <<temp, overlay, packed>>

\* No connection or no 200: nothing has been written yet.
ConnectFails(p) ==
  /\ pc[p] \in {"fetch", "spool"} /\ Fault("connect")
  /\ Exit(p) /\ UNCHANGED host

\* The body ends early; what was written stays, the temporary file too.
CopyFails(p) ==
  /\ (pc[p] = "copy" /\ Cur(p) # "store") \/ pc[p] = "spooling"
  /\ Fault("copy")
  /\ file' = Abandoned(file, p) /\ temp' = Abandoned(temp, p)
  /\ Exit(p) /\ UNCHANGED <<overlay, packed>>

\* tar, the write of the kernel, skopeo or the packer fails; the packer may
\* remove what it could not finish.
LocalFails(p) ==
  /\ pc[p] \in {"unpacking", "bake"} \/ (pc[p] = "copy" /\ Cur(p) = "store")
  /\ Fault("local")
  /\ \/ file' = Abandoned(file, p)
     \/ pc[p] = "copy" /\ file' = Finished(file, p, "store", "absent")
  /\ IF pc[p] = "unpacking" THEN Discard(p) ELSE UNCHANGED temp
  /\ Exit(p) /\ UNCHANGED <<overlay, packed>>

Crash(p) ==
  /\ pc[p] # "idle" /\ crashes < MaxCrashes /\ crashes' = crashes + 1
  /\ file' = Abandoned(file, p) /\ temp' = Abandoned(temp, p)
  /\ Exit(p) /\ UNCHANGED <<overlay, packed, faults, overlaps>>

Step(p) ==
  \/ Cached(p) \/ Missing(p) \/ Open(p) \/ Copied(p) \/ Use(p)
  \/ Spool(p) \/ Spooled(p) \/ Unpack(p) \/ UnpackRefused(p) \/ Unpacked(p) \/ UnpackTorn(p)
  \/ Enumerate(p) \/ Bake(p) \/ Pack(p)
  \/ ConnectFails(p) \/ CopyFails(p) \/ LocalFails(p)

Next == \E p \in Procs : LaunchCreate(p) \/ Step(p) \/ Crash(p)

Spec == Init /\ [][Next]_vars

\* A create that runs goes on, and a create that failed is repeated.
FairSpec == Spec /\ \A p \in Procs : WF_vars(LaunchCreate(p) \/ Step(p))

-----------------------------------------------------------------------------
(* Properties *)

Whole(f) == file[f] = "whole"

\* No create was killed while it wrote, none ran next to another one, and
\* nothing failed but requests that got no answer, and the calls of kind k.
Spared(k) ==
  /\ crashes = 0 /\ overlaps = 0
  /\ \A other \in {"copy", "local"} \ {k} : faults[other] = 0

\* Some create uses what it found in the cache, or brought there.
InUse == \E p \in Procs : pc[p] = "use"

\* What a create gets past the stages of the cache with is whole (stage.go:
\* "Apply must tolerate retry after a partial failure"), and the store serves
\* one architecture at least.  A tool that is fetched to a temporary file
\* (downloadTarball, downloadKernel) tolerates downloads that broke off; one in
\* place is then taken for cached, and tolerates requests without an answer.
UsesWhole ==
  InUse =>
    /\ Spared("copy") => \A f \in Tools : Whole(f)
    /\ Spared("connect") => packed # {} /\ \A f \in Artifacts : Whole(f)

\* A create that is repeated gets all its artifacts in the end, and none of
\* them is fetched again (usage.md: create is "idempotent and resumable").
RetriesGetThrough ==
  []Spared("connect") => <>[](\A f \in Artifacts : Whole(f))
=============================================================================
