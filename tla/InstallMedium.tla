----------------------------- MODULE InstallMedium -----------------------------
(***************************************************************************)
(* What a cluster's VM boots to be installed: generate-ssh-key,            *)
(* generate-ignition, and embed-ignition-iso (or publish-pxe-assets on     *)
(* macOS), with the OpenShiftInstaller under them.                         *)
(*                                                                         *)
(* One ignition passes through all of it.  openshift-install renders it    *)
(* from the install config and the manifests; what a baked image store     *)
(* needs is a manifest for the installed node and an edit of the rendered  *)
(* file for the live system; a keyfile pins the address.  Any call may     *)
(* fail and any create may be killed; the next one starts with the stage   *)
(* that is not recorded, and finds the files the last one left.  What it   *)
(* does not find is the kernel command line of macOS, which names the      *)
(* served ignition and which publish-pxe-assets sets in memory only.       *)
(***************************************************************************)
EXTENDS Naturals

CONSTANTS
  MaxMediumFaults,  \* bound on failing calls
  MaxMediumCrashes  \* bound on creates that are killed

ASSUME MediumAssumption == MaxMediumFaults \in Nat /\ MaxMediumCrashes \in Nat

VARIABLES
  darwin,   \* the host boots PXE assets, not a live ISO
  bake,     \* the cluster uses a baked image store
  keys,     \* the files of the ssh key pair: private, public
  made,     \* openshift-install has the state of `create manifests`
  store,    \* the manifest of the store is in openshift/
  ign,      \* bootstrap-in-place-for-live-iso.ign
  iso,      \* the cluster's ISO; on macOS the ignition the file server serves
  medium,   \* what the VM boots: the volume in the pool; on macOS iso itself
  bootArgs, \* InstallKernelCmdline in the create's copy of the config is set
  stranded, \* on macOS a create ended with the medium recorded and no VM
  applied,  \* how many of the three stages state.json lists
  step, mediumFaults, mediumCrashes

given == <<darwin, bake>>
context == <<given, bootArgs, stranded>>
files == <<keys, made, store, ign, iso, medium>>
mediumBounds == <<mediumFaults, mediumCrashes>>
mediumVars == <<context, files, applied, step, mediumBounds>>

\* An ignition, or the medium it is in: how often the live system's part of the
\* store was merged into it (two stands for more than once), whether it wires the
\* installed node to the store, and whether it pins the address.
Ignitions == [st : {"absent", "torn", "whole"}, live : 0..2, installed : BOOLEAN, static : BOOLEAN]
Absent == [st |-> "absent", live |-> 0, installed |-> FALSE, static |-> FALSE]
Again(n) == IF n = 0 THEN 1 ELSE 2
Torn(f) == [f EXCEPT !.st = "torn"]
Complete(f) == [f EXCEPT !.st = "whole"]

MediumInit ==
  /\ darwin \in BOOLEAN /\ bake \in BOOLEAN
  /\ keys = {} /\ made = FALSE /\ store = FALSE
  /\ ign = Absent /\ iso = Absent /\ medium = Absent
  /\ bootArgs = FALSE /\ stranded = FALSE
  /\ applied = 0 /\ step = "idle" /\ mediumFaults = 0 /\ mediumCrashes = 0

\* Each stage's first step, and what follows the three.
FirstStep == <<"key", "readkey", IF darwin THEN "publish" ELSE "merge", "create">>

\* A new process has the command line of config.json, where nothing saved it.
MakeMedium ==
  /\ step = "idle" /\ step' = FirstStep[applied + 1] /\ bootArgs' = FALSE
  /\ UNCHANGED <<given, stranded, files, applied, mediumBounds>>

\* The stage is recorded, and the next one begins.
Record ==
  /\ step = "record" /\ applied' = applied + 1 /\ step' = FirstStep[applied' + 1]
  /\ UNCHANGED <<context, files, mediumBounds>>

\* create-network and create-master-vms: on macOS with the command line there is.
CreateVM ==
  /\ step = "create" /\ step' = "boot"
  /\ UNCHANGED <<context, files, applied, mediumBounds>>

-----------------------------------------------------------------------------
(* generate-ssh-key *)

KeyThere ==
  /\ step = "key" /\ "private" \in keys /\ step' = "record"
  /\ UNCHANGED <<context, files, applied, mediumBounds>>

\* ssh-keygen writes the private key first.
WritePrivateKey ==
  /\ step = "key" /\ keys = {} /\ keys' = {"private"} /\ step' = "pub"
  /\ UNCHANGED <<context, made, store, ign, iso, medium, applied, mediumBounds>>

WritePublicKey ==
  /\ step = "pub" /\ keys' = keys \cup {"public"} /\ step' = "record"
  /\ UNCHANGED <<context, made, store, ign, iso, medium, applied, mediumBounds>>

-----------------------------------------------------------------------------
(* generate-ignition *)

\* The install config is written anew, whatever is left of an earlier one.
ReadPublicKey ==
  /\ step = "readkey" /\ "public" \in keys
  /\ step' = IF darwin \/ bake THEN "manifests" ELSE "ignition"
  /\ UNCHANGED <<context, files, applied, mediumBounds>>

NoPublicKey ==
  /\ step = "readkey" /\ "public" \notin keys /\ step' = "idle"
  /\ UNCHANGED <<context, files, applied, mediumBounds>>

\* Mutant of CreateManifests: the manifest is put into openshift/ right away.
SkipManifests ==
  /\ step = "manifests" /\ UNCHANGED made
  /\ step' = IF bake THEN "store" ELSE "ignition"
  /\ UNCHANGED <<context, keys, store, ign, iso, medium, applied, mediumBounds>>

CreateManifests ==
  /\ step = "manifests" /\ made' = TRUE
  /\ step' = IF bake THEN "store" ELSE "ignition"
  /\ UNCHANGED <<context, keys, store, ign, iso, medium, applied, mediumBounds>>

WriteImageStoreManifest ==
  /\ step = "store" /\ store' = TRUE /\ step' = "ignition"
  /\ UNCHANGED <<context, keys, made, ign, iso, medium, applied, mediumBounds>>

\* "Extra manifests are only rendered into the ignition if create manifests ran
\* first".
CreateSingleNodeIgnition ==
  /\ step = "ignition" /\ step' = "record"
  /\ ign' = Complete([Absent EXCEPT !.installed = made /\ store])
  /\ UNCHANGED <<context, keys, made, store, iso, medium, applied, mediumBounds>>

-----------------------------------------------------------------------------
(* embed-ignition-iso *)

SkipMerge ==
  /\ step = "merge" /\ ~bake /\ step' = "embed"
  /\ UNCHANGED <<context, files, applied, mediumBounds>>

\* MergeImageStoreIntoLiveISOIgnition rewrites the file: read, emptied, written.
Merge ==
  /\ step = "merge" /\ bake /\ ign.st = "whole"
  /\ ign' = Torn(ign) /\ step' = "merged"
  /\ UNCHANGED <<context, keys, made, store, iso, medium, applied, mediumBounds>>

MergeRefused ==
  /\ step = "merge" /\ bake /\ ign.st # "whole" /\ step' = "idle"
  /\ UNCHANGED <<context, files, applied, mediumBounds>>

Merged ==
  /\ step = "merged" /\ step' = "embed"
  /\ ign' = Complete([ign EXCEPT !.live = Again(@)])
  /\ UNCHANGED <<context, keys, made, store, iso, medium, applied, mediumBounds>>

\* The ISO is made from the one in the cache.
EmbedIgnition ==
  /\ step = "embed" /\ iso' = ign /\ step' = "keyfile"
  /\ UNCHANGED <<context, keys, made, store, ign, medium, applied, mediumBounds>>

EmbedKeyfile ==
  /\ step = "keyfile" /\ iso' = [iso EXCEPT !.static = TRUE] /\ step' = "import"
  /\ UNCHANGED <<context, keys, made, store, ign, medium, applied, mediumBounds>>

\* Mutant of ImportISO: no vol-delete, and vol-create-as fails on a volume.
ImportAnew ==
  /\ step = "import"
  /\ IF medium.st = "absent"
       THEN medium' = Torn(iso) /\ step' = "upload"
       ELSE UNCHANGED medium /\ step' = "idle"
  /\ UNCHANGED <<context, keys, made, store, ign, iso, applied, mediumBounds>>

\* A stale volume is deleted, and a new one created.
ImportISO ==
  /\ step = "import" /\ medium' = Torn(iso) /\ step' = "upload"
  /\ UNCHANGED <<context, keys, made, store, ign, iso, applied, mediumBounds>>

Upload ==
  /\ step = "upload" /\ medium' = iso /\ step' = "record"
  /\ UNCHANGED <<context, keys, made, store, ign, iso, applied, mediumBounds>>

-----------------------------------------------------------------------------
(* publish-pxe-assets *)

\* The served copy is written anew, with the keyfile in it.
Publish ==
  /\ step = "publish" /\ step' = "published"
  /\ iso' = Torn([ign EXCEPT !.static = TRUE]) /\ medium' = iso'
  /\ UNCHANGED <<context, keys, made, store, ign, applied, mediumBounds>>

Published ==
  /\ step = "published" /\ iso' = Complete(iso) /\ medium' = iso'
  /\ IF bake THEN step' = "mergeserved" /\ UNCHANGED bootArgs
             ELSE step' = "record" /\ bootArgs' = TRUE
  /\ UNCHANGED <<given, stranded, keys, made, store, ign, applied, mediumBounds>>

MergeServed ==
  /\ step = "mergeserved" /\ iso' = Torn(iso) /\ medium' = iso' /\ step' = "servedmerged"
  /\ UNCHANGED <<context, keys, made, store, ign, applied, mediumBounds>>

ServedMerged ==
  /\ step = "servedmerged" /\ step' = "record" /\ bootArgs' = TRUE
  /\ iso' = Complete([iso EXCEPT !.live = Again(@)]) /\ medium' = iso'
  /\ UNCHANGED <<given, stranded, keys, made, store, ign, applied, mediumBounds>>

-----------------------------------------------------------------------------

Ends ==
  /\ step' = "idle" /\ stranded' = (stranded \/ (darwin /\ step = "create"))
  /\ UNCHANGED <<given, bootArgs, files, applied>>

\* ssh-keygen, openshift-install, coreos-installer, virsh or a stage that follows
\* fails.  In the middle of writing its files a create can only be killed.
Fails ==
  /\ step \notin {"idle", "boot", "pub", "merged", "published", "servedmerged", "record"}
  /\ mediumFaults < MaxMediumFaults /\ mediumFaults' = mediumFaults + 1
  /\ Ends /\ UNCHANGED mediumCrashes

MediumCrash ==
  /\ step \notin {"idle", "boot"}
  /\ mediumCrashes < MaxMediumCrashes /\ mediumCrashes' = mediumCrashes + 1
  /\ Ends /\ UNCHANGED mediumFaults

KeyStep == KeyThere \/ WritePrivateKey \/ WritePublicKey
IgnitionStep ==
  \/ ReadPublicKey \/ NoPublicKey \/ CreateManifests
  \/ WriteImageStoreManifest \/ CreateSingleNodeIgnition
EmbedStep ==
  \/ SkipMerge \/ Merge \/ MergeRefused \/ Merged
  \/ EmbedIgnition \/ EmbedKeyfile \/ ImportISO \/ Upload
PublishStep == Publish \/ Published \/ MergeServed \/ ServedMerged

MediumStep == KeyStep \/ IgnitionStep \/ EmbedStep \/ PublishStep \/ Record \/ CreateVM

MediumNext == MakeMedium \/ MediumStep \/ Fails \/ MediumCrash

MediumSpec == MediumInit /\ [][MediumNext]_mediumVars

\* A create goes on, and one that failed or was killed is repeated.
FairMediumSpec == MediumSpec /\ WF_mediumVars(MakeMedium \/ MediumStep)

-----------------------------------------------------------------------------
(* Properties *)

TypeOK ==
  /\ darwin \in BOOLEAN /\ bake \in BOOLEAN
  /\ keys \subseteq {"private", "public"} /\ made \in BOOLEAN /\ store \in BOOLEAN
  /\ ign \in Ignitions /\ iso \in Ignitions /\ medium \in Ignitions
  /\ bootArgs \in BOOLEAN /\ stranded \in BOOLEAN /\ applied \in 0..3
  /\ mediumFaults \in 0..MaxMediumFaults /\ mediumCrashes \in 0..MaxMediumCrashes
  /\ step \in {"idle", "key", "pub", "readkey", "manifests", "store", "ignition", "merge",
             "merged", "embed", "keyfile", "import", "upload", "publish", "published",
             "mergeserved", "servedmerged", "record", "create", "boot"}

\* The VM that is created boots a whole medium that pins its address, and in
\* which both phases of the install use the store exactly when there is one,
\* after any failures and kills before.  On macOS its kernel has the command line
\* that names the medium, unless a create ended between the record of
\* publish-pxe-assets and the VM.
BootsWired ==
  step = "boot" =>
    /\ medium.st = "whole" /\ medium.static
    /\ medium.installed = bake /\ (medium.live > 0) = bake
    /\ darwin /\ ~stranded => bootArgs

\* A create that is repeated after calls that fail gets its medium.  One that
\* is killed may leave a private key without its public one, or an ignition
\* that is cut short, and every create after it stops there.
MediumGetsMade == <>(step = "boot" \/ mediumCrashes > 0)
=============================================================================
