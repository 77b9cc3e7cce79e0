# easyshift in TLA+

`easyshift` builds, starts, stops and deletes single-node OpenShift clusters on
one workstation: on Linux as libvirt domains, on macOS as vfkit VMs. It is a
command-line program without a daemon. Every command is a process that reads a
few files, calls a dozen external programs and writes the files back; what has
to be right is what is *left* when such a process is killed, fails half way, is
repeated, or runs next to another one.

This directory holds models of that: TLA+ modules translated from the Go code
under `src/`, TLC configurations that check them on small instances, and TLAPS
proofs of what matters most for instances of any size. `PROJECT.json` maps every
definition to the lines it translates, lists the runs, and for every checked
property a *mutant* of the code that breaks it.

- [The system](#the-system)
- [Plan](#plan)
- [Modules and the code](#modules-and-the-code)
- [Runs](#runs)
- [Premises](#premises-and-the-behaviour-behind-each)
- [Bounds](#bounds) and [fairness](#fairness)
- [Proofs](#proofs)
- [What is not modelled](#what-is-not-modelled)

To check a run: `tlc -config NATReset.cfg MCNATReset`; the module of a run is `MC`
and the run's name, and `MCClusterManager` for `ViolationCreateStopped`. To check
the proofs: `tlapm X.tla` for each module `*Proofs.tla`.

## The system

### Components, their state and their operations

| component | keeps | operations |
|---|---|---|
| `ClusterManager` (`app/manager.go`) | `config.json`: the clusters, their records, `GlobalState.UsedIPs` | Create, Start, Stop, Delete |
| `Runner` (`app/runner.go`) | `clusters/<name>/state.json`: the stages applied | Apply, Rollback over the pipeline |
| stages (`stages/*`) | their effects: see below | Apply, Rollback, each idempotent by intent |
| NAT reset (`app/natreset.go`) | – | Plan, Apply: takes down and restores the shared network |
| libvirt (`providers/libvirt`) | domains, storage volumes, the one NAT network and its DHCP reservations | Create/Start/Stop/Delete VM, ImportISO, EnsureNATNetwork, AddHost, RemoveHost, Recreate |
| vfkit (`providers/vfkit`, `providers/vmnethelper`) | `phase`, `spec.json`, `disk.img`, `vfkit.pid`, `console.log`, a process per VM and its network sidecar | Create, Start, Stop, Delete, the install-reboot watcher |
| artifact cache (`stages/downloadbinaries`, `downloadrhcos`, `bakeimagestore`, `providers/exec`, `providers/openshift/baker.go`) | files per version shared by all clusters | download, unpack, enumerate, bake, pack |
| boot medium (`stages/generatesshkey`, `generateignition`, `embedignitioniso`, `publishpxeassets`, `providers/openshift`) | key pair, manifests, ignition, ISO or served copy | one writer after the other |
| local CA (`providers/localca`, `stages/applytlscerts`, `cmd/easyshift/trust_flow.go`) | `ca.crt`, `ca.key`, leaf certificates, the anchor and the system's trust store made of the anchors, the trusted marker | LoadOrCreate, IssueLeaf, publish, trust, untrust |
| kubeconfig (`stages/mergekubeconfig`) | entries and current context of the user's kubeconfig, the chosen file in `config.json` | Apply, Rollback |
| ODF (`stages/installodf`, `providers/odf`) | objects on the cluster | four phases of apply and wait |
| start convergence (`app/converge.go`) | – | wait for the API, approve CSRs in a goroutine, poll |
| verify-master-ip (`stages/verifymasterip`, `providers/host`) | – | connect, look the MAC up in the host's ARP table, confirm |
| wait-for-install (`stages/waitforinstall`, `providers/host/hostname.go`) | the VM's power, the guest's hostname | three windows of the installer's wait; approver, hostname injector and watchdog beside it |
| requests (`app/manager.go`: `applyDefaults`, `validateNew`; `config/cluster.go`) | the record of a cluster | defaults, validation, network and disk arithmetic |
| public names (`providers/dns`, `providers/tls`, `stages/upsertdns`, `stages/applytlscerts`, `app/deps.go`) | the provider's token, A records in a public zone, the ACME account's `account.key` and `account.json` | `dns set`, Upsert, Delete, NewIssuer, Issue |
| pull secret (`config/pullsecret.go`, `providers/redhat`, `cmd/easyshift/pullsecret_flow.go`) | one file | set, device login, preflight, read |
| status, file server, summary, fakes | – | see [What is not modelled](#what-is-not-modelled) |

### How they interact

`buildStages` fixes one order, which the Runner walks forward on create and
backward on delete:

    register-cluster, allocate-network, upsert-dns, ensure-cluster-dir,
    download-binaries, download-rhcos, bake-image-store, generate-ssh-key,
    generate-ignition, embed-ignition-iso (macOS: publish-pxe-assets),
    create-network, create-master-vms, verify-master-ip, wait-for-install,
    apply-tls-certs, merge-kubeconfig, install-odf, finalize

After each stage the Runner writes `state.json`; a later create skips what is
recorded there. A command loads `config.json` once and works on that copy;
every `Save` writes the whole copy. Nothing is locked. What two commands, or a
command and an earlier one that was cut short, have in common is therefore:
`config.json` and each `state.json`, the NAT pool (`NetworkStart` 5 to
`NetworkEnd` 20) and the one libvirt network of all NAT clusters, the artifact
cache, the kubeconfig, the CA, the pull secret, the DNS token and zone, the
ACME account, and on macOS the VM's own files. `DefaultClustersMax` is 3.

Inside one process there are goroutines with a life of their own: the CSR
approver of `start` and of `wait-for-install`, the install watchdog, the
hostname injector and, on macOS, the install-reboot watcher, which the first
launch starts and nobody joins.

### What is hard, and what makes each part correct

| part | hard because | correct if |
|---|---|---|
| lifecycle | killed between an effect and its record, or inside the write of one; commands in any order on a cluster in any state; copies of `config.json` overwriting each other | what `state.json` records is a prefix of the pipeline and in effect; no address has two owners; what is shown running has a VM; create and delete complete; delete leaves nothing |
| NAT reset | it recreates a network that all clusters share from a plan made earlier | afterwards no allocation or reservation is an orphan, every surviving cluster has its reservation, no network is taken from a running cluster |
| vfkit | four threads launch one VM without a lock | the EFI phase boots an installed disk, an installed disk is booted, a VM that is off during an install comes back |
| cache | a file that exists counts as cached, some are written in place | what a create uses is whole; retries get there |
| boot medium | stages edit files of earlier stages, and are applied again | the VM boots a whole medium that pins the address and is wired to the store, with a command line that names it |
| CA | two files, three reads in one create, no lock; trust store and marker change one after the other | one CA; kubeconfigs validate what the API serves; the marker is right |
| kubeconfig | the target depends on the environment of each command; the file is the user's | contexts resolve; recorded means merged; delete removes exactly what create added |
| ODF | nine objects and five waits over a cluster that moves on | the StorageCluster comes last, and after the operator's template has `SINGLE_NODE`; recorded means usable |
| start | old conditions look like new ones; failing calls look like answers | success means rejoined; it returns, approver and all |
| verify-master-ip | connect and ARP table are read one after the other, and the table remembers | a verdict is about where the master has been |
| wait-for-install | every boot resets the hostname and may leave the VM off, while the installer waits in windows | the guest gets through; the stage returns, which waits for its goroutines |
| public names | the DNS manager is chosen before the token is checked; the zone and the ACME account outlive processes | recorded names resolve; a deleted cluster has no record; account and key fit |
| requests | defaults change what is validated; integer arithmetic of disks and addresses | what is accepted can be built, but for the kinds that are named |
| pull secret | validated, then read again much later | no install with an invalid secret; a login writes only what it has vetted, and ends |

The hazards are listed one by one, with source lines and the properties that
cover them, under `"hazards"` in `PROJECT.json`.

## Plan

1. `ClusterRegistry`, the abstract promise of `config.json`; `ClusterManager`,
   the commands and the pipeline; its runs, its proofs. *Done.*
2. `NATReset`, which EXTENDS `ClusterManager` and composes the reset with all
   its commands; `Vfkit`, the other VM backend. *Done.*
3. The stages with state of their own: `ArtifactCache`, `InstallMedium`,
   `LocalCA`, `KubeconfigMerge`, `ODFInstall`. *Done.*
4. The parts around the pipeline: `StartConvergence`, `PullSecret`. *Done.*
5. `VerifyMasterIP` and `InstallWait`, which EXTENDS both it and
   `StartConvergence` and composes them with the installer's windows and the three
   goroutines; `CreateRequest`, the pure functions of a request, and
   `PublicNames`, which EXTENDS it with DNS and ACME. A property about the
   `start` right after a `stop` on macOS (`RunningIsUp`). *Done.*
6. Proofs of what the runs show, for every value of the constants: the lifecycle for any
   number of concurrent processes, then what a command that runs alone promises, the
   refinement of `ClusterRegistry` among it; the CA, the kubeconfig, ODF, the
   waiting commands with their goroutines, requests and public names; what resets
   keep of the lifecycle's theorems, and what they promise themselves; the cache, the
   medium and the VM on macOS. *Done.* Every safety property that a run checks of the
   specification of its own module is a theorem.
7. Left: which of the lifecycle's theorems about reservations and pins hold in a weaker form
   when interrupted resets come between the commands.

## Modules and the code

A step of every model is one externally visible effect, such as a write of a
file or a call to a hypervisor, a network, `oc` or a server, together with the
local work around it. Between two effects another process may run, or this one
be killed. `Crash` (`MediumCrash`, `MacCrash`) is Ctrl-C and kill (there is no signal handler); a failing
call (`*Fails`) has no effect unless the code has already had part of it.

`os.WriteFile` truncates a file and then fills it. Where another reader may come in between,
the write is two steps: the artifacts, `ca.crt` and `ca.key`, the ignition,
`spec.json` and `phase` of vfkit, the token, `account.key` and `account.json`, the pull secret. For `config.json` and
`state.json` it is one step of `ClusterManager` and `NATReset` with a kill that may fall inside it: the file is then
half written (`torn`, `spoilt`), and no command can read it. The models of single stages, where that would
be the end of the behaviour, have a kill before or after this write only. Left out everywhere is what
two processes would do to one of these two files in the very same moment, and the first
`config.json`, which `LoadConfig` writes with the defaults (a kill there leaves
no cluster behind, but a file that has to be removed before any command runs).

**`ClusterRegistry`** – what `config.json` promises, whatever the commands do:
the phase of every cluster and the pool address it owns. It allows an address
to leak (reserved by nobody, until a reset), never to be owned twice. The file as a whole may
be `lost`, by a kill inside a write of it; that is the last thing that happens, as no
command runs on what is left.

**`ClusterManager`** – `app/manager.go`, `app/runner.go`, `config/config.go` and
nine of the stages. `config`, `state` are the two files, `mem` and `done` a
process's copies of them, `at` the Runner's position. `vm`, `iso`, `resv`
are the host. `torn` says that `config.json` is half written, so that every command ends in
`LoadConfig` (`LoadConfigFails`), `spoilt` of which clusters `state.json` is, so that a create or a delete
ends in `loadState` (`StateUnreadable`); `Tears` is what a kill may leave, `Mends` that the next
write of a process that has read the file before makes it whole. `MaxTrouble` bounds kills, failures and reboots together
(`Spare`). Each stage is an action `Apply<Stage>` and an action
`Rollback<Stage>`; `Record`, `SkipApplied`, `Drop`, `SkipUnrecorded` are the
Runner; `Reassert`, `Boot`, `Halt`, `MarkStopped`, `WipeDir`, `FinishDelete` the
rest of the manager. `Saved` is what `Save` writes of a copy, with the records
of the registered clusters only. Stages with only files of their own or a model
of their own are left out of this pipeline; verify-master-ip and
wait-for-install are one. upsert-dns is in it as a stage that may fail and is recorded, like its
rollback; what becomes of the records, with the no-op `DNSManager` and the "not found" that counts as success, is the
subject of `PublicNames`. The host's reboot (`HostReboot`) switches every domain off.

**`NATReset`** – `app/natreset.go`, on top of `ClusterManager`. `net` is the
shared network (a network of an older version has another DHCP range), `plan`
the `NATResetPlan` less what is already done. The commands of `ClusterManager`
are conjoined with the network they need.

**`Vfkit`** – `providers/vfkit/vfkit.go`, the launch of the sidecar, and the
create that drives them, for one VM. `thread` has a position for each of the threads
that launch (create, reboot watcher, watchdog, start). The guest, vfkit and vmnet-helper are
external: a guest installs, powers off or reboots; a second vfkit on a disk in
use fails to start. A create may be one of a stopped cluster, as `Create` allows: it skips what is
recorded, and with it the boot. The phase file is written in two steps, and a launch that comes
in between reads an empty phase, which boots the live kernel and has no watcher. Two history variables say what claims except:
`presumed`, that the last start or create took a VM that is off, or told to stop, for up;
`misread`, that a launch has read the phase file half written.

**`ArtifactCache`** – the three caching stages and the `HTTPDownloader`. `file`
and `temp` say which artifact is absent, whole, torn, or being written by a
process; `overlay` and `packed` are the architectures of the store.

**`InstallMedium`** – one ignition on its way through four stages, with a record
of how often the store was merged into it, whether the installed node is wired
to it and whether the address is pinned; `medium` is what the VM will boot. On macOS the kernel is told of it by
`InstallKernelCmdline`, which publish-pxe-assets sets in the create's memory (`bootArgs`) and nothing saves
before finalize; create-network and create-master-vms come after the record of the medium (`CreateVM`) and may fail or be killed
as well, and `stranded` says that a create ended there.
`Vfkit` and `InstallMedium` name their specification, their variables and bounds
apart from `ArtifactCache` (`MacSpec`, `MediumSpec`), as `BootProofs` extends all three.

**`LocalCA`** – both CA files, and the key pair each of them is of; leaf and
serving certificates and the CA bundle per cluster. Trust is three steps, of which the first two may
fail: the anchor is copied or removed (`Install`, `Uninstall`), the store is extracted
from the anchors (`Extract`), the marker is written or removed (`Mark`). `cut` names the commands that
ended in the middle.

**`KubeconfigMerge`** – entries as pairs of kind and cluster per kubeconfig file,
`oc config` calls as the steps, `$KUBECONFIG` chosen anew by each command.

**`ODFInstall`** – `Then` orders the objects, `Await` the waits; the cluster's
operators (OLM, LVM, ocs-operator, ceph) are external and proceed at their pace.

**`StartConvergence`** – `converge.go` and `OCCSRApprover` as two threads, and a
node that may need a client and then a serving request approved.

**`VerifyMasterIP`** – the polling loop of `verify` as one step per connect
(`DialWant`, `Confirm`) and per look at the table (`LookUp`); `Resolve` is what
a connect does to the host's ARP table, whoever answers. Master, neighbours and
table move in between.

**`InstallWait`** – both commands that wait for a guest: `start`, whose steps are
those of `StartConvergence`, or the create from verify-master-ip on. `pc` is the
stage, `apc` the approver (the one of `StartConvergence`), `hpc` the
hostname injector, `dpc` the watchdog. The installer returns when the cluster is
complete (external), a window passes, or it exits otherwise. The guest boots `Boots` times,
loses its hostname each time and may be left off.

**`CreateRequest`** – `applyDefaults`, `resolveMagicDNS`, `validateNew`, `DeriveGateway`,
`DeriveMachineCIDR`, `clusterRecords`, the keyfile's gateway and the ODF volume, as operators on a record of flags. An
IPv4 address is its last byte, with the byte arithmetic of the code, and a CIDR has its size besides. `Buildable`
says what the stages need of a request: one way to be named (`NamedOnce`), an address and a zone to publish it in
(`Publishable`), a keyfile (`Pinnable`), a gateway and a master that are two addresses of its network
(`Routed`), resources and a volume (`Equipped`). The middle three are *not* ensured by `validateNew`, and
`Unpublishable`, `Unpinnable` and `Misrouted` say for which requests.

**`PublicNames`** – one command at a time per cluster, from its request through preflight,
upsert-dns, the keyfile (`EmbedFails`) and apply-tls-certs, and its delete. `token`, `records`, `key`,
`account` are shared; `manager` is the `DNSManager` the process was wired with. The
DNS provider changes record by record; the ACME directory knows a key's account.
`trouble` says what each cluster has met that a claim excepts.

**`PullSecret`** – set, login and create; the user, the clock and the server of
the device login are external.

## Runs

Types are theorems of the components with proofs and no properties of the runs.
`StartConvergence` has no run of its own: `InstallWait` extends it and runs all
of it. TLC needs a minute or less for each run, with two workers and the longest of them (`PublicNames`, `LocalCA`).

| run | states | what it shows |
|---|---:|---|
| `ClusterManager` | 221 thousand | Two NAT clusters and a bridge cluster, commands in any order, with one disturbance anywhere: a command killed, inside a write of `config.json` or `state.json` too, a call that fails, a reboot of the host. `PinnedAddressesUnique`: no two clusters pin one address in an ISO or a domain. `ReservationHeld`: a NAT cluster past create-network has its DHCP reservation, although `AddHost` takes any "already" for success. `DeleteLeavesNothing`. `CommandsComplete`: from wherever the earlier commands left it, a create that is launched ends running and a delete ends with the address given back. |
| `ViolationCreateStopped` | – | A `create` of a stopped cluster skips all stages and sets running; the domain stays off. Refutes `CreateLeavesUp`, which is the comment at `app/manager.go:143`: see [Finding](#finding). |
| `NATReset` | 312 thousand | The same clusters and a reset between any commands, over an absent or outdated network, with one disturbance anywhere: a command or the reset killed, an external call that fails, a reboot of the host. `PrefixRecorded`, `UniqueAddresses`, `RecordIsTruthful` (what Apply's skip relies on, DNS records apart, and that a cluster shown as running has its VM defined), `DomainNamesOwnAddress` (the magic domain), `ResetSparesClusters` (no network is taken from a cluster that is up, and a reset that reports success has restored the reservations), `ResetReconciles`, and `RegistrySpec`: `config.json` moves as `ClusterRegistry` allows, with the resets as well, and to its loss by a kill inside a write. |
| `Vfkit` | 1.0 million | Create, watcher, watchdog and start race for one VM, over a phase file written in two steps: `BootsInstalledDisk`, `InstalledIsBooted`, `WatchdogRevives`, and `RunningIsUp` through stops, starts and creates in any order that do not wait for each other. |
| `ArtifactCache` | 0.5 million | Two creates over one cache: `UsesWhole` (what a create uses is whole, and downloads that break off are harmless for what goes through a temporary file), `RetriesGetThrough`. |
| `KubeconfigMerge` | 0.6 million | Two processes, two clusters, two files: `ContextsResolve` (no context and no current context dangles), `RecordedIsMerged`, `DeleteLeavesNoEntries`. |
| `LocalCA` | 0.6 million | Two processes on a new host, kills and failing calls of `oc` and of the trust commands: `OneCA` (all clusters' certificates are of one CA, and kubeconfigs validate what the api serves), `MarkedIsTrusted`, `CertificatesIssued` (a create killed inside the generation does not keep the next ones from their certificates). |
| `InstallWait` | 56 thousand | One start or one create of every guest and every LAN, chosen by Init, with a failing call and deadlines that may or may not pass: `StartMeansJoined`, `VerdictIsTrue`, `CommandReturns` (both commands wait for their goroutines, so that these end too; with success when no deadline, address or installer comes between). |
| `PublicNames` | 3.1 million | Two clusters, requests of 21 kinds, of which eleven are refused and six accepted although they cannot be built, `dns set` at any time, one disturbance: `RecordedResolves`, `NamesFreed`, `AccountFitsKey`, `KnownAreBuildable`. |
| `InstallMedium` | 4 thousand | Linux and macOS, with and without a baked store, chosen by Init: `BootsWired` after any failures and kills up to the VM (on macOS the command line only if no create ended between the record of the medium and the VM), `MediumGetsMade`. |
| `ODFInstall` | 4 thousand | `StorageComesLast`, `TemplateFirst`, `RetriesGetThrough` with failing calls, expiring waits and kills, with an Available that goes on speaking of the old pod or does not. |
| `PullSecret` | 33 thousand | Two processes and one file: `InstallsValid`, `LoginStoresVetted`, `LoginEnds`. |

Deadlock is checked everywhere except where the modelled work ends: a medium
booted, a stage recorded, a start or an install returned, the CA's clusters built (and in
`ViolationCreateStopped`, where it does not matter).

### Finding

`app/manager.go:143-148`: after a successful Apply, Create writes state running,
because "every stage — including finalize — is recorded applied, so the cluster
is fully built", and `list` should not show a cluster as stopped "even though it
is up". A stopped cluster also has every stage recorded. A `create` of it skips
all of them, boots nothing, and `list` shows it as running; `start` refuses it
then ("already running") until it is stopped.

### Other behaviour worth knowing

Found while modelling. None has a run of its own; the premises below name those
that bear on a property. The first three part from what a comment says as well.

- `app/runner.go:15-18`: progress is persisted "so that re-invocations resume from the last completed
  stage". `saveState` (line 145) truncates the file and then writes it; what a kill in between leaves is
  refused by `loadState` (line 127), and every create and every delete of that cluster ends there.
  `Config.Save` (`config/config.go:288`) does the same with `config.json`, and `LoadConfig` (line 266) then ends
  every command, of all clusters.
- `stages/publishpxeassets/stage.go:55-57`: the stage "records the install-phase cmdline on the cluster for
  create-master-vms". It sets a field of the process's copy of the config (line 89), and the next `Save` is finalize's. A
  create on macOS that fails or is killed after this stage was recorded, and before its VM, is resumed without the
  line: the VM boots without its ignition and address, and the install is waited for in vain.
- `providers/odf/installer.go:84-85`: `EnableSingleNode` "waits for the resulting restart to settle". What it waits for
  (line 121) is Available, which in a rolling update is still the old pod's, so that the StorageCluster may be
  created while an operator without `SINGLE_NODE` runs. What does hold is that its template has it by then.
- `stages/verifymasterip/stage.go:65-69` says that "every decision requires a successful
  TCP connect". At the deadline an ARP entry for another address is blamed
  without one (line 93), and before it the entry is read before the connect
  that confirms it, which a neighbour may answer by then.
- A process chooses its `DNSManager` when it starts (`app/deps.go:105`), create looks for the token later,
  and only whether the file exists. A token written in between, or an
  empty file, gives a create that records upsert-dns and has set nothing.
- `--dns-provider` in NAT mode with a base domain, and a `--dns-zone` that is no
  parent of the cluster's name, are accepted and fail at upsert-dns only, every
  time, after the cluster is in `config.json`; so is an IPv6 network without a gateway, which fails at the keyfile.
  Addresses are parsed and never compared: a master or a gateway outside of the `--machine-cidr`, a master at its
  own gateway's address, and a derived gateway that wraps around to `.0` (`config/cluster.go:108`) are accepted as well.
- `untrust` removes the anchor and then has the store extracted (`providers/truststore/truststore.go:92-107`). If the extraction fails,
  the command ends before it removes the marker (`cmd/easyshift/trust_flow.go:27-30`), although the anchor is gone.
- DNS records are deleted in one call whose "not found" counts as success
  (`providers/dns/manager.go:94`): a record removed by hand leaves the ones after it.
- A kill inside the write of `account.key` stops every later create with
  `--tls-email`, as `account.key: invalid PEM` is final. Two creates that generate it at once may
  leave the account of one key next to the other.
- The install watchdog undoes a `stop` from another terminal: it finds the VM off.
- A `start` right after a `stop` on macOS may take the VM that is going down for running
  and report success.
- Start on macOS rewrites the phase file in place (`providers/vfkit/vfkit.go:477`), without a lock against the watcher. A
  launch that reads it in between finds an empty phase, which boots the live kernel again, but is not `install` and has nobody watch for the
  guest's reboot; a kill in between leaves it so, and a later Start does not set it right.
- `newDNSCommand(cfg)` (`cmd/easyshift/main.go:112`) is given the configuration itself and
  not, as its neighbours, a pointer to the variable that `--simulate` replaces (`main.go:52-60`): `--simulate dns set`
  writes the real token.

## Premises, and the behaviour behind each

A property has a premise only where the code was found not to keep it without;
TLC has shown each of these behaviours when the premise was dropped.

| property | premise | without it |
|---|---|---|
| `RecordIsTruthful`, `DomainNamesOwnAddress` | no delete was cut short | a delete killed between a rollback and the write of `state.json` leaves a stage recorded whose effect is gone; a create then skips it |
| `PinnedAddressesUnique` | no create was killed, no call failed | the effect of a stage that was killed before its record is skipped by delete: its address is given back and still pinned. A rollback that fails is logged and forgotten |
| `ReservationHeld`, `DeleteLeavesNothing`, `CommandsComplete` | in addition no delete was killed (`Undisturbed`); starts and stops may be, and the host may reboot | a stage that is recorded and already undone is skipped by the next create; `virt-install` refuses the domain of a create that was killed before its record. A kill inside the write of `config.json`, of a start or a stop too, ends all commands: `CommandsComplete` speaks of those that are launched |
| `RegistrySpec` | one command at a time | a process writes its whole copy over another one's clusters. `UniqueAddresses` still holds, and is proved for any number of processes |
| `ResetSparesClusters`, the network | without `--force`, and no call failed | a probe that fails counts as off |
| `ResetSparesClusters`, the reservations | no earlier command or reset cut short | a reset that stops after taking the network down has lost its plan, and the next one finds no network to recreate, so that nothing puts the reservations back |
| `RunningIsUp` | nothing failed or was killed; the last start did not meet a VM told to stop, and the last create was not one of a stopped cluster (`presumed`) | Stop does not wait, and start takes the VM for running; create looks at no VM (the finding) |
| `BootsInstalledDisk`, `InstalledIsBooted` | nothing died, failed or was killed | Start takes every VM that is off in its install phase for installed; a resumed create has no reboot watcher, so that the guest installs again. For the second also: no launch came in the middle of a write of the phase file (`misread`) |
| `BootsWired`, the command line | on macOS no create ended between the record of publish-pxe-assets and its VM (`stranded`) | the line was in that create's memory |
| `UsesWhole` of tools | no kill while writing, no overlap, no failing unpacking | files are unpacked in place from the temporary file |
| `UsesWhole` of the rest, `RetriesGetThrough` (cache) | as above, and only requests without an answer fail | a download in place that breaks off is cached for good; an architecture that cannot be enumerated is left out of the store |
| `ContextsResolve` | no `oc` call failed | a removal that fails is only logged, and the next one is made |
| `RecordedIsMerged`, `DeleteLeavesNoEntries` | no kill, no overlap (the latter also no failure) | a killed rollback leaves its stage recorded, a killed merge entries that nothing remembers when `$KUBECONFIG` changes |
| `OneCA` | no two processes generated the CA at once (`raced`) | each signs with its own key pair, and the files keep one of each |
| `MarkedIsTrusted` | in addition no untrust was cut short, by a kill or by an extraction that failed (`cut`), and none is between store and marker | the anchor goes first and the marker last. A `trust` that is cut short leaves no marker |
| `StartMeansJoined` | the API does not show the Ready of before the stop (`stale`) | an old Ready and an empty list of requests look like a node that has rejoined |
| `CommandReturns`, its success | the deadlines do not pass, the installer neither uses up its windows nor exits otherwise, master and neighbours keep their addresses (`short`) | start and create say that they have timed out, or why the address is wrong, rightly |
| `VerdictIsTrue`, of a mismatch | there is time left (`late`), and no neighbour has the address | the entry is read before the connect that confirms it, and at the deadline not confirmed |
| `RecordedResolves` | the process had a manager for its token (`nop`), no delete was cut short (`cut`), no record was removed by hand (`edited`) | the stage is recorded without records, or stays recorded without them |
| `NamesFreed` | upsert-dns was recorded or never begun (`unrecorded`), and the delete met a token, no failure and no missing record (`kept`) | records that nothing remembers stay in the zone |
| `AccountFitsKey` | no two processes generated the key at once (`raced`) | the account on disk is the other key's |
| `MediumGetsMade` | no kill | a private key without its public one, or a torn ignition, is repaired by nobody |
| `TemplateFirst`, that no operator in another mode is left | Available does not speak of the old pod (`lingers`) | the wait for the restart is over before the restart. That the template comes first has no premise |
| `KnownAreBuildable` | the request is none of those that `Unpublishable`, `Unpinnable` and `Misrouted` describe | it is accepted and fails in a later stage, or gives a master that finds no gateway |
| `InstallsValid`, `LoginStoresVetted` | no write met another one, or a create between its looks at the file (`met`) | the file is validated in the preflight and read again after the downloads; of two writes the longer one's end may stay |

`raced`, `cut`, `met`, `stale`, `lingers`, `short`, `presumed`, `misread`, `stranded`, `trouble`, `been` are history or prophecy
variables: they record or choose what a premise speaks of and no guard of the
code reads them, with two exceptions: in `LocalCA` nothing is launched after a
race, which is a bound on the run, and `short` chooses which of the deadlines
and mishaps may come at all.

## Bounds

Each bound is a CONSTANT that a guard reads.

- `MaxCrashes`, `MaxFaults` (`MaxMacCrashes`, `MaxMediumFaults` and so on): one of each where several processes or clusters
  interact, two or three where there is only one. Almost everything above needs
  one disturbance and then a sequence of undisturbed commands, whose number is
  *not* bounded: commands can be launched forever in every model, the state
  spaces are finite by themselves.
- `MaxTrouble` 1 bounds what goes wrong as a whole where a run has many kinds of
  it. In `NATReset` that is kills, failures and reboots; 2 has been run
  once (4.7 million states, no error, before kills inside a write were added), and takes minutes. `ClusterManager` has the
  same bound. In `PublicNames` it is failing requests, kills, records removed by
  hand and each `dns set`; as `Init` has every state the token's file may be in, a
  cluster without a token, or with an empty one, costs nothing of it.
- `Names` of `PublicNames` are two of the code's three: what differs is whether all,
  some or none are set, which two tell apart.
- `UserRequests`: for one cluster an own name with Let's Encrypt, the same in a network of 16
  addresses, ODF with the smallest disk, NAT with a magic domain, and six requests that are accepted and cannot be
  built (`Overlooked`: a provider in NAT mode, a foreign zone, IPv6 without a gateway, a network of one address at which the
  gateway wraps, a gateway outside of the network, a master at its gateway); for the other the
  first of these. Both also get eleven requests that `validateNew` refuses. What holds for all requests
  is a theorem (`KnownAlwaysBuildable`).
- `Boots` 3 (live ISO, disk, one pivot), `MaxMoves` 2 (the master comes up elsewhere and
  then where it should), one other address besides the reserved one.
- `PoolSize` 2 with two NAT clusters: the pool can be used up by leaks, and an
  address can go from one cluster to the other. `MaxClusters` 2 with three
  clusters: the limit is met. `MasterIP` gives the bridge cluster an address
  outside of the pool, as `ManagerAssumption` demands.
- `Procs`: one for `ClusterManager` and `NATReset`, where the number of
  interleavings of two pipelines is out of TLC's reach. What holds for several
  is proved instead, and so is that one process is a special case of one command at a
  time (`OneProcessIsSerial`). Two where the shared thing is small: cache,
  kubeconfig, CA, pull secret.
- `MaxOverlaps` 1: how often a command is launched while another one runs, in the
  cache and for the kubeconfig. `Keys` 2: a killed create loses one key
  pair, the next needs another.
- `ArtifactCache` is checked with `Darwin = TRUE`: its artifacts include every
  way of fetching there is (staged tarball, staged kernel, in place, packed);
  the ISO of Linux is fetched in place like the initramfs.
- In `KubeconfigMerge` no two processes work on the same cluster at the same time; what
  such a pair does to `state.json` is in `PrefixAlwaysRecorded`.
- Clusters, kubeconfigs and processes are symmetric in `KubeconfigMerge`, and the two
  NAT clusters in `NATReset`; neither has a liveness property.

## Fairness

Weak fairness of the steps of a process that is running: between two calls the
code is straight-line, and every external call returns. Users need not do
anything, with one exception: where a property says that *repeating* a create
gets there (`RetriesGetThrough`, `MediumGetsMade`, `CertificatesIssued`), the launch is fair,
which is the premise of the property. In `InstallWait` and `ODFInstall` the
guest's operators are weakly fair, as their failure to proceed is what the
timeouts are for, and timeouts are among the steps that may come first. Strong
fairness is used twice: of the ends of approver, injector and watchdog, as a
`select` between a tick that is due and a canceled context takes either; and of
launching in `LocalCA`, where being launchable comes and goes with the other
process. In `InstallWait` the guest also boots on and the master comes up on its address if
it may; that the VM is left off, or a window passes, is never owed. `PublicNames` and
`NATReset` claim no liveness and have no fairness.

## Proofs

All proofs are checked by TLAPS for every value of the constants that the named
assumptions allow: any number of clusters and of concurrent processes, any pool,
any bounds on crashes and faults.

| theorem | module | says |
|---|---|---|
| `TypeCorrect`, `PrefixAlwaysRecorded`, `AddressesAlwaysUnique` | `ClusterManagerProofs` | `TypeOK` and `DamageOK`, `PrefixRecorded` and `UniqueAddresses` are invariants, with any number of commands at once |
| `RegistryImplemented` | `ClusterManagerProofs` | `RegistrySpec`: one command at a time, every step is a step of the registry or a stutter |
| `RegistryNeverCollides` | `ClusterManagerProofs` | the registry keeps its types; no address is owned twice and every owned one is reserved |
| `RecordAlwaysTruthful`, `DomainAlwaysNamesOwnAddress`, `ReservationAlwaysHeld`, `PinsAlwaysUnique`, `DeletesLeaveNothing` | `ClusterManagerProofs` | one command at a time: `RecordIsTruthful`, `DomainNamesOwnAddress`, `ReservationHeld`, `PinnedAddressesUnique`; `DeleteLeavesNothing` of every step |
| `PrefixSurvivesResets`, `AddressesSurviveResets` | `ClusterManagerProofs` | of `ResetSpec`, with any number of commands also while a reset runs: `PrefixRecorded`, `UniqueAddresses` |
| `ResetsReconcile` | `ClusterManagerProofs` | of `ResetSpec`, no command while a reset runs: `ResetReconciles` |
| `RecordSurvivesResets`, `DomainSurvivesResets`, `RegistrySurvivesResets`, `ResetsSpareClusters` | `ClusterManagerProofs` | of `ResetSpec`, one command or reset at a time: `RecordIsTruthful`, `DomainNamesOwnAddress`, `RegistrySpec`, `ResetSparesClusters` |
| `CacheUsesWhole` | `BootProofs` | of `ArtifactCache`: `UsesWhole` |
| `MediumTypeCorrect`, `BootsAlwaysWired` | `BootProofs` | of `InstallMedium`: `TypeOK`, `BootsWired` |
| `RunPhaseBootsInstalledDisk`, `RecordedRunningIsUp` | `BootProofs` | of `Vfkit`: `BootsInstalledDisk`, `RunningIsUp` |
| `MergeTypeCorrect`, `ContextsAlwaysResolve`, `RecordedAlwaysMerged`, `DeletesLeaveNoEntries` | `KubeconfigMergeProofs` | `TypeOK`, `ContextsResolve`, `RecordedIsMerged`, `DeleteLeavesNoEntries` |
| `ODFTypeCorrect`, `StorageAlwaysLast`, `RecordedAlwaysUsable`, `TemplateAlwaysFirst` | `ODFInstallProofs` | `TypeOK`, `StorageComesLast`, `RecordedIsUsable`, `TemplateFirst` |
| `ConvergenceTypeCorrect`, `StartAlwaysJoins` | `InstallWaitProofs` | of `start` alone: `TypeOK`, `StartMeansJoined` |
| `InstallAlwaysJoins`, `VerdictAlwaysTrue` | `InstallWaitProofs` | of start and create with all goroutines and the LAN: `StartMeansJoined`, `VerdictIsTrue` |
| `SecretTypeCorrect`, `InstallsAlwaysValid`, `LoginAlwaysStoresVetted` | `PullSecretProofs` | `TypeOK`, `InstallsValid`; `LoginStoresVetted` of every step |
| `KnownAlwaysBuildable`, `RecordedAlwaysResolve`, `NamesAlwaysFreed`, `AccountAlwaysFitsKey` | `PublicNamesProofs` | `KnownAreBuildable`, `RecordedResolves`, `NamesFreed`, `AccountFitsKey` |
| `CATypeCorrect`, `AlwaysOneCA`, `MarkedAlwaysTrusted` | `LocalCAProofs` | `TypeOK`, `OneCA`, `MarkedIsTrusted` |

**One command at a time.** Nothing locks `config.json` or `state.json`: two commands at
once overwrite each other's copies, and then none of what the code says about a
whole command is true (see the premise of `RegistrySpec` above). What holds all the same is proved
without a premise, in the first row of the table. The rest has the premise `[]Serial`: a command
runs only while no other does. It is a premise on the user, not on the
constants: any number of processes, launched in any order, killed anywhere. With
a single process, as in the runs, every behaviour satisfies it, which is a theorem
of its own (`OneProcessIsSerial`). `PinsAlwaysUnique` has another one,
`DistinctMasters`: bridge clusters are given different `--master-ip`s, which the code
cannot check and does not.

Each module has one named assumption on its constants. All say that bounds are
naturals; beyond that `ManagerAssumption` says that reserved addresses
of bridge clusters are not in the pool and that the value for "no target" is
no cluster, `CacheAssumption` that a process, which a file names while it writes it, is none of the
file's other states, `MergeAssumption` that "no target" and "the user's own context" are
no cluster and no file, `VerifyAssumption` that the reserved address is none of a
neighbour's and that no address is the value for "nowhere", `CAAssumption` that the two states of a file without a
key are no keys and, like `SecretAssumption`, that the commands enabled are some of
those there are, and `PublicAssumption` that those two states are no clusters and that
requests are made of the flags there are (`Flags`); `ResetAssumption` says that its two switches are Booleans. The registry needs none.

In all of them the type invariant is a conjunct of the inductive one. What is
added to it, and why:

**Types of ClusterManager.** `TypeInv` strengthens `TypeOK` by `Targets`, that a process which runs a
command has a cluster it runs it on, and `Positions`, that the Runner's
position is one of a stage while it applies or undoes one. Without the first a write to
`state[name[p]]` need not be a write at all; without the second `at` could leave
`0..10`. The half-written files have their types apart (`DamageOK`), as every step may mend them and only kills tear
them: `Moved` is a step without what it does to them, so that an invariant that does not speak of `torn` and
`spoilt` is proved as if they were not there.

**Prefix.** `PrefixRecorded` is not inductive: what `Record` writes depends on the
process's copy. `PrefixInv` adds `CopyInOrder` of every process: its copy `done`
is itself a prefix; while it applies, all stages before `at` are in it; while it
undoes, none after `at` is. `Record` adds `at` to a copy that has everything
before it, `Drop` removes `at` from a copy that has nothing after it, and both
results are prefixes; whose copy was written before does not matter, which is
why the theorem holds for processes that overwrite each other's `state.json`.

**Addresses.** `UniqueAddresses` is not inductive either: another process may save a
copy that is older. `AddressInv` says `OneOwner` of `config` and of *every copy*:
no pool address belongs to two clusters in it and every owned one is marked used in it.
`OneOwner` is stronger than the checked property, as it also speaks of clusters that are not
registered. An allocation takes an address free in the copy
(`AllocateOneOwner`), a release takes the address from its only owner
(`ReleaseOneOwner`), and a `Save` puts a consistent copy in the place of a
consistent file. What the theorem does not say is that two concurrent creates
get different addresses: each is consistent in its own copy, one of them is
overwritten, and both may have pinned the address in their ISOs by then.

**A command that runs alone.** `Roles` says which steps a command of each kind can be at, so
that a create is never in the middle of a delete. `SerialInv` says what it knows: the file is what
`Save` makes of its copy (`ActsOnFile`); its copy of `state.json` is the file, or, while it
undoes, has at least what the file has (`KnowsState`); and the phase is
one from which the command may have come there (`KnowsPhase`). `Tidy` is about the
file between commands: only registered clusters have a record, with a phase. These
make every step of a command a function of the files, and the refinement is one lemma per action. `TornInv`
(`ResetTornInv` with resets) adds that once `config.json` is torn no command is under way: a kill inside the write is the registry's `Ruin`,
and nothing comes after it. `SpoiltInv`: only the kill of a create or a delete leaves a `state.json` half written.

**Records and effects.** Each property of the host needs what holds between the effect of
a stage and its record, and in the half of a rollback `state.json` does not tell of:

- `TruthInv`: a stage about to be recorded is in effect as well (`Sound`), and so is
  the ISO that has been imported while its address is still to be written. `VMInv`: a
  cluster past wait-for-install, or shown as running, has a domain, and so does one
  that a create or a start is about to show as running.
- `DomainInv`: domain and address part only in the rollback of allocate-network, which
  goes on to deregister the cluster unless it is killed.
- `ResvInv`: the reservations are *exactly* those of the clusters past create-network, each of
  the cluster's own address. By `AddressInv` another cluster has another one, so that the
  "already" of `AddHost` can only be the cluster's own.
- `HostInv`: what pins an address is there only while its stage is recorded or about to be.
  `PinInv`: a pinned address is marked used, or is the bridge cluster's own, and in no other
  cluster's record or copy, which is why nobody gives it back. The record of
  the cluster itself may be gone: a create that resumes what a killed delete has left does
  not register it again.
- `LeftInv`: a registration is remembered somewhere: in
  `state.json`, or by the delete that removed it half way.

**Registry.** `RegistryInv` adds to "no two owners" that owned addresses are reserved; the
former alone would let an address be assigned again.

**Cache.** `UsesWhole` is about the end of three stages. `Ways` says which artifacts a
process gets in which way, and `StoreFilled` that nothing is packed from an empty directory; both hold whatever
fails. `Alone`: without overlaps there is one process, and the file and the temporary file
it is at are its own, so that it unpacks what it has fetched (`OwnTarball`). `Sound` of a set of
files is the claim proper: each is whole or not there, but for the one that is being written, and whole if
a create is past it. It holds of the tools when downloads break off, as what is torn then is
the temporary file, and of all artifacts when only requests fail; `SoundStep` proves both at once, for
either set.

**Boot medium.** `BootsWired` speaks of the boot only, four stages after the
ignition is made. `StageOrder` says which stages are behind a position;
`ManifestFirst` that an ignition which is due finds the manifest of a store;
`IgnitionWired` that once generate-ignition is recorded the installed node is wired;
`MediumWired` that the recorded medium is whole, wired and has the address. `Named`: the create that has recorded
the medium on macOS has the command line in its memory and goes on, or it has ended and `stranded` says so.

**VM on macOS.** That the run phase boots an installed disk is not inductive, as anyone who finds the
VM off may set the phase. `FirstInstall` says that nobody can before the disk is installed: the only
thread besides the create is its watcher, which polls for a second boot that has not come;
the VM is up, so the watchdog has nothing to revive; and the create has the ignition and its own VM, so it does not
give up. `DiskInv`: `FirstInstall` holds while the disk is blank, and an installed disk is one of a VM
that is recorded or about to be, which is why a delete removes it. `RunInv`: a `start` runs by
itself and launches only a VM that is off; a VM that has been told to stop is there until it
goes; and a create that is about to show a cluster as running has waited for its VM's run phase. So only `presumed` can
leave a cluster shown as running without one.

**Kubeconfig.** A context that resolves now is broken by the next removal of a
cluster entry, so the invariant says where each process is in its order of
calls: `SetInOrder` that a create which is at an entry of `SetOrder` has set the
earlier ones, `DeletedInOrder` that a delete removes the entries of a cluster that
is not the current one, the context first, and `OneEach` that two processes are
not at one cluster, which is how the model launches them. `RecordedInv` says what a command
that has the kubeconfig to itself has saved and set by the time it is at each of its places
(`Work`); a merge is recorded only after all three entries. `LeftInv` says whose entries there
can be at all, of recorded clusters and of a create past its save of the target, and
only in the file that is saved: that is what a delete can find again.

**ODF.** `AppliedBefore`: which objects are applied by the time the stage is at each of its
places; `UsableBefore`: a stage that records, or is recorded, has seen the
storage classes, which nothing takes away. `TemplateFirst` needs `SingleNodeFirst`, that the Deployment
has `SINGLE_NODE` in its template once the stage is past its first wait
and patch, and `Settled`, that where Available ends with the old pod, it is the new one's once the
template has changed.

**Start.** `ApproverLives`: between the API's answer and its cancellation the
approver runs, and a start that succeeds has read a Ready.
`ReadyIsJoined`: a Ready, on the node or as read by start, is of a node that has
rejoined, or `stale`. `ConvergenceInv` leaves open where the command is, so that it serves
`start` alone and the composition.

**Install.** `InstallInv` adds where each of the two commands can be and what it has running there
(`Commands`), and for verify-master-ip (`VerdictInv`) that an address the master has is
one where it has been, that an entry for the wanted address which a connect has left says
so too, and that a mismatch is confirmed for an address that is not the wanted one.

**Resets.** `ResetKinds` reduces a step of `ResetSpec` to three kinds: one of `ClusterManager`, a
command that ends for want of the network (`Ended`), or one of the reset (`ResetTouches`), which touches
no process, no domain and no `state.json`. So the invariants above are not proved
again: for each there is a lemma that the two new kinds keep it.
`ResetInv` is what a reset needs when commands run at the same time: its copy has one owner of every
address, although by now it may be an old one, and no address it is to release belongs to a
cluster of that copy; so the file it writes back is consistent in itself.
The other theorems have the premise of the run, `OneAtATime`. Then the copy is the
file (`PlanInv`), and what the plan still holds is exactly what the file and the network
differ in: nothing of it is left at `Prune`, which gives `ResetsReconcile`. With `[]Serial` besides,
`LifeInv` gathers what the commands rely on, and `Resets` says that a reset changes nothing
of it but the addresses marked used, and of those only ones that no cluster has; to the registry
that is `Reclaim`.
`ResetsSpareClusters` needs more, as a reset empties the network that everything proved about reservations
speaks of. `AllocInv` closes a gap between two facts: a reset restores a cluster by
its address, and what counts is whether the cluster is past create-network. Undisturbed,
the two agree for every cluster at rest, because nothing but a disturbance stops a create
between allocate-network and create-network. `SparedInv` then
carries `ResvInv` across a reset: before, it holds; in between, what is in the network belongs to clusters,
and each of the others is still in the plan; after, it holds again.

**CA.** `OneCA` speaks of what is recorded; a create reads the CA three times on the way. `OneCAInv`: unless
`raced`, at most one process is at the files (`Apart`); whatever key has signed
anything, or is about to, is the one of both files (`Signs`, `Whole`); the user is told to remove the files only
when they do not belong together (`Broken`); and `Place`, what a process has by the time it
is at each of its places, of which the important one is that nothing is signed yet while a
CA is generated. A failing trust command may leave an anchor that is not in the store, or a store without its anchor, so
`Signs` speaks of both. `MarkInv`: a marker means a trusted CA, or an untrust between store and marker, unless one was
cut short; with `OneCAInv` the trusted CA is the one that all clusters serve.

**Pull secret.** `SeenIsThere`: unless `met`, what a create has validated is still in
the file, and a write that has truncated the file finds it so; `WriteIsVetted`:
what a login is about to write was validated.

**Public names.** What is accepted is `Buildable`: a lemma about pure functions,
`AcceptedIsBuildable`, for whatever combination of flags `validateNew` lets through
after `applyDefaults`, with any numbers and any networks within a /24. It says that such a request can be named,
and has its resources and a volume, without exception; and that it can be published, pinned and routed
unless it is one that `Unpublishable`, `Unpinnable` or `Misrouted` describes, which the
validation does not look for.
`Registered` adds that a cluster in `config.json`, or in the preflight of its create, was accepted,
and that one that is not has nothing recorded. `AccountInv`: unless two processes were at
the key at once, a process is between generating a key and the end of its
file only while the file has none, and then nobody has loaded one; once the
file is whole it stays, so that everyone who registers or asks for a certificate has that key.
So `account.json` has no account, or a torn one, or the account of the key beside it. `ZoneInv`: in
the middle of an upsert the names that are not `left` have the address, in the middle of
a delete they are gone, and a record that is neither of a registered cluster nor of a command at
work is there only with a disturbance that is named.

Only model-checked: all liveness, as fairness and ENABLED are outside of what the proof system handles:
`CommandsComplete`, `InstalledIsBooted`, `WatchdogRevives`, `RetriesGetThrough`, `MediumGetsMade`,
`CertificatesIssued`, `CommandReturns`, `LoginEnds`. That `ReservationHeld`, `PinnedAddressesUnique` and
`DeleteLeavesNothing`, which are proved of `ClusterManager`, hold with resets between the commands is
not claimed: an interrupted reset loses reservations.

## What is not modelled

- *Status, summary, flags*: they read once and print; nothing acts on what they say.
  Of *host inspection* only the ARP table and the connect are modelled, the memory
  and PATH checks are single reads.
- *File server* (macOS): it has no state but its listener; a failing bind is logged.
- *DNS-01, zones and propagation*: a request for a certificate is one step. How a
  challenge is answered belongs to the ACME library, how a zone is stored to the provider's API.
- *`<kubeconfig>.internal-ca`* (`applytlscerts/stage.go:168`): a kill inside its write leaves a
  torn backup that is never written again; nothing in the program reads it.
- *MAC addresses of NAT clusters, versions, names and sizes of files*.
- *The browsers' own NSS databases and the macOS keychain*: `trust` changes the former as best it can and
  says so (`docs/user/access.md`), so that the marker promises nothing about them; the latter is one call, without an extraction that could fail.
- *Two writes of* `config.json` *or* `state.json` *in the very same moment*, each of which truncates and writes: they come one after the other.
- *vmnet-helper*: a launch of it that can fail and that a running VM depends on; its
  socket and its process bookkeeping are left out.
- *Contents*: manifests, ignitions, certificates and kubeconfigs are the few
  flags that the properties tell apart. Expiry of certificates is left out.
- *Time*: a timeout is a step that may come at any moment it is armed.
- *A failing write of* `config.json` *or* `state.json`: ends a command where it
  is, like a kill at that point.
- *Fakes and the simulation*: test doubles.
