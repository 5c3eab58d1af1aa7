# TLA+ specification of PCK certificate provisioning for TDX quote generation

This directory models the programs of this repository that bring PCK
certificates to the nodes of a Kubernetes cluster: what each of them reads and
writes, and what may happen when their steps interleave, fail half way or are
repeated. The models are written from the Rust code and keep its names; line
numbers refer to the files under `src/`.

1. [The system](#the-system) - components, state, operations, hard behaviours
2. [The modules](#the-modules) - how each corresponds to the code
3. [The runs](#the-runs) - what TLC checks, with which bounds
4. [Fairness](#fairness)
5. [The proofs](#the-proofs) - what TLAPS proves, and along which argument
6. [Findings](#findings)
7. [What is not modelled](#what-is-not-modelled)
8. [Plan](#plan)

To run: `tlc -config MCRegistrarOne.cfg MCRegistrar` and so on for the
configurations below, `tlapm RegistrarProofs.tla` for the proofs.

## The system

```
 node                                  cluster                       Intel
 ----                                  -------                       -----
 get_platform_info (C, SGX)
   | JSON
 get-platforms ----- server-side apply --> Secret <qe_id>
   | id file                               label type=platform-data
   |                                          | watch
   |                                       register-platforms  <-- HTTPS --> PCS
   |                                          | server-side apply
   |                                       Secret <qe_id>-pck, Secret piid-index
 get-certificates <------- watch -------------+
   | QPL cache file
 tdx-qgs (gated by the startup probe cache-ready)

 operator: custom resource -> DaemonSet (the node containers) and, in Online
 mode, Deployment (the registrar); status conditions; finalizer
```

The processes share nothing but objects in the API server and files on a pod's
volumes. Every one of them may be killed between any two of its calls and is
started again.

| Component | Source | State it keeps | Operations |
|---|---|---|---|
| Registrar | `pck-cert-tool/src/main.rs` 565-1001 | kube's controller store and scheduler, up to 4 runs in flight, the PCS pause; in the API server the `-pck` secrets | watch event, start of a run, validate, pause check, two PCS requests, two writes, retry, SIGTERM |
| PIID index | `main.rs` 571-604 | the secret `piid-index`, one entry per platform, with its field managers | patch, administrators' edits |
| PCS client | `pcs_client.rs` | the pause | requests, `Retry-After`, verification of chains, certificates and TCB Info |
| Cache blob | `cache.rs` | none | build, parse |
| Platform data | `main.rs` 168-415, `platform_data.rs` | the ID file, the platform-data secret | read platform info and EFI variable, write the ID file, apply the secret |
| Certificate watcher | `main.rs` 418-569 | the cache file, the last seen resource version | initial read, watch event, write, watch error, SIGTERM |
| Probes | `main.rs` 1045-1067 | none | cache-ready, check-socket |
| Operator | `operator/src/tdx_quote_generation_service/controller.rs` | the resource's finalizer and status, the DaemonSet, the Deployment | reconcile, report error, cleanup, error policy |
| Condition and finalizer helpers | `status.rs`, `finalizer.rs` | none; unused by the programs | |
| Resource definition | `types.rs`, `bin/generate_crd.rs` | none | schema and CEL rules |
| Node | `operator/templates/daemonset.yaml`, `controller.rs` 353-449 | the pod's containers and volumes | the pod of each mode; restarts of containers, sandbox, pod and platform |
| Platform info | `get-platform-info/get_platform_info.c` | two SGX enclaves | load, call, unload |
| Chart, manifests, images, e2e test | `charts/`, `operator/deployment/`, `build/`, `test/` | none | |

What makes each of them right, and hard to get right:

**Registrar.** A platform must never be forgotten: whenever the controller has
nothing planned for it, its certificates are those of its present data, or PCS
has refused that data. This has to hold although the data changes while a
registration is under way, calls fail or their answers are lost, a rate limit
defers the run, and restarts wipe the scheduler. On the other side PCS must not
be asked during a `Retry-After` delay or for a platform that needs nothing. Its
runs are concurrent and share the pause and the index.

**PIID index.** Registrations patch one object concurrently. With server-side
apply a manager loses, and thereby deletes, what it leaves out of its next
apply, so the entries survive each other only because each platform has a field
manager of its own.

**Certificate watcher.** The file must follow the secret although events are
repeated, missed between read and watch, or come again after a relist, and
although the file is not written atomically.

**Operator.** Runs work on a copy of the resource from a cache while the
resource is edited, deleted and created again under the same name. Nothing may
be applied for, or written to, another resource than the one the run is for; no
run may go back to an older generation; the workloads must converge to the
resource and the status to the workloads; the operator must not wake itself up
for ever by writing the status.

**Platform data.** The platform's manifest is there only until its first
registration; a later run must not take it away from the secret, although it
applies the same secret by force. The ID file must not be believed before the
job is done with the present boot.

**Evidence.** A registration packs the answers to two requests, which come with
a certificate chain each, into one blob with length prefixes. What arrives in
the cache must fit together whatever PCS answers, in whatever order the
certificates come, and whatever becomes of the blob in the secret.

**The node.** The operator, the job, the registrar and the watcher have to agree
on what the platform is called: in two modes by its QE ID, which goes through
a file and names two secrets and the cache file, in External mode by the name of
the node, which names one secret only.

The hazards are listed at their lines in `PROJECT.json`, with the properties
that would catch each of them going wrong.

## The modules

| Module | Models |
|---|---|
| `Registrar` | the registrar, with the API server's platform-data and `-pck` secrets, PCS and time; implements `PckIssuer` |
| `PckIssuer` | abstract specification of the registrar: what a node may rely on |
| `PiidIndex` | the patches of the shared index; uses `ServerSideApply`, implements `PiidMap` |
| `ServerSideApply` | values and field owners of one API object (external: Kubernetes) |
| `PiidMap` | abstract specification of the index |
| `PlatformData` | the get-platforms job of one platform, its ID file, its firmware, the platform-data secret; uses `ServerSideApply` |
| `CertWatcher` | the watcher of one node, its cache file, tdx-qgs behind its probe |
| `Template` | the pod the operator renders for each mode |
| `Node` | composes `Template`, `PlatformData`, `CertWatcher` and `PckIssuer` |
| `PcsClient` | the checks on what PCS answers |
| `CacheBlob` | build and parse of the cache blob |
| `Evidence` | composes `PcsClient` and `CacheBlob`: one registration's data, from the answers of PCS to the cache file |
| `Operator` | the controller, the resource, its workloads, users, Kubernetes' controllers |
| `MC...` | instances for TLC; `...Proofs`: theorems and proofs |

```
  Registrar --implements--> PckIssuer <--composed with-- Node -- CertWatcher
     |  asks PCS: outcomes                                 |---- PlatformData -- ServerSideApply
     |                                                     `---- Template
  Evidence -- PcsClient, CacheBlob: contents         PiidIndex --implements--> PiidMap
```

### Registrar

One action per awaited call of `process_platform_secret` (main.rs 836-909) and
`register_platform` (912-1001), so that anything may happen between two of
them. `run[p]` says at which call the run of platform `p` is and which data it
was started with.

| Code | Model |
|---|---|
| kube's `Controller`: store, scheduler, one run per object, `concurrency(4)` | `store`, `requeue`, `run`, `WatchEvent`, `CanStart`, `StartRun` |
| `prepare_registration` fails, secret gone | `RefuseRun` |
| `pck_secret_is_valid` (738-834) | `ValidatePck`, `PckSecretIsValid`; `ValidateFails` when it cannot be read |
| `PcsPause::remaining` (868) and `PcsPause::pause` | `CheckPause`, `PauseFor` |
| `fetch_pck_certs`, `fetch_tcb_info` and their verification | `CertsFetched`, `TcbInfoFetched`, `RateLimited`, `Rejected`, `RegistrationFails` |
| apply of the `-pck` secret, `patch_piid_index` | `WritePck`, `WriteIndex`, each with a variant whose answer is lost |
| `Action::requeue`, `registration_error_policy` | `EndRun`, `ErrorPolicy`; a sooner request wins, as in kube's scheduler |
| `shutdown_on_signal`, kills, the Deployment | `Terminate`, `Exit`, `Crash`, `Restart` |

Abstractions. The three fields sent to PCS are one value of `Data`, and so is
their SHA-256 fingerprint. A `-pck` secret is the data its certificates were
issued for, the fingerprint in its annotation, and whether it has expired.
Retries inside the HTTP client (up to three, for connection errors and 5xx)
belong to the call. Durations are countdowns: `pause` is the code's
`until - now`, and `Tick` lets a unit of time go by at any moment; nothing is
assumed of how long calls take. `held`, `refused` and `damaged` are history
variables for the properties.

`PckIssuer` is what is left of it when events, runs, slots, the pause and
restarts are taken away: an issuer that may act on any inputs it has seen in the
platform-data secret and not forgotten, and never replaces a `-pck` secret that
is good for them. In the refinement, `known` is the inputs in the controller's
store and in the platform's run.

### PiidIndex

`Patch` is the document of `patch_piid_index` and `FieldManager` its field
manager; `ServerSideApply!ForceApply` is what the API server makes of them.
The registrar's own model keeps only which entry was written for which data.

### CertWatcher

`InitialRead`, `Connect`, `Event` and `WatchError` are the branches of
`watch_certificates` (main.rs 483-569), `Take` and `FinishWrite` the write with
`lastSeen` recorded only after it (535-546), `CacheReady` the probe. Versions
of the secret are numbers in the order of publication. The watch delivers the
versions in order after the list; a relist (`WatchError`) delivers the present
one again.

### PlatformData

The calls of `create_secret` (main.rs 332-415) in their order: platform info,
ID file (`CreateIdFile` empties it, `FinishIdFile` fills it), EFI variable,
apply. The variable is readable, empty, hidden after registration, or broken (it
has not the size it declares). The apply goes through `stringData`: the API
server stores the values under `data`, of which the job owns nothing, and so a
field that a later apply leaves out stays. `Registrable` is `prepare_registration`.
`hardware` is what firmware and CPU present in this boot; `lost` remembers that
somebody deleted the secret.

### Node

The pod is `Render(mode)`: the template's containers and volumes, less what
`create_or_update_daemonset` removes in External mode (controller.rs 421-449).
`MayStart` is the kubelet's order of init containers and its validation of
mounts; `ResolveId` and `HoldsId` are `resolve_id` and `get_id_from_file`;
`Published` says what the `-pck` secret is called and `QplFinds` where the QPL
looks. `RestartSandbox`, `NewPod` and `RebootNode` differ in what they leave: the
volumes, the platform, or neither. In Online mode the `-pck` secret comes from
`PckIssuer`, with the platform-data secret of the job as its input; in the other
modes from anybody. The mode of a pod is fixed, as a change of the mode makes
the DaemonSet controller replace the pods.

### Evidence

`FetchPckCerts`, `FetchTcbInfo`, `StorePck` and `StorePiid` are the stages of
`register_platform` with their checks; `PcsClient` has one operator per function
of `pcs_client.rs`, and `CacheBlob` the two functions of `cache.rs`. A blob is a
sequence of bytes, which are numbers, and some bytes are text (`Character`): as it
is with ASCII, which is all that the registrar writes (hex digits, URL-encoded
PEM and JSON), but for the context that longer UTF-8 sequences need. A certificate
or a document is one character, and what it is parsed to is the parameter `Read`.
Whether a signature verifies is whether its key is the one of the signer. Sizes
and the base of numbers are parameters: the code's are 256 and 2, 4, 8 and 4
bytes. FMSPCs are compared in one case.
`Damage` changes a good blob in one of the `DamagedForms`: it is cut off anywhere,
gets a byte more, another byte in its header, or a byte in its text that is none.
`CachedEvidenceFits` and `IndexNamesCertificate` claim something within these forms
only. They would not hold if somebody replaced text by other text, or the blob by
another valid one: `parse_cache_blob` takes both, and the watcher caches what parses
without looking at signatures again.

The outcome of the checks is a `certs` or `tcb` outcome of `Registrar`; when runs
start, are retried or lost is its matter, and one registration is looked at here.

### Operator

One action per call of `reconcile_resource` (controller.rs 106-284), each with
one for its failure; a failed write may have been carried out. `run.cr` is the
copy of the resource the run works on, `cache` the controller's, `cr` the API
server's. `FirstStep` is kube's `finalizer`, and `CanAddFinalizer` and
`CanRemoveFinalizer` are the tests in its JSON patches. `Report` is what the
status says and `Says` the comparison that avoids rewriting it; `ReportError`
is `report_reconcile_error`. The DaemonSet has the configuration in its spec,
the one its pods run (`rolled`), and whether they are ready; the API server and
Kubernetes' controllers act through `Rollout`, `PodsReady`, `DeploymentReady`
and `CollectGarbage`.

Abstractions. A spec is one of a few configurations. Counts in the status are a
Boolean; names follow from the mode. Error messages are the kind of call that
failed. Requeue intervals are not timed: a run that asks to be requeued is due
at once. The list of resources at the start of a run fails as the apply of the
DaemonSet does, and its branch for several resources cannot be taken: the CRD
admits a single name. A change of the finalizer whose answer is lost is the
change followed by another run, as after any event. That Kubernetes raises the
generation with a deletion as well is left out: a run that knows of the deletion
only cleans up, so that the raised generation is never reported.

## The runs

| Run | Configuration | Checks | Shows |
|---|---|---|---|
| registrar_one | 1 platform, 2 inputs of which PCS refuses one, `-pck` tampered with, retry delay 2, Retry-After 0 or 2 | `TypeOK`, `NoPlatformForgotten`, `Inv`, `EventuallyServed`, `ShutdownCompletes`, `ImplementsIssuer` | the platform is never forgotten and is served in the end; the registrar stops when told to; it implements `PckIssuer` |
| registrar_two | 2 platforms, 2 inputs, 2 slots, Retry-After 1 or 2 | `Inv`, `RetryAfterRespected`, `NoRedundantRegistration` | overlapping delays of two registrations; no request during a delay or without need |
| registrar_index | 1 platform | `IndexCoversRegistered` (violated) | finding 1 |
| registrar_pause | 2 platforms, 2 slots | `PauseHoldsBackAllRequests` (violated) | finding 2 |
| piid_index | 3 platforms, 2 PIIDs, an administrator | `TypeOK`, `ManagersKeepToTheirKey`, `ImplementsMap` | concurrent patches do not overwrite each other |
| node | 3 modes, 2 CPU SVNs, 1 manifest, 5 versions of the `-pck` secret in External mode and 2 in the others | `NodeTypeOK`, `WatcherFollowsJob`, `SeenIsWritten`, `NeverRollsBack`, `StreamIsAhead`, `ManifestSurvives`, `ServedWhenCaughtUp`, `FileFollowsSecret`, `QgsStarts`, `CertificatesArrive` | the watcher follows the job and the secret, through restarts, reboots and failures; certificates for the present CPU SVN arrive |
| evidence | 2 roots, 3 issuers, 4 PCK certificates, 6 TCB Infos, 2 FMSPCs; chains of up to 3 certificates, up to 2 entries and 23; 23 numbers to a byte | `TypeOK`, `AnswersAreJudged`, `OnlyMatchingAnswersStored`, `CachedEvidenceFits`, `OnlyBuiltBlobsParse`, `IndexNamesCertificate` | PCS's answers are taken up exactly if they are good; what is cached fits together and is what was built, also after damage of the `DamagedForms` |
| cert_watcher_torn | 2 versions | `QgsHasCertificates` (violated) | finding 3 |
| operator_safety | 2 resources, 2 generations each, calls about the Deployment fail | `TypeOK`, `HeldWhileApplying`, `Inv`, `GenerationsAdvance`, `ResourceStaysDue`, `AppliedOrDue`, `SettledRunConverges`, `NoIdleWrite` | runs on outdated copies do no harm, no change is left without a run to come, and a run that nothing overtakes leaves the workloads and the status as they should be |
| operator_converges | 1 resource, 2 generations, changes of the finalizer fail | `Converges`, `DeletionCompletes` | the mode switch, tampering, crashes and deletion come to a good end |
| operator_errors | 1 resource, Online; calls about the DaemonSet and the status fail | `StatusSettles`, `ErrorIsReported` | errors are reported, once |
| operator_ready | 1 resource, 2 generations | `ReadyIsCurrent` (violated) | finding 4 |

Bounds. Two platforms are enough for what platforms share, the pause and the
slots; a platform's own hazards need one, with two inputs so that a run can work
on superseded data. Delays of 0, 1 and 2 give an expired, a shorter and a longer
one. Three platforms in the index give an entry that is neither the patched nor
the abandoned one. Five versions of the `-pck` secret cover read, watch, a missed
version, a relist and one more; on a node with a job two are enough for
certificates of two boots, as the watcher itself is the same. Two CPU SVNs give
a secret of an earlier boot, and one manifest the question whether it is there.
The certificates of run evidence include, for each check, one that only that
check refuses; a length has one byte, so that a field of 23 characters is too
large for it, and the bytes are the five numbers that the header needs, the
characters, and one that is neither. Two resources give a deleted one and its successor, two
generations an outdated copy and a change of mode. Which calls fail
(`Refusable`) is chosen per run to keep it small; each kind fails in some run,
and the proofs are for all of them. The bounds are the constants `MaxVersion`,
`MaxIssued`, `MaxUid` and `MaxGeneration`; the registrar needs none, as its countdowns start
from finite sets.

The configurations check for deadlock, but for evidence, where nothing follows
the one registration whose blob was damaged.

Two properties deserve a word. `NoPlatformForgotten` excuses platforms whose
`-pck` secret others damaged since it was written (`damaged`): the registrar
does not watch `-pck` secrets and notices a deleted or expired one only with the
next event of the platform-data secret or the next start. `RetryAfterRespected`
speaks of the pause check, not of each request (finding 2), and of one process:
a restart forgets the pause.

## Fairness

Registrar: time passes, the container is restarted, changes are delivered, and
a call always ends (PCS requests have a timeout of their own, main.rs 678-680).
Strong fairness says that a platform that is due gets a slot in the end - kube
starts due runs in the order of their times, and each end of a run frees a slot
- and that a call made over and over succeeds in the end. `EventuallyServed`
further assumes what is outside the registrar's power: that its process stays
up, that rate limiting ends, and that the data stays as it is.

Certificate watcher: the kubelet restarts the container and runs its startup
probe, and the watcher gets on. Nothing is assumed of watch errors, which may go
on for ever.

Node: the kubelet runs the job, the sidecar and the probe, and none of them
waits for anything but the API server and the disk (weak fairness). Of the
registrar, strong fairness says that it takes notice of the inputs in the
platform-data secret and certifies them in the end, which is what
`EventuallyServed` says of `Registrar`. Restarts, reboots, failures, deletions and
other publishers are not fair: `CertificatesArrive` assumes `Calm`, that they
come to an end (and that the bound on versions leaves room), and `Certifiable`,
that the platform presents what can be registered.

Operator: runs, the watch, the restart by its Deployment and the controllers of
Kubernetes get on (weak fairness). Users, crashes and failing calls are not
fair; the liveness properties assume `Calm`, that nothing disturbs the cluster
any more, and say which calls succeed from some time on (`Succeed`) or never do.

## The proofs

All theorems are for any values of the constants that satisfy the named
assumptions, which say no more than that the special values are different from
the others and that the bounds are numbers.

**Registrar** (`RegistrarProofs`). `NoPlatformForgotten` is not inductive: it
speaks of idle platforms only. `Inv` says for each platform what else must hold:
a run on superseded data is followed by another one (`SupersededRunRepeats`),
the fingerprint of a `-pck` secret is that of its certificates
(`FingerprintTruthful`), the index comes after the `-pck` secret
(`IndexAfterPck`), what a run found wanting stays so (`WantingStaysWanting`, as
only the run itself writes it), and the pause covers every delay PCS asked for
(`PauseCoversRetryAfter`). `Invariance` proves it action by action;
`NothingForgotten`, `RetryAfterHonoured` and `NoRedundancy` follow.

The refinement follows from the same invariant: `RefinesIssuer` maps every step of the
registrar to one of `PckIssuer` or to a stutter. A run that writes a `-pck` secret
still knows the inputs it was started with, and the secret it replaces is not
good for them (`WantingStaysWanting`). `ServesEach` takes the step from there to the
node: for each platform, the issuer of all is an issuer of that one alone
(`IssuerOf`), as what is done for another platform is at most taking notice.

`WindsDown` is about the shutdown: with `CallsLeft`, the number of calls a run may
still make, it says that after SIGTERM no event, edit, planned retry or free slot
raises this number for any platform and that every step of a run lowers it.

**PIID index** (`PiidIndexProofs`). `KeysKept`: a registrar manager owns at most
its own entry. Hence an apply abandons nothing of others, and `Refinement` maps
each step to one of `PiidMap` or to a stutter.

**Certificate watcher** (`CertWatcherProofs`). `SkippedIsWritten` and
`NoRollback` need to know where the stream is: no event still to come is older
than what was ever written, except for the version a relist repeats
(`StreamIsAhead`), and a process that starts has seen nothing (`Forgetful`).
`NothingMissed` is the other direction: a watcher with no event to come has the
present secret in its file (`CaughtUp`), so that no version falls between the
initial read and the watch. Of `FileFollowsSecret` only that it catches up is left
to the checker.

**Platform data** (`PlatformDataProofs`). `PlatformInvariance`: what a job carries
is of this boot and comes after the ID file, and a job that is done leaves both
behind, unless somebody deleted the secret. `ManifestKept`: every step of a job
leaves the stored manifest or stores this boot's; it rests on the lemma that no
manager ever owns a field that was applied through `stringData`, so that an apply
abandons none.

**Node** (`NodeProofs`). The composition keeps its parts: `RunsWatcher` and
`RunsJob` show that a behaviour of the node is one of `CertWatcher` and of
`PlatformData`, and `LivesWithIssuer` that what happens to the secrets is one of
`PckIssuer`, which with `ServesEach` is what the registrar does. So what is
proved of the parts holds of the whole (`NodeCacheFile`, `NodeKeepsManifest`). Of
the whole, `FollowsJob` says that a watcher with a job before it runs with the ID
and the secret of this boot; it needs the job's invariant and that the watcher
ends whenever the job starts anew.

`Serving` puts the chain together (`ServedWhenCaughtUp`): when the job, the issuer
and the watcher have nothing left to do, the QPL finds the file by the name it
asks for, and in it the certificates for the present CPU SVN and manifest. It uses
`CaughtUp` of the watcher, `FollowsJob`, that a watcher that is up has an ID
(`WatcherHasId`), and that the secret a job left is the one of its boot or was
deleted (`LostIsAbsent`). This is the safety core of `CertificatesArrive`, whose
other half is that each of them gets on.

**Cache blob** (`CacheBlobProofs`). `BuiltIsParsed`: what `build_cache_blob` builds
is parsed to what it was built from. `ParsedIsBuilt`: what `parse_cache_blob` takes
is the blob that is built from what it is parsed to, so that there is one blob for
given contents and no other is taken. Both are for any texts, any base and any
sizes of the numbers. The recursive functions (the value of bytes, the ends of the
fields) are reasoned about by induction in the form "the numbers that lack the
property have a least one", which follows from the well-foundedness of `<` on the
naturals and needs no theorem with an operator parameter.

**Evidence** (`EvidenceProofs`). Two invariants. `RegistrationInv` is about the
answers: `CertsAreJudged` and `TcbInfoIsJudged` say that the checks of
`pcs_client.rs` accept the answers that are genuine and no others, whatever the
order of a chain (`ChainLemma`) and whatever entries are not available
(`FilteredKeeps`). `BlobInv` follows what was packed: the secret that is stored
parses to it (`StoredIsPacked`), a blob that still parses after `Damage` is for
evidence that fits together (`SecretFits`, by `DamageLemma`: a blob in one of
the `DamagedForms` does not parse or says the same), and so is the
index (`IndexFits`) and the cache (`CacheIsFitting`). All properties of run
evidence follow. `TextAssumption` and `BlobAssumption` say that certificates are
text and expiration times have room in the header.

**Operator** (`OperatorProofs`). That a run applies the resource that is in the
API server cannot be seen from the run, which knows the cache only. The
invariant follows the finalizer from the resource to the cache (`HeldInCache`)
to the run (`HeldWhileApplying`) and shows that the run that removes it leaves
no copy behind that could still be applied (`DeletionIsKnown`). With it,
`GenerationsAreKnown` bounds what was applied and reported by what the next run
knows, from which `Advancing` follows.

`NeverForgotten`: while the operator is up, a resource has a run under way or due,
or the cache has an event to come. What it needs is that the cache is never ahead
of the resource (`CacheIsPast`): who edits, deletes or creates the resource then
makes it differ from the cache, and the two runs that ask for no other, after
adding and removing the finalizer, change the resource themselves. `WorkIsKept`:
what a run has applied is there until it reports, or another run is due, whoever
interferes (`AppliedOrDue`); it needs that a run belongs to a running operator and
stays on the branch of its mode (`RunIsOnCourse`).

`SettledRuns` and `WritesSaySomething` are about runs that no event overtakes. Their
invariant, `ReadIsCurrent`, says that a run works on what is in the cache, that the
workloads it has found ready still are, and that it goes on to write the status only
to change it - or another run is due. With `AppliedOrDue` it follows that such a run
leaves the workloads the resource asks for and a status that is true of them, or its
error; and that what it writes is new, so that it does not set off runs for ever.

Only model-checked: everything with fairness (`EventuallyServed`,
`ShutdownCompletes`, `FileFollowsSecret`, `QgsStarts`, `Converges`,
`DeletionCompletes`, `StatusSettles`, `ErrorIsReported`, `CertificatesArrive`),
which the prover does not reach; of these, `NoPlatformForgotten`, `CaughtUp`,
`ServedWhenCaughtUp`, `ResourceStaysDue`, `AppliedOrDue`, `SettledRunConverges`,
`NoIdleWrite` and `WindsDown` are the parts that are safety properties, and proved. The refuted properties are counterexamples only.

## Findings

1. `main.rs:860` - a registration that fails after its `-pck` secret is written
   and before its index entry is (main.rs 985-991) never writes the entry: the
   retry finds the `-pck` secret valid and is done. (`registrar_index`)
2. `main.rs:868` - the comment on `PcsPause` says that all requests are held
   back; a registration past the check sends its second request during a pause.
   (`registrar_pause`)
3. `main.rs:426` - the cache file is emptied before it is written, and
   cache-ready only asks for an entry in the directory: tdx-qgs may start with a
   file that is empty or cut off. (`cert_watcher_torn`)
4. `controller.rs:186` - the DaemonSet's status is read right after its spec was
   changed, without its `observedGeneration`: the resource is reported ready for
   its new generation while all pods run the old one. (`operator_ready`)

## What is not modelled

- Parsing and cryptography: X.509, JSON, URL and hex encodings and signatures are
  the parameter `Read` of `PcsClient`; `parse_retry_after` is the parameter
  `RetryAfter` of `Registrar`, the delays it yields.
- A `-pck` secret that somebody fills with other valid text or another valid blob.
  The code has no check that would notice it on the node; `CacheFits` and
  `IndexNames` are proved for the `DamagedForms` of `Evidence`.
- Two processes at a time of the registrar or the operator. Their Deployments
  have one replica and no leader election; a rolling update lets two run for a
  short while.
- Which of the platforms that wait for a registration slot gets it, which kube's
  runtime decides. `EventuallyServed` is checked with a slot for each platform.
- `get_platform_info.c`, a sequential program that prints five values and exits;
  `check-socket`, one connection attempt.
- The condition and finalizer helpers, which no program calls.
- The chart, manifests, images and tests, which have no behaviour of their own;
  the schema and CEL rules of the resource, which the API server enforces.

## Plan

Done, in this order: `Registrar` (the core: most state, most concurrency, the
only component that talks to Intel), `PiidIndex`, `CertWatcher`, `Operator`,
each with its proofs; then `PlatformData` and `Template`, the abstract issuer with
its refinement, their composition in `Node` with its proofs, and `Evidence`; last,
the promise of the registrar to each platform and the runs of the operator that
nothing overtakes. To come: a change of mode on a running node, `Operator`'s rollout
composed with the pods of `Node`.
