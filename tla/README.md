# Verification of the Turtles controllers

Rancher Turtles is an operator with a handful of controllers in one process.
It imports Cluster API (CAPI) clusters into Rancher, lets go of them again, and
runs the Cluster API providers through `CAPIProvider` resources.  This directory
holds TLA+ models of these controllers, TLC configurations that check them on
small instances, and TLAPS proofs for all values of the constants.

Sources are named from the root of the repository (`src/` in PROJECT.json).

## The system

| component | state it keeps or changes | operations | interacts with |
|---|---|---|---|
| import controller, `internal/controllers/import_controller.go` | CAPI clusters (finalizers, `imported` annotation), Rancher clusters (creation, deletion, finalizer), its workqueue, a reconciliation per CAPI cluster with copies of both | `Reconcile` with `reconcile`, `reconcileNormal`, `reconcileDelete`, `deleteDependentRancherCluster`, `shouldAutoImportUncached`, `reconcileExternalFleetManagement`; the watch map functions | informer cache, API server, CAPI, Rancher, CAAPF, users, agent registration |
| cleanup controller, `cleanup_controller.go` | the finalizer of Rancher clusters | `Reconcile` | races with the import controller for the same object |
| predicates, `util/util.go`, `util/predicates/cluster_predicates.go` | none (read clusters and namespaces) | the filters in front of the queue, the decision to import | import controller |
| agent registration, `internal/controllers/helpers.go` | registration token, objects on the downstream cluster | `getClusterRegistrationManifest`, `validateImportReadiness`, `createImportManifest`, `removeFleetNamespace`, `getTrustedCAcert` | Rancher (token, manifest), Rancher's cleanup job on the downstream cluster |
| CAPIProvider controller, `operator_reconciler.go` | `CAPIProvider` spec, status and conditions | a list of phases of which Turtles adds four; map functions | cluster-api-operator (external), the components below |
| provider secrets, `internal/sync/` | the configuration Secret of a provider, the credentials condition | `List.Sync`, `List.Apply`, two synchronisers of the same Secret | CAPIProvider controller, users |
| provider version and defaults, `internal/provider/defaults.go` | version, defaults, variables and the version condition of a provider | `SetProviderSpec`, `setLatestVersion` | clusterctl config |
| clusterctl config, `internal/controllers/clusterctl/config.go`, `clusterctlconfig_controller.go`, `internal/provider/clusterctlconfig.go` | a ConfigMap, the same ConfigMap mounted as a file | `SyncConfigMap`, `ClusterConfig`, `WaitForClusterctlConfigUpdate` | users, kubelet, CAPIProvider controller |
| certificate migration, `internal/provider/wrangler.go` | certificates, issuers, annotations, deployments, a condition | `CleanupCertManagerResources`, `CleanupWranglerResources`, `WranglerPatcher` | CAPIProvider controller, the providers |
| UI plugin controller, `uiplugin_controller.go` | a UIPlugin in one of two namespaces | `Reconcile` | Rancher |
| manager, `main.go`, `feature/` | flags and feature gates, fixed at the start | start, resync period, worker limits | all controllers |

What is hard here is that nothing is atomic.  A reconciliation reads objects from
an informer cache that lags behind the API server, keeps copies of them across
several calls, and writes the copies back; CAPI, Rancher, CAAPF, users and the
other controllers write the same objects in between; any call may fail after some
of the writes are done, and the process may end anywhere.  What protects the
objects is the resource version in each write, the order of the writes, the
finalizers, and the second look at the server before a Rancher cluster is created.

What makes each component correct:

* import and cleanup: no write undoes somebody else's; a CAPI cluster is let go
  only after its Rancher clusters are going or after a user is rid of the import;
  a cluster that asks for import is imported in the end, one that is let go is
  not held for ever, an annotated cluster is not imported again.
* agent registration: nothing is applied while Rancher's cleanup job or the
  deletion of earlier objects is under way; a partial application is completed.
* provider secrets: the Secret has the variables and the credentials after a
  reconciliation, whichever of the two writes fails; the condition says what
  is wrong.
* provider version and clusterctl config: a provider is only handled with a
  configuration file that is the current one; versions move to the known one
  only when told to.
* certificate migration: the condition is set only after every step is done.

## The modules

`MC*` modules only add model values, inputs and the symmetry used by TLC; the modules
named `*Proofs`, `ImportSafety` and `ImportRefinement` hold the proofs.

| component | module | checked by | proved in |
|---|---|---|---|
| import and cleanup controllers, predicates | `ImportController`, `ImportProperties`, over `ApiServer`; abstract: `ImportContract` | `MCImport` | `ImportSafety`, `ImportRefinement` |
| agent registration | `AgentRegistration` | `MCAgent` | `AgentProofs` |
| CAPIProvider controller | `ProviderReconciler`; abstract: `ProviderContract` | `MCProvider` | `ProviderProofs` |
| provider secrets | `ProviderSecrets`, over `ApiServer` | `MCSecrets` | `SecretsProofs` |
| version, defaults, clusterctl config | `ProviderConfig` | `MCConfig` | `ConfigProofs` |
| certificate migration, cluster-indexed label | `CertificateMigration`, over `ProviderManifest` | `MCCertificates` | `CertificatesProofs` |
| UI plugin controller | `UIPlugin` | `MCUIPlugin` | `UIPluginProofs` |

### `ApiServer`

The contract of the API server, external to this repository: resource versions,
optimistic locking, merge patches, finalizers and deletion.  It has operators
only; the import and the secrets modules use them for each write.

### `ImportController`, `ImportProperties`

State and its counterpart in the code:

* `capi`, `ranch`, `nsLabel`: what the API server stores.  Of a CAPI cluster: does
  it exist, which incarnation (`uid`), resource version, finalizers of Turtles,
  CAAPF and CAPI, deletion timestamp, the `imported` annotation, the condition
  `ControlPlaneAvailable`, the import label.  Of a Rancher cluster: resource
  version, finalizers of Turtles and Rancher, deletion timestamp, its owner
  labels; `madeFor` is history (the incarnation it was created for).
* `capiCache`, `ranchCache`, `nsCache`: the informer cache of the manager.
* `queue`, `rec`: the workqueue and, for each CAPI cluster, the reconciliation in
  flight: `pc` (which API call is next), `base` (the `patchBase` of `Reconcile`),
  `hand` (the variable `capiCluster`), `rid` and `rc` (the `rancherCluster`), `again`.
* `dismissed` (history) and `used` (what is spent of the bounds).

Each API call of `Reconcile` is an action with its own failure action: `Begin` (the
cached read), `AddFinalizer` (one round of `RetryOnConflict`), `EarlyReturn`,
`PickRancher`/`NoRancher` (the cached list), `Annotate` and `ReleaseRancher`
(`reconcileDelete` and the update after it), `DeleteRanchers` and `ReleaseCapi`
(the branch for a CAPI cluster that is being deleted), `Register` and
`PatchRancher` (`reconcileNormal` for an existing Rancher cluster with the deferred
patch), `Confirm` and `CreateRancher` (`reconcileNormal` without one; the uncached read
decodes into the copy in hand, and `Decoded` is what that makes of it: a label or an
annotation the object has lost stays, under the new resource version),
`OuterPatch` (the patch that ends `Reconcile`, after errors too).
`CleanupReconcile` is the other controller.  `SyncCapi`, `SyncRancher`,
`SyncNamespace` and `Resync` are the informers with the predicates and map
functions; `Restart` is the process.  The rest is the environment: users, CAPI,
CAAPF, Rancher.

Abstractions: one namespace, so that the owner labels are the name; delays of
requeues and back-off are not modelled; an informer compresses any number of
changes into one event; a cached read into a copy replaces the copy; a call whose reply is
lost counts as a call that succeeded followed by a requeue or conflict; annotations
that Turtles puts on the Rancher cluster are left out, except where a write of the
finalizer would go with them; the registration of the agent is reduced to its three
outcomes (done, look again, error) and has a module of its own.

`ImportProperties` has the properties, in three groups: about the copies, safety,
liveness; and a last group of statements that comments, design records or tests make
and the code does not always keep.

### `ImportContract`

What the import promises, as a state machine of its own: a CAPI cluster is held,
dismissed (annotated as imported) or released; its Rancher clusters (clones) come and
go.  There are no caches, copies, resource versions, retries or errors in it.  The
manager acts on knowledge: `promised` (the cluster was seen to ask for import), `lost`
(a clone of it was seen going), `leaving` (the cluster was seen going), `labelled` (the
cluster was seen with the label), `namespace` (the label of the namespace).  Knowledge
starts with an event that did happen, may be out of date, may be forgotten, and is never
invented.  So the contract says what no stale copy may lead to: a clone for a cluster
that never asked, or that says no (one whose label was taken off still gets its
clone: the uncached read does not see that); a cluster dismissed though no clone of it
was ever deleted, or dismissed and not released in one step; a cluster released while a
clone of it lives; the finalizer on a cluster that is going.

`ImportProperties` states `KeepsContract`, that `ImportController` implements it, under the
mapping in its section on the contract: the stored objects without their versions, and
the knowledge that some copy, cached or in a reconciliation, carries.

### `ProviderSecrets`

The phase `syncSecrets` of the CAPIProvider controller, with the two synchronisers of
`internal/sync`.  `secret` is the configuration Secret on the server, `spec` and
`variables` the provider's variables before and after `SetProviderSpec`, `source` the
Rancher credential, `cond` the condition `RancherCredentialsSecretMapped`, `rec` the
phase in flight with the copy each synchroniser made (`varCopy`, `credCopy`).  The
actions are the calls in their order: `GetVariables`, `GetSource`, `GetSourceFails`,
`GetCredentials` (all of `List.Sync`), then `ApplyVariables` and `ApplyCredentials`
(`List.Apply`, which goes on after an error) and `Done`.  The keys of the Secret are
in three sets: variables, mapped credentials, what users put there.

Abstractions: the provider is read up to date when the reconciliation begins; a
credential has one value for all of its keys, and what a template makes of it is that
value, or blank when a key is missing; conditions are visible at once, though the
code saves them when the reconciliation ends; the manager does not stop inside the
phase (all it loses is a copy, like a failing call); the provider is not deleted.
The order in which a key is written twice inside one synchroniser is not modelled.

### `ProviderConfig`

From the clusterctl configuration to the version of a provider.  `base` is the embedded
default, `override` the `ClusterctlConfig`, `registry` Rancher's setting that is put in
front of the images; `Content` is what `ClusterConfig` makes of them.  `configMap` and
`file` are the ConfigMap and what the kubelet mounts.  `sync` has, for each key in the
queue of the clusterctl controller, the content it has read and not written
(`SyncConfigMap` is two steps, `ReadConfig` and `PatchConfigMap`); two keys are
reconciled concurrently, because `configMapMapper` goes by the name of an object
only.  `rec` is the reconciliation of the provider: `ReadFile` and `Compare` are
`WaitForClusterctlConfigUpdate`, `SetLatestVersion` is `setLatestVersion` with
`NextVersion` and `IsLatestVersion`, `Install`, `Save` and `SaveRefused` what
cluster-api-operator does with the outcome.  "latest" is a version only in memory: the
rule on `spec.version` (`capiprovider_types.go:31`, `Admitted`) lets the API server refuse
it, so the later phases work with it and the request comes back, for as long as the
configuration has it.

Abstractions: one provider of the configuration; the two reads of `ClusterConfig` are
one step; versions are numbers, `Invalid` is one that does not parse, `None` an empty
`spec.version`, `Latest` the "latest" of a URL without version; an upgrade is a restart
with other defaults and an emptied ConfigMap.  The comment at `config.go:230-231` says
of `IsLatestVersion` the opposite of what it returns for a newer version; the module
follows the code.

### `CertificateMigration`

The phases `CleanupCertManagerResources` and `CleanupWranglerResources`.  `certs`,
`issuers`, `inject`, `need` are the objects and annotations each of them removes, `cond`
the condition `WranglerManagedCertificates` as it is saved, `gate` the feature gate
(fixed until `Start`).  A phase goes through its lists (`ListObjects`), cleans object
by object (`Clean`), restarts deployments (`Restart`) and changes the condition of the
provider in hand; cluster-api-operator then applies the manifest as `WranglerPatcher`
left it (`Install`) and saves the provider (`Save`).  `Touch` is another writer that
makes an `Update` conflict.

The manifest is a variable, chosen once from `Manifests`: `Annotated`, `FetchFails` and
`Install` use `ProviderManifest`, which has the functions that alter a manifest.

Abstractions: the restarts of all deployments are one step, which a failure leaves
undone; `Install` may find everything up to date and apply nothing, and whether a
manifest that cluster-api-operator has cached under the other gate is applied again is
its own affair.

### `ProviderManifest`

The pure functions `AddClusterIndexedLabelFn` and `WranglerPatcher` with `getCertificates` and
`getServices`, over a manifest as a sequence of objects.  `getServices` is a recursive
function over the prefix of the manifest, since a later webhook configuration takes the
place of an earlier one; both kinds of configuration are treated alike, as in the code.
The reference definition is `Wanted` (`CertificateMigration`): the secret of the last
configuration that names the Service.

### `ProviderReconciler`

The CAPIProvider controller around the phases of the three modules above.  `prov` and
`cache` are the providers on the server and in the informer cache, `queue` the
workqueue, `rec` what each worker does, and `held` the one field `r.Provider`, which every
reconciliation loads (`Load`) and every phase reads again.  `applied` has the version of the
Secret that the components of each provider were rendered with, 0 for none.  `Begin`
and `AddFinalizer` are `Reconcile`; `WaitForConfig` to `SetConditions` the `ReconcilePhases`,
`WaitForConfig` and `Delete` the `DeletePhases`, `Save` the deferred patch; `CoreToProviders`
with `SyncProvider`, and `SecretToProvider` with `SyncSecret`, the two map functions.

Abstractions: the phases `setProviderSpec`, `syncSecrets` and the cleaning of certificates
only fail or succeed here; `DownloadManifests`, `Load` and `Fetch` of the operator are one
step, that reads the Secret; upgrades are installations.  What the operator does with
its cache of applied manifests (`ApplyFromCache`, `Store`) is not modelled.

### `ProviderContract`

What the CAPIProvider controller promises, as a state machine without workers, queue,
copies, merge patches and failing calls.  A provider is absent, new, held (by the
finalizer) or going; its components are there with some version of its values, or are not.
They are installed only of a provider that is held or going and was cleared, with values
no older than those they have; they are removed only of one that is going; and it is
released only when they are gone.  The manager acts on knowledge here too: `seenReady`, the
core provider as it was last seen, and `cleared`, the providers that have passed the
preflight checks since: the core provider always, another only when the core provider was
seen ready.

`ProviderReconciler` states `KeepsProviderContract` under the mapping in its section on the
contract: the stored providers without their conditions, the core provider's `ready` in the
cache, and the reconciliations between the preflight checks and the installation.

### `UIPlugin`

The move of the UIPlugin to Rancher's namespace, a call a step: `Begin`, `GetRole`,
`Apply`, `DeleteSource`.  `source` and `copy` are the two objects, `role` the ClusterRole that
owns the copy; the chart installs, uninstalls and upgrades in between, and the garbage
collector takes a copy whose owner is gone.  A version stands for a spec.

### `AgentRegistration`

`reconcileNormal` for a Rancher cluster that exists, call by call, with the helpers of
`helpers.go`: `GetTrusted` (`getTrustedCAcert`), `GetToken`
(`getClusterRegistrationManifest`), `Download`, `CheckJobs` and `Verify`
(`validateImportReadiness`), `Create` (`createImportManifest`, object by object), and
for a cluster that is `Ready` the migration of Fleet's namespace (`RemoveFleet`,
`FleetGone`, `FleetNew`, `PatchRancher`).  `remote` has the objects of the manifest on
the downstream cluster, `job` Rancher's cleanup job of an earlier import, `token`/`seen`
the registration token and its cached copy.

Abstractions: the settings make sense or do not (`trusted`); `Ready` and the annotation
are read when the reconciliation begins; the label that disables Fleet's migration
counts as migrated; the import in hand is not dismissed (that is in
`ImportController`); objects the job may still delete are those of the earlier import.

## The runs

Bounds are constants: `MaxEdits` actions of users and other parties, `MaxFaults`
failing calls, `MaxRestarts`/`MaxToggles` restarts of the manager, `MaxOwned` Rancher
clusters of a CAPI cluster at a time, `MaxVersion` versions.  Resource versions grow
with the edits and the finite number of writes they cause.

| run | instance | shows |
|---|---|---|
| `import_safety` | one CAPI cluster, one Rancher slot, labels absent or true, 3 edits, 1 fault, 1 restart (2.4 million states) | `TypeOK`, `CopiesCoherent`, `NoLostUpdate`, `ReleaseJustified`, `NoCreateOverAnnotation`, and the refinement `KeepsContract` |
| `import_liveness` | namespace and cluster label, 2 edits, 1 fault, fair | `AskedIsDone`, `ImportHappens`, `CapiReleased`, `RancherReleased` |
| `secrets` | one variable, two credential keys that need different source keys, one user key, two values, 1 edit, 1 fault, fair | `TypeOK`, `ReadCopiesKeep`, `VariablesArrive`, `CredentialsArrive`, `ConditionRight` |
| `config` | two registries, versions 1 and 2, "latest", one that does not parse, two concurrent requests, 1 edit, 1 fault, fair | `TypeOK`, `QuietIsSynced`, `OffMeansOff`, `FileConverges`, `VersionConverges` |
| `certificates` | four manifests (below), 2 changes of the gate, 3 failures, fair | `TypeOK`, `ConditionIsEarned`, `WebhooksServed`, `ConversionCompletes`, `ReversionCompletes` |
| `agent` | a manifest of three objects, 3 edits, 2 failures, fair | `TypeOK`, `CleanupRespected`, `MigratedIsTrue`, `AgentDeployed`, `MigrationCompletes` |
| `provider` | the core provider and another, one worker, 2 edits, 1 fault or restart, fair | `TypeOK`, `NothingOrphaned`, `NobodyForgotten`, `DeletionCompletes`, and the refinement `KeepsProviderContract` |
| `provider_liveness` | the same | `WaitersWoken`, `SecretApplied` |
| `uiplugin` | 4 installs, uninstalls or upgrades after the first install, 2 faults or restarts, fair | `NeverLost`, `MoveCompletes`, `UninstallCleans` |
| `code_*` | the smallest instance that shows it | each a statement of the repository that the code does not keep; see Findings |

Import: three edits are enough for a deletion in Rancher, a deletion of the CAPI cluster
and a recreation; the fault and the restart can fall on each of the calls of any of the
reconciliations in between.  One Rancher slot is reused after it is free, so a
sequence of imports is not limited to one; duplicates need two, and are left to the proofs.
Secrets: all that can go wrong lies between one pair of writes, so one edit of the
Secret, provider or credential falls between any two calls, and one failure on any of
them.  Config: two requests suffice for writes in the wrong order, and any initial
version of default and provider is an initial state, so one edit reaches every pair
of versions.  Certificates: two changes of the gate allow for a conversion that is
interrupted, reverted and started again; the manifests have a webhook and a CRD with the
same certificate, a Service with two certificates and one that is not in the manifest, a
webhook with a certificate from elsewhere, and a certificate without a secret.  Provider:
two edits are a creation and a deletion, a deletion and a new creation under the name, or
a change of a Secret while the core provider loses its readiness.  UI plugin: four
writes are an upgrade, an uninstall, an installation and one more, each between any two
calls.  Agent: three objects are a first, a middle
and a last one; three edits delete each of them.

Deadlock is not checked in the import, provider and UI plugin runs: with the edits
spent and everything settled, nothing is left to do.  It is checked in all others.

Fairness is on the manager only, plus what it cannot work without: the informers catch
up and resync (`--sync-period`), a reconciliation in flight goes on (every call returns
or fails), and the workqueue serves every request (strong fairness where a worker can
be busy whenever a request looks).  `ProviderConfig` adds the kubelet, which mounts what
is in the ConfigMap; `AgentRegistration` adds Rancher's and the downstream cluster's
completion of what they have begun (token status, cleanup job, garbage collection,
readiness).  `ProviderReconciler` has the steps of a reconciliation, the informers and the
mount weakly fair, the taking of a request strongly (a worker may be busy), and no
resync: its liveness rests on events alone, since those are what the map functions are
for.  `UIPlugin` adds the garbage collector.  Users, CAPI, CAAPF, Helm, and Rancher in the import model, owe nothing.  No
failing call is assumed away: its number is bounded, so that it stops in the end.

## What is proved

Proofs hold for all values of the constants, any number of clusters, keys, requests,
objects, and any bounds.  The only assumptions are those on the types of the constants,
named in each module (`ConstantsAssumption`, `SecretsAssumption`, `ConfigAssumption`,
`MigrationAssumption`, `AgentAssumption`, `ProviderAssumption`, `UIPluginAssumption`),
and, for the CAPIProvider controller, that there is one worker (`OneWorker`, the default
of `--concurrency`): with more, the statements are false (`code_concurrency`).  Where a
theorem has a condition of its own, it is named below.

Types: `TypeCorrect` (`ImportSafety`), `SecretTypesCorrect`, `ConfigTypesCorrect`,
`CertificateTypesCorrect`, `AgentTypesCorrect`, `ProviderTypes`, `UIPluginTypes`:
`Spec => []TypeOK`, a step for each action.

Import (`ImportSafety`, `ImportRefinement`):

* `CopiesAreCoherent`: `Spec => []CopiesCoherent`.  The invariant says that any copy
  (cache, patch base, working copy) with the stored object's resource version is that
  object, up to what the reconciliation itself has changed and not yet written.  The copy
  that the uncached read was decoded into may also have a label that the object has lost;
  its patch base is then older, so that no write that relies on it is accepted
  (`AsStored`; until then the copy is the patch base, `Unread`).  It is
  inductive together with `TypeOK`.  Every action is first shown to be one of a few moves
  (the stored object keeps or raises its resource version; a copy is kept, replaced by the
  stored or cached object, decoded into, or marked), and the moves preserve the invariant.
* `NothingIsLost`: `Spec => NoLostUpdate`.  A write that the server accepts was computed
  from a copy with the stored resource version; by the invariant that copy is the stored
  object, so the write changes no more than the reconciliation did.
* `ReleaseIsJustified`: `Spec => ReleaseJustified`.  The invariant `ReleaseInv` says of a
  reconciliation that is about to take the finalizer away what must be true then: its copy
  is going and no Rancher cluster of it lives, or its copy is annotated.  That a Rancher
  cluster may be made between the list and the release is excluded because only the
  reconciliation of the same CAPI cluster makes one (`NoneBorn`); that the copy is what is
  stored comes from `CopiesCoherent` when the write is accepted.
* `AnnotationIsHeeded`: where no namespace can have the import label
  (`TRUE \notin NsLabels`), `Spec => NoCreateOverAnnotation`.  The invariant `Unannotated`:
  a cluster whose uncached read asked for import is not annotated until the creation,
  because only its own reconciliation annotates it.  With the namespace label the
  statement is false, see Findings.
* `WhatAskedIsDone`: `Spec => []AskedIsDone`, that no cluster is forgotten half-way.  Its
  inductive invariant is `Pursued`: as long as there is no request for a cluster that
  passes the predicates, the cached cluster is what the reconciliation works on, at each
  of its calls, and the reconciliation does what that cluster asks for or brings the
  request back.  `CalmStays` is what the watches and predicates are for: every change of
  the cache that could make the reconciliation's copy stale queues a request.  A write of
  the controller itself is never the last event, since it changes the object
  (`SeenWrites`).  It is the safety core of `ImportHappens` and `CapiReleased`.
* `ContractIsKept`: `Spec => KeepsContract`, the refinement.  Two more invariants:
  `InformedInv`, a reconciliation is about to annotate only when its copy of the Rancher
  cluster is going, works on the patch base until its first write, and what the outer patch
  makes up for is a dismissal or release that failed; `StoreInv`, a cluster that is going
  is held by somebody, a live Rancher cluster has an owner.  Each action of
  `ImportController` is then a step of the contract: a write that the server accepts was
  computed from the stored object (`CopiesCoherent`), so what the contract sees of it is
  `Hold`, `Dismiss`, `Release`, `Vanish` or nothing; `DeleteRanchers` is `LetGo`,
  `CreateRancher` is `Import`, the uncached read of `Confirm` is `Promise`, by what the
  object says or by a label it is known to have had; all else finds (`NotInvented`) or
  forgets knowledge.

CAPIProvider controller (`ProviderProofs`), with one worker:

* `NothingIsOrphaned`, `DeletionIsAsked`.  The invariant ties `held` to the provider that
  the worker reconciles, and says that from the phase of installation on that provider is
  there with the finalizer; the finalizer is taken from the copy in hand only after the
  components are gone.  (`DeletedWhenAsked` follows from the contract, which is why only
  `code_concurrency` checks it by itself.)
* `ProviderContractIsKept`: `Spec => KeepsProviderContract`, the refinement.  To the
  invariant above come `ValuesSound` (what is rendered is not older than what is installed,
  nor newer than the Secret), `ReadyKept` (the patch does not write the condition `Ready`,
  which others wait for) and `ConditionsSound` (only a provider that is there has
  conditions).  The patch at the end, computed from two copies and merged into a third, is
  a step `Hold` or `Release` of the contract or one that it does not see
  (`SaveRefines`); a deletion that finds nothing installed is not seen either.
* `NobodyIsForgotten`: when the queue is empty, the cache current and the worker idle,
  no provider waits for its deletion or its finalizer, and, when the core provider is
  ready, each is installed with the current values of its Secret.  The invariant `CallInv`
  says for each provider what will bring it back (`Awaited`: a request, an event, a
  reconciliation), for each reconciliation that its copy is what the cache shows or there is
  a request (`Flight`), and how one may end that asks for no other (`Ended`: with a write
  that is an event, with the provider installed, or waiting for a core provider that was
  not seen ready).  It is the safety core of `WaitersWoken`, `SecretApplied` and
  `DeletionCompletes`.

Provider secrets (`SecretsProofs`):

* `WhatWasReadIsKept`: `Spec => ReadCopiesKeep`.  The invariant `CopiesFaithful` says that
  a copy with the resource version of the Secret differs from it in the keys of its own
  synchroniser only, and that a copy that was read is not ahead of the Secret.
* `NothingIsMissing`: when nothing is due or in flight, the Secret is there with all
  variables and with what the credential read last makes of the credentials, and the
  condition says whether that was complete.  The invariants `Prepared` and `Written` say
  what each copy holds before, and the Secret after, each of the two writes; a failure of
  either makes a request due.

Version and clusterctl config (`ConfigProofs`):

* `ConfigMapIsSynced`: `Spec => []QuietIsSynced`.  The invariant `SyncInv` is what makes
  the last write right without resource versions: the ConfigMap's own request is due, or
  its reconciliation holds the current content, or the ConfigMap has it; a write of older
  content causes an event that makes the request due.
* `VersionsAreNotRaised`: `Spec => OffMeansOff`.  The invariant `OffInv` says that the
  version in hand is the one found until it is set, and afterwards that one, a lower one,
  or "latest" (`Held`); `EndsWith` says which versions a reconciliation can save, and
  "latest" is not among them.

Certificate migration (`CertificatesProofs`):

* `CertificatesConditionIsEarned`: `Spec => ConditionIsEarned`.  The invariant relates the
  step of the phase to what earlier steps removed (`Progress`), and the condition in hand
  to what is true of the objects (`InHand`).
* `PatchedIsClean`: whatever the manifest, what `WranglerPatcher` makes of it has no
  Certificate, no Issuer and no annotation of cert-manager.  It is a statement about the
  operators, for sequences of any length.
* `ServicesFound` and `WebhooksAreServed` (`Spec => WebhooksServed`): `getServices` finds
  for each Service the secret of the last webhook configuration that names it, so the
  Services that are applied ask for what `Wanted` says.  The first is an induction over the
  manifest, by a least prefix that refutes it; the second adds the invariant `AskedFor`,
  that no Service asks for anything else, before an installation and between two.
* `ProviderIsLeftInOrder`: when no request is left, the provider has the condition with the
  gate open, and neither the condition nor an annotation of wrangler with the gate closed.

Agent registration (`AgentProofs`):

* `CleanupIsRespected`, `MigrationIsTrue`.  The invariant `SeenHolds` says that what has
  been looked at stays true as long as the reconciliation goes on: there is no job, and
  every object before the current one is not being swept.
* `MigrationIsPursued`: a cluster that is ready and whose Fleet has not moved is due to be
  looked at, or a reconciliation is moving it; no resync is needed.

UI plugin (`UIPluginProofs`):

* `PluginIsNeverLost`: `Spec => NeverLost`; `CopiedFirst`: `Spec => CopiedBeforeDeleted`.
  The invariants: `SameRole`, the role in hand is the one there is, unless the chart was
  uninstalled, and `Copied`, the copy is there before the source is deleted.
* `MoveSettles`: when nothing is due or in flight, the plugin of an installed chart is at
  its destination only, with an owner; one that was uninstalled has left at most a copy
  that the garbage collector takes.

`AskedIsDone`, `NobodyForgotten`, `QuietIsSynced`, `ProviderIsLeftInOrder`, `MoveSettles`,
`MigrationIsPursued` and `NothingIsMissing` are one idea: where nothing is left to be done,
what was asked for is done.  That is what safety has to say about completion, and what a
lost event or a swallowed error would break.  The last four are not properties of a run,
since the liveness properties of their runs say more of the small instance.

Only model-checked: the liveness properties, that a request is served, an informer catches
up and a call returns in the end.  They need fairness and ENABLED, which are out of the
prover's reach.  Everything else that the passing runs check is proved, under the
conditions named above.  No module has recursive operators.

## Findings

Each is a run in which the code does something else than the repository says.

* `code_reimport`: a cluster deleted in Rancher is imported again when the cleanup
  controller removes the finalizer first (`import_controller.go:236` has the annotation
  "to prevent further-reimports").
* `code_unconverted`: a provider that was never converted is not recognised as such
  (`wrangler.go:383-386`), and each reconciliation restarts its deployments.

* `code_concurrency`: `--concurrency` is the "Number of resources to process simultaneously"
  (`main.go:113-114`) and is passed to the CAPIProvider controller (`main.go:247-249`), whose
  reconciliations share one `r.Provider` (`operator_reconciler.go:65`).  With two workers, one
  of them may load its provider while the other is between two phases, and a provider
  loses its components because another one is deleted.

Further disagreements are stated in the last section of the modules and are not among
the runs.  Each is false in a small instance of its module:

* `ControlPlaneFiltered` (`ImportProperties`): `import_controller.go:172` says of the control
  plane check that it "should never be false"; it looks at a later copy, and requeued
  requests pass no predicate.  (An edit of the condition between the event and the read.)
* `DismissedItsOwn`: a CAPI cluster that is created again is annotated as imported
  because its predecessor's Rancher cluster is being deleted.
* `ImportedIsReleased`: the retry loop that adds the finalizer does not look at the
  annotation again; an annotated cluster is then held by a finalizer nothing removes.
* `OneRancherPerCapi`: a lagging cache leads to two Rancher clusters for one CAPI
  cluster; `ReleaseIsJustified` is proved for any number of them.
* `NoCreateOverAnnotation`, when the label is on the namespace: `ShouldAutoImport` looks at the
  annotation only when the cluster has the label itself (`cluster_predicates.go:36` filters
  annotated clusters), so a stale reconciliation imports an annotated cluster again.
* `NoCollision` (`ProviderSecrets`): the comment at `secret_mapper_sync.go:320-321` expects
  patches that do not collide; the synchronisers replace the whole Secret, and on a new
  Secret the credentials take the variables away until the next reconciliation.
* `UnmarkedNotImported` (`import_controller.go:424`, "not auto importing cluster as namespace
  or cluster isn't marked auto import"): the uncached read is decoded into the copy that was
  read from the cache (`import_controller.go:417`), where labels that were taken off stay, so
  a cluster whose label was taken off since is imported.
* `PinKept` (`ProviderConfig`): the later phases work with "latest" instead of a provider's
  own version when the override has no version (`defaults.go:131`), though updates are off
  (`operator_reconciler_test.go:227`).  It is not saved, since the API server refuses it
  (`capiprovider_types.go:31`), but asked for again and again.
* `RemovedKeysGo` (`ProviderSecrets`): a variable that was removed from the provider stays in
  the Secret, since the data is laid over the old one.
* `SourceMissingSaid`: the reason for a missing credential is overwritten at once, because
  `List.Sync` calls `Sync` after `Get` has failed.
* `FileIsIntended` (`ProviderConfig`): the file that was compared may have changed when it is
  used.
* `ConvertedIsClean` (`CertificateMigration`): with the gate closed and opened again, a
  manifest may be installed with its certificates while the saved condition is still there.
* `LatestMoves` (`UIPlugin`): the source is deleted by its name, with an upgrade that was
  made since it was read (`uiplugin_controller.go:71`, "Reconcile moves the UIPlugin").
* The condition `WranglerManagedCertificates`, "Certificates are now managed by wrangler"
  (`wrangler.go:374`), is saved also when the manifest is refused afterwards: the third and
  fourth manifest of `certificates` show it; what is checked is that nothing is then applied.

## Not modelled

* Wiring (flags, leader election, health checks, scheme), type declarations and generated
  code, the naming and v2prov predicates that no controller uses, charts, configuration,
  examples and the test framework: no state changes of their own.
* cluster-api-operator, beyond the order in which it calls the phases and what Turtles
  relies on: its cache of applied manifests, upgrades, the default version of a source (in
  `ProviderConfig` it is any version), and the health check's details.
* The dismissal of the Rancher cluster in hand (`import_controller.go:398`) is in
  `ImportController`; what the agent meets on the downstream cluster then is not in
  `AgentRegistration`, where the import in hand is not dismissed.
* The finalizer and owner reference of the configuration Secret when its provider goes.
* Delays: requeues, back-off and time limits are "sometime".

## Plan

Done: the import core and the CAPIProvider controller, each with its abstract contract and
the proof that it is kept; the components around them; the manifest; the UI plugin.  Next, in this order:

1. Composition of `AgentRegistration` with the dismissal of the import in hand.
2. Two CAPI clusters that share workers: requests for a cluster that is gone come back
   for ever and must not starve the others.
