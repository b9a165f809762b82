-------------------------- MODULE ProviderReconciler --------------------------
(***************************************************************************)
(* The CAPIProvider controller (internal/controllers/                      *)
(* operator_reconciler.go): finalizer, phases, events and the single       *)
(* r.Provider that every reconciliation of every provider works on.  What  *)
(* the phases of Turtles do to other objects is the subject of             *)
(* ProviderConfig, ProviderSecrets and CertificateMigration.  The          *)
(* GenericProviderReconciler and the phases of the PhaseReconciler belong  *)
(* to the cluster-api-operator; they are modelled by what Turtles relies   *)
(* on when it lists them.                                                  *)
(***************************************************************************)
EXTENDS Naturals, FiniteSets

CONSTANTS
    Core,       \* the core provider
    Others,     \* the other providers
    None,       \* no provider
    Workers,    \* the workers of the controller, --concurrency of them
    MaxEdits,   \* bound: actions of users and of the core provider's deployment
    MaxFaults   \* bound: failing calls and restarts

ASSUME ProviderAssumption ==
    /\ Core \notin Others /\ None \notin Others /\ None # Core
    /\ MaxEdits \in Nat /\ MaxFaults \in Nat

Providers == Others \cup {Core}

VARIABLES
    prov,       \* the CAPIProviders on the API server
    cache,      \* the informer cache of the manager
    queue,      \* the workqueue
    rec,        \* what each worker does
    held,       \* r.Provider: one object, whose provider it is
    secret,     \* version of the configuration Secret of each provider
    unseen,     \* Secrets whose last event has not been delivered
    applied,    \* the version each provider's components were installed with
    synced,     \* the mounted clusterctl configuration is the intended one
    used        \* how much of each bound has been used

cluster == <<prov, secret, unseen, applied, synced>>
vars == <<cluster, cache, queue, rec, held, used>>

-----------------------------------------------------------------------------

ProviderPhases == {"Pending", "Provisioning", "Ready", "Failed"}
Object ==
    [exists: BOOLEAN, deleting: BOOLEAN, fin: BOOLEAN,
     preflight: {"Unknown", "False", "True"},   \* PreflightCheckCondition
     installed: BOOLEAN,                        \* ProviderInstalledCondition
     ready: BOOLEAN,                            \* ReadyCondition, of Core only
     phase: ProviderPhases]
New == [exists |-> TRUE, deleting |-> FALSE, fin |-> FALSE, preflight |-> "Unknown",
        installed |-> FALSE, ready |-> FALSE, phase |-> "Pending"]
Gone == [New EXCEPT !.exists = FALSE]

Phases == {"wait", "preflight", "fetch", "install", "conditions",
           "waitDelete", "delete"}
Steps  == {"idle", "load", "save"} \cup Phases
Work ==
    [pc: Steps, for: Providers \cup {None},
     base: Object,        \* of the patch helper
     rendered: Nat,       \* the version of the Secret in the fetched manifests
     again: BOOLEAN]
Nobody == [of |-> None, obj |-> Gone]
Idle == [pc |-> "idle", for |-> None, base |-> Gone, rendered |-> 0, again |-> FALSE]

TypeOK ==
    /\ prov \in [Providers -> Object] /\ cache \in [Providers -> Object]
    /\ queue \subseteq Providers
    /\ rec \in [Workers -> Work]
    /\ held \in [of: Providers \cup {None}, obj: Object]
    /\ secret \in [Providers -> Nat] /\ applied \in [Providers -> Nat]
    /\ unseen \subseteq Providers
    /\ synced \in BOOLEAN
    /\ used \in [edits: Nat, faults: Nat]

Fault == used.faults < MaxFaults /\ used' = [used EXCEPT !.faults = @ + 1]
Edit  == used.edits < MaxEdits /\ used' = [used EXCEPT !.edits = @ + 1]

\* A merge patch writes what differs between two copies, without a look at the
\* resource version; it cannot give a finalizer to an object that is going.
Merged(o, from, to) ==
    LET new == [f \in DOMAIN o |-> IF to[f] # from[f] THEN to[f] ELSE o[f]]
    IN IF new.deleting /\ ~new.fin THEN Gone ELSE new
CanMerge(o, from, to) == o.exists /\ (o.deleting /\ ~from.fin => ~to.fin)

-----------------------------------------------------------------------------
(* Reconcile.                                                               *)

\* A worker takes a request whose provider no other worker has.
Free(w, p) == rec[w].pc = "idle" /\ \A v \in Workers : rec[v].for # p

NeedsFinalizer(o) == ~o.fin /\ ~o.deleting

\* The provider is read from the cache: gone, without finalizer, or handed over to
\* the GenericProviderReconciler by its name.
Begin(w, p) ==
    /\ p \in queue /\ Free(w, p)
    /\ ~(cache[p].exists /\ NeedsFinalizer(cache[p]))
    /\ queue' = queue \ {p}
    /\ rec' = IF cache[p].exists
              THEN [rec EXCEPT ![w] = [Idle EXCEPT !.pc = "load", !.for = p]]
              ELSE rec
    /\ UNCHANGED <<cluster, cache, held, used>>

\* The finalizer is added to a copy of its own; the event of the patch brings the
\* provider back.
AddFinalizer(w, p) ==
    LET o == cache[p]
    IN /\ p \in queue /\ Free(w, p)
       /\ o.exists /\ NeedsFinalizer(o)
       /\ IF CanMerge(prov[p], o, [o EXCEPT !.fin = TRUE])
          THEN /\ prov' = [prov EXCEPT ![p].fin = TRUE]
               /\ queue' = queue \ {p}
          ELSE UNCHANGED <<prov, queue>>
       /\ UNCHANGED <<secret, unseen, applied, synced, cache, rec, held, used>>

AddFinalizerFails(w, p) ==
    /\ p \in queue /\ Free(w, p)
    /\ cache[p].exists /\ NeedsFinalizer(cache[p])
    /\ Fault
    /\ UNCHANGED <<cluster, cache, queue, rec, held>>

\* GenericProviderReconciler.Reconcile reads it once more, into r.Provider.
Load(w) ==
    LET p == rec[w].for
        o == cache[p]
    IN /\ rec[w].pc = "load"
       /\ IF ~o.exists
          THEN rec' = [rec EXCEPT ![w] = Idle] /\ UNCHANGED held
          ELSE /\ held' = [of |-> p, obj |-> [o EXCEPT !.fin = TRUE]]
               /\ rec' = [rec EXCEPT ![w].base = o,
                             ![w].pc = IF ~o.fin THEN "save"
                                       ELSE IF o.deleting THEN "waitDelete"
                                       ELSE "wait"]
       /\ UNCHANGED <<cluster, cache, queue, used>>

-----------------------------------------------------------------------------
(* The phases, in the order of BuildWithManager.                            *)

Proceed(w, step) == rec' = [rec EXCEPT ![w].pc = step]
Stop(w, again) == rec' = [rec EXCEPT ![w].pc = "save", ![w].again = again]

\* Mutant: the wait ends the reconciliation for good.
MutWaitForConfig(w) ==
    /\ rec[w].pc \in {"wait", "waitDelete"}
    /\ IF ~synced THEN Stop(w, FALSE)
       ELSE Proceed(w, IF rec[w].pc = "wait" THEN "preflight" ELSE "delete")
    /\ UNCHANGED <<cluster, cache, queue, held, used>>

\* waitForClusterctlConfigUpdate: the file is waited for, deletion or not.
\* setProviderSpec, syncSecrets and the cleanup of certificates belong here too.
WaitForConfig(w) ==
    /\ rec[w].pc \in {"wait", "waitDelete"}
    /\ IF ~synced THEN Stop(w, TRUE)
       ELSE Proceed(w, IF rec[w].pc = "wait" THEN "preflight" ELSE "delete")
    /\ UNCHANGED <<cluster, cache, queue, held, used>>

\* Mutant: a core provider that is there is enough.
MutPreflightChecks(w) ==
    LET ok == held.of = Core \/ cache[Core].exists
    IN /\ rec[w].pc = "preflight"
       /\ held' = [held EXCEPT !.obj.preflight = IF ok THEN "True" ELSE "False"]
       /\ IF ok THEN Proceed(w, "fetch") ELSE Stop(w, FALSE)
       /\ UNCHANGED <<cluster, cache, queue, used>>

\* PreflightChecks: all others wait for the core provider, and nobody calls them
\* back but the events.
PreflightChecks(w) ==
    LET ok == held.of = Core \/ (cache[Core].exists /\ cache[Core].ready)
    IN /\ rec[w].pc = "preflight"
       /\ held' = [held EXCEPT !.obj.preflight = IF ok THEN "True" ELSE "False"]
       /\ IF ok THEN Proceed(w, "fetch") ELSE Stop(w, FALSE)
       /\ UNCHANGED <<cluster, cache, queue, used>>

\* DownloadManifests, Load, Fetch: the manifests, with the variables of the Secret.
Fetch(w) ==
    /\ rec[w].pc = "fetch"
    /\ rec' = [rec EXCEPT ![w].pc = "install", ![w].rendered = secret[held.of]]
    /\ UNCHANGED <<cluster, cache, queue, held, used>>

Install(w) ==
    /\ rec[w].pc = "install"
    /\ applied' = [applied EXCEPT ![held.of] = rec[w].rendered]
    /\ held' = [held EXCEPT !.obj.installed = TRUE]
    /\ Proceed(w, "conditions")
    /\ UNCHANGED <<prov, secret, unseen, synced, cache, queue, used>>

\* Mutant: a phase the API does not know.
MutPhaseOf(o) == IF o.installed THEN "Installed" ELSE "Provisioning"

PhaseOf(o) ==
    IF o.installed THEN "Ready"
    ELSE IF o.preflight = "False" THEN "Failed" ELSE "Provisioning"

SetConditions(w) ==
    /\ rec[w].pc = "conditions"
    /\ held' = [held EXCEPT !.obj.phase = PhaseOf(held.obj)]
    /\ Stop(w, FALSE)
    /\ UNCHANGED <<cluster, cache, queue, used>>

\* Mutant: the list of phases for deletion ends with the wait.
MutDelete(w) ==
    /\ rec[w].pc = "delete"
    /\ held' = [held EXCEPT !.obj.fin = FALSE]
    /\ Stop(w, FALSE)
    /\ UNCHANGED <<cluster, cache, queue, used>>

\* The last of the DeletePhases; then the finalizer goes.
Delete(w) ==
    /\ rec[w].pc = "delete"
    /\ applied' = [applied EXCEPT ![held.of] = 0]
    /\ held' = [held EXCEPT !.obj.fin = FALSE]
    /\ Stop(w, FALSE)
    /\ UNCHANGED <<prov, secret, unseen, synced, cache, queue, used>>

\* A phase returns an error, which may be noted in a condition.
PhaseFails(w) ==
    /\ rec[w].pc \in Phases
    /\ Fault
    /\ Stop(w, TRUE)
    /\ \E i \in {held.obj.installed, FALSE} : held' = [held EXCEPT !.obj.installed = i]
    /\ UNCHANGED <<cluster, cache, queue>>

\* Load overwrites all of r.Provider, so it is forgotten when nobody works on it.
Leave(w) ==
    /\ rec' = [rec EXCEPT ![w] = Idle]
    /\ held' = IF \E v \in Workers \ {w} : rec[v].pc # "idle" THEN held ELSE Nobody

\* The deferred patch, from the copy of the helper to what is in r.Provider.
Save(w) ==
    LET o == prov[held.of]
        can == CanMerge(o, rec[w].base, held.obj)
    IN /\ rec[w].pc = "save"
       /\ prov' = IF can THEN [prov EXCEPT ![held.of] = Merged(o, rec[w].base, held.obj)]
                  ELSE prov
       /\ queue' = IF rec[w].again \/ ~can THEN queue \cup {rec[w].for} ELSE queue
       /\ Leave(w)
       /\ UNCHANGED <<secret, unseen, applied, synced, cache, used>>

SaveFails(w) ==
    /\ rec[w].pc = "save"
    /\ Fault
    /\ queue' = queue \cup {rec[w].for}
    /\ Leave(w)
    /\ UNCHANGED <<cluster, cache>>

-----------------------------------------------------------------------------
(* Events.                                                                  *)

\* Mutant: those are called that have passed their checks.
MutCoreToProviders(o) ==
    IF o.exists /\ o.ready
    THEN {p \in Others : cache[p].exists /\ cache[p].preflight = "True"} ELSE {}

\* newCoreProviderToProviderFuncMapForProviderList: a core provider that is ready
\* calls those that have not passed their checks, as far as they are cached.
CoreToProviders(o) ==
    IF o.exists /\ o.ready
    THEN {p \in Others : cache[p].exists /\ cache[p].preflight # "True"} ELSE {}

\* Its own event, and those of the core provider before and after.
SyncProvider(p) ==
    /\ cache[p] # prov[p]
    /\ cache' = [cache EXCEPT ![p] = prov[p]]
    /\ queue' = queue \cup {p} \cup
                 (IF p = Core THEN CoreToProviders(cache[p]) \cup CoreToProviders(prov[p])
                  ELSE {})
    /\ UNCHANGED <<cluster, rec, held, used>>

\* Mutant: a Secret calls nobody.
MutSecretToProvider(p) == {}

\* newSecretToProviderFuncMapForProviderList: by the name and the namespace in the
\* specification, which defaults to those of the provider.
SecretToProvider(p) == {q \in {p} : cache[q].exists}

SyncSecret(p) ==
    /\ p \in unseen
    /\ unseen' = unseen \ {p}
    /\ queue' = queue \cup SecretToProvider(p)
    /\ UNCHANGED <<prov, secret, applied, synced, cache, rec, held, used>>

Restart ==
    /\ Fault
    /\ cache' = prov
    /\ queue' = {p \in Providers : prov[p].exists}
    /\ unseen' = {}
    /\ rec' = [w \in Workers |-> Idle]
    /\ held' = Nobody
    /\ UNCHANGED <<prov, secret, applied, synced>>

-----------------------------------------------------------------------------
(* Users, the deployment of the core provider, the kubelet.                 *)

CreateProvider(p) ==
    /\ ~prov[p].exists
    /\ Edit
    /\ prov' = [prov EXCEPT ![p] = New]
    /\ UNCHANGED <<secret, unseen, applied, synced, cache, queue, rec, held>>

DeleteProvider(p) ==
    /\ prov[p].exists /\ ~prov[p].deleting
    /\ Edit
    /\ prov' = [prov EXCEPT ![p] = IF @.fin THEN [@ EXCEPT !.deleting = TRUE] ELSE Gone]
    /\ UNCHANGED <<secret, unseen, applied, synced, cache, queue, rec, held>>

EditSecret(p) ==
    /\ Edit
    /\ secret' = [secret EXCEPT ![p] = @ + 1]
    /\ unseen' = unseen \cup {p}
    /\ UNCHANGED <<prov, applied, synced, cache, queue, rec, held>>

\* The health check: only what is installed is ready, and may cease to be.
CoreReady ==
    /\ prov[Core].installed /\ ~prov[Core].ready
    /\ prov' = [prov EXCEPT ![Core].ready = TRUE]
    /\ UNCHANGED <<secret, unseen, applied, synced, cache, queue, rec, held, used>>

CoreUnready ==
    /\ prov[Core].ready
    /\ Edit
    /\ prov' = [prov EXCEPT ![Core].ready = FALSE]
    /\ UNCHANGED <<secret, unseen, applied, synced, cache, queue, rec, held>>

ChangeConfig ==
    /\ synced
    /\ Edit
    /\ synced' = FALSE
    /\ UNCHANGED <<prov, secret, unseen, applied, cache, queue, rec, held>>

Mount ==
    /\ ~synced
    /\ synced' = TRUE
    /\ UNCHANGED <<prov, secret, unseen, applied, cache, queue, rec, held, used>>

-----------------------------------------------------------------------------

Init ==
    /\ prov = [p \in Providers |-> New]
    /\ cache = prov
    /\ queue = Providers
    /\ rec = [w \in Workers |-> Idle]
    /\ held = Nobody
    /\ secret = [p \in Providers |-> 1]
    /\ unseen = {}
    /\ applied = [p \in Providers |-> 0]
    /\ synced \in BOOLEAN
    /\ used = [edits |-> 0, faults |-> 0]

Step(w) ==
    \/ Load(w) \/ WaitForConfig(w) \/ PreflightChecks(w) \/ Fetch(w) \/ Install(w)
    \/ SetConditions(w) \/ Delete(w) \/ PhaseFails(w) \/ Save(w) \/ SaveFails(w)

Take(w, p) == Begin(w, p) \/ AddFinalizer(w, p) \/ AddFinalizerFails(w, p)

User ==
    \/ \E p \in Providers : CreateProvider(p) \/ DeleteProvider(p) \/ EditSecret(p)
    \/ ChangeConfig \/ CoreUnready

Next ==
    \/ \E w \in Workers : Step(w) \/ \E p \in Providers : Take(w, p)
    \/ \E p \in Providers : SyncProvider(p) \/ SyncSecret(p)
    \/ Restart
    \/ User \/ CoreReady \/ Mount

Spec == Init /\ [][Next]_vars

\* The manager works, its queue forgets nobody, and the kubelet mounts what there
\* is to mount.  The periodic resync is left out: events have to suffice.
FairSpec ==
    /\ Spec
    /\ \A w \in Workers : WF_vars(Step(w))
    /\ \A p \in Providers :
          /\ SF_vars(\E w \in Workers : Take(w, p))
          /\ WF_vars(SyncProvider(p)) /\ WF_vars(SyncSecret(p))
    /\ WF_vars(Mount)

-----------------------------------------------------------------------------
(* What the controller promises.                                            *)

\* Components on the cluster have a provider that can clean them up: one that is
\* there and held by the finalizer, whichever copy of it the finalizer was looked
\* for in, and though it was deleted and created again meanwhile
\* (operator_reconciler.go:168-171, 262-277).
NothingOrphaned == \A p \in Providers : applied[p] # 0 => prov[p].exists /\ prov[p].fin

\* Nothing is left to be done: no request, no event, no reconciliation.
Quiet == queue = {} /\ unseen = {} /\ cache = prov /\ \A w \in Workers : rec[w].pc = "idle"

\* No request is lost, and no event that should have been one: when nothing is left to
\* be done, no provider is waiting for its deletion, none for a core provider that
\* is ready, and what is installed has the values of its Secret.  There is no
\* resync to make up for it (operator_reconciler.go:168-259, 262-277).
NobodyForgotten ==
    Quiet => \A p \in Providers : prov[p].exists =>
        /\ prov[p].fin /\ ~prov[p].deleting
        /\ (p = Core \/ (prov[Core].exists /\ prov[Core].ready)) =>
              prov[p].phase = "Ready" /\ applied[p] = secret[p]

\* The components taken away are those of a provider that is being deleted, not of
\* the one that r.Provider happened to hold (operator_reconciler.go:65, 168-171).
DeletedWhenAsked ==
    [][\A p \in Providers : applied[p] # 0 /\ applied'[p] = 0 => prov[p].deleting]_vars

-----------------------------------------------------------------------------
(* The contract. *)

\* What the contract calls knowledge is the core provider in the cache, and the
\* reconciliations that have passed the preflight checks.
Cleared ==
    {p \in Providers : \E w \in Workers :
                          rec[w].for = p /\ rec[w].pc \in {"fetch", "install"}}

ContractProvider(o) ==
    IF ~o.exists THEN "absent" ELSE IF o.deleting THEN "going"
    ELSE IF o.fin THEN "held" ELSE "new"

Contract == INSTANCE ProviderContract WITH
    provider <- [p \in Providers |-> ContractProvider(prov[p])],
    values <- secret, components <- applied,
    ready <- prov[Core].ready, seenReady <- cache[Core].ready,
    cleared <- Cleared

\* The controller implements the contract: components are installed only of a provider
\* that is held, and that need not wait for the core provider as far as the manager
\* knows, with values that are no older than those they have; they are taken away
\* only from a provider that is going, and it is released only without them,
\* whichever copies are merged, whatever fails and wherever the manager stops
\* (operator_reconciler.go:168-171, 262-277).
KeepsProviderContract == Contract!Spec

-----------------------------------------------------------------------------
(* Liveness, under the fairness of the manager. *)

\* A provider that is there to stay, with a core provider that is ready, is not
\* left behind: the core provider's event calls it, or its own after it has noted
\* that it has to wait (operator_reconciler.go:218-259).
WaitersWoken ==
    \A p \in Others :
        ~<>[](/\ prov[p].exists /\ ~prov[p].deleting
              /\ prov[Core].ready
              /\ prov[p].phase # "Ready")

\* What is installed has the values of the Secret in the end, though it was changed
\* after the manifests had been rendered (operator_reconciler.go:189-213).
SecretApplied ==
    \A p \in Providers :
        ~<>[](/\ prov[p].exists /\ ~prov[p].deleting
              /\ (p = Core \/ prov[Core].ready)
              /\ applied[p] # secret[p])

\* A provider that is deleted goes, though its deletion waits for the mounted file
\* and any phase may fail (operator_reconciler.go:168-171).
DeletionCompletes ==
    \A p \in Providers : ~<>[](prov[p].exists /\ prov[p].deleting)
=============================================================================
