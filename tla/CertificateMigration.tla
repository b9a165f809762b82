------------------------ MODULE CertificateMigration -------------------------
(***************************************************************************)
(* The two phases that move a provider from the certificates of            *)
(* cert-manager to those of wrangler and back (internal/provider/          *)
(* wrangler.go), with the phases around them.  Which one runs is decided   *)
(* by the feature gate NoCertManager, fixed while the manager runs.        *)
(***************************************************************************)
EXTENDS ProviderManifest

CONSTANTS
    Manifests,              \* what a provider may be made of
    MaxToggles,             \* bound: restarts that change the feature gate
    MaxFaults               \* bound: failing calls, restarts, foreign updates

ASSUME MigrationAssumption ==
    /\ MaxToggles \in Nat /\ MaxFaults \in Nat
    /\ Manifests \subseteq Seq(Object)
    \* As they are published, they ask for nothing of wrangler.
    /\ \A m \in Manifests : \A i \in DOMAIN m : m[i].need = None
    /\ None \notin Secrets

VARIABLES
    gate,       \* NoCertManager
    manifest,   \* of the provider, as it is fetched
    certs, issuers,  \* of the provider, on the API server
    inject,     \* Resources with the annotation cert-manager.io/inject-ca-from
    need,       \* the annotations need-a-cert.cattle.io/secret-name of Services
    restarted,  \* history: pods were rolled out since the objects above changed
    cond,       \* the condition WranglerManagedCertificates, as it is saved
    due,        \* there is a request for the provider
    rec,        \* the reconciliation
    used        \* how much of each bound has been used

objects == <<certs, issuers, inject, need>>
vars == <<gate, manifest, objects, restarted, cond, due, rec, used>>

-----------------------------------------------------------------------------

Cleaning == {"certificates", "issuers", "resources", "services"}
Phases   == {"idle", "restart", "install", "save"} \cup Cleaning
Status   == {"Unset", "True"}

Reconciliation ==
    [pc: Phases, listed: BOOLEAN,   \* the phase has its list
     todo: SUBSET (Certificates \cup Issuers \cup Resources \cup Services),
     stale: SUBSET Resources,       \* updated by others since the list was read
     cond: Status]                  \* of the provider in hand

TypeOK ==
    /\ gate \in BOOLEAN
    /\ certs \subseteq Certificates /\ issuers \subseteq Issuers
    /\ manifest \in Manifests
    /\ inject \subseteq Resources /\ need \subseteq Services \X Secrets
    /\ restarted \in BOOLEAN
    /\ cond \in Status
    /\ due \in BOOLEAN
    /\ rec \in Reconciliation
    /\ used \in [toggles: Nat, faults: Nat]

NoReconciliation ==
    [pc |-> "idle", listed |-> FALSE, todo |-> {}, stale |-> {}, cond |-> "Unset"]

Fault == used.faults < MaxFaults /\ used' = [used EXCEPT !.faults = @ + 1]

-----------------------------------------------------------------------------
(* CleanupCertManagerResources and CleanupWranglerResources.                *)

\* Mutant: Services that ask for a certificate count as a conversion.
MutFirstStep ==
    IF ~gate THEN "services" ELSE IF need # {} THEN "install" ELSE "certificates"

\* Mutant: a provider without the condition has nothing of wrangler.
MutNotConverted ==
    IF cond = "True" THEN IF gate THEN "install" ELSE "services"
    ELSE IF gate THEN "certificates" ELSE "install"

\* Where each begins.  A provider that is converted is left alone by the one; the
\* other asks for a status False, which is never set.
FirstStep ==
    IF ~gate THEN "services" ELSE IF cond = "True" THEN "install" ELSE "certificates"

Begin ==
    /\ due /\ rec.pc = "idle"
    /\ due' = FALSE
    /\ rec' = [NoReconciliation EXCEPT !.pc = FirstStep, !.cond = cond]
    /\ UNCHANGED <<gate, manifest, objects, restarted, cond, used>>

Listed(step) ==
    CASE step = "certificates" -> certs
      [] step = "issuers"      -> issuers
      [] step = "resources"    -> inject
      [] step = "services"     -> {n[1] : n \in need}

ListObjects ==
    /\ rec.pc \in Cleaning /\ ~rec.listed
    /\ rec' = [rec EXCEPT !.listed = TRUE, !.todo = Listed(rec.pc), !.stale = {}]
    /\ UNCHANGED <<gate, manifest, objects, restarted, cond, due, used>>

\* Delete, or Update without the annotation.
Clean(o) ==
    /\ rec.listed /\ o \in rec.todo \ rec.stale
    /\ certs' = certs \ {o} /\ issuers' = issuers \ {o}
    /\ inject' = inject \ {o} /\ need' = {n \in need : n[1] # o}
    /\ restarted' = FALSE
    /\ rec' = [rec EXCEPT !.todo = @ \ {o}]
    /\ UNCHANGED <<gate, manifest, cond, due, used>>

\* Mutant: the issuers are forgotten.
MutNextStep(step) ==
    IF step = "certificates" THEN "resources" ELSE "restart"

NextStep(step) ==
    CASE step = "certificates" -> "issuers"
      [] step = "issuers"      -> "resources"
      [] OTHER                 -> "restart"

StepDone ==
    /\ rec.pc \in Cleaning /\ rec.listed /\ rec.todo = {}
    /\ rec' = [rec EXCEPT !.pc = NextStep(rec.pc), !.listed = FALSE, !.stale = {}]
    /\ UNCHANGED <<gate, manifest, objects, restarted, cond, due, used>>

\* Mutant: the condition says False after the way back.
MutRestart ==
    /\ rec.pc = "restart"
    /\ restarted' = TRUE
    /\ rec' = [rec EXCEPT !.pc = "install", !.cond = IF gate THEN "True" ELSE "False"]
    /\ UNCHANGED <<gate, manifest, objects, cond, due, used>>

\* providerDeploymentRestart; then the condition is set, or deleted.
Restart ==
    /\ rec.pc = "restart"
    /\ restarted' = TRUE
    /\ rec' = [rec EXCEPT !.pc = "install", !.cond = IF gate THEN "True" ELSE "Unset"]
    /\ UNCHANGED <<gate, manifest, objects, cond, due, used>>

\* A call fails, or an Update conflicts: the request comes back.  The provider in
\* hand is saved all the same, if that does not fail as well.
Fails ==
    /\ rec.pc # "idle"
    /\ \/ Fault
       \/ rec.todo \cap rec.stale # {} /\ UNCHANGED used
    /\ cond' \in {cond, rec.cond}
    /\ rec' = NoReconciliation
    /\ due' = TRUE
    /\ UNCHANGED <<gate, manifest, objects, restarted>>

-----------------------------------------------------------------------------
(* The phases of the cluster-api-operator, the processes around.            *)

\* Fetch, with the alterations: a manifest that cannot be patched ends the
\* reconciliation, after the cleaning.  The request comes back.
FetchFails ==
    /\ rec.pc = "install"
    /\ Altered(manifest, gate).failed
    /\ cond' = rec.cond
    /\ rec' = NoReconciliation
    /\ due' = TRUE
    /\ UNCHANGED <<gate, manifest, objects, restarted, used>>

\* The annotations are set, in the place of others on the same Services.
Annotated(needs) == needs \cup {n \in need : n[1] \notin {m[1] : m \in needs}}

\* The manifest is applied, or the provider is up to date.
Install ==
    LET altered == Altered(manifest, gate)
    IN /\ rec.pc = "install" /\ ~altered.failed
       /\ rec' = [rec EXCEPT !.pc = "save"]
       /\ \/ /\ certs' = certs \cup CertificatesOf(altered.objs)
             /\ issuers' = issuers \cup IssuersOf(altered.objs)
             /\ inject' = inject \cup InjectedBy(altered.objs)
             /\ need' = Annotated(NeedsOf(altered.objs))
             /\ restarted' = (restarted /\ gate)
          \/ UNCHANGED <<objects, restarted>>
       /\ UNCHANGED <<gate, manifest, cond, due, used>>

\* The provider is patched when its reconciliation ends.
Save ==
    /\ rec.pc = "save"
    /\ cond' = rec.cond
    /\ rec' = NoReconciliation
    /\ due' = (due \/ cond' # cond)
    /\ UNCHANGED <<gate, manifest, objects, restarted, used>>

\* The injector of cert-manager updates what it injects into.
Touch(r) ==
    /\ rec.pc = "resources" /\ rec.listed /\ r \notin rec.stale
    /\ rec' = [rec EXCEPT !.stale = @ \cup {r}]
    /\ Fault
    /\ UNCHANGED <<gate, manifest, objects, restarted, cond, due>>

\* The manager stops and starts, with the same flags or with others.
Start(g) ==
    /\ gate' = g
    /\ rec' = NoReconciliation
    /\ due' = TRUE
    /\ IF g = gate THEN Fault
       ELSE /\ used.toggles < MaxToggles
            /\ used' = [used EXCEPT !.toggles = @ + 1]
    /\ UNCHANGED <<manifest, objects, restarted, cond>>

\* Every SyncPeriod.
Resync ==
    /\ ~due
    /\ due' = TRUE
    /\ UNCHANGED <<gate, manifest, objects, restarted, cond, rec, used>>

-----------------------------------------------------------------------------

\* A new provider, or one that was installed with cert-manager.
Init ==
    /\ gate \in BOOLEAN
    /\ manifest \in Manifests
    /\ \E applied \in {<<>>, manifest} :
          /\ certs = CertificatesOf(applied)
          /\ issuers = IssuersOf(applied)
          /\ inject = InjectedBy(applied)
    /\ need = {}
    /\ restarted = FALSE
    /\ cond = "Unset"
    /\ due = TRUE
    /\ rec = NoReconciliation
    /\ used = [toggles |-> 0, faults |-> 0]

Objects == Certificates \cup Issuers \cup Resources \cup Services

Phase ==
    \/ Begin \/ ListObjects \/ StepDone \/ Restart \/ Fails
    \/ FetchFails \/ Install \/ Save
    \/ \E o \in Objects : Clean(o)

Next ==
    \/ Phase \/ Resync
    \/ \E r \in Resources : Touch(r)
    \/ \E g \in BOOLEAN : Start(g)

Spec == Init /\ [][Next]_vars

\* The manager works.
FairSpec == Spec /\ WF_vars(Phase) /\ WF_vars(Resync)

-----------------------------------------------------------------------------
(* What the phases promise. *)

\* The condition is saved only when nothing of cert-manager is left and the pods
\* were rolled out after the last of it was taken away, and deleted only when no
\* Service asks for a certificate: through failures, conflicts and restarts, and
\* however many reconciliations it takes (wrangler.go:247-378, 381-420).
ConditionIsEarned ==
    [][/\ cond = "Unset" /\ cond' = "True" => certs \cup issuers \cup inject = {} /\ restarted
       /\ cond = "True" /\ cond' = "Unset" => need = {}]_vars

\* A Service and the secret of the certificate that the last of its webhooks names.
Wanted ==
    LET Last(S) == {k \in S : \A l \in S : l <= k}
        Webhooks(v) == {k \in DOMAIN manifest :
            manifest[k].kind = "Webhook" /\ manifest[k].inject # None /\ v \in manifest[k].services}
        Named(c) == {j \in CertificatesIn(manifest) : manifest[j].name = c}
    IN  {n \in Services \X Secrets :
            /\ \E i \in DOMAIN manifest :
                  manifest[i].kind = "Service" /\ manifest[i].name = n[1]
            /\ \E k \in Last(Webhooks(n[1])) : \E j \in Last(Named(manifest[k].inject)) :
                  manifest[j].secretName = n[2]}

\* No certificate without a secret, and none that is named and not there.
WellFormed ==
    /\ \A i \in CertificatesIn(manifest) : manifest[i].secretName # None
    /\ \A i \in DOMAIN manifest : manifest[i].inject # None =>
          \E j \in CertificatesIn(manifest) : manifest[j].name = manifest[i].inject

\* Whatever is applied for wrangler, the Services that the webhooks of cert-manager
\* are served by ask for the secrets of the certificates named there, no other
\* Service does, and the manifest is one that names only what it has
\* (wrangler.go:67-240).
WebhooksServed ==
    [][rec.pc = "install" /\ need' # need => need' = Wanted /\ WellFormed]_vars

\* With the gate open a provider gets its condition in the end, whatever failed on
\* the way: a phase that fails is tried again from its start (wrangler.go:247-378).
ConversionCompletes ==
    <>[]gate => <>[](cond = "True")

\* With the gate closed the condition and the annotations of wrangler go, those of
\* a conversion that was interrupted too (wrangler.go:381-429).
ReversionCompletes == <>[]~gate => <>[](cond = "Unset" /\ need = {})

-----------------------------------------------------------------------------
(* Said by the repository, not kept by the code. *)

\* wrangler.go:250-252: "Provider already converted to Wrangler. Nothing to do.": a
\* provider with the condition needs no cleaning.
ConvertedIsClean ==
    gate /\ cond = "True" => certs \cup issuers \cup inject = {}

\* wrangler.go:383-386: "Provider not converted to Wrangler. Nothing to do.": a
\* provider that was never converted is not rolled out by the way back.
UnconvertedIsLeft ==
    [][rec.pc = "services" /\ rec'.pc = "restart" => rec.cond = "True"]_vars
=============================================================================
