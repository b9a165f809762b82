--------------------------- MODULE ProviderManifest ---------------------------
(***************************************************************************)
(* What becomes of the manifest of a provider before it is applied: the    *)
(* functions that alter it (internal/provider/rancher.go, wrangler.go      *)
(* 67-240).  A manifest is a sequence of objects, in the order of the file *)
(* that was fetched.                                                       *)
(***************************************************************************)
EXTENDS Naturals, Sequences, FiniteSetsExt

CONSTANTS
    Certificates, Issuers,  \* objects of cert-manager
    Resources,              \* CRDs and webhook configurations
    Services, Secrets,
    None

Kinds == {"Certificate", "Issuer", "CRD", "Webhook", "Service"}

\* The two kinds of webhook configurations are treated alike.
Object ==
    [kind: Kinds, name: Certificates \cup Issuers \cup Resources \cup Services,
     inject: Certificates \cup {None},    \* cert-manager.io/inject-ca-from
     secretName: Secrets \cup {None},     \* of a Certificate
     services: SUBSET Services,           \* that the webhooks are served by
     need: Secrets \cup {None},           \* need-a-cert.cattle.io/secret-name
     indexed: BOOLEAN]                    \* auth.cattle.io/cluster-indexed

\* An alteration gives a manifest or fails.
Fine(objs) == [failed |-> FALSE, objs |-> objs]
Refused    == [failed |-> TRUE, objs |-> <<>>]

AddClusterIndexedLabelFn(objs) ==
    [i \in DOMAIN objs |->
        IF objs[i].kind = "CRD" THEN [objs[i] EXCEPT !.indexed = TRUE] ELSE objs[i]]

-----------------------------------------------------------------------------
(* WranglerPatcher. *)

CertificatesIn(objs) == {i \in DOMAIN objs : objs[i].kind = "Certificate"}

\* The secrets by Certificate; the last one of a name decides.
getCertificates(objs) ==
    LET Named(c) == {i \in CertificatesIn(objs) : objs[i].name = c}
    IN  [c \in {objs[i].name : i \in CertificatesIn(objs)} |-> objs[Max(Named(c))].secretName]

\* Mutant: the first webhook that names a Service decides.
MutAddWebhookServices(services, o, secret) ==
    [s \in Services |->
        IF s \in o.services /\ services[s] = None THEN secret ELSE services[s]]

\* The Services of a webhook configuration get the secret of its certificate, in
\* the place of one they may have from an earlier configuration.
AddWebhookServices(services, o, secret) ==
    [s \in Services |-> IF s \in o.services THEN secret ELSE services[s]]

\* The secrets by Service, after the first n objects.
getServices(objs, certificates) ==
    LET found[n \in 0 .. Len(objs)] ==
            IF n = 0 THEN [s \in Services |-> None]
            ELSE IF objs[n].inject # None /\ objs[n].kind = "Webhook"
            THEN AddWebhookServices(found[n - 1], objs[n], certificates[objs[n].inject])
            ELSE found[n - 1]
    IN  found[Len(objs)]

\* A Certificate without a secret is an error, and so is an injection from a
\* Certificate that the manifest does not have, on an object of any kind.
Unpatchable(objs) ==
    \/ \E i \in CertificatesIn(objs) : objs[i].secretName = None
    \/ \E i \in DOMAIN objs : objs[i].inject \notin DOMAIN getCertificates(objs) \cup {None}

\* What is left keeps its place.
WranglerPatcher(objs) ==
    LET services == getServices(objs, getCertificates(objs))
        kept == {i \in DOMAIN objs : objs[i].kind \notin {"Certificate", "Issuer"}}
        Patched(o) ==
            [o EXCEPT !.inject = None,
                      !.need = IF o.kind = "Service" /\ services[o.name] # None
                               THEN services[o.name] ELSE @]
    IN  IF Unpatchable(objs) THEN Refused
        ELSE Fine([i \in kept |-> Patched(objs[i])])

\* The functions that the reconciler is built with, in their order.
Altered(objs, noCertManager) ==
    IF noCertManager THEN WranglerPatcher(AddClusterIndexedLabelFn(objs))
    ELSE Fine(AddClusterIndexedLabelFn(objs))

-----------------------------------------------------------------------------
(* What a manifest makes of the API server when it is applied. *)

CertificatesOf(objs) ==
    {c \in Certificates : \E i \in DOMAIN objs : objs[i].kind = "Certificate" /\ objs[i].name = c}
IssuersOf(objs) ==
    {c \in Issuers : \E i \in DOMAIN objs : objs[i].kind = "Issuer" /\ objs[i].name = c}
InjectedBy(objs) ==
    {r \in Resources : \E i \in DOMAIN objs : objs[i].name = r /\ objs[i].inject # None}
NeedsOf(objs) ==
    {n \in Services \X Secrets :
        \E i \in DOMAIN objs : objs[i].name = n[1] /\ objs[i].need = n[2]}
=============================================================================
