-------------------------- MODULE CertificatesProofs --------------------------
(***************************************************************************)
(* The condition WranglerManagedCertificates is earned, for any objects    *)
(* of the provider and any number of failures and changes of the gate.     *)
(***************************************************************************)
EXTENDS CertificateMigration, WellFoundedInduction, TLAPS

\* Nothing of cert-manager is left.
NoCertManager == certs = {} /\ issuers = {} /\ inject = {}

\* A list that was read has all that is left of its kind, and each kind is finished
\* before the next one begins.
Progress ==
    /\ rec.listed => rec.pc \in Cleaning
    /\ rec.pc \in {"certificates", "issuers", "resources"} => gate
    /\ rec.pc = "services" => ~gate
    /\ rec.pc = "certificates" /\ rec.listed => certs \subseteq rec.todo
    /\ rec.pc \in {"issuers", "resources"} => certs = {}
    /\ rec.pc = "issuers" /\ rec.listed => issuers \subseteq rec.todo
    /\ rec.pc = "resources" => issuers = {}
    /\ rec.pc = "resources" /\ rec.listed => inject \subseteq rec.todo
    /\ rec.pc = "services" /\ rec.listed => \A n \in need : n[1] \in rec.todo

\* What the provider in hand says differently from the saved one, it says rightly.
InHand ==
    /\ rec.pc = "idle" => rec.cond = "Unset"
    /\ rec.pc = "restart" => IF gate THEN NoCertManager ELSE need = {}
    /\ rec.cond = "True" /\ cond = "Unset" =>
           gate /\ rec.pc \in {"install", "save"} /\ NoCertManager /\ restarted
    /\ rec.cond = "Unset" /\ cond = "True" /\ rec.pc # "idle" =>
           ~gate /\ rec.pc \in {"install", "save"} /\ need = {}

IInv == TypeOK /\ Progress /\ InHand

-----------------------------------------------------------------------------
(* Induction over the length of a manifest. *)

LEMMA LeastNumber ==
    ASSUME NEW T \in SUBSET Nat, T # {}
    PROVE  \E n \in T : \A m \in T : n <= m
  <1> DEFINE R == OpToRel(<, Nat)
  <1>1. IsWellFoundedOn(R, Nat)
    BY NatLessThanWellFounded
  <1>2. ASSUME NEW n \in Nat, NEW m \in Nat, m < n PROVE <<m, n>> \in R
    BY <1>2 DEF OpToRel
  <1> HIDE DEF R
  <1>3. PICK n \in T : \A m \in T : <<m, n>> \notin R
    BY <1>1, WFMin
  <1>4. ASSUME NEW m \in T PROVE n <= m
    <2>1. ~(m < n)
      BY <1>2, <1>3
    <2> QED BY <2>1
  <1> QED BY <1>4

LEMMA LastNumber ==
    ASSUME NEW n \in Nat, NEW T \in SUBSET (1 .. n), T # {}
    PROVE  Max(T) \in T /\ \A m \in T : m <= Max(T)
  <1> DEFINE Above == {k \in Nat : \A m \in T : m <= k}
  <1>1. PICK k \in Above : \A l \in Above : k <= l
    <2>1. n \in Above
      OBVIOUS
    <2> QED BY <2>1, LeastNumber
  <1>2. k \in T
    <2> SUFFICES ASSUME k \notin T PROVE FALSE
      OBVIOUS
    <2>1. ASSUME NEW m \in T PROVE m <= k - 1
      <3>1. m \in Nat /\ k \in Nat /\ m <= k /\ m # k
        OBVIOUS
      <3> QED BY <3>1
    <2>2. k - 1 \in Nat
      <3>1. PICK m \in T : m \in 1 .. n
        OBVIOUS
      <3>2. m <= k /\ k \in Nat /\ m \in Nat /\ m >= 1
        BY <1>1, <3>1
      <3> QED BY <3>2
    <2> QED BY <1>1, <2>1, <2>2
  <1>3. \E x \in T : \A y \in T : x >= y
    BY <1>2
  <1>4. Max(T) \in T /\ \A y \in T : Max(T) >= y
    BY <1>3 DEF Max
  <1> QED BY <1>4

-----------------------------------------------------------------------------
(* The alterations. *)

SameButIndexed(o, p) ==
    /\ o.kind = p.kind /\ o.name = p.name /\ o.inject = p.inject
    /\ o.secretName = p.secretName /\ o.services = p.services /\ o.need = p.need

\* The label for the index changes nothing else.
LEMMA LabelledObjects ==
    ASSUME NEW objs \in Seq(Object)
    PROVE  /\ AddClusterIndexedLabelFn(objs) \in Seq(Object)
           /\ DOMAIN AddClusterIndexedLabelFn(objs) = DOMAIN objs
           /\ Len(AddClusterIndexedLabelFn(objs)) = Len(objs)
           /\ \A i \in DOMAIN objs :
                 SameButIndexed(AddClusterIndexedLabelFn(objs)[i], objs[i])
  <1> DEFINE labelled == AddClusterIndexedLabelFn(objs)
  <1>1. ASSUME NEW i \in DOMAIN objs
        PROVE  labelled[i] \in Object /\ SameButIndexed(labelled[i], objs[i])
    <2>1. objs[i] \in Object
      OBVIOUS
    <2>2. [objs[i] EXCEPT !.indexed = TRUE] \in Object
          /\ SameButIndexed([objs[i] EXCEPT !.indexed = TRUE], objs[i])
      BY <2>1 DEF Object, SameButIndexed
    <2>3. SameButIndexed(objs[i], objs[i])
      BY DEF SameButIndexed
    <2> QED BY <2>1, <2>2, <2>3 DEF AddClusterIndexedLabelFn
  <1>2. labelled \in [1 .. Len(objs) -> Object]
    BY <1>1 DEF AddClusterIndexedLabelFn
  <1>3. labelled \in Seq(Object) /\ DOMAIN labelled = DOMAIN objs /\ Len(labelled) = Len(objs)
    BY <1>2
  <1> QED BY <1>1, <1>3

\* What WranglerPatcher lets pass has no Certificate, no Issuer and no annotation of
\* cert-manager (wrangler.go:102-122).
LEMMA PatcherCleans ==
    ASSUME NEW objs \in Seq(Object), ~WranglerPatcher(objs).failed,
           NEW i \in DOMAIN WranglerPatcher(objs).objs
    PROVE  /\ WranglerPatcher(objs).objs[i].kind \notin {"Certificate", "Issuer"}
           /\ WranglerPatcher(objs).objs[i].inject = None
  <1> DEFINE services == getServices(objs, getCertificates(objs))
             kept == {j \in DOMAIN objs : objs[j].kind \notin {"Certificate", "Issuer"}}
             Patched(o) ==
                [o EXCEPT !.inject = None,
                          !.need = IF o.kind = "Service" /\ services[o.name] # None
                                   THEN services[o.name] ELSE @]
  <1>1. WranglerPatcher(objs) = Fine([j \in kept |-> Patched(objs[j])])
    BY DEF WranglerPatcher, Refused
  <1>2. i \in kept /\ WranglerPatcher(objs).objs[i] = Patched(objs[i])
    <2> HIDE DEF kept, Patched
    <2> QED BY <1>1 DEF Fine
  <1>3. objs[i] \in Object
    BY <1>2
  <1>4. Patched(objs[i]).kind = objs[i].kind /\ Patched(objs[i]).inject = None
    <2> HIDE DEF services
    <2> QED BY <1>3 DEF Object
  <1> HIDE DEF Patched
  <1> QED BY <1>2, <1>4

\* Whatever the manifest, once altered for wrangler it brings nothing of
\* cert-manager to the API server.
THEOREM PatchedIsClean ==
    ASSUME NEW objs \in Seq(Object), ~Altered(objs, TRUE).failed
    PROVE  LET altered == Altered(objs, TRUE).objs
           IN  CertificatesOf(altered) = {} /\ IssuersOf(altered) = {} /\ InjectedBy(altered) = {}
  <1> DEFINE labelled == AddClusterIndexedLabelFn(objs)
  <1>1. labelled \in Seq(Object)
    BY LabelledObjects
  <1>2. Altered(objs, TRUE) = WranglerPatcher(labelled)
    BY DEF Altered
  <1> HIDE DEF labelled
  <1> QED BY <1>1, <1>2, PatcherCleans DEF CertificatesOf, IssuersOf, InjectedBy

\* The webhooks among the first n objects that a Service serves.
WebhooksOf(objs, n, v) ==
    {k \in 1 .. n : objs[k].kind = "Webhook" /\ objs[k].inject # None /\ v \in objs[k].services}

\* The loop of getServices: what it has found after the first n objects.
IsLoop(found, objs, certificates) ==
    \A n \in 0 .. Len(objs) : found[n] =
        IF n = 0 THEN [s \in Services |-> None]
        ELSE IF objs[n].inject # None /\ objs[n].kind = "Webhook"
        THEN AddWebhookServices(found[n - 1], objs[n], certificates[objs[n].inject])
        ELSE found[n - 1]

LEMMA ServicesLoop ==
    ASSUME NEW objs \in Seq(Object), NEW certificates
    PROVE  \E found :
              /\ getServices(objs, certificates) = found[Len(objs)]
              /\ IsLoop(found, objs, certificates)
  <1> DEFINE Turn(f, n) ==
                IF n = 0 THEN [s \in Services |-> None]
                ELSE IF objs[n].inject # None /\ objs[n].kind = "Webhook"
                THEN AddWebhookServices(f[n - 1], objs[n], certificates[objs[n].inject])
                ELSE f[n - 1]
             Runs(f, n) == \A m \in 0 .. n : f[m] = Turn(f, m)
             Stuck == {n \in Nat : ~ \E f : Runs(f, n)}
  <1>1. ASSUME NEW f, NEW g, NEW n \in Nat, n = 0 \/ f[n - 1] = g[n - 1]
        PROVE  Turn(f, n) = Turn(g, n)
    BY <1>1
  <1> HIDE DEF Turn
  <1>2. Stuck = {}
    <2> SUFFICES ASSUME Stuck # {} PROVE FALSE
      OBVIOUS
    <2>1. PICK n \in Stuck : \A m \in Stuck : n <= m
      BY LeastNumber
    <2>2. PICK f : n = 0 \/ Runs(f, n - 1)
      <3>1. CASE n = 0
        BY <3>1
      <3>2. CASE n # 0
        <4>1. n \in Nat
          OBVIOUS
        <4>2. n - 1 \in Nat /\ ~(n <= n - 1)
          BY <3>2, <4>1
        <4>3. n - 1 \notin Stuck
          <5> HIDE DEF Stuck
          <5> QED BY <2>1, <4>2
        <4> QED BY <4>2, <4>3
      <3> QED BY <3>1, <3>2
    <2> DEFINE g == [m \in 0 .. n |-> IF m = n THEN Turn(f, n) ELSE f[m]]
    <2>3. ASSUME NEW m \in 0 .. n PROVE g[m] = Turn(g, m)
      <3>1. CASE m = n
        <4>1. n = 0 \/ f[n - 1] = g[n - 1]
          OBVIOUS
        <4>2. Turn(f, n) = Turn(g, n)
          <5> HIDE DEF g
          <5> QED BY <1>1, <4>1
        <4> QED BY <3>1, <4>2
      <3>2. CASE m # n
        <4>1. m \in 0 .. (n - 1) /\ g[m] = f[m] /\ f[m] = Turn(f, m)
          BY <2>2, <3>2
        <4>2. m = 0 \/ f[m - 1] = g[m - 1]
          BY <3>2
        <4>3. Turn(f, m) = Turn(g, m)
          <5> HIDE DEF g
          <5> QED BY <1>1, <4>2
        <4> QED BY <4>1, <4>3
      <3> QED BY <3>1, <3>2
    <2> HIDE DEF g
    <2>4. \E h : Runs(h, n)
      BY <2>3
    <2> QED BY <2>1, <2>4
  <1>3. PICK f : Runs(f, Len(objs))
    BY <1>2
  <1> DEFINE g == [m \in 0 .. Len(objs) |-> f[m]]
  <1>4. ASSUME NEW m \in 0 .. Len(objs) PROVE f[m] = Turn(g, m)
    <2>1. m = 0 \/ f[m - 1] = g[m - 1]
      OBVIOUS
    <2>2. Turn(f, m) = Turn(g, m)
      <3> HIDE DEF g
      <3> QED BY <1>1, <2>1
    <2> QED BY <1>3, <2>2
  <1>5. g = [m \in 0 .. Len(objs) |-> Turn(g, m)]
    BY <1>4
  <1> DEFINE found == CHOOSE h : h = [m \in 0 .. Len(objs) |-> Turn(h, m)]
  <1>6. found = [m \in 0 .. Len(objs) |-> Turn(found, m)]
    <2> HIDE DEF g
    <2> QED BY <1>5
  <1>7. getServices(objs, certificates) = found[Len(objs)]
    BY DEF getServices, Turn
  <1> HIDE DEF found
  <1>8. \A n \in 0 .. Len(objs) : found[n] = Turn(found, n)
    BY <1>6
  <1>9. IsLoop(found, objs, certificates)
    BY <1>8 DEF IsLoop, Turn
  <1> QED BY <1>7, <1>9

\* A Service gets the secret of the certificate that the last of its webhooks names,
\* for manifests of any length (wrangler.go:156-240).
THEOREM ServicesFound ==
    ASSUME NEW objs \in Seq(Object), NEW certificates, NEW v \in Services
    PROVE  LET hooks == WebhooksOf(objs, Len(objs), v)
           IN  getServices(objs, certificates)[v] =
                  IF hooks = {} THEN None ELSE certificates[objs[Max(hooks)].inject]
  <1> DEFINE Found(n) ==
                IF WebhooksOf(objs, n, v) = {} THEN None
                ELSE certificates[objs[Max(WebhooksOf(objs, n, v))].inject]
  <1>1. PICK found :
              /\ getServices(objs, certificates) = found[Len(objs)]
              /\ IsLoop(found, objs, certificates)
    BY ServicesLoop
  <1> DEFINE Wrong == {n \in 0 .. Len(objs) : found[n][v] # Found(n)}
  <1>2. Wrong = {}
    <2> SUFFICES ASSUME Wrong # {} PROVE FALSE
      OBVIOUS
    <2>1. PICK n \in Wrong : \A m \in Wrong : n <= m
      <3>1. Wrong \in SUBSET Nat
        OBVIOUS
      <3> HIDE DEF Wrong
      <3> QED BY <3>1, LeastNumber
    <2>2. n \in 0 .. Len(objs) /\ found[n][v] # Found(n)
      BY <2>1
    <2>3. n # 0
      <3> SUFFICES ASSUME n = 0 PROVE FALSE
        OBVIOUS
      <3>1. WebhooksOf(objs, n, v) = {}
        BY DEF WebhooksOf
      <3>2. found[n][v] = None
        BY <1>1, <2>2 DEF IsLoop
      <3> QED BY <2>2, <3>1, <3>2
    <2>4. found[n - 1][v] = Found(n - 1) /\ n \in 1 .. Len(objs) /\ n - 1 \in Nat
      <3>1. n - 1 \in 0 .. Len(objs) /\ n - 1 \notin Wrong
        BY <2>1, <2>2, <2>3
      <3> QED BY <2>2, <2>3, <3>1
    <2> HIDE DEF Found, Wrong
    <2> DEFINE Serves == objs[n].kind = "Webhook" /\ objs[n].inject # None /\ v \in objs[n].services
    <2>5. CASE Serves
      <3>1. n \in WebhooksOf(objs, n, v)
            /\ WebhooksOf(objs, n, v) \in SUBSET (1 .. n)
        BY <2>4, <2>5 DEF WebhooksOf
      <3>2. Max(WebhooksOf(objs, n, v)) = n
        <4> DEFINE T == WebhooksOf(objs, n, v)
        <4> HIDE DEF T
        <4>1. n \in Nat /\ T \in SUBSET (1 .. n) /\ n \in T
          BY <2>4, <3>1 DEF T
        <4>2. Max(T) \in T /\ \A m \in T : m <= Max(T)
          BY <4>1, LastNumber
        <4>3. Max(T) \in 1 .. n /\ n <= Max(T)
          BY <4>1, <4>2
        <4>4. Max(T) = n
          BY <4>1, <4>3
        <4> QED BY <4>4 DEF T
      <3>3. found[n][v] = certificates[objs[n].inject]
        BY <1>1, <2>2, <2>3, <2>5 DEF IsLoop, AddWebhookServices
      <3> QED BY <2>2, <3>1, <3>2, <3>3 DEF Found
    <2>6. CASE ~Serves
      <3>1. WebhooksOf(objs, n, v) = WebhooksOf(objs, n - 1, v)
        BY <2>4, <2>6 DEF WebhooksOf
      <3>2. found[n][v] = found[n - 1][v]
        BY <1>1, <2>2, <2>3, <2>6 DEF IsLoop, AddWebhookServices
      <3> QED BY <2>2, <2>4, <3>1, <3>2 DEF Found
    <2> QED BY <2>5, <2>6
  <1>3. found[Len(objs)][v] = Found(Len(objs))
    BY <1>2
  <1> QED BY <1>1, <1>3

\* The secret of a certificate: the last one of its name.
LEMMA SecretFound ==
    ASSUME NEW objs \in Seq(Object), NEW c \in DOMAIN getCertificates(objs)
    PROVE  \E j \in CertificatesIn(objs) :
              /\ objs[j].name = c /\ getCertificates(objs)[c] = objs[j].secretName
              /\ \A l \in CertificatesIn(objs) : objs[l].name = c => l <= j
  <1> DEFINE Named == {i \in CertificatesIn(objs) : objs[i].name = c}
             j == Max(Named)
  <1>1. Named \in SUBSET (1 .. Len(objs)) /\ Named # {} /\ Len(objs) \in Nat
    BY DEF getCertificates, CertificatesIn
  <1>2. getCertificates(objs)[c] = objs[j].secretName
    BY DEF getCertificates
  <1>3. Max(Named) \in Named /\ \A m \in Named : m <= Max(Named)
    <2> HIDE DEF Named
    <2> QED BY <1>1, LastNumber
  <1> HIDE DEF j
  <1>4. j \in Named /\ \A m \in Named : m <= j
    BY <1>3 DEF j
  <1> QED BY <1>2, <1>4

\* What WranglerPatcher asks for: Services, and what getServices found for them.
LEMMA PatchedNeeds ==
    ASSUME NEW objs \in Seq(Object), ~WranglerPatcher(objs).failed,
           \A i \in DOMAIN objs : objs[i].need = None,
           NEW v \in Services, NEW s \in Secrets
    PROVE  <<v, s>> \in NeedsOf(WranglerPatcher(objs).objs) <=>
              /\ \E i \in DOMAIN objs : objs[i].kind = "Service" /\ objs[i].name = v
              /\ getServices(objs, getCertificates(objs))[v] = s
  <1> DEFINE services == getServices(objs, getCertificates(objs))
             kept == {j \in DOMAIN objs : objs[j].kind \notin {"Certificate", "Issuer"}}
             Patched(o) ==
                [o EXCEPT !.inject = None,
                          !.need = IF o.kind = "Service" /\ services[o.name] # None
                                   THEN services[o.name] ELSE @]
             patched == WranglerPatcher(objs).objs
  <1>1. patched = [j \in kept |-> Patched(objs[j])]
    BY DEF WranglerPatcher, Refused, Fine
  <1>2. ASSUME NEW i \in kept
        PROVE  /\ patched[i].name = objs[i].name
               /\ patched[i].need = IF objs[i].kind = "Service" /\ services[objs[i].name] # None
                                    THEN services[objs[i].name] ELSE None
    <2>1. objs[i] \in Object /\ objs[i].need = None
      OBVIOUS
    <2> HIDE DEF services
    <2>2. /\ Patched(objs[i]).name = objs[i].name
          /\ Patched(objs[i]).need = IF objs[i].kind = "Service" /\ services[objs[i].name] # None
                                     THEN services[objs[i].name] ELSE None
      BY <2>1 DEF Object
    <2> HIDE DEF Patched, kept
    <2> QED BY <1>1, <2>2
  <1>3. DOMAIN patched = kept /\ s # None
    BY <1>1, MigrationAssumption
  <1>4. <<v, s>> \in NeedsOf(patched) <=> \E i \in kept : patched[i].name = v /\ patched[i].need = s
    <2> HIDE DEF patched, kept
    <2> QED BY <1>3 DEF NeedsOf
  <1> HIDE DEF patched, services
  <1> QED BY <1>2, <1>3, <1>4 DEF patched, services

\* A manifest that passes asks for what it wants, and names only what it has.
LEMMA WantedIsApplied ==
    ASSUME manifest \in Manifests, ~Altered(manifest, TRUE).failed
    PROVE  NeedsOf(Altered(manifest, TRUE).objs) = Wanted /\ WellFormed
  <1> DEFINE objs == AddClusterIndexedLabelFn(manifest)
             Hooks(v) == WebhooksOf(objs, Len(objs), v)
             certificates == getCertificates(objs)
             Last(S) == {k \in S : \A l \in S : l <= k}
             Webhooks(v) == {k \in DOMAIN manifest :
                manifest[k].kind = "Webhook" /\ manifest[k].inject # None
                   /\ v \in manifest[k].services}
             Named(c) == {j \in CertificatesIn(manifest) : manifest[j].name = c}
  <1>1. manifest \in Seq(Object) /\ \A i \in DOMAIN manifest : manifest[i].need = None
    BY MigrationAssumption
  <1>2. /\ objs \in Seq(Object) /\ DOMAIN objs = DOMAIN manifest /\ Len(objs) = Len(manifest)
        /\ \A i \in DOMAIN objs : SameButIndexed(objs[i], manifest[i])
    BY <1>1, LabelledObjects
  <1>3. Altered(manifest, TRUE) = WranglerPatcher(objs)
    BY DEF Altered
  <1> HIDE DEF objs
  <1>4. ~Unpatchable(objs)
    <2>1. Unpatchable(objs) => WranglerPatcher(objs) = Refused
      BY ZenonT(30) DEF WranglerPatcher
    <2>2. Refused.failed
      BY DEF Refused
    <2> QED BY <1>3, <2>1, <2>2
  <1>5. CertificatesIn(objs) = CertificatesIn(manifest)
    BY <1>2 DEF CertificatesIn, SameButIndexed
  <1>6. DOMAIN certificates = {manifest[i].name : i \in CertificatesIn(manifest)}
    <2>1. DOMAIN certificates = {objs[i].name : i \in CertificatesIn(objs)}
      BY DEF getCertificates
    <2>2. \A i \in CertificatesIn(manifest) : objs[i].name = manifest[i].name
      BY <1>2 DEF CertificatesIn, SameButIndexed
    <2> HIDE DEF certificates
    <2> QED BY <1>5, <2>1, <2>2
  <1>7. WellFormed
    <2>1. \A i \in CertificatesIn(manifest) : manifest[i].secretName # None
      BY <1>2, <1>4, <1>5 DEF Unpatchable, CertificatesIn, SameButIndexed
    <2>2. \A i \in DOMAIN manifest :
             manifest[i].inject # None => manifest[i].inject \in DOMAIN certificates
      BY <1>2, <1>4 DEF Unpatchable, SameButIndexed
    <2> HIDE DEF certificates
    <2> QED BY <1>6, <2>1, <2>2 DEF WellFormed
  <1>8. ASSUME NEW v \in Services PROVE Webhooks(v) = Hooks(v) /\ Hooks(v) \in SUBSET (1 .. Len(objs))
    BY <1>2 DEF WebhooksOf, SameButIndexed
  <1>9. ASSUME NEW v \in Services, NEW s \in Secrets
        PROVE  getServices(objs, certificates)[v] = s <=>
                  \E k \in Last(Webhooks(v)) : \E j \in Last(Named(manifest[k].inject)) :
                     manifest[j].secretName = s
    <2>0. getServices(objs, certificates)[v] =
             IF Hooks(v) = {} THEN None ELSE certificates[objs[Max(Hooks(v))].inject]
      BY <1>2, ServicesFound
    <2>1. CASE Hooks(v) = {}
      <3>1. getServices(objs, certificates)[v] # s
        BY <2>0, <2>1, MigrationAssumption
      <3>2. Webhooks(v) = {}
        BY <1>8, <2>1
      <3> HIDE DEF Webhooks
      <3> QED BY <3>1, <3>2
    <2>2. CASE Hooks(v) # {}
      <3> DEFINE T == Hooks(v)
                 k == Max(T)
      <3>1. k \in T /\ \A m \in T : m <= k
        <4> HIDE DEF Hooks
        <4>1. T \in SUBSET (1 .. Len(objs)) /\ T # {} /\ Len(objs) \in Nat
          BY <1>2, <1>8, <2>2
        <4> HIDE DEF T
        <4> QED BY <4>1, LastNumber
      <3>2. Last(Webhooks(v)) = {k}
        <4>1. \A m \in T : m \in Nat
          BY <1>8
        <4> HIDE DEF Hooks, Webhooks, k
        <4> QED BY <1>8, <3>1, <4>1
      <3>3. k \in DOMAIN manifest /\ objs[k].inject = manifest[k].inject /\ objs[k].inject # None
        <4> HIDE DEF k
        <4> QED BY <1>2, <1>8, <3>1 DEF SameButIndexed
      <3> DEFINE c == manifest[k].inject
      <3>4. c \in DOMAIN certificates
        BY <1>4, <1>2, <3>3 DEF Unpatchable
      <3>5. getServices(objs, certificates)[v] = certificates[c]
        BY <2>0, <2>2, <3>3
      <3> HIDE DEF c, k, T
      <3>6. PICK j \in CertificatesIn(objs) :
               /\ objs[j].name = c /\ certificates[c] = objs[j].secretName
               /\ \A l \in CertificatesIn(objs) : objs[l].name = c => l <= j
        BY <1>2, <3>4, SecretFound
      <3>7. \A i \in CertificatesIn(objs) :
               /\ objs[i].name = manifest[i].name /\ objs[i].secretName = manifest[i].secretName
               /\ i \in Nat
        BY <1>2 DEF CertificatesIn, SameButIndexed
      <3>8. Last(Named(c)) = {j}
        BY <1>5, <3>6, <3>7
      <3>9. certificates[c] = manifest[j].secretName
        BY <3>6, <3>7
      <3> HIDE DEF Last, Named, Webhooks, certificates
      <3> QED BY <3>2, <3>5, <3>8, <3>9 DEF c
    <2> QED BY <2>1, <2>2
  <1>10. ASSUME NEW v \in Services, NEW s \in Secrets
         PROVE  <<v, s>> \in NeedsOf(WranglerPatcher(objs).objs) <=>
                   /\ \E i \in DOMAIN manifest :
                         manifest[i].kind = "Service" /\ manifest[i].name = v
                   /\ \E k \in Last(Webhooks(v)) : \E j \in Last(Named(manifest[k].inject)) :
                         manifest[j].secretName = s
    <2>1. <<v, s>> \in NeedsOf(WranglerPatcher(objs).objs) <=>
              /\ \E i \in DOMAIN objs : objs[i].kind = "Service" /\ objs[i].name = v
              /\ getServices(objs, certificates)[v] = s
      <3>1. \A i \in DOMAIN objs : objs[i].need = None
        BY <1>1, <1>2 DEF SameButIndexed
      <3>2. ~WranglerPatcher(objs).failed
        BY <1>3
      <3> QED BY <1>2, <3>1, <3>2, PatchedNeeds
    <2>2. (\E i \in DOMAIN objs : objs[i].kind = "Service" /\ objs[i].name = v)
          <=> \E i \in DOMAIN manifest : manifest[i].kind = "Service" /\ manifest[i].name = v
      BY <1>2 DEF SameButIndexed
    <2> HIDE DEF Last, Webhooks, Named, certificates
    <2> QED BY <1>9, <2>1, <2>2
  <1>11. ASSUME NEW n \in Services \X Secrets
         PROVE  n \in NeedsOf(WranglerPatcher(objs).objs) <=> n \in Wanted
    <2>1. PICK v \in Services, s \in Secrets : n = <<v, s>>
      OBVIOUS
    <2>2. n \in Wanted <=>
                   /\ \E i \in DOMAIN manifest :
                         manifest[i].kind = "Service" /\ manifest[i].name = v
                   /\ \E k \in Last(Webhooks(v)) : \E j \in Last(Named(manifest[k].inject)) :
                         manifest[j].secretName = s
      BY <2>1 DEF Wanted
    <2> HIDE DEF Last, Webhooks, Named
    <2> QED BY <1>10, <2>1, <2>2
  <1>12. NeedsOf(WranglerPatcher(objs).objs) \subseteq Services \X Secrets
         /\ Wanted \subseteq Services \X Secrets
    BY DEF NeedsOf, Wanted
  <1> QED BY <1>3, <1>7, <1>11, <1>12

\* So does what is installed with the gate open.
LEMMA InstallAddsNothing ==
    ASSUME TypeOK, Install, gate
    PROVE  certs' = certs /\ issuers' = issuers /\ inject' = inject /\ restarted' = restarted
  <1>1. manifest \in Seq(Object)
    BY MigrationAssumption DEF TypeOK
  <1>2. LET altered == Altered(manifest, gate).objs
        IN  CertificatesOf(altered) = {} /\ IssuersOf(altered) = {} /\ InjectedBy(altered) = {}
    BY <1>1, PatchedIsClean, gate = TRUE DEF Install, TypeOK
  <1> QED BY <1>2 DEF Install, objects, TypeOK

\* With the gate closed no Service is annotated.
LEMMA InstallNeedsNothing ==
    ASSUME TypeOK, Install, ~gate
    PROVE  need' = need
  <1>1. manifest \in Seq(Object) /\ \A i \in DOMAIN manifest : manifest[i].need = None
    BY MigrationAssumption DEF TypeOK
  <1> DEFINE altered == Altered(manifest, gate).objs
  <1>2. \A i \in DOMAIN altered : altered[i].need = None
    BY <1>1 DEF Altered, Fine, AddClusterIndexedLabelFn, Object
  <1>3. NeedsOf(altered) = {}
    BY <1>2, MigrationAssumption DEF NeedsOf
  <1>4. Annotated({}) = need
    BY DEF Annotated
  <1> QED BY <1>3, <1>4 DEF Install, objects

-----------------------------------------------------------------------------
(* The condition. *)

LEMMA InitHolds == Init => IInv
  <1>1. ASSUME Init PROVE TypeOK
    <2>1. certs \subseteq Certificates /\ issuers \subseteq Issuers /\ inject \subseteq Resources
      <3>1. PICK applied \in {<<>>, manifest} :
               /\ certs = CertificatesOf(applied) /\ issuers = IssuersOf(applied)
               /\ inject = InjectedBy(applied)
        BY <1>1 DEF Init
      <3>2. /\ CertificatesOf(applied) \subseteq Certificates
            /\ IssuersOf(applied) \subseteq Issuers /\ InjectedBy(applied) \subseteq Resources
        BY DEF CertificatesOf, IssuersOf, InjectedBy
      <3> QED BY <3>1, <3>2
    <2>2. rec \in Reconciliation /\ used \in [toggles: Nat, faults: Nat]
      BY <1>1 DEF Init, Reconciliation, NoReconciliation, Phases, Status
    <2>3. /\ gate \in BOOLEAN /\ manifest \in Manifests /\ need = {}
          /\ restarted = FALSE /\ cond = "Unset" /\ due = TRUE
      BY <1>1 DEF Init
    <2> QED BY <2>1, <2>2, <2>3 DEF TypeOK, Status
  <1>2. ASSUME Init PROVE Progress /\ InHand
    BY <1>2 DEF Init, Progress, InHand, NoReconciliation, Cleaning
  <1> QED BY <1>1, <1>2 DEF IInv

\* Every step keeps the types.
LEMMA TypeStep == TypeOK /\ [Next]_vars => TypeOK'
  <1> SUFFICES ASSUME TypeOK, [Next]_vars PROVE TypeOK'
    OBVIOUS
  <1> USE DEF TypeOK, Reconciliation, Phases, Cleaning, Status
  <1>1. CASE Begin
    BY <1>1 DEF Begin, FirstStep, NoReconciliation, objects
  <1>2. CASE ListObjects
    <2>1. {n[1] : n \in need} \subseteq Services
      OBVIOUS
    <2>2. Listed(rec.pc) \in SUBSET (Certificates \cup Issuers \cup Resources \cup Services)
      <3> HIDE DEF Reconciliation
      <3> QED BY <1>2, <2>1 DEF ListObjects, Listed
    <2>3. rec' \in Reconciliation
      BY <1>2, <2>2 DEF ListObjects
    <2> QED BY <1>2, <2>3 DEF ListObjects, objects
  <1>3. CASE StepDone
    BY <1>3 DEF StepDone, NextStep, objects
  <1>4. CASE Restart
    BY <1>4 DEF Restart, objects
  <1>5. CASE Fails
    BY <1>5 DEF Fails, Fault, NoReconciliation, objects
  <1>6. CASE Install
    BY <1>6 DEF Install, objects, CertificatesOf, IssuersOf, InjectedBy, NeedsOf, Annotated
  <1>7. CASE Save
    BY <1>7 DEF Save, NoReconciliation, objects
  <1>8. ASSUME NEW o \in Objects, Clean(o) PROVE TypeOK'
    BY <1>8 DEF Clean
  <1>9. CASE Resync
    BY <1>9 DEF Resync, objects
  <1>10. ASSUME NEW r \in Resources, Touch(r) PROVE TypeOK'
    BY <1>10 DEF Touch, Fault, objects
  <1>11. ASSUME NEW g \in BOOLEAN, Start(g) PROVE TypeOK'
    BY <1>11 DEF Start, Fault, NoReconciliation, objects
  <1>12. CASE UNCHANGED vars
    BY <1>12 DEF vars, objects
  <1>13. CASE FetchFails
    BY <1>13 DEF FetchFails, NoReconciliation, objects
  <1> QED
    BY <1>1, <1>2, <1>3, <1>4, <1>5, <1>6, <1>7, <1>8, <1>9, <1>10, <1>11, <1>12, <1>13
    DEF Next, Phase

\* Every step keeps the order of the cleaning and the claim about the provider in
\* hand.
LEMMA ProgressStep == IInv /\ [Next]_vars => Progress' /\ InHand'
  <1> SUFFICES ASSUME IInv, [Next]_vars PROVE Progress' /\ InHand'
    OBVIOUS
  <1> USE DEF IInv, TypeOK, Reconciliation, Phases, Cleaning, Status, Progress, InHand,
              NoCertManager
  <1>1. CASE Begin
    BY <1>1 DEF Begin, FirstStep, NoReconciliation, objects
  <1>2. CASE ListObjects
    BY <1>2 DEF ListObjects, Listed, objects
  <1>3. CASE StepDone
    BY <1>3 DEF StepDone, NextStep, objects
  <1>4. CASE Restart
    BY <1>4 DEF Restart, objects
  <1>5. CASE Fails
    BY <1>5 DEF Fails, NoReconciliation, objects
  <1>6. CASE Install
    <2>1. rec.pc = "install" /\ rec' = [rec EXCEPT !.pc = "save"] /\ gate' = gate /\ cond' = cond
      BY <1>6 DEF Install
    <2>2. gate => certs' = certs /\ issuers' = issuers /\ inject' = inject
                  /\ restarted' = restarted
      BY <1>6, InstallAddsNothing DEF IInv
    <2>3. ~gate => need' = need
      BY <1>6, InstallNeedsNothing
    <2> QED BY <2>1, <2>2, <2>3
  <1>7. CASE Save
    BY <1>7 DEF Save, NoReconciliation, objects
  <1>8. ASSUME NEW o \in Objects, Clean(o) PROVE Progress' /\ InHand'
    BY <1>8 DEF Clean
  <1>9. CASE Resync
    BY <1>9 DEF Resync, objects
  <1>10. ASSUME NEW r \in Resources, Touch(r) PROVE Progress' /\ InHand'
    BY <1>10 DEF Touch, objects
  <1>11. ASSUME NEW g \in BOOLEAN, Start(g) PROVE Progress' /\ InHand'
    BY <1>11 DEF Start, NoReconciliation, objects
  <1>12. CASE UNCHANGED vars
    BY <1>12 DEF vars, objects
  <1>13. CASE FetchFails
    BY <1>13 DEF FetchFails, NoReconciliation, objects
  <1> QED
    BY <1>1, <1>2, <1>3, <1>4, <1>5, <1>6, <1>7, <1>8, <1>9, <1>10, <1>11, <1>12, <1>13
    DEF Next, Phase

\* The variables of the certificate phases keep their types, the saved condition
\* among them, which is never False (wrangler.go:369-375, 422).
THEOREM CertificateTypesCorrect == Spec => []TypeOK
  <1>1. Init => TypeOK
    BY InitHolds DEF IInv
  <1> QED BY <1>1, TypeStep, PTL DEF Spec

\* The order of cleaning is invariant.
THEOREM CleaningInOrder == Spec => []IInv
  <1>1. IInv /\ [Next]_vars => IInv'
    BY TypeStep, ProgressStep DEF IInv
  <1> QED BY <1>1, InitHolds, PTL DEF Spec

\* The condition is saved, or deleted, only after the last step of a phase that went
\* through without an error (wrangler.go:369-375, 422), whatever failed before.
THEOREM CertificatesConditionIsEarned == Spec => ConditionIsEarned
  <1> DEFINE Earned ==
        /\ cond = "Unset" /\ cond' = "True" =>
               certs \cup issuers \cup inject = {} /\ restarted
        /\ cond = "True" /\ cond' = "Unset" => need = {}
  <1>1. ASSUME IInv, [Next]_vars PROVE Earned
    <2> SUFFICES ASSUME cond' # cond PROVE Earned
      OBVIOUS
    <2>1. rec.pc # "idle" /\ cond' = rec.cond
      BY <1>1 DEF Next, Phase, Begin, ListObjects, StepDone, Restart, Fails, FetchFails,
        Install, Save,
        Clean, Resync, Touch, Start, vars
    <2> QED BY <1>1, <2>1 DEF IInv, InHand, NoCertManager
  <1>2. IInv /\ [Next]_vars => [Earned]_vars
    BY <1>1
  <1> QED BY <1>2, CleaningInOrder, PTL DEF Spec, ConditionIsEarned

-----------------------------------------------------------------------------
(* The Services. *)

\* Every annotation of wrangler is one the manifest asks for: the annotations are
\* empty at first, and only taken away or replaced by those of the manifest.
AskedFor == need \subseteq Wanted

\* Install sets all that is wanted, or nothing.
LEMMA InstallSetsWanted ==
    ASSUME TypeOK, AskedFor, Install, need' # need
    PROVE  need' = Wanted /\ WellFormed
  <1> DEFINE altered == Altered(manifest, gate)
  <1>1. gate = TRUE
    BY InstallNeedsNothing DEF TypeOK
  <1>2. manifest \in Manifests /\ ~altered.failed /\ need' = Annotated(NeedsOf(altered.objs))
    BY DEF Install, TypeOK, objects
  <1>3. NeedsOf(altered.objs) = Wanted /\ WellFormed
    BY <1>1, <1>2, WantedIsApplied
  <1> HIDE DEF altered
  <1>4. Annotated(Wanted) = Wanted
    BY DEF Annotated, AskedFor
  <1> QED BY <1>2, <1>3, <1>4

LEMMA AskedForStep ==
    ASSUME IInv, AskedFor, [Next]_vars
    PROVE  AskedFor' /\ (rec.pc = "install" /\ need' # need => need' = Wanted /\ WellFormed)
  <1>1. manifest' = manifest
    BY DEF Next, Phase, Begin, ListObjects, StepDone, Restart, Fails, FetchFails, Install,
       Save, Clean, Resync, Touch, Start, vars
  <1>2. Wanted' = Wanted
    BY <1>1 DEF Wanted, CertificatesIn
  <1>3. CASE need' = need
    BY <1>2, <1>3 DEF AskedFor
  <1>4. CASE need' # need
    <2>1. Install \/ \E o \in Objects : Clean(o)
      BY <1>4 DEF Next, Phase, Begin, ListObjects, StepDone, Restart, Fails, FetchFails,
         Save, Resync, Touch, Start, vars, objects
    <2>2. CASE Install
      BY <1>2, <1>4, <2>2, InstallSetsWanted DEF AskedFor, IInv
    <2>3. ASSUME NEW o \in Objects, Clean(o)
          PROVE  need' \subseteq need /\ rec.pc # "install"
      BY <2>3 DEF Clean, IInv, Progress, Cleaning
    <2> QED BY <1>2, <2>1, <2>2, <2>3 DEF AskedFor
  <1> QED BY <1>3, <1>4

\* The Services ask for the secrets of their webhooks' certificates, and no other
\* Service does, for every manifest (wrangler.go:67-240).
THEOREM WebhooksAreServed == Spec => WebhooksServed
  <1>1. Init => AskedFor
    BY DEF Init, AskedFor
  <1>2. IInv /\ AskedFor /\ [Next]_vars => AskedFor'
    BY AskedForStep
  <1>3. IInv /\ AskedFor /\ [Next]_vars
        => [rec.pc = "install" /\ need' # need => need' = Wanted /\ WellFormed]_vars
    BY AskedForStep
  <1> QED BY <1>1, <1>2, <1>3, CleaningInOrder, PTL DEF Spec, WebhooksServed

-----------------------------------------------------------------------------
(* A provider that is left alone is in order.                               *)

\* What a reconciliation that has cleaned goes on with: the condition of the gate, and
\* on the way back no Service that asks for a certificate.
Cleaned ==
    rec.pc \in {"install", "save"} =>
        IF gate THEN rec.cond = "True" ELSE rec.cond = "Unset" /\ need = {}

\* When nothing is left to be done for a provider, it is in the state that the gate
\* asks for.
LeftInOrder ==
    ~due /\ rec.pc = "idle" => IF gate THEN cond = "True" ELSE cond = "Unset" /\ need = {}

LEMMA LeftInOrderStep ==
    ASSUME IInv, Cleaned, LeftInOrder, [Next]_vars
    PROVE  Cleaned' /\ LeftInOrder'
  <1> USE DEF IInv, TypeOK, Reconciliation, Phases, Cleaning, Status, Progress, InHand,
              Cleaned, LeftInOrder
  <1>1. CASE Begin
    BY <1>1 DEF Begin, FirstStep, NoReconciliation, objects
  <1>2. CASE ListObjects
    BY <1>2 DEF ListObjects, objects
  <1>3. CASE StepDone
    BY <1>3 DEF StepDone, NextStep, objects
  <1>4. CASE Restart
    BY <1>4 DEF Restart, objects
  <1>5. CASE Fails
    BY <1>5 DEF Fails, NoReconciliation, objects
  <1>6. CASE Install
    <2>1. /\ rec.pc = "install" /\ rec' = [rec EXCEPT !.pc = "save"]
          /\ gate' = gate /\ cond' = cond /\ due' = due
      BY <1>6 DEF Install
    <2>2. ~gate => need' = need
      BY <1>6, InstallNeedsNothing
    <2> QED BY <2>1, <2>2
  <1>7. CASE Save
    BY <1>7 DEF Save, NoReconciliation, objects
  <1>8. ASSUME NEW o \in Objects, Clean(o) PROVE Cleaned' /\ LeftInOrder'
    BY <1>8 DEF Clean
  <1>9. CASE Resync
    BY <1>9 DEF Resync, objects
  <1>10. ASSUME NEW r \in Resources, Touch(r) PROVE Cleaned' /\ LeftInOrder'
    BY <1>10 DEF Touch, objects
  <1>11. ASSUME NEW g \in BOOLEAN, Start(g) PROVE Cleaned' /\ LeftInOrder'
    BY <1>11 DEF Start, NoReconciliation, objects
  <1>12. CASE UNCHANGED vars
    BY <1>12 DEF vars, objects
  <1>13. CASE FetchFails
    BY <1>13 DEF FetchFails, NoReconciliation, objects
  <1> QED
    BY <1>1, <1>2, <1>3, <1>4, <1>5, <1>6, <1>7, <1>8, <1>9, <1>10, <1>11, <1>12, <1>13
    DEF Next, Phase

\* No reconciliation gives up half-way: whatever failed, conflicted or restarted, a
\* provider for which no request is left has the condition with the gate open, and
\* with the gate closed neither the condition nor an annotation of wrangler
\* (wrangler.go:247-429).
THEOREM ProviderIsLeftInOrder == Spec => []LeftInOrder
  <1>1. Init => Cleaned /\ LeftInOrder
    BY DEF Init, Cleaned, LeftInOrder, NoReconciliation
  <1>2. IInv /\ (Cleaned /\ LeftInOrder) /\ [Next]_vars => (Cleaned /\ LeftInOrder)'
    BY LeftInOrderStep
  <1> QED BY <1>1, <1>2, CleaningInOrder, PTL DEF Spec
=============================================================================
