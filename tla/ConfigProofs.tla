----------------------------- MODULE ConfigProofs -----------------------------
(***************************************************************************)
(* Proofs about the configuration of the providers, for any versions,      *)
(* registries, requests and bounds: type correctness, that the ConfigMap   *)
(* is right whenever its controller has nothing left to do, and that with  *)
(* updates off no version is raised or replaced by "latest".               *)
(***************************************************************************)
EXTENDS ProviderConfig, TLAPS

-----------------------------------------------------------------------------
(* Types. *)

\* What the configuration renders, for any of its sources.
LEMMA ContentType ==
    ASSUME NEW b \in Known, NEW o \in Overrides, NEW r \in Registries
    PROVE  Content(b, o, r) \in Contents
BY DEF Content, Contents, Known, Overrides

\* A version that is set is one of the versions, or "latest".
LEMMA NextVersionType ==
    ASSUME NEW known \in Known, known # Invalid,
           NEW version \in Versions \cup {None, Latest}, NEW auto \in BOOLEAN
    PROVE  NextVersion(known, version, auto) \in Versions \cup {None, Latest}
BY DEF NextVersion, Known

\* The types hold at the start.
LEMMA InitType == Init => TypeOK
<1> SUFFICES ASSUME Init PROVE TypeOK
  OBVIOUS
<1>1. rec \in Reconciliation
  BY DEF Init, Reconciliation, Phases, Provider
<1> QED
  BY <1>1, ConfigAssumption DEF Init, TypeOK, Overrides

\* Every step keeps the types.
LEMMA NextType == TypeOK /\ [Next]_vars => TypeOK'
<1> SUFFICES ASSUME TypeOK, [Next]_vars PROVE TypeOK'  OBVIOUS
<1> USE DEF cfgVars, provVars
<1>0. ClusterConfig \in Contents  BY ContentType DEF ClusterConfig, TypeOK
<1>1. ASSUME NEW q \in Requests, ReadConfig(q) PROVE TypeOK'
  BY <1>0, <1>1 DEF ReadConfig, TypeOK
<1>2. ASSUME NEW q \in Requests, PatchConfigMap(q) PROVE TypeOK'
  BY <1>2, ConfigAssumption DEF PatchConfigMap, WriteConfigMap, TypeOK
<1>3. ASSUME NEW q \in Requests, SyncFails(q) PROVE TypeOK'
  BY <1>3 DEF SyncFails, Fault, TypeOK
<1>4. CASE ReadFile
  BY <1>0, <1>4 DEF ReadFile, TypeOK, Reconciliation, Phases, Provider
<1>5. CASE Compare
  <2>1. rec' \in Reconciliation
    <3>1. rec \in Reconciliation
      BY DEF TypeOK
    <3>2. CASE rec' = [rec EXCEPT !.pc = "version"]
      BY <3>1, <3>2 DEF Reconciliation, Phases
    <3>3. CASE Finish(TRUE)
      BY <3>1, <3>3 DEF Finish, Reconciliation, Phases
    <3> QED  BY <1>5, <3>2, <3>3 DEF Compare
  <2> QED  BY <1>5, <2>1 DEF Compare, Finish, TypeOK
<1>6. CASE SetLatestVersion
  <2>1. NextVersion(ClusterConfig.known, rec.version, rec.from.auto)
           \in Versions \cup {None, Latest}
    BY <1>0, <1>6, NextVersionType
       DEF SetLatestVersion, Contents, TypeOK, Reconciliation, Provider
  <2> QED  BY <1>6, <2>1 DEF SetLatestVersion, TypeOK, Reconciliation, Phases
<1>7. CASE Install
  <2>1. PICK v \in {rec.version} \cup (IF rec.version = None THEN Versions ELSE {}) :
           rec' = [rec EXCEPT !.pc = "save", !.version = v]
    BY <1>7 DEF Install
  <2>2. v \in Versions \cup {None, Latest}
    BY DEF TypeOK, Reconciliation
  <2>3. rec' \in Reconciliation
    BY <2>1, <2>2 DEF TypeOK, Reconciliation, Phases
  <2> QED  BY <1>7, <2>3 DEF Install, TypeOK
<1>8. CASE Save
  <2>1. prov' \in Provider
    BY <1>8 DEF Save, Admitted, TypeOK, Reconciliation, Provider
  <2> QED  BY <1>8, <2>1 DEF Save, Finish, TypeOK, Reconciliation, Phases
<1>19. CASE SaveRefused
  BY <1>19 DEF SaveRefused, Finish, TypeOK, Reconciliation, Phases
<1>9. CASE PhaseFails
  <2>1. prov' \in Provider
    BY <1>9 DEF PhaseFails, Admitted, TypeOK, Reconciliation, Provider
  <2>2. used' \in [edits: Nat, faults: Nat]
    BY <1>9 DEF PhaseFails, Fault, TypeOK
  <2> QED
    BY <1>9, <2>1, <2>2 DEF PhaseFails, Finish, TypeOK, Reconciliation, Phases
<1>10. CASE Kubelet  BY <1>10 DEF Kubelet, TypeOK
<1>11. ASSUME NEW o \in Overrides, SetOverride(o) PROVE TypeOK'
  <2>1. rec' \in Reconciliation
    BY <1>11, ContentType DEF SetOverride, Intends, TypeOK, Reconciliation
  <2>2. used' \in [edits: Nat, faults: Nat]  BY <1>11 DEF SetOverride, Edit, TypeOK
  <2> QED  BY <1>11, <2>1, <2>2, ConfigAssumption DEF SetOverride, TypeOK
<1>12. ASSUME NEW q \in Requests, OtherObject(q) PROVE TypeOK'
  BY <1>12 DEF OtherObject, Edit, TypeOK
<1>13. ASSUME NEW r \in Registries, SetRegistry(r) PROVE TypeOK'
  <2>1. rec' \in Reconciliation
    BY <1>13, ContentType DEF SetRegistry, Intends, TypeOK, Reconciliation
  <2>2. used' \in [edits: Nat, faults: Nat]  BY <1>13 DEF SetRegistry, Edit, TypeOK
  <2> QED  BY <1>13, <2>1, <2>2 DEF SetRegistry, TypeOK
<1>14. ASSUME NEW b \in Known, Upgrade(b) PROVE TypeOK'
  <2>1. rec' \in Reconciliation
    BY <1>14 DEF Upgrade, TypeOK, Reconciliation, Phases
  <2>2. used' \in [edits: Nat, faults: Nat]  BY <1>14 DEF Upgrade, Edit, TypeOK
  <2> QED  BY <1>14, <2>1, <2>2, ConfigAssumption DEF Upgrade, TypeOK
<1>15. ASSUME NEW p \in Provider, EditProvider(p) PROVE TypeOK'
  BY <1>15 DEF EditProvider, Edit, TypeOK
<1>16. ASSUME NEW c \in Contents \cup {None}, EditConfigMap(c) PROVE TypeOK'
  BY <1>16, ConfigAssumption DEF EditConfigMap, WriteConfigMap, Edit, TypeOK
<1>17. CASE Resync  BY <1>17, ConfigAssumption DEF Resync, TypeOK
<1>18. CASE UNCHANGED vars  BY <1>18 DEF vars, TypeOK
<1> QED
  BY <1>1, <1>2, <1>3, <1>4, <1>5, <1>6, <1>7, <1>8, <1>9, <1>10, <1>11, <1>12,
     <1>13, <1>14, <1>15, <1>16, <1>17, <1>18, <1>19
  DEF Next, Syncs, Phase, Environment

\* The variables of the specification keep their types.
THEOREM ConfigTypesCorrect == Spec => []TypeOK
<1>1. Init => TypeOK  BY InitType
<1>2. TypeOK /\ [Next]_vars => TypeOK'  BY NextType
<1> QED  BY <1>1, <1>2, PTL DEF Spec

-----------------------------------------------------------------------------
(* The ConfigMap. *)

\* A content that says of the provider what the configuration says.
Current(c) == c # None /\ c.known = ClusterConfig.known

\* The request of the ConfigMap is due, or its reconciliation has read what is
\* current, or the ConfigMap is current.
SyncInv == Own \in cfgDue \/ Current(sync[Own]) \/ Current(configMap)

\* The invariant implies the property.
LEMMA SyncInvImplies == TypeOK /\ SyncInv => QuietIsSynced
BY ConfigAssumption DEF TypeOK, SyncInv, QuietIsSynced, Current

\* Whatever is written, the event of a change makes the request due.
LEMMA WriteKeepsSync ==
    ASSUME SyncInv, NEW STATE c, WriteConfigMap(c),
           UNCHANGED <<base, override, registry>>,
           \/ sync'[Own] = sync[Own]
           \/ c = sync[Own]
    PROVE  SyncInv'
<1>1. ClusterConfig' = ClusterConfig  BY DEF ClusterConfig, Content
<1>2. CASE c # configMap  BY <1>2 DEF WriteConfigMap, SyncInv
<1>3. CASE c = configMap  BY <1>1, <1>3 DEF WriteConfigMap, SyncInv, Current
<1> QED  BY <1>2, <1>3

\* The invariant is inductive.
LEMMA SyncInvNext == TypeOK /\ SyncInv /\ [Next]_vars => SyncInv'
<1> SUFFICES ASSUME TypeOK, SyncInv, [Next]_vars PROVE SyncInv'  OBVIOUS
<1> USE DEF cfgVars, provVars
<1>1. ASSUME NEW q \in Requests, ReadConfig(q) PROVE SyncInv'
  <2>1. ClusterConfig' = ClusterConfig /\ configMap' = configMap
    BY <1>1 DEF ReadConfig, ClusterConfig, Content
  <2>2. CASE q = Own
    <3>1. sync'[Own] = ClusterConfig  BY <1>1, <2>2 DEF ReadConfig, TypeOK
    <3>2. ClusterConfig # None
      <4>1. ClusterConfig \in Contents
        BY ContentType DEF ClusterConfig, TypeOK
      <4>2. Contents
               \subseteq [known: Nat \cup {Latest, Invalid, Unknown}, registry: Registries]
        BY ConfigAssumption DEF Contents, Known, Versions
      <4> QED  BY <4>1, <4>2, ConfigAssumption
    <3> QED  BY <2>1, <3>1, <3>2 DEF SyncInv, Current
  <2>3. CASE q # Own
    BY <1>1, <2>1, <2>3, ConfigAssumption DEF ReadConfig, SyncInv, Current, TypeOK
  <2> QED  BY <2>2, <2>3
<1>2. ASSUME NEW q \in Requests, PatchConfigMap(q) PROVE SyncInv'
  <2>1. WriteConfigMap(sync[q]) /\ UNCHANGED <<base, override, registry>>
    BY <1>2 DEF PatchConfigMap
  <2>2. sync'[Own] = sync[Own] \/ sync[q] = sync[Own]
    BY <1>2, ConfigAssumption DEF PatchConfigMap, TypeOK
  <2> QED  BY <2>1, <2>2, WriteKeepsSync
<1>3. ASSUME NEW q \in Requests, SyncFails(q) PROVE SyncInv'
  <2>1. ClusterConfig' = ClusterConfig  BY <1>3 DEF SyncFails, ClusterConfig, Content
  <2> QED
    BY <1>3, <2>1, ConfigAssumption DEF SyncFails, SyncInv, Current, TypeOK
<1>4. CASE Phase \/ Kubelet \/ UNCHANGED vars \/ \E p \in Provider : EditProvider(p)
  <2>1. UNCHANGED <<base, override, registry, configMap, cfgDue, sync>>
    BY <1>4 DEF Phase, ReadFile, Compare, SetLatestVersion, Install, Save, SaveRefused,
       PhaseFails, Kubelet, EditProvider, vars
  <2> QED  BY <2>1 DEF SyncInv, Current, ClusterConfig, Content
<1>5. CASE \/ \E o \in Overrides : SetOverride(o)
           \/ \E b \in Known : Upgrade(b)
           \/ Resync
  BY <1>5 DEF SetOverride, Upgrade, Resync, SyncInv
<1>6. ASSUME NEW q \in Requests, OtherObject(q) PROVE SyncInv'
  BY <1>6 DEF OtherObject, SyncInv, Current, ClusterConfig, Content
<1>7. ASSUME NEW r \in Registries, SetRegistry(r) PROVE SyncInv'
  BY <1>7 DEF SetRegistry, SyncInv, Current, ClusterConfig, Content
<1>8. ASSUME NEW c \in Contents \cup {None}, EditConfigMap(c) PROVE SyncInv'
  <2>1. WriteConfigMap(c) /\ UNCHANGED <<base, override, registry, sync>>
    BY <1>8 DEF EditConfigMap
  <2> QED  BY <2>1, WriteKeepsSync
<1> QED
  BY <1>1, <1>2, <1>3, <1>4, <1>5, <1>6, <1>7, <1>8 DEF Next, Syncs, Environment

\* Whatever order the reads and writes of any number of concurrent reconciliations
\* come in, the ConfigMap is right once none of them is left.
THEOREM ConfigMapIsSynced == Spec => []QuietIsSynced
<1>1. Init => TypeOK /\ SyncInv
  <2>1. Init => SyncInv  BY DEF Init, SyncInv
  <2> QED  BY <2>1, InitType
<1>2. (TypeOK /\ SyncInv) /\ [Next]_vars => (TypeOK /\ SyncInv)'
  BY NextType, SyncInvNext
<1>3. TypeOK /\ SyncInv => QuietIsSynced  BY SyncInvImplies
<1> QED  BY <1>1, <1>2, <1>3, PTL DEF Spec

-----------------------------------------------------------------------------
(* Versions. *)

\* Without updates: the version that was found, a lower one, or one that is not saved.
Held(version, found) ==
    \/ version = found
    \/ ~Admitted(version)
    \/ version \in Versions /\ version < found

\* A version is what was found until it is set, and without updates stays held.
OffInv ==
    /\ rec.pc \in {"compare", "version"} => rec.version = rec.from.version
    /\ rec.pc # "idle" /\ ~rec.from.auto /\ rec.from.version \in Versions
       => Held(rec.version, rec.from.version)

\* Without updates the switch of setLatestVersion does not go up, unless to "latest".
LEMMA NextVersionHeld ==
    ASSUME NEW known \in Known, known # Invalid, NEW version \in Versions
    PROVE  Held(NextVersion(known, version, FALSE), version)
<1>1. CASE known \in Versions
  BY <1>1, ConfigAssumption DEF NextVersion, IsLatestVersion, Held, Versions
<1>2. CASE known \notin Versions
  BY <1>2 DEF NextVersion, IsLatestVersion, Held, Admitted, Known
<1> QED
  BY <1>1, <1>2

\* What a reconciliation ends with is the provider's version, or the one in hand if
\* that is admitted and another than it found.
LEMMA EndsWith ==
    ASSUME TypeOK, Next, rec.pc # "idle", rec'.pc = "idle"
    PROVE  \/ prov'.version = prov.version
           \/ /\ prov'.version = rec.version /\ rec.version # rec.from.version
              /\ Admitted(rec.version)
<1>1. CASE Save
  BY <1>1 DEF Save, TypeOK, Provider
<1>2. CASE PhaseFails
  <2>1. PICK saved \in {prov.version} \cup
                       {v \in {rec.version} : v # rec.from.version /\ Admitted(v)} :
           prov' = [prov EXCEPT !.version = saved]
    BY <1>2 DEF PhaseFails
  <2> QED
    BY <2>1 DEF TypeOK, Provider
<1>3. CASE ~Save /\ ~PhaseFails /\ (\A p \in Provider : ~EditProvider(p))
  <2>1. prov' = prov
    BY <1>3 DEF Next, Syncs, ReadConfig, PatchConfigMap, SyncFails, Phase, ReadFile, Compare,
       SetLatestVersion, Install, SaveRefused, Kubelet, Environment, SetOverride, OtherObject,
       SetRegistry, Upgrade, EditConfigMap, Resync, provVars
  <2> QED
    BY <2>1
<1>4. ASSUME NEW p \in Provider, EditProvider(p) PROVE FALSE
  BY <1>4 DEF EditProvider
<1> QED
  BY <1>1, <1>2, <1>3, <1>4

\* The invariant is inductive.
LEMMA OffInvNext == TypeOK /\ OffInv /\ [Next]_vars => OffInv'
<1> SUFFICES ASSUME TypeOK, OffInv, [Next]_vars PROVE OffInv'
  OBVIOUS
<1>1. CASE ReadFile
  <2>1. rec' = rec \/ (rec'.version = rec'.from.version)
    BY <1>1 DEF ReadFile, TypeOK, Reconciliation
  <2> QED
    BY <2>1 DEF OffInv, Held
<1>2. CASE Compare
  BY <1>2 DEF Compare, Finish, OffInv, TypeOK, Reconciliation
<1>3. CASE SetLatestVersion
  <2>1. ClusterConfig.known \in Known /\ ClusterConfig.known # Invalid
    BY <1>3, ContentType DEF SetLatestVersion, ClusterConfig, Contents, TypeOK
  <2>2. /\ rec'.pc = "install" /\ rec'.from = rec.from
        /\ rec'.version = NextVersion(ClusterConfig.known, rec.version, rec.from.auto)
        /\ rec.version = rec.from.version
    BY <1>3 DEF SetLatestVersion, OffInv, TypeOK, Reconciliation
  <2>3. rec.from.auto \in BOOLEAN
    BY DEF TypeOK, Reconciliation, Provider
  <2>4. ~rec.from.auto /\ rec.from.version \in Versions => Held(rec'.version, rec.from.version)
    BY <2>1, <2>2, <2>3, NextVersionHeld
  <2> QED
    BY <2>2, <2>4 DEF OffInv
<1>4. CASE Install
  <2>1. rec'.pc = "save" /\ rec'.from = rec.from /\ rec.pc # "idle"
    BY <1>4 DEF Install, TypeOK, Reconciliation
  <2>2. rec'.version = rec.version \/ rec.version = None
    BY <1>4 DEF Install, TypeOK, Reconciliation
  <2>3. rec.from.version \in Versions /\ Held(rec.version, rec.from.version)
        => rec.version # None
    BY ConfigAssumption DEF Held, Admitted, Versions
  <2> QED
    BY <2>1, <2>2, <2>3 DEF OffInv
<1>5. CASE Save \/ SaveRefused \/ PhaseFails \/ \E b \in Known : Upgrade(b)
  <2>1. rec'.pc = "idle"
    BY <1>5 DEF Save, SaveRefused, PhaseFails, Upgrade, Finish, TypeOK, Reconciliation
  <2> QED
    BY <2>1 DEF OffInv
<1>6. CASE (\E o \in Overrides : SetOverride(o))
           \/ \E r \in Registries : SetRegistry(r)
  <2>1. rec'.pc = rec.pc /\ rec'.from = rec.from /\ rec'.version = rec.version
    BY <1>6 DEF SetOverride, SetRegistry, Intends, TypeOK, Reconciliation
  <2> QED
    BY <2>1 DEF OffInv
<1>7. CASE \/ \E q \in Requests : Syncs(q) \/ OtherObject(q)
           \/ \E p \in Provider : EditProvider(p)
           \/ \E c \in Contents \cup {None} : EditConfigMap(c)
           \/ Kubelet \/ Resync \/ UNCHANGED vars
  <2>1. rec' = rec
    BY <1>7 DEF Syncs, ReadConfig, PatchConfigMap, SyncFails, OtherObject, EditProvider,
       EditConfigMap, Kubelet, Resync, vars, provVars
  <2> QED
    BY <2>1 DEF OffInv
<1> QED
  BY <1>1, <1>2, <1>3, <1>4, <1>5, <1>6, <1>7 DEF Next, Phase, Environment

\* The version of a provider without automatic updates is never raised by its
\* reconciliation, nor replaced by "latest", for any versions and whatever becomes of
\* the configuration and the provider meanwhile (setLatestVersion,
\* internal/provider/defaults.go:98-150).
THEOREM VersionsAreNotRaised == Spec => OffMeansOff
<1> DEFINE A == rec.pc # "idle" /\ rec'.pc = "idle" /\ ~rec.from.auto
                /\ rec.from.version \in Versions
                => \/ prov'.version = prov.version
                   \/ prov'.version \in Versions /\ prov'.version < rec.from.version
<1>1. Init => TypeOK /\ OffInv
  <2>1. Init => OffInv
    BY DEF Init, OffInv
  <2> QED
    BY <2>1, InitType
<1>2. TypeOK /\ OffInv /\ [Next]_vars => (TypeOK /\ OffInv)' /\ [A]_vars
  <2>1. ASSUME TypeOK, OffInv, Next PROVE A
    BY <2>1, EndsWith DEF OffInv, Held
  <2> QED
    BY <2>1, NextType, OffInvNext
<1> QED
  BY <1>1, <1>2, PTL DEF Spec, OffMeansOff
=============================================================================
