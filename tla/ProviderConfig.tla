--------------------------- MODULE ProviderConfig ----------------------------
(***************************************************************************)
(* From the clusterctl configuration to the version of a provider.         *)
(* The configuration (embedded defaults, overridden by ClusterctlConfig)   *)
(* is rendered into a ConfigMap by the clusterctl config controller,       *)
(* mounted as a file by the kubelet, and read by the phases of the         *)
(* provider controller: from the file and, twice, from its sources.        *)
(* Of the providers the configuration knows, one is modelled.              *)
(***************************************************************************)
EXTENDS Naturals

CONSTANTS
    MaxVersion,  \* bound: versions are 1..MaxVersion
    Latest,      \* "latest", which a URL may have in the place of a version
    Invalid,     \* a version in a URL that does not parse
    Unknown,     \* the configuration does not know the provider
    None,        \* no version; no override; no file; nothing in the ConfigMap
    Registries,  \* values of Rancher's setting system-default-registry
    Requests,    \* keys that ClusterctlConfigs and ConfigMaps put in the queue
    Own,         \* the key of the ConfigMap itself
    MaxEdits,    \* bound: actions of users, of Rancher and of Helm
    MaxFaults    \* bound: API calls that fail for a transient reason

ASSUME ConfigAssumption ==
    /\ MaxVersion \in Nat /\ MaxEdits \in Nat /\ MaxFaults \in Nat
    /\ Own \in Requests
    /\ {Latest, Invalid, Unknown, None} \cap Nat = {}
    /\ Latest \notin {Invalid, Unknown, None}
    /\ Invalid # Unknown /\ Invalid # None /\ Unknown # None
    /\ None \notin [known: Nat \cup {Latest, Invalid, Unknown}, registry: Registries]

VARIABLES
    base,       \* the provider's version in the embedded defaults
    override,   \* its version in the ClusterctlConfig
    registry,   \* Rancher's setting, part of every image of the configuration
    configMap,  \* what the ConfigMap renders
    file,       \* what is mounted
    cfgDue,     \* requests of the clusterctl config controller
    sync,       \* its reconciliation of each request
    prov,       \* the provider on the API server: spec.version, automatic update
    provDue,    \* there is a request for the provider
    rec,        \* the reconciliation of the provider
    used        \* how much of each bound has been used

cfgVars == <<configMap, cfgDue, sync>>
provVars == <<prov, provDue, rec>>
vars == <<base, override, registry, file, cfgVars, provVars, used>>

-----------------------------------------------------------------------------

Versions  == 1 .. MaxVersion
Known     == Versions \cup {Latest, Invalid, Unknown}
Overrides == Versions \cup {Latest, Invalid, None}
Contents  == [known: Known, registry: Registries]
Provider  == [version: Versions \cup {None}, auto: BOOLEAN]

Phases == {"idle", "compare", "version", "install", "save"}
Reconciliation ==
    [pc: Phases, from: Provider,
     version: Versions \cup {None, Latest},
     file: Contents \cup {None},       \* read by the phase that waits
     intended: SUBSET Contents]        \* history: what was intended meanwhile

TypeOK ==
    /\ base \in Known
    /\ override \in Overrides
    /\ registry \in Registries
    /\ configMap \in Contents \cup {None}
    /\ file \in Contents \cup {None}
    /\ cfgDue \subseteq Requests
    /\ sync \in [Requests -> Contents \cup {None}]
    /\ prov \in Provider
    /\ provDue \in BOOLEAN
    /\ rec \in Reconciliation
    /\ used \in [edits: Nat, faults: Nat]

-----------------------------------------------------------------------------
(* The configuration. *)

\* Mutant: the embedded entry is lost.
MutContent(b, o, r) == [known |-> o, registry |-> r]

\* ClusterConfig: the entry of the ClusterctlConfig replaces the embedded one,
\* and Rancher's registry is put in front of the images.
Content(b, o, r) == [known |-> IF o = None THEN b ELSE o, registry |-> r]
ClusterConfig == Content(base, override, registry)

\* Mutant: newer instead of older.
MutIsLatestVersion(known, version) ==
    known = Latest \/ (version # None /\ version <= known)

\* IsLatestVersion, true of versions beyond the known one as well, and of any
\* version when the URL has none; no version at all is always behind.
IsLatestVersion(known, version) ==
    known = Latest \/ (version # None /\ known <= version)

\* Mutant: nobody asks whether updates are on.
MutNextVersion(known, version, auto) == IF known # Unknown THEN known ELSE version

\* The switch of setLatestVersion.
NextVersion(known, version, auto) ==
    IF known # Unknown /\ (IsLatestVersion(known, version) \/ auto)
    THEN known ELSE version

\* The rule on spec.version: no version, or "v" and a semantic version.
Admitted(version) == version # Latest

-----------------------------------------------------------------------------

Fault == used.faults < MaxFaults /\ used' = [used EXCEPT !.faults = @ + 1]
Edit  == used.edits < MaxEdits /\ used' = [used EXCEPT !.edits = @ + 1]

\* Remember what is intended while a reconciliation is under way.
Intends(b, o, r) ==
    rec' = [rec EXCEPT !.intended = IF rec.pc = "idle" THEN {}
                                    ELSE @ \cup {Content(b, o, r)}]

(* The clusterctl config controller.                                        *)

\* SyncConfigMap, first part.
ReadConfig(q) ==
    /\ q \in cfgDue /\ sync[q] = None
    /\ cfgDue' = cfgDue \ {q}
    /\ sync' = [sync EXCEPT ![q] = ClusterConfig]
    /\ UNCHANGED <<base, override, registry, configMap, file, provVars, used>>

\* Mutant: the ConfigMap has no watch.
MutWriteConfigMap(c) == configMap' = c /\ UNCHANGED cfgDue

\* The events of the ConfigMap lead back here.
WriteConfigMap(c) ==
    /\ configMap' = c
    /\ cfgDue' = IF c # configMap THEN cfgDue \cup {Own} ELSE cfgDue

\* Mutant: conflicts with the fields of other owners are not forced.
MutPatchConfigMap(q) ==
    /\ sync[q] # None
    /\ configMap # None => configMap.registry = sync[q].registry
    /\ WriteConfigMap(sync[q])
    /\ sync' = [sync EXCEPT ![q] = None]
    /\ UNCHANGED <<base, override, registry, file, provVars, used>>

\* SyncConfigMap, second part: a server-side apply that forces ownership, without
\* resource version.
PatchConfigMap(q) ==
    /\ sync[q] # None
    /\ WriteConfigMap(sync[q])
    /\ sync' = [sync EXCEPT ![q] = None]
    /\ UNCHANGED <<base, override, registry, file, provVars, used>>

\* Any of its calls fails: the request comes back.
SyncFails(q) ==
    /\ Fault
    /\ sync[q] # None
    /\ sync' = [sync EXCEPT ![q] = None]
    /\ cfgDue' = cfgDue \cup {q}
    /\ UNCHANGED <<base, override, registry, configMap, file, provVars>>

-----------------------------------------------------------------------------
(* The provider controller.                                                 *)

\* waitForClusterctlConfigUpdate reads the file.  Without it the request comes
\* back after a while.
ReadFile ==
    /\ provDue /\ rec.pc = "idle"
    /\ rec' = IF file = None THEN rec
              ELSE [rec EXCEPT !.pc = "compare", !.from = prov, !.file = file,
                               !.version = prov.version,
                               !.intended = {ClusterConfig}]
    /\ provDue' = (file = None)
    /\ UNCHANGED <<base, override, registry, file, cfgVars, prov, used>>

Finish(again) ==
    /\ rec' = [rec EXCEPT !.pc = "idle", !.file = None, !.intended = {}]
    /\ provDue' = (provDue \/ again)

Synced == rec.file = ClusterConfig

\* It compares the file with the configuration as it is now.
Compare ==
    /\ rec.pc = "compare"
    /\ IF Synced THEN rec' = [rec EXCEPT !.pc = "version"] /\ UNCHANGED provDue
                 ELSE Finish(TRUE)
    /\ UNCHANGED <<base, override, registry, file, cfgVars, prov, used>>

\* setProviderSpec: SetProviderSpec, setLatestVersion.
SetLatestVersion ==
    /\ rec.pc = "version"
    /\ ClusterConfig.known # Invalid
    /\ rec' = [rec EXCEPT !.pc = "install",
                  !.version = NextVersion(ClusterConfig.known, @, rec.from.auto)]
    /\ UNCHANGED <<base, override, registry, file, cfgVars, prov, provDue, used>>

\* The later phases belong to the cluster-api-operator: they take the version
\* from the provider, "latest" included, and its source from the file.  One without
\* version may get the default of its source.
Install ==
    /\ rec.pc = "install"
    /\ \E v \in {rec.version} \cup (IF rec.version = None THEN Versions ELSE {}) :
          rec' = [rec EXCEPT !.pc = "save", !.version = v]
    /\ UNCHANGED <<base, override, registry, file, cfgVars, prov, provDue, used>>

\* Whatever the phases have changed of the provider is saved by a merge patch
\* without resource version.
Save ==
    /\ rec.pc = "save"
    /\ Admitted(rec.version)
    /\ prov' = IF rec.version # rec.from.version
               THEN [prov EXCEPT !.version = rec.version] ELSE prov
    /\ Finish(prov' # prov)
    /\ UNCHANGED <<base, override, registry, file, cfgVars, used>>

\* The API server refuses "latest": the request comes back, as often as the
\* configuration has no version.
SaveRefused ==
    /\ rec.pc = "save"
    /\ ~Admitted(rec.version)
    /\ Finish(TRUE)
    /\ UNCHANGED <<base, override, registry, file, cfgVars, prov, used>>

\* The configuration cannot be read, its version does not parse, or a later phase
\* fails; what was changed so far is saved, if it is admitted.
PhaseFails ==
    /\ rec.pc \in {"compare", "version", "install", "save"}
    /\ \/ rec.pc = "version" /\ ClusterConfig.known = Invalid /\ UNCHANGED used
       \/ Fault
    /\ \E saved \in {prov.version} \cup
                    {v \in {rec.version} : v # rec.from.version /\ Admitted(v)} :
          prov' = [prov EXCEPT !.version = saved]
    /\ Finish(TRUE)
    /\ UNCHANGED <<base, override, registry, file, cfgVars>>

-----------------------------------------------------------------------------
(* The environment.                                                         *)

\* "It may take a few minutes for the changes to take effect."
Kubelet ==
    /\ file # configMap
    /\ file' = configMap
    /\ UNCHANGED <<base, override, registry, cfgVars, provVars, used>>

\* A user edits the ClusterctlConfig.
SetOverride(o) ==
    /\ override # o
    /\ override' = o
    /\ cfgDue' = cfgDue \cup {Own}
    /\ Intends(base, o, registry)
    /\ Edit
    /\ UNCHANGED <<base, registry, configMap, file, sync, prov, provDue>>

\* configMapMapper goes by the name alone: objects of that name in other
\* namespaces put their own key into the queue.
OtherObject(q) ==
    /\ q # Own /\ q \notin cfgDue
    /\ cfgDue' = cfgDue \cup {q}
    /\ Edit
    /\ UNCHANGED <<base, override, registry, configMap, file, sync, provVars>>

\* Rancher's setting has no watch.
SetRegistry(r) ==
    /\ registry # r
    /\ registry' = r
    /\ Intends(base, override, r)
    /\ Edit
    /\ UNCHANGED <<base, override, file, cfgVars, prov, provDue>>

\* Helm deletes the ConfigMap and creates an empty one, and the new manager brings
\* other defaults; what was in flight is lost.
Upgrade(b) ==
    /\ base' = b
    /\ configMap' = None
    /\ sync' = [q \in Requests |-> None]
    /\ cfgDue' = {Own}
    /\ rec' = [rec EXCEPT !.pc = "idle", !.file = None, !.intended = {}]
    /\ provDue' = TRUE
    /\ Edit
    /\ UNCHANGED <<override, registry, file, prov>>

\* A user edits the provider.
EditProvider(p) ==
    /\ prov # p
    /\ prov' = p
    /\ provDue' = TRUE
    /\ Edit
    /\ UNCHANGED <<base, override, registry, file, cfgVars, rec>>

\* Somebody else writes the ConfigMap.
EditConfigMap(c) ==
    /\ configMap # c
    /\ WriteConfigMap(c)
    /\ Edit
    /\ UNCHANGED <<base, override, registry, file, sync, provVars>>

\* The informers replay everything every SyncPeriod.
Resync ==
    /\ Own \notin cfgDue \/ ~provDue
    /\ cfgDue' = cfgDue \cup {Own}
    /\ provDue' = TRUE
    /\ UNCHANGED <<base, override, registry, configMap, file, sync, prov, rec, used>>

-----------------------------------------------------------------------------

Init ==
    /\ base \in Known
    /\ override = None
    /\ registry \in Registries
    /\ configMap = None /\ file = None
    /\ cfgDue = {Own}
    /\ sync = [q \in Requests |-> None]
    /\ prov \in Provider
    /\ provDue = TRUE
    /\ rec = [pc |-> "idle", from |-> prov, version |-> prov.version,
              file |-> None, intended |-> {}]
    /\ used = [edits |-> 0, faults |-> 0]

Syncs(q) == ReadConfig(q) \/ PatchConfigMap(q) \/ SyncFails(q)

Phase ==
    \/ ReadFile \/ Compare \/ SetLatestVersion \/ Install
    \/ Save \/ SaveRefused \/ PhaseFails

Environment ==
    \/ \E o \in Overrides : SetOverride(o)
    \/ \E q \in Requests : OtherObject(q)
    \/ \E r \in Registries : SetRegistry(r)
    \/ \E b \in Known : Upgrade(b)
    \/ \E p \in Provider : EditProvider(p)
    \/ \E c \in Contents \cup {None} : EditConfigMap(c)

Next == (\E q \in Requests : Syncs(q)) \/ Phase \/ Kubelet \/ Environment \/ Resync

Spec == Init /\ [][Next]_vars

\* The controllers work, and the kubelet mounts what is in the ConfigMap.
FairSpec ==
    /\ Spec
    /\ \A q \in Requests : WF_vars(Syncs(q))
    /\ WF_vars(Phase) /\ WF_vars(Resync) /\ WF_vars(Kubelet)

-----------------------------------------------------------------------------
(* What the configuration promises. *)

\* Nothing due, nothing in flight: the ConfigMap says of the provider what the
\* configuration says, whatever order reads and writes came in.  (Not so for
\* Rancher's registry, which has no events.)
QuietIsSynced ==
    cfgDue = {} /\ (\A q \in Requests : sync[q] = None)
    => configMap # None /\ configMap.known = ClusterConfig.known

\* With updates off, a reconciliation does not raise the version it found, nor
\* replace it by "latest": what it saves is a version below that, and otherwise what
\* is stored, a user's edit meanwhile included, stays.
OffMeansOff ==
    [][rec.pc # "idle" /\ rec'.pc = "idle" /\ ~rec.from.auto
       /\ rec.from.version \in Versions
       => \/ prov'.version = prov.version
          \/ prov'.version \in Versions /\ prov'.version < rec.from.version]_vars

\* The file becomes the configuration, the registry of Rancher included.
FileConverges == <>[](file = ClusterConfig)

\* A provider with automatic updates gets the version of the configuration, and
\* one without is brought back to it when it is beyond.
VersionConverges ==
    <>[](ClusterConfig.known \in Versions)
    => /\ <>[]prov.auto => <>[](prov.version = ClusterConfig.known)
       /\ <>[](ClusterConfig.known \in Versions /\ prov.version # None
               => prov.version <= ClusterConfig.known)

-----------------------------------------------------------------------------
(* Said by the repository, not kept by the code. *)

\* operator_reconciler_test.go:227: "Should not change custom provider version
\* even if it is in the clusterctlconfig override": with updates off the later
\* phases work with the version that was pinned, unless the configuration has a
\* lower one.  One that has "latest" makes them work with that.
PinKept ==
    [][rec.pc = "version" /\ rec'.pc = "install" /\ rec.from.version \in Versions
       /\ ~rec.from.auto
       => \/ rec'.version = rec.from.version
          \/ /\ ClusterConfig.known \in Versions
             /\ ClusterConfig.known < rec.from.version]_vars

\* clusterctlconfig.go:44-45: "We need to wait since the cluster-api-operator
\* library is going to use the mounted file to deploy providers, therefore we need
\* it to be synced": the file is used with a content that has been intended at
\* some time since the reconciliation began.
FileIsIntended ==
    [][rec.pc = "install" /\ rec'.pc = "save" => file \in rec.intended]_vars
=============================================================================
