-------------------------- MODULE ImportController --------------------------
(***************************************************************************)
(* The import of CAPI clusters into Rancher: CAPIImportReconciler          *)
(* (internal/controllers/import_controller.go) and the cleanup controller  *)
(* (cleanup_controller.go), which share one process, one informer cache    *)
(* and the API server with CAPI, Rancher, CAAPF and users.                 *)
(*                                                                         *)
(* Each call to the API server and each read of the cache is a step of its *)
(* own; what the code computes between two calls belongs to the step of    *)
(* the first.  The informer cache lags behind the server by any amount, a  *)
(* reconciliation works on copies, and anybody may act between two steps.  *)
(***************************************************************************)
EXTENDS Naturals, FiniteSets, ApiServer

CONSTANTS
    CapiClusters,   \* names (with namespace) of CAPI clusters, one namespace
    Rids,           \* slots for the generated names of Rancher clusters
    None,           \* no Rancher cluster
    Workers,        \* MaxConcurrentReconciles of the import controller
    UseCAAPF,       \* feature gate use-rancher-caapf
    Labels,         \* values of the auto-import label users give a cluster
    NsLabels,       \* whether the namespace's auto-import label may be true
    MaxOwned,       \* bound: Rancher clusters of one CAPI cluster at a time
    MaxEdits,       \* bound: actions of users and of CAPI
    MaxFaults,      \* bound: API calls that fail for a transient reason
    MaxRestarts     \* bound: restarts of the manager

ASSUME ConstantsAssumption ==
    /\ None \notin Rids \cup CapiClusters
    /\ Workers \in Nat
    /\ UseCAAPF \in BOOLEAN
    /\ Labels \subseteq {"none", "true", "false"}
    /\ NsLabels \subseteq BOOLEAN
    /\ MaxOwned \in Nat /\ MaxEdits \in Nat /\ MaxFaults \in Nat /\ MaxRestarts \in Nat

VARIABLES
    capi,        \* CAPI clusters on the API server
    ranch,       \* Rancher (management v3) clusters on the API server
    nsLabel,     \* the auto-import label of the namespace is true
    capiCache,   \* the informer cache of the manager: CAPI clusters,
    ranchCache,  \*   Rancher clusters
    nsCache,     \*   and the namespace
    queue,       \* the workqueue of the import controller
    rec,         \* the reconciliation in flight for each CAPI cluster
    dismissed,   \* history: CAPI clusters whose Rancher cluster a user deleted
    used         \* how much of each bound has been used

server == <<capi, ranch, nsLabel>>
cache  == <<capiCache, ranchCache, nsCache>>
vars   == <<server, cache, queue, rec, dismissed, used>>

-----------------------------------------------------------------------------
(* Objects. *)

CapiFins  == {"turtles", "fleet", "capi"}
RanchFins == {"turtles", "rancher"}
\* The finalizers this controller adds to or removes from a CAPI cluster.
OwnFins   == {"turtles", "fleet"}

CapiObject ==
    [exists: BOOLEAN, uid: Nat, rv: Nat, fins: SUBSET CapiFins,
     deleting: BOOLEAN, imported: BOOLEAN, cpReady: BOOLEAN,
     label: {"none", "true", "false"}]

\* madeFor is a history field: the incarnation of the owner it was made for.
RanchObject ==
    [exists: BOOLEAN, rv: Nat, fins: SUBSET RanchFins, deleting: BOOLEAN,
     owner: CapiClusters \cup {None}, madeFor: Nat]

NoCapi == [exists |-> FALSE, uid |-> 0, rv |-> 0, fins |-> {},
           deleting |-> FALSE, imported |-> FALSE, cpReady |-> FALSE,
           label |-> "none"]
NoRanch == [exists |-> FALSE, rv |-> 0, fins |-> {}, deleting |-> FALSE,
            owner |-> None, madeFor |-> 0]

WithFin(o, f)    == [o EXCEPT !.fins = @ \cup {f}]
WithoutFin(o, f) == [o EXCEPT !.fins = @ \ {f}]

\* Rancher clusters have generated names: nothing is kept of one that is gone.
Kept(o) == IF o.exists THEN o ELSE NoRanch

\* Where a reconciliation is, the copy of the CAPI cluster its outer patch
\* starts from, the copy it works on, the Rancher cluster it picked with its
\* copy of it, and whether the request goes back to the queue at the end.
Steps == {"idle", "addFinalizer", "list", "annotate", "rancherFinalizer",
          "deleteAll", "capiFinalizer", "normal", "patchRancher", "confirm",
          "create", "outer"}
Reconciliation ==
    [pc: Steps, base: CapiObject, hand: CapiObject,
     rid: Rids \cup {None}, rc: RanchObject, again: BOOLEAN]
Idle == [pc |-> "idle", base |-> NoCapi, hand |-> NoCapi,
         rid |-> None, rc |-> NoRanch, again |-> FALSE]

TypeOK ==
    /\ capi \in [CapiClusters -> CapiObject]
    /\ capiCache \in [CapiClusters -> CapiObject]
    /\ ranch \in [Rids -> RanchObject]
    /\ ranchCache \in [Rids -> RanchObject]
    /\ nsLabel \in BOOLEAN /\ nsCache \in BOOLEAN
    /\ queue \subseteq CapiClusters
    /\ rec \in [CapiClusters -> Reconciliation]
    /\ dismissed \subseteq (CapiClusters \cup {None}) \X Nat
    /\ used \in [edits: Nat, faults: Nat, restarts: Nat]

-----------------------------------------------------------------------------
(* Event filters. *)

\* util.ShouldAutoImport: the namespace decides when the cluster has no label,
\* and also when it has a true label but is annotated as imported already.
ShouldAutoImport(o, ns) ==
    \/ o.label = "true" /\ ~o.imported
    \/ o.label # "false" /\ ns

\* capiPredicates: only these clusters reach the queue through an event.
Passes(o, ns) ==
    ~o.imported /\ o.cpReady /\ ShouldAutoImport(o, ns)

\* The clusters that the map functions of the Rancher cluster and namespace
\* watches enqueue: cached, and accepted by the predicates.
Mapped(cs, ns) == {c \in cs : capiCache[c].exists /\ Passes(capiCache[c], ns)}

-----------------------------------------------------------------------------
(* Reconcile, step by step.  A request that fails or asks for RequeueAfter  *)
(* is back in the queue at once: delays are not modelled.                   *)

Ongoing == {c \in CapiClusters : rec[c].pc # "idle"}

Goto(c, pc) == rec' = [rec EXCEPT ![c].pc = pc]

Finish(c, again) ==
    /\ rec' = [rec EXCEPT ![c] = Idle]
    /\ queue' = IF again THEN queue \cup {c} ELSE queue

\* Mutant: the patch base is not a deep copy and follows the working copy.
MutToOuterAliased(c, hand, again) ==
    rec' = [rec EXCEPT ![c] = [Idle EXCEPT !.pc = "outer", !.base = hand,
                                           !.hand = hand, !.again = again]]

\* On to the patch at the end of Reconcile, which errors do not skip, with the
\* working copy as it is then.
ToOuter(c, hand, again) ==
    rec' = [rec EXCEPT ![c] = [Idle EXCEPT !.pc = "outer", !.base = rec[c].base,
                                           !.hand = hand, !.again = again]]

\* A call fails when the server refuses it, or for a reason of its own
\* (timeout, throttling, a webhook).
CallFails(accepted) ==
    \/ ~accepted /\ UNCHANGED used
    \/ used.faults < MaxFaults /\ used' = [used EXCEPT !.faults = @ + 1]

\* A worker takes a request and reads the CAPI cluster from the cache.
Begin(c) ==
    /\ c \in queue
    /\ rec[c].pc = "idle"
    /\ Cardinality(Ongoing) < Workers
    /\ capiCache[c].exists
    /\ queue' = queue \ {c}
    /\ LET o == capiCache[c]
       IN rec' = [rec EXCEPT ![c] =
                     IF o.deleting \/ o.imported \/ "turtles" \in o.fins
                     THEN [Idle EXCEPT !.pc = "list", !.base = o, !.hand = o]
                     ELSE [Idle EXCEPT !.pc = "addFinalizer"]]
    /\ UNCHANGED <<server, cache, dismissed, used>>

\* The cluster is not in the cache: the request is put back, for ever.
BeginMissing(c) ==
    /\ c \in queue
    /\ rec[c].pc = "idle"
    /\ Cardinality(Ongoing) < Workers
    /\ ~capiCache[c].exists
    /\ queue' = queue \cup {c}
    /\ UNCHANGED <<server, cache, rec, dismissed, used>>

\* Mutant: the finalizer is written under another name.
MutFinalizedMisspelt(o) == WithFin(o, "capicluster")

\* One round of RetryOnConflict: read the cache again, add the finalizer,
\* update.  The conditions that led here are not looked at again.
Finalized(o) == WithFin(o, "turtles")
CanAddFinalizer(c) ==
    /\ capiCache[c].exists
    /\ Accepts(capi[c], capiCache[c].rv)
    /\ ValidUpdate(capi[c], Finalized(capiCache[c]))

AddFinalizer(c) ==
    /\ rec[c].pc = "addFinalizer"
    /\ CanAddFinalizer(c)
    /\ capi' = [capi EXCEPT ![c] = Stored(@, Finalized(capiCache[c]))]
    /\ rec' = [rec EXCEPT ![c] =
                  [@ EXCEPT !.pc = "list", !.hand = capi'[c], !.base = capi'[c]]]
    /\ UNCHANGED <<ranch, nsLabel, cache, queue, dismissed, used>>

\* The cache has lost the cluster, or the update fails (for good, or on the
\* last of the retries): the request goes back.
AddFinalizerFails(c) ==
    /\ rec[c].pc = "addFinalizer"
    /\ CallFails(CanAddFinalizer(c))
    /\ Finish(c, TRUE)
    /\ UNCHANGED <<server, cache, dismissed>>

\* Reconcile returns early when the control plane is not available, or when
\* the cluster has been imported before.
EarlyReturn(c) ==
    /\ rec[c].pc = "list"
    /\ ~rec[c].hand.cpReady \/ rec[c].hand.imported
    /\ Finish(c, ~rec[c].hand.cpReady)
    /\ UNCHANGED <<server, cache, dismissed, used>>

Owned(rs, c) == {r \in Rids : rs[r].exists /\ rs[r].owner = c}

\* Mutant: a CAPI cluster that is going is dismissed as if its Rancher cluster were.
MutPickRancher(c) ==
    /\ rec[c].pc = "list"
    /\ rec[c].hand.cpReady /\ ~rec[c].hand.imported
    /\ \E r \in Owned(ranchCache, c) :
          rec' = [rec EXCEPT ![c] =
                     [@ EXCEPT !.rid = r, !.rc = ranchCache[r],
                        !.pc = IF ranchCache[r].deleting \/ rec[c].hand.deleting
                               THEN "annotate"
                               ELSE "normal"]]
    /\ UNCHANGED <<server, cache, queue, dismissed, used>>

\* reconcile lists the cluster's Rancher clusters in the cache and takes the
\* first, whichever that is.
PickRancher(c) ==
    /\ rec[c].pc = "list"
    /\ rec[c].hand.cpReady /\ ~rec[c].hand.imported
    /\ \E r \in Owned(ranchCache, c) :
          rec' = [rec EXCEPT ![c] =
                     [@ EXCEPT !.rid = r, !.rc = ranchCache[r],
                        !.pc = IF ranchCache[r].deleting THEN "annotate"
                               ELSE IF rec[c].hand.deleting THEN "deleteAll"
                               ELSE "normal"]]
    /\ UNCHANGED <<server, cache, queue, dismissed, used>>

\* There is none.
NoRancher(c) ==
    /\ rec[c].pc = "list"
    /\ rec[c].hand.cpReady /\ ~rec[c].hand.imported
    /\ Owned(ranchCache, c) = {}
    /\ Goto(c, IF rec[c].hand.deleting THEN "deleteAll" ELSE "confirm")
    /\ UNCHANGED <<server, cache, queue, dismissed, used>>

\* reconcileDelete: the Rancher cluster is going, so the CAPI cluster is
\* annotated and released in one patch.
Released(o) == WithoutFin(o, "turtles")
\* Mutant: the finalizer is removed and the annotation forgotten.
MutDismissedSilently(o) == Released(o)

Dismissed(o) == [Released(o) EXCEPT !.imported = TRUE]

Annotate(c) ==
    LET hand == rec[c].hand
    IN /\ rec[c].pc = "annotate"
       /\ Accepts(capi[c], hand.rv)
       /\ capi' = [capi EXCEPT ![c] = Stored(@, Merge(@, hand, Dismissed(hand)))]
       /\ IF "turtles" \in rec[c].rc.fins
          THEN rec' = [rec EXCEPT ![c] = [@ EXCEPT !.pc = "rancherFinalizer",
                                                   !.hand = capi'[c]]]
          ELSE ToOuter(c, capi'[c], FALSE)
       /\ UNCHANGED <<ranch, nsLabel, cache, queue, dismissed, used>>

\* The copy keeps what the failed patch meant to write.
AnnotateFails(c) ==
    /\ rec[c].pc = "annotate"
    /\ CallFails(Accepts(capi[c], rec[c].hand.rv))
    /\ ToOuter(c, Dismissed(rec[c].hand), TRUE)
    /\ UNCHANGED <<server, cache, queue, dismissed>>

\* After that the Rancher cluster is released.
ReleaseRancher(c) ==
    LET r == rec[c].rid
    IN /\ rec[c].pc = "rancherFinalizer"
       /\ Accepts(ranch[r], rec[c].rc.rv)
       /\ ranch' = [ranch EXCEPT ![r] = Kept(Stored(@, Released(rec[c].rc)))]
       /\ ToOuter(c, rec[c].hand, FALSE)
       /\ UNCHANGED <<capi, nsLabel, cache, queue, dismissed, used>>

ReleaseRancherFails(c) ==
    /\ rec[c].pc = "rancherFinalizer"
    /\ CallFails(Accepts(ranch[rec[c].rid], rec[c].rc.rv))
    /\ ToOuter(c, rec[c].hand, TRUE)
    /\ UNCHANGED <<server, cache, queue, dismissed>>

\* Mutant: the finalizer of the CAPI cluster is left.
MutDeleteOnly(c) ==
    /\ rec[c].pc = "deleteAll"
    /\ ranch' = [r \in Rids |-> IF r \in Owned(ranch, c) THEN Kept(Deleted(ranch[r]))
                                ELSE ranch[r]]
    /\ ToOuter(c, rec[c].hand, FALSE)
    /\ UNCHANGED <<capi, nsLabel, cache, queue, dismissed, used>>

\* deleteDependentRancherCluster: the CAPI cluster is going, so every Rancher
\* cluster with its labels is deleted on the server.
DeleteRanchers(c) ==
    /\ rec[c].pc = "deleteAll"
    /\ ranch' = [r \in Rids |-> IF r \in Owned(ranch, c) THEN Kept(Deleted(ranch[r]))
                                ELSE ranch[r]]
    /\ IF "turtles" \in rec[c].hand.fins
       THEN Goto(c, "capiFinalizer")
       ELSE ToOuter(c, rec[c].hand, FALSE)
    /\ UNCHANGED <<capi, nsLabel, cache, queue, dismissed, used>>

DeleteRanchersFails(c) ==
    /\ rec[c].pc = "deleteAll"
    /\ CallFails(TRUE)
    /\ ToOuter(c, rec[c].hand, TRUE)
    /\ UNCHANGED <<server, cache, queue, dismissed>>

\* After that the CAPI cluster is released.
ReleaseCapi(c) ==
    LET hand == rec[c].hand
    IN /\ rec[c].pc = "capiFinalizer"
       /\ Accepts(capi[c], hand.rv)
       /\ capi' = [capi EXCEPT ![c] = Stored(@, Released(hand))]
       /\ ToOuter(c, capi'[c], FALSE)
       /\ UNCHANGED <<ranch, nsLabel, cache, queue, dismissed, used>>

ReleaseCapiFails(c) ==
    /\ rec[c].pc = "capiFinalizer"
    /\ CallFails(Accepts(capi[c], rec[c].hand.rv))
    /\ ToOuter(c, Released(rec[c].hand), TRUE)
    /\ UNCHANGED <<server, cache, queue, dismissed>>

\* Mutant: the feature gate is read the wrong way round.
MutFleetInverted(o) == IF UseCAAPF THEN WithoutFin(o, "fleet") ELSE o

\* reconcileExternalFleetManagement: without CAAPF its finalizer is dropped
\* from the copy; only the outer patch writes that.
FleetSettled(o) == IF UseCAAPF THEN o ELSE WithoutFin(o, "fleet")

\* reconcileNormal for an existing Rancher cluster.  The registration of the
\* agent ends well (done, or to be looked at again), which the deferred patch
\* follows, or in an error, which skips it.
Register(c) ==
    /\ rec[c].pc = "normal"
    /\ \/ \E requeue \in BOOLEAN :
             rec' = [rec EXCEPT ![c] = [@ EXCEPT !.pc = "patchRancher",
                                                 !.hand = FleetSettled(rec[c].hand),
                                                 !.again = requeue]]
       \/ ToOuter(c, FleetSettled(rec[c].hand), TRUE)
    /\ UNCHANGED <<server, cache, queue, dismissed, used>>

\* The deferred patch: it restores the finalizer of the Rancher cluster.
PatchRancher(c) ==
    LET r == rec[c].rid
    IN /\ rec[c].pc = "patchRancher"
       /\ Accepts(ranch[r], rec[c].rc.rv)
       /\ ValidUpdate(ranch[r], Finalized(rec[c].rc))
       /\ ranch' = [ranch EXCEPT ![r] = Stored(@, Finalized(rec[c].rc))]
       /\ ToOuter(c, rec[c].hand, rec[c].again)
       /\ UNCHANGED <<capi, nsLabel, cache, queue, dismissed, used>>

PatchRancherFails(c) ==
    /\ rec[c].pc = "patchRancher"
    /\ CallFails(Accepts(ranch[rec[c].rid], rec[c].rc.rv))
    /\ ToOuter(c, rec[c].hand, TRUE)
    /\ UNCHANGED <<server, cache, queue, dismissed>>

\* What a copy is once an object was decoded into it, as the uncached client does:
\* a label or an annotation that the object has lost stays; its finalizers (there are
\* some) replace those of the copy, and what was settled about fleet is gone.  (The
\* copy has no deletion timestamp here, and its status is not looked at again.)
Decoded(into, o) ==
    [o EXCEPT !.label = IF @ = "none" THEN into.label ELSE @,
              !.imported = @ \/ into.imported]

\* Mutants: the decision is taken on the cached cluster; without the namespace.
MutConfirmCached(c) ==
    /\ rec[c].pc = "confirm"
    /\ capiCache[c].exists
    /\ IF ShouldAutoImport(capiCache[c], nsCache)
       THEN rec' = [rec EXCEPT ![c] = [@ EXCEPT !.pc = "create", !.hand = capiCache[c]]]
       ELSE ToOuter(c, capiCache[c], FALSE)
    /\ UNCHANGED <<server, cache, queue, dismissed, used>>
MutConfirmLabelOnly(c) ==
    /\ rec[c].pc = "confirm"
    /\ capi[c].exists
    /\ LET read == Decoded(rec[c].hand, capi[c])
       IN IF ShouldAutoImport(read, FALSE)
          THEN rec' = [rec EXCEPT ![c] = [@ EXCEPT !.pc = "create", !.hand = read]]
          ELSE ToOuter(c, read, FALSE)
    /\ UNCHANGED <<server, cache, queue, dismissed, used>>

\* shouldAutoImportUncached: before a Rancher cluster is created the CAPI
\* cluster is read from the server, into the copy in hand, and the decision is
\* taken again.  That a label was taken off is not seen.
Confirm(c) ==
    /\ rec[c].pc = "confirm"
    /\ capi[c].exists
    /\ LET read == Decoded(rec[c].hand, capi[c])
       IN IF ShouldAutoImport(read, nsCache)
          THEN rec' = [rec EXCEPT ![c] = [@ EXCEPT !.pc = "create", !.hand = read]]
          ELSE ToOuter(c, read, FALSE)
    /\ UNCHANGED <<server, cache, queue, dismissed, used>>

\* The CAPI cluster is gone (not an error), or the read fails: the copy is then
\* still the old one, with what was settled about fleet.
ConfirmFails(c) ==
    /\ rec[c].pc = "confirm"
    /\ \/ ~capi[c].exists /\ UNCHANGED used /\ ToOuter(c, FleetSettled(rec[c].hand), FALSE)
       \/ CallFails(TRUE) /\ ToOuter(c, FleetSettled(rec[c].hand), TRUE)
    /\ UNCHANGED <<server, cache, queue, dismissed>>

\* A name no object and no copy refers to: generated names are not reused.
\* Running out of slots counts as a failure of the call.
FreshRids(c) ==
    {r \in Rids : /\ Cardinality(Owned(ranch, c)) < MaxOwned
                  /\ ~ranch[r].exists /\ ~ranchCache[r].exists
                  /\ \A d \in CapiClusters : rec[d].rid # r}

CreateRancher(c) ==
    /\ rec[c].pc = "create"
    /\ \E r \in FreshRids(c) :
          ranch' = [ranch EXCEPT ![r] =
                       [NoRanch EXCEPT !.exists = TRUE, !.rv = 1,
                          !.fins = {"turtles"}, !.owner = c,
                          !.madeFor = rec[c].hand.uid]]
    /\ ToOuter(c, rec[c].hand, TRUE)
    /\ UNCHANGED <<capi, nsLabel, cache, queue, dismissed, used>>

CreateRancherFails(c) ==
    /\ rec[c].pc = "create"
    /\ CallFails(FreshRids(c) # {})
    /\ ToOuter(c, rec[c].hand, TRUE)
    /\ UNCHANGED <<server, cache, queue, dismissed>>

\* Mutant: the patch is sent without the optimistic lock.
MutOuterPatchUnlocked(c) ==
    /\ rec[c].pc = "outer"
    /\ capi[c].exists
    /\ capi' = [capi EXCEPT ![c] = Stored(@, Merge(@, rec[c].base, rec[c].hand))]
    /\ Finish(c, rec[c].again)
    /\ UNCHANGED <<ranch, nsLabel, cache, dismissed, used>>

\* The patch at the end of Reconcile, from the copy taken before reconcile.
OuterPatch(c) ==
    LET base == rec[c].base
        hand == rec[c].hand
    IN /\ rec[c].pc = "outer"
       /\ Accepts(capi[c], base.rv)
       /\ capi' = [capi EXCEPT ![c] = Stored(@, Merge(@, base, hand))]
       /\ Finish(c, rec[c].again)
       /\ UNCHANGED <<ranch, nsLabel, cache, dismissed, used>>

OuterPatchFails(c) ==
    /\ rec[c].pc = "outer"
    /\ CallFails(Accepts(capi[c], rec[c].base.rv))
    /\ Finish(c, TRUE)
    /\ UNCHANGED <<server, cache, dismissed>>

-----------------------------------------------------------------------------
(* The cleanup controller: any Rancher cluster of Turtles that is cached as  *)
(* being deleted loses the finalizer.  A refused patch is tried again.       *)

\* Mutant: the test of the deletion timestamp is inverted.
MutCleanupInverted(r) ==
    LET o == ranchCache[r]
    IN /\ o.exists /\ ~o.deleting /\ "turtles" \in o.fins
       /\ Accepts(ranch[r], o.rv)
       /\ ranch' = [ranch EXCEPT ![r] = Kept(Stored(@, Merge(@, o, Released(o))))]
       /\ UNCHANGED <<capi, nsLabel, cache, queue, rec, dismissed, used>>

CleanupReconcile(r) ==
    LET o == ranchCache[r]
    IN /\ o.exists /\ o.deleting /\ "turtles" \in o.fins
       /\ Accepts(ranch[r], o.rv)
       /\ ranch' = [ranch EXCEPT ![r] = Kept(Stored(@, Merge(@, o, Released(o))))]
       /\ UNCHANGED <<capi, nsLabel, cache, queue, rec, dismissed, used>>

-----------------------------------------------------------------------------
(* The informer cache and the events it raises.  A cache entry jumps to the *)
(* current object: what happened in between is compressed into one event.   *)

SyncCapi(c) ==
    LET seen == IF capi[c].exists THEN capi[c] ELSE capiCache[c]
    IN /\ capiCache[c] # capi[c]
       /\ capiCache' = [capiCache EXCEPT ![c] = capi[c]]
       /\ queue' = queue \cup {d \in {c} : Passes(seen, nsCache)}
       /\ UNCHANGED <<server, ranchCache, nsCache, rec, dismissed, used>>

\* Both the old and the new Rancher cluster are mapped to CAPI clusters.
SyncRancher(r) ==
    /\ ranchCache[r] # ranch[r]
    /\ ranchCache' = [ranchCache EXCEPT ![r] = ranch[r]]
    /\ queue' = queue \cup Mapped({ranchCache[r].owner, ranch[r].owner} \ {None},
                                  nsCache)
    /\ UNCHANGED <<server, capiCache, nsCache, rec, dismissed, used>>

\* namespaceToCapiClusters lists the CAPI clusters in the cache.
SyncNamespace ==
    /\ nsCache # nsLabel
    /\ nsCache' = nsLabel
    /\ queue' = queue \cup Mapped(CapiClusters, nsLabel)
    /\ UNCHANGED <<server, capiCache, ranchCache, rec, dismissed, used>>

\* Every SyncPeriod the informers replay what they hold.
Resync(c) ==
    /\ c \in Mapped(CapiClusters, nsCache)
    /\ c \notin queue
    /\ queue' = queue \cup {c}
    /\ UNCHANGED <<server, cache, rec, dismissed, used>>

\* The process ends at any point and starts again with the lists it reads.
Restart ==
    /\ used.restarts < MaxRestarts
    /\ used' = [used EXCEPT !.restarts = @ + 1]
    /\ capiCache' = capi
    /\ ranchCache' = ranch
    /\ nsCache' = nsLabel
    /\ queue' = {c \in CapiClusters : capi[c].exists /\ Passes(capi[c], nsLabel)}
    /\ rec' = [c \in CapiClusters |-> Idle]
    /\ UNCHANGED <<server, dismissed>>

-----------------------------------------------------------------------------
(* Users, Cluster API, CAAPF and Rancher.                                   *)

Edit == used.edits < MaxEdits /\ used' = [used EXCEPT !.edits = @ + 1]

NewCapi(o, l) ==
    [NoCapi EXCEPT !.exists = TRUE, !.uid = o.uid + 1, !.rv = o.rv + 1,
       !.fins = {"capi"}, !.label = l]

CreateCapi(c, l) ==
    /\ ~capi[c].exists
    /\ capi' = [capi EXCEPT ![c] = NewCapi(@, l)]
    /\ Edit
    /\ UNCHANGED <<ranch, nsLabel, cache, queue, rec, dismissed>>

DeleteCapi(c) ==
    /\ capi[c].exists /\ ~capi[c].deleting
    /\ capi' = [capi EXCEPT ![c] = Deleted(@)]
    /\ Edit
    /\ UNCHANGED <<ranch, nsLabel, cache, queue, rec, dismissed>>

SetLabel(c, l) ==
    /\ capi[c].exists /\ capi[c].label # l
    /\ capi' = [capi EXCEPT ![c] = Stored(@, [@ EXCEPT !.label = l])]
    /\ Edit
    /\ UNCHANGED <<ranch, nsLabel, cache, queue, rec, dismissed>>

SetNamespaceLabel(b) ==
    /\ nsLabel # b
    /\ nsLabel' = b
    /\ Edit
    /\ UNCHANGED <<capi, ranch, cache, queue, rec, dismissed>>

\* Cluster API finds the control plane available, or no longer.
ControlPlane(c, b) ==
    /\ capi[c].exists /\ capi[c].cpReady # b
    /\ capi' = [capi EXCEPT ![c] = Stored(@, [@ EXCEPT !.cpReady = b])]
    /\ Edit
    /\ UNCHANGED <<ranch, nsLabel, cache, queue, rec, dismissed>>

\* CAAPF puts its finalizer on a cluster.
FleetAdopts(c) ==
    /\ capi[c].exists /\ ~capi[c].deleting /\ "fleet" \notin capi[c].fins
    /\ capi' = [capi EXCEPT ![c] = Stored(@, WithFin(@, "fleet"))]
    /\ Edit
    /\ UNCHANGED <<ranch, nsLabel, cache, queue, rec, dismissed>>

\* Cluster API and CAAPF are done with a cluster that is being deleted.
ReleaseByOthers(c, f) ==
    /\ capi[c].exists /\ capi[c].deleting /\ f \in capi[c].fins
    /\ capi' = [capi EXCEPT ![c] = Stored(@, WithoutFin(@, f))]
    /\ UNCHANGED <<ranch, nsLabel, cache, queue, rec, dismissed, used>>

\* Rancher holds a cluster with a finalizer of its own, and releases it.
RancherAdopts(r) ==
    /\ ranch[r].exists /\ ~ranch[r].deleting /\ "rancher" \notin ranch[r].fins
    /\ ranch' = [ranch EXCEPT ![r] = Stored(@, WithFin(@, "rancher"))]
    /\ UNCHANGED <<capi, nsLabel, cache, queue, rec, dismissed, used>>

RancherReleases(r) ==
    /\ ranch[r].exists /\ ranch[r].deleting /\ "rancher" \in ranch[r].fins
    /\ ranch' = [ranch EXCEPT ![r] = Kept(Stored(@, WithoutFin(@, "rancher")))]
    /\ UNCHANGED <<capi, nsLabel, cache, queue, rec, dismissed, used>>

\* A user deletes an imported cluster in Rancher, wanting to be rid of it.
UserDeletesRancher(r) ==
    LET o == ranch[r]
    IN /\ o.exists /\ ~o.deleting
       /\ ranch' = [ranch EXCEPT ![r] = Kept(Deleted(o))]
       /\ dismissed' = dismissed \cup {<<o.owner, o.madeFor>>}
       /\ Edit
       /\ UNCHANGED <<capi, nsLabel, cache, queue, rec>>

-----------------------------------------------------------------------------

Init ==
    /\ capi \in [CapiClusters ->
                   {[NoCapi EXCEPT !.exists = TRUE, !.uid = 1, !.rv = 1,
                       !.fins = {"capi"}, !.cpReady = TRUE, !.label = l] : l \in Labels}]
    /\ ranch = [r \in Rids |-> NoRanch]
    /\ nsLabel \in NsLabels
    /\ capiCache = capi /\ ranchCache = ranch /\ nsCache = nsLabel
    /\ queue = {c \in CapiClusters : Passes(capi[c], nsLabel)}
    /\ rec = [c \in CapiClusters |-> Idle]
    /\ dismissed = {}
    /\ used = [edits |-> 0, faults |-> 0, restarts |-> 0]

\* One step of the reconciliation of c that is in flight.
ReconcileStep(c) ==
    \/ AddFinalizer(c) \/ AddFinalizerFails(c)
    \/ EarlyReturn(c)
    \/ PickRancher(c) \/ NoRancher(c)
    \/ Annotate(c) \/ AnnotateFails(c)
    \/ ReleaseRancher(c) \/ ReleaseRancherFails(c)
    \/ DeleteRanchers(c) \/ DeleteRanchersFails(c)
    \/ ReleaseCapi(c) \/ ReleaseCapiFails(c)
    \/ Register(c)
    \/ PatchRancher(c) \/ PatchRancherFails(c)
    \/ Confirm(c) \/ ConfirmFails(c)
    \/ CreateRancher(c) \/ CreateRancherFails(c)
    \/ OuterPatch(c) \/ OuterPatchFails(c)

Turtles ==
    \/ \E c \in CapiClusters :
          Begin(c) \/ BeginMissing(c) \/ ReconcileStep(c) \/ SyncCapi(c) \/ Resync(c)
    \/ \E r \in Rids : CleanupReconcile(r) \/ SyncRancher(r)
    \/ SyncNamespace
    \/ Restart

Environment ==
    \/ \E c \in CapiClusters :
          \/ \E l \in Labels : CreateCapi(c, l) \/ SetLabel(c, l)
          \/ \E b \in BOOLEAN : ControlPlane(c, b)
          \/ DeleteCapi(c) \/ FleetAdopts(c)
          \/ \E f \in {"capi", "fleet"} : ReleaseByOthers(c, f)
    \/ \E b \in NsLabels : SetNamespaceLabel(b)
    \/ \E r \in Rids : RancherAdopts(r) \/ RancherReleases(r) \/ UserDeletesRancher(r)

Next == Turtles \/ Environment

Spec == Init /\ [][Next]_vars

\* The manager keeps running: reconciliations go on, informers catch up and
\* resync, and the workqueue, first in first out, serves every request in the
\* end (a worker can be busy with others whenever a request looks, hence SF).
\* Users, Cluster API, CAAPF and Rancher owe nothing.
Fairness ==
    /\ \A c \in CapiClusters :
          /\ SF_vars(Begin(c))
          /\ WF_vars(ReconcileStep(c))
          /\ WF_vars(SyncCapi(c))
          /\ WF_vars(Resync(c))
    /\ \A r \in Rids : WF_vars(CleanupReconcile(r)) /\ WF_vars(SyncRancher(r))
    /\ WF_vars(SyncNamespace)

FairSpec == Spec /\ Fairness
=============================================================================
