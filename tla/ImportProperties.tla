-------------------------- MODULE ImportProperties --------------------------
(***************************************************************************)
(* What the import and cleanup controllers promise.  The statements that   *)
(* the code keeps come first; the last section states what comments and    *)
(* design records of the repository say and the code does not always keep. *)
(***************************************************************************)
EXTENDS ImportController

LiveOf(rs, c) == {r \in Rids : rs[r].exists /\ rs[r].owner = c /\ ~rs[r].deleting}
Live(c)     == LiveOf(ranch, c)
Created(r)  == ~ranch[r].exists /\ ranch'[r].exists
Eligible(c) == capi[c].exists /\ ~capi[c].deleting /\ Passes(capi[c], nsLabel)

-----------------------------------------------------------------------------
(* Copies. *)

\* A copy is never ahead of the stored object, and with the same resource
\* version it is that object.
Coherent(copy, o) == copy.rv <= o.rv /\ (copy.rv = o.rv => copy = o)

\* What a reconciliation may have changed in its copy without writing it.
SameButOwn(a, b) ==
    /\ a.exists = b.exists /\ a.uid = b.uid /\ a.rv = b.rv
    /\ a.deleting = b.deleting /\ a.cpReady = b.cpReady /\ a.label = b.label
    /\ a.fins \ OwnFins = b.fins \ OwnFins
    /\ b.imported => a.imported

\* The steps up to the first write or uncached read of the CAPI cluster.
Unread == {"list", "annotate", "deleteAll", "capiFinalizer", "normal", "confirm"}

\* The working copy is the stored object, but for what the reconciliation changed in
\* it; or the uncached read left it a label that the object has lost, and the patch
\* base is older.
AsStored(c) ==
    LET hand == rec[c].hand
    IN \/ SameButOwn(hand, capi[c])
       \/ /\ rec[c].base.rv < hand.rv /\ capi[c].label = "none"
          /\ SameButOwn([hand EXCEPT !.label = "none"], capi[c])

\* Optimistic locking is sound only if every copy that a write is computed from (the
\* patch base, the working copy until it is written, the cached objects) can be told
\* from an outdated one by its resource version.  The copy that the uncached read was
\* decoded into (import_controller.go:417) cannot: it may be no object that the server
\* ever had at that version, and no write may rely on it.
CapiCopies(c) ==
    /\ capi[c].rv > 0
    /\ Coherent(capiCache[c], capi[c])
    /\ Coherent(rec[c].base, capi[c])
    /\ rec[c].pc \in Unread => rec[c].hand = rec[c].base
    /\ rec[c].base.rv <= rec[c].hand.rv
    /\ rec[c].hand.rv <= capi[c].rv
    /\ rec[c].hand.rv = capi[c].rv => AsStored(c)

RanchCopies(r) ==
    /\ ranch[r].exists =>
          /\ ranch[r].rv > 0
          /\ Coherent(ranchCache[r], ranch[r])
          /\ \A c \in CapiClusters :
                rec[c].rid = r => Coherent(rec[c].rc, ranch[r])
    /\ ~ranch[r].exists => ranch[r] = NoRanch
    /\ ~ranchCache[r].exists => ranchCache[r] = NoRanch

CopiesCoherent ==
    (\A c \in CapiClusters : CapiCopies(c)) /\ (\A r \in Rids : RanchCopies(r))

-----------------------------------------------------------------------------
(* Safety. *)

\* What a write to a CAPI cluster may not touch: labels, conditions, deletion
\* marks, the annotation once it is there, the finalizers of others.
CapiKept(o, n) ==
    /\ n.label = o.label /\ n.cpReady = o.cpReady /\ n.uid = o.uid
    /\ n.deleting = o.deleting
    /\ n.fins \ OwnFins = o.fins \ OwnFins
    /\ o.imported => n.imported
    /\ o.exists # n.exists => o.deleting /\ n.fins = {}

\* Likewise for a Rancher cluster.
RanchKept(o, n) ==
    o.exists => IF n.exists
                THEN n.owner = o.owner /\ n.fins \ {"turtles"} = o.fins \ {"turtles"}
                ELSE o.fins \subseteq {"turtles"}

OthersKept ==
    /\ \A c \in CapiClusters : CapiKept(capi[c], capi'[c])
    /\ \A r \in Rids : RanchKept(ranch[r], ranch'[r])

\* The writes of a reconciliation are computed from copies that may be old.
\* They never undo what users, Cluster API, CAAPF or Rancher wrote meanwhile.
NoLostUpdate == [][rec' # rec => OthersKept]_vars

\* The finalizer on the CAPI cluster is there so that its Rancher clusters go
\* first.  It is given up only with the imported annotation in the same write
\* (a user was rid of the import), or, on a cluster that is being deleted, when
\* every Rancher cluster made for it is gone or going.
ReleaseJustified ==
    [][\A c \in CapiClusters :
        "turtles" \in capi[c].fins /\ "turtles" \notin capi'[c].fins =>
            \/ capi'[c].imported
            \/ capi[c].deleting /\ LiveOf(ranch', c) = {}
      ]_vars

\* The uncached read before the creation: however old the cached CAPI cluster
\* that started the reconciliation, no Rancher cluster is created for a cluster
\* that already carries the imported annotation.
NoCreateOverAnnotation ==
    [][\A r \in Rids : Created(r) => ~capi[ranch'[r].owner].imported]_vars

\* Nothing is left to be done for a CAPI cluster: no request, no reconciliation, no
\* event on its way.
Still(c) ==
    /\ c \notin queue /\ rec[c].pc = "idle"
    /\ capiCache[c] = capi[c] /\ ranchCache = ranch /\ nsCache = nsLabel

\* No cluster is forgotten half-way, whatever failed, conflicted or was late, and
\* without a resync: one that asks for import and for which nothing is left to be done
\* is held and imported, and without CAAPF free of its finalizer; one that is being
\* deleted is released (import_controller.go:125-266, 398-413, and the watches of
\* SetupWithManager).
AskedIsDone ==
    \A c \in CapiClusters : Still(c) /\ capi[c].exists /\ Passes(capi[c], nsLabel) =>
        IF capi[c].deleting THEN "turtles" \notin capi[c].fins
        ELSE /\ "turtles" \in capi[c].fins /\ Live(c) # {}
             /\ UseCAAPF \/ "fleet" \notin capi[c].fins

-----------------------------------------------------------------------------
(* The contract. *)

\* What the contract calls knowledge is in the caches and in the copies of the
\* reconciliations: the deletion marks and the labels they carry, and the annotation
\* of a patch that failed and that the patch at the end of Reconcile makes up for.
Unsaved(c) ==
    /\ rec[c].pc = "outer" /\ rec[c].hand.rv = rec[c].base.rv
    /\ rec[c].hand.imported /\ ~rec[c].base.imported
LostClone(c) ==
    \/ \E r \in Rids : ranch[r].owner = c /\ ranch[r].deleting
    \/ \E r \in Rids : ranchCache[r].owner = c /\ ranchCache[r].deleting
    \/ rec[c].rc.deleting
    \/ Unsaved(c)
WasDeleted(c) == capi[c].deleting \/ capiCache[c].deleting \/ rec[c].hand.deleting
WasLabelled(c) ==
    "true" \in {capi[c].label, capiCache[c].label, rec[c].hand.label}

ContractCluster(o) ==
    IF ~o.exists
    THEN [here |-> FALSE, going |-> FALSE, held |-> FALSE, dismissed |-> FALSE,
          label |-> "none"]
    ELSE [here |-> TRUE, going |-> o.deleting, held |-> "turtles" \in o.fins,
          dismissed |-> o.imported, label |-> o.label]

Contract == INSTANCE ImportContract WITH
    Clusters <- CapiClusters, Clones <- Rids,
    cluster <- [c \in CapiClusters |-> ContractCluster(capi[c])],
    clone <- [r \in Rids |-> [owner |-> ranch[r].owner, going |-> ranch[r].deleting]],
    namespace <- nsCache,
    promised <- {c \in CapiClusters : rec[c].pc = "create"},
    lost <- {c \in CapiClusters : LostClone(c)},
    leaving <- {c \in CapiClusters : WasDeleted(c)},
    labelled <- {c \in CapiClusters : WasLabelled(c)}

\* The controllers implement the contract: a cluster is imported only if it asks, or
\* asked by a label that was taken off since (import_controller.go:417 does not see
\* that); it is dismissed only if one of its Rancher clusters was deleted, and released only
\* when all of them are going, whatever the caches and copies say, whichever call
\* fails and wherever the manager stops (import_controller.go:125-266).
KeepsContract == Contract!Spec

-----------------------------------------------------------------------------
(* Liveness, under the fairness of the manager. *)

\* A CAPI cluster that asks for import, and goes on asking, is imported and, without
\* CAAPF, free of its finalizer.
ImportHappens ==
    \A c \in CapiClusters :
        ~<>[](/\ Eligible(c)
              /\ Live(c) = {} \/ (~UseCAAPF /\ "fleet" \in capi[c].fins))

\* A CAPI cluster that is being deleted is not held by Turtles for ever, as long
\* as events about it pass the predicates of the controller.
CapiReleased ==
    \A c \in CapiClusters :
        ~<>[](/\ capi[c].exists /\ capi[c].deleting
              /\ "turtles" \in capi[c].fins
              /\ Passes(capi[c], nsLabel))

\* A Rancher cluster that is being deleted is not held by Turtles for ever,
\* whatever becomes of its CAPI cluster.
RancherReleased ==
    \A r \in Rids :
        ~<>[](ranch[r].exists /\ ranch[r].deleting /\ "turtles" \in ranch[r].fins)

-----------------------------------------------------------------------------
(* Said by the repository, not kept by the code. *)

\* import_controller.go:172: the control plane check "should never be false as
\* the predicates do the filtering".
ControlPlaneFiltered ==
    \A c \in CapiClusters : rec[c].pc = "list" => rec[c].hand.cpReady

\* import_controller.go:236: the annotation is there "to prevent further-
\* reimports": no Rancher cluster is created for a CAPI cluster after a user
\* deleted the one it had.
NoReimport ==
    [][\A r \in Rids :
        Created(r) => <<ranch'[r].owner, ranch'[r].madeFor>> \notin dismissed]_vars

\* import_controller.go:424: "not auto importing cluster as namespace or cluster isn't
\* marked auto import", said of the cluster that was read from the server: one whose
\* label was taken off since it was cached is imported nevertheless.
UnmarkedNotImported ==
    [][\A c \in CapiClusters :
        rec[c].pc = "confirm" /\ rec'[c].pc = "create" => ShouldAutoImport(capi[c], nsCache)]_vars

\* import_controller.go:479: "If the Rancher Cluster was already imported, then
\* annotate the CAPI cluster": the Rancher cluster that is going was made for
\* the CAPI cluster that is annotated.
DismissedItsOwn ==
    [][\A c \in CapiClusters :
        ~capi[c].imported /\ capi'[c].imported => rec[c].rc.madeFor = capi[c].uid]_vars

\* import_controller.go:236-238: annotated and released are one patch, so a
\* cluster that is annotated is not held by the finalizer.
ImportedIsReleased ==
    \A c \in CapiClusters : capi[c].imported => "turtles" \notin capi[c].fins

\* docs/adr/0008: the labels identify one Rancher cluster for a CAPI cluster.
OneRancherPerCapi ==
    \A c \in CapiClusters : Cardinality(Live(c)) <= 1
=============================================================================
