---------------------------- MODULE ImportSafety ----------------------------
(***************************************************************************)
(* The safety of the import and cleanup controllers, for any number of     *)
(* CAPI and Rancher clusters.                                              *)
(*                                                                         *)
(* Type correctness, and that optimistic locking works: the copies of the  *)
(* reconciliations and of the cache can be told from outdated ones by      *)
(* their resource versions, and hence no reconciliation undoes what        *)
(* somebody else wrote.  Every step treats the copies of one object in one *)
(* of a few ways, which CapiMove and RanchMove list.  Each action is shown *)
(* to be such a move, and each move to keep the copies coherent.           *)
(*                                                                         *)
(* The finalizer of a CAPI cluster is given up for a reason, however old   *)
(* the copies are that the reconciliation works on.  The invariant says    *)
(* what a reconciliation knows when it is about to give the finalizer up.  *)
(* It survives the steps of the others because only the reconciliation     *)
(* itself makes Rancher clusters for its CAPI cluster.                     *)
(*                                                                         *)
(* A creation does not go over the annotation, since only the same         *)
(* reconciliation could have put it there after the uncached read.         *)
(*                                                                         *)
(* And no cluster is forgotten: as long as no request is due, what is      *)
(* cached is what the reconciliation works on.                             *)
(***************************************************************************)
EXTENDS ImportProperties, TLAPS

-----------------------------------------------------------------------------
(* What the API server stores. *)

\* Types of the operators of ApiServer on the two kinds of objects.
LEMMA StoredCapi ==
    ASSUME NEW o \in CapiObject, NEW n \in CapiObject
    PROVE  Stored(o, n) \in CapiObject
<1> DEFINE m == [n EXCEPT !.rv = o.rv + 1]
<1>1. m \in CapiObject
  BY DEF CapiObject
<1>2. [m EXCEPT !.exists = FALSE] \in CapiObject
  BY <1>1 DEF CapiObject
<1>3. Settle(m) \in CapiObject
  BY <1>1, <1>2 DEF Settle
<1> QED
  BY <1>3 DEF Stored

LEMMA StoredRanch ==
    ASSUME NEW o \in RanchObject, NEW n \in RanchObject
    PROVE  Stored(o, n) \in RanchObject /\ Kept(Stored(o, n)) \in RanchObject
<1> DEFINE m == [n EXCEPT !.rv = o.rv + 1]
<1>1. m \in RanchObject
  BY DEF RanchObject
<1>2. [m EXCEPT !.exists = FALSE] \in RanchObject
  BY <1>1 DEF RanchObject
<1>3. Settle(m) \in RanchObject
  BY <1>1, <1>2 DEF Settle
<1>4. NoRanch \in RanchObject
  BY DEF NoRanch, RanchObject, RanchFins
<1> QED
  BY <1>3, <1>4 DEF Stored, Kept

\* A merge patch of CAPI clusters, field by field.
LEMMA MergeCapi ==
    ASSUME NEW cur \in CapiObject, NEW from \in CapiObject, NEW to \in CapiObject
    PROVE  Merge(cur, from, to) \in CapiObject
BY DEF Merge, CapiObject

LEMMA MergeRanch ==
    ASSUME NEW cur \in RanchObject, NEW from \in RanchObject, NEW to \in RanchObject
    PROVE  Merge(cur, from, to) \in RanchObject
BY DEF Merge, RanchObject

LEMMA NoObjects == NoCapi \in CapiObject /\ NoRanch \in RanchObject /\ Idle \in Reconciliation
BY DEF NoCapi, NoRanch, CapiObject, RanchObject, CapiFins, RanchFins, Idle, Reconciliation, Steps

LEMMA MarkedCapi ==
    ASSUME NEW o \in CapiObject
    PROVE  /\ Finalized(o) \in CapiObject /\ Released(o) \in CapiObject
           /\ Dismissed(o) \in CapiObject /\ FleetSettled(o) \in CapiObject
BY DEF Finalized, Released, WithFin, WithoutFin, Dismissed, FleetSettled, CapiObject, CapiFins

LEMMA DecodedCapi ==
    ASSUME NEW h \in CapiObject, NEW o \in CapiObject
    PROVE  LET d == Decoded(h, o)
           IN /\ d \in CapiObject /\ d.rv = o.rv /\ d.fins = o.fins
              /\ d.label = IF o.label = "none" THEN h.label ELSE o.label
              /\ o.imported => d.imported
BY DEF Decoded, CapiObject

LEMMA MarkedRanch ==
    ASSUME NEW o \in RanchObject
    PROVE  Finalized(o) \in RanchObject /\ Released(o) \in RanchObject
BY DEF Finalized, Released, WithFin, WithoutFin, RanchObject, RanchFins

LEMMA DeletedObjects ==
    /\ \A o \in CapiObject : Deleted(o) \in CapiObject
    /\ \A o \in RanchObject : Kept(Deleted(o)) \in RanchObject
<1>1. ASSUME NEW o \in CapiObject PROVE [o EXCEPT !.deleting = TRUE] \in CapiObject
  BY DEF CapiObject
<1>2. ASSUME NEW o \in RanchObject PROVE [o EXCEPT !.deleting = TRUE] \in RanchObject
  BY DEF RanchObject
<1> QED
  BY <1>1, <1>2, StoredCapi, StoredRanch DEF Deleted

\* The two ways a reconciliation ends or goes on to its outer patch.
LEMMA RecTypes ==
    ASSUME TypeOK, NEW c \in CapiClusters, NEW again \in BOOLEAN,
           NEW hand \in CapiObject
    PROVE  /\ ToOuter(c, hand, again) => rec' \in [CapiClusters -> Reconciliation]
           /\ Finish(c, again) => /\ rec' \in [CapiClusters -> Reconciliation]
                                  /\ queue' \subseteq CapiClusters
<1>1. [Idle EXCEPT !.pc = "outer", !.base = rec[c].base, !.hand = hand,
                   !.again = again] \in Reconciliation
  <2>1. rec[c].base \in CapiObject
    BY DEF TypeOK, Reconciliation
  <2> QED
    BY <2>1, NoObjects DEF Reconciliation, Steps, Idle
<1>2. Idle \in Reconciliation
  BY NoObjects
<1> QED
  BY <1>1, <1>2 DEF TypeOK, ToOuter, Finish

LEMMA GotoTypes ==
    ASSUME TypeOK, NEW c \in CapiClusters, NEW pc \in Steps
    PROVE  Goto(c, pc) => rec' \in [CapiClusters -> Reconciliation]
BY DEF TypeOK, Goto, Reconciliation

LEMMA BoundTypes ==
    ASSUME TypeOK
    PROVE  /\ \A b \in BOOLEAN : CallFails(b) => used' \in [edits: Nat, faults: Nat, restarts: Nat]
           /\ Edit => used' \in [edits: Nat, faults: Nat, restarts: Nat]
BY DEF TypeOK, CallFails, Edit

\* The parts of a reconciliation in flight.
LEMMA RecParts ==
    ASSUME TypeOK, NEW c \in CapiClusters
    PROVE  /\ capi[c] \in CapiObject /\ capiCache[c] \in CapiObject
           /\ rec[c].base \in CapiObject /\ rec[c].hand \in CapiObject
           /\ rec[c].rc \in RanchObject /\ rec[c].rid \in Rids \cup {None}
           /\ rec[c].again \in BOOLEAN /\ rec[c].pc \in Steps
           /\ rec[c].hand.cpReady \in BOOLEAN
BY DEF TypeOK, Reconciliation, CapiObject

LEMMA TypeInit ==
    ASSUME Init
    PROVE  TypeOK
<1>1. ASSUME NEW l \in Labels
      PROVE [NoCapi EXCEPT !.exists = TRUE, !.uid = 1, !.rv = 1,
               !.fins = {"capi"}, !.cpReady = TRUE, !.label = l] \in CapiObject
  BY ConstantsAssumption DEF NoCapi, CapiObject, CapiFins
<1> DEFINE S == {[NoCapi EXCEPT !.exists = TRUE, !.uid = 1, !.rv = 1,
                   !.fins = {"capi"}, !.cpReady = TRUE, !.label = l] : l \in Labels}
<1>2. capi \in [CapiClusters -> CapiObject]
  <2>1. S \subseteq CapiObject
    BY <1>1
  <2>2. capi \in [CapiClusters -> S]
    BY DEF Init
  <2> HIDE DEF S
  <2> QED
    BY <2>1, <2>2
<1> QED
  BY <1>2, NoObjects, ConstantsAssumption DEF Init, TypeOK

\* Every step of every actor, in the order of the specification.
LEMMA TypeStep ==
    ASSUME TypeOK, [Next]_vars
    PROVE  TypeOK'
<1> USE DEF server, cache
<1>1. ASSUME NEW c \in CapiClusters, Begin(c) PROVE TypeOK'
  <2>1. capiCache[c] \in CapiObject
    BY RecParts
  <2>2. /\ [Idle EXCEPT !.pc = "list", !.base = capiCache[c], !.hand = capiCache[c]]
             \in Reconciliation
        /\ [Idle EXCEPT !.pc = "addFinalizer"] \in Reconciliation
    BY <2>1, NoObjects DEF Reconciliation, Steps, Idle
  <2> QED
    BY <1>1, <2>2 DEF Begin, TypeOK
<1>2. ASSUME NEW c \in CapiClusters, BeginMissing(c) PROVE TypeOK'
  BY <1>2 DEF BeginMissing, TypeOK
<1>3. ASSUME NEW c \in CapiClusters, AddFinalizer(c) PROVE TypeOK'
  <2>1. Stored(capi[c], Finalized(capiCache[c])) \in CapiObject
    BY RecParts, MarkedCapi, StoredCapi
  <2>2. capi' \in [CapiClusters -> CapiObject] /\ capi'[c] \in CapiObject
    BY <1>3, <2>1 DEF AddFinalizer, TypeOK
  <2>3. [rec[c] EXCEPT !.pc = "list", !.hand = capi'[c], !.base = capi'[c]]
          \in Reconciliation
    <3>1. rec[c] \in Reconciliation
      BY DEF TypeOK
    <3> QED
      BY <2>2, <3>1 DEF Reconciliation, Steps
  <2> QED
    BY <1>3, <2>2, <2>3 DEF AddFinalizer, TypeOK
<1>4. ASSUME NEW c \in CapiClusters, AddFinalizerFails(c) PROVE TypeOK'
  <2>1. CanAddFinalizer(c) \in BOOLEAN
    BY DEF CanAddFinalizer
  <2> QED
    BY <1>4, <2>1, RecTypes, BoundTypes, NoObjects DEF AddFinalizerFails, TypeOK
<1>5. ASSUME NEW c \in CapiClusters, EarlyReturn(c) PROVE TypeOK'
  BY <1>5, RecTypes, RecParts, NoObjects DEF EarlyReturn, TypeOK
<1>6. ASSUME NEW c \in CapiClusters, PickRancher(c) PROVE TypeOK'
  <2>1. PICK r \in Owned(ranchCache, c) :
           rec' = [rec EXCEPT ![c] =
                   [@ EXCEPT !.rid = r, !.rc = ranchCache[r],
                      !.pc = IF ranchCache[r].deleting THEN "annotate"
                             ELSE IF rec[c].hand.deleting THEN "deleteAll"
                             ELSE "normal"]]
    BY <1>6 DEF PickRancher
  <2>2. r \in Rids /\ ranchCache[r] \in RanchObject
    BY DEF TypeOK, Owned
  <2>3. \A p \in Steps : [rec[c] EXCEPT !.rid = r, !.rc = ranchCache[r], !.pc = p]
                           \in Reconciliation
    BY <2>2 DEF TypeOK, Reconciliation
  <2>4. rec' \in [CapiClusters -> Reconciliation]
    BY <2>1, <2>3 DEF TypeOK, Steps
  <2> QED
    BY <1>6, <2>4 DEF PickRancher, TypeOK
<1>7. ASSUME NEW c \in CapiClusters, NoRancher(c) PROVE TypeOK'
  BY <1>7, GotoTypes DEF NoRancher, Steps, TypeOK
<1>8. ASSUME NEW c \in CapiClusters, Annotate(c) PROVE TypeOK'
  <2> DEFINE n == Stored(capi[c], Merge(capi[c], rec[c].hand, Dismissed(rec[c].hand)))
  <2>1. n \in CapiObject
    BY RecParts, MarkedCapi, MergeCapi, StoredCapi
  <2>2. capi' = [capi EXCEPT ![c] = n]
    BY <1>8 DEF Annotate
  <2> HIDE DEF n
  <2>3. capi' \in [CapiClusters -> CapiObject] /\ capi'[c] \in CapiObject
    BY <2>1, <2>2 DEF TypeOK
  <2>4. [rec[c] EXCEPT !.pc = "rancherFinalizer", !.hand = capi'[c]] \in Reconciliation
    <3>1. rec[c] \in Reconciliation
      BY DEF TypeOK
    <3> QED
      BY <2>3, <3>1 DEF Reconciliation, Steps
  <2>5. rec' \in [CapiClusters -> Reconciliation]
    BY <1>8, <2>3, <2>4, RecTypes DEF Annotate, TypeOK
  <2> QED
    BY <1>8, <2>3, <2>5 DEF Annotate, TypeOK
<1>9. ASSUME NEW c \in CapiClusters, AnnotateFails(c) PROVE TypeOK'
  <2>1. Dismissed(rec[c].hand) \in CapiObject
    BY RecParts, MarkedCapi
  <2>2. Accepts(capi[c], rec[c].hand.rv) \in BOOLEAN
    BY RecParts DEF Accepts, CapiObject
  <2> QED
    BY <1>9, <2>1, <2>2, RecTypes, BoundTypes DEF AnnotateFails, TypeOK
<1>10. ASSUME NEW c \in CapiClusters, ReleaseRancher(c) PROVE TypeOK'
  <2>1. Kept(Stored(ranch[rec[c].rid], Released(rec[c].rc))) \in RanchObject
           \/ rec[c].rid \notin Rids
    BY RecParts, MarkedRanch, StoredRanch DEF TypeOK
  <2>2. ranch' \in [Rids -> RanchObject]
    BY <1>10, <2>1 DEF ReleaseRancher, TypeOK
  <2>3. rec' \in [CapiClusters -> Reconciliation]
    BY <1>10, RecParts, RecTypes DEF ReleaseRancher
  <2> QED
    BY <1>10, <2>2, <2>3 DEF ReleaseRancher, TypeOK
<1>11. ASSUME NEW c \in CapiClusters, ReleaseRancherFails(c) PROVE TypeOK'
  <2>1. Accepts(ranch[rec[c].rid], rec[c].rc.rv) \in BOOLEAN
    BY DEF Accepts
  <2> QED
    BY <1>11, <2>1, RecParts, RecTypes, BoundTypes DEF ReleaseRancherFails, TypeOK
<1>12. ASSUME NEW c \in CapiClusters, DeleteRanchers(c) PROVE TypeOK'
  <2>1. ranch' \in [Rids -> RanchObject]
    BY <1>12, DeletedObjects DEF DeleteRanchers, TypeOK
  <2>2. rec' \in [CapiClusters -> Reconciliation]
    BY <1>12, RecParts, RecTypes, GotoTypes DEF DeleteRanchers, Steps
  <2> QED
    BY <1>12, <2>1, <2>2 DEF DeleteRanchers, TypeOK
<1>13. ASSUME NEW c \in CapiClusters, DeleteRanchersFails(c) PROVE TypeOK'
  BY <1>13, RecParts, RecTypes, BoundTypes DEF DeleteRanchersFails, TypeOK
<1>14. ASSUME NEW c \in CapiClusters, ReleaseCapi(c) PROVE TypeOK'
  <2>1. Stored(capi[c], Released(rec[c].hand)) \in CapiObject
    BY RecParts, MarkedCapi, StoredCapi
  <2>2. capi' \in [CapiClusters -> CapiObject] /\ capi'[c] \in CapiObject
    BY <1>14, <2>1 DEF ReleaseCapi, TypeOK
  <2> QED
    BY <1>14, <2>2, RecTypes DEF ReleaseCapi, TypeOK
<1>15. ASSUME NEW c \in CapiClusters, ReleaseCapiFails(c) PROVE TypeOK'
  <2>1. Released(rec[c].hand) \in CapiObject
    BY RecParts, MarkedCapi
  <2>2. Accepts(capi[c], rec[c].hand.rv) \in BOOLEAN
    BY DEF Accepts
  <2> QED
    BY <1>15, <2>1, <2>2, RecTypes, BoundTypes DEF ReleaseCapiFails, TypeOK
<1>16. ASSUME NEW c \in CapiClusters, Register(c) PROVE TypeOK'
  <2>1. FleetSettled(rec[c].hand) \in CapiObject
    BY RecParts, MarkedCapi
  <2>2. \A requeue \in BOOLEAN :
           [rec[c] EXCEPT !.pc = "patchRancher", !.hand = FleetSettled(rec[c].hand),
                          !.again = requeue] \in Reconciliation
    <3>1. rec[c] \in Reconciliation
      BY DEF TypeOK
    <3> QED
      BY <2>1, <3>1 DEF Reconciliation, Steps
  <2>3. rec' \in [CapiClusters -> Reconciliation]
    BY <1>16, <2>1, <2>2, RecTypes DEF Register, TypeOK
  <2> QED
    BY <1>16, <2>3 DEF Register, TypeOK
<1>17. ASSUME NEW c \in CapiClusters, PatchRancher(c) PROVE TypeOK'
  <2>2. Stored(ranch[rec[c].rid], Finalized(rec[c].rc)) \in RanchObject
           \/ rec[c].rid \notin Rids
    BY RecParts, MarkedRanch, StoredRanch DEF TypeOK
  <2>3. ranch' \in [Rids -> RanchObject]
    BY <1>17, <2>2 DEF PatchRancher, TypeOK
  <2>4. rec' \in [CapiClusters -> Reconciliation]
    BY <1>17, RecParts, RecTypes DEF PatchRancher
  <2> QED
    BY <1>17, <2>3, <2>4 DEF PatchRancher, TypeOK
<1>18. ASSUME NEW c \in CapiClusters, PatchRancherFails(c) PROVE TypeOK'
  <2>1. Accepts(ranch[rec[c].rid], rec[c].rc.rv) \in BOOLEAN
    BY DEF Accepts
  <2> QED
    BY <1>18, <2>1, RecParts, RecTypes, BoundTypes DEF PatchRancherFails, TypeOK
<1>19. ASSUME NEW c \in CapiClusters, Confirm(c) PROVE TypeOK'
  <2> DEFINE read == Decoded(rec[c].hand, capi[c])
  <2>1. rec[c] \in Reconciliation /\ read \in CapiObject
    BY RecParts, DecodedCapi DEF TypeOK, Reconciliation
  <2>2. \/ rec' = [rec EXCEPT ![c] = [@ EXCEPT !.pc = "create", !.hand = read]]
        \/ ToOuter(c, read, FALSE)
    BY <1>19 DEF Confirm
  <2> HIDE DEF read
  <2>3. [rec[c] EXCEPT !.pc = "create", !.hand = read] \in Reconciliation
    BY <2>1 DEF Reconciliation, Steps
  <2>4. rec' \in [CapiClusters -> Reconciliation]
    BY <2>1, <2>2, <2>3, RecTypes DEF TypeOK
  <2> QED
    BY <1>19, <2>4 DEF Confirm, TypeOK
<1>20. ASSUME NEW c \in CapiClusters, ConfirmFails(c) PROVE TypeOK'
  <2>1. FleetSettled(rec[c].hand) \in CapiObject
    BY RecParts, MarkedCapi
  <2> QED
    BY <1>20, <2>1, RecTypes, BoundTypes DEF ConfirmFails, TypeOK
<1>21. ASSUME NEW c \in CapiClusters, CreateRancher(c) PROVE TypeOK'
  <2>1. [NoRanch EXCEPT !.exists = TRUE, !.rv = 1, !.fins = {"turtles"},
           !.owner = c, !.madeFor = rec[c].hand.uid] \in RanchObject
    BY RecParts DEF NoRanch, RanchObject, RanchFins, CapiObject
  <2>2. ranch' \in [Rids -> RanchObject]
    BY <1>21, <2>1 DEF CreateRancher, TypeOK
  <2>3. rec' \in [CapiClusters -> Reconciliation]
    BY <1>21, RecParts, RecTypes DEF CreateRancher
  <2> QED
    BY <1>21, <2>2, <2>3 DEF CreateRancher, TypeOK
<1>22. ASSUME NEW c \in CapiClusters, CreateRancherFails(c) PROVE TypeOK'
  BY <1>22, RecParts, RecTypes, BoundTypes DEF CreateRancherFails, TypeOK
<1>23. ASSUME NEW c \in CapiClusters, OuterPatch(c) PROVE TypeOK'
  <2> DEFINE n == Stored(capi[c], Merge(capi[c], rec[c].base, rec[c].hand))
  <2>1. n \in CapiObject
    BY RecParts, MergeCapi, StoredCapi
  <2>2. capi' = [capi EXCEPT ![c] = n]
    BY <1>23 DEF OuterPatch
  <2> HIDE DEF n
  <2>3. capi' \in [CapiClusters -> CapiObject]
    BY <2>1, <2>2 DEF TypeOK
  <2> QED
    BY <1>23, <2>3, RecParts, RecTypes DEF OuterPatch, TypeOK
<1>24. ASSUME NEW c \in CapiClusters, OuterPatchFails(c) PROVE TypeOK'
  <2>1. Accepts(capi[c], rec[c].base.rv) \in BOOLEAN
    BY DEF Accepts
  <2> QED
    BY <1>24, <2>1, RecTypes, BoundTypes, NoObjects DEF OuterPatchFails, TypeOK
<1>25. ASSUME NEW r \in Rids, CleanupReconcile(r) PROVE TypeOK'
  <2> DEFINE n == Stored(ranch[r], Merge(ranch[r], ranchCache[r], Released(ranchCache[r])))
  <2>1. ranch[r] \in RanchObject /\ ranchCache[r] \in RanchObject
    BY DEF TypeOK
  <2>2. Kept(n) \in RanchObject
    BY <2>1, MarkedRanch, MergeRanch, StoredRanch
  <2>3. ranch' = [ranch EXCEPT ![r] = Kept(n)]
    BY <1>25 DEF CleanupReconcile
  <2> HIDE DEF n
  <2> QED
    BY <1>25, <2>2, <2>3 DEF CleanupReconcile, TypeOK
<1>26. ASSUME NEW c \in CapiClusters, SyncCapi(c) PROVE TypeOK'
  BY <1>26 DEF SyncCapi, TypeOK
<1>27. ASSUME NEW r \in Rids, SyncRancher(r) PROVE TypeOK'
  <2>1. ranch[r].owner \in CapiClusters \cup {None}
        /\ ranchCache[r].owner \in CapiClusters \cup {None}
    BY DEF TypeOK, RanchObject
  <2> QED
    BY <1>27, <2>1 DEF SyncRancher, Mapped, TypeOK
<1>28. CASE SyncNamespace
  BY <1>28 DEF SyncNamespace, Mapped, TypeOK
<1>29. ASSUME NEW c \in CapiClusters, Resync(c) PROVE TypeOK'
  BY <1>29 DEF Resync, TypeOK
<1>30. CASE Restart
  BY <1>30, NoObjects DEF Restart, TypeOK
<1>31. ASSUME NEW c \in CapiClusters, NEW l \in Labels, CreateCapi(c, l)
       PROVE TypeOK'
  <2>1. capi[c].uid + 1 \in Nat /\ capi[c].rv + 1 \in Nat
    BY RecParts DEF CapiObject
  <2>2. l \in {"none", "true", "false"}
    BY ConstantsAssumption
  <2>3. NewCapi(capi[c], l) \in CapiObject
    BY <2>1, <2>2 DEF NewCapi, NoCapi, CapiObject, CapiFins
  <2> QED
    BY <1>31, <2>3, BoundTypes DEF CreateCapi, TypeOK
<1>32. ASSUME NEW c \in CapiClusters, DeleteCapi(c) PROVE TypeOK'
  BY <1>32, RecParts, DeletedObjects, BoundTypes DEF DeleteCapi, TypeOK
<1>33. ASSUME NEW c \in CapiClusters, NEW l \in Labels, SetLabel(c, l)
       PROVE TypeOK'
  <2>1. [capi[c] EXCEPT !.label = l] \in CapiObject
    BY RecParts, ConstantsAssumption DEF CapiObject
  <2> QED
    BY <1>33, <2>1, RecParts, StoredCapi, BoundTypes DEF SetLabel, TypeOK
<1>34. ASSUME NEW b \in NsLabels, SetNamespaceLabel(b) PROVE TypeOK'
  BY <1>34, ConstantsAssumption, BoundTypes DEF SetNamespaceLabel, TypeOK
<1>35. ASSUME NEW c \in CapiClusters, NEW b \in BOOLEAN, ControlPlane(c, b)
       PROVE TypeOK'
  <2>1. [capi[c] EXCEPT !.cpReady = b] \in CapiObject
    BY RecParts DEF CapiObject
  <2> QED
    BY <1>35, <2>1, RecParts, StoredCapi, BoundTypes DEF ControlPlane, TypeOK
<1>36. ASSUME NEW c \in CapiClusters, FleetAdopts(c) PROVE TypeOK'
  <2>1. WithFin(capi[c], "fleet") \in CapiObject
    BY RecParts DEF WithFin, CapiObject, CapiFins
  <2> QED
    BY <1>36, <2>1, RecParts, StoredCapi, BoundTypes DEF FleetAdopts, TypeOK
<1>37. ASSUME NEW c \in CapiClusters, NEW f \in {"capi", "fleet"}, ReleaseByOthers(c, f)
       PROVE TypeOK'
  <2>1. WithoutFin(capi[c], f) \in CapiObject
    BY RecParts DEF WithoutFin, CapiObject, CapiFins
  <2> QED
    BY <1>37, <2>1, RecParts, StoredCapi DEF ReleaseByOthers, TypeOK
<1>38. ASSUME NEW r \in Rids, RancherAdopts(r) PROVE TypeOK'
  <2>1. WithFin(ranch[r], "rancher") \in RanchObject
    BY DEF WithFin, TypeOK, RanchObject, RanchFins
  <2> QED
    BY <1>38, <2>1, StoredRanch DEF RancherAdopts, TypeOK
<1>39. ASSUME NEW r \in Rids, RancherReleases(r) PROVE TypeOK'
  <2>1. WithoutFin(ranch[r], "rancher") \in RanchObject
    BY DEF WithoutFin, TypeOK, RanchObject, RanchFins
  <2> QED
    BY <1>39, <2>1, StoredRanch DEF RancherReleases, TypeOK
<1>40. ASSUME NEW r \in Rids, UserDeletesRancher(r) PROVE TypeOK'
  <2>1. ranch[r].owner \in CapiClusters \cup {None} /\ ranch[r].madeFor \in Nat
    BY DEF TypeOK, RanchObject
  <2> QED
    BY <1>40, <2>1, DeletedObjects, BoundTypes DEF UserDeletesRancher, TypeOK
<1>41. CASE UNCHANGED vars
  BY <1>41 DEF vars, TypeOK
<1> HIDE DEF server, cache
<1> QED
  BY <1>1, <1>2, <1>3, <1>4, <1>5, <1>6, <1>7, <1>8, <1>9, <1>10, <1>11, <1>12, <1>13,
     <1>14, <1>15, <1>16, <1>17, <1>18, <1>19, <1>20, <1>21, <1>22, <1>23, <1>24, <1>25,
     <1>26, <1>27, <1>28, <1>29, <1>30, <1>31, <1>32, <1>33, <1>34, <1>35, <1>36, <1>37,
     <1>38, <1>39, <1>40, <1>41
     DEF Next, Turtles, Environment, ReconcileStep

\* Every object, copy, queue and counter has its type in every reachable state.
THEOREM TypeCorrect == Spec => []TypeOK
<1>1. Init => TypeOK
  BY TypeInit
<1>2. TypeOK /\ [Next]_vars => TypeOK'
  BY TypeStep
<1> QED
  BY <1>1, <1>2, PTL DEF Spec


-----------------------------------------------------------------------------
(* Moves. *)


\* A write leaves the object alone or moves its resource version on.
Moved(o, n) == n = o \/ n.rv = o.rv + 1

\* The copies a reconciliation of c holds after a step.
RecMove(c) ==
    LET old == rec[c]
        new == rec'[c]
    IN \/ new.base = old.base /\ new.hand = old.hand
       \/ new.base = NoCapi /\ new.hand = NoCapi
       \/ /\ new.base = capiCache[c] /\ new.hand = capiCache[c]
       \/ new.base = capi'[c] /\ new.hand = capi'[c]
       \/ new.base = old.base /\ new.hand = capi'[c]
       \/ /\ new.base = old.base
          /\ new.hand \in {Dismissed(old.hand), Released(old.hand), FleetSettled(old.hand)}
       \/ /\ new.base = old.base /\ capi'[c] = capi[c]
          /\ new.hand = Decoded(old.hand, capi[c])

CapiMove(c) ==
    /\ Moved(capi[c], capi'[c])
    /\ capiCache'[c] = capiCache[c] \/ capiCache'[c] = capi'[c]
    /\ RecMove(c)

\* How a step treats a Rancher cluster and the copies of it: a write, a
\* removal, or a creation under a name nobody knows.
RanchMove(r) ==
    /\ \/ ranch'[r] = ranch[r]
       \/ /\ ranch[r].exists
          /\ \/ ranch'[r] = NoRanch
             \/ ranch'[r].exists /\ ranch'[r].rv = ranch[r].rv + 1
       \/ /\ ~ranch[r].exists /\ ~ranchCache[r].exists
          /\ \A c \in CapiClusters : rec[c].rid # r
          /\ ranch'[r].exists /\ ranch'[r].rv = 1
    /\ \/ ranchCache'[r] = ranchCache[r]
       \/ ranchCache'[r] = ranch[r] /\ ranch'[r] = ranch[r]
    /\ \A c \in CapiClusters : rec'[c].rid = r =>
          \/ rec[c].rid = r /\ rec'[c].rc = rec[c].rc
          \/ rec'[c].rc = ranchCache[r] /\ ranch'[r] = ranch[r]

-----------------------------------------------------------------------------
(* Moves keep the copies coherent. *)

\* A coherent copy stays coherent when the object moves on.
LEMMA CoherentMoved ==
    ASSUME NEW x, NEW o, NEW n, x.rv \in Nat, o.rv \in Nat,
           Coherent(x, o), Moved(o, n)
    PROVE  Coherent(x, n)
BY DEF Coherent, Moved

\* What a reconciliation does to its working copy stays within its own fields.
LEMMA OwnMarks ==
    ASSUME NEW h \in CapiObject, NEW n \in {Dismissed(h), Released(h), FleetSettled(h)}
    PROVE  n.rv = h.rv /\ SameButOwn(n, h)
<1>1. ASSUME NEW f \in OwnFins
      PROVE  WithoutFin(h, f).rv = h.rv /\ SameButOwn(WithoutFin(h, f), h)
  BY <1>1 DEF WithoutFin, SameButOwn, OwnFins, CapiObject
<1>2. Released(h).rv = h.rv /\ SameButOwn(Released(h), h) /\ Released(h) \in CapiObject
  BY <1>1, MarkedCapi DEF Released, OwnFins
<1>3. Dismissed(h).rv = h.rv /\ SameButOwn(Dismissed(h), h)
  BY <1>2 DEF Dismissed, SameButOwn, CapiObject
<1>4. FleetSettled(h).rv = h.rv /\ SameButOwn(FleetSettled(h), h)
  <2>1. h.rv = h.rv /\ SameButOwn(h, h)
    BY DEF SameButOwn
  <2> QED
    BY <1>1, <2>1 DEF FleetSettled, OwnFins
<1> QED
  BY <1>2, <1>3, <1>4

LEMMA SameButOwnTrans ==
    ASSUME NEW a, NEW b, NEW c, SameButOwn(a, b), SameButOwn(b, c)
    PROVE  SameButOwn(a, c)
BY DEF SameButOwn

LEMMA CapiMoveKeeps ==
    ASSUME TypeOK, TypeOK', NEW c \in CapiClusters, CapiCopies(c), CapiMove(c),
           rec'[c].pc \in Unread => rec'[c].hand = rec'[c].base
    PROVE  CapiCopies(c)'
<1>1. /\ capi[c].rv \in Nat /\ capi'[c].rv \in Nat
      /\ capiCache[c].rv \in Nat /\ capiCache'[c].rv \in Nat
      /\ rec[c].base.rv \in Nat /\ rec'[c].base.rv \in Nat
      /\ rec[c].hand.rv \in Nat /\ rec'[c].hand.rv \in Nat
      /\ rec[c].hand \in CapiObject /\ capi[c] \in CapiObject
      /\ rec[c].hand.label \in {"none", "true", "false"}
  BY DEF TypeOK, Reconciliation, CapiObject
<1>2. capi'[c].rv > 0 /\ capi'[c].rv >= capi[c].rv
  BY <1>1 DEF CapiMove, Moved, CapiCopies
<1>3. Coherent(capiCache[c], capi'[c])
  BY <1>1, CoherentMoved DEF CapiMove, CapiCopies
<1>4. Coherent(capiCache'[c], capi'[c])
  BY <1>1, <1>3 DEF CapiMove, Coherent
<1>5. SameButOwn(capi'[c], capi'[c])
  BY DEF SameButOwn
<1>6. Coherent(rec[c].base, capi'[c])
  BY <1>1, CoherentMoved DEF CapiMove, CapiCopies
<1>7. rec[c].hand.rv = capi'[c].rv => capi'[c] = capi[c] /\ AsStored(c)
  BY <1>1 DEF CapiMove, Moved, CapiCopies
<1>8. CASE rec'[c].base = rec[c].base /\ rec'[c].hand = rec[c].hand
  <2>1. rec'[c].hand.rv = capi'[c].rv => AsStored(c)'
    BY <1>7, <1>8 DEF AsStored
  <2> QED
    BY <1>1, <1>2, <1>4, <1>6, <1>8, <2>1 DEF CapiCopies
<1>9. CASE rec'[c].base = NoCapi /\ rec'[c].hand = NoCapi
  BY <1>1, <1>2, <1>4, <1>9 DEF CapiCopies, Coherent, NoCapi
<1>10. CASE rec'[c].base = capiCache[c] /\ rec'[c].hand = capiCache[c]
  BY <1>1, <1>2, <1>3, <1>4, <1>5, <1>10 DEF CapiCopies, Coherent, AsStored
<1>11. CASE rec'[c].base = capi'[c] /\ rec'[c].hand = capi'[c]
  BY <1>1, <1>2, <1>4, <1>5, <1>11 DEF CapiCopies, Coherent, AsStored
<1>12. CASE rec'[c].base = rec[c].base /\ rec'[c].hand = capi'[c]
  BY <1>1, <1>2, <1>4, <1>5, <1>6, <1>12 DEF CapiCopies, Coherent, AsStored
<1>13. CASE /\ rec'[c].base = rec[c].base
            /\ rec'[c].hand \in {Dismissed(rec[c].hand), Released(rec[c].hand),
                                 FleetSettled(rec[c].hand)}
  <2>1. rec'[c].hand.rv = rec[c].hand.rv /\ SameButOwn(rec'[c].hand, rec[c].hand)
    BY <1>1, <1>13, OwnMarks
  <2>2. rec'[c].hand \in CapiObject
    BY DEF TypeOK, Reconciliation
  <2>3. ASSUME rec'[c].hand.rv = capi'[c].rv PROVE AsStored(c)'
    <3>1. capi'[c] = capi[c] /\ AsStored(c)
      BY <1>7, <2>1, <2>3
    <3>2. CASE SameButOwn(rec[c].hand, capi[c])
      BY <2>1, <3>1, <3>2, SameButOwnTrans DEF AsStored
    <3>3. CASE /\ rec[c].base.rv < rec[c].hand.rv /\ capi[c].label = "none"
               /\ SameButOwn([rec[c].hand EXCEPT !.label = "none"], capi[c])
      <4>1. SameButOwn([rec'[c].hand EXCEPT !.label = "none"],
                       [rec[c].hand EXCEPT !.label = "none"])
        BY <1>1, <2>1, <2>2 DEF SameButOwn, CapiObject
      <4>2. SameButOwn([rec'[c].hand EXCEPT !.label = "none"], capi[c])
        BY <3>3, <4>1, SameButOwnTrans
      <4> QED
        BY <1>13, <2>1, <3>1, <3>3, <4>2 DEF AsStored
    <3> QED
      BY <3>1, <3>2, <3>3 DEF AsStored
  <2> QED
    BY <1>1, <1>2, <1>4, <1>6, <1>13, <2>1, <2>3 DEF CapiCopies
<1>14. CASE /\ rec'[c].base = rec[c].base /\ capi'[c] = capi[c]
            /\ rec'[c].hand = Decoded(rec[c].hand, capi[c])
  <2>1. /\ rec'[c].hand.rv = capi[c].rv
        /\ rec'[c].hand.label =
              IF capi[c].label = "none" THEN rec[c].hand.label ELSE capi[c].label
        /\ SameButOwn([rec'[c].hand EXCEPT !.label = capi[c].label], capi[c])
        /\ rec'[c].hand.label = capi[c].label => SameButOwn(rec'[c].hand, capi[c])
    BY <1>1, <1>14 DEF Decoded, SameButOwn, CapiObject
  <2>2. ASSUME rec[c].base.rv = capi[c].rv PROVE rec[c].hand.label = capi[c].label
    <3>1. rec[c].hand.rv = capi[c].rv /\ ~(rec[c].base.rv < rec[c].hand.rv)
      BY <1>1, <2>2 DEF CapiCopies
    <3> QED
      BY <1>1, <3>1 DEF CapiCopies, AsStored, SameButOwn
  <2>3. rec[c].base.rv <= capi[c].rv
    BY DEF CapiCopies, Coherent
  <2>4. AsStored(c)'
    <3>1. CASE rec'[c].hand.label = capi[c].label
      BY <1>14, <2>1, <3>1 DEF AsStored
    <3>2. CASE rec'[c].hand.label # capi[c].label
      <4>1. capi[c].label = "none" /\ rec[c].base.rv < capi[c].rv
        BY <1>1, <2>1, <2>2, <2>3, <3>2
      <4> QED
        BY <1>14, <2>1, <4>1 DEF AsStored
    <3> QED
      BY <3>1, <3>2
  <2> QED
    BY <1>1, <1>2, <1>4, <1>6, <1>14, <2>1, <2>3, <2>4 DEF CapiCopies
<1> QED
  BY <1>8, <1>9, <1>10, <1>11, <1>12, <1>13, <1>14 DEF CapiMove, RecMove

LEMMA RanchMoveKeeps ==
    ASSUME TypeOK, TypeOK', NEW r \in Rids, RanchCopies(r), RanchMove(r)
    PROVE  RanchCopies(r)'
<1>1. /\ ranch[r].rv \in Nat /\ ranch'[r].rv \in Nat /\ ranchCache[r].rv \in Nat
      /\ \A c \in CapiClusters : rec[c].rc.rv \in Nat
  BY DEF TypeOK, Reconciliation, RanchObject
<1>2. /\ ~ranch'[r].exists => ranch'[r] = NoRanch
      /\ ~ranchCache'[r].exists => ranchCache'[r] = NoRanch
      /\ ranch'[r].exists => ranch'[r].rv > 0
  BY <1>1 DEF RanchMove, RanchCopies, NoRanch
<1>3. CASE ranch'[r] = ranch[r]
  BY <1>1, <1>2, <1>3 DEF RanchMove, RanchCopies, Coherent
<1>4. CASE ranch[r].exists /\ ranch'[r] # ranch[r] /\ ranch'[r] = NoRanch
  <2>1. ~ranch'[r].exists
    BY <1>4 DEF NoRanch
  <2> QED
    BY <1>2, <2>1 DEF RanchCopies
<1>5. CASE /\ ranch[r].exists /\ ranch'[r] # ranch[r]
           /\ ranch'[r].exists /\ ranch'[r].rv = ranch[r].rv + 1
  <2>1. Coherent(ranchCache'[r], ranch'[r])
    BY <1>1, <1>5 DEF RanchMove, RanchCopies, Coherent
  <2>2. ASSUME NEW c \in CapiClusters, rec'[c].rid = r
        PROVE  Coherent(rec'[c].rc, ranch'[r])
    BY <1>1, <1>5, <2>2 DEF RanchMove, RanchCopies, Coherent
  <2> QED
    BY <1>2, <1>5, <2>1, <2>2 DEF RanchCopies
<1>6. CASE /\ ranch'[r] # ranch[r] /\ ~ranch[r].exists /\ ~ranchCache[r].exists
           /\ \A c \in CapiClusters : rec[c].rid # r
           /\ ranch'[r].exists /\ ranch'[r].rv = 1
  BY <1>1, <1>2, <1>6 DEF RanchMove, RanchCopies, Coherent, NoRanch
<1> QED
  BY <1>3, <1>4, <1>5, <1>6 DEF RanchMove

-----------------------------------------------------------------------------
(* Every step is such a move. *)

LEMMA StoredMoves ==
    /\ \A o, n \in CapiObject : Moved(o, Stored(o, n))
    /\ \A o \in CapiObject : Moved(o, Deleted(o))
<1>1. ASSUME NEW o \in CapiObject, NEW n \in CapiObject PROVE Moved(o, Stored(o, n))
  <2> DEFINE m == [n EXCEPT !.rv = o.rv + 1]
  <2>1. m.rv = o.rv + 1 /\ m \in CapiObject
    BY DEF CapiObject
  <2>2. [m EXCEPT !.exists = FALSE].rv = m.rv
    BY <2>1 DEF CapiObject
  <2>3. Settle(m).rv = o.rv + 1
    BY <2>1, <2>2 DEF Settle
  <2> QED
    BY <2>3 DEF Stored, Moved
<1>2. ASSUME NEW o \in CapiObject PROVE [o EXCEPT !.deleting = TRUE] \in CapiObject
  BY DEF CapiObject
<1> QED
  BY <1>1, <1>2 DEF Deleted

\* A write to a Rancher cluster that exists: nothing, a removal or a new version.
RanchWrite(o, n) == n = o \/ n = NoRanch \/ (n.exists /\ n.rv = o.rv + 1)

LEMMA KeptMoves ==
    ASSUME NEW o \in RanchObject, NEW n \in RanchObject, o.exists
    PROVE  /\ RanchWrite(o, Kept(Stored(o, n)))
           /\ n.exists /\ (~n.deleting \/ n.fins # {}) => RanchWrite(o, Stored(o, n))
           /\ RanchWrite(o, Kept(Deleted(o)))
<1>1. ASSUME NEW k \in RanchObject
      PROVE  /\ RanchWrite(o, Kept(Stored(o, k)))
             /\ k.exists /\ (~k.deleting \/ k.fins # {}) => RanchWrite(o, Stored(o, k))
  <2> DEFINE m == [k EXCEPT !.rv = o.rv + 1]
  <2>1. /\ m.rv = o.rv + 1 /\ m.exists = k.exists /\ m.deleting = k.deleting
        /\ m.fins = k.fins /\ m \in RanchObject
    BY DEF RanchObject
  <2>2. [m EXCEPT !.exists = FALSE].exists = FALSE
    BY <2>1 DEF RanchObject
  <2>3. \/ Kept(Settle(m)) = NoRanch
        \/ Kept(Settle(m)).exists /\ Kept(Settle(m)).rv = o.rv + 1
    BY <2>1, <2>2 DEF Settle, Kept
  <2>4. k.exists /\ (~k.deleting \/ k.fins # {}) => Settle(m) = m
    BY <2>1 DEF Settle
  <2> HIDE DEF m
  <2>5. Stored(o, k) = o \/ Stored(o, k) = Settle(m)
    BY DEF Stored, m
  <2> QED
    BY <2>1, <2>3, <2>4, <2>5 DEF RanchWrite, Kept
<1>2. [o EXCEPT !.deleting = TRUE] \in RanchObject
  BY DEF RanchObject
<1> QED
  BY <1>1, <1>2 DEF Deleted

\* A step that concerns one reconciliation, and of the clusters its own only.
LEMMA OneCapi ==
    ASSUME NEW c \in CapiClusters, CapiMove(c),
           \A d \in CapiClusters \ {c} : /\ capi'[d] = capi[d]
                                         /\ capiCache'[d] = capiCache[d]
                                         /\ rec'[d] = rec[d]
    PROVE  \A d \in CapiClusters : CapiMove(d)
BY DEF CapiMove, RecMove, Moved

\* The Rancher clusters are left alone, and the reconciliation keeps or drops
\* the one it has in hand.
LEMMA NoRanchMoved ==
    ASSUME NEW c \in CapiClusters, UNCHANGED <<ranch, ranchCache>>,
           \A d \in CapiClusters \ {c} : rec'[d] = rec[d],
           \/ rec'[c].rid = None
           \/ rec'[c].rid = rec[c].rid /\ rec'[c].rc = rec[c].rc
    PROVE  \A r \in Rids : RanchMove(r)
BY ConstantsAssumption DEF RanchMove

\* So it is when the reconciliation ends or goes on to its outer patch.
LEMMA OuterMoves ==
    ASSUME TypeOK, NEW c \in CapiClusters, NEW hand, NEW again, ToOuter(c, hand, again)
    PROVE  /\ rec'[c].base = rec[c].base /\ rec'[c].hand = hand
           /\ rec'[c].rid = None
           /\ \A d \in CapiClusters \ {c} : rec'[d] = rec[d]
BY DEF TypeOK, Reconciliation, ToOuter, Idle

LEMMA FinishMoves ==
    ASSUME TypeOK, NEW c \in CapiClusters, NEW again, Finish(c, again)
    PROVE  /\ rec'[c].base = NoCapi /\ rec'[c].hand = NoCapi
           /\ rec'[c].rid = None
           /\ \A d \in CapiClusters \ {c} : rec'[d] = rec[d]
BY DEF TypeOK, Reconciliation, Finish, Idle

LEMMA GotoMoves ==
    ASSUME TypeOK, NEW c \in CapiClusters, NEW pc, Goto(c, pc)
    PROVE  /\ rec'[c].base = rec[c].base /\ rec'[c].hand = rec[c].hand
           /\ rec'[c].rid = rec[c].rid /\ rec'[c].rc = rec[c].rc
           /\ \A d \in CapiClusters \ {c} : rec'[d] = rec[d]
BY DEF TypeOK, Reconciliation, Goto

\* Each action of the specification is a move of every object.
LEMMA StepMoves ==
    ASSUME TypeOK, TypeOK', CopiesCoherent, Next
    PROVE  /\ \A c \in CapiClusters : CapiMove(c)
           /\ \A r \in Rids : RanchMove(r)
<1> DEFINE Moves == /\ \A c \in CapiClusters : CapiMove(c)
                    /\ \A r \in Rids : RanchMove(r)
<1> USE DEF server, cache
<1>1. ASSUME NEW c \in CapiClusters, Begin(c) PROVE Moves
  <2>1. /\ \/ rec'[c].base = NoCapi /\ rec'[c].hand = NoCapi
           \/ rec'[c].base = capiCache[c] /\ rec'[c].hand = capiCache[c]
        /\ rec'[c].rid = None
        /\ \A d \in CapiClusters \ {c} : rec'[d] = rec[d]
    BY <1>1 DEF Begin, Idle, TypeOK
  <2>2. CapiMove(c)
    BY <1>1, <2>1 DEF Begin, CapiMove, RecMove, Moved
  <2> QED
    BY <1>1, <2>1, <2>2, OneCapi, NoRanchMoved DEF Begin
<1>2. ASSUME NEW c \in CapiClusters, BeginMissing(c) PROVE Moves
  <2>1. CapiMove(c)
    BY <1>2 DEF BeginMissing, CapiMove, RecMove, Moved
  <2> QED
    BY <1>2, <2>1, OneCapi, NoRanchMoved DEF BeginMissing
<1>3. ASSUME NEW c \in CapiClusters, AddFinalizer(c) PROVE Moves
  <2> DEFINE k == Stored(capi[c], Finalized(capiCache[c]))
  <2>1. Moved(capi[c], k)
    BY RecParts, MarkedCapi, StoredMoves
  <2>2. /\ capi'[c] = k /\ rec'[c].base = capi'[c] /\ rec'[c].hand = capi'[c]
        /\ rec'[c].rid = rec[c].rid /\ rec'[c].rc = rec[c].rc
        /\ \A d \in CapiClusters \ {c} : capi'[d] = capi[d] /\ rec'[d] = rec[d]
    BY <1>3 DEF AddFinalizer, TypeOK, Reconciliation
  <2> HIDE DEF k
  <2>3. CapiMove(c)
    BY <1>3, <2>1, <2>2 DEF AddFinalizer, CapiMove, RecMove
  <2> QED
    BY <1>3, <2>2, <2>3, OneCapi, NoRanchMoved DEF AddFinalizer
<1>4. ASSUME NEW c \in CapiClusters, AddFinalizerFails(c) PROVE Moves
  <2>1. CapiMove(c)
    BY <1>4, FinishMoves DEF AddFinalizerFails, CapiMove, RecMove, Moved
  <2> QED
    BY <1>4, <2>1, OneCapi, NoRanchMoved, FinishMoves DEF AddFinalizerFails
<1>5. ASSUME NEW c \in CapiClusters, EarlyReturn(c) PROVE Moves
  <2>1. CapiMove(c)
    BY <1>5, FinishMoves DEF EarlyReturn, CapiMove, RecMove, Moved
  <2> QED
    BY <1>5, <2>1, OneCapi, NoRanchMoved, FinishMoves DEF EarlyReturn
<1>6. ASSUME NEW c \in CapiClusters, PickRancher(c) PROVE Moves
  <2>1. PICK r \in Owned(ranchCache, c) :
           rec' = [rec EXCEPT ![c] =
                   [@ EXCEPT !.rid = r, !.rc = ranchCache[r],
                      !.pc = IF ranchCache[r].deleting THEN "annotate"
                             ELSE IF rec[c].hand.deleting THEN "deleteAll"
                             ELSE "normal"]]
    BY <1>6 DEF PickRancher
  <2>2. /\ rec'[c].rid = r /\ rec'[c].rc = ranchCache[r]
        /\ rec'[c].base = rec[c].base /\ rec'[c].hand = rec[c].hand
        /\ \A d \in CapiClusters \ {c} : rec'[d] = rec[d]
    BY <2>1 DEF TypeOK, Reconciliation
  <2>3. CapiMove(c)
    BY <1>6, <2>2 DEF PickRancher, CapiMove, RecMove, Moved
  <2>4. \A q \in Rids : RanchMove(q)
    BY <1>6, <2>2 DEF PickRancher, RanchMove
  <2> QED
    BY <1>6, <2>2, <2>3, <2>4, OneCapi DEF PickRancher
<1>7. ASSUME NEW c \in CapiClusters, NoRancher(c) PROVE Moves
  <2>1. CapiMove(c)
    BY <1>7, GotoMoves DEF NoRancher, CapiMove, RecMove, Moved
  <2> QED
    BY <1>7, <2>1, OneCapi, NoRanchMoved, GotoMoves DEF NoRancher
<1>8. ASSUME NEW c \in CapiClusters, Annotate(c) PROVE Moves
  <2> DEFINE k == Stored(capi[c], Merge(capi[c], rec[c].hand, Dismissed(rec[c].hand)))
  <2>1. Moved(capi[c], k)
    BY RecParts, MarkedCapi, MergeCapi, StoredMoves
  <2>2. capi' = [capi EXCEPT ![c] = k]
    BY <1>8 DEF Annotate
  <2> HIDE DEF k
  <2>3. capi'[c] = k /\ \A d \in CapiClusters \ {c} : capi'[d] = capi[d]
    BY <2>2 DEF TypeOK
  <2>4. /\ rec'[c].base = rec[c].base /\ rec'[c].hand = capi'[c]
        /\ \/ rec'[c].rid = None
           \/ rec'[c].rid = rec[c].rid /\ rec'[c].rc = rec[c].rc
        /\ \A d \in CapiClusters \ {c} : rec'[d] = rec[d]
    <3>1. CASE rec' = [rec EXCEPT ![c] = [@ EXCEPT !.pc = "rancherFinalizer",
                                                 !.hand = capi'[c]]]
      BY <3>1 DEF TypeOK, Reconciliation
    <3>2. CASE ToOuter(c, capi'[c], FALSE)
      BY <3>2, OuterMoves
    <3> QED
      BY <1>8, <3>1, <3>2 DEF Annotate
  <2>5. CapiMove(c)
    BY <1>8, <2>1, <2>3, <2>4 DEF Annotate, CapiMove, RecMove
  <2> QED
    BY <1>8, <2>3, <2>4, <2>5, OneCapi, NoRanchMoved DEF Annotate
<1>9. ASSUME NEW c \in CapiClusters, AnnotateFails(c) PROVE Moves
  <2>1. CapiMove(c)
    BY <1>9, OuterMoves DEF AnnotateFails, CapiMove, RecMove, Moved
  <2> QED
    BY <1>9, <2>1, OneCapi, NoRanchMoved, OuterMoves DEF AnnotateFails
<1>10. ASSUME NEW c \in CapiClusters, ReleaseRancher(c) PROVE Moves
  <2> DEFINE r == rec[c].rid
             k == Kept(Stored(ranch[r], Released(rec[c].rc)))
  <2>1. /\ rec'[c].base = rec[c].base /\ rec'[c].hand = rec[c].hand
        /\ rec'[c].rid = None /\ \A d \in CapiClusters \ {c} : rec'[d] = rec[d]
    BY <1>10, OuterMoves DEF ReleaseRancher
  <2>2. CapiMove(c)
    BY <1>10, <2>1 DEF ReleaseRancher, CapiMove, RecMove, Moved
  <2>3. r \in Rids => RanchWrite(ranch[r], k) /\ ranch[r].exists
    BY <1>10, RecParts, MarkedRanch, KeptMoves DEF ReleaseRancher, Accepts, TypeOK
  <2>4. ranch' = [ranch EXCEPT ![r] = k]
    BY <1>10 DEF ReleaseRancher
  <2> HIDE DEF k, r
  <2>5. \A q \in Rids : RanchMove(q)
    BY <1>10, <2>1, <2>3, <2>4, ConstantsAssumption
       DEF ReleaseRancher, RanchMove, RanchWrite, TypeOK
  <2> QED
    BY <1>10, <2>1, <2>2, <2>5, OneCapi DEF ReleaseRancher
<1>11. ASSUME NEW c \in CapiClusters, ReleaseRancherFails(c) PROVE Moves
  <2>1. CapiMove(c)
    BY <1>11, OuterMoves DEF ReleaseRancherFails, CapiMove, RecMove, Moved
  <2> QED
    BY <1>11, <2>1, OneCapi, NoRanchMoved, OuterMoves DEF ReleaseRancherFails
<1>12. ASSUME NEW c \in CapiClusters, DeleteRanchers(c) PROVE Moves
  <2>1. /\ rec'[c].base = rec[c].base /\ rec'[c].hand = rec[c].hand
        /\ \/ rec'[c].rid = None
           \/ rec'[c].rid = rec[c].rid /\ rec'[c].rc = rec[c].rc
        /\ \A d \in CapiClusters \ {c} : rec'[d] = rec[d]
    BY <1>12, OuterMoves, GotoMoves DEF DeleteRanchers
  <2>2. CapiMove(c)
    BY <1>12, <2>1 DEF DeleteRanchers, CapiMove, RecMove, Moved
  <2>3. \A q \in Rids : ranch[q].exists => RanchWrite(ranch[q], Kept(Deleted(ranch[q])))
    BY KeptMoves DEF TypeOK
  <2>4. \A q \in Rids : RanchMove(q)
    BY <1>12, <2>1, <2>3, ConstantsAssumption DEF DeleteRanchers, Owned, RanchMove, RanchWrite
  <2> QED
    BY <1>12, <2>1, <2>2, <2>4, OneCapi DEF DeleteRanchers
<1>13. ASSUME NEW c \in CapiClusters, DeleteRanchersFails(c) PROVE Moves
  <2>1. CapiMove(c)
    BY <1>13, OuterMoves DEF DeleteRanchersFails, CapiMove, RecMove, Moved
  <2> QED
    BY <1>13, <2>1, OneCapi, NoRanchMoved, OuterMoves DEF DeleteRanchersFails
<1>14. ASSUME NEW c \in CapiClusters, ReleaseCapi(c) PROVE Moves
  <2> DEFINE k == Stored(capi[c], Released(rec[c].hand))
  <2>1. Moved(capi[c], k)
    BY RecParts, MarkedCapi, StoredMoves
  <2>2. /\ capi'[c] = k /\ \A d \in CapiClusters \ {c} : capi'[d] = capi[d]
    BY <1>14 DEF ReleaseCapi, TypeOK
  <2> HIDE DEF k
  <2>3. /\ rec'[c].base = rec[c].base /\ rec'[c].hand = capi'[c] /\ rec'[c].rid = None
        /\ \A d \in CapiClusters \ {c} : rec'[d] = rec[d]
    BY <1>14, OuterMoves DEF ReleaseCapi
  <2>4. CapiMove(c)
    BY <1>14, <2>1, <2>2, <2>3 DEF ReleaseCapi, CapiMove, RecMove
  <2> QED
    BY <1>14, <2>2, <2>3, <2>4, OneCapi, NoRanchMoved DEF ReleaseCapi
<1>15. ASSUME NEW c \in CapiClusters, ReleaseCapiFails(c) PROVE Moves
  <2>1. CapiMove(c)
    BY <1>15, OuterMoves DEF ReleaseCapiFails, CapiMove, RecMove, Moved
  <2> QED
    BY <1>15, <2>1, OneCapi, NoRanchMoved, OuterMoves DEF ReleaseCapiFails
<1>16. ASSUME NEW c \in CapiClusters, Register(c) PROVE Moves
  <2>1. /\ rec'[c].base = rec[c].base /\ rec'[c].hand = FleetSettled(rec[c].hand)
        /\ \/ rec'[c].rid = None
           \/ rec'[c].rid = rec[c].rid /\ rec'[c].rc = rec[c].rc
        /\ \A d \in CapiClusters \ {c} : rec'[d] = rec[d]
    <3>1. CASE \E requeue \in BOOLEAN :
                  rec' = [rec EXCEPT ![c] = [@ EXCEPT !.pc = "patchRancher",
                                                      !.hand = FleetSettled(rec[c].hand),
                                                      !.again = requeue]]
      BY <3>1 DEF TypeOK, Reconciliation
    <3>2. CASE ToOuter(c, FleetSettled(rec[c].hand), TRUE)
      BY <3>2, OuterMoves
    <3> QED
      BY <1>16, <3>1, <3>2 DEF Register
  <2>2. CapiMove(c)
    BY <1>16, <2>1 DEF Register, CapiMove, RecMove, Moved
  <2> QED
    BY <1>16, <2>1, <2>2, OneCapi, NoRanchMoved DEF Register
<1>17. ASSUME NEW c \in CapiClusters, PatchRancher(c) PROVE Moves
  <2> DEFINE r == rec[c].rid
             k == Stored(ranch[r], Finalized(rec[c].rc))
  <2>1. /\ rec'[c].base = rec[c].base /\ rec'[c].hand = rec[c].hand
        /\ rec'[c].rid = None /\ \A d \in CapiClusters \ {c} : rec'[d] = rec[d]
    BY <1>17, OuterMoves DEF PatchRancher
  <2>2. CapiMove(c)
    BY <1>17, <2>1 DEF PatchRancher, CapiMove, RecMove, Moved
  <2>3. ASSUME r \in Rids PROVE RanchWrite(ranch[r], k) /\ ranch[r].exists
    <3>1. ranch[r].exists /\ rec[c].rc = ranch[r]
      BY <1>17, <2>3 DEF PatchRancher, Accepts, CopiesCoherent, RanchCopies, Coherent
    <3>2. rec[c].rc \in RanchObject /\ ranch[r] \in RanchObject
      BY <2>3, RecParts DEF TypeOK
    <3>3. Finalized(rec[c].rc).exists /\ Finalized(rec[c].rc).fins # {}
      BY <3>1, <3>2 DEF Finalized, WithFin, RanchObject
    <3> QED
      BY <3>1, <3>2, <3>3, MarkedRanch, KeptMoves
  <2>4. ranch' = [ranch EXCEPT ![r] = k]
    BY <1>17 DEF PatchRancher
  <2> HIDE DEF k, r
  <2>5. \A q \in Rids : RanchMove(q)
    BY <1>17, <2>1, <2>3, <2>4, ConstantsAssumption
       DEF PatchRancher, RanchMove, RanchWrite, TypeOK
  <2> QED
    BY <1>17, <2>1, <2>2, <2>5, OneCapi DEF PatchRancher
<1>18. ASSUME NEW c \in CapiClusters, PatchRancherFails(c) PROVE Moves
  <2>1. CapiMove(c)
    BY <1>18, OuterMoves DEF PatchRancherFails, CapiMove, RecMove, Moved
  <2> QED
    BY <1>18, <2>1, OneCapi, NoRanchMoved, OuterMoves DEF PatchRancherFails
<1>19. ASSUME NEW c \in CapiClusters, Confirm(c) PROVE Moves
  <2> DEFINE read == Decoded(rec[c].hand, capi[c])
  <2>1. /\ rec'[c].base = rec[c].base /\ rec'[c].hand = read
        /\ \/ rec'[c].rid = None
           \/ rec'[c].rid = rec[c].rid /\ rec'[c].rc = rec[c].rc
        /\ \A d \in CapiClusters \ {c} : rec'[d] = rec[d]
    <3>1. CASE rec' = [rec EXCEPT ![c] = [@ EXCEPT !.pc = "create", !.hand = read]]
      BY <3>1 DEF TypeOK, Reconciliation
    <3>2. CASE ToOuter(c, read, FALSE)
      BY <3>2, OuterMoves
    <3> QED
      BY <1>19, <3>1, <3>2 DEF Confirm
  <2>2. CapiMove(c)
    BY <1>19, <2>1 DEF Confirm, CapiMove, RecMove, Moved
  <2> QED
    BY <1>19, <2>1, <2>2, OneCapi, NoRanchMoved DEF Confirm
<1>20. ASSUME NEW c \in CapiClusters, ConfirmFails(c) PROVE Moves
  <2>1. CapiMove(c)
    BY <1>20, OuterMoves DEF ConfirmFails, CapiMove, RecMove, Moved
  <2> QED
    BY <1>20, <2>1, OneCapi, NoRanchMoved, OuterMoves DEF ConfirmFails
<1>21. ASSUME NEW c \in CapiClusters, CreateRancher(c) PROVE Moves
  <2>1. /\ rec'[c].base = rec[c].base /\ rec'[c].hand = rec[c].hand
        /\ rec'[c].rid = None /\ \A d \in CapiClusters \ {c} : rec'[d] = rec[d]
    BY <1>21, OuterMoves DEF CreateRancher
  <2>2. CapiMove(c)
    BY <1>21, <2>1 DEF CreateRancher, CapiMove, RecMove, Moved
  <2>3. \A q \in Rids : RanchMove(q)
    BY <1>21, <2>1, ConstantsAssumption
       DEF CreateRancher, FreshRids, NoRanch, RanchMove, TypeOK
  <2> QED
    BY <1>21, <2>1, <2>2, <2>3, OneCapi DEF CreateRancher
<1>22. ASSUME NEW c \in CapiClusters, CreateRancherFails(c) PROVE Moves
  <2>1. CapiMove(c)
    BY <1>22, OuterMoves DEF CreateRancherFails, CapiMove, RecMove, Moved
  <2> QED
    BY <1>22, <2>1, OneCapi, NoRanchMoved, OuterMoves DEF CreateRancherFails
<1>23. ASSUME NEW c \in CapiClusters, OuterPatch(c) PROVE Moves
  <2> DEFINE k == Stored(capi[c], Merge(capi[c], rec[c].base, rec[c].hand))
  <2>1. Moved(capi[c], k)
    BY RecParts, MergeCapi, StoredMoves
  <2>2. capi' = [capi EXCEPT ![c] = k]
    BY <1>23 DEF OuterPatch
  <2> HIDE DEF k
  <2>3. capi'[c] = k /\ \A d \in CapiClusters \ {c} : capi'[d] = capi[d]
    BY <2>2 DEF TypeOK
  <2>4. CapiMove(c)
    BY <1>23, <2>1, <2>3, FinishMoves DEF OuterPatch, CapiMove, RecMove
  <2> QED
    BY <1>23, <2>3, <2>4, FinishMoves, OneCapi, NoRanchMoved DEF OuterPatch
<1>24. ASSUME NEW c \in CapiClusters, OuterPatchFails(c) PROVE Moves
  <2>1. CapiMove(c)
    BY <1>24, FinishMoves DEF OuterPatchFails, CapiMove, RecMove, Moved
  <2> QED
    BY <1>24, <2>1, OneCapi, NoRanchMoved, FinishMoves DEF OuterPatchFails
<1>25. ASSUME NEW r \in Rids, CleanupReconcile(r) PROVE Moves
  <2> DEFINE k == Stored(ranch[r], Merge(ranch[r], ranchCache[r], Released(ranchCache[r])))
  <2>1. ranch[r] \in RanchObject /\ ranchCache[r] \in RanchObject
    BY DEF TypeOK
  <2>2. ranch[r].exists /\ RanchWrite(ranch[r], Kept(k))
    BY <1>25, <2>1, MarkedRanch, MergeRanch, KeptMoves DEF CleanupReconcile, Accepts
  <2>3. ranch' = [ranch EXCEPT ![r] = Kept(k)]
    BY <1>25 DEF CleanupReconcile
  <2> HIDE DEF k
  <2>4. \A q \in Rids : RanchMove(q)
    BY <1>25, <2>2, <2>3 DEF CleanupReconcile, RanchMove, RanchWrite, TypeOK
  <2> QED
    BY <1>25, <2>4 DEF CleanupReconcile, CapiMove, RecMove, Moved
<1>26. ASSUME NEW d \in CapiClusters, SyncCapi(d) PROVE Moves
  <2>1. \A c \in CapiClusters : CapiMove(c)
    BY <1>26 DEF SyncCapi, CapiMove, RecMove, Moved, TypeOK
  <2>2. \A r \in Rids : RanchMove(r)
    BY <1>26 DEF SyncCapi, RanchMove, TypeOK
  <2> QED
    BY <2>1, <2>2
<1>27. ASSUME NEW q \in Rids, SyncRancher(q) PROVE Moves
  <2>1. \A c \in CapiClusters : CapiMove(c)
    BY <1>27 DEF SyncRancher, CapiMove, RecMove, Moved, TypeOK
  <2>2. \A r \in Rids : RanchMove(r)
    BY <1>27 DEF SyncRancher, RanchMove, TypeOK
  <2> QED
    BY <2>1, <2>2
<1>28. ASSUME SyncNamespace PROVE Moves
  <2>1. \A c \in CapiClusters : CapiMove(c)
    BY <1>28 DEF SyncNamespace, CapiMove, RecMove, Moved, TypeOK
  <2>2. \A r \in Rids : RanchMove(r)
    BY <1>28 DEF SyncNamespace, RanchMove, TypeOK
  <2> QED
    BY <2>1, <2>2
<1>29. ASSUME NEW d \in CapiClusters, Resync(d) PROVE Moves
  <2>1. \A c \in CapiClusters : CapiMove(c)
    BY <1>29 DEF Resync, CapiMove, RecMove, Moved, TypeOK
  <2>2. \A r \in Rids : RanchMove(r)
    BY <1>29 DEF Resync, RanchMove, TypeOK
  <2> QED
    BY <2>1, <2>2
<1>30. ASSUME Restart PROVE Moves
  <2>1. \A c \in CapiClusters : rec'[c].base = NoCapi /\ rec'[c].hand = NoCapi
                               /\ rec'[c].rid = None
    BY <1>30 DEF Restart, Idle
  <2>2. \A c \in CapiClusters : CapiMove(c)
    BY <1>30, <2>1 DEF Restart, CapiMove, RecMove, Moved
  <2>3. \A r \in Rids : RanchMove(r)
    BY <1>30, <2>1, ConstantsAssumption DEF Restart, RanchMove
  <2> QED
    BY <2>2, <2>3
<1>31. ASSUME NEW d \in CapiClusters, NEW l \in Labels, CreateCapi(d, l) PROVE Moves
  <2> DEFINE k == NewCapi(capi[d], l)
  <2>1. Moved(capi[d], k)
    BY DEF NewCapi, NoCapi, Moved
  <2>2. capi' = [capi EXCEPT ![d] = k]
    BY <1>31 DEF CreateCapi
  <2> HIDE DEF k
  <2>3. \A c \in CapiClusters : CapiMove(c)
    BY <1>31, <2>1, <2>2 DEF CreateCapi, CapiMove, RecMove, Moved, TypeOK
  <2> QED
    BY <1>31, <2>3 DEF CreateCapi, RanchMove
<1>32. ASSUME NEW d \in CapiClusters, DeleteCapi(d) PROVE Moves
  <2> DEFINE k == Deleted(capi[d])
  <2>1. Moved(capi[d], k)
    BY RecParts, StoredMoves
  <2>2. capi' = [capi EXCEPT ![d] = k]
    BY <1>32 DEF DeleteCapi
  <2> HIDE DEF k
  <2>3. \A c \in CapiClusters : CapiMove(c)
    BY <1>32, <2>1, <2>2 DEF DeleteCapi, CapiMove, RecMove, Moved, TypeOK
  <2> QED
    BY <1>32, <2>3 DEF DeleteCapi, RanchMove
<1>33. ASSUME NEW d \in CapiClusters, NEW l \in Labels, SetLabel(d, l) PROVE Moves
  <2> DEFINE k == Stored(capi[d], [capi[d] EXCEPT !.label = l])
  <2>1. [capi[d] EXCEPT !.label = l] \in CapiObject
    BY RecParts, ConstantsAssumption DEF CapiObject
  <2>2. Moved(capi[d], k)
    BY <2>1, RecParts, StoredMoves
  <2>3. capi' = [capi EXCEPT ![d] = k]
    BY <1>33 DEF SetLabel
  <2> HIDE DEF k
  <2>4. \A c \in CapiClusters : CapiMove(c)
    BY <1>33, <2>2, <2>3 DEF SetLabel, CapiMove, RecMove, Moved, TypeOK
  <2> QED
    BY <1>33, <2>4 DEF SetLabel, RanchMove
<1>34. ASSUME NEW b \in NsLabels, SetNamespaceLabel(b) PROVE Moves
  <2>1. \A c \in CapiClusters : CapiMove(c)
    BY <1>34 DEF SetNamespaceLabel, CapiMove, RecMove, Moved, TypeOK
  <2>2. \A r \in Rids : RanchMove(r)
    BY <1>34 DEF SetNamespaceLabel, RanchMove, TypeOK
  <2> QED
    BY <2>1, <2>2
<1>35. ASSUME NEW d \in CapiClusters, NEW b \in BOOLEAN, ControlPlane(d, b) PROVE Moves
  <2> DEFINE k == Stored(capi[d], [capi[d] EXCEPT !.cpReady = b])
  <2>1. [capi[d] EXCEPT !.cpReady = b] \in CapiObject
    BY RecParts, ConstantsAssumption DEF CapiObject
  <2>2. Moved(capi[d], k)
    BY <2>1, RecParts, StoredMoves
  <2>3. capi' = [capi EXCEPT ![d] = k]
    BY <1>35 DEF ControlPlane
  <2> HIDE DEF k
  <2>4. \A c \in CapiClusters : CapiMove(c)
    BY <1>35, <2>2, <2>3 DEF ControlPlane, CapiMove, RecMove, Moved, TypeOK
  <2> QED
    BY <1>35, <2>4 DEF ControlPlane, RanchMove
<1>36. ASSUME NEW d \in CapiClusters, FleetAdopts(d) PROVE Moves
  <2> DEFINE k == Stored(capi[d], WithFin(capi[d], "fleet"))
  <2>1. WithFin(capi[d], "fleet") \in CapiObject
    BY RecParts, ConstantsAssumption DEF WithFin, CapiObject, CapiFins
  <2>2. Moved(capi[d], k)
    BY <2>1, RecParts, StoredMoves
  <2>3. capi' = [capi EXCEPT ![d] = k]
    BY <1>36 DEF FleetAdopts
  <2> HIDE DEF k
  <2>4. \A c \in CapiClusters : CapiMove(c)
    BY <1>36, <2>2, <2>3 DEF FleetAdopts, CapiMove, RecMove, Moved, TypeOK
  <2> QED
    BY <1>36, <2>4 DEF FleetAdopts, RanchMove
<1>37. ASSUME NEW d \in CapiClusters, NEW f \in {"capi", "fleet"}, ReleaseByOthers(d, f) PROVE Moves
  <2> DEFINE k == Stored(capi[d], WithoutFin(capi[d], f))
  <2>1. WithoutFin(capi[d], f) \in CapiObject
    BY RecParts, ConstantsAssumption DEF WithoutFin, CapiObject, CapiFins
  <2>2. Moved(capi[d], k)
    BY <2>1, RecParts, StoredMoves
  <2>3. capi' = [capi EXCEPT ![d] = k]
    BY <1>37 DEF ReleaseByOthers
  <2> HIDE DEF k
  <2>4. \A c \in CapiClusters : CapiMove(c)
    BY <1>37, <2>2, <2>3 DEF ReleaseByOthers, CapiMove, RecMove, Moved, TypeOK
  <2> QED
    BY <1>37, <2>4 DEF ReleaseByOthers, RanchMove
<1>38. ASSUME NEW q \in Rids, RancherAdopts(q) PROVE Moves
  <2> DEFINE k == Stored(ranch[q], WithFin(ranch[q], "rancher"))
  <2>1. /\ ranch[q] \in RanchObject /\ ranch[q].exists /\ ~ranch[q].deleting
        /\ WithFin(ranch[q], "rancher") \in RanchObject
        /\ WithFin(ranch[q], "rancher").exists /\ ~WithFin(ranch[q], "rancher").deleting
    <3>1. ranch[q] \in RanchObject /\ ranch[q].exists /\ ~ranch[q].deleting
      BY <1>38 DEF RancherAdopts, TypeOK
    <3> QED
      BY <3>1 DEF WithFin, RanchObject, RanchFins
  <2>2. ranch[q].exists /\ RanchWrite(ranch[q], k)
    BY <2>1, KeptMoves
  <2>3. ranch' = [ranch EXCEPT ![q] = k]
    BY <1>38 DEF RancherAdopts
  <2> HIDE DEF k
  <2>4. \A r \in Rids : RanchMove(r)
    BY <1>38, <2>2, <2>3 DEF RancherAdopts, RanchMove, RanchWrite, TypeOK
  <2> QED
    BY <1>38, <2>4 DEF RancherAdopts, CapiMove, RecMove, Moved
<1>39. ASSUME NEW q \in Rids, RancherReleases(q) PROVE Moves
  <2> DEFINE k == Kept(Stored(ranch[q], WithoutFin(ranch[q], "rancher")))
  <2>1. /\ ranch[q] \in RanchObject /\ ranch[q].exists
        /\ WithoutFin(ranch[q], "rancher") \in RanchObject
    <3>1. ranch[q] \in RanchObject /\ ranch[q].exists
      BY <1>39 DEF RancherReleases, TypeOK
    <3> QED
      BY <3>1 DEF WithoutFin, RanchObject, RanchFins
  <2>2. ranch[q].exists /\ RanchWrite(ranch[q], k)
    BY <2>1, KeptMoves
  <2>3. ranch' = [ranch EXCEPT ![q] = k]
    BY <1>39 DEF RancherReleases
  <2> HIDE DEF k
  <2>4. \A r \in Rids : RanchMove(r)
    BY <1>39, <2>2, <2>3 DEF RancherReleases, RanchMove, RanchWrite, TypeOK
  <2> QED
    BY <1>39, <2>4 DEF RancherReleases, CapiMove, RecMove, Moved
<1>40. ASSUME NEW q \in Rids, UserDeletesRancher(q) PROVE Moves
  <2> DEFINE k == Kept(Deleted(ranch[q]))
  <2>1. ranch[q] \in RanchObject /\ ranch[q].exists
    BY <1>40 DEF UserDeletesRancher, TypeOK
  <2>2. ranch[q].exists /\ RanchWrite(ranch[q], k)
    BY <2>1, KeptMoves
  <2>3. ranch' = [ranch EXCEPT ![q] = k]
    BY <1>40 DEF UserDeletesRancher
  <2> HIDE DEF k
  <2>4. \A r \in Rids : RanchMove(r)
    BY <1>40, <2>2, <2>3 DEF UserDeletesRancher, RanchMove, RanchWrite, TypeOK
  <2> QED
    BY <1>40, <2>4 DEF UserDeletesRancher, CapiMove, RecMove, Moved
<1> HIDE DEF server, cache
<1> QED
  BY <1>1, <1>2, <1>3, <1>4, <1>5, <1>6, <1>7, <1>8, <1>9, <1>10, <1>11, <1>12,
     <1>13, <1>14, <1>15, <1>16, <1>17, <1>18, <1>19, <1>20, <1>21, <1>22, <1>23,
     <1>24, <1>25, <1>26, <1>27, <1>28, <1>29, <1>30, <1>31, <1>32, <1>33, <1>34,
     <1>35, <1>36, <1>37, <1>38, <1>39, <1>40
     DEF Next, Turtles, Environment, ReconcileStep

\* Only its own steps and a restart change the reconciliation of c.
LEMMA OwnSteps ==
    ASSUME TypeOK, Next, NEW c \in CapiClusters, ~Begin(c), ~ReconcileStep(c), ~Restart
    PROVE  rec'[c] = rec[c]
<1> USE DEF server, cache
<1>1. ASSUME NEW d \in CapiClusters, d # c, Begin(d) \/ ReconcileStep(d)
      PROVE  rec'[c] = rec[c]
  BY <1>1 DEF TypeOK, Begin, ReconcileStep, AddFinalizer, AddFinalizerFails, EarlyReturn,
     PickRancher, NoRancher, Annotate, AnnotateFails, ReleaseRancher, ReleaseRancherFails,
     DeleteRanchers, DeleteRanchersFails, ReleaseCapi, ReleaseCapiFails, Register,
     PatchRancher, PatchRancherFails, Confirm, ConfirmFails, CreateRancher,
     CreateRancherFails, OuterPatch, OuterPatchFails, ToOuter, Finish, Goto
<1>2. ASSUME NEW d \in CapiClusters, BeginMissing(d) \/ SyncCapi(d) \/ Resync(d)
      PROVE  rec' = rec
  BY <1>2 DEF BeginMissing, SyncCapi, Resync
<1>3. ASSUME SyncNamespace \/ \E r \in Rids : CleanupReconcile(r) \/ SyncRancher(r)
      PROVE  rec' = rec
  BY <1>3 DEF CleanupReconcile, SyncRancher, SyncNamespace
<1>4. Environment => rec' = rec
  BY DEF Environment, CreateCapi, SetLabel, ControlPlane, DeleteCapi, FleetAdopts,
     ReleaseByOthers, SetNamespaceLabel, RancherAdopts, RancherReleases, UserDeletesRancher
<1> HIDE DEF server, cache
<1> QED
  BY <1>1, <1>2, <1>3, <1>4 DEF Next, Turtles

\* Up to the uncached read the working copy is left as it was taken.
LEMMA UnreadStep ==
    ASSUME TypeOK, Next, NEW c \in CapiClusters,
           rec[c].pc \in Unread => rec[c].hand = rec[c].base
    PROVE  rec'[c].pc \in Unread => rec'[c].hand = rec'[c].base
<1> USE DEF server, cache
<1>1. CASE Begin(c)
  BY <1>1 DEF Begin, Idle, TypeOK, Unread
<1>2. CASE AddFinalizer(c)
  BY <1>2 DEF AddFinalizer, TypeOK, Reconciliation
<1>3. CASE PickRancher(c)
  BY <1>3 DEF PickRancher, TypeOK, Reconciliation, Unread
<1>4. CASE NoRancher(c)
  BY <1>4, GotoMoves DEF NoRancher, Unread
<1>5. CASE DeleteRanchers(c)
  <2>1. CASE Goto(c, "capiFinalizer")
    BY <1>5, <2>1, GotoMoves DEF DeleteRanchers, Unread
  <2>2. CASE ToOuter(c, rec[c].hand, FALSE)
    BY <2>2 DEF ToOuter, Idle, TypeOK, Reconciliation, Unread
  <2> QED
    BY <1>5, <2>1, <2>2 DEF DeleteRanchers
<1>6. CASE Annotate(c)
  <2>1. CASE rec' = [rec EXCEPT ![c] = [@ EXCEPT !.pc = "rancherFinalizer",
                                                 !.hand = capi'[c]]]
    BY <2>1 DEF TypeOK, Reconciliation, Unread
  <2>2. CASE ToOuter(c, capi'[c], FALSE)
    BY <2>2 DEF ToOuter, Idle, TypeOK, Reconciliation, Unread
  <2> QED
    BY <1>6, <2>1, <2>2 DEF Annotate
<1>7. CASE Register(c)
  <2>1. CASE \E requeue \in BOOLEAN :
                rec' = [rec EXCEPT ![c] = [@ EXCEPT !.pc = "patchRancher",
                                                    !.hand = FleetSettled(rec[c].hand),
                                                    !.again = requeue]]
    BY <2>1 DEF TypeOK, Reconciliation, Unread
  <2>2. CASE ToOuter(c, FleetSettled(rec[c].hand), TRUE)
    BY <2>2 DEF ToOuter, Idle, TypeOK, Reconciliation, Unread
  <2> QED
    BY <1>7, <2>1, <2>2 DEF Register
<1>8. CASE Confirm(c)
  <2> DEFINE read == Decoded(rec[c].hand, capi[c])
  <2>1. CASE rec' = [rec EXCEPT ![c] = [@ EXCEPT !.pc = "create", !.hand = read]]
    BY <2>1 DEF TypeOK, Reconciliation, Unread
  <2>2. CASE ToOuter(c, read, FALSE)
    BY <2>2 DEF ToOuter, Idle, TypeOK, Reconciliation, Unread
  <2> QED
    BY <1>8, <2>1, <2>2 DEF Confirm
<1>9. CASE \/ AnnotateFails(c) \/ ReleaseRancher(c) \/ ReleaseRancherFails(c)
           \/ DeleteRanchersFails(c) \/ ReleaseCapi(c) \/ ReleaseCapiFails(c)
           \/ PatchRancher(c) \/ PatchRancherFails(c) \/ ConfirmFails(c)
           \/ CreateRancher(c) \/ CreateRancherFails(c)
  <2>1. \E hand, again : ToOuter(c, hand, again)
    BY <1>9 DEF AnnotateFails, ReleaseRancher, ReleaseRancherFails, DeleteRanchersFails,
       ReleaseCapi, ReleaseCapiFails, PatchRancher, PatchRancherFails, ConfirmFails,
       CreateRancher, CreateRancherFails
  <2> QED
    BY <2>1 DEF ToOuter, Idle, TypeOK, Reconciliation, Unread
<1>10. CASE AddFinalizerFails(c) \/ EarlyReturn(c) \/ OuterPatch(c) \/ OuterPatchFails(c)
  BY <1>10 DEF AddFinalizerFails, EarlyReturn, OuterPatch, OuterPatchFails, Finish, Idle,
     TypeOK, Unread
<1>11. CASE Restart
  BY <1>11 DEF Restart, Idle, Unread
<1>12. CASE rec'[c] = rec[c]
  BY <1>12
<1> HIDE DEF server, cache
<1> QED
  BY <1>1, <1>2, <1>3, <1>4, <1>5, <1>6, <1>7, <1>8, <1>9, <1>10, <1>11, <1>12, OwnSteps
     DEF ReconcileStep

\* Every copy can be told from an outdated one by its resource version.
THEOREM CopiesAreCoherent == Spec => []CopiesCoherent
<1>1. Init => CopiesCoherent
  <2> SUFFICES ASSUME Init PROVE CopiesCoherent
    OBVIOUS
  <2>1. \A c \in CapiClusters : capi[c].rv = 1 /\ capiCache[c] = capi[c]
    <3> DEFINE S == {[NoCapi EXCEPT !.exists = TRUE, !.uid = 1, !.rv = 1,
                       !.fins = {"capi"}, !.cpReady = TRUE, !.label = l] : l \in Labels}
    <3>1. \A o \in S : o.rv = 1
      BY DEF NoCapi
    <3>2. capi \in [CapiClusters -> S] /\ capiCache = capi
      BY DEF Init
    <3> HIDE DEF S
    <3> QED
      BY <3>1, <3>2
  <2>2. \A c \in CapiClusters :
           rec[c].base.rv = 0 /\ rec[c].hand.rv = 0 /\ rec[c].pc \notin Unread
    BY DEF Init, Idle, NoCapi, Unread
  <2>3. \A c \in CapiClusters : CapiCopies(c)
    BY <2>1, <2>2 DEF CapiCopies, Coherent
  <2>4. \A r \in Rids : RanchCopies(r)
    BY DEF Init, RanchCopies, NoRanch
  <2> QED
    BY <2>3, <2>4 DEF CopiesCoherent
<1>2. TypeOK /\ TypeOK' /\ CopiesCoherent /\ [Next]_vars => CopiesCoherent'
  <2>1. ASSUME TypeOK, TypeOK', CopiesCoherent, Next PROVE CopiesCoherent'
    <3>1. \A c \in CapiClusters : rec'[c].pc \in Unread => rec'[c].hand = rec'[c].base
      BY <2>1, UnreadStep DEF CopiesCoherent, CapiCopies
    <3> QED
      BY <2>1, <3>1, StepMoves, CapiMoveKeeps, RanchMoveKeeps DEF CopiesCoherent
  <2>2. ASSUME CopiesCoherent, UNCHANGED vars PROVE CopiesCoherent'
    BY <2>2 DEF vars, server, cache, CopiesCoherent, CapiCopies, RanchCopies, Coherent,
                AsStored, SameButOwn
  <2> QED
    BY <2>1, <2>2
<1> QED
  BY <1>1, <1>2, TypeCorrect, PTL DEF Spec

-----------------------------------------------------------------------------
(* No reconciliation undoes what others wrote. *)

LEMMA KeptSame == /\ \A o \in CapiObject : CapiKept(o, o)
                  /\ \A o \in RanchObject : RanchKept(o, o)
BY DEF CapiKept, RanchKept

LEMMA OwnWrite ==
    ASSUME NEW o \in CapiObject, NEW n \in CapiObject, SameButOwn(n, o)
    PROVE  CapiKept(o, Stored(o, n))
<1> DEFINE m == [n EXCEPT !.rv = o.rv + 1]
           g == [m EXCEPT !.exists = FALSE]
<1>1. /\ m.label = n.label /\ m.cpReady = n.cpReady /\ m.uid = n.uid /\ m.fins = n.fins
      /\ m.deleting = n.deleting /\ m.imported = n.imported /\ m.exists = n.exists
      /\ m \in CapiObject
  BY DEF CapiObject
<1>2. /\ g.label = n.label /\ g.cpReady = n.cpReady /\ g.uid = n.uid /\ g.fins = n.fins
      /\ g.deleting = n.deleting /\ g.imported = n.imported /\ g.exists = FALSE
  BY <1>1 DEF CapiObject
<1>3. Stored(o, n) = o \/ Stored(o, n) = m \/ (Stored(o, n) = g /\ m.deleting /\ m.fins = {})
  BY DEF Stored, Settle
<1> HIDE DEF m, g
<1> QED
  BY <1>1, <1>2, <1>3, KeptSame DEF CapiKept, SameButOwn

LEMMA MergeOwn ==
    ASSUME NEW cur \in CapiObject, NEW from \in CapiObject, NEW to \in CapiObject,
           SameButOwn(from, cur), SameButOwn(to, from)
    PROVE  SameButOwn(Merge(cur, from, to), cur)
<1> DEFINE m == Merge(cur, from, to)
<1>1. /\ m.exists = cur.exists /\ m.uid = cur.uid /\ m.rv = cur.rv
      /\ m.deleting = cur.deleting /\ m.cpReady = cur.cpReady /\ m.label = cur.label
  BY DEF Merge, SameButOwn, CapiObject
<1>2. m.fins \in {to.fins, cur.fins} /\ m.imported \in {to.imported, cur.imported}
  BY DEF Merge, CapiObject
<1> HIDE DEF m
<1>3. SameButOwn(m, cur)
  BY <1>1, <1>2 DEF SameButOwn
<1> QED
  BY <1>3 DEF m

LEMMA RanchOwnWrite ==
    ASSUME NEW o \in RanchObject
    PROVE  /\ RanchKept(o, Kept(Stored(o, Released(o))))
           /\ RanchKept(o, Stored(o, Finalized(o)))
           /\ RanchKept(o, Kept(Deleted(o)))
<1>1. ASSUME NEW n \in RanchObject, n.exists = o.exists, n.owner = o.owner,
             n.fins \ {"turtles"} = o.fins \ {"turtles"}
      PROVE  RanchKept(o, Stored(o, n)) /\ RanchKept(o, Kept(Stored(o, n)))
  <2> DEFINE m == [n EXCEPT !.rv = o.rv + 1]
             g == [m EXCEPT !.exists = FALSE]
  <2>1. m.owner = n.owner /\ m.fins = n.fins /\ m.exists = n.exists /\ m \in RanchObject
    BY DEF RanchObject
  <2>2. g.fins = n.fins /\ g.exists = FALSE
    BY <2>1 DEF RanchObject
  <2>3. Stored(o, n) = o \/ Stored(o, n) = m \/ (Stored(o, n) = g /\ m.fins = {})
    BY DEF Stored, Settle
  <2> HIDE DEF m, g
  <2>4. RanchKept(o, Stored(o, n))
    BY <1>1, <2>1, <2>2, <2>3, KeptSame DEF RanchKept
  <2>5. RanchKept(o, Stored(o, n)) => RanchKept(o, Kept(Stored(o, n)))
    BY <1>1, <2>1, <2>2, <2>3 DEF RanchKept, Kept, NoRanch
  <2> QED
    BY <2>4, <2>5
<1>2. /\ Released(o).exists = o.exists /\ Released(o).owner = o.owner
      /\ Released(o).fins \ {"turtles"} = o.fins \ {"turtles"}
      /\ Finalized(o).exists = o.exists /\ Finalized(o).owner = o.owner
      /\ Finalized(o).fins \ {"turtles"} = o.fins \ {"turtles"}
  BY DEF Released, Finalized, WithFin, WithoutFin, RanchObject
<1>3. /\ [o EXCEPT !.deleting = TRUE] \in RanchObject
      /\ [o EXCEPT !.deleting = TRUE].exists = o.exists
      /\ [o EXCEPT !.deleting = TRUE].owner = o.owner
      /\ [o EXCEPT !.deleting = TRUE].fins = o.fins
  BY DEF RanchObject
<1> QED
  BY <1>1, <1>2, <1>3, MarkedRanch DEF Deleted

LEMMA ServerSame ==
    ASSUME TypeOK, UNCHANGED <<capi, ranch>>
    PROVE  OthersKept
BY KeptSame DEF OthersKept, TypeOK

\* A write of one CAPI cluster, of a copy that differs in our own fields only.
LEMMA OneCapiWrite ==
    ASSUME TypeOK, NEW c \in CapiClusters, NEW n \in CapiObject,
           SameButOwn(n, capi[c]),
           capi' = [capi EXCEPT ![c] = Stored(capi[c], n)], UNCHANGED ranch
    PROVE  OthersKept
<1>1. CapiKept(capi[c], Stored(capi[c], n))
  BY OwnWrite DEF TypeOK
<1> QED
  BY <1>1, KeptSame DEF OthersKept, TypeOK

\* With the lock granted, the patch base and the working copy (but for our own fields)
\* are the stored object; the working copy from the uncached read on only if the base is.
LEMMA LockedCopies ==
    ASSUME TypeOK, CopiesCoherent, NEW c \in CapiClusters
    PROVE  /\ rec[c].pc \in Unread /\ Accepts(capi[c], rec[c].hand.rv) =>
                 rec[c].hand = capi[c]
           /\ Accepts(capi[c], rec[c].base.rv) =>
                 rec[c].base = capi[c] /\ SameButOwn(rec[c].hand, capi[c])
           /\ Accepts(capi[c], capiCache[c].rv) => capiCache[c] = capi[c]
           /\ \A r \in Rids : rec[c].rid = r /\ Accepts(ranch[r], rec[c].rc.rv) =>
                 rec[c].rc = ranch[r]
<1>1. /\ capi[c].rv \in Nat /\ rec[c].base.rv \in Nat /\ rec[c].hand.rv \in Nat
  BY RecParts DEF CapiObject
<1>2. CapiCopies(c) /\ \A r \in Rids : RanchCopies(r)
  BY DEF CopiesCoherent
<1>3. Accepts(capi[c], rec[c].base.rv) =>
         rec[c].base = capi[c] /\ SameButOwn(rec[c].hand, capi[c])
  BY <1>1, <1>2 DEF Accepts, CapiCopies, Coherent, AsStored
<1> QED
  BY <1>1, <1>2, <1>3 DEF Accepts, CapiCopies, RanchCopies, Coherent

LEMMA SameButOwnItself == \A o : SameButOwn(o, o)
BY DEF SameButOwn

LEMMA ReconcileKeeps ==
    ASSUME TypeOK, CopiesCoherent, NEW c \in CapiClusters, ReconcileStep(c)
    PROVE  OthersKept
<1> USE DEF server, cache
<1>1. CASE AddFinalizer(c)
  <2>1. capiCache[c] = capi[c] /\ capi[c] \in CapiObject
    BY <1>1, LockedCopies, RecParts DEF AddFinalizer, CanAddFinalizer
  <2>2. Finalized(capi[c]) \in CapiObject /\ SameButOwn(Finalized(capi[c]), capi[c])
    BY <2>1, MarkedCapi DEF Finalized, WithFin, SameButOwn, OwnFins, CapiObject
  <2> QED
    BY <1>1, <2>1, <2>2, OneCapiWrite DEF AddFinalizer
<1>2. CASE Annotate(c)
  <2> DEFINE k == Merge(capi[c], rec[c].hand, Dismissed(rec[c].hand))
  <2>1. SameButOwn(rec[c].hand, capi[c])
    BY <1>2, LockedCopies, SameButOwnItself DEF Annotate, Unread
  <2>2. SameButOwn(Dismissed(rec[c].hand), rec[c].hand)
    BY RecParts, OwnMarks
  <2>3. k \in CapiObject /\ SameButOwn(k, capi[c])
    BY <2>1, <2>2, RecParts, MarkedCapi, MergeCapi, MergeOwn
  <2>4. capi' = [capi EXCEPT ![c] = Stored(capi[c], k)] /\ UNCHANGED ranch
    BY <1>2 DEF Annotate
  <2> HIDE DEF k
  <2> QED
    BY <2>3, <2>4, OneCapiWrite
<1>3. CASE ReleaseRancher(c)
  <2> DEFINE r == rec[c].rid
  <2>1. r \in Rids => rec[c].rc = ranch[r]
    BY <1>3, LockedCopies DEF ReleaseRancher
  <2>2. \A q \in Rids : RanchKept(ranch[q], ranch'[q])
    BY <1>3, <2>1, RanchOwnWrite, KeptSame DEF ReleaseRancher, TypeOK
  <2> QED
    BY <1>3, <2>2, KeptSame DEF ReleaseRancher, OthersKept, TypeOK
<1>4. CASE DeleteRanchers(c)
  <2>1. \A q \in Rids : RanchKept(ranch[q], ranch'[q])
    BY <1>4, RanchOwnWrite, KeptSame DEF DeleteRanchers, TypeOK
  <2> QED
    BY <1>4, <2>1, KeptSame DEF DeleteRanchers, OthersKept, TypeOK
<1>5. CASE ReleaseCapi(c)
  <2>1. SameButOwn(rec[c].hand, capi[c])
    BY <1>5, LockedCopies, SameButOwnItself DEF ReleaseCapi, Unread
  <2>2. /\ Released(rec[c].hand) \in CapiObject
        /\ SameButOwn(Released(rec[c].hand), rec[c].hand)
    BY RecParts, MarkedCapi, OwnMarks
  <2>3. SameButOwn(Released(rec[c].hand), capi[c])
    BY <2>1, <2>2, SameButOwnTrans
  <2> QED
    BY <1>5, <2>2, <2>3, OneCapiWrite DEF ReleaseCapi
<1>6. CASE PatchRancher(c)
  <2> DEFINE r == rec[c].rid
  <2>1. r \in Rids => rec[c].rc = ranch[r]
    BY <1>6, LockedCopies DEF PatchRancher
  <2>2. \A q \in Rids : RanchKept(ranch[q], ranch'[q])
    BY <1>6, <2>1, RanchOwnWrite, KeptSame DEF PatchRancher, TypeOK
  <2> QED
    BY <1>6, <2>2, KeptSame DEF PatchRancher, OthersKept, TypeOK
<1>7. CASE CreateRancher(c)
  <2>1. \A q \in Rids : RanchKept(ranch[q], ranch'[q])
    BY <1>7, KeptSame DEF CreateRancher, FreshRids, RanchKept, TypeOK
  <2> QED
    BY <1>7, <2>1, KeptSame DEF CreateRancher, OthersKept, TypeOK
<1>8. CASE OuterPatch(c)
  <2> DEFINE k == Merge(capi[c], rec[c].base, rec[c].hand)
  <2>1. rec[c].base = capi[c] /\ SameButOwn(rec[c].hand, capi[c])
    BY <1>8, LockedCopies DEF OuterPatch
  <2>2. SameButOwn(capi[c], capi[c])
    BY DEF SameButOwn
  <2>3. k \in CapiObject /\ SameButOwn(k, capi[c])
    BY <2>1, <2>2, RecParts, MergeCapi, MergeOwn
  <2>4. capi' = [capi EXCEPT ![c] = Stored(capi[c], k)] /\ UNCHANGED ranch
    BY <1>8 DEF OuterPatch
  <2> HIDE DEF k
  <2> QED
    BY <2>3, <2>4, OneCapiWrite
<1>9. CASE \/ AddFinalizerFails(c) \/ EarlyReturn(c)
           \/ PickRancher(c) \/ NoRancher(c) \/ AnnotateFails(c) \/ ReleaseRancherFails(c)
           \/ DeleteRanchersFails(c) \/ ReleaseCapiFails(c) \/ Register(c)
           \/ PatchRancherFails(c) \/ Confirm(c) \/ ConfirmFails(c)
           \/ CreateRancherFails(c) \/ OuterPatchFails(c)
  <2>1. UNCHANGED server
    BY <1>9 DEF AddFinalizerFails, EarlyReturn, PickRancher, NoRancher,
       AnnotateFails, ReleaseRancherFails, DeleteRanchersFails, ReleaseCapiFails,
       Register, PatchRancherFails, Confirm, ConfirmFails, CreateRancherFails,
       OuterPatchFails
  <2> QED
    BY <2>1, ServerSame
<1> HIDE DEF server, cache
<1> QED
  BY <1>1, <1>2, <1>3, <1>4, <1>5, <1>6, <1>7, <1>8, <1>9 DEF ReconcileStep

LEMMA OthersKeptStep ==
    ASSUME TypeOK, CopiesCoherent, Next, rec' # rec
    PROVE  OthersKept
<1> USE DEF server, cache
<1>1. ASSUME NEW c \in CapiClusters, ReconcileStep(c) PROVE OthersKept
  BY <1>1, ReconcileKeeps
<1>2. ASSUME NEW c \in CapiClusters, Begin(c) PROVE OthersKept
  BY <1>2, ServerSame DEF Begin
<1>3. CASE Restart
  BY <1>3, ServerSame DEF Restart
<1>4. ASSUME NEW c \in CapiClusters, BeginMissing(c) \/ SyncCapi(c) \/ Resync(c)
      PROVE  OthersKept
  BY <1>4 DEF BeginMissing, SyncCapi, Resync
<1>5. ASSUME NEW r \in Rids, CleanupReconcile(r) \/ SyncRancher(r) PROVE OthersKept
  BY <1>5 DEF CleanupReconcile, SyncRancher
<1>6. CASE SyncNamespace
  BY <1>6 DEF SyncNamespace
<1>7. CASE Environment
  BY <1>7 DEF Environment, CreateCapi, SetLabel, ControlPlane, DeleteCapi, FleetAdopts,
     ReleaseByOthers, SetNamespaceLabel, RancherAdopts, RancherReleases, UserDeletesRancher
<1> HIDE DEF server, cache
<1> QED
  BY <1>1, <1>2, <1>3, <1>4, <1>5, <1>6, <1>7 DEF Next, Turtles

\* A reconciliation changes nothing that is not its own, however old its copies.
THEOREM NothingIsLost == Spec => NoLostUpdate
<1>1. TypeOK /\ CopiesCoherent /\ [Next]_vars => [rec' # rec => OthersKept]_vars
  BY OthersKeptStep
<1> QED
  BY <1>1, TypeCorrect, CopiesAreCoherent, PTL DEF Spec, NoLostUpdate

-----------------------------------------------------------------------------
(* The finalizer of a CAPI cluster. *)


\* The working copy has the finalizer that the base of the outer patch had, or
\* the outer patch will be refused.
Holds(r) ==
    r.hand.rv = r.base.rv /\ "turtles" \in r.base.fins => "turtles" \in r.hand.fins

\* Nothing is left of the import, and nothing is to be.
LetGo(c) == rec[c].hand.deleting /\ Live(c) = {}

Justified(c) ==
    LET r == rec[c]
    IN /\ r.pc \notin {"rancherFinalizer", "outer"} => Holds(r)
       /\ r.pc = "annotate" => ~r.hand.imported
       /\ r.pc = "deleteAll" => r.hand.deleting
       /\ r.pc = "capiFinalizer" => LetGo(c)
       /\ r.pc = "rancherFinalizer" => r.hand.imported
       /\ r.pc = "outer" => Holds(r) \/ r.hand.imported \/ LetGo(c)

ReleaseInv == \A c \in CapiClusters : Justified(c)
-----------------------------------------------------------------------------
(* What a write leaves of an object. *)

LEMMA StoredFields ==
    ASSUME NEW o \in CapiObject, NEW n \in CapiObject
    PROVE  /\ Stored(o, n).fins = n.fins /\ Stored(o, n).imported = n.imported
           /\ n.imported => Stored(o, n).imported
           /\ n.deleting => Stored(o, n).deleting
           /\ n.exists /\ ~Stored(o, n).exists => Stored(o, n).fins = {}
<1> DEFINE m == [n EXCEPT !.rv = o.rv + 1]
<1>1. /\ m.fins = n.fins /\ m.imported = n.imported /\ m.deleting = n.deleting
      /\ n.imported => m.imported
      /\ n.deleting => m.deleting
      /\ n.exists => m.exists
      /\ m \in CapiObject
  BY DEF CapiObject
<1>2. /\ Settle(m).fins = m.fins /\ Settle(m).imported = m.imported
      /\ m.imported => Settle(m).imported
      /\ m.deleting => Settle(m).deleting
      /\ m.exists /\ ~Settle(m).exists => Settle(m).fins = {}
  BY <1>1 DEF Settle, CapiObject
<1> QED
  BY <1>1, <1>2 DEF Stored

LEMMA StoredRanchDeleting ==
    ASSUME NEW o \in RanchObject, NEW n \in RanchObject, n.deleting
    PROVE  Stored(o, n).deleting
<1> DEFINE m == [n EXCEPT !.rv = o.rv + 1]
<1>1. m.deleting /\ m \in RanchObject
  BY DEF RanchObject
<1>2. Settle(m).deleting
  BY <1>1 DEF Settle, RanchObject
<1> QED
  BY <1>2 DEF Stored

\* A Rancher cluster that is live after a write was live before.
Stays(o, n) ==
    n.exists /\ ~n.deleting => o.exists /\ ~o.deleting /\ n.owner = o.owner

LEMMA StoredStays ==
    ASSUME NEW o \in RanchObject, NEW n \in RanchObject,
           n.exists = o.exists, n.owner = o.owner, o.deleting => n.deleting
    PROVE  Stays(o, Stored(o, n)) /\ Stays(o, Kept(Stored(o, n)))
<1> DEFINE m == [n EXCEPT !.rv = o.rv + 1]
<1>1. /\ m.exists = n.exists /\ m.owner = n.owner /\ m.deleting = n.deleting
      /\ m \in RanchObject
  BY DEF RanchObject
<1>2. Settle(m).exists /\ ~Settle(m).deleting => Settle(m) = m
  BY <1>1 DEF Settle, RanchObject
<1>3. Stored(o, n) = o \/ Stored(o, n) = Settle(m)
  BY DEF Stored
<1> HIDE DEF m
<1>4. Stays(o, Stored(o, n))
  BY <1>1, <1>2, <1>3 DEF Stays
<1> QED
  BY <1>4 DEF Stays, Kept, NoRanch

LEMMA RanchWritesStay ==
    ASSUME NEW o \in RanchObject
    PROVE  /\ Stays(o, o) /\ Stays(o, NoRanch)
           /\ Stays(o, Kept(Stored(o, Released(o)))) /\ Stays(o, Stored(o, Finalized(o)))
           /\ Stays(o, Kept(Stored(o, Merge(o, o, Released(o)))))
           /\ Stays(o, Kept(Deleted(o)))
           /\ Stays(o, Stored(o, WithFin(o, "rancher")))
           /\ Stays(o, Kept(Stored(o, WithoutFin(o, "rancher"))))
<1> DEFINE Like(n) == /\ n \in RanchObject /\ n.exists = o.exists /\ n.owner = o.owner
                      /\ o.deleting => n.deleting
<1>1. Like(Released(o)) /\ Like(Finalized(o)) /\ Like(WithFin(o, "rancher"))
      /\ Like(WithoutFin(o, "rancher"))
  BY DEF Released, Finalized, WithFin, WithoutFin, RanchObject, RanchFins
<1>2. Like(Merge(o, o, Released(o)))
  <2>1. Merge(o, o, Released(o)) \in RanchObject
    BY <1>1, MergeRanch
  <2> QED
    BY <1>1, <2>1 DEF Merge, RanchObject
<1>3. Like([o EXCEPT !.deleting = TRUE])
  BY DEF RanchObject
<1>4. Stays(o, o) /\ Stays(o, NoRanch)
  BY DEF Stays, NoRanch
<1> QED
  BY <1>1, <1>2, <1>3, <1>4, StoredStays DEF Deleted

\* Nobody but the reconciliation of c makes Rancher clusters for c.
LEMMA NoneBorn ==
    ASSUME TypeOK, CopiesCoherent, Next, NEW c,
           \A d \in CapiClusters : CreateRancher(d) => d # c
    PROVE  Live(c)' \subseteq Live(c)
<1> DEFINE Quiet == \A r \in Rids : Stays(ranch[r], ranch'[r])
<1> USE DEF server, cache
<1>1. Quiet => Live(c)' \subseteq Live(c)
  BY DEF Live, LiveOf, Stays
<1>2. ranch' = ranch => Quiet
  BY DEF Stays
<1>3. \A r \in Rids : ranch[r] \in RanchObject
  BY DEF TypeOK
<1>4. ASSUME NEW d \in CapiClusters, ReleaseRancher(d) PROVE Quiet
  <2>1. rec[d].rid \in Rids => rec[d].rc = ranch[rec[d].rid]
    BY <1>4, LockedCopies DEF ReleaseRancher
  <2> QED
    BY <1>3, <1>4, <2>1, RanchWritesStay DEF ReleaseRancher, TypeOK
<1>5. ASSUME NEW d \in CapiClusters, DeleteRanchers(d) PROVE Quiet
  BY <1>3, <1>5, RanchWritesStay DEF DeleteRanchers
<1>6. ASSUME NEW d \in CapiClusters, PatchRancher(d) PROVE Quiet
  <2>1. rec[d].rid \in Rids => rec[d].rc = ranch[rec[d].rid]
    BY <1>6, LockedCopies DEF PatchRancher
  <2> QED
    BY <1>3, <1>6, <2>1, RanchWritesStay DEF PatchRancher, TypeOK
<1>7. ASSUME NEW d \in CapiClusters, d # c, CreateRancher(d) PROVE Live(c)' \subseteq Live(c)
  <2>1. PICK q \in Rids : ranch' = [ranch EXCEPT ![q] =
                 [NoRanch EXCEPT !.exists = TRUE, !.rv = 1, !.fins = {"turtles"},
                    !.owner = d, !.madeFor = rec[d].hand.uid]]
    BY <1>7 DEF CreateRancher, FreshRids
  <2>2. ranch'[q].owner = d /\ \A r \in Rids \ {q} : ranch'[r] = ranch[r]
    BY <2>1 DEF TypeOK, NoRanch
  <2> QED
    BY <1>7, <2>2 DEF Live, LiveOf
<1>8. ASSUME NEW r \in Rids, CleanupReconcile(r) PROVE Quiet
  <2>1. ranchCache[r] = ranch[r]
    BY <1>8 DEF CleanupReconcile, Accepts, CopiesCoherent, RanchCopies, Coherent
  <2> QED
    BY <1>3, <1>8, <2>1, RanchWritesStay DEF CleanupReconcile, TypeOK
<1>9. ASSUME NEW r \in Rids, RancherAdopts(r) \/ RancherReleases(r) \/ UserDeletesRancher(r)
      PROVE  Quiet
  BY <1>3, <1>9, RanchWritesStay DEF RancherAdopts, RancherReleases, UserDeletesRancher, TypeOK
<1>10. ASSUME NEW d \in CapiClusters,
              \/ Begin(d) \/ BeginMissing(d) \/ SyncCapi(d) \/ Resync(d)
              \/ AddFinalizer(d) \/ AddFinalizerFails(d) \/ EarlyReturn(d)
              \/ PickRancher(d) \/ NoRancher(d) \/ Annotate(d) \/ AnnotateFails(d)
              \/ ReleaseRancherFails(d) \/ DeleteRanchersFails(d) \/ ReleaseCapi(d)
              \/ ReleaseCapiFails(d) \/ Register(d) \/ PatchRancherFails(d)
              \/ Confirm(d) \/ ConfirmFails(d) \/ CreateRancherFails(d)
              \/ OuterPatch(d) \/ OuterPatchFails(d)
       PROVE  ranch' = ranch
  BY <1>10 DEF Begin, BeginMissing, SyncCapi, Resync, AddFinalizer, AddFinalizerFails,
     EarlyReturn, PickRancher, NoRancher, Annotate, AnnotateFails, ReleaseRancherFails,
     DeleteRanchersFails, ReleaseCapi, ReleaseCapiFails, Register, PatchRancherFails,
     Confirm, ConfirmFails, CreateRancherFails, OuterPatch, OuterPatchFails
<1>11. ASSUME NEW d \in CapiClusters,
              \/ DeleteCapi(d) \/ FleetAdopts(d)
              \/ \E l \in Labels : CreateCapi(d, l) \/ SetLabel(d, l)
              \/ \E b \in BOOLEAN : ControlPlane(d, b)
              \/ \E f \in {"capi", "fleet"} : ReleaseByOthers(d, f)
       PROVE  ranch' = ranch
  BY <1>11 DEF DeleteCapi, FleetAdopts, CreateCapi, SetLabel, ControlPlane, ReleaseByOthers
<1>12. ASSUME \/ SyncNamespace \/ Restart
              \/ \E r \in Rids : SyncRancher(r)
              \/ \E b \in NsLabels : SetNamespaceLabel(b)
       PROVE  ranch' = ranch
  BY <1>12 DEF SyncNamespace, Restart, SyncRancher, SetNamespaceLabel
<1> HIDE DEF Quiet, server, cache
<1> QED
  BY <1>1, <1>2, <1>4, <1>5, <1>6, <1>7, <1>8, <1>9, <1>10, <1>11, <1>12
     DEF Next, Turtles, Environment, ReconcileStep

-----------------------------------------------------------------------------
(* The invariant. *)

\* The steps of others leave it alone.
LEMMA OthersStay ==
    ASSUME NEW c \in CapiClusters, Justified(c), rec'[c] = rec[c], Live(c)' \subseteq Live(c)
    PROVE  Justified(c)'
BY DEF Justified, LetGo, Holds

\* So does going on to the outer patch with what is in hand.
LEMMA OuterJustified ==
    ASSUME TypeOK, NEW c \in CapiClusters, NEW hand, NEW again, ToOuter(c, hand, again),
           \/ hand.imported
           \/ hand.rv = rec[c].base.rv /\ "turtles" \in rec[c].base.fins =>
                 "turtles" \in hand.fins
           \/ hand.deleting /\ Live(c)' = {}
    PROVE  Justified(c)'
<1>1. rec'[c].pc = "outer" /\ rec'[c].base = rec[c].base /\ rec'[c].hand = hand
  BY DEF ToOuter, Idle, TypeOK, Reconciliation
<1> QED
  BY <1>1 DEF Justified, LetGo, Holds

LEMMA IdleJustified ==
    ASSUME TypeOK, NEW c \in CapiClusters, rec'[c] = Idle
    PROVE  Justified(c)'
BY DEF Justified, Holds, Idle, NoCapi

\* The marks of a reconciliation on its working copy.
LEMMA MarkFields ==
    ASSUME NEW h \in CapiObject
    PROVE  /\ Dismissed(h).imported
           /\ h.deleting => Released(h).deleting
           /\ FleetSettled(h).rv = h.rv
           /\ "turtles" \in FleetSettled(h).fins <=> "turtles" \in h.fins
           /\ "turtles" \in Finalized(h).fins
BY DEF Dismissed, Released, FleetSettled, Finalized, WithFin, WithoutFin, CapiObject

LEMMA JustifiedStep ==
    ASSUME TypeOK, TypeOK', CopiesCoherent, Next, ReleaseInv
    PROVE  ReleaseInv'
<1> USE DEF server, cache
<1> SUFFICES ASSUME NEW c \in CapiClusters PROVE Justified(c)'
  BY DEF ReleaseInv
<1>0. Justified(c)
  BY DEF ReleaseInv
<1>1. CASE CreateRancher(c)
  BY <1>0, <1>1, OuterJustified DEF CreateRancher, Justified, Holds
<1>2. CASE ~CreateRancher(c)
  <2>1. Live(c)' \subseteq Live(c)
    BY <1>2, NoneBorn
  <2>2. rec'[c] = rec[c] => Justified(c)'
    BY <1>0, <2>1, OthersStay
  <2>3. rec[c].hand \in CapiObject /\ rec[c].base \in CapiObject /\ capi[c] \in CapiObject
    BY RecParts
  <2>4. CASE Begin(c)
    <3>1. rec'[c].pc \in {"list", "addFinalizer"} /\ rec'[c].base = rec'[c].hand
      BY <2>4 DEF Begin, Idle, TypeOK
    <3> QED
      BY <3>1 DEF Justified, Holds
  <2>5. CASE AddFinalizer(c)
    <3>1. rec'[c].pc = "list" /\ rec'[c].base = rec'[c].hand
      BY <2>5 DEF AddFinalizer, TypeOK, Reconciliation
    <3> QED
      BY <3>1 DEF Justified, Holds
  <2>6. CASE AddFinalizerFails(c) \/ EarlyReturn(c) \/ OuterPatch(c) \/ OuterPatchFails(c)
    <3>1. rec'[c] = Idle
      BY <2>6 DEF AddFinalizerFails, EarlyReturn, OuterPatch, OuterPatchFails, Finish, TypeOK
    <3> QED
      BY <3>1, IdleJustified
  <2>7. CASE PickRancher(c)
    <3>1. /\ rec[c].pc = "list" /\ rec'[c].base = rec[c].base /\ rec'[c].hand = rec[c].hand
          /\ ~rec[c].hand.imported
          /\ \/ rec'[c].pc \in {"annotate", "normal"}
             \/ rec'[c].pc = "deleteAll" /\ rec[c].hand.deleting
      BY <2>7 DEF PickRancher, TypeOK, Reconciliation
    <3> QED
      BY <1>0, <3>1 DEF Justified, Holds
  <2>8. CASE NoRancher(c)
    <3>1. /\ rec[c].pc = "list" /\ rec'[c].base = rec[c].base /\ rec'[c].hand = rec[c].hand
          /\ \/ rec'[c].pc = "confirm"
             \/ rec'[c].pc = "deleteAll" /\ rec[c].hand.deleting
      BY <2>8 DEF NoRancher, Goto, TypeOK, Reconciliation
    <3> QED
      BY <1>0, <3>1 DEF Justified, Holds
  <2>9. CASE Annotate(c)
    <3> DEFINE n == Merge(capi[c], rec[c].hand, Dismissed(rec[c].hand))
    <3>1. n \in CapiObject /\ n.imported
      <4>1. ~rec[c].hand.imported
        BY <1>0, <2>9 DEF Annotate, Justified
      <4>2. n.imported
        BY <2>3, <4>1, MarkFields DEF Merge, CapiObject
      <4> QED
        BY <2>3, <4>2, MarkedCapi, MergeCapi
    <3>2. capi'[c] = Stored(capi[c], n)
      BY <2>9 DEF Annotate, TypeOK
    <3> HIDE DEF n
    <3>3. capi'[c].imported
      BY <2>3, <3>1, <3>2, StoredFields
    <3>4. CASE ToOuter(c, capi'[c], FALSE)
      BY <3>3, <3>4, OuterJustified
    <3>5. CASE rec' = [rec EXCEPT ![c] = [@ EXCEPT !.pc = "rancherFinalizer",
                                                   !.hand = capi'[c]]]
      <4>1. rec'[c].pc = "rancherFinalizer" /\ rec'[c].hand = capi'[c]
        BY <3>5 DEF TypeOK, Reconciliation
      <4> QED
        BY <3>3, <4>1 DEF Justified
    <3> QED
      BY <2>9, <3>4, <3>5 DEF Annotate
  <2>10. CASE AnnotateFails(c)
    BY <2>3, <2>10, MarkFields, OuterJustified DEF AnnotateFails
  <2>11. CASE ReleaseRancher(c) \/ ReleaseRancherFails(c)
    BY <1>0, <2>11, OuterJustified DEF ReleaseRancher, ReleaseRancherFails, Justified
  <2>12. CASE DeleteRanchers(c)
    <3>1. Live(c)' = {}
      <4>1. \A r \in Rids : Kept(Deleted(ranch[r])).exists => Kept(Deleted(ranch[r])).deleting
        <5> SUFFICES ASSUME NEW r \in Rids, Kept(Deleted(ranch[r])).exists
                     PROVE  Kept(Deleted(ranch[r])).deleting
          OBVIOUS
        <5>1. ranch[r] \in RanchObject
          BY DEF TypeOK
        <5>2. /\ [ranch[r] EXCEPT !.deleting = TRUE] \in RanchObject
              /\ [ranch[r] EXCEPT !.deleting = TRUE].deleting
          BY <5>1 DEF RanchObject
        <5>3. Deleted(ranch[r]).deleting
          BY <5>1, <5>2, StoredRanchDeleting DEF Deleted
        <5> QED
          BY <5>3 DEF Kept, NoRanch
      <4> QED
        BY <2>12, <4>1 DEF DeleteRanchers, Live, LiveOf, Owned
    <3>2. rec[c].pc = "deleteAll" /\ rec[c].hand.deleting
      BY <1>0, <2>12 DEF DeleteRanchers, Justified
    <3>3. CASE Goto(c, "capiFinalizer")
      <4>1. /\ rec'[c].pc = "capiFinalizer" /\ rec'[c].base = rec[c].base
            /\ rec'[c].hand = rec[c].hand
        BY <3>3 DEF Goto, TypeOK, Reconciliation
      <4> QED
        BY <1>0, <3>1, <3>2, <4>1 DEF Justified, Holds, LetGo
    <3>4. CASE ToOuter(c, rec[c].hand, FALSE)
      BY <3>1, <3>2, <3>4, OuterJustified
    <3> QED
      BY <2>12, <3>3, <3>4 DEF DeleteRanchers
  <2>13. CASE DeleteRanchersFails(c)
    BY <1>0, <2>13, OuterJustified DEF DeleteRanchersFails, Justified, Holds
  <2>14. CASE ReleaseCapi(c)
    <3>1. rec[c].hand.deleting /\ Live(c) = {}
      BY <1>0, <2>14 DEF ReleaseCapi, Justified, LetGo
    <3>2. capi'[c] = Stored(capi[c], Released(rec[c].hand))
      BY <2>14 DEF ReleaseCapi, TypeOK
    <3>3. Released(rec[c].hand) \in CapiObject /\ Released(rec[c].hand).deleting
      BY <2>3, <3>1, MarkedCapi, MarkFields
    <3>4. Stored(capi[c], Released(rec[c].hand)).deleting
      BY <3>3, StoredFields DEF TypeOK
    <3>5. capi'[c].deleting
      BY <3>2, <3>4
    <3>6. Live(c)' = {}
      BY <2>1, <3>1
    <3> QED
      BY <2>14, <3>5, <3>6, OuterJustified DEF ReleaseCapi
  <2>15. CASE ReleaseCapiFails(c)
    <3>1. rec[c].pc = "capiFinalizer" /\ rec[c].hand.deleting /\ Live(c) = {}
      BY <1>0, <2>15 DEF ReleaseCapiFails, Justified, LetGo
    <3>2. Released(rec[c].hand).deleting /\ Live(c)' = {}
      BY <2>1, <2>3, <3>1, MarkFields
    <3> QED
      BY <2>15, <3>2, OuterJustified DEF ReleaseCapiFails
  <2>16. CASE Register(c)
    <3>1. rec[c].pc = "normal" /\ Holds(rec[c])
      BY <1>0, <2>16 DEF Register, Justified
    <3>2. CASE ToOuter(c, FleetSettled(rec[c].hand), TRUE)
      BY <2>3, <3>1, <3>2, MarkFields, OuterJustified DEF Holds
    <3>3. CASE \E requeue \in BOOLEAN :
                  rec' = [rec EXCEPT ![c] = [@ EXCEPT !.pc = "patchRancher",
                                                      !.hand = FleetSettled(rec[c].hand),
                                                      !.again = requeue]]
      <4>1. /\ rec'[c].pc = "patchRancher" /\ rec'[c].base = rec[c].base
            /\ rec'[c].hand = FleetSettled(rec[c].hand)
        BY <3>3 DEF TypeOK, Reconciliation
      <4> QED
        BY <2>3, <3>1, <4>1, MarkFields DEF Justified, Holds
    <3> QED
      BY <2>16, <3>2, <3>3 DEF Register
  <2>17. CASE PatchRancher(c) \/ PatchRancherFails(c)
    BY <1>0, <2>17, OuterJustified DEF PatchRancher, PatchRancherFails, Justified, Holds
  <2>18. CASE Confirm(c)
    <3>1. capi[c].rv = rec[c].base.rv => capi[c] = rec[c].base
      BY <2>18, LockedCopies DEF Confirm, Accepts
    <3> DEFINE read == Decoded(rec[c].hand, capi[c])
    <3>2. read.rv = capi[c].rv /\ read.fins = capi[c].fins
      BY <2>3, DecodedCapi
    <3>3. \/ ToOuter(c, read, FALSE)
          \/ rec' = [rec EXCEPT ![c] = [@ EXCEPT !.pc = "create", !.hand = read]]
      BY <2>18 DEF Confirm
    <3> HIDE DEF read
    <3>4. CASE ToOuter(c, read, FALSE)
      BY <3>1, <3>2, <3>4, OuterJustified
    <3>5. CASE rec' = [rec EXCEPT ![c] = [@ EXCEPT !.pc = "create", !.hand = read]]
      <4>1. rec'[c].pc = "create" /\ rec'[c].base = rec[c].base /\ rec'[c].hand = read
        BY <3>5 DEF TypeOK, Reconciliation
      <4> QED
        BY <3>1, <3>2, <4>1 DEF Justified, Holds
    <3> QED
      BY <3>3, <3>4, <3>5
  <2>19. CASE ConfirmFails(c)
    <3>1. Holds(rec[c])
      BY <1>0, <2>19 DEF ConfirmFails, Justified
    <3> QED
      BY <2>3, <2>19, <3>1, MarkFields, OuterJustified DEF ConfirmFails, Holds
  <2>20. CASE CreateRancherFails(c)
    BY <1>0, <2>20, OuterJustified DEF CreateRancherFails, Justified, Holds
  <2>21. CASE Restart
    BY <2>21, IdleJustified DEF Restart
  <2>22. CASE ReconcileStep(c)
    BY <1>2, <2>5, <2>6, <2>7, <2>8, <2>9, <2>10, <2>11, <2>12, <2>13, <2>14, <2>15, <2>16,
       <2>17, <2>18, <2>19, <2>20, <2>22 DEF ReconcileStep
  <2> HIDE DEF server, cache
  <2> QED
    BY <2>2, <2>4, <2>21, <2>22, OwnSteps
<1> QED
  BY <1>1, <1>2

-----------------------------------------------------------------------------
(* The finalizer is given up for a reason. *)

\* What a step does to a CAPI cluster: nothing, a creation, or a write that leaves
\* the finalizer or has a reason to take it.
Writes(c) ==
    \/ capi'[c] = capi[c]
    \/ ~capi[c].exists /\ capi'[c].exists /\ ~capi'[c].deleting
    \/ \E n \in CapiObject :
          /\ n.exists /\ capi'[c] = Stored(capi[c], n)
          /\ "turtles" \in capi[c].fins =>
                \/ "turtles" \in n.fins
                \/ n.imported
                \/ capi[c].deleting /\ LiveOf(ranch', c) = {}

\* A CAPI cluster that is gone has no finalizers.
GoneIsBare == \A c \in CapiClusters : ~capi[c].exists => capi[c].fins = {}

LEMMA WritesJustified ==
    ASSUME TypeOK, NEW c \in CapiClusters, Writes(c), ~capi[c].exists => capi[c].fins = {}
    PROVE  /\ ~capi'[c].exists => capi'[c].fins = {}
           /\ "turtles" \in capi[c].fins /\ "turtles" \notin capi'[c].fins =>
                 \/ capi'[c].imported
                 \/ capi[c].deleting /\ LiveOf(ranch', c) = {}
<1>1. CASE capi'[c] = capi[c] \/ (~capi[c].exists /\ capi'[c].exists)
  BY <1>1
<1>2. CASE \E n \in CapiObject :
             /\ n.exists /\ capi'[c] = Stored(capi[c], n)
             /\ "turtles" \in capi[c].fins =>
                   \/ "turtles" \in n.fins
                   \/ n.imported
                   \/ capi[c].deleting /\ LiveOf(ranch', c) = {}
  <2>1. PICK n \in CapiObject :
             /\ n.exists /\ capi'[c] = Stored(capi[c], n)
             /\ "turtles" \in capi[c].fins =>
                   \/ "turtles" \in n.fins
                   \/ n.imported
                   \/ capi[c].deleting /\ LiveOf(ranch', c) = {}
    BY <1>2
  <2>2. capi[c] \in CapiObject
    BY RecParts
  <2> QED
    BY <2>1, <2>2, StoredFields
<1> QED
  BY <1>1, <1>2 DEF Writes

\* Others leave the finalizer.
LEMMA OthersWrite ==
    ASSUME TypeOK, Environment, NEW c \in CapiClusters
    PROVE  Writes(c)
<1>1. capi[c] \in CapiObject
  BY RecParts
<1>2. ASSUME capi[c].exists
      PROVE  /\ [capi[c] EXCEPT !.deleting = TRUE] \in CapiObject
             /\ [capi[c] EXCEPT !.deleting = TRUE].exists
             /\ [capi[c] EXCEPT !.deleting = TRUE].fins = capi[c].fins
             /\ \A l \in Labels : /\ [capi[c] EXCEPT !.label = l] \in CapiObject
                                  /\ [capi[c] EXCEPT !.label = l].exists
                                  /\ [capi[c] EXCEPT !.label = l].fins = capi[c].fins
             /\ \A b \in BOOLEAN : /\ [capi[c] EXCEPT !.cpReady = b] \in CapiObject
                                   /\ [capi[c] EXCEPT !.cpReady = b].exists
                                   /\ [capi[c] EXCEPT !.cpReady = b].fins = capi[c].fins
  BY <1>1, <1>2, ConstantsAssumption DEF CapiObject
<1>3. ASSUME capi[c].exists
      PROVE  /\ WithFin(capi[c], "fleet") \in CapiObject /\ WithFin(capi[c], "fleet").exists
             /\ "turtles" \in capi[c].fins => "turtles" \in WithFin(capi[c], "fleet").fins
             /\ \A f \in {"capi", "fleet"} :
                   /\ WithoutFin(capi[c], f) \in CapiObject /\ WithoutFin(capi[c], f).exists
                   /\ "turtles" \in capi[c].fins => "turtles" \in WithoutFin(capi[c], f).fins
  BY <1>1, <1>3 DEF CapiObject, CapiFins, WithFin, WithoutFin
<1>4. ASSUME NEW d \in CapiClusters, NEW l \in Labels, CreateCapi(d, l) PROVE Writes(c)
  BY <1>4 DEF CreateCapi, NewCapi, NoCapi, TypeOK, Writes
<1>5. ASSUME NEW d \in CapiClusters, NEW l \in Labels, SetLabel(d, l) PROVE Writes(c)
  <2>1. \/ capi'[c] = capi[c]
        \/ capi[c].exists /\ capi'[c] = Stored(capi[c], [capi[c] EXCEPT !.label = l])
    BY <1>5 DEF SetLabel, TypeOK
  <2> QED
    BY <1>2, <2>1 DEF Writes
<1>6. ASSUME NEW d \in CapiClusters, NEW b \in BOOLEAN, ControlPlane(d, b) PROVE Writes(c)
  <2>1. \/ capi'[c] = capi[c]
        \/ capi[c].exists /\ capi'[c] = Stored(capi[c], [capi[c] EXCEPT !.cpReady = b])
    BY <1>6 DEF ControlPlane, TypeOK
  <2> QED
    BY <1>2, <2>1 DEF Writes
<1>7. ASSUME NEW d \in CapiClusters, DeleteCapi(d) PROVE Writes(c)
  <2>1. \/ capi'[c] = capi[c]
        \/ capi[c].exists /\ capi'[c] = Stored(capi[c], [capi[c] EXCEPT !.deleting = TRUE])
    BY <1>7 DEF DeleteCapi, Deleted, TypeOK
  <2> QED
    BY <1>2, <2>1 DEF Writes
<1>8. ASSUME NEW d \in CapiClusters, FleetAdopts(d) PROVE Writes(c)
  <2>1. \/ capi'[c] = capi[c]
        \/ capi[c].exists /\ capi'[c] = Stored(capi[c], WithFin(capi[c], "fleet"))
    BY <1>8 DEF FleetAdopts, TypeOK
  <2> QED
    BY <1>3, <2>1 DEF Writes
<1>9. ASSUME NEW d \in CapiClusters, NEW f \in {"capi", "fleet"}, ReleaseByOthers(d, f)
      PROVE  Writes(c)
  <2>1. \/ capi'[c] = capi[c]
        \/ capi[c].exists /\ capi'[c] = Stored(capi[c], WithoutFin(capi[c], f))
    BY <1>9 DEF ReleaseByOthers, TypeOK
  <2> QED
    BY <1>3, <2>1 DEF Writes
<1>10. ASSUME \/ \E b \in NsLabels : SetNamespaceLabel(b)
              \/ \E r \in Rids : RancherAdopts(r) \/ RancherReleases(r) \/ UserDeletesRancher(r)
       PROVE  Writes(c)
  BY <1>10 DEF SetNamespaceLabel, RancherAdopts, RancherReleases, UserDeletesRancher, Writes
<1> QED
  BY <1>4, <1>5, <1>6, <1>7, <1>8, <1>9, <1>10 DEF Environment

\* The controller has a reason.
LEMMA ControllerWrites ==
    ASSUME TypeOK, CopiesCoherent, ReleaseInv, Next, ~Environment, NEW c \in CapiClusters
    PROVE  Writes(c)
<1> USE DEF server, cache
<1>1. /\ capi[c] \in CapiObject /\ rec[c].hand \in CapiObject /\ rec[c].base \in CapiObject
      /\ Justified(c)
  BY RecParts DEF ReleaseInv
<1>2. CASE AddFinalizer(c)
  <2>1. capi[c].exists /\ capi'[c] = Stored(capi[c], Finalized(capi[c]))
    BY <1>2, LockedCopies DEF AddFinalizer, CanAddFinalizer, Accepts, TypeOK
  <2>2. /\ Finalized(capi[c]) \in CapiObject /\ "turtles" \in Finalized(capi[c]).fins
        /\ Finalized(capi[c]).exists
    BY <1>1, <2>1, MarkedCapi, MarkFields DEF Finalized, WithFin, CapiObject
  <2> QED
    BY <2>1, <2>2 DEF Writes
<1>3. CASE Annotate(c)
  <2> DEFINE n == Merge(capi[c], rec[c].hand, Dismissed(rec[c].hand))
  <2>1. ~rec[c].hand.imported /\ SameButOwn(rec[c].hand, capi[c]) /\ capi[c].exists
    BY <1>1, <1>3, LockedCopies, SameButOwnItself DEF Annotate, Justified, Accepts, Unread
  <2>2. n \in CapiObject
    BY <1>1, MarkedCapi, MergeCapi
  <2>3. n.imported /\ n.exists
    BY <1>1, <2>1, MarkFields DEF Merge, CapiObject, Dismissed, Released, WithoutFin
  <2>4. capi'[c] = Stored(capi[c], n)
    BY <1>3 DEF Annotate, TypeOK
  <2> HIDE DEF n
  <2> QED
    BY <2>2, <2>3, <2>4 DEF Writes
<1>4. CASE ReleaseCapi(c)
  <2>1. /\ SameButOwn(rec[c].hand, capi[c]) /\ capi[c].exists
        /\ rec[c].hand.deleting /\ Live(c) = {}
    BY <1>1, <1>4, LockedCopies, SameButOwnItself
       DEF ReleaseCapi, Justified, LetGo, Accepts, Unread
  <2>2. capi[c].deleting /\ LiveOf(ranch', c) = {}
    BY <1>4, <2>1 DEF ReleaseCapi, SameButOwn, Live
  <2>3. Released(rec[c].hand) \in CapiObject /\ Released(rec[c].hand).exists
    BY <1>1, <2>1, MarkedCapi DEF Released, WithoutFin, CapiObject, SameButOwn
  <2>4. capi'[c] = Stored(capi[c], Released(rec[c].hand))
    BY <1>4 DEF ReleaseCapi, TypeOK
  <2> QED
    BY <2>2, <2>3, <2>4 DEF Writes
<1>5. CASE OuterPatch(c)
  <2> DEFINE n == Merge(capi[c], rec[c].base, rec[c].hand)
  <2>1. rec[c].base = capi[c] /\ SameButOwn(rec[c].hand, capi[c]) /\ capi[c].exists
    BY <1>5, LockedCopies DEF OuterPatch, Accepts
  <2>2. n \in CapiObject
    BY <1>1, MergeCapi
  <2>3. n.exists /\ n.fins = rec[c].hand.fins /\ n.imported = rec[c].hand.imported
    BY <1>1, <2>1 DEF Merge, CapiObject, SameButOwn
  <2>4. capi'[c] = Stored(capi[c], n)
    BY <1>5 DEF OuterPatch, TypeOK
  <2>5. \/ Holds(rec[c]) \/ rec[c].hand.imported
        \/ rec[c].hand.deleting /\ Live(c) = {}
    BY <1>1, <1>5 DEF OuterPatch, Justified, LetGo
  <2>6. Holds(rec[c]) /\ "turtles" \in capi[c].fins => "turtles" \in n.fins
    BY <2>1, <2>3 DEF Holds, SameButOwn
  <2>7. rec[c].hand.deleting /\ Live(c) = {} => capi[c].deleting /\ LiveOf(ranch', c) = {}
    BY <1>5, <2>1 DEF OuterPatch, SameButOwn, Live
  <2> HIDE DEF n
  <2> QED
    BY <2>2, <2>3, <2>4, <2>5, <2>6, <2>7 DEF Writes
<1>6. ASSUME NEW d \in CapiClusters, d # c,
             AddFinalizer(d) \/ Annotate(d) \/ ReleaseCapi(d) \/ OuterPatch(d)
      PROVE  capi'[c] = capi[c]
  BY <1>6 DEF AddFinalizer, Annotate, ReleaseCapi, OuterPatch, TypeOK
<1>7. ASSUME NEW d \in CapiClusters,
             \/ Begin(d) \/ BeginMissing(d) \/ SyncCapi(d) \/ Resync(d)
             \/ AddFinalizerFails(d) \/ EarlyReturn(d) \/ PickRancher(d) \/ NoRancher(d)
             \/ AnnotateFails(d) \/ ReleaseRancher(d) \/ ReleaseRancherFails(d)
             \/ DeleteRanchers(d) \/ DeleteRanchersFails(d) \/ ReleaseCapiFails(d)
             \/ Register(d) \/ PatchRancher(d) \/ PatchRancherFails(d)
             \/ Confirm(d) \/ ConfirmFails(d) \/ CreateRancher(d) \/ CreateRancherFails(d)
             \/ OuterPatchFails(d)
      PROVE  capi' = capi
  BY <1>7 DEF Begin, BeginMissing, SyncCapi, Resync, AddFinalizerFails,
     EarlyReturn, PickRancher, NoRancher, AnnotateFails, ReleaseRancher, ReleaseRancherFails,
     DeleteRanchers, DeleteRanchersFails, ReleaseCapiFails, Register, PatchRancher,
     PatchRancherFails, Confirm, ConfirmFails, CreateRancher, CreateRancherFails,
     OuterPatchFails
<1>8. ASSUME SyncNamespace \/ Restart
             \/ \E r \in Rids : CleanupReconcile(r) \/ SyncRancher(r)
      PROVE  capi' = capi
  BY <1>8 DEF SyncNamespace, Restart, CleanupReconcile, SyncRancher
<1>9. capi'[c] = capi[c] => Writes(c)
  BY DEF Writes
<1> HIDE DEF server, cache
<1> QED
  BY <1>2, <1>3, <1>4, <1>5, <1>6, <1>7, <1>8, <1>9 DEF Next, Turtles, ReconcileStep

\* The finalizer of a CAPI cluster goes only with the annotation, or when every
\* Rancher cluster of a CAPI cluster that is being deleted is gone or going: for
\* any number of Rancher clusters (import_controller.go:253-266, 473-498).
THEOREM ReleaseIsJustified == Spec => ReleaseJustified
<1> DEFINE A == \A c \in CapiClusters :
                   "turtles" \in capi[c].fins /\ "turtles" \notin capi'[c].fins =>
                      \/ capi'[c].imported
                      \/ capi[c].deleting /\ LiveOf(ranch', c) = {}
           Inv == ReleaseInv /\ GoneIsBare
<1>1. Init => Inv
  <2> SUFFICES ASSUME Init PROVE Inv
    OBVIOUS
  <2>1. ReleaseInv
    BY DEF Init, ReleaseInv, Justified, Holds, Idle, NoCapi
  <2>2. ASSUME NEW c \in CapiClusters PROVE capi[c].exists
    <3>1. PICK l \in Labels : capi[c] = [NoCapi EXCEPT !.exists = TRUE, !.uid = 1, !.rv = 1,
                                !.fins = {"capi"}, !.cpReady = TRUE, !.label = l]
      BY DEF Init
    <3> QED
      BY <3>1 DEF NoCapi
  <2> QED
    BY <2>1, <2>2 DEF GoneIsBare
<1>2. TypeOK /\ TypeOK' /\ CopiesCoherent /\ Inv /\ [Next]_vars => Inv' /\ [A]_vars
  <2>1. ASSUME TypeOK, TypeOK', CopiesCoherent, Inv, Next PROVE Inv' /\ A
    <3>1. \A c \in CapiClusters : Writes(c)
      BY <2>1, OthersWrite, ControllerWrites
    <3>2. GoneIsBare' /\ A
      BY <2>1, <3>1, WritesJustified DEF GoneIsBare
    <3> QED
      BY <2>1, <3>2, JustifiedStep
  <2>2. ASSUME Inv, UNCHANGED vars PROVE Inv'
    BY <2>2 DEF vars, server, cache, ReleaseInv, GoneIsBare, Justified, LetGo, Holds,
                Live, LiveOf
  <2> QED
    BY <2>1, <2>2
<1> QED
  BY <1>1, <1>2, TypeCorrect, CopiesAreCoherent, PTL DEF Spec, ReleaseJustified

-----------------------------------------------------------------------------
(* No Rancher cluster over the annotation. *)

\* Without the namespace label, what asked for import when it was read does not
\* carry the annotation until the Rancher cluster is made.
Unannotated ==
    /\ ~nsLabel /\ ~nsCache
    /\ \A c \in CapiClusters : rec[c].pc = "create" => ~capi[c].imported

\* Users, Cluster API and CAAPF do not write the annotation.
LEMMA OthersDoNotAnnotate ==
    ASSUME TypeOK, Environment, NEW c \in CapiClusters
    PROVE  capi'[c].imported => capi[c].imported
<1> DEFINE Like(n) == n \in CapiObject /\ n.imported = capi[c].imported
<1>1. capi[c] \in CapiObject
  BY RecParts
<1>2. ASSUME NEW n, Like(n) PROVE Stored(capi[c], n).imported = capi[c].imported
  BY <1>1, <1>2, StoredFields
<1>3. /\ Like([capi[c] EXCEPT !.deleting = TRUE])
      /\ \A l \in Labels : Like([capi[c] EXCEPT !.label = l])
      /\ \A b \in BOOLEAN : Like([capi[c] EXCEPT !.cpReady = b])
  BY <1>1, ConstantsAssumption DEF CapiObject
<1>4. /\ Like(WithFin(capi[c], "fleet"))
      /\ \A f \in {"capi", "fleet"} : Like(WithoutFin(capi[c], f))
  BY <1>1 DEF CapiObject, CapiFins, WithFin, WithoutFin
<1> HIDE DEF Like
<1>5. ASSUME NEW d \in CapiClusters, NEW l \in Labels, CreateCapi(d, l)
      PROVE  capi'[c] = capi[c] \/ ~capi'[c].imported
  BY <1>5 DEF CreateCapi, NewCapi, NoCapi, TypeOK
<1>6. ASSUME NEW d \in CapiClusters, NEW l \in Labels, SetLabel(d, l)
      PROVE  capi'[c] = capi[c] \/ capi'[c] = Stored(capi[c], [capi[c] EXCEPT !.label = l])
  BY <1>6 DEF SetLabel, TypeOK
<1>7. ASSUME NEW d \in CapiClusters, NEW b \in BOOLEAN, ControlPlane(d, b)
      PROVE  capi'[c] = capi[c] \/ capi'[c] = Stored(capi[c], [capi[c] EXCEPT !.cpReady = b])
  BY <1>7 DEF ControlPlane, TypeOK
<1>8. ASSUME NEW d \in CapiClusters, DeleteCapi(d)
      PROVE  capi'[c] = capi[c] \/ capi'[c] = Stored(capi[c], [capi[c] EXCEPT !.deleting = TRUE])
  BY <1>8 DEF DeleteCapi, Deleted, TypeOK
<1>9. ASSUME NEW d \in CapiClusters, FleetAdopts(d)
      PROVE  capi'[c] = capi[c] \/ capi'[c] = Stored(capi[c], WithFin(capi[c], "fleet"))
  BY <1>9 DEF FleetAdopts, TypeOK
<1>10. ASSUME NEW d \in CapiClusters, NEW f \in {"capi", "fleet"}, ReleaseByOthers(d, f)
       PROVE  capi'[c] = capi[c] \/ capi'[c] = Stored(capi[c], WithoutFin(capi[c], f))
  BY <1>10 DEF ReleaseByOthers, TypeOK
<1>11. ASSUME \/ \E b \in NsLabels : SetNamespaceLabel(b)
              \/ \E r \in Rids : RancherAdopts(r) \/ RancherReleases(r) \/ UserDeletesRancher(r)
       PROVE  capi'[c] = capi[c]
  BY <1>11 DEF SetNamespaceLabel, RancherAdopts, RancherReleases, UserDeletesRancher
<1> QED
  BY <1>2, <1>3, <1>4, <1>5, <1>6, <1>7, <1>8, <1>9, <1>10, <1>11 DEF Environment

\* The manager writes the CAPI cluster of c in the reconciliation of c only.
LEMMA OwnWrites ==
    ASSUME TypeOK, Next, ~Environment, NEW c \in CapiClusters, ~ReconcileStep(c)
    PROVE  capi'[c] = capi[c]
<1> USE DEF server, cache
<1>1. ASSUME NEW d \in CapiClusters, d # c, ReconcileStep(d)
      PROVE  capi'[c] = capi[c]
  BY <1>1 DEF TypeOK, ReconcileStep, AddFinalizer, AddFinalizerFails, EarlyReturn,
     PickRancher, NoRancher, Annotate, AnnotateFails, ReleaseRancher, ReleaseRancherFails,
     DeleteRanchers, DeleteRanchersFails, ReleaseCapi, ReleaseCapiFails, Register,
     PatchRancher, PatchRancherFails, Confirm, ConfirmFails, CreateRancher,
     CreateRancherFails, OuterPatch, OuterPatchFails
<1>2. ASSUME NEW d \in CapiClusters, Begin(d) \/ BeginMissing(d) \/ SyncCapi(d) \/ Resync(d)
      PROVE  capi' = capi
  BY <1>2 DEF Begin, BeginMissing, SyncCapi, Resync
<1>3. ASSUME \/ SyncNamespace \/ Restart
             \/ \E r \in Rids : CleanupReconcile(r) \/ SyncRancher(r)
      PROVE  capi' = capi
  BY <1>3 DEF SyncNamespace, Restart, CleanupReconcile, SyncRancher
<1> HIDE DEF server, cache
<1> QED
  BY <1>1, <1>2, <1>3 DEF Next, Turtles

\* Where a step of the reconciliation leads.
LEMMA ToCreate ==
    ASSUME TypeOK, NEW c \in CapiClusters, Begin(c) \/ ReconcileStep(c),
           rec'[c].pc = "create", ~nsCache
    PROVE  ~capi'[c].imported
<1>1. /\ \A hand, again : ToOuter(c, hand, again) => rec'[c].pc = "outer"
      /\ \A again : Finish(c, again) => rec'[c].pc = "idle"
      /\ \A pc : Goto(c, pc) => rec'[c].pc = pc
  <2>1. rec \in [CapiClusters -> Reconciliation]
    BY DEF TypeOK
  <2>2. ASSUME NEW hand, NEW again, ToOuter(c, hand, again) PROVE rec'[c].pc = "outer"
    BY <2>1, <2>2 DEF ToOuter, Idle
  <2>3. ASSUME NEW again, Finish(c, again) PROVE rec'[c].pc = "idle"
    BY <2>1, <2>3 DEF Finish, Idle
  <2>4. ASSUME NEW pc, Goto(c, pc) PROVE rec'[c].pc = pc
    BY <2>1, <2>4 DEF Goto, Reconciliation
  <2> QED
    BY <2>2, <2>3, <2>4
<1> USE DEF TypeOK
<1>2. ~Begin(c) /\ ~AddFinalizer(c)
  <2>1. Begin(c) => rec'[c].pc \in {"list", "addFinalizer"}
    BY DEF Begin, Idle
  <2>2. AddFinalizer(c) => rec'[c].pc = "list"
    BY DEF AddFinalizer, Reconciliation
  <2> QED
    BY <2>1, <2>2
<1>3. ~AddFinalizerFails(c) /\ ~EarlyReturn(c) /\ ~OuterPatch(c) /\ ~OuterPatchFails(c)
  BY <1>1 DEF AddFinalizerFails, EarlyReturn, OuterPatch, OuterPatchFails
<1>4. ~PickRancher(c) /\ ~NoRancher(c)
  <2>1. PickRancher(c) => rec'[c].pc \in {"annotate", "deleteAll", "normal"}
    BY DEF PickRancher, Reconciliation
  <2> QED
    BY <1>1, <2>1 DEF NoRancher
<1>5. ~Annotate(c) /\ ~Register(c)
  <2>1. Annotate(c) => rec'[c].pc \in {"rancherFinalizer", "outer"}
    <3>1. ASSUME NEW h PROVE [rec EXCEPT ![c] = [@ EXCEPT !.pc = "rancherFinalizer",
                                !.hand = h]][c].pc = "rancherFinalizer"
      BY DEF Reconciliation
    <3> QED
      BY <1>1, <3>1 DEF Annotate
  <2>2. Register(c) => rec'[c].pc \in {"patchRancher", "outer"}
    <3>1. ASSUME NEW h, NEW b PROVE [rec EXCEPT ![c] = [@ EXCEPT !.pc = "patchRancher",
                                !.hand = h, !.again = b]][c].pc = "patchRancher"
      BY DEF Reconciliation
    <3>2. SUFFICES ASSUME Register(c) PROVE rec'[c].pc \in {"patchRancher", "outer"}
      OBVIOUS
    <3>3. CASE ToOuter(c, FleetSettled(rec[c].hand), TRUE)
      BY <1>1, <3>3
    <3>4. ASSUME NEW requeue \in BOOLEAN,
                 rec' = [rec EXCEPT ![c] = [@ EXCEPT !.pc = "patchRancher",
                                                     !.hand = FleetSettled(rec[c].hand),
                                                     !.again = requeue]]
          PROVE  rec'[c].pc = "patchRancher"
      BY ONLY <3>1, <3>4
    <3> QED
      BY <3>2, <3>3, <3>4 DEF Register
  <2> QED
    BY <2>1, <2>2
<1>6. /\ ~AnnotateFails(c) /\ ~ReleaseRancher(c) /\ ~ReleaseRancherFails(c)
      /\ ~DeleteRanchers(c) /\ ~DeleteRanchersFails(c)
      /\ ~ReleaseCapi(c) /\ ~ReleaseCapiFails(c)
      /\ ~PatchRancher(c) /\ ~PatchRancherFails(c)
      /\ ~ConfirmFails(c) /\ ~CreateRancher(c) /\ ~CreateRancherFails(c)
  BY <1>1 DEF AnnotateFails, ReleaseRancher, ReleaseRancherFails, DeleteRanchers,
     DeleteRanchersFails, ReleaseCapi, ReleaseCapiFails, PatchRancher, PatchRancherFails,
     ConfirmFails, CreateRancher, CreateRancherFails
<1>7. Confirm(c)
  BY <1>2, <1>3, <1>4, <1>5, <1>6 DEF ReconcileStep
<1> DEFINE read == Decoded(rec[c].hand, capi[c])
<1>8. ShouldAutoImport(read, nsCache)
  BY <1>1, <1>7 DEF Confirm
<1>9. capi[c].imported => read.imported
  BY RecParts, DecodedCapi
<1> QED
  BY <1>7, <1>8, <1>9 DEF Confirm, ShouldAutoImport, server

LEMMA UnannotatedStep ==
    ASSUME TRUE \notin NsLabels, TypeOK, Next, Unannotated
    PROVE  Unannotated'
<1>1. ~nsLabel' /\ ~nsCache'
  <2> USE DEF Unannotated, server, cache
  <2>1. ASSUME NEW c \in CapiClusters,
               Begin(c) \/ BeginMissing(c) \/ ReconcileStep(c) \/ SyncCapi(c) \/ Resync(c)
        PROVE  nsLabel' = nsLabel /\ nsCache' = nsCache
    BY <2>1 DEF Begin, BeginMissing, SyncCapi, Resync, ReconcileStep, AddFinalizer,
       AddFinalizerFails, EarlyReturn, PickRancher, NoRancher, Annotate, AnnotateFails,
       ReleaseRancher, ReleaseRancherFails, DeleteRanchers, DeleteRanchersFails, ReleaseCapi,
       ReleaseCapiFails, Register, PatchRancher, PatchRancherFails, Confirm, ConfirmFails,
       CreateRancher, CreateRancherFails, OuterPatch, OuterPatchFails
  <2>2. ASSUME \/ SyncNamespace \/ Restart
               \/ \E r \in Rids : CleanupReconcile(r) \/ SyncRancher(r)
        PROVE  nsLabel' = nsLabel /\ (nsCache' = nsCache \/ nsCache' = nsLabel)
    BY <2>2 DEF SyncNamespace, Restart, CleanupReconcile, SyncRancher
  <2>3. ASSUME NEW b \in NsLabels, SetNamespaceLabel(b) PROVE ~nsLabel' /\ nsCache' = nsCache
    BY <2>3, ConstantsAssumption DEF SetNamespaceLabel
  <2>4. ASSUME \/ \E c \in CapiClusters :
                     \/ \E l \in Labels : CreateCapi(c, l) \/ SetLabel(c, l)
                     \/ \E b \in BOOLEAN : ControlPlane(c, b)
                     \/ DeleteCapi(c) \/ FleetAdopts(c)
                     \/ \E f \in {"capi", "fleet"} : ReleaseByOthers(c, f)
               \/ \E r \in Rids : RancherAdopts(r) \/ RancherReleases(r) \/ UserDeletesRancher(r)
        PROVE  nsLabel' = nsLabel /\ nsCache' = nsCache
    BY <2>4 DEF CreateCapi, SetLabel, ControlPlane, DeleteCapi, FleetAdopts, ReleaseByOthers,
       RancherAdopts, RancherReleases, UserDeletesRancher
  <2> HIDE DEF server, cache
  <2> QED
    BY <2>1, <2>2, <2>3, <2>4 DEF Next, Turtles, Environment
<1>2. ASSUME NEW c \in CapiClusters, rec'[c].pc = "create"
      PROVE  ~capi'[c].imported
  <2>1. CASE Begin(c) \/ ReconcileStep(c)
    BY <1>2, <2>1, ToCreate DEF Unannotated
  <2>2. CASE ~Begin(c) /\ ~ReconcileStep(c)
    <3>1. ~Restart
      BY <1>2 DEF Restart, Idle
    <3>2. rec[c].pc = "create"
      BY <1>2, <2>2, <3>1, OwnSteps
    <3>3. capi'[c].imported => capi[c].imported
      BY <2>2, OwnWrites, OthersDoNotAnnotate
    <3> QED
      BY <3>2, <3>3 DEF Unannotated
  <2> QED
    BY <2>1, <2>2
<1> QED
  BY <1>1, <1>2 DEF Unannotated

\* A Rancher cluster is made for its CAPI cluster, at the step of the creation.
LEMMA Creation ==
    ASSUME TypeOK, Next, NEW r \in Rids, Created(r)
    PROVE  ranch'[r].owner \in CapiClusters /\ rec[ranch'[r].owner].pc = "create"
<1> DEFINE Made == ranch'[r].exists => ranch[r].exists
<1> USE DEF server, cache, TypeOK
<1>1. ASSUME NEW d \in CapiClusters, CreateRancher(d)
      PROVE  ranch'[r].owner = d /\ rec[d].pc = "create"
  <2>1. PICK q \in Rids : /\ ~ranch[q].exists
                          /\ ranch' = [ranch EXCEPT ![q] =
                                [NoRanch EXCEPT !.exists = TRUE, !.rv = 1, !.fins = {"turtles"},
                                   !.owner = d, !.madeFor = rec[d].hand.uid]]
    BY <1>1 DEF CreateRancher, FreshRids
  <2>2. ranch'[q].owner = d /\ \A p \in Rids \ {q} : ranch'[p] = ranch[p]
    BY <2>1 DEF NoRanch
  <2> QED
    BY <1>1, <2>2 DEF Created, CreateRancher
<1>2. ASSUME NEW d \in CapiClusters, ReleaseRancher(d) \/ PatchRancher(d) PROVE Made
  BY <1>2 DEF ReleaseRancher, PatchRancher, Accepts
<1>3. ASSUME NEW d \in CapiClusters, DeleteRanchers(d) PROVE Made
  BY <1>3 DEF DeleteRanchers, Owned
<1>4. ASSUME NEW q \in Rids,
             CleanupReconcile(q) \/ RancherAdopts(q) \/ RancherReleases(q) \/ UserDeletesRancher(q)
      PROVE  Made
  BY <1>4 DEF CleanupReconcile, RancherAdopts, RancherReleases, UserDeletesRancher, Accepts
<1>5. ASSUME NEW d \in CapiClusters,
             \/ Begin(d) \/ BeginMissing(d) \/ SyncCapi(d) \/ Resync(d)
             \/ AddFinalizer(d) \/ AddFinalizerFails(d) \/ EarlyReturn(d)
             \/ PickRancher(d) \/ NoRancher(d) \/ Annotate(d) \/ AnnotateFails(d)
             \/ ReleaseRancherFails(d) \/ DeleteRanchersFails(d) \/ ReleaseCapi(d)
             \/ ReleaseCapiFails(d) \/ Register(d) \/ PatchRancherFails(d)
             \/ Confirm(d) \/ ConfirmFails(d) \/ CreateRancherFails(d)
             \/ OuterPatch(d) \/ OuterPatchFails(d)
             \/ DeleteCapi(d) \/ FleetAdopts(d)
             \/ \E l \in Labels : CreateCapi(d, l) \/ SetLabel(d, l)
             \/ \E b \in BOOLEAN : ControlPlane(d, b)
             \/ \E f \in {"capi", "fleet"} : ReleaseByOthers(d, f)
      PROVE  ranch' = ranch
  BY <1>5 DEF Begin, BeginMissing, SyncCapi, Resync, AddFinalizer, AddFinalizerFails,
     EarlyReturn, PickRancher, NoRancher, Annotate, AnnotateFails, ReleaseRancherFails,
     DeleteRanchersFails, ReleaseCapi, ReleaseCapiFails, Register, PatchRancherFails,
     Confirm, ConfirmFails, CreateRancherFails, OuterPatch, OuterPatchFails,
     DeleteCapi, FleetAdopts, CreateCapi, SetLabel, ControlPlane, ReleaseByOthers
<1>6. ASSUME \/ SyncNamespace \/ Restart
             \/ \E q \in Rids : SyncRancher(q)
             \/ \E b \in NsLabels : SetNamespaceLabel(b)
      PROVE  ranch' = ranch
  BY <1>6 DEF SyncNamespace, Restart, SyncRancher, SetNamespaceLabel
<1>7. ~Made /\ ranch' # ranch
  BY DEF Created
<1> HIDE DEF Made, server, cache, TypeOK
<1> QED
  BY <1>1, <1>2, <1>3, <1>4, <1>5, <1>6, <1>7 DEF Next, Turtles, Environment, ReconcileStep

\* Where no namespace asks for import, no Rancher cluster is created for a cluster
\* that carries the annotation, however old the cached cluster the reconciliation
\* started from (import_controller.go:208-222).  With the label of a namespace the
\* code does not look at the annotation (util.ShouldAutoImport).
THEOREM AnnotationIsHeeded ==
    TRUE \notin NsLabels => (Spec => NoCreateOverAnnotation)
<1> SUFFICES ASSUME TRUE \notin NsLabels PROVE Spec => NoCreateOverAnnotation
  OBVIOUS
<1> DEFINE A == \A r \in Rids : Created(r) => ~capi[ranch'[r].owner].imported
<1>1. Init => Unannotated
  <2> SUFFICES ASSUME Init PROVE Unannotated
    OBVIOUS
  <2>1. nsLabel \in BOOLEAN /\ nsLabel # TRUE /\ nsCache = nsLabel
    BY ConstantsAssumption DEF Init
  <2>2. \A c \in CapiClusters : rec[c].pc = "idle"
    BY DEF Init, Idle
  <2> QED
    BY <2>1, <2>2 DEF Unannotated
<1>2. TypeOK /\ Unannotated /\ [Next]_vars => Unannotated' /\ [A]_vars
  <2>1. ASSUME TypeOK, Unannotated, Next PROVE Unannotated' /\ A
    BY <2>1, UnannotatedStep, Creation DEF Unannotated
  <2>2. ASSUME Unannotated, UNCHANGED vars PROVE Unannotated'
    BY <2>2 DEF vars, server, cache, Unannotated
  <2> QED
    BY <2>1, <2>2
<1> QED
  BY <1>1, <1>2, TypeCorrect, PTL DEF Spec, NoCreateOverAnnotation

-----------------------------------------------------------------------------
(* No cluster is forgotten. *)

\* The copy o asks for import with a Rancher cluster there, and is held.
Taken(o, live) == ~o.deleting /\ "turtles" \in o.fins /\ live

FreeOfFleet(o) == UseCAAPF \/ "fleet" \notin o.fins

\* The reconciliation r does what the cached cluster o asks for, or brings the request
\* back; live says whether a live Rancher cluster of o is cached.
Pursues(o, r, live) ==
    /\ r.pc = "idle" => IF o.deleting THEN "turtles" \notin o.fins
                        ELSE Taken(o, live) /\ FreeOfFleet(o)
    /\ r.pc = "addFinalizer" => ~o.deleting /\ "turtles" \notin o.fins
    /\ r.pc \in {"list", "normal"} => r.base = o /\ r.hand = o
    /\ r.pc = "list" => o.deleting \/ "turtles" \in o.fins
    /\ r.pc \in {"annotate", "deleteAll", "capiFinalizer", "confirm"} => r.hand = o
    /\ r.pc \in {"deleteAll", "capiFinalizer"} => o.deleting
    /\ r.pc = "capiFinalizer" => "turtles" \in o.fins
    /\ r.pc # "rancherFinalizer"
    /\ r.pc = "normal" => Taken(o, live)
    /\ r.pc = "patchRancher" => r.base = o /\ Taken(o, live) /\ FreeOfFleet(r.hand)
    /\ r.pc = "outer" =>
          \/ r.again
          \/ IF o.deleting THEN "turtles" \notin o.fins
             ELSE r.base = o /\ Taken(o, live) /\ FreeOfFleet(r.hand)

\* There is no request for c though the cached cluster passes the predicates.
Calm(c) == c \notin queue /\ capiCache[c].exists /\ Passes(capiCache[c], nsCache)

HasLive(c) == LiveOf(ranchCache, c) # {}

Pursued(c) ==
    Calm(c) /\ capi[c] = capiCache[c] => Pursues(capiCache[c], rec[c], HasLive(c))

\* Only the informers and a restart change the cache, and a request is only taken.
LEMMA CacheSame ==
    ASSUME Next, NEW c \in CapiClusters
    PROVE  \/ UNCHANGED cache /\ (c \in queue => c \in queue' \/ Begin(c))
           \/ \E d \in CapiClusters : SyncCapi(d)
           \/ \E r \in Rids : SyncRancher(r)
           \/ SyncNamespace
           \/ Restart
<1> USE DEF server, cache
<1>1. ASSUME NEW d \in CapiClusters, Begin(d) \/ BeginMissing(d) \/ Resync(d)
      PROVE  UNCHANGED cache /\ (c \in queue => c \in queue' \/ Begin(c))
  BY <1>1 DEF Begin, BeginMissing, Resync
<1>2. ASSUME NEW d \in CapiClusters, ReconcileStep(d)
      PROVE  UNCHANGED cache /\ (c \in queue => c \in queue')
  BY <1>2 DEF ReconcileStep, AddFinalizer, AddFinalizerFails, EarlyReturn, PickRancher,
     NoRancher, Annotate, AnnotateFails, ReleaseRancher, ReleaseRancherFails, DeleteRanchers,
     DeleteRanchersFails, ReleaseCapi, ReleaseCapiFails, Register, PatchRancher,
     PatchRancherFails, Confirm, ConfirmFails, CreateRancher, CreateRancherFails, OuterPatch,
     OuterPatchFails, Finish
<1>3. (\E r \in Rids : CleanupReconcile(r)) => UNCHANGED <<cache, queue>>
  BY DEF CleanupReconcile
<1>4. Environment => UNCHANGED <<cache, queue>>
  BY DEF Environment, CreateCapi, SetLabel, ControlPlane, DeleteCapi, FleetAdopts,
     ReleaseByOthers, SetNamespaceLabel, RancherAdopts, RancherReleases, UserDeletesRancher
<1> HIDE DEF server, cache
<1> QED
  BY <1>1, <1>2, <1>3, <1>4 DEF Next, Turtles

\* Each event about a cluster that passes the predicates queues it: where there is no
\* request after a step, the step changed nothing that the reconciliation goes by.
LEMMA CalmStays ==
    ASSUME TypeOK, TypeOK', CopiesCoherent, Next, NEW c \in CapiClusters,
           Calm(c)', capi'[c] = capiCache'[c]
    PROVE  /\ capi'[c] = capi[c] /\ capiCache'[c] = capi[c] /\ capiCache[c] = capi[c]
           /\ nsCache' = nsCache /\ HasLive(c)' = HasLive(c)
           /\ ~Restart
           /\ c \in queue => Begin(c)
<1> USE DEF server, cache
<1>1. ASSUME NEW d \in CapiClusters, SyncCapi(d)
      PROVE  /\ capiCache'[c] = capiCache[c] /\ nsCache' = nsCache /\ ranchCache' = ranchCache
             /\ c \notin queue
  BY <1>1 DEF SyncCapi, Calm, TypeOK
<1>2. ~SyncNamespace
  BY DEF SyncNamespace, Mapped, Calm
<1>3. ~Restart
  BY DEF Restart, Calm
<1>4. ASSUME NEW r \in Rids, SyncRancher(r)
      PROVE  /\ capiCache'[c] = capiCache[c] /\ nsCache' = nsCache /\ c \notin queue
             /\ LiveOf(ranchCache', c) = LiveOf(ranchCache, c)
  <2>1. /\ capiCache' = capiCache /\ nsCache' = nsCache /\ c \notin queue
        /\ ranchCache' = [ranchCache EXCEPT ![r] = ranch[r]]
        /\ c \notin Mapped({ranchCache[r].owner, ranch[r].owner} \ {None}, nsCache)
    BY <1>4 DEF SyncRancher, Calm
  <2>2. c # None
    BY ConstantsAssumption
  <2>3. ranchCache[r].owner # c /\ ranch[r].owner # c
    BY <2>1, <2>2 DEF Mapped, Calm
  <2> QED
    BY <2>1, <2>3 DEF LiveOf, TypeOK
<1>5. /\ capiCache'[c] = capiCache[c] /\ nsCache' = nsCache
      /\ LiveOf(ranchCache', c) = LiveOf(ranchCache, c) /\ (c \in queue => Begin(c))
  BY <1>1, <1>2, <1>3, <1>4, CacheSame DEF Calm
<1>6. HasLive(c)' = HasLive(c)
  BY <1>5 DEF HasLive
<1>7. capi'[c] = capi[c]
  <2>1. Moved(capi[c], capi'[c])
    BY StepMoves DEF CapiMove
  <2>2. capiCache[c].rv <= capi[c].rv /\ capi[c].rv \in Nat
    BY DEF CopiesCoherent, CapiCopies, Coherent, TypeOK, CapiObject
  <2> QED
    BY <1>5, <2>1, <2>2 DEF Moved
<1> QED
  BY <1>3, <1>5, <1>6, <1>7

\* Where a reconciliation is after it goes on.
LEMMA OuterGoesOn ==
    ASSUME TypeOK, NEW c \in CapiClusters, NEW hand, NEW again, ToOuter(c, hand, again)
    PROVE  /\ rec'[c].pc = "outer" /\ rec'[c].again = again
           /\ rec'[c].base = rec[c].base /\ rec'[c].hand = hand
<1>1. rec \in [CapiClusters -> Reconciliation]
  BY DEF TypeOK
<1> QED
  BY <1>1 DEF ToOuter, Idle

LEMMA GoesOn ==
    ASSUME TypeOK, NEW c \in CapiClusters
    PROVE  /\ \A hand, again : ToOuter(c, hand, again) =>
                 /\ rec'[c].pc = "outer" /\ rec'[c].again = again
                 /\ rec'[c].base = rec[c].base /\ rec'[c].hand = hand
           /\ \A again : Finish(c, again) =>
                 rec'[c].pc = "idle" /\ (again = TRUE => c \in queue')
           /\ \A pc : Goto(c, pc) =>
                 /\ rec'[c].pc = pc
                 /\ rec'[c].base = rec[c].base /\ rec'[c].hand = rec[c].hand
<1>1. rec \in [CapiClusters -> Reconciliation]
  BY DEF TypeOK
<1>2. ASSUME NEW hand, NEW again, ToOuter(c, hand, again)
      PROVE  /\ rec'[c].pc = "outer" /\ rec'[c].again = again
             /\ rec'[c].base = rec[c].base /\ rec'[c].hand = hand
  BY <1>2, OuterGoesOn
<1>3. ASSUME NEW again, Finish(c, again)
      PROVE  rec'[c].pc = "idle" /\ (again = TRUE => c \in queue')
  BY <1>1, <1>3 DEF Finish, Idle
<1>4. ASSUME NEW pc, Goto(c, pc)
      PROVE  /\ rec'[c].pc = pc
             /\ rec'[c].base = rec[c].base /\ rec'[c].hand = rec[c].hand
  BY <1>1, <1>4 DEF Goto, Reconciliation
<1> QED
  BY <1>2, <1>3, <1>4

\* A write that gives up a finalizer or adds the annotation is seen.
LEMMA SeenWrites ==
    ASSUME NEW o \in CapiObject
    PROVE  /\ "turtles" \notin o.fins => Stored(o, Finalized(o)) # o
           /\ "turtles" \in o.fins => Stored(o, Released(o)) # o
           /\ ~o.imported => Stored(o, Merge(o, o, Dismissed(o))) # o
           /\ \A h \in CapiObject :
                 FreeOfFleet(h) /\ Stored(o, Merge(o, o, h)) = o => FreeOfFleet(o)
<1>1. /\ Finalized(o) \in CapiObject /\ Released(o) \in CapiObject
      /\ Dismissed(o) \in CapiObject
  BY MarkedCapi
<1>2. ASSUME NEW h \in CapiObject
      PROVE  /\ Merge(o, o, h) \in CapiObject
             /\ Merge(o, o, h).fins = h.fins /\ Merge(o, o, h).imported = h.imported
  <2>1. {"fins", "imported"} \subseteq DOMAIN o
    BY DEF CapiObject
  <2> QED
    BY <2>1, MergeCapi DEF Merge
<1>3. /\ "turtles" \in Finalized(o).fins /\ "turtles" \notin Released(o).fins
      /\ Dismissed(o).imported
  BY DEF Finalized, Released, Dismissed, WithFin, WithoutFin, CapiObject
<1> QED
  BY <1>1, <1>2, <1>3, StoredFields DEF FreeOfFleet

\* One step of the reconciliation of a cluster for which nothing else happens: o is the
\* cluster as it is stored and cached.
LEMMA PursuesOn ==
    ASSUME TypeOK, NEW c \in CapiClusters, NEW o \in CapiObject, NEW live,
           o.exists, Passes(o, nsCache), o = capi[c], o = capiCache[c], o = capi'[c],
           live = HasLive(c), c \notin queue', Pursues(o, rec[c], live), ReconcileStep(c)
    PROVE  Pursues(o, rec'[c], live)
<1> DEFINE r == rec[c]
           Then == Pursues(o, rec'[c], live)
<1>1. /\ o.cpReady /\ ~o.imported /\ ShouldAutoImport(o, nsCache)
      /\ r \in Reconciliation /\ rec \in [CapiClusters -> Reconciliation]
  BY DEF Passes, TypeOK
<1>2. ASSUME \E hand \in CapiObject : ToOuter(c, hand, TRUE) PROVE Then
  <2>1. PICK hand \in CapiObject : ToOuter(c, hand, TRUE)
    BY <1>2
  <2>2. rec'[c].pc = "outer" /\ rec'[c].again = TRUE
    BY <2>1, OuterGoesOn
  <2> QED
    BY <2>2 DEF Pursues
<1>3. ~Finish(c, TRUE)
  BY GoesOn
<1>4. CASE AddFinalizer(c)
  BY <1>4, SeenWrites DEF AddFinalizer, Pursues, TypeOK
<1>5. CASE EarlyReturn(c)
  BY <1>1, <1>5 DEF EarlyReturn, Pursues
<1>6. CASE PickRancher(c)
  <2>1. PICK q \in Owned(ranchCache, c) :
           rec' = [rec EXCEPT ![c] =
                   [@ EXCEPT !.rid = q, !.rc = ranchCache[q],
                      !.pc = IF ranchCache[q].deleting THEN "annotate"
                             ELSE IF rec[c].hand.deleting THEN "deleteAll"
                             ELSE "normal"]]
    BY <1>6 DEF PickRancher
  <2>2. r.pc = "list" /\ r.base = o /\ r.hand = o /\ (o.deleting \/ "turtles" \in o.fins)
    BY <1>6 DEF PickRancher, Pursues
  <2>3. /\ rec'[c].base = o /\ rec'[c].hand = o
        /\ rec'[c].pc = IF ranchCache[q].deleting THEN "annotate"
                        ELSE IF o.deleting THEN "deleteAll" ELSE "normal"
    BY <1>1, <2>1, <2>2 DEF Reconciliation
  <2>4. ~ranchCache[q].deleting => live
    BY DEF HasLive, LiveOf, Owned
  <2> QED
    BY <2>2, <2>3, <2>4 DEF Pursues, Taken
<1>7. CASE NoRancher(c)
  <2>1. r.pc = "list" /\ r.hand = o
    BY <1>7 DEF NoRancher, Pursues
  <2>2. Goto(c, IF o.deleting THEN "deleteAll" ELSE "confirm")
    BY <1>7, <2>1 DEF NoRancher
  <2>3. /\ rec'[c].pc = IF o.deleting THEN "deleteAll" ELSE "confirm"
        /\ rec'[c].hand = o
    BY ONLY <2>1, <2>2, GoesOn, TypeOK, c \in CapiClusters
  <2> QED
    BY <2>3 DEF Pursues
<1>8. CASE Annotate(c)
  BY <1>1, <1>8, SeenWrites DEF Annotate, Pursues, TypeOK
<1>9. CASE DeleteRanchers(c)
  <2>1. r.pc = "deleteAll" /\ r.hand = o /\ o.deleting
    BY <1>9 DEF DeleteRanchers, Pursues
  <2>2. CASE "turtles" \in o.fins
    <3>1. Goto(c, "capiFinalizer")
      BY <1>9, <2>1, <2>2 DEF DeleteRanchers
    <3>2. rec'[c].pc = "capiFinalizer" /\ rec'[c].hand = o
      BY ONLY <2>1, <3>1, GoesOn, TypeOK, c \in CapiClusters
    <3> QED
      BY <2>1, <2>2, <3>2 DEF Pursues
  <2>3. CASE "turtles" \notin o.fins
    BY <1>9, <2>1, <2>3, GoesOn DEF DeleteRanchers, Pursues
  <2> QED
    BY <2>2, <2>3
<1>10. CASE ReleaseCapi(c)
  BY <1>10, SeenWrites DEF ReleaseCapi, Pursues, TypeOK
<1>11. CASE Register(c)
  <2>1. r.base = o /\ r.hand = o /\ Taken(o, live)
    BY <1>11 DEF Register, Pursues
  <2>2. FreeOfFleet(FleetSettled(o))
    BY DEF FreeOfFleet, FleetSettled, WithoutFin, CapiObject
  <2>3. ASSUME NEW b \in BOOLEAN,
               rec' = [rec EXCEPT ![c] = [@ EXCEPT !.pc = "patchRancher",
                                                   !.hand = FleetSettled(rec[c].hand),
                                                   !.again = b]]
        PROVE  Then
    <3>1. rec'[c].pc = "patchRancher" /\ rec'[c].base = o /\ rec'[c].hand = FleetSettled(o)
      BY <1>1, <2>1, <2>3 DEF Reconciliation
    <3> QED
      BY <2>1, <2>2, <3>1 DEF Pursues
  <2>4. FleetSettled(r.hand) \in CapiObject
    BY RecParts, MarkedCapi
  <2> QED
    BY <1>2, <1>11, <2>3, <2>4 DEF Register
<1>12. CASE PatchRancher(c)
  <2>1. r.base = o /\ Taken(o, live) /\ FreeOfFleet(r.hand) /\ ToOuter(c, r.hand, r.again)
    BY <1>12 DEF PatchRancher, Pursues
  <2>2. rec'[c].pc = "outer" /\ rec'[c].base = o /\ rec'[c].hand = r.hand
    BY <2>1, OuterGoesOn
  <2> QED
    BY <2>1, <2>2 DEF Pursues, Taken
<1>13. CASE Confirm(c)
  <2> DEFINE read == Decoded(rec[c].hand, capi[c])
  <2>1. read.label = o.label /\ read.imported = o.imported
    BY <1>13 DEF Confirm, Pursues, Decoded, CapiObject
  <2>2. rec' = [rec EXCEPT ![c] = [@ EXCEPT !.pc = "create", !.hand = read]]
    BY <1>1, <1>13, <2>1 DEF Confirm, ShouldAutoImport
  <2>3. rec'[c].pc = "create"
    BY <1>1, <2>2 DEF Reconciliation
  <2> QED
    BY <2>3 DEF Pursues
<1>14. CASE OuterPatch(c)
  <2>1. /\ r.pc = "outer" /\ Finish(c, r.again)
        /\ o = Stored(o, Merge(o, r.base, r.hand))
    BY <1>14 DEF OuterPatch, TypeOK
  <2>2. rec'[c].pc = "idle" /\ r.again # TRUE
    BY <2>1, GoesOn
  <2>3. IF o.deleting THEN "turtles" \notin o.fins
        ELSE r.base = o /\ Taken(o, live) /\ FreeOfFleet(r.hand)
    BY <2>1, <2>2, RecParts DEF Pursues
  <2>4. r.hand \in CapiObject
    BY RecParts
  <2>5. ~o.deleting => FreeOfFleet(o)
    BY <2>1, <2>3, <2>4, SeenWrites
  <2> QED
    BY <2>2, <2>3, <2>5 DEF Pursues
<1>15. CASE \/ AddFinalizerFails(c) \/ OuterPatchFails(c)
  BY <1>3, <1>15 DEF AddFinalizerFails, OuterPatchFails
<1>16. CASE \/ ReleaseRancher(c) \/ ReleaseRancherFails(c)
  BY <1>16 DEF ReleaseRancher, ReleaseRancherFails, Pursues
<1>17. CASE \/ AnnotateFails(c) \/ DeleteRanchersFails(c) \/ ReleaseCapiFails(c)
            \/ PatchRancherFails(c) \/ CreateRancher(c) \/ CreateRancherFails(c)
  <2>1. /\ r.hand \in CapiObject /\ Dismissed(r.hand) \in CapiObject
        /\ Released(r.hand) \in CapiObject
    BY RecParts, MarkedCapi
  <2> QED
    BY <1>2, <1>17, <2>1 DEF AnnotateFails, DeleteRanchersFails, ReleaseCapiFails,
       PatchRancherFails, CreateRancher, CreateRancherFails
<1>18. CASE ConfirmFails(c)
  <2>1. FleetSettled(r.hand) \in CapiObject
    BY RecParts, MarkedCapi
  <2> QED
    BY <1>2, <1>18, <2>1 DEF ConfirmFails
<1> HIDE DEF Then, r
<1> QED
  BY <1>4, <1>5, <1>6, <1>7, <1>8, <1>9, <1>10, <1>11, <1>12, <1>13, <1>14, <1>15, <1>16,
     <1>17, <1>18 DEF ReconcileStep, Then

LEMMA PursuedStep ==
    ASSUME TypeOK, TypeOK', CopiesCoherent, Next, NEW c \in CapiClusters, Pursued(c)
    PROVE  Pursued(c)'
<1> SUFFICES ASSUME Calm(c)', capi'[c] = capiCache'[c]
             PROVE  Pursues(capiCache'[c], rec'[c], HasLive(c)')
  BY DEF Pursued
<1>1. PICK o \in CapiObject : o = capi[c]
  BY RecParts
<1>2. PICK live \in BOOLEAN : live = HasLive(c)
  BY DEF HasLive
<1>3. /\ capi'[c] = o /\ capiCache'[c] = o /\ capiCache[c] = o /\ nsCache' = nsCache
      /\ HasLive(c)' = live /\ ~Restart /\ (c \in queue => Begin(c))
  BY <1>1, <1>2, CalmStays
<1>4. o.exists /\ Passes(o, nsCache) /\ c \notin queue'
  BY <1>3 DEF Calm
<1>5. CASE Begin(c)
  <2>1. ~o.imported
    BY <1>4 DEF Passes
  <2>2. rec'[c] = IF o.deleting \/ "turtles" \in o.fins
                  THEN [Idle EXCEPT !.pc = "list", !.base = o, !.hand = o]
                  ELSE [Idle EXCEPT !.pc = "addFinalizer"]
    BY <1>3, <1>5, <2>1 DEF Begin, TypeOK
  <2>3. CASE o.deleting \/ "turtles" \in o.fins
    <3>1. rec'[c].pc = "list" /\ rec'[c].base = o /\ rec'[c].hand = o
      BY <2>2, <2>3 DEF Idle
    <3> QED
      BY <1>3, <2>3, <3>1 DEF Pursues
  <2>4. CASE ~(o.deleting \/ "turtles" \in o.fins)
    <3>1. rec'[c].pc = "addFinalizer"
      BY <2>2, <2>4 DEF Idle
    <3> QED
      BY <1>3, <2>4, <3>1 DEF Pursues
  <2> QED
    BY <2>3, <2>4
<1>6. CASE ~Begin(c)
  <2>1. Pursues(o, rec[c], live)
    BY <1>1, <1>2, <1>3, <1>4, <1>6 DEF Pursued, Calm
  <2>2. CASE ReconcileStep(c)
    BY <1>1, <1>2, <1>3, <1>4, <2>1, <2>2, PursuesOn
  <2>3. CASE ~ReconcileStep(c)
    BY <1>3, <1>6, <2>1, <2>3, OwnSteps
  <2> QED
    BY <2>2, <2>3
<1> QED
  BY <1>5, <1>6

\* Whatever failed, conflicted or was late: when nothing is left to be done for a CAPI
\* cluster that asks for import, it is held and has a live Rancher cluster, and without
\* CAAPF not its finalizer; one that is being deleted is released
\* (import_controller.go:125-266).
THEOREM WhatAskedIsDone == Spec => []AskedIsDone
<1> DEFINE Inv == \A c \in CapiClusters : Pursued(c)
<1>1. Init => Inv
  BY DEF Init, Pursued, Calm
<1>2. TypeOK /\ TypeOK' /\ CopiesCoherent /\ Inv /\ [Next]_vars => Inv'
  <2>1. ASSUME UNCHANGED vars, Inv PROVE Inv'
    BY <2>1 DEF vars, server, cache, Pursued, Calm, HasLive, LiveOf
  <2> QED
    BY <2>1, PursuedStep
<1>3. TypeOK /\ Inv => AskedIsDone
  <2> SUFFICES ASSUME TypeOK, Inv, NEW c \in CapiClusters, Still(c), capi[c].exists,
                      Passes(capi[c], nsLabel)
               PROVE  IF capi[c].deleting THEN "turtles" \notin capi[c].fins
                      ELSE /\ "turtles" \in capi[c].fins /\ Live(c) # {}
                           /\ UseCAAPF \/ "fleet" \notin capi[c].fins
    BY DEF AskedIsDone
  <2>1. Calm(c) /\ capi[c] = capiCache[c] /\ rec[c].pc = "idle" /\ ranchCache = ranch
    BY DEF Still, Calm
  <2>2. Pursues(capi[c], rec[c], Live(c) # {})
    BY <2>1 DEF Pursued, HasLive, Live
  <2> QED
    BY <2>1, <2>2 DEF Pursues, Taken, FreeOfFleet
<1> QED
  BY <1>1, <1>2, <1>3, TypeCorrect, CopiesAreCoherent, PTL DEF Spec
=============================================================================
