-------------------------- MODULE ImportRefinement --------------------------
(***************************************************************************)
(* The import and cleanup controllers implement ImportContract, for any    *)
(* number of CAPI and Rancher clusters: caches, copies, resource versions, *)
(* retries, failures and restarts do not show.                             *)
(*                                                                         *)
(* The invariants say what a reconciliation knows and why it knows it.     *)
(* Each action is then shown to be a step of the contract: a write of a    *)
(* CAPI cluster that the server accepts was computed from the stored       *)
(* object (CopiesCoherent), so what the contract sees of it changes as the *)
(* reconciliation meant it to (StoredCluster, SeenAs); anything else is    *)
(* knowledge found in the caches (Learning) or forgotten.                  *)
(***************************************************************************)
EXTENDS ImportSafety

-----------------------------------------------------------------------------
(* What a reconciliation knows, and what the server holds. *)

\* The reconciliation has changed neither annotation nor finalizer in hand.
Untouched(r) ==
    /\ r.hand.imported = r.base.imported
    /\ "turtles" \in r.hand.fins <=> "turtles" \in r.base.fins

\* It is at the annotation only when a clone was deleted; until it writes, its
\* copy is the base of the outer patch; and what that patch then makes up for is
\* a dismissal or a release that failed.
Informed(c) ==
    LET r == rec[c]
    IN /\ r.pc \in {"annotate", "rancherFinalizer"} => r.rc.deleting
       /\ r.pc \in Unread => r.hand = r.base
       /\ r.hand.rv = r.base.rv =>
             \/ Untouched(r)
             \/ /\ r.pc = "outer" /\ "turtles" \notin r.hand.fins
                /\ \/ Unsaved(c)
                   \/ r.hand.imported = r.base.imported /\ LetGo(c)

InformedInv == \A c \in CapiClusters : Informed(c)

\* A cluster that is going is held by somebody; a live clone has an owner.
StoreInv ==
    /\ \A c \in CapiClusters : capi[c].exists /\ capi[c].deleting => capi[c].fins # {}
    /\ Live(None) = {}

\* What the reconciliation of c learns was true before.
Learns(c) ==
    /\ rec'[c].rc.deleting => LostClone(c)
    /\ Unsaved(c)' => LostClone(c)
    /\ rec'[c].pc = "create" => rec[c].pc = "create" \/ Confirm(c)

LEMMA OthersInformed ==
    ASSUME NEW c \in CapiClusters, Informed(c), rec'[c] = rec[c], Live(c)' \subseteq Live(c)
    PROVE  Informed(c)' /\ Learns(c)
<1>1. Unsaved(c)' <=> Unsaved(c)
  BY DEF Unsaved
<1>2. Learns(c)
  BY <1>1 DEF Learns, LostClone
<1> QED
  BY <1>1, <1>2 DEF Informed, LetGo, Untouched

\* The reconciliation starts afresh.
LEMMA FreshInformed ==
    ASSUME NEW c \in CapiClusters, rec'[c].hand = rec'[c].base, ~rec'[c].rc.deleting,
           rec'[c].pc \notin {"annotate", "rancherFinalizer", "create"}
    PROVE  Informed(c)' /\ Learns(c)
<1>1. ~Unsaved(c)'
  BY DEF Unsaved
<1> QED
  BY <1>1 DEF Informed, Untouched, Learns

LEMMA IdleInformed ==
    ASSUME TypeOK, NEW c \in CapiClusters, rec'[c] = Idle
    PROVE  Informed(c)' /\ Learns(c)
<1>1. rec'[c].hand = rec'[c].base /\ ~rec'[c].rc.deleting /\ rec'[c].pc = "idle"
  BY DEF Idle, NoRanch
<1> QED
  BY <1>1, FreshInformed

\* It goes on to the outer patch with its copy as it is.
LEMMA OuterInformed ==
    ASSUME TypeOK, NEW c \in CapiClusters, NEW hand, NEW again, ToOuter(c, hand, again),
           hand.rv = rec[c].base.rv =>
              /\ hand.imported = rec[c].base.imported
              /\ "turtles" \in hand.fins <=> "turtles" \in rec[c].base.fins
    PROVE  Informed(c)' /\ Learns(c)
<1>1. /\ rec'[c].pc = "outer" /\ rec'[c].base = rec[c].base /\ rec'[c].hand = hand
      /\ ~rec'[c].rc.deleting
  BY DEF ToOuter, Idle, NoRanch, TypeOK, Reconciliation
<1>2. ~Unsaved(c)'
  BY <1>1 DEF Unsaved
<1> QED
  BY <1>1, <1>2 DEF Informed, Unread, Untouched, Learns

\* What was just read or written is the base only if nothing has changed.
LEMMA Unmoved ==
    ASSUME TypeOK, CopiesCoherent, NEW c \in CapiClusters, Moved(capi[c], capi'[c]),
           capi'[c].rv = rec[c].base.rv
    PROVE  capi'[c] = rec[c].base /\ capi[c] = rec[c].base
<1>1. capi[c].rv \in Nat /\ rec[c].base.rv \in Nat
  BY RecParts DEF CapiObject
<1> QED
  BY <1>1 DEF CopiesCoherent, CapiCopies, Coherent, Moved

LEMMA InformedStep ==
    ASSUME TypeOK, TypeOK', CopiesCoherent, Next, ReleaseInv, InformedInv
    PROVE  InformedInv' /\ \A c \in CapiClusters : Learns(c)
<1> USE DEF server, cache
<1> SUFFICES ASSUME NEW c \in CapiClusters PROVE Informed(c)' /\ Learns(c)
  BY DEF InformedInv
<1>0. Informed(c) /\ Justified(c)
  BY DEF InformedInv, ReleaseInv
<1>1. CASE CreateRancher(c)
  BY <1>0, <1>1, OuterInformed DEF CreateRancher, Informed, Untouched
<1>2. CASE ~CreateRancher(c)
  <2>1. Live(c)' \subseteq Live(c)
    BY <1>2, NoneBorn
  <2>2. rec'[c] = rec[c] => Informed(c)' /\ Learns(c)
    BY <1>0, <2>1, OthersInformed
  <2>3. rec[c].hand \in CapiObject /\ rec[c].base \in CapiObject /\ capi[c] \in CapiObject
    BY RecParts
  <2>4. Moved(capi[c], capi'[c])
    BY StepMoves DEF CapiMove
  <2>5. ASSUME NEW again, ToOuter(c, rec[c].hand, again), rec[c].pc # "outer"
        PROVE  Informed(c)' /\ Learns(c)
    BY <1>0, <2>5, OuterInformed DEF Informed, Untouched
  <2>6. ASSUME NEW again, ToOuter(c, capi'[c], again)
        PROVE  Informed(c)' /\ Learns(c)
    BY <2>4, <2>6, Unmoved, OuterInformed
  <2>7. ASSUME NEW again, ToOuter(c, FleetSettled(rec[c].hand), again),
               rec[c].hand = rec[c].base
        PROVE  Informed(c)' /\ Learns(c)
    <3>1. /\ FleetSettled(rec[c].hand).imported = rec[c].base.imported
          /\ "turtles" \in FleetSettled(rec[c].hand).fins <=> "turtles" \in rec[c].base.fins
      BY <2>3, <2>7 DEF FleetSettled, WithoutFin, CapiObject
    <3> QED
      BY <2>7, <3>1, OuterInformed
  <2>8. CASE Begin(c)
    <3>1. /\ rec'[c].pc \in {"list", "addFinalizer"} /\ rec'[c].base = rec'[c].hand
          /\ ~rec'[c].rc.deleting
      BY <2>8 DEF Begin, Idle, NoRanch, TypeOK
    <3> QED
      BY <3>1, FreshInformed
  <2>9. CASE AddFinalizer(c)
    <3>1. /\ rec'[c].pc = "list" /\ rec'[c].base = rec'[c].hand
          /\ rec'[c].rc = rec[c].rc
      BY <2>9 DEF AddFinalizer, TypeOK, Reconciliation
    <3>2. ~Unsaved(c)'
      BY <3>1 DEF Unsaved
    <3> QED
      BY <3>1, <3>2 DEF Informed, Untouched, Learns, LostClone
  <2>10. CASE AddFinalizerFails(c) \/ EarlyReturn(c) \/ OuterPatch(c) \/ OuterPatchFails(c)
    <3>1. rec'[c] = Idle
      BY <2>10 DEF AddFinalizerFails, EarlyReturn, OuterPatch, OuterPatchFails, Finish, TypeOK
    <3> QED
      BY <3>1, IdleInformed
  <2>11. CASE PickRancher(c)
    <3>1. PICK r \in Owned(ranchCache, c) :
             rec' = [rec EXCEPT ![c] =
                     [@ EXCEPT !.rid = r, !.rc = ranchCache[r],
                        !.pc = IF ranchCache[r].deleting THEN "annotate"
                               ELSE IF rec[c].hand.deleting THEN "deleteAll"
                               ELSE "normal"]]
      BY <2>11 DEF PickRancher
    <3>2. /\ rec'[c].base = rec[c].base /\ rec'[c].hand = rec[c].hand
          /\ rec'[c].rc = ranchCache[r]
          /\ rec'[c].pc \in {"annotate", "deleteAll", "normal"}
          /\ rec'[c].pc = "annotate" => ranchCache[r].deleting
      BY <3>1 DEF TypeOK, Reconciliation
    <3>3. rec[c].hand = rec[c].base
      BY <1>0, <2>11 DEF PickRancher, Informed, Unread
    <3>4. ~Unsaved(c)'
      BY <3>2, <3>3 DEF Unsaved
    <3> QED
      BY <3>2, <3>3, <3>4 DEF Informed, Untouched, Learns, LostClone, Owned
  <2>12. CASE NoRancher(c)
    <3>1. /\ rec'[c].base = rec[c].base /\ rec'[c].hand = rec[c].hand
          /\ rec'[c].rc = rec[c].rc /\ rec'[c].pc \in {"deleteAll", "confirm"}
      BY <2>12 DEF NoRancher, Goto, TypeOK, Reconciliation
    <3>2. rec[c].hand = rec[c].base
      BY <1>0, <2>12 DEF NoRancher, Informed, Unread
    <3>3. ~Unsaved(c)'
      BY <3>1, <3>2 DEF Unsaved
    <3> QED
      BY <3>1, <3>2, <3>3 DEF Informed, Untouched, Learns, LostClone
  <2>13. CASE Annotate(c)
    <3>1. CASE ToOuter(c, capi'[c], FALSE)
      BY <2>6, <3>1
    <3>2. CASE rec' = [rec EXCEPT ![c] = [@ EXCEPT !.pc = "rancherFinalizer",
                                                   !.hand = capi'[c]]]
      <4>1. /\ rec'[c].pc = "rancherFinalizer" /\ rec'[c].hand = capi'[c]
            /\ rec'[c].base = rec[c].base /\ rec'[c].rc = rec[c].rc
        BY <3>2 DEF TypeOK, Reconciliation
      <4>2. rec[c].rc.deleting
        BY <1>0, <2>13 DEF Annotate, Informed
      <4>3. rec'[c].hand.rv = rec'[c].base.rv => rec'[c].hand = rec'[c].base
        BY <2>4, <4>1, Unmoved
      <4>4. ~Unsaved(c)'
        BY <4>1 DEF Unsaved
      <4> QED
        BY <4>1, <4>2, <4>3, <4>4 DEF Informed, Unread, Untouched, Learns, LostClone
    <3> QED
      BY <2>13, <3>1, <3>2 DEF Annotate
  <2>14. CASE AnnotateFails(c)
    <3>1. /\ rec[c].pc = "annotate" /\ rec[c].rc.deleting /\ rec[c].hand = rec[c].base
          /\ ~rec[c].base.imported
      BY <1>0, <2>14 DEF AnnotateFails, Informed, Unread, Justified
    <3>2. /\ Dismissed(rec[c].hand).imported /\ Dismissed(rec[c].hand).rv = rec[c].base.rv
          /\ "turtles" \notin Dismissed(rec[c].hand).fins
      BY <2>3, <3>1 DEF Dismissed, Released, WithoutFin, CapiObject
    <3>3. /\ rec'[c].pc = "outer" /\ rec'[c].base = rec[c].base
          /\ rec'[c].hand = Dismissed(rec[c].hand) /\ ~rec'[c].rc.deleting
      BY <2>14 DEF AnnotateFails, ToOuter, Idle, NoRanch, TypeOK, Reconciliation
    <3>4. Unsaved(c)'
      BY <3>1, <3>2, <3>3 DEF Unsaved
    <3> QED
      BY <3>1, <3>2, <3>3, <3>4 DEF Informed, Unread, Learns, LostClone
  <2>15. CASE ReleaseRancher(c) \/ ReleaseRancherFails(c)
    BY <2>5, <2>15 DEF ReleaseRancher, ReleaseRancherFails
  <2>16. CASE DeleteRanchers(c)
    <3>1. rec[c].pc = "deleteAll" /\ rec[c].hand = rec[c].base
      BY <1>0, <2>16 DEF DeleteRanchers, Informed, Unread
    <3>2. CASE Goto(c, "capiFinalizer")
      <4>1. /\ rec'[c].pc = "capiFinalizer" /\ rec'[c].base = rec[c].base
            /\ rec'[c].hand = rec[c].hand /\ rec'[c].rc = rec[c].rc
        BY <3>2 DEF Goto, TypeOK, Reconciliation
      <4>2. ~Unsaved(c)'
        BY <4>1 DEF Unsaved
      <4> QED
        BY <3>1, <4>1, <4>2 DEF Informed, Untouched, Learns, LostClone
    <3> QED
      BY <2>5, <2>16, <3>1, <3>2 DEF DeleteRanchers
  <2>17. CASE DeleteRanchersFails(c)
    BY <2>5, <2>17 DEF DeleteRanchersFails
  <2>18. CASE ReleaseCapi(c)
    BY <2>6, <2>18 DEF ReleaseCapi
  <2>19. CASE ReleaseCapiFails(c)
    <3>1. rec[c].hand = rec[c].base /\ LetGo(c)
      BY <1>0, <2>19 DEF ReleaseCapiFails, Informed, Unread, Justified
    <3>2. /\ Released(rec[c].hand).imported = rec[c].base.imported
          /\ Released(rec[c].hand).deleting = rec[c].hand.deleting
          /\ "turtles" \notin Released(rec[c].hand).fins
      BY <2>3, <3>1 DEF Released, WithoutFin, CapiObject
    <3>3. /\ rec'[c].pc = "outer" /\ rec'[c].base = rec[c].base
          /\ rec'[c].hand = Released(rec[c].hand) /\ ~rec'[c].rc.deleting
      BY <2>19 DEF ReleaseCapiFails, ToOuter, Idle, NoRanch, TypeOK, Reconciliation
    <3>4. ~Unsaved(c)'
      BY <3>2, <3>3 DEF Unsaved
    <3>5. LetGo(c)'
      BY <2>1, <3>1, <3>2, <3>3 DEF LetGo
    <3> QED
      BY <3>2, <3>3, <3>4, <3>5 DEF Informed, Unread, Learns
  <2>20. CASE Register(c)
    <3>1. rec[c].pc = "normal" /\ rec[c].hand = rec[c].base
      BY <1>0, <2>20 DEF Register, Informed, Unread
    <3>2. CASE ToOuter(c, FleetSettled(rec[c].hand), TRUE)
      BY <2>7, <3>1, <3>2
    <3>3. CASE \E requeue \in BOOLEAN :
                  rec' = [rec EXCEPT ![c] = [@ EXCEPT !.pc = "patchRancher",
                                                      !.hand = FleetSettled(rec[c].hand),
                                                      !.again = requeue]]
      <4>1. /\ rec'[c].pc = "patchRancher" /\ rec'[c].base = rec[c].base
            /\ rec'[c].hand = FleetSettled(rec[c].hand) /\ rec'[c].rc = rec[c].rc
        BY <3>3 DEF TypeOK, Reconciliation
      <4>2. Untouched(rec'[c])
        BY <2>3, <3>1, <4>1 DEF Untouched, FleetSettled, WithoutFin, CapiObject
      <4>3. ~Unsaved(c)'
        BY <4>1 DEF Unsaved
      <4> QED
        BY <4>1, <4>2, <4>3 DEF Informed, Unread, Learns, LostClone
    <3> QED
      BY <2>20, <3>2, <3>3 DEF Register
  <2>21. CASE PatchRancher(c) \/ PatchRancherFails(c)
    BY <2>5, <2>21 DEF PatchRancher, PatchRancherFails
  <2>22. CASE Confirm(c)
    <3>1. capi'[c] = capi[c]
      BY <2>22 DEF Confirm
    <3> DEFINE read == Decoded(rec[c].hand, capi[c])
    <3>2. rec[c].hand = rec[c].base
      BY <1>0, <2>22 DEF Confirm, Informed, Unread
    <3>3. read.rv = rec[c].base.rv =>
             /\ read.imported = rec[c].base.imported
             /\ "turtles" \in read.fins <=> "turtles" \in rec[c].base.fins
      <4>1. read.rv = capi[c].rv
        BY <2>3, DecodedCapi
      <4>2. read.rv = rec[c].base.rv => capi[c] = rec[c].base
        BY <2>4, <3>1, <4>1, Unmoved
      <4> QED
        BY <2>3, <3>2, <4>2 DEF Decoded, CapiObject
    <3>4. \/ ToOuter(c, read, FALSE)
          \/ rec' = [rec EXCEPT ![c] = [@ EXCEPT !.pc = "create", !.hand = read]]
      BY <2>22 DEF Confirm
    <3> HIDE DEF read
    <3>5. CASE ToOuter(c, read, FALSE)
      BY <3>3, <3>5, OuterInformed
    <3>6. CASE rec' = [rec EXCEPT ![c] = [@ EXCEPT !.pc = "create", !.hand = read]]
      <4>1. /\ rec'[c].pc = "create" /\ rec'[c].base = rec[c].base
            /\ rec'[c].hand = read /\ rec'[c].rc = rec[c].rc
        BY <3>6 DEF TypeOK, Reconciliation
      <4>2. ~Unsaved(c)'
        BY <4>1 DEF Unsaved
      <4> QED
        BY <2>22, <3>3, <4>1, <4>2 DEF Informed, Untouched, Learns, LostClone, Unread
    <3> QED
      BY <3>4, <3>5, <3>6
  <2>23. CASE ConfirmFails(c)
    BY <1>0, <2>7, <2>23 DEF ConfirmFails, Informed, Unread
  <2>24. CASE CreateRancherFails(c)
    BY <2>5, <2>24 DEF CreateRancherFails
  <2>25. CASE Restart
    BY <2>25, IdleInformed DEF Restart
  <2>26. CASE ReconcileStep(c)
    BY <1>2, <2>9, <2>10, <2>11, <2>12, <2>13, <2>14, <2>15, <2>16, <2>17, <2>18, <2>19,
       <2>20, <2>21, <2>22, <2>23, <2>24, <2>26 DEF ReconcileStep
  <2> HIDE DEF server, cache
  <2> QED
    BY <2>2, <2>8, <2>25, <2>26, OwnSteps
<1> QED
  BY <1>1, <1>2

LEMMA StoreStep ==
    ASSUME TypeOK, TypeOK', CopiesCoherent, Next, ReleaseInv, StoreInv
    PROVE  StoreInv'
<1>1. ASSUME NEW c \in CapiClusters, capi'[c].exists, capi'[c].deleting
      PROVE  capi'[c].fins # {}
  <2>1. Writes(c)
    BY OthersWrite, ControllerWrites
  <2>2. CASE capi'[c] = capi[c]
    BY <1>1, <2>2 DEF StoreInv
  <2>3. ASSUME NEW n \in CapiObject, capi'[c] = Stored(capi[c], n), n # capi[c]
        PROVE  capi'[c].fins # {}
    <3> DEFINE m == [n EXCEPT !.rv = capi[c].rv + 1]
    <3>1. capi'[c] = Settle(m)
      BY <2>3 DEF Stored
    <3>2. m \in CapiObject
      BY RecParts DEF CapiObject
    <3> HIDE DEF m
    <3> QED
      BY <1>1, <3>1, <3>2 DEF Settle, CapiObject
  <2>4. ASSUME NEW n \in CapiObject, capi'[c] = Stored(capi[c], n), n = capi[c]
        PROVE  capi'[c].fins # {}
    BY <1>1, <2>2, <2>4 DEF Stored
  <2> QED
    BY <1>1, <2>1, <2>2, <2>3, <2>4 DEF Writes
<1>2. Live(None)' \subseteq Live(None)
  BY NoneBorn, ConstantsAssumption
<1> QED
  BY <1>1, <1>2 DEF StoreInv

-----------------------------------------------------------------------------
(* Knowledge is not invented. *)

\* Deletion marks come from the server.
LEMMA Deletions ==
    ASSUME TypeOK, CopiesCoherent, Next, TypeOK', NEW c \in CapiClusters
    PROVE  WasDeleted(c)' => WasDeleted(c) \/ capi'[c].deleting
<1>1. CapiMove(c)
  BY StepMoves
<1>2. \A n \in {Dismissed(rec[c].hand), Released(rec[c].hand), FleetSettled(rec[c].hand)} :
         n.deleting = rec[c].hand.deleting
  BY RecParts, OwnMarks DEF SameButOwn
<1>3. ~NoCapi.deleting
  BY DEF NoCapi
<1>4. Decoded(rec[c].hand, capi[c]).deleting = capi[c].deleting
  BY RecParts DEF Decoded, CapiObject
<1> QED
  BY <1>1, <1>2, <1>3, <1>4 DEF CapiMove, RecMove, WasDeleted

\* A write of a label that is there.
LEMMA StoredLabel ==
    ASSUME NEW o \in CapiObject, NEW n \in CapiObject
    PROVE  /\ Stored(o, n).label = n.label
           /\ n.exists /\ (n.deleting => n.fins # {}) => Stored(o, n).exists
<1> DEFINE m == [n EXCEPT !.rv = o.rv + 1]
<1>1. /\ m \in CapiObject /\ m.label = n.label /\ m.exists = n.exists
      /\ m.deleting = n.deleting /\ m.fins = n.fins
  BY DEF CapiObject
<1>2. [m EXCEPT !.exists = FALSE].label = n.label
  BY <1>1 DEF CapiObject
<1> HIDE DEF m
<1>3. /\ Settle(m).label = n.label
      /\ n.exists /\ (n.deleting => n.fins # {}) => Settle(m).exists
  BY <1>1, <1>2 DEF Settle
<1>4. Stored(o, n) = IF n = o THEN o ELSE Settle(m)
  BY DEF Stored, m
<1> QED
  BY <1>3, <1>4

\* Labels are given to clusters that are there, by users.
LEMMA LabelWrites ==
    ASSUME TypeOK, CopiesCoherent, StoreInv, Next, NEW c \in CapiClusters
    PROVE  capi'[c].label = capi[c].label \/ capi'[c].exists
<1> USE DEF server, cache
<1>1. capi[c] \in CapiObject
  BY RecParts
<1>2. CASE ~Environment
  <2>1. CASE ReconcileStep(c)
    BY <2>1, ReconcileKeeps DEF OthersKept, CapiKept
  <2>2. CASE ~ReconcileStep(c)
    BY <1>2, <2>2, OwnWrites
  <2> QED
    BY <2>1, <2>2
<1>3. ASSUME NEW n \in CapiObject, capi'[c] = Stored(capi[c], n), n.label = capi[c].label
      PROVE  capi'[c].label = capi[c].label
  BY <1>1, <1>3, StoredLabel
<1>4. ASSUME NEW d \in CapiClusters, NEW l \in Labels, CreateCapi(d, l)
      PROVE  capi'[c] = capi[c] \/ capi'[c].exists
  BY <1>4 DEF CreateCapi, NewCapi, NoCapi, TypeOK
<1>5. ASSUME NEW d \in CapiClusters, NEW l \in Labels, SetLabel(d, l)
      PROVE  capi'[c] = capi[c] \/ capi'[c].exists
  <2> DEFINE n == [capi[c] EXCEPT !.label = l]
  <2>1. capi'[c] = capi[c] \/ (capi[c].exists /\ capi'[c] = Stored(capi[c], n))
    BY <1>5 DEF SetLabel, TypeOK
  <2>2. /\ n \in CapiObject /\ n.exists = capi[c].exists
        /\ n.deleting = capi[c].deleting /\ n.fins = capi[c].fins
    BY <1>1, ConstantsAssumption DEF CapiObject
  <2> HIDE DEF n
  <2> QED
    BY <1>1, <2>1, <2>2, StoredLabel DEF StoreInv
<1>6. ASSUME NEW d \in CapiClusters,
             \/ \E b \in BOOLEAN : ControlPlane(d, b)
             \/ DeleteCapi(d) \/ FleetAdopts(d)
             \/ \E f \in {"capi", "fleet"} : ReleaseByOthers(d, f)
      PROVE  capi'[c].label = capi[c].label
  <2>1. /\ \A b \in BOOLEAN : /\ [capi[c] EXCEPT !.cpReady = b] \in CapiObject
                               /\ [capi[c] EXCEPT !.cpReady = b].label = capi[c].label
        /\ [capi[c] EXCEPT !.deleting = TRUE] \in CapiObject
        /\ [capi[c] EXCEPT !.deleting = TRUE].label = capi[c].label
        /\ WithFin(capi[c], "fleet") \in CapiObject
        /\ WithFin(capi[c], "fleet").label = capi[c].label
        /\ \A f \in {"capi", "fleet"} : /\ WithoutFin(capi[c], f) \in CapiObject
                                        /\ WithoutFin(capi[c], f).label = capi[c].label
    BY <1>1 DEF WithFin, WithoutFin, CapiObject, CapiFins
  <2>2. \/ capi'[c] = capi[c]
        \/ \E n \in CapiObject : capi'[c] = Stored(capi[c], n) /\ n.label = capi[c].label
    <3>1. CASE \E b \in BOOLEAN : ControlPlane(d, b)
      BY <2>1, <3>1 DEF ControlPlane, TypeOK
    <3>2. CASE DeleteCapi(d)
      BY <2>1, <3>2 DEF DeleteCapi, Deleted, TypeOK
    <3>3. CASE FleetAdopts(d)
      BY <2>1, <3>3 DEF FleetAdopts, TypeOK
    <3>4. CASE \E f \in {"capi", "fleet"} : ReleaseByOthers(d, f)
      BY <2>1, <3>4 DEF ReleaseByOthers, TypeOK
    <3> QED
      BY <1>6, <3>1, <3>2, <3>3, <3>4
  <2> QED
    BY <1>3, <2>2
<1>7. ASSUME \/ \E b \in NsLabels : SetNamespaceLabel(b)
             \/ \E r \in Rids : RancherAdopts(r) \/ RancherReleases(r) \/ UserDeletesRancher(r)
      PROVE  capi' = capi
  BY <1>7 DEF SetNamespaceLabel, RancherAdopts, RancherReleases, UserDeletesRancher
<1> HIDE DEF server, cache
<1> QED
  BY <1>2, <1>4, <1>5, <1>6, <1>7 DEF Environment

\* Labels come from the server, and from clusters that are there.
LEMMA Labellings ==
    ASSUME TypeOK, TypeOK', CopiesCoherent, StoreInv, Next, NEW c \in CapiClusters
    PROVE  WasLabelled(c)' => WasLabelled(c) \/ ContractCluster(capi'[c]).label = "true"
<1>1. CapiMove(c)
  BY StepMoves
<1>2. \A n \in {Dismissed(rec[c].hand), Released(rec[c].hand), FleetSettled(rec[c].hand)} :
         n.label = rec[c].hand.label
  BY RecParts, OwnMarks DEF SameButOwn
<1>3. NoCapi.label = "none"
  BY DEF NoCapi
<1>4. Decoded(rec[c].hand, capi[c]).label \in {rec[c].hand.label, capi[c].label}
  BY RecParts, DecodedCapi
<1>5. WasLabelled(c)' => WasLabelled(c) \/ capi'[c].label = "true"
  BY <1>1, <1>2, <1>3, <1>4 DEF CapiMove, RecMove, WasLabelled
<1>6. capi'[c].label = "true" =>
         capi[c].label = "true" \/ ContractCluster(capi'[c]).label = "true"
  BY LabelWrites DEF ContractCluster
<1> QED
  BY <1>5, <1>6 DEF WasLabelled

LEMMA Losses ==
    ASSUME TypeOK, TypeOK', CopiesCoherent, Next, NEW c \in CapiClusters, Learns(c)
    PROVE  LostClone(c)' => \/ LostClone(c)
                            \/ \E r \in Rids : ranch'[r].owner = c /\ ranch'[r].deleting
<1>1. \A r \in Rids : ranchCache'[r] = ranchCache[r] \/ ranchCache'[r] = ranch[r]
  BY StepMoves DEF RanchMove
<1> QED
  BY <1>1 DEF Learns, LostClone

Invs == TypeOK /\ CopiesCoherent /\ ReleaseInv /\ InformedInv /\ StoreInv

ClonesKept ==
    \A r \in Rids : ranch'[r].owner = ranch[r].owner /\ ranch'[r].deleting = ranch[r].deleting

ClustersKept == \A c \in CapiClusters : ContractCluster(capi'[c]) = ContractCluster(capi[c])

\* At most the deletion of a cluster and the loss of a clone are learnt.
OnlyLearns(lost, leaving) ==
    \A c \in CapiClusters :
       /\ rec'[c].pc = "create" => rec[c].pc = "create"
       /\ LostClone(c)' => LostClone(c) \/ c \in lost
       /\ WasDeleted(c)' => WasDeleted(c) \/ c \in leaving
       /\ WasLabelled(c)' => WasLabelled(c) \/ ContractCluster(capi'[c]).label = "true"

\* A step of the controllers that does not find a cluster to be imported.
Step ==
    /\ Invs /\ TypeOK' /\ Next
    /\ \A c \in CapiClusters : rec'[c].pc = "create" => rec[c].pc = "create"

LEMMA NotInvented ==
    ASSUME Invs, TypeOK', Next, NEW lost, NEW leaving,
           \A c \in CapiClusters : capi'[c].deleting => capi[c].deleting \/ c \in leaving,
           \A r \in Rids : ranch'[r].deleting =>
              \/ ranch[r].deleting /\ ranch'[r].owner = ranch[r].owner
              \/ ranch'[r].owner \in lost,
           NEW c \in CapiClusters
    PROVE  /\ LostClone(c)' => LostClone(c) \/ c \in lost
           /\ WasDeleted(c)' => WasDeleted(c) \/ c \in leaving
           /\ WasLabelled(c)' =>
                 WasLabelled(c) \/ ContractCluster(capi'[c]).label = "true"
<1>1. Learns(c)
  BY InformedStep DEF Invs
<1>2. LostClone(c)' => LostClone(c) \/ c \in lost
  BY <1>1, Losses DEF Invs, LostClone
<1>3. WasDeleted(c)' => WasDeleted(c) \/ c \in leaving
  BY Deletions DEF Invs, WasDeleted
<1>4. WasLabelled(c)' => WasLabelled(c) \/ ContractCluster(capi'[c]).label = "true"
  BY Labellings DEF Invs
<1> QED
  BY <1>2, <1>3, <1>4

LEMMA Learning ==
    ASSUME Step, NEW lost, NEW leaving,
           \A c \in CapiClusters : capi'[c].deleting => capi[c].deleting \/ c \in leaving,
           \A r \in Rids : ranch'[r].deleting =>
              \/ ranch[r].deleting /\ ranch'[r].owner = ranch[r].owner
              \/ ranch'[r].owner \in lost
    PROVE  OnlyLearns(lost, leaving)
BY NotInvented DEF OnlyLearns, Step

-----------------------------------------------------------------------------
(* The steps of the contract. *)

Gone == [here |-> FALSE, going |-> FALSE, held |-> FALSE, dismissed |-> FALSE,
         label |-> "none"]

LEMMA Forgotten ==
    ASSUME TypeOK', ClustersKept, ClonesKept, OnlyLearns({}, {})
    PROVE  Contract!Forget
<1>1. \A c \in CapiClusters : ContractCluster(capi[c]).label = "true" => WasLabelled(c)
  BY DEF ContractCluster, WasLabelled
<1> QED
  BY <1>1 DEF Contract!Forget, TypeOK, ClustersKept, ClonesKept, OnlyLearns

\* A write of one CAPI cluster, from which nothing is learnt.
OneWrite(c) ==
    /\ capi[c].exists
    /\ \A d \in CapiClusters \ {c} : capi'[d] = capi[d]
    /\ UNCHANGED <<ranch, nsCache>>
    /\ OnlyLearns({}, {})

LEMMA HoldStep ==
    ASSUME NEW c \in CapiClusters, OneWrite(c), ~capi[c].deleting,
           ContractCluster(capi'[c]) = [ContractCluster(capi[c]) EXCEPT !.held = TRUE]
    PROVE  Contract!Hold(c)
<1>1. ContractCluster(capi[c]).here /\ ~ContractCluster(capi[c]).going
  BY DEF OneWrite, ContractCluster
<1> QED
  BY <1>1 DEF OneWrite, Contract!Hold, Contract!NothingNew, Contract!Knows,
       Contract!LabelsSeen, OnlyLearns

LEMMA DismissStep ==
    ASSUME NEW c \in CapiClusters, OneWrite(c), LostClone(c),
           \/ ContractCluster(capi'[c]) = [ContractCluster(capi[c])
                                             EXCEPT !.dismissed = TRUE, !.held = FALSE]
           \/ ContractCluster(capi'[c]) = Gone /\ capi[c].deleting
    PROVE  Contract!Dismiss(c)
<1> DEFINE to == [ContractCluster(capi[c]) EXCEPT !.dismissed = TRUE, !.held = FALSE]
<1>1. ContractCluster(capi[c]).here /\ to.going = capi[c].deleting
  BY DEF OneWrite, ContractCluster
<1> QED
  BY <1>1 DEF OneWrite, Contract!Dismiss, Contract!Becomes, Contract!NoCluster, Gone,
     Contract!NothingNew, Contract!Knows,
          Contract!LabelsSeen, OnlyLearns

LEMMA ReleaseStep ==
    ASSUME NEW c \in CapiClusters, OneWrite(c), capi[c].deleting, "turtles" \in capi[c].fins,
           \A r \in Rids : ranch[r].owner = c => ranch[r].deleting,
           \/ ContractCluster(capi'[c]) = [ContractCluster(capi[c]) EXCEPT !.held = FALSE]
           \/ ContractCluster(capi'[c]) = Gone
    PROVE  Contract!Release(c)
<1>1. /\ ContractCluster(capi[c]).going /\ ContractCluster(capi[c]).held
      /\ [ContractCluster(capi[c]) EXCEPT !.held = FALSE].going = capi[c].deleting
  BY DEF OneWrite, ContractCluster
<1>2. Contract!LiveClones(c) = {}
  BY DEF Contract!LiveClones
<1> QED
  BY <1>1, <1>2 DEF OneWrite, Contract!Release, Contract!Becomes, Contract!NoCluster, Gone,
     Contract!NothingNew, Contract!Knows,
          Contract!LabelsSeen, OnlyLearns

LEMMA VanishStep ==
    ASSUME NEW c \in CapiClusters, OneWrite(c), capi[c].deleting, "turtles" \notin capi[c].fins,
           ContractCluster(capi'[c]) = Gone
    PROVE  Contract!Vanish(c)
<1>1. ContractCluster(capi[c]).going /\ ~ContractCluster(capi[c]).held
  BY DEF OneWrite, ContractCluster
<1> QED
  BY <1>1 DEF OneWrite, Contract!Vanish, Contract!NoCluster, Gone, Contract!NothingNew,
     Contract!Knows,
          Contract!LabelsSeen, OnlyLearns

LEMMA SetLabelStep ==
    ASSUME NEW c \in CapiClusters, NEW l, OneWrite(c),
           ContractCluster(capi'[c]) = [ContractCluster(capi[c]) EXCEPT !.label = l]
    PROVE  Contract!SetLabel(c, l)
<1>1. ContractCluster(capi[c]).here
  BY DEF OneWrite, ContractCluster
<1> QED
  BY <1>1 DEF OneWrite, Contract!SetLabel, Contract!NothingNew, Contract!Knows,
       Contract!LabelsSeen, OnlyLearns

\* What the contract sees of a write.
LEMMA StoredCluster ==
    ASSUME NEW o \in CapiObject, NEW n \in CapiObject, n.exists,
           o.exists, o.deleting => o.fins # {}
    PROVE  /\ Stored(o, n).deleting = n.deleting
           /\ ContractCluster(Stored(o, n)) = IF n.deleting /\ n.fins = {} THEN Gone
                                              ELSE ContractCluster(n)
<1> DEFINE m == [n EXCEPT !.rv = o.rv + 1]
           g == [m EXCEPT !.exists = FALSE]
<1>1. /\ m \in CapiObject /\ m.deleting = n.deleting /\ m.fins = n.fins /\ m.exists
      /\ m.label = n.label /\ m.imported = n.imported
  BY DEF CapiObject
<1>2. ~g.exists /\ g.deleting = n.deleting
  BY <1>1 DEF CapiObject
<1>3. Settle(m) = IF n.deleting /\ n.fins = {} THEN g ELSE m
  BY <1>1 DEF Settle
<1>4. ContractCluster(m) = ContractCluster(n)
  BY <1>1 DEF ContractCluster
<1>5. ContractCluster(g) = Gone
  BY <1>2 DEF ContractCluster, Gone
<1>6. IF n = o THEN Stored(o, n) = o ELSE Stored(o, n) = Settle(m)
  BY DEF Stored
<1> HIDE DEF m, g
<1> QED
  BY <1>1, <1>2, <1>3, <1>4, <1>5, <1>6

\* What the contract sees of a cluster, field by field.
LEMMA Seen ==
    ASSUME NEW o \in CapiObject, o.exists
    PROVE  /\ ContractCluster(o) \in Contract!Cluster
           /\ ContractCluster(o).here
           /\ ContractCluster(o).going <=> o.deleting
           /\ ContractCluster(o).held <=> "turtles" \in o.fins
           /\ ContractCluster(o).dismissed <=> o.imported
           /\ ContractCluster(o).label = o.label
<1>1. ContractCluster(o) \in Contract!Cluster
  BY DEF Contract!Cluster, Contract!LabelValues, CapiObject, ContractCluster
<1> QED
  BY <1>1 DEF CapiObject, ContractCluster

\* And it is told by its fields.
LEMMA SeenAs ==
    ASSUME NEW o \in CapiObject, o.exists, NEW k \in Contract!Cluster, k.here,
           k.going <=> o.deleting, k.held <=> "turtles" \in o.fins,
           k.dismissed <=> o.imported, k.label = o.label
    PROVE  ContractCluster(o) = k
<1>1. /\ ContractCluster(o) \in Contract!Cluster /\ ContractCluster(o).here <=> k.here
      /\ ContractCluster(o).going <=> k.going
      /\ ContractCluster(o).held <=> k.held
      /\ ContractCluster(o).dismissed <=> k.dismissed
      /\ ContractCluster(o).label = k.label
  BY Seen
<1> QED
  BY <1>1 DEF Contract!Cluster

LEMMA SeenDismissed ==
    ASSUME NEW o \in CapiObject, NEW n \in CapiObject, o.exists, n.exists,
           n.deleting <=> o.deleting, n.label = o.label, n.imported, "turtles" \notin n.fins
    PROVE  ContractCluster(n) = [ContractCluster(o) EXCEPT !.dismissed = TRUE, !.held = FALSE]
<1> DEFINE old == ContractCluster(o)
           new == [old EXCEPT !.dismissed = TRUE, !.held = FALSE]
<1>1. /\ old \in Contract!Cluster /\ old.here /\ old.label = o.label
      /\ old.going <=> o.deleting
      /\ old.held <=> "turtles" \in o.fins
      /\ old.dismissed <=> o.imported
  BY Seen
<1> HIDE DEF old
<1>2. /\ new \in Contract!Cluster /\ new.here = old.here
      /\ new.going = old.going /\ new.label = old.label /\ new.dismissed /\ ~new.held
  BY <1>1 DEF Contract!Cluster, Contract!LabelValues, CapiObject
<1> HIDE DEF new
<1>3. ContractCluster(n) = new
  BY <1>1, <1>2, SeenAs
<1> QED
  BY <1>3 DEF old, new

LEMMA SeenHeld ==
    ASSUME NEW o \in CapiObject, NEW n \in CapiObject, o.exists, n.exists,
           n.deleting <=> o.deleting, n.label = o.label, n.imported <=> o.imported,
           NEW b \in BOOLEAN, "turtles" \in n.fins <=> b
    PROVE  ContractCluster(n) = [ContractCluster(o) EXCEPT !.held = b]
<1> DEFINE old == ContractCluster(o)
           new == [old EXCEPT !.held = b]
<1>1. /\ old \in Contract!Cluster /\ old.here /\ old.label = o.label
      /\ old.going <=> o.deleting
      /\ old.held <=> "turtles" \in o.fins
      /\ old.dismissed <=> o.imported
  BY Seen
<1> HIDE DEF old
<1>2. /\ new \in Contract!Cluster /\ new.here = old.here
      /\ new.going = old.going /\ new.label = old.label
      /\ new.dismissed = old.dismissed /\ new.held = b
  BY <1>1 DEF Contract!Cluster, Contract!LabelValues, CapiObject
<1> HIDE DEF new
<1>3. ContractCluster(n) = new
  BY <1>1, <1>2, SeenAs
<1> QED
  BY <1>3 DEF old, new

LEMMA SeenDeleted ==
    ASSUME NEW o \in CapiObject, NEW n \in CapiObject, o.exists, n.exists,
           n.deleting, n.label = o.label, n.imported <=> o.imported, n.fins = o.fins
    PROVE  ContractCluster(n) = [ContractCluster(o) EXCEPT !.going = TRUE]
<1> DEFINE old == ContractCluster(o)
           new == [old EXCEPT !.going = TRUE]
<1>1. /\ old \in Contract!Cluster /\ old.here /\ old.label = o.label
      /\ old.going <=> o.deleting
      /\ old.held <=> "turtles" \in o.fins
      /\ old.dismissed <=> o.imported
  BY Seen
<1> HIDE DEF old
<1>2. /\ new \in Contract!Cluster /\ new.here = old.here
      /\ new.going /\ new.label = old.label
      /\ new.dismissed = old.dismissed /\ new.held = old.held
  BY <1>1 DEF Contract!Cluster, Contract!LabelValues, CapiObject
<1> HIDE DEF new
<1>3. ContractCluster(n) = new
  BY <1>1, <1>2, SeenAs
<1> QED
  BY <1>3 DEF old, new

LEMMA SeenLabelled ==
    ASSUME NEW o \in CapiObject, NEW n \in CapiObject, o.exists, n.exists,
           n.deleting <=> o.deleting, n.imported <=> o.imported, n.fins = o.fins
    PROVE  ContractCluster(n) = [ContractCluster(o) EXCEPT !.label = n.label]
<1> DEFINE old == ContractCluster(o)
           new == [old EXCEPT !.label = n.label]
<1>1. /\ old \in Contract!Cluster /\ old.here /\ old.label = o.label
      /\ old.going <=> o.deleting
      /\ old.held <=> "turtles" \in o.fins
      /\ old.dismissed <=> o.imported
  BY Seen
<1> HIDE DEF old
<1>2. /\ new \in Contract!Cluster /\ new.here = old.here
      /\ new.going = old.going /\ new.label = n.label
      /\ new.dismissed = old.dismissed /\ new.held = old.held
  BY <1>1 DEF Contract!Cluster, Contract!LabelValues, CapiObject
<1> HIDE DEF new
<1>3. ContractCluster(n) = new
  BY <1>1, <1>2, SeenAs
<1> QED
  BY <1>3 DEF old, new

\* A write that keeps the deletion mark.
LEMMA WriteSteps ==
    ASSUME Step, NEW c \in CapiClusters, NEW n \in CapiObject,
           capi[c].exists, n.exists, n.deleting = capi[c].deleting,
           capi' = [capi EXCEPT ![c] = Stored(capi[c], n)], UNCHANGED <<ranch, nsCache>>
    PROVE  /\ OneWrite(c)
           /\ ContractCluster(capi'[c]) = IF n.deleting /\ n.fins = {} THEN Gone
                                          ELSE ContractCluster(n)
<1>1. /\ capi'[c] = Stored(capi[c], n)
      /\ \A d \in CapiClusters \ {c} : capi'[d] = capi[d]
  BY DEF Step, Invs, TypeOK
<1>2. /\ capi'[c].deleting = n.deleting
      /\ ContractCluster(capi'[c]) = IF n.deleting /\ n.fins = {} THEN Gone
                                     ELSE ContractCluster(n)
  BY <1>1, StoredCluster, RecParts DEF Step, Invs, StoreInv
<1>3. OnlyLearns({}, {})
  BY <1>1, <1>2, Learning
<1> QED
  BY <1>1, <1>2, <1>3 DEF OneWrite

\* A write of what the contract does not see; the last finalizer may go with it.
LEMMA UnseenWrite ==
    ASSUME Step, NEW c \in CapiClusters, NEW n \in CapiObject,
           capi[c].exists, n.exists, n.deleting = capi[c].deleting,
           n.label = capi[c].label, n.imported = capi[c].imported,
           "turtles" \in n.fins <=> "turtles" \in capi[c].fins,
           capi' = [capi EXCEPT ![c] = Stored(capi[c], n)], UNCHANGED <<ranch, nsCache>>
    PROVE  Contract!Next
<1>1. /\ OneWrite(c)
      /\ ContractCluster(capi'[c]) = IF n.deleting /\ n.fins = {} THEN Gone
                                     ELSE ContractCluster(n)
  BY WriteSteps
<1>2. CASE n.deleting /\ n.fins = {}
  <2>1. Contract!Vanish(c)
    BY <1>1, <1>2, VanishStep
  <2> QED
    BY <2>1 DEF Contract!Next
<1>3. CASE ~(n.deleting /\ n.fins = {})
  <2>1. ("turtles" \in n.fins) = ("turtles" \in capi[c].fins)
    OBVIOUS
  <2>2. ContractCluster(n) = ContractCluster(capi[c])
    BY <2>1 DEF ContractCluster
  <2>3. ClustersKept /\ ClonesKept
    BY <1>1, <1>3, <2>2 DEF ClustersKept, ClonesKept, OneWrite
  <2>4. Contract!Forget
    BY <1>1, <2>3, Forgotten DEF OneWrite, Step
  <2> QED
    BY <2>4 DEF Contract!Next
<1> QED
  BY <1>2, <1>3

\* A write of the annotation.
LEMMA DismissWrite ==
    ASSUME Step, NEW c \in CapiClusters, NEW n \in CapiObject, LostClone(c),
           capi[c].exists, n.exists, n.deleting = capi[c].deleting,
           n.label = capi[c].label, n.imported, "turtles" \notin n.fins,
           capi' = [capi EXCEPT ![c] = Stored(capi[c], n)], UNCHANGED <<ranch, nsCache>>
    PROVE  Contract!Next
<1>1. /\ OneWrite(c)
      /\ ContractCluster(capi'[c]) = IF n.deleting /\ n.fins = {} THEN Gone
                                     ELSE ContractCluster(n)
  BY WriteSteps
<1>2. ContractCluster(n) = [ContractCluster(capi[c]) EXCEPT !.dismissed = TRUE, !.held = FALSE]
  BY SeenDismissed, RecParts DEF Step, Invs
<1>3. Contract!Dismiss(c)
  BY <1>1, <1>2, DismissStep
<1> QED
  BY <1>3 DEF Contract!Next, Contract!Manager

\* A write that gives the finalizer up.
LEMMA ReleaseWrite ==
    ASSUME Step, NEW c \in CapiClusters, NEW n \in CapiObject, Live(c) = {},
           capi[c].deleting, capi[c].exists, n.exists, n.deleting = capi[c].deleting,
           n.label = capi[c].label, n.imported = capi[c].imported, "turtles" \notin n.fins,
           capi' = [capi EXCEPT ![c] = Stored(capi[c], n)], UNCHANGED <<ranch, nsCache>>
    PROVE  Contract!Next
<1>1. CASE "turtles" \notin capi[c].fins
  BY <1>1, UnseenWrite
<1>2. CASE "turtles" \in capi[c].fins
  <2>1. /\ OneWrite(c)
        /\ ContractCluster(capi'[c]) = IF n.deleting /\ n.fins = {} THEN Gone
                                       ELSE ContractCluster(n)
    BY WriteSteps
  <2>2. ContractCluster(n) = [ContractCluster(capi[c]) EXCEPT !.held = FALSE]
    BY SeenHeld, RecParts DEF Step, Invs
  <2>3. ASSUME NEW r \in Rids, ranch[r].owner = c PROVE ranch[r].deleting
    <3>1. ranch[r].exists
      BY <2>3, ConstantsAssumption
         DEF Step, Invs, CopiesCoherent, RanchCopies, NoRanch
    <3> QED
      BY <2>3, <3>1 DEF Live, LiveOf
  <2>4. Contract!Release(c)
    BY <1>2, <2>1, <2>2, <2>3, ReleaseStep
  <2> QED
    BY <2>4 DEF Contract!Next, Contract!Manager
<1> QED
  BY <1>1, <1>2

-----------------------------------------------------------------------------
(* Writes of CAPI clusters. *)

LEMMA AddFinalizerRefines ==
    ASSUME Step, NEW c \in CapiClusters, AddFinalizer(c)
    PROVE  Contract!Next
<1> DEFINE n == Finalized(capi[c])
<1>1. /\ capi[c].exists /\ capi' = [capi EXCEPT ![c] = Stored(capi[c], n)]
      /\ capi[c].deleting => "turtles" \in capi[c].fins
      /\ UNCHANGED <<ranch, nsCache>>
  <2>1. capiCache[c] = capi[c]
    BY LockedCopies DEF Step, Invs, AddFinalizer, CanAddFinalizer
  <2>2. capi[c].deleting => n.fins \subseteq capi[c].fins
    BY <2>1 DEF AddFinalizer, CanAddFinalizer, ValidUpdate
  <2>3. "turtles" \in n.fins
    BY RecParts, MarkFields DEF Step, Invs
  <2> QED
    BY <2>1, <2>2, <2>3 DEF AddFinalizer, CanAddFinalizer, Accepts, cache
<1>2. capi[c] \in CapiObject
  BY RecParts DEF Step, Invs
<1>3. /\ n \in CapiObject /\ n.exists /\ n.deleting = capi[c].deleting
      /\ n.label = capi[c].label /\ n.imported = capi[c].imported /\ "turtles" \in n.fins
  BY <1>1, <1>2, MarkedCapi DEF Finalized, WithFin, CapiObject
<1> HIDE DEF n
<1>4. CASE "turtles" \in capi[c].fins
  BY <1>1, <1>3, <1>4, UnseenWrite
<1>5. CASE "turtles" \notin capi[c].fins
  <2>1. /\ OneWrite(c) /\ ~n.deleting
        /\ ContractCluster(capi'[c]) = ContractCluster(n)
    BY <1>1, <1>3, <1>5, WriteSteps
  <2>2. ContractCluster(n) = [ContractCluster(capi[c]) EXCEPT !.held = TRUE]
    BY <1>1, <1>2, <1>3, SeenHeld
  <2>3. Contract!Hold(c)
    BY <1>1, <1>5, <2>1, <2>2, HoldStep
  <2> QED
    BY <2>3 DEF Contract!Next, Contract!Manager
<1> QED
  BY <1>4, <1>5

LEMMA AnnotateRefines ==
    ASSUME Step, NEW c \in CapiClusters, Annotate(c)
    PROVE  Contract!Next
<1> DEFINE n == Merge(capi[c], rec[c].hand, Dismissed(rec[c].hand))
<1>1. rec[c].hand = rec[c].base /\ rec[c].rc.deleting /\ ~rec[c].hand.imported
  BY DEF Step, Invs, InformedInv, Informed, Unread, ReleaseInv, Justified, Annotate
<1>2. /\ rec[c].hand = capi[c] /\ capi[c].exists
  BY <1>1, LockedCopies DEF Step, Invs, Annotate, Accepts
<1>3. capi[c] \in CapiObject /\ Dismissed(capi[c]) \in CapiObject
  BY RecParts, MarkedCapi DEF Step, Invs
<1>4. n \in CapiObject
  BY <1>2, <1>3, MergeCapi
<1>5. /\ n.exists /\ n.deleting = capi[c].deleting /\ n.label = capi[c].label
      /\ n.imported /\ "turtles" \notin n.fins
  BY <1>1, <1>2, <1>3 DEF Merge, Dismissed, Released, WithoutFin, CapiObject
<1>6. capi' = [capi EXCEPT ![c] = Stored(capi[c], n)] /\ UNCHANGED <<ranch, nsCache>>
  BY DEF Annotate, cache
<1>7. LostClone(c)
  BY <1>1 DEF LostClone
<1> HIDE DEF n
<1> QED
  BY <1>2, <1>4, <1>5, <1>6, <1>7, DismissWrite

LEMMA ReleaseCapiRefines ==
    ASSUME Step, NEW c \in CapiClusters, ReleaseCapi(c)
    PROVE  Contract!Next
<1> DEFINE n == Released(capi[c])
<1>1. rec[c].hand = rec[c].base /\ LetGo(c)
  BY DEF Step, Invs, InformedInv, Informed, Unread, ReleaseInv, Justified, ReleaseCapi
<1>2. /\ rec[c].hand = capi[c] /\ capi[c].exists /\ capi[c].deleting /\ Live(c) = {}
  BY <1>1, LockedCopies DEF Step, Invs, ReleaseCapi, Accepts, LetGo
<1>3. capi[c] \in CapiObject
  BY RecParts DEF Step, Invs
<1>4. /\ n \in CapiObject /\ n.exists /\ n.deleting = capi[c].deleting
      /\ n.label = capi[c].label /\ n.imported = capi[c].imported /\ "turtles" \notin n.fins
  BY <1>2, <1>3, MarkedCapi DEF Released, WithoutFin, CapiObject
<1>5. capi' = [capi EXCEPT ![c] = Stored(capi[c], n)] /\ UNCHANGED <<ranch, nsCache>>
  BY <1>2 DEF ReleaseCapi, cache
<1> HIDE DEF n
<1> QED
  BY <1>2, <1>4, <1>5, ReleaseWrite

LEMMA OuterPatchRefines ==
    ASSUME Step, NEW c \in CapiClusters, OuterPatch(c)
    PROVE  Contract!Next
<1> DEFINE n == Merge(capi[c], rec[c].base, rec[c].hand)
<1>1. /\ rec[c].base = capi[c] /\ capi[c].exists /\ rec[c].pc = "outer"
      /\ SameButOwn(rec[c].hand, capi[c])
  BY LockedCopies DEF Step, Invs, OuterPatch, Accepts
<1>2. capi[c] \in CapiObject /\ rec[c].hand \in CapiObject
  BY RecParts DEF Step, Invs
<1>3. n \in CapiObject
  BY <1>1, <1>2, MergeCapi
<1>4. /\ n.exists /\ n.deleting = capi[c].deleting /\ n.label = capi[c].label
      /\ n.imported = rec[c].hand.imported /\ n.fins = rec[c].hand.fins
  BY <1>1, <1>2 DEF Merge, CapiObject, SameButOwn
<1>5. capi' = [capi EXCEPT ![c] = Stored(capi[c], n)] /\ UNCHANGED <<ranch, nsCache>>
  BY DEF OuterPatch, cache
<1> HIDE DEF n
<1>6. rec[c].hand.rv = rec[c].base.rv
  BY <1>1 DEF SameButOwn
<1>7. CASE Untouched(rec[c])
  BY <1>1, <1>3, <1>4, <1>5, <1>7, UnseenWrite DEF Untouched
<1>8. CASE Unsaved(c) /\ "turtles" \notin rec[c].hand.fins
  <2>1. LostClone(c) /\ n.imported
    BY <1>4, <1>8 DEF LostClone, Unsaved
  <2> QED
    BY <1>1, <1>3, <1>4, <1>5, <1>8, <2>1, DismissWrite
<1>9. CASE /\ rec[c].hand.imported = rec[c].base.imported /\ LetGo(c)
           /\ "turtles" \notin rec[c].hand.fins
  <2>1. capi[c].deleting /\ Live(c) = {}
    BY <1>1, <1>9 DEF LetGo, SameButOwn
  <2> QED
    BY <1>1, <1>3, <1>4, <1>5, <1>9, <2>1, ReleaseWrite
<1> QED
  BY <1>6, <1>7, <1>8, <1>9 DEF Step, Invs, InformedInv, Informed

LEMMA CreateCapiRefines ==
    ASSUME Step, NEW c \in CapiClusters, NEW l \in Labels, CreateCapi(c, l)
    PROVE  Contract!Next
<1> DEFINE n == NewCapi(capi[c], l)
<1>1. /\ ~capi[c].exists /\ capi'[c] = n /\ UNCHANGED <<ranch, nsCache>>
      /\ \A d \in CapiClusters \ {c} : capi'[d] = capi[d]
  BY DEF CreateCapi, cache, Step, Invs, TypeOK
<1>2. /\ n \in CapiObject /\ n.exists /\ ~n.deleting /\ ~n.imported
      /\ "turtles" \notin n.fins /\ n.label = l
  BY <1>1 DEF NewCapi, NoCapi, Step, TypeOK
<1>3. ~ContractCluster(capi[c]).here
  BY <1>1 DEF ContractCluster
<1> HIDE DEF n
<1>4. OnlyLearns({}, {})
  BY <1>1, <1>2, Learning
<1>5. l \in Contract!LabelValues
  BY ConstantsAssumption DEF Contract!LabelValues
<1>6. ContractCluster(n) = [Contract!NoCluster EXCEPT !.here = TRUE, !.label = l]
  <2> DEFINE k == [Contract!NoCluster EXCEPT !.here = TRUE, !.label = l]
  <2>1. /\ k \in Contract!Cluster /\ k.here /\ ~k.going /\ ~k.held /\ ~k.dismissed
        /\ k.label = l
    BY <1>5 DEF Contract!NoCluster, Contract!Cluster
  <2> HIDE DEF k
  <2>2. ContractCluster(n) = k
    BY <1>2, <2>1, SeenAs
  <2> QED
    BY <2>2 DEF k
<1>7. Contract!Create(c, l)
  BY <1>1, <1>3, <1>4, <1>6
     DEF Contract!Create, Contract!NothingNew, Contract!Knows,
          Contract!LabelsSeen, OnlyLearns
<1> QED
  BY <1>5, <1>7 DEF Contract!Next

LEMMA DeleteCapiRefines ==
    ASSUME Step, NEW c \in CapiClusters, DeleteCapi(c)
    PROVE  Contract!Next
<1> DEFINE n == [capi[c] EXCEPT !.deleting = TRUE]
<1>1. /\ capi[c].exists /\ ~capi[c].deleting /\ capi'[c] = Stored(capi[c], n)
      /\ UNCHANGED <<ranch, nsCache>>
      /\ \A d \in CapiClusters \ {c} : capi'[d] = capi[d]
  BY DEF DeleteCapi, Deleted, cache, Step, Invs, TypeOK
<1>2. capi[c] \in CapiObject
  BY RecParts DEF Step, Invs
<1>3. /\ n \in CapiObject /\ n.exists /\ n.deleting /\ n.fins = capi[c].fins
      /\ n.label = capi[c].label /\ n.imported = capi[c].imported
  BY <1>1, <1>2 DEF CapiObject
<1> HIDE DEF n
<1>4. /\ ContractCluster(capi'[c]) = IF n.fins = {} THEN Gone ELSE ContractCluster(n)
  BY <1>1, <1>2, <1>3, StoredCluster
<1>5. /\ ContractCluster(n) = [ContractCluster(capi[c]) EXCEPT !.going = TRUE]
      /\ ContractCluster(n).going /\ ContractCluster(n).here
  BY <1>1, <1>2, <1>3, SeenDeleted, Seen
<1>6. /\ ContractCluster(capi[c]).here /\ ~ContractCluster(capi[c]).going
      /\ ContractCluster(capi[c]).held => n.fins # {}
  BY <1>1, <1>2, <1>3, Seen
<1>7. OnlyLearns({}, {c})
  BY <1>1, Learning
<1>8. Contract!Delete(c)
  <2>1. ContractCluster(capi[c]).held => ContractCluster(capi'[c]).here
    BY <1>4, <1>5, <1>6
  <2>2. Contract!Becomes(c, [ContractCluster(capi[c]) EXCEPT !.going = TRUE])
    BY <1>1, <1>4, <1>5 DEF Contract!Becomes, Contract!NoCluster, Gone
  <2> QED
    BY <1>1, <1>6, <1>7, <2>1, <2>2 DEF Contract!Delete, Contract!Knows,
         Contract!LabelsSeen, OnlyLearns
<1> QED
  BY <1>8 DEF Contract!Next

LEMMA SetLabelRefines ==
    ASSUME Step, NEW c \in CapiClusters, NEW l \in Labels, SetLabel(c, l)
    PROVE  Contract!Next
<1> DEFINE n == [capi[c] EXCEPT !.label = l]
<1>1. /\ capi[c].exists /\ capi' = [capi EXCEPT ![c] = Stored(capi[c], n)]
      /\ UNCHANGED <<ranch, nsCache>>
  BY DEF SetLabel, cache
<1>2. capi[c] \in CapiObject /\ l \in Contract!LabelValues
  BY RecParts, ConstantsAssumption DEF Step, Invs, Contract!LabelValues
<1>3. /\ n \in CapiObject /\ n.exists /\ n.deleting = capi[c].deleting
      /\ n.fins = capi[c].fins /\ n.imported = capi[c].imported /\ n.label = l
  BY <1>1, <1>2 DEF CapiObject, Contract!LabelValues
<1> HIDE DEF n
<1>4. OneWrite(c) /\ ContractCluster(capi'[c]) = ContractCluster(n)
  BY <1>1, <1>3, WriteSteps DEF Step, Invs, StoreInv
<1>5. ContractCluster(n) = [ContractCluster(capi[c]) EXCEPT !.label = l]
  BY <1>1, <1>2, <1>3, SeenLabelled
<1>6. Contract!SetLabel(c, l)
  BY <1>4, <1>5, SetLabelStep
<1> QED
  BY <1>2, <1>6 DEF Contract!Next

\* What Cluster API and CAAPF write is not seen.
LEMMA OthersRefine ==
    ASSUME Step, NEW c \in CapiClusters,
           \/ FleetAdopts(c)
           \/ \E b \in BOOLEAN : ControlPlane(c, b)
           \/ \E f \in {"capi", "fleet"} : ReleaseByOthers(c, f)
    PROVE  Contract!Next
<1>1. capi[c] \in CapiObject /\ capi[c].exists /\ UNCHANGED <<ranch, nsCache>>
  BY RecParts DEF Step, Invs, FleetAdopts, ControlPlane, ReleaseByOthers, cache
<1>2. ASSUME NEW b \in BOOLEAN, ControlPlane(c, b) PROVE Contract!Next
  <2> DEFINE n == [capi[c] EXCEPT !.cpReady = b]
  <2>1. /\ n \in CapiObject /\ n.exists /\ n.deleting = capi[c].deleting
        /\ n.fins = capi[c].fins /\ n.imported = capi[c].imported /\ n.label = capi[c].label
    BY <1>1 DEF CapiObject
  <2>2. capi' = [capi EXCEPT ![c] = Stored(capi[c], n)]
    BY <1>2 DEF ControlPlane
  <2> HIDE DEF n
  <2> QED
    BY <1>1, <2>1, <2>2, UnseenWrite
<1>3. CASE FleetAdopts(c)
  <2> DEFINE n == WithFin(capi[c], "fleet")
  <2>1. /\ n \in CapiObject /\ n.exists /\ n.deleting = capi[c].deleting
        /\ n.imported = capi[c].imported /\ n.label = capi[c].label
        /\ "turtles" \in n.fins <=> "turtles" \in capi[c].fins
    BY <1>1 DEF WithFin, CapiObject, CapiFins
  <2>2. capi' = [capi EXCEPT ![c] = Stored(capi[c], n)]
    BY <1>3 DEF FleetAdopts
  <2> HIDE DEF n
  <2> QED
    BY <1>1, <2>1, <2>2, UnseenWrite
<1>4. ASSUME NEW f \in {"capi", "fleet"}, ReleaseByOthers(c, f) PROVE Contract!Next
  <2> DEFINE n == WithoutFin(capi[c], f)
  <2>1. /\ n \in CapiObject /\ n.exists /\ n.deleting = capi[c].deleting
        /\ n.imported = capi[c].imported /\ n.label = capi[c].label
        /\ "turtles" \in n.fins <=> "turtles" \in capi[c].fins
    BY <1>1 DEF WithoutFin, CapiObject, CapiFins
  <2>2. capi' = [capi EXCEPT ![c] = Stored(capi[c], n)]
    BY <1>4 DEF ReleaseByOthers
  <2> HIDE DEF n
  <2> QED
    BY <1>1, <2>1, <2>2, UnseenWrite
<1> QED
  BY <1>2, <1>3, <1>4

-----------------------------------------------------------------------------
(* Writes of Rancher clusters. *)

\* A write that keeps owner and deletion mark; the last finalizer may go with it.
LEMMA StoredClone ==
    ASSUME NEW o \in RanchObject, NEW n \in RanchObject, o.exists, n.exists,
           n.owner = o.owner, n.deleting = o.deleting
    PROVE  /\ \/ Kept(Stored(o, n)) = NoRanch /\ o.deleting
              \/ /\ Kept(Stored(o, n)).owner = o.owner
                 /\ Kept(Stored(o, n)).deleting = o.deleting
           /\ "turtles" \in n.fins \/ ~n.deleting => Kept(Stored(o, n)) = Stored(o, n)
<1> DEFINE m == [n EXCEPT !.rv = o.rv + 1]
           g == [m EXCEPT !.exists = FALSE]
<1>1. /\ m \in RanchObject /\ m.exists /\ m.owner = o.owner /\ m.deleting = o.deleting
      /\ m.fins = n.fins
  BY DEF RanchObject
<1>2. ~g.exists
  BY <1>1 DEF RanchObject
<1>3. Settle(m) = IF m.deleting /\ m.fins = {} THEN g ELSE m
  BY DEF Settle
<1>4. IF n = o THEN Stored(o, n) = o ELSE Stored(o, n) = Settle(m)
  BY DEF Stored
<1> HIDE DEF m, g
<1> QED
  BY <1>1, <1>2, <1>3, <1>4 DEF Kept

LEMMA DeletedClone ==
    ASSUME NEW o \in RanchObject, o.exists
    PROVE  \/ Kept(Deleted(o)) = NoRanch
           \/ Kept(Deleted(o)).owner = o.owner /\ Kept(Deleted(o)).deleting = TRUE
<1> DEFINE n == [o EXCEPT !.deleting = TRUE]
<1>1. n \in RanchObject /\ n.exists /\ n.owner = o.owner /\ n.deleting = TRUE
  BY DEF RanchObject
<1>2. Deleted(o) = IF n = o THEN o ELSE Settle([n EXCEPT !.rv = o.rv + 1])
  BY DEF Stored, Deleted
<1> HIDE DEF n
<1> DEFINE m == [n EXCEPT !.rv = o.rv + 1]
           g == [m EXCEPT !.exists = FALSE]
<1>3. m \in RanchObject /\ m.exists /\ m.owner = o.owner /\ m.deleting = TRUE
  BY <1>1 DEF RanchObject
<1>4. Deleted(o) = IF n = o THEN o ELSE Settle(m)
  BY <1>2
<1> HIDE DEF m
<1>5. ~g.exists
  BY <1>3 DEF RanchObject
<1>6. Settle(m) = IF m.deleting /\ m.fins = {} THEN g ELSE m
  BY DEF Settle
<1> HIDE DEF g
<1> QED
  BY <1>1, <1>3, <1>4, <1>5, <1>6 DEF Kept

LEMMA CloneWrite ==
    ASSUME Step, NEW r \in Rids, NEW n \in RanchObject, ranch[r].exists, n.exists,
           n.owner = ranch[r].owner, n.deleting = ranch[r].deleting,
           ranch' = [ranch EXCEPT ![r] = Kept(Stored(ranch[r], n))],
           UNCHANGED <<capi, nsCache>>
    PROVE  Contract!Next
<1>1. /\ ranch'[r] = Kept(Stored(ranch[r], n)) /\ ranch[r] \in RanchObject
      /\ \A q \in Rids \ {r} : ranch'[q] = ranch[q]
  BY DEF Step, Invs, TypeOK
<1>2. \/ ranch'[r] = NoRanch /\ ranch[r].deleting
      \/ ranch'[r].owner = ranch[r].owner /\ ranch'[r].deleting = ranch[r].deleting
  BY <1>1, StoredClone
<1>3. OnlyLearns({}, {})
  BY <1>1, <1>2, Learning DEF NoRanch
<1>4. CASE ranch'[r] = NoRanch /\ ranch[r].deleting
  <2>1. ranch'[r].owner = None /\ ranch'[r].deleting = FALSE
    BY <1>4 DEF NoRanch
  <2>2. Contract!VanishClone(r)
    BY <1>1, <1>3, <1>4, <2>1 DEF Contract!VanishClone, Contract!NoClone,
       Contract!NothingNew, Contract!Knows,
            Contract!LabelsSeen, OnlyLearns
  <2> QED
    BY <2>2 DEF Contract!Next
<1>5. CASE ranch'[r].owner = ranch[r].owner /\ ranch'[r].deleting = ranch[r].deleting
  <2>1. ClustersKept /\ ClonesKept
    BY <1>1, <1>5 DEF ClustersKept, ClonesKept
  <2>2. Contract!Forget
    BY <1>3, <2>1, Forgotten DEF Step
  <2> QED
    BY <2>2 DEF Contract!Next
<1> QED
  BY <1>2, <1>4, <1>5

LEMMA UnseenStep ==
    ASSUME Step, UNCHANGED <<capi, ranch>>
    PROVE  Contract!Next
<1>1. OnlyLearns({}, {}) /\ ClustersKept /\ ClonesKept
  BY Learning DEF ClustersKept, ClonesKept
<1>2. Contract!Forget
  BY <1>1, Forgotten DEF Step
<1> QED
  BY <1>2 DEF Contract!Next

LEMMA ReleaseRancherRefines ==
    ASSUME Step, NEW c \in CapiClusters, ReleaseRancher(c)
    PROVE  Contract!Next
<1> DEFINE r == rec[c].rid
<1>1. CASE r \in Rids
  <2>1. ranch[r] = rec[c].rc /\ ranch[r].exists /\ ranch[r] \in RanchObject
    BY <1>1, LockedCopies DEF Step, Invs, ReleaseRancher, Accepts, TypeOK
  <2>2. /\ Released(ranch[r]) \in RanchObject /\ Released(ranch[r]).exists
        /\ Released(ranch[r]).owner = ranch[r].owner
        /\ Released(ranch[r]).deleting = ranch[r].deleting
    BY <2>1, MarkedRanch DEF Released, WithoutFin, RanchObject
  <2>3. /\ ranch' = [ranch EXCEPT ![r] = Kept(Stored(ranch[r], Released(ranch[r])))]
        /\ UNCHANGED <<capi, nsCache>>
    BY <2>1 DEF ReleaseRancher, cache
  <2> QED
    BY <1>1, <2>1, <2>2, <2>3, CloneWrite
<1>2. CASE r \notin Rids
  BY <1>2, UnseenStep DEF ReleaseRancher, Step, Invs, TypeOK
<1> QED
  BY <1>1, <1>2

LEMMA PatchRancherRefines ==
    ASSUME Step, NEW c \in CapiClusters, PatchRancher(c)
    PROVE  Contract!Next
<1> DEFINE r == rec[c].rid
<1>1. CASE r \in Rids
  <2>1. ranch[r] = rec[c].rc /\ ranch[r].exists /\ ranch[r] \in RanchObject
    BY <1>1, LockedCopies DEF Step, Invs, PatchRancher, Accepts, TypeOK
  <2>2. /\ Finalized(ranch[r]) \in RanchObject /\ Finalized(ranch[r]).exists
        /\ Finalized(ranch[r]).owner = ranch[r].owner
        /\ Finalized(ranch[r]).deleting = ranch[r].deleting
        /\ "turtles" \in Finalized(ranch[r]).fins
    BY <2>1, MarkedRanch DEF Finalized, WithFin, RanchObject
  <2>3. Kept(Stored(ranch[r], Finalized(ranch[r]))) = Stored(ranch[r], Finalized(ranch[r]))
    BY <2>1, <2>2, StoredClone
  <2>4. /\ ranch' = [ranch EXCEPT ![r] = Kept(Stored(ranch[r], Finalized(ranch[r])))]
        /\ UNCHANGED <<capi, nsCache>>
    BY <2>1, <2>3 DEF PatchRancher, cache
  <2> QED
    BY <1>1, <2>1, <2>2, <2>4, CloneWrite
<1>2. CASE r \notin Rids
  BY <1>2, UnseenStep DEF PatchRancher, Step, Invs, TypeOK
<1> QED
  BY <1>1, <1>2

LEMMA RanchWritesRefine ==
    ASSUME Step, NEW r \in Rids,
           CleanupReconcile(r) \/ RancherAdopts(r) \/ RancherReleases(r)
    PROVE  Contract!Next
<1>1. ranch[r] \in RanchObject /\ UNCHANGED <<capi, nsCache>>
  BY DEF Step, Invs, TypeOK, CleanupReconcile, RancherAdopts, RancherReleases, cache
<1>2. CASE CleanupReconcile(r)
  <2> DEFINE n == Merge(ranch[r], ranch[r], Released(ranch[r]))
  <2>1. ranchCache[r] = ranch[r] /\ ranch[r].exists
    BY <1>2 DEF CleanupReconcile, Accepts, Step, Invs, CopiesCoherent, RanchCopies, Coherent
  <2>2. n \in RanchObject
    BY <1>1, MarkedRanch, MergeRanch
  <2>3. n.exists /\ n.owner = ranch[r].owner /\ n.deleting = ranch[r].deleting
    BY <1>1, <2>1 DEF Merge, Released, WithoutFin, RanchObject
  <2>4. ranch' = [ranch EXCEPT ![r] = Kept(Stored(ranch[r], n))]
    BY <1>2, <2>1 DEF CleanupReconcile
  <2> HIDE DEF n
  <2> QED
    BY <1>1, <2>1, <2>2, <2>3, <2>4, CloneWrite
<1>3. CASE RancherAdopts(r)
  <2> DEFINE n == WithFin(ranch[r], "rancher")
  <2>1. /\ n \in RanchObject /\ n.exists /\ n.owner = ranch[r].owner
        /\ n.deleting = ranch[r].deleting /\ ~n.deleting /\ ranch[r].exists
    BY <1>1, <1>3 DEF RancherAdopts, WithFin, RanchObject, RanchFins
  <2>2. Kept(Stored(ranch[r], n)) = Stored(ranch[r], n)
    BY <1>1, <2>1, StoredClone
  <2>3. ranch' = [ranch EXCEPT ![r] = Kept(Stored(ranch[r], n))]
    BY <1>3, <2>2 DEF RancherAdopts
  <2> HIDE DEF n
  <2> QED
    BY <1>1, <2>1, <2>3, CloneWrite
<1>4. CASE RancherReleases(r)
  <2> DEFINE n == WithoutFin(ranch[r], "rancher")
  <2>1. /\ n \in RanchObject /\ n.exists /\ n.owner = ranch[r].owner
        /\ n.deleting = ranch[r].deleting /\ ranch[r].exists
    BY <1>1, <1>4 DEF RancherReleases, WithoutFin, RanchObject
  <2>2. ranch' = [ranch EXCEPT ![r] = Kept(Stored(ranch[r], n))]
    BY <1>4 DEF RancherReleases
  <2> HIDE DEF n
  <2> QED
    BY <1>1, <2>1, <2>2, CloneWrite
<1> QED
  BY <1>2, <1>3, <1>4

LEMMA UserDeletesRefines ==
    ASSUME Step, NEW r \in Rids, UserDeletesRancher(r)
    PROVE  Contract!Next
<1>1. /\ ranch[r].exists /\ ~ranch[r].deleting /\ ranch[r] \in RanchObject
      /\ ranch'[r] = Kept(Deleted(ranch[r]))
      /\ \A q \in Rids \ {r} : ranch'[q] = ranch[q]
      /\ UNCHANGED <<capi, nsCache>>
  BY DEF Step, Invs, TypeOK, UserDeletesRancher, cache
<1>2. \/ ranch'[r] = NoRanch
      \/ ranch'[r].owner = ranch[r].owner /\ ranch'[r].deleting = TRUE
  BY <1>1, DeletedClone
<1>3. OnlyLearns({ranch[r].owner}, {})
  BY <1>1, <1>2, Learning DEF NoRanch
<1>4. ranch[r].owner # None
  BY <1>1 DEF Step, Invs, StoreInv, Live, LiveOf
<1>5. ranch'[r] = NoRanch => ranch'[r].owner = None /\ ranch'[r].deleting = FALSE
  BY DEF NoRanch
<1>6. Contract!DeleteClone(r)
  BY <1>1, <1>2, <1>3, <1>4, <1>5 DEF Contract!DeleteClone, Contract!NoClone,
     Contract!Knows,
          Contract!LabelsSeen, OnlyLearns
<1> QED
  BY <1>6 DEF Contract!Next

LEMMA DeleteRanchersRefines ==
    ASSUME Step, NEW c \in CapiClusters, DeleteRanchers(c)
    PROVE  Contract!Next
<1>1. /\ UNCHANGED <<capi, nsCache>> /\ rec[c].hand.deleting
      /\ \A r \in Rids : ranch'[r] = IF r \in Owned(ranch, c) THEN Kept(Deleted(ranch[r]))
                                     ELSE ranch[r]
  BY DEF Step, Invs, DeleteRanchers, cache, ReleaseInv, Justified
<1>2. \A r \in Rids : /\ ranch[r] \in RanchObject
                      /\ ranch[r].owner = c => r \in Owned(ranch, c)
  BY ConstantsAssumption
     DEF Step, Invs, TypeOK, CopiesCoherent, RanchCopies, NoRanch, Owned
<1>3. ASSUME NEW r \in Rids, ranch[r].owner = c
      PROVE  \/ ranch'[r].owner = None /\ ranch'[r].deleting = FALSE
             \/ ranch'[r].owner = c /\ ranch'[r].deleting = TRUE
  <2>1. ranch'[r] = Kept(Deleted(ranch[r])) /\ ranch[r] \in RanchObject /\ ranch[r].exists
    BY <1>1, <1>2, <1>3 DEF Owned
  <2>2. \/ ranch'[r] = NoRanch
        \/ ranch'[r].owner = ranch[r].owner /\ ranch'[r].deleting = TRUE
    BY <2>1, DeletedClone
  <2>3. ranch'[r] = NoRanch => ranch'[r].owner = None /\ ranch'[r].deleting = FALSE
    BY DEF NoRanch
  <2> QED
    BY <1>3, <2>2, <2>3
<1>4. \A r \in Rids : ranch[r].owner # c => ranch'[r] = ranch[r]
  BY <1>1 DEF Owned
<1>5. OnlyLearns({c}, {})
  BY <1>1, <1>3, <1>4, Learning
<1>6. ASSUME NEW r \in Rids, ranch[r].owner = c, ranch[r].deleting PROVE ranch'[r] = ranch[r]
  <2>1. [ranch[r] EXCEPT !.deleting = TRUE] = ranch[r]
    <3> DEFINE o == ranch[r]
               n == [o EXCEPT !.deleting = TRUE]
    <3>1. o \in RanchObject /\ o.deleting
      BY <1>2, <1>6
    <3> HIDE DEF o
    <3>2. /\ n \in RanchObject /\ (n.exists <=> o.exists) /\ n.rv = o.rv /\ n.fins = o.fins
          /\ n.deleting <=> o.deleting
          /\ n.owner = o.owner /\ n.madeFor = o.madeFor
      BY <3>1 DEF RanchObject
    <3> HIDE DEF n
    <3>3. n = o
      BY <3>1, <3>2 DEF RanchObject
    <3> QED
      BY <3>3 DEF n, o
  <2>2. Kept(Deleted(ranch[r])) = ranch[r]
    BY <1>2, <1>6, <2>1 DEF Deleted, Stored, Kept, Owned
  <2> QED
    BY <1>1, <2>2
<1> DEFINE live == {r \in Rids : ranch[r].owner = c /\ ~ranch[r].deleting}
           gone == {r \in live : ranch'[r].owner = None}
<1>7. Contract!LiveClones(c) = live /\ gone \in SUBSET live
  BY DEF Contract!LiveClones
<1>8. ASSUME NEW r \in Rids
      PROVE  [owner |-> ranch'[r].owner, going |-> ranch'[r].deleting]
             = IF r \in gone THEN Contract!NoClone
               ELSE IF r \in live
               THEN [[owner |-> ranch[r].owner, going |-> ranch[r].deleting]
                        EXCEPT !.going = TRUE]
               ELSE [owner |-> ranch[r].owner, going |-> ranch[r].deleting]
  <2>1. CASE r \in gone
    BY <1>3, <2>1, ConstantsAssumption DEF Contract!NoClone
  <2>2. CASE r \in live \ gone
    BY <1>3, <2>2
  <2>3. CASE r \notin live
    BY <1>4, <1>6, <2>3
  <2> QED
    BY <2>1, <2>2, <2>3
<1>9. c \in {d \in CapiClusters : WasDeleted(d)}
  BY <1>1 DEF WasDeleted
<1> HIDE DEF live, gone
<1>a. ASSUME NEW cl, NEW r \in Rids,
             cl = [q \in Rids |-> [owner |-> ranch[q].owner, going |-> ranch[q].deleting]]
      PROVE  [[owner |-> ranch[r].owner, going |-> ranch[r].deleting] EXCEPT !.going = TRUE]
             = [cl[r] EXCEPT !.going = TRUE]
  <2>1. cl[r] = [owner |-> ranch[r].owner, going |-> ranch[r].deleting]
    BY <1>a
  <2> QED BY <2>1
<1> DEFINE clone == [r \in Rids |-> [owner |-> ranch[r].owner, going |-> ranch[r].deleting]]
<1>10. [r \in Rids |-> [owner |-> ranch'[r].owner, going |-> ranch'[r].deleting]]
       = [r \in Rids |-> IF r \in gone THEN Contract!NoClone
                         ELSE IF r \in live THEN [clone[r] EXCEPT !.going = TRUE]
                         ELSE clone[r]]
  <2>1. ASSUME NEW r \in Rids
        PROVE  [owner |-> ranch'[r].owner, going |-> ranch'[r].deleting]
               = IF r \in gone THEN Contract!NoClone
                 ELSE IF r \in live THEN [clone[r] EXCEPT !.going = TRUE]
                 ELSE clone[r]
    <3>1. [[owner |-> ranch[r].owner, going |-> ranch[r].deleting] EXCEPT !.going = TRUE]
          = [clone[r] EXCEPT !.going = TRUE]
      BY <1>a
    <3>2. clone[r] = [owner |-> ranch[r].owner, going |-> ranch[r].deleting]
      OBVIOUS
    <3> HIDE DEF clone
    <3>3. CASE r \in gone
      BY <1>8, <3>3, Zenon
    <3>4. CASE r \notin gone /\ r \in live
      <4>1. [owner |-> ranch'[r].owner, going |-> ranch'[r].deleting]
            = [[owner |-> ranch[r].owner, going |-> ranch[r].deleting] EXCEPT !.going = TRUE]
        BY <1>8, <3>4, Zenon
      <4> QED
        BY <3>1, <3>4, <4>1, Zenon
    <3>5. CASE r \notin gone /\ r \notin live
      BY <1>8, <3>2, <3>5, Zenon
    <3> QED
      BY <3>3, <3>4, <3>5
  <2> HIDE DEF clone
  <2> QED
    BY <2>1
<1>11. Contract!LetGo(c)
  <2>1. Contract!Knows({d \in CapiClusters : rec[d].pc = "create"},
                       {d \in CapiClusters : LostClone(d)} \cup {c},
                       {d \in CapiClusters : WasDeleted(d)})
    BY <1>1, <1>5 DEF Contract!Knows,
         Contract!LabelsSeen, OnlyLearns
  <2>2. [d \in CapiClusters |-> ContractCluster(capi[d])]'
        = [d \in CapiClusters |-> ContractCluster(capi[d])]
    BY <1>1
  <2> HIDE DEF clone
  <2>3. \E g \in SUBSET Contract!LiveClones(c) :
          [r \in Rids |-> [owner |-> ranch'[r].owner, going |-> ranch'[r].deleting]]
          = [r \in Rids |-> IF r \in g THEN Contract!NoClone
                            ELSE IF r \in Contract!LiveClones(c)
                            THEN [clone[r] EXCEPT !.going = TRUE]
                            ELSE clone[r]]
    BY <1>7, <1>10
  <2> QED
    BY ONLY <1>9, <2>1, <2>2, <2>3 DEF clone, Contract!LetGo, Contract!Knows
<1> QED
  BY <1>11 DEF Contract!Next, Contract!Manager

LEMMA CreateRancherRefines ==
    ASSUME Step, NEW c \in CapiClusters, CreateRancher(c)
    PROVE  Contract!Next
<1>1. /\ rec[c].pc = "create" /\ UNCHANGED <<capi, nsCache>> /\ rec'[c].pc = "outer"
  BY DEF CreateRancher, ToOuter, Idle, cache, Step, Invs, TypeOK
<1>2. PICK r \in FreshRids(c) :
         ranch' = [ranch EXCEPT ![r] =
                      [NoRanch EXCEPT !.exists = TRUE, !.rv = 1, !.fins = {"turtles"},
                         !.owner = c, !.madeFor = rec[c].hand.uid]]
  BY DEF CreateRancher
<1>3. r \in Rids /\ ranch[r] = NoRanch
  BY DEF FreshRids, Step, Invs, CopiesCoherent, RanchCopies
<1>4. /\ ranch[r].owner = None /\ ranch[r].deleting = FALSE
      /\ ranch'[r].owner = c /\ ranch'[r].deleting = FALSE
      /\ \A q \in Rids \ {r} : ranch'[q] = ranch[q]
  BY <1>2, <1>3 DEF NoRanch, Step, Invs, TypeOK
<1>5. OnlyLearns({}, {})
  BY <1>1, <1>4, Learning
<1>6. Contract!Knows({d \in CapiClusters : rec[d].pc = "create"} \ {c},
                     {d \in CapiClusters : LostClone(d)},
                     {d \in CapiClusters : WasDeleted(d)})
  BY <1>1, <1>5 DEF Contract!Knows, Contract!LabelsSeen, OnlyLearns
<1> DEFINE clone == [q \in Rids |-> [owner |-> ranch[q].owner, going |-> ranch[q].deleting]]
<1>7. /\ clone[r] = Contract!NoClone
      /\ clone' = [clone EXCEPT ![r] = [owner |-> c, going |-> FALSE]]
  BY <1>3, <1>4 DEF Contract!NoClone
<1>8. \E n \in Rids : /\ clone[n] = Contract!NoClone
                      /\ clone' = [clone EXCEPT ![n] = [owner |-> c, going |-> FALSE]]
  BY <1>3, <1>7
<1> HIDE DEF clone
<1>9. UNCHANGED [d \in CapiClusters |-> ContractCluster(capi[d])]
  BY <1>1 DEF ContractCluster
<1>10. c \in {d \in CapiClusters : rec[d].pc = "create"}
  BY <1>1
<1>11. Contract!Import(c)
  BY ONLY <1>6, <1>8, <1>9, <1>10 DEF Contract!Import, Contract!Knows, clone
<1> QED
  BY <1>11 DEF Contract!Next, Contract!Manager

-----------------------------------------------------------------------------
(* All steps. *)

\* The uncached read finds that the cluster asks for import.
LEMMA ConfirmRefines ==
    ASSUME Invs, TypeOK', Next, NEW c \in CapiClusters,
           rec[c].pc # "create", rec'[c].pc = "create"
    PROVE  Contract!Next
<1>1. Confirm(c)
  BY InformedStep DEF Invs, Learns
<1>2. /\ UNCHANGED <<capi, ranch, nsCache>>
      /\ \A d \in CapiClusters \ {c} : rec'[d] = rec[d]
  BY <1>1 DEF Confirm, ToOuter, server, cache, Invs, TypeOK
<1> DEFINE read == Decoded(rec[c].hand, capi[c])
           seen == ContractCluster(capi[c])
<1>3. capi[c].exists /\ ShouldAutoImport(read, nsCache) /\ capi[c] \in CapiObject
  <2>1. ToOuter(c, read, FALSE) => rec'[c].pc = "outer"
    BY DEF ToOuter, Idle, Invs, TypeOK
  <2> QED
    BY <1>1, <2>1, RecParts DEF Confirm, Invs
<1>4. /\ read.label = IF capi[c].label = "none" THEN rec[c].hand.label ELSE capi[c].label
      /\ capi[c].imported => read.imported
  BY RecParts, DecodedCapi DEF Invs
<1>5. /\ seen.here
      /\ \/ seen.label = "true" /\ ~seen.dismissed
         \/ seen.label # "false" /\ nsCache
         \/ seen.label = "none" /\ WasLabelled(c) /\ ~seen.dismissed
  <2>1. seen.here /\ seen.label = capi[c].label /\ (seen.dismissed <=> capi[c].imported)
    BY <1>3, Seen
  <2> HIDE DEF read, seen
  <2>2. CASE read.label = "true" /\ ~read.imported
    BY <1>4, <2>1, <2>2 DEF WasLabelled
  <2>3. CASE read.label # "false" /\ nsCache
    BY <1>4, <2>1, <2>3
  <2> QED
    BY <1>3, <2>1, <2>2, <2>3 DEF ShouldAutoImport
<1> HIDE DEF read
<1>6. \A d \in CapiClusters :
         /\ LostClone(d)' => LostClone(d)
         /\ WasDeleted(d)' => WasDeleted(d)
         /\ WasLabelled(d)' => WasLabelled(d) \/ ContractCluster(capi'[d]).label = "true"
  <2>1. ASSUME NEW d \in CapiClusters
        PROVE  /\ LostClone(d)' => LostClone(d) \/ d \in {}
               /\ WasDeleted(d)' => WasDeleted(d) \/ d \in {}
               /\ WasLabelled(d)' =>
                     WasLabelled(d) \/ ContractCluster(capi'[d]).label = "true"
    BY <1>2, NotInvented
  <2> QED
    BY <2>1
<1>7. Contract!Promise(c)
  BY <1>2, <1>5, <1>6 DEF Contract!Promise, Contract!Asks, Contract!AsksBy, Contract!Knows,
     Contract!LabelsSeen
<1> QED
  BY <1>7 DEF Contract!Next, Contract!Manager

LEMMA StepRefines ==
    ASSUME Step
    PROVE  Contract!Next
<1> USE DEF server, cache
<1>1. ASSUME NEW c \in CapiClusters,
             AddFinalizer(c) \/ Annotate(c) \/ ReleaseCapi(c) \/ OuterPatch(c)
      PROVE  Contract!Next
  BY <1>1, AddFinalizerRefines, AnnotateRefines, ReleaseCapiRefines, OuterPatchRefines
<1>2. ASSUME NEW c \in CapiClusters,
             ReleaseRancher(c) \/ DeleteRanchers(c) \/ PatchRancher(c) \/ CreateRancher(c)
      PROVE  Contract!Next
  BY <1>2, ReleaseRancherRefines, DeleteRanchersRefines, PatchRancherRefines,
     CreateRancherRefines
<1>3. ASSUME NEW c \in CapiClusters,
             \/ Begin(c) \/ BeginMissing(c) \/ SyncCapi(c) \/ Resync(c)
             \/ AddFinalizerFails(c) \/ EarlyReturn(c) \/ PickRancher(c) \/ NoRancher(c)
             \/ AnnotateFails(c) \/ ReleaseRancherFails(c) \/ DeleteRanchersFails(c)
             \/ ReleaseCapiFails(c) \/ Register(c) \/ PatchRancherFails(c)
             \/ Confirm(c) \/ ConfirmFails(c) \/ CreateRancherFails(c)
             \/ OuterPatchFails(c)
      PROVE  UNCHANGED <<capi, ranch>>
  BY <1>3 DEF Begin, BeginMissing, SyncCapi, Resync, AddFinalizerFails, EarlyReturn,
     PickRancher, NoRancher, AnnotateFails, ReleaseRancherFails, DeleteRanchersFails,
     ReleaseCapiFails, Register, PatchRancherFails, Confirm, ConfirmFails,
     CreateRancherFails, OuterPatchFails
<1>4. ASSUME \/ SyncNamespace \/ Restart \/ \E r \in Rids : SyncRancher(r)
             \/ \E b \in NsLabels : SetNamespaceLabel(b)
      PROVE  UNCHANGED <<capi, ranch>>
  BY <1>4 DEF SyncNamespace, Restart, SyncRancher, SetNamespaceLabel
<1> HIDE DEF server, cache
<1>5. CASE Turtles
  BY <1>1, <1>2, <1>3, <1>4, <1>5, RanchWritesRefine, UnseenStep DEF Turtles, ReconcileStep
<1>6. CASE Environment
  BY <1>4, <1>6, CreateCapiRefines, DeleteCapiRefines, SetLabelRefines, OthersRefine,
     RanchWritesRefine, UserDeletesRefines, UnseenStep DEF Environment
<1> QED
  BY <1>5, <1>6 DEF Step, Next

LEMMA InitRefines ==
    ASSUME Init
    PROVE  InformedInv /\ StoreInv /\ Contract!Init
<1>1. PICK l \in [CapiClusters -> Labels] :
         \A c \in CapiClusters :
            capi[c] = [NoCapi EXCEPT !.exists = TRUE, !.uid = 1, !.rv = 1,
                         !.fins = {"capi"}, !.cpReady = TRUE, !.label = l[c]]
  <2> DEFINE New(v) == [NoCapi EXCEPT !.exists = TRUE, !.uid = 1, !.rv = 1,
                          !.fins = {"capi"}, !.cpReady = TRUE, !.label = v]
             l == [c \in CapiClusters |-> capi[c].label]
  <2>1. \A v \in Labels : New(v).label = v
    BY DEF NoCapi
  <2> HIDE DEF New
  <2>2. \A c \in CapiClusters : \E v \in Labels : capi[c] = New(v)
    BY DEF Init, New
  <2>3. l \in [CapiClusters -> Labels] /\ \A c \in CapiClusters : capi[c] = New(l[c])
    BY <2>1, <2>2
  <2> QED
    BY <2>3 DEF New
<1>2. \A c \in CapiClusters : /\ capi[c].exists /\ ~capi[c].deleting /\ ~capi[c].imported
                              /\ "turtles" \notin capi[c].fins /\ capi[c].label = l[c]
                              /\ capi[c] \in CapiObject
                              /\ l[c] \in Contract!LabelValues
  <2> SUFFICES ASSUME NEW c \in CapiClusters
               PROVE  /\ capi[c].exists /\ ~capi[c].deleting /\ ~capi[c].imported
                      /\ "turtles" \notin capi[c].fins /\ capi[c].label = l[c]
                      /\ capi[c] \in CapiObject
                      /\ l[c] \in Contract!LabelValues
    OBVIOUS
  <2>1. l[c] \in {"none", "true", "false"} /\ l[c] \in Contract!LabelValues
    BY ConstantsAssumption DEF Contract!LabelValues
  <2>2. PICK v \in {"none", "true", "false"} :
           /\ v = l[c]
           /\ capi[c] = [NoCapi EXCEPT !.exists = TRUE, !.uid = 1, !.rv = 1,
                           !.fins = {"capi"}, !.cpReady = TRUE, !.label = v]
    BY <1>1, <2>1
  <2>3. capi[c] \in CapiObject
    BY TypeInit, RecParts
  <2>4. /\ capi[c].exists /\ ~capi[c].deleting /\ ~capi[c].imported
        /\ "turtles" \notin capi[c].fins /\ capi[c].label = v
    BY <2>2 DEF NoCapi
  <2> QED
    BY <2>1, <2>2, <2>3, <2>4
<1>3. \A r \in Rids : /\ ~ranch[r].exists /\ ~ranch[r].deleting /\ ranch[r].owner = None
                      /\ ranch[r].deleting = FALSE
                      /\ ranchCache[r] = ranch[r]
  BY DEF Init, NoRanch
<1>4. \A c \in CapiClusters : /\ rec[c].pc = "idle" /\ rec[c].hand = rec[c].base
                              /\ ~rec[c].rc.deleting /\ ~rec[c].hand.deleting
                              /\ capiCache[c] = capi[c] /\ rec[c].hand.label = "none"
  BY DEF Init, Idle, NoRanch, NoCapi
<1>5. InformedInv
  BY <1>4 DEF InformedInv, Informed, Untouched
<1>6. StoreInv
  BY <1>2, <1>3 DEF StoreInv, Live, LiveOf
<1>7. \A c \in CapiClusters :
         ~LostClone(c) /\ ~WasDeleted(c) /\ (WasLabelled(c) <=> capi[c].label = "true")
  BY <1>2, <1>3, <1>4 DEF LostClone, WasDeleted, WasLabelled, Unsaved
<1>8. ASSUME NEW c \in CapiClusters
      PROVE  ContractCluster(capi[c]) = [Contract!NoCluster EXCEPT !.here = TRUE, !.label = l[c]]
  <2> DEFINE k == [Contract!NoCluster EXCEPT !.here = TRUE, !.label = l[c]]
  <2>1. /\ k \in Contract!Cluster /\ k.here /\ ~k.going /\ ~k.held /\ ~k.dismissed
        /\ k.label = l[c]
    BY <1>2 DEF Contract!NoCluster, Contract!Cluster
  <2> HIDE DEF k
  <2>2. ContractCluster(capi[c]) = k
    BY <1>2, <2>1, SeenAs
  <2> QED
    BY <2>2 DEF k
<1>9. nsCache \in BOOLEAN
  BY ConstantsAssumption DEF Init
<1>10. l \in [CapiClusters -> Contract!LabelValues]
  BY <1>2
<1>11. \A c \in CapiClusters : ContractCluster(capi[c]).label = "true" <=> WasLabelled(c)
  BY <1>2, <1>7 DEF ContractCluster
<1>12. Contract!Init
  BY <1>3, <1>4, <1>7, <1>8, <1>9, <1>10, <1>11 DEF Contract!Init, Contract!NoClone
<1> QED
  BY <1>5, <1>6, <1>12

\* The controllers implement the contract, for any number of clusters, however
\* old the caches and copies are, whichever calls fail and wherever the manager
\* stops (import_controller.go:125-266, cleanup_controller.go:95-120).
THEOREM ContractIsKept == Spec => KeepsContract
<1> DEFINE Inv == ReleaseInv /\ InformedInv /\ StoreInv
<1>1. Init => Inv /\ Contract!Init
  <2> SUFFICES ASSUME Init PROVE Inv /\ Contract!Init
    OBVIOUS
  <2>1. ReleaseInv
    BY DEF Init, ReleaseInv, Justified, Holds, Idle, NoCapi
  <2> QED
    BY <2>1, InitRefines
<1>2. TypeOK /\ TypeOK' /\ CopiesCoherent /\ Inv /\ [Next]_vars
      => Inv' /\ [Contract!Next]_(Contract!vars)
  <2>1. ASSUME TypeOK, TypeOK', CopiesCoherent, Inv, Next PROVE Inv' /\ Contract!Next
    <3>1. Invs
      BY <2>1 DEF Invs
    <3>2. Inv'
      BY <2>1, JustifiedStep, InformedStep, StoreStep
    <3>3. Contract!Next
      BY <2>1, <3>1, StepRefines, ConfirmRefines DEF Step
    <3> QED
      BY <3>2, <3>3
  <2>2. ASSUME UNCHANGED vars PROVE UNCHANGED Contract!vars
    BY <2>2 DEF vars, server, cache, Contract!vars, Contract!knowledge, ContractCluster,
       LostClone, Unsaved, WasDeleted, WasLabelled
  <2>3. ASSUME Inv, UNCHANGED vars PROVE Inv'
    BY <2>3 DEF vars, server, cache, ReleaseInv, Justified, LetGo, Holds, Live, LiveOf,
       InformedInv, Informed, Untouched, Unsaved, StoreInv
  <2> QED
    BY <2>1, <2>2, <2>3
<1> QED
  BY <1>1, <1>2, TypeCorrect, CopiesAreCoherent, PTL DEF Spec, KeepsContract, Contract!Spec
=============================================================================
