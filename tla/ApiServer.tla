----------------------------- MODULE ApiServer -----------------------------
(***************************************************************************)
(* What the Kubernetes API server does with one stored object, as far as  *)
(* the Turtles controllers rely on it.  The server is not part of this     *)
(* repository: the operators below are the contract of the calls           *)
(* r.Client.Update, r.Client.Patch(MergeFromWithOptimisticLock) and        *)
(* Delete that the controllers make.                                       *)
(*                                                                         *)
(* A stored object is a record with at least the fields                    *)
(*   exists    is there such an object,                                    *)
(*   rv        its resource version (it never goes back, not even when     *)
(*             the object is deleted and created again),                   *)
(*   fins      its finalizers,                                             *)
(*   deleting  does it carry a deletion timestamp.                         *)
(***************************************************************************)
EXTENDS Naturals

\* An object marked for deletion is gone once its last finalizer is.
Settle(o) == IF o.deleting /\ o.fins = {} THEN [o EXCEPT !.exists = FALSE] ELSE o

\* The stored object after a write of `new` over `old`; a write that changes
\* nothing leaves the resource version alone.
Stored(old, new) ==
    IF new = old THEN old ELSE Settle([new EXCEPT !.rv = old.rv + 1])

\* Optimistic locking: the write names the resource version it was computed
\* from and is refused (Conflict, NotFound) when that is not the stored one.
Accepts(o, rv) == o.exists /\ o.rv = rv

\* A merge patch writes the fields in which `to` differs from `from`.
Merge(cur, from, to) ==
    [f \in DOMAIN cur |->
        IF f # "rv" /\ to[f] # from[f] THEN to[f] ELSE cur[f]]

\* Updates may not add a finalizer to an object that is being deleted.
ValidUpdate(o, new) == o.deleting => new.fins \subseteq o.fins

\* Delete sets the deletion timestamp; the finalizers then hold the object.
Deleted(o) == Stored(o, [o EXCEPT !.deleting = TRUE])
=============================================================================
