------------------------------- MODULE UIPlugin -------------------------------
(***************************************************************************)
(* The UIPlugin that the chart installs beside Turtles is moved to the     *)
(* namespace Rancher looks in (internal/controllers/uiplugin_controller.go)*)
(* The copy belongs to the ClusterRole of Turtles, so that an uninstall    *)
(* takes it along.                                                         *)
(***************************************************************************)
EXTENDS Naturals

CONSTANTS
    MaxWrites,  \* bound: installs, uninstalls and upgrades of the chart
    MaxFaults   \* bound: failing calls and restarts

ASSUME UIPluginAssumption == MaxWrites \in Nat /\ MaxFaults \in Nat

VARIABLES
    source,     \* version of the UIPlugin in Turtles' namespace, 0 if there is none
    going,      \* the source is being deleted
    copy,       \* the UIPlugin in cattle-ui-plugin-system
    role,       \* the ClusterRole: which one there is, 0 if there is none
    due,        \* there is a request for the source
    rec,        \* the reconciliation, and what it has read
    used        \* how much of each bound has been used

vars == <<source, going, copy, role, due, rec, used>>

Steps  == {"idle", "role", "apply", "delete"}
NoCopy == [version |-> 0, owner |-> 0]
Idle   == [pc |-> "idle", version |-> 0, role |-> 0]

TypeOK ==
    /\ source \in Nat /\ role \in Nat
    /\ going \in BOOLEAN /\ (going => source # 0)
    /\ copy \in [version: Nat, owner: Nat]
    /\ copy.version = 0 <=> copy = NoCopy
    /\ due \in BOOLEAN
    /\ rec \in [pc: Steps, version: Nat, role: Nat]
    /\ used \in [writes: Nat, faults: Nat]

Fault == used.faults < MaxFaults /\ used' = [used EXCEPT !.faults = @ + 1]

\* Versions and roles are told apart by the count of writes.
Write == used.writes < MaxWrites /\ used' = [used EXCEPT !.writes = @ + 1]
Fresh == used.writes + 1

-----------------------------------------------------------------------------
(* Reconcile.                                                               *)

\* The source is read from the API server: it may be gone, or going.
Begin ==
    /\ due /\ rec.pc = "idle"
    /\ due' = FALSE
    /\ rec' = IF source = 0 \/ going THEN Idle ELSE [Idle EXCEPT !.pc = "role", !.version = source]
    /\ UNCHANGED <<source, going, copy, role, used>>

\* An error, if there is no role, brings the request back.
GetRole ==
    /\ rec.pc = "role"
    /\ IF role = 0 THEN rec' = Idle /\ due' = TRUE
       ELSE rec' = [rec EXCEPT !.pc = "apply", !.role = role] /\ UNCHANGED due
    /\ UNCHANGED <<source, going, copy, role, used>>

\* Mutant: the copy has no owner.
MutDestination == [version |-> rec.version, owner |-> 0]

\* The spec that was read, and the role as its owner.
Destination == [version |-> rec.version, owner |-> rec.role]

\* Mutant: a copy that is there is left as it is.
MutApply ==
    /\ rec.pc = "apply"
    /\ copy' = IF copy = NoCopy THEN Destination ELSE copy
    /\ rec' = [rec EXCEPT !.pc = "delete"]
    /\ UNCHANGED <<source, going, role, due, used>>

\* Whatever the copy is like, and whoever owns its fields.
Apply ==
    /\ rec.pc = "apply"
    /\ copy' = Destination
    /\ rec' = [rec EXCEPT !.pc = "delete"]
    /\ UNCHANGED <<source, going, role, due, used>>

\* By name: not the version that was read.  If it is gone that is an error.
DeleteSource ==
    /\ rec.pc = "delete"
    /\ source' = IF going THEN source ELSE 0
    /\ rec' = Idle
    /\ due' = (due \/ source = 0)
    /\ UNCHANGED <<going, copy, role, used>>

\* Mutant: an error ends the reconciliation for good.
MutFails ==
    /\ rec.pc # "idle"
    /\ Fault
    /\ rec' = Idle
    /\ UNCHANGED <<source, going, copy, role, due>>

\* A call fails: the request comes back.
Fails ==
    /\ rec.pc # "idle"
    /\ Fault
    /\ rec' = Idle
    /\ due' = TRUE
    /\ UNCHANGED <<source, going, copy, role>>

\* The manager stops and starts: there is a request for what it lists.
Restart ==
    /\ Fault
    /\ rec' = Idle
    /\ due' = TRUE
    /\ UNCHANGED <<source, going, copy, role>>

-----------------------------------------------------------------------------
(* The chart, and the garbage collector.                                    *)

\* The manager of an earlier install has stopped.
Install ==
    /\ role = 0 /\ source = 0 /\ rec = Idle
    /\ Write
    /\ role' = Fresh /\ source' = Fresh /\ due' = TRUE
    /\ UNCHANGED <<going, copy, rec>>

\* The manager may go on for a while, and a source that is there may take its time.
Uninstall ==
    /\ role # 0
    /\ Write
    /\ role' = 0 /\ due' = TRUE
    /\ \/ source' = 0 /\ UNCHANGED going
       \/ source # 0 /\ going' = TRUE /\ UNCHANGED source
    /\ UNCHANGED <<copy, rec>>

Vanish ==
    /\ going
    /\ source' = 0 /\ going' = FALSE /\ due' = TRUE
    /\ UNCHANGED <<copy, role, rec, used>>

\* The source is changed, or made again.
Upgrade ==
    /\ role # 0
    /\ Write
    /\ source' = Fresh /\ due' = TRUE
    /\ UNCHANGED <<going, copy, role, rec>>

\* An object whose owner is not there is deleted.
CollectGarbage ==
    /\ copy.owner \notin {0, role}
    /\ copy' = NoCopy
    /\ UNCHANGED <<source, going, role, due, rec, used>>

-----------------------------------------------------------------------------

Init ==
    /\ source = 1 /\ role = 1 /\ going = FALSE
    /\ copy \in {NoCopy, [version |-> 1, owner |-> 1]}
    /\ due = TRUE
    /\ rec = Idle
    /\ used = [writes |-> 1, faults |-> 0]

Reconcile == Begin \/ GetRole \/ Apply \/ DeleteSource \/ Fails

Next ==
    \/ Reconcile \/ Restart
    \/ Install \/ Uninstall \/ Vanish \/ Upgrade \/ CollectGarbage

Spec == Init /\ [][Next]_vars

\* The manager and the garbage collector work.
FairSpec == Spec /\ WF_vars(Reconcile) /\ WF_vars(CollectGarbage)

-----------------------------------------------------------------------------
(* What the move promises.                                                  *)

\* The manager deletes a source only when the copy has what it has read there, so
\* that neither an error nor a restart loses the plugin, unless the chart was
\* uninstalled meanwhile (uiplugin_controller.go:98-123).
CopiedBeforeDeleted ==
    [][rec.pc = "delete" /\ source # 0 /\ source' = 0 /\ role' # 0 =>
          role # rec.role \/ copy = Destination]_vars

\* While the chart is installed the plugin is where it came from or at its
\* destination, there with the role of this installation as its owner and not of an
\* earlier one, whose garbage it would be (uiplugin_controller.go:71-125).
NeverLost == role # 0 /\ source = 0 => copy # NoCopy /\ copy.owner = role

\* While the chart is installed the plugin arrives, and its source goes
\* (uiplugin_controller.go:71-125).
MoveCompletes == <>[](role # 0) => <>[](source = 0 /\ copy # NoCopy)

\* An uninstall takes the copy along, even when the copy was on its way
\* (uiplugin_controller.go:103-107).
UninstallCleans == <>[](role = 0) => <>[](copy = NoCopy)

\* Said by the repository, not kept by the code: "Reconcile moves the UIPlugin"
\* (uiplugin_controller.go:71).  An upgrade between the read and the deletion is
\* deleted with the source.
LatestMoves ==
    [][rec.pc = "delete" /\ source' = 0 /\ role' # 0 => source = rec.version]_vars
=============================================================================
