---------------------------- MODULE UIPluginProofs ----------------------------
(***************************************************************************)
(* The move of the UIPlugin does not lose it, for any number of installs,  *)
(* upgrades, failures and restarts.                                        *)
(*                                                                         *)
(* The reconciliation works with the role it has read, and the garbage     *)
(* collector goes by the role there is.  They agree while the chart is     *)
(* installed, because an install waits for the end of the manager before.  *)
(***************************************************************************)
EXTENDS UIPlugin, TLAPS

\* The role in hand is the one there is, if there is one, and a source that is going
\* belongs to a chart that was uninstalled.
SameRole ==
    /\ rec.pc \in {"apply", "delete"} => rec.role # 0 /\ role \in {0, rec.role}
    /\ going => role = 0

\* The copy is there before the source is deleted, and stays.
Copied == rec.pc = "delete" /\ role # 0 => copy = Destination

\* What is copied is a version of the plugin.
Versioned == rec.pc # "idle" => rec.version # 0

IInv == TypeOK /\ SameRole /\ Copied /\ Versioned /\ NeverLost

-----------------------------------------------------------------------------

LEMMA InitHolds == Init => IInv
  <1> SUFFICES ASSUME Init PROVE IInv
    OBVIOUS
  <1>1. rec = Idle /\ Idle \in [pc: Steps, version: Nat, role: Nat] /\ Idle.pc = "idle"
    BY DEF Init, Idle, Steps
  <1>2. copy \in [version: Nat, owner: Nat] /\ (copy.version = 0 <=> copy = NoCopy)
    BY DEF Init, NoCopy
  <1>3. used \in [writes: Nat, faults: Nat]
    BY DEF Init
  <1>4. source = 1 /\ role = 1 /\ going = FALSE /\ due = TRUE
    BY DEF Init
  <1> QED
    BY <1>1, <1>2, <1>3, <1>4 DEF IInv, TypeOK, SameRole, Copied, Versioned, NeverLost

\* Where a reconciliation may go.
LEMMA RecTypes ==
    ASSUME TypeOK, Next
    PROVE  rec' \in [pc: Steps, version: Nat, role: Nat]
  <1> USE DEF TypeOK, Steps
  <1>1. Idle \in [pc: Steps, version: Nat, role: Nat]
    BY DEF Idle
  <1>2. CASE Begin
    BY <1>2 DEF Begin, Idle
  <1>3. CASE GetRole
    BY <1>1, <1>3 DEF GetRole
  <1>4. CASE Apply
    BY <1>4 DEF Apply
  <1>5. CASE ~Begin /\ ~GetRole /\ ~Apply
    <2>1. rec' \in {rec, Idle}
      BY <1>5 DEF Next, Reconcile, DeleteSource, Fails, Restart, Install, Uninstall, Vanish,
                  Upgrade, CollectGarbage
    <2> QED
      BY <1>1, <2>1
  <1> QED
    BY <1>2, <1>3, <1>4, <1>5

\* Every step keeps the types; a source that is going is not there twice.
LEMMA TypeStep == TypeOK /\ Versioned /\ SameRole /\ [Next]_vars => TypeOK'
  <1> SUFFICES ASSUME TypeOK, Versioned, SameRole, [Next]_vars PROVE TypeOK'
    OBVIOUS
  <1> DEFINE CopyOK == copy \in [version: Nat, owner: Nat] /\ (copy.version = 0 <=> copy = NoCopy)
             Rest == /\ source \in Nat /\ role \in Nat
                     /\ going \in BOOLEAN /\ (going => source # 0)
                     /\ due \in BOOLEAN
                     /\ used \in [writes: Nat, faults: Nat]
  <1>1. CASE Next
    <2>1. rec' \in [pc: Steps, version: Nat, role: Nat]
      BY <1>1, RecTypes
    <2>2. CopyOK'
      <3>1. CASE Apply
        <4>1. /\ rec.version \in Nat /\ rec.role \in Nat /\ rec.version # 0
              /\ copy' = [version |-> rec.version, owner |-> rec.role]
          BY <3>1 DEF Apply, Destination, TypeOK, Versioned
        <4> QED
          BY <4>1 DEF NoCopy
      <3>2. CASE CollectGarbage
        BY <3>2 DEF CollectGarbage, NoCopy
      <3>3. CASE ~Apply /\ ~CollectGarbage
        <4>1. copy' = copy
          BY <1>1, <3>3 DEF Next, Reconcile, Begin, GetRole, DeleteSource, Fails, Restart,
                            Install, Uninstall, Vanish, Upgrade
        <4> QED
          BY <4>1 DEF TypeOK
      <3> QED
        BY <3>1, <3>2, <3>3
    <2>3. Rest'
      <3> USE DEF TypeOK
      <3>1. Fault => used' \in [writes: Nat, faults: Nat]
        BY DEF Fault
      <3>2. Write => used' \in [writes: Nat, faults: Nat] /\ Fresh \in Nat /\ Fresh # 0
        BY DEF Write, Fresh
      <3>3. CASE Begin
        BY <3>3 DEF Begin
      <3>4. CASE GetRole \/ Apply \/ CollectGarbage
        <4>1. /\ source' = source /\ role' = role /\ going' = going /\ used' = used
              /\ due' = TRUE \/ due' = due
          BY <3>4 DEF GetRole, Apply, CollectGarbage
        <4> QED
          BY <4>1
      <3>5. CASE DeleteSource
        BY <3>5 DEF DeleteSource
      <3>6. CASE Vanish
        BY <3>6 DEF Vanish
      <3>7. CASE Fails \/ Restart
        <4>1. /\ source' = source /\ role' = role /\ going' = going /\ Fault /\ due' = TRUE
          BY <3>7 DEF Fails, Restart
        <4> QED
          BY <3>1, <4>1
      <3>8. CASE Install
        BY <3>2, <3>8 DEF Install
      <3>9. CASE Upgrade
        BY <3>2, <3>9 DEF Upgrade
      <3>10. CASE Uninstall
        <4>0. role # 0 /\ going = FALSE /\ source \in Nat
          BY <3>10 DEF Uninstall, SameRole
        <4>1. /\ role' = 0 /\ due' = TRUE /\ Write
              /\ \/ source' = 0 /\ going' = FALSE
                 \/ source # 0 /\ going' = TRUE /\ source' = source
          BY <3>10, <4>0 DEF Uninstall
        <4> HIDE DEF TypeOK
        <4>2. going' \in BOOLEAN /\ (going' => source' # 0) /\ source' \in Nat
          <5>1. CASE source' = 0 /\ going' = FALSE
            <6>1. 0 \in Nat
              OBVIOUS
            <6> QED
              BY <5>1, <6>1, Zenon
          <5>2. CASE source # 0 /\ going' = TRUE /\ source' = source
            BY <4>0, <5>2, Zenon
          <5> QED
            BY <4>1, <5>1, <5>2, Zenon
        <4>3. used' \in [writes: Nat, faults: Nat]
          BY <3>2, <4>1
        <4> QED
          BY <4>1, <4>2, <4>3
      <3> QED
        BY <1>1, <3>3, <3>4, <3>5, <3>6, <3>7, <3>8, <3>9, <3>10 DEF Next, Reconcile
    <2> QED
      BY <2>1, <2>2, <2>3 DEF TypeOK
  <1>2. CASE UNCHANGED vars
    BY <1>2 DEF vars, TypeOK
  <1> QED
    BY <1>1, <1>2

\* Every step keeps the role, the copy and the plugin.
LEMMA MoveStep == IInv /\ [Next]_vars => IInv'
  <1> SUFFICES ASSUME IInv, [Next]_vars PROVE IInv'
    OBVIOUS
  <1>0. TypeOK'
    BY TypeStep DEF IInv
  <1> USE <1>0 DEF IInv, TypeOK, SameRole, Copied, Versioned, NeverLost
  <1>1. CASE Begin
    BY <1>1 DEF Begin, Idle
  <1>2. CASE GetRole
    <2>1. /\ source' = source /\ role' = role /\ going' = going /\ copy' = copy
          /\ rec'.pc = "idle" \/ (rec'.pc = "apply" /\ rec'.role = role /\ role # 0
                                   /\ rec'.version = rec.version)
      <3>1. CASE role = 0
        BY <1>2, <3>1 DEF GetRole, Idle
      <3>2. CASE role # 0
        BY <1>2, <3>2 DEF GetRole
      <3> QED
        BY <3>1, <3>2
    <2>2. SameRole' /\ Copied' /\ NeverLost'
      BY <2>1
    <2>3. Versioned'
      BY <1>2, <2>1 DEF GetRole
    <2> QED
      BY <2>2, <2>3
  <1>3. CASE Apply
    <2>1. /\ rec'.pc = "delete" /\ rec'.role = rec.role /\ rec'.version = rec.version
          /\ copy'.owner = rec.role /\ copy'.version = rec.version /\ copy' = Destination
      BY <1>3 DEF Apply, Destination
    <2>2. Destination' = Destination
      BY <2>1 DEF Destination
    <2> QED
      BY <1>3, <2>1, <2>2 DEF Apply, NoCopy
  <1>4. CASE DeleteSource
    <2>1. role # 0 => copy # NoCopy /\ copy.owner = role
      BY <1>4 DEF DeleteSource, Destination, NoCopy
    <2> QED
      BY <1>4, <2>1 DEF DeleteSource, Idle
  <1>5. CASE Fails \/ Restart
    BY <1>5 DEF Fails, Restart, Idle
  <1>6. CASE Install
    BY <1>6 DEF Install, Idle, Fresh
  <1>7. CASE Uninstall
    BY <1>7 DEF Uninstall
  <1>8. CASE Upgrade
    BY <1>8 DEF Upgrade, Fresh, Destination
  <1>9. CASE Vanish
    BY <1>9 DEF Vanish, Destination
  <1>10. CASE CollectGarbage
    BY <1>10 DEF CollectGarbage, Destination
  <1>11. CASE UNCHANGED vars
    BY <1>11 DEF vars, Destination
  <1> QED
    BY <1>1, <1>2, <1>3, <1>4, <1>5, <1>6, <1>7, <1>8, <1>9, <1>10, <1>11 DEF Next, Reconcile

\* The role in hand, the copy and the source agree at all times.
THEOREM UIPluginInvariant == Spec => []IInv
  BY InitHolds, MoveStep, PTL DEF Spec

\* The variables of the move keep their types (uiplugin_controller.go:71-126).
THEOREM UIPluginTypes == Spec => []TypeOK
  <1>1. IInv => TypeOK
    BY DEF IInv
  <1> QED
    BY <1>1, UIPluginInvariant, PTL

\* The plugin is never lost on its way, whatever fails and whoever acts between two
\* calls: the owner of the copy is the role of this installation
\* (uiplugin_controller.go:71-125).
THEOREM PluginIsNeverLost == Spec => []NeverLost
  <1>1. IInv => NeverLost
    BY DEF IInv
  <1> QED
    BY <1>1, UIPluginInvariant, PTL

\* The source is deleted only when the copy has what was read there
\* (uiplugin_controller.go:98-123).
THEOREM CopiedFirst == Spec => CopiedBeforeDeleted
  <1> DEFINE A == rec.pc = "delete" /\ source # 0 /\ source' = 0 /\ role' # 0 =>
                     role # rec.role \/ copy = Destination
  <1>1. IInv /\ [Next]_vars => [A]_vars
    BY DEF IInv, SameRole, Copied
  <1> QED
    BY <1>1, UIPluginInvariant, PTL DEF Spec, CopiedBeforeDeleted

\* When nothing is left to be done, the plugin of a chart that is installed is at its
\* destination only, with an owner; one that was uninstalled has left at most a copy
\* that the garbage collector takes.
Settled ==
    ~due /\ rec.pc = "idle" =>
        IF role # 0 THEN source = 0 /\ copy # NoCopy /\ copy.owner = role
        ELSE copy = NoCopy \/ copy.owner \notin {0, role}

\* A source that is there is due to be moved, or being moved; a copy has an owner.
Moving ==
    /\ role # 0 /\ source # 0 => due \/ rec.pc # "idle"
    /\ copy # NoCopy => copy.owner # 0

LEMMA MovingStep ==
    ASSUME IInv, Moving, [Next]_vars
    PROVE  Moving'
  <1> USE DEF IInv, TypeOK, SameRole, Moving
  <1>1. CASE Begin
    BY <1>1 DEF Begin, Idle
  <1>2. CASE GetRole
    BY <1>2 DEF GetRole, Idle
  <1>3. CASE Apply
    <2>1. copy'.owner = rec.role /\ rec'.pc = "delete" /\ rec.role # 0
      BY <1>3 DEF Apply, Destination
    <2> QED
      BY <2>1
  <1>4. CASE DeleteSource
    BY <1>4 DEF DeleteSource
  <1>5. CASE Fails \/ Restart
    BY <1>5 DEF Fails, Restart
  <1>6. CASE Install \/ Uninstall \/ Upgrade \/ Vanish
    BY <1>6 DEF Install, Uninstall, Upgrade, Vanish
  <1>7. CASE CollectGarbage
    BY <1>7 DEF CollectGarbage
  <1>8. CASE UNCHANGED vars
    BY <1>8 DEF vars
  <1> QED
    BY <1>1, <1>2, <1>3, <1>4, <1>5, <1>6, <1>7, <1>8 DEF Next, Reconcile

\* No move ends half-way, whatever fails and whoever acts between two calls, and an
\* uninstall leaves nothing that would stay (uiplugin_controller.go:71-125).
THEOREM MoveSettles == Spec => []Settled
  <1>1. Init => Moving
    BY DEF Init, Moving
  <1>2. IInv /\ Moving /\ [Next]_vars => Moving'
    BY MovingStep
  <1>3. IInv /\ Moving => Settled
    BY DEF IInv, Moving, Settled, NeverLost
  <1> QED
    BY <1>1, <1>2, <1>3, UIPluginInvariant, PTL DEF Spec
=============================================================================
