------------------------------ MODULE AgentProofs ------------------------------
(***************************************************************************)
(* The registration of the agent, for a manifest of any length and any     *)
(* number of failures, changes and deletions.                              *)
(***************************************************************************)
EXTENDS AgentRegistration, TLAPS

\* Where the reconciliation is says what it has seen, and what it has seen still
\* holds: a job that is gone does not come back, and only a job sweeps.
SeenHolds ==
    /\ ~job => \A i \in Places : remote[i] # "old"
    /\ rec.pc \in {"verify", "create"} => ~job
    /\ rec.pc = "verify" => \A i \in Places : i < rec.at => remote[i] # "swept"
    /\ rec.pc = "create" => \A i \in Places : remote[i] # "swept"
    /\ rec.pc \in {"fleetNew", "patch"} => oldFleet = "absent"
    /\ rec.pc = "patch" => newFleet

IInv == TypeOK /\ SeenHolds

\* The manifest has a first object.
LEMMA AtType == \A step \in Steps : At(step) \in [pc: Steps, at: Places]
  <1>1. 1 \in Places
    BY AgentAssumption DEF Places
  <1> QED BY <1>1 DEF At

LEMMA InitHolds == Init => IInv
  <1> USE AgentAssumption
  <1>1. ASSUME Init PROVE TypeOK
    <2>1. remote \in [Places -> Remote]
      BY <1>1 DEF Init, Remote, Places
    <2>2. rec \in [pc: Steps, at: Places]
      BY <1>1, AtType DEF Init, Steps
    <2> QED BY <1>1, <2>1, <2>2 DEF Init, TypeOK, Tokens
  <1>2. ASSUME Init PROVE SeenHolds
    <2>1. ~job => \A i \in Places : remote[i] # "old"
      BY <1>2 DEF Init
    <2> QED BY <1>2, <2>1 DEF Init, SeenHolds, At
  <1> QED BY <1>1, <1>2 DEF IInv

\* The position stays in the manifest.
LEMMA AdvanceType ==
    ASSUME rec \in [pc: Steps, at: Places], NEW next \in Steps, Advance(next)
    PROVE  rec' \in [pc: Steps, at: Places]
  <1>1. CASE rec.at < Objects
    <2>1. rec.at + 1 \in Places
      BY <1>1, AgentAssumption DEF Places
    <2> QED BY <1>1, <2>1 DEF Advance
  <1>2. CASE ~(rec.at < Objects)
    BY <1>2, AtType DEF Advance
  <1> QED BY <1>1, <1>2

\* Every step keeps the types.
LEMMA TypeStep == TypeOK /\ [Next]_vars => TypeOK'
  <1> SUFFICES ASSUME TypeOK, [Next]_vars PROVE TypeOK'
    OBVIOUS
  <1> DEFINE Typed(step) == step \in Steps /\ At(step) \in [pc: Steps, at: Places]
  <1>0. /\ Typed("idle") /\ Typed("trust") /\ Typed("token") /\ Typed("url")
        /\ Typed("jobs") /\ Typed("verify") /\ Typed("create") /\ Typed("patch")
        /\ Typed("fleet") /\ Typed("fleetGone") /\ Typed("fleetNew")
    BY AtType DEF Steps
  <1> USE <1>0 DEF TypeOK, Go, Requeue, remotes, rancher
  <1>1. CASE Begin
    <2>1. rec' \in [pc: Steps, at: Places]
      BY <1>1 DEF Begin
    <2> QED BY <1>1, <2>1 DEF Begin
  <1>2. CASE GetTrusted
    BY <1>2 DEF GetTrusted
  <1>3. CASE GetToken
    <2>1. token' \in Tokens /\ rec' \in [pc: Steps, at: Places] /\ due' \in BOOLEAN
      BY <1>3 DEF GetToken, Tokens
    <2> QED BY <1>3, <2>1 DEF GetToken
  <1>4. CASE Download
    BY <1>4 DEF Download
  <1>5. CASE CheckJobs
    BY <1>5 DEF CheckJobs
  <1>6. CASE Verify
    BY <1>6, AdvanceType DEF Verify
  <1>7. CASE Create
    <2>1. remote' \in [Places -> Remote]
      BY <1>7 DEF Create, Remote
    <2>2. rec' \in [pc: Steps, at: Places]
      BY <1>7, AdvanceType DEF Create
    <2> QED BY <1>7, <2>1, <2>2 DEF Create
  <1>8. CASE RemoveFleet
    BY <1>8 DEF RemoveFleet
  <1>9. CASE FleetGone
    BY <1>9 DEF FleetGone
  <1>10. CASE FleetNew
    BY <1>10 DEF FleetNew
  <1>11. CASE PatchRancher
    BY <1>11 DEF PatchRancher
  <1>12. CASE Fails
    BY <1>12 DEF Fails, Fault
  <1>13. CASE Restart
    BY <1>13 DEF Restart, Fault
  <1>14. CASE Resync \/ SyncToken \/ RancherStep
    <2>1. CASE SetReady
      <3>1. ready' \in BOOLEAN
        BY <2>1, Zenon DEF SetReady, Deployed
      <3> QED BY <2>1, <3>1 DEF SetReady
    <2>2. CASE Resync
      BY <2>2 DEF Resync
    <2>3. CASE SyncToken
      BY <2>3 DEF SyncToken
    <2>4. CASE SetManifestURL
      BY <2>4 DEF SetManifestURL, Tokens
    <2>5. CASE InstallFleet
      BY <2>5 DEF InstallFleet
    <2> QED BY <1>14, <2>1, <2>2, <2>3, <2>4, <2>5 DEF RancherStep
  <1>15. CASE FleetVanish \/ EndJob
    BY <1>15 DEF FleetVanish, EndJob
  <1>16. ASSUME NEW i \in Places, Sweep(i) \/ Vanish(i) PROVE TypeOK'
    <2>1. remote' \in [Places -> Remote]
      BY <1>16 DEF Sweep, Vanish, Remote
    <2> QED BY <1>16, <2>1 DEF Sweep, Vanish
  <1>17. ASSUME NEW i \in Places, DeleteRemote(i) PROVE TypeOK'
    <2>1. remote' \in [Places -> Remote]
      BY <1>17 DEF DeleteRemote, Remote
    <2> QED BY <1>17, <2>1 DEF DeleteRemote, Edit
  <1>18. CASE SetTrusted
    BY <1>18 DEF SetTrusted, Edit
  <1>19. CASE UNCHANGED vars
    BY <1>19 DEF vars
  <1> QED
    BY <1>1, <1>2, <1>3, <1>4, <1>5, <1>6, <1>7, <1>8, <1>9, <1>10, <1>11, <1>12, <1>13,
       <1>14, <1>15, <1>16, <1>17, <1>18, <1>19
    DEF Next, Reconcile, RemoteStep

\* Every step keeps what was seen.
LEMMA SeenStep == IInv /\ [Next]_vars => SeenHolds'
  <1> SUFFICES ASSUME IInv, [Next]_vars PROVE SeenHolds'
    OBVIOUS
  <1> USE AgentAssumption DEF IInv, TypeOK, SeenHolds, Places, Remote, Steps, At, Go, Return,
                              Requeue, remotes, rancher
  <1>1. CASE Begin
    BY <1>1 DEF Begin
  <1>2. CASE GetTrusted
    BY <1>2 DEF GetTrusted
  <1>3. CASE GetToken
    BY <1>3 DEF GetToken
  <1>4. CASE Download
    BY <1>4 DEF Download
  <1>5. CASE CheckJobs
    BY <1>5 DEF CheckJobs
  <1>6. CASE Verify
    BY <1>6 DEF Verify, Advance
  <1>7. CASE Create
    BY <1>7 DEF Create, Advance
  <1>8. CASE RemoveFleet
    BY <1>8 DEF RemoveFleet
  <1>9. CASE FleetGone
    BY <1>9 DEF FleetGone
  <1>10. CASE FleetNew
    BY <1>10 DEF FleetNew
  <1>11. CASE PatchRancher
    BY <1>11 DEF PatchRancher
  <1>12. CASE Fails
    BY <1>12 DEF Fails
  <1>13. CASE Restart
    BY <1>13 DEF Restart
  <1>14. CASE Resync \/ SyncToken \/ RancherStep
    BY <1>14 DEF Resync, SyncToken, RancherStep, SetManifestURL, SetReady, InstallFleet
  <1>15. CASE FleetVanish \/ EndJob
    BY <1>15 DEF FleetVanish, EndJob
  <1>16. ASSUME NEW i \in Places, Sweep(i) \/ Vanish(i) PROVE SeenHolds'
    BY <1>16 DEF Sweep, Vanish
  <1>17. ASSUME NEW i \in Places, DeleteRemote(i) PROVE SeenHolds'
    BY <1>17 DEF DeleteRemote
  <1>18. CASE SetTrusted
    BY <1>18 DEF SetTrusted
  <1>19. CASE UNCHANGED vars
    BY <1>19 DEF vars
  <1> QED
    BY <1>1, <1>2, <1>3, <1>4, <1>5, <1>6, <1>7, <1>8, <1>9, <1>10, <1>11, <1>12, <1>13,
       <1>14, <1>15, <1>16, <1>17, <1>18, <1>19
    DEF Next, Reconcile, RemoteStep

\* The variables of the registration keep their types; the position in the manifest
\* never leaves it (helpers.go:214-283).
THEOREM AgentTypesCorrect == Spec => []TypeOK
  <1>1. Init => TypeOK
    BY InitHolds DEF IInv
  <1> QED BY <1>1, TypeStep, PTL DEF Spec

\* What a reconciliation has seen holds until it ends.
THEOREM WhatWasSeenHolds == Spec => []IInv
  <1>1. IInv /\ [Next]_vars => IInv'
    BY TypeStep, SeenStep DEF IInv
  <1> QED BY <1>1, InitHolds, PTL DEF Spec

\* Nothing is created while an earlier import is cleaned up (helpers.go:235-268).
THEOREM CleanupIsRespected == Spec => []CleanupRespected
  <1>1. IInv => CleanupRespected
    BY DEF IInv, SeenHolds, CleanupRespected
  <1> QED BY <1>1, WhatWasSeenHolds, PTL

\* The annotation fleetNamespaceMigrated is true when it is set (helpers.go:177-212).
THEOREM MigrationIsTrue == Spec => MigratedIsTrue
  <1> DEFINE Moved == ~migrated /\ migrated' => oldFleet = "absent" /\ newFleet
  <1>1. ASSUME IInv, [Next]_vars PROVE Moved
    <2> SUFFICES ASSUME ~migrated, migrated' PROVE oldFleet = "absent" /\ newFleet
      OBVIOUS
    <2>1. rec.pc = "patch"
      BY <1>1 DEF Next, Reconcile, Begin, GetTrusted, GetToken, Download, CheckJobs, Verify,
        Create, RemoveFleet, FleetGone, FleetNew, PatchRancher, Fails, Restart, Resync,
        SyncToken, RemoteStep, FleetVanish, EndJob, Sweep, Vanish, RancherStep,
        SetManifestURL, SetReady, InstallFleet, SetTrusted, DeleteRemote, vars, rancher
    <2> QED BY <1>1, <2>1 DEF IInv, SeenHolds
  <1>2. IInv /\ [Next]_vars => [Moved]_vars
    BY <1>1
  <1> QED BY <1>2, WhatWasSeenHolds, PTL DEF Spec, MigratedIsTrue

-----------------------------------------------------------------------------
(* The migration of Fleet is not forgotten.                                 *)

\* A cluster that is ready and whose Fleet has not moved is due to be looked at, or a
\* reconciliation is on the move.
MigrationPursued ==
    ready /\ ~migrated => due \/ rec.pc \in {"fleet", "fleetGone", "fleetNew", "patch"}

\* However often the namespace was found half-way or the annotation was refused, the
\* next attempt is on its way, without a resync (helpers.go:177-212,
\* import_controller.go:351-375).
THEOREM MigrationIsPursued == Spec => []MigrationPursued
  <1>1. Init => MigrationPursued
    BY DEF Init, MigrationPursued
  <1>2. MigrationPursued /\ [Next]_vars => MigrationPursued'
    <2> SUFFICES ASSUME MigrationPursued, [Next]_vars PROVE MigrationPursued'
      OBVIOUS
    <2> USE DEF MigrationPursued, At, Go, Return, Requeue, remotes, rancher
    <2>1. CASE Begin
      BY <2>1 DEF Begin
    <2>2. CASE GetTrusted \/ GetToken \/ Download \/ CheckJobs
      BY <2>2 DEF GetTrusted, GetToken, Download, CheckJobs
    <2>3. CASE Verify \/ Create
      <3>1. /\ ready' = ready /\ migrated' = migrated
            /\ due' = TRUE \/ (due' = due /\ rec.pc \in {"verify", "create"})
        BY <2>3 DEF Verify, Create
      <3> QED BY <3>1
    <2>4. CASE RemoveFleet \/ FleetGone \/ FleetNew \/ PatchRancher
      <3>1. due' = TRUE \/ rec'.pc \in {"fleetGone", "fleetNew", "patch"}
        <4>1. CASE RemoveFleet
          BY <4>1 DEF RemoveFleet
        <4>2. CASE FleetGone
          BY <4>2 DEF FleetGone
        <4>3. CASE FleetNew
          BY <4>3 DEF FleetNew
        <4>4. CASE PatchRancher
          BY <4>4 DEF PatchRancher
        <4> QED BY <2>4, <4>1, <4>2, <4>3, <4>4
      <3> QED BY <3>1
    <2>5. CASE Fails \/ Restart \/ Resync
      BY <2>5 DEF Fails, Restart, Resync
    <2>6. CASE SyncToken \/ SetManifestURL \/ SetReady \/ InstallFleet
      BY <2>6 DEF SyncToken, SetManifestURL, SetReady, InstallFleet
    <2>7. CASE FleetVanish \/ EndJob \/ SetTrusted
      BY <2>7 DEF FleetVanish, EndJob, SetTrusted
    <2>8. ASSUME NEW i \in Places, Sweep(i) \/ Vanish(i) \/ DeleteRemote(i)
          PROVE  MigrationPursued'
      BY <2>8 DEF Sweep, Vanish, DeleteRemote
    <2>9. CASE UNCHANGED vars
      BY <2>9 DEF vars
    <2> QED
      BY <2>1, <2>2, <2>3, <2>4, <2>5, <2>6, <2>7, <2>8, <2>9
      DEF Next, Reconcile, RemoteStep, RancherStep
  <1> QED BY <1>1, <1>2, PTL DEF Spec
=============================================================================
