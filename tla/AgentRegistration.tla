--------------------------- MODULE AgentRegistration ---------------------------
(***************************************************************************)
(* Rancher's agent on an imported cluster: what reconcileNormal            *)
(* (internal/controllers/import_controller.go) does for a Rancher cluster  *)
(* that exists, with the helpers of helpers.go.  One imported cluster; its *)
(* API server is called the remote one.                                    *)
(***************************************************************************)
EXTENDS Naturals

CONSTANTS
    Objects,    \* how many objects the agent's manifest has
    MaxEdits,   \* bound: changes of settings, deletions of remote objects
    MaxFaults   \* bound: failing calls and restarts

ASSUME AgentAssumption ==
    Objects \in Nat \ {0} /\ MaxEdits \in Nat /\ MaxFaults \in Nat

VARIABLES
    remote,     \* the manifest's objects on the remote API server
    job,        \* Rancher's cleanup job of an earlier import is there
    token,      \* the ClusterRegistrationToken ...
    seen,       \* ... as the informer cache has it
    trusted,    \* the settings agent-tls-mode and cacerts make sense
    ready,      \* condition Ready of the Rancher cluster
    migrated,   \* its annotation fleetNamespaceMigrated
    oldFleet,   \* the remote namespace fleet-addon-agent
    newFleet,   \* the remote namespace cattle-fleet-system is there
    due,        \* there is a request for the cluster
    rec,        \* its reconciliation
    used        \* how much of each bound has been used

remotes == <<remote, job, oldFleet, newFleet>>
rancher == <<token, seen, trusted, ready, migrated>>
vars == <<remotes, rancher, due, rec, used>>

-----------------------------------------------------------------------------

Places  == 1 .. Objects
\* "swept" is going by the hand of the cleanup job, "going" by another's; "old" is of
\* the earlier import.
Remote  == {"absent", "present", "old", "swept", "going"}
Tokens  == {"none", "bare", "ready"}     \* "ready": with a URL in its status
Steps   == {"idle", "trust", "token", "url", "jobs", "verify", "create",
            "fleet", "fleetGone", "fleetNew", "patch"}

TypeOK ==
    /\ remote \in [Places -> Remote]
    /\ job \in BOOLEAN
    /\ token \in Tokens /\ seen \in Tokens
    /\ trusted \in BOOLEAN /\ ready \in BOOLEAN /\ migrated \in BOOLEAN
    /\ oldFleet \in {"absent", "present", "going"} /\ newFleet \in BOOLEAN
    /\ due \in BOOLEAN
    /\ rec \in [pc: Steps, at: Places]
    /\ used \in [edits: Nat, faults: Nat]

At(step) == [pc |-> step, at |-> 1]

Fault == used.faults < MaxFaults /\ used' = [used EXCEPT !.faults = @ + 1]
Edit  == used.edits < MaxEdits /\ used' = [used EXCEPT !.edits = @ + 1]

\* The ways a reconciliation goes on or ends.
Go(step)   == rec' = At(step) /\ UNCHANGED due
Return     == rec' = At("idle") /\ UNCHANGED due
Requeue    == rec' = At("idle") /\ due' = TRUE

-----------------------------------------------------------------------------
(* reconcileNormal.                                                         *)

Begin ==
    /\ due /\ rec.pc = "idle"
    /\ due' = FALSE
    /\ rec' = At(IF ~ready THEN "trust" ELSE IF migrated THEN "idle" ELSE "fleet")
    /\ UNCHANGED <<remotes, rancher, used>>

\* getTrustedCAcert.
GetTrusted ==
    /\ rec.pc = "trust"
    /\ IF trusted THEN Go("token") ELSE Requeue
    /\ UNCHANGED <<remotes, rancher, used>>

\* getClusterRegistrationManifest.  The token is read from the cache, so it may be
\* there already when it is created.
GetToken ==
    /\ rec.pc = "token"
    /\ token' = IF seen = "none" /\ token = "none" THEN "bare" ELSE token
    /\ IF seen = "ready" THEN Go("url") ELSE Requeue
    /\ UNCHANGED <<remotes, seen, trusted, ready, migrated, used>>

\* downloadManifest.
Download ==
    /\ rec.pc = "url"
    /\ Go("jobs")
    /\ UNCHANGED <<remotes, rancher, used>>

\* validateImportReadiness: first the job, then every object.
CheckJobs ==
    /\ rec.pc = "jobs"
    /\ IF job THEN Requeue ELSE Go("verify")
    /\ UNCHANGED <<remotes, rancher, used>>

\* Mutant: the last object is not the last.
MutAdvance(next) ==
    IF rec.at <= Objects THEN rec' = [rec EXCEPT !.at = @ + 1] ELSE rec' = At(next)

Advance(next) ==
    IF rec.at < Objects THEN rec' = [rec EXCEPT !.at = @ + 1] ELSE rec' = At(next)

\* Mutant: an object that is there counts as ready, going or not.
MutVerify ==
    /\ rec.pc = "verify"
    /\ Advance("create") /\ UNCHANGED due
    /\ UNCHANGED <<remotes, rancher, used>>

\* checkDeletion.
Verify ==
    /\ rec.pc = "verify"
    /\ IF remote[rec.at] \in {"swept", "going"} THEN Requeue
       ELSE Advance("create") /\ UNCHANGED due
    /\ UNCHANGED <<remotes, rancher, used>>

\* Mutant: an object that exists means that the rest does.
MutCreate ==
    /\ rec.pc = "create"
    /\ remote' = [remote EXCEPT ![rec.at] = IF @ = "absent" THEN "present" ELSE @]
    /\ IF remote[rec.at] = "absent" THEN Advance("idle") ELSE rec' = At("idle")
    /\ UNCHANGED <<job, oldFleet, newFleet, rancher, due, used>>

\* createObject: one that exists is left as it is.
Create ==
    /\ rec.pc = "create"
    /\ remote' = [remote EXCEPT ![rec.at] = IF @ = "absent" THEN "present" ELSE @]
    /\ Advance("idle")
    /\ UNCHANGED <<job, oldFleet, newFleet, rancher, due, used>>

\* removeFleetNamespace, its three reads and what follows them.

\* Mutant: when the namespace is gone there is nothing to do.
MutRemoveFleet ==
    /\ rec.pc = "fleet"
    /\ oldFleet' = IF oldFleet = "present" THEN "going" ELSE oldFleet
    /\ IF oldFleet = "absent" THEN Return ELSE Go("fleetGone")
    /\ UNCHANGED <<remote, job, newFleet, rancher, used>>

RemoveFleet ==
    /\ rec.pc = "fleet"
    /\ oldFleet' = IF oldFleet = "present" THEN "going" ELSE oldFleet
    /\ Go("fleetGone")
    /\ UNCHANGED <<remote, job, newFleet, rancher, used>>

\* Mutant: the namespace counts as gone once it is going.
MutFleetGone ==
    /\ rec.pc = "fleetGone"
    /\ Go("fleetNew")
    /\ UNCHANGED <<remotes, rancher, used>>

FleetGone ==
    /\ rec.pc = "fleetGone"
    /\ IF oldFleet = "absent" THEN Go("fleetNew") ELSE Requeue
    /\ UNCHANGED <<remotes, rancher, used>>

FleetNew ==
    /\ rec.pc = "fleetNew"
    /\ IF newFleet THEN Go("patch") ELSE Requeue
    /\ UNCHANGED <<remotes, rancher, used>>

\* The deferred patch of the Rancher cluster, whose event is a new request.
PatchRancher ==
    /\ rec.pc = "patch"
    /\ migrated' = TRUE
    /\ Requeue
    /\ UNCHANGED <<remotes, token, seen, trusted, ready, used>>

\* A call fails, or the patch conflicts.
Fails ==
    /\ rec.pc # "idle"
    /\ Fault
    /\ Requeue
    /\ UNCHANGED <<remotes, rancher>>

\* The manager stops and starts.
Restart ==
    /\ Fault
    /\ Requeue
    /\ UNCHANGED <<remotes, rancher>>

\* The resync of the informers, every SyncPeriod.
Resync ==
    /\ ~due
    /\ due' = TRUE
    /\ UNCHANGED <<remotes, rancher, rec, used>>

SyncToken ==
    /\ seen # token
    /\ seen' = token
    /\ UNCHANGED <<remotes, token, trusted, ready, migrated, due, rec, used>>

-----------------------------------------------------------------------------
(* Rancher, and the remote cluster.                                         *)

SetManifestURL ==
    /\ token = "bare"
    /\ token' = "ready"
    /\ UNCHANGED <<remotes, seen, trusted, ready, migrated, due, rec, used>>

\* The cleanup job deletes what the earlier import has left, and is removed.
Sweep(i) ==
    /\ job /\ remote[i] = "old"
    /\ remote' = [remote EXCEPT ![i] = "swept"]
    /\ UNCHANGED <<job, oldFleet, newFleet, rancher, due, rec, used>>

EndJob ==
    /\ job /\ \A i \in Places : remote[i] # "old"
    /\ job' = FALSE
    /\ UNCHANGED <<remote, oldFleet, newFleet, rancher, due, rec, used>>

\* An object that is going is gone, when its finalizers are.
Vanish(i) ==
    /\ remote[i] \in {"swept", "going"}
    /\ remote' = [remote EXCEPT ![i] = "absent"]
    /\ UNCHANGED <<job, oldFleet, newFleet, rancher, due, rec, used>>

FleetVanish ==
    /\ oldFleet = "going"
    /\ oldFleet' = "absent"
    /\ UNCHANGED <<remote, job, newFleet, rancher, due, rec, used>>

\* The agent connects, and installs Fleet; or is lost.  The Rancher cluster changes,
\* which is an event for the CAPI cluster.
Deployed == \A i \in Places : remote[i] = "present"

SetReady ==
    /\ ready # Deployed
    /\ ready' = Deployed
    /\ due' = TRUE
    /\ UNCHANGED <<remotes, token, seen, trusted, migrated, rec, used>>

InstallFleet ==
    /\ ready /\ ~newFleet
    /\ newFleet' = TRUE
    /\ UNCHANGED <<remote, job, oldFleet, rancher, due, rec, used>>

\* Somebody deletes an object of the agent; an administrator changes the settings.
DeleteRemote(i) ==
    /\ remote[i] = "present"
    /\ Edit
    /\ remote' = [remote EXCEPT ![i] = "going"]
    /\ UNCHANGED <<job, oldFleet, newFleet, rancher, due, rec>>

SetTrusted ==
    /\ Edit
    /\ trusted' = ~trusted
    /\ UNCHANGED <<remotes, token, seen, ready, migrated, due, rec>>

-----------------------------------------------------------------------------

\* A Rancher cluster was created, after an earlier import or for the first time, or
\* it is one of a version before the annotation, with its agent running.
Init ==
    /\ \/ /\ job \in BOOLEAN
          /\ remote \in [Places -> IF job THEN {"old", "swept", "absent"} ELSE {"swept", "absent"}]
          /\ ready = FALSE /\ migrated = TRUE
          /\ token = "none" /\ oldFleet = "absent"
       \/ /\ job = FALSE
          /\ remote = [i \in Places |-> "present"]
          /\ ready = TRUE /\ migrated = FALSE
          /\ token = "ready" /\ oldFleet \in {"absent", "present"}
    /\ seen = token
    /\ newFleet = FALSE
    /\ trusted \in BOOLEAN
    /\ due = TRUE
    /\ rec = At("idle")
    /\ used = [edits |-> 0, faults |-> 0]

Reconcile ==
    \/ Begin \/ GetTrusted \/ GetToken \/ Download \/ CheckJobs \/ Verify \/ Create
    \/ RemoveFleet \/ FleetGone \/ FleetNew \/ PatchRancher \/ Fails

RemoteStep ==
    \/ FleetVanish \/ EndJob
    \/ \E i \in Places : Sweep(i) \/ Vanish(i)

RancherStep == SetManifestURL \/ SetReady \/ InstallFleet

Next ==
    \/ Reconcile \/ Restart \/ Resync \/ SyncToken
    \/ RemoteStep \/ RancherStep
    \/ SetTrusted
    \/ \E i \in Places : DeleteRemote(i)

Spec == Init /\ [][Next]_vars

\* The manager and its cache work; what Rancher and the remote cluster have begun
\* they finish.
FairSpec ==
    /\ Spec
    /\ WF_vars(Reconcile) /\ WF_vars(Resync) /\ WF_vars(SyncToken)
    /\ WF_vars(RemoteStep) /\ WF_vars(RancherStep)

-----------------------------------------------------------------------------
(* What the registration promises.                                          *)

\* The new agent is not applied into the cleanup of an earlier import, which would
\* delete it or take its objects for those of the manifest: the job is looked for
\* before the objects, so what it marks in between is seen
\* (validateImportReadiness, helpers.go:235-268).
CleanupRespected ==
    rec.pc = "create" =>
        ~job /\ \A i \in Places : remote[i] \notin {"old", "swept"}

\* The annotation says that Fleet has moved only when it has
\* (removeFleetNamespace, helpers.go:177-212).
MigratedIsTrue ==
    [][~migrated /\ migrated' => oldFleet = "absent" /\ newFleet]_vars

\* With settings that make sense the agent is deployed in the end, though the
\* manifest was applied in part, objects were deleted since, the token was not seen
\* or the cleanup took its time.
AgentDeployed == <>[]trusted => <>[](ready /\ Deployed)

\* The migration of Fleet is completed, though the namespace is deleted by one
\* reconciliation, found gone by another and the annotation refused to both.
MigrationCompletes == <>[]trusted => <>[]migrated
=============================================================================
