--------------------------- MODULE ProviderSecrets ---------------------------
(***************************************************************************)
(* The configuration Secret of a CAPIProvider (internal/sync and the phase *)
(* syncSecrets of operator_reconciler.go).  Two synchronisers write the    *)
(* same Secret one after the other: SecretSync the provider's variables,   *)
(* SecretMapperSync the credentials it maps from a Secret of Rancher.      *)
(* Each has a copy of its own, and all copies are made before the first    *)
(* write.  Secrets are read from the API server, not from the cache.       *)
(***************************************************************************)
EXTENDS Naturals, ApiServer

CONSTANTS
    VarKeys,    \* keys of the Secret that hold variables,
    CredKeys,   \*   mapped credentials,
    UserKeys,   \*   and whatever users put there
    SrcKeys,    \* keys of the Rancher credential
    Needs,      \* the keys of the Rancher credential each CredKey is made of
    Values,     \* values; a credential's value stands for all it contains
    Absent,     \* no such key
    Blank,      \* the empty string
    MaxEdits,   \* bound: actions of users
    MaxFaults   \* bound: API calls that fail for a transient reason

ASSUME SecretsAssumption ==
    /\ VarKeys \cap CredKeys = {} /\ VarKeys \cap UserKeys = {}
    /\ CredKeys \cap UserKeys = {}
    /\ Needs \in [CredKeys -> SUBSET SrcKeys]
    /\ Absent # Blank /\ Absent \notin Values /\ Blank \notin Values
    /\ MaxEdits \in Nat /\ MaxFaults \in Nat

VARIABLES
    secret,     \* the Secret on the API server
    spec,       \* of the provider: variables, and whether credentials are named
    variables,  \* status.variables of the provider
    source,     \* the credential on the Rancher side
    cond,       \* RancherCredentialsSecretMapped: True, or the reason for False
    due,        \* there is a request for the provider
    rec,        \* the phase syncSecrets of the reconciliation in flight
    used        \* how much of each bound has been used

vars == <<secret, spec, variables, source, cond, due, rec, used>>

-----------------------------------------------------------------------------

Keys     == VarKeys \cup CredKeys \cup UserKeys
DataSet  == [Keys -> Values \cup {Absent, Blank}]
Optional == [VarKeys -> Values \cup {Absent}]
Sources  == {s \in [exists: BOOLEAN, keys: SUBSET SrcKeys, value: Values] :
                s.exists \/ s.keys = {}}

SecretObject ==
    [exists: BOOLEAN, rv: Nat, fins: SUBSET {"dependents"}, deleting: BOOLEAN,
     data: DataSet]
NoSecret == [exists |-> FALSE, rv |-> 0, fins |-> {}, deleting |-> FALSE,
             data |-> [k \in Keys |-> Absent]]

Phases == {"idle", "getVariables", "getSource", "getCredentials",
           "applyVariables", "applyCredentials", "done"}
Reconciliation ==
    [pc: Phases, credentials: BOOLEAN, from: Sources,
     varCopy: SecretObject, credCopy: SecretObject, failed: BOOLEAN]

TypeOK ==
    /\ secret \in SecretObject
    /\ spec \in [variables: Optional, credentials: BOOLEAN]
    /\ variables \in Optional
    /\ source \in Sources
    /\ cond \in {"Unset", "Mapped", "SourceMissing", "KeyMissing"}
    /\ due \in BOOLEAN
    /\ rec \in Reconciliation
    /\ used \in [edits: Nat, faults: Nat]

-----------------------------------------------------------------------------
(* Data. *)

\* Mutant: the data of the Secret is replaced.
MutOverlay(data, new) == new

\* StringData laid over Data: keys that are not named stay.
Overlay(data, new) ==
    [k \in DOMAIN data |->
        IF k \in DOMAIN new /\ new[k] # Absent THEN new[k] ELSE data[k]]

\* Mutant: a missing key is no reason for a refusal.
MutValidAlways(k, src) == TRUE

\* Into: what each mapping makes of the credential; without its keys, nothing.
Valid(k, src) == Needs[k] \subseteq src.keys
Mapped(src) ==
    [k \in CredKeys |-> IF Valid(k, src) THEN src.value ELSE Blank]
AllValid(src) == \A k \in CredKeys : Valid(k, src)

-----------------------------------------------------------------------------
(* The phase syncSecrets.                                                   *)

Fault == used.faults < MaxFaults /\ used' = [used EXCEPT !.faults = @ + 1]

\* setVariables and setFeatures (the phase before) lay the spec over the status.
Begin ==
    /\ due /\ rec.pc = "idle"
    /\ due' = FALSE
    /\ variables' = Overlay(variables, spec.variables)
    /\ rec' = [rec EXCEPT !.pc = "getVariables", !.credentials = spec.credentials,
                          !.varCopy = NoSecret, !.credCopy = NoSecret,
                          !.failed = FALSE]
    /\ UNCHANGED <<secret, spec, source, cond, used>>

\* DefaultSynchronizer.Get: when there is no Secret, and also when the read
\* fails, the copy stays an empty object without resource version.
Got(copy) ==
    \/ copy = (IF secret.exists THEN secret ELSE NoSecret) /\ UNCHANGED used
    \/ copy = NoSecret /\ Fault

\* SecretSync.Get and SecretSync.Sync.
GetVariables ==
    /\ rec.pc = "getVariables"
    /\ \E copy \in {secret, NoSecret} :
          /\ Got(copy)
          /\ rec' = [rec EXCEPT
                        !.pc = IF rec.credentials THEN "getSource"
                               ELSE "applyVariables",
                        !.varCopy = [copy EXCEPT !.data = Overlay(@, variables)]]
    /\ UNCHANGED <<secret, spec, variables, source, cond, due>>

\* SecretMapperSync.Get finds the credential.
GetSource ==
    /\ rec.pc = "getSource"
    /\ source.exists
    /\ rec' = [rec EXCEPT !.pc = "getCredentials", !.from = source]
    /\ UNCHANGED <<secret, spec, variables, source, cond, due, used>>

\* There is none, or the read fails.  List.Sync calls Sync all the same, which
\* maps an empty credential and has the last word on the condition; then the
\* error ends the reconciliation.
GetSourceFails ==
    /\ rec.pc = "getSource"
    /\ \/ ~source.exists /\ UNCHANGED used
       \/ Fault
    /\ cond' = "KeyMissing"
    /\ rec' = [rec EXCEPT !.pc = "idle"]
    /\ due' = TRUE
    /\ UNCHANGED <<secret, spec, variables, source>>

\* The rest of SecretMapperSync.Get and SecretMapperSync.Sync, which reports
\* missing keys in the condition only.
GetCredentials ==
    /\ rec.pc = "getCredentials"
    /\ \E copy \in {secret, NoSecret} :
          /\ Got(copy)
          /\ rec' = [rec EXCEPT
                        !.pc = "applyVariables",
                        !.credCopy = [copy EXCEPT !.data = Overlay(@, Mapped(rec.from))]]
    /\ cond' = IF AllValid(rec.from) THEN "Mapped" ELSE "KeyMissing"
    /\ UNCHANGED <<secret, spec, variables, source, due>>

\* Mutant: the Update carries no resource version.
MutWritable(copy) == secret.exists \/ copy.rv = 0

\* Patch in client.go: Update, and Create when there is nothing to update.  An
\* object without resource version is written over whatever is there; one with
\* a resource version cannot be created.
Writable(copy) == copy.rv = 0 \/ Accepts(secret, copy.rv)

\* Mutant: what the Secret has already wins.
MutIntended(copy) ==
    [secret EXCEPT !.exists = TRUE, !.fins = copy.fins \cup {"dependents"},
                   !.data = [k \in Keys |-> IF secret.data[k] = Absent THEN copy.data[k]
                                            ELSE secret.data[k]],
                   !.deleting = secret.exists /\ secret.deleting]

\* DefaultSynchronizer.Apply adds its finalizer (and an owner reference).
Intended(copy) ==
    [secret EXCEPT !.exists = TRUE, !.data = copy.data,
                   !.fins = copy.fins \cup {"dependents"},
                   !.deleting = secret.exists /\ secret.deleting]

\* Any change of the Secret is an event for the provider that names it.
Write(new) ==
    /\ secret' = Stored(secret, new)
    /\ due' = (due \/ secret' # secret)

Succeeds(copy) ==
    /\ Writable(copy)
    /\ secret.exists => ValidUpdate(secret, Intended(copy))

Apply(copy, next) ==
    \/ /\ Succeeds(copy) /\ UNCHANGED used
       /\ Write(Intended(copy))
       /\ rec' = [rec EXCEPT !.pc = next]
    \/ /\ \/ ~Succeeds(copy) /\ UNCHANGED used
          \/ Fault
       /\ rec' = [rec EXCEPT !.pc = next, !.failed = TRUE]
       /\ UNCHANGED <<secret, due>>

ApplyVariables ==
    /\ rec.pc = "applyVariables"
    /\ Apply(rec.varCopy, IF rec.credentials THEN "applyCredentials" ELSE "done")
    /\ UNCHANGED <<spec, variables, source, cond>>

\* Mutant: the credentials are not written.
MutApplyCredentialsSkipped ==
    /\ rec.pc = "applyCredentials"
    /\ rec' = [rec EXCEPT !.pc = "done", !.failed = FALSE]
    /\ UNCHANGED <<secret, spec, variables, source, cond, due, used>>

\* List.Apply goes on to the second synchroniser after an error of the first.
ApplyCredentials ==
    /\ rec.pc = "applyCredentials"
    /\ Apply(rec.credCopy, "done")
    /\ UNCHANGED <<spec, variables, source, cond>>

\* An error brings the request back, otherwise the next phases follow.
Done ==
    /\ rec.pc = "done"
    /\ rec' = [rec EXCEPT !.pc = "idle"]
    /\ due' = (due \/ rec.failed)
    /\ UNCHANGED <<secret, spec, variables, source, cond, used>>

\* The informers replay their providers every SyncPeriod.
Resync ==
    /\ ~due
    /\ due' = TRUE
    /\ UNCHANGED <<secret, spec, variables, source, cond, rec, used>>

-----------------------------------------------------------------------------
(* Users, and the garbage collector.                                        *)

Edit == used.edits < MaxEdits /\ used' = [used EXCEPT !.edits = @ + 1]

SetVariable(k, v) ==
    /\ spec.variables[k] # v
    /\ spec' = [spec EXCEPT !.variables[k] = v]
    /\ due' = TRUE
    /\ Edit
    /\ UNCHANGED <<secret, variables, source, cond, rec>>

SetCredentials(b) ==
    /\ spec.credentials # b
    /\ spec' = [spec EXCEPT !.credentials = b]
    /\ due' = TRUE
    /\ Edit
    /\ UNCHANGED <<secret, variables, source, cond, rec>>

\* The credential is not the Secret of the provider: its events map to nothing.
SetSource(s) ==
    /\ source # s
    /\ source' = s
    /\ Edit
    /\ UNCHANGED <<secret, spec, variables, cond, due, rec>>

EditSecret(k, v) ==
    /\ secret.exists /\ secret.data[k] # v
    /\ Write([secret EXCEPT !.data[k] = v])
    /\ Edit
    /\ UNCHANGED <<spec, variables, source, cond, rec>>

DeleteSecret ==
    /\ secret.exists /\ ~secret.deleting
    /\ Write([secret EXCEPT !.deleting = TRUE])
    /\ Edit
    /\ UNCHANGED <<spec, variables, source, cond, rec>>

CollectSecret ==
    /\ secret.exists /\ secret.deleting /\ secret.fins # {}
    /\ Write([secret EXCEPT !.fins = {}])
    /\ UNCHANGED <<spec, variables, source, cond, rec, used>>

-----------------------------------------------------------------------------

Init ==
    /\ secret \in {NoSecret} \cup
          {[NoSecret EXCEPT !.exists = TRUE, !.rv = 1,
               !.data = [k \in Keys |-> IF k \in UserKeys THEN v ELSE Absent]] : v \in Values}
    /\ spec \in [variables: [VarKeys -> Values], credentials: BOOLEAN]
    /\ variables = [k \in VarKeys |-> Absent]
    /\ source \in Sources
    /\ cond = "Unset"
    /\ due = TRUE
    /\ rec = [pc |-> "idle", credentials |-> FALSE, from |-> source,
              varCopy |-> NoSecret, credCopy |-> NoSecret, failed |-> FALSE]
    /\ used = [edits |-> 0, faults |-> 0]

SyncSecrets ==
    \/ GetVariables \/ GetSource \/ GetSourceFails \/ GetCredentials
    \/ ApplyVariables \/ ApplyCredentials \/ Done

Users ==
    \/ \E k \in VarKeys, v \in Values \cup {Absent} : SetVariable(k, v)
    \/ \E b \in BOOLEAN : SetCredentials(b)
    \/ \E s \in Sources : SetSource(s)
    \/ \E k \in Keys, v \in Values \cup {Absent} : EditSecret(k, v)
    \/ DeleteSecret

Next == Begin \/ SyncSecrets \/ Resync \/ Users \/ CollectSecret

Spec == Init /\ [][Next]_vars

\* The manager works; users and the garbage collector owe nothing.
FairSpec == Spec /\ WF_vars(Begin) /\ WF_vars(SyncSecrets) /\ WF_vars(Resync)

-----------------------------------------------------------------------------
(* What the phase promises. *)

\* The code has no merge: each synchroniser replaces the whole Secret by its
\* copy.  When the copy was read from a Secret, that never touches what the other
\* synchroniser or a user wrote meanwhile.
ReadCopiesKeep ==
    [][/\ rec.pc = "applyVariables" /\ rec' # rec /\ rec.varCopy.rv # 0
          => \A k \in Keys \ VarKeys : secret'.data[k] = secret.data[k]
       /\ rec.pc = "applyCredentials" /\ rec' # rec /\ rec.credCopy.rv # 0
          => \A k \in Keys \ CredKeys : secret'.data[k] = secret.data[k]
      ]_vars

\* Once users are done, the variables of the provider are in its Secret and stay
\* there, whichever writes failed, collided or were undone, unless credentials
\* are named that do not exist (then nothing is written at all).
VariablesArrive ==
    <>[](spec.credentials => source.exists)
    => <>[](\A k \in VarKeys : spec.variables[k] # Absent =>
               secret.exists /\ secret.data[k] = spec.variables[k])

\* So are the credentials; while some keys of the source are missing, those that
\* can be mapped are, and the others are blank.
CredentialsArrive ==
    <>[](spec.credentials /\ source.exists)
    => <>[](\A k \in CredKeys :
               secret.exists /\ secret.data[k] = Mapped(source)[k])

\* The condition, set before anything is written, is right in the end.
ConditionRight ==
    <>[]spec.credentials
    => <>[](cond = "Mapped" <=>
               source.exists /\ \A k \in CredKeys : Needs[k] \subseteq source.keys)

-----------------------------------------------------------------------------
(* Said by the repository, not kept by the code. *)

\* secret_mapper_sync.go:320-321: the second synchroniser patches "to avoid
\* collisions with patches performed by variable syncer on the same secret
\* resource": writing the credentials leaves the variables alone.
NoCollision ==
    [][rec.pc = "applyCredentials" /\ rec' # rec
       => \A k \in VarKeys : secret'.data[k] = secret.data[k]]_vars

\* client.go:54: Update is used "in order to correctly propagate keys that
\* have been removed": a variable that is gone from the provider goes from the
\* Secret.
RemovedKeysGo ==
    \A k \in VarKeys :
        ~<>[](/\ ~spec.credentials /\ spec.variables[k] = Absent
              /\ secret.data[k] # Absent)

\* conditions_consts.go:26: RancherCredentialSourceMissing "occures when a source
\* credential secret is missing".
SourceMissingSaid ==
    [][rec.pc = "getSource" /\ ~source.exists /\ cond' # cond
       => cond' = "SourceMissing"]_vars
=============================================================================
