---------------------------- MODULE SecretsProofs ----------------------------
(***************************************************************************)
(* Proofs about the configuration Secret, for all sets of keys and values  *)
(* and all bounds: type correctness, and that a synchroniser which has     *)
(* read the Secret overwrites nothing but its own keys.                    *)
(***************************************************************************)
EXTENDS ProviderSecrets, TLAPS

-----------------------------------------------------------------------------
(* Types. *)

\* Laying a partial map over the data of a Secret gives data of a Secret.
LEMMA OverlayType ==
    ASSUME NEW data \in DataSet, NEW K \in SUBSET Keys,
           NEW new \in [K -> Values \cup {Absent, Blank}]
    PROVE  Overlay(data, new) \in DataSet
BY DEF Overlay, DataSet

\* The status of a provider has variables or nothing under each key.
LEMMA VariablesType ==
    ASSUME NEW old \in Optional, NEW new \in Optional
    PROVE  Overlay(old, new) \in Optional
BY DEF Overlay, Optional

\* What is mapped from a credential are values and blanks.
LEMMA MappedType ==
    ASSUME NEW src \in Sources
    PROVE  Mapped(src) \in [CredKeys -> Values \cup {Absent, Blank}]
BY DEF Mapped, Sources

\* There may always be no Secret.
LEMMA NoSecretType == NoSecret \in SecretObject
BY DEF NoSecret, SecretObject, DataSet

\* The API server stores objects.
LEMMA StoredType ==
    ASSUME NEW old \in SecretObject, NEW new \in SecretObject
    PROVE  Stored(old, new) \in SecretObject
<1> DEFINE m == [new EXCEPT !.rv = old.rv + 1]
<1>1. m \in SecretObject
  BY DEF SecretObject
<1>2. [m EXCEPT !.exists = FALSE] \in SecretObject
  BY <1>1 DEF SecretObject
<1>3. Settle(m) \in SecretObject
  BY <1>1, <1>2 DEF Settle
<1> QED
  BY <1>3 DEF Stored

\* What a synchroniser writes is an object.
LEMMA IntendedType ==
    ASSUME secret \in SecretObject, NEW copy \in SecretObject
    PROVE  Intended(copy) \in SecretObject
BY DEF Intended, SecretObject

\* A write of either synchroniser keeps the types.
LEMMA ApplyType ==
    ASSUME TypeOK, NEW STATE copy, copy \in SecretObject, NEW CONSTANT next \in Phases, Apply(copy, next)
    PROVE  secret' \in SecretObject /\ due' \in BOOLEAN /\ rec' \in Reconciliation
           /\ used' \in [edits: Nat, faults: Nat]
<1>1. Intended(copy) \in SecretObject  BY IntendedType DEF TypeOK
<1>2. Stored(secret, Intended(copy)) \in SecretObject  BY <1>1, StoredType DEF TypeOK
<1>3. CASE Succeeds(copy) /\ UNCHANGED used /\ Write(Intended(copy))
           /\ rec' = [rec EXCEPT !.pc = next]
  BY <1>2, <1>3 DEF Write, TypeOK, Reconciliation
<1>4. CASE /\ rec' = [rec EXCEPT !.pc = next, !.failed = TRUE]
           /\ UNCHANGED <<secret, due>>
           /\ (UNCHANGED used \/ Fault)
  <2>1. used' \in [edits: Nat, faults: Nat]
    BY <1>4 DEF Fault, TypeOK
  <2>2. rec' \in Reconciliation
    BY <1>4 DEF TypeOK, Reconciliation
  <2> QED  BY <1>4, <2>1, <2>2 DEF TypeOK
<1> QED  BY <1>3, <1>4 DEF Apply

\* Reading the Secret keeps the types.
LEMMA GotType ==
    ASSUME TypeOK, NEW copy \in {secret, NoSecret}, Got(copy)
    PROVE  copy \in SecretObject /\ used' \in [edits: Nat, faults: Nat]
BY NoSecretType DEF TypeOK, Got, Fault

\* Whatever users and the garbage collector write is an object.
LEMMA EditType ==
    ASSUME TypeOK, NEW new \in SecretObject, Write(new)
    PROVE  secret' \in SecretObject /\ due' \in BOOLEAN
<1>1. Stored(secret, new) \in SecretObject  BY StoredType DEF TypeOK
<1> QED  BY <1>1 DEF Write, TypeOK

\* The types hold at the start.
LEMMA InitType == Init => TypeOK
<1> SUFFICES ASSUME Init PROVE TypeOK  OBVIOUS
<1>1. secret \in SecretObject
  <2>1. CASE secret = NoSecret  BY <2>1, NoSecretType
  <2>2. ASSUME NEW v \in Values,
               secret = [NoSecret EXCEPT !.exists = TRUE, !.rv = 1,
                  !.data = [k \in Keys |-> IF k \in UserKeys THEN v ELSE Absent]]
        PROVE  secret \in SecretObject
    BY <2>2 DEF NoSecret, SecretObject, DataSet
  <2> QED  BY <2>1, <2>2 DEF Init
<1>2. /\ spec \in [variables: Optional, credentials: BOOLEAN]
      /\ variables \in Optional
  BY DEF Init, Optional
<1>3. rec \in Reconciliation
  BY NoSecretType DEF Init, Reconciliation, Phases
<1> QED
  BY <1>1, <1>2, <1>3 DEF Init, TypeOK

\* Every step keeps the types.
LEMMA NextType == TypeOK /\ [Next]_vars => TypeOK'
<1> SUFFICES ASSUME TypeOK, [Next]_vars PROVE TypeOK'  OBVIOUS
<1>1. CASE Begin
  <2>1. Overlay(variables, spec.variables) \in Optional
    BY VariablesType DEF TypeOK
  <2> QED  BY <1>1, <2>1, NoSecretType DEF Begin, TypeOK, Reconciliation, Phases
<1>2. CASE GetVariables
  <2>1. PICK copy \in {secret, NoSecret} :
           /\ Got(copy)
           /\ rec' = [rec EXCEPT
                        !.pc = IF rec.credentials THEN "getSource"
                               ELSE "applyVariables",
                        !.varCopy = [copy EXCEPT !.data = Overlay(@, variables)]]
    BY <1>2 DEF GetVariables
  <2>2. copy \in SecretObject /\ used' \in [edits: Nat, faults: Nat]
    BY <2>1, GotType
  <2>3. variables \in [VarKeys -> Values \cup {Absent, Blank}]
    BY DEF TypeOK, Optional
  <2>4. Overlay(copy.data, variables) \in DataSet
    BY <2>2, <2>3, OverlayType DEF SecretObject, Keys
  <2>5. [copy EXCEPT !.data = Overlay(@, variables)] \in SecretObject
    BY <2>2, <2>4 DEF SecretObject
  <2> QED
    BY <1>2, <2>1, <2>2, <2>5 DEF GetVariables, TypeOK, Reconciliation, Phases
<1>3. CASE GetSource
  BY <1>3 DEF GetSource, TypeOK, Reconciliation, Phases
<1>4. CASE GetSourceFails
  BY <1>4 DEF GetSourceFails, Fault, TypeOK, Reconciliation, Phases
<1>5. CASE GetCredentials
  <2>1. PICK copy \in {secret, NoSecret} :
           /\ Got(copy)
           /\ rec' = [rec EXCEPT
                        !.pc = "applyVariables",
                        !.credCopy = [copy EXCEPT !.data = Overlay(@, Mapped(rec.from))]]
    BY <1>5 DEF GetCredentials
  <2>2. copy \in SecretObject /\ used' \in [edits: Nat, faults: Nat]
    BY <2>1, GotType
  <2>3. Mapped(rec.from) \in [CredKeys -> Values \cup {Absent, Blank}]
    BY MappedType DEF TypeOK, Reconciliation
  <2>4. Overlay(copy.data, Mapped(rec.from)) \in DataSet
    BY <2>2, <2>3, OverlayType DEF SecretObject, Keys
  <2>5. [copy EXCEPT !.data = Overlay(@, Mapped(rec.from))] \in SecretObject
    BY <2>2, <2>4 DEF SecretObject
  <2> QED
    BY <1>5, <2>1, <2>2, <2>5 DEF GetCredentials, TypeOK, Reconciliation, Phases
<1>6. CASE ApplyVariables
  BY <1>6, ApplyType DEF ApplyVariables, TypeOK, Reconciliation, Phases
<1>7. CASE ApplyCredentials
  BY <1>7, ApplyType DEF ApplyCredentials, TypeOK, Reconciliation, Phases
<1>8. CASE Done \/ Resync
  BY <1>8 DEF Done, Resync, TypeOK, Reconciliation, Phases
<1>9. CASE \E k \in VarKeys, v \in Values \cup {Absent} : SetVariable(k, v)
  BY <1>9 DEF SetVariable, Edit, TypeOK, Optional
<1>10. CASE \/ \E b \in BOOLEAN : SetCredentials(b)
            \/ \E s \in Sources : SetSource(s)
  <2>1. used' \in [edits: Nat, faults: Nat]
    BY <1>10 DEF SetCredentials, SetSource, Edit, TypeOK
  <2>2. ASSUME NEW b \in BOOLEAN, SetCredentials(b) PROVE TypeOK'
    BY <2>1, <2>2 DEF SetCredentials, TypeOK
  <2>3. ASSUME NEW s \in Sources, SetSource(s) PROVE TypeOK'
    BY <2>1, <2>3 DEF SetSource, TypeOK
  <2> QED  BY <1>10, <2>2, <2>3
<1>11. CASE \E k \in Keys, v \in Values \cup {Absent} : EditSecret(k, v)
  <2>1. PICK k \in Keys, v \in Values \cup {Absent} : EditSecret(k, v)  BY <1>11
  <2>2. [secret EXCEPT !.data[k] = v] \in SecretObject
    BY DEF TypeOK, SecretObject, DataSet
  <2> QED  BY <2>1, <2>2, EditType DEF EditSecret, Edit, TypeOK
<1>12. CASE DeleteSecret
  <2>1. [secret EXCEPT !.deleting = TRUE] \in SecretObject
    BY DEF TypeOK, SecretObject
  <2> QED  BY <1>12, <2>1, EditType DEF DeleteSecret, Edit, TypeOK
<1>13. CASE CollectSecret
  <2>1. [secret EXCEPT !.fins = {}] \in SecretObject
    BY DEF TypeOK, SecretObject
  <2> QED  BY <1>13, <2>1, EditType DEF CollectSecret, TypeOK
<1>14. CASE UNCHANGED vars  BY <1>14 DEF vars, TypeOK
<1> QED
  BY <1>1, <1>2, <1>3, <1>4, <1>5, <1>6, <1>7, <1>8, <1>9, <1>10, <1>11, <1>12,
     <1>13, <1>14 DEF Next, SyncSecrets, Users

\* The variables of the specification keep their types.
THEOREM SecretTypesCorrect == Spec => []TypeOK
<1>1. Init => TypeOK  BY InitType
<1>2. TypeOK /\ [Next]_vars => TypeOK'  BY NextType
<1> QED  BY <1>1, <1>2, PTL DEF Spec
-----------------------------------------------------------------------------
(* A copy that was read keeps what it does not own.                         *)

\* The keys a copy was not filled with agree with the Secret for as long as the
\* Secret has the resource version of the copy.
Faithful(copy, own) ==
    copy.rv # 0 =>
        /\ copy.rv <= secret.rv
        /\ copy.rv = secret.rv =>
              \A k \in Keys \ own : copy.data[k] = secret.data[k]

CopiesFaithful ==
    Faithful(rec.varCopy, VarKeys) /\ Faithful(rec.credCopy, CredKeys)

\* A write raises the resource version or changes nothing.
LEMMA StoredRises ==
    ASSUME NEW old \in SecretObject, NEW new \in SecretObject
    PROVE  /\ Stored(old, new) = old \/ Stored(old, new).rv = old.rv + 1
           /\ Stored(old, new).data = new.data
<1> DEFINE m == [new EXCEPT !.rv = old.rv + 1]
<1>1. m.rv = old.rv + 1 /\ m.data = new.data  BY DEF SecretObject
<1>2. Settle(m).rv = m.rv /\ Settle(m).data = m.data  BY DEF Settle, SecretObject
<1> QED  BY <1>1, <1>2 DEF Stored

\* A fresh copy is faithful.
LEMMA FaithfulRead ==
    ASSUME TypeOK, NEW STATE copy, copy \in {secret, NoSecret}, NEW CONSTANT own \in SUBSET Keys,
           NEW STATE new, new \in [own -> Values \cup {Absent, Blank}]
    PROVE  Faithful([copy EXCEPT !.data = Overlay(@, new)], own)
<1> DEFINE c == [copy EXCEPT !.data = Overlay(@, new)]
<1>1. copy \in SecretObject  BY NoSecretType DEF TypeOK
<1>2. c.rv = copy.rv /\ c.data = Overlay(copy.data, new)
  BY <1>1 DEF SecretObject
<1>3. \A k \in Keys \ own : c.data[k] = copy.data[k]
  BY <1>1, <1>2 DEF Overlay, SecretObject, DataSet
<1>4. copy.rv # 0 => copy = secret  BY DEF NoSecret
<1>5. copy.rv \in Nat /\ secret.rv \in Nat  BY <1>1 DEF SecretObject, TypeOK
<1> QED  BY <1>2, <1>3, <1>4, <1>5 DEF Faithful

\* Whatever a step does to the Secret is a write of the API server.
LEMMA SecretRises ==
    ASSUME TypeOK, [Next]_vars
    PROVE  secret' = secret \/ secret'.rv = secret.rv + 1
<1>1. ASSUME NEW STATE new, new \in SecretObject, Write(new)
      PROVE  secret' = secret \/ secret'.rv = secret.rv + 1
  BY <1>1, StoredRises DEF Write, TypeOK
<1>2. ASSUME NEW STATE copy, copy \in SecretObject, NEW next \in Phases, Apply(copy, next)
      PROVE  secret' = secret \/ secret'.rv = secret.rv + 1
  <2>1. Intended(copy) \in SecretObject  BY <1>2, IntendedType DEF TypeOK
  <2>2. Write(Intended(copy)) \/ secret' = secret  BY <1>2 DEF Apply
  <2> QED  BY <2>1, <2>2, StoredRises DEF Write, TypeOK
<1>3. CASE ApplyVariables \/ ApplyCredentials
  BY <1>2, <1>3 DEF ApplyVariables, ApplyCredentials, TypeOK, Reconciliation, Phases
<1>4. CASE \E k \in Keys, v \in Values \cup {Absent} : EditSecret(k, v)
  <2>1. PICK k \in Keys, v \in Values \cup {Absent} : EditSecret(k, v)  BY <1>4
  <2>2. [secret EXCEPT !.data[k] = v] \in SecretObject
    BY DEF TypeOK, SecretObject, DataSet
  <2> QED  BY <2>1, <2>2, StoredRises DEF EditSecret, Write, TypeOK
<1>5. CASE DeleteSecret
  <2>1. [secret EXCEPT !.deleting = TRUE] \in SecretObject
    BY DEF TypeOK, SecretObject
  <2> QED  BY <1>5, <2>1, StoredRises DEF DeleteSecret, Write, TypeOK
<1>6. CASE CollectSecret
  <2>1. [secret EXCEPT !.fins = {}] \in SecretObject
    BY DEF TypeOK, SecretObject
  <2> QED  BY <1>6, <2>1, StoredRises DEF CollectSecret, Write, TypeOK
<1>7. CASE UNCHANGED secret  BY <1>7
<1> QED
  BY <1>3, <1>4, <1>5, <1>6, <1>7 DEF Next, SyncSecrets, Users, vars, Begin,
     GetVariables, GetSource, GetSourceFails, GetCredentials, Done, Resync,
     SetVariable, SetCredentials, SetSource

\* The invariant is inductive.
LEMMA FaithfulInit == Init => CopiesFaithful
<1>1. NoSecret.rv = 0  BY DEF NoSecret
<1>2. Init => rec = [pc |-> "idle", credentials |-> FALSE, from |-> source,
                     varCopy |-> NoSecret, credCopy |-> NoSecret, failed |-> FALSE]
  BY Zenon DEF Init
<1> QED  BY <1>1, <1>2 DEF CopiesFaithful, Faithful

LEMMA FaithfulNext ==
    TypeOK /\ CopiesFaithful /\ [Next]_vars => CopiesFaithful'
<1> SUFFICES ASSUME TypeOK, CopiesFaithful, [Next]_vars PROVE CopiesFaithful'
  OBVIOUS
<1>1. rec.varCopy \in SecretObject /\ rec.credCopy \in SecretObject
  BY DEF TypeOK, Reconciliation
<1>2. secret' = secret \/ secret'.rv = secret.rv + 1  BY SecretRises
<1>3. ASSUME Faithful(rec.varCopy, VarKeys), rec.varCopy' = rec.varCopy
      PROVE  Faithful(rec.varCopy, VarKeys)'
  BY <1>1, <1>2, <1>3 DEF Faithful, TypeOK, SecretObject
<1>4. ASSUME Faithful(rec.credCopy, CredKeys), rec.credCopy' = rec.credCopy
      PROVE  Faithful(rec.credCopy, CredKeys)'
  BY <1>1, <1>2, <1>4 DEF Faithful, TypeOK, SecretObject
<1>5. CASE UNCHANGED rec  BY <1>3, <1>4, <1>5 DEF CopiesFaithful
<1>6. CASE Begin
  <2>1. rec'.varCopy = NoSecret /\ rec'.credCopy = NoSecret
    BY <1>6 DEF Begin, TypeOK, Reconciliation
  <2> QED  BY <2>1 DEF CopiesFaithful, Faithful, NoSecret
<1>7. CASE GetVariables
  <2>1. PICK copy \in {secret, NoSecret} :
           rec' = [rec EXCEPT
                        !.pc = IF rec.credentials THEN "getSource"
                               ELSE "applyVariables",
                        !.varCopy = [copy EXCEPT !.data = Overlay(@, variables)]]
    BY <1>7 DEF GetVariables
  <2>2. variables \in [VarKeys -> Values \cup {Absent, Blank}]
    BY DEF TypeOK, Optional
  <2>3. Faithful([copy EXCEPT !.data = Overlay(@, variables)], VarKeys)
    BY <2>1, <2>2, FaithfulRead DEF Keys
  <2>4. /\ rec'.varCopy = [copy EXCEPT !.data = Overlay(@, variables)]
        /\ rec'.credCopy = rec.credCopy
    BY <2>1 DEF TypeOK, Reconciliation
  <2>5. UNCHANGED secret  BY <1>7 DEF GetVariables
  <2> QED  BY <2>3, <2>4, <2>5 DEF CopiesFaithful, Faithful
<1>8. CASE GetCredentials
  <2>1. PICK copy \in {secret, NoSecret} :
           rec' = [rec EXCEPT
                        !.pc = "applyVariables",
                        !.credCopy = [copy EXCEPT !.data = Overlay(@, Mapped(rec.from))]]
    BY <1>8 DEF GetCredentials
  <2>2. Mapped(rec.from) \in [CredKeys -> Values \cup {Absent, Blank}]
    BY MappedType DEF TypeOK, Reconciliation
  <2>3. Faithful([copy EXCEPT !.data = Overlay(@, Mapped(rec.from))], CredKeys)
    BY <2>1, <2>2, FaithfulRead DEF Keys
  <2>4. /\ rec'.credCopy = [copy EXCEPT !.data = Overlay(@, Mapped(rec.from))]
        /\ rec'.varCopy = rec.varCopy
    BY <2>1 DEF TypeOK, Reconciliation
  <2>5. UNCHANGED secret  BY <1>8 DEF GetCredentials
  <2> QED  BY <2>3, <2>4, <2>5 DEF CopiesFaithful, Faithful
<1>9. ASSUME rec'.varCopy = rec.varCopy, rec'.credCopy = rec.credCopy
      PROVE  CopiesFaithful'
  BY <1>3, <1>4, <1>9 DEF CopiesFaithful
<1>10. CASE GetSource \/ GetSourceFails \/ Done
  <2>1. rec'.varCopy = rec.varCopy /\ rec'.credCopy = rec.credCopy
    BY <1>10 DEF GetSource, GetSourceFails, Done, TypeOK, Reconciliation
  <2> QED  BY <2>1, <1>9
<1>11. CASE ApplyVariables \/ ApplyCredentials
  <2>1. rec'.varCopy = rec.varCopy /\ rec'.credCopy = rec.credCopy
    BY <1>11 DEF ApplyVariables, ApplyCredentials, Apply, TypeOK, Reconciliation
  <2> QED  BY <2>1, <1>9
<1> QED
  BY <1>5, <1>6, <1>7, <1>8, <1>10, <1>11 DEF Next, SyncSecrets, Users, vars, Resync,
     SetVariable, SetCredentials, SetSource, EditSecret, DeleteSecret, CollectSecret

\* A write from a faithful copy that was read changes nothing but the own keys.
LEMMA WriteKeeps ==
    ASSUME TypeOK, NEW STATE copy, copy \in SecretObject, NEW CONSTANT own,
           NEW CONSTANT next, Faithful(copy, own), copy.rv # 0, Apply(copy, next)
    PROVE  \A k \in Keys \ own : secret'.data[k] = secret.data[k]
<1>1. CASE UNCHANGED secret  BY <1>1
<1>2. CASE Succeeds(copy) /\ Write(Intended(copy))
  <2>1. copy.rv = secret.rv  BY <1>2 DEF Succeeds, Writable, Accepts
  <2>2. Intended(copy) \in SecretObject /\ Intended(copy).data = copy.data
    BY IntendedType DEF TypeOK, Intended, SecretObject
  <2>3. secret'.data = copy.data
    BY <1>2, <2>2, StoredRises DEF Write, TypeOK
  <2> QED  BY <2>1, <2>3 DEF Faithful
<1> QED  BY <1>1, <1>2 DEF Apply

\* A synchroniser that has read the Secret never touches, in a Secret it replaces
\* as a whole, what the other synchroniser or a user put there.
THEOREM WhatWasReadIsKept == Spec => ReadCopiesKeep
<1>1. Init => TypeOK /\ CopiesFaithful  BY InitType, FaithfulInit
<1>2. (TypeOK /\ CopiesFaithful) /\ [Next]_vars => (TypeOK /\ CopiesFaithful)'
  BY NextType, FaithfulNext
<1>3. ASSUME TypeOK, CopiesFaithful, [Next]_vars
      PROVE  [/\ rec.pc = "applyVariables" /\ rec' # rec /\ rec.varCopy.rv # 0
                 => \A k \in Keys \ VarKeys : secret'.data[k] = secret.data[k]
              /\ rec.pc = "applyCredentials" /\ rec' # rec /\ rec.credCopy.rv # 0
                 => \A k \in Keys \ CredKeys : secret'.data[k] = secret.data[k]
             ]_vars
  <2>1. rec.varCopy \in SecretObject /\ rec.credCopy \in SecretObject
    BY <1>3 DEF TypeOK, Reconciliation
  <2>2. ASSUME rec.pc = "applyVariables", rec' # rec, rec.varCopy.rv # 0
        PROVE  \A k \in Keys \ VarKeys : secret'.data[k] = secret.data[k]
    <3>1. ApplyVariables
      BY <1>3, <2>2 DEF Next, SyncSecrets, Users, vars, Begin, GetVariables, GetSource,
         GetSourceFails, GetCredentials, ApplyCredentials, Done, Resync, SetVariable,
         SetCredentials, SetSource, EditSecret, DeleteSecret, CollectSecret
    <3>2. \E next \in {"applyCredentials", "done"} : Apply(rec.varCopy, next)
      BY <3>1 DEF ApplyVariables
    <3> QED  BY <1>3, <2>1, <2>2, <3>2, WriteKeeps DEF CopiesFaithful
  <2>3. ASSUME rec.pc = "applyCredentials", rec' # rec, rec.credCopy.rv # 0
        PROVE  \A k \in Keys \ CredKeys : secret'.data[k] = secret.data[k]
    <3>1. ApplyCredentials
      BY <1>3, <2>3 DEF Next, SyncSecrets, Users, vars, Begin, GetVariables, GetSource,
         GetSourceFails, GetCredentials, ApplyVariables, Done, Resync, SetVariable,
         SetCredentials, SetSource, EditSecret, DeleteSecret, CollectSecret
    <3> QED  BY <1>3, <2>1, <2>3, <3>1, WriteKeeps DEF CopiesFaithful, ApplyCredentials
  <2> QED  BY <2>2, <2>3
<1> QED  BY <1>1, <1>2, <1>3, PTL DEF Spec, ReadCopiesKeep

-----------------------------------------------------------------------------
(* A provider that is left alone has what it asks for in its Secret.        *)

\* When nothing is left to be done, the Secret is there with all variables of the
\* provider, and, if the provider names credentials, with what the credential that
\* was read last makes of them, and the condition says whether that was complete.
NothingMissing ==
    ~due /\ rec.pc = "idle" =>
        /\ secret.exists
        /\ \A k \in VarKeys : spec.variables[k] # Absent => secret.data[k] = spec.variables[k]
        /\ spec.credentials =>
              /\ \A k \in CredKeys : secret.data[k] = Mapped(rec.from)[k]
              /\ cond = IF AllValid(rec.from) THEN "Mapped" ELSE "KeyMissing"

Covers(data) == \A k \in VarKeys : spec.variables[k] # Absent => data[k] = spec.variables[k]

HasCredentials(data) == \A k \in CredKeys : data[k] = Mapped(rec.from)[k]

\* Unless the provider is due again: each phase has the current variables, and the
\* copies have what is to be written.
Prepared ==
    ~due =>
        /\ Covers(variables)
        /\ rec.credentials = spec.credentials
        /\ rec.pc \in {"getSource", "getCredentials", "applyVariables"} => Covers(rec.varCopy.data)
        /\ rec.credentials /\ rec.pc \in {"applyVariables", "applyCredentials"} =>
              HasCredentials(rec.credCopy.data)
        /\ rec.credentials /\ rec.pc \in {"applyVariables", "applyCredentials", "done", "idle"} =>
              cond = IF AllValid(rec.from) THEN "Mapped" ELSE "KeyMissing"

\* A write that fails is noted, one that changes the Secret makes the provider due
\* again, and one that changes nothing shows that all is there.
Written ==
    ~due /\ (rec.pc = "idle" \/ ~rec.failed) =>
        /\ rec.pc \in {"applyCredentials", "done", "idle"} => secret.exists /\ Covers(secret.data)
        /\ rec.credentials /\ rec.pc \in {"done", "idle"} => HasCredentials(secret.data)

\* A write of a synchroniser after which the provider is not due again, and which did
\* not fail, found the Secret as it should be.
LEMMA QuietWrite ==
    ASSUME TypeOK, NEW STATE copy, copy \in SecretObject, NEW CONSTANT next \in Phases,
           Apply(copy, next), ~due'
    PROVE  /\ secret' = secret /\ ~due
           /\ rec'.pc = next /\ rec'.credentials = rec.credentials /\ rec'.from = rec.from
           /\ rec'.varCopy = rec.varCopy /\ rec'.credCopy = rec.credCopy
           /\ rec.failed => rec'.failed
           /\ ~rec'.failed => secret.exists /\ secret.data = copy.data
<1>1. CASE Succeeds(copy) /\ Write(Intended(copy)) /\ rec' = [rec EXCEPT !.pc = next]
  <2>1. Intended(copy) \in SecretObject /\ secret \in SecretObject
    BY IntendedType DEF TypeOK
  <2>2. Intended(copy).exists = TRUE /\ Intended(copy).data = copy.data
    BY DEF Intended, TypeOK, SecretObject
  <2>3. secret' = Stored(secret, Intended(copy)) /\ secret' = secret /\ ~due
    BY <1>1 DEF Write
  <2>4. Intended(copy) = secret
    <3> DEFINE m == [Intended(copy) EXCEPT !.rv = secret.rv + 1]
    <3>1. m.rv = secret.rv + 1 /\ Settle(m).rv = m.rv /\ secret.rv \in Nat
      BY <2>1 DEF SecretObject, Settle
    <3> QED  BY <2>3, <3>1 DEF Stored
  <2>5. /\ rec'.pc = next /\ rec'.credentials = rec.credentials /\ rec'.from = rec.from
        /\ rec'.varCopy = rec.varCopy /\ rec'.credCopy = rec.credCopy
        /\ rec'.failed = rec.failed
    BY <1>1 DEF TypeOK, Reconciliation
  <2> QED  BY <2>2, <2>3, <2>4, <2>5
<1>2. CASE rec' = [rec EXCEPT !.pc = next, !.failed = TRUE] /\ UNCHANGED <<secret, due>>
  <2>1. /\ rec'.pc = next /\ rec'.credentials = rec.credentials /\ rec'.from = rec.from
        /\ rec'.varCopy = rec.varCopy /\ rec'.credCopy = rec.credCopy
        /\ rec'.failed = TRUE
    BY <1>2 DEF TypeOK, Reconciliation
  <2> QED  BY <1>2, <2>1
<1> QED  BY <1>1, <1>2 DEF Apply

\* What is laid over the data of a Secret is there.
LEMMA OverlayCovers ==
    ASSUME TypeOK, NEW STATE copy, copy \in SecretObject, Covers(variables)
    PROVE  Covers(Overlay(copy.data, variables))
<1>1. DOMAIN copy.data = Keys /\ DOMAIN variables = VarKeys
  BY DEF TypeOK, SecretObject, DataSet, Optional
<1> QED  BY <1>1 DEF Covers, Overlay, Keys

LEMMA OverlayMapped ==
    ASSUME TypeOK, NEW STATE copy, copy \in SecretObject
    PROVE  HasCredentials(Overlay(copy.data, Mapped(rec.from)))
<1>1. DOMAIN copy.data = Keys
  BY DEF SecretObject, DataSet
<1>2. ASSUME NEW k \in CredKeys PROVE Mapped(rec.from)[k] # Absent
  <2>1. rec.from.value \in Values
    BY DEF TypeOK, Reconciliation, Sources
  <2> QED  BY <2>1, SecretsAssumption DEF Mapped
<1> QED  BY <1>1, <1>2 DEF HasCredentials, Overlay, Mapped, Keys

LEMMA MissingInit == Init => Prepared /\ Written
BY DEF Init, Prepared, Written

\* The steps of the phase.
LEMMA PhaseMisses ==
    ASSUME TypeOK, Prepared, Written, Begin \/ SyncSecrets
    PROVE  Prepared' /\ Written'
<1> SUFFICES ASSUME ~due' PROVE Prepared' /\ Written'
  BY DEF Prepared, Written
<1>1. CASE Begin
  <2>1. /\ rec'.pc = "getVariables" /\ rec'.credentials = spec.credentials /\ spec' = spec
        /\ rec'.failed = FALSE
    BY <1>1 DEF Begin, TypeOK, Reconciliation
  <2>2. variables' = Overlay(variables, spec.variables) /\ DOMAIN variables = VarKeys
        /\ DOMAIN spec.variables = VarKeys
    BY <1>1 DEF Begin, TypeOK, Optional
  <2>3. Covers(variables)'
    BY <2>1, <2>2 DEF Covers, Overlay
  <2> QED  BY <2>1, <2>3 DEF Prepared, Written
<1>2. CASE GetVariables
  <2>1. PICK copy \in {secret, NoSecret} :
           rec' = [rec EXCEPT
                        !.pc = IF rec.credentials THEN "getSource"
                               ELSE "applyVariables",
                        !.varCopy = [copy EXCEPT !.data = Overlay(@, variables)]]
    BY <1>2 DEF GetVariables
  <2>2. copy \in SecretObject
    BY <2>1, NoSecretType DEF TypeOK
  <2>3. ~due /\ UNCHANGED <<secret, spec, variables, source, cond, due>>
    BY <1>2 DEF GetVariables
  <2>4. /\ rec'.pc = IF rec.credentials THEN "getSource" ELSE "applyVariables"
        /\ rec'.credentials = rec.credentials
        /\ rec'.varCopy.data = Overlay(copy.data, variables)
    BY <2>1, <2>2 DEF TypeOK, Reconciliation, SecretObject
  <2>5. Covers(Overlay(copy.data, variables))
    BY <2>2, <2>3, OverlayCovers DEF Prepared
  <2>6. Covers(rec.varCopy.data)' /\ Covers(variables)'
    BY <2>3, <2>4, <2>5 DEF Covers, Prepared
  <2>7. rec'.pc \notin {"applyCredentials", "done", "idle"} /\ rec.credentials \in BOOLEAN
    BY <2>4 DEF TypeOK, Reconciliation
  <2> QED  BY <2>3, <2>4, <2>6, <2>7 DEF Prepared, Written
<1>3. CASE GetSource
  <2>1. ~due /\ UNCHANGED <<secret, spec, variables, source, cond, due>> /\ rec.pc = "getSource"
    BY <1>3 DEF GetSource
  <2>2. rec'.pc = "getCredentials" /\ rec'.credentials = rec.credentials
        /\ rec'.varCopy = rec.varCopy
    BY <1>3 DEF GetSource, TypeOK, Reconciliation
  <2>3. Covers(rec.varCopy.data)' /\ Covers(variables)'
    BY <2>1, <2>2 DEF Covers, Prepared
  <2> QED  BY <2>1, <2>2, <2>3 DEF Prepared, Written
<1>4. CASE GetSourceFails
  BY <1>4 DEF GetSourceFails
<1>5. CASE GetCredentials
  <2>1. PICK copy \in {secret, NoSecret} :
           rec' = [rec EXCEPT
                        !.pc = "applyVariables",
                        !.credCopy = [copy EXCEPT !.data = Overlay(@, Mapped(rec.from))]]
    BY <1>5 DEF GetCredentials
  <2>2. copy \in SecretObject
    BY <2>1, NoSecretType DEF TypeOK
  <2>3. /\ ~due /\ UNCHANGED <<secret, spec, variables, source, due>>
        /\ rec.pc = "getCredentials"
        /\ cond' = IF AllValid(rec.from) THEN "Mapped" ELSE "KeyMissing"
    BY <1>5 DEF GetCredentials
  <2>4. /\ rec'.pc = "applyVariables" /\ rec'.credentials = rec.credentials
        /\ rec'.varCopy = rec.varCopy /\ rec'.from = rec.from
        /\ rec'.credCopy.data = Overlay(copy.data, Mapped(rec.from))
    BY <2>1, <2>2 DEF TypeOK, Reconciliation, SecretObject
  <2>5. HasCredentials(Overlay(copy.data, Mapped(rec.from)))
    BY <2>2, OverlayMapped
  <2>6. HasCredentials(rec.credCopy.data)'
    BY <2>4, <2>5 DEF HasCredentials
  <2>7. Covers(rec.varCopy.data)' /\ Covers(variables)'
    BY <2>3, <2>4 DEF Covers, Prepared
  <2> QED  BY <2>3, <2>4, <2>6, <2>7 DEF Prepared, Written
<1>6. CASE ApplyVariables
  <2> DEFINE next == IF rec.credentials THEN "applyCredentials" ELSE "done"
  <2>1. /\ rec.pc = "applyVariables" /\ UNCHANGED <<spec, variables, source, cond>>
        /\ rec.varCopy \in SecretObject
    BY <1>6 DEF ApplyVariables, TypeOK, Reconciliation
  <2>2. /\ secret' = secret /\ ~due
        /\ rec'.pc = next /\ rec'.credentials = rec.credentials /\ rec'.from = rec.from
        /\ rec'.varCopy = rec.varCopy /\ rec'.credCopy = rec.credCopy
        /\ ~rec'.failed => secret.exists /\ secret.data = rec.varCopy.data
    <3>1. PICK n \in Phases : n = next /\ Apply(rec.varCopy, n)
      BY <1>6 DEF ApplyVariables, Phases
    <3> HIDE DEF next
    <3> QED  BY <2>1, <3>1, QuietWrite
  <2>3. Covers(variables)' /\ (~rec'.failed => Covers(secret.data)')
    BY <2>1, <2>2 DEF Covers, Prepared
  <2>4. rec.credentials => HasCredentials(rec.credCopy.data)'
    BY <2>1, <2>2 DEF HasCredentials, Prepared
  <2>5. rec.credentials \in BOOLEAN
        /\ (rec.credentials => cond' = IF AllValid(rec.from) THEN "Mapped" ELSE "KeyMissing")
    BY <2>1, <2>2 DEF TypeOK, Reconciliation, Prepared
  <2> QED  BY <2>1, <2>2, <2>3, <2>4, <2>5 DEF Prepared, Written
<1>7. CASE ApplyCredentials
  <2>1. /\ rec.pc = "applyCredentials" /\ UNCHANGED <<spec, variables, source, cond>>
        /\ rec.credCopy \in SecretObject
    BY <1>7 DEF ApplyCredentials, TypeOK, Reconciliation
  <2>2. /\ secret' = secret /\ ~due
        /\ rec'.pc = "done" /\ rec'.credentials = rec.credentials /\ rec'.from = rec.from
        /\ rec.failed => rec'.failed
        /\ ~rec'.failed => secret.exists /\ secret.data = rec.credCopy.data
    BY <1>7, <2>1, QuietWrite DEF ApplyCredentials, Phases
  <2>3. Covers(variables)' /\ (~rec'.failed => Covers(secret.data)')
    BY <2>1, <2>2 DEF Covers, Prepared, Written
  <2>4. rec.credentials /\ ~rec'.failed => HasCredentials(secret.data)'
    BY <2>1, <2>2 DEF HasCredentials, Prepared
  <2> QED  BY <2>1, <2>2, <2>3, <2>4 DEF Prepared, Written
<1>8. CASE Done
  <2>1. /\ rec.pc = "done" /\ ~due /\ ~rec.failed
        /\ UNCHANGED <<secret, spec, variables, source, cond>>
    BY <1>8 DEF Done
  <2>2. rec'.pc = "idle" /\ rec'.credentials = rec.credentials /\ rec'.from = rec.from
    BY <1>8 DEF Done, TypeOK, Reconciliation
  <2>3. Covers(variables)' /\ Covers(secret.data)' /\ secret.exists
    BY <2>1, <2>2 DEF Covers, Prepared, Written
  <2>4. rec.credentials => HasCredentials(secret.data)'
    BY <2>1, <2>2 DEF HasCredentials, Written
  <2> QED  BY <2>1, <2>2, <2>3, <2>4 DEF Prepared, Written
<1> QED  BY <1>1, <1>2, <1>3, <1>4, <1>5, <1>6, <1>7, <1>8 DEF SyncSecrets

\* Whatever others do to the provider or to its Secret is an event.
LEMMA OthersMiss ==
    ASSUME TypeOK, Prepared, Written, Resync \/ Users \/ CollectSecret \/ UNCHANGED vars
    PROVE  Prepared' /\ Written'
<1> SUFFICES ASSUME ~due' PROVE Prepared' /\ Written'
  BY DEF Prepared, Written
<1>1. ASSUME NEW STATE new, Write(new)
      PROVE  ~due /\ secret' = secret
  BY <1>1 DEF Write
<1>2. UNCHANGED <<spec, variables, cond, rec>>
  BY DEF Users, Resync, SetVariable, SetCredentials, SetSource, EditSecret, DeleteSecret,
     CollectSecret, vars
<1>3. ~due /\ secret' = secret
  <2>1. ASSUME NEW k \in Keys, NEW v \in Values \cup {Absent}, EditSecret(k, v)
        PROVE  ~due /\ secret' = secret
    BY <1>1, <2>1 DEF EditSecret
  <2>2. CASE DeleteSecret \/ CollectSecret
    BY <1>1, <2>2 DEF DeleteSecret, CollectSecret
  <2> QED
    BY <2>1, <2>2 DEF Users, Resync, SetVariable, SetCredentials, SetSource, vars
<1> QED  BY <1>2, <1>3 DEF Prepared, Written, Covers, HasCredentials

\* No write is given up, none is undone unnoticed, and none of the two synchronisers
\* has the last word with an outdated copy: once the provider is left alone, its
\* Secret has the variables and the credentials (internal/sync/, List.Sync and
\* List.Apply; operator_reconciler.go, syncSecrets).
THEOREM NothingIsMissing == Spec => []NothingMissing
<1> DEFINE I == TypeOK /\ Prepared /\ Written
<1>1. Init => I  BY InitType, MissingInit
<1>2. I /\ [Next]_vars => I'
  BY NextType, PhaseMisses, OthersMiss DEF Next
<1>3. I => NothingMissing
  BY DEF NothingMissing, Prepared, Written, Covers, HasCredentials
<1> QED  BY <1>1, <1>2, <1>3, PTL DEF Spec
=============================================================================
