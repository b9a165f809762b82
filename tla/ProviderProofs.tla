---------------------------- MODULE ProviderProofs ----------------------------
(***************************************************************************)
(* The CAPIProvider controller with one worker, for any number of          *)
(* providers and of failures, changes, deletions and new creations.        *)
(***************************************************************************)
EXTENDS ProviderReconciler, TLAPS

\* Only objects that are there have a finalizer, only those that have one can be
\* going.
Sane(o) == (o.fin => o.exists) /\ (o.deleting => o.fin)

\* Held, and not going: what an object that the controller deletes has been and
\* will not be again before it is gone.
Staying(o) == o.fin /\ ~o.deleting

\* The cache may be behind the server, but the finalizer it shows on a provider that
\* stays is there, and a provider it shows as going does not stay.
CacheSound ==
    \A p \in Providers :
        /\ Sane(prov[p]) /\ Sane(cache[p])
        /\ Staying(cache[p]) => prov[p].fin
        /\ cache[p].deleting => ~Staying(prov[p])

Forward  == {"wait", "preflight", "fetch", "install", "conditions"}
Backward == {"waitDelete", "delete"}

Doomed(p) == ~Staying(prov[p]) /\ ~Staying(cache[p])

\* What a worker has in r.Provider is its own provider; one it installs is held by
\* the finalizer, one it takes down does not stay; and the patch at the end removes
\* the finalizer only when the components are gone.
Hand(w) ==
    LET p == rec[w].for
        b == rec[w].base
    IN /\ rec[w].pc # "idle" => p \in Providers
       /\ rec[w].pc \in Phases \cup {"save"} =>
            held.of = p /\ held.obj.deleting = b.deleting /\ held.obj.exists = b.exists
       /\ rec[w].pc \in Phases => b.fin /\ held.obj.fin
       /\ rec[w].pc \in Forward => prov[p].fin
       /\ rec[w].pc \in Backward => Doomed(p)
       /\ rec[w].pc = "save" =>
            \/ b.fin = held.obj.fin
            \/ ~b.fin /\ held.obj.fin /\ (cache[p].deleting => prov[p].deleting)
            \/ b.fin /\ ~held.obj.fin /\ applied[p] = 0 /\ Doomed(p)

HandSound == \A w \in Workers : Hand(w)

\* No manifest is rendered with a version that stands for nothing.
RenderedSound ==
    /\ \A p \in Providers : secret[p] # 0
    /\ \A w \in Workers : rec[w].pc = "install" => rec[w].rendered # 0

IInv == TypeOK /\ NothingOrphaned /\ CacheSound /\ HandSound /\ RenderedSound

\* One worker, as without the option --concurrency.
OneWorker == \A v, w \in Workers : v = w

-----------------------------------------------------------------------------

LEMMA Objects == New \in Object /\ Gone \in Object /\ Idle \in Work /\ Sane(New) /\ Sane(Gone)
                 /\ ~Gone.exists /\ Gone.phase \in ProviderPhases
  BY DEF New, Gone, Object, ProviderPhases, Idle, Work, Steps, Sane

\* What is in hand when a worker is at work.
LEMMA InHand ==
    ASSUME IInv, NEW w \in Workers
    PROVE  /\ rec[w] \in Work /\ rec[w].base \in Object /\ held.obj \in Object
           /\ rec[w].pc # "idle" => rec[w].for \in Providers
           /\ rec[w].pc \in Phases \cup {"save"} => held.of = rec[w].for
  BY DEF IInv, TypeOK, HandSound, Hand, Work

\* A patch, field by field.
LEMMA MergedType ==
    ASSUME NEW o \in Object, NEW from \in Object, NEW to \in Object
    PROVE  Merged(o, from, to) \in Object
  <1>1. [f \in DOMAIN o |-> IF to[f] # from[f] THEN to[f] ELSE o[f]] \in Object
    BY DEF Object
  <1> QED BY <1>1, Objects DEF Merged

\* A patch from a copy that agrees with the one in hand on whether the provider is
\* there and going, as both come from the cache.
LEMMA MergedFields ==
    ASSUME NEW o \in Object, NEW from \in Object, NEW to \in Object,
           o.exists, to.deleting = from.deleting, to.exists = from.exists
    PROVE  LET fin == IF to.fin # from.fin THEN to.fin ELSE o.fin
           IN  \/ Merged(o, from, to) = Gone /\ o.deleting /\ ~fin
               \/ /\ Merged(o, from, to).exists
                  /\ Merged(o, from, to).deleting = o.deleting
                  /\ Merged(o, from, to).fin = fin
                  /\ ~(o.deleting /\ ~fin)
  BY DEF Merged, Object

LEMMA InitHolds == Init => IInv
  <1> SUFFICES ASSUME Init PROVE IInv
    OBVIOUS
  <1>1. TypeOK
    BY Objects, ProviderAssumption DEF Init, TypeOK, Nobody, Gone, Providers
  <1>2. NothingOrphaned /\ CacheSound
    BY Objects DEF Init, NothingOrphaned, CacheSound, New, Staying
  <1>3. HandSound
    BY DEF Init, HandSound, Hand, Idle, Phases, Forward, Backward
  <1>4. RenderedSound
    BY DEF Init, RenderedSound, Idle
  <1> QED BY <1>1, <1>2, <1>3, <1>4 DEF IInv

\* The ways a worker goes on.
LEMMA GoesOn ==
    ASSUME TypeOK, NEW w \in Workers
    PROVE  /\ \A step \in Steps : Proceed(w, step) => rec' \in [Workers -> Work]
           /\ \A again \in BOOLEAN : Stop(w, again) => rec' \in [Workers -> Work]
           /\ Leave(w) => /\ rec' \in [Workers -> Work]
                          /\ held' \in [of: Providers \cup {None}, obj: Object]
  <1>1. \A step \in Steps : [rec[w] EXCEPT !.pc = step] \in Work
    BY DEF TypeOK, Work
  <1>2. \A again \in BOOLEAN : [[rec[w] EXCEPT !.pc = "save"] EXCEPT !.again = again] \in Work
    BY DEF TypeOK, Work, Steps
  <1>3. \A x \in Work : [rec EXCEPT ![w] = x] \in [Workers -> Work]
    BY DEF TypeOK
  <1>4. \A step \in Steps : Proceed(w, step) => rec' \in [Workers -> Work]
    BY <1>1, <1>3 DEF Proceed
  <1>5. \A again \in BOOLEAN : Stop(w, again) => rec' \in [Workers -> Work]
    BY <1>2, <1>3 DEF Stop, TypeOK
  <1>6. Leave(w) => /\ rec' \in [Workers -> Work]
                    /\ held' \in [of: Providers \cup {None}, obj: Object]
    BY <1>3, Objects DEF Leave, Nobody, TypeOK
  <1> QED BY <1>4, <1>5, <1>6

\* What the phases write into the provider in hand.
LEMMA Written ==
    ASSUME NEW o \in Object
    PROVE  /\ [o EXCEPT !.fin = TRUE] \in Object /\ [o EXCEPT !.fin = FALSE] \in Object
           /\ [o EXCEPT !.deleting = TRUE] \in Object
           /\ \A b \in BOOLEAN : [o EXCEPT !.installed = b] \in Object
           /\ \A b \in BOOLEAN : [o EXCEPT !.ready = b] \in Object
           /\ [o EXCEPT !.preflight = "True"] \in Object
           /\ [o EXCEPT !.preflight = "False"] \in Object
           /\ [o EXCEPT !.phase = PhaseOf(o)] \in Object
  BY DEF Object, PhaseOf, ProviderPhases

LEMMA BoundType ==
    ASSUME TypeOK, Fault \/ Edit
    PROVE  used' \in [edits: Nat, faults: Nat]
  BY DEF TypeOK, Fault, Edit

LEMMA HeldType ==
    ASSUME TypeOK, NEW x \in Object, held' = [held EXCEPT !.obj = x]
    PROVE  held' \in [of: Providers \cup {None}, obj: Object]
  BY DEF TypeOK

\* Every step keeps the types.
LEMMA TypeStep == IInv /\ [Next]_vars => TypeOK'
  <1> SUFFICES ASSUME IInv, [Next]_vars PROVE TypeOK'
    OBVIOUS
  <1>0. TypeOK
    BY DEF IInv
  <1> USE <1>0
  <1>a. \A w \in Workers : rec[w].pc # "idle" => rec[w].for \in Providers
    BY InHand
  <1>b. \A w \in Workers : rec[w].pc \in Phases \cup {"save"} => held.of \in Providers
    BY InHand DEF Phases
  <1>c. held.obj \in Object
    BY DEF TypeOK
  <1>s. Phases \subseteq Steps /\ {"idle", "load", "save"} \subseteq Steps
    BY DEF Steps
  <1>1. ASSUME NEW w \in Workers, NEW p \in Providers, Begin(w, p) PROVE TypeOK'
    <2>1. [Idle EXCEPT !.pc = "load", !.for = p] \in Work
      BY Objects DEF Work, Steps
    <2> QED BY <1>1, <2>1 DEF Begin, TypeOK, cluster
  <1>2. ASSUME NEW w \in Workers, NEW p \in Providers, AddFinalizer(w, p) PROVE TypeOK'
    <2>1. [prov[p] EXCEPT !.fin = TRUE] \in Object
      BY Written DEF TypeOK
    <2> QED BY <1>2, <2>1 DEF AddFinalizer, TypeOK
  <1>3. ASSUME NEW w \in Workers, NEW p \in Providers, AddFinalizerFails(w, p) PROVE TypeOK'
    BY <1>3 DEF AddFinalizerFails, Fault, TypeOK, cluster
  <1>4. ASSUME NEW w \in Workers, Load(w) PROVE TypeOK'
    <2> DEFINE o == cache[rec[w].for]
    <2>1. o \in Object /\ rec[w].for \in Providers
      BY <1>4, <1>a DEF Load, TypeOK
    <2>2. [o EXCEPT !.fin = TRUE] \in Object
      BY <2>1, Written
    <2> HIDE DEF o
    <2>3. \A step \in {"save", "wait", "waitDelete"} :
             [[rec[w] EXCEPT !.base = o] EXCEPT !.pc = step] \in Work
      <3>1. rec[w] \in Work
        BY DEF TypeOK
      <3>2. [rec[w] EXCEPT !.base = o] \in Work
        BY <2>1, <3>1 DEF Work
      <3>3. \A step \in {"save", "wait", "waitDelete"} : step \in Steps
        BY DEF Steps, Phases
      <3> HIDE DEF TypeOK
      <3> QED
        BY <3>2, <3>3 DEF Work
    <2>4. rec' \in [Workers -> Work]
      BY <1>4, <2>3, Objects DEF Load, TypeOK, o
    <2>5. held' = held \/ held' = [of |-> rec[w].for, obj |-> [o EXCEPT !.fin = TRUE]]
      BY <1>4 DEF Load, o
    <2>6. PICK x \in Object : held' = held \/ held' = [of |-> rec[w].for, obj |-> x]
      BY <2>2, <2>5
    <2>7. held' \in [of: Providers \cup {None}, obj: Object]
      BY <2>1, <2>6 DEF TypeOK
    <2> QED BY <1>4, <2>4, <2>7 DEF Load, TypeOK, cluster
  <1>5. ASSUME NEW w \in Workers, WaitForConfig(w) PROVE TypeOK'
    <2>1. rec' \in [Workers -> Work]
      BY <1>5, <1>s, GoesOn DEF WaitForConfig, Phases
    <2> QED BY <1>5, <2>1 DEF WaitForConfig, TypeOK, cluster
  <1>6. ASSUME NEW w \in Workers, PreflightChecks(w) PROVE TypeOK'
    <2>1. rec' \in [Workers -> Work]
      BY <1>6, <1>s, GoesOn DEF PreflightChecks, Phases
    <2>2. held' \in [of: Providers \cup {None}, obj: Object]
      BY <1>6, <1>c, Written, HeldType DEF PreflightChecks
    <2> QED BY <1>6, <2>1, <2>2 DEF PreflightChecks, TypeOK, cluster
  <1>7. ASSUME NEW w \in Workers, Fetch(w) PROVE TypeOK'
    <2>1. secret[held.of] \in Nat
      BY <1>7, <1>b DEF Fetch, Phases, TypeOK
    <2>2. [[rec[w] EXCEPT !.pc = "install"] EXCEPT !.rendered = secret[held.of]] \in Work
      <3>1. rec[w] \in Work /\ "install" \in Steps
        BY DEF TypeOK, Steps, Phases
      <3>2. [rec[w] EXCEPT !.pc = "install"] \in Work
        BY <3>1 DEF Work
      <3> QED
        BY <2>1, <3>2 DEF Work
    <2>3. rec' \in [Workers -> Work]
      BY <1>7, <2>2 DEF Fetch, TypeOK
    <2> QED BY <1>7, <2>3 DEF Fetch, TypeOK, cluster
  <1>8. ASSUME NEW w \in Workers, Install(w) PROVE TypeOK'
    <2>1. rec' \in [Workers -> Work]
      BY <1>8, <1>s, GoesOn DEF Install, Phases
    <2>2. held' \in [of: Providers \cup {None}, obj: Object]
      BY <1>8, <1>c, Written, HeldType DEF Install
    <2>3. applied' \in [Providers -> Nat]
      BY <1>8 DEF Install, TypeOK, Work
    <2> QED BY <1>8, <2>1, <2>2, <2>3 DEF Install, TypeOK
  <1>9. ASSUME NEW w \in Workers, SetConditions(w) PROVE TypeOK'
    <2>1. rec' \in [Workers -> Work]
      BY <1>9, GoesOn DEF SetConditions
    <2>2. held' \in [of: Providers \cup {None}, obj: Object]
      BY <1>9, <1>c, Written, HeldType DEF SetConditions
    <2> QED BY <1>9, <2>1, <2>2 DEF SetConditions, TypeOK, cluster
  <1>10. ASSUME NEW w \in Workers, Delete(w) PROVE TypeOK'
    <2>1. rec' \in [Workers -> Work]
      BY <1>10, GoesOn DEF Delete
    <2>2. held' \in [of: Providers \cup {None}, obj: Object]
      BY <1>10, <1>c, Written, HeldType DEF Delete
    <2> QED BY <1>10, <2>1, <2>2 DEF Delete, TypeOK
  <1>11. ASSUME NEW w \in Workers, PhaseFails(w) PROVE TypeOK'
    <2>1. rec' \in [Workers -> Work]
      BY <1>11, GoesOn DEF PhaseFails
    <2>2. {held.obj.installed, FALSE} \subseteq BOOLEAN
      BY <1>c DEF Object
    <2>3. held' \in [of: Providers \cup {None}, obj: Object]
      BY <1>11, <1>c, <2>2, Written, HeldType DEF PhaseFails
    <2> QED BY <1>11, <2>1, <2>3 DEF PhaseFails, Fault, TypeOK, cluster
  <1>12. ASSUME NEW w \in Workers, Save(w) PROVE TypeOK'
    <2>1. held.of \in Providers /\ rec[w].for \in Providers
      BY <1>12, <1>a, <1>b DEF Save
    <2>2. Merged(prov[held.of], rec[w].base, held.obj) \in Object
      BY <2>1, <1>c, InHand, MergedType DEF TypeOK
    <2>3. prov' \in [Providers -> Object]
      BY <1>12, <2>2 DEF Save, TypeOK
    <2>4. queue' \subseteq Providers
      BY <1>12, <2>1 DEF Save, TypeOK
    <2> QED BY <1>12, <2>3, <2>4, GoesOn DEF Save, TypeOK
  <1>13. ASSUME NEW w \in Workers, SaveFails(w) PROVE TypeOK'
    BY <1>13, <1>a, GoesOn DEF SaveFails, Fault, TypeOK, cluster
  <1>14. ASSUME NEW p \in Providers, SyncProvider(p) PROVE TypeOK'
    BY <1>14 DEF SyncProvider, CoreToProviders, Providers, TypeOK, cluster
  <1>15. ASSUME NEW p \in Providers, SyncSecret(p) PROVE TypeOK'
    BY <1>15 DEF SyncSecret, SecretToProvider, TypeOK
  <1>16. CASE Restart
    BY <1>16, Objects DEF Restart, Nobody, Fault, TypeOK
  <1>17. ASSUME NEW p \in Providers, CreateProvider(p) PROVE TypeOK'
    BY <1>17, Objects DEF CreateProvider, Edit, TypeOK
  <1>18. ASSUME NEW p \in Providers, DeleteProvider(p) PROVE TypeOK'
    <2>1. [prov[p] EXCEPT !.deleting = TRUE] \in Object
      BY Written DEF TypeOK
    <2> QED BY <1>18, <2>1, Objects DEF DeleteProvider, Edit, TypeOK
  <1>19. ASSUME NEW p \in Providers, EditSecret(p) PROVE TypeOK'
    BY <1>19 DEF EditSecret, Edit, TypeOK
  <1>20. CASE CoreReady \/ CoreUnready
    <2>1. \A b \in BOOLEAN : [prov[Core] EXCEPT !.ready = b] \in Object
      BY Written DEF TypeOK, Providers
    <2>2. CASE CoreReady
      BY <2>1, <2>2 DEF CoreReady, TypeOK
    <2>3. CASE CoreUnready
      BY <2>1, <2>3, BoundType DEF CoreUnready, TypeOK
    <2> QED BY <1>20, <2>2, <2>3
  <1>21. CASE ChangeConfig \/ Mount
    <2>1. CASE ChangeConfig
      BY <2>1, BoundType DEF ChangeConfig, TypeOK
    <2>2. CASE Mount
      BY <2>2 DEF Mount, TypeOK
    <2> QED BY <1>21, <2>1, <2>2
  <1>22. CASE UNCHANGED vars
    BY <1>22 DEF vars, cluster, TypeOK
  <1> QED
    BY <1>1, <1>2, <1>3, <1>4, <1>5, <1>6, <1>7, <1>8, <1>9, <1>10, <1>11, <1>12, <1>13,
       <1>14, <1>15, <1>16, <1>17, <1>18, <1>19, <1>20, <1>21, <1>22
    DEF Next, Step, Take, User

-----------------------------------------------------------------------------
(* The steps, one worker at a time. *)

\* With one worker, what the worker has is all there is in hand.
LEMMA Alone ==
    ASSUME OneWorker, NEW w \in Workers, Hand(w)'
    PROVE  HandSound'
  BY DEF OneWorker, HandSound

\* A phase that leaves the cluster and the cache alone keeps the invariant when it
\* keeps what the worker has in hand.
LEMMA Untouched ==
    ASSUME NothingOrphaned, CacheSound, prov' = prov, cache' = cache, applied' = applied
    PROVE  NothingOrphaned' /\ CacheSound'
  BY DEF NothingOrphaned, CacheSound, Staying, Sane

LEMMA TakeStep ==
    ASSUME OneWorker, IInv, NEW w \in Workers, NEW p \in Providers, Take(w, p)
    PROVE  NothingOrphaned' /\ CacheSound' /\ HandSound'
  <1>0. TypeOK /\ NothingOrphaned /\ CacheSound /\ HandSound
    BY DEF IInv
  <1> USE <1>0
  <1>1. CASE Begin(w, p)
    <2>1. NothingOrphaned' /\ CacheSound'
      BY <1>1, Untouched DEF Begin, cluster
    <2>2. rec' = rec \/ rec'[w] = [Idle EXCEPT !.pc = "load", !.for = p]
      BY <1>1 DEF Begin, TypeOK
    <2>4. [Idle EXCEPT !.pc = "load", !.for = p].pc = "load"
          /\ [Idle EXCEPT !.pc = "load", !.for = p].for = p
      BY DEF Idle
    <2>3. HandSound'
      <3>1. prov' = prov /\ cache' = cache /\ applied' = applied /\ held' = held
        BY <1>1 DEF Begin, cluster
      <3>2. CASE rec' = rec
        BY <3>1, <3>2 DEF HandSound, Hand, Doomed, Staying
      <3>3. CASE rec'[w].pc = "load" /\ rec'[w].for = p
        BY <3>3, Alone DEF Hand, Phases, Forward, Backward
      <3> QED BY <2>2, <2>4, <3>2, <3>3
    <2> QED BY <2>1, <2>3
  <1>2. CASE AddFinalizer(w, p)
    <2>1. rec[w].pc = "idle" /\ rec' = rec /\ cache' = cache /\ applied' = applied
      BY <1>2 DEF AddFinalizer, Free
    <2>2. HandSound'
      BY <2>1, Alone DEF Hand, Phases, Forward, Backward
    <2>3. prov' = prov \/ /\ prov' = [prov EXCEPT ![p].fin = TRUE]
                          /\ prov[p].exists /\ ~prov[p].deleting
                          /\ ~cache[p].fin /\ ~cache[p].deleting
      BY <1>2 DEF AddFinalizer, CanMerge, NeedsFinalizer, TypeOK, Object
    <2>4. NothingOrphaned'
      BY <2>1, <2>3 DEF NothingOrphaned, TypeOK, Object
    <2>5. CacheSound'
      <3>1. CASE prov' = prov
        BY <2>1, <3>1 DEF CacheSound, Sane, Staying
      <3>2. CASE prov' # prov
        <4>1. prov'[p].fin /\ prov'[p].exists /\ ~prov'[p].deleting
          BY <2>3, <3>2 DEF TypeOK, Object
        <4>2. \A q \in Providers \ {p} : prov'[q] = prov[q]
          BY <2>3, <3>2 DEF TypeOK
        <4> QED BY <2>1, <2>3, <3>2, <4>1, <4>2 DEF CacheSound, Sane, Staying
      <3> QED BY <3>1, <3>2
    <2> QED BY <2>2, <2>4, <2>5
  <1>3. CASE AddFinalizerFails(w, p)
    BY <1>3, Untouched, Alone DEF AddFinalizerFails, cluster, HandSound, Hand, Doomed, Staying
  <1> QED BY <1>1, <1>2, <1>3 DEF Take

\* What a worker leaves behind is of no account.
LEMMA Resting ==
    ASSUME NEW w \in Workers, rec'[w].pc = "idle"
    PROVE  Hand(w)'
  BY DEF Hand, Phases, Forward, Backward

LEMMA LoadStep ==
    ASSUME OneWorker, IInv, NEW w \in Workers, Load(w)
    PROVE  NothingOrphaned' /\ CacheSound' /\ HandSound'
  <1>p. PICK p \in Providers : p = rec[w].for
    BY InHand DEF Load
  <1>o. PICK o \in Object : o = cache[p]
    BY DEF IInv, TypeOK
  <1>1. NothingOrphaned' /\ CacheSound'
    BY Untouched DEF Load, IInv, cluster
  <1>2. Sane(o)
    BY <1>o DEF IInv, CacheSound
  <1>3. CASE ~o.exists
    <2>1. rec'[w].pc = "idle"
      BY <1>p, <1>o, <1>3 DEF Load, IInv, TypeOK, Idle
    <2> QED BY <1>1, <2>1, Resting, Alone
  <1>4. CASE o.exists
    <2>1. /\ rec'[w].for = p /\ rec'[w].base = o
          /\ rec'[w].pc = IF ~o.fin THEN "save" ELSE IF o.deleting THEN "waitDelete" ELSE "wait"
      BY <1>p, <1>o, <1>4 DEF Load, IInv, TypeOK, Work
    <2>2. held'.of = p /\ held'.obj = [o EXCEPT !.fin = TRUE]
      BY <1>p, <1>o, <1>4 DEF Load
    <2>3. held'.obj.fin /\ held'.obj.deleting = o.deleting /\ held'.obj.exists = o.exists
      BY <1>2, <2>2 DEF Object
    <2>4. prov' = prov /\ cache' = cache /\ applied' = applied
      BY DEF Load, cluster
    <2>5. ~o.fin => ~o.deleting
      BY <1>2 DEF Sane
    <2>6. o.fin /\ o.deleting => Doomed(p)
      BY <1>o, <1>2 DEF IInv, CacheSound, Doomed, Staying
    <2>7. o.fin /\ ~o.deleting => prov[p].fin
      BY <1>o, <1>2 DEF IInv, CacheSound, Staying
    <2>8. Doomed(p)' = Doomed(p)
      BY <2>4 DEF Doomed, Staying
    <2>10. CASE ~o.fin
      BY <1>2, <2>1, <2>2, <2>3, <2>4, <2>5, <1>o, <2>10, <1>1, Alone
      DEF Hand, Phases, Forward, Backward
    <2>11. CASE o.fin /\ o.deleting
      BY <1>2, <2>1, <2>2, <2>3, <2>4, <2>6, <2>8, <2>11, <1>1, Alone
      DEF Hand, Phases, Forward, Backward
    <2>12. CASE o.fin /\ ~o.deleting
      BY <1>2, <2>1, <2>2, <2>3, <2>4, <2>7, <2>12, <1>1, Alone
      DEF Hand, Phases, Forward, Backward
    <2> QED BY <2>10, <2>11, <2>12
  <1> QED BY <1>3, <1>4

\* A phase that keeps the direction, or ends it with the finalizer in hand.
LEMMA PhaseKeeps ==
    ASSUME OneWorker, IInv, NEW w \in Workers, rec[w].pc \in Phases,
           prov' = prov, cache' = cache, applied' = applied,
           held'.of = held.of, held'.obj.fin = held.obj.fin,
           held'.obj.deleting = held.obj.deleting, held'.obj.exists = held.obj.exists,
           rec'[w].for = rec[w].for, rec'[w].base = rec[w].base,
           \/ rec'[w].pc = "save"
           \/ rec[w].pc \in Forward /\ rec'[w].pc \in Forward
           \/ rec[w].pc \in Backward /\ rec'[w].pc \in Backward
    PROVE  NothingOrphaned' /\ CacheSound' /\ HandSound'
  <1>1. NothingOrphaned' /\ CacheSound'
    BY Untouched DEF IInv
  <1>2. Hand(w)
    BY DEF IInv, HandSound
  <1>3. Hand(w)'
    BY <1>2 DEF Hand, Phases, Forward, Backward, Doomed, Staying
  <1> QED BY <1>1, <1>3, Alone

\* The ways a worker goes on do not touch the rest of what it has.
LEMMA RestOfWork ==
    ASSUME TypeOK, NEW w \in Workers
    PROVE  /\ \A step : Proceed(w, step) =>
                 rec'[w].pc = step /\ rec'[w].for = rec[w].for /\ rec'[w].base = rec[w].base
           /\ \A again : Stop(w, again) =>
                 rec'[w].pc = "save" /\ rec'[w].for = rec[w].for /\ rec'[w].base = rec[w].base
           /\ Leave(w) => rec'[w].pc = "idle"
  BY DEF TypeOK, Proceed, Stop, Leave, Work, Idle

LEMMA PhaseStep ==
    ASSUME OneWorker, IInv, NEW w \in Workers,
           \/ WaitForConfig(w) \/ PreflightChecks(w) \/ Fetch(w)
           \/ SetConditions(w) \/ PhaseFails(w)
    PROVE  NothingOrphaned' /\ CacheSound' /\ HandSound'
  <1>1. TypeOK /\ held \in [of: Providers \cup {None}, obj: Object] /\ held.obj \in Object
    BY DEF IInv, TypeOK
  <1>2. CASE WaitForConfig(w)
    <2>1. \/ rec'[w].pc = "save"
          \/ rec[w].pc = "wait" /\ rec'[w].pc = "preflight"
          \/ rec[w].pc = "waitDelete" /\ rec'[w].pc = "delete"
      BY <1>1, <1>2, RestOfWork DEF WaitForConfig
    <2>2. rec'[w].for = rec[w].for /\ rec'[w].base = rec[w].base
      BY <1>1, <1>2, RestOfWork DEF WaitForConfig
    <2>3. prov' = prov /\ cache' = cache /\ applied' = applied /\ held' = held
      BY <1>2 DEF WaitForConfig, cluster
    <2>4. rec[w].pc \in Phases
      BY <1>2 DEF WaitForConfig, Phases
    <2> QED BY <2>1, <2>2, <2>3, <2>4, PhaseKeeps DEF Forward, Backward
  <1>3. CASE PreflightChecks(w)
    <2>1. /\ held'.of = held.of /\ held'.obj.fin = held.obj.fin
          /\ held'.obj.deleting = held.obj.deleting /\ held'.obj.exists = held.obj.exists
      BY <1>1, <1>3 DEF PreflightChecks, Object
    <2>2. rec'[w].pc = "save" \/ rec'[w].pc = "fetch"
      BY <1>1, <1>3, RestOfWork DEF PreflightChecks
    <2>3. rec'[w].for = rec[w].for /\ rec'[w].base = rec[w].base
      BY <1>1, <1>3, RestOfWork DEF PreflightChecks
    <2>4. prov' = prov /\ cache' = cache /\ applied' = applied /\ rec[w].pc = "preflight"
      BY <1>3 DEF PreflightChecks, cluster
    <2> QED BY <2>1, <2>2, <2>3, <2>4, PhaseKeeps DEF Phases, Forward
  <1>4. CASE Fetch(w)
    <2>1. rec'[w].pc = "install" /\ rec'[w].for = rec[w].for /\ rec'[w].base = rec[w].base
      BY <1>1, <1>4 DEF Fetch, TypeOK, Work
    <2> QED BY <1>1, <1>4, <2>1, PhaseKeeps DEF Fetch, cluster, Phases, Forward
  <1>5. CASE SetConditions(w)
    <2>1. /\ held'.of = held.of /\ held'.obj.fin = held.obj.fin
          /\ held'.obj.deleting = held.obj.deleting /\ held'.obj.exists = held.obj.exists
      BY <1>1, <1>5 DEF SetConditions, Object
    <2> QED BY <1>1, <1>5, <2>1, RestOfWork, PhaseKeeps DEF SetConditions, cluster, Phases
  <1>6. CASE PhaseFails(w)
    <2>1. /\ held'.of = held.of /\ held'.obj.fin = held.obj.fin
          /\ held'.obj.deleting = held.obj.deleting /\ held'.obj.exists = held.obj.exists
      BY <1>1, <1>6 DEF PhaseFails, Object
    <2> QED BY <1>1, <1>6, <2>1, RestOfWork, PhaseKeeps DEF PhaseFails, cluster
  <1> QED BY <1>2, <1>3, <1>4, <1>5, <1>6

LEMMA InstallStep ==
    ASSUME OneWorker, IInv, NEW w \in Workers, Install(w)
    PROVE  NothingOrphaned' /\ CacheSound' /\ HandSound'
  <1>1. TypeOK /\ held.obj \in Object /\ Hand(w)
    BY DEF IInv, TypeOK, HandSound
  <1>2. /\ prov' = prov /\ cache' = cache /\ rec[w].pc = "install"
        /\ applied' = [applied EXCEPT ![held.of] = rec[w].rendered]
    BY DEF Install
  <1>3. held.of \in Providers /\ Sane(prov[held.of]) /\ prov[held.of].fin
    BY <1>1, <1>2 DEF Hand, Phases, Forward, IInv, CacheSound
  <1>4. NothingOrphaned'
    BY <1>1, <1>2, <1>3 DEF NothingOrphaned, IInv, TypeOK, Sane
  <1>5. CacheSound'
    BY <1>2 DEF IInv, CacheSound, Staying, Sane
  <1>6. /\ held'.of = held.of /\ held'.obj.fin = held.obj.fin
        /\ held'.obj.deleting = held.obj.deleting /\ held'.obj.exists = held.obj.exists
    BY <1>1 DEF Install, TypeOK, Object
  <1>7. rec'[w].pc = "conditions" /\ rec'[w].for = rec[w].for /\ rec'[w].base = rec[w].base
    BY <1>1, RestOfWork DEF Install
  <1>8. Hand(w)'
    BY <1>1, <1>2, <1>6, <1>7 DEF Hand, Phases, Forward, Backward
  <1> QED BY <1>4, <1>5, <1>8, Alone

LEMMA DeleteStep ==
    ASSUME OneWorker, IInv, NEW w \in Workers, Delete(w)
    PROVE  NothingOrphaned' /\ CacheSound' /\ HandSound'
  <1>1. TypeOK /\ held.obj \in Object /\ Hand(w)
    BY DEF IInv, TypeOK, HandSound
  <1>2. /\ prov' = prov /\ cache' = cache /\ rec[w].pc = "delete"
        /\ applied' = [applied EXCEPT ![held.of] = 0]
    BY DEF Delete
  <1>3. held.of \in Providers /\ Doomed(held.of) /\ held.of = rec[w].for
    BY <1>1, <1>2 DEF Hand, Phases, Backward
  <1>4. NothingOrphaned'
    BY <1>1, <1>2, <1>3 DEF NothingOrphaned, IInv, TypeOK
  <1>5. CacheSound'
    BY <1>2 DEF IInv, CacheSound, Staying, Sane
  <1>6. /\ held'.of = held.of /\ ~held'.obj.fin
        /\ held'.obj.deleting = held.obj.deleting /\ held'.obj.exists = held.obj.exists
    BY <1>1 DEF Delete, TypeOK, Object
  <1>7. rec'[w].pc = "save" /\ rec'[w].for = rec[w].for /\ rec'[w].base = rec[w].base
    BY <1>1, RestOfWork DEF Delete
  <1>8. applied'[held.of] = 0 /\ Doomed(held.of)'
    BY <1>1, <1>2, <1>3, <1>6 DEF TypeOK, Doomed, Staying
  <1>9. Hand(w)'
    BY <1>1, <1>2, <1>3, <1>6, <1>7, <1>8 DEF Hand, Phases, Forward, Backward
  <1> QED BY <1>4, <1>5, <1>9, Alone

\* The patch removes the finalizer of a provider that has no components and does
\* not stay, or gives it to one that is not going.
LEMMA SaveStep ==
    ASSUME OneWorker, IInv, NEW w \in Workers, Save(w) \/ SaveFails(w)
    PROVE  NothingOrphaned' /\ CacheSound' /\ HandSound'
  <1> DEFINE p == held.of
             b == rec[w].base
             n == Merged(prov[p], b, held.obj)
  <1>1. /\ TypeOK /\ Hand(w) /\ rec[w].pc = "save" /\ p \in Providers /\ p = rec[w].for
        /\ b \in Object /\ held.obj \in Object /\ prov[p] \in Object /\ cache[p] \in Object
    BY InHand DEF Save, SaveFails, IInv, TypeOK, HandSound
  <1>2. HandSound'
    BY <1>1, RestOfWork, Resting, Alone DEF Save, SaveFails
  <1>3. cache' = cache /\ applied' = applied
    BY DEF Save, SaveFails, cluster
  <1>4. CASE prov' = prov
    BY <1>2, <1>3, <1>4, Untouched DEF IInv
  <1>5. CASE prov' # prov
    <2>1. prov' = [prov EXCEPT ![p] = n] /\ CanMerge(prov[p], b, held.obj)
      BY <1>5 DEF Save, SaveFails, cluster
    <2>2. held.obj.deleting = b.deleting /\ held.obj.exists = b.exists
      BY <1>1 DEF Hand
    <2>3. Sane(prov[p]) /\ prov[p].exists
          /\ (prov[p].deleting /\ ~b.fin => ~held.obj.fin)
      BY <1>1, <2>1 DEF CanMerge, IInv, CacheSound
    <2> DEFINE fin == IF held.obj.fin # b.fin THEN held.obj.fin ELSE prov[p].fin
    <2>4. \/ n = Gone /\ prov[p].deleting /\ ~fin
          \/ n.exists /\ n.deleting = prov[p].deleting /\ n.fin = fin
             /\ ~(prov[p].deleting /\ ~fin)
      BY <1>1, <2>2, <2>3, MergedFields
    <2>5. prov'[p] = n /\ \A q \in Providers \ {p} : prov'[q] = prov[q]
      BY <1>1, <2>1 DEF TypeOK
    <2>6. \/ b.fin = held.obj.fin
          \/ ~b.fin /\ held.obj.fin /\ (cache[p].deleting => prov[p].deleting)
          \/ b.fin /\ ~held.obj.fin /\ applied[p] = 0 /\ Doomed(p)
      BY <1>1 DEF Hand
    <2>7. /\ applied[p] # 0 => prov[p].fin
          /\ Sane(cache[p]) /\ (Staying(cache[p]) => prov[p].fin)
          /\ cache[p].deleting => ~Staying(prov[p])
      BY <1>1 DEF IInv, NothingOrphaned, CacheSound
    <2> HIDE DEF n, p, b
    <2>8. /\ applied[p] # 0 => n.exists /\ n.fin
          /\ Sane(n)
          /\ Staying(cache[p]) => n.fin
          /\ cache[p].deleting => ~Staying(n)
      BY <1>1, <2>3, <2>4, <2>6, <2>7, Objects DEF Sane, Staying, Doomed, Gone, New
    <2>9. NothingOrphaned'
      BY <1>1, <1>3, <2>5, <2>8 DEF NothingOrphaned, IInv
    <2>10. CacheSound'
      BY <1>1, <1>3, <2>5, <2>8 DEF CacheSound, IInv
    <2> QED BY <1>2, <2>9, <2>10
  <1> QED BY <1>4, <1>5

-----------------------------------------------------------------------------
(* The others. *)

\* What happens to one provider outside of the manager keeps what is in hand, if a
\* finalizer that is there stays and no provider comes to stay.
LEMMA OutsideKeeps ==
    ASSUME IInv, NEW p \in Providers,
           \A q \in Providers \ {p} : prov'[q] = prov[q],
           prov[p].fin => prov'[p].fin,
           prov[p].deleting => prov'[p].deleting,
           Staying(prov'[p]) => Staying(prov[p]),
           prov[p].fin \/ ~prov'[p].fin,
           cache' = cache, applied' = applied, rec' = rec, held' = held,
           Sane(prov'[p])
    PROVE  NothingOrphaned' /\ CacheSound' /\ HandSound'
  <1>1. \A q \in Providers :
            /\ prov[q].fin => prov'[q].fin
            /\ prov[q].deleting => prov'[q].deleting
            /\ Staying(prov'[q]) => Staying(prov[q])
            /\ Sane(prov'[q]) /\ Sane(prov[q])
    BY DEF IInv, CacheSound
  <1>2. NothingOrphaned'
    BY <1>1 DEF IInv, NothingOrphaned, Sane
  <1>3. CacheSound'
    BY <1>1 DEF IInv, CacheSound
  <1>4. ASSUME NEW w \in Workers PROVE Hand(w)'
    <2>1. Hand(w)
      BY DEF IInv, HandSound
    <2> QED BY <1>1, <2>1 DEF Hand, Doomed, Phases, Forward, Backward
  <1> QED BY <1>2, <1>3, <1>4 DEF HandSound

LEMMA SyncStep ==
    ASSUME IInv, NEW p \in Providers, SyncProvider(p)
    PROVE  NothingOrphaned' /\ CacheSound' /\ HandSound'
  <1>1. /\ prov' = prov /\ applied' = applied /\ rec' = rec /\ held' = held
        /\ cache' = [cache EXCEPT ![p] = prov[p]]
    BY DEF SyncProvider, cluster
  <1>2. NothingOrphaned'
    BY <1>1 DEF IInv, NothingOrphaned
  <1>3. CacheSound'
    BY <1>1 DEF IInv, TypeOK, CacheSound, Staying, Sane
  <1>4. ASSUME NEW w \in Workers PROVE Hand(w)'
    <2>1. Hand(w)
      BY DEF IInv, HandSound
    <2>2. \A q \in Providers : cache'[q] = prov[q] \/ cache'[q] = cache[q]
      BY <1>1 DEF IInv, TypeOK
    <2> QED BY <1>1, <2>1, <2>2 DEF Hand, Doomed, Staying, Phases, Forward, Backward
  <1> QED BY <1>2, <1>3, <1>4 DEF HandSound

LEMMA RestartStep ==
    ASSUME IInv, Restart
    PROVE  NothingOrphaned' /\ CacheSound' /\ HandSound'
  <1>1. prov' = prov /\ applied' = applied /\ cache' = prov
    BY DEF Restart
  <1>2. NothingOrphaned' /\ CacheSound'
    BY <1>1 DEF IInv, NothingOrphaned, CacheSound, Staying, Sane
  <1>3. ASSUME NEW w \in Workers PROVE Hand(w)'
    BY Resting DEF Restart, Idle
  <1> QED BY <1>2, <1>3 DEF HandSound

LEMMA UserStep ==
    ASSUME IInv, NEW p \in Providers, CreateProvider(p) \/ DeleteProvider(p)
    PROVE  NothingOrphaned' /\ CacheSound' /\ HandSound'
  <1>1. prov[p] \in Object /\ Sane(prov[p]) /\ prov \in [Providers -> Object]
    BY DEF IInv, TypeOK, CacheSound
  <1>2. CASE CreateProvider(p)
    <2>1. prov'[p] = New /\ \A q \in Providers \ {p} : prov'[q] = prov[q]
      BY <1>1, <1>2 DEF CreateProvider
    <2>2. ~prov[p].fin /\ ~prov[p].deleting
      BY <1>1, <1>2 DEF CreateProvider, Sane
    <2> QED BY <1>2, <2>1, <2>2, OutsideKeeps DEF CreateProvider, New, Staying, Sane
  <1>3. CASE DeleteProvider(p)
    <2>1. \A q \in Providers \ {p} : prov'[q] = prov[q]
      BY <1>1, <1>3 DEF DeleteProvider
    <2>2. CASE prov[p].fin
      <3>1. prov'[p].fin /\ prov'[p].deleting /\ prov'[p].exists
        BY <1>1, <1>3, <2>2 DEF DeleteProvider, Object
      <3> QED BY <1>3, <2>1, <2>2, <3>1, OutsideKeeps DEF DeleteProvider, Staying, Sane
    <2>3. CASE ~prov[p].fin
      <3>1. prov'[p] = Gone /\ ~prov[p].deleting
        BY <1>1, <1>3, <2>3 DEF DeleteProvider
      <3> QED BY <1>3, <2>1, <2>3, <3>1, OutsideKeeps
              DEF DeleteProvider, Gone, New, Staying, Sane
    <2> QED BY <2>2, <2>3
  <1> QED BY <1>2, <1>3

\* The health of the core provider is none of their concern.
LEMMA CoreStep ==
    ASSUME IInv, CoreReady \/ CoreUnready
    PROVE  NothingOrphaned' /\ CacheSound' /\ HandSound'
  <1>1. Core \in Providers /\ prov \in [Providers -> Object] /\ prov[Core] \in Object
        /\ Sane(prov[Core])
    BY DEF IInv, TypeOK, CacheSound, Providers
  <1>2. PICK b \in BOOLEAN : prov' = [prov EXCEPT ![Core].ready = b]
    BY DEF CoreReady, CoreUnready
  <1>3. /\ prov'[Core].fin = prov[Core].fin /\ prov'[Core].deleting = prov[Core].deleting
        /\ prov'[Core].exists = prov[Core].exists
        /\ \A q \in Providers \ {Core} : prov'[q] = prov[q]
    BY <1>1, <1>2 DEF Object
  <1>4. cache' = cache /\ applied' = applied /\ rec' = rec /\ held' = held
    BY DEF CoreReady, CoreUnready
  <1> QED BY <1>1, <1>3, <1>4, OutsideKeeps DEF Staying, Sane

\* Only the step before it leads to the installation.
LEMMA ToInstall ==
    ASSUME TypeOK, NEW w \in Workers, Step(w), ~Fetch(w)
    PROVE  /\ secret' = secret /\ rec'[w].pc # "install"
           /\ \A v \in Workers \ {w} : rec'[v] = rec[v]
  <1>1. secret' = secret
    BY DEF Step, Load, WaitForConfig, PreflightChecks, Install, SetConditions,
           Delete, PhaseFails, Save, SaveFails, cluster
  <1>2. \A v \in Workers \ {w} : rec'[v] = rec[v]
    BY DEF Step, Load, WaitForConfig, PreflightChecks, Install, SetConditions,
           Delete, PhaseFails, Save, SaveFails, Leave, Proceed, Stop, TypeOK
  <1>3. CASE Load(w)
    BY <1>1, <1>2, <1>3 DEF Load, TypeOK, Work, Idle
  <1>4. CASE Save(w) \/ SaveFails(w)
    <2>1. Leave(w)
      BY <1>4 DEF Save, SaveFails
    <2> QED BY <1>1, <1>2, <2>1, RestOfWork
  <1>5. CASE WaitForConfig(w) \/ PreflightChecks(w)
    <2>1. \/ \E step \in {"preflight", "delete", "fetch"} : Proceed(w, step)
          \/ \E again \in BOOLEAN : Stop(w, again)
      BY <1>5 DEF WaitForConfig, PreflightChecks
    <2> QED BY <1>1, <1>2, <2>1, RestOfWork
  <1>6. CASE Install(w) \/ SetConditions(w) \/ Delete(w) \/ PhaseFails(w)
    <2>1. Proceed(w, "conditions") \/ \E again \in BOOLEAN : Stop(w, again)
      BY <1>6 DEF Install, SetConditions, Delete, PhaseFails
    <2> QED BY <1>1, <1>2, <2>1, RestOfWork
  <1> QED BY <1>3, <1>4, <1>5, <1>6 DEF Step

LEMMA RenderedStep == IInv /\ [Next]_vars => RenderedSound'
  <1> SUFFICES ASSUME IInv, [Next]_vars PROVE RenderedSound'
    OBVIOUS
  <1>1. TypeOK /\ RenderedSound
    BY DEF IInv
  <1>2. CASE \E p \in Providers : EditSecret(p)
    BY <1>1, <1>2 DEF EditSecret, RenderedSound, TypeOK
  <1>3. CASE UNCHANGED <<secret, rec>>
    BY <1>1, <1>3 DEF RenderedSound
  <1>4. ASSUME NEW w \in Workers, Fetch(w) PROVE RenderedSound'
    <2>1. held.of \in Providers
      BY <1>4, InHand DEF Fetch, Phases
    <2> QED BY <1>1, <1>4, <2>1 DEF Fetch, RenderedSound, TypeOK, Work, cluster
  <1>5. ASSUME NEW w \in Workers, Step(w), ~Fetch(w) PROVE RenderedSound'
    BY <1>1, <1>5, ToInstall DEF RenderedSound
  <1>6. ASSUME NEW w \in Workers, NEW p \in Providers, Begin(w, p) PROVE RenderedSound'
    BY <1>1, <1>6 DEF Begin, RenderedSound, TypeOK, Idle, cluster
  <1>7. CASE Restart
    BY <1>1, <1>7 DEF Restart, RenderedSound, Idle
  <1> QED BY <1>2, <1>3, <1>4, <1>5, <1>6, <1>7
          DEF Next, Take, User, AddFinalizer, AddFinalizerFails, SyncProvider, SyncSecret,
              CreateProvider, DeleteProvider, CoreReady, CoreUnready, ChangeConfig, Mount,
              vars, cluster

\* The invariant is inductive.
LEMMA NextKeeps == OneWorker /\ IInv /\ [Next]_vars => IInv'
  <1> SUFFICES ASSUME OneWorker, IInv, [Next]_vars
               PROVE  NothingOrphaned' /\ CacheSound' /\ HandSound'
    BY TypeStep, RenderedStep DEF IInv
  <1>1. ASSUME NEW w \in Workers, Step(w)
        PROVE  NothingOrphaned' /\ CacheSound' /\ HandSound'
    BY <1>1, LoadStep, PhaseStep, InstallStep, DeleteStep, SaveStep DEF Step
  <1>2. ASSUME NEW w \in Workers, NEW p \in Providers, Take(w, p)
        PROVE  NothingOrphaned' /\ CacheSound' /\ HandSound'
    BY <1>2, TakeStep
  <1>3. CASE UNCHANGED <<prov, cache, applied, rec, held>>
    BY <1>3 DEF IInv, NothingOrphaned, CacheSound, HandSound, Hand, Doomed, Staying, Sane
  <1>4. ASSUME NEW p \in Providers, SyncProvider(p) \/ SyncSecret(p)
        PROVE  NothingOrphaned' /\ CacheSound' /\ HandSound'
    BY <1>3, <1>4, SyncStep DEF SyncSecret
  <1>5. CASE Restart
    BY <1>5, RestartStep
  <1>6. CASE User \/ CoreReady
    <2>1. ASSUME NEW p \in Providers, EditSecret(p)
          PROVE  NothingOrphaned' /\ CacheSound' /\ HandSound'
      BY <1>3, <2>1 DEF EditSecret
    <2>2. CASE ChangeConfig
      BY <1>3, <2>2 DEF ChangeConfig
    <2> QED BY <1>6, <2>1, <2>2, UserStep, CoreStep DEF User
  <1>7. CASE Mount \/ UNCHANGED vars
    BY <1>3, <1>7 DEF Mount, vars, cluster
  <1> QED BY <1>1, <1>2, <1>4, <1>5, <1>6, <1>7 DEF Next

\* One worker is a matter of the constants.
LEMMA Invariant ==
    ASSUME OneWorker
    PROVE  Spec => []IInv
  <1>1. IInv /\ [Next]_vars => IInv'
    BY NextKeeps
  <1> QED BY InitHolds, <1>1, PTL DEF Spec

\* The types of the CAPIProvider controller, for one worker: operator_reconciler.go
\* keeps the provider a worker has in hand in a field that all workers share.
THEOREM ProviderTypes ==
    ASSUME OneWorker
    PROVE  Spec => []TypeOK
  <1>1. IInv => TypeOK
    BY DEF IInv
  <1> QED BY Invariant, <1>1, PTL

\* No components without a provider that holds them, for one worker and any number
\* of providers, failures and new creations (operator_reconciler.go:262-277).
THEOREM NothingIsOrphaned ==
    ASSUME OneWorker
    PROVE  Spec => []NothingOrphaned
  <1>1. IInv => NothingOrphaned
    BY DEF IInv
  <1> QED BY Invariant, <1>1, PTL

\* With one worker the components taken away are those of a provider that is being
\* deleted (operator_reconciler.go:65, 168-171).
THEOREM DeletionIsAsked ==
    ASSUME OneWorker
    PROVE  Spec => DeletedWhenAsked
  <1> DEFINE A == \A p \in Providers : applied[p] # 0 /\ applied'[p] = 0 => prov[p].deleting
  <1>1. ASSUME IInv, [Next]_vars PROVE [A]_vars
    <2>1. ASSUME NEW w \in Workers, Delete(w) PROVE A
      <3>1. Hand(w) /\ rec[w].pc = "delete" /\ applied' = [applied EXCEPT ![held.of] = 0]
        BY <1>1, <2>1 DEF Delete, IInv, HandSound
      <3>2. Doomed(held.of)
        BY <3>1 DEF Hand, Phases, Backward
      <3>3. \A p \in Providers : applied[p] # 0 => prov[p].fin
        BY <1>1 DEF IInv, NothingOrphaned
      <3>4. applied \in [Providers -> Nat] /\ prov \in [Providers -> Object]
        BY <1>1 DEF IInv, TypeOK
      <3> QED BY <3>1, <3>2, <3>3, <3>4 DEF Doomed, Staying, Object
    <2>2. ASSUME NEW w \in Workers, Install(w) PROVE A
      <3>1. rec[w].rendered # 0 /\ applied \in [Providers -> Nat]
        BY <1>1, <2>2 DEF Install, IInv, RenderedSound, TypeOK
      <3> QED BY <2>2, <3>1 DEF Install
    <2>3. CASE UNCHANGED applied
      BY <2>3
    <2>4. ASSUME NEW w \in Workers, Step(w), ~Delete(w), ~Install(w) PROVE UNCHANGED applied
      BY <2>4 DEF Step, Load, WaitForConfig, PreflightChecks, Fetch, SetConditions,
                  PhaseFails, Save, SaveFails, cluster
    <2>5. \/ \E w \in Workers : Delete(w) \/ Install(w)
          \/ UNCHANGED applied
      BY <1>1, <2>4
      DEF Next, Take, User, Begin, AddFinalizer, AddFinalizerFails, SyncProvider,
          SyncSecret, Restart, CreateProvider, DeleteProvider, EditSecret, CoreReady,
          CoreUnready, ChangeConfig, Mount, vars, cluster
    <2> QED BY <2>1, <2>2, <2>3, <2>5
  <1> QED BY Invariant, <1>1, PTL DEF Spec, DeletedWhenAsked

-----------------------------------------------------------------------------
(* Nobody is forgotten.                                                     *)

\* The events of the core provider's readiness come and go; nothing is lost with
\* one that the cache never shows.
SameButReady(a, b) ==
    /\ a.exists = b.exists /\ a.deleting = b.deleting /\ a.fin = b.fin
    /\ a.preflight = b.preflight /\ a.installed = b.installed /\ a.phase = b.phase

Working(p) == \E w \in Workers : rec[w].pc # "idle" /\ rec[w].for = p

\* Nothing is on its way that would bring the provider back.
CaughtUp(p) ==
    p \notin queue \cup unseen /\ ~Working(p) /\ SameButReady(cache[p], prov[p])

CoreSeen == cache[Core].exists /\ cache[Core].ready
Called(p) == p \in queue \cup unseen
UpToDate(p) == applied[p] = secret[p] \/ Called(p)

\* A provider that is seen without its finalizer will get it, or has it; one that is
\* seen going has a request until it has gone; and one that nothing brings back is
\* installed, or waits for a core provider that was not seen ready.
Awaited(p) ==
    /\ cache[p].exists /\ NeedsFinalizer(cache[p]) => p \in queue \/ prov[p].fin
    /\ cache[p].deleting => p \in queue \/ Working(p) \/ ~prov[p].fin
    /\ CaughtUp(p) /\ prov[p].exists =>
          \/ prov[p].phase = "Ready" /\ applied[p] = secret[p]
          \/ p # Core /\ prov[p].preflight # "True" /\ ~CoreSeen

AllAwaited == \A p \in Providers : Awaited(p)

\* The three ends of a reconciliation that does not ask for another: the finalizer
\* is written or taken away; the provider is installed; it waits for the core.
Ended(w) ==
    LET p == rec[w].for
        b == rec[w].base
        o == held.obj
    IN  \/ o.fin # b.fin /\ (b.deleting => ~o.fin)
        \/ o.phase = "Ready" /\ ~b.deleting /\ UpToDate(p)
        \/ /\ p # Core /\ o.preflight = "False" /\ ~b.deleting
           /\ p \in queue \/ ~CoreSeen \/ cache[p].preflight = "True"

\* What a worker has in hand is what the cache shows, or there is a request.
Flight(w) ==
    LET p == rec[w].for
        b == rec[w].base
        o == held.obj
    IN /\ rec[w].pc \in Phases \cup {"save"} => b.exists /\ (p \in queue \/ cache[p] = b)
       /\ rec[w].pc \in Forward => ~b.deleting
       /\ rec[w].pc = "install" => rec[w].rendered = secret[p] \/ Called(p)
       /\ rec[w].pc = "conditions" => o.installed /\ UpToDate(p)
       /\ rec[w].pc = "save" /\ ~rec[w].again => Ended(w)

Flights == \A w \in Workers : Flight(w)

CallInv == IInv /\ AllAwaited /\ Flights

LEMMA CallInit == Init => AllAwaited /\ Flights
  <1> SUFFICES ASSUME Init PROVE AllAwaited /\ Flights
    OBVIOUS
  <1>1. \A p \in Providers : p \in queue /\ ~cache[p].deleting
    BY DEF Init, New
  <1>2. AllAwaited
    BY <1>1 DEF AllAwaited, Awaited, CaughtUp
  <1>3. \A w \in Workers : rec[w].pc = "idle"
    BY DEF Init, Idle
  <1> QED BY <1>2, <1>3 DEF Flights, Flight, Phases, Forward

\* With one worker, its provider is the one that is worked on.
LEMMA WorkingAlone ==
    ASSUME OneWorker, NEW w \in Workers, NEW p
    PROVE  /\ Working(p) <=> rec[w].pc # "idle" /\ rec[w].for = p
           /\ Working(p)' <=> rec'[w].pc # "idle" /\ rec'[w].for = p
  BY DEF OneWorker, Working

LEMMA FlightAlone ==
    ASSUME OneWorker, NEW w \in Workers, Flight(w)'
    PROVE  Flights'
  BY DEF OneWorker, Flights

LEMMA Landed ==
    ASSUME OneWorker, NEW w \in Workers, rec'[w].pc \in {"idle", "load"}
    PROVE  Flights'
  <1>1. Flight(w)'
    BY DEF Flight, Phases, Forward
  <1> QED BY <1>1, FlightAlone

\* What a phase does to its own provider is no matter for the others.
LEMMA FlightAwaited ==
    ASSUME OneWorker, AllAwaited, NEW w \in Workers,
           rec[w].pc # "idle", rec'[w].pc # "idle", rec'[w].for = rec[w].for,
           queue' = queue, prov' = prov, cache' = cache, unseen' = unseen, secret' = secret,
           \A q \in Providers : q # rec[w].for => applied'[q] = applied[q]
    PROVE  AllAwaited'
  <1>1. \A p : Working(p)' <=> Working(p)
    BY WorkingAlone
  <1>2. Working(rec[w].for)
    BY WorkingAlone
  <1>3. ASSUME NEW p \in Providers PROVE Awaited(p)'
    <2>1. Awaited(p)
      BY DEF AllAwaited
    <2>2. CaughtUp(p)' <=> CaughtUp(p)
      BY <1>1 DEF CaughtUp, SameButReady
    <2>3. CaughtUp(p) => p # rec[w].for
      BY <1>2 DEF CaughtUp
    <2>4. CoreSeen' <=> CoreSeen
      BY DEF CoreSeen
    <2> QED BY <1>1, <2>1, <2>2, <2>3, <2>4 DEF Awaited, NeedsFinalizer
  <1> QED BY <1>3 DEF AllAwaited

LEMMA LoadCalls ==
    ASSUME OneWorker, CallInv, NEW w \in Workers, Load(w)
    PROVE  AllAwaited' /\ Flights'
  <1>p. PICK p \in Providers : p = rec[w].for
    BY InHand DEF Load, CallInv
  <1>o. PICK o \in Object : o = cache[p]
    BY DEF CallInv, IInv, TypeOK
  <1>1. /\ queue' = queue /\ prov' = prov /\ cache' = cache /\ unseen' = unseen
        /\ secret' = secret /\ applied' = applied /\ rec[w].pc = "load"
    BY DEF Load, cluster
  <1>2. Sane(o) /\ Sane(prov[p])
    BY <1>o DEF CallInv, IInv, CacheSound
  <1>3. CASE ~o.exists
    <2>1. rec'[w].pc = "idle"
      BY <1>p, <1>o, <1>3 DEF Load, CallInv, IInv, TypeOK, Idle
    <2>2. \A q : Working(q) <=> q = p
      BY <1>1, <1>p, WorkingAlone
    <2>3. \A q : ~Working(q)'
      BY <2>1, WorkingAlone
    <2>4. ASSUME NEW q \in Providers, q # p PROVE Awaited(q)'
      BY <1>1, <2>2, <2>3, <2>4
      DEF CallInv, AllAwaited, Awaited, CaughtUp, SameButReady, CoreSeen, NeedsFinalizer
    <2>5. Awaited(p)'
      BY <1>1, <1>2, <1>3, <1>o DEF Awaited, CaughtUp, SameButReady, Sane
    <2> QED BY <2>1, <2>4, <2>5, Landed DEF AllAwaited
  <1>4. CASE o.exists
    <2>1. /\ rec'[w].for = p /\ rec'[w].base = o
          /\ rec'[w].pc = IF ~o.fin THEN "save" ELSE IF o.deleting THEN "waitDelete" ELSE "wait"
      BY <1>p, <1>o, <1>4 DEF Load, CallInv, IInv, TypeOK, Work
    <2>2. held'.obj = [o EXCEPT !.fin = TRUE]
      BY <1>p, <1>o, <1>4 DEF Load
    <2>3. held'.obj.fin = TRUE
      BY <2>2 DEF Object
    <2>4. AllAwaited'
      BY <1>1, <1>p, <2>1, FlightAwaited DEF CallInv
    <2>5. ~o.fin => ~o.deleting
      BY <1>2 DEF Sane
    <2>6. Flight(w)'
      BY <1>1, <1>4, <1>o, <2>1, <2>3, <2>5 DEF Flight, Ended, Phases, Forward
    <2> QED BY <2>4, <2>6, FlightAlone
  <1> QED BY <1>3, <1>4

\* A reconciliation that is to come again, or goes on without having anything in hand
\* that matters yet.
LEMMA PhaseCalls ==
    ASSUME OneWorker, CallInv, NEW w \in Workers, rec[w].pc \in Phases,
           queue' = queue, prov' = prov, cache' = cache, unseen' = unseen, secret' = secret,
           applied' = applied,
           rec'[w].for = rec[w].for, rec'[w].base = rec[w].base,
           \/ rec'[w].pc = "save" /\ rec'[w].again
           \/ rec'[w].pc \in {"preflight", "fetch"} /\ rec[w].pc \in Forward
           \/ rec'[w].pc = "delete"
    PROVE  AllAwaited' /\ Flights'
  <1>1. AllAwaited'
    BY FlightAwaited DEF CallInv, Phases
  <1>2. Flight(w)
    BY DEF CallInv, Flights
  <1>3. Flight(w)'
    BY <1>2 DEF Flight, Phases, Forward
  <1> QED BY <1>1, <1>3, FlightAlone

\* The mark of the ones that stop.
LEMMA StopsWith ==
    ASSUME TypeOK, NEW w \in Workers, NEW again \in BOOLEAN, Stop(w, again)
    PROVE  rec'[w].pc = "save" /\ rec'[w].for = rec[w].for /\ rec'[w].base = rec[w].base
           /\ rec'[w].again = again
  BY DEF TypeOK, Stop, Work

LEMMA WaitCalls ==
    ASSUME OneWorker, CallInv, NEW w \in Workers, WaitForConfig(w) \/ PhaseFails(w)
    PROVE  AllAwaited' /\ Flights'
  <1>1. TypeOK
    BY DEF CallInv, IInv
  <1>2. /\ queue' = queue /\ prov' = prov /\ cache' = cache /\ unseen' = unseen
        /\ secret' = secret /\ applied' = applied /\ rec[w].pc \in Phases
    BY DEF WaitForConfig, PhaseFails, cluster, Phases
  <1>3. CASE Stop(w, TRUE)
    BY <1>1, <1>2, <1>3, StopsWith, PhaseCalls
  <1>4. CASE rec[w].pc = "wait" /\ Proceed(w, "preflight")
    BY <1>1, <1>2, <1>4, RestOfWork, PhaseCalls DEF Forward
  <1>5. CASE rec[w].pc = "waitDelete" /\ Proceed(w, "delete")
    BY <1>1, <1>2, <1>5, RestOfWork, PhaseCalls
  <1> QED BY <1>3, <1>4, <1>5 DEF WaitForConfig, PhaseFails

LEMMA PreflightCalls ==
    ASSUME OneWorker, CallInv, NEW w \in Workers, PreflightChecks(w)
    PROVE  AllAwaited' /\ Flights'
  <1>1. TypeOK /\ Flight(w) /\ held.obj \in Object
    BY DEF CallInv, IInv, Flights, TypeOK
  <1>2. /\ queue' = queue /\ prov' = prov /\ cache' = cache /\ unseen' = unseen
        /\ secret' = secret /\ applied' = applied /\ rec[w].pc = "preflight"
    BY DEF PreflightChecks, cluster
  <1>3. held.of = rec[w].for
    BY <1>2, InHand DEF CallInv, Phases
  <1>4. CASE held.of = Core \/ CoreSeen
    <2>1. Proceed(w, "fetch")
      BY <1>4 DEF PreflightChecks, CoreSeen
    <2> QED BY <1>1, <1>2, <2>1, RestOfWork, PhaseCalls DEF Phases, Forward
  <1>5. CASE ~(held.of = Core \/ CoreSeen)
    <2>1. Stop(w, FALSE) /\ held'.obj = [held.obj EXCEPT !.preflight = "False"]
      BY <1>1, <1>5 DEF PreflightChecks, CoreSeen, TypeOK
    <2>2. held'.obj.preflight = "False"
      BY <1>1, <2>1 DEF Object
    <2>3. rec'[w].pc = "save" /\ rec'[w].for = rec[w].for /\ rec'[w].base = rec[w].base
      BY <1>1, <2>1, StopsWith
    <2>4. AllAwaited'
      BY <1>2, <2>3, FlightAwaited DEF CallInv
    <2>5. Ended(w)'
      BY <1>1, <1>2, <1>3, <1>5, <2>2, <2>3 DEF Flight, Ended, Forward, CoreSeen
    <2>6. Flight(w)'
      BY <1>1, <1>2, <2>3, <2>5 DEF Flight, Phases, Forward
    <2> QED BY <2>4, <2>6, FlightAlone
  <1> QED BY <1>4, <1>5

LEMMA InstallCalls ==
    ASSUME OneWorker, CallInv, NEW w \in Workers,
           Fetch(w) \/ Install(w) \/ SetConditions(w)
    PROVE  AllAwaited' /\ Flights'
  <1>1. TypeOK /\ Flight(w) /\ held.obj \in Object
    BY DEF CallInv, IInv, Flights, TypeOK
  <1>2. /\ queue' = queue /\ prov' = prov /\ cache' = cache /\ unseen' = unseen
        /\ secret' = secret /\ rec[w].pc \in {"fetch", "install", "conditions"}
    BY DEF Fetch, Install, SetConditions, cluster
  <1>3. held.of = rec[w].for /\ rec[w].for \in Providers
    BY <1>2, InHand DEF CallInv, Phases
  <1>4. \A q \in Providers : q # rec[w].for => applied'[q] = applied[q]
    BY <1>1, <1>3 DEF Fetch, Install, SetConditions, cluster, TypeOK
  <1>5. CASE Fetch(w)
    <2>1. /\ rec'[w].pc = "install" /\ rec'[w].for = rec[w].for /\ rec'[w].base = rec[w].base
          /\ rec'[w].rendered = secret[rec[w].for]
      BY <1>1, <1>3, <1>5 DEF Fetch, TypeOK, Work
    <2>2. AllAwaited'
      BY <1>2, <1>4, <2>1, FlightAwaited DEF CallInv
    <2>3. Flight(w)'
      BY <1>1, <1>2, <2>1 DEF Flight, Phases, Forward
    <2> QED BY <2>2, <2>3, FlightAlone
  <1>6. CASE Install(w)
    <2>1. rec'[w].pc = "conditions" /\ rec'[w].for = rec[w].for /\ rec'[w].base = rec[w].base
      BY <1>1, <1>6, RestOfWork DEF Install
    <2>2. held'.obj.installed = TRUE
      BY <1>1, <1>6 DEF Install, Object, TypeOK
    <2>3. applied'[rec[w].for] = rec[w].rendered /\ rec[w].pc = "install"
      BY <1>1, <1>3, <1>6 DEF Install, TypeOK
    <2>4. AllAwaited'
      BY <1>2, <1>4, <2>1, FlightAwaited DEF CallInv
    <2>5. Flight(w)'
      BY <1>1, <1>2, <2>1, <2>2, <2>3 DEF Flight, Phases, Forward, UpToDate, Called
    <2> QED BY <2>4, <2>5, FlightAlone
  <1>7. CASE SetConditions(w)
    <2>1. rec'[w].pc = "save" /\ rec'[w].for = rec[w].for /\ rec'[w].base = rec[w].base
      BY <1>1, <1>7, StopsWith DEF SetConditions
    <2>2. rec[w].pc = "conditions" /\ applied' = applied
          /\ held'.obj = [held.obj EXCEPT !.phase = PhaseOf(held.obj)]
      BY <1>1, <1>7 DEF SetConditions, cluster, TypeOK
    <2>3. held'.obj.phase = "Ready"
      BY <1>1, <2>2 DEF Flight, PhaseOf, Object
    <2>4. AllAwaited'
      BY <1>2, <1>4, <2>1, FlightAwaited DEF CallInv
    <2>5. Ended(w)'
      BY <1>1, <1>2, <2>1, <2>2, <2>3 DEF Flight, Ended, Forward, UpToDate, Called
    <2>6. Flight(w)'
      BY <1>1, <1>2, <2>1, <2>2, <2>5 DEF Flight, Phases, Forward
    <2> QED BY <2>4, <2>6, FlightAlone
  <1> QED BY <1>5, <1>6, <1>7

LEMMA DeleteCalls ==
    ASSUME OneWorker, CallInv, NEW w \in Workers, Delete(w)
    PROVE  AllAwaited' /\ Flights'
  <1>1. TypeOK /\ Flight(w) /\ Hand(w) /\ held.obj \in Object
    BY DEF CallInv, IInv, Flights, HandSound, TypeOK
  <1>2. /\ queue' = queue /\ prov' = prov /\ cache' = cache /\ unseen' = unseen
        /\ secret' = secret /\ rec[w].pc = "delete"
    BY DEF Delete
  <1>3. held.of = rec[w].for /\ rec[w].for \in Providers
    BY <1>2, InHand DEF CallInv, Phases
  <1>4. \A q \in Providers : q # rec[w].for => applied'[q] = applied[q]
    BY <1>1, <1>3 DEF Delete, TypeOK
  <1>5. rec'[w].pc = "save" /\ rec'[w].for = rec[w].for /\ rec'[w].base = rec[w].base
    BY <1>1, StopsWith DEF Delete
  <1>6. held'.obj = [held.obj EXCEPT !.fin = FALSE]
    BY <1>1 DEF Delete, TypeOK
  <1>7. held'.obj.fin = FALSE /\ rec[w].base.fin
    BY <1>1, <1>2, <1>6 DEF Object, Hand, Phases
  <1>8. AllAwaited'
    BY <1>2, <1>4, <1>5, FlightAwaited DEF CallInv
  <1>9. Flight(w)'
    BY <1>1, <1>2, <1>5, <1>7 DEF Flight, Ended, Phases, Forward
  <1> QED BY <1>8, <1>9, FlightAlone

\* A patch that leaves the provider as the cache shows it, from a copy of the cache,
\* has nothing to write.
LEMMA NothingMerged ==
    ASSUME NEW o \in Object, NEW from \in Object, NEW to \in Object,
           Merged(o, from, to).exists, SameButReady(from, Merged(o, from, to))
    PROVE  SameButReady(to, from)
  <1> DEFINE new == [f \in DOMAIN o |-> IF to[f] # from[f] THEN to[f] ELSE o[f]]
  <1>1. Merged(o, from, to) = new
    BY Objects DEF Merged
  <1>2. \A f \in DOMAIN o : new[f] = IF to[f] # from[f] THEN to[f] ELSE o[f]
    OBVIOUS
  <1> HIDE DEF new
  <1>3. DOMAIN o = {"exists", "deleting", "fin", "preflight", "installed", "ready", "phase"}
    BY DEF Object
  <1> QED BY <1>1, <1>2, <1>3 DEF SameButReady

\* The end of a reconciliation: there is a request, the patch changed what the cache
\* shows, or it had nothing to write and the provider is as it should be.
LEMMA SaveCalls ==
    ASSUME OneWorker, CallInv, NEW w \in Workers, Save(w) \/ SaveFails(w)
    PROVE  AllAwaited' /\ Flights'
  <1>p. PICK p \in Providers : p = held.of /\ p = rec[w].for
    BY InHand DEF Save, SaveFails, CallInv
  <1>b. PICK b \in Object : b = rec[w].base
    BY InHand DEF CallInv
  <1>n. PICK n : n = Merged(prov[p], b, held.obj)
    OBVIOUS
  <1> USE <1>p, <1>b, <1>n
  <1>1. /\ TypeOK /\ Hand(w) /\ Flight(w) /\ rec[w].pc = "save" /\ held.obj \in Object
        /\ prov[p] \in Object /\ cache[p] \in Object
    BY InHand DEF Save, SaveFails, CallInv, IInv, TypeOK, HandSound, Flights
  <1>2. rec'[w].pc = "idle"
    BY <1>1, RestOfWork DEF Save, SaveFails
  <1>3. /\ cache' = cache /\ applied' = applied /\ unseen' = unseen /\ secret' = secret
        /\ queue' \in {queue, queue \cup {p}}
        /\ \A q \in Providers \ {p} : prov'[q] = prov[q]
    BY <1>1 DEF Save, SaveFails, cluster, TypeOK
  <1>4. \A q : (Working(q) <=> q = p) /\ ~Working(q)'
    BY <1>1, <1>2, WorkingAlone
  <1>5. ASSUME NEW q \in Providers, q # p PROVE Awaited(q)'
    <2>1. (q \in queue' <=> q \in queue) /\ prov'[q] = prov[q] /\ ~Working(q) /\ ~Working(q)'
      BY <1>3, <1>4, <1>5
    <2>2. Awaited(q)
      BY DEF CallInv, AllAwaited
    <2> QED BY <1>3, <2>1, <2>2 DEF Awaited, CaughtUp, SameButReady, CoreSeen, NeedsFinalizer
  <1>6. ASSUME p \in queue' PROVE Awaited(p)'
    BY <1>6 DEF Awaited, CaughtUp
  <1>7. ASSUME p \notin queue' PROVE Awaited(p)'
    <2>1. /\ Save(w) /\ ~rec[w].again /\ prov' = [prov EXCEPT ![p] = n]
          /\ CanMerge(prov[p], b, held.obj) /\ p \notin queue
      BY <1>1, <1>7 DEF Save, SaveFails
    <2>2. prov'[p] = n
      BY <1>1, <2>1 DEF TypeOK
    <2>3. cache[p] = b /\ b.exists /\ Ended(w)
      BY <1>1, <2>1 DEF Flight
    <2>4. /\ held.obj.deleting = b.deleting /\ held.obj.exists = b.exists
          /\ prov[p].exists
      BY <1>1, <2>1 DEF Hand, CanMerge
    <2> DEFINE fin == IF held.obj.fin # b.fin THEN held.obj.fin ELSE prov[p].fin
    <2>5. \/ n = Gone /\ prov[p].deleting /\ ~fin
          \/ n.exists /\ n.deleting = prov[p].deleting /\ n.fin = fin
             /\ ~(prov[p].deleting /\ ~fin)
      BY <1>1, <2>4, MergedFields
    <2>6. Awaited(p)
      BY <1>1 DEF CallInv, AllAwaited
    <2>7. Sane(b)
      BY <1>1, <2>3 DEF CallInv, IInv, CacheSound
    <2>8. n.exists /\ SameButReady(b, n) => SameButReady(held.obj, b)
      BY <1>1, NothingMerged
    <2>9. cache'[p] = b /\ p \notin queue' /\ (p \in unseen' <=> p \in unseen)
          /\ applied'[p] = applied[p] /\ secret'[p] = secret[p] /\ (CoreSeen' <=> CoreSeen)
      BY <1>3, <1>7, <2>3 DEF CoreSeen
    <2>10. Ended(w) <=>
             \/ held.obj.fin # b.fin /\ (b.deleting => ~held.obj.fin)
             \/ held.obj.phase = "Ready" /\ ~b.deleting /\ UpToDate(p)
             \/ /\ p # Core /\ held.obj.preflight = "False" /\ ~b.deleting
                /\ p \in queue \/ ~CoreSeen \/ b.preflight = "True"
      BY <1>1, <2>3 DEF Ended
    <2> HIDE <1>p, <1>b, <1>n
    <2>11. NeedsFinalizer(b) => n.fin
      <3> SUFFICES ASSUME ~b.fin, ~b.deleting PROVE n.fin
        BY DEF NeedsFinalizer
      <3>1. prov[p].fin
        BY <2>1, <2>3, <2>6 DEF Awaited, NeedsFinalizer
      <3>2. fin
        BY <1>1, <3>1 DEF Object
      <3> QED BY <2>5, <3>2
    <2>12. b.deleting => ~n.fin
      <3> SUFFICES ASSUME b.deleting PROVE ~n.fin
        OBVIOUS
      <3>1. ~held.obj.fin /\ b.fin
        BY <2>3, <2>7, <2>10 DEF Sane
      <3>2. ~fin
        BY <3>1
      <3> QED BY <2>5, <3>2, Objects DEF Sane
    <2>13. CaughtUp(p)' /\ n.exists =>
              \/ n.phase = "Ready" /\ applied[p] = secret[p]
              \/ p # Core /\ n.preflight # "True" /\ ~CoreSeen
      <3> SUFFICES ASSUME CaughtUp(p)', n.exists
                   PROVE  \/ n.phase = "Ready" /\ applied[p] = secret[p]
                          \/ p # Core /\ n.preflight # "True" /\ ~CoreSeen
        OBVIOUS
      <3>1. SameButReady(b, n) /\ p \notin unseen
        BY <2>2, <2>9 DEF CaughtUp, SameButReady
      <3>2. SameButReady(held.obj, b)
        BY <2>8, <3>1
      <3> QED BY <2>1, <2>3, <2>10, <3>1, <3>2 DEF SameButReady, UpToDate, Called
    <2> QED BY <2>2, <2>9, <2>11, <2>12, <2>13 DEF Awaited
  <1>8. AllAwaited'
    BY <1>5, <1>6, <1>7 DEF AllAwaited
  <1> QED BY <1>2, <1>8, Landed

LEMMA TakeCalls ==
    ASSUME OneWorker, CallInv, NEW w \in Workers, NEW p \in Providers, Take(w, p)
    PROVE  AllAwaited' /\ Flights'
  <1>1. TypeOK /\ Sane(cache[p]) /\ Sane(prov[p]) /\ AllAwaited
    BY DEF CallInv, IInv, CacheSound
  <1>2. rec[w].pc = "idle" /\ \A q : ~Working(q)
    <2>1. rec[w].pc = "idle"
      BY DEF Take, Begin, AddFinalizer, AddFinalizerFails, Free
    <2> QED BY <2>1, WorkingAlone
  <1>3. CASE Begin(w, p)
    <2>1. /\ prov' = prov /\ cache' = cache /\ unseen' = unseen /\ secret' = secret
          /\ applied' = applied /\ queue' = queue \ {p}
          /\ ~(cache[p].exists /\ NeedsFinalizer(cache[p]))
      BY <1>3 DEF Begin, cluster
    <2>2. rec'[w].pc \in {"idle", "load"} /\ (cache[p].exists => Working(p)')
          /\ \A q : q # p => ~Working(q)'
      <3>1. CASE cache[p].exists
        <4>1. rec'[w] = [Idle EXCEPT !.pc = "load", !.for = p]
          BY <1>1, <1>3, <3>1 DEF Begin, TypeOK
        <4>2. rec'[w].pc = "load" /\ rec'[w].for = p
          BY <4>1 DEF Idle
        <4> QED BY <4>2, WorkingAlone
      <3>2. CASE ~cache[p].exists
        BY <1>2, <1>3, <3>2, WorkingAlone DEF Begin
      <3> QED BY <3>1, <3>2
    <2>3. ASSUME NEW q \in Providers, q # p PROVE Awaited(q)'
      BY <1>1, <1>2, <2>1, <2>2, <2>3
      DEF AllAwaited, Awaited, CaughtUp, SameButReady, CoreSeen, NeedsFinalizer
    <2>4. Awaited(p)'
      BY <1>1, <2>1, <2>2 DEF Awaited, CaughtUp, SameButReady, Sane, NeedsFinalizer
    <2> QED BY <2>2, <2>3, <2>4, Landed DEF AllAwaited
  <1>4. CASE AddFinalizer(w, p)
    <2>1. /\ cache' = cache /\ unseen' = unseen /\ secret' = secret /\ applied' = applied
          /\ rec' = rec /\ cache[p].exists /\ ~cache[p].fin /\ ~cache[p].deleting
      BY <1>4 DEF AddFinalizer, NeedsFinalizer
    <2>2. \A q : ~Working(q)'
      BY <1>2, <2>1, WorkingAlone
    <2>3. ASSUME prov' = prov, queue' = queue PROVE AllAwaited'
      BY <1>1, <1>2, <2>1, <2>2, <2>3
      DEF AllAwaited, Awaited, CaughtUp, SameButReady, CoreSeen, NeedsFinalizer
    <2>4. ASSUME prov' = [prov EXCEPT ![p].fin = TRUE], queue' = queue \ {p}
          PROVE  AllAwaited'
      <3>1. prov'[p].fin = TRUE /\ \A q \in Providers \ {p} : prov'[q] = prov[q]
        BY <1>1, <2>4 DEF TypeOK, Object
      <3>2. ASSUME NEW q \in Providers, q # p PROVE Awaited(q)'
        BY <1>1, <1>2, <2>1, <2>2, <2>4, <3>1, <3>2
        DEF AllAwaited, Awaited, CaughtUp, SameButReady, CoreSeen, NeedsFinalizer
      <3>3. Awaited(p)'
        BY <2>1, <3>1 DEF Awaited, CaughtUp, SameButReady
      <3> QED BY <3>2, <3>3 DEF AllAwaited
    <2>5. AllAwaited'
      BY <1>4, <2>3, <2>4 DEF AddFinalizer
    <2> QED BY <1>2, <2>1, <2>5, Landed
  <1>5. CASE AddFinalizerFails(w, p)
    <2>1. AllAwaited'
      BY <1>1, <1>5 DEF AddFinalizerFails, cluster, AllAwaited, Awaited, CaughtUp, SameButReady,
                        CoreSeen, NeedsFinalizer, Working
    <2> QED BY <1>2, <1>5, <2>1, Landed DEF AddFinalizerFails
  <1> QED BY <1>3, <1>4, <1>5 DEF Take

\* Only its own request keeps a worker's copy and the cache together.
LEMMA SyncCalls ==
    ASSUME OneWorker, CallInv, NEW p \in Providers, SyncProvider(p)
    PROVE  AllAwaited' /\ Flights'
  <1>1. /\ prov' = prov /\ applied' = applied /\ unseen' = unseen /\ secret' = secret
        /\ rec' = rec /\ held' = held /\ cache' = [cache EXCEPT ![p] = prov[p]]
        /\ queue \subseteq queue' /\ p \in queue'
        /\ p = Core => CoreToProviders(prov[p]) \subseteq queue'
    BY DEF SyncProvider, cluster
  <1>2. TypeOK /\ AllAwaited /\ Flights
    BY DEF CallInv, IInv
  <1>3. \A q \in Providers \ {p} : cache'[q] = cache[q]
    BY <1>1, <1>2 DEF TypeOK
  <1>4. \A q : Working(q)' <=> Working(q)
    BY <1>1 DEF Working
  <1>5. ASSUME NEW q \in Providers, q \notin queue'
        PROVE  /\ q # p /\ q \notin queue /\ cache'[q] = cache[q]
               /\ CoreSeen' /\ cache[q].exists /\ q # Core /\ cache[q].preflight # "True" => CoreSeen
    <2>1. q # p /\ q \notin queue /\ cache'[q] = cache[q]
      BY <1>1, <1>3, <1>5
    <2>2. CASE p = Core
      <3>1. CoreSeen' => prov[Core].exists /\ prov[Core].ready
        BY <1>1, <1>2, <2>2 DEF CoreSeen, TypeOK
      <3> QED BY <1>1, <1>5, <2>1, <2>2, <3>1 DEF CoreToProviders, Providers
    <2>3. CASE p # Core
      BY <1>3, <2>1, <2>3 DEF CoreSeen, Providers
    <2> QED BY <2>1, <2>2, <2>3
  <1>6. ASSUME NEW q \in Providers PROVE Awaited(q)'
    <2>1. CASE q \in queue'
      BY <2>1 DEF Awaited, CaughtUp
    <2>2. CASE q \notin queue'
      <3>1. Awaited(q)
        BY <1>2 DEF AllAwaited
      <3> QED BY <1>1, <1>4, <1>5, <2>2, <3>1 DEF Awaited, CaughtUp, SameButReady, NeedsFinalizer
    <2> QED BY <2>1, <2>2
  <1>7. ASSUME NEW w \in Workers PROVE Flight(w)'
    <2>1. Flight(w)
      BY <1>2 DEF Flights
    <2>2. PICK q : q = rec[w].for
      OBVIOUS
    <2>3. rec[w].pc # "idle" => q \in Providers
      BY <2>2, InHand DEF CallInv
    <2>4. rec[w].pc = "save" /\ ~rec[w].again => Ended(w)'
      <3> SUFFICES ASSUME rec[w].pc = "save", ~rec[w].again PROVE Ended(w)'
        OBVIOUS
      <3>1. Ended(w) /\ q \in Providers /\ rec[w].base.exists /\ (q \in queue \/ cache[q] = rec[w].base)
        BY <2>1, <2>2, <2>3 DEF Flight
      <3>2. q \in queue' \/ ~CoreSeen \/ cache[q].preflight = "True" => q \in queue' \/ ~CoreSeen' \/ cache'[q].preflight = "True" \/ q = Core
        BY <1>1, <1>5, <3>1
      <3> QED BY <1>1, <2>2, <3>1, <3>2 DEF Ended, UpToDate, Called
    <2>5. rec[w].pc \in Phases \cup {"save"} => q \in queue' \/ cache'[q] = rec[w].base
      BY <1>1, <1>5, <2>1, <2>2, <2>3 DEF Flight, Phases
    <2> QED BY <1>1, <2>1, <2>2, <2>4, <2>5 DEF Flight, UpToDate, Called, Phases, Forward
  <1> QED BY <1>6, <1>7 DEF AllAwaited, Flights

\* The event of a Secret is a request, if the provider is known; if it is not known
\* yet, its own event will be one.
LEMMA SecretCalls ==
    ASSUME OneWorker, CallInv, NEW p \in Providers, SyncSecret(p) \/ EditSecret(p)
    PROVE  AllAwaited' /\ Flights'
  <1>1. /\ prov' = prov /\ applied' = applied /\ cache' = cache /\ rec' = rec /\ held' = held
        /\ queue \subseteq queue'
        /\ \A q \in Providers \ {p} :
              (q \in unseen' <=> q \in unseen) /\ (q \in queue' <=> q \in queue)
              /\ secret'[q] = secret[q]
    BY DEF SyncSecret, EditSecret, SecretToProvider, CallInv, IInv, TypeOK
  <1>2. \/ p \in unseen'
        \/ secret' = secret /\ (p \in queue' \/ ~cache[p].exists)
    BY DEF SyncSecret, EditSecret, SecretToProvider
  <1>3. \A q : Working(q)' <=> Working(q)
    BY <1>1 DEF Working
  <1>4. CoreSeen' <=> CoreSeen
    BY <1>1 DEF CoreSeen
  <1>5. ASSUME NEW q \in Providers PROVE Awaited(q)'
    <2>1. Awaited(q)
      BY DEF CallInv, AllAwaited
    <2>2. CASE q # p
      BY <1>1, <1>3, <1>4, <2>1, <2>2 DEF Awaited, CaughtUp, SameButReady, NeedsFinalizer
    <2>3. CASE q = p
      <3>1. CaughtUp(q)' => ~prov'[q].exists
        BY <1>1, <1>2, <2>3 DEF CaughtUp, SameButReady
      <3> QED BY <1>1, <1>3, <2>1, <2>3, <3>1 DEF Awaited, NeedsFinalizer
    <2> QED BY <2>2, <2>3
  <1>6. ASSUME NEW w \in Workers PROVE Flight(w)'
    <2>1. Flight(w)
      BY DEF CallInv, Flights
    <2>2. PICK q : q = rec[w].for
      OBVIOUS
    <2>3. rec[w].pc # "idle" => q \in Providers
      BY <2>2, InHand DEF CallInv
    <2>4. rec[w].pc \in Phases \cup {"save"} =>
             \/ q \in queue' \cup unseen'
             \/ secret'[q] = secret[q] /\ q \notin unseen
      BY <1>1, <1>2, <2>1, <2>2, <2>3 DEF Flight, Phases
    <2>5. rec[w].pc = "save" /\ ~rec[w].again => Ended(w)'
      BY <1>1, <1>4, <2>1, <2>2, <2>4 DEF Flight, Ended, UpToDate, Called
    <2> QED BY <1>1, <2>1, <2>2, <2>4, <2>5 DEF Flight, UpToDate, Called, Phases, Forward
  <1> QED BY <1>5, <1>6 DEF AllAwaited, Flights

LEMMA RestartCalls ==
    ASSUME CallInv, Restart
    PROVE  AllAwaited' /\ Flights'
  <1>1. \A p \in Providers : Sane(prov[p])
    BY DEF CallInv, IInv, CacheSound
  <1>2. /\ prov' = prov /\ cache' = prov /\ queue' = {p \in Providers : prov[p].exists}
        /\ rec' = [w \in Workers |-> Idle]
    BY DEF Restart
  <1>3. AllAwaited'
    BY <1>1, <1>2 DEF AllAwaited, Awaited, CaughtUp, Sane
  <1>4. \A w \in Workers : rec'[w].pc = "idle"
    BY <1>2 DEF Idle
  <1> QED BY <1>3, <1>4 DEF Flights, Flight, Phases, Forward

\* What happens to one provider outside of the manager: what a worker has in hand is
\* compared with the cache only.
LEMMA OutsideCalls ==
    ASSUME CallInv, NEW p \in Providers,
           \A q \in Providers \ {p} : prov'[q] = prov[q],
           cache' = cache, queue' = queue, rec' = rec, held' = held, secret' = secret,
           unseen' = unseen, applied' = applied,
           Awaited(p)'
    PROVE  AllAwaited' /\ Flights'
  <1>1. ASSUME NEW q \in Providers, q # p PROVE Awaited(q)'
    <2>1. Awaited(q) /\ prov'[q] = prov[q]
      BY <1>1 DEF CallInv, AllAwaited
    <2> QED BY <2>1 DEF Awaited, CaughtUp, Working, SameButReady, CoreSeen, NeedsFinalizer
  <1>2. ASSUME NEW w \in Workers PROVE Flight(w)'
    <2>1. Flight(w)
      BY DEF CallInv, Flights
    <2>2. Ended(w)' <=> Ended(w)
      BY DEF Ended, UpToDate, Called, CoreSeen
    <2> QED BY <2>1, <2>2 DEF Flight, UpToDate, Called
  <1> QED BY <1>1, <1>2 DEF AllAwaited, Flights

LEMMA UserCalls ==
    ASSUME CallInv, NEW p \in Providers, CreateProvider(p) \/ DeleteProvider(p)
    PROVE  AllAwaited' /\ Flights'
  <1>1. /\ prov \in [Providers -> Object] /\ prov[p] \in Object /\ cache[p] \in Object
        /\ Sane(prov[p]) /\ Sane(cache[p]) /\ Awaited(p)
    BY DEF CallInv, IInv, TypeOK, CacheSound, AllAwaited
  <1>2. /\ cache' = cache /\ queue' = queue /\ rec' = rec /\ held' = held
        /\ secret' = secret /\ unseen' = unseen /\ applied' = applied
        /\ \A q \in Providers \ {p} : prov'[q] = prov[q]
    BY <1>1 DEF CreateProvider, DeleteProvider
  <1>3. Working(p)' <=> Working(p)
    BY <1>2 DEF Working
  <1>4. CASE CreateProvider(p)
    <2>1. prov'[p] = New /\ ~prov[p].fin
      BY <1>1, <1>4 DEF CreateProvider, Sane
    <2>2. SameButReady(cache[p], New) => cache[p].exists /\ NeedsFinalizer(cache[p])
      BY DEF SameButReady, New, NeedsFinalizer
    <2>3. ~New.fin
      BY DEF New
    <2> HIDE DEF New
    <2>4. ~CaughtUp(p)'
      BY <1>1, <1>2, <2>1, <2>2 DEF Awaited, CaughtUp
    <2>5. Awaited(p)'
      BY <1>1, <1>2, <1>3, <2>1, <2>3, <2>4 DEF Awaited, NeedsFinalizer
    <2> QED BY <1>2, <2>5, OutsideCalls
  <1>5. CASE DeleteProvider(p) /\ prov[p].fin
    <2>1. prov'[p].deleting = TRUE /\ prov'[p].fin = TRUE
      BY <1>1, <1>5 DEF DeleteProvider, Object
    <2>2. ~CaughtUp(p)'
      BY <1>1, <1>2, <1>3, <1>5, <2>1 DEF Awaited, CaughtUp, SameButReady
    <2>3. Awaited(p)'
      BY <1>1, <1>2, <1>3, <1>5, <2>1, <2>2 DEF Awaited, NeedsFinalizer
    <2> QED BY <1>2, <2>3, OutsideCalls
  <1>6. CASE DeleteProvider(p) /\ ~prov[p].fin
    <2>1. prov'[p] = Gone
      BY <1>1, <1>6 DEF DeleteProvider
    <2>2. Awaited(p)'
      BY <1>1, <1>2, <1>3, <1>6, <2>1, Objects DEF Awaited, NeedsFinalizer, Sane
    <2> QED BY <1>2, <2>2, OutsideCalls
  <1> QED BY <1>4, <1>5, <1>6

LEMMA CoreCalls ==
    ASSUME CallInv, CoreReady \/ CoreUnready
    PROVE  AllAwaited' /\ Flights'
  <1>1. Core \in Providers /\ prov \in [Providers -> Object] /\ prov[Core] \in Object
        /\ Awaited(Core)
    BY DEF CallInv, IInv, TypeOK, AllAwaited, Providers
  <1>2. PICK b \in BOOLEAN : prov' = [prov EXCEPT ![Core].ready = b]
    BY DEF CoreReady, CoreUnready
  <1>3. SameButReady(prov[Core], prov'[Core]) /\ \A q \in Providers \ {Core} : prov'[q] = prov[q]
    BY <1>1, <1>2 DEF Object, SameButReady
  <1>4. /\ cache' = cache /\ queue' = queue /\ rec' = rec /\ held' = held
        /\ secret' = secret /\ unseen' = unseen /\ applied' = applied
    BY DEF CoreReady, CoreUnready
  <1>5. Awaited(Core)'
    BY <1>1, <1>3, <1>4 DEF Awaited, CaughtUp, Working, SameButReady, NeedsFinalizer
  <1> QED BY <1>1, <1>3, <1>4, <1>5, OutsideCalls

LEMMA CallNext == OneWorker /\ CallInv /\ [Next]_vars => AllAwaited' /\ Flights'
  <1> SUFFICES ASSUME OneWorker, CallInv, [Next]_vars PROVE AllAwaited' /\ Flights'
    OBVIOUS
  <1>1. ASSUME NEW w \in Workers, Step(w) PROVE AllAwaited' /\ Flights'
    BY <1>1, LoadCalls, WaitCalls, PreflightCalls, InstallCalls, DeleteCalls, SaveCalls DEF Step
  <1>2. ASSUME NEW w \in Workers, NEW p \in Providers, Take(w, p) PROVE AllAwaited' /\ Flights'
    BY <1>2, TakeCalls
  <1>3. ASSUME NEW p \in Providers,
               \/ SyncProvider(p) \/ SyncSecret(p) \/ EditSecret(p)
               \/ CreateProvider(p) \/ DeleteProvider(p)
        PROVE  AllAwaited' /\ Flights'
    BY <1>3, SyncCalls, SecretCalls, UserCalls
  <1>4. CASE Restart \/ CoreReady \/ CoreUnready
    BY <1>4, RestartCalls, CoreCalls
  <1>5. CASE UNCHANGED <<prov, cache, queue, rec, held, secret, unseen, applied>>
    <2>1. Core \in Providers
      BY DEF Providers
    <2>2. Awaited(Core)'
      BY <1>5, <2>1 DEF CallInv, AllAwaited, Awaited, CaughtUp, Working, SameButReady,
                        CoreSeen, NeedsFinalizer
    <2> QED BY <1>5, <2>1, <2>2, OutsideCalls
  <1> QED BY <1>1, <1>2, <1>3, <1>4, <1>5
          DEF Next, User, ChangeConfig, Mount, vars, cluster

\* No event and no request is lost, with one worker and any number of providers,
\* failures, restarts and changes (operator_reconciler.go:168-259, 262-277): however
\* the readiness of the core provider, a Secret's change or a deletion falls into a
\* reconciliation, somebody comes back for it.
THEOREM NobodyIsForgotten ==
    ASSUME OneWorker
    PROVE  Spec => []NobodyForgotten
  <1>1. Init => CallInv
    BY InitHolds, CallInit DEF CallInv
  <1>2. CallInv /\ [Next]_vars => CallInv'
    BY NextKeeps, CallNext DEF CallInv
  <1>3. CallInv => NobodyForgotten
    <2> SUFFICES ASSUME CallInv, Quiet, NEW p \in Providers, prov[p].exists
                 PROVE  /\ prov[p].fin /\ ~prov[p].deleting
                        /\ (p = Core \/ (prov[Core].exists /\ prov[Core].ready)) =>
                              prov[p].phase = "Ready" /\ applied[p] = secret[p]
      BY DEF NobodyForgotten
    <2>1. p \notin queue /\ p \notin unseen /\ cache = prov /\ ~Working(p)
      BY DEF Quiet, Working
    <2>2. Awaited(p) /\ Sane(prov[p]) /\ Core \in Providers
          /\ prov[p] \in Object
      BY DEF CallInv, IInv, TypeOK, AllAwaited, CacheSound, Providers
    <2>3. prov[p].fin /\ ~prov[p].deleting
      BY <2>1, <2>2 DEF Awaited, NeedsFinalizer, Sane
    <2>4. CaughtUp(p)
      BY <2>1 DEF CaughtUp, SameButReady
    <2> QED BY <2>1, <2>2, <2>3, <2>4 DEF Awaited, CoreSeen
  <1> QED BY <1>1, <1>2, <1>3, PTL DEF Spec

-----------------------------------------------------------------------------
(* The contract. *)

\* No provider is installed with values newer than its Secret, and what is about to be
\* installed is not older than what it replaces.
ValuesSound ==
    /\ \A p \in Providers : applied[p] <= secret[p]
    /\ \A w \in Workers : rec[w].pc = "install" =>
          applied[rec[w].for] <= rec[w].rendered /\ rec[w].rendered <= secret[rec[w].for]

\* The reconciliation does not write the condition that others wait for.
ReadyKept ==
    \A w \in Workers : rec[w].pc \in Phases \cup {"save"} =>
                          held.obj.ready = rec[w].base.ready

\* Only what is there has conditions.
ConditionsSound == \A p \in Providers : prov[p].installed \/ prov[p].ready => prov[p].exists

ContractInv == IInv /\ ValuesSound /\ ReadyKept /\ ConditionsSound

LEMMA ContractInit == Init => ValuesSound /\ ReadyKept /\ ConditionsSound
  BY DEF Init, ValuesSound, ReadyKept, ConditionsSound, Idle, New, Phases

LEMMA ValuesStep == OneWorker /\ ContractInv /\ [Next]_vars => ValuesSound'
  <1> SUFFICES ASSUME OneWorker, ContractInv, [Next]_vars PROVE ValuesSound'
    OBVIOUS
  <1>1. TypeOK /\ IInv /\ ValuesSound
    BY DEF ContractInv, IInv
  <1>2. CASE \E p \in Providers : EditSecret(p)
    <2> PICK p \in Providers : EditSecret(p)
      BY <1>2
    <2>1. /\ applied' = applied /\ rec' = rec
          /\ \A q \in Providers : applied[q] \in Nat /\ secret[q] \in Nat /\ secret[q] <= secret'[q]
      BY <1>1 DEF EditSecret, TypeOK
    <2>2. \A q \in Providers : secret'[q] \in Nat
      BY <1>1 DEF EditSecret, TypeOK
    <2>3. \A w \in Workers : /\ rec[w].rendered \in Nat
                             /\ rec[w].pc = "install" => rec[w].for \in Providers
      BY <1>1, InHand DEF TypeOK, Work
    <2> QED BY <1>1, <2>1, <2>2, <2>3 DEF ValuesSound
  <1>3. CASE UNCHANGED <<secret, rec, applied>>
    BY <1>1, <1>3 DEF ValuesSound
  <1>4. ASSUME NEW w \in Workers, Fetch(w) PROVE ValuesSound'
    <2>1. held.of \in Providers /\ held.of = rec[w].for
      BY <1>1, <1>4, InHand DEF Fetch, Phases
    <2>2. /\ rec'[w].for = rec[w].for /\ rec'[w].rendered = secret[held.of]
          /\ applied' = applied /\ secret' = secret
      BY <1>1, <1>4 DEF Fetch, TypeOK, Work, cluster
    <2>3. secret[held.of] \in Nat /\ applied[held.of] <= secret[held.of]
      BY <1>1, <2>1 DEF ValuesSound, TypeOK
    <2> QED BY <1>1, <2>1, <2>2, <2>3 DEF ValuesSound, OneWorker
  <1>5. ASSUME NEW w \in Workers, Step(w), ~Fetch(w) PROVE ValuesSound'
    <2>1. secret' = secret /\ rec'[w].pc # "install"
      BY <1>1, <1>5, ToInstall
    <2>2. \A p \in Providers : applied'[p] <= secret[p]
      <3>1. CASE Install(w)
        <4>1. held.of \in Providers /\ held.of = rec[w].for /\ rec[w].pc = "install"
              /\ applied' = [applied EXCEPT ![held.of] = rec[w].rendered]
          BY <1>1, <3>1, InHand DEF Install, Phases
        <4> QED BY <1>1, <4>1 DEF ValuesSound, TypeOK
      <3>2. CASE Delete(w)
        <4>1. applied' = [applied EXCEPT ![held.of] = 0] /\ 0 \in Nat
          BY <3>2 DEF Delete
        <4> QED BY <1>1, <4>1 DEF ValuesSound, TypeOK
      <3>3. CASE ~Install(w) /\ ~Delete(w)
        <4>1. applied' = applied
          BY <1>5, <3>3 DEF Step, Load, WaitForConfig, PreflightChecks, SetConditions,
                            PhaseFails, Save, SaveFails, cluster
        <4> QED BY <1>1, <4>1 DEF ValuesSound
      <3> QED BY <3>1, <3>2, <3>3
    <2> QED BY <2>1, <2>2 DEF ValuesSound, OneWorker
  <1>6. ASSUME NEW w \in Workers, NEW p \in Providers, Begin(w, p) PROVE ValuesSound'
    <2>1. applied' = applied /\ secret' = secret
      BY <1>6 DEF Begin, cluster
    <2>2. rec' = rec \/ rec'[w].pc = "load"
      BY <1>1, <1>6 DEF Begin, TypeOK, Idle
    <2> QED BY <1>1, <2>1, <2>2 DEF ValuesSound, OneWorker
  <1>7. CASE Restart
    BY <1>1, <1>7 DEF Restart, ValuesSound, Idle
  <1> QED BY <1>2, <1>3, <1>4, <1>5, <1>6, <1>7
          DEF Next, Take, User, AddFinalizer, AddFinalizerFails, SyncProvider, SyncSecret,
              CreateProvider, DeleteProvider, CoreReady, CoreUnready, ChangeConfig, Mount,
              vars, cluster

LEMMA ReadyStep == OneWorker /\ ContractInv /\ [Next]_vars => ReadyKept'
  <1> SUFFICES ASSUME OneWorker, ContractInv, [Next]_vars PROVE ReadyKept'
    OBVIOUS
  <1>1. TypeOK /\ IInv /\ ReadyKept /\ held.obj \in Object
    BY DEF ContractInv, IInv, TypeOK
  <1>2. CASE UNCHANGED <<rec, held>>
    BY <1>1, <1>2 DEF ReadyKept
  <1>3. ASSUME NEW w \in Workers, rec'[w].pc \in {"idle", "load"} PROVE ReadyKept'
    BY <1>3 DEF ReadyKept, OneWorker, Phases
  <1>4. ASSUME NEW w \in Workers, rec[w].pc \in Phases, rec'[w].base = rec[w].base,
               held'.obj.ready = held.obj.ready
        PROVE  ReadyKept'
    BY <1>1, <1>4 DEF ReadyKept, OneWorker
  <1>5. ASSUME NEW w \in Workers, Load(w) PROVE ReadyKept'
    <2>1. PICK o \in Object : o = cache[rec[w].for]
      BY <1>1, <1>5, InHand DEF Load, TypeOK
    <2>2. CASE ~o.exists
      <3>1. rec'[w].pc = "idle"
        BY <1>1, <1>5, <2>1, <2>2 DEF Load, TypeOK, Idle
      <3> QED BY <3>1, <1>3
    <2>3. CASE o.exists
      <3>1. rec'[w].base = o /\ held' = [of |-> rec[w].for, obj |-> [o EXCEPT !.fin = TRUE]]
        BY <1>1, <1>5, <2>1, <2>3 DEF Load, TypeOK, Work
      <3>2. held'.obj.ready = o.ready
        BY <3>1 DEF Object
      <3> QED BY <3>1, <3>2 DEF ReadyKept, OneWorker
    <2> QED BY <2>2, <2>3
  <1>6. ASSUME NEW w \in Workers, Step(w), ~Load(w) PROVE ReadyKept'
    <2>1. CASE Save(w) \/ SaveFails(w)
      <3>1. rec'[w].pc = "idle"
        BY <1>1, <2>1, RestOfWork DEF Save, SaveFails
      <3> QED BY <3>1, <1>3
    <2>2. CASE ~(Save(w) \/ SaveFails(w))
      <3>1. rec[w].pc \in Phases
        BY <1>6, <2>2 DEF Step, WaitForConfig, PreflightChecks, Fetch, Install,
                          SetConditions, Delete, PhaseFails, Phases
      <3>2. rec'[w].base = rec[w].base
        <4>1. CASE Fetch(w)
          BY <1>1, <4>1 DEF Fetch, TypeOK, Work
        <4>2. CASE ~Fetch(w)
          <5>1. (\E step : Proceed(w, step)) \/ (\E again : Stop(w, again))
            BY <1>6, <2>2, <4>2 DEF Step, WaitForConfig, PreflightChecks, Install,
                                    SetConditions, Delete, PhaseFails
          <5> QED BY <1>1, <5>1, RestOfWork
        <4> QED BY <4>1, <4>2
      <3>3. held'.obj.ready = held.obj.ready
        <4>1. CASE WaitForConfig(w) \/ Fetch(w)
          BY <4>1 DEF WaitForConfig, Fetch
        <4>2. CASE PreflightChecks(w)
          BY <1>1, <4>2 DEF PreflightChecks, TypeOK, Object
        <4>3. CASE Install(w) \/ PhaseFails(w)
          <5>1. \E i : held' = [held EXCEPT !.obj.installed = i]
            BY <4>3 DEF Install, PhaseFails
          <5> QED BY <1>1, <5>1 DEF TypeOK, Object
        <4>4. CASE SetConditions(w)
          BY <1>1, <4>4 DEF SetConditions, TypeOK, Object
        <4>5. CASE Delete(w)
          BY <1>1, <4>5 DEF Delete, TypeOK, Object
        <4> QED BY <1>6, <2>2, <4>1, <4>2, <4>3, <4>4, <4>5 DEF Step
      <3> QED BY <3>1, <3>2, <3>3, <1>4
    <2> QED BY <2>1, <2>2
  <1>7. ASSUME NEW w \in Workers, NEW p \in Providers, Begin(w, p) PROVE ReadyKept'
    <2>1. held' = held /\ (rec' = rec \/ rec'[w].pc = "load")
      BY <1>1, <1>7 DEF Begin, TypeOK, Idle
    <2> QED BY <1>2, <1>3, <2>1
  <1>8. CASE Restart
    BY <1>8 DEF Restart, ReadyKept, Idle, Phases
  <1> QED BY <1>2, <1>5, <1>6, <1>7, <1>8
          DEF Next, Take, User, AddFinalizer, AddFinalizerFails, SyncProvider, SyncSecret,
              CreateProvider, DeleteProvider, EditSecret, CoreReady, CoreUnready,
              ChangeConfig, Mount, vars, cluster

\* What a merge patch leaves of the condition that it does not write.
LEMMA MergedReady ==
    ASSUME NEW o \in Object, NEW from \in Object, NEW to \in Object,
           o.exists, to.exists = from.exists, to.ready = from.ready
    PROVE  \/ Merged(o, from, to) = Gone
           \/ Merged(o, from, to).exists /\ Merged(o, from, to).ready = o.ready
  BY DEF Merged, Object

\* One provider at a time, and its conditions are those of an object that is there.
LEMMA OneProvider ==
    ASSUME ContractInv, NEW p \in Providers,
           \A q \in Providers \ {p} : prov'[q] = prov[q],
           prov'[p].installed \/ prov'[p].ready => prov'[p].exists
    PROVE  ConditionsSound'
  BY DEF ContractInv, ConditionsSound

\* The patch, seen from the provider it is for.
LEMMA SavedProvider ==
    ASSUME ContractInv, NEW w \in Workers, Save(w), prov' # prov
    PROVE  LET p == rec[w].for
               o == prov[p]
               b == rec[w].base
               n == prov'[p]
           IN  /\ p \in Providers /\ p = held.of /\ o.exists
               /\ \A q \in Providers \ {p} : prov'[q] = prov[q]
               /\ \/ n = Gone /\ o.deleting
                     /\ (IF held.obj.fin # b.fin THEN ~held.obj.fin ELSE ~o.fin)
                  \/ /\ n.exists /\ n.deleting = o.deleting /\ n.ready = o.ready
                     /\ n.deleting => n.fin
                     /\ n.fin = (IF held.obj.fin # b.fin THEN held.obj.fin ELSE o.fin)
               /\ o.deleting /\ ~b.fin => ~held.obj.fin
  <1> DEFINE p == rec[w].for
             b == rec[w].base
             n == Merged(prov[p], b, held.obj)
  <1>1. /\ TypeOK /\ Hand(w) /\ rec[w].pc = "save" /\ p \in Providers /\ p = held.of
        /\ b \in Object /\ held.obj \in Object /\ prov[p] \in Object
        /\ held.obj.ready = b.ready
    BY InHand DEF Save, ContractInv, IInv, TypeOK, HandSound, ReadyKept
  <1>2. prov' = [prov EXCEPT ![p] = n] /\ CanMerge(prov[p], b, held.obj)
    BY <1>1 DEF Save
  <1>3. held.obj.deleting = b.deleting /\ held.obj.exists = b.exists
    BY <1>1 DEF Hand
  <1>4. prov[p].exists /\ (prov[p].deleting /\ ~b.fin => ~held.obj.fin)
    BY <1>2 DEF CanMerge
  <1>5. prov'[p] = n /\ \A q \in Providers \ {p} : prov'[q] = prov[q]
    BY <1>1, <1>2 DEF TypeOK
  <1> DEFINE fin == IF held.obj.fin # b.fin THEN held.obj.fin ELSE prov[p].fin
  <1>6. \/ n = Gone /\ prov[p].deleting /\ ~fin
        \/ n.exists /\ n.deleting = prov[p].deleting /\ n.fin = fin
           /\ ~(prov[p].deleting /\ ~fin)
    BY <1>1, <1>3, <1>4, MergedFields
  <1>7. n = Gone \/ (n.exists /\ n.ready = prov[p].ready)
    <2>1. /\ prov[p] \in Object /\ b \in Object /\ held.obj \in Object /\ prov[p].exists
          /\ held.obj.exists = b.exists /\ held.obj.ready = b.ready
      BY <1>1, <1>3, <1>4
    <2> HIDE DEF p, b
    <2> QED BY <2>1, MergedReady
  <1>8. ~Gone.exists
    BY Objects
  <1> HIDE DEF n
  <1> QED BY <1>1, <1>4, <1>5, <1>6, <1>7, <1>8

LEMMA ConditionsStep == OneWorker /\ ContractInv /\ [Next]_vars => ConditionsSound'
  <1> SUFFICES ASSUME OneWorker, ContractInv, [Next]_vars PROVE ConditionsSound'
    OBVIOUS
  <1>1. TypeOK /\ ConditionsSound
    BY DEF ContractInv, IInv
  <1>2. CASE prov' = prov
    BY <1>1, <1>2 DEF ConditionsSound
  <1>3. ASSUME NEW w \in Workers, NEW p \in Providers, AddFinalizer(w, p), prov' # prov
        PROVE  ConditionsSound'
    <2>1. prov' = [prov EXCEPT ![p].fin = TRUE]
      BY <1>3 DEF AddFinalizer
    <2>2. /\ \A q \in Providers \ {p} : prov'[q] = prov[q]
          /\ prov'[p].installed = prov[p].installed /\ prov'[p].ready = prov[p].ready
          /\ prov'[p].exists = prov[p].exists
      BY <1>1, <2>1 DEF TypeOK, Object
    <2> QED BY <1>1, <2>2, OneProvider DEF ConditionsSound
  <1>4. ASSUME NEW w \in Workers, Save(w), prov' # prov PROVE ConditionsSound'
    <2>1. PICK p \in Providers : p = rec[w].for
      BY <1>4, SavedProvider
    <2>2. /\ prov'[p] = Gone \/ prov'[p].exists
          /\ \A q \in Providers \ {p} : prov'[q] = prov[q]
      BY <1>4, <2>1, SavedProvider
    <2>3. ~Gone.installed /\ ~Gone.ready
      BY DEF Gone, New
    <2> QED BY <2>2, <2>3, OneProvider
  <1>5. ASSUME NEW p \in Providers, CreateProvider(p) PROVE ConditionsSound'
    <2>1. prov'[p] = New /\ \A q \in Providers \ {p} : prov'[q] = prov[q]
      BY <1>1, <1>5 DEF CreateProvider, TypeOK
    <2> QED BY <2>1, OneProvider DEF New
  <1>6. ASSUME NEW p \in Providers, DeleteProvider(p) PROVE ConditionsSound'
    <2>1. PICK o \in Object : o = prov[p]
      BY <1>1 DEF TypeOK
    <2>2. /\ prov'[p] \in {[o EXCEPT !.deleting = TRUE], Gone}
          /\ \A q \in Providers \ {p} : prov'[q] = prov[q]
      BY <1>1, <1>6, <2>1 DEF DeleteProvider, TypeOK
    <2>3. ~Gone.installed /\ ~Gone.ready
      BY DEF Gone, New
    <2>4. [o EXCEPT !.deleting = TRUE].exists = o.exists /\ o.exists
      BY <1>6, <2>1 DEF DeleteProvider, Object
    <2> QED BY <2>2, <2>3, <2>4, OneProvider
  <1>7. CASE CoreReady \/ CoreUnready
    <2>1. Core \in Providers /\ prov[Core] \in Object
      BY <1>1 DEF Providers, TypeOK
    <2>2. prov[Core].installed \/ prov[Core].ready
      BY <1>7 DEF CoreReady, CoreUnready
    <2>3. \E r \in BOOLEAN : prov' = [prov EXCEPT ![Core].ready = r]
      BY <1>7 DEF CoreReady, CoreUnready
    <2>4. /\ \A q \in Providers \ {Core} : prov'[q] = prov[q]
          /\ prov'[Core].exists = prov[Core].exists
      BY <1>1, <2>1, <2>3 DEF TypeOK, Object
    <2>5. prov'[Core].exists
      BY <1>1, <2>1, <2>2, <2>4 DEF ConditionsSound
    <2> QED BY <2>1, <2>4, <2>5, OneProvider
  <1> QED BY <1>2, <1>3, <1>4, <1>5, <1>6, <1>7
          DEF Next, Step, Take, User, Begin, AddFinalizerFails, Load, WaitForConfig,
              PreflightChecks, Fetch, Install, SetConditions, Delete, PhaseFails, SaveFails,
              SyncProvider, SyncSecret, Restart, EditSecret, ChangeConfig, Mount,
              vars, cluster

LEMMA ContractKept == OneWorker /\ ContractInv /\ [Next]_vars => ContractInv'
  BY NextKeeps, ValuesStep, ReadyStep, ConditionsStep DEF ContractInv

\* A worker that alone is at work clears nobody but who it is about to install.
LEMMA ClearedLess ==
    ASSUME OneWorker, NEW w \in Workers,
           rec'[w].pc \in {"fetch", "install"} =>
              rec[w].pc \in {"fetch", "install"} /\ rec'[w].for = rec[w].for
    PROVE  Cleared' \subseteq Cleared
  BY DEF Cleared, OneWorker

\* Steps that the contract does not see.
LEMMA Unseen ==
    ASSUME prov' = prov, secret' = secret, applied' = applied, cache' = cache,
           Cleared' \subseteq Cleared
    PROVE  Contract!Next
  <1>1. Contract!Forget
    BY DEF Contract!Forget, Contract!AtMost, Contract!objects
  <1> QED BY <1>1 DEF Contract!Next

LEMMA UnseenProvider ==
    ASSUME NEW p \in Providers,
           \A q \in Providers \ {p} : prov'[q] = prov[q],
           ContractProvider(prov'[p]) = ContractProvider(prov[p]),
           prov'[Core].ready = prov[Core].ready,
           secret' = secret, applied' = applied, cache' = cache, Cleared' \subseteq Cleared
    PROVE  Contract!Next
  <1>1. [q \in Providers |-> ContractProvider(prov'[q])]
        = [q \in Providers |-> ContractProvider(prov[q])]
    OBVIOUS
  <1>2. Contract!Forget
    BY <1>1 DEF Contract!Forget, Contract!AtMost, Contract!objects
  <1> QED BY <1>2 DEF Contract!Next

\* What becomes of one provider.
LEMMA Becoming ==
    ASSUME NEW p \in Providers, NEW o,
           \A q \in Providers \ {p} : prov'[q] = prov[q],
           ContractProvider(prov'[p]) = o,
           prov[Core].ready \in BOOLEAN, prov'[Core].ready \in BOOLEAN,
           prov'[Core].ready <=> prov[Core].ready /\ ~(p = Core /\ o = "absent"),
           secret' = secret, applied' = applied, cache'[Core].ready = cache[Core].ready,
           Cleared' \subseteq Cleared
    PROVE  Contract!Becomes(p, o)
  <1>1. [q \in Providers |-> ContractProvider(prov'[q])]
        = [[q \in Providers |-> ContractProvider(prov[q])] EXCEPT ![p] = o]
    OBVIOUS
  <1>2. prov'[Core].ready = (prov[Core].ready /\ ~(p = Core /\ o = "absent"))
    OBVIOUS
  <1> QED BY <1>1, <1>2 DEF Contract!Becomes, Contract!AtMost

\* The object of a provider and the provider of the contract.
LEMMA ProviderKinds ==
    ASSUME ContractInv, NEW p \in Providers
    PROVE  LET c == [q \in Providers |-> ContractProvider(prov[q])][p]
           IN  /\ prov[p] \in Object /\ Sane(prov[p]) /\ c = ContractProvider(prov[p])
               /\ c = "absent" <=> ~prov[p].exists
               /\ c = "new" <=> prov[p].exists /\ ~prov[p].fin
               /\ c = "held" <=> prov[p].fin /\ ~prov[p].deleting
               /\ c = "going" <=> prov[p].deleting
  <1>1. prov[p] \in Object /\ Sane(prov[p])
    BY DEF ContractInv, IInv, TypeOK, CacheSound
  <1> QED BY <1>1 DEF ContractProvider, Sane, Object

LEMMA TakeRefines ==
    ASSUME OneWorker, ContractInv, NEW w \in Workers, NEW p \in Providers,
           Take(w, p)
    PROVE  Contract!Next
  <1>1. TypeOK /\ Core \in Providers
    BY DEF ContractInv, IInv, Providers
  <1>2. CASE Begin(w, p) \/ AddFinalizerFails(w, p)
    <2>1. prov' = prov /\ secret' = secret /\ applied' = applied /\ cache' = cache
      BY <1>2 DEF Begin, AddFinalizerFails, cluster
    <2>2. rec' = rec \/ rec'[w].pc = "load"
      <3>1. CASE Begin(w, p)
        BY <1>1, <3>1 DEF Begin, TypeOK, Idle
      <3>2. CASE AddFinalizerFails(w, p)
        BY <3>2 DEF AddFinalizerFails
      <3> QED BY <1>2, <3>1, <3>2
    <2>3. Cleared' \subseteq Cleared
      BY <2>2, ClearedLess
    <2> QED BY <2>1, <2>3, Unseen
  <1>3. CASE AddFinalizer(w, p)
    <2>1. secret' = secret /\ applied' = applied /\ cache' = cache /\ rec' = rec
      BY <1>3 DEF AddFinalizer
    <2>2. Cleared' \subseteq Cleared
      BY <2>1, ClearedLess
    <2>3. CASE prov' = prov
      BY <2>1, <2>2, <2>3, Unseen
    <2>4. CASE prov' # prov
      <3>1. /\ prov' = [prov EXCEPT ![p].fin = TRUE]
            /\ prov[p].exists /\ ~prov[p].deleting
        BY <1>1, <1>3, <2>4 DEF AddFinalizer, CanMerge, NeedsFinalizer, TypeOK, Object
      <3>2. /\ \A q \in Providers \ {p} : prov'[q] = prov[q]
            /\ prov'[p].fin /\ ~prov'[p].deleting /\ prov'[p].exists
            /\ prov'[p].ready = prov[p].ready
        BY <1>1, <3>1 DEF TypeOK, Object
      <3>3. prov[Core].ready \in BOOLEAN /\ prov'[Core].ready = prov[Core].ready
        BY <1>1, <3>2 DEF TypeOK, Object
      <3>4. ContractProvider(prov'[p]) = "held"
        BY <3>2 DEF ContractProvider
      <3>5. Contract!Becomes(p, "held")
        BY <2>1, <2>2, <3>2, <3>3, <3>4, Becoming
      <3>6. Contract!Hold(p)
        BY <3>1, <3>5, ProviderKinds DEF Contract!Hold
      <3> QED BY <3>6 DEF Contract!Next, Contract!Manager
    <2> QED BY <2>3, <2>4
  <1> QED BY <1>2, <1>3 DEF Take

LEMMA PhaseRefines ==
    ASSUME OneWorker, ContractInv, NEW w \in Workers,
           \/ Load(w) \/ WaitForConfig(w) \/ Fetch(w) \/ SetConditions(w) \/ PhaseFails(w)
           \/ SaveFails(w)
    PROVE  Contract!Next
  <1>1. TypeOK
    BY DEF ContractInv, IInv
  <1>2. prov' = prov /\ secret' = secret /\ applied' = applied /\ cache' = cache
    BY DEF Load, WaitForConfig, Fetch, SetConditions, PhaseFails, SaveFails, cluster
  <1>3. rec'[w].pc \in {"fetch", "install"} =>
           rec[w].pc \in {"fetch", "install"} /\ rec'[w].for = rec[w].for
    <2>1. CASE Load(w)
      BY <1>1, <2>1 DEF Load, TypeOK, Work, Idle
    <2>2. CASE WaitForConfig(w)
      <3>1. (\E again : Stop(w, again)) \/ Proceed(w, "preflight") \/ Proceed(w, "delete")
        BY <2>2 DEF WaitForConfig
      <3> QED BY <1>1, <3>1, RestOfWork
    <2>3. CASE Fetch(w)
      BY <1>1, <2>3 DEF Fetch, TypeOK, Work
    <2>4. CASE SetConditions(w) \/ PhaseFails(w)
      <3>1. \E again : Stop(w, again)
        BY <2>4 DEF SetConditions, PhaseFails
      <3> QED BY <1>1, <3>1, RestOfWork
    <2>5. CASE SaveFails(w)
      BY <1>1, <2>5, RestOfWork DEF SaveFails
    <2> QED BY <2>1, <2>2, <2>3, <2>4, <2>5
  <1>4. Cleared' \subseteq Cleared
    BY <1>3, ClearedLess
  <1> QED BY <1>2, <1>4, Unseen

\* The checks are passed for the core provider itself, or because it is ready in the
\* cache.
LEMMA PreflightRefines ==
    ASSUME OneWorker, ContractInv, NEW w \in Workers, PreflightChecks(w)
    PROVE  Contract!Next
  <1>1. TypeOK /\ held.of = rec[w].for /\ rec[w].for \in Providers
    BY InHand DEF ContractInv, IInv, PreflightChecks, Phases
  <1>2. prov' = prov /\ secret' = secret /\ applied' = applied /\ cache' = cache
    BY DEF PreflightChecks, cluster
  <1>3. CASE Stop(w, FALSE)
    <2>1. Cleared' \subseteq Cleared
      BY <1>1, <1>3, RestOfWork, ClearedLess
    <2> QED BY <1>2, <2>1, Unseen
  <1>4. CASE Proceed(w, "fetch") /\ (held.of = Core \/ cache[Core].ready)
    <2>1. rec'[w].for = rec[w].for
      BY <1>1, <1>4, RestOfWork
    <2>2. Cleared' \subseteq Cleared \cup {rec[w].for}
      BY <2>1 DEF Cleared, OneWorker
    <2>3. Contract!Clear(rec[w].for)
      BY <1>1, <1>2, <1>4, <2>2 DEF Contract!Clear, Contract!AtMost, Contract!objects
    <2> QED BY <1>1, <2>3 DEF Contract!Next, Contract!Manager
  <1> QED BY <1>3, <1>4 DEF PreflightChecks

LEMMA InstallRefines ==
    ASSUME OneWorker, ContractInv, NEW w \in Workers, Install(w)
    PROVE  Contract!Next
  <1> DEFINE p == rec[w].for
  <1>1. TypeOK /\ Hand(w) /\ held.of = p /\ p \in Providers /\ rec[w].pc = "install"
    BY InHand DEF ContractInv, IInv, HandSound, Install, Phases
  <1>2. /\ prov' = prov /\ secret' = secret /\ cache' = cache
        /\ applied' = [applied EXCEPT ![p] = rec[w].rendered]
    BY <1>1 DEF Install
  <1>3. /\ rec[w].rendered \in 1 .. secret[p]
        /\ applied[p] <= rec[w].rendered
    <2>1. /\ rec[w].rendered \in Nat /\ secret[p] \in Nat /\ rec[w].rendered # 0
          /\ applied[p] <= rec[w].rendered /\ rec[w].rendered <= secret[p]
      BY <1>1 DEF TypeOK, Work, ContractInv, IInv, RenderedSound, ValuesSound
    <2> QED BY <2>1
  <1>4. prov[p].fin
    BY <1>1 DEF Hand, Forward
  <1>5. p \in Cleared
    BY <1>1 DEF Cleared
  <1>6. Cleared' \subseteq Cleared \ {p}
    <2>1. rec'[w].pc = "conditions"
      BY <1>1, RestOfWork DEF Install
    <2> QED BY <2>1 DEF Cleared, OneWorker
  <1>7. [q \in Providers |-> ContractProvider(prov[q])][p] \in {"held", "going"}
    <2>1. prov[p] \in Object
      BY <1>1 DEF TypeOK
    <2> QED BY <1>1, <1>4, <2>1, ProviderKinds DEF Object
  <1> HIDE DEF p
  <1>8. Contract!Install(p)
    BY <1>2, <1>3, <1>5, <1>6, <1>7
       DEF Contract!Install, Contract!AtMost, Contract!objects
  <1> QED BY <1>1, <1>8 DEF Contract!Next, Contract!Manager

LEMMA DeleteRefines ==
    ASSUME OneWorker, ContractInv, NEW w \in Workers, Delete(w)
    PROVE  Contract!Next
  <1> DEFINE p == rec[w].for
  <1>1. TypeOK /\ Hand(w) /\ held.of = p /\ p \in Providers /\ rec[w].pc = "delete"
    BY InHand DEF ContractInv, IInv, HandSound, Delete, Phases
  <1>2. /\ prov' = prov /\ secret' = secret /\ cache' = cache
        /\ applied' = [applied EXCEPT ![p] = 0]
    BY <1>1 DEF Delete
  <1>3. Cleared' \subseteq Cleared
    <2>1. rec'[w].pc = "save"
      BY <1>1, RestOfWork DEF Delete
    <2> QED BY <2>1, ClearedLess
  <1>4. CASE applied[p] = 0
    <2>1. applied' = applied
      BY <1>1, <1>2, <1>4 DEF TypeOK
    <2> QED BY <1>2, <1>3, <2>1, Unseen
  <1>5. CASE applied[p] # 0
    <2>1. prov[p].exists /\ prov[p].fin /\ Doomed(p)
      BY <1>1, <1>5 DEF ContractInv, IInv, NothingOrphaned, Hand, Backward
    <2>2. prov[p].deleting
      BY <2>1 DEF Doomed, Staying
    <2>3. [q \in Providers |-> ContractProvider(prov[q])][p] = "going"
      BY <1>1, <2>2, ProviderKinds
    <2> HIDE DEF p
    <2>4. Contract!Remove(p)
      BY <1>2, <1>3, <2>3 DEF Contract!Remove, Contract!AtMost, Contract!objects
    <2> QED BY <1>1, <2>4 DEF Contract!Next, Contract!Manager
  <1> QED BY <1>4, <1>5

\* The patch at the end holds a provider, releases one whose components are gone, or
\* does nothing that the contract sees.
LEMMA SaveRefines ==
    ASSUME OneWorker, ContractInv, NEW w \in Workers, Save(w)
    PROVE  Contract!Next
  <1>1. TypeOK /\ Hand(w) /\ rec[w].pc = "save" /\ Core \in Providers
    BY DEF ContractInv, IInv, HandSound, Save, Providers
  <1>2. secret' = secret /\ applied' = applied /\ cache' = cache
    BY DEF Save
  <1>3. Cleared' \subseteq Cleared
    <2>1. rec'[w].pc = "idle"
      BY <1>1, RestOfWork DEF Save
    <2> QED BY <2>1, ClearedLess
  <1>4. CASE prov' = prov
    BY <1>2, <1>3, <1>4, Unseen
  <1>5. CASE prov' # prov
    <2>1. PICK p \in Providers : p = rec[w].for
      BY <1>5, SavedProvider
    <2> DEFINE b == rec[w].base
    <2>2. /\ p = held.of /\ prov[p].exists
          /\ \A q \in Providers \ {p} : prov'[q] = prov[q]
          /\ \/ prov'[p] = Gone /\ prov[p].deleting
                /\ (IF held.obj.fin # b.fin THEN ~held.obj.fin ELSE ~prov[p].fin)
             \/ /\ prov'[p].exists /\ prov'[p].deleting = prov[p].deleting
                /\ prov'[p].ready = prov[p].ready
                /\ prov'[p].deleting => prov'[p].fin
                /\ prov'[p].fin = (IF held.obj.fin # b.fin THEN held.obj.fin ELSE prov[p].fin)
      BY <1>5, <2>1, SavedProvider
    <2>3. \/ b.fin = held.obj.fin
          \/ ~b.fin /\ held.obj.fin
          \/ b.fin /\ ~held.obj.fin /\ applied[p] = 0 /\ Doomed(p)
      BY <1>1, <2>1 DEF Hand
    <2>4. /\ prov[p] \in Object /\ Sane(prov[p]) /\ b.fin \in BOOLEAN /\ held.obj.fin \in BOOLEAN
          /\ prov'[p].fin \in BOOLEAN
      <3>1. prov[p] \in Object /\ b \in Object /\ held.obj \in Object /\ Sane(prov[p])
        BY <1>1, <2>1, InHand DEF ContractInv, IInv, TypeOK, CacheSound
      <3>2. prov'[p] = Gone \/ prov'[p].fin \in {held.obj.fin, prov[p].fin}
        BY <2>2
      <3> QED BY <3>1, <3>2, Objects DEF Object
    <2>5. prov[Core].ready \in BOOLEAN /\ Gone.ready = FALSE /\ Gone.exists = FALSE
      BY <1>1 DEF TypeOK, Object, Gone, New
    <2> HIDE DEF b
    <2>6. CASE prov'[p] = Gone
      <3>1. prov[p].deleting /\ applied[p] = 0
        BY <2>2, <2>3, <2>4, <2>5, <2>6 DEF Sane
      <3>2. ContractProvider(prov'[p]) = "absent"
        BY <2>5, <2>6 DEF ContractProvider
      <3>3. /\ prov'[Core].ready \in BOOLEAN
            /\ prov'[Core].ready <=> prov[Core].ready /\ ~(p = Core /\ "absent" = "absent")
        BY <1>1, <2>2, <2>5, <2>6
      <3>4. Contract!Becomes(p, "absent")
        BY <1>2, <1>3, <2>2, <2>5, <3>2, <3>3, Becoming
      <3>5. Contract!Release(p)
        BY <3>1, <3>4, ProviderKinds DEF Contract!Release
      <3> QED BY <3>5 DEF Contract!Next, Contract!Manager
    <2>7. CASE prov'[p] # Gone
      <3>1. /\ prov'[p].exists /\ prov'[p].deleting = prov[p].deleting
            /\ prov'[Core].ready = prov[Core].ready /\ (prov'[p].deleting => prov'[p].fin)
            /\ prov'[p].fin = (IF held.obj.fin # b.fin THEN held.obj.fin ELSE prov[p].fin)
        BY <1>1, <2>2, <2>7
      <3>2. CASE prov'[p].fin = prov[p].fin
        <4>1. ContractProvider(prov'[p]) = ContractProvider(prov[p])
          BY <2>2, <3>1, <3>2 DEF ContractProvider
        <4> QED BY <1>2, <1>3, <2>2, <3>1, <4>1, UnseenProvider
      <3>3. CASE prov'[p].fin # prov[p].fin
        <4>1. held.obj.fin # b.fin /\ prov'[p].fin = held.obj.fin
          BY <3>1, <3>3
        <4>2. prov'[p].fin /\ ~prov[p].fin
          <5>1. CASE held.obj.fin
            BY <2>4, <3>3, <4>1, <5>1
          <5>2. CASE ~held.obj.fin
            <6>1. held.obj.fin = FALSE /\ b.fin = TRUE
              BY <2>4, <4>1, <5>2
            <6>2. prov[p].fin \in BOOLEAN
              BY <2>4 DEF Object
            <6>3. prov[p].fin = TRUE /\ Doomed(p)
              BY <2>3, <3>3, <4>1, <6>1, <6>2
            <6>4. prov[p].deleting
              BY <6>3 DEF Doomed, Staying
            <6> QED BY <3>1, <4>1, <6>1, <6>4
          <5> QED BY <5>1, <5>2
        <4>3. ~prov[p].deleting /\ ~prov'[p].deleting
          BY <2>4, <3>1, <4>2 DEF Sane
        <4>4. ContractProvider(prov'[p]) = "held"
          BY <3>1, <4>2, <4>3 DEF ContractProvider
        <4>5. Contract!Becomes(p, "held")
          BY <1>2, <1>3, <2>2, <2>5, <3>1, <4>4, Becoming
        <4>6. Contract!Hold(p)
          BY <2>2, <4>2, <4>5, ProviderKinds DEF Contract!Hold
        <4> QED BY <4>6 DEF Contract!Next, Contract!Manager
      <3> QED BY <3>2, <3>3
    <2> QED BY <2>6, <2>7
  <1> QED BY <1>4, <1>5

LEMMA ManagerRefines ==
    ASSUME OneWorker, ContractInv, NEW w \in Workers, Step(w)
    PROVE  Contract!Next
  BY PhaseRefines, PreflightRefines, InstallRefines, DeleteRefines, SaveRefines DEF Step

\* The cache learns about the core provider, or about another.
LEMMA SyncRefines ==
    ASSUME ContractInv, \/ \E p \in Providers : SyncProvider(p) \/ SyncSecret(p)
                        \/ Restart
    PROVE  Contract!Next
  <1>1. TypeOK /\ Core \in Providers
    BY DEF ContractInv, IInv, Providers
  <1>2. prov' = prov /\ secret' = secret /\ applied' = applied
    BY DEF SyncProvider, SyncSecret, Restart, cluster
  <1>3. Cleared' \subseteq Cleared
    <2>1. rec' = rec \/ rec' = [w \in Workers |-> Idle]
      BY DEF SyncProvider, SyncSecret, Restart
    <2> QED BY <2>1 DEF Cleared, Idle
  <1>4. cache'[Core].ready = cache[Core].ready \/ cache'[Core].ready = prov[Core].ready
    <2>1. ASSUME NEW p \in Providers, SyncProvider(p)
          PROVE  cache'[Core] = cache[Core] \/ cache'[Core] = prov[Core]
      BY <1>1, <2>1 DEF SyncProvider, TypeOK
    <2>2. ASSUME NEW p \in Providers, SyncSecret(p) PROVE cache' = cache
      BY <2>2 DEF SyncSecret
    <2>3. CASE Restart
      BY <2>3 DEF Restart
    <2> QED BY <2>1, <2>2, <2>3
  <1>5. Contract!Forget \/ Contract!Learn
    BY <1>2, <1>3, <1>4 DEF Contract!Forget, Contract!Learn, Contract!AtMost, Contract!objects
  <1> QED BY <1>5 DEF Contract!Next

LEMMA UserRefines ==
    ASSUME ContractInv, NEW p \in Providers, CreateProvider(p) \/ DeleteProvider(p)
    PROVE  Contract!Next
  <1>1. /\ TypeOK /\ Core \in Providers /\ prov[p] \in Object
        /\ prov[Core].ready \in BOOLEAN /\ ConditionsSound
    BY DEF ContractInv, IInv, TypeOK, Providers, Object
  <1>2. /\ secret' = secret /\ applied' = applied /\ cache' = cache
        /\ rec' = rec
    BY DEF CreateProvider, DeleteProvider
  <1>3. Cleared' \subseteq Cleared
    BY <1>2 DEF Cleared
  <1>4. CASE CreateProvider(p)
    <2>1. prov'[p] = New /\ \A q \in Providers \ {p} : prov'[q] = prov[q]
      BY <1>1, <1>4 DEF CreateProvider, TypeOK
    <2>2. ~prov[p].exists /\ ~prov[p].ready
      BY <1>1, <1>4 DEF CreateProvider, ConditionsSound
    <2>3. ContractProvider(New) = "new" /\ New.ready = FALSE
      BY DEF ContractProvider, New
    <2>4. /\ prov'[Core].ready \in BOOLEAN
          /\ prov'[Core].ready <=> prov[Core].ready /\ ~(p = Core /\ "new" = "absent")
      BY <1>1, <2>1, <2>2, <2>3
    <2>5. Contract!Becomes(p, "new")
      BY <1>1, <1>2, <1>3, <2>1, <2>3, <2>4, Becoming
    <2>6. Contract!Create(p)
      BY <2>2, <2>5, ProviderKinds DEF Contract!Create
    <2> QED BY <2>6 DEF Contract!Next
  <1>5. CASE DeleteProvider(p)
    <2>1. /\ \A q \in Providers \ {p} : prov'[q] = prov[q]
          /\ prov[p].exists /\ ~prov[p].deleting
          /\ prov'[p] = IF prov[p].fin THEN [prov[p] EXCEPT !.deleting = TRUE] ELSE Gone
      BY <1>1, <1>5 DEF DeleteProvider, TypeOK
    <2>2. CASE prov[p].fin
      <3>1. prov'[p].exists /\ prov'[p].deleting /\ prov'[p].ready = prov[p].ready
        BY <1>1, <2>1, <2>2 DEF Object
      <3>2. ContractProvider(prov'[p]) = "going"
        BY <3>1 DEF ContractProvider
      <3>3. prov'[Core].ready = prov[Core].ready
        BY <1>1, <2>1, <3>1
      <3>4. Contract!Becomes(p, "going")
        BY <1>1, <1>2, <1>3, <2>1, <3>2, <3>3, Becoming
      <3>5. [q \in Providers |-> ContractProvider(prov[q])][p] = "held"
        BY <2>1, <2>2, ProviderKinds
      <3>6. Contract!Delete(p)
        BY <3>4, <3>5 DEF Contract!Delete
      <3> QED BY <3>6 DEF Contract!Next
    <2>3. CASE ~prov[p].fin
      <3>1. ContractProvider(Gone) = "absent" /\ Gone.ready = FALSE
        BY DEF ContractProvider, Gone, New
      <3>2. /\ prov'[Core].ready \in BOOLEAN
            /\ prov'[Core].ready <=> prov[Core].ready /\ ~(p = Core /\ "absent" = "absent")
        BY <1>1, <2>1, <2>3, <3>1
      <3>3. prov'[p] = Gone
        BY <2>1, <2>3
      <3>4. Contract!Becomes(p, "absent")
        BY <1>1, <1>2, <1>3, <2>1, <3>1, <3>2, <3>3, Becoming
      <3>5. [q \in Providers |-> ContractProvider(prov[q])][p] = "new"
        BY <2>1, <2>3, ProviderKinds
      <3>6. Contract!Delete(p)
        BY <3>4, <3>5 DEF Contract!Delete
      <3> QED BY <3>6 DEF Contract!Next
    <2> QED BY <2>2, <2>3
  <1> QED BY <1>4, <1>5

LEMMA OthersRefine ==
    ASSUME ContractInv, \/ \E p \in Providers : EditSecret(p)
                        \/ CoreReady \/ CoreUnready \/ ChangeConfig \/ Mount
    PROVE  Contract!Next
  <1>1. TypeOK /\ Core \in Providers /\ prov[Core] \in Object /\ ConditionsSound
    BY DEF ContractInv, IInv, TypeOK, Providers
  <1>2. applied' = applied /\ cache' = cache /\ rec' = rec
    BY DEF EditSecret, CoreReady, CoreUnready, ChangeConfig, Mount
  <1>3. Cleared' \subseteq Cleared
    BY <1>2 DEF Cleared
  <1>4. ASSUME NEW p \in Providers, EditSecret(p) PROVE Contract!Next
    <2>1. prov' = prov /\ secret' = [secret EXCEPT ![p] = @ + 1]
      BY <1>4 DEF EditSecret
    <2>2. Contract!EditValues(p)
      BY <1>2, <1>3, <2>1 DEF Contract!EditValues, Contract!AtMost
    <2> QED BY <2>2 DEF Contract!Next
  <1>5. CASE ChangeConfig \/ Mount
    BY <1>2, <1>3, <1>5, Unseen DEF ChangeConfig, Mount
  <1>6. CASE CoreReady \/ CoreUnready
    <2>1. PICK r \in BOOLEAN : prov' = [prov EXCEPT ![Core].ready = r] /\ prov[Core].ready = ~r
      BY <1>1, <1>6 DEF CoreReady, CoreUnready, Object
    <2>2. prov[Core].exists /\ secret' = secret
      BY <1>1, <1>6 DEF CoreReady, CoreUnready, ConditionsSound
    <2>3. /\ \A q \in Providers \ {Core} : prov'[q] = prov[q]
          /\ prov'[Core].ready = r
          /\ prov'[Core].exists = prov[Core].exists /\ prov'[Core].deleting = prov[Core].deleting
          /\ prov'[Core].fin = prov[Core].fin
      BY <1>1, <2>1 DEF TypeOK, Object
    <2>4. ContractProvider(prov'[Core]) = ContractProvider(prov[Core])
      BY <2>3 DEF ContractProvider
    <2>5. [q \in Providers |-> ContractProvider(prov'[q])]
          = [q \in Providers |-> ContractProvider(prov[q])]
      BY <2>3, <2>4
    <2>6. prov'[Core].ready = ~prov[Core].ready
      BY <2>1, <2>3
    <2>7. [q \in Providers |-> ContractProvider(prov[q])][Core] # "absent"
      BY <1>1, <2>2, ProviderKinds
    <2>8. Contract!SetReady
      BY <1>2, <1>3, <2>2, <2>5, <2>6, <2>7 DEF Contract!SetReady, Contract!AtMost
    <2> QED BY <2>8 DEF Contract!Next
  <1> QED BY <1>4, <1>5, <1>6

\* With one worker the controller implements the contract: what the phases read again
\* in r.Provider is the provider at work, and the deferred patch, merged into whatever
\* the provider has become meanwhile, holds it, releases it without its components, or
\* changes nothing that matters (operator_reconciler.go:65, 168-171, 262-277).
THEOREM ProviderContractIsKept ==
    ASSUME OneWorker
    PROVE  Spec => KeepsProviderContract
  <1>1. Init => ContractInv
    BY InitHolds, ContractInit DEF ContractInv
  <1>2. ContractInv /\ [Next]_vars => ContractInv'
    BY ContractKept
  <1>3. Init => Contract!Init
    <2> SUFFICES ASSUME Init PROVE Contract!Init
      OBVIOUS
    <2>1. \A p \in Providers : prov[p] = New /\ ContractProvider(prov[p]) = "new"
      BY DEF Init, ContractProvider, New
    <2>2. prov[Core].ready = FALSE /\ cache[Core].ready = FALSE
      BY <2>1 DEF Init, Providers, New
    <2>3. Cleared = {}
      BY DEF Init, Cleared, Idle
    <2> QED BY <2>1, <2>2, <2>3 DEF Init, Contract!Init
  <1>4. ContractInv /\ [Next]_vars => [Contract!Next]_(Contract!vars)
    <2> SUFFICES ASSUME ContractInv, [Next]_vars PROVE [Contract!Next]_(Contract!vars)
      OBVIOUS
    <2>1. CASE Next
      <3>1. ASSUME NEW w \in Workers, Step(w) PROVE Contract!Next
        BY <3>1, ManagerRefines
      <3>2. ASSUME NEW w \in Workers, NEW p \in Providers, Take(w, p) PROVE Contract!Next
        BY <3>2, TakeRefines
      <3> QED BY <2>1, <3>1, <3>2, SyncRefines, UserRefines, OthersRefine DEF Next, User
    <2>2. CASE UNCHANGED vars
      <3>1. Contract!vars' = Contract!vars
        BY <2>2 DEF vars, cluster, Cleared, Contract!vars, Contract!objects
      <3> QED BY <3>1
    <2> QED BY <2>1, <2>2
  <1> QED BY <1>1, <1>2, <1>3, <1>4, PTL DEF Spec, KeepsProviderContract, Contract!Spec
=============================================================================
