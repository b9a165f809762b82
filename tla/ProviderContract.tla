--------------------------- MODULE ProviderContract ---------------------------
(***************************************************************************)
(* What the CAPIProvider controller promises, without workers, queue,      *)
(* copies, merge patches and failing calls: when a provider is held and    *)
(* released, when its components come and go, and with which values.       *)
(* ProviderReconciler states that the controller implements it.            *)
(*                                                                         *)
(* As in ImportContract the manager acts on what it knows: that the core   *)
(* provider was ready when it was last seen, and which providers have been *)
(* cleared because of it.                                                  *)
(***************************************************************************)
EXTENDS Naturals

CONSTANTS
    Providers,
    Core        \* the one that the others wait for

VARIABLES
    provider,   \* the CAPIProviders
    values,     \* the version of the configuration of each, from 1
    components, \* the version its components are installed with, 0: there are none
    ready,      \* the core provider is ready
    seenReady,  \* knowledge: it was, when it was last seen
    cleared     \* knowledge: providers whose components may be installed

objects == <<provider, values, ready>>
vars == <<objects, components, seenReady, cleared>>

\* "held" by the finalizer, as one that is "going" still is.
Provider == {"absent", "new", "held", "going"}

TypeOK ==
    /\ provider \in [Providers -> Provider]
    /\ values \in [Providers -> Nat] /\ components \in [Providers -> Nat]
    /\ ready \in BOOLEAN /\ seenReady \in BOOLEAN
    /\ cleared \subseteq Providers

-----------------------------------------------------------------------------
(* Knowledge. *)

\* At most these are cleared after a step.
AtMost(c) == cleared' \subseteq c /\ UNCHANGED seenReady

\* The core provider is looked at, and what was cleared may be forgotten.
Learn ==
    /\ seenReady' = ready
    /\ cleared' \subseteq cleared
    /\ UNCHANGED <<objects, components>>

Forget == AtMost(cleared) /\ UNCHANGED <<objects, components>>

-----------------------------------------------------------------------------
(* The manager. *)

\* A provider that is gone is not ready.
Becomes(p, o) ==
    /\ provider' = [provider EXCEPT ![p] = o]
    /\ ready' = (ready /\ ~(p = Core /\ o = "absent"))
    /\ UNCHANGED <<values, components>>
    /\ AtMost(cleared)

Hold(p) ==
    /\ provider[p] \in {"new", "held"}
    /\ Becomes(p, "held")

\* All others wait for the core provider.
Clear(p) ==
    /\ p = Core \/ seenReady
    /\ AtMost(cleared \cup {p})
    /\ UNCHANGED <<objects, components>>

\* The components come with values that are no older than those they have.
Install(p) ==
    /\ p \in cleared /\ provider[p] \in {"held", "going"}
    /\ \E v \in 1 .. values[p] :
          /\ components[p] <= v
          /\ components' = [components EXCEPT ![p] = v]
    /\ UNCHANGED objects
    /\ AtMost(cleared \ {p})

\* They go when their provider does, ...
Remove(p) ==
    /\ provider[p] = "going"
    /\ components' = [components EXCEPT ![p] = 0]
    /\ UNCHANGED objects
    /\ AtMost(cleared)

\* ... which is released, and gone, when they are gone.
Release(p) ==
    /\ provider[p] = "going" /\ components[p] = 0
    /\ Becomes(p, "absent")

-----------------------------------------------------------------------------
(* Users, and the deployment of the core provider. *)

Create(p) ==
    /\ provider[p] = "absent"
    /\ Becomes(p, "new")

Delete(p) ==
    /\ provider[p] \in {"new", "held"}
    /\ Becomes(p, IF provider[p] = "held" THEN "going" ELSE "absent")

EditValues(p) ==
    /\ values' = [values EXCEPT ![p] = @ + 1]
    /\ UNCHANGED <<provider, ready, components>>
    /\ AtMost(cleared)

SetReady ==
    /\ provider[Core] # "absent"
    /\ ready' = ~ready
    /\ UNCHANGED <<provider, values, components>>
    /\ AtMost(cleared)

-----------------------------------------------------------------------------

Init ==
    /\ provider = [p \in Providers |-> "new"]
    /\ values = [p \in Providers |-> 1]
    /\ components = [p \in Providers |-> 0]
    /\ ready = FALSE /\ seenReady = FALSE
    /\ cleared = {}

Manager(p) == Hold(p) \/ Clear(p) \/ Install(p) \/ Remove(p) \/ Release(p)

Next ==
    \/ Learn \/ Forget \/ SetReady
    \/ \E p \in Providers : Manager(p) \/ Create(p) \/ Delete(p) \/ EditValues(p)

Spec == Init /\ [][Next]_vars
=============================================================================
