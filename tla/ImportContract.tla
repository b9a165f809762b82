---------------------------- MODULE ImportContract ----------------------------
(***************************************************************************)
(* What the import promises, without caches, copies, resource versions,    *)
(* retries and failing calls: when a CAPI cluster may be held, released    *)
(* and dismissed, and when its Rancher clusters (its clones) come and go.  *)
(* ImportProperties states that the controllers implement it.              *)
(*                                                                         *)
(* The manager acts on what it knows.  Knowledge is never invented: it     *)
(* begins with an event and is true at that time; it may be out of date    *)
(* when it is used, and it may be forgotten at any time.                   *)
(***************************************************************************)
CONSTANTS
    Clusters,   \* names of CAPI clusters
    Clones,     \* Rancher clusters
    None        \* owner of a clone that is not there

VARIABLES
    cluster,    \* the CAPI clusters
    clone,      \* the Rancher clusters: owner, being deleted
    namespace,  \* knowledge: the namespace asks for import
    promised,   \* knowledge: clusters that asked for import and get a clone
    lost,       \* knowledge: clusters that had a clone deleted
    leaving,    \* knowledge: clusters that were deleted
    labelled    \* knowledge: clusters that had the label "true"

knowledge == <<namespace, promised, lost, leaving, labelled>>
vars == <<cluster, clone, knowledge>>

LabelValues == {"none", "true", "false"}
Cluster   == [here: BOOLEAN, going: BOOLEAN, held: BOOLEAN, dismissed: BOOLEAN,
              label: LabelValues]
NoCluster == [here |-> FALSE, going |-> FALSE, held |-> FALSE,
              dismissed |-> FALSE, label |-> "none"]
Clone     == [owner: Clusters \cup {None}, going: BOOLEAN]
NoClone   == [owner |-> None, going |-> FALSE]

TypeOK ==
    /\ cluster \in [Clusters -> Cluster]
    /\ clone \in [Clones -> Clone]
    /\ namespace \in BOOLEAN
    /\ promised \subseteq Clusters /\ lost \subseteq Clusters
    /\ leaving \subseteq Clusters /\ labelled \subseteq Clusters

LiveClones(c) == {n \in Clones : clone[n].owner = c /\ ~clone[n].going}

\* A cluster asks by its own label, once; or by the one of its namespace.
AsksBy(l, c) ==
    \/ l = "true" /\ ~cluster[c].dismissed
    \/ l # "false" /\ namespace

\* That its label was taken off may go unnoticed; that it is "false" may not.
Asks(c) ==
    \/ AsksBy(cluster[c].label, c)
    \/ cluster[c].label = "none" /\ c \in labelled /\ AsksBy("true", c)

-----------------------------------------------------------------------------
(* Knowledge. *)

\* A label is known to have been there once it is there.
LabelsSeen == labelled' \subseteq labelled \cup {c \in Clusters : cluster'[c].label = "true"}

\* At most this much is known after a step.
Knows(p, l, d) ==
    /\ namespace' = namespace
    /\ promised' \subseteq p /\ lost' \subseteq l /\ leaving' \subseteq d
    /\ LabelsSeen
NothingNew == Knows(promised, lost, leaving)

\* Knowledge is lost, the label of the namespace is seen.
Forget ==
    /\ namespace' \in BOOLEAN
    /\ promised' \subseteq promised /\ lost' \subseteq lost
    /\ leaving' \subseteq leaving /\ labelled' \subseteq labelled
    /\ UNCHANGED <<cluster, clone>>

-----------------------------------------------------------------------------
(* The manager. *)

Becomes(c, o) ==
    \* A cluster that is going and held by nobody is gone.
    cluster' \in {[cluster EXCEPT ![c] = o]} \cup
                 (IF o.going THEN {[cluster EXCEPT ![c] = NoCluster]} ELSE {})

Hold(c) ==
    /\ cluster[c].here /\ ~cluster[c].going
    /\ cluster' = [cluster EXCEPT ![c].held = TRUE]
    /\ UNCHANGED clone
    /\ NothingNew

Promise(c) ==
    /\ cluster[c].here /\ Asks(c)
    /\ UNCHANGED <<cluster, clone>>
    /\ Knows(promised \cup {c}, lost, leaving)

Import(c) ==
    /\ c \in promised
    /\ \E n \in Clones :
          /\ clone[n] = NoClone
          /\ clone' = [clone EXCEPT ![n] = [owner |-> c, going |-> FALSE]]
    /\ UNCHANGED cluster
    /\ Knows(promised \ {c}, lost, leaving)

\* A clone was deleted: its cluster is not to be imported again, nor held.
Dismiss(c) ==
    /\ cluster[c].here /\ c \in lost
    /\ Becomes(c, [cluster[c] EXCEPT !.dismissed = TRUE, !.held = FALSE])
    /\ UNCHANGED clone
    /\ NothingNew

\* The clones of a cluster that was deleted go, all of them.
LetGo(c) ==
    /\ c \in leaving
    /\ \E gone \in SUBSET LiveClones(c) :
          clone' = [n \in Clones |-> IF n \in gone THEN NoClone
                                     ELSE IF n \in LiveClones(c)
                                     THEN [clone[n] EXCEPT !.going = TRUE]
                                     ELSE clone[n]]
    /\ UNCHANGED cluster
    /\ Knows(promised, lost \cup {c}, leaving)

\* Only then the cluster is released.
Release(c) ==
    /\ cluster[c].going /\ cluster[c].held /\ LiveClones(c) = {}
    /\ Becomes(c, [cluster[c] EXCEPT !.held = FALSE])
    /\ UNCHANGED clone
    /\ NothingNew

-----------------------------------------------------------------------------
(* Users, and those who finalize. *)

Create(c, l) ==
    /\ ~cluster[c].here
    /\ cluster' = [cluster EXCEPT ![c] = [NoCluster EXCEPT !.here = TRUE, !.label = l]]
    /\ UNCHANGED clone
    /\ NothingNew

SetLabel(c, l) ==
    /\ cluster[c].here
    /\ cluster' = [cluster EXCEPT ![c].label = l]
    /\ UNCHANGED clone
    /\ NothingNew

Delete(c) ==
    /\ cluster[c].here /\ ~cluster[c].going
    /\ Becomes(c, [cluster[c] EXCEPT !.going = TRUE])
    /\ cluster[c].held => cluster'[c].here
    /\ UNCHANGED clone
    /\ Knows(promised, lost, leaving \cup {c})

Vanish(c) ==
    /\ cluster[c].going /\ ~cluster[c].held
    /\ cluster' = [cluster EXCEPT ![c] = NoCluster]
    /\ UNCHANGED clone
    /\ NothingNew

DeleteClone(n) ==
    /\ clone[n].owner # None /\ ~clone[n].going
    /\ clone' \in {[clone EXCEPT ![n].going = TRUE], [clone EXCEPT ![n] = NoClone]}
    /\ UNCHANGED cluster
    /\ Knows(promised, lost \cup {clone[n].owner}, leaving)

VanishClone(n) ==
    /\ clone[n].going
    /\ clone' = [clone EXCEPT ![n] = NoClone]
    /\ UNCHANGED cluster
    /\ NothingNew

-----------------------------------------------------------------------------

Init ==
    /\ \E l \in [Clusters -> LabelValues] :
          cluster = [c \in Clusters |-> [NoCluster EXCEPT !.here = TRUE, !.label = l[c]]]
    /\ clone = [n \in Clones |-> NoClone]
    /\ namespace \in BOOLEAN
    /\ promised = {} /\ lost = {} /\ leaving = {}
    /\ labelled = {c \in Clusters : cluster[c].label = "true"}

Manager(c) ==
    Hold(c) \/ Promise(c) \/ Import(c) \/ Dismiss(c) \/ LetGo(c) \/ Release(c)

Next ==
    \/ Forget
    \/ \E c \in Clusters :
          \/ Manager(c) \/ Delete(c) \/ Vanish(c)
          \/ \E l \in LabelValues : Create(c, l) \/ SetLabel(c, l)
    \/ \E n \in Clones : DeleteClone(n) \/ VanishClone(n)

Spec == Init /\ [][Next]_vars
=============================================================================
