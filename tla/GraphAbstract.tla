---------------------------- MODULE GraphAbstract ----------------------------
(***************************************************************************)
(* What the graph store promises (spec sections 3 and 4.3), with no keys,  *)
(* indexes or transactions: a graph of actions and artifacts in which      *)
(* each operation is one atomic step, an edge only ever joins entities     *)
(* that exist, an artifact gets its producer when it is created and never  *)
(* another, and a wipe removes everything.                                  *)
(***************************************************************************)
EXTENDS Naturals, TLC

CONSTANTS Ids, Labels, Names, ArtifactKinds

VARIABLES
    actions,     \* ActionID -> Label
    artifacts,   \* ArtifactID -> [label, kind]
    consumes,    \* <<ActionID, ArtifactID>> -> input name
    produces     \* <<ActionID, ArtifactID>> -> output name

gvars == <<actions, artifacts, consumes, produces>>

Fresh(id) == id \notin DOMAIN actions \cup DOMAIN artifacts

GInit ==
    /\ actions = <<>> /\ artifacts = <<>>
    /\ consumes = <<>> /\ produces = <<>>

CreateAction(id, l) ==
    /\ Fresh(id)
    /\ actions' = (id :> l) @@ actions
    /\ UNCHANGED <<artifacts, consumes, produces>>

\* Declaring an input again renames the edge (spec section 3).
Consume(ac, ar, n) ==
    /\ ac \in DOMAIN actions /\ ar \in DOMAIN artifacts
    /\ consumes' = (<<ac, ar>> :> n) @@ consumes
    /\ UNCHANGED <<actions, artifacts, produces>>

\* A new artifact together with its one producer edge.
Produce(ac, ar, n, l, k) ==
    /\ ac \in DOMAIN actions /\ Fresh(ar)
    /\ artifacts' = (ar :> [label |-> l, kind |-> k]) @@ artifacts
    /\ produces' = (<<ac, ar>> :> n) @@ produces
    /\ UNCHANGED <<actions, consumes>>

Wipe ==
    /\ actions' = <<>> /\ artifacts' = <<>>
    /\ consumes' = <<>> /\ produces' = <<>>

GNext ==
    \/ \E id \in Ids, l \in Labels : CreateAction(id, l)
    \/ \E ac, ar \in Ids, n \in Names : Consume(ac, ar, n)
    \/ \E ac, ar \in Ids, n \in Names, l \in Labels, k \in ArtifactKinds :
          Produce(ac, ar, n, l, k)
    \/ Wipe

GSpec == GInit /\ [][GNext]_gvars
=============================================================================
