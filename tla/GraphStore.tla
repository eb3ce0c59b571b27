----------------------------- MODULE GraphStore -----------------------------
(***************************************************************************)
(* The action/artifact graph kept in FoundationDB by package graph         *)
(* (src/unnamed/part_005, the transactions; part_003 and the key files,    *)
(* the six subspaces).                                                      *)
(*                                                                          *)
(* The whole database is one record `db` with a field per subspace.  A key  *)
(* is the tuple the code packs (the tuple layer keeps a scan of a subspace  *)
(* in ascending order of the packed fields, so a scan is modelled as        *)
(* ascending order of ids).  Values are abstracted to what the properties   *)
(* tell apart: an action's Label, an artifact's Label and Kind, an edge's   *)
(* Name, a producer's ActionID; a consumer value is empty, so the consumer  *)
(* subspace is a set of keys.  A write transaction is a function from the   *)
(* database to the database: FoundationDB applies all of its Sets or none.  *)
(* A uuid.NewV7 is the natural number `id`; NewV7 ids of one process are    *)
(* strictly increasing, which is what makes a scan return creation order.   *)
(***************************************************************************)
EXTENDS Naturals, FiniteSets, Sequences, TLC
LOCAL INSTANCE FiniteSetsExt

CONSTANTS
    Labels,     \* action labels (the `name` argument of action())
    Names       \* input and output names

\* ArtifactKind is a byte: File = 0, Directory = 1 (artifact.go, iota).
ArtifactKindFile == 0
ArtifactKindDirectory == 1
ArtifactKinds == {ArtifactKindFile, ArtifactKindDirectory}

\* The empty database: the six subspaces action, artifact, input, output,
\* producer and consumer hold no key.
EmptyDB ==
    [action   |-> <<>>,   \* ActionID -> Label
     artifact |-> <<>>,   \* ArtifactID -> [label, kind]
     input    |-> <<>>,   \* <<ActionID, ArtifactID>> -> Name
     output   |-> <<>>,   \* <<ActionID, ArtifactID>> -> Name
     producer |-> <<>>,   \* ArtifactID -> ActionID
     consumer |-> {}]     \* set of <<ArtifactID, ActionID>>

\* tr.Set(key, value): a Set overwrites the value a key had.
Put(f, k, v) == (k :> v) @@ f

(***************************************************************************)
(* Write transactions.  `id` is the uuid.NewV7 the closure generates.      *)
(***************************************************************************)

\* addActionTransaction: Set(action/(id), {Label, Command}).
AddActionTx(d, id, label) == [d EXCEPT !.action = Put(@, id, label)]

\* addArtifactTransaction: Set(artifact/(id), {Label, Kind}).
AddArtifactTx(d, id, label, kind) ==
    [d EXCEPT !.artifact = Put(@, id, [label |-> label, kind |-> kind])]

\* Variant: the consumer key packed in the input key's field order.
AddInputTxSwapped(d, ac, name, ar) ==
    [d EXCEPT !.input = Put(@, <<ac, ar>>, name),
              !.consumer = @ \cup {<<ac, ar>>}]

\* addActionInputTransaction: Set(input/(action, artifact), {Name}) and
\* Set(consumer/(artifact, action), {}) in one transaction.  It reads
\* nothing, so it neither checks that either entity exists nor conflicts.
AddInputTx(d, ac, name, ar) ==
    [d EXCEPT !.input = Put(@, <<ac, ar>>, name),
              !.consumer = @ \cup {<<ar, ac>>}]

\* Variant: the nested addArtifactTransaction's Set is missing.
AddOutputTxNoArtifact(d, ac, name, ar, label, kind) ==
    [d EXCEPT !.output = Put(@, <<ac, ar>>, name), !.producer = Put(@, ar, ac)]

\* addActionOutputTransaction: the nested addArtifactTransaction runs on
\* the same fdb.Transaction (Transaction.Transact calls its closure in
\* place), then Set(output/(action, artifact), {Name}) and
\* Set(producer/(artifact), {ActionID}); all three commit together.
AddOutputTx(d, ac, name, ar, label, kind) ==
    LET d1 == AddArtifactTx(d, ar, label, kind)
    IN  [d1 EXCEPT !.output = Put(@, <<ac, ar>>, name),
                   !.producer = Put(@, ar, ac)]

\* Variant: only the action and artifact subspaces are cleared.
ClearEntities(d) == [d EXCEPT !.action = <<>>, !.artifact = <<>>]

\* clearDatabase: ClearRange([0x00, 0xFF)); every subspace key is in it.
ClearDatabase(d) == EmptyDB

(***************************************************************************)
(* Read transactions.  Each runs on one snapshot, so it is a function of   *)
(* the database.  A result is Ok(value) or Err(reason); the code returns   *)
(* fmt.Errorf errors, so "not found" and "integrity" are not types there.  *)
(***************************************************************************)

Ok(v) == [ok |-> TRUE, val |-> v]
Err(e) == [ok |-> FALSE, val |-> e]

\* actionTransaction: Get(action/(id)); nil -> "action with ID %s not found".
GetAction(d, id) ==
    IF id \in DOMAIN d.action THEN Ok(id) ELSE Err("ActionNotFound")

\* Variant: the nil check of the Get is missing.
GetArtifactUnchecked(d, id) == Ok(id)

\* artifactTransaction: Get(artifact/(id)); nil -> "artifact ... not found".
GetArtifact(d, id) ==
    IF id \in DOMAIN d.artifact THEN Ok(id) ELSE Err("ArtifactNotFound")

\* The ids of a set in ascending order: a scan's order.
RECURSIVE Ascending(_)
Ascending(S) == IF S = {} THEN <<>> ELSE <<Min(S)>> \o Ascending(S \ {Min(S)})

\* actionsTransaction: scan of the action subspace, ascending id.
ListActions(d) == Ascending(DOMAIN d.action)

\* artifactProducerTransaction: Get(producer/(artifact)); nil -> "no
\* producer found"; otherwise actionTransaction on the same snapshot.
ResolveProducer(d, ar) ==
    IF ar \notin DOMAIN d.producer THEN Err("NoProducer")
    ELSE GetAction(d, d.producer[ar])

\* artifactConsumersTransaction: scan of consumer/(artifact), each key's
\* action resolved by actionTransaction; the first failure fails the scan.
ResolveConsumers(d, ar) ==
    LET acs == {e[2] : e \in {e \in d.consumer : e[1] = ar}}
    IN  IF \E ac \in acs : ac \notin DOMAIN d.action THEN Err("ActionNotFound")
        ELSE Ok(Ascending(acs))

\* actionInputsTransaction / actionOutputsTransaction: scan of
\* input/(action) or output/(action) in ascending artifact id, each
\* artifact resolved by artifactTransaction, collected into a map by Name;
\* a later key of the scan overwrites an earlier one with the same Name.
EdgeMap(d, edges, ac) ==
    LET ars == {e[2] : e \in {e \in DOMAIN edges : e[1] = ac}}
    IN  IF \E ar \in ars : ar \notin DOMAIN d.artifact THEN Err("ArtifactNotFound")
        ELSE Ok([n \in {edges[<<ac, ar>>] : ar \in ars} |->
                    Max({ar \in ars : edges[<<ac, ar>>] = n})])

ResolveInputs(d, ac) == EdgeMap(d, d.input, ac)

\* Variant: the outputs scan reads the input range.
ResolveOutputsCopied(d, ac) == EdgeMap(d, d.input, ac)

ResolveOutputs(d, ac) == EdgeMap(d, d.output, ac)

(***************************************************************************)
(* Shape of the database.                                                  *)
(***************************************************************************)
IsDB(d, Ids) ==
    /\ DOMAIN d = {"action", "artifact", "input", "output", "producer", "consumer"}
    /\ DOMAIN d.action \subseteq Ids /\ \A k \in DOMAIN d.action : d.action[k] \in Labels
    /\ DOMAIN d.artifact \subseteq Ids
    /\ \A k \in DOMAIN d.artifact : d.artifact[k] \in [label : Labels, kind : ArtifactKinds]
    /\ DOMAIN d.input \subseteq Ids \X Ids /\ \A k \in DOMAIN d.input : d.input[k] \in Names
    /\ DOMAIN d.output \subseteq Ids \X Ids /\ \A k \in DOMAIN d.output : d.output[k] \in Names
    /\ DOMAIN d.producer \subseteq Ids /\ \A k \in DOMAIN d.producer : d.producer[k] \in Ids
    /\ d.consumer \subseteq Ids \X Ids
=============================================================================
