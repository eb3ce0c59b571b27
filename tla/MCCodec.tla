------------------------------ MODULE MCCodec ------------------------------
(***************************************************************************)
(* Checks the key codec against its reference: a key is what EncodeKey    *)
(* produces.  `key` is any key a range read can return: every tuple of up  *)
(* to MaxTupleLen elements packed under any subspace, truncated encodings  *)
(* and an unknown type code.  One step then runs one Decode or tests one   *)
(* scan range on it, and the invariants compare the result with the        *)
(* reference.  The harness stops after that step.                          *)
(***************************************************************************)
EXTENDS Codec

CONSTANT MaxTupleLen

VARIABLES key, seen

\* The key of type sub with the fields ids, in the key type's field order.
EncodeKeyOf(sub, ids) ==
    CASE sub = "action"   -> EncodeActionKey(ids[1])
      [] sub = "artifact" -> EncodeArtifactKey(ids[1])
      [] sub = "input"    -> EncodeActionInputKey(ids[1], ids[2])
      [] sub = "output"   -> EncodeActionOutputKey(ids[1], ids[2])
      [] sub = "producer" -> EncodeArtifactProducerKey(ids[1])
      [] sub = "consumer" -> EncodeArtifactConsumerKey(ids[1], ids[2])

\* The Decode of key type sub.
DecodeKey(sub, k) ==
    CASE sub = "action"   -> DecodeActionKey(k)
      [] sub = "artifact" -> DecodeArtifactKey(k)
      [] sub = "input"    -> DecodeActionInputKey(k)
      [] sub = "output"   -> DecodeActionOutputKey(k)
      [] sub = "producer" -> DecodeArtifactProducerKey(k)
      [] sub = "consumer" -> DecodeArtifactConsumerKey(k)

\* The subspace a scan reads and the prefix of its range for id.
RangeSubspace == [input |-> "input", output |-> "output", consumer |-> "consumer"]
KeyRange(scan, id) ==
    CASE scan = "input"    -> ActionInputRange(id)
      [] scan = "output"   -> ActionOutputRange(id)
      [] scan = "consumer" -> ArtifactConsumerRange(id)

\* Elements a tuple may hold: well-formed ids, a short []byte, a string,
\* the integer 0 and nil.
ElemProbes ==
    {IdElem(u) : u \in Uuids} \cup {IdElem(<<b>>) : b \in ByteVals}
    \cup {[type |-> "string", val |-> <<0>>], [type |-> "int", val |-> <<>>],
          [type |-> "nil", val |-> <<>>]}

Encodings(sub) == {EncodeKeyOf(sub, ids) : ids \in [1..Arity[sub] -> Uuids]}
WellFormed == UNION {Encodings(sub) : sub \in Subspaces}

ProbeKeys ==
    {Pack(Prefix(sub), t) : sub \in Subspaces,
                            t \in UNION {[1..n -> ElemProbes] : n \in 0..MaxTupleLen}}
    \cup {SubSeq(k, 1, Len(k) - 1) : k \in WellFormed}
    \cup {Prefix(sub) \o <<5>> : sub \in Subspaces}

\* The values a field may hold: its zero value and one other.
FieldOther == [Label |-> "save", Command |-> "cmd", Name |-> "OUT", Kind |-> 1, ActionID |-> "u1"]
ValueProbes(t) ==
    {[f \in DOMAIN ZeroValue(t) |-> IF set[f] THEN FieldOther[f] ELSE ZeroValue(t)[f]] :
        set \in [DOMAIN ZeroValue(t) -> BOOLEAN]}

\* The Encode of value type t.
EncodeValueOf(t, v) ==
    CASE t = "action"   -> EncodeActionValue(v)
      [] t = "artifact" -> EncodeArtifactValue(v)
      [] t = "input"    -> EncodeActionInputValue(v)
      [] t = "output"   -> EncodeActionOutputValue(v)
      [] t = "producer" -> EncodeArtifactProducerValue(v)

None == [op |-> "none"]

Init == key \in ProbeKeys /\ seen = None

\* A Decode of the key as key type sub.
DecodeStep ==
    /\ seen = None
    /\ \E sub \in Subspaces :
          seen' = [op |-> "decode", sub |-> sub, res |-> DecodeKey(sub, key)]
    /\ UNCHANGED key

\* A range read's test of the key against the prefix range of id.
ScanStep ==
    /\ seen = None
    /\ \E scan \in DOMAIN RangeSubspace, id \in Uuids :
          seen' = [op |-> "scan", scan |-> scan, id |-> id,
                   in |-> InPrefixRange(KeyRange(scan, id), key)]
    /\ UNCHANGED key

\* A scan that reads the values of two keys written with the values vs.
ValueStep ==
    /\ seen = None
    /\ \E t \in DOMAIN ValueFields : \E vs \in [1..2 -> ValueProbes(t)] :
          seen' = [op |-> "values", vals |-> vs,
                   res |-> ScanValues(t, [i \in 1..2 |-> EncodeValueOf(t, vs[i])])]
    /\ UNCHANGED key

Next == DecodeStep \/ ScanStep \/ ValueStep

Spec == Init /\ [][Next]_<<key, seen>>

\* Decoded ids are uuids: 16 bytes (UuidLen here).
TypeOK ==
    /\ key \in Seq(0..255)
    /\ \/ seen = None
       \/ /\ seen.op = "decode" /\ seen.sub \in Subspaces
          /\ seen.res.ok => seen.res.val \in [1..Arity[seen.sub] -> Uuids]
       \/ seen.op = "scan" /\ seen.in \in BOOLEAN
       \/ seen.op = "values" /\ DOMAIN seen.res = DOMAIN seen.vals

\* Decode inverts Encode.  Every key type's Decode (sub.Unpack, the tuple
\* length check, the []byte check and uuid.UnmarshalBinary) accepts a key
\* exactly when that key type's Encode produces it.  Encoding the decoded
\* fields then gives back the same key, so a cursor built from a scanned key
\* names the entity that was written.
DecodeInvertsEncode ==
    seen.op = "decode" =>
        /\ seen.res.ok <=> key \in Encodings(seen.sub)
        /\ seen.res.ok => EncodeKeyOf(seen.sub, seen.res.val) = key

\* Every value a scan decodes is the value that was written, zero fields
\* included: gob leaves out a field holding its zero value ("" or
\* ArtifactKindFile), and the scan loops decode each value into a fresh
\* struct, so nothing of the previous key's value shows through.
ValuesRoundTrip ==
    seen.op = "values" => seen.res = seen.vals

\* A range is exactly one entity's edges.  Of the keys the code writes,
\* actionInputRange(a), actionOutputRange(a) and artifactConsumerRange(a)
\* hold exactly the input, output or consumer keys whose first id is a.
\* The scans in actionInputsTransaction, actionOutputsTransaction and
\* artifactConsumersTransaction rely on this.
RangeSelectsOwnKeys ==
    seen.op = "scan" /\ key \in WellFormed =>
        LET sub == RangeSubspace[seen.scan]
        IN  seen.in <=> \E ids \in [1..Arity[sub] -> Uuids] :
                            EncodeKeyOf(sub, ids) = key /\ ids[1] = seen.id
=============================================================================
