------------------------------- MODULE Codec -------------------------------
(***************************************************************************)
(* The key codec of package graph: the six key types' Encode and Decode    *)
(* (action.go, part_003 artifact.go, actionInput.go, errors.go's           *)
(* actionOutputKey, artifactConsumer.go) and the three prefix ranges the   *)
(* scans read (actionInputRange, actionOutputRange, artifactConsumerRange).*)
(*                                                                          *)
(* A key is a byte sequence.  The uuid of an id is its MarshalBinary, a    *)
(* byte sequence of UuidLen bytes (16 in the code) over the byte values    *)
(* ByteVals.  The FoundationDB tuple layer the code packs with is written  *)
(* out as operators (its byte codes, the 0x00 escape and terminator), so   *)
(* that the codec's checks are taken over the bytes the database returns.  *)
(* A subspace name ("action", "artifact", ...) is packed as a string       *)
(* element; its characters are abstracted to one distinct byte.            *)
(* The values are gob streams, modelled by what encoding/gob does with a  *)
(* struct (below); GraphStore keeps the fields a value decodes to.          *)
(***************************************************************************)
EXTENDS Naturals, Sequences
LOCAL INSTANCE SequencesExt
LOCAL INSTANCE FiniteSetsExt

CONSTANTS
    ByteVals,   \* the byte values an id may contain
    UuidLen     \* the length of a marshalled uuid

Uuids == [1..UuidLen -> ByteVals]

Decoded(v) == [ok |-> TRUE, val |-> v]
Failed(e) == [ok |-> FALSE, val |-> e]

(***************************************************************************)
(* The tuple layer (fdb/tuple, library code): an element is a record       *)
(* [type, val]; type codes 0x00 nil, 0x01 []byte, 0x02 string, 0x14 the   *)
(* integer 0.  A byte string element is its bytes with every 0x00 written  *)
(* as 0x00 0xFF, then a 0x00 terminator.                                    *)
(***************************************************************************)
CodeOf == [nil |-> 0, bytes |-> 1, string |-> 2, int |-> 20]

RECURSIVE Escape(_)
Escape(b) ==
    IF b = <<>> THEN <<>>
    ELSE (IF Head(b) = 0 THEN <<0, 255>> ELSE <<Head(b)>>) \o Escape(Tail(b))

PackElem(e) ==
    CASE e.type \in {"bytes", "string"} -> <<CodeOf[e.type]>> \o Escape(e.val) \o <<0>>
      [] e.type \in {"nil", "int"}      -> <<CodeOf[e.type]>>

Pack(prefix, t) == prefix \o FlattenSeq([i \in DOMAIN t |-> PackElem(t[i])])

\* The escaped bytes up to the terminator and the bytes after it.
RECURSIVE UnescapeFrom(_, _)
UnescapeFrom(s, acc) ==
    CASE s = <<>> -> Failed("MalformedTuple")
      [] Head(s) = 0 /\ Len(s) >= 2 /\ s[2] = 255 -> UnescapeFrom(Tail(Tail(s)), acc \o <<0>>)
      [] Head(s) = 0 -> Decoded([val |-> acc, rest |-> Tail(s)])
      [] OTHER -> UnescapeFrom(Tail(s), acc \o <<Head(s)>>)

RECURSIVE UnpackElems(_)
UnpackElems(s) ==
    IF s = <<>> THEN Decoded(<<>>)
    ELSE LET c == Head(s) IN
         CASE c \in {CodeOf.nil, CodeOf.int} ->
                LET r == UnpackElems(Tail(s))
                    e == [type |-> IF c = CodeOf.nil THEN "nil" ELSE "int", val |-> <<>>]
                IN  IF r.ok THEN Decoded(<<e>> \o r.val) ELSE r
           [] c \in {CodeOf.bytes, CodeOf.string} ->
                LET u == UnescapeFrom(Tail(s), <<>>) IN
                IF ~u.ok THEN u
                ELSE LET r == UnpackElems(u.val.rest)
                         e == [type |-> IF c = CodeOf.bytes THEN "bytes" ELSE "string",
                               val |-> u.val.val]
                     IN  IF r.ok THEN Decoded(<<e>> \o r.val) ELSE r
           [] OTHER -> Failed("UnknownTypeCode")

\* Subspace.Unpack: the key must start with the subspace's prefix.
Unpack(prefix, key) ==
    IF IsPrefix(prefix, key) THEN UnpackElems(SubSeq(key, Len(prefix) + 1, Len(key)))
    ELSE Failed("KeyNotInSubspace")

\* fdb.PrefixRange(p): the keys that start with p.
InPrefixRange(p, key) == IsPrefix(p, key)

(***************************************************************************)
(* Package graph.                                                           *)
(***************************************************************************)

\* subspace.Sub("action"), ...: a string element naming the subspace.
SubspaceTag == [action |-> 97, artifact |-> 98, input |-> 105,
                output |-> 111, producer |-> 112, consumer |-> 99]
Subspaces == DOMAIN SubspaceTag
Prefix(sub) == Pack(<<>>, <<[type |-> "string", val |-> <<SubspaceTag[sub]>>]>>)

\* uuid.MarshalBinary: the id's bytes, as a []byte element.
IdElem(id) == [type |-> "bytes", val |-> id]

\* The Encode of every key type: sub.Pack(tuple.Tuple{idB, ...}) with the
\* ids in the key type's field order.
EncodeKey(sub, ids) == Pack(Prefix(sub), [i \in DOMAIN ids |-> IdElem(ids[i])])

\* The number of ids in each key type's tuple.
Arity == [action |-> 1, artifact |-> 1, input |-> 2,
          output |-> 2, producer |-> 1, consumer |-> 2]

\* The Encode of each key type.
EncodeActionKey(id) == EncodeKey("action", <<id>>)
EncodeArtifactKey(id) == EncodeKey("artifact", <<id>>)
EncodeActionInputKey(ac, ar) == EncodeKey("input", <<ac, ar>>)
EncodeActionOutputKey(ac, ar) == EncodeKey("output", <<ac, ar>>)
EncodeArtifactProducerKey(ar) == EncodeKey("producer", <<ar>>)
EncodeArtifactConsumerKey(ar, ac) == EncodeKey("consumer", <<ar, ac>>)

\* Variant: uuid.UnmarshalBinary's length check is missing.
DecodeIdsAnyLength(sub, key) ==
    LET t == Unpack(Prefix(sub), key)
        n == Arity[sub]
        bad == {i \in 1..n : t.val[i].type # "bytes"}
    IN  CASE ~t.ok -> t
          [] Len(t.val) # n -> Failed("InvalidTupleLength")
          [] bad # {} -> Failed("InvalidElementType")
          [] OTHER -> Decoded([i \in 1..n |-> t.val[i].val])

\* Variant: the tuple-length check accepts longer tuples.
DecodeIdsLoose(sub, key) ==
    LET t == Unpack(Prefix(sub), key)
        n == Arity[sub]
        bad == {i \in 1..n : t.val[i].type # "bytes" \/ Len(t.val[i].val) # UuidLen}
    IN  CASE ~t.ok -> t
          [] Len(t.val) < n -> Failed("InvalidTupleLength")
          [] bad # {} -> Failed(IF t.val[Min(bad)].type # "bytes"
                                THEN "InvalidElementType" ELSE "InvalidUUIDLength")
          [] OTHER -> Decoded([i \in 1..n |-> t.val[i].val])

\* The Decode shared by every key type: sub.Unpack(key); len(t) must be
\* the arity (NewErrInvalidTupleLength); then, element by element, t[i]
\* must be a []byte (NewErrInvalidElementType) and uuid.UnmarshalBinary
\* must accept it (exactly 16 bytes); the first failure is returned.
DecodeIds(sub, key) ==
    LET t == Unpack(Prefix(sub), key)
        n == Arity[sub]
        bad == {i \in 1..n : t.val[i].type # "bytes" \/ Len(t.val[i].val) # UuidLen}
    IN  CASE ~t.ok -> t
          [] Len(t.val) # n -> Failed("InvalidTupleLength")
          [] bad # {} -> Failed(IF t.val[Min(bad)].type # "bytes"
                                THEN "InvalidElementType" ELSE "InvalidUUIDLength")
          [] OTHER -> Decoded([i \in 1..n |-> t.val[i].val])

\* The Decode of each key type; the decoded fields in the key's order.
DecodeActionKey(key) == DecodeIds("action", key)
DecodeArtifactKey(key) == DecodeIds("artifact", key)
DecodeActionInputKey(key) == DecodeIds("input", key)
DecodeActionOutputKey(key) == DecodeIds("output", key)
DecodeArtifactProducerKey(key) == DecodeIds("producer", key)

\* Variant: the decoded ids are stored in each other's fields.
DecodeArtifactConsumerKeySwapped(key) ==
    LET r == DecodeIds("consumer", key)
    IN  IF r.ok THEN Decoded(<<r.val[2], r.val[1]>>) ELSE r

\* artifactConsumerKey.Decode: t[0] is the artifact id, t[1] the action id.
DecodeArtifactConsumerKey(key) ==
    LET r == DecodeIds("consumer", key)
    IN  IF r.ok THEN Decoded(<<r.val[1], r.val[2]>>) ELSE r

\* fdb.PrefixRange(sub.Pack(tuple.Tuple{idB})) of each scan.
ActionInputRange(id) == EncodeKey("input", <<id>>)

\* Variant: the output range is packed under the input subspace.
ActionOutputRangeCopied(id) == EncodeKey("input", <<id>>)

ActionOutputRange(id) == EncodeKey("output", <<id>>)
ArtifactConsumerRange(id) == EncodeKey("consumer", <<id>>)


(***************************************************************************)
(* The values: encoding/gob (library code) on the value structs.  A fresh  *)
(* gob.Encoder sends the struct's type, then a (field delta, value) pair   *)
(* for each field that does not hold its type's zero value, in field      *)
(* order; the decoder sets the fields it receives, by name, and leaves     *)
(* every other field of its target as it was.  A field value is atomic.   *)
(***************************************************************************)
ValueFields == [action |-> <<"Label", "Command">>, artifact |-> <<"Label", "Kind">>,
                input |-> <<"Name">>, output |-> <<"Name">>, producer |-> <<"ActionID">>]

\* "" for a string, 0 (ArtifactKindFile) for the Kind byte, the nil uuid.
FieldZero == [Label |-> "", Command |-> "", Name |-> "", Kind |-> 0, ActionID |-> "nil"]

ZeroValue(t) == [f \in ToSet(ValueFields[t]) |-> FieldZero[f]]

GobEncode(t, v) ==
    LET names == ValueFields[t]
        sent  == SetToSortSeq({i \in DOMAIN names : v[names[i]] # FieldZero[names[i]]}, <)
    IN  [type |-> t,
         fields |-> [j \in DOMAIN sent |-> [delta |-> sent[j] - (IF j = 1 THEN 0 ELSE sent[j - 1]),
                                            val |-> v[names[sent[j]]]]]]

RECURSIVE ApplyFields(_, _, _, _)
ApplyFields(names, target, items, at) ==
    IF items = <<>> THEN target
    ELSE LET i == at + Head(items).delta
             f == names[i]
         IN  ApplyFields(names, IF f \in DOMAIN target THEN [target EXCEPT ![f] = Head(items).val]
                                ELSE target,
                         Tail(items), i)

GobDecode(target, w) == ApplyFields(ValueFields[w.type], target, w.fields, 0)

EncodeActionValue(v) == GobEncode("action", v)
DecodeActionValue(target, w) == GobDecode(target, w)
EncodeArtifactValue(v) == GobEncode("artifact", v)
DecodeArtifactValue(target, w) == GobDecode(target, w)
EncodeActionInputValue(v) == GobEncode("input", v)
DecodeActionInputValue(target, w) == GobDecode(target, w)
EncodeActionOutputValue(v) == GobEncode("output", v)
DecodeActionOutputValue(target, w) == GobDecode(target, w)
EncodeArtifactProducerValue(v) == GobEncode("producer", v)
DecodeArtifactProducerValue(target, w) == GobDecode(target, w)

\* artifactConsumerValue has no field and is not a gob stream: Encode
\* returns no bytes and Decode reads none.
EncodeArtifactConsumerValue == [type |-> "none", fields |-> <<>>]
DecodeArtifactConsumerValue(target, w) == target

\* Variant: one decode target, declared before the loop, for every value.
ScanValuesReused(t, ws) ==
    LET R[i \in DOMAIN ws] == GobDecode(IF i = 1 THEN ZeroValue(t) ELSE R[i - 1], ws[i])
    IN  R

\* The scan loops of actionsTransaction, actionInputsTransaction and
\* actionOutputsTransaction: `var av actionValue` inside the loop, so each
\* value is decoded into a zero struct.
ScanValues(t, ws) == [i \in DOMAIN ws |-> GobDecode(ZeroValue(t), ws[i])]
=============================================================================
