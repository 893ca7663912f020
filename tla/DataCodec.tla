----------------------------- MODULE DataCodec ------------------------------
(***************************************************************************)
(* The compact tagged encoding of the identity pallet's `Data` type        *)
(* (src/pallets/identitysel/src/types.rs, impl Encode / impl Decode).      *)
(*                                                                         *)
(* One tag byte, then a payload whose length the tag alone determines:    *)
(* 0 -> None, 1..33 -> Raw of tag-1 bytes, 34..37 -> a 32-byte digest.    *)
(* The machine takes either a Data value through encode and then decode,  *)
(* or an arbitrary byte string through decode, as a caller of the codec   *)
(* would.                                                                  *)
(***************************************************************************)
EXTENDS Integers, Sequences, FiniteSets

CONSTANTS
  PayloadBytes,  \* byte values payloads are built from
  ShortRawMax,   \* Raw payloads up to this length take every byte mix
  NoValue        \* marks "no Data value given"

ASSUME PayloadBytes \subseteq 0 .. 255 /\ PayloadBytes # {}
ASSUME ShortRawMax \in 0 .. 32

Byte == 0 .. 255
HashKinds == {"BlakeTwo256", "Sha256", "Keccak256", "ShaThree256"}

\* The digest variants and their tags.
HashTag == [k \in HashKinds |->
              CASE k = "BlakeTwo256" -> 34 [] k = "Sha256" -> 35
                [] k = "Keccak256" -> 36   [] k = "ShaThree256" -> 37]

\* The type Data: Raw is a BoundedVec<u8, ConstU32<32>>, digests [u8; 32].
IsData(v) ==
  \/ v = [kind |-> "None"]
  \/ /\ DOMAIN v = {"kind", "bytes"}
     /\ v.bytes \in Seq(Byte)
     /\ \/ v.kind = "Raw" /\ Len(v.bytes) <= 32
        \/ v.kind \in HashKinds /\ Len(v.bytes) = 32

\* A sequence of n copies of byte b.
Fill(n, b) == [i \in 1 .. n |-> b]

\* Reference: the tag table of the encoding.
PayloadLength(tag) ==
  CASE tag = 0 -> 0
    [] tag \in 1 .. 33 -> tag - 1
    [] tag \in 34 .. 37 -> 32

(***************************************************************************)
(* impl TypeInfo for Data: the variants the metadata declares, each with   *)
(* its index and the length of its one array field (none for None).  A     *)
(* variant name is a pair <<kind, size>>: "Raw7" is <<"Raw", 7>>.         *)
(***************************************************************************)
\* Mutant: data_raw_variants! lists (size, size) instead of (size+1, size).
TypeInfoVariantsShifted ==
  {[name |-> <<"None", 0>>, index |-> 0, field |-> 0]}
    \cup {[name |-> <<"Raw", n>>, index |-> n, field |-> n] : n \in 0 .. 32}
    \cup {[name |-> <<k, 0>>, index |-> HashTag[k], field |-> 32] : k \in HashKinds}

TypeInfoVariants ==
  {[name |-> <<"None", 0>>, index |-> 0, field |-> 0]}
    \cup {[name |-> <<"Raw", n>>, index |-> n + 1, field |-> n] : n \in 0 .. 32}
    \cup {[name |-> <<k, 0>>, index |-> HashTag[k], field |-> 32] : k \in HashKinds}

\* The variant name the test manual_data_type_info looks up for a value.
VariantName(d) ==
  CASE d.kind = "None" -> <<"None", 0>>
    [] d.kind = "Raw"  -> <<"Raw", Len(d.bytes)>>
    [] OTHER           -> <<d.kind, 0>>

(***************************************************************************)
(* impl Encode for Data.  Raw holds a BoundedVec of at most 32 bytes, so   *)
(* the `min(32)` truncation never shortens it.                             *)
(***************************************************************************)
\* Mutant: the Raw tag is the length itself.
EncodeRawTagIsLength(d) ==
  CASE d.kind = "None" -> <<0>>
    [] d.kind = "Raw" -> LET l == IF Len(d.bytes) < 32 THEN Len(d.bytes) ELSE 32
                         IN <<l>> \o SubSeq(d.bytes, 1, l)
    [] d.kind \in HashKinds -> <<HashTag[d.kind]>> \o d.bytes

Encode(d) ==
  CASE d.kind = "None" -> <<0>>
    [] d.kind = "Raw" -> LET l == IF Len(d.bytes) < 32 THEN Len(d.bytes) ELSE 32
                         IN <<l + 1>> \o SubSeq(d.bytes, 1, l)
    [] d.kind \in HashKinds -> <<HashTag[d.kind]>> \o d.bytes

(***************************************************************************)
(* impl Decode for Data: [ok, value, rest] on success, [ok, error] on      *)
(* failure.  read_byte and read fail with "not enough data" on a short    *)
(* input; any other leading byte is "invalid leading byte".               *)
(***************************************************************************)
Decoded(v, rest) == [ok |-> TRUE, value |-> v, rest |-> rest]
DecodeFailed(e) == [ok |-> FALSE, error |-> e]

\* Reads n payload bytes after the tag into a value of the given kind, or
\* fails.
ReadPayload(bs, n, kind) ==
  IF Len(bs) - 1 < n THEN DecodeFailed("InputTooShort")
  ELSE Decoded([kind |-> kind, bytes |-> SubSeq(bs, 2, n + 1)], SubSeq(bs, n + 2, Len(bs)))

\* Mutant: a leading byte of 38 is also read as a SHA3-256 digest.
DecodeLenient(bs) ==
  IF bs = <<>> THEN DecodeFailed("InputTooShort")
  ELSE LET b == bs[1] IN
    CASE b = 0 -> Decoded([kind |-> "None"], Tail(bs))
      [] b \in 1 .. 33 -> ReadPayload(bs, b - 1, "Raw")
      [] b \in 34 .. 38 ->
           LET k == CHOOSE h \in HashKinds : HashTag[h] = IF b = 38 THEN 37 ELSE b
           IN  ReadPayload(bs, 32, k)
      [] OTHER -> DecodeFailed("InvalidTag")

\* Mutant: a Raw tag is followed by `tag` bytes instead of `tag - 1`.
DecodeRawOverread(bs) ==
  IF bs = <<>> THEN DecodeFailed("InputTooShort")
  ELSE LET b == bs[1] IN
    CASE b = 0 -> Decoded([kind |-> "None"], Tail(bs))
      [] b \in 1 .. 33 -> ReadPayload(bs, b, "Raw")
      [] b \in 34 .. 37 ->
           LET k == CHOOSE h \in HashKinds : HashTag[h] = b
           IN  ReadPayload(bs, 32, k)
      [] OTHER -> DecodeFailed("InvalidTag")

Decode(bs) ==
  IF bs = <<>> THEN DecodeFailed("InputTooShort")
  ELSE LET b == bs[1] IN
    CASE b = 0 -> Decoded([kind |-> "None"], Tail(bs))
      [] b \in 1 .. 33 -> ReadPayload(bs, b - 1, "Raw")
      [] b \in 34 .. 37 ->
           LET k == CHOOSE h \in HashKinds : HashTag[h] = b
           IN  ReadPayload(bs, 32, k)
      [] OTHER -> DecodeFailed("InvalidTag")

(***************************************************************************)
(* Bounded inputs.                                                         *)
(***************************************************************************)

\* Every Data value whose payload is short, or a run of one byte value.
RawPayloads ==
  UNION {[1 .. n -> PayloadBytes] : n \in 0 .. ShortRawMax}
    \cup {Fill(n, b) : n \in 0 .. 32, b \in PayloadBytes}

DataValues ==
  {[kind |-> "None"]}
    \cup {[kind |-> "Raw", bytes |-> p] : p \in RawPayloads}
    \cup {[kind |-> k, bytes |-> Fill(32, b)] : k \in HashKinds, b \in PayloadBytes}

\* Byte strings with every leading byte, followed by too few, exactly
\* enough and too many payload bytes for that tag; an unknown tag is
\* followed by nothing or by a digest-sized payload.
PayloadLengthsFor(t) ==
  IF t \in 0 .. 37
  THEN {n \in {PayloadLength(t) - 1, PayloadLength(t), PayloadLength(t) + 1} : n >= 0}
  ELSE {0, 32}

WireSamples ==
  {<<>>} \cup UNION {{<<t>> \o Fill(n, b) : n \in PayloadLengthsFor(t), b \in PayloadBytes} : t \in Byte}

VARIABLES
  value,   \* the Data value handed to encode, or NoValue
  wire,    \* the byte string handed to decode
  result,  \* what decode returned
  phase    \* "encode", "decode" or "done"

vars == <<value, wire, result, phase>>

Init ==
  /\ result = DecodeFailed("none")
  /\ \/ /\ phase = "encode"
        /\ value \in DataValues
        /\ wire = <<>>
     \/ /\ phase = "decode"
        /\ value = NoValue
        /\ wire \in WireSamples

EncodeData ==
  /\ phase = "encode"
  /\ wire' = Encode(value)
  /\ phase' = "decode"
  /\ UNCHANGED <<value, result>>

DecodeData ==
  /\ phase = "decode"
  /\ result' = Decode(wire)
  /\ phase' = "done"
  /\ UNCHANGED <<value, wire>>

\* Each codec call runs once and returns, so "done" states are final.
Next == EncodeData \/ DecodeData

Spec == Init /\ [][Next]_vars

(***************************************************************************)
(* Properties.                                                             *)
(***************************************************************************)

TypeOK ==
  /\ phase \in {"encode", "decode", "done"}
  /\ value \in DataValues \cup {NoValue}
  /\ wire \in Seq(Byte)
  /\ result.ok \in BOOLEAN
  /\ result.ok => IsData(result.value)

\* decode(encode(v)) == v, consuming the whole encoding, for every Data v;
\* and the encoding has the length the tag table gives.
RoundTrip ==
  phase = "done" /\ value # NoValue =>
    /\ result = Decoded(value, <<>>)
    /\ Len(wire) = 1 + PayloadLength(wire[1])

\* The hand-written TypeInfo agrees with the hand-written Encode (the test
\* manual_data_type_info, here over every value, not only zeroed ones):
\* the metadata declares exactly one variant under the value's name, its
\* index is the first byte encode writes, and its field is as long as the
\* rest -- so a client decoding by the metadata reads what the chain wrote.
ManualDataTypeInfo ==
  phase # "encode" /\ value # NoValue =>
    LET vs == {v \in TypeInfoVariants : v.name = VariantName(value)} IN
    /\ Cardinality(vs) = 1
    /\ \A v \in vs : wire[1] = v.index /\ Len(wire) - 1 = v.field

\* Canonical encoding: whatever decode accepts, it accepted exactly the
\* encoding of the value it returns, so no two byte strings decode to the
\* same Data and unrecognised tags never decode.
Canonical ==
  phase = "done" /\ result.ok => Encode(result.value) \o result.rest = wire

=============================================================================
