-------------------------- MODULE RegistrationCodec --------------------------
(***************************************************************************)
(* The stored identity record of the identity pallet                      *)
(* (src/pallets/identitysel/src/types.rs): RegistrationSel { deposit,     *)
(* accountId, info: IdentityInfoSel }, SCALE-encoded field by field, and  *)
(* decoded through AppendZerosInput, which hands out zeros once the input *)
(* is exhausted.  That decode is what lets a record stored under an older *)
(* layout -- one with fewer trailing fields -- still decode.              *)
(*                                                                         *)
(* Balance, AccountId and the PGP fingerprint are scaled to a few bytes;  *)
(* Data fields use the Data codec of DataCodec.                            *)
(***************************************************************************)
EXTENDS Integers, Sequences, SequencesExt

CONSTANTS
  BalanceBytes,        \* bytes of Balance (u128: 16)
  AccountBytes,        \* bytes of AccountId (32)
  PgpBytes,            \* bytes of the PGP fingerprint ([u8; 20])
  MaxAdditionalFields, \* FieldLimit of IdentityInfoSel::additional
  NoValue              \* marks "no record given"

ASSUME MaxAdditionalFields \in 0 .. 15

DC == INSTANCE DataCodec WITH PayloadBytes <- {0}, ShortRawMax <- 0,
        value <- NoValue, wire <- <<>>, result <- NoValue, phase <- "done"

Byte == 0 .. 255
\* Option<[u8; 20]> of pgp_fingerprint.
NoPgp == [some |-> FALSE, bytes |-> <<>>]
SomePgp(bs) == [some |-> TRUE, bytes |-> bs]

\* The fields in declaration order: RegistrationSel's deposit and
\* accountId, then the fields of IdentityInfoSel.
Fields == <<"deposit", "accountId", "additional", "display", "legal", "web",
            "referalhash", "email", "pgp_fingerprint", "account", "image",
            "passwordhash">>
NumFields == Len(Fields)

Kind(i) ==
  CASE Fields[i] = "deposit"         -> "Balance"
    [] Fields[i] = "accountId"       -> "AccountId"
    [] Fields[i] = "additional"      -> "Additional"
    [] Fields[i] = "pgp_fingerprint" -> "Pgp"
    [] OTHER                         -> "Data"

\* What a field decodes to from zeros alone.
Default(i) ==
  CASE Kind(i) = "Balance"    -> 0
    [] Kind(i) = "AccountId"  -> [j \in 1 .. AccountBytes |-> 0]
    [] Kind(i) = "Additional" -> <<>>
    [] Kind(i) = "Pgp"        -> NoPgp
    [] Kind(i) = "Data"       -> [kind |-> "None"]

LE(x, n) == [j \in 1 .. n |-> (x \div 256^(j - 1)) % 256]
FromLE(bs) == LET R[j \in 0 .. Len(bs)] == IF j = 0 THEN 0 ELSE R[j - 1] + bs[j] * 256^(j - 1)
              IN R[Len(bs)]

(***************************************************************************)
(* Encode (derived): the fields' encodings concatenated in order.          *)
(***************************************************************************)
EncodeField(i, v) ==
  CASE Kind(i) = "Balance"    -> LE(v, BalanceBytes)
    [] Kind(i) = "AccountId"  -> v
    [] Kind(i) = "Additional" ->   \* Compact length (single-byte mode), then the pairs
         <<4 * Len(v)>> \o FlattenSeq([j \in 1 .. Len(v) |-> DC!Encode(v[j][1]) \o DC!Encode(v[j][2])])
    [] Kind(i) = "Pgp"        -> IF v.some THEN <<1>> \o v.bytes ELSE <<0>>
    [] Kind(i) = "Data"       -> DC!Encode(v)

\* The encoding of a record under a layout that has only its first k fields.
EncodeLayout(r, k) == FlattenSeq([i \in 1 .. k |-> EncodeField(i, r[i])])

(***************************************************************************)
(* Decode.  A result is [ok, value, rest] or [ok, error].                  *)
(***************************************************************************)
Ok(v, rest) == [ok |-> TRUE, value |-> v, rest |-> rest]
Fail(e) == [ok |-> FALSE, error |-> e]

\* Fixed-width bytes.
ReadBytes(bs, n) == IF Len(bs) < n THEN Fail("InputTooShort")
                    ELSE Ok(SubSeq(bs, 1, n), SubSeq(bs, n + 1, Len(bs)))

\* Compact<u32>: the low two bits of the first byte give the mode; a value
\* that fits a shorter mode is refused as non-canonical.
DecodeCompact(bs) ==
  IF bs = <<>> THEN Fail("InputTooShort")
  ELSE CASE bs[1] % 4 = 0 -> Ok(bs[1] \div 4, Tail(bs))
         [] bs[1] % 4 = 1 ->
              IF Len(bs) < 2 THEN Fail("InputTooShort")
              ELSE LET n == FromLE(SubSeq(bs, 1, 2)) \div 4 IN
                   IF n < 64 THEN Fail("out of range") ELSE Ok(n, SubSeq(bs, 3, Len(bs)))
         [] bs[1] % 4 = 2 ->
              IF Len(bs) < 4 THEN Fail("InputTooShort")
              ELSE LET n == FromLE(SubSeq(bs, 1, 4)) \div 4 IN
                   IF n < 2^14 THEN Fail("out of range") ELSE Ok(n, SubSeq(bs, 5, Len(bs)))
         [] OTHER -> Fail("out of range")  \* big-integer mode: beyond u32 in our inputs

\* n (Data, Data) pairs.
RECURSIVE DecodePairs(_, _)
DecodePairs(bs, n) ==
  IF n = 0 THEN Ok(<<>>, bs)
  ELSE LET a == DC!Decode(bs) IN
       IF ~a.ok THEN a ELSE
       LET b == DC!Decode(a.rest) IN
       IF ~b.ok THEN b ELSE
       LET more == DecodePairs(b.rest, n - 1) IN
       IF ~more.ok THEN more ELSE Ok(<<<<a.value, b.value>>>> \o more.value, more.rest)

\* Mutant: the BoundedVec bound is not checked.
DecodeAdditionalUnbounded(bs) ==
  LET len == DecodeCompact(bs) IN
  IF ~len.ok THEN len ELSE DecodePairs(len.rest, len.value)

\* BoundedVec<(Data, Data), FieldLimit>::decode: the Vec, then its length
\* checked against the bound.
DecodeAdditional(bs) ==
  LET len == DecodeCompact(bs) IN
  IF ~len.ok THEN len ELSE
  LET v == DecodePairs(len.rest, len.value) IN
  IF ~v.ok THEN v
  ELSE IF Len(v.value) > MaxAdditionalFields THEN Fail("BoundedVec exceeds its limit")
  ELSE v

\* Option<[u8; 20]>::decode
DecodePgp(bs) ==
  IF bs = <<>> THEN Fail("InputTooShort")
  ELSE CASE bs[1] = 0 -> Ok(NoPgp, Tail(bs))
         [] bs[1] = 1 -> LET b == ReadBytes(Tail(bs), PgpBytes) IN
                         IF b.ok THEN Ok(SomePgp(b.value), b.rest) ELSE b
         [] OTHER -> Fail("unexpected first byte decoding Option")

DecodeField(i, bs) ==
  CASE Kind(i) = "Balance"    -> LET b == ReadBytes(bs, BalanceBytes) IN
                                 IF b.ok THEN Ok(FromLE(b.value), b.rest) ELSE b
    [] Kind(i) = "AccountId"  -> ReadBytes(bs, AccountBytes)
    [] Kind(i) = "Additional" -> DecodeAdditional(bs)
    [] Kind(i) = "Pgp"        -> DecodePgp(bs)
    [] Kind(i) = "Data"       -> DC!Decode(bs)

\* Fields i .. NumFields, in order, each from what the previous one left.
RECURSIVE DecodeFields(_, _)
DecodeFields(bs, i) ==
  IF i > NumFields THEN Ok(<<>>, bs)
  ELSE LET f == DecodeField(i, bs) IN
       IF ~f.ok THEN f ELSE
       LET more == DecodeFields(f.rest, i + 1) IN
       IF ~more.ok THEN more ELSE Ok(<<f.value>> \o more.value, more.rest)

\* The longest encoding a record can have: AppendZerosInput's zeros are
\* never needed beyond it.
MaxEncodedLen ==
  BalanceBytes + AccountBytes + 1 + MaxAdditionalFields * 2 * 33 + 8 * 33 + 1 + PgpBytes

\* Mutant: the record is decoded from the input as it is.
DecodeRegistrationPlain(bs) == DecodeFields(bs, 1)

\* impl Decode for RegistrationSel:
\* Decode::decode(&mut AppendZerosInput::new(input)).
DecodeRegistration(bs) == DecodeFields(bs \o [j \in 1 .. MaxEncodedLen |-> 0], 1)

(***************************************************************************)
(* Bounded inputs.  A record takes, in each field, either the value that  *)
(* field decodes to from zeros or a sample that does not (a digest in     *)
(* display, one byte of Raw in the other Data fields); it is stored under *)
(* every layout from no fields to all of them.  Arbitrary byte strings    *)
(* put every small length in front of the additional pairs.                *)
(***************************************************************************)
Sample(i) ==
  CASE Kind(i) = "Balance"    -> 258
    [] Kind(i) = "AccountId"  -> [j \in 1 .. AccountBytes |-> j]
    [] Kind(i) = "Additional" -> <<<<[kind |-> "None"], [kind |-> "Raw", bytes |-> <<5>>]>>>>
    [] Kind(i) = "Pgp"        -> SomePgp([j \in 1 .. PgpBytes |-> 9])
    [] Fields[i] = "display"  -> [kind |-> "Sha256", bytes |-> [j \in 1 .. 32 |-> 7]]
    [] OTHER                  -> [kind |-> "Raw", bytes |-> <<7>>]

Records == {[i \in 1 .. NumFields |-> IF i \in S THEN Sample(i) ELSE Default(i)] :
              S \in SUBSET (1 .. NumFields)}

\* The record as the current layout reads it: fields beyond the first k
\* take the values zeros decode to.
Upgrade(r, k) == [i \in 1 .. NumFields |-> IF i <= k THEN r[i] ELSE Default(i)]

LengthPosition == BalanceBytes + AccountBytes + 1
WireSamples ==
  {[j \in 1 .. LengthPosition |-> IF j = LengthPosition THEN 4 * n ELSE 0] :
     n \in 0 .. (MaxAdditionalFields + 1)}

VARIABLES
  record,  \* the record stored, or NoValue
  cut,     \* the number of fields of the layout it was stored under
  wire,    \* the stored bytes
  result,  \* what decode returned
  phase    \* "encode", "decode" or "done"

vars == <<record, cut, wire, result, phase>>

Init ==
  /\ result = Fail("none")
  /\ \/ /\ phase = "encode"
        /\ record \in Records
        /\ cut \in 0 .. NumFields
        /\ wire = <<>>
     \/ /\ phase = "decode"
        /\ record = NoValue
        /\ cut = NumFields
        /\ wire \in WireSamples

\* A record written under an older layout.
EncodeRecord ==
  /\ phase = "encode"
  /\ wire' = EncodeLayout(record, cut)
  /\ phase' = "decode"
  /\ UNCHANGED <<record, cut, result>>

\* The current runtime reads it back.
DecodeRecord ==
  /\ phase = "decode"
  /\ result' = DecodeRegistration(wire)
  /\ phase' = "done"
  /\ UNCHANGED <<record, cut, wire>>

\* Each codec call runs once and returns, so "done" states are final.
Next == EncodeRecord \/ DecodeRecord

Spec == Init /\ [][Next]_vars

(***************************************************************************)
(* Properties.                                                             *)
(***************************************************************************)

IsField(i, v) ==
  CASE Kind(i) = "Balance"    -> v \in 0 .. (256^BalanceBytes - 1)
    [] Kind(i) = "AccountId"  -> v \in [1 .. AccountBytes -> Byte]
    [] Kind(i) = "Additional" -> /\ Len(v) <= MaxAdditionalFields
                                 /\ \A j \in 1 .. Len(v) : DC!IsData(v[j][1]) /\ DC!IsData(v[j][2])
    [] Kind(i) = "Pgp"        -> v = NoPgp \/ (v.some /\ v.bytes \in [1 .. PgpBytes -> Byte])
    [] Kind(i) = "Data"       -> DC!IsData(v)

\* A decoded record has every field within its type, the additional
\* fields within FieldLimit included.
TypeOK ==
  /\ phase \in {"encode", "decode", "done"}
  /\ cut \in 0 .. NumFields
  /\ wire \in Seq(Byte)
  /\ result.ok =>
       /\ Len(result.value) = NumFields
       /\ \A i \in 1 .. NumFields : IsField(i, result.value[i])

\* RegistrationSel's decode is backwards compatible: a record stored under
\* any older layout -- any prefix of the field list -- decodes, keeps every
\* field it had, and reads every field added since as its zero value.
BackwardCompatible ==
  phase = "done" /\ record # NoValue =>
    result.ok /\ result.value = Upgrade(record, cut)

=============================================================================
