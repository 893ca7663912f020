--------------------------- MODULE IdentityFields ---------------------------
(***************************************************************************)
(* The codec of IdentityFields (src/pallets/identitysel/src/types.rs):    *)
(* a BitFlags<IdentityField> set, encoded as the u64 of its bits (SCALE: *)
(* eight bytes, little endian) and decoded with BitFlags::from_bits, which *)
(* refuses any bit that is not one of the eight IdentityField flags.       *)
(* The u64 is WordBytes bytes wide here (TLC's integers are 32-bit); the  *)
(* flags sit in the low byte, and the bytes above it carry only bits no   *)
(* flag has, as in the code.                                               *)
(***************************************************************************)
EXTENDS Integers, Sequences, FiniteSets, FiniteSetsExt, Bitwise

CONSTANTS
  WordBytes,   \* bytes of the u64 word (8 in the code)
  SampleBytes, \* byte values the decoded byte strings are built from
  NoValue      \* marks "no field set given"

ASSUME WordBytes \in 2 .. 3 /\ SampleBytes \subseteq 0 .. 255

Byte == 0 .. 255

\* enum IdentityField, #[repr(u64)]: the discriminant of each variant is
\* one bit.  A BitFlags<IdentityField> is a set of these discriminants.
IdentityField ==
  [Display |-> 2^0, Legal |-> 2^1, Web |-> 2^2, Riot |-> 2^3, Email |-> 2^4,
   PgpFingerprint |-> 2^5, Image |-> 2^6, Twitter |-> 2^7]

Flags == {IdentityField[f] : f \in DOMAIN IdentityField}

\* BitFlags::bits: the sum (or) of the discriminants in the set.
Bits(S) == MapThenSumSet(LAMBDA b : b, S)

AllBits == Bits(Flags)

\* Mutant: the word is written most significant byte first.
EncodeU64BigEndian(x) == [i \in 1 .. WordBytes |-> (x \div 256^(WordBytes - i)) % 256]

\* u64::encode: WordBytes bytes, least significant first.
EncodeU64(x) == [i \in 1 .. WordBytes |-> (x \div 256^(i - 1)) % 256]

\* impl Encode for IdentityFields: self.0.bits().using_encoded(f)
Encode(S) == EncodeU64(Bits(S))

Decoded(v, rest) == [ok |-> TRUE, value |-> v, rest |-> rest]
DecodeFailed(e) == [ok |-> FALSE, error |-> e]

\* u64::decode: the first WordBytes bytes, little endian, value and rest.
DecodeU64(bs) ==
  IF Len(bs) < WordBytes THEN DecodeFailed("InputTooShort")
  ELSE Decoded(MapThenSumSet(LAMBDA i : bs[i] * 256^(i - 1), 1 .. WordBytes),
               SubSeq(bs, WordBytes + 1, Len(bs)))

\* Mutant: every set bit of the word is taken as a flag, known or not.
FromBitsUnchecked(x) ==
  [ok |-> TRUE, value |-> {2^p : p \in {q \in 0 .. (8 * WordBytes - 1) : (x \div 2^q) % 2 = 1}}]

\* Mutant: from_bits_truncate, which drops unknown bits instead of failing.
FromBitsTruncate(x) ==
  [ok |-> TRUE, value |-> {b \in Flags : (x & b) # 0}]

\* BitFlags::<IdentityField>::from_bits: Err if x has a bit outside the
\* flags, else the set of flags whose bit is set.
FromBits(x) ==
  IF (x & AllBits) # x THEN [ok |-> FALSE, error |-> "invalid value"]
  ELSE [ok |-> TRUE, value |-> {b \in Flags : (x & b) # 0}]

\* impl Decode for IdentityFields
Decode(bs) ==
  LET w == DecodeU64(bs) IN
  IF ~w.ok THEN w
  ELSE LET s == FromBits(w.value) IN
       IF s.ok THEN Decoded(s.value, w.rest) ELSE DecodeFailed(s.error)

(***************************************************************************)
(* Bounded inputs: every field set, and byte strings one byte shorter    *)
(* than the word, as long as it, and one byte longer, over SampleBytes.   *)
(***************************************************************************)
WireSamples == UNION {[1 .. n -> SampleBytes] : n \in (WordBytes - 1) .. (WordBytes + 1)}

VARIABLES
  value,   \* the field set handed to encode, or NoValue
  wire,    \* the byte string handed to decode
  result,  \* what decode returned
  phase    \* "encode", "decode" or "done"

vars == <<value, wire, result, phase>>

Init ==
  /\ result = DecodeFailed("none")
  /\ \/ /\ phase = "encode"
        /\ value \in SUBSET Flags
        /\ wire = <<>>
     \/ /\ phase = "decode"
        /\ value = NoValue
        /\ wire \in WireSamples

EncodeFields ==
  /\ phase = "encode"
  /\ wire' = Encode(value)
  /\ phase' = "decode"
  /\ UNCHANGED <<value, result>>

DecodeFields ==
  /\ phase = "decode"
  /\ result' = Decode(wire)
  /\ phase' = "done"
  /\ UNCHANGED <<value, wire>>

\* Each codec call runs once and returns, so "done" states are final.
Next == EncodeFields \/ DecodeFields

Spec == Init /\ [][Next]_vars

(***************************************************************************)
(* Properties.                                                             *)
(***************************************************************************)

TypeOK ==
  /\ phase \in {"encode", "decode", "done"}
  /\ value \in SUBSET Flags \cup {NoValue}
  /\ wire \in Seq(Byte)
  /\ result.ok \in BOOLEAN
  /\ result.ok => result.value \subseteq Flags /\ result.rest \in Seq(Byte)

\* Every set of identity fields survives encode then decode, as exactly
\* the word's bytes MaxEncodedLen (u64::max_encoded_len) allows.
RoundTrip ==
  phase = "done" /\ value # NoValue =>
    /\ result = Decoded(value, <<>>)
    /\ Len(wire) = WordBytes

\* decode accepts a word only if it is the encoding of the set it returns:
\* a stored word with a bit no IdentityField has is refused, never read
\* as a smaller set.
Canonical ==
  phase = "done" /\ result.ok => Encode(result.value) \o result.rest = wire

=============================================================================
