------------------------------ MODULE GasWeight ------------------------------
(***************************************************************************)
(* The EVM gas/weight conversion of both runtimes                          *)
(* (src/runtime/indranet/src/configurations/evm_config.rs, GasWeightMapping *)
(* and src/indra-parachain/runtime/src/evm_config.rs,                     *)
(* SelendraGasWeightMapping; the two impls are identical).                *)
(*                                                                         *)
(* Gas and Weight are u64.  The words here are WordBits wide, and u32::MAX *)
(* is the all-ones word of half that width, so that saturation and the    *)
(* u32 fallback sit inside the bounded inputs.                             *)
(***************************************************************************)
EXTENDS Integers

CONSTANTS
  WordBits,         \* width of u64 (scaled)
  WeightPerSecond,  \* WEIGHT_PER_SECOND (scaled)
  GasPerSecond,     \* GAS_PER_SECOND (scaled)
  NoValue           \* an output not computed yet

ASSUME WordBits \in Nat /\ WordBits >= 2 /\ WordBits % 2 = 0
ASSUME GasPerSecond \in Nat \ {0} /\ WeightPerSecond >= GasPerSecond

Word == 0 .. (2^WordBits - 1)
U64Max == 2^WordBits - 1
U32Max == 2^(WordBits \div 2) - 1


\* WEIGHT_PER_GAS = WEIGHT_PER_SECOND / GAS_PER_SECOND (u64 division).
WEIGHT_PER_GAS == WeightPerSecond \div GasPerSecond

\* u64::saturating_mul
SaturatingMul(a, b) == IF a * b > U64Max THEN U64Max ELSE a * b

\* Mutant: gas_to_weight written with a plain (wrapping) multiplication.
GasToWeightWrapping(gas) == (gas * WEIGHT_PER_GAS) % (2^WordBits)

\* fn gas_to_weight(gas: u64) -> Weight
GasToWeight(gas) == SaturatingMul(gas, WEIGHT_PER_GAS)

\* Mutant: the quotient is converted to u32 instead of u64, so the
\* `unwrap_or(u32::MAX)` fallback is taken for large weights.
WeightToGasU32(weight) ==
  LET q == weight \div WEIGHT_PER_GAS IN IF q <= U32Max THEN q ELSE U32Max

\* Mutant: the division rounds up, granting gas for a partial unit of
\* weight.
WeightToGasCeil(weight) == (weight + WEIGHT_PER_GAS - 1) \div WEIGHT_PER_GAS

\* fn weight_to_gas(weight: Weight) -> u64:
\* u64::try_from(weight.wrapping_div(WEIGHT_PER_GAS)).unwrap_or(u32::MAX).
\* Weight is u64, so the quotient always fits and the fallback is dead.
WeightToGas(weight) ==
  LET q == weight \div WEIGHT_PER_GAS IN IF q <= U64Max THEN q ELSE U32Max

(***************************************************************************)
(* A caller of the mapping: pallet_evm turns a gas amount into the weight *)
(* it charges and a weight budget into the gas it grants.                 *)
(***************************************************************************)
VARIABLES
  gas,        \* the gas amount converted
  weight,     \* the weight amount converted
  weightOut,  \* gas_to_weight(gas)
  gasOut      \* weight_to_gas(weight)

vars == <<gas, weight, weightOut, gasOut>>

Init ==
  /\ gas \in Word
  /\ weight \in Word
  /\ weightOut = NoValue
  /\ gasOut = NoValue

Convert ==
  /\ weightOut = NoValue
  /\ weightOut' = GasToWeight(gas)
  /\ gasOut' = WeightToGas(weight)
  /\ UNCHANGED <<gas, weight>>

\* One conversion per input pair; the states after it are final.
Next == Convert

Spec == Init /\ [][Next]_vars

(***************************************************************************)
(* Properties.                                                             *)
(***************************************************************************)

\* gas_to_weight never wraps: more gas never costs less weight, which is
\* what saturating_mul buys over a plain multiplication.
GasToWeightMonotone ==
  weightOut # NoValue /\ gas < U64Max =>
    weightOut <= GasToWeight(gas + 1)

\* weight_to_gas grants no more gas than the weight pays for: converting
\* the granted gas back costs at most the weight given, for every weight.
GrantedGasFitsWeight ==
  gasOut # NoValue => GasToWeight(gasOut) <= weight

\* A gas amount the u64 weight can represent survives gas_to_weight then
\* weight_to_gas unchanged; a larger one comes back as the most gas a
\* u64 weight can pay for, never as the u32 fallback.
GasRoundTrip ==
  weightOut # NoValue =>
    WeightToGas(weightOut) = IF gas <= U64Max \div WEIGHT_PER_GAS
                             THEN gas ELSE U64Max \div WEIGHT_PER_GAS

=============================================================================
