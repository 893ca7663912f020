----------------------------- MODULE FeeRouting -----------------------------
(***************************************************************************)
(* Fee routing of src/primitive/src/impls.rs: DealWithFees merges the tip *)
(* into the fee and hands the sum to ToStakingPot, which resolves it into *)
(* the collator staking pot and emits a balances Deposit event.            *)
(*                                                                         *)
(* The balances ledger is modelled at the call site: resolve_creating     *)
(* deposits the whole amount with deposit_creating, which refuses to      *)
(* create an account with less than the existential deposit; what it      *)
(* refuses is dropped, i.e. burned.                                        *)
(***************************************************************************)
EXTENDS Naturals

CONSTANTS
  ExistentialDeposit, \* pallet_balances ExistentialDeposit
  Endowment,          \* testnet_genesis's ENDOWMENT, scaled
  PotAccount,         \* collator_selection's account_id(), the staking pot
  Amounts,            \* fee and tip amounts a payer may be charged
  MaxCalls,           \* bound on the number of fee payments
  NoEvent             \* no Deposit event emitted by the last step

ASSUME ExistentialDeposit \in Nat \ {0}
ASSUME Endowment >= ExistentialDeposit

\* The node's chain specs, whose genesis gives the pot its first balance.
CS == INSTANCE ChainSpec
ASSUME Amounts \subseteq Nat /\ MaxCalls \in Nat

VARIABLES
  chainSpec, \* the chain spec the chain was started from
  pot,     \* free balance of the staking pot account (0: does not exist)
  burned,  \* total of imbalances dropped rather than deposited
  event,   \* amount of the Deposit event of the last step, or NoEvent
  charged, \* amount withdrawn from the payer in the last step
  calls    \* fee payments so far

vars == <<chainSpec, pot, burned, event, charged, calls>>

\* Mutant: deposit_creating without the existential-deposit check.
ResolveCreatingDust(amount) ==
  /\ pot' = pot + amount
  /\ UNCHANGED burned

\* Currency::resolve_creating(who, imbalance): deposit_creating credits the
\* pot unless the pot does not exist and the amount is below the
\* existential deposit; the imbalance left over is dropped.
ResolveCreating(amount) ==
  IF pot = 0 /\ amount < ExistentialDeposit
  THEN /\ burned' = burned + amount
       /\ UNCHANGED pot
  ELSE /\ pot' = pot + amount
       /\ UNCHANGED burned

\* ToStakingPot::on_nonzero_unbalanced: the amount is read before it is
\* resolved, and the event reports that amount whatever was deposited.
OnNonzeroUnbalanced(amount) ==
  /\ ResolveCreating(amount)
  /\ event' = amount

\* OnUnbalanced::on_unbalanced: a zero imbalance is dropped silently.
OnUnbalanced(amount) ==
  IF amount = 0 THEN UNCHANGED <<pot, burned>> /\ event' = NoEvent
  ELSE OnNonzeroUnbalanced(amount)

\* Mutant: the tip is never merged into the fee.
DealWithFeesDropsTip(fee, tip) == OnUnbalanced(fee)

\* DealWithFees::on_unbalanceds over the transaction-payment iterator,
\* which yields the fee and then the tip: tips.merge_into(&mut fees).
DealWithFees(fee, tip) == OnUnbalanced(fee + tip)

\* A signed transaction pays its fee and tip through DealWithFees.
PayTransactionFee ==
  /\ calls < MaxCalls
  /\ \E fee, tip \in Amounts : DealWithFees(fee, tip) /\ charged' = fee + tip
  /\ calls' = calls + 1
  /\ UNCHANGED chainSpec

\* An EVM or custom-signature call pays through ToStakingPot directly.
PayToStakingPot ==
  /\ calls < MaxCalls
  /\ \E amount \in Amounts : OnUnbalanced(amount) /\ charged' = amount
  /\ calls' = calls + 1
  /\ UNCHANGED chainSpec

Init ==
  /\ chainSpec \in CS!ChainSpecs
  /\ pot = CS!GenesisBalance(chainSpec.genesis, PotAccount)
  /\ burned = 0
  /\ event = NoEvent
  /\ charged = 0
  /\ calls = 0

Next == PayTransactionFee \/ PayToStakingPot

Spec == Init /\ [][Next]_vars

(***************************************************************************)
(* Properties.                                                             *)
(***************************************************************************)

\* The pot is either absent or holds at least the existential deposit.
TypeOK ==
  /\ pot \in Nat /\ (pot = 0 \/ pot >= ExistentialDeposit)
  /\ burned \in Nat
  /\ event \in Nat \cup {NoEvent}
  /\ charged \in Nat
  /\ calls \in 0 .. MaxCalls
  /\ chainSpec \in CS!ChainSpecs

\* The chain spec the chain starts from builds: no duplicate endowed
\* account or invulnerable, endowments above the existential deposit,
\* distinct session keys for a non-empty collator set, a funded sudo key,
\* and the runtime's parachain id equal to the one the collator announces.
GenesisSound == CS!GenesisBuilds(chainSpec)

\* ToStakingPot: every Deposit event it emits is matched, in the same
\* step, by an increase of the pot's balance of exactly that amount.
DepositEventMatchesCredit ==
  [][event' # NoEvent => pot' = pot + event']_vars

\* DealWithFees and ToStakingPot: once the pot exists, everything a payer
\* is charged -- fee and tip together -- is credited to it in full and
\* nothing is burned.
ChargeReachesPot ==
  [][calls' # calls /\ pot > 0 => pot' = pot + charged' /\ burned' = burned]_vars

=============================================================================
