# TLA+ models of indra

This directory holds TLA+ models of the parts of the indra runtime that have
state or an algorithm worth checking, with TLC configurations for them.
`PROJECT.json` lists:
- every component;
- every run;
- the mutants that show each property can fail;
- the source lines each definition models;
- the findings;
- the hazards.

## The system and its parts

| Part | Source | What it does | Model |
|---|---|---|---|
| Subscription pallet | `src/pallets/subscription/src/lib.rs` | Publisher approval, service publishing with a reserved bond, paid subscriptions, renewals, unpublishing with a slash, events | `Subscription`, `MCSubscription`; abstract spec `Marketplace` |
| Its unit tests | `src/pallets/subscription/src/tests.rs` | Fifteen scripted scenarios on a mock runtime | `SubscriptionTests` |
| Identity `Data` codec | `src/pallets/identitysel/src/types.rs` 24-158 | Compact tagged encoding of identity fields | `DataCodec` |
| Identity field set | same file, 160-202 | `BitFlags<IdentityField>` encoded as a u64 | `IdentityFields` |
| Registration decode | same file, 204-317 | `RegistrationSel` layout, decoded padded with zeros | `RegistrationCodec` |
| EVM gas/weight mapping | both `evm_config.rs` | `gas_to_weight` (saturating u64 multiply), `weight_to_gas` (division) | `GasWeight` |
| Fee routing | `src/primitive/src/impls.rs` | `DealWithFees` merges the tip into the fee and credits the staking pot | `FeeRouting` |
| Node chain specs | `src/indra-parachain/node/src/chain_spec.rs` | The development, local-testnet and Indra genesis configurations and their `Extensions` | `ChainSpec` (composed into `FeeRouting`) |
| XCM config, RPC | `xcm_config.rs`, `rpc.rs` | Type-level configuration and node wiring | not modelled: no state changes of their own |

The subscription pallet calls the balances ledger in three places:
- `reserve` in `publish_service`;
- `transfer` with `KeepAlive` in `subscribe_service`;
- `slash_reserved` in `unpublish_service`.

These calls are modelled inside `Subscription`, at the lines that make them.
Fee routing interacts with the same ledger through `resolve_creating`, which
`FeeRouting` models at its call site. The other components are pure functions
that the runtime uses. Each of them is a module whose machine takes one input
through the function and stops.

## Subscription (`Subscription.tla`)

The variables are the five storage items:
- `ApprovedPublisher` (`approvedPublisher`);
- `ServiceCount` (`serviceCount`);
- `Services` (`services`);
- the keys of `ServiceDescriptions` (`descriptions`);
- `Subscriptions` (`subscriptions`).

Alongside them are:
- the ledger's `free`, `reserved` and slashed total;
- the block number `now`;
- `observed`, the view a client builds by folding the deposited events.

The host applies one extrinsic at a time and rolls back a call that returns
an error. Each dispatchable is therefore one atomic action. The action for
`xxx_service` is enabled when `XxxServiceError` gives `"Ok"`. That operator
lists the handler's checks in the code's order. A failed call is a
stuttering step. The `Panic` outcome of `publish_service` also leaves the
state unchanged. Two things cause it:
- `service_id + 1` overflowing with overflow checks on;
- `MaximumContractLength` below 21.

Names and descriptions are abstracted to their lengths, which is all the
pallet reads of them. `ServiceIndex` is a word of `IndexWidth` bits. With
`OverflowChecks` TRUE the increment panics at the maximum. With it FALSE the
index wraps, as in a build without overflow checks.

**Fairness:** none. Every action is an extrinsic that a user may or may not
submit, so no liveness property is claimed. The pallet never deactivates a
subscription once its `expire_on` has passed, so no "eventually" about terms
would hold even under fair block production. In the replay of the unit
tests, a test can only stop early on a call whose error check fails, and
`TestsPass` already catches that. A termination property would add nothing.

### Runs

- **core** (`MCSubscription.cfg`, pass). The bounds are:
  - two symmetric accounts;
  - root as the approve and force origin;
  - one cost;
  - non-periodic services;
  - 2-bit indices;
  - one block.

  It checks:
  - `ReservedMatchesBonds`: reserved balances equal the bonds of published
    services, across revoke, re-approve, publish and unpublish;
  - `ServiceIndexFresh`: services are stored exactly at the indices below
    `ServiceCount`;
  - `EventsReflectStorage`: the events tell a client exactly the approvals,
    the published services and the active subscriptions;
  - `PaidSubscription`: every activation of a subscription is paid for,
    including a re-subscription;
  - `Refinement`: the pallet implements `Marketplace` (see below).
- **renew** (`MCSubscriptionRenew.cfg`, pass). The bounds are:
  - costs 0 and 1;
  - periods 0 and 1 and no period (`publish_service` accepts `Some(0)`, and
    a subscription to such a service expires in the block it starts);
  - 1-bit indices;
  - three blocks;
  - balances of 3.

  It checks:
  - `NoChargeWhileActive`: an active subscription is never charged again;
  - `UnpublishedFreezesAccess`: once a service is unpublished, no call
    changes whether any of its subscriptions is active.
    `unsubscribe_service` refuses an unpublished service (lib.rs:384).
    `renew_subscription` checks no status (lib.rs:408). So a subscription
    that was active at the takedown stays active for good, and it can still
    be renewed free of charge. The spec allows this. The property pins it
    down so that a change to either check shows up.
- **term** (violation of `TermMatchesPeriod`). The spec says a renewal
  starts a new term. The code at lib.rs:420 moves only `expire_on`.
- **wrap** (violation of `ServiceCountMonotonic`). With overflow checks off,
  the counter wraps and service 0 is overwritten (lib.rs:316). The old
  service's subscriptions then point at the new service.
- **max_publishing** (violation of `PublishingBounded`). `Config::MaxPublishing`
  is documented as the most services a publisher may publish. The mock sets
  it to 2, but `publish_service` never reads it.

The bounds are small because each extra account, cost or block multiplies
the state space. They are still large enough that:
- an account can be approved, revoked and re-approved;
- the counter reaches its limit;
- a subscriber can subscribe, unsubscribe, re-subscribe and renew across
  blocks.

The core run reaches about 300,000 states in under a minute.

## The abstract marketplace (`Marketplace.tla`)

`Marketplace` states what the pallet promises without saying how:
- a registry of publishers (requested, approved, revoked);
- a listing of services under indices that are never reused;
- the set of `<<index, account>>` pairs with access;
- each account's total holding, and the total forfeited.

Its actions are `Request`, `Approve`, `Revoke`, `List`, `Delist`, `Grant`
and `Withdraw`. `List` needs an approved publisher and a fresh index, and
sets aside a bond no larger than the holding. `Grant` moves exactly the
cost from the subscriber's holding to the publisher's. `Delist` forfeits
exactly the bond. Nothing else moves a holding.

`Subscription` maps onto it (`Abstract == INSTANCE Marketplace WITH ...`):
- `listing` is each service record without its period;
- `access` is the set of active subscriptions;
- a holding is `free + reserved`;
- `forfeited` is the slashed total.

A renewal and a new block map to stuttering steps, since `renew_subscription`
moves no money. The core run checks `Refinement == Abstract!Spec` as a
PROPERTY. The mutant that unreserves the bond in `unpublish_service`
instead of slashing it breaks it.

## Unit tests replayed (`SubscriptionTests.tla`)

Each test of `tests.rs` is written as a sequence of steps:
- `new_test_ext`, which sets the genesis balances at block 0;
- `set_block_number`;
- `assert_ok!(call)`;
- `assert_noop!(call, error)`;
- `assert_eq!` on a storage getter or a balance.

The **tests** run (`MCSubscriptionTests.cfg`) uses the mock's configuration:
- accounts 0-4 with balances 100, 100, 10, 10, 2;
- `BaseDeposit` 10 and `DataDepositPerByte` 1;
- name and description limits of 10;
- `EnsureRoot` origins.

It replays every test through the `Subscription` actions. `TestsPass` says
that each step meets its expectation in the state the earlier steps left. A
call the test expects to succeed gives `Ok`. A call it expects to fail
returns the error the test names. Every read holds. This ties the model's
error order and arithmetic to the behaviour the code's own tests fix.

## Identity codecs

**`DataCodec.tla`**

`Encode` and `Decode` translate the `Encode` and `Decode` impls of `Data`.
`PayloadLength` is the tag table that the `TypeInfo` impl declares. The
machine either encodes a value and decodes the result, or decodes an
arbitrary byte string. The inputs are:
- every leading byte, followed by one byte too few, exactly enough or one
  too many for its tag;
- every Raw payload of up to two bytes over two byte values;
- runs of up to 32 bytes.

The **codec** run checks:
- `RoundTrip`: decode(encode(v)) = v, with the declared length;
- `Canonical`: whatever decode accepts is the encoding of what it returns,
  so unknown tags and short inputs are refused;
- `ManualDataTypeInfo`: the hand-written `TypeInfo` table
  (`TypeInfoVariants`) declares exactly one variant under each value's name.
  Its index is the tag that encode writes, and its field length is the
  payload's. This is the test `manual_data_type_info`, taken over every
  value and not only the zeroed ones.

**`IdentityFields.tla`**

This module models the bitflag set and its u64 codec. `from_bits` refuses
unknown bits. The word is scaled to 3 bytes. The flags sit in the low byte,
so the bytes above it carry only unknown bits, as in the code. The inputs
are every set of fields, plus byte strings of 2-4 bytes over {0, 1, 128,
255}.

The **identity_fields** run checks:
- `RoundTrip`;
- `Canonical`: a stored word with an unknown bit is refused, never read as a
  smaller set.

**`RegistrationCodec.tla`**

This module models the derived layout of `RegistrationSel`, which is its
twelve fields in declaration order. Decode first appends
`MaxEncodedLen` zeros to the input. The **registration** run encodes every
record under every older layout, where the trailing fields are missing. Its
bounds are:
- 2-byte balances, accounts and fingerprints;
- at most one additional field.

It checks `BackwardCompatible`: every layout decodes to the record with the
missing fields at their defaults.

## Gas and weight (`GasWeight.tla`)

Gas and Weight are u64. The model uses an 8-bit word, and treats u32::MAX
as the half-width all-ones word. The constants are:
- `WEIGHT_PER_SECOND` 130;
- `GAS_PER_SECOND` 40.

These give `WEIGHT_PER_GAS` = 3, so the division truncates and
`gas_to_weight` saturates within the inputs. The **gas** run covers every
pair of words and checks:
- `GasToWeightMonotone`: the conversion never wraps;
- `GrantedGasFitsWeight`: converting the granted gas back never exceeds the
  weight;
- `GasRoundTrip`: gas survives the round trip below saturation, and above
  it comes back as the most gas a u64 weight pays for.

There is no type invariant: both conversions return u64 by their Rust
types, so no change to the code could put a result out of range.
`BlockGasLimit` is not modelled. It divides constants, and with the real
values (10^12 / (4 * 10^7) = 25 000, and the normal budget divided by that)
the division is exact, so its rounding cannot matter.

## Chain specs (`ChainSpec.tla`)

`development_config`, `local_testnet_config` and `indra_config` each become
the record that `testnet_genesis` builds from their arguments:
- endowed balances;
- parachain id;
- invulnerables and candidacy bond;
- session keys;
- sudo key.

Each record also carries its `Extensions`. A seed key is `<<"seed", name>>`
and a hex key is `<<"hex", digits>>`. An sr25519 public key serves as both
the account and the Aura key, so the two are the same value.
`indra_tesnet_config` loads a JSON file that is not in the repository and
is left out. So are the WASM code, the token properties, bootnodes and
telemetry.

`GenesisBuilds` collects what building a genesis requires:
- the asserts of the genesis builders of `pallet_balances` (no duplicate
  account, balances at least ED), `collator_selection` (no duplicate
  invulnerable) and `pallet_session` (a non-empty validator set with
  distinct keys);
- a sudo key that is endowed;
- the runtime's parachain id equal to `Extensions::para_id`.

## Fee routing (`FeeRouting.tla`)

The staking pot's balance is modelled, with the existential-deposit rule of
`deposit_creating`. The chain starts from one of the three chain specs
(`chainSpec`), and the pot's first balance is its endowment there, which is
none in all three. The **fees** run uses:
- ED 2 and an endowment of 5;
- amounts 0-2;
- four payments.

It checks:
- `GenesisSound`: every chain spec builds (`GenesisBuilds`). The mutant
  that gives both local collators Alice's Aura key breaks it;
- `ChargeReachesPot`: once the pot exists, the fee plus the tip is credited
  in full.

The **fees_event** run violates `DepositEventMatchesCredit`. While the pot
does not exist, a fee below ED is burned, yet `ToStakingPot` still emits
`Deposit` for it (impls.rs:48).

The chain specs are those of the `indra-parachain` node, whose runtime sets
`OnChargeTransaction = ()`. The fee handler is wired to `ToStakingPot` only
in the indranet runtime (`evm_config.rs:141`), and no file under `src/`
wires `DealWithFees`. The composition therefore takes the parachain's
genesis as a representative one. What it relies on is that no spec endows
the pot, and that holds for every spec in the repository.

## Not modelled

- **`xcm_config.rs`.** It is a list of type aliases and `parameter_types!`
  that choose `xcm_builder` and `xcm_executor` components (barriers,
  traders, location converters). Their behaviour is in those crates, not
  here, so a model would be a model of code outside the repository.
- **`rpc.rs`.** It registers JSON-RPC handlers built from a client and a
  pool, and changes no state of its own.
- **The remaining code of the two `evm_config.rs` files.** It is `impl
  Config` blocks and constants. `FixedGasPrice` returns a constant, and
  `BaseFeeThreshold` returns three constants. `FindAuthorTruncated` indexes
  Aura's authority list with the index `pallet_aura` computes (slot modulo
  length) and takes bytes 4..24 of the key. What could go wrong there (an
  empty authority list, colliding truncated keys) depends on `pallet_aura`
  and on key bytes, neither of which is in this repository.
- **`AssetsToBlockAuthor`, `NonZeroIssuance` and `AssetsFrom` in
  `impls.rs`.** No code under `src/` refers to them. They are a
  drop-on-failure transfer and two filters whose logic lives in
  `pallet_assets` and `xcm`.
- **`indra_tesnet_config` in `chain_spec.rs`.** It loads a JSON file that
  is not in the repository.
- **Liveness.** There is none. Every pallet action is a user's extrinsic.
  The pallet never ends a term on its own, so no eventuality about terms
  holds. In the test replay, termination is implied by `TestsPass`.

## Plan for further work

1. Model the periodic subscription lifecycle with more blocks, using a
   constraint on `now`.
2. Extend `FeeRouting` with the payers' balances, so that total issuance
   (payers, pot and burned) is checked to be conserved across `DealWithFees`.
