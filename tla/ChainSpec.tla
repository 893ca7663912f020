------------------------------ MODULE ChainSpec ------------------------------
(***************************************************************************)
(* The genesis configurations of the parachain node                       *)
(* (src/indra-parachain/node/src/chain_spec.rs): development_config,       *)
(* local_testnet_config and indra_config each call testnet_genesis with   *)
(* their collators, endowed accounts, sudo key and parachain id, and each *)
(* carries an Extensions record naming the relay chain and para id.       *)
(*                                                                         *)
(* A key derived from a seed ("//Alice") is the pair <<"seed", name>>; a  *)
(* key given in hex is <<"hex", first eight digits>>.  An sr25519 public  *)
(* key is used unchanged as AccountId and as AuraId, so the account and   *)
(* the Aura key of one seed are the same value.  The WASM code, token     *)
(* properties, bootnodes and telemetry are left out.                      *)
(***************************************************************************)
EXTENDS Naturals, Sequences, Functions

CONSTANTS
  Endowment,          \* ENDOWMENT = 250000 * UNITS, scaled
  ExistentialDeposit  \* pallet_balances ExistentialDeposit, scaled

\* get_public_from_seed / get_account_id_from_seed / get_collator_keys_from_seed
Seed(name) == <<"seed", name>>
Hex(digits) == <<"hex", digits>>

\* testnet_genesis(invulnerables, endowed_accounts, root_key, id): the
\* balances, parachain_info, collator_selection, session and sudo parts.
TestnetGenesis(invulnerables, endowed, root, id) ==
  [balances       |-> [i \in DOMAIN endowed |-> <<endowed[i], Endowment>>],
   parachain_id   |-> id,
   invulnerables  |-> [i \in DOMAIN invulnerables |-> invulnerables[i][1]],
   candidacy_bond |-> ExistentialDeposit * 16,
   session_keys   |-> [i \in DOMAIN invulnerables |->
                         <<invulnerables[i][1], invulnerables[i][1], invulnerables[i][2]>>],
   sudo           |-> root]

\* A chain spec: its genesis and its Extensions.
ChainSpecOf(genesis, relay, paraId) ==
  [genesis |-> genesis, relay_chain |-> relay, para_id |-> paraId]

DevelopmentConfig ==
  ChainSpecOf(
    TestnetGenesis(
      << <<Seed("Alice"), Seed("Alice")>>, <<Seed("Bob"), Seed("Bob")>> >>,
      << Seed("Alice"), Seed("Bob"), Seed("Dave"), Seed("Eve"), Seed("Ferdie"),
         Seed("Alice//stash"), Seed("Bob//stash"), Seed("Charlie//stash"),
         Seed("Dave//stash"), Seed("Eve//stash"), Seed("Ferdie//stash") >>,
      Seed("Alice"), 1000),
    "selendra-dev", 1000)

\* Mutant: both local collators are given Alice's Aura key.
LocalTestnetConfigSharedKey ==
  ChainSpecOf(
    TestnetGenesis(
      << <<Seed("Dave"), Seed("Alice")>>, <<Seed("Charlie"), Seed("Alice")>> >>,
      << Seed("Alice"), Seed("Bob"), Seed("Alice//stash"), Seed("Bob//stash") >>,
      Seed("Alice"), 1000),
    "selendra-local", 1000)

\* The collator accounts are Dave and Charlie; their Aura keys are Alice's
\* and Bob's.
LocalTestnetConfig ==
  ChainSpecOf(
    TestnetGenesis(
      << <<Seed("Dave"), Seed("Alice")>>, <<Seed("Charlie"), Seed("Bob")>> >>,
      << Seed("Alice"), Seed("Bob"), Seed("Alice//stash"), Seed("Bob//stash") >>,
      Seed("Alice"), 1000),
    "selendra-local", 1000)

IndraConfig ==
  ChainSpecOf(
    TestnetGenesis(
      << <<Hex("66006c1c"), Hex("66006c1c")>>, <<Hex("dca5d29a"), Hex("dca5d29a")>>,
         <<Hex("3c7bb743"), Hex("3c7bb743")>> >>,
      << Hex("9065517c"), Hex("cc4f1627"), Hex("fe99233e"), Hex("bc061a86") >>,
      Hex("9065517c"), 1000),
    "selendra-testnet", 1000)

ChainSpecs == {DevelopmentConfig, LocalTestnetConfig, IndraConfig}

\* The free balance an account starts with.
GenesisBalance(g, who) ==
  IF \E i \in DOMAIN g.balances : g.balances[i][1] = who
  THEN LET i == CHOOSE j \in DOMAIN g.balances : g.balances[j][1] = who
       IN  g.balances[i][2]
  ELSE 0

EndowedAccounts(g) == {g.balances[i][1] : i \in DOMAIN g.balances}

AuraKeys(g) == [i \in DOMAIN g.session_keys |-> g.session_keys[i][3]]

\* What building the genesis of a chain spec requires of it: the asserts of
\* the genesis builders of pallet_balances (no account twice, every balance
\* at least the existential deposit), collator_selection (no invulnerable
\* twice) and pallet_session (a non-empty validator set whose keys are
\* pairwise distinct); a sudo key that can pay for its first call; and a
\* parachain id in the runtime equal to the one the collator registers
\* with (Extensions::para_id).
GenesisBuilds(cs) ==
  LET g == cs.genesis IN
  /\ IsInjective([i \in DOMAIN g.balances |-> g.balances[i][1]])
  /\ \A i \in DOMAIN g.balances : g.balances[i][2] >= ExistentialDeposit
  /\ IsInjective(g.invulnerables)
  /\ g.session_keys # <<>>
  /\ IsInjective(AuraKeys(g))
  /\ g.sudo \in EndowedAccounts(g)
  /\ g.parachain_id = cs.para_id

=============================================================================
