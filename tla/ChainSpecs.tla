----------------------------- MODULE ChainSpecs -----------------------------
(***************************************************************************)
(* What a node is told about its chain: the specifications behind --chain  *)
(* (command.rs load_spec, chain_spec.rs) and the genesis states that the   *)
(* runtime builds for them (genesis_config_presets.rs).  Amounts are in    *)
(* existential deposits, the seed of a well-known account is its name, and *)
(* its session key goes by the same name.                                  *)
(*                                                                         *)
(* An uncommented definition just above an operator is that operator with  *)
(* a plausible mistake in it; no specification uses it.                    *)
(***************************************************************************)
EXTENDS Naturals, Sequences

CONSTANTS
    Files,    \* specification files: a function from paths to what they hold
    NoSpec,   \* load_spec fails: there is no such file, or it does not parse
    NoPreset  \* get_preset returns None

Seeds == {"Alice", "Bob", "Charlie", "Dave", "Eve", "Ferdie"}
Stashes == {"Alice//stash", "Bob//stash", "Charlie//stash", "Dave//stash",
            "Eve//stash", "Ferdie//stash"}

template_session_keys(key) == [aura |-> key]

\* `invulnerables` is a sequence of accounts; 1 << 60 is this many deposits.
testnet_genesis(invulnerables, endowed, root, id) ==
    [balances       |-> [a \in endowed |-> 1152921504],
     parachain_id   |-> id,
     invulnerables  |-> invulnerables,
     candidacy_bond |-> 16,
     session        |-> [i \in DOMAIN invulnerables |->
                            template_session_keys(invulnerables[i])],
     root           |-> root]

local_testnet_genesis ==
    testnet_genesis(<<"Alice", "Bob">>, Seeds \cup Stashes, "Alice", 1000)

development_config_genesis ==
    testnet_genesis(<<"Alice", "Bob">>, Seeds \cup Stashes, "Alice", 1000)

preset_names == {"development", "local_testnet"}

get_preset(name) ==
    CASE name = "local_testnet" -> local_testnet_genesis
      [] name = "development"   -> development_config_genesis
      [] OTHER                  -> NoPreset

\* The extensions (relay_chain, para_id) stand beside the genesis: nothing
\* makes the two para ids equal.
development_config ==
    [id |-> "dev", relay_chain |-> "rococo-local", para_id |-> 1000,
     preset |-> "development"]

LocalTestnetOfAnotherPara ==
    [id |-> "local_testnet", relay_chain |-> "rococo-local", para_id |-> 2000,
     preset |-> "local_testnet"]

local_testnet_config ==
    [id |-> "local_testnet", relay_chain |-> "rococo-local", para_id |-> 1000,
     preset |-> "local_testnet"]

load_spec(id) ==
    CASE id = "dev"                              -> development_config
      [] id \in {"template-rococo", "", "local"} -> local_testnet_config
      [] id \in DOMAIN Files                     -> Files[id]
      [] OTHER                                   -> NoSpec
=============================================================================
