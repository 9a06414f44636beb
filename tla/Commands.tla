------------------------------ MODULE Commands ------------------------------
(***************************************************************************)
(* The commands of command.rs::run on one base path: the node (NodeStartup)*)
(* with its two databases, or with temporary ones; the subcommands that    *)
(* open the same database while no node holds it; and purge-chain, which   *)
(* asks the operator, and no lock, before it removes one database or both, *)
(* one after the other.  The API key of the off-chain worker lives in the  *)
(* parachain database; nothing here depends on what is in the other one.   *)
(*                                                                         *)
(* build-spec, export-genesis-wasm and the benchmarks of pallets and of the*)
(* machine open no database and have no action here.                       *)
(*                                                                         *)
(* An uncommented definition just above an action is that action with a    *)
(* plausible mistake in it; no specification uses it.                      *)
(***************************************************************************)
EXTENDS NodeStartup

VARIABLES
    db,      \* the parachain database on the base path, with the key it holds
    handle,  \* what the node has open: nothing, the database, a removed or a temporary one
    purge,   \* how far purge-chain is
    part,    \* the chains whose databases it was told to remove
    stored   \* history: a key was acknowledged before a purge went for the database

disk == <<db, handle, purge, part, stored>>
allVars == <<vars, disk>>

Chains == {"parachain", "relaychain"}

CommandsTypeOK ==
    /\ TypeOK
    /\ db \in {"absent", "no_key", "old_key", "new_key"}
    /\ stored \in BOOLEAN
    /\ handle \in {"none", "open", "removed", "temporary"}
    /\ purge \in {"none", "asked", "aborted", "parachain", "relaychain", "ok", "failed"}
    /\ part \subseteq Chains
    /\ handle # "none" <=> pc \notin {"config", "partial", "exited"}
    /\ handle \in {"open", "removed"} => ~opt.tmp
    /\ handle = "open" => db # "absent"

CommandsInit ==
    /\ Init
    /\ db = "absent" /\ handle = "none"
    /\ purge = "none" /\ part = {} /\ stored = FALSE

\* The operator has agreed that the parachain database goes.
Purging == "parachain" \in part /\ purge \in {"parachain", "relaychain", "ok", "failed"}

-----------------------------------------------------------------------------
(* The databases under the node.                                            *)

\* Opening a database creates it when it is not there.
Opened == IF db = "absent" THEN "no_key" ELSE db

Leaves(place) == pc = place /\ pc' # place

\* A step of NodeStartup, and what it opens and closes.  A start that fails may
\* have opened its database before; temporary ones are never seen again.
NodeStep ==
    /\ Next
    /\ handle' = IF pc' = "exited" THEN "none"
                 ELSE IF Leaves("partial") THEN IF opt.tmp THEN "temporary" ELSE "open"
                 ELSE handle
    /\ \/ db' = IF Leaves("partial") /\ ~opt.tmp THEN Opened ELSE db
       \/ pc' = "exited" /\ db' = db
    /\ UNCHANGED <<purge, part, stored>>

\* RPC offchain_localStorageSet: what is written to a removed file or to a
\* temporary one is lost with it.
StoreKey ==
    /\ "rpc" \in tasks /\ handle # "none"
    /\ db' = IF handle # "open" THEN db ELSE IF Purging THEN "new_key" ELSE "old_key"
    /\ stored' = (stored \/ ~Purging)
    /\ UNCHANGED <<vars, handle, purge, part>>

-----------------------------------------------------------------------------
(* Subcommands.                                                             *)

\* check-block, export-blocks, export-state, import-blocks, revert,
\* export-genesis-head and benchmark block: new_partial opens the database, or
\* fails, while the node has it.  The key is not among the blocks.
UsePartial ==
    /\ handle # "open"
    /\ db' = Opened
    /\ UNCHANGED <<vars, handle, purge, part, stored>>

\* purge-chain, with --parachain, --relaychain or, as without either, both; an
\* argument of either chain may be wrong, and nothing has happened.
\* Bound of the model: one purge.
PurgeChain ==
    /\ purge = "none"
    /\ \/ purge' = "asked" /\ part' \in SUBSET Chains \ {{}}
       \/ purge' = "aborted" /\ UNCHANGED part
    /\ UNCHANGED <<vars, db, handle, stored>>

AnswerForBoth ==
    /\ purge = "asked"
    /\ \/ purge' = "parachain" /\ part' = part
       \/ purge' = "aborted" /\ part' = {}
    /\ UNCHANGED <<vars, db, handle, stored>>

\* "Are you sure to remove? [y/N]", or -y.  An abort is no error.
Answer ==
    /\ purge = "asked"
    /\ \/ /\ purge' = IF "parachain" \in part THEN "parachain" ELSE "relaychain"
          /\ UNCHANGED part
       \/ purge' = "aborted" /\ part' = {}
    /\ UNCHANGED <<vars, db, handle, stored>>

AfterParachain == IF "relaychain" \in part THEN "relaychain" ELSE "ok"

ParachainRemoved ==
    /\ db' = "absent"
    /\ handle' = IF handle = "open" THEN "removed" ELSE handle

PurgeParachainIgnoringErrors ==
    /\ purge = "parachain" /\ purge' = AfterParachain
    /\ ParachainRemoved \/ UNCHANGED <<db, handle>>
    /\ UNCHANGED <<vars, part, stored>>

\* It is no error when there is nothing to remove; a removal that fails may have
\* taken the key with it or not.
PurgeParachain ==
    /\ purge = "parachain"
    /\ \/ purge' = AfterParachain /\ ParachainRemoved
       \/ purge' = "failed" /\ ParachainRemoved
       \/ purge' = "failed" /\ UNCHANGED <<db, handle>>
    /\ UNCHANGED <<vars, part, stored>>

PurgeRelaychain ==
    /\ purge = "relaychain" /\ purge' \in {"ok", "failed"}
    /\ UNCHANGED <<vars, db, handle, part, stored>>

CommandsNext ==
    \/ NodeStep \/ StoreKey \/ UsePartial
    \/ PurgeChain \/ Answer \/ PurgeParachain \/ PurgeRelaychain

\* The executor polls startup to its end, and the runner the task manager.
CommandsSpec ==
    /\ CommandsInit /\ [][CommandsNext]_allVars
    /\ WF_vars(Startup /\ NodeStep) /\ WF_vars(StopOnTaskEnd /\ NodeStep)

-----------------------------------------------------------------------------
\* A key that was acknowledged is lost for a reason only: the node was told to
\* keep nothing (--tmp, cli.rs:47, start-node.sh:34), or the operator agreed that
\* this database goes.  Not by crashes, failed starts, restarts and subcommands,
\* nor by a purge that was aborted, was about the relay chain only, or ran while
\* the node was up (service.rs:92, command.rs:99-162).
KeyLossHasACause == stored /\ db # "old_key" => opt.tmp \/ Purging

\* When purge-chain has removed what it was told to, and that included the
\* parachain database, the key from before is on no disk, and no node that is
\* started later sees it, whatever ran meanwhile.  An exit without an error does
\* not say that much: an abort is one too.
PurgeForgets == purge = "ok" /\ "parachain" \in part => db # "old_key"
=============================================================================
