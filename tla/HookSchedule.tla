---------------------------- MODULE HookSchedule ----------------------------
(***************************************************************************)
(* On which blocks the off-chain worker runs.  The node imports blocks of  *)
(* a tree: while it syncs each import extends its best chain; afterwards   *)
(* an import decides nothing (ParachainBlockImport), and the task that     *)
(* follows the relay chain makes known blocks the best block and finalises *)
(* them.  A block that becomes best makes a run of the hook due; the run   *)
(* comes some time later, in the state of that block.                      *)
(*                                                                         *)
(* An uncommented definition just above an action is that action with a    *)
(* plausible mistake in it; no specification uses it.                      *)
(***************************************************************************)
EXTENDS Integers, FiniteSets

CONSTANTS
    Blocks,   \* the blocks of the tree but the first
    Genesis,  \* the first
    Parent,   \* the parent of each of them
    MaxNotes  \* bound of the model: announcements of best blocks

ASSUME TreeAssumption == /\ Genesis \notin Blocks
                         /\ Parent \in [Blocks -> Blocks \cup {Genesis}]
ASSUME NotesAssumption == MaxNotes \in Nat

VARIABLES
    syncing,  \* the initial sync is not over
    known,    \* imported blocks
    best,     \* the best block
    final,    \* the last finalised block
    due,      \* runs of the hook announced and not yet done, per block
    ran,      \* runs done, per block
    logged,   \* what the runs said: the block and the parent they looked up
    synced,   \* history: blocks imported by the initial sync
    lost,     \* history: blocks whose run was due when the node stopped
    notes     \* announcements so far

vars == <<syncing, known, best, final, due, ran, logged, synced, lost, notes>>

All == Blocks \cup {Genesis}

\* A block with everything below it.
Chain[b \in All] == IF b = Genesis THEN {b} ELSE {b} \cup Chain[Parent[b]]
Number(b) == Cardinality(Chain[b]) - 1

TypeOK ==
    /\ syncing \in BOOLEAN
    /\ known \subseteq All /\ {best, final, Genesis} \subseteq known
    /\ due \in [Blocks -> 0..MaxNotes] /\ ran \in [Blocks -> 0..MaxNotes]
    /\ logged \subseteq Blocks \X All
    /\ synced \subseteq Blocks /\ lost \subseteq Blocks
    /\ notes \in 0..MaxNotes

Init ==
    /\ syncing = TRUE
    /\ known = {Genesis} /\ best = Genesis /\ final = Genesis
    /\ due = [b \in Blocks |-> 0] /\ ran = [b \in Blocks |-> 0]
    /\ logged = {} /\ synced = {} /\ lost = {} /\ notes = 0

Importable(b) == b \notin known /\ Parent[b] \in known

Announce(b) ==
    /\ notes < MaxNotes /\ notes' = notes + 1
    /\ due' = [due EXCEPT ![b] = @ + 1]

\* Initial sync: the block is the new best; off-chain workers are not told.
SyncImport(b) ==
    /\ syncing /\ Importable(b) /\ Parent[b] = best
    /\ known' = known \cup {b} /\ best' = b
    /\ synced' = synced \cup {b}
    /\ UNCHANGED <<syncing, final, due, ran, logged, lost, notes>>

SyncDone ==
    /\ syncing /\ syncing' = FALSE
    /\ UNCHANGED <<known, best, final, due, ran, logged, synced, lost, notes>>

\* From the network or from this collator: imported, and not the best block.
Import(b) ==
    /\ ~syncing /\ Importable(b)
    /\ known' = known \cup {b}
    /\ UNCHANGED <<syncing, best, final, due, ran, logged, synced, lost, notes>>

\* A known block that may become the best one: above what is final, and not
\* lower than the present best block.
BestCandidate(b) ==
    /\ ~syncing /\ b \in known \ {best, Genesis} /\ final \in Chain[b]
    /\ Number(b) >= Number(best)

NewBestSilentOnFork(b) ==
    /\ BestCandidate(b)
    /\ best' = b
    /\ IF best \in Chain[b] THEN Announce(b) ELSE UNCHANGED <<due, notes>>
    /\ UNCHANGED <<syncing, known, final, ran, logged, synced, lost>>

\* The relay chain backs b: it becomes the best block, and its hook is due.
\* It may lie several blocks above the old best one, or on another fork, and
\* it may have been best before.
NewBest(b) ==
    /\ BestCandidate(b)
    /\ best' = b
    /\ Announce(b)
    /\ UNCHANGED <<syncing, known, final, ran, logged, synced, lost>>

\* The relay chain finalises a block of the best chain.
Finalize(b) ==
    /\ b \in Chain[best] \ {final} /\ final \in Chain[b]
    /\ final' = b
    /\ UNCHANGED <<syncing, known, best, due, ran, logged, synced, lost, notes>>

RunHookOnBest(b) ==
    /\ due[b] > 0
    /\ due' = [due EXCEPT ![b] = @ - 1]
    /\ ran' = [ran EXCEPT ![b] = @ + 1]
    /\ LET below == {a \in Chain[best] : Number(a) = Number(b) - 1}
       IN  logged' = logged \cup {<<b, a>> : a \in below}
    /\ UNCHANGED <<syncing, known, best, final, synced, lost, notes>>

RunHookAgain(b) ==
    /\ due[b] + ran[b] > 0
    /\ due' = [due EXCEPT ![b] = @ - 1]
    /\ ran' = [ran EXCEPT ![b] = @ + 1]
    /\ LET below == {a \in Chain[b] : Number(a) = Number(b) - 1}
       IN  logged' = logged \cup {<<b, a>> : a \in below}
    /\ UNCHANGED <<syncing, known, best, final, synced, lost, notes>>

\* offchain_worker(block_number) in the state of b: the parent is looked up by
\* number, block_hash(block_number - 1), on the chain of b.
RunHook(b) ==
    /\ due[b] > 0
    /\ due' = [due EXCEPT ![b] = @ - 1]
    /\ ran' = [ran EXCEPT ![b] = @ + 1]
    /\ LET below == {a \in Chain[b] : Number(a) = Number(b) - 1}
       IN  logged' = logged \cup {<<b, a>> : a \in below}
    /\ UNCHANGED <<syncing, known, best, final, synced, lost, notes>>

\* The node restarts, with a sync: runs that were due are not made up for.
Restart ==
    /\ syncing' = TRUE
    /\ due' = [b \in Blocks |-> 0]
    /\ lost' = lost \cup {b \in Blocks : due[b] > 0}
    /\ UNCHANGED <<known, best, final, ran, logged, synced, notes>>

Next ==
    \/ SyncDone \/ Restart
    \/ \E b \in Blocks : SyncImport(b) \/ Import(b) \/ NewBest(b) \/ RunHook(b)
    \/ \E b \in All : Finalize(b)

Spec == Init /\ [][Next]_vars

-----------------------------------------------------------------------------
\* The parent that a run logs is the parent of the block it runs for, though
\* the best chain may have switched to another fork since the announcement
\* (lib.rs, block_hash(block_number - 1)).
LoggedParentIsParent == \A l \in logged : l[2] = Parent[l[1]]

\* No final block escapes the worker: each one that the sync did not bring was
\* itself announced, or lies below one that was, whichever forks were best before
\* and after (the run may be due, done, or lost in a restart).  The code gives no
\* more: the documents' run "for every finalized block" is one for every block
\* that becomes best, which several final blocks may share (service.rs:282-303
\* with 368-383).
Announced(b) == due[b] + ran[b] > 0 \/ b \in lost
Covered(b) == \E d \in Blocks : b \in Chain[d] /\ Announced(d)
FinalizedAreCovered == \A b \in Chain[final] \ (synced \cup {Genesis}) : Covered(b)

\* What is final stays final: whichever forks the relay chain backs afterwards,
\* the best chain goes through every block that was ever finalised
\* (start_relay_chain_tasks in service.rs).
FinalityIsKept == [][Chain[final] \subseteq Chain[final'] \cap Chain[best']]_vars
=============================================================================
