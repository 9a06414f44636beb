--------------------------- MODULE CommandsProofs ---------------------------
(***************************************************************************)
(* The order of startup and what the commands do to the databases, for     *)
(* every configuration, any number of restarts and any task that ends.     *)
(*                                                                         *)
(* The safety properties of Commands are not inductive.  That the network  *)
(* is last follows from what has been spawned at each statement of startup *)
(* (StartedBy); that a key is lost for a reason, from a node's having a    *)
(* removed database only after the removal was agreed, and a temporary one *)
(* only with --tmp; that a purge forgets, from what is on disk between its *)
(* two removals (PurgeInv).                                                *)
(***************************************************************************)
EXTENDS Commands, TLAPS

\* What startup has spawned when it is at a statement: the statements after
\* which each task is there.
Finishing == {"start_network", "running"}
Consensus == {"consensus"} \cup Finishing
PastHwbench == {"overseer", "relay_tasks"} \cup Consensus
PastRpc == {"hwbench"} \cup PastHwbench
PastWorkers == {"spawn_tasks"} \cup PastRpc
PastNetwork == {"ocw"} \cup PastWorkers
PastRelay == {"build_network"} \cup PastNetwork
PastPartial == {"relay"} \cup PastRelay

StartedBy ==
    /\ "txpool" \in spawned <=> pc \in PastPartial
    /\ "import-queue" \in spawned <=> pc \in PastPartial
    /\ "telemetry" \in spawned <=> pc \in PastPartial /\ opt.telemetry
    /\ "relay-chain" \in spawned <=> pc \in PastRelay
    /\ "network" \in spawned <=> pc \in PastNetwork
    /\ "offchain-workers-runner" \in spawned <=> pc \in PastWorkers /\ opt.ocw
    /\ "rpc" \in spawned <=> pc \in PastRpc
    /\ "telemetry-hwbench" \in spawned <=>
           pc \in PastHwbench /\ opt.hwbench /\ opt.telemetry
    /\ "relay-tasks" \in spawned <=> pc \in Consensus
    /\ "aura" \in spawned <=> pc \in Finishing /\ opt.validator

StartupInv ==
    /\ pc # "exited" => StartedBy
    /\ network = "started" => pc = "running"

\* What purge-chain leaves behind at each of its steps.
PurgeInv ==
    /\ handle = "removed" => Purging /\ purge # "parachain"
    /\ handle = "temporary" => opt.tmp
    /\ purge = "parachain" => "parachain" \in part
    /\ stored /\ db # "old_key" => opt.tmp \/ Purging
    /\ Purging /\ purge \in {"relaychain", "ok"} => db # "old_key"

IInv == CommandsTypeOK /\ StartupInv /\ PurgeInv

-----------------------------------------------------------------------------
(* Startup.                                                                 *)

LEMMA InitStartup == Init => TypeOK /\ StartupInv
BY ConfigurationsAssumption
   DEF Init, TypeOK, Options, Statements, StartupInv, StartedBy, Finishing,
       Consensus, PastHwbench, PastRpc, PastWorkers, PastNetwork, PastRelay,
       PastPartial

LEMMA ExitStartup ==
    ASSUME TypeOK, StartupInv, Exit
    PROVE  TypeOK' /\ StartupInv'
BY DEF Exit, TypeOK, StartupInv, Tasks

\* A statement that takes startup on: it spawns what stands between the two
\* statements in StartedBy.
LEMMA StartupTypeOK ==
    ASSUME TypeOK, StartupInv, Startup
    PROVE  TypeOK' /\ StartupInv'
<1> USE DEF TypeOK, Options, Tasks, Statements, StartupInv, StartedBy,
        Finishing, Consensus, PastHwbench, PastRpc, PastWorkers, PastNetwork,
        PastRelay, PastPartial, Fail, Step, Spawn
<1>1. CASE Configure
  BY <1>1, ExitStartup DEF Configure
<1>2. CASE NewPartial
  BY <1>2, ExitStartup DEF NewPartial
<1>3. CASE BuildRelayChainInterface
  BY <1>3, ExitStartup DEF BuildRelayChainInterface
<1>4. CASE BuildNetwork
  BY <1>4, ExitStartup DEF BuildNetwork
<1>5. CASE SpawnOffchainWorkers
  BY <1>5 DEF SpawnOffchainWorkers
<1>6. CASE SpawnTasks
  BY <1>6, ExitStartup DEF SpawnTasks
<1>7. CASE PrintHwbench
  BY <1>7 DEF PrintHwbench
<1>8. CASE OverseerHandle
  BY <1>8, ExitStartup DEF OverseerHandle
<1>9. CASE StartRelayChainTasks
  BY <1>9, ExitStartup DEF StartRelayChainTasks
<1>10. CASE StartConsensus
  BY <1>10 DEF StartConsensus
<1>11. CASE StartNetwork
  BY <1>11 DEF StartNetwork
<1>12. QED
  BY <1>1, <1>2, <1>3, <1>4, <1>5, <1>6, <1>7, <1>8, <1>9, <1>10, <1>11
     DEF Startup

LEMMA NextStartup ==
    ASSUME TypeOK, StartupInv, Next
    PROVE  TypeOK' /\ StartupInv'
<1>1. CASE Startup
  BY <1>1, StartupTypeOK
<1>2. CASE StopOnTaskEnd \/ StopOnSignal
  BY <1>2, ExitStartup DEF StopOnTaskEnd, StopOnSignal
<1>3. CASE Relaunch
  BY <1>3 DEF Relaunch, TypeOK, Statements, StartupInv, StartedBy, Finishing,
              Consensus, PastHwbench, PastRpc, PastWorkers, PastNetwork,
              PastRelay, PastPartial
<1>4. ASSUME NEW t \in Tasks, TaskEnds(t) PROVE TypeOK' /\ StartupInv'
  BY <1>4 DEF TaskEnds, TypeOK, StartupInv, StartedBy
<1>5. QED
  BY <1>1, <1>2, <1>3, <1>4 DEF Next

\* Only startup moves the place, one statement at a time, and every way out of
\* it leads to "exited".
Closed == {"config", "partial", "exited"}

LEMMA Places ==
    ASSUME Next
    PROVE  /\ pc = "partial" => pc' \in {"partial", "relay", "exited"}
           /\ pc \in {"config", "exited"} => pc' \in Closed
           /\ pc \notin Closed => pc' \notin {"config", "partial"}
           /\ pc \notin Closed /\ pc' = "relay" => pc = "relay"
           /\ opt' = opt
<1>1. CASE Startup
  BY <1>1
     DEF Startup, Spawn, Configure, NewPartial, BuildRelayChainInterface, BuildNetwork,
         SpawnOffchainWorkers, SpawnTasks, PrintHwbench, OverseerHandle,
         StartRelayChainTasks, StartConsensus, StartNetwork, Step, Fail, Exit,
         Closed
<1>2. CASE StopOnTaskEnd \/ StopOnSignal \/ Relaunch
  BY <1>2 DEF StopOnTaskEnd, StopOnSignal, Relaunch, Exit, Closed
<1>3. ASSUME NEW t \in Tasks, TaskEnds(t) PROVE pc' = pc /\ opt' = opt
  BY <1>3 DEF TaskEnds
<1>4. QED
  BY <1>1, <1>2, <1>3 DEF Next, Closed

-----------------------------------------------------------------------------
(* The databases.                                                           *)

LEMMA InitIInv == CommandsInit => IInv
BY InitStartup
   DEF CommandsInit, IInv, CommandsTypeOK, PurgeInv, Purging, Init

LEMMA NodeStepIInv ==
    ASSUME IInv, NodeStep
    PROVE  IInv'
<1>1. TypeOK' /\ StartupInv'
  BY NextStartup DEF IInv, CommandsTypeOK, NodeStep
<1>2. /\ UNCHANGED <<purge, part, stored>> /\ opt' = opt
      /\ db' = db \/ db' = Opened
  BY Places DEF NodeStep
<1>3. PurgeInv' /\ CommandsTypeOK'
  <2>1. /\ purge' = purge /\ part' = part /\ stored' = stored /\ opt' = opt
        /\ (Purging' <=> Purging)
    BY <1>2 DEF Purging
  <2>2. db' \in {"absent", "no_key", "old_key", "new_key"}
    BY <1>2 DEF IInv, CommandsTypeOK, Opened
  <2>3. CASE Leaves("partial") /\ pc' # "exited"
    <3>1. pc' = "relay" /\ pc = "partial"
      BY <2>3, Places DEF Leaves, NodeStep
    <3>2. CASE opt.tmp
      <4>1. handle' = "temporary" /\ db' = db
        BY <2>3, <3>1, <3>2 DEF NodeStep
      <4>2. QED
        BY <1>1, <2>1, <2>2, <3>1, <3>2, <4>1 DEF IInv, CommandsTypeOK, PurgeInv, Purging
    <3>3. CASE ~opt.tmp
      <4>1. handle' = "open" /\ db' = Opened
        BY <2>3, <3>1, <3>3 DEF NodeStep
      <4>2. db' # "absent" /\ (db = "old_key" <=> db' = "old_key")
        BY <4>1 DEF Opened
      <4>3. CommandsTypeOK'
        BY <1>1, <2>1, <2>2, <3>1, <3>3, <4>1, <4>2 DEF IInv, CommandsTypeOK
      <4>4. PurgeInv'
        BY <2>1, <4>1, <4>2 DEF IInv, PurgeInv
      <4>5. QED
        BY <4>3, <4>4
    <3>4. QED
      BY <3>2, <3>3
  <2>4. CASE pc' = "exited"
    <3>1. handle' = "none" /\ (db = "old_key" <=> db' = "old_key")
      BY <1>2, <2>4 DEF NodeStep, Opened
    <3>2. QED
      BY <1>1, <2>1, <2>2, <2>4, <3>1 DEF IInv, CommandsTypeOK, PurgeInv
  <2>5. CASE ~Leaves("partial") /\ pc' # "exited"
    <3>1. handle' = handle /\ db' = db
      BY <2>5 DEF NodeStep
    <3>2. pc' \in Closed <=> pc \in Closed
      BY <2>5, Places DEF NodeStep, Leaves, Closed
    <3>3. CommandsTypeOK'
      BY <1>1, <2>1, <3>1, <3>2 DEF IInv, CommandsTypeOK, Closed
    <3>4. PurgeInv'
      BY <2>1, <3>1 DEF IInv, PurgeInv
    <3>5. QED
      BY <3>3, <3>4
  <2>6. QED
    BY <2>3, <2>4, <2>5
<1>4. QED
  BY <1>1, <1>3 DEF IInv

\* The subcommands and the RPC leave the node where it is.
LEMMA SameStartup ==
    ASSUME TypeOK, StartupInv, UNCHANGED vars
    PROVE  TypeOK' /\ StartupInv' /\ UNCHANGED <<opt, pc, tasks>>
BY DEF TypeOK, StartupInv, StartedBy, vars

LEMMA StoreKeyIInv ==
    ASSUME IInv, StoreKey
    PROVE  IInv'
<1>1. TypeOK' /\ StartupInv' /\ UNCHANGED <<opt, pc, tasks, handle, purge, part>>
  BY SameStartup DEF IInv, StoreKey, CommandsTypeOK
<1>2. Purging' <=> Purging
  BY <1>1 DEF Purging
<1>3. CASE handle = "open"
  <2>1. db' = IF Purging THEN "new_key" ELSE "old_key"
    BY <1>3 DEF StoreKey
  <2>2. QED
    BY <1>1, <1>2, <2>1 DEF IInv, StoreKey, CommandsTypeOK, PurgeInv
<1>4. CASE handle # "open"
  <2>1. db' = db /\ handle \in {"removed", "temporary"}
    BY <1>4 DEF StoreKey, IInv, CommandsTypeOK
  <2>2. opt.tmp \/ Purging
    BY <2>1 DEF IInv, PurgeInv
  <2>3. QED
    BY <1>1, <1>2, <2>1, <2>2 DEF IInv, StoreKey, CommandsTypeOK, PurgeInv
<1>5. QED
  BY <1>3, <1>4

LEMMA UsePartialIInv ==
    ASSUME IInv, UsePartial
    PROVE  IInv'
BY SameStartup DEF IInv, UsePartial, Opened, CommandsTypeOK, PurgeInv, Purging

LEMMA PurgeIInv ==
    ASSUME IInv, PurgeChain \/ Answer \/ PurgeParachain \/ PurgeRelaychain
    PROVE  IInv'
<1>1. TypeOK' /\ StartupInv' /\ UNCHANGED <<opt, pc, tasks, stored>>
  BY SameStartup DEF IInv, CommandsTypeOK, PurgeChain, Answer, PurgeParachain, PurgeRelaychain
<1>2. CASE PurgeChain
  <2>1. part' \subseteq Chains /\ ~Purging /\ ~Purging'
    BY <1>2 DEF IInv, PurgeChain, CommandsTypeOK, Chains, Purging
  <2>2. QED
    BY <1>1, <1>2, <2>1 DEF IInv, PurgeChain, CommandsTypeOK, PurgeInv
<1>3. CASE Answer
  <2>1. part' \subseteq Chains /\ ~Purging
    BY <1>3 DEF IInv, Answer, CommandsTypeOK, Purging
  <2>2. QED
    BY <1>1, <1>3, <2>1 DEF IInv, Answer, CommandsTypeOK, PurgeInv, Purging
<1>4. CASE PurgeParachain
  <2>1. /\ purge = "parachain" /\ "parachain" \in part /\ part' = part
        /\ purge' \in {"relaychain", "ok", "failed"} /\ Purging /\ Purging'
    BY <1>4 DEF IInv, PurgeParachain, PurgeInv, Purging, AfterParachain
  <2>2. CASE ParachainRemoved
    BY <1>1, <2>1, <2>2 DEF IInv, ParachainRemoved, CommandsTypeOK, PurgeInv
  <2>3. CASE purge' = "failed" /\ UNCHANGED <<db, handle>>
    BY <1>1, <2>1, <2>3 DEF IInv, CommandsTypeOK, PurgeInv
  <2>4. QED
    BY <1>4, <2>2, <2>3 DEF PurgeParachain
<1>5. CASE PurgeRelaychain
  <2>1. /\ purge = "relaychain" /\ purge' \in {"ok", "failed"}
        /\ part' = part /\ db' = db /\ handle' = handle /\ (Purging' <=> Purging)
    BY <1>5 DEF PurgeRelaychain, Purging
  <2>2. QED
    BY <1>1, <2>1 DEF IInv, CommandsTypeOK, PurgeInv
<1>6. QED
  BY <1>2, <1>3, <1>4, <1>5

LEMMA NextIInv == IInv /\ [CommandsNext]_allVars => IInv'
<1> SUFFICES ASSUME IInv, [CommandsNext]_allVars PROVE IInv'
  OBVIOUS
<1>1. CASE NodeStep
  BY <1>1, NodeStepIInv
<1>2. CASE StoreKey
  BY <1>2, StoreKeyIInv
<1>3. CASE UsePartial
  BY <1>3, UsePartialIInv
<1>4. CASE PurgeChain \/ Answer \/ PurgeParachain \/ PurgeRelaychain
  BY <1>4, PurgeIInv
<1>5. CASE UNCHANGED allVars
  BY <1>5, SameStartup DEF IInv, CommandsTypeOK, PurgeInv, Purging, allVars, disk
<1>6. QED
  BY <1>1, <1>2, <1>3, <1>4, <1>5 DEF CommandsNext

\* The inductive invariant holds in every reachable state.
THEOREM Invariance == CommandsSpec => []IInv
BY InitIInv, NextIInv, PTL DEF CommandsSpec

-----------------------------------------------------------------------------
(* What the runs check.                                                     *)

\* The variables keep their types; the node holds a database exactly from
\* new_partial on until it exits (service.rs:92).
THEOREM TypeCorrect == CommandsSpec => []CommandsTypeOK
BY Invariance, PTL DEF IInv

\* When the network starts every task of the configuration has been spawned and
\* no other (service.rs, start_network).
THEOREM NetworkStartsLast == CommandsSpec => []NetworkIsLast
<1>1. IInv => NetworkIsLast
  <2> SUFFICES ASSUME IInv, network = "started" PROVE spawned = Needed(opt)
    BY DEF NetworkIsLast
  <2>1. pc = "running" /\ StartedBy
    BY DEF IInv, StartupInv
  <2>2. spawned \subseteq Tasks /\ Needed(opt) \subseteq Tasks
    BY DEF IInv, CommandsTypeOK, TypeOK, Needed, Tasks
  <2>3. ASSUME NEW t \in Tasks PROVE t \in spawned <=> t \in Needed(opt)
    BY <2>1 DEF StartedBy, Needed, Tasks, Finishing, Consensus, PastHwbench,
                PastRpc, PastWorkers, PastNetwork, PastRelay, PastPartial
  <2>4. QED
    BY <2>2, <2>3
<1>2. QED
  BY <1>1, Invariance, PTL

\* With any configuration, crashes, failed starts, restarts, subcommands and a
\* purge at any time, an acknowledged key is lost only to --tmp or to a removal
\* of its database that the operator agreed to (service.rs:92, command.rs:99-162).
THEOREM KeyLossIsExplained == CommandsSpec => []KeyLossHasACause
<1>1. IInv => KeyLossHasACause
  BY DEF IInv, PurgeInv, KeyLossHasACause
<1>2. QED
  BY <1>1, Invariance, PTL

\* After a purge that removed the parachain database the old key is on no disk,
\* though a node may have held the database (command.rs:144-162).
THEOREM PurgeIsComplete == CommandsSpec => []PurgeForgets
<1>1. IInv => PurgeForgets
  BY DEF IInv, PurgeInv, Purging, PurgeForgets
<1>2. QED
  BY <1>1, Invariance, PTL
=============================================================================
