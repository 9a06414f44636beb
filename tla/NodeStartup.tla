---------------------------- MODULE NodeStartup -----------------------------
(***************************************************************************)
(* How the node comes up and goes down: the default command of             *)
(* command.rs::run, new_partial and start_parachain_node of service.rs,    *)
(* one action per statement that can fail or that starts something, and    *)
(* the runner that then waits for the task manager.  Each `?` leaves the   *)
(* function; the task manager is dropped, and its tasks with it.  Tasks    *)
(* run as soon as they are spawned, while startup goes on; any of them may *)
(* end at any time.                                                        *)
(*                                                                         *)
(* An uncommented definition just above an action is that action with a    *)
(* plausible mistake in it; no specification uses it.                      *)
(***************************************************************************)
EXTENDS Naturals, FiniteSets

CONSTANT Configurations  \* the configurations looked at

VARIABLES
    opt,      \* the configuration
    pc,       \* the next statement of startup
    tasks,    \* tasks that run
    spawned,  \* history: tasks that were started
    network   \* none, built (it waits for its starter), started

vars == <<opt, pc, tasks, spawned, network>>

\* tmp: each launch has a base path of its own (--tmp, or --dev without one).
Options == [validator : BOOLEAN, ocw : BOOLEAN, telemetry : BOOLEAN, hwbench : BOOLEAN,
            tmp : BOOLEAN]

ASSUME ConfigurationsAssumption == Configurations \subseteq Options

Tasks == {"txpool", "import-queue", "telemetry", "relay-chain", "network", "rpc",
          "offchain-workers-runner", "telemetry-hwbench", "relay-tasks", "aura"}

EssentialWithoutAura == {"txpool", "import-queue", "relay-chain", "relay-tasks"}

\* Spawned by an essential handle, or with a task manager of their own that is
\* made a child of this one: the node stops when one of these ends.
Essential == {"txpool", "import-queue", "relay-chain", "relay-tasks", "aura"}

\* What a node with these options consists of.
Needed(o) ==
    {"txpool", "import-queue", "relay-chain", "network", "rpc", "relay-tasks"}
        \cup (IF o.validator THEN {"aura"} ELSE {})
        \cup (IF o.ocw THEN {"offchain-workers-runner"} ELSE {})
        \cup (IF o.telemetry THEN {"telemetry"} ELSE {})
        \cup (IF o.telemetry /\ o.hwbench THEN {"telemetry-hwbench"} ELSE {})

Statements == {"config", "partial", "relay", "build_network", "ocw", "spawn_tasks",
               "hwbench", "overseer", "relay_tasks", "consensus", "start_network"}

TypeOK ==
    /\ opt \in Options
    /\ pc \in Statements \cup {"running", "exited"}
    /\ tasks \subseteq Tasks /\ spawned \subseteq Tasks
    /\ network \in {"none", "built", "started"}

Init ==
    /\ opt \in Configurations
    /\ pc = "config" /\ tasks = {} /\ spawned = {} /\ network = "none"

Spawn(new) == tasks' = tasks \cup new /\ spawned' = spawned \cup new

\* The function returns an error, or the process ends: everything is dropped.
Exit ==
    /\ pc' = "exited" /\ tasks' = {} /\ network' = "none"
    /\ UNCHANGED <<opt, spawned>>

\* A statement that starts nothing.
Step(from, to) ==
    /\ pc = from /\ pc' = to
    /\ UNCHANGED <<opt, tasks, spawned, network>>

\* A statement with a `?` may fail.
Fail(from) == pc = from /\ Exit

-----------------------------------------------------------------------------
(* command.rs, run.                                                         *)

\* The para id in the chain spec and the arguments of the relay chain.
Configure == Step("config", "partial") \/ Fail("config")

(* service.rs, new_partial.                                                 *)

NewPartial ==
    \/ Fail("partial")
    \/ /\ pc = "partial" /\ pc' = "relay"
       /\ Spawn({"txpool", "import-queue"}
                    \cup IF opt.telemetry THEN {"telemetry"} ELSE {})
       /\ UNCHANGED <<opt, network>>

(* service.rs, start_parachain_node.                                        *)

BuildRelayChainInterface ==
    \/ Fail("relay")
    \/ /\ pc = "relay" /\ pc' = "build_network"
       /\ Spawn({"relay-chain"})
       /\ UNCHANGED <<opt, network>>

BuildNetwork ==
    \/ Fail("build_network")
    \/ /\ pc = "build_network" /\ pc' = "ocw"
       /\ Spawn({"network"}) /\ network' = "built"
       /\ UNCHANGED opt

SpawnOffchainWorkers ==
    /\ pc = "ocw" /\ pc' = "spawn_tasks"
    /\ Spawn(IF opt.ocw THEN {"offchain-workers-runner"} ELSE {})
    /\ UNCHANGED <<opt, network>>

SpawnTasks ==
    \/ Fail("spawn_tasks")
    \/ /\ pc = "spawn_tasks" /\ pc' = "hwbench"
       /\ Spawn({"rpc"})
       /\ UNCHANGED <<opt, network>>

PrintHwbench ==
    /\ pc = "hwbench" /\ pc' = "overseer"
    /\ Spawn(IF opt.hwbench /\ opt.telemetry THEN {"telemetry-hwbench"} ELSE {})
    /\ UNCHANGED <<opt, network>>

OverseerHandle == Step("overseer", "relay_tasks") \/ Fail("overseer")

StartRelayChainTasks ==
    \/ Fail("relay_tasks")
    \/ /\ pc = "relay_tasks" /\ pc' = "consensus"
       /\ Spawn({"relay-tasks"})
       /\ UNCHANGED <<opt, network>>

\* start_consensus never returns an error.
StartConsensus ==
    /\ pc = "consensus" /\ pc' = "start_network"
    /\ Spawn(IF opt.validator THEN {"aura"} ELSE {})
    /\ UNCHANGED <<opt, network>>

StartNetworkFirst ==
    /\ pc = "overseer" /\ network = "built" /\ network' = "started"
    /\ UNCHANGED <<opt, pc, tasks, spawned>>

StartNetworkDropped ==
    /\ pc = "start_network" /\ pc' = "running"
    /\ network' = "dropped"
    /\ UNCHANGED <<opt, tasks, spawned>>

StartNetwork ==
    /\ pc = "start_network" /\ pc' = "running"
    /\ network' = "started"
    /\ UNCHANGED <<opt, tasks, spawned>>

-----------------------------------------------------------------------------
(* What happens meanwhile and afterwards.                                  *)

TaskEnds(t) ==
    /\ t \in tasks /\ tasks' = tasks \ {t}
    /\ UNCHANGED <<opt, pc, spawned, network>>

\* run_node_until_exit waits for an essential task to end, or for a signal.
EssentialEnded == (Essential \cap spawned) \ tasks # {}
StopOnTaskEnd == pc = "running" /\ EssentialEnded /\ Exit
StopOnSignal == pc = "running" /\ Exit

\* The operator starts the node again with the same arguments.
Relaunch ==
    /\ pc = "exited"
    /\ pc' = "config" /\ tasks' = {} /\ spawned' = {} /\ network' = "none"
    /\ UNCHANGED opt

Startup ==
    \/ Configure \/ NewPartial \/ BuildRelayChainInterface \/ BuildNetwork
    \/ SpawnOffchainWorkers \/ SpawnTasks \/ PrintHwbench \/ OverseerHandle
    \/ StartRelayChainTasks \/ StartConsensus \/ StartNetwork

Next ==
    \/ Startup \/ StopOnTaskEnd \/ StopOnSignal \/ Relaunch
    \/ \E t \in Tasks : TaskEnds(t)

Spec == Init /\ [][Next]_vars

-----------------------------------------------------------------------------
\* The network is started last: peers meet a node that has every task its
\* configuration asks for, and no other (service.rs, start_network).
NetworkIsLast == network = "started" => spawned = Needed(opt)

\* A node that has lost its block authoring, its transaction pool, its import
\* queue or its view of the relay chain does not go on as if nothing were,
\* even if it was lost while startup was still going on.
Vital == {"aura", "txpool", "import-queue", "relay-chain", "relay-tasks"}
NoZombies == (Vital \cap spawned) \ tasks # {} ~> pc = "exited"
=============================================================================
