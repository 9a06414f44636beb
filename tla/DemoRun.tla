------------------------------ MODULE DemoRun -------------------------------
(***************************************************************************)
(* The demo of the README: RUN.sh starts the API server and the node, calls*)
(* inject-api-key.sh, insert-key.sh and the test script, and cleans up.    *)
(* All scripts run under `set -e`.  With tmux the commands are typed into  *)
(* the shells of three windows, where the failure of one does not stop the *)
(* next, and nothing is cleaned up.  The sleeps of the scripts guarantee   *)
(* nothing: what was started may not be ready, what was killed may not be  *)
(* gone, and processes may die at any time.  A node of an earlier demo may *)
(* still run, and whoever listens on port 9944 takes the calls.            *)
(*                                                                         *)
(* An uncommented definition just above an action is that action with a    *)
(* plausible mistake in it; no specification uses it.                      *)
(***************************************************************************)
EXTENDS Integers, FiniteSets

VARIABLES
    tmux,      \* tmux is installed
    pc,        \* what RUN.sh does next, or with tmux the window "Test"
    status,    \* the exit status of RUN.sh, or how the window "Test" ended
    api,       \* the API server process
    launcher,  \* the shell that runs start-node.sh
    built,     \* the node binary exists
    node,      \* the node this demo starts, and one of an earlier demo
    port,      \* the node that listens on 9944
    keys,      \* nodes with the API key in their local storage
    signers,   \* nodes with the signing key in their keystore
    refused,   \* history: a call was answered with an error, and curl exited with 0
    home,      \* the node that took the transaction of the test script
    tx,        \* that transaction, do_something
    said       \* what the scripts have reported

vars == <<tmux, pc, status, api, launcher, built, node, port, keys, signers, refused,
          home, tx, said>>
procs == <<api, launcher, built, node, port>>
storage == <<keys, signers, refused>>
transaction == <<home, tx>>

Nodes == {"old", "new"}
Steps == {"api", "node", "inject", "verify", "insert", "test", "submit", "await", "cleanup", "exited"}

TypeOK ==
    /\ tmux \in BOOLEAN /\ pc \in Steps
    /\ status \in {"none", "ok", "failed", "prompt"}
    /\ api \in {"off", "up", "dead"}
    /\ launcher \in {"off", "check", "build", "pkill", "start", "wait", "dead"}
    /\ built \in BOOLEAN
    /\ node \in [Nodes -> {"off", "booting", "ready", "ending", "dead"}]
    /\ port \in Nodes \cup {"none"} /\ home \in Nodes \cup {"none"}
    /\ keys \subseteq Nodes /\ signers \subseteq Nodes /\ refused \in BOOLEAN
    /\ tx \in {"none", "pending", "in_block", "finalized"}
    /\ said \subseteq {"injected", "inserted", "success", "timeout"}

Init ==
    /\ tmux \in BOOLEAN /\ pc = "api" /\ status = "none"
    /\ api = "off" /\ launcher = "off" /\ built \in BOOLEAN
    /\ \E old \in {"off", "ready"} : node = [n \in Nodes |-> IF n = "old" THEN old ELSE "off"]
    /\ port = IF node["old"] = "ready" THEN "old" ELSE "none"
    /\ keys = {} /\ signers = {} /\ refused = FALSE
    /\ home = "none" /\ tx = "none" /\ said = {}

\* set -e: a command that fails ends its script, and RUN.sh with it; in a window
\* of tmux the next command has been typed already.
Abort(next) ==
    /\ IF tmux THEN pc' = next /\ status' = IF next = "exited" THEN "prompt" ELSE status
       ELSE pc' = "exited" /\ status' = "failed"
    /\ UNCHANGED <<procs, storage, transaction>>

-----------------------------------------------------------------------------
(* RUN.sh.                                                                  *)

StartApi ==
    /\ pc = "api" /\ pc' = "node"
    /\ api' = "up"
    /\ UNCHANGED <<status, launcher, built, node, port, storage, transaction, said>>

StartNode ==
    /\ pc = "node" /\ pc' = "inject"
    /\ launcher' = "check"
    /\ UNCHANGED <<status, api, built, node, port, storage, transaction, said>>

InjectIgnoringCurl ==
    /\ pc = "inject" /\ pc' = "verify"
    /\ keys' = keys \cup (Nodes \cap {port})
    /\ UNCHANGED <<status, procs, signers, refused, transaction, said>>

\* inject-api-key.sh, the first curl: offchain_localStorageSet.  It fails when
\* nobody listens; an error in the answer is printed and not looked at.
Inject ==
    /\ pc = "inject"
    /\ \/ port = "none" /\ Abort("insert") /\ UNCHANGED said
       \/ /\ port # "none" /\ pc' = "verify"
          /\ \/ keys' = keys \cup {port} /\ UNCHANGED refused
             \/ refused' = TRUE /\ UNCHANGED keys
          /\ UNCHANGED <<status, procs, signers, transaction, said>>

\* The second curl and the report, which does not look at what was read back.
Verify ==
    /\ pc = "verify"
    /\ \/ port = "none" /\ Abort("insert") /\ UNCHANGED said
       \/ /\ port # "none" /\ pc' = "insert"
          /\ said' = said \cup {"injected"}
          /\ UNCHANGED <<status, procs, storage, transaction>>

\* insert-key.sh: without pipefail `curl | jq` succeeds when curl fails, and the
\* report is made whether there was an answer, an error or nobody.
InsertKey ==
    /\ pc = "insert" /\ pc' = "test"
    /\ said' = said \cup {"inserted"}
    /\ \/ port # "none" /\ signers' = signers \cup {port} /\ UNCHANGED refused
       \/ port # "none" /\ refused' = TRUE /\ UNCHANGED signers
       \/ port = "none" /\ UNCHANGED <<signers, refused>>
    /\ UNCHANGED <<status, procs, keys, transaction>>

\* test-offchain-worker.js: ApiPromise.create retries until a node answers.
Connect ==
    /\ pc = "test" /\ port # "none"
    /\ pc' = "submit"
    /\ UNCHANGED <<status, procs, storage, transaction, said>>

\* do_something is signed and submitted; main().catch exits with 1 when a call
\* fails or is answered with an error.
Submit ==
    /\ pc = "submit"
    /\ \/ Abort("exited") /\ UNCHANGED said
       \/ /\ port # "none" /\ pc' = "await"
          /\ home' = port /\ tx' = "pending"
          /\ UNCHANGED <<status, procs, storage, said>>

\* The status callback: success is finality, and nothing else.
AwaitFinalized ==
    /\ pc = "await" /\ tx = "finalized"
    /\ pc' = "cleanup"
    /\ said' = said \cup {"success"}
    /\ UNCHANGED <<status, procs, storage, transaction>>

TimeoutLogsOnly ==
    /\ pc = "await"
    /\ said' = said \cup {"timeout"}
    /\ UNCHANGED <<pc, status, procs, storage, transaction>>

\* setTimeout, 60 s: exit 1.  What became final may not have been heard of.
Timeout ==
    /\ pc = "await"
    /\ said' = said \cup {"timeout"}
    /\ Abort("exited")

\* kill $API_PID $NODE_PID: the second is the shell, not the node it runs.
Cleanup ==
    /\ pc = "cleanup" /\ pc' = "exited"
    /\ IF tmux THEN status' = "prompt" /\ UNCHANGED <<api, launcher>>
       ELSE status' = "ok" /\ api' = "dead" /\ launcher' = "dead"
    /\ UNCHANGED <<built, node, port, storage, transaction, said>>

-----------------------------------------------------------------------------
(* start-node.sh.                                                           *)

CheckBinary ==
    /\ launcher = "check"
    /\ launcher' = IF built THEN "pkill" ELSE "build"
    /\ UNCHANGED <<pc, status, api, built, node, port, storage, transaction, said>>

CargoBuildFailing ==
    /\ launcher = "build"
    /\ launcher' = "failed"
    /\ UNCHANGED <<pc, status, api, built, node, port, storage, transaction, said>>

CargoBuild ==
    /\ launcher = "build"
    /\ \/ launcher' = "pkill" /\ built' = TRUE
       \/ launcher' = "dead" /\ UNCHANGED built
    /\ UNCHANGED <<pc, status, api, node, port, storage, transaction, said>>

\* pkill asks an older node to end; after `sleep 2` it may still be ending, on
\* its port and answering.
Pkill ==
    /\ launcher = "pkill" /\ launcher' = "start"
    /\ node' = IF node["old"] = "ready" THEN [node EXCEPT !["old"] = "ending"] ELSE node
    /\ UNCHANGED <<pc, status, api, built, port, storage, transaction, said>>

\* The node runs in the foreground of its shell (--tmp: its storage is empty).
StartBinary ==
    /\ launcher = "start" /\ launcher' = "wait"
    /\ node' = [node EXCEPT !["new"] = "booting"]
    /\ UNCHANGED <<pc, status, api, built, port, storage, transaction, said>>

-----------------------------------------------------------------------------
(* The nodes and the chain; processes that die.                             *)

\* A node that finds its port taken listens on another, or dies.
NodeReady ==
    /\ node["new"] = "booting"
    /\ node' = [node EXCEPT !["new"] = "ready"]
    /\ port' = IF port = "none" THEN "new" ELSE port
    /\ UNCHANGED <<pc, status, api, launcher, built, storage, transaction, said>>

Include ==
    /\ tx = "pending" /\ node[home] \in {"ready", "ending"}
    /\ tx' = "in_block"
    /\ UNCHANGED <<pc, status, procs, storage, home, said>>

Finalize ==
    /\ tx = "in_block" /\ node[home] \in {"ready", "ending"}
    /\ tx' = "finalized"
    /\ UNCHANGED <<pc, status, procs, storage, home, said>>

ApiDies ==
    /\ api = "up" /\ api' = "dead"
    /\ UNCHANGED <<pc, status, launcher, built, node, port, storage, transaction, said>>

\* A node dies and its temporary storage with it; the shell that waits for it
\* ends too.
NodeDies(n) ==
    /\ node[n] \in {"booting", "ready", "ending"}
    /\ node' = [node EXCEPT ![n] = "dead"]
    /\ port' = IF port = n THEN "none" ELSE port
    /\ keys' = keys \ {n} /\ signers' = signers \ {n}
    /\ launcher' = IF n = "new" THEN "dead" ELSE launcher
    /\ UNCHANGED <<pc, status, api, built, refused, transaction, said>>

Script == \/ StartApi \/ StartNode \/ Inject \/ Verify \/ InsertKey \/ Connect \/ Submit
          \/ AwaitFinalized \/ Timeout \/ Cleanup
Launch == CheckBinary \/ CargoBuild \/ Pkill \/ StartBinary
Next ==
    /\ \/ Script \/ Launch \/ NodeReady \/ Include \/ Finalize \/ ApiDies
       \/ \E n \in Nodes : NodeDies(n)
    /\ UNCHANGED tmux

Spec == Init /\ [][Next]_vars

\* The scripts and the node's start make progress; blocks, finality and the
\* death of processes are owed to nobody.
FairSpec == Spec /\ WF_vars(Script) /\ WF_vars(Launch) /\ WF_vars(NodeReady)

-----------------------------------------------------------------------------
\* No node of an earlier demo, and no call answered with an error.
Undisturbed == node["old"] = "off" /\ ~refused

\* What the reports stand for.  Success is a final transaction, always.  In an
\* undisturbed demo, with or without tmux, whatever dies or is not ready, the API
\* key was injected into the node that serves the demo; and when RUN.sh ends with
\* status 0 that node was built by then, took the transaction, and has both keys
\* as long as it lives: no step was skipped over a failure (RUN.sh:5, set -e).
\* Of a disturbed demo it says no more: inject-api-key.sh:58 reports success over
\* an error that was answered, and an older node may take every call while the
\* new one is not even built.  Nor of "Key inserted!" (insert-key.sh:33) before
\* status 0: it is printed when nobody listens.
OkMeansDone ==
    /\ "success" \in said => tx = "finalized"
    /\ Undisturbed /\ "injected" \in said /\ node["new"] = "ready" => "new" \in keys
    /\ Undisturbed /\ status = "ok" =>
           /\ built /\ home = "new"
           /\ {"injected", "inserted", "success"} \subseteq said
           /\ node["new"] = "ready" => "new" \in keys \cap signers

\* RUN.sh ends, one way or the other, unless the test script waits for a node
\* that is not there (test-offchain-worker.js:25 has no timeout).
DemoEnds == <>(pc = "exited") \/ <>[](pc = "test" /\ port = "none")
=============================================================================
