----------------------------- MODULE DemoProofs ------------------------------
(***************************************************************************)
(* What the demo's reports mean, and what its server answers: with and     *)
(* without tmux, whatever dies or comes too late, and for any clients and  *)
(* keys.                                                                   *)
(*                                                                         *)
(* OkMeansDone is not inductive.  A status of 0 says something about every *)
(* step before it because without tmux RUN.sh is at a step only after the  *)
(* ones before have succeeded (StepsDone).  The reports are about the node *)
(* that lives because a node is ready on port 9944 or, without an older    *)
(* one, nowhere (PortHeld), so that the node which answers one call of an  *)
(* undisturbed demo is the one that answers all later ones; and the new    *)
(* node is started once, when it has been built (BuiltFirst).              *)
(***************************************************************************)
EXTENDS Demo, TLAPS

\* Who listens is a node that lives; without an older node the new one listens
\* as soon as it is ready.
PortHeld ==
    /\ \A n \in Nodes : port = n => node[n] \in {"ready", "ending"}
    /\ node["old"] # "booting" /\ node["new"] # "ending"
    /\ node["old"] = "off" /\ node["new"] = "ready" => port = "new"

\* The new node has got so far that what it has not got it never gets.
Started == node["new"] \in {"ready", "dead"}
Injected == Started /\ (node["new"] = "ready" => "new" \in keys)
Inserted == Started /\ (node["new"] = "ready" => "new" \in signers)

\* The steps that come after each of the reports, when no failure is skipped.
AfterInjection == {"insert", "test", "submit", "await", "cleanup"}
AfterInsertion == {"test", "submit", "await", "cleanup"}

StepsDone ==
    /\ Undisturbed /\ (pc = "verify" \/ "injected" \in said) => Injected
    /\ ~tmux /\ pc \in AfterInjection => "injected" \in said
    /\ ~tmux /\ pc \in AfterInsertion => "inserted" \in said
    /\ Undisturbed /\ ~tmux /\ pc \in AfterInsertion => Inserted
    /\ Undisturbed /\ pc \in {"await", "cleanup"} => home = "new"
    /\ Undisturbed /\ status = "ok" => Injected /\ Inserted
    /\ status = "ok" => pc = "exited"
    /\ pc = "cleanup" => "success" \in said
    /\ "success" \in said => pc \in {"cleanup", "exited"}

\* The node is built before it is started, and started once.
BuiltFirst ==
    /\ pc \in {"api", "node"} => launcher = "off"
    /\ launcher \in {"off", "check", "build", "pkill", "start"} => node["new"] = "off"
    /\ launcher \in {"pkill", "start", "wait"} => built
    /\ node["new"] # "off" => built
    /\ home = "new" => built

RunInv == TypeOK /\ OkMeansDone /\ PortHeld /\ StepsDone /\ BuiltFirst

IInv == RunInv /\ Api!TypeOK /\ Api!KeyDecides

-----------------------------------------------------------------------------
(* The scripts, the node and the chain.                                     *)

LEMMA InitRunInv == Init => RunInv
<1> SUFFICES ASSUME Init PROVE RunInv
  OBVIOUS
<1>1. PICK old \in {"off", "ready"} :
          node = [n \in Nodes |-> IF n = "old" THEN old ELSE "off"]
  BY DEF Init
<1>2. node["old"] = old /\ node["new"] = "off"
  BY <1>1 DEF Nodes
<1>3. TypeOK
  <2>1. /\ node \in [Nodes -> {"off", "booting", "ready", "ending", "dead"}]
        /\ port \in Nodes \cup {"none"} /\ home \in Nodes \cup {"none"}
        /\ keys \subseteq Nodes /\ signers \subseteq Nodes
    BY <1>1, <1>2 DEF Init, Nodes
  <2>2. QED
    BY <2>1, Zenon DEF Init, TypeOK, Steps
<1>4. QED
  BY <1>2, <1>3 DEF Init, RunInv, OkMeansDone, Undisturbed, PortHeld, Started, Injected,
                    Inserted, AfterInjection, AfterInsertion, StepsDone, BuiltFirst, Nodes

\* What a script does changes no more than these types.
LEMMA ScriptTypes ==
    ASSUME TypeOK, UNCHANGED <<tmux, api, launcher, built, node, port>>,
           pc' \in Steps, status' \in {"none", "ok", "failed", "prompt"},
           said' \subseteq {"injected", "inserted", "success", "timeout"},
           keys' \subseteq Nodes, signers' \subseteq Nodes, refused' \in BOOLEAN,
           home' \in Nodes \cup {"none"},
           tx' \in {"none", "pending", "in_block", "finalized"}
    PROVE  TypeOK'
BY Zenon DEF TypeOK

\* A failure without tmux ends RUN.sh; with tmux the window goes on elsewhere,
\* past the reports that were not made.
LEMMA AbortRunInv ==
    ASSUME RunInv, NEW next \in {"insert", "exited"}, Abort(next), UNCHANGED tmux,
           said' = said \/ said' = said \cup {"timeout"},
           pc \in {"inject", "verify", "submit", "await"}
    PROVE  RunInv'
<1>1. /\ api' = api /\ launcher' = launcher /\ built' = built /\ node' = node /\ port' = port
      /\ keys' = keys /\ signers' = signers /\ refused' = refused
      /\ home' = home /\ tx' = tx /\ tmux' = tmux
  BY DEF Abort, procs, storage, transaction
<1>2. /\ pc' = "exited" \/ (tmux /\ pc' = next)
      /\ status' \in {"prompt", "failed"} \/ status' = status
  <2>1. CASE tmux
    BY <2>1 DEF Abort
  <2>2. CASE ~tmux
    <3>1. pc' = "exited" /\ status' = "failed"
      BY <2>2 DEF Abort
    <3>2. status' \in {"prompt", "failed"}
      BY <3>1
    <3>3. QED
      BY <3>1, <3>2, Zenon
  <2>3. QED
    BY <2>1, <2>2
<1>3. TypeOK'
  <2>1. pc' \in Steps /\ status' \in {"none", "ok", "failed", "prompt"}
    BY <1>2 DEF RunInv, TypeOK, Steps
  <2>2. said' \subseteq {"injected", "inserted", "success", "timeout"}
    BY DEF RunInv, TypeOK
  <2>3. /\ keys' \subseteq Nodes /\ signers' \subseteq Nodes /\ refused' \in BOOLEAN
        /\ home' \in Nodes \cup {"none"}
        /\ tx' \in {"none", "pending", "in_block", "finalized"}
    BY <1>1, Zenon DEF RunInv, TypeOK
  <2>4. TypeOK /\ UNCHANGED <<tmux, api, launcher, built, node, port>>
    BY <1>1, Zenon DEF RunInv
  <2>5. QED
    BY <2>1, <2>2, <2>3, <2>4, ScriptTypes
<1>4. "success" \notin said /\ status # "ok"
  BY DEF RunInv, StepsDone
<1>5. "success" \notin said' /\ status' # "ok" /\ ("injected" \in said' <=> "injected" \in said)
  BY <1>2, <1>4
<1>6. OkMeansDone' /\ StepsDone'
  BY <1>1, <1>2, <1>5
     DEF RunInv, OkMeansDone, Undisturbed, StepsDone, AfterInjection, AfterInsertion,
         Started, Injected, Inserted
<1>7. PortHeld' /\ BuiltFirst'
  BY <1>1, <1>2 DEF RunInv, PortHeld, BuiltFirst
<1>8. QED
  BY <1>3, <1>6, <1>7 DEF RunInv

LEMMA ScriptRunInv ==
    ASSUME RunInv, Script, UNCHANGED tmux
    PROVE  RunInv'
<1> USE DEF RunInv, TypeOK, Steps, Nodes, OkMeansDone, Undisturbed, PortHeld, Started,
        Injected, Inserted, StepsDone, AfterInjection, AfterInsertion, BuiltFirst,
        procs, storage, transaction
<1>1. CASE StartApi
  BY <1>1 DEF StartApi
<1>2. CASE StartNode
  BY <1>2 DEF StartNode
<1>3. CASE Inject
  <2>1. CASE port = "none" /\ Abort("insert") /\ UNCHANGED said
    BY <1>3, <2>1, AbortRunInv DEF Inject
  <2>2. CASE port # "none" /\ pc' = "verify"
    <3>1. /\ status' = status /\ api' = api /\ launcher' = launcher /\ built' = built
          /\ node' = node /\ port' = port /\ signers' = signers /\ home' = home /\ tx' = tx
          /\ said' = said /\ tmux' = tmux /\ pc = "inject" /\ pc' = "verify"
      BY <1>3, <2>2 DEF Inject, Abort
    <3>2. \/ keys' = keys \cup {port} /\ refused' = refused
          \/ refused' = TRUE /\ keys' = keys
      BY <1>3, <2>2 DEF Inject, Abort
    <3>3. CASE keys' = keys \cup {port} /\ refused' = refused
      BY <2>2, <3>1, <3>3
    <3>4. CASE refused' = TRUE /\ keys' = keys
      BY <2>2, <3>1, <3>4
    <3>5. QED
      BY <3>2, <3>3, <3>4
  <2>3. QED
    BY <1>3, <2>1, <2>2 DEF Inject
<1>4. CASE Verify
  <2>1. CASE port = "none" /\ Abort("insert") /\ UNCHANGED said
    BY <1>4, <2>1, AbortRunInv DEF Verify
  <2>2. CASE port # "none" /\ pc' = "insert"
    <3>1. /\ pc' = "insert" /\ said' = said \cup {"injected"} /\ pc = "verify"
          /\ status' = status /\ api' = api /\ launcher' = launcher /\ built' = built
          /\ node' = node /\ port' = port /\ keys' = keys /\ signers' = signers
          /\ refused' = refused /\ home' = home /\ tx' = tx /\ tmux' = tmux
      BY <1>4, <2>2 DEF Verify, Abort
    <3>2. QED
      BY <2>2, <3>1
  <2>3. QED
    BY <1>4, <2>1, <2>2 DEF Verify
<1>5. CASE InsertKey
  <2>1. /\ pc = "insert" /\ pc' = "test" /\ said' = said \cup {"inserted"}
        /\ status' = status /\ api' = api /\ launcher' = launcher /\ built' = built
        /\ node' = node /\ port' = port /\ keys' = keys /\ home' = home /\ tx' = tx
        /\ tmux' = tmux
    BY <1>5 DEF InsertKey
  <2>2. CASE port # "none" /\ signers' = signers \cup {port} /\ refused' = refused
    BY <2>1, <2>2
  <2>3. CASE refused' = TRUE /\ signers' = signers
    BY <2>1, <2>3
  <2>4. CASE port = "none" /\ signers' = signers /\ refused' = refused
    BY <2>1, <2>4
  <2>5. QED
    BY <1>5, <2>2, <2>3, <2>4 DEF InsertKey
<1>6. CASE Connect
  BY <1>6 DEF Connect
<1>7. CASE Submit
  <2>1. CASE Abort("exited") /\ UNCHANGED said
    BY <1>7, <2>1, AbortRunInv DEF Submit
  <2>2. CASE port # "none" /\ pc' = "await"
    <3>1. /\ pc = "submit" /\ pc' = "await" /\ home' = port /\ tx' = "pending"
          /\ status' = status /\ api' = api /\ launcher' = launcher /\ built' = built
          /\ node' = node /\ port' = port /\ keys' = keys /\ signers' = signers
          /\ refused' = refused /\ said' = said /\ tmux' = tmux
      BY <1>7, <2>2 DEF Submit, Abort
    <3>2. QED
      BY <2>2, <3>1
  <2>3. QED
    BY <1>7, <2>1, <2>2 DEF Submit
<1>8. CASE AwaitFinalized
  BY <1>8 DEF AwaitFinalized
<1>9. CASE Timeout
  <2>1. Abort("exited") /\ said' = said \cup {"timeout"} /\ pc = "await"
    BY <1>9 DEF Timeout
  <2>2. QED
    BY <2>1, AbortRunInv
<1>10. CASE Cleanup
  BY <1>10 DEF Cleanup
<1>11. QED
  BY <1>1, <1>2, <1>3, <1>4, <1>5, <1>6, <1>7, <1>8, <1>9, <1>10 DEF Script

LEMMA LaunchRunInv ==
    ASSUME RunInv, Launch \/ NodeReady \/ ApiDies, UNCHANGED tmux
    PROVE  RunInv'
<1> USE DEF RunInv, TypeOK, Steps, Nodes, OkMeansDone, Undisturbed, PortHeld, Started,
        Injected, Inserted, StepsDone, AfterInjection, AfterInsertion, BuiltFirst,
        procs, storage, transaction
<1>1. CASE CheckBinary
  BY <1>1 DEF CheckBinary
<1>2. CASE CargoBuild
  <2>1. /\ pc' = pc /\ status' = status /\ api' = api /\ node' = node /\ port' = port
        /\ keys' = keys /\ signers' = signers /\ refused' = refused /\ home' = home
        /\ tx' = tx /\ said' = said /\ tmux' = tmux /\ launcher = "build"
    BY <1>2 DEF CargoBuild
  <2>2. \/ launcher' = "pkill" /\ built' = TRUE
        \/ launcher' = "dead" /\ built' = built
    BY <1>2 DEF CargoBuild
  <2>3. CASE launcher' = "pkill" /\ built' = TRUE
    BY <2>1, <2>3
  <2>4. CASE launcher' = "dead" /\ built' = built
    BY <2>1, <2>4
  <2>5. QED
    BY <2>2, <2>3, <2>4
<1>3. CASE Pkill
  <2>1. /\ pc' = pc /\ status' = status /\ api' = api /\ built' = built /\ port' = port
        /\ keys' = keys /\ signers' = signers /\ refused' = refused /\ home' = home
        /\ tx' = tx /\ said' = said /\ tmux' = tmux /\ launcher = "pkill"
        /\ launcher' = "start"
    BY <1>3 DEF Pkill
  <2>2. CASE node["old"] = "ready" /\ node' = [node EXCEPT !["old"] = "ending"]
    BY <2>1, <2>2
  <2>3. CASE node' = node
    BY <2>1, <2>3
  <2>4. QED
    BY <1>3, <2>2, <2>3 DEF Pkill
<1>4. CASE StartBinary
  <2>1. /\ pc' = pc /\ status' = status /\ api' = api /\ built' = built /\ port' = port
        /\ keys' = keys /\ signers' = signers /\ refused' = refused /\ home' = home
        /\ tx' = tx /\ said' = said /\ tmux' = tmux /\ launcher = "start"
        /\ launcher' = "wait" /\ node' = [node EXCEPT !["new"] = "booting"]
    BY <1>4 DEF StartBinary
  <2>2. QED
    BY <2>1
<1>5. CASE NodeReady
  BY <1>5 DEF NodeReady
<1>6. CASE ApiDies
  BY <1>6 DEF ApiDies
<1>7. QED
  BY <1>1, <1>2, <1>3, <1>4, <1>5, <1>6 DEF Launch

LEMMA ChainRunInv ==
    ASSUME RunInv, Include \/ Finalize \/ \E n \in Nodes : NodeDies(n), UNCHANGED tmux
    PROVE  RunInv'
<1> USE DEF RunInv, TypeOK, Steps, Nodes, OkMeansDone, Undisturbed, PortHeld, Started,
        Injected, Inserted, StepsDone, AfterInjection, AfterInsertion, BuiltFirst,
        procs, storage, transaction
<1>1. CASE Include
  BY <1>1 DEF Include
<1>2. CASE Finalize
  BY <1>2 DEF Finalize
<1>3. ASSUME NEW n \in Nodes, NodeDies(n)
      PROVE  RunInv'
  BY <1>3 DEF NodeDies
<1>4. QED
  BY <1>1, <1>2, <1>3

LEMMA NextRunInv ==
    ASSUME RunInv, [Next]_vars
    PROVE  RunInv'
<1>1. CASE UNCHANGED vars
  BY <1>1 DEF vars, RunInv, TypeOK, OkMeansDone, Undisturbed, PortHeld, Started, Injected,
              Inserted, StepsDone, BuiltFirst
<1>2. CASE Next
  BY <1>2, ScriptRunInv, LaunchRunInv, ChainRunInv DEF Next
<1>3. QED
  BY <1>1, <1>2

-----------------------------------------------------------------------------
(* The server.                                                              *)

LEMMA SendKept ==
    ASSUME Api!TypeOK, Api!KeyDecides, NEW c \in Clients, NEW rq \in Api!Requests,
           Api!Send(c, rq)
    PROVE  Api!TypeOK' /\ Api!KeyDecides'
<1>1. /\ request' = [request EXCEPT ![c] = rq]
      /\ answer' = [answer EXCEPT ![c] = Nothing]
      /\ validKey' = validKey /\ listening' = listening
  BY DEF Api!Send
<1>2. Api!TypeOK'
  BY <1>1 DEF Api!TypeOK
<1>3. Api!KeyDecides'
  <2>1. Api!Answered' \subseteq Api!Answered
    BY <1>1 DEF Api!Answered, Api!TypeOK
  <2>2. \A d \in Api!Answered' : answer'[d] = answer[d]
    BY <1>1 DEF Api!Answered, Api!TypeOK
  <2>3. QED
    BY <1>1, <2>1, <2>2 DEF Api!KeyDecides
<1>4. QED
  BY <1>2, <1>3

\* What the handler returns, whatever the request: the key comes before the
\* route, and only the preflight before the key.
LEMMA ResponseType ==
    ASSUME NEW rq \in Api!Requests
    PROVE  Api!Respond(rq).code \in {200, 401, 404} /\ Api!Respond(rq).body \in Api!Bodies
BY DEF Api!Requests, Api!Methods, Api!Paths, Api!Respond, Api!Route, Api!Bodies

LEMMA ResponseDecided ==
    ASSUME NEW rq \in Api!Requests
    PROVE  LET right == rq.auth # Nothing /\ rq.auth.key = validKey
           IN  /\ Api!Respond(rq).body = "data" => right
               /\ /\ rq.method = "GET" /\ rq.path # "/api/health"
                  /\ rq.auth # Nothing /\ rq.auth.scheme \in {"bare", "bearer"}
                  => (Api!Respond(rq).code # 401 <=> right)
BY DEF Api!Requests, Api!Methods, Api!Paths, Api!Respond, Api!Route, Api!Authorized

LEMMA HandleKept ==
    ASSUME Api!TypeOK, Api!KeyDecides, NEW c \in Clients, Api!Handle(c)
    PROVE  Api!TypeOK' /\ Api!KeyDecides'
<1> DEFINE rq == request[c]
           new == [to |-> rq, code |-> Api!Respond(rq).code, body |-> Api!Respond(rq).body]
<1>1. rq \in Api!Requests
  BY DEF Api!Handle, Api!TypeOK
<1>2. new \in Api!Answers
  BY <1>1, ResponseType DEF Api!Answers
<1>3. /\ answer' = [answer EXCEPT ![c] = new]
      /\ request' = [request EXCEPT ![c] = Nothing]
      /\ validKey' = validKey /\ listening' = listening
  BY DEF Api!Handle
<1>4. LET right == new.to.auth # Nothing /\ new.to.auth.key = validKey
      IN  /\ new.body = "data" => right
          /\ /\ new.to.method = "GET" /\ new.to.path # "/api/health"
             /\ new.to.auth # Nothing /\ new.to.auth.scheme \in {"bare", "bearer"}
             => (new.code # 401 <=> right)
  BY <1>1, ResponseDecided
<1> HIDE DEF new, rq
<1>5. Api!TypeOK'
  BY <1>2, <1>3 DEF Api!TypeOK
<1>6. Api!KeyDecides'
  <2>1. ASSUME NEW d \in Api!Answered', d # c
        PROVE  d \in Api!Answered /\ answer'[d] = answer[d]
    BY <1>3, <2>1 DEF Api!Answered, Api!TypeOK
  <2>2. answer'[c] = new
    BY <1>3 DEF Api!TypeOK
  <2>3. QED
    BY <1>3, <1>4, <2>1, <2>2 DEF Api!KeyDecides
<1>7. QED
  BY <1>5, <1>6

LEMMA ServerKept ==
    ASSUME Api!TypeOK, Api!KeyDecides, ServerStep
    PROVE  Api!TypeOK' /\ Api!KeyDecides'
<1>1. CASE Api!Listen
  BY <1>1 DEF Api!Listen, Api!TypeOK, Api!KeyDecides, Api!Answered
<1>2. ASSUME NEW c \in Clients, Ask(c)
      PROVE  Api!TypeOK' /\ Api!KeyDecides'
  <2>1. CASE Api!Curl(c)
    BY <2>1, SendKept DEF Api!Curl
  <2>2. CASE Api!Worker(c, DemoKey)
    <3>1. [method |-> "GET", path |-> "/basic-auth",
           auth |-> [scheme |-> "bare", key |-> DemoKey]] \in Api!Requests
      BY KeyAssumption DEF Api!Requests, Api!Methods, Api!Paths, Api!Headers
    <3>2. QED
      BY <2>2, <3>1, SendKept DEF Api!Worker
  <2>3. QED
    BY <1>2, <2>1, <2>2 DEF Ask
<1>3. ASSUME NEW c \in Clients, Api!Handle(c)
      PROVE  Api!TypeOK' /\ Api!KeyDecides'
  BY <1>3, HandleKept
<1>4. QED
  BY <1>1, <1>2, <1>3 DEF ServerStep

-----------------------------------------------------------------------------
(* The demo.                                                                *)

LEMMA InitIInv == DemoInit => IInv
<1> SUFFICES ASSUME DemoInit PROVE IInv
  OBVIOUS
<1>1. RunInv
  BY InitRunInv DEF DemoInit
<1>2. Api!TypeOK /\ Api!KeyDecides
  BY DEF DemoInit, Api!Init, Api!TypeOK, Api!KeyDecides, Api!Answered
<1>3. QED
  BY <1>1, <1>2 DEF IInv

LEMMA NextIInv == IInv /\ [DemoNext]_allVars => IInv'
<1> SUFFICES ASSUME IInv, [DemoNext]_allVars PROVE IInv'
  OBVIOUS
<1>1. RunInv'
  BY NextRunInv DEF IInv, DemoNext, RunStep, ServerStep, allVars
<1>2. Api!TypeOK' /\ Api!KeyDecides'
  <2>1. CASE UNCHANGED apiVars
    BY <2>1 DEF apiVars, IInv, Api!TypeOK, Api!KeyDecides, Api!Answered
  <2>2. CASE /\ listening' = FALSE /\ request' = [c \in Clients |-> Nothing]
             /\ UNCHANGED <<validKey, answer>>
    <3>1. Api!TypeOK'
      BY <2>2 DEF IInv, Api!TypeOK
    <3>2. Api!KeyDecides'
      BY <2>2 DEF IInv, Api!KeyDecides, Api!Answered
    <3>3. QED
      BY <3>1, <3>2
  <2>3. CASE ServerStep
    BY <2>3, ServerKept DEF IInv
  <2>4. QED
    BY <2>1, <2>2, <2>3 DEF DemoNext, RunStep, allVars
<1>3. QED
  BY <1>1, <1>2 DEF IInv

\* The inductive invariant holds in every reachable state.
THEOREM Invariance == DemoSpec => []IInv
BY InitIInv, NextIInv, PTL DEF DemoSpec

-----------------------------------------------------------------------------
(* What the runs check.                                                     *)

\* Every variable of the scripts, the node and the server keeps its type
\* (RUN.sh, http-api-server.js).
THEOREM TypeCorrect == DemoSpec => []DemoTypeOK
<1>1. IInv => DemoTypeOK
  BY DEF IInv, RunInv, DemoTypeOK
<1>2. QED
  BY <1>1, Invariance, PTL

\* A success is final; and in a demo that no older node and no error answer
\* disturb, the reports and the status 0 stand for what the node that serves it
\* holds and took, in both modes and whatever dies or is late (RUN.sh, set -e).
THEOREM ReportsAreTrue == DemoSpec => []OkMeansDone
<1>1. IInv => OkMeansDone
  BY DEF IInv, RunInv
<1>2. QED
  BY <1>1, Invariance, PTL

\* For any clients, keys and interleaving of requests with a server that comes
\* and goes, the key alone decides who gets data, and a header with or without
\* "Bearer " carries it (http-api-server.js:36,41).
THEOREM KeyAlwaysDecides == DemoSpec => []KeyDecides
<1>1. IInv => KeyDecides
  BY DEF IInv, KeyDecides
<1>2. QED
  BY <1>1, Invariance, PTL
=============================================================================
