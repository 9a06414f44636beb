--------------------------- MODULE OffchainWorker ---------------------------
(***************************************************************************)
(* The off-chain worker of pallet-ocw as the node runs it.                 *)
(*                                                                         *)
(* Every best-block notification starts one run of the pallet's            *)
(* `offchain_worker` hook.  The node's runner (node/src/service.rs) puts   *)
(* the run on the queue of a thread pool; on a pool thread the hook reads  *)
(* the API key from the node's local storage, sends one GET request that   *)
(* carries it, waits for the answer, collects the body and decodes it.     *)
(* Meanwhile an operator stores keys over RPC, the HTTP server answers or  *)
(* does not, connections break and the node restarts.                      *)
(*                                                                         *)
(* sp_runtime's http client, sc_offchain's pool and the HTTP server are    *)
(* not part of the repository: they are modelled from how it uses them.    *)
(*                                                                         *)
(* An uncommented definition just above an action is that action with a    *)
(* plausible mistake in it; no specification uses it.                      *)
(***************************************************************************)
EXTENDS Integers, Sequences, FiniteSets

CONSTANTS
    Runs,        \* the runs of the hook, one per best-block notification
    Keys,        \* the byte strings stored as API key that are valid UTF-8
    NotUtf8,     \* a stored byte string that is not valid UTF-8
    Absent,      \* nothing is stored under "api_key"
    PoolSize,    \* threads of the off-chain worker pool
    HttpEnabled, \* enable_http_requests of OffchainWorkerOptions
    Chunks       \* pieces in which the body of an answer reaches the node

ASSUME PoolAssumption == PoolSize \in Nat \ {0}
ASSUME ChunksAssumption == Chunks \in Nat
ASSUME HttpAssumption == HttpEnabled \in BOOLEAN
ASSUME KeysAssumption == NotUtf8 \notin Keys /\ Absent \notin Keys
                                             /\ NotUtf8 # Absent
ASSUME RunsAssumption == IsFiniteSet(Runs)

VARIABLES
    store,   \* what local storage (PERSISTENT) holds under "api_key"
    queue,   \* jobs handed to the thread pool and not yet taken
    pc,      \* where each run is
    key,     \* the hook's local variable api_key
    conn,    \* the HTTP request of the run, as the node's client sees it
    reply,   \* status line and kind of body the server answers with
    sent,    \* pieces of the body that reached the node
    got,     \* pieces of the body the run has collected
    result,  \* how the run's attempt to fetch ended
    seen     \* history: the values `store` had while the run was on a thread

vars == <<store, queue, pc, key, conn, reply, sent, got, result, seen>>
http == <<conn, reply, sent>>

Values == Keys \cup {NotUtf8, Absent}
NoReply == [code |-> 0, text |-> FALSE]
Replies == [code : {200, 401}, text : BOOLEAN]

OnThread == {"key", "request", "wait", "status", "body", "utf8", "report"}
Over == {"done", "lost"}
Places == {"idle", "notified", "queued"} \cup OnThread \cup Over
Results == {"none", "no_key", "panicked", "send_failed", "no_response",
            "bad_status", "bad_utf8", "ok"}

Busy == {r \in Runs : pc[r] \in OnThread}

TypeOK ==
    /\ store \in Values
    /\ queue \in Seq(Runs)
    /\ pc \in [Runs -> Places]
    /\ key \in [Runs -> Keys \cup {Absent}]
    /\ conn \in [Runs -> {"none", "open", "broken"}]
    /\ reply \in [Runs -> Replies \cup {NoReply}]
    /\ sent \in [Runs -> 0..Chunks]
    /\ got \in [Runs -> 0..Chunks]
    /\ result \in [Runs -> Results]
    /\ seen \in [Runs -> SUBSET Values]

Init ==
    /\ store = Absent
    /\ queue = <<>>
    /\ pc = [r \in Runs |-> "idle"]
    /\ key = [r \in Runs |-> Absent]
    /\ conn = [r \in Runs |-> "none"]
    /\ reply = [r \in Runs |-> NoReply]
    /\ sent = [r \in Runs |-> 0]
    /\ got = [r \in Runs |-> 0]
    /\ result = [r \in Runs |-> "none"]
    /\ seen = [r \in Runs |-> {}]

Move(r, from, to) ==
    /\ pc[r] = from
    /\ pc' = [pc EXCEPT ![r] = to]

\* The hook goes on after `fetch_string`, or ends, with outcome e.
Outcome(r, e) == result' = [result EXCEPT ![r] = e]

-----------------------------------------------------------------------------
(* The runner: OffchainWorkers::run and its thread pool.                   *)

\* A new best block is imported: a task that will queue the job is spawned.
Notify(r) ==
    /\ Move(r, "idle", "notified")
    /\ UNCHANGED <<store, queue, key, http, got, result, seen>>

\* The task hands the job to the pool.  Tasks of different blocks may do so
\* in any order.
Enqueue(r) ==
    /\ Move(r, "notified", "queued")
    /\ queue' = Append(queue, r)
    /\ UNCHANGED <<store, key, http, got, result, seen>>

StartAndRequeue(r) ==
    /\ queue # <<>> /\ r = Head(queue)
    /\ Cardinality(Busy) < PoolSize
    /\ queue' = Append(Tail(queue), r)
    /\ Move(r, "queued", "key")
    /\ seen' = [seen EXCEPT ![r] = {store}]
    /\ UNCHANGED <<store, key, http, got, result>>

\* A free thread takes the oldest job; the hook starts.
Start(r) ==
    /\ queue # <<>> /\ r = Head(queue)
    /\ Cardinality(Busy) < PoolSize
    /\ queue' = Tail(queue)
    /\ Move(r, "queued", "key")
    /\ seen' = [seen EXCEPT ![r] = {store}]
    /\ UNCHANGED <<store, key, http, got, result>>

-----------------------------------------------------------------------------
(* The operator: offchain_localStorageSet.                                 *)

StoreApiKey(v) ==
    /\ store' = v
    /\ seen' = [r \in Runs |-> IF r \in Busy THEN seen[r] \cup {v} ELSE seen[r]]
    /\ UNCHANGED <<queue, pc, key, http, got, result>>

-----------------------------------------------------------------------------
(* The hook: key, request, answer.                                         *)

FetchApiKeyOnce(r) ==
    LET known == {q \in Runs : key[q] # Absent}
        cached == IF known = {} THEN store ELSE key[CHOOSE q \in known : TRUE]
    IN  /\ pc[r] = "key"
        /\ \/ /\ cached = Absent
              /\ Outcome(r, "no_key") /\ Move(r, "key", "done")
              /\ UNCHANGED key
           \/ /\ cached = NotUtf8
              /\ Outcome(r, "panicked") /\ Move(r, "key", "done")
              /\ UNCHANGED key
           \/ /\ cached \in Keys
              /\ key' = [key EXCEPT ![r] = cached]
              /\ Move(r, "key", "request") /\ UNCHANGED result
        /\ UNCHANGED <<store, queue, http, got, seen>>

FetchApiKeyNoRetry(r) ==
    LET missed == \E q \in Runs : result[q] = "no_key"
    IN  /\ \/ /\ store = Absent \/ missed
              /\ Outcome(r, "no_key") /\ Move(r, "key", "done")
              /\ UNCHANGED key
           \/ /\ store = NotUtf8 /\ ~missed
              /\ Outcome(r, "panicked") /\ Move(r, "key", "done")
              /\ UNCHANGED key
           \/ /\ store \in Keys /\ ~missed
              /\ key' = [key EXCEPT ![r] = store]
              /\ Move(r, "key", "request") /\ UNCHANGED result
        /\ UNCHANGED <<store, queue, http, got, seen>>

\* fetch_api_key_for_request("api_key"): nothing stored makes the hook return
\* early, bytes that are not UTF-8 make the `expect` panic, which ends the run.
FetchApiKey(r) ==
    /\ \/ /\ store = Absent
          /\ Outcome(r, "no_key") /\ Move(r, "key", "done")
          /\ UNCHANGED key
       \/ /\ store = NotUtf8
          /\ Outcome(r, "panicked") /\ Move(r, "key", "done")
          /\ UNCHANGED key
       \/ /\ store \in Keys
          /\ key' = [key EXCEPT ![r] = store]
          /\ Move(r, "key", "request") /\ UNCHANGED result
    /\ UNCHANGED <<store, queue, http, got, seen>>

SendWithStoredKey(r) ==
    /\ \/ /\ Outcome(r, "send_failed") /\ Move(r, "request", "report")
          /\ UNCHANGED <<conn, key>>
       \/ /\ conn' = [conn EXCEPT ![r] = "open"]
          /\ key' = [key EXCEPT ![r] = IF store \in Keys THEN store ELSE @]
          /\ Move(r, "request", "wait") /\ UNCHANGED result
    /\ UNCHANGED <<store, queue, reply, sent, got, seen>>

\* The deadline needs `timestamp()`, a host call that traps when the runner
\* was built without HTTP; then the request is sent, or the client refuses it.
Send(r) ==
    /\ \/ /\ ~HttpEnabled
          /\ Outcome(r, "panicked") /\ Move(r, "request", "done")
          /\ UNCHANGED conn
       \/ /\ HttpEnabled
          /\ Outcome(r, "send_failed") /\ Move(r, "request", "report")
          /\ UNCHANGED conn
       \/ /\ HttpEnabled
          /\ conn' = [conn EXCEPT ![r] = "open"]
          /\ Move(r, "request", "wait") /\ UNCHANGED result
    /\ UNCHANGED <<store, queue, key, reply, sent, got, seen>>

\* pending.wait() has no deadline: it returns on an answer or an I/O error.
Wait(r) ==
    /\ \/ /\ reply[r] # NoReply
          /\ Move(r, "wait", "status") /\ UNCHANGED result
       \/ /\ reply[r] = NoReply /\ conn[r] = "broken"
          /\ Outcome(r, "no_response") /\ Move(r, "wait", "report")
    /\ UNCHANGED <<store, queue, key, http, got, seen>>

CheckStatusLater(r) ==
    /\ Move(r, "status", "body")
    /\ UNCHANGED <<store, queue, key, http, got, result, seen>>

CheckStatus(r) ==
    /\ \/ /\ reply[r].code # 200
          /\ Outcome(r, "bad_status") /\ Move(r, "status", "report")
       \/ /\ reply[r].code = 200
          /\ Move(r, "status", "body") /\ UNCHANGED result
    /\ UNCHANGED <<store, queue, key, http, got, seen>>

ReadBodyPastEnd(r) ==
    /\ \/ /\ got[r] <= sent[r]
          /\ got' = [got EXCEPT ![r] = @ + 1]
          /\ Move(r, "body", "body")
       \/ /\ got[r] = Chunks
          /\ Move(r, "body", "utf8") /\ UNCHANGED got
    /\ UNCHANGED <<store, queue, key, http, result, seen>>

ReadBodyWaitingForAll(r) ==
    /\ \/ /\ got[r] < sent[r]
          /\ got' = [got EXCEPT ![r] = @ + 1]
          /\ Move(r, "body", "body")
       \/ /\ got[r] = Chunks
          /\ Move(r, "body", "utf8") /\ UNCHANGED got
    /\ UNCHANGED <<store, queue, key, http, result, seen>>

\* body().collect(): the iterator ends at the end of the body, and also, the
\* error unseen, when the connection breaks.
ReadBody(r) ==
    /\ \/ /\ got[r] < sent[r]
          /\ got' = [got EXCEPT ![r] = @ + 1]
          /\ Move(r, "body", "body")
       \/ /\ got[r] = sent[r]
          /\ got[r] = Chunks \/ conn[r] = "broken"
          /\ Move(r, "body", "utf8") /\ UNCHANGED got
    /\ UNCHANGED <<store, queue, key, http, result, seen>>

\* String::from_utf8 accepts a whole body that is text and the empty body; a
\* body cut short may or may not end inside a character.
Parses(r) ==
    IF got[r] = 0 THEN {TRUE}
    ELSE IF got[r] = Chunks THEN {reply[r].text} ELSE BOOLEAN

Parse(r) ==
    /\ \E valid \in Parses(r) : Outcome(r, IF valid THEN "ok" ELSE "bad_utf8")
    /\ Move(r, "utf8", "report")
    /\ UNCHANGED <<store, queue, key, http, got, seen>>

\* Both arms of the last match log; the hook returns and frees its thread.
Report(r) ==
    /\ Move(r, "report", "done")
    /\ UNCHANGED <<store, queue, key, http, got, result, seen>>

-----------------------------------------------------------------------------
(* The server and the network, while the run still listens.                *)

Listening(r) == pc[r] \in {"wait", "status", "body"} /\ conn[r] = "open"

Answer(r) ==
    /\ Listening(r) /\ reply[r] = NoReply
    /\ \E a \in Replies : reply' = [reply EXCEPT ![r] = a]
    /\ UNCHANGED <<store, queue, pc, key, conn, sent, got, result, seen>>

SendChunk(r) ==
    /\ Listening(r) /\ reply[r] # NoReply /\ sent[r] < Chunks
    /\ sent' = [sent EXCEPT ![r] = @ + 1]
    /\ UNCHANGED <<store, queue, pc, key, conn, reply, got, result, seen>>

Break(r) ==
    /\ Listening(r)
    /\ conn' = [conn EXCEPT ![r] = "broken"]
    /\ UNCHANGED <<store, queue, pc, key, reply, sent, got, result, seen>>

-----------------------------------------------------------------------------
(* The node stops and starts again: tasks, jobs and requests are gone, what *)
(* is in PERSISTENT local storage stays.                                    *)

Stopped == [r \in Runs |-> IF pc[r] \in {"idle", "done"} THEN pc[r] ELSE "lost"]

Restart ==
    /\ pc' = Stopped
    /\ queue' = <<>>
    /\ UNCHANGED <<store, key, http, got, result, seen>>

-----------------------------------------------------------------------------
Hook(r) == \/ FetchApiKey(r) \/ Send(r) \/ Wait(r) \/ CheckStatus(r)
           \/ ReadBody(r) \/ Parse(r) \/ Report(r)

Server(r) == Answer(r) \/ SendChunk(r)

Next ==
    \/ \E r \in Runs : \/ Notify(r) \/ Enqueue(r) \/ Start(r) \/ Hook(r)
                       \/ Server(r) \/ Break(r)
    \/ \E v \in Values \ {Absent} : StoreApiKey(v)
    \/ Restart

Spec == Init /\ [][Next]_vars

\* Tokio polls every task, a free pool thread takes the next job and the
\* thread of a run executes it.
NodeFairness ==
    \A r \in Runs : WF_vars(Enqueue(r)) /\ WF_vars(Start(r)) /\ WF_vars(Hook(r))

\* A server that answers every request and sends the whole body, unless the
\* connection breaks.
ServerFairness == \A r \in Runs : WF_vars(Server(r))

FairSpec == Spec /\ NodeFairness
LiveSpec == FairSpec /\ ServerFairness

-----------------------------------------------------------------------------
(* Safety.                                                                  *)

\* The pool's queue holds each waiting run once and nothing else, also after
\* a restart: no job is lost, run twice, or left over from a dead process
\* (service.rs, the "offchain-workers-runner" task).
QueueExact ==
    /\ \A r \in Runs : pc[r] = "queued" <=> \E i \in 1..Len(queue) : queue[i] = r
    /\ \A i, j \in 1..Len(queue) : queue[i] = queue[j] => i = j

\* The key a run sends was in local storage at some moment since this run
\* started, however keys are rotated and whatever other runs have read
\* (pallet lib.rs, get_api_key is called afresh by every run).
KeyReadByThisRun ==
    \A r \in Runs : key[r] # Absent => key[r] \in seen[r] \cap Keys

\* No request leaves the node without a key that was read and is valid UTF-8
\* (pallet lib.rs, the early return when there is no key).
RequestHasKey == \A r \in Runs : conn[r] # "none" => key[r] \in Keys

\* A run that stopped before or in `send` has left no request behind: the
\* panics and the early return happen before anything is on the wire
\* (offchain_api_key.rs, fetcher.rs up to `send`).
FailedRunsSendNothing ==
    \A r \in Runs :
        result[r] \in {"no_key", "panicked", "send_failed"} => conn[r] = "none"

\* A run gives up before it tries to send only for a reason of its own time: at
\* some moment while it was running local storage held no valid key, or the
\* runner has no HTTP (lib.rs, the early return; fetcher.rs:31).  Runs that
\* failed before, and what storage held then, are no reason; so a key that is
\* stored once and stays is used by every later run.  Whether bytes that are not
\* a key end a run in a panic, as in the code, or in the error that
\* offchain_api_key.rs:11 words, is left open.
GivesUpForAReason ==
    \A r \in Runs :
        result[r] \in {"no_key", "panicked"} => ~(seen[r] \subseteq Keys) \/ ~HttpEnabled

\* Success is reported only for a 200 answer whose body, when it is whole,
\* is text (fetcher.rs, the status check and from_utf8).
OkIsATextualSuccess ==
    \A r \in Runs : result[r] = "ok" =>
        /\ reply[r].code = 200
        /\ got[r] = Chunks => reply[r].text \/ Chunks = 0

\* With enable_http_requests = false, as service.rs builds the runner, no run
\* ever sends anything, and every run that found a key ends in a panic.
NothingSentWithoutHttp ==
    ~HttpEnabled => \A r \in Runs :
        /\ conn[r] = "none"
        /\ result[r] \in {"none", "no_key", "panicked"}

\* Once a key is stored the node is never without one again, not even after
\* a restart (StorageKind::PERSISTENT).
KeyOutlivesTheNode == [][store # Absent => store' # Absent]_vars

-----------------------------------------------------------------------------
(* The contract.  A run has asked once its request is out; the runner's     *)
(* queue, the reading of the answer and the reports are invisible to it.    *)

Phase(r) ==
    IF pc[r] = "idle" THEN "idle"
    ELSE IF pc[r] \in {"notified", "queued", "key"} THEN "pending"
    ELSE IF pc[r] = "request" THEN "keyed"
    ELSE IF pc[r] \notin Over /\ conn[r] # "none" THEN "asked" ELSE "over"

Contract == INSTANCE WorkerContract
    WITH phase <- [r \in Runs |-> Phase(r)], used <- key

\* The runs do what WorkerContract says: a run takes the stored key at one
\* moment, sends at most one request, with that key, and ends once.
ImplementsContract == Contract!CSpec

-----------------------------------------------------------------------------
(* Liveness.                                                                *)

\* When servers answer, every run that was announced ends: it is never stuck
\* behind runs that hold the pool's threads (the hook returns, in every arm).
EveryRunEnds ==
    \A r \in Runs : pc[r] = "notified" ~> pc[r] \in Over

\* The README says that the worker, once it has the key, makes the
\* authenticated request.
KeyedRunsSend ==
    \A r \in Runs :
        pc[r] = "request" ~>
            conn[r] # "none" \/ result[r] = "send_failed" \/ pc[r] = "lost"

\* fetcher.rs:29: `fetch` returns the response body, not a part of it.
OkIsTheWholeBody ==
    \A r \in Runs : result[r] = "ok" => got[r] = Chunks
=============================================================================
