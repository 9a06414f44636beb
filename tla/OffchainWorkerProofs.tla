------------------------ MODULE OffchainWorkerProofs ------------------------
(***************************************************************************)
(* Proofs about OffchainWorker, for any set of runs, keys, threads, pieces *)
(* of body, and with HTTP enabled or not.                                  *)
(***************************************************************************)
EXTENDS OffchainWorker, TLAPS

\* What holds of one run at each place of the hook.
Staged(r) ==
    /\ pc[r] \in {"idle", "notified", "queued", "key"} =>
           key[r] = Absent /\ conn[r] = "none" /\ result[r] = "none"
    /\ pc[r] = "request" =>
           key[r] \in Keys /\ conn[r] = "none" /\ result[r] = "none"
    /\ pc[r] \in {"wait", "status", "body", "utf8"} =>
           conn[r] # "none" /\ result[r] = "none" /\ HttpEnabled
    /\ pc[r] \in {"body", "utf8"} => reply[r].code = 200
    /\ pc[r] = "utf8" \/ result[r] = "ok" => reply[r].code = 200
    /\ pc[r] \in OnThread => store \in seen[r]
    /\ pc[r] = "report" => HttpEnabled
    /\ key[r] # Absent => key[r] \in seen[r] /\ key[r] \in Keys
    /\ conn[r] # "none" => key[r] \in Keys /\ HttpEnabled
    /\ result[r] \in {"no_key", "panicked", "send_failed"} => conn[r] = "none"
    /\ result[r] = "no_key" => Absent \in seen[r]
    /\ result[r] = "panicked" => NotUtf8 \in seen[r] \/ ~HttpEnabled
    /\ ~HttpEnabled => result[r] \in {"none", "no_key", "panicked"}
    /\ result[r] = "ok" => pc[r] \in {"report", "done", "lost"}
                           /\ (got[r] = Chunks => reply[r].text \/ Chunks = 0)

IInv == TypeOK /\ \A r \in Runs : Staged(r)

-----------------------------------------------------------------------------
LEMMA InitType == Init => TypeOK
  BY ChunksAssumption, KeysAssumption
  DEF Init, TypeOK, Values, Places, Results, Replies, NoReply, OnThread, Over

LEMMA InitIInv == Init => IInv
  <1> SUFFICES ASSUME Init PROVE IInv
    OBVIOUS
  <1>1. TypeOK
    BY InitType
  <1>2. ASSUME NEW r \in Runs PROVE Staged(r)
    BY DEF Init, Staged, OnThread
  <1> QED
    BY <1>1, <1>2 DEF IInv

\* Every action of every run preserves it.  A step changes the variables at
\* one run only: the others keep their place and their data.
LEMMA NotifyIInv == ASSUME IInv, NEW r \in Runs, Notify(r) PROVE IInv'
  <1>1. TypeOK'
    BY DEF IInv, TypeOK, Notify, Move, http, Places
  <1>2. ASSUME NEW q \in Runs PROVE Staged(q)'
    BY DEF IInv, TypeOK, Notify, Move, http, Staged, OnThread
  <1> QED
    BY <1>1, <1>2 DEF IInv

LEMMA EnqueueIInv == ASSUME IInv, NEW r \in Runs, Enqueue(r) PROVE IInv'
  <1>1. TypeOK'
    BY DEF IInv, TypeOK, Enqueue, Move, http, Places
  <1>2. ASSUME NEW q \in Runs PROVE Staged(q)'
    BY DEF IInv, TypeOK, Enqueue, Move, http, Staged, OnThread
  <1> QED
    BY <1>1, <1>2 DEF IInv

LEMMA StartIInv == ASSUME IInv, NEW r \in Runs, Start(r) PROVE IInv'
  <1>1. TypeOK'
    BY DEF IInv, TypeOK, Start, Move, http, Places, OnThread
  <1>2. ASSUME NEW q \in Runs PROVE Staged(q)'
    BY DEF IInv, TypeOK, Start, Move, http, Staged, OnThread
  <1> QED
    BY <1>1, <1>2 DEF IInv

LEMMA StoreIInv == ASSUME IInv, NEW v \in Values \ {Absent}, StoreApiKey(v)
                   PROVE IInv'
  <1>1. TypeOK'
    BY DEF IInv, TypeOK, StoreApiKey, http
  <1>2. ASSUME NEW q \in Runs PROVE Staged(q)'
    BY DEF IInv, TypeOK, StoreApiKey, http, Staged, Busy
  <1> QED
    BY <1>1, <1>2 DEF IInv

LEMMA FetchApiKeyIInv == ASSUME IInv, NEW r \in Runs, FetchApiKey(r) PROVE IInv'
  <1> USE DEF FetchApiKey, Outcome, Move, http
  <1>1. pc' \in [Runs -> Places]
    BY DEF IInv, TypeOK, Places, Over, OnThread
  <1>2. result' \in [Runs -> Results]
    BY DEF IInv, TypeOK, Results
  <1>3. key' \in [Runs -> Keys \cup {Absent}]
    BY DEF IInv, TypeOK
  <1>4. TypeOK'
    BY <1>1, <1>2, <1>3 DEF IInv, TypeOK
  <1>5. ASSUME NEW q \in Runs PROVE Staged(q)'
    BY KeysAssumption DEF IInv, TypeOK, Staged, OnThread
  <1> QED
    BY <1>4, <1>5 DEF IInv

LEMMA SendIInv == ASSUME IInv, NEW r \in Runs, Send(r) PROVE IInv'
  <1> USE DEF Send, Outcome, Move, http
  <1>1. pc' \in [Runs -> Places]
    BY DEF IInv, TypeOK, Places, Over, OnThread
  <1>2. result' \in [Runs -> Results]
    BY DEF IInv, TypeOK, Results
  <1>3. conn' \in [Runs -> {"none", "open", "broken"}]
    BY DEF IInv, TypeOK
  <1>4. TypeOK'
    BY <1>1, <1>2, <1>3 DEF IInv, TypeOK
  <1>5. ASSUME NEW q \in Runs PROVE Staged(q)'
    BY KeysAssumption DEF IInv, TypeOK, Staged, OnThread
  <1> QED
    BY <1>4, <1>5 DEF IInv

LEMMA WaitIInv == ASSUME IInv, NEW r \in Runs, Wait(r) PROVE IInv'
  <1> USE DEF Wait, Outcome, Move, http
  <1>1. pc' \in [Runs -> Places]
    BY DEF IInv, TypeOK, Places, Over, OnThread
  <1>2. result' \in [Runs -> Results]
    BY DEF IInv, TypeOK, Results
  <1>3. TypeOK'
    BY <1>1, <1>2 DEF IInv, TypeOK
  <1>4. ASSUME NEW q \in Runs PROVE Staged(q)'
    BY DEF IInv, TypeOK, Staged, OnThread
  <1> QED
    BY <1>3, <1>4 DEF IInv

LEMMA CheckStatusIInv == ASSUME IInv, NEW r \in Runs, CheckStatus(r) PROVE IInv'
  <1> USE DEF Outcome, Move, http
  <1>1. pc' \in [Runs -> Places] /\ result' \in [Runs -> Results]
    <2>1. CASE reply[r].code = 200
      <3>1. Move(r, "status", "body") /\ UNCHANGED result
        BY <2>1 DEF CheckStatus
      <3> QED
        BY <3>1 DEF IInv, TypeOK, Places, Results, OnThread
    <2>2. CASE reply[r].code # 200
      <3>1. Outcome(r, "bad_status") /\ Move(r, "status", "report")
        BY <2>2 DEF CheckStatus
      <3> QED
        BY <3>1 DEF IInv, TypeOK, Places, Results, OnThread
    <2> QED
      BY <2>1, <2>2
  <1>2. TypeOK'
    BY <1>1 DEF CheckStatus, IInv, TypeOK
  <1>3. ASSUME NEW q \in Runs PROVE Staged(q)'
    BY DEF CheckStatus, IInv, TypeOK, Staged, OnThread
  <1> QED
    BY <1>2, <1>3 DEF IInv

LEMMA ReadBodyIInv == ASSUME IInv, NEW r \in Runs, ReadBody(r) PROVE IInv'
  <1> USE DEF ReadBody, Move, http
  <1>1. pc' \in [Runs -> Places]
    BY DEF IInv, TypeOK, Places, Over, OnThread
  <1>2. got' \in [Runs -> 0..Chunks]
    <2>1. got[r] \in 0..Chunks /\ sent[r] \in 0..Chunks
      BY DEF IInv, TypeOK
    <2>2. got[r] < sent[r] => got[r] + 1 \in 0..Chunks
      BY <2>1, ChunksAssumption
    <2> QED
      BY <2>1, <2>2 DEF IInv, TypeOK
  <1>3. TypeOK'
    BY <1>1, <1>2 DEF IInv, TypeOK
  <1>4. ASSUME NEW q \in Runs PROVE Staged(q)'
    BY DEF IInv, TypeOK, Staged, OnThread
  <1> QED
    BY <1>3, <1>4 DEF IInv

LEMMA ParseIInv == ASSUME IInv, NEW r \in Runs, Parse(r) PROVE IInv'
  <1>1. TypeOK'
    BY DEF IInv, TypeOK, Parse, Outcome, Move, http, Places, Results, Over, OnThread
  <1>2. PICK valid \in Parses(r) : Outcome(r, IF valid THEN "ok" ELSE "bad_utf8")
    BY DEF Parse
  <1>3. valid /\ got[r] = Chunks => reply[r].text \/ Chunks = 0
    <2>1. CASE got[r] = 0
      BY <2>1
    <2>2. CASE got[r] # 0
      BY <1>2, <2>2 DEF Parses
    <2> QED
      BY <2>1, <2>2
  <1>4. result'[r] = "ok" => valid
    BY <1>2 DEF Outcome, IInv, TypeOK
  <1>5. result'[r] \in {"ok", "bad_utf8"}
    BY <1>2 DEF Outcome, IInv, TypeOK
  <1>6. Staged(r)'
    BY <1>3, <1>4, <1>5 DEF IInv, TypeOK, Parse, Move, http, Staged, OnThread
  <1>7. ASSUME NEW q \in Runs, q # r PROVE Staged(q)'
    BY <1>7, <1>2 DEF IInv, TypeOK, Parse, Outcome, Move, http, Staged, OnThread
  <1> QED
    BY <1>1, <1>6, <1>7 DEF IInv

LEMMA ReportIInv == ASSUME IInv, NEW r \in Runs, Report(r) PROVE IInv'
  <1>1. TypeOK'
    BY DEF IInv, TypeOK, Report, Move, http, Places, Over
  <1>2. ASSUME NEW q \in Runs PROVE Staged(q)'
    BY DEF IInv, TypeOK, Report, Move, http, Staged, OnThread
  <1> QED
    BY <1>1, <1>2 DEF IInv

LEMMA AnswerIInv == ASSUME IInv, NEW r \in Runs, Answer(r) PROVE IInv'
  <1>1. TypeOK'
    BY DEF IInv, TypeOK, Answer
  <1>2. ASSUME NEW q \in Runs PROVE Staged(q)'
    BY DEF IInv, TypeOK, Answer, Listening, NoReply, Staged, OnThread
  <1> QED
    BY <1>1, <1>2 DEF IInv

LEMMA SendChunkIInv == ASSUME IInv, NEW r \in Runs, SendChunk(r) PROVE IInv'
  <1>1. sent' \in [Runs -> 0..Chunks]
    BY ChunksAssumption DEF IInv, TypeOK, SendChunk
  <1>2. TypeOK'
    BY <1>1 DEF IInv, TypeOK, SendChunk
  <1>3. ASSUME NEW q \in Runs PROVE Staged(q)'
    BY DEF IInv, TypeOK, SendChunk, Staged
  <1> QED
    BY <1>2, <1>3 DEF IInv

LEMMA BreakIInv == ASSUME IInv, NEW r \in Runs, Break(r) PROVE IInv'
  <1>1. TypeOK'
    BY DEF IInv, TypeOK, Break
  <1>2. ASSUME NEW q \in Runs PROVE Staged(q)'
    BY DEF IInv, TypeOK, Break, Listening, Staged, OnThread
  <1> QED
    BY <1>1, <1>2 DEF IInv

LEMMA RestartIInv == ASSUME IInv, Restart PROVE IInv'
  <1>1. TypeOK'
    BY DEF IInv, TypeOK, Restart, Stopped, http, Places, Over
  <1>2. ASSUME NEW q \in Runs PROVE Staged(q)'
    BY DEF IInv, TypeOK, Restart, Stopped, http, Staged, OnThread
  <1> QED
    BY <1>1, <1>2 DEF IInv

LEMMA StutterIInv == ASSUME IInv, UNCHANGED vars PROVE IInv'
  BY DEF IInv, TypeOK, Staged, vars

LEMMA NextIInv == ASSUME IInv, [Next]_vars PROVE IInv'
  BY NotifyIInv, EnqueueIInv, StartIInv, StoreIInv, FetchApiKeyIInv, SendIInv,
     WaitIInv, CheckStatusIInv, ReadBodyIInv, ParseIInv, ReportIInv,
     AnswerIInv, SendChunkIInv, BreakIInv, RestartIInv, StutterIInv
  DEF Next, Hook, Server

LEMMA AlwaysIInv == Spec => []IInv
  BY InitIInv, NextIInv, PTL DEF Spec

-----------------------------------------------------------------------------
(* The safety properties that follow from the invariant.                    *)

\* Every variable keeps its type, for every instance (service.rs, lib.rs and
\* offchain-utils as modelled).
THEOREM TypeCorrect == Spec => []TypeOK
  BY AlwaysIInv, PTL DEF IInv

\* For any number of concurrent runs and any rotation of keys, a run holds a
\* key only if that key was stored since the run started (get_api_key).
THEOREM KeyIsFresh == Spec => []KeyReadByThisRun
  <1>1. IInv => KeyReadByThisRun
    BY DEF IInv, Staged, KeyReadByThisRun
  <1> QED
    BY <1>1, AlwaysIInv, PTL

\* No request is sent without a key that was read (the hook's early return).
THEOREM NoRequestWithoutKey == Spec => []RequestHasKey
  <1>1. IInv => RequestHasKey
    BY DEF IInv, Staged, RequestHasKey
  <1> QED
    BY <1>1, AlwaysIInv, PTL

\* A run that returned early, panicked or could not send left no request.
THEOREM FailedRunsAreSilent == Spec => []FailedRunsSendNothing
  <1>1. IInv => FailedRunsSendNothing
    BY DEF IInv, Staged, FailedRunsSendNothing
  <1> QED
    BY <1>1, AlwaysIInv, PTL

\* A run that finds a usable key all the time it is on a thread does not give up
\* before it tries to send, whatever other runs met, unless there is no HTTP.
THEOREM KeyIsNotGivenUp == Spec => []GivesUpForAReason
  <1>1. IInv => GivesUpForAReason
    BY KeysAssumption DEF IInv, Staged, GivesUpForAReason
  <1> QED
    BY <1>1, AlwaysIInv, PTL

\* "ok" means a 200 answer, and text if the whole body was read.
THEOREM OkIsTextual == Spec => []OkIsATextualSuccess
  <1>1. IInv => OkIsATextualSuccess
    BY DEF IInv, Staged, OkIsATextualSuccess
  <1> QED
    BY <1>1, AlwaysIInv, PTL

\* As service.rs builds the runner (enable_http_requests: false), whatever is
\* stored and however many blocks are imported, nothing is ever sent.
THEOREM SilentAsBuilt == Spec => []NothingSentWithoutHttp
  <1>1. IInv => NothingSentWithoutHttp
    BY DEF IInv, TypeOK, Staged, NothingSentWithoutHttp
  <1> QED
    BY <1>1, AlwaysIInv, PTL

\* No step, a restart included, takes away a stored key (PERSISTENT storage).
THEOREM KeyPersists == Spec => KeyOutlivesTheNode
  <1>1. [Next]_vars => [store # Absent => store' # Absent]_vars
    BY DEF Next, Hook, Server, vars, http, Notify, Enqueue, Start, StoreApiKey,
           FetchApiKey, Send, Wait, CheckStatus, ReadBody, Parse, Report,
           Answer, SendChunk, Break, Restart
  <1> QED
    BY <1>1, PTL DEF Spec, KeyOutlivesTheNode

-----------------------------------------------------------------------------
(* The queue of the pool.                                                   *)

Waiting == {r \in Runs : pc[r] = "queued"}
QInv == queue \in Seq(Runs) /\ QueueExact

\* Steps that touch neither the queue nor the set of waiting runs.
LEMMA QueueFrame == ASSUME QInv, queue' = queue,
                           \A r \in Runs : pc[r] = "queued" <=> pc'[r] = "queued"
                    PROVE QInv'
  BY DEF QInv, QueueExact

LEMMA EnqueueQInv == ASSUME TypeOK, QInv, NEW r \in Runs, Enqueue(r) PROVE QInv'
  <1>1. queue' = Append(queue, r) /\ queue' \in Seq(Runs)
    BY DEF Enqueue, QInv
  <1>2. \A i \in 1..Len(queue) : queue'[i] = queue[i] /\ queue[i] # r
    BY <1>1 DEF QInv, QueueExact, Enqueue, Move
  <1>3. Len(queue') = Len(queue) + 1 /\ queue'[Len(queue) + 1] = r
        /\ Len(queue) \in Nat
    BY <1>1 DEF QInv
  <1>4. \A q \in Runs : pc'[q] = "queued" <=> pc[q] = "queued" \/ q = r
    BY DEF Enqueue, Move, TypeOK
  <1>5. ASSUME NEW q \in Runs
        PROVE pc'[q] = "queued" <=> \E i \in 1..Len(queue') : queue'[i] = q
    BY <1>2, <1>3, <1>4 DEF QInv, QueueExact
  <1>6. \A i, j \in 1..Len(queue') : queue'[i] = queue'[j] => i = j
    BY <1>2, <1>3 DEF QInv, QueueExact
  <1> QED
    BY <1>1, <1>5, <1>6 DEF QInv, QueueExact

LEMMA StartQInv == ASSUME TypeOK, QInv, NEW r \in Runs, Start(r) PROVE QInv'
  <1>1. queue # <<>> /\ queue' = Tail(queue) /\ r = queue[1]
        /\ queue' \in Seq(Runs)
    BY DEF Start, QInv
  <1>2. Len(queue) \in Nat \ {0} /\ Len(queue') = Len(queue) - 1
        /\ \A i \in 1..Len(queue') : queue'[i] = queue[i + 1]
    BY <1>1 DEF QInv
  <1>3. \A q \in Runs : pc'[q] = "queued" <=> pc[q] = "queued" /\ q # r
    BY DEF Start, Move, TypeOK
  <1>4. ASSUME NEW q \in Runs
        PROVE pc'[q] = "queued" <=> \E i \in 1..Len(queue') : queue'[i] = q
    <2>1. ASSUME pc'[q] = "queued"
          PROVE \E i \in 1..Len(queue') : queue'[i] = q
      <3>1. PICK j \in 1..Len(queue) : queue[j] = q
        BY <1>3, <2>1 DEF QInv, QueueExact
      <3>2. j # 1
        BY <1>1, <1>3, <2>1, <3>1
      <3>3. j - 1 \in 1..Len(queue')
        BY <1>2, <3>1, <3>2
      <3>4. queue'[j - 1] = queue[(j - 1) + 1] /\ (j - 1) + 1 = j
        BY <1>2, <3>1, <3>3
      <3> QED
        BY <3>1, <3>3, <3>4
    <2>2. ASSUME NEW i \in 1..Len(queue'), queue'[i] = q
          PROVE pc'[q] = "queued"
      <3>1. i + 1 \in 1..Len(queue) /\ queue[i + 1] = q /\ 1 \in 1..Len(queue)
            /\ i + 1 # 1
        BY <1>2, <2>2
      <3> QED
        BY <1>1, <1>3, <3>1 DEF QInv, QueueExact
    <2> QED
      BY <2>1, <2>2
  <1>5. ASSUME NEW i \in 1..Len(queue'), NEW j \in 1..Len(queue'),
               queue'[i] = queue'[j]
        PROVE i = j
    <2>1. i + 1 \in 1..Len(queue) /\ j + 1 \in 1..Len(queue)
      BY <1>2
    <2>2. i + 1 = j + 1
      BY <1>2, <1>5, <2>1 DEF QInv, QueueExact
    <2> QED
      BY <2>2
  <1> QED
    BY <1>1, <1>4, <1>5 DEF QInv, QueueExact

LEMMA NextQInv == ASSUME TypeOK, QInv, [Next]_vars PROVE QInv'
  <1>1. ASSUME NEW r \in Runs, Notify(r) \/ Hook(r) \/ Server(r) \/ Break(r)
        PROVE QInv'
    <2>1. queue' = queue
      BY <1>1 DEF Notify, Hook, Server, Break, FetchApiKey, Send, Wait,
           CheckStatus, ReadBody, Parse, Report, Answer, SendChunk
    <2>2. \A q \in Runs : pc[q] = "queued" <=> pc'[q] = "queued"
      BY <1>1 DEF Notify, Hook, Server, Break, FetchApiKey, Send, Wait,
           CheckStatus, ReadBody, Parse, Report, Answer, SendChunk, Move, TypeOK
    <2> QED
      BY <2>1, <2>2, QueueFrame
  <1>2. ASSUME NEW v \in Values, StoreApiKey(v) PROVE QInv'
    BY <1>2, QueueFrame DEF StoreApiKey
  <1>3. CASE Restart
    <2>1. queue' = <<>> /\ \A q \in Runs : pc'[q] # "queued"
      BY <1>3 DEF Restart, Stopped
    <2> QED
      BY <2>1 DEF QInv, QueueExact
  <1>4. CASE UNCHANGED vars
    BY <1>4, QueueFrame DEF vars
  <1> QED
    BY <1>1, <1>2, <1>3, <1>4, EnqueueQInv, StartQInv DEF Next

\* In every reachable state the pool's queue holds exactly the runs that wait
\* for a thread, each once (service.rs, the runner's pool).
THEOREM QueueIsExact == Spec => []QueueExact
  <1>1. Init => QInv
    BY DEF Init, QInv, QueueExact
  <1>2. QInv => QueueExact
    BY DEF QInv
  <1> QED
    BY <1>1, <1>2, NextQInv, TypeCorrect, PTL DEF Spec

-----------------------------------------------------------------------------
(* OffchainWorker implements WorkerContract.                                *)

phases == [r \in Runs |-> Phase(r)]

\* A step of the hook or the runner at r that moves phase r from a to b.
LEMMA PhaseStep == ASSUME IInv, NEW r \in Runs, 
                          \A q \in Runs \ {r} : pc'[q] = pc[q] /\ conn'[q] = conn[q]
                   PROVE phases' = [phases EXCEPT ![r] = Phase(r)']
  BY DEF phases, Phase

\* Steps the contract does not see.
LEMMA HiddenStep == ASSUME IInv, NEW r \in Runs, Phase(r)' = Phase(r),
                           UNCHANGED <<store, key>>,
                           \A q \in Runs \ {r} : pc'[q] = pc[q] /\ conn'[q] = conn[q]
                    PROVE UNCHANGED <<store, phases, key>>
  BY PhaseStep DEF phases, Phase

\* Steps that end a run.
LEMMA EndStep == ASSUME IInv, NEW r \in Runs, Phase(r) # "idle", Phase(r)' = "over",
                        UNCHANGED <<store, key>>,
                        \A q \in Runs \ {r} : pc'[q] = pc[q] /\ conn'[q] = conn[q]
                 PROVE Contract!End({r})
  BY PhaseStep DEF phases, Phase, Contract!End

LEMMA RestartEnds == ASSUME IInv, Restart PROVE \E S \in SUBSET Runs : Contract!End(S)
  <1> DEFINE S == {r \in Runs : pc[r] # "idle"}
  <1>1. phases' = [r \in Runs |-> IF r \in S THEN "over" ELSE phases[r]]
    BY DEF Restart, Stopped, phases, Phase, Over, IInv, TypeOK
  <1>2. \A r \in S : phases[r] # "idle"
    BY DEF phases, Phase
  <1>3. UNCHANGED <<store, key>>
    BY DEF Restart
  <1> QED
    BY <1>1, <1>2, <1>3 DEF Contract!End, phases

\* Only run r moves: what the step of one run leaves alone.
LEMMA OthersStay == ASSUME IInv, NEW r \in Runs,
                           \/ Notify(r) \/ Enqueue(r) \/ Start(r) \/ Hook(r)
                           \/ Server(r) \/ Break(r)
                    PROVE \A q \in Runs \ {r} : pc'[q] = pc[q] /\ conn'[q] = conn[q]
  BY DEF IInv, TypeOK, Notify, Enqueue, Start, Hook, Server, Break, FetchApiKey,
         Send, Wait, CheckStatus, ReadBody, Parse, Report, Answer, SendChunk,
         Move, http

LEMMA FetchApiKeyRefines == ASSUME IInv, NEW r \in Runs, FetchApiKey(r)
                            PROVE Contract!TakeKey(r) \/ Contract!End({r})
  <1>1. \A q \in Runs \ {r} : pc'[q] = pc[q] /\ conn'[q] = conn[q]
    BY OthersStay DEF Hook
  <1>2. Phase(r) = "pending"
    BY DEF Phase, FetchApiKey, Move
  <1>3. CASE store \in Keys
    <2>1. Phase(r)' = "keyed" /\ key' = [key EXCEPT ![r] = store] /\ store' = store
      BY <1>3, KeysAssumption DEF FetchApiKey, Move, Phase, IInv, TypeOK
    <2>2. phases' = [phases EXCEPT ![r] = "keyed"]
      BY <1>1, <2>1, PhaseStep
    <2>3. phases[r] = "pending"
      BY <1>2 DEF phases
    <2> QED
      BY <1>3, <2>1, <2>2, <2>3 DEF Contract!TakeKey, phases
  <1>4. CASE store \notin Keys
    <2>1. Phase(r)' = "over" /\ UNCHANGED <<store, key>>
      BY <1>4 DEF FetchApiKey, Move, Phase, Over, IInv, TypeOK
    <2> QED
      BY <1>1, <1>2, <2>1, EndStep
  <1> QED
    BY <1>3, <1>4

LEMMA SendRefines == ASSUME IInv, NEW r \in Runs, Send(r)
                     PROVE Contract!Ask(r) \/ Contract!End({r})
  <1>1. \A q \in Runs \ {r} : pc'[q] = pc[q] /\ conn'[q] = conn[q]
    BY OthersStay DEF Hook
  <1>2. Phase(r) = "keyed" /\ UNCHANGED <<store, key>> /\ conn[r] = "none"
    BY DEF Phase, Send, Move, IInv, Staged
  <1>3. CASE pc'[r] = "wait"
    <2>1. Phase(r)' = "asked"
      BY <1>3 DEF Send, Move, Phase, Over, IInv, TypeOK
    <2>2. phases' = [phases EXCEPT ![r] = "asked"] /\ phases[r] = "keyed"
      BY <1>1, <1>2, <2>1, PhaseStep DEF phases
    <2> QED
      BY <1>2, <2>2 DEF Contract!Ask, phases
  <1>4. CASE pc'[r] # "wait"
    <2>1. Phase(r)' = "over"
      BY <1>2, <1>4 DEF Send, Move, Phase, Over, IInv, TypeOK
    <2> QED
      BY <1>1, <1>2, <2>1, EndStep
  <1> QED
    BY <1>3, <1>4

\* The answer is read while the phase stays "asked"; Report ends the run,
\* or leaves it over when it never asked.
LEMMA AnswerRefines == ASSUME IInv, NEW r \in Runs,
                              \/ Wait(r) \/ CheckStatus(r) \/ ReadBody(r)
                              \/ Parse(r) \/ Server(r) \/ Break(r)
                       PROVE UNCHANGED <<store, phases, key>>
  <1>1. \A q \in Runs \ {r} : pc'[q] = pc[q] /\ conn'[q] = conn[q]
    BY OthersStay DEF Hook
  <1>2. UNCHANGED <<store, key>>
    BY DEF Wait, CheckStatus, ReadBody, Parse, Server, Answer, SendChunk, Break
  <1>3. Phase(r) = "asked"
    BY DEF Wait, CheckStatus, ReadBody, Parse, Server, Answer, SendChunk, Break,
           Listening, Move, Phase, Over, IInv, Staged
  <1>4. Phase(r)' = "asked"
    <2>1. pc'[r] \in {"wait", "status", "body", "utf8", "report"}
      BY DEF Wait, CheckStatus, ReadBody, Parse, Server, Answer, SendChunk,
             Break, Listening, Move, IInv, TypeOK
    <2>2. conn'[r] # "none"
      BY DEF Wait, CheckStatus, ReadBody, Parse, Server, Answer, SendChunk,
             Break, Listening, Move, http, IInv, TypeOK, Staged
    <2> QED
      BY <2>1, <2>2 DEF Phase, Over
  <1> QED
    BY <1>1, <1>2, <1>3, <1>4, HiddenStep

LEMMA ReportRefines == ASSUME IInv, NEW r \in Runs, Report(r)
                       PROVE Contract!End({r})
  <1>1. \A q \in Runs \ {r} : pc'[q] = pc[q] /\ conn'[q] = conn[q]
    BY OthersStay DEF Hook
  <1>2. Phase(r) # "idle" /\ Phase(r)' = "over" /\ UNCHANGED <<store, key>>
    BY DEF Report, Move, Phase, Over, IInv, TypeOK
  <1> QED
    BY <1>1, <1>2, EndStep

LEMMA RunnerRefines == ASSUME IInv, NEW r \in Runs
                       PROVE /\ Notify(r) => Contract!Trigger(r)
                             /\ Enqueue(r) \/ Start(r) => UNCHANGED <<store, phases, key>>
  <1>1. ASSUME Notify(r) PROVE Contract!Trigger(r)
    <2>1. \A q \in Runs \ {r} : pc'[q] = pc[q] /\ conn'[q] = conn[q]
      BY <1>1, OthersStay
    <2>2. Phase(r) = "idle" /\ Phase(r)' = "pending" /\ UNCHANGED <<store, key>>
      BY <1>1 DEF Notify, Move, Phase, IInv, TypeOK
    <2>3. phases' = [phases EXCEPT ![r] = "pending"] /\ phases[r] = "idle"
      BY <2>1, <2>2, PhaseStep DEF phases
    <2> QED
      BY <2>2, <2>3 DEF Contract!Trigger, phases
  <1>2. ASSUME Enqueue(r) \/ Start(r) PROVE UNCHANGED <<store, phases, key>>
    <2>1. \A q \in Runs \ {r} : pc'[q] = pc[q] /\ conn'[q] = conn[q]
      BY <1>2, OthersStay
    <2>2. Phase(r)' = Phase(r) /\ UNCHANGED <<store, key>>
      BY <1>2 DEF Enqueue, Start, Move, Phase, IInv, TypeOK
    <2> QED
      BY <2>1, <2>2, HiddenStep
  <1> QED
    BY <1>1, <1>2

LEMMA NextRefines == ASSUME IInv, [Next]_vars
                     PROVE [Contract!CNext]_<<store, phases, key>>
  <1>1. ASSUME NEW r \in Runs, Notify(r) \/ Enqueue(r) \/ Start(r)
        PROVE [Contract!CNext]_<<store, phases, key>>
    BY <1>1, RunnerRefines DEF Contract!CNext
  <1>2. ASSUME NEW r \in Runs, Hook(r) \/ Server(r) \/ Break(r)
        PROVE [Contract!CNext]_<<store, phases, key>>
    BY <1>2, FetchApiKeyRefines, SendRefines, AnswerRefines, ReportRefines
    DEF Hook, Contract!CNext
  <1>3. ASSUME NEW v \in Values \ {Absent}, StoreApiKey(v)
        PROVE Contract!PutKey(v)
    BY <1>3 DEF StoreApiKey, http, Contract!PutKey, phases, Phase
  <1>4. CASE Restart
    BY <1>4, RestartEnds DEF Contract!CNext
  <1>5. CASE UNCHANGED vars
    BY <1>5 DEF vars, phases, Phase
  <1> QED
    BY <1>1, <1>2, <1>3, <1>4, <1>5 DEF Next, Contract!CNext

LEMMA InitRefines == Init => Contract!CInit
  BY DEF Init, Contract!CInit, Phase

\* The worker of the node refines the contract: one key per run, one request
\* with it at most, one end, for any number of runs and threads (lib.rs).
THEOREM Refinement == Spec => ImplementsContract
  <1>1. IInv /\ [Next]_vars => [Contract!CNext]_Contract!cvars
    BY NextRefines DEF Contract!cvars, phases
  <1> QED
    BY <1>1, InitRefines, AlwaysIInv, PTL
    DEF Spec, ImplementsContract, Contract!CSpec
=============================================================================
