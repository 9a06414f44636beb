--------------------------- MODULE WorkerContract ---------------------------
(***************************************************************************)
(* What the off-chain worker promises its operator, without queues,        *)
(* threads or HTTP: a run that is triggered takes the stored key at one    *)
(* moment, sends at most one request, with that key, and is over for good. *)
(***************************************************************************)
CONSTANTS Runs, Keys, Values, Absent

VARIABLES store, phase, used

cvars == <<store, phase, used>>

Phases == {"idle", "pending", "keyed", "asked", "over"}

CInit ==
    /\ store = Absent
    /\ phase = [r \in Runs |-> "idle"]
    /\ used = [r \in Runs |-> Absent]

Trigger(r) ==
    /\ phase[r] = "idle"
    /\ phase' = [phase EXCEPT ![r] = "pending"]
    /\ UNCHANGED <<store, used>>

TakeKey(r) ==
    /\ phase[r] = "pending" /\ store \in Keys
    /\ phase' = [phase EXCEPT ![r] = "keyed"]
    /\ used' = [used EXCEPT ![r] = store]
    /\ UNCHANGED store

Ask(r) ==
    /\ phase[r] = "keyed"
    /\ phase' = [phase EXCEPT ![r] = "asked"]
    /\ UNCHANGED <<store, used>>

\* Runs end one by one, or together when the node stops.
End(S) ==
    /\ \A r \in S : phase[r] # "idle"
    /\ phase' = [r \in Runs |-> IF r \in S THEN "over" ELSE phase[r]]
    /\ UNCHANGED <<store, used>>

PutKey(v) ==
    /\ store' = v
    /\ UNCHANGED <<phase, used>>

CNext ==
    \/ \E r \in Runs : Trigger(r) \/ TakeKey(r) \/ Ask(r)
    \/ \E S \in SUBSET Runs : End(S)
    \/ \E v \in Values \ {Absent} : PutKey(v)

CSpec == CInit /\ [][CNext]_cvars
=============================================================================
