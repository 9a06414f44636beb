------------------------------ MODULE Backing -------------------------------
(***************************************************************************)
(* Asynchronous backing: the collators of genesis author blocks ahead of   *)
(* what the relay chain has included, within the limits the runtime's      *)
(* ConsensusHook sets (lib.rs block_times, async_backing_params; the       *)
(* AuraUnincludedSegmentApi of apis.rs; Aura in configs/mod.rs; the        *)
(* lookahead collator of service.rs).                                      *)
(*                                                                         *)
(* Only what is not yet included is kept, slots are counted back from the  *)
(* present one and relay chain slots modulo Cycle, so that the chain may   *)
(* go on for ever.  A collator may have an old view, of the relay chain (by *)
(* one block) and of the parachain (by any number): a block it builds      *)
(* there may replace what nobody has backed yet.                           *)
(*                                                                         *)
(* An uncommented definition just above an operator is that operator with  *)
(* a plausible mistake in it; no specification uses it.                    *)
(***************************************************************************)
EXTENDS ChainSpecs

CONSTANTS
    Chains,    \* what --chain may say in this model
    Cycle,     \* relay chain slots are counted modulo this
    Reliable   \* a collator that does not miss all of its slots

ASSUME CycleAssumption == Cycle \in Nat \ {0}

VARIABLES
    spec,       \* the chain specification of the collators
    relaySlot,  \* slot of the best relay chain block
    last,       \* the last included block
    segment,    \* the blocks after it: built, not included
    pending,    \* how many of them the relay chain is processing
    included    \* how many the best relay chain block has included

vars == <<spec, relaySlot, last, segment, pending, included>>

MILLI_SECS_PER_BLOCK == 6000
SLOT_DURATION == MILLI_SECS_PER_BLOCK
RELAY_CHAIN_SLOT_DURATION_MILLIS == 6000
BLOCK_PROCESSING_VELOCITY == 1
OneSpareBlock == 2
UNINCLUDED_SEGMENT_CAPACITY == 3

\* A block: how many slots ago it was authored (2: two or more) and how many
\* blocks of its slot there were up to it, as aura-ext counts them.
Blocks == [age : 0..2, count : 0..BLOCK_PROCESSING_VELOCITY + 1]

TypeOK ==
    /\ spec \in {load_spec(id) : id \in Chains} \ {NoSpec}
    /\ relaySlot \in 0..Cycle - 1
    /\ last \in Blocks
    /\ segment \in Seq(Blocks) /\ Len(segment) <= UNINCLUDED_SEGMENT_CAPACITY
    /\ pending \in 0..BLOCK_PROCESSING_VELOCITY /\ pending <= Len(segment)
    /\ included \in {0, 1}

Genesis == get_preset(spec.preset)
Authorities == Genesis.session

Init ==
    /\ spec \in {load_spec(id) : id \in Chains} \ {NoSpec}
    /\ relaySlot = 0
    /\ last = [age |-> 2, count |-> 0]
    /\ segment = <<>> /\ pending = 0 /\ included = 0

-----------------------------------------------------------------------------
(* Slots.                                                                   *)

SlotOf(r) == (r * RELAY_CHAIN_SLOT_DURATION_MILLIS) \div SLOT_DURATION
SlotEnds(r) == SlotOf(r + 1) # SlotOf(r)

\* A collator builds on the best relay chain block, or on the one before.
RelayParent(lag) == (relaySlot + Cycle - lag) % Cycle
Age(lag) == IF lag = 1 /\ SlotEnds(RelayParent(1)) THEN 1 ELSE 0
Owner(lag) ==
    Authorities[(SlotOf(RelayParent(lag)) % Len(Authorities)) + 1].aura

-----------------------------------------------------------------------------
(* The runtime's limits.                                                    *)

Parent(k) == IF k = 0 THEN last ELSE segment[k]

\* An older relay parent does not show the latest inclusion.
SegmentSize(k, lag) == k + (IF lag = 1 THEN included ELSE 0)

CanBuildAnyNumber(k, lag) ==
    /\ SegmentSize(k, lag) < UNINCLUDED_SEGMENT_CAPACITY
    /\ Parent(k).age >= Age(lag)

CanBuildInOldSlot(k, lag) ==
    /\ SegmentSize(k, lag) < UNINCLUDED_SEGMENT_CAPACITY
    /\ \/ Parent(k).age # Age(lag)
       \/ Parent(k).count < BLOCK_PROCESSING_VELOCITY + 1

\* ConsensusHook::can_build_upon, asked of the state of the parent.
CanBuildUpon(k, lag) ==
    /\ SegmentSize(k, lag) < UNINCLUDED_SEGMENT_CAPACITY
    /\ \/ Parent(k).age > Age(lag)
       \/ /\ Parent(k).age = Age(lag)
          /\ Parent(k).count < BLOCK_PROCESSING_VELOCITY + 1

-----------------------------------------------------------------------------
(* The collators and the relay chain.                                      *)

NewBlock(k, lag) ==
    [age |-> Age(lag),
     count |-> IF Parent(k).age = Age(lag) THEN Parent(k).count + 1 ELSE 1]

\* The owner of the slot builds on block k of the segment, which it takes for
\* the best.
Author(c) ==
    \E lag \in {0, 1}, k \in pending..Len(segment) :
        /\ Owner(lag) = c
        /\ CanBuildUpon(k, lag)
        /\ segment' = Append(SubSeq(segment, 1, k), NewBlock(k, lag))
        /\ UNCHANGED <<spec, relaySlot, last, pending, included>>

Older(b) == [b EXCEPT !.age = IF SlotEnds(relaySlot) /\ @ < 2 THEN @ + 1 ELSE @]

\* A relay chain block: what it was processing becomes available and included,
\* or has to wait, or times out and takes with it what was built on it; a free
\* core takes the next block, if the collators use the id of this chain.
RelayBlock(outcome, back) ==
    LET rest == CASE outcome = "included"  -> Tail(segment)
                  [] outcome = "waits"     -> segment
                  [] outcome = "timed_out" -> <<>>
        busy == IF outcome = "waits" THEN pending ELSE 0
    IN  /\ outcome # "waits" => pending = 1
        /\ back => busy = 0 /\ rest # <<>> /\ spec.para_id = Genesis.parachain_id
        /\ relaySlot' = (relaySlot + 1) % Cycle
        /\ last' = Older(IF outcome = "included" THEN Head(segment) ELSE last)
        /\ segment' = [i \in 1..Len(rest) |-> Older(rest[i])]
        /\ pending' = IF back THEN 1 ELSE busy
        /\ included' = IF outcome = "included" THEN 1 ELSE 0
        /\ UNCHANGED spec

Outcomes == {"included", "waits", "timed_out"}
Includes == \E back \in BOOLEAN : RelayBlock("included", back)
Backs == \E outcome \in Outcomes : RelayBlock(outcome, TRUE)

Next ==
    \/ \E i \in DOMAIN Authorities : Author(Authorities[i].aura)
    \/ \E outcome \in Outcomes, back \in BOOLEAN : RelayBlock(outcome, back)

Spec == Init /\ [][Next]_vars

\* The relay chain goes on; it does not for ever neglect to back or to include
\* what it could; one collator does not miss every slot it might build in.
FairSpec ==
    /\ Spec /\ WF_vars(Next)
    /\ SF_vars(Includes) /\ SF_vars(Backs) /\ SF_vars(Author(Reliable))

-----------------------------------------------------------------------------
\* Along the chain slots never go back, and no slot has more blocks than the
\* consensus hook accepts, although collators build on old relay chain blocks
\* and on old parents (ConsensusHook, RelayNumberMonotonicallyIncreases).
SlotsInOrder ==
    LET chain == <<last>> \o segment
    IN  \A i, j \in 1..Len(chain) : i < j =>
            /\ chain[j].age <= chain[i].age
            /\ chain[j].age = chain[i].age /\ chain[j].age < 2 =>
                   chain[j].count >= chain[i].count + j - i

\* While the relay chain has nothing left to back, a collator may build, even
\* one that has not seen the latest inclusion: the capacity and the slot are
\* large enough that the runtime's limits never idle the core (lib.rs:236).
CoreNeverIdles ==
    Len(segment) = pending =>
        /\ CanBuildUpon(pending, 0)
        /\ SegmentSize(pending, 1) < UNINCLUDED_SEGMENT_CAPACITY

\* On the chains that are built in, and on a file that agrees with its genesis,
\* blocks keep being included, though the other collators may be gone and backed
\* blocks time out: the para id for the collators (chain_spec.rs) is the one in
\* the genesis, and the limits never stop a collator for good.
BuiltIn == {load_spec(id) : id \in Chains \ DOMAIN Files}
ChainAdvances ==
    spec \in BuiltIn \/ spec.para_id = Genesis.parachain_id =>
        []<><<Includes>>_vars
=============================================================================
