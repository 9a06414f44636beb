---------------------------- MODULE BlockWeights ----------------------------
(***************************************************************************)
(* What fits in a block: the limits of configs/mod.rs (RuntimeBlockWeights,*)
(* RuntimeBlockLength, the reserved XCMP and DMP weights, the service      *)
(* weight of the message queue) and the fee of lib.rs (WeightToFee) with   *)
(* its multiplier, as the executive behind the BlockBuilder and            *)
(* TaggedTransactionQueue APIs of apis.rs uses them.  Weight is its        *)
(* ref_time.  Two assumptions are the model's and no code enforces them:   *)
(* the hooks keep within AVERAGE_ON_INITIALIZE ("we assume", lib.rs:216),  *)
(* and the inherents take a quarter of the block's length.                 *)
(*                                                                         *)
(* An uncommented definition just above an operator is that operator with  *)
(* a plausible mistake in it; no specification uses it.                    *)
(***************************************************************************)
EXTENDS Integers

CONSTANTS
    MAXIMUM_BLOCK_WEIGHT,
    BlockExecutionWeight,  \* of an empty block
    ExtrinsicBaseWeight,   \* of an extrinsic that does nothing
    MAXIMUM_BLOCK_LENGTH,
    MILLI_UNIT,
    Billion,               \* parts of a Perbill
    One,                   \* parts of a fee multiplier of 1
    Multipliers,           \* the fee multipliers, in these parts
    Weights,               \* the weights of calls and messages
    Lengths,               \* the lengths of transactions
    MaxBacklog             \* bound of this model: weight of the queued messages

ASSUME WeightAssumption ==
    /\ MAXIMUM_BLOCK_WEIGHT \in Nat /\ MAXIMUM_BLOCK_WEIGHT % 20 = 0
    /\ BlockExecutionWeight \in Nat /\ ExtrinsicBaseWeight \in Nat \ {0}
    /\ 20 * (BlockExecutionWeight + ExtrinsicBaseWeight) <= MAXIMUM_BLOCK_WEIGHT
    /\ MAXIMUM_BLOCK_LENGTH \in Nat /\ MAXIMUM_BLOCK_LENGTH % 4 = 0
    /\ MAXIMUM_BLOCK_LENGTH > 0
    /\ MILLI_UNIT \in Nat /\ Billion \in Nat \ {0}
    /\ One \in Nat \ {0} /\ Multipliers \subseteq Nat /\ One \in Multipliers
    /\ Weights \subseteq Nat /\ Lengths \subseteq Nat \ {0} /\ MaxBacklog \in Nat

VARIABLES
    phase,     \* "idle", "initialized" or "open" for transactions
    consumed,  \* BlockWeight: what each dispatch class has consumed
    length,    \* AllExtrinsicsLen
    backlog,   \* weight of the messages in the message queue
    fees,      \* what the transactions of the block have paid
    count,     \* how many transactions the block has
    multiplier \* NextFeeMultiplier

vars == <<phase, consumed, length, backlog, fees, count, multiplier>>

-----------------------------------------------------------------------------
(* The limits.                                                              *)

Percent(n) == (MAXIMUM_BLOCK_WEIGHT * n) \div 100
AVERAGE_ON_INITIALIZE == Percent(5)
NormalMax == Percent(75)

ReservedXcmpWeightHalf == MAXIMUM_BLOCK_WEIGHT \div 2
ReservedXcmpWeight == MAXIMUM_BLOCK_WEIGHT \div 4
ReservedDmpWeight == MAXIMUM_BLOCK_WEIGHT \div 4
MessageQueueServiceWeight == Percent(35)

\* The classes of transactions; the third, "mandatory", has no limit.
Limited == {"normal", "operational"}
MaxTotal(class) ==
    IF class = "normal" THEN NormalMax ELSE MAXIMUM_BLOCK_WEIGHT
ReservedWhole(class) ==
    IF class = "operational" THEN MAXIMUM_BLOCK_WEIGHT ELSE 0
Reserved(class) ==
    IF class = "operational" THEN MAXIMUM_BLOCK_WEIGHT - NormalMax ELSE 0
MaxExtrinsicOfClass(class) == MaxTotal(class) - ExtrinsicBaseWeight
MaxExtrinsic(class) ==
    MaxTotal(class) - AVERAGE_ON_INITIALIZE - ExtrinsicBaseWeight
MaxLength(class) ==
    IF class = "normal" THEN (3 * MAXIMUM_BLOCK_LENGTH) \div 4
    ELSE MAXIMUM_BLOCK_LENGTH

Total == consumed.normal + consumed.operational + consumed.mandatory

\* validate_transaction: what the pool refuses at once.
Valid(class, w) == w <= MaxExtrinsic(class)

FitsWeight(class, w) ==
    LET ext == w + ExtrinsicBaseWeight
    IN  /\ consumed[class] + ext <= MaxTotal(class)
        /\ \/ Total + ext <= MAXIMUM_BLOCK_WEIGHT
           \/ consumed[class] + ext <= Reserved(class)

FitsAnyLength(class, len) == TRUE
FitsLength(class, len) == length + len <= MaxLength(class)

-----------------------------------------------------------------------------
(* The fee: a polynomial of degree 1, its coefficient split in an integer   *)
(* and a Perbill.                                                           *)

p == MILLI_UNIT \div 10
q == 100 * ExtrinsicBaseWeight
coeff_integer == p \div q
coeff_frac == ((p % q) * Billion) \div q

\* With the constants of the code coeff_frac is 8000000, without a remainder.
ASSUME FractionAssumption == ((p % q) * Billion) % q = 0

\* A Perbill times a number is rounded to the nearest, a half down.
WeightToWholeFee(w) == coeff_integer * w
WeightToFee(w) ==
    coeff_integer * w + (2 * coeff_frac * w + Billion - 1) \div (2 * Billion)

TransactionByteFee == MILLI_UNIT \div 100

\* Only the fee for the weight of the call is multiplied, and rounded down.
Adjusted(fee) == (multiplier * fee) \div One
Fee(w, len) ==
    WeightToFee(ExtrinsicBaseWeight) + Adjusted(WeightToFee(w))
        + len * TransactionByteFee

\* SlowAdjustingFeeUpdate: whatever the step, it is up when the normal class took
\* a quarter of its maximum or more, and down otherwise.
TargetBlockFullness == NormalMax \div 4
FeeMultiplierUpdate ==
    {m \in Multipliers : IF consumed.normal >= TargetBlockFullness
                         THEN m >= multiplier ELSE m <= multiplier}

-----------------------------------------------------------------------------
(* A block.                                                                 *)

TypeOK ==
    /\ phase \in {"idle", "initialized", "open"}
    /\ consumed \in [Limited \cup {"mandatory"} -> Nat]
    /\ length \in 0..MAXIMUM_BLOCK_LENGTH
    /\ backlog \in 0..MaxBacklog
    /\ fees \in Nat /\ count \in Nat /\ multiplier \in Multipliers

NoWeight == [class \in Limited \cup {"mandatory"} |-> 0]

Init ==
    /\ phase = "idle" /\ consumed = NoWeight /\ length = 0
    /\ backlog = 0 /\ fees = 0 /\ count = 0 /\ multiplier = One

\* The hooks run, the message queue among them: it takes what it may.
InitializeBlock(hooks) ==
    LET service == IF backlog <= MessageQueueServiceWeight THEN backlog
                   ELSE MessageQueueServiceWeight
    IN  /\ phase = "idle" /\ phase' = "initialized"
        /\ hooks <= AVERAGE_ON_INITIALIZE
        /\ consumed' = [NoWeight EXCEPT !["mandatory"] =
                            BlockExecutionWeight + hooks + service]
        /\ backlog' = backlog - service
        /\ length' = 0 /\ fees' = 0 /\ count' = 0
        /\ UNCHANGED multiplier

\* The inherent set_validation_data puts the messages of the siblings and of the
\* relay chain in the queue, each within its reserved weight.
InherentLength == 1
Inherents(xcmp, dmp, more) ==
    /\ phase = "initialized" /\ phase' = "open"
    /\ xcmp <= ReservedXcmpWeight /\ dmp <= ReservedDmpWeight
    /\ more > 0 => xcmp + dmp > 0
    /\ backlog + more <= MaxBacklog
    /\ backlog' = backlog + more
    /\ consumed' = [consumed EXCEPT !["mandatory"] = @ + xcmp + dmp]
    /\ length' = InherentLength
    /\ UNCHANGED <<fees, count, multiplier>>

\* A transaction of this length and weight, of which it used `actual`; one that
\* does not fit is left out and changes nothing.
ApplyExtrinsic(class, w, actual, len) ==
    /\ phase = "open"
    /\ Valid(class, w) /\ FitsWeight(class, w) /\ FitsLength(class, len)
    /\ actual <= w
    /\ consumed' = [consumed EXCEPT ![class] = @ + actual + ExtrinsicBaseWeight]
    /\ length' = length + len
    /\ fees' = fees + Fee(actual, len)
    /\ count' = count + 1
    /\ UNCHANGED <<phase, backlog, multiplier>>

FinalizeBlock ==
    /\ phase = "open" /\ phase' = "idle"
    /\ consumed' = NoWeight /\ length' = 0 /\ fees' = 0 /\ count' = 0
    /\ multiplier' \in FeeMultiplierUpdate
    /\ UNCHANGED backlog

Open == \E hooks \in Weights : InitializeBlock(hooks)
AddInherents == \E xcmp, dmp, more \in Weights : Inherents(xcmp, dmp, more)

Next ==
    \/ Open
    \/ AddInherents
    \/ \E class \in Limited, w, actual \in Weights, len \in Lengths :
           ApplyExtrinsic(class, w, actual, len)
    \/ FinalizeBlock

Spec == Init /\ [][Next]_vars

\* Collators go on building blocks.
FairSpec ==
    Spec /\ WF_vars(Open) /\ WF_vars(AddInherents) /\ WF_vars(FinalizeBlock)

-----------------------------------------------------------------------------
\* However the hooks, the messages and the transactions of both classes come
\* together, a block exceeds its maximum by the operational reserve at the most
\* (configs/mod.rs:87-89), and only with operational transactions.
BlockBounded ==
    /\ consumed.normal + consumed.mandatory <= MAXIMUM_BLOCK_WEIGHT
    /\ Total <= MAXIMUM_BLOCK_WEIGHT + (MAXIMUM_BLOCK_WEIGHT - NormalMax)

\* Hooks, the message queue and the reserved XCMP and DMP weights may take all they
\* can (configs/mod.rs:184-185, 206), and transactions what is left: there is room
\* for a first transaction of either class, and for a first operational one of a
\* fifth of the block and a quarter of its length, "even if block reached
\* MAXIMUM_BLOCK_WEIGHT" (configs/mod.rs:85).
RoomForTransactions ==
    phase = "open" =>
        /\ count = 0 => FitsWeight("normal", 0)
        /\ consumed.operational = 0 =>
               /\ FitsWeight("operational", Percent(20))
               /\ FitsLength("operational", MAXIMUM_BLOCK_LENGTH \div 4)

\* A block without messages whose initialisation keeps within the ~5% of
\* lib.rs:216-217; what the message queue takes comes on top of these.
Quiet ==
    /\ phase = "idle" =>
           consumed'.mandatory <= AVERAGE_ON_INITIALIZE + (backlog - backlog')
    /\ phase = "initialized" => UNCHANGED <<backlog, consumed>>

\* When messages stop and initialisation is as light as assumed, the queue is
\* emptied, and from then on every block has room for the heaviest transaction of
\* each class that the pool takes for valid (lib.rs:218-219, configs/mod.rs:91).
\* Of a chain whose messages never stop it says nothing: there such a transaction
\* may wait until it expires.
HeaviestGetsIn ==
    <>[][Quiet]_vars =>
        <>[](/\ backlog = 0
             /\ phase = "open" /\ count = 0 =>
                    \A class \in Limited : FitsWeight(class, MaxExtrinsic(class)))

\* The transactions of a block pay, beside the fee per byte and the base fee, what
\* the coefficient p/q and the multiplier of the block make of the weight they
\* used, up to 1 + multiplier units of balance for each of them, however the
\* coefficient is split and the product cut off (lib.rs:136-143,
\* configs/mod.rs:168-174).  Whether p/q is the price that was meant is not said.
FeesFollowWeight ==
    LET calls == (consumed.normal + consumed.operational)
                     - count * ExtrinsicBaseWeight
        callFees == fees - TransactionByteFee * (length - InherentLength)
                        - count * WeightToFee(ExtrinsicBaseWeight)
        exact == multiplier * (p * calls)
        error == (q * (One + multiplier)) * count
    IN  phase = "open" =>
            (One * q) * callFees \in exact - error .. exact + error
=============================================================================
