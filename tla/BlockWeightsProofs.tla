------------------------- MODULE BlockWeightsProofs -------------------------
(***************************************************************************)
(* The limits of a block hold for every weight, length and backlog that    *)
(* WeightAssumption allows.  The inductive invariant says how much the     *)
(* hooks, the message queue and the messages can have taken in each phase, *)
(* and what a block without transactions, or without operational ones,     *)
(* looks like.  The fees are followed separately (FeesInv), under a        *)
(* multiplier that changes from block to block, for constants whose        *)
(* coefficient is a whole number of parts of a billion                     *)
(* (FractionAssumption): otherwise the fraction is cut off, and a weight   *)
(* above a billion loses more than a unit.                                 *)
(***************************************************************************)
EXTENDS BlockWeights, TLAPS

\* A twentieth of the block: every percentage used is a multiple of it.
Twentieth == MAXIMUM_BLOCK_WEIGHT \div 20

\* How much of the block the mandatory class has in each phase.
MandatoryBound ==
    /\ phase = "initialized" =>
           consumed.mandatory <= BlockExecutionWeight + 8 * Twentieth
    /\ phase = "open" =>
           consumed.mandatory <= BlockExecutionWeight + 18 * Twentieth

\* A block has no weight of transactions before it has transactions, and only
\* operational ones go beyond three quarters of its length.
ClassesBound ==
    /\ phase # "open" \/ count = 0 =>
           consumed.normal = 0 /\ consumed.operational = 0
    /\ phase = "open" /\ consumed.operational = 0 =>
           length <= (3 * MAXIMUM_BLOCK_LENGTH) \div 4

IInv == TypeOK /\ MandatoryBound /\ ClassesBound /\ BlockBounded

-----------------------------------------------------------------------------
(* The percentages, without division.                                       *)

LEMMA Limits ==
    /\ Twentieth \in Nat
    /\ MAXIMUM_BLOCK_WEIGHT = 20 * Twentieth
    /\ AVERAGE_ON_INITIALIZE = Twentieth
    /\ NormalMax = 15 * Twentieth
    /\ Percent(20) = 4 * Twentieth
    /\ MessageQueueServiceWeight = 7 * Twentieth
    /\ ReservedXcmpWeight = 5 * Twentieth
    /\ ReservedDmpWeight = 5 * Twentieth
    /\ BlockExecutionWeight + ExtrinsicBaseWeight <= Twentieth
    /\ BlockExecutionWeight \in Nat
    /\ ExtrinsicBaseWeight \in Nat /\ ExtrinsicBaseWeight > 0
<1>1. /\ MAXIMUM_BLOCK_WEIGHT \in Nat /\ MAXIMUM_BLOCK_WEIGHT % 20 = 0
      /\ BlockExecutionWeight \in Nat /\ ExtrinsicBaseWeight \in Nat \ {0}
      /\ 20 * (BlockExecutionWeight + ExtrinsicBaseWeight)
             <= MAXIMUM_BLOCK_WEIGHT
  BY WeightAssumption
<1>2. Twentieth \in Nat /\ MAXIMUM_BLOCK_WEIGHT = 20 * Twentieth
  BY <1>1 DEF Twentieth
<1> HIDE DEF Twentieth
<1>3. /\ AVERAGE_ON_INITIALIZE = Twentieth
      /\ NormalMax = 15 * Twentieth
      /\ Percent(20) = 4 * Twentieth
      /\ MessageQueueServiceWeight = 7 * Twentieth
  BY <1>2 DEF Percent, AVERAGE_ON_INITIALIZE, NormalMax,
              MessageQueueServiceWeight
<1>4. ReservedXcmpWeight = 5 * Twentieth /\ ReservedDmpWeight = 5 * Twentieth
  BY <1>2 DEF ReservedXcmpWeight, ReservedDmpWeight
<1>5. QED
  BY <1>1, <1>2, <1>3, <1>4

LEMMA Length ==
    /\ MAXIMUM_BLOCK_LENGTH \in Nat
    /\ (3 * MAXIMUM_BLOCK_LENGTH) \div 4 \in Nat
    /\ (3 * MAXIMUM_BLOCK_LENGTH) \div 4 + MAXIMUM_BLOCK_LENGTH \div 4
           = MAXIMUM_BLOCK_LENGTH
    /\ MAXIMUM_BLOCK_LENGTH \div 4 \in Nat
    /\ InherentLength <= (3 * MAXIMUM_BLOCK_LENGTH) \div 4
BY WeightAssumption DEF InherentLength

\* What CheckWeight asks of each of the two classes.
LEMMA FitsNormal ==
    ASSUME consumed \in [Limited \cup {"mandatory"} -> Nat], NEW w \in Nat
    PROVE  FitsWeight("normal", w) <=>
               /\ consumed.normal + w + ExtrinsicBaseWeight <= 15 * Twentieth
               /\ Total + w + ExtrinsicBaseWeight <= 20 * Twentieth
BY Limits DEF FitsWeight, MaxTotal, Reserved, Total, Limited

LEMMA FitsOperational ==
    ASSUME consumed \in [Limited \cup {"mandatory"} -> Nat], NEW w \in Nat
    PROVE  FitsWeight("operational", w) <=>
               /\ consumed.operational + w + ExtrinsicBaseWeight
                      <= 20 * Twentieth
               /\ \/ Total + w + ExtrinsicBaseWeight <= 20 * Twentieth
                  \/ consumed.operational + w + ExtrinsicBaseWeight
                         <= 5 * Twentieth
BY Limits DEF FitsWeight, MaxTotal, Reserved, Total, Limited

LEMMA QuotientIsNat ==
    ASSUME NEW n \in Nat, NEW d \in Nat, d > 0, NEW k, k = n \div d
    PROVE  k \in Nat
OBVIOUS

LEMMA MultiplierIsNat ==
    TypeOK => multiplier \in Nat /\ One \in Nat /\ One > 0
BY WeightAssumption DEF TypeOK

LEMMA FeeIsNat ==
    ASSUME TypeOK, NEW w \in Nat, NEW len \in Nat
    PROVE  Fee(w, len) \in Nat
<1>1. p \in Nat /\ q \in Nat /\ q > 0 /\ TransactionByteFee \in Nat
  BY WeightAssumption DEF p, q, TransactionByteFee
<1>2. coeff_integer \in Nat /\ p % q \in Nat
  BY <1>1 DEF coeff_integer
<1>3. Billion \in Nat /\ Billion > 0
  BY WeightAssumption
<1>4. (p % q) * Billion \in Nat
  BY <1>2, <1>3
<1>5. coeff_frac \in Nat
  BY <1>1, <1>4 DEF coeff_frac
<1>6. ASSUME NEW v \in Nat PROVE WeightToFee(v) \in Nat
  <2>1. coeff_integer * v \in Nat
    BY <1>2
  <2>2. coeff_frac * v \in Nat
    BY <1>5
  <2>3. 2 * coeff_frac * v \in Nat
    <3>1. 2 * coeff_frac \in Nat
      BY <1>5
    <3>2. QED
      BY <3>1
  <2>4. (2 * coeff_frac * v + Billion - 1) \div (2 * Billion) \in Nat
    <3> DEFINE n == 2 * coeff_frac * v
    <3>1. n \in Nat
      BY <2>3
    <3> HIDE DEF n
    <3>2. n + Billion - 1 \in Nat /\ 2 * Billion \in Nat /\ 2 * Billion > 0
      BY <3>1, <1>3
    <3>3. (n + Billion - 1) \div (2 * Billion) \in Nat
      BY <3>2
    <3>4. QED
      BY <3>3 DEF n
  <2>5. QED
    BY <2>1, <2>4 DEF WeightToFee
<1>7. ExtrinsicBaseWeight \in Nat
  BY WeightAssumption
<1>8. len * TransactionByteFee \in Nat
  BY <1>1
<1>9. WeightToFee(ExtrinsicBaseWeight) \in Nat /\ WeightToFee(w) \in Nat
  BY <1>6, <1>7
<1>10. Adjusted(WeightToFee(w)) \in Nat
  <2> DEFINE fee == WeightToFee(w)
             n == multiplier * fee
  <2>1. fee \in Nat
    BY <1>9
  <2> HIDE DEF fee
  <2>2. n \in Nat
    BY <2>1, MultiplierIsNat
  <2>3. Adjusted(fee) = n \div One
    BY DEF Adjusted
  <2> HIDE DEF n
  <2>4. Adjusted(fee) \in Nat
    BY <2>2, <2>3, MultiplierIsNat, QuotientIsNat
  <2>5. QED
    BY <2>4 DEF fee
<1>11. QED
  BY <1>8, <1>9, <1>10 DEF Fee

-----------------------------------------------------------------------------
(* The inductive invariant.                                                 *)

LEMMA InitIInv == Init => IInv
BY Limits, WeightAssumption
   DEF Init, IInv, TypeOK, MandatoryBound, ClassesBound, BlockBounded, Total,
       NoWeight, Limited

LEMMA InitializeBlockIInv ==
    ASSUME IInv, NEW hooks \in Weights, InitializeBlock(hooks)
    PROVE  IInv'
<1> DEFINE service == IF backlog <= MessageQueueServiceWeight THEN backlog
                      ELSE MessageQueueServiceWeight
<1>1. backlog \in Nat /\ backlog <= MaxBacklog /\ MaxBacklog \in Nat
  BY WeightAssumption DEF IInv, TypeOK
<1>2. /\ service \in Nat /\ service <= 7 * Twentieth
      /\ backlog - service \in 0..MaxBacklog
  BY <1>1, Limits
<1>3. hooks \in Nat /\ hooks <= Twentieth
  BY WeightAssumption, Limits DEF InitializeBlock
<1>4. /\ consumed' = [NoWeight EXCEPT !["mandatory"] =
                          BlockExecutionWeight + hooks + service]
      /\ backlog' = backlog - service
      /\ phase' = "initialized" /\ length' = 0 /\ fees' = 0 /\ count' = 0
      /\ multiplier' = multiplier
  BY DEF InitializeBlock
<1> HIDE DEF service
<1>5. /\ consumed' \in [Limited \cup {"mandatory"} -> Nat]
      /\ consumed'["normal"] = 0 /\ consumed'["operational"] = 0
      /\ consumed'["mandatory"] = BlockExecutionWeight + hooks + service
  BY <1>2, <1>3, <1>4, Limits DEF NoWeight, Limited
<1>6. TypeOK'
  BY <1>2, <1>4, <1>5, Length DEF IInv, TypeOK
<1>7. MandatoryBound' /\ ClassesBound'
  BY <1>2, <1>3, <1>4, <1>5, Limits DEF MandatoryBound, ClassesBound
<1>8. BlockBounded'
  BY <1>2, <1>3, <1>5, Limits DEF BlockBounded, Total
<1>9. QED
  BY <1>6, <1>7, <1>8 DEF IInv

LEMMA InherentsIInv ==
    ASSUME IInv, NEW xcmp \in Weights, NEW dmp \in Weights, NEW more \in Weights,
           Inherents(xcmp, dmp, more)
    PROVE  IInv'
<1>1. /\ xcmp \in Nat /\ xcmp <= 5 * Twentieth
      /\ dmp \in Nat /\ dmp <= 5 * Twentieth /\ more \in Nat
  BY WeightAssumption, Limits DEF Inherents
<1>2. /\ consumed \in [Limited \cup {"mandatory"} -> Nat]
      /\ consumed["normal"] = 0 /\ consumed["operational"] = 0
      /\ consumed["mandatory"] <= BlockExecutionWeight + 8 * Twentieth
  BY DEF IInv, TypeOK, MandatoryBound, ClassesBound, Inherents
<1>3. /\ consumed' \in [Limited \cup {"mandatory"} -> Nat]
      /\ consumed'["normal"] = 0 /\ consumed'["operational"] = 0
      /\ consumed'["mandatory"] = consumed["mandatory"] + xcmp + dmp
  BY <1>1, <1>2 DEF Inherents, Limited
<1>4. consumed["mandatory"] \in Nat
  BY <1>2 DEF Limited
<1>5. TypeOK'
  <2>1. backlog' \in 0..MaxBacklog
    BY <1>1, WeightAssumption DEF IInv, TypeOK, Inherents
  <2>2. length' \in 0..MAXIMUM_BLOCK_LENGTH
    BY Length DEF Inherents, InherentLength
  <2>3. QED
    BY <1>3, <2>1, <2>2 DEF IInv, TypeOK, Inherents
<1>6. MandatoryBound'
  BY <1>1, <1>2, <1>3, <1>4, Limits DEF MandatoryBound, Inherents
<1>7. ClassesBound'
  BY <1>3, Length DEF ClassesBound, Inherents
<1>8. BlockBounded'
  BY <1>1, <1>2, <1>3, <1>4, Limits DEF BlockBounded, Total
<1>9. QED
  BY <1>5, <1>6, <1>7, <1>8 DEF IInv

LEMMA ApplyExtrinsicIInv ==
    ASSUME IInv, NEW class \in Limited, NEW w \in Weights, NEW actual \in Weights,
           NEW len \in Lengths, ApplyExtrinsic(class, w, actual, len)
    PROVE  IInv'
<1>1. /\ w \in Nat /\ actual \in Nat /\ actual <= w
      /\ len \in Nat /\ len > 0
  BY WeightAssumption DEF ApplyExtrinsic
<1>2. /\ consumed \in [Limited \cup {"mandatory"} -> Nat]
      /\ consumed["normal"] \in Nat /\ consumed["operational"] \in Nat
      /\ consumed["mandatory"] \in Nat
      /\ count \in Nat /\ fees \in Nat /\ length \in 0..MAXIMUM_BLOCK_LENGTH
  BY DEF IInv, TypeOK, Limited
<1> DEFINE more == actual + ExtrinsicBaseWeight
<1>3. /\ phase = "open" /\ phase' = "open" /\ count' = count + 1
      /\ consumed' = [consumed EXCEPT ![class] = @ + actual + ExtrinsicBaseWeight]
      /\ length' = length + len /\ fees' = fees + Fee(actual, len)
      /\ UNCHANGED <<backlog, multiplier>>
      /\ FitsWeight(class, w) /\ FitsLength(class, len)
  BY DEF ApplyExtrinsic
<1>4. /\ consumed' \in [Limited \cup {"mandatory"} -> Nat]
      /\ consumed'["mandatory"] = consumed["mandatory"]
      /\ consumed'[class] = consumed[class] + more
      /\ \A other \in Limited \ {class} : consumed'[other] = consumed[other]
  BY <1>1, <1>2, <1>3, Limits DEF Limited
<1>5. TypeOK'
  <2>1. fees' \in Nat
    <3>1. Fee(actual, len) \in Nat
      BY <1>1, FeeIsNat DEF IInv
    <3>2. QED
      BY <1>2, <1>3, <3>1
  <2>2. length' \in 0..MAXIMUM_BLOCK_LENGTH
    BY <1>1, <1>2, <1>3, Length DEF FitsLength, MaxLength, Limited
  <2>3. QED
    BY <1>2, <1>3, <1>4, <2>1, <2>2 DEF IInv, TypeOK
<1>6. MandatoryBound'
  BY <1>3, <1>4 DEF IInv, MandatoryBound
<1>7. CASE class = "normal"
  <2>1. /\ consumed'["normal"] = consumed["normal"] + more
        /\ consumed'["operational"] = consumed["operational"]
    BY <1>4, <1>7 DEF Limited
  <2>2. Total + w + ExtrinsicBaseWeight <= 20 * Twentieth
    BY <1>1, <1>2, <1>3, <1>7, FitsNormal
  <2>3. BlockBounded'
    BY <1>1, <1>2, <1>4, <2>1, <2>2, Limits DEF BlockBounded, Total
  <2>4. ClassesBound'
    BY <1>1, <1>2, <1>3, <1>7, Length DEF ClassesBound, FitsLength, MaxLength
  <2>5. QED
    BY <1>5, <1>6, <2>3, <2>4 DEF IInv
<1>8. CASE class = "operational"
  <2>1. /\ consumed'["operational"] = consumed["operational"] + more
        /\ consumed'["normal"] = consumed["normal"]
    BY <1>4, <1>8 DEF Limited
  <2>2. \/ Total + w + ExtrinsicBaseWeight <= 20 * Twentieth
        \/ consumed["operational"] + w + ExtrinsicBaseWeight <= 5 * Twentieth
    BY <1>1, <1>2, <1>3, <1>8, FitsOperational
  <2>3. consumed["normal"] + consumed["mandatory"] <= 20 * Twentieth
    BY Limits DEF IInv, BlockBounded
  <2>4. BlockBounded'
    BY <1>1, <1>2, <1>4, <2>1, <2>2, <2>3, Limits DEF BlockBounded, Total
  <2>5. consumed'["operational"] > 0 /\ count' > 0
    BY <1>1, <1>2, <1>3, <2>1, Limits
  <2>6. ClassesBound'
    BY <1>3, <2>5 DEF ClassesBound
  <2>7. QED
    BY <1>5, <1>6, <2>4, <2>6 DEF IInv
<1>9. QED
  BY <1>7, <1>8 DEF Limited

LEMMA FinalizeBlockIInv ==
    ASSUME IInv, FinalizeBlock
    PROVE  IInv'
BY Limits, Length
   DEF FinalizeBlock, FeeMultiplierUpdate, IInv, TypeOK, MandatoryBound, ClassesBound, BlockBounded,
       Total, NoWeight, Limited

LEMMA NextIInv == IInv /\ [Next]_vars => IInv'
<1> SUFFICES ASSUME IInv, [Next]_vars PROVE IInv'
  OBVIOUS
<1>1. ASSUME NEW hooks \in Weights, InitializeBlock(hooks) PROVE IInv'
  BY <1>1, InitializeBlockIInv
<1>2. ASSUME NEW xcmp \in Weights, NEW dmp \in Weights, NEW more \in Weights,
             Inherents(xcmp, dmp, more)
      PROVE  IInv'
  BY <1>2, InherentsIInv
<1>3. ASSUME NEW class \in Limited, NEW w \in Weights, NEW actual \in Weights,
             NEW len \in Lengths, ApplyExtrinsic(class, w, actual, len)
      PROVE  IInv'
  BY <1>3, ApplyExtrinsicIInv
<1>4. CASE FinalizeBlock
  BY <1>4, FinalizeBlockIInv
<1>5. CASE UNCHANGED vars
  BY <1>5 DEF vars, IInv, TypeOK, MandatoryBound, ClassesBound, BlockBounded,
              Total
<1>6. QED
  BY <1>1, <1>2, <1>3, <1>4, <1>5 DEF Next, Open, AddInherents

\* The inductive invariant holds in every reachable state.
THEOREM Invariance == Spec => []IInv
BY InitIInv, NextIInv, PTL DEF Spec

-----------------------------------------------------------------------------
(* What the runs check, for all weights and lengths.                        *)

\* The weights and lengths that frame_system keeps of a block, and the backlog,
\* are what they should be (configs/mod.rs:66-94).
THEOREM TypeCorrect == Spec => []TypeOK
BY Invariance, PTL DEF IInv

\* A block exceeds its maximum by the operational reserve at the most
\* (configs/mod.rs:87-89).
THEOREM BlockIsBounded == Spec => []BlockBounded
BY Invariance, PTL DEF IInv

\* Whatever initialisation and messages took, a first transaction of either class
\* finds room (configs/mod.rs:85, 184-185, 206).
THEOREM RoomIsLeft == Spec => []RoomForTransactions
<1>1. IInv => RoomForTransactions
  <2> SUFFICES ASSUME IInv, phase = "open" PROVE
          /\ count = 0 => FitsWeight("normal", 0)
          /\ consumed.operational = 0 =>
                 /\ FitsWeight("operational", Percent(20))
                 /\ FitsLength("operational", MAXIMUM_BLOCK_LENGTH \div 4)
    BY DEF RoomForTransactions
  <2>1. /\ consumed \in [Limited \cup {"mandatory"} -> Nat]
        /\ consumed["normal"] \in Nat /\ consumed["operational"] \in Nat
        /\ consumed["mandatory"] \in Nat /\ length \in Nat
        /\ consumed["mandatory"] <= BlockExecutionWeight + 18 * Twentieth
    BY Length DEF IInv, TypeOK, MandatoryBound, Limited
  <2>2. ASSUME count = 0 PROVE FitsWeight("normal", 0)
    <3>1. consumed["normal"] = 0 /\ consumed["operational"] = 0
      BY <2>2 DEF IInv, ClassesBound
    <3>2. QED
      BY <2>1, <3>1, FitsNormal, Limits DEF Total
  <2>3. ASSUME consumed.operational = 0
        PROVE  /\ FitsWeight("operational", Percent(20))
               /\ FitsLength("operational", MAXIMUM_BLOCK_LENGTH \div 4)
    <3>1. FitsWeight("operational", 4 * Twentieth)
      BY <2>1, <2>3, FitsOperational, Limits
    <3>2. length <= (3 * MAXIMUM_BLOCK_LENGTH) \div 4
      BY <2>3 DEF IInv, ClassesBound
    <3>3. FitsLength("operational", MAXIMUM_BLOCK_LENGTH \div 4)
      BY <2>1, <3>2, Length DEF FitsLength, MaxLength
    <3>4. QED
      BY <3>1, <3>3, Limits
  <2>4. QED
    BY <2>2, <2>3
<1>2. QED
  BY <1>1, Invariance, PTL

-----------------------------------------------------------------------------
(* Fees.                                                                    *)

LEMMA Cancel ==
    ASSUME NEW B \in Nat, B > 0, NEW u \in Int, NEW v \in Int, B * u <= B * v
    PROVE  u <= v
OBVIOUS

LEMMA Scale ==
    ASSUME NEW m \in Nat, NEW u \in Int, NEW v \in Int, u <= v
    PROVE  m * u <= m * v
OBVIOUS

LEMMA Division ==
    ASSUME NEW n \in Int, NEW d \in Int, d > 0, NEW k, k = n \div d
    PROVE  k \in Int /\ d * k <= n /\ n < d * k + d
OBVIOUS

LEMMA DivisionWithRest ==
    ASSUME NEW n \in Int, NEW d \in Int, d > 0, NEW k, k = n \div d, NEW r, r = n % d
    PROVE  k \in Int /\ r \in Int /\ n = k * d + r
OBVIOUS

\* What the integer and the fraction of the coefficient have to do with p / q.
LEMMA Coefficients ==
    /\ p \in Nat /\ q \in Nat /\ q > 0 /\ Billion \in Nat /\ Billion > 0
    /\ coeff_integer \in Int /\ coeff_frac \in Int /\ p % q \in Int
    /\ p = coeff_integer * q + (p % q)
    /\ q * coeff_frac = (p % q) * Billion
<1>1. p \in Nat /\ q \in Nat /\ q > 0 /\ Billion \in Nat /\ Billion > 0
  BY WeightAssumption DEF p, q
<1> DEFINE r == p % q
           parts == r * Billion
<1>2. coeff_integer \in Int /\ r \in Int /\ p = coeff_integer * q + r
  <2>1. coeff_integer = p \div q /\ r = p % q
    BY DEF coeff_integer
  <2> HIDE DEF r
  <2>2. QED
    BY <1>1, <2>1, DivisionWithRest
<1>3. coeff_frac = parts \div q /\ parts % q = 0
  BY FractionAssumption DEF coeff_frac
<1> HIDE DEF r
<1>4. parts \in Int
  BY <1>1, <1>2
<1> HIDE DEF parts
<1>5. coeff_frac \in Int /\ parts = coeff_frac * q + 0
  <2> DEFINE zero == parts % q
  <2>1. zero = parts % q /\ zero = 0
    BY <1>3
  <2> HIDE DEF zero
  <2>2. coeff_frac \in Int /\ parts = coeff_frac * q + zero
    BY <1>1, <1>3, <1>4, <2>1, DivisionWithRest
  <2>3. QED
    BY <2>1, <2>2
<1>6. q * coeff_frac = parts
  BY <1>1, <1>5
<1>7. QED
  BY <1>1, <1>2, <1>5, <1>6 DEF r, parts

\* The fee for a weight is p/q of it, rounded once.
LEMMA FeeIsRounded ==
    ASSUME NEW w \in Nat
    PROVE  WeightToFee(w) \in Int /\ 2 * (q * WeightToFee(w)) \in 2 * (p * w) - q .. 2 * (p * w) + q
<1> DEFINE x == coeff_frac * w
           r == p % q
           n == 2 * coeff_frac * w + Billion - 1
           R == n \div (2 * Billion)
<1>1. /\ p \in Int /\ q \in Nat /\ q > 0 /\ Billion \in Nat /\ Billion > 0
      /\ coeff_integer \in Int /\ coeff_frac \in Int /\ r \in Int
      /\ p = coeff_integer * q + r
      /\ q * coeff_frac = r * Billion
  BY Coefficients
<1>2. WeightToFee(w) = coeff_integer * w + R
  BY DEF WeightToFee
<1> HIDE DEF r
<1>3. x \in Int /\ n = 2 * x + Billion - 1 /\ n \in Int
  BY <1>1
<1>4. R \in Int /\ (2 * Billion) * R <= n /\ n < (2 * Billion) * R + 2 * Billion
  <2>1. R = n \div (2 * Billion) /\ 2 * Billion \in Int /\ 2 * Billion > 0
    BY <1>1
  <2> HIDE DEF R, n
  <2>2. QED
    BY <1>3, <2>1, Division
<1> HIDE DEF R, n
<1> DEFINE y == (2 * Billion) * R
<1>5. y \in Int /\ 2 * x - Billion <= y /\ y <= 2 * x + Billion
  BY <1>1, <1>3, <1>4
<1> HIDE DEF y
<1>6. q * (2 * x - Billion) <= q * y /\ q * y <= q * (2 * x + Billion)
  BY <1>1, <1>3, <1>5, Scale
<1> DEFINE u == q * R
           v == r * w
<1>7. q * y = Billion * (2 * u)
  <2>1. q * ((2 * Billion) * R) = Billion * (2 * (q * R))
    BY <1>1, <1>4
  <2>2. QED
    BY <2>1 DEF y
<1>8. /\ q * (2 * x - Billion) = Billion * (2 * v - q)
      /\ q * (2 * x + Billion) = Billion * (2 * v + q)
  <2>1. (q * coeff_frac) * w = (r * Billion) * w
    BY <1>1
  <2>2. q * x = Billion * v
    BY <1>1, <2>1
  <2>3. q * (2 * x - Billion) = 2 * (q * x) - q * Billion
    BY <1>1, <1>3
  <2>4. q * (2 * x + Billion) = 2 * (q * x) + q * Billion
    BY <1>1, <1>3
  <2>5. v \in Int
    BY <1>1
  <2> HIDE DEF v, x
  <2>6. /\ Billion * (2 * v - q) = 2 * (Billion * v) - q * Billion
        /\ Billion * (2 * v + q) = 2 * (Billion * v) + q * Billion
    BY <1>1, <2>5
  <2>7. QED
    BY <2>2, <2>3, <2>4, <2>6
<1>9. u \in Int /\ v \in Int
  BY <1>1, <1>4
<1> HIDE DEF u, v
<1>10. 2 * v - q <= 2 * u /\ 2 * u <= 2 * v + q
  BY <1>1, <1>6, <1>7, <1>8, <1>9, Cancel
<1>11. WeightToFee(w) \in Int /\ q * WeightToFee(w) = p * w + (u - v)
  BY <1>1, <1>2, <1>4 DEF u, v
<1>12. p * w \in Int
  BY <1>1
<1>13. QED
  BY <1>1, <1>9, <1>10, <1>11, <1>12

\* What the multiplier and the cut add to that.
LEMMA AdjustedIsRounded ==
    ASSUME TypeOK, NEW w \in Nat
    PROVE  /\ Adjusted(WeightToFee(w)) \in Int
           /\ (One * q) * Adjusted(WeightToFee(w))
                  \in multiplier * (p * w) - q * (One + multiplier)
                      .. multiplier * (p * w) + q * (One + multiplier)
<1> DEFINE F == WeightToFee(w)
           f == multiplier * F
           G == Adjusted(F)
           g == One * G
           a == q * F
           b == p * w
<1>1. multiplier \in Nat /\ One \in Nat /\ One > 0 /\ p \in Nat /\ q \in Nat
  BY MultiplierIsNat, Coefficients
<1>2. F \in Int /\ 2 * a \in 2 * b - q .. 2 * b + q
  BY FeeIsRounded
<1>3. G = f \div One
  BY DEF Adjusted
<1> HIDE DEF F
<1>4. f \in Int /\ a \in Int /\ b \in Int
  BY <1>1, <1>2
<1> HIDE DEF f, G
<1>5. G \in Int /\ One * G <= f /\ f < One * G + One
  BY <1>1, <1>3, <1>4, Division
<1>6. g \in Int /\ g <= f /\ f <= g + One
  BY <1>1, <1>4, <1>5
<1>7. q * f = multiplier * a
  <2>1. q * (multiplier * F) = multiplier * (q * F)
    BY <1>1, <1>2
  <2>2. QED
    BY <2>1 DEF f
<1>8. (One * q) * G = q * g
  BY <1>1, <1>5
<1> HIDE DEF g, a, b
<1>9. a <= b + q /\ b - q <= a
  BY <1>1, <1>2, <1>4
<1>10. multiplier * a <= multiplier * (b + q) /\ multiplier * (b - q) <= multiplier * a
  BY <1>1, <1>4, <1>9, Scale
<1>11. q * g <= q * f /\ q * f <= q * (g + One)
  BY <1>1, <1>4, <1>6, Scale
<1> DEFINE x == multiplier * b
           y == multiplier * q
           z == q * One
           u == q * g
<1>12. /\ multiplier * (b + q) = x + y /\ multiplier * (b - q) = x - y
       /\ q * (g + One) = u + z /\ q * (One + multiplier) = z + y
  BY <1>1, <1>4, <1>6
<1>13. x \in Int /\ y \in Nat /\ z \in Nat /\ u \in Int /\ multiplier * a \in Int
  BY <1>1, <1>4, <1>6
<1> HIDE DEF x, y, z, u
<1>14. u <= x + (z + y) /\ x - (z + y) <= u
  BY <1>7, <1>10, <1>11, <1>12, <1>13 DEF u
<1>15. (One * q) * G \in x - q * (One + multiplier) .. x + q * (One + multiplier)
  BY <1>8, <1>12, <1>13, <1>14 DEF u
<1>16. QED
  BY <1>5, <1>15 DEF x, b, G, F

Calls ==
    (consumed.normal + consumed.operational) - count * ExtrinsicBaseWeight
CallFees ==
    fees - TransactionByteFee * (length - InherentLength)
        - count * WeightToFee(ExtrinsicBaseWeight)
Exact == multiplier * (p * Calls)
Error == (q * (One + multiplier)) * count

FeesInv ==
    /\ phase = "initialized" => fees = 0 /\ count = 0
    /\ phase = "open" => (One * q) * CallFees \in Exact - Error .. Exact + Error

LEMMA Numbers ==
    /\ p \in Nat /\ q \in Nat /\ TransactionByteFee \in Nat
    /\ ExtrinsicBaseWeight \in Nat /\ WeightToFee(ExtrinsicBaseWeight) \in Int
BY WeightAssumption, Coefficients, FeeIsRounded DEF TransactionByteFee

LEMMA InherentsFees ==
    ASSUME IInv, FeesInv, NEW xcmp \in Weights, NEW dmp \in Weights, NEW more \in Weights,
           Inherents(xcmp, dmp, more)
    PROVE  FeesInv'
<1>1. /\ consumed' = [consumed EXCEPT !["mandatory"] = @ + xcmp + dmp]
      /\ length' = InherentLength /\ fees' = 0 /\ count' = 0 /\ phase' = "open"
      /\ multiplier' = multiplier
  BY DEF Inherents, FeesInv
<1>2. consumed'["normal"] = 0 /\ consumed'["operational"] = 0
  BY <1>1 DEF IInv, TypeOK, ClassesBound, Inherents, Limited
<1>3. multiplier \in Nat /\ One \in Nat
  BY MultiplierIsNat DEF IInv
<1>4. Calls' = 0
  BY <1>1, <1>2, Numbers DEF Calls
<1>5. CallFees' = 0
  BY <1>1, Numbers DEF CallFees, InherentLength
<1>6. Exact' = 0 /\ Error' = 0
  BY <1>1, <1>3, <1>4, Numbers DEF Exact, Error
<1>7. (One * q) * CallFees' = 0
  BY <1>3, <1>5, Numbers
<1>8. QED
  BY <1>1, <1>6, <1>7 DEF FeesInv

LEMMA ApplyExtrinsicFees ==
    ASSUME IInv, FeesInv, NEW class \in Limited, NEW w \in Weights, NEW actual \in Weights,
           NEW len \in Lengths, ApplyExtrinsic(class, w, actual, len)
    PROVE  FeesInv'
<1> DEFINE base == WeightToFee(ExtrinsicBaseWeight)
           call == Adjusted(WeightToFee(actual))
           byte == TransactionByteFee
           both == consumed.normal + consumed.operational
           m == multiplier
           e == q * (One + multiplier)
<1>1. /\ phase = "open" /\ phase' = "open" /\ count' = count + 1
      /\ consumed' = [consumed EXCEPT ![class] = @ + actual + ExtrinsicBaseWeight]
      /\ length' = length + len /\ fees' = fees + Fee(actual, len)
      /\ multiplier' = multiplier
  BY DEF ApplyExtrinsic
<1>2. actual \in Nat /\ len \in Nat /\ m \in Nat /\ One \in Nat
  BY WeightAssumption, MultiplierIsNat DEF IInv
<1>3. /\ consumed \in [Limited \cup {"mandatory"} -> Nat]
      /\ consumed["normal"] \in Nat /\ consumed["operational"] \in Nat
      /\ count \in Nat /\ fees \in Nat /\ length \in Nat
  BY Length DEF IInv, TypeOK, Limited
<1>4. call \in Int /\ (One * q) * call \in m * (p * actual) - e .. m * (p * actual) + e
  BY <1>2, AdjustedIsRounded DEF IInv
<1>5. fees' = fees + (base + call + len * byte)
  BY <1>1 DEF Fee
<1>6. base \in Int /\ byte \in Nat
  BY Numbers
<1> HIDE DEF base, call, byte
<1>7. CallFees' = CallFees + call /\ CallFees \in Int
  <2> DEFINE old == byte * (length - InherentLength)
             bytes == len * byte
             paid == count * base
  <2>1. byte * ((length + len) - InherentLength) = old + bytes
    BY <1>2, <1>3, <1>6 DEF InherentLength
  <2>2. (count + 1) * base = paid + base
    BY <1>3, <1>6
  <2>3. CallFees = fees - old - paid
    BY DEF CallFees, base, byte
  <2>4. CallFees' = fees' - byte * (length' - InherentLength) - count' * base
    BY DEF CallFees, base, byte
  <2>5. CallFees' = fees' - byte * ((length + len) - InherentLength) - (count + 1) * base
    BY <1>1, <2>4
  <2>6. old \in Int /\ bytes \in Int /\ paid \in Int
    BY <1>2, <1>3, <1>6 DEF InherentLength
  <2> HIDE DEF old, bytes, paid
  <2>7. CallFees' = fees' - (old + bytes) - (paid + base)
    BY <2>1, <2>2, <2>5
  <2>8. fees' = fees + (base + call + bytes)
    BY <1>5 DEF bytes
  <2>9. QED
    BY <1>3, <1>4, <1>6, <2>3, <2>6, <2>7, <2>8
<1>8. Calls' = Calls + actual /\ Calls \in Int
  <2> DEFINE weight == count * ExtrinsicBaseWeight
  <2>1. consumed'["normal"] + consumed'["operational"] = both + (actual + ExtrinsicBaseWeight)
    BY <1>1, <1>2, <1>3, Numbers DEF Limited
  <2>2. (count + 1) * ExtrinsicBaseWeight = weight + ExtrinsicBaseWeight /\ weight \in Int
    BY <1>3, Numbers
  <2>3. Calls = both - weight
    BY DEF Calls
  <2>4. Calls' = (both + (actual + ExtrinsicBaseWeight)) - (count + 1) * ExtrinsicBaseWeight
    BY <1>1, <2>1 DEF Calls
  <2> HIDE DEF weight
  <2>5. Calls' = (both + (actual + ExtrinsicBaseWeight)) - (weight + ExtrinsicBaseWeight)
    BY <2>2, <2>4
  <2>6. QED
    BY <1>2, <1>3, <2>2, <2>3, <2>5, Numbers
<1>9. Exact' = Exact + m * (p * actual) /\ Exact \in Int /\ m * (p * actual) \in Int
  <2>1. Exact' = m * (p * (Calls + actual))
    BY <1>1, <1>8 DEF Exact
  <2>2. p * (Calls + actual) = p * Calls + p * actual
    BY <1>2, <1>8, Numbers
  <2>3. p * Calls \in Int /\ p * actual \in Int
    BY <1>2, <1>8, Numbers
  <2>4. m * (p * Calls + p * actual) = m * (p * Calls) + m * (p * actual)
    BY <1>2, <2>3
  <2>5. m * (p * Calls) \in Int /\ m * (p * actual) \in Int
    BY <1>2, <2>3
  <2>6. QED
    BY <2>1, <2>2, <2>4, <2>5 DEF Exact
<1>10. e \in Nat
  BY <1>2, Numbers
<1>11. Error' = Error + e /\ Error \in Int
  <2>1. Error' = e * (count + 1) /\ Error = e * count
    BY <1>1 DEF Error
  <2> HIDE DEF e
  <2>2. QED
    BY <1>3, <1>10, <2>1
<1> DEFINE k == One * q
           all == k * CallFees
           one == k * call
           x == m * (p * actual)
<1>12. k \in Int
  BY <1>2, Numbers
<1>13. k * CallFees' = all + one /\ all \in Int /\ one \in Int
  <2> HIDE DEF k
  <2>1. k * (CallFees + call) = k * CallFees + k * call
    BY <1>4, <1>7, <1>12
  <2>2. k * CallFees \in Int /\ k * call \in Int
    BY <1>4, <1>7, <1>12
  <2>3. QED
    BY <1>7, <2>1, <2>2
<1>14. all \in Exact - Error .. Exact + Error
  BY <1>1 DEF FeesInv
<1>15. one \in x - e .. x + e
  BY <1>4
<1> HIDE DEF all, one, x, e, k
<1>16. Exact' = Exact + x /\ x \in Int
  BY <1>9 DEF x
<1>17. k * CallFees' \in Exact' - Error' .. Exact' + Error'
  BY <1>9, <1>10, <1>11, <1>13, <1>14, <1>15, <1>16
<1>18. QED
  BY <1>1, <1>17 DEF FeesInv, k

\* What the transactions of a block pay for their calls is the coefficient times
\* the multiplier of the block, up to 1 + multiplier units for each of them, for
\* every weight and however the multiplier moved before (lib.rs:136-143,
\* configs/mod.rs:168-174).
THEOREM FeesAreProportional == Spec => []FeesFollowWeight
<1>1. Init => FeesInv
  BY DEF Init, FeesInv
<1>2. IInv /\ FeesInv /\ [Next]_vars => FeesInv'
  <2> SUFFICES ASSUME IInv, FeesInv, [Next]_vars PROVE FeesInv'
    OBVIOUS
  <2>1. ASSUME NEW hooks \in Weights, InitializeBlock(hooks) PROVE FeesInv'
    BY <2>1 DEF InitializeBlock, FeesInv
  <2>2. ASSUME NEW xcmp \in Weights, NEW dmp \in Weights, NEW more \in Weights,
               Inherents(xcmp, dmp, more)
        PROVE  FeesInv'
    BY <2>2, InherentsFees
  <2>3. ASSUME NEW class \in Limited, NEW w \in Weights, NEW actual \in Weights,
               NEW len \in Lengths, ApplyExtrinsic(class, w, actual, len)
        PROVE  FeesInv'
    BY <2>3, ApplyExtrinsicFees
  <2>4. CASE FinalizeBlock
    BY <2>4 DEF FinalizeBlock, FeesInv
  <2>5. CASE UNCHANGED vars
    <3>1. phase' = phase /\ count' = count /\ fees' = fees
      BY <2>5 DEF vars
    <3>2. CallFees' = CallFees /\ Exact' = Exact /\ Error' = Error
      BY <2>5 DEF vars, CallFees, Calls, Exact, Error
    <3>3. QED
      BY <3>1, <3>2 DEF FeesInv
  <2>6. QED
    BY <2>1, <2>2, <2>3, <2>4, <2>5 DEF Next, Open, AddInherents
<1>3. FeesInv => FeesFollowWeight
  BY DEF FeesInv, FeesFollowWeight, CallFees, Calls, Exact, Error
<1>4. QED
  BY <1>1, <1>2, <1>3, Invariance, PTL DEF Spec

-----------------------------------------------------------------------------
(* Fees of two weights.                                                     *)

LEMMA DivisionGrows ==
    ASSUME NEW m \in Int, NEW n \in Int, m <= n, NEW d \in Int, d > 0,
           NEW j, j = m \div d, NEW k, k = n \div d
    PROVE  j \in Int /\ k \in Int /\ j <= k
<1>1. j \in Int /\ d * j <= m
  BY Division
<1>2. k \in Int /\ n < d * k + d
  BY Division
<1>3. CASE k + 1 <= j
  <2>1. d * (k + 1) <= d * j
    BY <1>1, <1>2, <1>3, Scale
  <2>2. d * (k + 1) = d * k + d
    BY <1>2
  <2> DEFINE x == d * j
             y == d * k
  <2>3. x \in Int /\ y \in Int
    BY <1>1, <1>2
  <2>4. y + d <= x /\ x <= m /\ n < y + d
    BY <1>1, <1>2, <2>1, <2>2
  <2> HIDE DEF x, y
  <2>5. QED
    BY <2>3, <2>4
<1>4. QED
  BY <1>1, <1>2, <1>3

LEMMA RestIsNat ==
    ASSUME NEW n \in Nat, NEW d \in Nat, d > 0, NEW r, r = n % d
    PROVE  r \in Nat
OBVIOUS

LEMMA CoefficientsAreNat == coeff_integer \in Nat /\ coeff_frac \in Nat
<1>1. p \in Nat /\ q \in Nat /\ q > 0 /\ Billion \in Nat
  BY Coefficients
<1>2. coeff_integer \in Nat
  <2>1. coeff_integer = p \div q
    BY DEF coeff_integer
  <2>2. QED
    BY <1>1, <2>1, QuotientIsNat
<1> DEFINE r == p % q
           parts == r * Billion
<1>3. r \in Nat
  BY <1>1, RestIsNat
<1>4. coeff_frac = parts \div q
  BY DEF coeff_frac
<1> HIDE DEF r
<1>5. parts \in Nat
  BY <1>1, <1>3
<1> HIDE DEF parts
<1>6. coeff_frac \in Nat
  BY <1>1, <1>4, <1>5, QuotientIsNat
<1>7. QED
  BY <1>2, <1>6

LEMMA MoreCostsMore ==
    ASSUME TypeOK, NEW v \in Nat, NEW w \in Nat, NEW len \in Nat, v <= w
    PROVE  Fee(v, len) <= Fee(w, len)
<1> DEFINE m == 2 * coeff_frac * v + Billion - 1
           n == 2 * coeff_frac * w + Billion - 1
           j == m \div (2 * Billion)
           k == n \div (2 * Billion)
<1>1. coeff_integer \in Nat /\ coeff_frac \in Nat /\ Billion \in Nat /\ Billion > 0
  BY Coefficients, CoefficientsAreNat
<1>2. coeff_integer * v <= coeff_integer * w /\ (2 * coeff_frac) * v <= (2 * coeff_frac) * w
  BY <1>1, Scale
<1>3. m \in Int /\ n \in Int /\ m <= n /\ 2 * Billion \in Int /\ 2 * Billion > 0
  BY <1>1, <1>2
<1>4. WeightToFee(v) = coeff_integer * v + j /\ WeightToFee(w) = coeff_integer * w + k
  BY DEF WeightToFee
<1>5. j = m \div (2 * Billion) /\ k = n \div (2 * Billion)
  OBVIOUS
<1> HIDE DEF m, n, j, k
<1>6. j \in Int /\ k \in Int /\ j <= k
  BY <1>3, <1>5, DivisionGrows
<1>7. WeightToFee(v) \in Int /\ WeightToFee(w) \in Int /\ WeightToFee(v) <= WeightToFee(w)
  <2> DEFINE x == coeff_integer * v
             y == coeff_integer * w
  <2>1. x \in Int /\ y \in Int /\ x <= y
    BY <1>1, <1>2
  <2>2. WeightToFee(v) = x + j /\ WeightToFee(w) = y + k
    BY <1>4
  <2> HIDE DEF x, y
  <2>3. QED
    BY <1>6, <2>1, <2>2
<1>8. /\ Adjusted(WeightToFee(v)) \in Int /\ Adjusted(WeightToFee(w)) \in Int
      /\ Adjusted(WeightToFee(v)) <= Adjusted(WeightToFee(w))
  <2> DEFINE F == WeightToFee(v)
             G == WeightToFee(w)
             x == multiplier * F
             y == multiplier * G
  <2>1. F \in Int /\ G \in Int /\ F <= G
    BY <1>7
  <2>2. Adjusted(F) = x \div One /\ Adjusted(G) = y \div One
    BY DEF Adjusted
  <2> HIDE DEF F, G
  <2>3. x \in Int /\ y \in Int /\ x <= y
    BY <2>1, MultiplierIsNat, Scale
  <2> HIDE DEF x, y
  <2>4. Adjusted(F) \in Int /\ Adjusted(G) \in Int /\ Adjusted(F) <= Adjusted(G)
    BY <2>2, <2>3, MultiplierIsNat, DivisionGrows
  <2>5. QED
    BY <2>4 DEF F, G
<1>9. WeightToFee(ExtrinsicBaseWeight) \in Int /\ len * TransactionByteFee \in Int
  BY Numbers
<1>10. QED
  BY <1>8, <1>9 DEF Fee

\* More weight never costs less, although the two parts of the coefficient are
\* rounded apart and the multiplied fee is cut off: in every state, what would be
\* charged for the weight used is no more than for the weight declared
\* (lib.rs:136-143, configs/mod.rs:168-174).
THEOREM FeeGrows ==
    Spec => [](\A v, w \in Nat, len \in Nat : v <= w => Fee(v, len) <= Fee(w, len))
<1>1. IInv => \A v, w \in Nat, len \in Nat : v <= w => Fee(v, len) <= Fee(w, len)
  BY MoreCostsMore DEF IInv
<1>2. QED
  BY <1>1, Invariance, PTL
=============================================================================
