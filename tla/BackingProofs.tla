--------------------------- MODULE BackingProofs ----------------------------
(***************************************************************************)
(* The order of slots along the chain, and that the runtime's limits do    *)
(* not idle the core: for every set of chains and however long it runs.    *)
(*                                                                         *)
(* CoreNeverIdles is not inductive: it needs that what the relay chain has *)
(* included or is processing was authored before its present block (Seen), *)
(* so that the limit of one slot never applies to it.                      *)
(***************************************************************************)
EXTENDS Backing, SequenceTheorems, TLAPS

\* SlotsInOrder, with blocks numbered as Parent numbers them.
Follows(i, j) ==
    /\ Parent(j).age <= Parent(i).age
    /\ Parent(j).age = Parent(i).age /\ Parent(j).age < 2 =>
           Parent(j).count >= Parent(i).count + j - i
InOrder == \A i, j \in 0..Len(segment) : i < j => Follows(i, j)

Seen == last.age >= 1 /\ (pending = 1 => segment[1].age >= 1)

IInv == TypeOK /\ InOrder /\ Seen

-----------------------------------------------------------------------------
(* Types, and the length of a slot.                                         *)

LEMMA SegmentType ==
    ASSUME TypeOK
    PROVE  /\ Len(segment) \in 0..3 /\ pending \in 0..1 /\ pending <= Len(segment)
           /\ \A k \in 0..Len(segment) : /\ Parent(k) \in Blocks
                                         /\ Parent(k).age \in 0..2 /\ Parent(k).count \in 0..2
<1>1. /\ segment \in Seq(Blocks) /\ Len(segment) \in 0..3 /\ pending \in 0..1
      /\ pending <= Len(segment)
  <2>1. segment \in Seq(Blocks) /\ Len(segment) <= UNINCLUDED_SEGMENT_CAPACITY
    BY DEF TypeOK
  <2>2. Len(segment) \in Nat /\ UNINCLUDED_SEGMENT_CAPACITY = 3
    BY <2>1, LenProperties DEF UNINCLUDED_SEGMENT_CAPACITY
  <2>3. pending \in 0..1 /\ pending <= Len(segment)
    BY DEF TypeOK, BLOCK_PROCESSING_VELOCITY
  <2>4. Len(segment) <= 3
    BY <2>1, <2>2
  <2>5. Len(segment) \in 0..3
    <3>1. \A n \in Nat : n <= 3 => n \in 0..3
      OBVIOUS
    <3>2. QED
      BY <2>2, <2>4, <3>1
  <2>6. QED
    BY <2>1, <2>3, <2>5
<1>2. ASSUME NEW k \in 0..Len(segment) PROVE Parent(k) \in Blocks
  <2>1. CASE k = 0
    BY <2>1 DEF Parent, TypeOK
  <2>2. CASE k # 0
    <3>1. k \in 1..Len(segment)
      BY <1>1, <2>2
    <3>2. QED
      BY <1>1, <2>2, <3>1, ElementOfSeq DEF Parent
  <2>3. QED
    BY <2>1, <2>2
<1>3. \A b \in Blocks : b.age \in 0..2 /\ b.count \in 0..2
  BY DEF Blocks, BLOCK_PROCESSING_VELOCITY
<1>4. QED
  BY <1>1, <1>2, <1>3

\* A parachain slot lasts one relay chain slot.
LEMMA EverySlotEnds ==
    ASSUME NEW r \in Nat
    PROVE  SlotEnds(r)
<1>1. SlotOf(r) = r /\ SlotOf(r + 1) = r + 1
  BY DEF SlotOf, RELAY_CHAIN_SLOT_DURATION_MILLIS, SLOT_DURATION, MILLI_SECS_PER_BLOCK
<1>2. QED
  BY <1>1 DEF SlotEnds

LEMMA AgeType ==
    ASSUME NEW lag \in {0, 1}
    PROVE  Age(lag) \in {0, 1}
BY DEF Age

LEMMA OlderBlock ==
    ASSUME TypeOK, NEW b \in Blocks
    PROVE  /\ Older(b) \in Blocks /\ Older(b).age >= 1
           /\ Older(b).age = (IF b.age < 2 THEN b.age + 1 ELSE 2)
           /\ Older(b).count = b.count
<1>1. SlotEnds(relaySlot)
  BY EverySlotEnds, CycleAssumption DEF TypeOK
<1>2. b \in [age : 0..2, count : 0..BLOCK_PROCESSING_VELOCITY + 1]
  BY DEF Blocks
<1>3. Older(b) = [b EXCEPT !.age = IF b.age < 2 THEN b.age + 1 ELSE b.age]
  BY <1>1 DEF Older
<1>4. QED
  BY <1>2, <1>3 DEF Blocks

LEMMA InOrderMeans ==
    ASSUME TypeOK, InOrder
    PROVE  SlotsInOrder
<1> DEFINE chain == <<last>> \o segment
<1>1. segment \in Seq(Blocks) /\ Len(segment) \in Nat /\ <<last>> \in Seq(Blocks) /\ Len(<<last>>) = 1
  BY LenProperties DEF TypeOK
<1>2. Len(chain) = Len(segment) + 1 /\ \A i \in 1..Len(chain) : chain[i] = Parent(i - 1)
  <2>1. /\ Len(chain) = Len(segment) + 1
        /\ \A i \in 1..Len(chain) : chain[i] = IF i <= 1 THEN <<last>>[i] ELSE segment[i - 1]
    BY <1>1, ConcatProperties
  <2> HIDE DEF chain
  <2>2. ASSUME NEW i \in 1..Len(chain) PROVE chain[i] = Parent(i - 1)
    BY <1>1, <2>1 DEF Parent
  <2>3. QED
    BY <2>1, <2>2
<1> HIDE DEF chain
<1>3. ASSUME NEW i \in 1..Len(chain), NEW j \in 1..Len(chain), i < j
      PROVE  /\ chain[j].age <= chain[i].age
             /\ chain[j].age = chain[i].age /\ chain[j].age < 2 =>
                    chain[j].count >= chain[i].count + j - i
  <2>1. i - 1 \in 0..Len(segment) /\ j - 1 \in 0..Len(segment) /\ i - 1 < j - 1
    BY <1>1, <1>2, <1>3
  <2>2. Follows(i - 1, j - 1)
    BY <2>1 DEF InOrder
  <2>3. Parent(i - 1).count \in Nat
    BY <2>1, SegmentType
  <2>4. Parent(i - 1).count + (j - 1) - (i - 1) = Parent(i - 1).count + j - i
    BY <2>3
  <2>5. QED
    BY <1>2, <2>2, <2>4 DEF Follows
<1>4. QED
  BY <1>3 DEF SlotsInOrder, chain

-----------------------------------------------------------------------------
(* The invariant holds initially and is kept by every step.                 *)

LEMMA InitIInv == Init => IInv
<1> SUFFICES ASSUME Init PROVE IInv
  OBVIOUS
<1>1. segment \in Seq(Blocks) /\ Len(segment) = 0
  BY DEF Init
<1>2. TypeOK
  BY <1>1, CycleAssumption DEF Init, TypeOK, Blocks, BLOCK_PROCESSING_VELOCITY,
                               UNINCLUDED_SEGMENT_CAPACITY
<1>3. InOrder /\ Seen
  BY <1>1 DEF Init, InOrder, Seen
<1>4. QED
  BY <1>2, <1>3 DEF IInv

\* A new block goes where its parent allows it: not before its slot, and not
\* once too often in it.
LEMMA NewBlockFollows ==
    ASSUME TypeOK, NEW lag \in {0, 1}, NEW k \in 0..Len(segment), CanBuildUpon(k, lag)
    PROVE  /\ NewBlock(k, lag) \in Blocks
           /\ k < 3 /\ NewBlock(k, lag).age <= Parent(k).age
           /\ NewBlock(k, lag).age = Parent(k).age =>
                  NewBlock(k, lag).count = Parent(k).count + 1
<1>1. Age(lag) \in {0, 1}
  BY AgeType
<1>2. Parent(k).age \in 0..2 /\ Parent(k).count \in 0..2 /\ k \in Nat
  BY SegmentType
<1>3. SegmentSize(k, lag) < 3 /\ SegmentSize(k, lag) >= k
  BY <1>2 DEF CanBuildUpon, SegmentSize, TypeOK, UNINCLUDED_SEGMENT_CAPACITY
<1>4. \/ Parent(k).age > Age(lag)
      \/ Parent(k).age = Age(lag) /\ Parent(k).count < 2
  BY DEF CanBuildUpon, BLOCK_PROCESSING_VELOCITY
<1>5. SegmentSize(k, lag) \in Nat
  BY <1>2 DEF SegmentSize, TypeOK
<1>6. NewBlock(k, lag) = [age |-> Age(lag),
                         count |-> IF Parent(k).age = Age(lag) THEN Parent(k).count + 1 ELSE 1]
  BY DEF NewBlock
<1>7. QED
  BY <1>1, <1>2, <1>3, <1>4, <1>5, <1>6 DEF Blocks, BLOCK_PROCESSING_VELOCITY

LEMMA AuthorIInv ==
    ASSUME IInv, NEW c, Author(c)
    PROVE  IInv'
<1>1. PICK lag \in {0, 1}, k \in pending..Len(segment) :
          /\ CanBuildUpon(k, lag)
          /\ segment' = Append(SubSeq(segment, 1, k), NewBlock(k, lag))
          /\ UNCHANGED <<spec, relaySlot, last, pending, included>>
  BY DEF Author
<1> DEFINE kept == SubSeq(segment, 1, k)
           b == NewBlock(k, lag)
<1>2. /\ segment \in Seq(Blocks) /\ Len(segment) \in Nat /\ k \in 0..Len(segment) /\ k \in Nat
      /\ pending \in 0..1 /\ pending <= k
  BY SegmentType, LenProperties DEF IInv, TypeOK
<1>3. /\ b \in Blocks /\ k < 3 /\ b.age <= Parent(k).age
      /\ b.age = Parent(k).age => b.count = Parent(k).count + 1
  BY <1>1, <1>2, NewBlockFollows DEF IInv
<1>4. kept \in Seq(Blocks) /\ Len(kept) = k /\ \A i \in 1..k : kept[i] = segment[i]
  BY <1>2, SubSeqProperties
<1>5. segment' = Append(kept, b)
  BY <1>1
<1> HIDE DEF kept, b
<1>6. /\ segment' \in Seq(Blocks) /\ Len(segment') = k + 1
      /\ \A i \in 1..k : segment'[i] = segment[i]
      /\ segment'[k + 1] = b
  BY <1>2, <1>3, <1>4, <1>5, AppendProperties
<1>7. TypeOK'
  BY <1>1, <1>2, <1>3, <1>6 DEF IInv, TypeOK, UNINCLUDED_SEGMENT_CAPACITY
<1>8. (\A i \in 0..k : Parent(i)' = Parent(i)) /\ Parent(k + 1)' = b
  BY <1>1, <1>2, <1>6 DEF Parent
<1>9. InOrder'
  <2>1. SUFFICES ASSUME NEW i \in 0..k + 1, NEW j \in 0..k + 1, i < j
                 PROVE  Follows(i, j)'
    BY <1>6 DEF InOrder
  <2>2. CASE j # k + 1
    <3>1. i \in 0..Len(segment) /\ j \in 0..Len(segment) /\ i \in 0..k /\ j \in 0..k
      BY <1>2, <2>1, <2>2
    <3>2. Follows(i, j)
      BY <2>1, <3>1 DEF IInv, InOrder
    <3>3. QED
      BY <1>8, <3>1, <3>2 DEF Follows
  <2>3. CASE j = k + 1
    <3>1. i \in 0..k /\ i \in 0..Len(segment) /\ Parent(i)' = Parent(i) /\ Parent(j)' = b
      BY <1>2, <1>8, <2>1, <2>3
    <3>2. i = k \/ (i < k /\ Follows(i, k))
      BY <1>2, <3>1 DEF IInv, InOrder
    <3>3. /\ Parent(i).age \in 0..2 /\ Parent(k).age \in 0..2 /\ b.age \in 0..2
          /\ Parent(i).count \in 0..2 /\ Parent(k).count \in 0..2 /\ b.count \in 0..2
      BY <1>2, <1>3, <3>1, SegmentType DEF IInv, Blocks, BLOCK_PROCESSING_VELOCITY
    <3>4. /\ b.age <= Parent(i).age
          /\ b.age = Parent(i).age /\ b.age < 2 => b.count >= Parent(i).count + (k + 1) - i
      BY <1>2, <1>3, <3>1, <3>2, <3>3 DEF Follows
    <3>5. QED
      BY <2>3, <3>1, <3>4 DEF Follows
  <2>4. QED
    BY <2>2, <2>3
<1>10. Seen'
  BY <1>1, <1>2, <1>6 DEF IInv, Seen
<1>11. QED
  BY <1>7, <1>9, <1>10 DEF IInv

\* Ages grow together, and two or more is as old as a block gets.
LEMMA OlderFollows ==
    ASSUME TypeOK, NEW a \in Blocks, NEW b \in Blocks, NEW d \in Int,
           b.age <= a.age,
           b.age = a.age /\ b.age < 2 => b.count >= a.count + d
    PROVE  /\ Older(b).age <= Older(a).age
           /\ Older(b).age = Older(a).age /\ Older(b).age < 2 =>
                  Older(b).count >= Older(a).count + d
<1>1. a.age \in 0..2 /\ b.age \in 0..2
  BY DEF Blocks
<1>2. /\ Older(a).age = (IF a.age < 2 THEN a.age + 1 ELSE 2) /\ Older(a).count = a.count
      /\ Older(b).age = (IF b.age < 2 THEN b.age + 1 ELSE 2) /\ Older(b).count = b.count
  BY OlderBlock
<1>3. QED
  BY <1>1, <1>2

\* The next relay chain block leaves the segment, a block less of it, or none.
\* `drop` counts the blocks that become included.
LEMMA RelayBlockIInv ==
    ASSUME IInv, NEW outcome \in Outcomes, NEW back \in BOOLEAN, RelayBlock(outcome, back)
    PROVE  IInv'
<1> DEFINE rest == CASE outcome = "included"  -> Tail(segment)
                     [] outcome = "waits"     -> segment
                     [] outcome = "timed_out" -> <<>>
           drop == IF outcome = "included" THEN 1 ELSE 0
           busy == IF outcome = "waits" THEN pending ELSE 0
<1>1. /\ segment \in Seq(Blocks) /\ Len(segment) \in 0..3 /\ pending \in 0..1
      /\ pending <= Len(segment)
      /\ \A k \in 0..Len(segment) : Parent(k) \in Blocks
  BY SegmentType DEF IInv, TypeOK
<1>2. /\ outcome # "waits" => pending = 1
      /\ back => rest # <<>>
      /\ relaySlot' = (relaySlot + 1) % Cycle
      /\ last' = Older(IF outcome = "included" THEN Head(segment) ELSE last)
      /\ segment' = [i \in 1..Len(rest) |-> Older(rest[i])]
      /\ pending' = IF back THEN 1 ELSE busy
      /\ included' = IF outcome = "included" THEN 1 ELSE 0
      /\ spec' = spec
  BY DEF RelayBlock
<1>3. drop \in 0..Len(segment) /\ last' = Older(Parent(drop))
  <2>1. CASE outcome = "included"
    BY <1>1, <1>2, <2>1, HeadTailProperties DEF Parent
  <2>2. CASE outcome # "included"
    BY <1>1, <1>2, <2>2 DEF Parent
  <2>3. QED
    BY <2>1, <2>2
<1>4. /\ rest \in Seq(Blocks) /\ Len(rest) \in Nat /\ Len(rest) + drop <= Len(segment)
      /\ \A i \in 1..Len(rest) : rest[i] = segment[i + drop]
      /\ outcome = "waits" => rest = segment
  <2>1. CASE outcome = "included"
    <3>1. segment # <<>>
      BY <1>1, <1>2, <2>1
    <3>2. /\ Tail(segment) \in Seq(Blocks) /\ Len(Tail(segment)) = Len(segment) - 1
          /\ \A i \in 1..Len(segment) - 1 : Tail(segment)[i] = segment[i + 1]
      BY <1>1, <3>1, HeadTailProperties
    <3>3. QED
      BY <1>1, <1>2, <2>1, <3>2
  <2>2. CASE outcome = "waits"
    BY <1>1, <2>2
  <2>3. CASE outcome = "timed_out"
    BY <1>1, <2>3
  <2>4. QED
    BY <2>1, <2>2, <2>3 DEF Outcomes
<1> HIDE DEF rest, drop
<1>5. /\ segment' \in Seq(Blocks) /\ Len(segment') = Len(rest)
      /\ \A i \in 1..Len(rest) : segment'[i] = Older(rest[i])
  <2>1. \A i \in 1..Len(rest) : Older(rest[i]) \in Blocks
    BY <1>4, OlderBlock, ElementOfSeq DEF IInv
  <2>2. segment' \in [1..Len(rest) -> Blocks]
    BY <1>2, <2>1
  <2>3. QED
    BY <1>2, <1>4, <2>2
<1>6. \A k \in 0..Len(rest) : k + drop \in 0..Len(segment) /\ Parent(k)' = Older(Parent(k + drop))
  <2>1. TAKE k \in 0..Len(rest)
  <2>2. k + drop \in 0..Len(segment) /\ k + drop \in Nat
    BY <1>1, <1>3, <1>4
  <2>3. CASE k = 0
    BY <1>3, <2>3 DEF Parent
  <2>4. CASE k # 0
    <3>1. k \in 1..Len(rest) /\ k + drop # 0
      BY <1>3, <1>4, <2>4
    <3>2. segment'[k] = Older(segment[k + drop])
      BY <1>4, <1>5, <3>1
    <3>3. QED
      BY <2>2, <2>4, <3>1, <3>2 DEF Parent
  <2>5. QED
    BY <2>2, <2>3, <2>4
<1>7. InOrder'
  <2>1. SUFFICES ASSUME NEW i \in 0..Len(rest), NEW j \in 0..Len(rest), i < j
                 PROVE  Follows(i, j)'
    BY <1>5 DEF InOrder
  <2> DEFINE a == Parent(i + drop)
             b == Parent(j + drop)
  <2>2. /\ a \in Blocks /\ b \in Blocks /\ a.count \in Nat
        /\ Parent(i)' = Older(a) /\ Parent(j)' = Older(b)
        /\ Follows(i + drop, j + drop)
    <3>1. i + drop \in 0..Len(segment) /\ j + drop \in 0..Len(segment) /\ i + drop < j + drop
      BY <1>3, <1>4, <1>6, <2>1
    <3>2. Follows(i + drop, j + drop)
      BY <3>1 DEF IInv, InOrder
    <3>3. QED
      BY <1>6, <2>1, <3>1, <3>2, SegmentType DEF IInv
  <2>3. b.age <= a.age /\ (b.age = a.age /\ b.age < 2 => b.count >= a.count + (j - i))
    BY <1>3, <2>2 DEF Follows
  <2> HIDE DEF a, b
  <2>4. /\ Older(b).age <= Older(a).age
        /\ Older(b).age = Older(a).age /\ Older(b).age < 2 =>
               Older(b).count >= Older(a).count + (j - i)
    BY <2>2, <2>3, OlderFollows DEF IInv
  <2>5. Older(a).count \in Nat /\ Older(a).count + (j - i) = Older(a).count + j - i
    BY <2>2, OlderBlock DEF IInv
  <2>6. QED
    BY <2>2, <2>4, <2>5 DEF Follows
<1>8. pending' \in 0..1 /\ pending' <= Len(rest)
  <2>1. rest # <<>> => Len(rest) >= 1
    BY <1>4
  <2>2. QED
    BY <1>1, <1>2, <1>4, <2>1
<1>9. Seen'
  <2>1. last'.age >= 1
    BY <1>1, <1>3, OlderBlock DEF IInv
  <2>2. ASSUME pending' = 1 PROVE segment'[1].age >= 1
    <3>1. 1 \in 1..Len(rest)
      BY <1>4, <1>8, <2>2
    <3>2. rest[1] \in Blocks
      BY <1>4, <3>1, ElementOfSeq
    <3>3. QED
      BY <1>5, <3>1, <3>2, OlderBlock DEF IInv
  <2>3. QED
    BY <2>1, <2>2 DEF Seen
<1>10. TypeOK'
  <2>1. relaySlot' \in 0..Cycle - 1
    BY <1>2, CycleAssumption DEF IInv, TypeOK
  <2>2. last' \in Blocks
    BY <1>1, <1>3, OlderBlock DEF IInv
  <2>3. Len(segment') <= UNINCLUDED_SEGMENT_CAPACITY
    BY <1>1, <1>3, <1>4, <1>5 DEF UNINCLUDED_SEGMENT_CAPACITY
  <2>4. included' \in {0, 1}
    BY <1>2
  <2>5. QED
    BY <1>2, <1>5, <1>8, <2>1, <2>2, <2>3, <2>4 DEF IInv, TypeOK, BLOCK_PROCESSING_VELOCITY
<1>11. QED
  BY <1>7, <1>9, <1>10 DEF IInv

LEMMA NextIInv == IInv /\ [Next]_vars => IInv'
<1> SUFFICES ASSUME IInv, [Next]_vars PROVE IInv'
  OBVIOUS
<1>1. CASE UNCHANGED vars
  BY <1>1 DEF vars, IInv, TypeOK, InOrder, Follows, Parent, Seen
<1>2. CASE \E i \in DOMAIN Authorities : Author(Authorities[i].aura)
  BY <1>2, AuthorIInv
<1>3. CASE \E outcome \in Outcomes, back \in BOOLEAN : RelayBlock(outcome, back)
  BY <1>3, RelayBlockIInv
<1>4. QED
  BY <1>1, <1>2, <1>3 DEF Next

-----------------------------------------------------------------------------
(* The theorems.                                                            *)

\* The inductive invariant holds in every reachable state.
THEOREM Invariance == Spec => []IInv
BY InitIInv, NextIInv, PTL DEF Spec

\* The unincluded segment stays within its capacity (lib.rs:236, apis.rs
\* AuraUnincludedSegmentApi), and the relay chain processes one block of it.
THEOREM TypeCorrect == Spec => []TypeOK
<1>1. IInv => TypeOK
  BY DEF IInv
<1>2. QED
  BY <1>1, Invariance, PTL

\* Along the chain slots never go back and are never overfull, whatever relay
\* parents and whatever parents the collators choose (ConsensusHook).
THEOREM SlotsGoForward == Spec => []SlotsInOrder
<1>1. IInv => SlotsInOrder
  BY InOrderMeans DEF IInv
<1>2. QED
  BY <1>1, Invariance, PTL

\* When the relay chain has nothing to back, the capacity and the velocity let
\* the next collator build (lib.rs:236).
THEOREM CoreIsFed == Spec => []CoreNeverIdles
<1>1. ASSUME IInv, Len(segment) = pending
      PROVE  CanBuildUpon(pending, 0) /\ SegmentSize(pending, 1) < UNINCLUDED_SEGMENT_CAPACITY
  <2>1. /\ pending \in {0, 1} /\ included \in {0, 1} /\ pending \in 0..Len(segment)
        /\ Parent(pending).age \in 0..2
    BY <1>1, SegmentType DEF IInv, TypeOK
  <2>2. Parent(pending).age >= 1
    BY <1>1, <2>1 DEF IInv, Seen, Parent
  <2>3. Age(0) = 0
    BY DEF Age
  <2>4. /\ SegmentSize(pending, 0) < UNINCLUDED_SEGMENT_CAPACITY
        /\ SegmentSize(pending, 1) < UNINCLUDED_SEGMENT_CAPACITY
    BY <2>1 DEF SegmentSize, UNINCLUDED_SEGMENT_CAPACITY
  <2>5. QED
    BY <2>1, <2>2, <2>3, <2>4 DEF CanBuildUpon
<1>2. IInv => CoreNeverIdles
  BY <1>1 DEF CoreNeverIdles
<1>3. QED
  BY <1>2, Invariance, PTL
=============================================================================
