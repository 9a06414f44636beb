------------------------- MODULE TransactionProofs --------------------------
(***************************************************************************)
(* The life of a transaction: how long and on which forks it may be        *)
(* included (TxMortality), and what its call does in the block that        *)
(* includes it (Pallets).  For every number of block hashes that the       *)
(* runtime remembers, every chain, and any accounts, width of block numbers*)
(* and number of extrinsics in a block.                                    *)
(*                                                                         *)
(* For TxMortality the arithmetic of Era comes first: whatever block a     *)
(* transaction is signed in, its birth block is the one before, and the    *)
(* blocks of one period after it compute the same birth block from the     *)
(* phase.  The inductive invariant then keeps what relates a transaction to*)
(* its phase (PhaseInv), and what the checks saw of it when it was         *)
(* included.                                                               *)
(***************************************************************************)
EXTENDS Pallets, TxMortality, FiniteSetTheorems, SequenceTheorems, TLAPS

-----------------------------------------------------------------------------
(* The period.                                                              *)

LEMMA CountType == BlockHashCount \in Nat
BY CountAssumption

LEMMA NextPower ==
    /\ NextPowerOfTwo(BlockHashCount) \in PowersOfTwo
    /\ NextPowerOfTwo(BlockHashCount) >= BlockHashCount
    /\ \A q \in PowersOfTwo : q >= BlockHashCount => NextPowerOfTwo(BlockHashCount) <= q
<1> DEFINE Least(p) == p >= BlockHashCount /\ \A q \in PowersOfTwo : q >= BlockHashCount => p <= q
<1>1. \E p \in PowersOfTwo : Least(p)
  <2>1. BlockHashCount \in Int /\ BlockHashCount <= 8192
    BY CountAssumption
  <2>2. QED
    BY <2>1 DEF PowersOfTwo
<1>2. NextPowerOfTwo(BlockHashCount) = CHOOSE p \in PowersOfTwo : Least(p)
  BY DEF NextPowerOfTwo
<1> HIDE DEF Least
<1>3. NextPowerOfTwo(BlockHashCount) \in PowersOfTwo /\ Least(NextPowerOfTwo(BlockHashCount))
  BY <1>1, <1>2
<1>4. QED
  BY <1>3 DEF Least

\* A transaction expires before its birth block's hash is forgotten.
LEMMA PeriodBounds == Period \in Nat /\ 4 <= Period /\ Period <= BlockHashCount
<1> DEFINE p == NextPowerOfTwo(BlockHashCount)
<1>1. p \in PowersOfTwo /\ \A q \in PowersOfTwo : q >= BlockHashCount => p <= q
  BY NextPower
<1>2. p >= BlockHashCount
  BY NextPower
<1> HIDE DEF p
<1>3. p \div 2 < BlockHashCount /\ p \div 2 \in Nat
  <2>1. BlockHashCount \in Nat /\ BlockHashCount >= 4
    BY CountAssumption
  <2>2. QED
    BY <1>1, <1>2, <2>1 DEF PowersOfTwo
<1>4. Period = AtLeast4(p \div 2)
  BY DEF Period, p
<1>5. QED
  BY <1>3, <1>4, CountAssumption DEF AtLeast4

-----------------------------------------------------------------------------
(* Birth blocks.                                                            *)

LEMMA Division ==
    ASSUME NEW a \in Int, NEW p \in Int, p > 0,
           NEW k, k = a \div p, NEW r, r = a % p
    PROVE  a = k * p + r
OBVIOUS

LEMMA Remainder ==
    ASSUME NEW a \in Nat, NEW p \in Nat, p > 0, NEW r, r = a % p
    PROVE  r \in 0..p - 1 /\ \E j \in Nat : a = j * p + r
<1> DEFINE k == a \div p
<1>1. r \in 0..p - 1
  OBVIOUS
<1>2. k \in Nat /\ a = k * p + r
  <2>1. k \in Nat /\ k = a \div p
    OBVIOUS
  <2> HIDE DEF k
  <2>2. QED
    BY <2>1, Division
<1> HIDE DEF k
<1>3. \E j \in Nat : a = j * p + r
  BY <1>2
<1>4. QED
  BY <1>1, <1>3

\* The birth block of a block that is not before the phase.
LEMMA BirthIsBefore ==
    ASSUME NEW phase \in 0..Period - 1, NEW n \in Nat, n >= phase
    PROVE  /\ Birth(phase, n) \in Nat /\ Birth(phase, n) <= n
           /\ n < Birth(phase, n) + Period
<1> DEFINE k == (n - phase) \div Period
<1>1. n - phase \in Nat /\ Period \in Nat /\ Period > 0
  BY PeriodBounds
<1>2. k \in Nat /\ k * Period <= n - phase /\ n - phase < k * Period + Period
  BY <1>1
<1>3. Birth(phase, n) = k * Period + phase
  BY DEF Birth
<1> HIDE DEF k
<1>4. k * Period \in Nat
  BY <1>1, <1>2
<1>5. QED
  BY <1>2, <1>3, <1>4, PeriodBounds

\* Before the phase, there is none yet.
LEMMA NoBirthYet ==
    ASSUME NEW phase \in 0..Period - 1, NEW n \in Nat, n < phase
    PROVE  Birth(phase, n) = phase
<1>1. 0 \div Period = 0
  BY PeriodBounds
<1>2. Birth(phase, n) = 0 * Period + phase
  BY <1>1 DEF Birth
<1>3. QED
  BY <1>2, PeriodBounds

\* Every block of the period finds the same birth block.
LEMMA BirthIsFound ==
    ASSUME NEW s \in Nat, NEW n \in s..s + Period - 1
    PROVE  Birth(s % Period, n) = s
<1> DEFINE phase == s % Period
<1>1. Period \in Nat /\ Period > 0 /\ s \in Nat
  BY PeriodBounds
<1>2. phase \in 0..Period - 1 /\ \E k \in Nat : s = k * Period + phase
  <2>1. phase = s % Period
    OBVIOUS
  <2> HIDE DEF phase
  <2>2. QED
    BY <1>1, <2>1, Remainder
<1> HIDE DEF phase
<1>3. PICK k \in Nat : s = k * Period + phase
  BY <1>2
<1>4. k * Period \in Nat
  BY <1>1
<1> DEFINE r == n - s
<1>5. r \in 0..Period - 1 /\ n - phase = k * Period + r /\ n >= phase
  BY <1>1, <1>2, <1>3, <1>4
<1> HIDE DEF r
<1>6. (k * Period + r) \div Period = k
  BY <1>1, <1>5
<1>7. Birth(phase, n) = ((n - phase) \div Period) * Period + phase
  BY <1>1, <1>2, <1>5 DEF Birth
<1>8. QED
  BY <1>3, <1>5, <1>6, <1>7 DEF phase

\* create_transaction signs the block before the one it runs in.
LEMMA FreshBirth ==
    ASSUME NEW n \in Nat, n > 0
    PROVE  Phase(n) \in 0..Period - 1 /\ Phase(n) = (n - 1) % Period /\ Birth(Phase(n), n) = n - 1
<1>1. Period \in Nat /\ Period > 0 /\ n - 1 \in Nat /\ n \in n - 1..(n - 1) + Period - 1
  BY PeriodBounds
<1>2. Phase(n) = (n - 1) % Period
  BY DEF Phase, Current
<1>3. Phase(n) \in 0..Period - 1
  BY <1>1, <1>2, Remainder
<1>4. QED
  BY <1>1, <1>2, <1>3, BirthIsFound

-----------------------------------------------------------------------------
(* What a transaction's phase has to do with the block it signs.            *)

PhaseInv == \A tx \in pool : tx.phase = tx.signed[1] % Period

IInv == TypeOK /\ IsFiniteSet(pool) /\ PhaseInv /\ IncludedOnItsFork

LEMMA ChainType ==
    ASSUME TypeOK
    PROVE  /\ Top \in 0..MaxBlock
           /\ \A i \in 1..Top : /\ chain[i].fork \in 0..MaxForks
                                /\ chain[i].tx \in Txs \cup {NoTx}
           /\ \A n \in 0..Top : Hash(n) \in (0..MaxBlock) \X (0..MaxForks) /\ Hash(n)[1] = n
<1>1. Top \in 0..MaxBlock
  BY BoundsAssumption, LenProperties DEF TypeOK, Top
<1>2. \A i \in 1..Top : /\ chain[i].fork \in 0..MaxForks
                        /\ chain[i].tx \in Txs \cup {NoTx}
  <2>1. TAKE i \in 1..Top
  <2>2. chain[i] \in [fork : 0..MaxForks, tx : Txs \cup {NoTx}]
    BY ElementOfSeq DEF TypeOK, Top
  <2>3. QED
    BY <2>2
<1>3. ASSUME NEW n \in 0..Top
      PROVE  Hash(n) \in (0..MaxBlock) \X (0..MaxForks) /\ Hash(n)[1] = n
  <2>1. n \in 0..MaxBlock /\ (n # 0 => n \in 1..Top) /\ 0 \in 0..MaxForks
    BY <1>1, BoundsAssumption
  <2>2. (IF n = 0 THEN 0 ELSE chain[n].fork) \in 0..MaxForks
    BY <1>2, <2>1
  <2>3. QED
    BY <2>1, <2>2 DEF Hash
<1>4. QED
  BY <1>1, <1>2, <1>3

LEMMA NonceType ==
    ASSUME NEW n \in Nat
    PROVE  NonceAt(n) \in 0..n
<1> DEFINE Sent == {i \in 1..n : chain[i].tx # NoTx}
<1>1. IsFiniteSet(1..n) /\ Cardinality(1..n) = n
  BY FS_Interval
<1>2. IsFiniteSet(Sent) /\ Cardinality(Sent) <= n
  BY <1>1, FS_Subset
<1>3. QED
  BY <1>2, FS_CardinalityType DEF NonceAt

\* The checks of the next block, in terms of the block that was signed.
LEMMA ChecksMeanLife ==
    ASSUME TypeOK, NEW tx \in Txs, tx.phase = tx.signed[1] % Period
    PROVE  Includable(tx, Top + 1) <=>
               /\ OnChain(tx) /\ InLife(tx, Top + 1)
               /\ tx.nonce = NonceAt(Top)
<1> DEFINE s == tx.signed[1]
           n == Top + 1
           b == Birth(tx.phase, n)
<1>1. Top \in Nat /\ Period \in Nat /\ 4 <= Period /\ Period <= BlockHashCount /\ BlockHashCount \in Nat
  <2>1. Top \in Nat
    BY ChainType, BoundsAssumption
  <2>2. QED
    BY <2>1, CountType, PeriodBounds
<1>2. tx.phase \in 0..Period - 1 /\ s \in Nat /\ NonceAt(n - 1) = NonceAt(Top)
  <2>1. tx.phase \in 0..Period - 1 /\ tx.signed \in (0..MaxBlock) \X (0..MaxForks)
    BY DEF Txs
  <2>2. s \in Nat
    BY <2>1, BoundsAssumption
  <2>3. n - 1 = Top
    BY <1>1
  <2>4. QED
    BY <2>1, <2>2, <2>3
<1>3. ASSUME Includable(tx, n)
      PROVE  OnChain(tx) /\ InLife(tx, n) /\ tx.nonce = NonceAt(Top)
  <2>1. b \in Kept(n) /\ tx.signed = Hash(b) /\ tx.nonce = NonceAt(Top)
    BY <1>2, <1>3 DEF Includable
  <2>2. b \in 0..Top
    BY <1>1, <2>1 DEF Kept
  <2>3. s = b
    BY <2>1, <2>2, ChainType
  <2>4. n >= tx.phase
    BY <1>1, <1>2, <2>2, NoBirthYet
  <2>5. n < b + Period
    BY <1>1, <1>2, <2>4, BirthIsBefore
  <2> HIDE DEF b, s
  <2>6. s <= Top /\ tx.signed = Hash(s) /\ n \in s + 1..s + Period - 1
    BY <1>1, <1>2, <2>1, <2>2, <2>3, <2>5
  <2>7. QED
    BY <2>1, <2>6 DEF OnChain, InLife, s
<1>4. ASSUME OnChain(tx), InLife(tx, n), tx.nonce = NonceAt(Top)
      PROVE  Includable(tx, n)
  <2>1. s <= Top /\ tx.signed = Hash(s) /\ n \in s + 1..s + Period - 1
    BY <1>4 DEF OnChain, InLife
  <2>2. b = s
    BY <1>1, <1>2, <2>1, BirthIsFound
  <2> HIDE DEF b, s
  <2>3. s \in Kept(n)
    BY <1>1, <1>2, <2>1 DEF Kept
  <2>4. QED
    BY <1>2, <1>4, <2>1, <2>2, <2>3 DEF Includable, b
<1>5. QED
  BY <1>3, <1>4

-----------------------------------------------------------------------------
(* The invariant holds initially and is kept by every action.               *)

LEMMA InitIInv == Init => IInv
<1> SUFFICES ASSUME Init PROVE IInv
  OBVIOUS
<1>1. IsFiniteSet({}) /\ Cardinality({}) = 0
  BY FS_EmptySet
<1>2. chain \in Seq([fork : 0..MaxForks, tx : Txs \cup {NoTx}]) /\ Len(chain) = 0
  BY DEF Init
<1>3. TypeOK
  BY <1>1, <1>2, BoundsAssumption DEF TypeOK, Init, Top
<1>4. IncludedOnItsFork
  BY <1>2 DEF IncludedOnItsFork, Top
<1>5. QED
  BY <1>1, <1>3, <1>4 DEF IInv, Init, PhaseInv

LEMMA ChainKept ==
    ASSUME IInv, chain' = chain
    PROVE  IncludedOnItsFork'
BY DEF IInv, IncludedOnItsFork, OnChain, InLife, Hash, Top

LEMMA CreateTransactionIInv ==
    ASSUME IInv, NEW n \in 1..MaxBlock, CreateTransaction(n)
    PROVE  IInv'
<1> DEFINE tx == [phase |-> Phase(n), nonce |-> NonceAt(n), signed |-> Hash(n - 1)]
<1>1. n \in Nat /\ n > 0 /\ n \in 1..Top /\ n - 1 \in 0..Top /\ Top \in 0..MaxBlock
  BY ChainType, BoundsAssumption DEF IInv, CreateTransaction
<1>2. Phase(n) \in 0..Period - 1 /\ Phase(n) = (n - 1) % Period /\ Birth(Phase(n), n) = n - 1
  BY <1>1, FreshBirth
<1>3. pool' = pool \cup {tx} /\ chain' = chain /\ forks' = forks /\ Cardinality(pool) < MaxTxs
  BY <1>2 DEF CreateTransaction
<1>4. Hash(n - 1) \in (0..MaxBlock) \X (0..MaxForks) /\ Hash(n - 1)[1] = n - 1
  BY <1>1, ChainType DEF IInv
<1>5. NonceAt(n) \in 0..MaxBlock
  BY <1>1, NonceType, BoundsAssumption
<1>6. tx \in Txs /\ tx.phase = tx.signed[1] % Period
  BY <1>2, <1>4, <1>5 DEF Txs
<1> HIDE DEF tx
<1>7. IsFiniteSet(pool') /\ Cardinality(pool') <= MaxTxs
  <2>1. IsFiniteSet(pool) /\ Cardinality(pool) \in Nat
    BY FS_CardinalityType DEF IInv
  <2>2. IsFiniteSet(pool') /\ Cardinality(pool') <= Cardinality(pool) + 1
    <3>1. /\ IsFiniteSet(pool \cup {tx})
          /\ Cardinality(pool \cup {tx}) =
                 IF tx \in pool THEN Cardinality(pool) ELSE Cardinality(pool) + 1
      BY <2>1, FS_AddElement
    <3>2. QED
      BY <1>3, <2>1, <3>1
  <2>3. Cardinality(pool') \in Nat
    BY <2>2, FS_CardinalityType
  <2>4. QED
    BY <1>3, <2>1, <2>2, <2>3, BoundsAssumption
<1>8. TypeOK'
  BY <1>3, <1>6, <1>7 DEF IInv, TypeOK, Top
<1>9. PhaseInv'
  BY <1>3, <1>6 DEF IInv, PhaseInv
<1>10. QED
  BY <1>3, <1>7, <1>8, <1>9, ChainKept DEF IInv

LEMMA DropIInv ==
    ASSUME IInv, NEW tx, Drop(tx)
    PROVE  IInv'
<1>1. pool' \subseteq pool /\ chain' = chain /\ forks' = forks
  BY DEF Drop
<1>2. IsFiniteSet(pool') /\ Cardinality(pool') <= MaxTxs
  <2>1. IsFiniteSet(pool') /\ Cardinality(pool') <= Cardinality(pool)
    BY <1>1, FS_Subset DEF IInv
  <2>2. Cardinality(pool') \in Nat /\ Cardinality(pool) \in Nat /\ Cardinality(pool) <= MaxTxs
    BY <2>1, FS_CardinalityType DEF IInv, TypeOK
  <2>3. QED
    BY <2>1, <2>2, BoundsAssumption
<1>3. TypeOK' /\ PhaseInv'
  BY <1>1, <1>2 DEF IInv, TypeOK, PhaseInv, Top
<1>4. QED
  BY <1>1, <1>2, <1>3, ChainKept DEF IInv

\* A block on top of the chain, which carries nothing or what its checks allow.
LEMMA ExtendIInv ==
    ASSUME IInv, NEW t, Extend(t),
           t # NoTx => t \in pool /\ Includable(t, Top + 1)
    PROVE  IInv'
<1> DEFINE block == [fork |-> forks, tx |-> t]
           Blocks == [fork : 0..MaxForks, tx : Txs \cup {NoTx}]
<1>1. chain \in Seq(Blocks) /\ block \in Blocks /\ Top \in Nat /\ Top < MaxBlock
  BY LenProperties DEF IInv, TypeOK, Extend, Top
<1>2. chain' = Append(chain, block) /\ forks' = forks /\ pool' = pool
  BY DEF Extend
<1>3. /\ chain' \in Seq(Blocks) /\ Len(chain') = Top + 1
      /\ \A i \in 1..Top : chain'[i] = chain[i]
      /\ chain'[Top + 1] = block
  BY <1>1, <1>2, AppendProperties DEF Top
<1>4. TypeOK' /\ PhaseInv'
  BY <1>1, <1>2, <1>3, BoundsAssumption DEF IInv, TypeOK, PhaseInv, Top
<1>5. Top' = Top + 1
  BY <1>3 DEF Top
<1>6. \A n \in 0..Top : Hash(n)' = Hash(n)
  BY <1>1, <1>3 DEF Hash
<1>7. ASSUME NEW tx \in Txs, OnChain(tx) PROVE OnChain(tx)'
  <2>1. tx.signed[1] \in Nat
    BY BoundsAssumption DEF Txs
  <2>2. QED
    BY <1>1, <1>5, <1>6, <1>7, <2>1 DEF OnChain
<1>8. ASSUME t \in pool, Includable(t, Top + 1)
      PROVE  OnChain(t) /\ InLife(t, Top + 1) /\ t \in Txs
  BY <1>8, ChecksMeanLife DEF IInv, TypeOK, PhaseInv
<1>9. IncludedOnItsFork'
  <2>1. SUFFICES ASSUME NEW i \in 1..Top + 1, NEW u, u = chain'[i].tx, u # NoTx
                 PROVE  OnChain(u)' /\ InLife(u, i)
    BY <1>5 DEF IncludedOnItsFork, InLife, OnChain, Hash
  <2>2. CASE i = Top + 1
    <3>1. u = t /\ t \in pool /\ Includable(t, Top + 1)
      BY <1>3, <2>1, <2>2
    <3>2. QED
      BY <1>7, <1>8, <2>2, <3>1
  <2>3. CASE i # Top + 1
    <3>1. i \in 1..Top
      BY <1>1, <2>3
    <3> HIDE DEF block
    <3>2. u = chain[i].tx
      BY <1>3, <2>1, <3>1
    <3>3. u \in Txs
      BY <2>1, <3>1, <3>2, ChainType DEF IInv
    <3>4. OnChain(u) /\ InLife(u, i)
      BY <2>1, <3>1, <3>2 DEF IInv, IncludedOnItsFork
    <3>5. QED
      BY <1>7, <3>3, <3>4
  <2>4. QED
    BY <2>2, <2>3
<1>10. QED
  BY <1>2, <1>4, <1>9 DEF IInv

\* What a reorganisation keeps of the chain has its birth blocks below it.
LEMMA ReorgIInv ==
    ASSUME IInv, NEW k \in 0..MaxBlock, Reorg(k)
    PROVE  IInv'
<1> DEFINE block == [fork |-> forks + 1, tx |-> NoTx]
           Blocks == [fork : 0..MaxForks, tx : Txs \cup {NoTx}]
           kept == SubSeq(chain, 1, k)
<1>1. /\ chain \in Seq(Blocks) /\ Top \in Nat /\ Top <= MaxBlock /\ k \in Nat /\ k < Top
      /\ forks + 1 \in 0..MaxForks /\ block \in Blocks
  BY LenProperties, BoundsAssumption DEF IInv, TypeOK, Reorg, Top
<1>2. /\ kept \in Seq(Blocks) /\ Len(kept) = k
      /\ \A i \in 1..k : kept[i] = chain[i]
  <2>1. Len(chain) \in Nat /\ 1 \in 1..Len(chain) + 1 /\ k \in 1 - 1..Len(chain) /\ k - 1 + 1 = k
    BY <1>1 DEF Top
  <2> HIDE DEF Blocks
  <2>2. QED
    BY <1>1, <2>1, SubSeqProperties
<1>3. chain' = Append(kept, block) /\ forks' = forks + 1 /\ pool' = pool
  BY DEF Reorg
<1> HIDE DEF kept
<1>4. /\ chain' \in Seq(Blocks) /\ Len(chain') = k + 1 /\ Top' = k + 1
      /\ \A i \in 1..k : chain'[i] = chain[i]
      /\ chain'[k + 1] = block
  BY <1>1, <1>2, <1>3, AppendProperties DEF Top
<1>5. TypeOK' /\ PhaseInv'
  BY <1>1, <1>3, <1>4, BoundsAssumption DEF IInv, TypeOK, PhaseInv, Top
<1>6. IncludedOnItsFork'
  <2>1. SUFFICES ASSUME NEW i \in 1..k + 1, NEW u, u = chain'[i].tx, u # NoTx
                 PROVE  OnChain(u)' /\ InLife(u, i)
    BY <1>4 DEF IncludedOnItsFork, InLife, OnChain, Hash
  <2>2. i \in 1..k /\ i \in 1..Top /\ u = chain[i].tx
    BY <1>1, <1>4, <2>1
  <2>3. u \in Txs /\ OnChain(u) /\ InLife(u, i)
    BY <2>1, <2>2, ChainType DEF IInv, IncludedOnItsFork
  <2>4. u.signed[1] \in Nat /\ u.signed[1] < k
    <3>1. u.signed \in (0..MaxBlock) \X (0..MaxForks)
      BY <2>3 DEF Txs
    <3>2. u.signed[1] \in Nat /\ i \in Nat /\ i <= k
      BY <1>1, <2>2, <3>1, BoundsAssumption
    <3>3. QED
      BY <1>1, <2>3, <3>2, PeriodBounds DEF InLife
  <2>5. OnChain(u)'
    BY <1>1, <1>4, <2>3, <2>4 DEF OnChain, Hash
  <2>6. QED
    BY <2>3, <2>5
<1>7. QED
  BY <1>3, <1>5, <1>6 DEF IInv

LEMMA NextIInv == IInv /\ [Next]_vars => IInv'
<1> SUFFICES ASSUME IInv, [Next]_vars PROVE IInv'
  OBVIOUS
<1>1. CASE UNCHANGED vars
  <2>1. TypeOK' /\ PhaseInv'
    BY <1>1 DEF vars, IInv, TypeOK, PhaseInv, Top
  <2>2. QED
    BY <1>1, <2>1, ChainKept DEF vars, IInv
<1>2. CASE NewBlock
  <2>1. Extend(NoTx)
    BY <1>2 DEF NewBlock
  <2>2. QED
    BY <2>1, ExtendIInv
<1>3. CASE \E tx \in pool : NewBlockWith(tx) \/ Drop(tx)
  BY <1>3, ExtendIInv, DropIInv DEF NewBlockWith
<1>4. CASE \E n \in 1..MaxBlock : CreateTransaction(n)
  BY <1>4, CreateTransactionIInv
<1>5. CASE \E k \in 0..MaxBlock : Reorg(k)
  BY <1>5, ReorgIInv
<1>6. QED
  BY <1>1, <1>2, <1>3, <1>4, <1>5 DEF Next

-----------------------------------------------------------------------------
(* The theorems.                                                            *)

\* The inductive invariant holds in every reachable state.
THEOREM Invariance == Spec => []IInv
BY InitIInv, NextIInv, PTL DEF Spec

\* Transactions, the chain and the pool have their types; phases stay below the
\* period (create_transaction).
THEOREM TypeCorrect == Spec => []TypeOK
<1>1. IInv => TypeOK
  BY DEF IInv
<1>2. QED
  BY <1>1, Invariance, PTL

\* The next block may include a transaction exactly within its life, on the
\* chain it was signed on (lib.rs:277-298).
THEOREM EraIsLife == Spec => []EraMeansLife
<1>1. IInv => EraMeansLife
  BY ChecksMeanLife DEF IInv, TypeOK, PhaseInv, EraMeansLife
<1>2. QED
  BY <1>1, Invariance, PTL

\* However the chain is reorganised, what it includes was signed on it and is
\* not too old (lib.rs:288-298).
THEOREM InclusionIsOnFork == Spec => []IncludedOnItsFork
<1>1. IInv => IncludedOnItsFork
  BY DEF IInv
<1>2. QED
  BY <1>1, Invariance, PTL

\* What a worker signs in the head block the next block may include (lib.rs:283-288).
THEOREM FreshIsGood == Spec => FreshIsIncludable
<1>1. ASSUME IInv, CreateTransaction(Top), NEW tx \in pool' \ pool
      PROVE  Includable(tx, Top + 1)
  <2>1. /\ Top \in Nat /\ Top > 0 /\ Top - 1 \in Nat /\ BlockHashCount \in Nat
        /\ (Top + 1) - 1 = Top
    <3>1. Top \in Nat /\ Top \in 1..Top
      BY <1>1, ChainType, BoundsAssumption DEF IInv, CreateTransaction
    <3>2. QED
      BY <3>1, CountType
  <2>2. /\ Phase(Top) = (Top - 1) % Period
        /\ Birth(Phase(Top), Top) = Top - 1
    BY <2>1, FreshBirth
  <2>3. tx = [phase |-> Phase(Top), nonce |-> NonceAt(Top), signed |-> Hash(Top - 1)]
    BY <1>1, <2>2 DEF CreateTransaction
  <2>4. Top + 1 \in Top - 1..(Top - 1) + Period - 1
    BY <2>1, PeriodBounds
  <2>5. Birth(tx.phase, Top + 1) = Top - 1
    BY <2>1, <2>2, <2>3, <2>4, BirthIsFound
  <2>6. Top - 1 \in Kept(Top + 1)
    BY <2>1, PeriodBounds DEF Kept
  <2>7. QED
    BY <2>1, <2>3, <2>5, <2>6 DEF Includable
<1>2. IInv /\ [Next]_vars =>
          [CreateTransaction(Top) => \A tx \in pool' \ pool : Includable(tx, Top + 1)]_vars
  BY <1>1
<1>3. QED
  BY <1>2, Invariance, PTL DEF Spec, FreshIsIncludable

-----------------------------------------------------------------------------
(* No transaction is included twice.                                        *)

\* CheckNonce, for every transaction that is in the chain.
NonceInv == \A i \in 1..Top : chain[i].tx # NoTx => chain[i].tx.nonce = NonceAt(i - 1)

\* The nonce of a block depends on the chain up to that block.
LEMMA SameNonce ==
    ASSUME NEW n \in Nat, \A i \in 1..n : chain'[i] = chain[i]
    PROVE  NonceAt(n)' = NonceAt(n)
<1>1. {i \in 1..n : chain'[i].tx # NoTx} = {i \in 1..n : chain[i].tx # NoTx}
  OBVIOUS
<1>2. QED
  BY <1>1 DEF NonceAt

\* A block with a transaction uses up a nonce, and no block gives one back.
LEMMA NonceGrows ==
    ASSUME NEW i \in Nat, NEW n \in Nat, i > 0, i <= n, chain[i].tx # NoTx
    PROVE  NonceAt(i - 1) < NonceAt(n)
<1> DEFINE Sent(m) == {k \in 1..m : chain[k].tx # NoTx}
<1>1. i - 1 \in Nat /\ Sent(i - 1) \cup {i} \subseteq Sent(n) /\ i \notin Sent(i - 1)
  OBVIOUS
<1>2. ASSUME NEW m \in Nat
      PROVE  IsFiniteSet(Sent(m)) /\ Cardinality(Sent(m)) \in Nat
  <2>1. IsFiniteSet(1..m)
    BY <1>2, FS_Interval
  <2>2. QED
    BY <2>1, FS_Subset, FS_CardinalityType
<1>3. /\ IsFiniteSet(Sent(i - 1)) /\ Cardinality(Sent(i - 1)) \in Nat
      /\ IsFiniteSet(Sent(n)) /\ Cardinality(Sent(n)) \in Nat
  BY <1>1, <1>2
<1>4. NonceAt(i - 1) = Cardinality(Sent(i - 1)) /\ NonceAt(n) = Cardinality(Sent(n))
  BY DEF NonceAt
<1> HIDE DEF Sent
<1>5. /\ IsFiniteSet(Sent(i - 1) \cup {i})
      /\ Cardinality(Sent(i - 1) \cup {i}) = Cardinality(Sent(i - 1)) + 1
  BY <1>1, <1>3, FS_AddElement
<1>6. Cardinality(Sent(i - 1) \cup {i}) <= Cardinality(Sent(n))
  BY <1>1, <1>3, FS_Subset
<1>7. QED
  BY <1>3, <1>4, <1>5, <1>6

LEMMA ExtendNonces ==
    ASSUME IInv, NonceInv, NEW t, Extend(t), t # NoTx => Includable(t, Top + 1)
    PROVE  NonceInv'
<1> DEFINE block == [fork |-> forks, tx |-> t]
<1>1. /\ Top \in Nat /\ (Top + 1) - 1 = Top
      /\ Top' = Top + 1 /\ \A i \in 1..Top : chain'[i] = chain[i]
      /\ chain'[Top + 1] = block
  <2>1. chain \in Seq([fork : 0..MaxForks, tx : Txs \cup {NoTx}]) /\ Top \in Nat
    BY LenProperties DEF IInv, TypeOK, Top
  <2>2. chain' = Append(chain, block)
    BY DEF Extend
  <2>3. QED
    BY <2>1, <2>2 DEF Top
<1>2. SUFFICES ASSUME NEW i \in 1..Top + 1, chain'[i].tx # NoTx
               PROVE  chain'[i].tx.nonce = NonceAt(i - 1)'
  BY <1>1 DEF NonceInv, NonceAt
<1>3. i - 1 \in Nat /\ \A k \in 1..i - 1 : chain'[k] = chain[k]
  BY <1>1
<1>4. NonceAt(i - 1)' = NonceAt(i - 1)
  BY <1>3, SameNonce
<1>5. CASE i = Top + 1
  <2>1. chain'[i].tx = t
    BY <1>1, <1>5
  <2>2. t.nonce = NonceAt(Top)
    BY <1>1, <1>2, <2>1 DEF Includable
  <2>3. QED
    BY <1>1, <1>4, <1>5, <2>1, <2>2
<1>6. CASE i # Top + 1
  <2>1. i \in 1..Top /\ chain'[i] = chain[i]
    BY <1>1, <1>6
  <2>2. QED
    BY <1>2, <1>4, <2>1 DEF NonceInv
<1>7. QED
  BY <1>5, <1>6

LEMMA ReorgNonces ==
    ASSUME IInv, NonceInv, NEW k \in 0..MaxBlock, Reorg(k)
    PROVE  NonceInv'
<1> DEFINE block == [fork |-> forks + 1, tx |-> NoTx]
           Blocks == [fork : 0..MaxForks, tx : Txs \cup {NoTx}]
           kept == SubSeq(chain, 1, k)
<1>1. /\ Top \in Nat /\ k \in Nat /\ k < Top
      /\ Top' = k + 1 /\ (\A i \in 1..k : chain'[i] = chain[i])
      /\ chain'[k + 1] = block
  <2>1. /\ chain \in Seq(Blocks) /\ Top \in Nat
        /\ k \in Nat /\ k < Top
    BY LenProperties, BoundsAssumption DEF IInv, TypeOK, Reorg, Top
  <2>2. chain' = Append(kept, block)
    BY DEF Reorg
  <2>3. /\ Len(kept) = k /\ \A i \in 1..k : kept[i] = chain[i]
        /\ kept \in Seq(Blocks)
    <3>1. Len(chain) \in Nat /\ 1 \in 1..Len(chain) + 1 /\ k \in 1 - 1..Len(chain) /\ k - 1 + 1 = k
      BY <2>1 DEF Top
    <3> HIDE DEF Blocks
    <3>2. QED
      BY <2>1, <3>1, SubSeqProperties
  <2> HIDE DEF kept
  <2>4. QED
    BY <2>1, <2>2, <2>3 DEF Top
<1>2. SUFFICES ASSUME NEW i \in 1..k + 1, chain'[i].tx # NoTx
               PROVE  chain'[i].tx.nonce = NonceAt(i - 1)'
  BY <1>1 DEF NonceInv, NonceAt
<1>3. i \in 1..k /\ i \in 1..Top /\ chain'[i] = chain[i]
  BY <1>1, <1>2
<1>4. i - 1 \in Nat /\ \A j \in 1..i - 1 : chain'[j] = chain[j]
  BY <1>1, <1>3
<1>5. NonceAt(i - 1)' = NonceAt(i - 1)
  BY <1>4, SameNonce
<1>6. QED
  BY <1>2, <1>3, <1>5 DEF NonceInv

\* Whatever is dropped by reorganisations and included again by other blocks,
\* the chain holds no transaction twice (CheckNonce, lib.rs:294).
THEOREM NoReplay == Spec => []IncludedOnce
<1>1. Init => NonceInv
  BY DEF Init, NonceInv, Top
<1>2. IInv /\ NonceInv /\ [Next]_vars => NonceInv'
  <2> SUFFICES ASSUME IInv, NonceInv, [Next]_vars PROVE NonceInv'
    OBVIOUS
  <2>1. CASE UNCHANGED chain
    BY <2>1 DEF NonceInv, NonceAt, Top
  <2>2. CASE NewBlock \/ \E tx \in pool : NewBlockWith(tx)
    BY <2>2, ExtendNonces DEF NewBlock, NewBlockWith
  <2>3. CASE \E k \in 0..MaxBlock : Reorg(k)
    BY <2>3, ReorgNonces
  <2>4. QED
    BY <2>1, <2>2, <2>3 DEF Next, vars, Drop, CreateTransaction
<1>3. IInv /\ NonceInv => IncludedOnce
  <2> SUFFICES ASSUME IInv, NonceInv, NEW i \in 1..Top, NEW j \in 1..Top, i < j,
                      chain[i].tx # NoTx, chain[j].tx # NoTx
               PROVE  chain[i].tx.nonce # chain[j].tx.nonce
    BY ChainType, BoundsAssumption DEF IInv, IncludedOnce
  <2>1. i \in Nat /\ j - 1 \in Nat /\ i > 0 /\ i <= j - 1 /\ i - 1 \in Nat
    BY ChainType, BoundsAssumption DEF IInv
  <2>2. NonceAt(i - 1) < NonceAt(j - 1)
    BY <2>1, NonceGrows
  <2>3. NonceAt(i - 1) \in Nat /\ NonceAt(j - 1) \in Nat
    BY <2>1, NonceType
  <2>4. QED
    BY <2>2, <2>3 DEF NonceInv
<1>4. QED
  BY <1>1, <1>2, <1>3, Invariance, PTL DEF Spec

-----------------------------------------------------------------------------
(* Pallets: storage, events and results.                                    *)

\* The last event of a pallet names what its do_something put in storage last.
EventsTellBase ==
    \A i \in 1..Len(events) :
        /\ IsLast(i, "ocw") => ocw = events[i].number
        /\ IsLast(i, "template") => base = events[i].number

PInv == PalletsTypeOK /\ NumberAddsUp /\ EventsTellBase

LEMMA InitPInv == PalletsInit => PInv
  BY BlockSizeAssumption
  DEF PalletsInit, PInv, PalletsTypeOK, NumberAddsUp, EventsTellBase, EventSet

-----------------------------------------------------------------------------
(* An event appended is the last of its pallet, and the last event of the   *)
(* other pallet stays the last.                                             *)
LEMMA AppendedIsLast ==
    ASSUME events \in Seq(EventSet), NEW e \in EventSet, events' = Append(events, e),
           NEW i \in 1..Len(events'), NEW p, IsLast(i, p)'
    PROVE  IF e.pallet = p THEN events'[i] = e
           ELSE i \in 1..Len(events) /\ events'[i] = events[i] /\ IsLast(i, p)
  <1>1. Len(events) \in Nat /\ Len(events') = Len(events) + 1
        /\ events'[Len(events) + 1] = e
        /\ \A j \in 1..Len(events) : events'[j] = events[j] /\ j \in 1..Len(events')
    OBVIOUS
  <1>2. CASE e.pallet = p
    <2>1. Len(events) + 1 \in EventsOf(p)'
      BY <1>1, <1>2 DEF EventsOf
    <2>2. Len(events) + 1 <= i
      BY <2>1 DEF IsLast
    <2>3. i = Len(events) + 1
      BY <1>1, <2>2
    <2> QED
      BY <1>1, <1>2, <2>3
  <1>3. CASE e.pallet # p
    <2>1. events'[i].pallet = p
      BY DEF IsLast, EventsOf
    <2>2. i \in 1..Len(events)
      BY <1>1, <1>3, <2>1
    <2>3. \A j \in EventsOf(p) : j \in EventsOf(p)'
      BY <1>1 DEF EventsOf
    <2>4. IsLast(i, p)
      BY <1>1, <2>1, <2>2, <2>3 DEF IsLast, EventsOf
    <2> QED
      BY <1>1, <1>3, <2>2, <2>4
  <1> QED
    BY <1>2, <1>3

-----------------------------------------------------------------------------
(* Each extrinsic preserves the invariant.                                  *)

LEMMA RejectPInv == ASSUME PInv, NEW err \in Errors, Extrinsic, Reject(err)
                    PROVE PInv'
  BY BlockSizeAssumption
  DEF PInv, PalletsTypeOK, Extrinsic, Reject, NumberAddsUp, EventsTellBase, IsLast, EventsOf

LEMMA DoSomethingPInv ==
    ASSUME PInv, NEW o \in Origins, NEW bn \in Numbers, DoSomething(o, bn)
    PROVE  PInv'
  <1>1. CASE o \notin Accounts
    BY <1>1, RejectPInv DEF DoSomething, Errors
  <1>2. CASE o \in Accounts
    <2> DEFINE e == [pallet |-> "template", number |-> bn, who |-> o]
    <2>1. e \in EventSet /\ events' = Append(events, e)
      BY <1>2 DEF DoSomething, SomethingStored, EventSet
    <2>2. template' = bn /\ base' = bn /\ bumps' = 0 /\ ocw' = ocw
      BY <1>2 DEF DoSomething
    <2>3. PalletsTypeOK'
      <3>1. events' \in Seq(EventSet)
        BY <2>1 DEF PInv, PalletsTypeOK
      <3>2. room' \in 0..BlockSize /\ outcome' = "Ok"
        BY <1>2, BlockSizeAssumption DEF DoSomething, Extrinsic, PInv, PalletsTypeOK
      <3> QED
        BY <2>2, <3>1, <3>2 DEF PInv, PalletsTypeOK
    <2>4. NumberAddsUp'
      BY <2>2, NumberAssumption, NoValueAssumption DEF NumberAddsUp, Numbers
    <2>5. ASSUME NEW i \in 1..Len(events')
          PROVE /\ IsLast(i, "ocw")' => ocw' = events'[i].number
                /\ IsLast(i, "template")' => base' = events'[i].number
      <3>1. IsLast(i, "template")' => events'[i] = e
        BY <2>1, AppendedIsLast DEF PInv, PalletsTypeOK
      <3>2. IsLast(i, "ocw")' => i \in 1..Len(events) /\ events'[i] = events[i]
                                 /\ IsLast(i, "ocw")
        BY <2>1, AppendedIsLast DEF PInv, PalletsTypeOK
      <3> QED
        BY <2>2, <3>1, <3>2 DEF PInv, EventsTellBase
    <2> QED
      BY <2>3, <2>4, <2>5 DEF PInv, EventsTellBase
  <1> QED
    BY <1>1, <1>2

LEMMA OcwDoSomethingPInv ==
    ASSUME PInv, NEW o \in Origins, NEW bn \in Numbers, OcwDoSomething(o, bn)
    PROVE  PInv'
  <1>1. CASE o \notin Accounts
    BY <1>1, RejectPInv DEF OcwDoSomething, Errors
  <1>2. CASE o \in Accounts
    <2> DEFINE e == [pallet |-> "ocw", number |-> bn, who |-> o]
    <2>1. e \in EventSet /\ events' = Append(events, e)
      BY <1>2 DEF OcwDoSomething, SomethingStored, EventSet
    <2>2. ocw' = bn /\ UNCHANGED <<template, base, bumps>>
      BY <1>2 DEF OcwDoSomething
    <2>3. PalletsTypeOK'
      <3>1. events' \in Seq(EventSet)
        BY <2>1 DEF PInv, PalletsTypeOK
      <3>2. room' \in 0..BlockSize /\ outcome' = "Ok"
        BY <1>2, BlockSizeAssumption DEF OcwDoSomething, Extrinsic, PInv, PalletsTypeOK
      <3> QED
        BY <2>2, <3>1, <3>2 DEF PInv, PalletsTypeOK
    <2>4. NumberAddsUp'
      BY <2>2 DEF NumberAddsUp, PInv
    <2>5. ASSUME NEW i \in 1..Len(events')
          PROVE /\ IsLast(i, "ocw")' => ocw' = events'[i].number
                /\ IsLast(i, "template")' => base' = events'[i].number
      <3>1. IsLast(i, "ocw")' => events'[i] = e
        BY <2>1, AppendedIsLast DEF PInv, PalletsTypeOK
      <3>2. IsLast(i, "template")' => i \in 1..Len(events) /\ events'[i] = events[i]
                                      /\ IsLast(i, "template")
        BY <2>1, AppendedIsLast DEF PInv, PalletsTypeOK
      <3> QED
        BY <2>2, <3>1, <3>2 DEF PInv, EventsTellBase
    <2> QED
      BY <2>3, <2>4, <2>5 DEF PInv, EventsTellBase
  <1> QED
    BY <1>1, <1>2

LEMMA CauseErrorPInv == ASSUME PInv, NEW o \in Origins, CauseError(o) PROVE PInv'
  <1>1. CASE o \in Accounts /\ template \in 0..(MaxNumber - 1)
    <2>1. template' = template + 1 /\ bumps' = bumps + 1 /\ outcome' = "Ok"
          /\ UNCHANGED <<ocw, events, base>>
      BY <1>1, NoValueAssumption, NumberAssumption DEF CauseError, Reject
    <2>2. PalletsTypeOK'
      BY <1>1, <2>1, NumberAssumption, BlockSizeAssumption
      DEF CauseError, Extrinsic, PInv, PalletsTypeOK, Numbers
    <2>3. NumberAddsUp'
      BY <1>1, <2>1, <2>2, NumberAssumption, NoValueAssumption
      DEF PInv, PalletsTypeOK, NumberAddsUp, Numbers
    <2> QED
      BY <2>1, <2>2, <2>3 DEF PInv, EventsTellBase, IsLast, EventsOf
  <1>2. CASE ~(o \in Accounts /\ template \in 0..(MaxNumber - 1))
    BY <1>2, RejectPInv DEF CauseError, Errors
  <1> QED
    BY <1>1, <1>2

LEMMA NextBlockPInv == ASSUME PInv, NextBlock PROVE PInv'
  BY BlockSizeAssumption
  DEF PInv, PalletsTypeOK, NextBlock, NumberAddsUp, EventsTellBase

LEMMA NextPInv == ASSUME PInv, [PalletsNext]_palletVars PROVE PInv'
  <1>1. CASE UNCHANGED palletVars
    BY <1>1 DEF PInv, PalletsTypeOK, NumberAddsUp, EventsTellBase, IsLast, EventsOf, palletVars
  <1> QED
    BY <1>1, DoSomethingPInv, OcwDoSomethingPInv, CauseErrorPInv, NextBlockPInv DEF PalletsNext

LEMMA AlwaysPInv == PalletsSpec => []PInv
  BY InitPInv, NextPInv, PTL DEF PalletsSpec

-----------------------------------------------------------------------------
\* Storage, events and results keep their types: in particular cause_error
\* never leaves the range of block numbers, whatever their width (lib.rs).
THEOREM PalletsTypeCorrect == PalletsSpec => []PalletsTypeOK
  BY AlwaysPInv, PTL DEF PInv

\* The template pallet's number is the last one stored plus the successful
\* increments since, for every width of the number (cause_error).
THEOREM NumbersAddUp == PalletsSpec => []NumberAddsUp
  BY AlwaysPInv, PTL DEF PInv

\* The events of a block, replayed, give what the block stored (deposit_event).
THEOREM EventsAreFaithful == PalletsSpec => []EventsTellStorage
  <1>1. PInv => EventsTellStorage
    <2> SUFFICES ASSUME PInv, NEW i \in 1..Len(events)
                 PROVE /\ IsLast(i, "ocw") => ocw = events[i].number
                       /\ IsLast(i, "template") => template = events[i].number + bumps
      BY DEF EventsTellStorage
    <2>1. events[i].number \in 0..MaxNumber
      <3>1. events[i] \in EventSet
        BY DEF PInv, PalletsTypeOK
      <3> QED
        BY <3>1 DEF EventSet, Numbers
    <2>2. IsLast(i, "template") => base = events[i].number /\ base # NoValue
      BY <2>1, NoValueAssumption DEF PInv, EventsTellBase
    <2> QED
      BY <2>2 DEF PInv, EventsTellBase, NumberAddsUp
  <1> QED
    BY <1>1, AlwaysPInv, PTL

\* An extrinsic that fails is a no-op (ensure_signed, NoneValue, StorageOverflow).
THEOREM FailuresAreNoops == PalletsSpec => FailedCallsChangeNothing
  <1>1. PInv /\ [PalletsNext]_palletVars =>
          [outcome' \in Errors /\ room' < room => UNCHANGED <<template, ocw, events>>]_palletVars
    <2> SUFFICES ASSUME PInv, PalletsNext, outcome' \in Errors, room' < room
                 PROVE UNCHANGED <<template, ocw, events>>
      BY DEF palletVars
    <2>1. CASE NextBlock
      BY <2>1, BlockSizeAssumption DEF NextBlock, PInv, PalletsTypeOK
    <2>2. ASSUME NEW o \in Origins, CauseError(o)
          PROVE UNCHANGED <<template, ocw, events>>
      BY <2>2 DEF CauseError, Reject, Errors
    <2>3. ASSUME NEW o \in Origins, NEW bn \in Numbers,
                 DoSomething(o, bn) \/ OcwDoSomething(o, bn)
          PROVE UNCHANGED <<template, ocw, events>>
      BY <2>3 DEF DoSomething, OcwDoSomething, Reject, Errors
    <2> QED
      BY <2>1, <2>2, <2>3 DEF PalletsNext
  <1> QED
    BY <1>1, AlwaysPInv, PTL DEF PalletsSpec, FailedCallsChangeNothing

\* The two pallets never write each other's storage (pallet indices 50 and 51).
THEOREM StorageIsApart == PalletsSpec => PalletsApart
  <1>1. [PalletsNext]_palletVars => [template' = template \/ ocw' = ocw]_palletVars
    BY DEF PalletsNext, palletVars, NextBlock, CauseError, DoSomething, OcwDoSomething, Reject
  <1> QED
    BY <1>1, PTL DEF PalletsSpec, PalletsApart
=============================================================================
