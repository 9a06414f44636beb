---------------------------- MODULE TxMortality -----------------------------
(***************************************************************************)
(* The signed transactions that the runtime creates for its off-chain      *)
(* worker (create_transaction): how long they may be included, and on      *)
(* which forks.  A transaction signs the hash of its birth block and       *)
(* carries only the phase of its era; the block that includes it computes  *)
(* the birth block again from the phase and its own number.  One account   *)
(* signs.  A block is named by its number and by the fork it was made on,  *)
(* which is counted up by every reorganisation.                            *)
(*                                                                         *)
(* An uncommented definition just above an operator is that operator with  *)
(* a plausible mistake in it; no specification uses it.                    *)
(***************************************************************************)
EXTENDS Integers, Sequences, FiniteSets

CONSTANTS
    BlockHashCount,  \* block hashes the runtime remembers; 4096 in the SDK
    NoTx,            \* a block without a transaction
    MaxBlock,        \* bounds of the model: blocks of the chain,
    MaxForks,        \* reorganisations
    MaxTxs           \* and transactions created

\* Up to here the era says its phase exactly: for a period above 4096 Era::mortal
\* rounds it to a multiple of period / 4096.
ASSUME CountAssumption == BlockHashCount \in 4..8192
ASSUME BoundsAssumption == MaxBlock \in Nat /\ MaxForks \in Nat /\ MaxTxs \in Nat

VARIABLES
    chain,  \* the best chain above genesis: the fork of each block and its tx
    forks,  \* reorganisations so far
    pool    \* transactions created

vars == <<chain, forks, pool>>

Top == Len(chain)
Hash(n) == <<n, IF n = 0 THEN 0 ELSE chain[n].fork>>

\* Hashes that block n can look up: frame_system drops one per block.
Kept(n) == {b \in 0..(n - 1) : b >= n - BlockHashCount /\ b <= Top}

NonceAt(n) == Cardinality({i \in 1..n : chain[i].tx # NoTx})

PowersOfTwo == {1, 2, 4, 8, 16, 32, 64, 128, 256, 512, 1024, 2048, 4096, 8192}

\* checked_next_power_of_two
NextPowerOfTwo(n) ==
    CHOOSE p \in PowersOfTwo : p >= n /\ \A q \in PowersOfTwo : q >= n => p <= q

AtLeast4(n) == IF n < 4 THEN 4 ELSE n

PeriodWhole == AtLeast4(NextPowerOfTwo(BlockHashCount))

\* Half of the next power of two; Era::mortal takes nothing below four.
Period == AtLeast4(NextPowerOfTwo(BlockHashCount) \div 2)

\* block_number().saturating_sub(1), for a worker that runs in block n.
Current(n) == IF n = 0 THEN 0 ELSE n - 1

PhaseWhole(n) == Current(n)

Phase(n) == Current(n) % Period

\* Era::birth at block n.
Birth(phase, n) ==
    ((IF n < phase THEN 0 ELSE n - phase) \div Period) * Period + phase

Txs == [phase : 0..(Period - 1), nonce : 0..MaxBlock, signed : (0..MaxBlock) \X (0..MaxForks)]

TypeOK ==
    /\ chain \in Seq([fork : 0..MaxForks, tx : Txs \cup {NoTx}])
    /\ Top <= MaxBlock
    /\ forks \in 0..MaxForks
    /\ pool \subseteq Txs /\ Cardinality(pool) <= MaxTxs

Init == chain = <<>> /\ forks = 0 /\ pool = {}

CreateSigningTop(n) ==
    /\ Cardinality(pool) < MaxTxs
    /\ n \in 1..Top
    /\ pool' = pool \cup {[phase |-> Phase(n), nonce |-> NonceAt(n), signed |-> Hash(n)]}
    /\ UNCHANGED <<chain, forks>>

\* create_transaction in the state of block n, which need not be the head any
\* more: the signed payload takes the hash of the birth block from there, and
\* there is no transaction when that hash is gone.  (A run for a block that a
\* reorganisation has dropped creates what it would have created before it.)
CreateTransaction(n) ==
    /\ Cardinality(pool) < MaxTxs
    /\ n \in 1..Top
    /\ LET b == Birth(Phase(n), n)
       IN  /\ b \in Kept(n)
           /\ pool' = pool \cup {[phase |-> Phase(n), nonce |-> NonceAt(n), signed |-> Hash(b)]}
    /\ UNCHANGED <<chain, forks>>

IncludableImmortal(tx, n) == tx.nonce = NonceAt(n - 1)

\* The checks of the signed extension in block n: CheckEra finds the birth
\* block, the signature is over its hash, CheckNonce.
Includable(tx, n) ==
    LET b == Birth(tx.phase, n)
    IN  b \in Kept(n) /\ tx.signed = Hash(b) /\ tx.nonce = NonceAt(n - 1)

Extend(t) ==
    /\ Top < MaxBlock
    /\ chain' = Append(chain, [fork |-> forks, tx |-> t])
    /\ UNCHANGED <<forks, pool>>

NewBlock == Extend(NoTx)
NewBlockWith(tx) == Includable(tx, Top + 1) /\ Extend(tx)

\* The relay chain backs another fork, from block k on.
Reorg(k) ==
    /\ forks < MaxForks /\ k < Top
    /\ forks' = forks + 1
    /\ chain' = Append(SubSeq(chain, 1, k), [fork |-> forks + 1, tx |-> NoTx])
    /\ UNCHANGED pool

\* The transaction pool forgets a transaction.
Drop(tx) ==
    /\ pool' = pool \ {tx}
    /\ UNCHANGED <<chain, forks>>

Next ==
    \/ NewBlock
    \/ \E tx \in pool : NewBlockWith(tx) \/ Drop(tx)
    \/ \E n \in 1..MaxBlock : CreateTransaction(n)
    \/ \E k \in 0..MaxBlock : Reorg(k)

Spec == Init /\ [][Next]_vars

-----------------------------------------------------------------------------
OnChain(tx) == tx.signed[1] <= Top /\ tx.signed = Hash(tx.signed[1])
InLife(tx, n) == n \in (tx.signed[1] + 1)..(tx.signed[1] + Period - 1)

\* The era means what it says: the next block may include a transaction exactly
\* if that block lies in the period after the birth block, the chain goes
\* through the birth block and it is the account's turn.  The birth block
\* computed from the phase is never another one, and its hash is not forgotten
\* within the period (create_transaction's choice of the period).
EraMeansLife ==
    \A tx \in pool :
        Includable(tx, Top + 1) <=>
            /\ OnChain(tx) /\ InLife(tx, Top + 1)
            /\ tx.nonce = NonceAt(Top)

\* Whatever reorganisations came between signing and inclusion: a transaction
\* in the chain was signed on this very chain and not too long ago.
IncludedOnItsFork ==
    \A i \in 1..Top : chain[i].tx # NoTx => OnChain(chain[i].tx) /\ InLife(chain[i].tx, i)

\* A reorganisation drops a transaction from the chain and the pool offers it
\* again; but no chain holds a transaction twice, nor two with one nonce
\* (CheckNonce of the signed extension).
IncludedOnce ==
    \A i, j \in 1..Top : i # j /\ chain[i].tx # NoTx /\ chain[j].tx # NoTx =>
        chain[i].tx.nonce # chain[j].tx.nonce

\* A transaction that a worker creates in the head block can be included in the
\* next one: the birth block chosen in block n, block_number() - 1, is the one
\* that block n + 1 finds again, and its hash is the one that was signed.
FreshIsIncludable ==
    [][CreateTransaction(Top) => \A tx \in pool' \ pool : Includable(tx, Top + 1)]_vars
=============================================================================
