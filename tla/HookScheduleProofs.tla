------------------------- MODULE HookScheduleProofs -------------------------
(***************************************************************************)
(* The choice of blocks the worker runs on, for every tree of blocks, even *)
(* an infinite one, and any number of announcements.                       *)
(*                                                                         *)
(* That the logged block is the parent is a fact about the tree: of the    *)
(* blocks below b exactly one has the number before b's.  It is not proved *)
(* by induction over the tree but over the imports: a block enters `known` *)
(* after its parent, so it is not among the blocks below the parent        *)
(* (TreeInv).  Of the recursive Chain only its equation is needed.         *)
(*                                                                         *)
(* FinalizedAreCovered is not inductive: a block is final because it was   *)
(* below the best one, so the invariant says the same of the chain of the  *)
(* best block (BestIsCovered), and that what was announced stays announced *)
(* or lost (AnnouncedLasts).                                               *)
(***************************************************************************)
EXTENDS HookSchedule, FiniteSetTheorems, TLAPS

-----------------------------------------------------------------------------
(* Chain satisfies the equation that defines it, whatever Parent is: the    *)
(* blocks that are in every set closed under Parent do.                     *)

Closed(S) == \A x \in S : x # Genesis => Parent[x] \in S
Reachable(b) == {a \in All : \A S \in SUBSET All : b \in S /\ Closed(S) => a \in S}

LEMMA ParentType == \A b \in All : b # Genesis => b \in Blocks /\ Parent[b] \in All
BY TreeAssumption DEF All

LEMMA ReachableStep ==
    ASSUME NEW b \in All, b # Genesis
    PROVE  Reachable(b) = {b} \cup Reachable(Parent[b])
<1>1. Parent[b] \in All
  BY ParentType
<1>2. ASSUME NEW a \in Reachable(b) PROVE a \in {b} \cup Reachable(Parent[b])
  <2> DEFINE S == {b} \cup Reachable(Parent[b])
  <2>1. S \in SUBSET All /\ b \in S
    BY DEF Reachable
  <2>2. Parent[b] \in S
    BY <1>1 DEF Reachable
  <2>3. ASSUME NEW x \in Reachable(Parent[b]), x # Genesis PROVE Parent[x] \in S
    <3>1. x \in All /\ Parent[x] \in All
      BY <2>3, ParentType DEF Reachable
    <3>2. ASSUME NEW T \in SUBSET All, Parent[b] \in T, Closed(T)
          PROVE  Parent[x] \in T
      BY <3>2, <2>3 DEF Reachable, Closed
    <3>3. QED
      BY <3>1, <3>2 DEF Reachable
  <2>4. Closed(S)
    BY <2>2, <2>3 DEF Closed
  <2>5. QED
    BY <2>1, <2>4, <1>2 DEF Reachable
<1>3. ASSUME NEW a \in Reachable(Parent[b]) PROVE a \in Reachable(b)
  BY <1>3 DEF Reachable, Closed
<1>4. b \in Reachable(b)
  BY DEF Reachable
<1>5. QED
  BY <1>2, <1>3, <1>4

LEMMA ReachableGenesis == Reachable(Genesis) = {Genesis}
<1>1. Genesis \in All /\ {Genesis} \in SUBSET All /\ Closed({Genesis})
  BY DEF All, Closed
<1>2. QED
  BY <1>1 DEF Reachable

LEMMA ChainEquation ==
    Chain = [b \in All |-> IF b = Genesis THEN {b} ELSE {b} \cup Chain[Parent[b]]]
<1> DEFINE Solves(f) ==
        f = [b \in All |-> IF b = Genesis THEN {b} ELSE {b} \cup f[Parent[b]]]
<1> DEFINE R == [b \in All |-> Reachable(b)]
<1>1. ASSUME NEW b \in All
      PROVE  Reachable(b) =
                 IF b = Genesis THEN {b} ELSE {b} \cup R[Parent[b]]
  BY ReachableStep, ReachableGenesis, ParentType
<1>2. Solves(R)
  BY <1>1
<1>3. \E f : Solves(f)
  BY <1>2
<1>4. Chain = CHOOSE f : Solves(f)
  BY DEF Chain
<1> HIDE DEF Solves, R
<1>5. Solves(Chain)
  BY <1>3, <1>4
<1>6. QED
  BY <1>5 DEF Solves

LEMMA ChainOf ==
    /\ Chain[Genesis] = {Genesis}
    /\ \A b \in Blocks : Chain[b] = {b} \cup Chain[Parent[b]]
BY ChainEquation, TreeAssumption DEF All

-----------------------------------------------------------------------------
(* The tree of the imported blocks, and the announcements.                  *)

TreeInv ==
    /\ \A b \in known : IsFiniteSet(Chain[b]) /\ Chain[b] \subseteq known
    /\ \A b \in known \ {Genesis} :
           Parent[b] \in known /\ b \notin Chain[Parent[b]]
    /\ \A b \in known : b \in Chain[b]
    /\ \A b \in known : \A a \in Chain[b] \ {b} : Number(a) < Number(b)

\* The chain of a block holds the chains of all blocks below it.
ChainsNested == \A b \in known : \A a \in Chain[b] : Chain[a] \subseteq Chain[b]

\* A run that is due or done was announced, for an imported block.
NotesInv ==
    \A b \in Blocks : /\ due[b] + ran[b] <= notes
                      /\ due[b] + ran[b] > 0 => b \in known

FinalBelowBest == final \in Chain[best]
BestIsCovered == \A b \in Chain[best] \ (synced \cup {Genesis}) : Covered(b)

IInv ==
    /\ TypeOK /\ TreeInv /\ ChainsNested /\ NotesInv
    /\ LoggedParentIsParent /\ FinalBelowBest /\ BestIsCovered

LEMMA NumberType ==
    ASSUME TreeInv, NEW b \in known
    PROVE  Number(b) \in Int
BY FS_CardinalityType DEF TreeInv, Number

\* A new block is not below its parent, and is one above it.
LEMMA NumberOfChild ==
    ASSUME NEW b \in Blocks, IsFiniteSet(Chain[Parent[b]]), b \notin Chain[Parent[b]]
    PROVE  /\ IsFiniteSet(Chain[b])
           /\ Number(Parent[b]) \in Int
           /\ Number(b) = Number(Parent[b]) + 1
<1>1. Chain[b] = Chain[Parent[b]] \cup {b}
  BY ChainOf
<1>2. Cardinality(Chain[Parent[b]]) \in Nat
  BY FS_CardinalityType
<1>3. IsFiniteSet(Chain[b]) /\ Cardinality(Chain[b]) = Cardinality(Chain[Parent[b]]) + 1
  BY <1>1, FS_AddElement
<1>4. QED
  BY <1>2, <1>3 DEF Number

LEMMA InitTree == Init => TreeInv
<1> SUFFICES ASSUME Init PROVE TreeInv
  OBVIOUS
<1>1. known = {Genesis} /\ Chain[Genesis] = {Genesis}
  BY ChainOf DEF Init
<1>2. IsFiniteSet({Genesis})
  BY FS_Singleton
<1>3. QED
  BY <1>1, <1>2 DEF TreeInv

LEMMA ImportTree ==
    ASSUME TreeInv, NEW b \in Blocks, Importable(b), known' = known \cup {b}
    PROVE  TreeInv'
<1>1. /\ Parent[b] \in known /\ b \notin known
      /\ IsFiniteSet(Chain[Parent[b]]) /\ b \notin Chain[Parent[b]]
      /\ Chain[Parent[b]] \subseteq known
  BY DEF Importable, TreeInv
<1>2. Chain[b] = {b} \cup Chain[Parent[b]]
  BY ChainOf
<1>3. /\ IsFiniteSet(Chain[b]) /\ Number(Parent[b]) \in Int
      /\ Number(b) = Number(Parent[b]) + 1
  BY <1>1, NumberOfChild
<1>4. ASSUME NEW a \in Chain[b] \ {b} PROVE Number(a) < Number(b)
  <2>1. a \in Chain[Parent[b]] /\ a \in known
    BY <1>1, <1>2
  <2>2. Number(a) \in Int
    BY <2>1, NumberType
  <2>3. a = Parent[b] \/ Number(a) < Number(Parent[b])
    BY <1>1, <2>1 DEF TreeInv
  <2>4. QED
    BY <1>3, <2>2, <2>3
<1>5. ASSUME NEW c \in known'
      PROVE  IsFiniteSet(Chain[c]) /\ Chain[c] \subseteq known' /\ c \in Chain[c]
  BY <1>1, <1>2, <1>3 DEF TreeInv
<1>6. ASSUME NEW c \in known' \ {Genesis}
      PROVE  Parent[c] \in known' /\ c \notin Chain[Parent[c]]
  BY <1>1 DEF TreeInv
<1>7. ASSUME NEW c \in known', NEW a \in Chain[c] \ {c} PROVE Number(a) < Number(c)
  BY <1>4 DEF TreeInv
<1>8. QED
  BY <1>5, <1>6, <1>7 DEF TreeInv, Number

\* Among the blocks below b only the parent has the number before b's.
LEMMA OnlyTheParent ==
    ASSUME TreeInv, NEW b \in known \cap Blocks, NEW a \in Chain[b],
           Number(a) = Number(b) - 1
    PROVE  a = Parent[b]
<1>1. b # Genesis /\ Parent[b] \in known /\ b \notin Chain[Parent[b]]
  BY TreeAssumption DEF TreeInv
<1>2. IsFiniteSet(Chain[Parent[b]]) /\ Chain[Parent[b]] \subseteq known
  BY <1>1 DEF TreeInv
<1>3. Number(Parent[b]) \in Int /\ Number(b) = Number(Parent[b]) + 1
  BY <1>1, <1>2, NumberOfChild
<1>4. a # b
  BY <1>3
<1>5. a \in Chain[Parent[b]]
  BY <1>4, ChainOf
<1>6. a = Parent[b] \/ Number(a) < Number(Parent[b])
  BY <1>1, <1>5 DEF TreeInv
<1>7. QED
  BY <1>3, <1>6

LEMMA ImportNested ==
    ASSUME ChainsNested, NEW b \in Blocks, Importable(b), known' = known \cup {b}
    PROVE  ChainsNested'
<1>1. Parent[b] \in known
  BY DEF Importable
<1>2. Chain[b] = {b} \cup Chain[Parent[b]]
  BY ChainOf
<1>3. ASSUME NEW a \in Chain[b] PROVE Chain[a] \subseteq Chain[b]
  BY <1>1, <1>2 DEF ChainsNested
<1>4. QED
  BY <1>3 DEF ChainsNested

-----------------------------------------------------------------------------
(* The inductive invariant.                                                 *)

LEMMA SameTree ==
    ASSUME TreeInv, ChainsNested, known' = known
    PROVE  TreeInv' /\ ChainsNested'
BY DEF TreeInv, ChainsNested, Number

\* What is covered stays covered if what was announced is due, done or lost.
LEMMA CoverLasts ==
    ASSUME BestIsCovered, best' = best, synced \subseteq synced',
           \A d \in Blocks : Announced(d) => Announced(d)'
    PROVE  BestIsCovered'
BY DEF BestIsCovered, Covered

LEMMA InitIInv == Init => IInv
<1> SUFFICES ASSUME Init PROVE IInv
  OBVIOUS
<1>1. Chain[Genesis] = {Genesis} /\ known = {Genesis} /\ best = Genesis /\ final = Genesis
  BY ChainOf DEF Init
<1>2. TypeOK
  BY NotesAssumption DEF Init, TypeOK, All
<1>3. TreeInv
  BY InitTree
<1>4. ChainsNested /\ FinalBelowBest /\ BestIsCovered
  BY <1>1 DEF ChainsNested, FinalBelowBest, BestIsCovered
<1>5. NotesInv /\ LoggedParentIsParent
  BY DEF Init, NotesInv, LoggedParentIsParent
<1>6. QED
  BY <1>2, <1>3, <1>4, <1>5 DEF IInv

LEMMA ImportIInv ==
    ASSUME IInv, NEW b \in Blocks, SyncImport(b) \/ Import(b)
    PROVE  IInv'
<1>1. /\ Importable(b) /\ known' = known \cup {b} /\ best' \in {best, b}
      /\ synced' \in {synced, synced \cup {b}}
      /\ UNCHANGED <<syncing, final, due, ran, logged, lost, notes>>
  BY DEF SyncImport, Import
<1>2. TreeInv' /\ ChainsNested'
  BY <1>1, ImportTree, ImportNested DEF IInv
<1>3. TypeOK'
  BY <1>1 DEF IInv, TypeOK, All
<1>4. NotesInv' /\ LoggedParentIsParent'
  BY <1>1 DEF IInv, NotesInv, LoggedParentIsParent
<1>5. \A d \in Blocks : Announced(d) => Announced(d)'
  BY <1>1 DEF Announced
<1>6. FinalBelowBest' /\ BestIsCovered'
  <2>1. CASE Import(b)
    BY <1>5, <2>1, CoverLasts DEF Import, IInv, FinalBelowBest
  <2>2. CASE SyncImport(b)
    <3>1. Chain[b] = {b} \cup Chain[best] /\ best' = b /\ synced' = synced \cup {b}
      BY <2>2, ChainOf DEF SyncImport
    <3>2. ASSUME NEW a \in Chain[best] \ (synced \cup {Genesis}) PROVE Covered(a)'
      BY <1>5, <3>2 DEF IInv, BestIsCovered, Covered
    <3>3. QED
      BY <1>1, <3>1, <3>2 DEF IInv, FinalBelowBest, BestIsCovered
  <2>3. QED
    BY <2>1, <2>2
<1>7. QED
  BY <1>2, <1>3, <1>4, <1>6 DEF IInv

LEMMA NewBestIInv ==
    ASSUME IInv, NEW b \in Blocks, NewBest(b)
    PROVE  IInv'
<1>1. /\ b \in known /\ best' = b
      /\ notes < MaxNotes /\ notes' = notes + 1
      /\ due' = [due EXCEPT ![b] = @ + 1]
      /\ UNCHANGED <<syncing, known, final, ran, logged, synced, lost>>
  BY DEF NewBest, BestCandidate, Announce
<1>2. /\ notes \in 0..MaxNotes /\ MaxNotes \in Nat
      /\ \A c \in Blocks : due[c] \in Nat /\ ran[c] \in Nat
                             /\ due[c] + ran[c] <= notes
  BY NotesAssumption DEF IInv, TypeOK, NotesInv
<1>3. due' \in [Blocks -> 0..MaxNotes]
  BY <1>1, <1>2 DEF IInv, TypeOK
<1>4. ASSUME NEW c \in Blocks
      PROVE  /\ due'[c] + ran'[c] <= notes'
             /\ due'[c] + ran'[c] > 0 => c \in known'
  <2>1. due'[c] = IF c = b THEN due[c] + 1 ELSE due[c]
    BY <1>1 DEF IInv, TypeOK
  <2>2. QED
    BY <1>1, <1>2, <2>1 DEF IInv, NotesInv
<1>5. TypeOK'
  BY <1>1, <1>2, <1>3 DEF IInv, TypeOK
<1>6. NotesInv'
  BY <1>4 DEF NotesInv
<1>7. TreeInv' /\ ChainsNested' /\ LoggedParentIsParent'
  BY <1>1, SameTree DEF IInv, LoggedParentIsParent
<1>8. FinalBelowBest'
  BY <1>1 DEF NewBest, BestCandidate, FinalBelowBest
<1>9. BestIsCovered'
  <2>1. due'[b] + ran'[b] > 0
    BY <1>1, <1>2 DEF IInv, TypeOK
  <2>2. QED
    BY <1>1, <2>1 DEF BestIsCovered, Covered, Announced
<1>10. QED
  BY <1>5, <1>6, <1>7, <1>8, <1>9 DEF IInv

LEMMA RunHookIInv ==
    ASSUME IInv, NEW b \in Blocks, RunHook(b)
    PROVE  IInv'
<1> DEFINE below == {a \in Chain[b] : Number(a) = Number(b) - 1}
<1>1. /\ due[b] > 0
      /\ due' = [due EXCEPT ![b] = @ - 1] /\ ran' = [ran EXCEPT ![b] = @ + 1]
      /\ logged' = logged \cup {<<b, a>> : a \in below}
      /\ UNCHANGED <<syncing, known, best, final, synced, lost, notes>>
  BY DEF RunHook
<1>2. /\ notes \in 0..MaxNotes /\ MaxNotes \in Nat
      /\ \A c \in Blocks : due[c] \in Nat /\ ran[c] \in Nat
                             /\ due[c] + ran[c] <= notes
  BY NotesAssumption DEF IInv, TypeOK, NotesInv
<1>3. b \in known
  BY <1>1, <1>2 DEF IInv, NotesInv
<1>4. \A a \in below : a = Parent[b] /\ a \in All
  BY <1>3, OnlyTheParent DEF IInv, TypeOK, TreeInv
<1>5. /\ due' \in [Blocks -> 0..MaxNotes] /\ ran' \in [Blocks -> 0..MaxNotes]
      /\ \A c \in Blocks : due'[c] + ran'[c] = due[c] + ran[c]
  BY <1>1, <1>2 DEF IInv, TypeOK
<1>6. TypeOK'
  <2>1. logged' \subseteq Blocks \X All
    BY <1>1, <1>4 DEF IInv, TypeOK
  <2>2. QED
    BY <1>1, <1>5, <2>1 DEF IInv, TypeOK
<1>7. NotesInv'
  BY <1>1, <1>5 DEF IInv, NotesInv
<1>8. LoggedParentIsParent'
  BY <1>1, <1>4 DEF IInv, LoggedParentIsParent
<1>9. BestIsCovered'
  BY <1>1, <1>5, CoverLasts DEF IInv, Announced
<1>10. QED
  BY <1>1, <1>6, <1>7, <1>8, <1>9, SameTree DEF IInv, FinalBelowBest

LEMMA FinalizeIInv ==
    ASSUME IInv, NEW b \in All, Finalize(b)
    PROVE  IInv'
<1>1. /\ b \in Chain[best] /\ final' = b
      /\ UNCHANGED <<syncing, known, best, due, ran, logged, synced, lost, notes>>
  BY DEF Finalize
<1>2. b \in known
  BY <1>1 DEF IInv, TypeOK, TreeInv
<1>3. BestIsCovered'
  BY <1>1, CoverLasts DEF IInv, Announced
<1>4. QED
  BY <1>1, <1>2, <1>3, SameTree DEF FinalBelowBest, IInv, TypeOK, NotesInv, LoggedParentIsParent

LEMMA RestartIInv ==
    ASSUME IInv, SyncDone \/ Restart
    PROVE  IInv'
<1>1. CASE SyncDone
  <2>1. /\ syncing' \in BOOLEAN
        /\ UNCHANGED <<known, best, final, due, ran, logged, synced, lost, notes>>
    BY <1>1 DEF SyncDone
  <2>2. BestIsCovered'
    BY <2>1, CoverLasts DEF IInv, Announced
  <2>3. QED
    BY <2>1, <2>2, SameTree DEF FinalBelowBest, IInv, TypeOK, NotesInv, LoggedParentIsParent
<1>2. CASE Restart
  <2>1. /\ due' = [b \in Blocks |-> 0] /\ syncing' \in BOOLEAN
        /\ lost' = lost \cup {b \in Blocks : due[b] > 0}
        /\ UNCHANGED <<known, best, final, ran, logged, synced, notes>>
    BY <1>2 DEF Restart
  <2>2. \A b \in Blocks : due[b] \in Nat /\ ran[b] \in Nat
    BY NotesAssumption DEF IInv, TypeOK
  <2>3. TypeOK'
    BY <2>1, NotesAssumption DEF IInv, TypeOK
  <2>4. notes \in Nat
    BY NotesAssumption DEF IInv, TypeOK
  <2>5. NotesInv'
    BY <2>1, <2>2, <2>4 DEF IInv, NotesInv
  <2>6. \A d \in Blocks : Announced(d) => Announced(d)'
    BY <2>1, <2>2 DEF Announced
  <2>7. BestIsCovered'
    BY <2>1, <2>6, CoverLasts DEF IInv
  <2>8. QED
    BY <2>1, <2>3, <2>5, <2>7, SameTree DEF IInv, LoggedParentIsParent, FinalBelowBest
<1>3. QED
  BY <1>1, <1>2

LEMMA NextIInv == IInv /\ [Next]_vars => IInv'
<1> SUFFICES ASSUME IInv, [Next]_vars PROVE IInv'
  OBVIOUS
<1>1. CASE SyncDone \/ Restart
  BY <1>1, RestartIInv
<1>2. ASSUME NEW b \in Blocks, SyncImport(b) \/ Import(b) PROVE IInv'
  BY <1>2, ImportIInv
<1>3. ASSUME NEW b \in Blocks, NewBest(b) PROVE IInv'
  BY <1>3, NewBestIInv
<1>4. ASSUME NEW b \in Blocks, RunHook(b) PROVE IInv'
  BY <1>4, RunHookIInv
<1>5. ASSUME NEW b \in All, Finalize(b) PROVE IInv'
  BY <1>5, FinalizeIInv
<1>6. CASE UNCHANGED vars
  <2>1. BestIsCovered'
    BY <1>6, CoverLasts DEF IInv, Announced, vars
  <2>2. QED
    BY <1>6, <2>1, SameTree
       DEF vars, FinalBelowBest, IInv, TypeOK, NotesInv, LoggedParentIsParent
<1>7. QED
  BY <1>1, <1>2, <1>3, <1>4, <1>5, <1>6 DEF Next

\* The inductive invariant holds in every reachable state.
THEOREM Invariance == Spec => []IInv
BY InitIInv, NextIInv, PTL DEF Spec

-----------------------------------------------------------------------------
(* What the runs check.                                                     *)

\* Best and final block are imported blocks, and no run is counted that was not
\* announced (service.rs:282-303).
THEOREM TypeCorrect == Spec => []TypeOK
BY Invariance, PTL DEF IInv

\* The parent that a run logs is the parent of its block, on whatever tree
\* (lib.rs, block_hash(block_number - 1)).
THEOREM ParentIsLogged == Spec => []LoggedParentIsParent
BY Invariance, PTL DEF IInv

\* On any tree, with any forks winning and any restarts, every final block that
\* the sync did not bring was announced to the worker, or lies below one that was
\* (service.rs:282-303 with 368-383).
THEOREM FinalIsCovered == Spec => []FinalizedAreCovered
<1>1. IInv => FinalizedAreCovered
  <2> SUFFICES ASSUME IInv PROVE FinalizedAreCovered
    OBVIOUS
  <2>1. Chain[final] \subseteq Chain[best]
    BY DEF IInv, TypeOK, ChainsNested, FinalBelowBest
  <2>2. QED
    BY <2>1 DEF IInv, BestIsCovered, FinalizedAreCovered
<1>2. QED
  BY <1>1, Invariance, PTL

\* The best block is always above the final one, also when it comes from another
\* fork (service.rs, start_relay_chain_tasks).
THEOREM BestIsAboveFinal == Spec => []FinalBelowBest
BY Invariance, PTL DEF IInv

-----------------------------------------------------------------------------
(* Finality.                                                                *)

\* What is final stays final, in any tree and for any choice of best blocks
\* (start_relay_chain_tasks in service.rs).
THEOREM FinalityLasts == Spec => FinalityIsKept
<1> DEFINE Kept == Chain[final] \subseteq Chain[final'] \cap Chain[best']
<1>1. IInv /\ IInv' /\ [Next]_vars => [Kept]_vars
  <2> SUFFICES ASSUME IInv, IInv', Next PROVE Kept
    OBVIOUS
  <2>1. final' \in known' /\ best' \in known' /\ final' \in Chain[best']
    BY DEF IInv, TypeOK, FinalBelowBest
  <2>2. final \in Chain[final']
    <3>1. CASE final' = final
      BY <2>1, <3>1 DEF IInv, TypeOK, TreeInv
    <3>2. CASE \E b \in All : Finalize(b)
      BY <3>2 DEF Finalize
    <3>3. QED
      BY <3>1, <3>2 DEF Next, SyncDone, Restart, SyncImport, Import, NewBest, RunHook
  <2>3. Chain[final] \subseteq Chain[final'] /\ Chain[final'] \subseteq Chain[best']
    BY <2>1, <2>2 DEF IInv, ChainsNested
  <2>4. QED
    BY <2>3
<1>2. QED
  BY <1>1, Invariance, PTL DEF Spec, FinalityIsKept
=============================================================================
