----------------------------- MODULE XcmProofs ------------------------------
(***************************************************************************)
(* What messages can do, for messages of any length and any number of them.*)
(*                                                                         *)
(* The barrier looks at a message once, before it runs; its effects come   *)
(* instruction by instruction.  The inductive invariant carries what the   *)
(* barrier has seen over to the instructions that are left (TodoInv), as   *)
(* far as it holds of nested programs, which the barrier has not seen:     *)
(* they run only after their message has paid.  It also follows the origin *)
(* register of a sibling's message (OriginInv).                            *)
(***************************************************************************)
EXTENDS Xcm, SequenceTheorems, TLAPS

Unpaid == {"DescendOrigin", "UniversalOrigin", "ClearOrigin", "WithdrawAsset",
           "ReserveAssetDeposited", "ReceiveTeleportedAsset"}

\* The message buys execution before it does anything but changing its origin
\* and taking assets.
PaysFirst(msg) ==
    msg = <<>> \/ \E n \in 1..Len(msg) :
        msg[n].op = "BuyExecution" /\ \A i \in 1..n - 1 : msg[i].op \in Unpaid

LeavesReserve(msg) == \A i \in 1..Len(msg) : ~ForRelay(msg[i])

\* The part of TypeOK about the registers that hold programs.
Registers ==
    /\ todo \in Seq(Instructions) /\ Len(todo) <= MaxInstructions
    /\ program \in {"top", "nested"}
    /\ handler \in Nested \cup {<<>>} /\ appendix \in Nested \cup {<<>>}

TodoInv ==
    /\ todo # <<>> \/ handler # <<>> \/ appendix # <<>> => sender # {}
    /\ sender = {} => program = "top"
    /\ program = "top" => LeavesReserve(todo)
    /\ sender = {Sibling} /\ fee = 0 =>
           PaysFirst(todo) /\ handler = <<>> /\ appendix = <<>>

\* A sibling's message can descend, but never leaves its parachain.
BelowSibling(l) == l # <<>> /\ l[1] = "Parachain"
OriginInv == sender = {Sibling} => \A l \in origin : BelowSibling(l)

IInv == /\ TypeOK /\ TodoInv /\ OriginInv
        /\ Conserved /\ PrivilegeNeedsRelay

-----------------------------------------------------------------------------
(* Messages and what the barrier makes sure of.                             *)

\* What an instruction carries.
LEMMA NestedIn ==
    ASSUME NEW i \in Instructions, i.op \in {"SetAppendix", "SetErrorHandler"}
    PROVE  i.xcm \in Nested
BY Zenon DEF Instructions

LEMMA BodyIn ==
    ASSUME NEW i \in Instructions, i.op = "DescendOrigin"
    PROVE  i.arg \in Bodies
BY Zenon DEF Instructions

LEMMA ChainIn ==
    ASSUME NEW i \in Instructions,
           i.op \in {"InitiateReserveWithdraw", "DepositReserveAsset", "TransferReserveAsset"}
    PROVE  i.arg \in Chains
BY Zenon DEF Instructions

LEMMA MessageType ==
    ASSUME NEW msg \in Messages
    PROVE  /\ msg \in Seq(Instructions) /\ Len(msg) \in 1..MaxInstructions
           /\ DOMAIN msg = 1..Len(msg)
BY BoundAssumption DEF Messages

\* What is left of a message after one instruction.
LEMMA TailOf ==
    ASSUME NEW msg \in Seq(Instructions), msg # <<>>
    PROVE  /\ Tail(msg) \in Seq(Instructions) /\ Head(msg) \in Instructions
           /\ Len(Tail(msg)) = Len(msg) - 1 /\ Len(msg) \in Nat \ {0}
           /\ LeavesReserve(msg) => LeavesReserve(Tail(msg))
           /\ PaysFirst(msg) /\ Head(msg).op # "BuyExecution" =>
                  PaysFirst(Tail(msg)) /\ Head(msg).op \in Unpaid
<1>1. /\ Tail(msg) \in Seq(Instructions) /\ Head(msg) \in Instructions
      /\ Len(Tail(msg)) = Len(msg) - 1 /\ Len(msg) \in Nat \ {0}
      /\ \A i \in 1..Len(msg) - 1 : Tail(msg)[i] = msg[i + 1]
      /\ Head(msg) = msg[1]
  BY HeadTailProperties, LenProperties, EmptySeq
<1>2. ASSUME LeavesReserve(msg) PROVE LeavesReserve(Tail(msg))
  BY <1>1, <1>2 DEF LeavesReserve
<1>3. ASSUME PaysFirst(msg), Head(msg).op # "BuyExecution"
      PROVE  PaysFirst(Tail(msg)) /\ Head(msg).op \in Unpaid
  <2>1. PICK n \in 1..Len(msg) :
            msg[n].op = "BuyExecution" /\ \A i \in 1..n - 1 : msg[i].op \in Unpaid
    BY <1>3 DEF PaysFirst
  <2>2. n # 1
    BY <1>1, <1>3, <2>1
  <2>3. n - 1 \in 1..Len(Tail(msg)) /\ Tail(msg)[n - 1].op = "BuyExecution"
    BY <1>1, <2>1, <2>2
  <2>4. \A i \in 1..n - 2 : Tail(msg)[i].op \in Unpaid
    BY <1>1, <2>1, <2>2
  <2>5. Head(msg).op \in Unpaid
    BY <1>1, <2>1, <2>2
  <2>6. PaysFirst(Tail(msg))
    <3>1. (n - 1) - 1 = n - 2
      OBVIOUS
    <3>2. QED
      BY <2>3, <2>4, <3>1 DEF PaysFirst
  <2>7. QED
    BY <2>5, <2>6
<1>4. QED
  BY <1>1, <1>2, <1>3

LEMMA PrefixExists ==
    ASSUME NEW msg \in Seq(Instructions)
    PROVE  /\ PrefixLength(msg) \in 0..Len(msg)
           /\ IsPrefix(msg, PrefixLength(msg))
<1> DEFINE Longest(n) == IsPrefix(msg, n) /\ (n = Len(msg) \/ ~IsPrefix(msg, n + 1))
<1>1. Len(msg) \in Nat
  BY LenProperties
<1>2. IsPrefix(msg, 0) /\ \A n \in Nat : IsPrefix(msg, n) => n <= 8
  BY DEF IsPrefix
<1>3. \E n \in 0..Len(msg) : Longest(n)
  <2>1. SUFFICES ASSUME \A n \in 0..Len(msg) : ~Longest(n) PROVE FALSE
    OBVIOUS
  <2>2. ASSUME NEW n \in Nat, n <= Len(msg), IsPrefix(msg, n)
        PROVE  n + 1 <= Len(msg) /\ IsPrefix(msg, n + 1)
    BY <1>1, <2>1, <2>2
  <2> HIDE DEF Longest
  <2>3. 1 <= Len(msg) /\ IsPrefix(msg, 1)
    BY <1>1, <1>2, <2>2
  <2>4. 2 <= Len(msg) /\ IsPrefix(msg, 2)
    BY <1>1, <2>2, <2>3
  <2>5. 3 <= Len(msg) /\ IsPrefix(msg, 3)
    BY <1>1, <2>2, <2>4
  <2>6. 4 <= Len(msg) /\ IsPrefix(msg, 4)
    BY <1>1, <2>2, <2>5
  <2>7. 5 <= Len(msg) /\ IsPrefix(msg, 5)
    BY <1>1, <2>2, <2>6
  <2>8. 6 <= Len(msg) /\ IsPrefix(msg, 6)
    BY <1>1, <2>2, <2>7
  <2>9. 7 <= Len(msg) /\ IsPrefix(msg, 7)
    BY <1>1, <2>2, <2>8
  <2>10. 8 <= Len(msg) /\ IsPrefix(msg, 8)
    BY <1>1, <2>2, <2>9
  <2>11. IsPrefix(msg, 9)
    BY <1>1, <2>2, <2>10
  <2>12. QED
    BY <1>2, <2>11
<1>4. PrefixLength(msg) = CHOOSE n \in 0..Len(msg) : Longest(n)
  BY DEF PrefixLength
<1>5. PrefixLength(msg) \in 0..Len(msg) /\ Longest(PrefixLength(msg))
  BY <1>3, <1>4
<1>6. QED
  BY <1>5

\* No prefix takes a sibling to an origin that may run free.
LEMMA SiblingPays ==
    ASSUME NEW prefix \in Seq(Instructions)
    PROVE  ComputedOrigin(Sibling, prefix) \notin ParentOrParentsExecutivePlurality
<1> DEFINE branches == [i \in DOMAIN prefix |-> prefix[i].arg]
<1> DEFINE parts == {"Parachain"} \cup {prefix[i].arg : i \in DOMAIN prefix}
<1>1. branches \in Seq(parts)
  <2>1. Len(prefix) \in Nat /\ DOMAIN prefix = 1..Len(prefix)
    BY LenProperties
  <2>2. branches \in [1..Len(prefix) -> parts]
    BY <2>1
  <2>3. QED
    BY <2>1, <2>2
<1>2. Sibling \in Seq(parts) /\ Len(Sibling) = 1 /\ Sibling[1] = "Parachain"
  BY DEF Sibling
<1>3. Len(Sibling \o branches) >= 1 /\ (Sibling \o branches)[1] = "Parachain"
  BY <1>1, <1>2, ConcatProperties, LenProperties
<1>4. \A l \in ParentOrParentsExecutivePlurality :
          Len(l) = 0 \/ l[1] = "Executive"
  BY DEF ParentOrParentsExecutivePlurality, Parent
<1>5. Len(<<"GlobalConsensus">>) = 1 /\ <<"GlobalConsensus">>[1] = "GlobalConsensus"
  OBVIOUS
<1> HIDE DEF branches
<1>6. \/ ComputedOrigin(Sibling, prefix) = <<"GlobalConsensus">>
      \/ ComputedOrigin(Sibling, prefix) = Sibling \o branches
  BY DEF ComputedOrigin, branches
<1>7. QED
  BY <1>3, <1>4, <1>5, <1>6

\* A sibling's message that the barrier accepts pays before it has effects.
LEMMA BarrierPays ==
    ASSUME NEW msg \in Messages, Barrier(Sibling, msg)
    PROVE  PaysFirst(msg)
<1> DEFINE n == PrefixLength(msg)
           rest == SubSeq(msg, n + 1, Len(msg))
<1>1. /\ msg \in Seq(Instructions) /\ Len(msg) \in Nat
      /\ \A i \in 1..Len(msg) : msg[i] \in Instructions
  BY MessageType, LenProperties, ElementOfSeq
<1>2. n \in 0..Len(msg) /\ IsPrefix(msg, n)
  BY <1>1, PrefixExists
<1> HIDE DEF n
<1>3. /\ Len(rest) = Len(msg) - n
      /\ \A i \in 1..Len(msg) - n : rest[i] = msg[n + i]
  BY <1>1, <1>2, SubSeqProperties
<1>4. SubSeq(msg, 1, n) \in Seq(Instructions)
  BY <1>1, <1>2, SubSeqProperties
<1>5. Pays(rest)
  BY <1>4, SiblingPays DEF Barrier, Allowed, MayRunFree, n
<1>6. PICK m \in 2..Len(rest) :
          /\ rest[m].op = "BuyExecution"
          /\ rest[1].op \in {"WithdrawAsset", "ReserveAssetDeposited",
                             "ReceiveTeleportedAsset"}
          /\ \A i \in 2..m - 1 : rest[i].op = "ClearOrigin"
  BY <1>5 DEF Pays
<1> HIDE DEF rest
<1> DEFINE k == n + m
<1>7. k \in 1..Len(msg) /\ msg[k].op = "BuyExecution"
  BY <1>2, <1>3, <1>6
<1>8. ASSUME NEW i \in 1..k - 1 PROVE msg[i].op \in Unpaid
  <2>1. CASE i <= n
    BY <1>2, <2>1 DEF IsPrefix, Unpaid
  <2>2. CASE i > n
    <3>1. i - n \in 1..m - 1 /\ i - n \in 1..Len(msg) - n /\ n + (i - n) = i
      BY <1>2, <1>3, <1>6, <2>2
    <3>2. msg[i] = rest[i - n]
      BY <1>3, <3>1
    <3>3. QED
      BY <1>6, <3>1, <3>2 DEF Unpaid
  <2>3. QED
    BY <1>2, <2>1, <2>2
<1> HIDE DEF k
<1>9. QED
  BY <1>7, <1>8 DEF PaysFirst

LEMMA BarrierDenies ==
    ASSUME NEW from, NEW msg \in Messages, Barrier(from, msg)
    PROVE  LeavesReserve(msg)
BY MessageType DEF Barrier, Denied, LeavesReserve

-----------------------------------------------------------------------------
(* The invariant holds initially and is kept by every action.               *)

LEMMA InitIInv == Init => IInv
<1> SUFFICES ASSUME Init PROVE IInv
  OBVIOUS
<1>1. TypeOK
  <2>1. todo \in Seq(Instructions) /\ Len(todo) = 0
    BY DEF Init
  <2>2. QED
    BY <2>1, BoundAssumption DEF Init, TypeOK, Genesis, Accounts
<1>2. TodoInv /\ OriginInv
  BY DEF Init, TodoInv, OriginInv, LeavesReserve
<1>3. Conserved
  BY DEF Init, Conserved, Genesis, Accounts, Sum, Chains
<1>4. QED
  BY <1>1, <1>2, <1>3 DEF IInv, Init, PrivilegeNeedsRelay

LEMMA SumAfter ==
    ASSUME NEW b \in [Accounts -> Nat], NEW a \in Accounts, NEW d \in Int
    PROVE  Sum([b EXCEPT ![a] = @ + d]) = Sum(b) + d
BY DEF Sum, Accounts

LEMMA Quantities ==
    ASSUME TypeOK
    PROVE  /\ Sum(balances) \in Nat /\ Sum(Genesis) \in Nat
           /\ holding \in Nat /\ fee \in Nat /\ trapped \in Nat /\ backed \in Nat
           /\ gone["relay"] \in Nat /\ gone["sibling"] \in Nat /\ teleported \in Nat
<1>1. \A b \in [Accounts -> Nat] : Sum(b) \in Nat
  BY DEF Sum, Accounts
<1>2. Genesis \in [Accounts -> Nat]
  BY DEF Genesis
<1>3. QED
  BY <1>1, <1>2 DEF TypeOK, Chains

\* Nested programs and what is left of a message are programs.
LEMMA ProgramType ==
    ASSUME NEW xcm \in Nested \cup {<<>>}
    PROVE  xcm \in Seq(Instructions) /\ Len(xcm) <= MaxInstructions
<1>1. CASE xcm \in Nested
  BY <1>1, NestedAssumption
<1>2. CASE xcm = <<>>
  <2>1. <<>> \in Seq(Instructions) /\ Len(<<>>) = 0
    OBVIOUS
  <2>2. QED
    BY <1>2, <2>1, BoundAssumption
<1>3. QED
  BY <1>1, <1>2

\* What an instruction leaves in the registers keeps what the barrier has seen:
\* it fails, or goes to the next one without having paid, or pays.
LEMMA TodoKept ==
    ASSUME TypeOK, TodoInv, todo # <<>>, sender' = sender,
           \/ Ended
           \/ Done /\ Head(todo).op # "BuyExecution" /\ fee' = fee
           \/ Done /\ fee' = fee + 1
    PROVE  TodoInv' /\ Registers'
<1>1. Registers /\ fee \in Nat /\ sender # {}
  BY DEF TypeOK, Registers, TodoInv
<1>2. CASE Ended
  <2>1. /\ todo' \in Nested \cup {<<>>} /\ appendix' \in Nested \cup {<<>>}
        /\ handler' = <<>> /\ program' = "nested" /\ fee' = fee
    BY <1>1, <1>2 DEF Ended, Registers
  <2>2. Registers'
    BY <2>1, ProgramType DEF Registers
  <2>3. ASSUME sender = {Sibling}, fee = 0
        PROVE  PaysFirst(todo') /\ handler' = <<>> /\ appendix' = <<>>
    BY <1>2, <2>3 DEF Ended, TodoInv, PaysFirst
  <2>4. TodoInv'
    BY <1>1, <2>1, <2>3 DEF TodoInv, PaysFirst
  <2>5. QED
    BY <2>2, <2>4
<1>3. CASE Done
  <2>1. /\ todo' \in Seq(Instructions) /\ Len(todo') = Len(todo) - 1 /\ Len(todo) \in Nat
        /\ LeavesReserve(todo) => LeavesReserve(todo')
        /\ PaysFirst(todo) /\ Head(todo).op # "BuyExecution" => PaysFirst(todo')
        /\ program' = program /\ handler' = handler /\ appendix' = appendix
    BY <1>1, <1>3, TailOf DEF Done, Registers
  <2>2. ASSUME sender' = {Sibling}, fee' = 0
        PROVE  PaysFirst(todo') /\ handler' = <<>> /\ appendix' = <<>>
    <3>1. CASE fee' = fee + 1
      BY <1>1, <2>2, <3>1
    <3>2. CASE Ended
      BY <2>2, <3>2 DEF Ended, TodoInv, PaysFirst
    <3>3. CASE Head(todo).op # "BuyExecution" /\ fee' = fee
      BY <2>1, <2>2, <3>3 DEF TodoInv
    <3>4. QED
      BY <3>1, <3>2, <3>3
  <2>3. program' = "top" => LeavesReserve(todo')
    BY <2>1 DEF TodoInv
  <2>4. Registers'
    BY <1>1, <2>1, BoundAssumption DEF Registers
  <2>5. TodoInv'
    BY <1>1, <2>1, <2>2, <2>3 DEF TodoInv, PaysFirst, LeavesReserve
  <2>6. QED
    BY <2>4, <2>5
<1>4. QED
  BY <1>2, <1>3

\* A program is nested only after the message has paid.
LEMMA TodoNested ==
    ASSUME TypeOK, TodoInv, todo # <<>>, sender' = sender, fee' = fee,
           todo' = Tail(todo), program' = program,
           \/ Head(todo).op = "SetErrorHandler" /\ handler' = Head(todo).xcm /\ appendix' = appendix
           \/ Head(todo).op = "SetAppendix" /\ appendix' = Head(todo).xcm /\ handler' = handler
    PROVE  TodoInv' /\ Registers'
<1>1. Registers /\ fee \in Nat /\ sender # {}
  BY DEF TypeOK, Registers, TodoInv
<1>2. /\ todo' \in Seq(Instructions) /\ Len(todo') = Len(todo) - 1 /\ Len(todo) \in Nat
      /\ LeavesReserve(todo) => LeavesReserve(todo')
      /\ PaysFirst(todo) => Head(todo).op \in Unpaid
      /\ Head(todo) \in Instructions
  BY <1>1, TailOf DEF Registers
<1>3. Head(todo).xcm \in Nested
  BY <1>2, NestedIn
<1>4. Registers'
  BY <1>1, <1>2, <1>3, BoundAssumption DEF Registers
<1>5. ~(sender = {Sibling} /\ fee = 0)
  BY <1>2 DEF TodoInv, Unpaid
<1>6. TodoInv'
  BY <1>1, <1>2, <1>5 DEF TodoInv, PaysFirst, LeavesReserve
<1>7. QED
  BY <1>4, <1>6

\* The parts of the invariant that an instruction leaves alone.
LEMMA OriginKept ==
    ASSUME IInv, sender' = sender, origin' = origin
    PROVE  OriginInv' /\ \A l \in origin' : origin' = {l} /\ l \in Seq(Junctions)
BY DEF IInv, OriginInv, BelowSibling, TypeOK

LEMMA DispatchedKept ==
    ASSUME IInv, sender' = sender, dispatched' = dispatched
    PROVE  PrivilegeNeedsRelay' /\ (dispatched' # {} => sender' # {})
BY DEF IInv, PrivilegeNeedsRelay, TypeOK, ActsAsRelay, CollatorSelectionUpdateOrigin

LEMMA ErrorIInv ==
    ASSUME IInv, todo # <<>>, Error, Rest
    PROVE  IInv'
<1>1. TodoInv' /\ Registers'
  BY TodoKept DEF IInv, Error, Rest
<1>2. OriginInv' /\ \A l \in origin' : origin' = {l} /\ l \in Seq(Junctions)
  BY OriginKept DEF Error, Ended, Rest
<1>3. PrivilegeNeedsRelay' /\ (dispatched' # {} => sender' # {})
  BY DispatchedKept DEF Error, Ended, Rest
<1>4. TypeOK'
  BY <1>1, <1>2, <1>3 DEF Registers, IInv, TypeOK, Error, Ended, Rest
<1>5. Conserved'
  BY DEF IInv, Conserved, Error, Ended, Rest
<1>6. QED
  BY <1>1, <1>2, <1>3, <1>4, <1>5 DEF IInv

LEMMA UndoneIInv ==
    ASSUME IInv, todo # <<>>, Undone, Rest
    PROVE  IInv'
BY ErrorIInv DEF Undone, FrameTransactionalProcessor, Error

LEMMA ProcessMessageIInv ==
    ASSUME IInv, ProcessMessage
    PROVE  IInv'
<1>1. PICK a \in Accepted : sender' = {a[1]} /\ origin' = {a[1]} /\ todo' = a[2]
  BY DEF ProcessMessage
<1>2. a[1] \in {Parent, Sibling} /\ a[2] \in Messages /\ Barrier(a[1], a[2])
  BY DEF Accepted
<1>3. /\ todo' \in Seq(Instructions) /\ Len(todo') <= MaxInstructions
      /\ LeavesReserve(todo')
  BY <1>1, <1>2, MessageType, BarrierDenies, BoundAssumption
<1>4. Parent # Sibling /\ Parent \in Seq(Junctions) /\ Sibling \in Seq(Junctions)
  BY DEF Parent, Sibling, Junctions
<1>5. sender' = {Sibling} => a[1] = Sibling
  BY <1>1
<1>6. TodoInv' /\ Registers'
  <2>1. /\ program' = "top" /\ handler' = <<>> /\ appendix' = <<>>
    BY DEF ProcessMessage, IInv, TodoInv
  <2>2. sender' = {Sibling} => PaysFirst(todo')
    BY <1>1, <1>2, <1>5, BarrierPays
  <2>3. TodoInv'
    BY <1>1, <1>3, <2>1, <2>2 DEF TodoInv, PaysFirst, LeavesReserve
  <2>4. QED
    BY <1>3, <2>1, <2>3 DEF Registers
<1>7. OriginInv'
  BY <1>1, <1>5 DEF OriginInv, BelowSibling, Sibling
<1>8. dispatched = {} /\ dispatched' = {}
  BY DEF Registers, IInv, TypeOK, ProcessMessage
<1>9. TypeOK'
  <2>1. sender' \in {{}, {Parent}, {Sibling}}
    BY <1>1, <1>2
  <2>2. \A l \in origin' : origin' = {l} /\ l \in Seq(Junctions)
    BY <1>1, <1>2, <1>4
  <2>3. processed' \in 0..MaxMessages
    BY BoundAssumption DEF Registers, IInv, TypeOK, ProcessMessage
  <2>4. QED
    BY <1>6, <1>8, <2>1, <2>2, <2>3 DEF Registers, IInv, TypeOK, ProcessMessage
<1>10. Conserved' /\ PrivilegeNeedsRelay'
  BY <1>8 DEF IInv, Conserved, PrivilegeNeedsRelay, ProcessMessage
<1>11. QED
  BY <1>6, <1>7, <1>9, <1>10 DEF IInv

LEMMA ClearOriginIInv ==
    ASSUME IInv, ClearOrigin
    PROVE  IInv'
<1>1. TodoInv' /\ Registers'
  BY TodoKept DEF IInv, ClearOrigin, Next1, Rest
<1>2. PrivilegeNeedsRelay' /\ (dispatched' # {} => sender' # {})
  BY DispatchedKept DEF ClearOrigin, Rest
<1>3. TypeOK' /\ OriginInv'
  BY <1>1, <1>2 DEF Registers, IInv, TypeOK, OriginInv, ClearOrigin, Rest
<1>4. Conserved'
  BY DEF IInv, Conserved, ClearOrigin, Rest
<1>5. QED
  BY <1>1, <1>2, <1>3, <1>4 DEF IInv

LEMMA DescendOriginIInv ==
    ASSUME IInv, DescendOrigin
    PROVE  IInv'
<1>1. CASE origin = {}
  BY <1>1, ErrorIInv DEF DescendOrigin, Next1
<1>2. CASE origin # {}
  <2>1. PICK l : origin = {l} /\ l \in Seq(Junctions)
    BY <1>2 DEF IInv, TypeOK
  <2>2. Head(todo) \in Instructions /\ Head(todo).op = "DescendOrigin"
    BY TailOf DEF Registers, IInv, TypeOK, DescendOrigin, Next1
  <2>3. Head(todo).arg \in Junctions
    BY <2>2, BodyIn DEF Junctions
  <2> DEFINE below == Append(l, Head(todo).arg)
  <2>4. origin' = {below}
    BY <1>2, <2>1 DEF DescendOrigin
  <2>5. /\ below \in Seq(Junctions) /\ Len(below) = Len(l) + 1
        /\ \A i \in 1..Len(l) : below[i] = l[i]
    BY <2>1, <2>3, AppendProperties
  <2> HIDE DEF below
  <2>6. BelowSibling(l) => BelowSibling(below)
    BY <2>1, <2>5, LenProperties, EmptySeq DEF BelowSibling
  <2>7. OriginInv'
    BY <2>1, <2>4, <2>6 DEF IInv, OriginInv, DescendOrigin, Rest
  <2>8. TodoInv' /\ Registers'
    BY <1>2, TodoKept DEF IInv, DescendOrigin, Next1, Rest
  <2>9. PrivilegeNeedsRelay' /\ (dispatched' # {} => sender' # {})
    BY <1>2, DispatchedKept DEF DescendOrigin, Rest
  <2>10. TypeOK'
    BY <1>2, <2>4, <2>5, <2>8, <2>9 DEF Registers, IInv, TypeOK, DescendOrigin, Rest
  <2>11. Conserved'
    BY <1>2 DEF IInv, Conserved, DescendOrigin, Rest
  <2>12. QED
    BY <2>7, <2>8, <2>9, <2>10, <2>11 DEF IInv
<1>3. QED
  BY <1>1, <1>2

LEMMA RefusedIInv ==
    ASSUME IInv, Refused
    PROVE  IInv'
BY ErrorIInv DEF Refused, Next1

LEMMA UnpaidExecutionIInv ==
    ASSUME IInv, UnpaidExecution
    PROVE  IInv'
<1>1. TodoInv' /\ Registers'
  BY TodoKept DEF IInv, UnpaidExecution, Next1, Rest
<1>2. OriginInv' /\ \A l \in origin' : origin' = {l} /\ l \in Seq(Junctions)
  BY OriginKept DEF UnpaidExecution, Rest
<1>3. PrivilegeNeedsRelay' /\ (dispatched' # {} => sender' # {})
  BY DispatchedKept DEF UnpaidExecution, Rest
<1>4. TypeOK'
  BY <1>1, <1>2, <1>3 DEF Registers, IInv, TypeOK, UnpaidExecution, Rest
<1>5. Conserved'
  BY DEF IInv, Conserved, UnpaidExecution, Rest
<1>6. QED
  BY <1>1, <1>2, <1>3, <1>4, <1>5 DEF IInv

LEMMA WithdrawAssetIInv ==
    ASSUME IInv, WithdrawAsset
    PROVE  IInv'
<1>1. CASE Error
  BY <1>1, ErrorIInv DEF WithdrawAsset, Next1
<1>2. CASE ~Error
  <2>1. PICK a \in Owners :
            /\ Done /\ balances' = [balances EXCEPT ![a] = @ - Amount]
            /\ holding' = holding + Amount
            /\ UNCHANGED <<origin, fee, dispatched, backed, gone>>
    BY <1>2 DEF WithdrawAsset
  <2>2. a \in Accounts /\ balances[a] >= 2
    BY DEF Owners, LocationToAccountId, Accounts, Amount
  <2>3. balances \in [Accounts -> Nat] /\ holding \in Nat
    BY DEF IInv, TypeOK
  <2>4. balances' \in [Accounts -> Nat] /\ balances' = [balances EXCEPT ![a] = @ + (-2)]
    <3>1. balances[a] - 2 \in Nat /\ balances[a] - 2 = balances[a] + (-2)
      BY <2>2, <2>3
    <3>2. balances' = [balances EXCEPT ![a] = balances[a] - 2]
      BY <2>1 DEF Amount
    <3>3. QED
      BY <2>3, <3>1, <3>2
  <2>5. Sum(balances') = Sum(balances) - 2 /\ Sum(balances) \in Nat
    <3>1. -2 \in Int
      OBVIOUS
    <3>2. Sum(balances') = Sum(balances) + (-2)
      BY <2>2, <2>3, <2>4, <3>1, SumAfter
    <3>3. Sum(balances) \in Nat
      BY Quantities DEF IInv
    <3>4. QED
      BY <3>2, <3>3
  <2>6. TodoInv' /\ Registers'
    BY <2>1, TodoKept DEF IInv, WithdrawAsset, Next1, Rest
  <2>7. OriginInv' /\ \A l \in origin' : origin' = {l} /\ l \in Seq(Junctions)
    BY <2>1, OriginKept DEF WithdrawAsset, Rest
  <2>8. PrivilegeNeedsRelay' /\ (dispatched' # {} => sender' # {})
    BY <2>1, DispatchedKept DEF WithdrawAsset, Rest
  <2>9. TypeOK'
    BY <2>1, <2>3, <2>4, <2>6, <2>7, <2>8 DEF Registers, IInv, TypeOK, WithdrawAsset, Rest, Amount
  <2>10. Conserved'
    BY <2>1, <2>5, Quantities DEF IInv, Conserved, WithdrawAsset, Rest, Amount
  <2>11. QED
    BY <2>6, <2>7, <2>8, <2>9, <2>10 DEF IInv
<1>3. QED
  BY <1>1, <1>2

LEMMA ReserveAssetDepositedIInv ==
    ASSUME IInv, ReserveAssetDeposited
    PROVE  IInv'
<1>1. CASE ~IsReserve(origin)
  BY <1>1, ErrorIInv DEF ReserveAssetDeposited, Next1
<1>2. CASE IsReserve(origin)
  \* The origin of a sibling's message is never the relay chain, so that the
  \* message is the relay chain's and the tokens are backed.
  <2>1. sender = {Parent}
    BY <1>2 DEF Registers, IInv, TypeOK, TodoInv, OriginInv, BelowSibling, IsReserve, Parent,
                ReserveAssetDeposited, Next1
  <2>2. backed' = backed + 2 /\ holding' = holding + 2
    BY <1>2, <2>1 DEF ReserveAssetDeposited, Amount
  <2>3. TodoInv' /\ Registers'
    BY <1>2, TodoKept DEF IInv, ReserveAssetDeposited, Next1, Rest
  <2>4. OriginInv' /\ \A l \in origin' : origin' = {l} /\ l \in Seq(Junctions)
    BY <1>2, OriginKept DEF ReserveAssetDeposited, Rest
  <2>5. PrivilegeNeedsRelay' /\ (dispatched' # {} => sender' # {})
    BY <1>2, DispatchedKept DEF ReserveAssetDeposited, Rest
  <2>6. TypeOK'
    BY <1>2, <2>2, <2>3, <2>4, <2>5 DEF Registers, IInv, TypeOK, ReserveAssetDeposited, Rest
  <2>7. Conserved'
    BY <1>2, <2>2, Quantities DEF IInv, Conserved, ReserveAssetDeposited, Rest
  <2>8. QED
    BY <2>3, <2>4, <2>5, <2>6, <2>7 DEF IInv
<1>3. QED
  BY <1>1, <1>2

LEMMA BuyExecutionIInv ==
    ASSUME IInv, BuyExecution
    PROVE  IInv'
<1>1. CASE holding = 0
  BY <1>1, ErrorIInv DEF BuyExecution, Next1
<1>2. CASE holding # 0
  <2>1. TodoInv' /\ Registers'
    BY <1>2, TodoKept DEF IInv, BuyExecution, Next1, Rest
  <2>2. OriginInv' /\ \A l \in origin' : origin' = {l} /\ l \in Seq(Junctions)
    BY <1>2, OriginKept DEF BuyExecution, Rest
  <2>3. PrivilegeNeedsRelay' /\ (dispatched' # {} => sender' # {})
    BY <1>2, DispatchedKept DEF BuyExecution, Rest
  <2>4. TypeOK'
    BY <1>2, <2>1, <2>2, <2>3 DEF Registers, IInv, TypeOK, BuyExecution, Rest
  <2>5. Conserved'
    BY <1>2, Quantities DEF IInv, Conserved, BuyExecution, Rest
  <2>6. QED
    BY <2>1, <2>2, <2>3, <2>4, <2>5 DEF IInv
<1>3. QED
  BY <1>1, <1>2

\* Moving what is held to an account.
LEMMA HeldToAccount ==
    ASSUME IInv, NEW a \in Accounts, todo # <<>>, Head(todo).op # "BuyExecution", Done, Rest,
           holding' = 0, balances' = [balances EXCEPT ![a] = @ + holding],
           UNCHANGED <<origin, fee, dispatched, backed, gone>>
    PROVE  IInv'
<1>1. balances \in [Accounts -> Nat] /\ holding \in Nat /\ holding \in Int
  BY DEF IInv, TypeOK
<1>2. balances' \in [Accounts -> Nat] /\ Sum(balances') = Sum(balances) + holding
  <2>1. Sum(balances') = Sum(balances) + holding
    BY <1>1, SumAfter
  <2>2. QED
    BY <1>1, <2>1
<1>3. TodoInv' /\ Registers'
  BY TodoKept DEF IInv, Rest
<1>4. OriginInv' /\ \A l \in origin' : origin' = {l} /\ l \in Seq(Junctions)
  BY OriginKept DEF Rest
<1>5. PrivilegeNeedsRelay' /\ (dispatched' # {} => sender' # {})
  BY DispatchedKept DEF Rest
<1>6. TypeOK'
  BY <1>2, <1>3, <1>4, <1>5 DEF Registers, IInv, TypeOK, Rest
<1>7. Conserved'
  BY <1>2, Quantities DEF IInv, Conserved, Rest
<1>8. QED
  BY <1>3, <1>4, <1>5, <1>6, <1>7 DEF IInv

LEMMA DepositAssetIInv ==
    ASSUME IInv, DepositAsset
    PROVE  IInv'
<1>1. CASE Undone
  BY <1>1, UndoneIInv DEF DepositAsset, Next1
<1>2. CASE ~Undone
  BY <1>2, HeldToAccount DEF DepositAsset, Next1, Accounts
<1>3. QED
  BY <1>1, <1>2

LEMMA HeadOf ==
    ASSUME IInv, todo # <<>>
    PROVE  Head(todo) \in Instructions /\ Head(todo) = todo[1] /\ 1 \in 1..Len(todo)
BY HeadTailProperties, LenProperties, EmptySeq DEF IInv, TypeOK

LEMMA DepositReserveAssetIInv ==
    ASSUME IInv, DepositReserveAsset
    PROVE  IInv'
<1>1. CASE Undone
  BY <1>1, UndoneIInv DEF DepositReserveAsset, Next1
<1>2. CASE ~Undone
  <2>1. Head(todo).arg \in Accounts
    BY HeadOf, ChainIn DEF DepositReserveAsset, Next1, Chains, Accounts
  <2>2. QED
    BY <1>2, <2>1, HeldToAccount DEF DepositReserveAsset, Next1
<1>3. QED
  BY <1>1, <1>2

LEMMA TransferReserveAssetIInv ==
    ASSUME IInv, TransferReserveAsset
    PROVE  IInv'
<1>1. CASE Undone
  BY <1>1, UndoneIInv DEF TransferReserveAsset, Next1
<1>2. CASE ~Undone
  <2> DEFINE d == Head(todo).arg
  <2>1. PICK a \in Owners :
            /\ Done
            /\ balances' = [[balances EXCEPT ![a] = @ - Amount] EXCEPT ![d] = @ + Amount]
            /\ UNCHANGED <<origin, holding, fee, dispatched, backed, gone>>
    BY <1>2 DEF TransferReserveAsset
  <2>2. /\ d \in Accounts /\ todo # <<>> /\ Head(todo).op # "BuyExecution" /\ Rest
    BY HeadOf, ChainIn DEF TransferReserveAsset, Next1, Chains, Accounts
  <2>3. a \in Accounts /\ balances[a] >= 2
    BY DEF Owners, LocationToAccountId, Accounts, Amount
  <2>4. balances \in [Accounts -> Nat] /\ holding \in Nat
    BY DEF IInv, TypeOK
  <2> HIDE DEF d
  <2> DEFINE taken == [balances EXCEPT ![a] = @ + (-2)]
  <2>5. taken \in [Accounts -> Nat] /\ Sum(taken) = Sum(balances) + (-2)
    <3>1. balances[a] + (-2) \in Nat /\ -2 \in Int
      BY <2>3, <2>4
    <3>2. taken \in [Accounts -> Nat]
      BY <2>4, <3>1
    <3>3. QED
      BY <2>3, <2>4, <3>1, <3>2, SumAfter
  <2>6. balances' = [taken EXCEPT ![d] = @ + 2]
    <3>1. balances[a] - 2 = balances[a] + (-2)
      BY <2>3, <2>4
    <3> DEFINE less == [balances EXCEPT ![a] = balances[a] - 2]
    <3>2. balances' = [less EXCEPT ![d] = less[d] + 2]
      BY <2>1 DEF Amount
    <3>3. less = taken
      BY <3>1
    <3> HIDE DEF taken, less
    <3>4. QED
      BY <3>2, <3>3
  <2> HIDE DEF taken
  <2>7. balances' \in [Accounts -> Nat] /\ Sum(balances') = Sum(balances)
    <3>1. Sum([taken EXCEPT ![d] = @ + 2]) = Sum(taken) + 2
      <4>1. 2 \in Int
        OBVIOUS
      <4>2. QED
        BY <2>2, <2>5, <4>1, SumAfter
    <3>2. Sum(balances) \in Nat
      BY Quantities DEF IInv
    <3>3. balances' \in [Accounts -> Nat]
      BY <2>2, <2>5, <2>6
    <3>4. Sum(balances') = Sum(taken) + 2
      BY <2>6, <3>1
    <3>5. QED
      BY <2>5, <3>2, <3>3, <3>4
  <2>8. TodoInv' /\ Registers'
    BY <2>1, <2>2, TodoKept DEF IInv, Rest
  <2>9. OriginInv' /\ \A l \in origin' : origin' = {l} /\ l \in Seq(Junctions)
    BY <2>1, <2>2, OriginKept DEF Rest
  <2>10. PrivilegeNeedsRelay' /\ (dispatched' # {} => sender' # {})
    BY <2>1, <2>2, DispatchedKept DEF Rest
  <2>11. TypeOK'
    BY <2>1, <2>2, <2>7, <2>8, <2>9, <2>10 DEF Registers, IInv, TypeOK, Rest
  <2>12. Conserved'
    BY <2>1, <2>2, <2>7 DEF IInv, Conserved, Rest
  <2>13. QED
    BY <2>8, <2>9, <2>10, <2>11, <2>12 DEF IInv
<1>3. QED
  BY <1>1, <1>2

LEMMA InitiateReserveWithdrawIInv ==
    ASSUME IInv, InitiateReserveWithdraw
    PROVE  IInv'
<1>1. CASE Undone
  BY <1>1, UndoneIInv DEF InitiateReserveWithdraw, Next1
<1>2. CASE ~Undone
  <2> DEFINE r == Head(todo).arg
  <2>1. r \in Chains
    BY HeadOf, ChainIn DEF InitiateReserveWithdraw, Next1
  <2>2. /\ Done /\ holding' = 0 /\ gone' = [gone EXCEPT ![r] = @ + holding]
        /\ UNCHANGED <<balances, origin, fee, dispatched, backed>>
        /\ todo # <<>> /\ Head(todo).op # "BuyExecution" /\ Rest
    BY <1>2 DEF InitiateReserveWithdraw, Next1
  <2> HIDE DEF r
  <2>3. gone \in [Chains -> Nat] /\ holding \in Nat
    BY DEF IInv, TypeOK
  <2>4. /\ gone' \in [Chains -> Nat]
        /\ gone'["relay"] + gone'["sibling"] = gone["relay"] + gone["sibling"] + holding
    BY <2>1, <2>2, <2>3 DEF Chains
  <2>5. TodoInv' /\ Registers'
    BY <2>2, TodoKept DEF IInv, Rest
  <2>6. OriginInv' /\ \A l \in origin' : origin' = {l} /\ l \in Seq(Junctions)
    BY <2>2, OriginKept DEF Rest
  <2>7. PrivilegeNeedsRelay' /\ (dispatched' # {} => sender' # {})
    BY <2>2, DispatchedKept DEF Rest
  <2>8. TypeOK'
    BY <2>2, <2>4, <2>5, <2>6, <2>7 DEF Registers, IInv, TypeOK, Rest
  <2>9. Conserved'
    <3>1. gone'["relay"] \in Nat /\ gone'["sibling"] \in Nat
      BY <2>4 DEF Chains
    <3>2. /\ holding' = 0 /\ balances' = balances /\ fee' = fee /\ trapped' = trapped
          /\ backed' = backed /\ teleported' = teleported
      BY <2>2 DEF Rest
    <3>3. gone'["relay"] + gone'["sibling"] = gone["relay"] + gone["sibling"] + holding
      BY <2>4
    <3>4. Conserved
      BY DEF IInv
    <3>5. TypeOK
      BY DEF IInv
    <3>6. QED
      BY <3>1, <3>2, <3>3, <3>4, <3>5, Quantities DEF Conserved
  <2>10. QED
    BY <2>5, <2>6, <2>7, <2>8, <2>9 DEF IInv
<1>3. QED
  BY <1>1, <1>2

\* Instructions and steps that change no register but those of the programs.
LEMMA ProgramsIInv ==
    ASSUME IInv, Rest, TodoInv', Registers',
           UNCHANGED <<balances, origin, holding, fee, dispatched, backed, gone>>
    PROVE  IInv'
<1>1. OriginInv' /\ \A l \in origin' : origin' = {l} /\ l \in Seq(Junctions)
  BY OriginKept DEF Rest
<1>2. PrivilegeNeedsRelay' /\ (dispatched' # {} => sender' # {})
  BY DispatchedKept DEF Rest
<1>3. TypeOK'
  BY <1>1, <1>2 DEF Registers, IInv, TypeOK, Rest
<1>4. Conserved'
  BY DEF IInv, Conserved, Rest
<1>5. QED
  BY <1>1, <1>2, <1>3, <1>4 DEF IInv

LEMMA NestingIInv ==
    ASSUME IInv, SetErrorHandler \/ SetAppendix
    PROVE  IInv'
<1>1. TodoInv' /\ Registers'
  BY TodoNested DEF IInv, SetErrorHandler, SetAppendix, Next1, Rest
<1>2. QED
  BY <1>1, ProgramsIInv DEF SetErrorHandler, SetAppendix

LEMMA RunAppendixIInv ==
    ASSUME IInv, RunAppendix
    PROVE  IInv'
<1>1. /\ todo' \in Nested \cup {<<>>} /\ program' = "nested" /\ handler' = <<>>
      /\ appendix' = <<>> /\ sender' = sender /\ sender # {} /\ fee' = fee
      /\ appendix # <<>>
  BY DEF IInv, TypeOK, RunAppendix, Rest
<1>2. Registers'
  BY <1>1, ProgramType DEF Registers
<1>3. TodoInv'
  BY <1>1 DEF IInv, TodoInv, LeavesReserve
<1>4. QED
  BY <1>2, <1>3, ProgramsIInv DEF RunAppendix

\* As what the origin of a sibling's message calls a pallet: as nobody the relay
\* chain speaks for.
LEMMA SiblingCalls ==
    ASSUME NEW l, BelowSibling(l), NEW kind, NEW o \in XcmOriginToTransactDispatchOrigin(l, kind)
    PROVE  ~CollatorSelectionUpdateOrigin(o) /\ ~ActsAsRelay(o)
<1>1. l # Parent /\ l # <<"Defense">>
  BY DEF BelowSibling, Parent
<1>2. LocationToAccountId(l) \subseteq {"sibling"}
  BY <1>1 DEF LocationToAccountId
<1>3. \/ o.as = "Signed" /\ o.at = "sibling"
      \/ o.as = "SiblingPara"
      \/ o.as = "Xcm" /\ o.at = l
  BY <1>1, <1>2 DEF XcmOriginToTransactDispatchOrigin
<1>4. QED
  BY <1>1, <1>3 DEF CollatorSelectionUpdateOrigin, ActsAsRelay

LEMMA TransactIInv ==
    ASSUME IInv, Transact
    PROVE  IInv'
<1> DEFINE as == UNION {XcmOriginToTransactDispatchOrigin(l, Head(todo).arg) : l \in origin}
<1>1. CASE as = {}
  BY <1>1, ErrorIInv DEF Transact, Next1
<1>2. CASE as # {}
  <2>1. /\ todo # <<>> /\ Head(todo).op = "Transact" /\ Done /\ Rest
        /\ dispatched' = dispatched \cup as
        /\ UNCHANGED <<balances, origin, holding, fee, backed, gone>>
    BY <1>2 DEF Transact, Next1
  <2>2. sender \in {{Parent}, {Sibling}} /\ sender' = sender
    BY <2>1 DEF Registers, IInv, TypeOK, TodoInv, Rest
  <2>3. ASSUME sender = {Sibling}, NEW o \in as
        PROVE  ~CollatorSelectionUpdateOrigin(o) /\ ~ActsAsRelay(o)
    <3>1. PICK l \in origin : o \in XcmOriginToTransactDispatchOrigin(l, Head(todo).arg)
      OBVIOUS
    <3>2. BelowSibling(l)
      BY <2>3 DEF IInv, OriginInv
    <3>3. QED
      BY <3>1, <3>2, SiblingCalls
  <2> HIDE DEF as
  <2>4. PrivilegeNeedsRelay'
    BY <2>1, <2>2, <2>3 DEF IInv, PrivilegeNeedsRelay, ActsAsRelay, CollatorSelectionUpdateOrigin
  <2>5. TodoInv' /\ Registers'
    BY <2>1, <2>2, TodoKept DEF IInv
  <2>6. OriginInv' /\ \A l \in origin' : origin' = {l} /\ l \in Seq(Junctions)
    BY <2>1, <2>2, OriginKept
  <2>7. TypeOK'
    BY <2>1, <2>2, <2>5, <2>6 DEF Registers, IInv, TypeOK, Rest
  <2>8. Conserved'
    BY <2>1 DEF IInv, Conserved, Rest
  <2>9. QED
    BY <2>4, <2>5, <2>6, <2>7, <2>8 DEF IInv
<1>3. QED
  BY <1>1, <1>2

LEMMA FinishIInv ==
    ASSUME IInv, Finish
    PROVE  IInv'
<1>1. todo' = <<>> /\ todo' \in Seq(Instructions) /\ Len(todo') = 0
  BY DEF Finish, Idle
<1>2. balances \in [Accounts -> Nat] /\ fee \in Nat /\ "author" \in Accounts
  BY DEF Registers, IInv, TypeOK, Accounts
<1>3. balances' \in [Accounts -> Nat] /\ Sum(balances') = Sum(balances) + fee
  <2>1. balances' = [balances EXCEPT !["author"] = @ + fee] /\ fee \in Int
    BY <1>2 DEF Finish
  <2>2. Sum(balances') = Sum(balances) + fee
    BY <1>2, <2>1, SumAfter
  <2>3. QED
    BY <1>2, <2>1, <2>2
<1>4. TypeOK'
  BY <1>1, <1>3, BoundAssumption, Quantities DEF Registers, IInv, TypeOK, Finish, Idle, abroad
<1>5. TodoInv' /\ OriginInv' /\ PrivilegeNeedsRelay'
  BY <1>1 DEF TodoInv, OriginInv, PrivilegeNeedsRelay, LeavesReserve, PaysFirst, Finish, Idle
<1>6. Conserved'
  BY <1>3, Quantities DEF IInv, Conserved, Finish, Idle, abroad
<1>7. QED
  BY <1>4, <1>5, <1>6 DEF IInv

\* Local calls run between messages.
LEMMA VmKept ==
    ASSUME IInv, UNCHANGED vm
    PROVE  TodoInv' /\ OriginInv' /\ PrivilegeNeedsRelay'
BY DEF vm, IInv, TodoInv, OriginInv, PrivilegeNeedsRelay, LeavesReserve, PaysFirst,
       BelowSibling, ActsAsRelay, CollatorSelectionUpdateOrigin

LEMMA SendXcmIInv ==
    ASSUME IInv, NEW o, NEW to \in {Parent, Sibling}, SendXcm(o, to)
    PROVE  IInv'
<1>1. outbox' \subseteq {<<"AccountId32">>} \X {Parent, Sibling}
  BY DEF Registers, IInv, TypeOK, SendXcm, LocalOriginToLocation
<1>2. TypeOK'
  BY <1>1 DEF Registers, IInv, TypeOK, SendXcm, vm
<1>3. Conserved'
  BY DEF IInv, Conserved, SendXcm, vm
<1>4. QED
  BY <1>2, <1>3, VmKept DEF SendXcm, IInv

LEMMA TeleportAssetsIInv ==
    ASSUME IInv, TeleportAssets
    PROVE  IInv'
<1>1. balances \in [Accounts -> Nat] /\ "alice" \in Accounts /\ balances["alice"] - 1 \in Nat
  BY DEF Registers, IInv, TypeOK, Accounts, TeleportAssets
<1>2. balances' \in [Accounts -> Nat] /\ Sum(balances') = Sum(balances) - 1
  <2>1. balances' = [balances EXCEPT !["alice"] = @ + (-1)] /\ -1 \in Int
    <3>1. balances["alice"] - 1 = balances["alice"] + (-1) /\ -1 \in Int
      BY <1>1
    <3>2. balances' = [balances EXCEPT !["alice"] = balances["alice"] - 1]
      BY DEF TeleportAssets
    <3>3. QED
      BY <3>1, <3>2
  <2>2. balances \in [Accounts -> Nat] /\ "alice" \in Accounts
    BY <1>1
  <2> DEFINE d == -1
  <2>3. Sum(balances') = Sum(balances) + d
    <3>1. d \in Int /\ balances' = [balances EXCEPT !["alice"] = @ + d]
      BY <2>1
    <3> HIDE DEF d
    <3>2. QED
      BY <2>2, <3>1, SumAfter
  <2>4. QED
    BY <1>1, <2>1, <2>3, Quantities DEF TeleportAssets, IInv
<1>3. TypeOK'
  BY <1>2 DEF Registers, IInv, TypeOK, TeleportAssets, vm
<1>4. Conserved'
  <2>1. /\ holding' = holding /\ fee' = fee /\ trapped' = trapped /\ backed' = backed
        /\ gone' = gone /\ teleported' = teleported + 1
    BY DEF TeleportAssets, vm
  <2>2. Sum(balances') = Sum(balances) - 1
    BY <1>2
  <2>3. Conserved /\ TypeOK
    BY DEF IInv
  <2>4. QED
    BY <2>1, <2>2, <2>3, Quantities DEF Conserved
<1>5. QED
  BY <1>3, <1>4, VmKept DEF TeleportAssets, IInv

LEMMA NextIInv == IInv /\ [Next]_vars => IInv'
<1> SUFFICES ASSUME IInv, [Next]_vars PROVE IInv'
  OBVIOUS
<1>1. CASE UNCHANGED vars
  <2>1. TypeOK'
    BY <1>1 DEF vars, vm, abroad, IInv, TypeOK
  <2>2. Conserved'
    <3>1. /\ balances' = balances /\ holding' = holding /\ fee' = fee /\ trapped' = trapped
          /\ backed' = backed /\ gone' = gone /\ teleported' = teleported
      BY <1>1 DEF vars, vm, abroad
    <3>2. QED
      BY <3>1 DEF IInv, Conserved
  <2>3. QED
    BY <1>1, <2>1, <2>2, VmKept DEF vars, IInv
<1>2. CASE ProcessMessage
  BY <1>2, ProcessMessageIInv
<1>3. CASE ClearOrigin \/ DescendOrigin \/ Refused \/ UnpaidExecution
  BY <1>3, ClearOriginIInv, DescendOriginIInv, RefusedIInv, UnpaidExecutionIInv
<1>4. CASE WithdrawAsset \/ ReserveAssetDeposited \/ BuyExecution \/ DepositAsset
  BY <1>4, WithdrawAssetIInv, ReserveAssetDepositedIInv, BuyExecutionIInv, DepositAssetIInv
<1>5. CASE \/ InitiateReserveWithdraw \/ DepositReserveAsset \/ TransferReserveAsset
           \/ Transact \/ SetErrorHandler \/ SetAppendix \/ RunAppendix \/ Finish
  BY <1>5, InitiateReserveWithdrawIInv, DepositReserveAssetIInv, TransferReserveAssetIInv,
     TransactIInv, NestingIInv, RunAppendixIInv, FinishIInv
<1>6. CASE \E o \in {"Signed", "Root"}, to \in {Parent, Sibling} : SendXcm(o, to)
  BY <1>6, SendXcmIInv
<1>7. CASE TeleportAssets
  BY <1>7, TeleportAssetsIInv
<1>8. QED
  BY <1>1, <1>2, <1>3, <1>4, <1>5, <1>6, <1>7 DEF Next

-----------------------------------------------------------------------------
(* The theorems.                                                            *)

\* The inductive invariant holds in every reachable state.
THEOREM Invariance == Spec => []IInv
BY InitIInv, NextIInv, PTL DEF Spec

\* The executor's registers and the books have their types throughout, for
\* messages of any length (xcm_config.rs:113).
THEOREM TypeCorrect == Spec => []TypeOK
<1>1. IInv => TypeOK
  BY DEF IInv
<1>2. QED
  BY <1>1, Invariance, PTL

\* No instruction, wherever a message fails, makes or loses a token: what came
\* in is backed by the relay chain (xcm_config.rs:117-129).
THEOREM NothingIsLost == Spec => []Conserved
<1>1. IInv => Conserved
  BY DEF IInv
<1>2. QED
  BY <1>1, Invariance, PTL

\* Whatever instructions a sibling sends, it does not reach the collator
\* selection and does not act as the relay chain (xcm_config.rs:63, mod.rs:285).
THEOREM SiblingsHaveNoPrivilege == Spec => []PrivilegeNeedsRelay
<1>1. IInv => PrivilegeNeedsRelay
  BY DEF IInv
<1>2. QED
  BY <1>1, Invariance, PTL

\* What the deny rule forbids a message: the rule saw every instruction that is
\* left of it, but no program nested in one.
LEMMA TopLevelStep ==
    ASSUME IInv, [Next]_vars, program # "nested"
    PROVE  gone'["relay"] = gone["relay"] /\ ~(balances'["relay"] > balances["relay"])
<1>1. /\ balances \in [Accounts -> Nat] /\ {"relay", "sibling", "alice", "author"} = Accounts
      /\ gone \in [Chains -> Nat] /\ holding \in Nat /\ fee \in Nat
  BY DEF IInv, TypeOK, Accounts
<1>2. ASSUME todo # <<>>,
             Head(todo).op \in {"InitiateReserveWithdraw", "DepositReserveAsset",
                                "TransferReserveAsset"}
      PROVE  Head(todo).arg = "sibling"
  <2>1. Head(todo).arg \in Chains /\ Head(todo) = todo[1] /\ 1 \in 1..Len(todo)
    BY <1>2, HeadOf, ChainIn
  <2>2. LeavesReserve(todo)
    BY DEF IInv, TypeOK, TodoInv
  <2>3. QED
    BY <1>2, <2>1, <2>2 DEF LeavesReserve, ForRelay, Chains
<1>3. CASE UNCHANGED <<balances, gone>>
  BY <1>1, <1>3
<1>4. CASE WithdrawAsset
  <2>1. CASE Error
    BY <1>3, <2>1 DEF Error, Ended
  <2>2. CASE \E a \in Accounts : balances' = [balances EXCEPT ![a] = @ - Amount] /\ UNCHANGED gone
    BY <1>1, <2>2 DEF Amount
  <2>3. QED
    BY <1>4, <2>1, <2>2 DEF WithdrawAsset, Owners, LocationToAccountId, Accounts
<1>5. CASE DepositAsset
  BY <1>1, <1>3, <1>5 DEF DepositAsset, Undone, Ended
<1>6. CASE InitiateReserveWithdraw
  <2>1. CASE Undone
    BY <1>3, <2>1 DEF Undone, Ended
  <2>2. CASE ~Undone
    <3>1. balances' = balances /\ gone' = [gone EXCEPT !["sibling"] = @ + holding]
      BY <1>2, <1>6, <2>2 DEF InitiateReserveWithdraw, Next1
    <3>2. QED
      BY <1>1, <3>1 DEF Chains
  <2>3. QED
    BY <2>1, <2>2
<1>7. CASE DepositReserveAsset
  <2>1. CASE Undone
    BY <1>3, <2>1 DEF Undone, Ended
  <2>2. CASE ~Undone
    <3>1. gone' = gone /\ balances' = [balances EXCEPT !["sibling"] = @ + holding]
      BY <1>2, <1>7, <2>2 DEF DepositReserveAsset, Next1
    <3>2. QED
      BY <1>1, <3>1
  <2>3. QED
    BY <2>1, <2>2
<1>8. CASE TransferReserveAsset
  <2>1. CASE Undone
    BY <1>3, <2>1 DEF Undone, Ended
  <2>2. CASE ~Undone
    <3>1. PICK a \in Accounts :
              /\ gone' = gone
              /\ balances' = [[balances EXCEPT ![a] = @ - Amount] EXCEPT !["sibling"] = @ + Amount]
      BY <1>2, <1>8, <2>2
         DEF TransferReserveAsset, Next1, Owners, LocationToAccountId, Accounts
    <3>2. balances'["relay"] = IF a = "relay" THEN balances["relay"] - 2 ELSE balances["relay"]
      BY <1>1, <3>1 DEF Amount
    <3>3. QED
      BY <1>1, <3>1, <3>2
  <2>3. QED
    BY <2>1, <2>2
<1>9. CASE Finish
  <2>1. balances' = [balances EXCEPT !["author"] = @ + fee] /\ gone' = gone
    BY <1>9 DEF Finish, abroad
  <2>2. QED
    BY <1>1, <2>1
<1>10. CASE TeleportAssets
  BY <1>1, <1>10 DEF TeleportAssets
<1>11. CASE \/ ProcessMessage \/ ClearOrigin \/ DescendOrigin \/ Refused \/ UnpaidExecution
            \/ ReserveAssetDeposited \/ BuyExecution \/ Transact
            \/ SetErrorHandler \/ SetAppendix \/ RunAppendix \/ UNCHANGED vars
  BY <1>3, <1>11
     DEF ProcessMessage, ClearOrigin, DescendOrigin, Refused, UnpaidExecution,
         ReserveAssetDeposited, BuyExecution, Transact, SetErrorHandler, SetAppendix,
         RunAppendix, Error, Ended, vars, abroad
<1>12. CASE \E o \in {"Signed", "Root"}, to \in {Parent, Sibling} : SendXcm(o, to)
  BY <1>3, <1>12 DEF SendXcm
<1>13. QED
  BY <1>4, <1>5, <1>6, <1>7, <1>8, <1>9, <1>10, <1>11, <1>12 DEF Next

\* No message, of any length, itself withdraws from the relay chain's reserve or
\* moves assets to the relay chain's account, wherever the instruction stands in
\* it (xcm_config.rs:96-97).  What is nested in its instructions can.
THEOREM TopLevelIsDenied == Spec => DenyHoldsAtTopLevel
<1> DEFINE Forbidden == \/ gone'["relay"] # gone["relay"]
                        \/ balances'["relay"] > balances["relay"]
<1>1. IInv /\ [Next]_vars => [Forbidden => program = "nested"]_vars
  BY TopLevelStep
<1>2. QED
  BY <1>1, Invariance, PTL DEF Spec, DenyHoldsAtTopLevel

\* Until a sibling's message has paid, its steps have no effect but on its own
\* registers: what the barrier saw at the start still holds (xcm_config.rs:104).
LEMMA UnpaidStep ==
    ASSUME IInv, [Next]_vars, sender = {Sibling}, fee = 0
    PROVE  /\ dispatched' \in {{}, dispatched} /\ gone' = gone
           /\ \A a \in Accounts : ~(balances'[a] > balances[a])
<1>1. balances \in [Accounts -> Nat] /\ "author" \in Accounts
  BY DEF IInv, TypeOK, Accounts
<1>2. ASSUME todo # <<>>, Head(todo).op # "BuyExecution" PROVE Head(todo).op \in Unpaid
  BY <1>2, TailOf DEF IInv, TypeOK, TodoInv
<1>3. CASE UNCHANGED <<balances, dispatched, gone>>
  BY <1>1, <1>3
<1>4. CASE UNCHANGED vars
  BY <1>3, <1>4 DEF vars, vm, abroad
<1>5. CASE \/ ProcessMessage \/ ClearOrigin \/ DescendOrigin \/ Refused
           \/ ReserveAssetDeposited \/ BuyExecution \/ RunAppendix
  BY <1>3, <1>5 DEF ProcessMessage, ClearOrigin, DescendOrigin, Refused,
                    ReserveAssetDeposited, BuyExecution, RunAppendix, Error, Ended
<1>6. CASE WithdrawAsset
  <2>1. CASE Error
    BY <1>3, <2>1 DEF Error, Ended
  <2>2. CASE \E a \in Accounts : balances' = [balances EXCEPT ![a] = @ - Amount] /\ UNCHANGED <<dispatched, gone>>
    BY <1>1, <2>2 DEF Amount
  <2>3. QED
    BY <1>6, <2>1, <2>2 DEF WithdrawAsset, Owners, LocationToAccountId, Accounts
<1>7. CASE \/ UnpaidExecution \/ DepositAsset \/ InitiateReserveWithdraw
           \/ DepositReserveAsset \/ TransferReserveAsset \/ Transact
           \/ SetErrorHandler \/ SetAppendix
  BY <1>2, <1>7
     DEF UnpaidExecution, DepositAsset, InitiateReserveWithdraw, DepositReserveAsset,
         TransferReserveAsset, Transact, SetErrorHandler, SetAppendix, Next1, Unpaid
<1>8. CASE Finish
  <2>1. balances' = [balances EXCEPT !["author"] = @ + fee]
    BY <1>8 DEF Finish
  <2>2. QED
    BY <1>1, <1>8, <2>1 DEF Finish, Idle, abroad
<1>9. CASE \/ \E o \in {"Signed", "Root"}, to \in {Parent, Sibling} : SendXcm(o, to)
           \/ TeleportAssets
  BY <1>9 DEF SendXcm, TeleportAssets
<1>10. QED
  BY <1>4, <1>5, <1>6, <1>7, <1>8, <1>9 DEF Next

\* A sibling's message has no effect on pallets, accounts or reserves before it
\* has paid for its execution.
THEOREM PaymentComesFirst == Spec => NothingForFree
<1> DEFINE Effect == /\ sender = {Sibling}
                     /\ \/ dispatched' \notin {{}, dispatched}
                        \/ gone' # gone
                        \/ \E a \in Accounts : balances'[a] > balances[a]
<1>1. IInv /\ [Next]_vars => [Effect => fee > 0]_vars
  BY UnpaidStep DEF IInv, TypeOK
<1>2. QED
  BY <1>1, Invariance, PTL DEF Spec, NothingForFree

\* Below a sibling there is one account: its own.
LEMMA SiblingAccount ==
    ASSUME NEW l, BelowSibling(l)
    PROVE  LocationToAccountId(l) \subseteq {"sibling"}
BY DEF BelowSibling, LocationToAccountId, Parent, Sibling

LEMMA SiblingStep ==
    ASSUME IInv, [Next]_vars, sender = {Sibling}, NEW b \in Accounts, b # "sibling"
    PROVE  balances'[b] >= balances[b]
<1>1. balances \in [Accounts -> Nat] /\ {"alice", "author", "relay", "sibling"} = Accounts
  BY DEF IInv, TypeOK, Accounts
<1>2. holding \in Nat /\ fee \in Nat
  BY DEF IInv, TypeOK
<1>3. CASE balances' = balances
  BY <1>1, <1>3
<1>4. Owners \subseteq {"sibling"}
  BY SiblingAccount DEF Owners, IInv, OriginInv
<1>5. CASE WithdrawAsset
  <2>1. CASE Error
    BY <1>3, <2>1 DEF Error, Ended
  <2>2. CASE balances' = [balances EXCEPT !["sibling"] = @ - Amount]
    BY <1>1, <2>2
  <2>3. QED
    BY <1>4, <1>5, <2>1, <2>2 DEF WithdrawAsset
<1>6. CASE DepositAsset \/ DepositReserveAsset
  <2>1. CASE Undone
    BY <1>3, <2>1 DEF Undone, Ended
  <2>2. CASE \E a : balances' = [balances EXCEPT ![a] = @ + holding]
    BY <1>1, <1>2, <2>2
  <2>3. QED
    BY <1>6, <2>1, <2>2 DEF DepositAsset, DepositReserveAsset
<1>7. CASE TransferReserveAsset
  <2>1. CASE Undone
    BY <1>3, <2>1 DEF Undone, Ended
  <2>2. CASE \E a : balances' = [[balances EXCEPT !["sibling"] = @ - Amount] EXCEPT ![a] = @ + Amount]
    <3>1. PICK a : balances' = [[balances EXCEPT !["sibling"] = @ - Amount] EXCEPT ![a] = @ + Amount]
      BY <2>2
    <3>2. balances'[b] = IF b = a THEN balances[b] + 2 ELSE balances[b]
      BY <1>1, <3>1 DEF Amount
    <3>3. QED
      BY <1>1, <3>2
  <2>3. QED
    BY <1>4, <1>7, <2>1, <2>2 DEF TransferReserveAsset
<1>8. CASE Finish
  <2>1. balances' = [balances EXCEPT !["author"] = @ + fee]
    BY <1>8 DEF Finish
  <2>2. QED
    BY <1>1, <1>2, <2>1
<1>9. CASE \/ ProcessMessage \/ ClearOrigin \/ DescendOrigin \/ Refused \/ UnpaidExecution
           \/ ReserveAssetDeposited \/ BuyExecution \/ InitiateReserveWithdraw \/ Transact
           \/ SetErrorHandler \/ SetAppendix \/ RunAppendix \/ UNCHANGED vars
  BY <1>3, <1>9
     DEF ProcessMessage, ClearOrigin, DescendOrigin, Refused, UnpaidExecution,
         ReserveAssetDeposited, BuyExecution, InitiateReserveWithdraw, Transact,
         SetErrorHandler, SetAppendix, RunAppendix, Undone, Error, Ended, vars
<1>10. CASE \/ \E o \in {"Signed", "Root"}, to \in {Parent, Sibling} : SendXcm(o, to)
            \/ TeleportAssets
  BY <1>10 DEF SendXcm, TeleportAssets
<1>11. QED
  BY <1>5, <1>6, <1>7, <1>8, <1>9, <1>10 DEF Next

\* A sibling's message takes from its own sovereign account and from no other,
\* through every prefix and for any length (xcm_config.rs:37).
THEOREM SiblingsPayThemselves == Spec => SiblingsTakeTheirOwn
<1> DEFINE TakesItsOwn ==
        sender = {Sibling} => \A a \in Accounts \ {"sibling"} : balances'[a] >= balances[a]
<1>1. IInv /\ [Next]_vars => [TakesItsOwn]_vars
  BY SiblingStep
<1>2. QED
  BY <1>1, Invariance, PTL DEF Spec, SiblingsTakeTheirOwn
=============================================================================
