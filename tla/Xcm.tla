-------------------------------- MODULE Xcm ---------------------------------
(***************************************************************************)
(* Messages between chains under the configuration of xcm_config.rs: which *)
(* of the queued messages may run (Barrier), what each instruction does    *)
(* then (XcmConfig), with which origin it calls the pallets                *)
(* (XcmOriginToTransactDispatchOrigin), and what local accounts may send   *)
(* (pallet_xcm).                                                           *)
(*                                                                         *)
(* The only asset is the token of the relay chain, and the weight of every *)
(* message costs one.  A location is a path below the parent; an origin is *)
(* a set of one location, or empty once it has been cleared.  Instructions *)
(* that only report, query or lock are left out.                           *)
(*                                                                         *)
(* An uncommented definition just above an operator is that operator with  *)
(* a plausible mistake in it; no specification uses it.                    *)
(***************************************************************************)
EXTENDS Naturals, Sequences

CONSTANTS
    MaxInstructions,  \* of a message, and of a program that is nested in it
    Nested,           \* the programs that SetAppendix and SetErrorHandler carry
    MaxMessages       \* bound of this model: messages that are executed

ASSUME BoundAssumption == MaxInstructions \in Nat /\ MaxMessages \in Nat

Accounts == {"relay", "sibling", "author", "alice"}
Parent == <<>>
Sibling == <<"Parachain">>
Bodies == {"Executive", "Defense"}
Junctions == {"Parachain"} \cup Bodies

VARIABLES
    balances,    \* of the accounts
    sender,      \* who sent the message that is being executed, as an origin
    origin,      \* the origin register
    todo,        \* the instructions to come
    program,     \* whether they are the message itself or one nested in it
    handler,     \* the error handler register
    appendix,    \* the appendix register
    holding,     \* the holding register
    fee,         \* what the trader has taken
    dispatched,  \* the origins with which the message has called a pallet
    trapped,     \* left over by messages
    backed,      \* tokens that the relay chain holds in reserve for this chain
    gone,        \* tokens withdrawn from a reserve, by the reserve
    teleported,  \* tokens that accounts have teleported away
    outbox,      \* what accounts have sent: from where, to whom
    processed    \* how many messages have been executed

vm == <<sender, origin, todo, program, handler, appendix, holding, fee, dispatched>>
abroad == <<backed, gone, teleported, outbox, processed>>
vars == <<balances, vm, trapped, abroad>>

Chains == {"relay", "sibling"}
NoProgram == <<>>
Instructions ==
    [op : {"ClearOrigin", "UniversalOrigin", "UnpaidExecution", "WithdrawAsset",
           "ReserveAssetDeposited", "ReceiveTeleportedAsset", "BuyExecution",
           "DepositAsset"}, arg : {""}, xcm : {NoProgram}]
    \cup [op : {"DescendOrigin"}, arg : Bodies, xcm : {NoProgram}]
    \cup [op : {"InitiateReserveWithdraw", "DepositReserveAsset",
                "TransferReserveAsset"}, arg : Chains, xcm : {NoProgram}]
    \cup [op : {"Transact"}, arg : {"SovereignAccount", "Native", "Xcm", "Superuser"},
          xcm : {NoProgram}]
    \cup [op : {"SetAppendix", "SetErrorHandler"}, arg : {""}, xcm : Nested]

\* Nested programs may have others nested in them, to any depth.
ASSUME NestedAssumption ==
    \A xcm \in Nested : xcm \in Seq(Instructions) /\ Len(xcm) <= MaxInstructions

Messages == UNION {[1..n -> Instructions] : n \in 1..MaxInstructions}

TypeOK ==
    /\ balances \in [Accounts -> Nat]
    /\ sender \in {{}, {Parent}, {Sibling}}
    /\ \A l \in origin : origin = {l} /\ l \in Seq(Junctions)
    /\ todo \in Seq(Instructions) /\ Len(todo) <= MaxInstructions
    /\ program \in {"top", "nested"}
    /\ handler \in Nested \cup {<<>>} /\ appendix \in Nested \cup {<<>>}
    /\ holding \in Nat /\ fee \in Nat /\ trapped \in Nat
    /\ dispatched # {} => sender # {}
    /\ backed \in Nat /\ gone \in [Chains -> Nat]
    /\ teleported \in Nat /\ outbox \subseteq {<<"AccountId32">>} \X {Parent, Sibling}
    /\ processed \in 0..MaxMessages

Genesis == [a \in Accounts |-> IF a \in {"sibling", "alice"} THEN 2 ELSE 0]

Sum(b) == b["relay"] + b["sibling"] + b["author"] + b["alice"]

Idle ==
    /\ sender' = {} /\ origin' = {} /\ todo' = <<>> /\ holding' = 0 /\ fee' = 0
    /\ program' = "top" /\ handler' = <<>> /\ appendix' = <<>> /\ dispatched' = {}

Init ==
    /\ balances = Genesis
    /\ sender = {} /\ origin = {} /\ todo = <<>> /\ holding = 0 /\ fee = 0
    /\ program = "top" /\ handler = <<>> /\ appendix = <<>>
    /\ dispatched = {} /\ trapped = 0 /\ backed = 0 /\ teleported = 0
    /\ gone = [r \in Chains |-> 0] /\ outbox = {} /\ processed = 0

-----------------------------------------------------------------------------
(* Locations and origins.                                                   *)

LocationToAccountId(l) ==
    CASE l = Parent -> {"relay"} [] l = Sibling -> {"sibling"} [] OTHER -> {}

\* As what an origin at l calls a pallet with Transact: nobody is root.
XcmOriginToTransactDispatchOrigin(l, kind) ==
    CASE kind = "SovereignAccount" ->
            {[as |-> "Signed", at |-> a] : a \in LocationToAccountId(l)}
      [] kind = "Native" /\ l = Parent  -> {[as |-> "Relay", at |-> "relay"]}
      [] kind = "Native" /\ l = Sibling -> {[as |-> "SiblingPara", at |-> "sibling"]}
      [] kind = "Xcm" -> {[as |-> "Xcm", at |-> l]}
      [] OTHER -> {}

\* The voice of the relay chain's body Defense, or root.
VoiceOfAnyDefense(o) ==
    \/ o.as = "Root"
    \/ o.as = "Xcm" /\ o.at # <<>> /\ o.at[Len(o.at)] = "Defense"
CollatorSelectionUpdateOrigin(o) ==
    \/ o.as = "Root"
    \/ o.as = "Xcm" /\ o.at = <<"Defense">>

ParentOrParentsExecutivePlurality == {Parent, <<"Executive">>}

-----------------------------------------------------------------------------
(* The barrier.                                                             *)

\* DenyReserveTransferToRelayChain.  It looks at the instructions of the message,
\* not at the programs that are nested in them.
ForRelay(i) ==
    /\ i.op \in {"InitiateReserveWithdraw", "DepositReserveAsset",
                 "TransferReserveAsset"}
    /\ i.arg = "relay"
Denied(msg) == \E i \in DOMAIN msg : ForRelay(msg[i])

\* AllowTopLevelPaidExecutionFrom<Everything>: assets, then fees at once.
PaysLater(msg) ==
    /\ msg # <<>>
    /\ msg[1].op \in {"WithdrawAsset", "ReserveAssetDeposited", "ReceiveTeleportedAsset"}
Pays(msg) ==
    \E n \in 2..Len(msg) :
        /\ n <= 5 /\ msg[n].op = "BuyExecution"
        /\ msg[1].op \in {"WithdrawAsset", "ReserveAssetDeposited",
                          "ReceiveTeleportedAsset"}
        /\ \A i \in 2..n - 1 : msg[i].op = "ClearOrigin"

\* AllowExplicitUnpaidExecutionFrom<ParentOrParentsExecutivePlurality>.
MayRunFree(l, msg) ==
    /\ l \in ParentOrParentsExecutivePlurality
    /\ msg # <<>> /\ msg[1].op = "UnpaidExecution"

\* WithComputedOrigin: the prefix that changes the origin, eight at most.
IsPrefix(msg, n) ==
    n <= 8 /\ \A i \in 1..n : msg[i].op \in {"DescendOrigin", "UniversalOrigin"}
PrefixLength(msg) ==
    CHOOSE n \in 0..Len(msg) :
        IsPrefix(msg, n) /\ (n = Len(msg) \/ ~IsPrefix(msg, n + 1))

\* Of an origin in another consensus system only that plays a role here.
ComputedOrigin(from, prefix) ==
    IF \E i \in DOMAIN prefix : prefix[i].op = "UniversalOrigin"
    THEN <<"GlobalConsensus">>
    ELSE from \o [i \in DOMAIN prefix |-> prefix[i].arg]

Allowed(from, msg) ==
    LET n == PrefixLength(msg)
        rest == SubSeq(msg, n + 1, Len(msg))
    IN  \/ Pays(rest)
        \/ MayRunFree(ComputedOrigin(from, SubSeq(msg, 1, n)), rest)

\* TakeWeightCredit never applies here: the queue gives no weight credit.
BarrierAllowFirst(from, msg) == Allowed(from, msg)
Barrier(from, msg) == ~Denied(msg) /\ Allowed(from, msg)

Accepted == {fm \in {Parent, Sibling} \X Messages : Barrier(fm[1], fm[2])}

-----------------------------------------------------------------------------
(* The executor.                                                            *)

Amount == 2

\* The queue passes a message on; one that the barrier refuses is dropped.
ProcessMessage ==
    /\ sender = {} /\ processed < MaxMessages /\ processed' = processed + 1
    /\ \E a \in Accepted : sender' = {a[1]} /\ origin' = {a[1]} /\ todo' = a[2]
    /\ UNCHANGED <<balances, program, handler, appendix, holding, fee, dispatched,
                   trapped, backed, gone, teleported, outbox>>

Next1(op) == todo # <<>> /\ Head(todo).op = op
Done == todo' = Tail(todo) /\ UNCHANGED <<program, handler, appendix>>
Rest == UNCHANGED <<sender, trapped, teleported, outbox, processed>>

\* An instruction that fails ends its program; what it did before remains.  The
\* error handler goes on, or else the appendix.
Ended ==
    /\ program' = "nested" /\ handler' = <<>>
    /\ \/ handler # <<>> /\ todo' = handler /\ appendix' = appendix
       \/ handler = <<>> /\ todo' = appendix /\ appendix' = <<>>
    /\ UNCHANGED <<balances, origin, fee, dispatched, backed, gone>>
Error == Ended /\ holding' = holding

\* An instruction that moves assets is undone when it fails half-way.
UnitProcessor == holding' = 0
FrameTransactionalProcessor == holding' = holding
Undone == Ended /\ FrameTransactionalProcessor

ClearOrigin ==
    /\ Next1("ClearOrigin") /\ Done /\ origin' = {}
    /\ UNCHANGED <<balances, holding, fee, dispatched, backed, gone>> /\ Rest

DescendOrigin ==
    /\ Next1("DescendOrigin") /\ Rest
    /\ IF origin = {} THEN Error
       ELSE /\ Done /\ origin' = {Append(l, Head(todo).arg) : l \in origin}
            /\ UNCHANGED <<balances, holding, fee, dispatched, backed, gone>>

\* UniversalAliases is Nothing, IsTeleporter is ().
Refused == (Next1("UniversalOrigin") \/ Next1("ReceiveTeleportedAsset")) /\ Error /\ Rest

UnpaidExecution ==
    /\ Next1("UnpaidExecution") /\ Done
    /\ UNCHANGED <<balances, origin, holding, fee, dispatched, backed, gone>> /\ Rest

\* The account of the origin, when it has the amount.
Owners ==
    {a \in UNION {LocationToAccountId(l) : l \in origin} : balances[a] >= Amount}

WithdrawAsset ==
    /\ Next1("WithdrawAsset") /\ Rest
    /\ \/ Owners = {} /\ Error
       \/ \E a \in Owners :
            /\ Done /\ balances' = [balances EXCEPT ![a] = @ - Amount]
            /\ holding' = holding + Amount
            /\ UNCHANGED <<origin, fee, dispatched, backed, gone>>

\* NativeAsset: only the relay chain is a reserve of its token.
IsReserve(o) == o = {Parent}

ReserveAssetDeposited ==
    /\ Next1("ReserveAssetDeposited") /\ Rest
    /\ IF ~IsReserve(origin) THEN Error
       ELSE /\ Done /\ holding' = holding + Amount
            /\ backed' = IF sender = {Parent} THEN backed + Amount ELSE backed
            /\ UNCHANGED <<balances, origin, fee, dispatched, gone>>

BuyExecution ==
    /\ Next1("BuyExecution") /\ Rest
    /\ IF holding = 0 THEN Error
       ELSE /\ Done /\ holding' = holding - 1 /\ fee' = fee + 1
            /\ UNCHANGED <<balances, origin, dispatched, backed, gone>>

\* Less than the existential deposit cannot be deposited.
DepositAsset ==
    /\ Next1("DepositAsset") /\ Rest
    /\ \/ holding > 0 /\ Undone
       \/ /\ Done /\ holding' = 0
          /\ balances' = [balances EXCEPT !["alice"] = @ + holding]
          /\ UNCHANGED <<origin, fee, dispatched, backed, gone>>

\* These three end in sending a message, for which there may be no channel.
InitiateReserveWithdraw ==
    /\ Next1("InitiateReserveWithdraw") /\ Rest
    /\ \/ Undone
       \/ /\ Done /\ holding' = 0
          /\ gone' = [gone EXCEPT ![Head(todo).arg] = @ + holding]
          /\ UNCHANGED <<balances, origin, fee, dispatched, backed>>

DepositReserveAsset ==
    /\ Next1("DepositReserveAsset") /\ Rest
    /\ \/ Undone
       \/ /\ Done /\ holding' = 0
          /\ balances' = [balances EXCEPT ![Head(todo).arg] = @ + holding]
          /\ UNCHANGED <<origin, fee, dispatched, backed, gone>>

TransferReserveAsset ==
    /\ Next1("TransferReserveAsset") /\ Rest
    /\ \/ Undone
       \/ \E a \in Owners :
            /\ Done
            /\ LET taken == [balances EXCEPT ![a] = @ - Amount]
               IN  balances' = [taken EXCEPT ![Head(todo).arg] = @ + Amount]
            /\ UNCHANGED <<origin, holding, fee, dispatched, backed, gone>>

SetErrorHandler ==
    /\ Next1("SetErrorHandler") /\ Rest
    /\ todo' = Tail(todo) /\ handler' = Head(todo).xcm
    /\ UNCHANGED <<program, appendix, balances, origin, holding, fee, dispatched,
                   backed, gone>>

SetAppendix ==
    /\ Next1("SetAppendix") /\ Rest
    /\ todo' = Tail(todo) /\ appendix' = Head(todo).xcm
    /\ UNCHANGED <<program, handler, balances, origin, holding, fee, dispatched,
                   backed, gone>>

\* The call itself may fail: the message goes on.
Transact ==
    LET as == UNION {XcmOriginToTransactDispatchOrigin(l, Head(todo).arg) : l \in origin}
    IN  /\ Next1("Transact") /\ Rest
        /\ IF as = {} THEN Error
           ELSE /\ Done /\ dispatched' = dispatched \cup as
                /\ UNCHANGED <<balances, origin, holding, fee, backed, gone>>

\* A program that ran to its end drops the error handler; the appendix goes on.
RunAppendix ==
    /\ sender # {} /\ todo = <<>> /\ appendix # <<>> /\ Rest
    /\ todo' = appendix /\ program' = "nested" /\ handler' = <<>> /\ appendix' = <<>>
    /\ UNCHANGED <<balances, origin, holding, fee, dispatched, backed, gone>>

\* What is left is trapped; the trader pays the author.
Finish ==
    /\ sender # {} /\ todo = <<>> /\ appendix = <<>> /\ Idle
    /\ trapped' = trapped + holding
    /\ balances' = [balances EXCEPT !["author"] = @ + fee]
    /\ UNCHANGED abroad

-----------------------------------------------------------------------------
(* Local accounts and pallet_xcm.                                           *)

RootSpeaksForTheChain(o) == IF o = "Root" THEN {<<>>} ELSE {<<"AccountId32">>}
LocalOriginToLocation(o) == IF o = "Signed" THEN {<<"AccountId32">>} ELSE {}

\* The router has a way to the relay chain and to the siblings.
SendXcm(o, to) ==
    /\ sender = {}
    /\ \E l \in LocalOriginToLocation(o) : outbox' = outbox \cup {<<l, to>>}
    /\ UNCHANGED <<balances, vm, trapped, backed, gone, teleported, processed>>

\* XcmTeleportFilter is Everything; XcmExecuteFilter and XcmReserveTransferFilter
\* are Nothing, and those calls change nothing.
TeleportAssets ==
    /\ sender = {} /\ balances["alice"] > 0
    /\ balances' = [balances EXCEPT !["alice"] = @ - 1]
    /\ teleported' = teleported + 1
    /\ UNCHANGED <<vm, trapped, backed, gone, outbox, processed>>

Next ==
    \/ ProcessMessage
    \/ ClearOrigin \/ DescendOrigin \/ Refused \/ UnpaidExecution
    \/ WithdrawAsset \/ ReserveAssetDeposited \/ BuyExecution \/ DepositAsset
    \/ InitiateReserveWithdraw \/ DepositReserveAsset \/ TransferReserveAsset
    \/ Transact \/ SetErrorHandler \/ SetAppendix \/ RunAppendix \/ Finish
    \/ \E o \in {"Signed", "Root"}, to \in {Parent, Sibling} : SendXcm(o, to)
    \/ TeleportAssets

Spec == Init /\ [][Next]_vars

-----------------------------------------------------------------------------
\* Every token is from genesis or held in reserve by the relay chain, and is in
\* one place, although messages and single instructions fail half-way: assets are
\* withdrawn, held, paid as fees, moved between the accounts of chains, trapped or
\* sent away (xcm_config.rs:117-129, 139).
Conserved ==
    Sum(balances) + holding + fee + trapped
        + gone["relay"] + gone["sibling"] + teleported = Sum(Genesis) + backed

ActsAsRelay(o) ==
    \/ o.as = "Relay"
    \/ o.as = "Signed" /\ o.at = "relay"
    \/ o.as = "Xcm" /\ o.at = Parent

\* Only the relay chain's own message reaches the collator selection, or acts as
\* the relay chain, whatever prefix a sibling sends (xcm_config.rs:63, mod.rs:285).
PrivilegeNeedsRelay ==
    \A o \in dispatched :
        CollatorSelectionUpdateOrigin(o) \/ ActsAsRelay(o) => sender = {Parent}

\* No message of a sibling calls a pallet, sends assets away or moves any to an
\* account before it has paid, nor leaves that to a program nested in it: free
\* execution is for the parent and its executive (xcm_config.rs:104).
NothingForFree ==
    [][sender = {Sibling} /\ (\/ dispatched' \notin {{}, dispatched}
                              \/ gone' # gone
                              \/ \E a \in Accounts : balances'[a] > balances[a])
       => fee > 0]_vars

\* A message does not withdraw the relay chain's reserve, and does not transfer
\* assets to the relay chain's account here: the deny rule stands before every
\* rule that allows (xcm_config.rs:96-97).  A program that one of its instructions
\* has set as error handler or appendix can do either: the rule does not see it.
DenyHoldsAtTopLevel ==
    [][\/ gone'["relay"] # gone["relay"]
       \/ balances'["relay"] > balances["relay"]
       => program = "nested"]_vars

\* A sibling's message takes from no account but that of the sibling, whatever
\* its origin has become on the way (LocationToAccountId, xcm_config.rs:37).
SiblingsTakeTheirOwn ==
    [][sender = {Sibling} =>
           \A a \in Accounts \ {"sibling"} : balances'[a] >= balances[a]]_vars
=============================================================================
