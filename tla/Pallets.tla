------------------------------ MODULE Pallets -------------------------------
(***************************************************************************)
(* The dispatchables of the two pallets of the repository, as the runtime  *)
(* executes the extrinsics of a block one after the other:                 *)
(* pallet-parachain-template (do_something, cause_error) and pallet-ocw    *)
(* (do_something).  Block numbers are u32, 0..MaxNumber.                   *)
(*                                                                         *)
(* An uncommented definition just above an action is that action with a    *)
(* plausible mistake in it; no specification uses it.                      *)
(***************************************************************************)
EXTENDS Integers, Sequences

CONSTANTS
    Accounts,   \* who may sign
    Unsigned,   \* the origins that are not signed: None and Root
    MaxNumber,  \* 2^32 - 1 in the runtime
    NoValue,    \* a StorageValue that was never put
    BlockSize   \* bound of the model: extrinsics in a block

ASSUME NumberAssumption == MaxNumber \in Nat
ASSUME OriginAssumption == Accounts \cap Unsigned = {}
ASSUME NoValueAssumption == NoValue \notin 0..MaxNumber
ASSUME BlockSizeAssumption == BlockSize \in Nat

VARIABLES
    template,  \* Something of the template pallet
    ocw,       \* Something of pallet-ocw
    events,    \* System::events of the block being executed
    outcome,   \* the DispatchResult of the last extrinsic
    room,      \* extrinsics the block still takes
    base,      \* history: what do_something last put in `template`
    bumps      \* history: successful cause_error since then

palletVars == <<template, ocw, events, outcome, room, base, bumps>>

Numbers == 0..MaxNumber
Origins == Accounts \cup Unsigned
Errors == {"BadOrigin", "NoneValue", "StorageOverflow"}
EventSet == [pallet : {"template", "ocw"}, number : Numbers, who : Accounts]

PalletsTypeOK ==
    /\ template \in Numbers \cup {NoValue}
    /\ ocw \in Numbers \cup {NoValue}
    /\ events \in Seq(EventSet)
    /\ outcome \in Errors \cup {"Ok"}
    /\ room \in 0..BlockSize
    /\ base \in Numbers \cup {NoValue}
    /\ bumps \in Nat

PalletsInit ==
    /\ template = NoValue /\ ocw = NoValue
    /\ events = <<>> /\ outcome = "Ok" /\ room = BlockSize
    /\ base = NoValue /\ bumps = 0

\* initialize_block: the events of the block before are dropped.
NextBlock ==
    /\ events' = <<>>
    /\ room' = BlockSize
    /\ UNCHANGED <<template, ocw, outcome, base, bumps>>

Extrinsic == room > 0 /\ room' = room - 1

SomethingStored(p, bn, o) ==
    events' = Append(events, [pallet |-> p, number |-> bn, who |-> o])

\* ensure_signed fails; what the call did so far, nothing, is rolled back.
Reject(err) ==
    /\ outcome' = err
    /\ UNCHANGED <<template, ocw, events, base, bumps>>

-----------------------------------------------------------------------------
DoSomethingOldEvent(o, bn) ==
    /\ Extrinsic
    /\ \/ o \notin Accounts /\ Reject("BadOrigin")
       \/ /\ o \in Accounts
          /\ template' = bn
          /\ base' = bn /\ bumps' = 0
          /\ SomethingStored("template", IF template = NoValue THEN bn ELSE template, o)
          /\ outcome' = "Ok"
          /\ UNCHANGED ocw

\* TemplatePallet::do_something
DoSomething(o, bn) ==
    /\ Extrinsic
    /\ \/ o \notin Accounts /\ Reject("BadOrigin")
       \/ /\ o \in Accounts
          /\ template' = bn
          /\ base' = bn /\ bumps' = 0
          /\ SomethingStored("template", bn, o)
          /\ outcome' = "Ok"
          /\ UNCHANGED ocw

CauseErrorUnchecked(o) ==
    /\ Extrinsic
    /\ \/ o \notin Accounts /\ Reject("BadOrigin")
       \/ o \in Accounts /\ template = NoValue /\ Reject("NoneValue")
       \/ /\ o \in Accounts /\ template \in Numbers
          /\ template' = template + 1
          /\ bumps' = bumps + 1
          /\ outcome' = "Ok"
          /\ UNCHANGED <<ocw, events, base>>

CauseErrorWrapping(o) ==
    /\ Extrinsic
    /\ \/ o \notin Accounts /\ Reject("BadOrigin")
       \/ o \in Accounts /\ template = NoValue /\ Reject("NoneValue")
       \/ /\ o \in Accounts /\ template \in Numbers
          /\ template' = (template + 1) % (MaxNumber + 1)
          /\ bumps' = bumps + 1
          /\ outcome' = "Ok"
          /\ UNCHANGED <<ocw, events, base>>

\* TemplatePallet::cause_error: checked_add, and no event.
CauseError(o) ==
    /\ Extrinsic
    /\ \/ o \notin Accounts /\ Reject("BadOrigin")
       \/ o \in Accounts /\ template = NoValue /\ Reject("NoneValue")
       \/ o \in Accounts /\ template = MaxNumber /\ Reject("StorageOverflow")
       \/ /\ o \in Accounts /\ template \in 0..(MaxNumber - 1)
          /\ template' = template + 1
          /\ bumps' = bumps + 1
          /\ outcome' = "Ok"
          /\ UNCHANGED <<ocw, events, base>>

\* OcwPallet::do_something
OcwDoSomething(o, bn) ==
    /\ Extrinsic
    /\ \/ o \notin Accounts /\ Reject("BadOrigin")
       \/ /\ o \in Accounts
          /\ ocw' = bn
          /\ SomethingStored("ocw", bn, o)
          /\ outcome' = "Ok"
          /\ UNCHANGED <<template, base, bumps>>

PalletsNext ==
    \/ NextBlock
    \/ \E o \in Origins : CauseError(o)
    \/ \E o \in Origins, bn \in Numbers : DoSomething(o, bn) \/ OcwDoSomething(o, bn)

PalletsSpec == PalletsInit /\ [][PalletsNext]_palletVars

-----------------------------------------------------------------------------
EventsOf(p) == {i \in 1..Len(events) : events[i].pallet = p}
IsLast(i, p) == i \in EventsOf(p) /\ \A j \in EventsOf(p) : j <= i

\* Whatever the order of calls, blocks and failures, the template pallet's
\* number is what do_something stored last plus one for every cause_error that
\* succeeded: checked_add never wraps and no increment is lost (cause_error).
NumberAddsUp ==
    IF base = NoValue THEN template = NoValue /\ bumps = 0
                      ELSE template \in Numbers /\ template = base + bumps

\* Who replays the events of a block learns what the block left in storage:
\* the last event of each pallet names the number do_something put there
\* (deposit_event after put), to which cause_error has silently added.
EventsTellStorage ==
    /\ \A i \in 1..Len(events) : IsLast(i, "ocw") => ocw = events[i].number
    /\ \A i \in 1..Len(events) : IsLast(i, "template") =>
           template = events[i].number + bumps

\* An extrinsic that fails leaves storage and events as they were
\* (tests.rs, assert_noop of cause_error).
FailedCallsChangeNothing ==
    [][outcome' \in Errors /\ room' < room => UNCHANGED <<template, ocw, events>>]_palletVars

\* No call writes the storage of both pallets: the two `Something` are apart.
PalletsApart == [][template' = template \/ ocw' = ocw]_palletVars
=============================================================================
