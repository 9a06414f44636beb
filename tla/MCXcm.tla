------------------------------- MODULE MCXcm --------------------------------
(***************************************************************************)
(* Messages of up to MaxInstructions instructions with these programs      *)
(* nested in them: two that the deny rule forbids at the top level, one    *)
(* that deposits, and one that nests another and fails.                    *)
(***************************************************************************)
EXTENDS Xcm

Instruction(op, arg, xcm) == [op |-> op, arg |-> arg, xcm |-> xcm]
Single(op, arg) == <<Instruction(op, arg, <<>>)>>

MCNested ==
    {Single("InitiateReserveWithdraw", "relay"),
     Single("DepositReserveAsset", "relay"),
     Single("DepositAsset", ""),
     <<Instruction("SetAppendix", "", Single("DepositAsset", "")),
       Instruction("UniversalOrigin", "", <<>>)>>}
=============================================================================
