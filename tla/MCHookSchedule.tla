--------------------------- MODULE MCHookSchedule ---------------------------
(* A tree of two forks for HookSchedule: a1 - a2 - a3 and a1 - c2 - c3.     *)
EXTENDS HookSchedule

CONSTANTS a1, a2, a3, c2, c3

MCBlocks == {a1, a2, a3, c2, c3}
MCParent == [b \in MCBlocks |-> CASE b = a1 -> Genesis
                                  [] b \in {a2, c2} -> a1
                                  [] b = a3 -> a2
                                  [] b = c3 -> c2]
=============================================================================
