----------------------------- MODULE MCCommands ------------------------------
(* The configurations in which Commands is checked.  The benchmark of the    *)
(* hardware spawns a task only beside telemetry; those two meet the other    *)
(* options nowhere, so they vary together, and with --tmp they are left out. *)
EXTENDS Commands

MCConfigurations ==
    {o \in Options : /\ o.hwbench => o.telemetry
                     /\ o.telemetry => ~o.tmp /\ ~o.ocw /\ (o.hwbench => o.validator)}
=============================================================================
