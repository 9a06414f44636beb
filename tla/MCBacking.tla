----------------------------- MODULE MCBacking ------------------------------
(* Values for TLC: the built-in specifications, and a file that was made    *)
(* from one of them with another para id in its extensions.                 *)
EXTENDS Backing

MCFiles == [p \in {"edited.json"} |-> [local_testnet_config EXCEPT !.para_id = 2000]]
=============================================================================
