----------------------------- MODULE MCPallets ------------------------------
(* An instance of Pallets for TLC.                                          *)
EXTENDS Pallets, TLC

Symmetry == Permutations(Accounts)
=============================================================================
