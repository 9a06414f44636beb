-------------------------- MODULE MCOffchainWorker --------------------------
(* Instances of OffchainWorker for TLC.                                     *)
EXTENDS OffchainWorker, TLC

\* Runs and keys are interchangeable: no action or property names one.
Symmetry == Permutations(Runs) \cup Permutations(Keys)
=============================================================================
