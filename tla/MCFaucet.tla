------------------------------ MODULE MCFaucet ------------------------------
(* Faucet.tla on a small instance.                                         *)
EXTENDS Faucet, TLC

\* Requests and challenges are interchangeable.
Symmetry == Permutations(Requests) \cup Permutations(Nonces)
=============================================================================
