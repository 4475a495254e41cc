------------------------------ MODULE MCSampler ------------------------------
(* Sampler.tla on a small instance.                                        *)
EXTENDS Sampler, TLC

\* The containers are interchangeable.
Symmetry == Permutations(Containers)
=============================================================================
