----------------------------- MODULE MCA2ABridge -----------------------------
(* A2ABridge for TLC: the clients are interchangeable.                     *)
EXTENDS A2ABridge

Symmetry == Permutations(Clients)
=============================================================================
