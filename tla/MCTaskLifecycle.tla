--------------------------- MODULE MCTaskLifecycle ---------------------------
(* TaskLifecycle for TLC: coroutines and rooms are interchangeable.        *)
EXTENDS TaskLifecycle, TLC

Symmetry == Permutations(Callers) \union Permutations(Rooms)
=============================================================================
