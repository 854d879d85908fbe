----------------------------- MODULE MCServices -----------------------------
(* Services for TLC.                                                       *)
EXTENDS Services, TLC

\* A server has a limit of its own or none, an agent falls back to the default.
MCNames == [agent |-> {"a"}, room |-> {}, federation |-> {"s"}]

\* What events say and where they come from is only compared.
MCSymmetry == Permutations(Payloads) \union Permutations(Origins)
=============================================================================
