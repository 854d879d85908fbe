--------------------------- MODULE MCTaskPayments ---------------------------
(* TaskPayments for TLC: tasks and escrows are interchangeable.            *)
EXTENDS TaskPayments, TLC

MCAmounts == {-1, 2}

Symmetry == Permutations(Tasks) \union Permutations(Escrows)

\* Invoices and channels share no variable and no guard with tasks and escrows,
\* so that their interleavings tell nothing: each half is explored by itself.
HalvesApart ==
  \/ <<invoice, channel>> = <<[i \in Invoices |-> "NONE"], [h \in Channels |-> NoChannel]>>
  \/ \A t \in Tasks, e \in Escrows : told[t] = {} /\ path[t] = <<>> /\ escrow[e].status = "NONE"
=============================================================================
