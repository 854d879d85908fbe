----------------------------- MODULE EventStream -----------------------------
(***************************************************************************)
(* What the readers of a Matrix room may rely on: events come in the order *)
(* in which they were sent and none comes twice to a reader, but some may  *)
(* be missing.  A reader is one sync loop: SyncLoop is shown to implement  *)
(* it.                                                                     *)
(***************************************************************************)
EXTENDS Naturals, Sequences

CONSTANT Readers

VARIABLES
  sent,  \* how many events were sent
  got    \* got[r]: the events reader r was given, in order

vars == <<sent, got>>

Newest(r) == IF got[r] = <<>> THEN 0 ELSE got[r][Len(got[r])]

Init == sent = 0 /\ got = [r \in Readers |-> <<>>]

Send == sent' = sent + 1 /\ UNCHANGED got

Give(r) ==
  /\ \E n \in Newest(r) + 1 .. sent : got' = [got EXCEPT ![r] = Append(@, n)]
  /\ UNCHANGED sent

Next == Send \/ \E r \in Readers : Give(r)

Spec == Init /\ [][Next]_vars
=============================================================================
