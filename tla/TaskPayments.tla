---------------------------- MODULE TaskPayments ----------------------------
(***************************************************************************)
(* Tasks that pay: the payments of Payments driven by the announcements of *)
(* TaskProtocol, the abstract lifecycle that TaskLifecycle implements.     *)
(* The room learns of a task's steps one at a time and not always in the   *)
(* order in which they were taken; when it learns of COMPLETED or FAILED,  *)
(* the callback of TaskPaymentBridge runs.  People may call PaymentService *)
(* themselves at any time.                                                 *)
(***************************************************************************)
EXTENDS Payments, Sequences, FiniteSetsExt, TaskStates

CONSTANT MaxMoves  \* bound on the steps of all tasks together

VARIABLES
  path, told,  \* as in TaskProtocol
  early        \* ghost: the escrows made before their task took its first step

Protocol == INSTANCE TaskProtocol WITH
  Statuses     <- TASK_STATUSES,
  Initial      <- "CREATED",
  NextStatuses <- VALID_TRANSITIONS,
  Unannounced  <- {"CANCELLED"}

vars == <<path, told, early, invoice, escrow, payouts, channel, taskEscrow>>

Init == Protocol!Init /\ PaymentsInit /\ early = {}

Move(t) ==
  /\ FoldSet(LAMBDA u, sum : Len(path[u]) + sum, 0, Tasks) < MaxMoves
  /\ Protocol!Move(t)
  /\ UNCHANGED <<paymentVars, early>>

\* What the bridge does about the step of t that was just announced.
Settle(t, status) ==
  CASE status = "COMPLETED" -> OnTaskCompleted(t)
    [] status = "FAILED"    -> OnTaskFailed(t)
    [] OTHER                -> UNCHANGED paymentVars

\* The room learns of the creation of t or of its n-th step.
Announce(t) ==
  /\ Protocol!Tell(t)
  /\ \A n \in told'[t] \ told[t] : Settle(t, IF n = 0 THEN "CREATED" ELSE path[t][n])
  /\ UNCHANGED early

\* fund_task has no test of the task's status.
Fund(t) ==
  /\ \E e \in Escrows :
       /\ FundTask(t, e)
       /\ early' = early \union {x \in {e} : path[t] = <<>>}
  /\ UNCHANGED <<path, told>>

Call == ServiceCall /\ UNCHANGED <<path, told, early>>

Next ==
  \/ \E t \in Tasks : Move(t) \/ Announce(t) \/ Fund(t)
  \/ Call

Spec == Init /\ [][Next]_vars
-----------------------------------------------------------------------------
(* Properties                                                              *)

Reached(t, s) == \E n \in 1 .. Len(path[t]) : path[t][n] = s

\* Unless somebody calls PaymentService directly, a payee is paid only for a
\* task that was completed and a payer is refunded only for one that failed.
PaymentFollowsTask ==
  \A e \in Escrows, t \in Tasks :
    escrow[e].task = {t} /\ ~escrow[e].direct =>
      /\ escrow[e].status = "RELEASED" => Reached(t, "COMPLETED")
      /\ escrow[e].status = "REFUNDED" => Reached(t, "FAILED")

\* The task was paid for in advance and only through the bridge, has an
\* outcome, and all its steps have been announced.
Settled(t) ==
  /\ taskEscrow[t] \in early /\ ~escrow[taskEscrow[t]].direct
  /\ Protocol!Current(t) \in {"COMPLETED", "FAILED"}
  /\ 1 .. Len(path[t]) \subseteq told[t]

\* A task that needed one attempt is paid for according to its outcome, in
\* whatever order its announcements arrive (armp_payments.py:314-327).
OneAttemptSettlesRight ==
  \A t \in Tasks : Settled(t) /\ Len(path[t]) = 3 =>
    escrow[taskEscrow[t]].status =
      IF Protocol!Current(t) = "COMPLETED" THEN "RELEASED" ELSE "REFUNDED"

\* The documented flow: "funds are released upon task completion"
\* (specs/drafts/armp-v1.0.0.md:666), also when the task was retried.
CompletedTaskIsPaid ==
  \A t \in Tasks : Settled(t) /\ Protocol!Current(t) = "COMPLETED" =>
    escrow[taskEscrow[t]].status = "RELEASED"
=============================================================================
