------------------------------ MODULE Payments ------------------------------
(***************************************************************************)
(* PaymentService and TaskPaymentBridge (armp_payments.py): invoices,      *)
(* escrows, payment channels and the map from a task to its escrow.        *)
(*                                                                         *)
(* Every method runs to its end without an await, so each is one action.   *)
(* A call that raises, or that finds no escrow, changes nothing and is no  *)
(* step.  Ids are drawn at random by the code: an action takes an id that  *)
(* is not in use.  The amount of an escrow is data no method looks at.     *)
(***************************************************************************)
EXTENDS Integers

CONSTANTS
  Tasks,      \* task ids
  Invoices,   \* invoice ids
  Escrows,    \* escrow ids
  Channels,   \* channel ids
  Amounts,    \* the amounts callers pass: integers, in cents, of either sign
  NoEscrow,   \* no entry in _task_escrows
  MaxVolume   \* bound on a channel's total_volume: the code has none

ASSUME PaymentsAssumption ==
  /\ Amounts \subseteq Int
  /\ MaxVolume \in Nat
  /\ NoEscrow \notin Escrows

VARIABLES
  invoice,      \* invoice[i]: its status, "NONE" before create_invoice
  escrow,       \* escrow[e]: status and task; ghost: settled by a direct call
  payouts,      \* ghost: payouts[e]: how often e was released and refunded
  channel,      \* channel[h]: status, balance_a, total_volume; ghost: opening balance
  taskEscrow    \* TaskPaymentBridge._task_escrows

paymentVars == <<invoice, escrow, payouts, channel, taskEscrow>>

InvoiceStatus == {"NONE", "PENDING", "RELEASED"}
EscrowStatus == {"NONE", "HELD", "RELEASED", "REFUNDED"}
ChannelStatus == {"NONE", "open", "closed"}

NoChannel == [status |-> "NONE", balance |-> 0, volume |-> 0, opening |-> 0]

NewEscrow(t) == [status |-> "HELD", task |-> {t}, direct |-> FALSE]

PaymentsInit ==
  /\ invoice = [i \in Invoices |-> "NONE"]
  /\ escrow = [e \in Escrows |-> [status |-> "NONE", task |-> {}, direct |-> FALSE]]
  /\ payouts = [e \in Escrows |-> [released |-> 0, refunded |-> 0]]
  /\ channel = [h \in Channels |-> NoChannel]
  /\ taskEscrow = [t \in Tasks |-> NoEscrow]
-----------------------------------------------------------------------------
(* Invoices                                                                *)

CreateInvoice(i, amount) ==
  /\ amount > 0
  /\ invoice[i] = "NONE"
  /\ invoice' = [invoice EXCEPT ![i] = "PENDING"]
  /\ UNCHANGED <<escrow, payouts, channel, taskEscrow>>

PayInvoice(i) ==
  /\ invoice[i] = "PENDING"
  /\ invoice' = [invoice EXCEPT ![i] = "RELEASED"]
  /\ UNCHANGED <<escrow, payouts, channel, taskEscrow>>
-----------------------------------------------------------------------------
(* Escrows.  `direct` says that a person called PaymentService, and not    *)
(* the bridge.                                                             *)

\* Faulty variant: ids are not unique.
CreateEscrowAgain(e, t) ==
  escrow' = [escrow EXCEPT ![e] = NewEscrow(t)]

CreateEscrow(e, t) ==
  /\ escrow[e].status = "NONE"
  /\ escrow' = [escrow EXCEPT ![e] = NewEscrow(t)]

\* Faulty variant: release_escrow tests only that the escrow exists.
CanReleaseAny(e) == escrow[e].status # "NONE"

CanRelease(e) == escrow[e].status = "HELD"

ReleaseEscrow(e, direct) ==
  /\ CanRelease(e)
  /\ escrow' = [escrow EXCEPT ![e].status = "RELEASED", ![e].direct = @ \/ direct]
  /\ payouts' = [payouts EXCEPT ![e].released = @ + 1]
  /\ UNCHANGED <<invoice, channel, taskEscrow>>

\* refund_escrow asks only that the escrow exists, whatever its status.  The
\* count stops at two: a further refund of the same escrow adds no state.
RefundEscrow(e, direct) ==
  /\ escrow[e].status # "NONE"
  /\ escrow' = [escrow EXCEPT ![e].status = "REFUNDED", ![e].direct = @ \/ direct]
  /\ payouts' = [payouts EXCEPT ![e].refunded = IF @ < 2 THEN @ + 1 ELSE @]
  /\ UNCHANGED <<invoice, channel, taskEscrow>>
-----------------------------------------------------------------------------
(* Payment channels                                                        *)

OpenChannel(h, balance) ==
  /\ channel[h].status = "NONE"
  /\ channel' = [channel EXCEPT ![h] =
       [status |-> "open", balance |-> balance, volume |-> 0, opening |-> balance]]
  /\ UNCHANGED <<invoice, escrow, payouts, taskEscrow>>

\* Faulty variant: the volume is not taken in magnitude.
SignedAmount(amount) == amount

Magnitude(amount) == IF amount < 0 THEN -amount ELSE amount

\* A transfer from A raises what A owes and one from anybody else lowers it;
\* the status of the channel is not looked at.
ChannelTransfer(h, fromA, amount) ==
  /\ channel[h].status # "NONE"
  /\ channel[h].volume + Magnitude(amount) <= MaxVolume
  /\ channel' = [channel EXCEPT
       ![h].balance = IF fromA THEN @ + amount ELSE @ - amount,
       ![h].volume  = @ + Magnitude(amount)]
  /\ UNCHANGED <<invoice, escrow, payouts, taskEscrow>>

CloseChannel(h) ==
  /\ channel[h].status # "NONE"
  /\ channel' = [channel EXCEPT ![h].status = "closed"]
  /\ UNCHANGED <<invoice, escrow, payouts, taskEscrow>>
-----------------------------------------------------------------------------
(* TaskPaymentBridge                                                       *)

\* A second escrow for the same task takes the place of the first.
FundTask(t, e) ==
  /\ CreateEscrow(e, t)
  /\ taskEscrow' = [taskEscrow EXCEPT ![t] = e]
  /\ UNCHANGED <<invoice, payouts, channel>>

\* Faulty variant: the two callbacks are swapped in effect.
OnTaskCompletedRefunds(t) ==
  IF taskEscrow[t] # NoEscrow
  THEN RefundEscrow(taskEscrow[t], FALSE)
  ELSE UNCHANGED paymentVars

\* on_task_completed: False without an escrow; release_escrow raises unless the
\* escrow is HELD.
OnTaskCompleted(t) ==
  IF taskEscrow[t] # NoEscrow /\ CanRelease(taskEscrow[t])
  THEN ReleaseEscrow(taskEscrow[t], FALSE)
  ELSE UNCHANGED paymentVars

OnTaskFailed(t) ==
  IF taskEscrow[t] # NoEscrow
  THEN RefundEscrow(taskEscrow[t], FALSE)
  ELSE UNCHANGED paymentVars
-----------------------------------------------------------------------------
\* The calls a person or a program makes on PaymentService itself.
ServiceCall ==
  \/ \E i \in Invoices : (\E a \in Amounts : CreateInvoice(i, a)) \/ PayInvoice(i)
  \/ \E e \in Escrows, t \in Tasks :
       /\ CreateEscrow(e, t)
       /\ UNCHANGED <<invoice, payouts, channel, taskEscrow>>
  \/ \E e \in Escrows : ReleaseEscrow(e, TRUE) \/ RefundEscrow(e, TRUE)
  \/ \E h \in Channels, a \in Amounts :
       OpenChannel(h, a) \/ \E fromA \in BOOLEAN : ChannelTransfer(h, fromA, a)
  \/ \E h \in Channels : CloseChannel(h)

\* The calls of the task lifecycle.
BridgeCall ==
  \E t \in Tasks :
    \/ \E e \in Escrows : FundTask(t, e)
    \/ OnTaskCompleted(t)
    \/ OnTaskFailed(t)

PaymentsSpec == PaymentsInit /\ [][ServiceCall \/ BridgeCall]_paymentVars
-----------------------------------------------------------------------------
(* Properties                                                              *)

PaymentsTypeOK ==
  /\ invoice \in [Invoices -> InvoiceStatus]
  /\ escrow \in [Escrows -> [status : EscrowStatus, task : SUBSET Tasks, direct : BOOLEAN]]
  /\ payouts \in [Escrows -> [released : 0 .. 1, refunded : 0 .. 2]]
  /\ channel \in [Channels -> [status : ChannelStatus, balance : Int, volume : 0 .. MaxVolume,
                               opening : Int]]
  /\ taskEscrow \in [Tasks -> Escrows \union {NoEscrow}]

\* A payee is paid at most once out of an escrow, and money that is still held
\* went to nobody: release_escrow (armp_payments.py:193) tests for HELD, and no
\* sequence of calls brings HELD back.
PaidAtMostOnce ==
  \A e \in Escrows :
    /\ payouts[e].released <= 1
    /\ escrow[e].status \in {"NONE", "HELD"} =>
         payouts[e].released = 0 /\ payouts[e].refunded = 0

\* Once the payer got the money back the payee is never paid out of the same
\* escrow, whatever person or callback asks (armp_payments.py:188-209).
RefundIsFinal ==
  [][\A e \in Escrows : escrow[e].status = "REFUNDED" =>
       /\ escrow'[e].status = "REFUNDED"
       /\ payouts'[e].released = payouts[e].released]_paymentVars

\* The bridge settles a task out of an escrow that was made for this task, and
\* two tasks never share one: a callback cannot pay for somebody else's work
\* (armp_payments.py:300-327).
BridgeKeepsTasksApart ==
  /\ \A t \in Tasks : taskEscrow[t] # NoEscrow =>
       escrow[taskEscrow[t]].status # "NONE" /\ escrow[taskEscrow[t]].task = {t}
  /\ \A t, u \in Tasks : taskEscrow[t] = taskEscrow[u] /\ t # u => taskEscrow[t] = NoEscrow

\* What a channel settles never differs from its opening balance by more than
\* the volume that went through it, and has the parity of the two together:
\* each transfer moves the balance by exactly what it adds to the volume,
\* whatever its sign or direction (armp_payments.py:231-236).
ChannelNetWithinVolume ==
  \A h \in Channels :
    LET moved == channel[h].balance - channel[h].opening IN
      /\ -channel[h].volume <= moved /\ moved <= channel[h].volume
      /\ (channel[h].volume - moved) % 2 = 0
=============================================================================
