--------------------------- MODULE PaymentsProofs ---------------------------
(***************************************************************************)
(* Payments, proved for all sets of tasks, ids and amounts and for every   *)
(* bound on the volume; and TaskPayments, for any number of steps: the     *)
(* bridge pays and refunds what the tasks' outcomes ask for, and a task of *)
(* one attempt is settled right.                                           *)
(***************************************************************************)
EXTENDS TaskPayments, TLAPS

-----------------------------------------------------------------------------
(* Payments                                                                *)

\* PaidAtMostOnce is what keeps the count of releases in its type, and the
\* bridge's map is safe because an entry's escrow exists and names its task:
\* the conjunction is inductive, none of the first two is alone.
PaymentsInv ==
  PaymentsTypeOK /\ PaidAtMostOnce /\ BridgeKeepsTasksApart /\ ChannelNetWithinVolume

\* The magnitude of an amount is what moves, up to a multiple of two.
LEMMA MagnitudeLemma ==
  ASSUME NEW a \in Int
  PROVE  /\ Magnitude(a) \in Nat
         /\ -Magnitude(a) <= a /\ a <= Magnitude(a)
         /\ \E k \in Int : Magnitude(a) - a = 2 * k
         /\ \E k \in Int : Magnitude(a) + a = 2 * k
<1>1. CASE a < 0
  <2>1. Magnitude(a) = -a  BY <1>1 DEF Magnitude
  <2>2. Magnitude(a) - a = 2 * (-a) /\ Magnitude(a) + a = 2 * 0  BY <2>1
  <2> QED  BY <1>1, <2>1, <2>2
<1>2. CASE a >= 0
  <2>1. Magnitude(a) = a  BY <1>2 DEF Magnitude
  <2>2. Magnitude(a) - a = 2 * 0 /\ Magnitude(a) + a = 2 * a  BY <2>1
  <2> QED  BY <1>2, <2>1, <2>2
<1> QED  BY <1>1, <1>2

\* Adding an even number keeps a number even.
LEMMA EvenLemma ==
  ASSUME NEW x \in Int, NEW k \in Int, x % 2 = 0
  PROVE  (x + 2 * k) % 2 = 0
  OBVIOUS

LEMMA InitLemma == PaymentsInit => PaymentsInv
<1> SUFFICES ASSUME PaymentsInit PROVE PaymentsInv
  OBVIOUS
<1> USE PaymentsAssumption DEF PaymentsInit, NoChannel
<1>1. PaymentsTypeOK
  BY DEF PaymentsTypeOK, InvoiceStatus, EscrowStatus, ChannelStatus
<1>2. PaidAtMostOnce  BY DEF PaidAtMostOnce
<1>3. BridgeKeepsTasksApart  BY DEF BridgeKeepsTasksApart
<1>4. ChannelNetWithinVolume  BY DEF ChannelNetWithinVolume
<1> QED  BY <1>1, <1>2, <1>3, <1>4 DEF PaymentsInv

LEMMA InvoiceStep ==
  ASSUME PaymentsInv, NEW i \in Invoices,
         (\E a \in Amounts : CreateInvoice(i, a)) \/ PayInvoice(i)
  PROVE  PaymentsInv'
<1> USE DEF PaymentsInv
<1>1. /\ invoice' \in [Invoices -> InvoiceStatus]
      /\ UNCHANGED <<escrow, payouts, channel, taskEscrow>>
  BY DEF CreateInvoice, PayInvoice, PaymentsTypeOK, InvoiceStatus
<1>2. PaymentsTypeOK'  BY <1>1 DEF PaymentsTypeOK
<1>3. PaidAtMostOnce'  BY <1>1 DEF PaidAtMostOnce
<1>4. BridgeKeepsTasksApart'  BY <1>1 DEF BridgeKeepsTasksApart
<1>5. ChannelNetWithinVolume'  BY <1>1 DEF ChannelNetWithinVolume
<1> QED  BY <1>2, <1>3, <1>4, <1>5

\* A new escrow was never paid out of, and no task points to it yet.
LEMMA CreateEscrowStep ==
  ASSUME PaymentsInv, NEW e \in Escrows, NEW t \in Tasks,
         CreateEscrow(e, t), UNCHANGED <<invoice, payouts, channel, taskEscrow>>
  PROVE  PaymentsInv'
<1> USE DEF PaymentsInv, CreateEscrow, NewEscrow
<1>1. PaymentsTypeOK'
  BY DEF PaymentsTypeOK, EscrowStatus
<1>2. \A x \in Escrows : x # e => escrow'[x] = escrow[x]
  BY DEF PaymentsTypeOK
<1>3. escrow'[e] = NewEscrow(t)
  BY DEF PaymentsTypeOK
<1>4. PaidAtMostOnce'
  BY <1>2, <1>3 DEF PaidAtMostOnce
<1>5. BridgeKeepsTasksApart'
  <2>1. \A u \in Tasks : taskEscrow[u] # e
    BY PaymentsAssumption DEF BridgeKeepsTasksApart
  <2>2. \A u \in Tasks : taskEscrow[u] # NoEscrow => escrow'[taskEscrow[u]] = escrow[taskEscrow[u]]
    BY <1>2, <2>1 DEF PaymentsTypeOK
  <2> QED
    BY <2>2 DEF BridgeKeepsTasksApart
<1>6. ChannelNetWithinVolume'  BY DEF ChannelNetWithinVolume
<1> QED  BY <1>1, <1>4, <1>5, <1>6

\* What any change of one escrow's status and counts must satisfy.
LEMMA SettleStep ==
  ASSUME PaymentsInv, NEW e \in Escrows, NEW s \in {"RELEASED", "REFUNDED"}, NEW d \in BOOLEAN,
         NEW p \in [released : 0 .. 1, refunded : 0 .. 2],
         escrow[e].status # "NONE",
         escrow' = [escrow EXCEPT ![e].status = s, ![e].direct = d],
         payouts' = [payouts EXCEPT ![e] = p],
         UNCHANGED <<invoice, channel, taskEscrow>>
  PROVE  PaymentsInv'
<1> USE DEF PaymentsInv
<1>1. PaymentsTypeOK'
  <2> DEFINE Types == [status : EscrowStatus, task : SUBSET Tasks, direct : BOOLEAN]
             settled == [escrow[e] EXCEPT !.status = s, !.direct = d]
  <2>1. escrow \in [Escrows -> Types] /\ s \in EscrowStatus
    BY DEF PaymentsTypeOK, EscrowStatus
  <2>2. settled \in Types
    <3> HIDE DEF PaymentsInv
    <3>1. escrow[e] \in Types  BY <2>1
    <3> QED  BY <2>1, <3>1
  <2>3. escrow' \in [Escrows -> Types]
    <3>1. escrow' = [escrow EXCEPT ![e] = settled]
      OBVIOUS
    <3> HIDE DEF Types, settled, PaymentsInv
    <3> QED  BY <2>1, <2>2, <3>1
  <2>4. payouts' \in [Escrows -> [released : 0 .. 1, refunded : 0 .. 2]]
    BY DEF PaymentsTypeOK
  <2> QED  BY <2>3, <2>4 DEF PaymentsTypeOK
<1>2. \A x \in Escrows : x # e => escrow'[x] = escrow[x] /\ payouts'[x] = payouts[x]
  BY DEF PaymentsTypeOK
<1>3. escrow'[e].status = s /\ escrow'[e].task = escrow[e].task /\ payouts'[e] = p
  BY DEF PaymentsTypeOK
<1>4. PaidAtMostOnce'
  <2>1. p.released <= 1
    OBVIOUS
  <2>2. payouts'[e].released <= 1 /\ escrow'[e].status \notin {"NONE", "HELD"}
    BY ONLY <1>3, <2>1, s \in {"RELEASED", "REFUNDED"}
  <2> QED
    BY ONLY <1>2, <2>2, PaymentsInv DEF PaymentsInv, PaidAtMostOnce
<1>5. BridgeKeepsTasksApart'
  BY <1>2, <1>3 DEF BridgeKeepsTasksApart, PaymentsTypeOK
<1>6. ChannelNetWithinVolume'  BY DEF ChannelNetWithinVolume
<1> QED  BY <1>1, <1>4, <1>5, <1>6

LEMMA ReleaseEscrowStep ==
  ASSUME PaymentsInv, NEW e \in Escrows, NEW d \in BOOLEAN, ReleaseEscrow(e, d)
  PROVE  PaymentsInv'
<1> DEFINE p == [payouts[e] EXCEPT !.released = @ + 1]
<1>1. payouts[e] \in [released : 0 .. 1, refunded : 0 .. 2] /\ payouts[e].released = 0
  BY DEF ReleaseEscrow, CanRelease, PaymentsInv, PaymentsTypeOK, PaidAtMostOnce
<1>2. p \in [released : 0 .. 1, refunded : 0 .. 2]
  BY <1>1
<1>3. (escrow[e].direct \/ d) \in BOOLEAN
  OBVIOUS
<1> QED
  BY <1>2, <1>3, SettleStep DEF ReleaseEscrow, CanRelease

LEMMA RefundEscrowStep ==
  ASSUME PaymentsInv, NEW e \in Escrows, NEW d \in BOOLEAN, RefundEscrow(e, d)
  PROVE  PaymentsInv'
<1> DEFINE p == [payouts[e] EXCEPT !.refunded = IF @ < 2 THEN @ + 1 ELSE @]
<1>1. payouts[e] \in [released : 0 .. 1, refunded : 0 .. 2]
  BY DEF PaymentsInv, PaymentsTypeOK
<1>2. p \in [released : 0 .. 1, refunded : 0 .. 2]
  BY <1>1
<1>3. (escrow[e].direct \/ d) \in BOOLEAN
  OBVIOUS
<1> QED
  BY <1>2, <1>3, SettleStep DEF RefundEscrow

LEMMA OpenChannelStep ==
  ASSUME PaymentsInv, NEW h \in Channels, NEW a \in Amounts, OpenChannel(h, a)
  PROVE  PaymentsInv'
<1> USE PaymentsAssumption DEF PaymentsInv, OpenChannel
<1>1. PaymentsTypeOK'  BY DEF PaymentsTypeOK, ChannelStatus
<1>2. PaidAtMostOnce'  BY DEF PaidAtMostOnce
<1>3. BridgeKeepsTasksApart'  BY DEF BridgeKeepsTasksApart
<1>4. ChannelNetWithinVolume'
  <2>1. /\ \A k \in Channels : k # h => channel'[k] = channel[k]
        /\ channel'[h].balance = a /\ channel'[h].opening = a /\ channel'[h].volume = 0
    BY DEF PaymentsTypeOK
  <2>2. a \in Int
    OBVIOUS
  <2> QED
    BY <2>1, <2>2 DEF ChannelNetWithinVolume, PaymentsTypeOK
<1> QED  BY <1>1, <1>2, <1>3, <1>4

\* A transfer moves the balance by as much as it adds to the volume.
LEMMA ChannelTransferStep ==
  ASSUME PaymentsInv, NEW h \in Channels, NEW fromA \in BOOLEAN, NEW a \in Amounts,
         ChannelTransfer(h, fromA, a)
  PROVE  PaymentsInv'
<1> USE PaymentsAssumption
<1> DEFINE b == channel[h].balance
           v == channel[h].volume
           o == channel[h].opening
           b1 == IF fromA THEN b + a ELSE b - a
           v1 == v + Magnitude(a)
<1>1. /\ a \in Int /\ b \in Int /\ o \in Int /\ v \in 0 .. MaxVolume
      /\ b1 \in Int /\ v1 \in 0 .. MaxVolume
  BY MagnitudeLemma DEF PaymentsInv, PaymentsTypeOK, ChannelTransfer
<1>a. /\ channel \in [Channels -> [status : ChannelStatus, balance : Int,
                                   volume : 0 .. MaxVolume, opening : Int]]
      /\ channel' = [channel EXCEPT ![h].balance = b1, ![h].volume = v1]
  BY DEF PaymentsInv, PaymentsTypeOK, ChannelTransfer
<1> HIDE DEF b1, v1
<1>2. /\ \A k \in Channels : k # h => channel'[k] = channel[k]
      /\ channel'[h] = [channel[h] EXCEPT !.balance = b1, !.volume = v1]
      /\ channel' \in [Channels -> [status : ChannelStatus, balance : Int,
                                    volume : 0 .. MaxVolume, opening : Int]]
  BY <1>1, <1>a
<1> USE DEF b1, v1
<1>3. channel'[h].balance = b1 /\ channel'[h].volume = v1 /\ channel'[h].opening = o
  BY <1>2 DEF PaymentsInv, PaymentsTypeOK
<1>4. UNCHANGED <<invoice, escrow, payouts, taskEscrow>>
  BY DEF ChannelTransfer
<1>5. PaymentsTypeOK'  BY <1>2, <1>4 DEF PaymentsInv, PaymentsTypeOK
<1>6. PaidAtMostOnce'  BY <1>4 DEF PaymentsInv, PaidAtMostOnce
<1>7. BridgeKeepsTasksApart'  BY <1>4 DEF PaymentsInv, BridgeKeepsTasksApart
<1>8. ChannelNetWithinVolume'
  <2>1. -v <= b - o /\ b - o <= v /\ (v - (b - o)) % 2 = 0
    BY DEF PaymentsInv, ChannelNetWithinVolume
  <2>2. PICK k \in Int : v1 - (b1 - o) = (v - (b - o)) + 2 * k
    <3>1. CASE fromA
      <4>1. PICK k \in Int : Magnitude(a) - a = 2 * k  BY <1>1, MagnitudeLemma
      <4>2. Magnitude(a) \in Int  BY <1>1, MagnitudeLemma
      <4> QED  BY <1>1, <3>1, <4>1, <4>2
    <3>2. CASE ~fromA
      <4>1. PICK k \in Int : Magnitude(a) + a = 2 * k  BY <1>1, MagnitudeLemma
      <4>2. Magnitude(a) \in Int  BY <1>1, MagnitudeLemma
      <4> QED  BY <1>1, <3>2, <4>1, <4>2
    <3> QED  BY <3>1, <3>2
  <2>3. (v1 - (b1 - o)) % 2 = 0
    <3>1. v - (b - o) \in Int  BY <1>1
    <3> QED  BY <2>1, <2>2, <3>1, EvenLemma
  <2>4. -v1 <= b1 - o /\ b1 - o <= v1
    <3>1. Magnitude(a) \in Int /\ -Magnitude(a) <= a /\ a <= Magnitude(a)
      BY <1>1, MagnitudeLemma
    <3>2. v \in Int
      BY <1>1
    <3>3. CASE fromA
      <4>1. b1 = b + a  BY <3>3
      <4> HIDE DEF b, v, o, b1
      <4> QED  BY <1>1, <2>1, <3>1, <3>2, <4>1
    <3>4. CASE ~fromA
      <4>1. b1 = b - a  BY <3>4
      <4> HIDE DEF b, v, o, b1
      <4> QED  BY <1>1, <2>1, <3>1, <3>2, <4>1
    <3> QED  BY <3>3, <3>4
  <2>5. \A n \in Channels : n # h =>
          /\ -channel'[n].volume <= channel'[n].balance - channel'[n].opening
          /\ channel'[n].balance - channel'[n].opening <= channel'[n].volume
          /\ (channel'[n].volume - (channel'[n].balance - channel'[n].opening)) % 2 = 0
    BY <1>2 DEF PaymentsInv, ChannelNetWithinVolume
  <2> HIDE DEF b, v, o, b1, v1
  <2> QED
    BY <1>3, <2>3, <2>4, <2>5 DEF ChannelNetWithinVolume
<1> QED  BY <1>5, <1>6, <1>7, <1>8 DEF PaymentsInv

LEMMA CloseChannelStep ==
  ASSUME PaymentsInv, NEW h \in Channels, CloseChannel(h)
  PROVE  PaymentsInv'
<1> USE DEF PaymentsInv, CloseChannel
<1>1. PaymentsTypeOK'  BY DEF PaymentsTypeOK, ChannelStatus
<1>2. PaidAtMostOnce'  BY DEF PaidAtMostOnce
<1>3. BridgeKeepsTasksApart'  BY DEF BridgeKeepsTasksApart
<1>4. ChannelNetWithinVolume'
  <2>1. \A k \in Channels : /\ channel'[k].balance = channel[k].balance
                            /\ channel'[k].opening = channel[k].opening
                            /\ channel'[k].volume = channel[k].volume
    BY DEF PaymentsTypeOK
  <2> QED
    BY <2>1 DEF ChannelNetWithinVolume
<1> QED  BY <1>1, <1>2, <1>3, <1>4

\* The map's new entry is an escrow of this very task, and of no other entry.
LEMMA FundTaskStep ==
  ASSUME PaymentsInv, NEW t \in Tasks, NEW e \in Escrows, FundTask(t, e)
  PROVE  PaymentsInv'
<1> USE DEF PaymentsInv, FundTask, CreateEscrow, NewEscrow
<1>1. PaymentsTypeOK'
  BY DEF PaymentsTypeOK, EscrowStatus
<1>2. /\ \A x \in Escrows : x # e => escrow'[x] = escrow[x]
      /\ escrow'[e] = NewEscrow(t)
      /\ \A u \in Tasks : u # t => taskEscrow'[u] = taskEscrow[u]
      /\ taskEscrow'[t] = e
  BY DEF PaymentsTypeOK
<1>3. PaidAtMostOnce'
  BY <1>2 DEF PaidAtMostOnce
<1>4. BridgeKeepsTasksApart'
  <2>1. \A u \in Tasks : taskEscrow[u] # e
    BY PaymentsAssumption DEF BridgeKeepsTasksApart
  <2>2. \A u \in Tasks : u # t /\ taskEscrow'[u] # NoEscrow =>
          taskEscrow'[u] # e /\ escrow'[taskEscrow'[u]] = escrow[taskEscrow[u]]
    BY <1>2, <2>1 DEF PaymentsTypeOK
  <2> QED
    BY <1>2, <2>2 DEF BridgeKeepsTasksApart
<1>5. ChannelNetWithinVolume'  BY DEF ChannelNetWithinVolume
<1> QED  BY <1>1, <1>3, <1>4, <1>5

LEMMA StutterStep == PaymentsInv /\ UNCHANGED paymentVars => PaymentsInv'
<1> SUFFICES ASSUME PaymentsInv, UNCHANGED paymentVars PROVE PaymentsInv'
  OBVIOUS
<1> USE DEF PaymentsInv, paymentVars
<1>1. PaymentsTypeOK'  BY DEF PaymentsTypeOK
<1>2. PaidAtMostOnce'  BY DEF PaidAtMostOnce
<1>3. BridgeKeepsTasksApart'  BY DEF BridgeKeepsTasksApart
<1>4. ChannelNetWithinVolume'  BY DEF ChannelNetWithinVolume
<1> QED  BY <1>1, <1>2, <1>3, <1>4

LEMMA ServiceCallStep == PaymentsInv /\ ServiceCall => PaymentsInv'
<1> SUFFICES ASSUME PaymentsInv, ServiceCall PROVE PaymentsInv'
  OBVIOUS
<1>1. CASE \E i \in Invoices : (\E a \in Amounts : CreateInvoice(i, a)) \/ PayInvoice(i)
  BY <1>1, InvoiceStep
<1>2. CASE \E e \in Escrows, t \in Tasks :
             /\ CreateEscrow(e, t)
             /\ UNCHANGED <<invoice, payouts, channel, taskEscrow>>
  BY <1>2, CreateEscrowStep
<1>3. CASE \E e \in Escrows : ReleaseEscrow(e, TRUE) \/ RefundEscrow(e, TRUE)
  BY <1>3, ReleaseEscrowStep, RefundEscrowStep
<1>4. CASE \E h \in Channels, a \in Amounts :
             OpenChannel(h, a) \/ \E fromA \in BOOLEAN : ChannelTransfer(h, fromA, a)
  BY <1>4, OpenChannelStep, ChannelTransferStep
<1>5. CASE \E h \in Channels : CloseChannel(h)
  BY <1>5, CloseChannelStep
<1> QED  BY <1>1, <1>2, <1>3, <1>4, <1>5 DEF ServiceCall

LEMMA BridgeCallStep == PaymentsInv /\ BridgeCall => PaymentsInv'
<1> SUFFICES ASSUME PaymentsInv, NEW t \in Tasks,
                    \/ \E e \in Escrows : FundTask(t, e)
                    \/ OnTaskCompleted(t)
                    \/ OnTaskFailed(t)
             PROVE  PaymentsInv'
  BY DEF BridgeCall
<1>1. taskEscrow[t] # NoEscrow => taskEscrow[t] \in Escrows
  BY DEF PaymentsInv, PaymentsTypeOK
<1>2. CASE \E e \in Escrows : FundTask(t, e)
  BY <1>2, FundTaskStep
<1>3. CASE OnTaskCompleted(t)
  BY <1>1, <1>3, ReleaseEscrowStep, StutterStep DEF OnTaskCompleted
<1>4. CASE OnTaskFailed(t)
  BY <1>1, <1>4, RefundEscrowStep, StutterStep DEF OnTaskFailed
<1> QED  BY <1>2, <1>3, <1>4

\* The inductive invariant holds in every state of every run.
THEOREM PaymentsInvariant == PaymentsSpec => []PaymentsInv
<1>1. PaymentsInv /\ [ServiceCall \/ BridgeCall]_paymentVars => PaymentsInv'
  BY ServiceCallStep, BridgeCallStep, StutterStep
<1> QED
  BY InitLemma, <1>1, PTL DEF PaymentsSpec

\* Every variable keeps its type.
THEOREM PaymentsTypeCorrect == PaymentsSpec => []PaymentsTypeOK
<1>1. PaymentsInv => PaymentsTypeOK  BY DEF PaymentsInv
<1> QED  BY PaymentsInvariant, <1>1, PTL

\* No escrow is ever paid out twice to the payee, and what is held was not paid
\* to anybody: for any number of escrows, direct calls and callbacks.
THEOREM EscrowPaysOnce == PaymentsSpec => []PaidAtMostOnce
<1>1. PaymentsInv => PaidAtMostOnce  BY DEF PaymentsInv
<1> QED  BY PaymentsInvariant, <1>1, PTL

\* The bridge never settles a task out of another task's escrow.
THEOREM BridgeIsolation == PaymentsSpec => []BridgeKeepsTasksApart
<1>1. PaymentsInv => BridgeKeepsTasksApart  BY DEF PaymentsInv
<1> QED  BY PaymentsInvariant, <1>1, PTL

\* A channel's net transfer is within its volume and has its parity, for every
\* set of amounts of either sign and every bound.
THEOREM ChannelConservation == PaymentsSpec => []ChannelNetWithinVolume
<1>1. PaymentsInv => ChannelNetWithinVolume  BY DEF PaymentsInv
<1> QED  BY PaymentsInvariant, <1>1, PTL

\* RefundIsFinal's action, without the box.
RefundKept ==
  \A e \in Escrows : escrow[e].status = "REFUNDED" =>
    /\ escrow'[e].status = "REFUNDED"
    /\ payouts'[e].released = payouts[e].released

LEMMA RefundKeptStep ==
  ASSUME PaymentsTypeOK, [ServiceCall \/ BridgeCall]_paymentVars
  PROVE  RefundKept
<1>1. CASE UNCHANGED <<escrow, payouts>>
  BY <1>1 DEF RefundKept
<1>2. ASSUME NEW e \in Escrows, NEW t \in Tasks, CreateEscrow(e, t), UNCHANGED payouts
      PROVE  RefundKept
  BY <1>2 DEF CreateEscrow, RefundKept, PaymentsTypeOK
<1>3. ASSUME NEW e \in Escrows, NEW d \in BOOLEAN, ReleaseEscrow(e, d)
      PROVE  RefundKept
  BY <1>3 DEF ReleaseEscrow, CanRelease, RefundKept, PaymentsTypeOK
<1>4. ASSUME NEW e \in Escrows, NEW d \in BOOLEAN, RefundEscrow(e, d)
      PROVE  RefundKept
  BY <1>4 DEF RefundEscrow, RefundKept, PaymentsTypeOK
<1>5. CASE ServiceCall
  <2>1. ASSUME NEW h \in Channels, NEW a \in Amounts,
               OpenChannel(h, a) \/ \E fromA \in BOOLEAN : ChannelTransfer(h, fromA, a)
        PROVE  UNCHANGED <<escrow, payouts>>
    BY <2>1 DEF OpenChannel, ChannelTransfer
  <2>2. ASSUME NEW i \in Invoices, (\E a \in Amounts : CreateInvoice(i, a)) \/ PayInvoice(i)
        PROVE  UNCHANGED <<escrow, payouts>>
    BY <2>2 DEF CreateInvoice, PayInvoice
  <2>3. ASSUME NEW h \in Channels, CloseChannel(h)
        PROVE  UNCHANGED <<escrow, payouts>>
    BY <2>3 DEF CloseChannel
  <2> QED
    BY <1>1, <1>2, <1>3, <1>4, <1>5, <2>1, <2>2, <2>3 DEF ServiceCall
<1>6. CASE BridgeCall
  <2>1. PICK t \in Tasks : \/ \E e \in Escrows : FundTask(t, e)
                           \/ OnTaskCompleted(t)
                           \/ OnTaskFailed(t)
    BY <1>6 DEF BridgeCall
  <2>2. taskEscrow[t] # NoEscrow => taskEscrow[t] \in Escrows
    BY DEF PaymentsTypeOK
  <2>3. CASE \E e \in Escrows : FundTask(t, e)
    BY <1>2, <2>3 DEF FundTask
  <2>4. CASE OnTaskCompleted(t)
    BY <1>1, <1>3, <2>2, <2>4 DEF OnTaskCompleted, paymentVars
  <2>5. CASE OnTaskFailed(t)
    BY <1>1, <1>4, <2>2, <2>5 DEF OnTaskFailed, paymentVars
  <2> QED  BY <2>1, <2>3, <2>4, <2>5
<1>7. CASE UNCHANGED paymentVars
  BY <1>1, <1>7 DEF paymentVars
<1> QED  BY <1>5, <1>6, <1>7

\* Money that was given back to the payer is never paid out again.
THEOREM RefundsAreFinal == PaymentsSpec => RefundIsFinal
<1>1. PaymentsTypeOK /\ [ServiceCall \/ BridgeCall]_paymentVars => [RefundKept]_paymentVars
  BY RefundKeptStep
<1> QED
  BY PaymentsTypeCorrect, <1>1, PTL DEF PaymentsSpec, RefundIsFinal, RefundKept
-----------------------------------------------------------------------------
(* Tasks with payments                                                     *)

\* No task has an outcome before its third step.
WalkOK(p) ==
  /\ Len(p) >= 1 => p[1] \in {"ASSIGNED", "CANCELLED"}
  /\ Len(p) >= 2 => p[2] \in {"IN_PROGRESS", "CANCELLED"}

PathsOK ==
  /\ path \in [Tasks -> Seq(TASK_STATUSES)]
  /\ told \in [Tasks -> SUBSET Nat]
  /\ \A t \in Tasks : WalkOK(path[t]) /\ told[t] \subseteq 0 .. Len(path[t])

\* An escrow that exists is never created again, so an early one stays early and
\* a late one never gets among them.
EarlyOK == early \subseteq Escrows /\ \A e \in early : escrow[e].status # "NONE"

\* What the bridge does when it hears of the status s.
Effect(s) ==
  CASE s = "COMPLETED" -> "RELEASED"
    [] s = "FAILED"    -> "REFUNDED"
    [] OTHER           -> "HELD"

\* The escrow of a task in its first attempt is as the announcements left it.
SettledAsHeard ==
  \A t \in Tasks :
    taskEscrow[t] \in early /\ ~ escrow[taskEscrow[t]].direct /\ Len(path[t]) <= 3 =>
      escrow[taskEscrow[t]].status = IF 3 \in told[t] THEN Effect(path[t][3]) ELSE "HELD"

TPInv == PaymentsInv /\ PathsOK /\ EarlyOK /\ PaymentFollowsTask /\ SettledAsHeard

LEMMA TPInit == Init => TPInv
<1> SUFFICES ASSUME Init PROVE TPInv
  OBVIOUS
<1>1. PaymentsInv
  BY InitLemma DEF Init
<1>2. path = [t \in Tasks |-> <<>>] /\ told = [t \in Tasks |-> {}] /\ early = {}
  BY DEF Init, Protocol!Init
<1>3. PathsOK
  BY <1>2 DEF PathsOK, WalkOK
<1>4. EarlyOK /\ SettledAsHeard
  BY <1>2 DEF EarlyOK, SettledAsHeard
<1>5. PaymentFollowsTask
  BY DEF Init, PaymentsInit, PaymentFollowsTask
<1> QED  BY <1>1, <1>3, <1>4, <1>5 DEF TPInv

-----------------------------------------------------------------------------
(* A task takes a step.                                                    *)

\* One more step of a legal walk: what was reached stays reached, and the first
\* outcome comes third at the earliest (amp_sdk.py:105-112).
LEMMA WalkOn ==
  ASSUME NEW p \in Seq(TASK_STATUSES), WalkOK(p),
         NEW s \in VALID_TRANSITIONS[IF p = <<>> THEN "CREATED" ELSE p[Len(p)]]
  PROVE  /\ Append(p, s) \in Seq(TASK_STATUSES)
         /\ WalkOK(Append(p, s))
         /\ Len(Append(p, s)) = Len(p) + 1
         /\ \A i \in 1 .. Len(p) : Append(p, s)[i] = p[i]
<1>1. Len(p) \in Nat /\ (p = <<>> <=> Len(p) = 0)
  OBVIOUS
<1>2. \A i \in 1 .. Len(p) : p[i] \in TASK_STATUSES
  OBVIOUS
<1>3. s \in TASK_STATUSES
  <2>1. (IF p = <<>> THEN "CREATED" ELSE p[Len(p)]) \in TASK_STATUSES
    BY <1>1, <1>2 DEF TASK_STATUSES
  <2> QED  BY <2>1 DEF VALID_TRANSITIONS, TASK_STATUSES
<1>4. /\ Append(p, s) \in Seq(TASK_STATUSES) /\ Len(Append(p, s)) = Len(p) + 1
      /\ \A i \in 1 .. Len(p) : Append(p, s)[i] = p[i]
      /\ Append(p, s)[Len(p) + 1] = s
  BY <1>1, <1>3
<1>5. WalkOK(Append(p, s))
  <2>1. CASE Len(p) = 0
    <3>1. s \in {"ASSIGNED", "CANCELLED"}
      BY <1>1, <2>1 DEF VALID_TRANSITIONS, TASK_STATUSES
    <3> QED  BY <1>4, <2>1, <3>1 DEF WalkOK
  <2>2. CASE Len(p) = 1
    <3>1. p[1] \in {"ASSIGNED", "CANCELLED"} /\ s \in VALID_TRANSITIONS[p[1]]
      BY <1>1, <2>2 DEF WalkOK
    <3>2. s \in {"IN_PROGRESS", "CANCELLED"}
      BY <3>1 DEF VALID_TRANSITIONS, TASK_STATUSES
    <3> QED  BY <1>4, <2>2, <3>1, <3>2 DEF WalkOK
  <2>3. CASE Len(p) >= 2
    <3>1. p[1] \in {"ASSIGNED", "CANCELLED"} /\ p[2] \in {"IN_PROGRESS", "CANCELLED"}
      BY <1>1, <2>3 DEF WalkOK
    <3>2. Append(p, s)[1] = p[1] /\ Append(p, s)[2] = p[2]
      BY <1>1, <1>4, <2>3
    <3> QED  BY <3>1, <3>2 DEF WalkOK
  <2>4. Len(p) = 0 \/ Len(p) = 1 \/ Len(p) >= 2
    <3>1. \A k \in Nat : k = 0 \/ k = 1 \/ k >= 2
      OBVIOUS
    <3>2. Len(p) \in Nat
      BY <1>1
    <3> QED  BY <3>1, <3>2, Zenon
  <2> QED  BY <2>1, <2>2, <2>3, <2>4
<1> QED  BY <1>4, <1>5

LEMMA MoveKeeps ==
  ASSUME TPInv, NEW t \in Tasks, Move(t)
  PROVE  TPInv'
<1>1. PICK s \in VALID_TRANSITIONS[Protocol!Current(t)] : path' = [path EXCEPT ![t] = Append(path[t], s)]
  BY DEF Move, Protocol!Move
<1>2. UNCHANGED <<invoice, escrow, payouts, channel, taskEscrow, told, early>>
  BY DEF Move, Protocol!Move, paymentVars
<1>3. PathsOK
  BY DEF TPInv
<1>4. /\ Append(path[t], s) \in Seq(TASK_STATUSES)
      /\ WalkOK(Append(path[t], s))
      /\ Len(Append(path[t], s)) = Len(path[t]) + 1
      /\ \A i \in 1 .. Len(path[t]) : Append(path[t], s)[i] = path[t][i]
  BY <1>1, <1>3, WalkOn DEF PathsOK, Protocol!Current
<1>5. /\ path' \in [Tasks -> Seq(TASK_STATUSES)] /\ path'[t] = Append(path[t], s)
      /\ \A u \in Tasks : u # t => path'[u] = path[u]
      /\ \A u \in Tasks : Len(path[u]) \in Nat /\ Len(path'[u]) \in Nat /\ Len(path[u]) <= Len(path'[u])
  BY <1>1, <1>3, <1>4 DEF PathsOK
<1>6. \A u \in Tasks : \A i \in 1 .. Len(path[u]) : i \in 1 .. Len(path'[u]) /\ path'[u][i] = path[u][i]
  <2>1. ASSUME NEW u \in Tasks, NEW i \in 1 .. Len(path[u])
        PROVE  i \in 1 .. Len(path'[u]) /\ path'[u][i] = path[u][i]
    <3>1. i \in 1 .. Len(path'[u])
      BY <1>5
    <3>2. CASE u = t
      BY <1>4, <1>5, <3>1, <3>2
    <3>3. CASE u # t
      BY <1>5, <3>1, <3>3
    <3> QED  BY <3>2, <3>3
  <2> QED  BY <2>1
<1>7. PathsOK'
  <2>1. ASSUME NEW u \in Tasks PROVE WalkOK(path'[u]) /\ told'[u] \subseteq 0 .. Len(path'[u])
    <3>1. WalkOK(path'[u])
      BY <1>3, <1>4, <1>5 DEF PathsOK
    <3>2. told[u] \subseteq 0 .. Len(path[u])
      BY <1>3 DEF PathsOK
    <3> QED  BY <1>2, <1>5, <3>1, <3>2
  <2> QED  BY <1>2, <1>3, <1>5, <2>1 DEF PathsOK
<1>8. PaymentsInv'
  BY <1>2, StutterStep DEF TPInv, paymentVars
<1>9. EarlyOK'
  BY <1>2 DEF TPInv, EarlyOK
<1>10. PaymentFollowsTask'
  <2>1. \A u \in Tasks : \A x : Reached(u, x) => Reached(u, x)'
    BY <1>6 DEF Reached
  <2> QED  BY <1>2, <2>1 DEF TPInv, PaymentFollowsTask
<1>11. SettledAsHeard'
  <2> SUFFICES ASSUME NEW u \in Tasks, taskEscrow[u] \in early, ~ escrow[taskEscrow[u]].direct,
                      Len(path'[u]) <= 3
               PROVE  escrow[taskEscrow[u]].status = IF 3 \in told[u] THEN Effect(path'[u][3]) ELSE "HELD"
    BY <1>2 DEF SettledAsHeard
  <2>1. escrow[taskEscrow[u]].status = IF 3 \in told[u] THEN Effect(path[u][3]) ELSE "HELD"
    BY <1>5 DEF TPInv, SettledAsHeard
  <2>2. 3 \in told[u] => 3 \in 1 .. Len(path[u])
    BY <1>3, <1>5 DEF PathsOK
  <2> QED  BY <1>6, <2>1, <2>2
<1> QED  BY <1>7, <1>8, <1>9, <1>10, <1>11 DEF TPInv
-----------------------------------------------------------------------------
(* The room hears of a step, and the bridge settles.                       *)

\* One announcement: position n is told, and the bridge reacts to its status.
LEMMA OneIsTold ==
  ASSUME TPInv, NEW t \in Tasks, Announce(t)
  PROVE  \E n \in (0 .. Len(path[t])) \ told[t] :
           /\ told' = [told EXCEPT ![t] = told[t] \union {n}]
           /\ told'[t] = told[t] \union {n}
           /\ Settle(t, IF n = 0 THEN "CREATED" ELSE path[t][n])
           /\ path' = path /\ early' = early
<1>1. PICK n \in (0 .. Len(path[t])) \ told[t] : told' = [told EXCEPT ![t] = told[t] \union {n}]
  BY DEF Announce, Protocol!Tell
<1>2. path' = path /\ early' = early
  BY DEF Announce, Protocol!Tell
<1>3. told'[t] = told[t] \union {n}
  BY <1>1 DEF TPInv, PathsOK
<1>4. \A m \in told'[t] \ told[t] : Settle(t, IF m = 0 THEN "CREATED" ELSE path[t][m])
  BY DEF Announce
<1>5. Settle(t, IF n = 0 THEN "CREATED" ELSE path[t][n])
  BY <1>3, <1>4
<1> QED  BY <1>1, <1>2, <1>3, <1>5

\* What the bridge does touches the escrow of its task only
\* (armp_payments.py:314-327).
LEMMA SettleFrame ==
  ASSUME TPInv, NEW t \in Tasks, NEW s, Settle(t, s)
  PROVE  /\ PaymentsInv' /\ taskEscrow' = taskEscrow
         /\ \A e \in Escrows : escrow'[e].task = escrow[e].task
                               /\ (escrow'[e].direct <=> escrow[e].direct)
         /\ \A e \in Escrows : e # taskEscrow[t] => escrow'[e].status = escrow[e].status
         /\ taskEscrow[t] \in Escrows =>
              escrow'[taskEscrow[t]].status =
                CASE s = "COMPLETED" -> IF escrow[taskEscrow[t]].status = "HELD" THEN "RELEASED"
                                        ELSE escrow[taskEscrow[t]].status
                  [] s = "FAILED"    -> "REFUNDED"
                  [] OTHER           -> escrow[taskEscrow[t]].status
<1>1. /\ escrow \in [Escrows -> [status : EscrowStatus, task : SUBSET Tasks, direct : BOOLEAN]]
      /\ taskEscrow[t] \in Escrows \union {NoEscrow}
  BY DEF TPInv, PaymentsInv, PaymentsTypeOK
<1>2. CASE s = "COMPLETED"
  <2>1. OnTaskCompleted(t)
    BY <1>2 DEF Settle
  <2>2. PaymentsInv'
    BY <2>1, BridgeCallStep DEF BridgeCall, TPInv
  <2>3. CASE taskEscrow[t] # NoEscrow /\ CanRelease(taskEscrow[t])
    <3>1. ReleaseEscrow(taskEscrow[t], FALSE) /\ taskEscrow[t] \in Escrows
      BY <1>1, <2>1, <2>3 DEF OnTaskCompleted
    <3> QED  BY <1>1, <1>2, <2>2, <3>1 DEF ReleaseEscrow, CanRelease
  <2>4. CASE ~ (taskEscrow[t] # NoEscrow /\ CanRelease(taskEscrow[t]))
    <3>1. UNCHANGED paymentVars
      BY <2>1, <2>4 DEF OnTaskCompleted
    <3>2. taskEscrow[t] \in Escrows => escrow[taskEscrow[t]].status # "HELD"
      BY <2>4, PaymentsAssumption DEF CanRelease
    <3> QED  BY <1>2, <2>2, <3>1, <3>2 DEF paymentVars
  <2> QED  BY <2>3, <2>4
<1>3. CASE s = "FAILED"
  <2>1. OnTaskFailed(t)
    BY <1>3 DEF Settle
  <2>2. PaymentsInv'
    BY <2>1, BridgeCallStep DEF BridgeCall, TPInv
  <2>3. CASE taskEscrow[t] # NoEscrow
    <3>1. RefundEscrow(taskEscrow[t], FALSE) /\ taskEscrow[t] \in Escrows
      BY <1>1, <2>1, <2>3 DEF OnTaskFailed
    <3> QED  BY <1>1, <1>3, <2>2, <3>1 DEF RefundEscrow
  <2>4. CASE taskEscrow[t] = NoEscrow
    <3>1. UNCHANGED paymentVars /\ taskEscrow[t] \notin Escrows
      BY <2>1, <2>4, PaymentsAssumption DEF OnTaskFailed
    <3> QED  BY <2>2, <3>1 DEF paymentVars
  <2> QED  BY <2>3, <2>4
<1>4. CASE s \notin {"COMPLETED", "FAILED"}
  <2>1. UNCHANGED paymentVars
    BY <1>4 DEF Settle
  <2>2. PaymentsInv'
    BY <2>1, StutterStep DEF TPInv
  <2> QED  BY <1>4, <2>1, <2>2 DEF paymentVars
<1> QED  BY <1>2, <1>3, <1>4

LEMMA AnnounceKeeps ==
  ASSUME TPInv, NEW t \in Tasks, Announce(t)
  PROVE  TPInv'
<1>1. PICK n \in (0 .. Len(path[t])) \ told[t] :
        /\ told' = [told EXCEPT ![t] = told[t] \union {n}]
        /\ told'[t] = told[t] \union {n}
        /\ Settle(t, IF n = 0 THEN "CREATED" ELSE path[t][n])
        /\ path' = path /\ early' = early
  BY OneIsTold
<1> DEFINE s == IF n = 0 THEN "CREATED" ELSE path[t][n]
<1>2. /\ PaymentsInv' /\ taskEscrow' = taskEscrow
      /\ \A e \in Escrows : escrow'[e].task = escrow[e].task
                            /\ (escrow'[e].direct <=> escrow[e].direct)
      /\ \A e \in Escrows : e # taskEscrow[t] => escrow'[e].status = escrow[e].status
      /\ taskEscrow[t] \in Escrows =>
           escrow'[taskEscrow[t]].status =
             CASE s = "COMPLETED" -> IF escrow[taskEscrow[t]].status = "HELD" THEN "RELEASED"
                                     ELSE escrow[taskEscrow[t]].status
               [] s = "FAILED"    -> "REFUNDED"
               [] OTHER           -> escrow[taskEscrow[t]].status
  BY <1>1, SettleFrame
<1> HIDE DEF s
<1>3. PathsOK /\ Len(path[t]) \in Nat
  BY DEF TPInv, PathsOK
<1>4. PathsOK'
  BY <1>1, <1>3 DEF PathsOK
<1>5. taskEscrow[t] \in Escrows =>
        escrow[taskEscrow[t]].status # "NONE" /\ escrow[taskEscrow[t]].task = {t}
  BY PaymentsAssumption DEF TPInv, PaymentsInv, BridgeKeepsTasksApart
<1>6. EarlyOK'
  <2>1. ASSUME NEW e \in early PROVE escrow'[e].status # "NONE"
    <3>1. e \in Escrows /\ escrow[e].status # "NONE"
      BY DEF TPInv, EarlyOK
    <3>2. CASE e = taskEscrow[t]
      BY <1>2, <3>1, <3>2
    <3>3. CASE e # taskEscrow[t]
      BY <1>2, <3>1, <3>3
    <3> QED  BY <3>2, <3>3
  <2> QED  BY <1>1, <2>1 DEF TPInv, EarlyOK
<1>7. s \in {"COMPLETED", "FAILED"} => Reached(t, s)
  <2>1. s \in {"COMPLETED", "FAILED"} => n # 0 /\ s = path[t][n]
    BY DEF s
  <2> QED  BY <1>3, <2>1 DEF Reached
<1>8. PaymentFollowsTask'
  <2>1. \A u \in Tasks : \A x : Reached(u, x)' = Reached(u, x)
    BY <1>1 DEF Reached
  <2>2. ASSUME NEW e \in Escrows, NEW u \in Tasks, escrow'[e].task = {u}, ~ escrow'[e].direct
        PROVE  /\ escrow'[e].status = "RELEASED" => Reached(u, "COMPLETED")
               /\ escrow'[e].status = "REFUNDED" => Reached(u, "FAILED")
    <3>1. escrow[e].task = {u} /\ ~ escrow[e].direct
      BY <1>2, <2>2
    <3>2. /\ escrow[e].status = "RELEASED" => Reached(u, "COMPLETED")
          /\ escrow[e].status = "REFUNDED" => Reached(u, "FAILED")
      BY <3>1 DEF TPInv, PaymentFollowsTask
    <3>3. CASE e # taskEscrow[t]
      BY <1>2, <3>2, <3>3
    <3>4. CASE e = taskEscrow[t]
      <4>1. u = t
        BY <1>5, <3>1, <3>4
      <4>2. CASE s = "COMPLETED"
        BY <1>2, <1>7, <3>2, <3>4, <4>1, <4>2
      <4>3. CASE s = "FAILED"
        BY <1>2, <1>7, <3>2, <3>4, <4>1, <4>3
      <4>4. CASE s \notin {"COMPLETED", "FAILED"}
        BY <1>2, <3>2, <3>4, <4>4
      <4> QED  BY <4>2, <4>3, <4>4
    <3> QED  BY <3>3, <3>4
  <2> QED  BY <2>1, <2>2 DEF PaymentFollowsTask
<1>9. SettledAsHeard'
  <2> SUFFICES ASSUME NEW u \in Tasks, taskEscrow[u] \in early, ~ escrow'[taskEscrow[u]].direct,
                      Len(path[u]) <= 3
               PROVE  escrow'[taskEscrow[u]].status = IF 3 \in told'[u] THEN Effect(path[u][3]) ELSE "HELD"
    BY <1>1, <1>2 DEF SettledAsHeard
  <2>1. taskEscrow[u] \in Escrows
    BY DEF TPInv, EarlyOK
  <2>2. escrow[taskEscrow[u]].status = IF 3 \in told[u] THEN Effect(path[u][3]) ELSE "HELD"
    BY <1>2, <2>1 DEF TPInv, SettledAsHeard
  <2>3. CASE u # t
    <3>1. told'[u] = told[u]
      BY <1>1, <1>3, <2>3 DEF PathsOK
    <3>2. taskEscrow[u] # taskEscrow[t]
      BY <2>1, <2>3, PaymentsAssumption DEF TPInv, PaymentsInv, BridgeKeepsTasksApart
    <3> QED  BY <1>2, <2>1, <2>2, <3>1, <3>2
  <2>4. CASE u = t
    <3>1. CASE n = 3
      <4>1. s = path[u][3] /\ 3 \in told'[u]
        BY <1>1, <2>4, <3>1 DEF s
      <4>2. escrow[taskEscrow[u]].status = "HELD"
        BY <2>2, <2>4, <3>1
      <4>3. escrow'[taskEscrow[u]].status = Effect(s)
        BY <1>2, <2>1, <2>4, <4>2 DEF Effect
      <4> QED  BY <4>1, <4>3
    <3>2. CASE n # 3
      <4>1. n \in {0, 1, 2}
        BY <1>3, <2>4, <3>2
      <4>2. s \notin {"COMPLETED", "FAILED"}
        <5>1. n = 1 => s \in {"ASSIGNED", "CANCELLED"}
          BY <1>3 DEF s, PathsOK, WalkOK
        <5>2. n = 2 => s \in {"IN_PROGRESS", "CANCELLED"}
          BY <1>3 DEF s, PathsOK, WalkOK
        <5>3. n = 0 => s = "CREATED"
          BY DEF s
        <5> QED  BY <4>1, <5>1, <5>2, <5>3
      <4>3. escrow'[taskEscrow[u]].status = escrow[taskEscrow[u]].status
        BY <1>2, <2>1, <2>4, <4>2
      <4>4. 3 \in told'[u] <=> 3 \in told[u]
        BY <1>1, <2>4, <3>2
      <4> QED  BY <2>2, <4>3, <4>4
    <3> QED  BY <3>1, <3>2
  <2> QED  BY <2>3, <2>4
<1> QED  BY <1>2, <1>4, <1>6, <1>8, <1>9 DEF TPInv
-----------------------------------------------------------------------------
(* Tasks are funded, and people call PaymentService.                       *)

LEMMA FundKeeps ==
  ASSUME TPInv, NEW t \in Tasks, Fund(t)
  PROVE  TPInv'
<1>1. PICK e \in Escrows : FundTask(t, e) /\ early' = early \union {x \in {e} : path[t] = <<>>}
  BY DEF Fund
<1>2. path' = path /\ told' = told
  BY DEF Fund
<1>3. /\ escrow[e].status = "NONE" /\ escrow'[e] = NewEscrow(t)
      /\ \A x \in Escrows : x # e => escrow'[x] = escrow[x]
      /\ taskEscrow'[t] = e /\ \A u \in Tasks : u # t => taskEscrow'[u] = taskEscrow[u]
  BY <1>1 DEF FundTask, CreateEscrow, TPInv, PaymentsInv, PaymentsTypeOK
<1>4. e \notin early
  BY <1>3 DEF TPInv, EarlyOK
<1>5. PaymentsInv'
  BY <1>1, BridgeCallStep DEF BridgeCall, TPInv
<1>6. PathsOK'
  BY <1>2 DEF TPInv, PathsOK
<1>7. EarlyOK'
  <2>1. ASSUME NEW x \in early' PROVE x \in Escrows /\ escrow'[x].status # "NONE"
    <3>1. CASE x = e
      BY <1>3, <3>1 DEF NewEscrow
    <3>2. CASE x # e
      <4>1. x \in early
        BY <1>1, <3>2
      <4> QED  BY <1>3, <3>2, <4>1 DEF TPInv, EarlyOK
    <3> QED  BY <3>1, <3>2
  <2> QED  BY <2>1 DEF EarlyOK
<1>8. PaymentFollowsTask'
  <2>1. \A u \in Tasks : \A x : Reached(u, x)' = Reached(u, x)
    BY <1>2 DEF Reached
  <2>2. ASSUME NEW x \in Escrows, NEW u \in Tasks, escrow'[x].task = {u}, ~ escrow'[x].direct
        PROVE  /\ escrow'[x].status = "RELEASED" => Reached(u, "COMPLETED")
               /\ escrow'[x].status = "REFUNDED" => Reached(u, "FAILED")
    <3>1. CASE x = e
      BY <1>3, <3>1 DEF NewEscrow
    <3>2. CASE x # e
      BY <1>3, <2>2, <3>2 DEF TPInv, PaymentFollowsTask
    <3> QED  BY <3>1, <3>2
  <2> QED  BY <2>1, <2>2 DEF PaymentFollowsTask
<1>9. SettledAsHeard'
  <2> SUFFICES ASSUME NEW u \in Tasks, taskEscrow'[u] \in early', ~ escrow'[taskEscrow'[u]].direct,
                      Len(path[u]) <= 3
               PROVE  escrow'[taskEscrow'[u]].status = IF 3 \in told[u] THEN Effect(path[u][3]) ELSE "HELD"
    BY <1>2 DEF SettledAsHeard
  <2>1. CASE u = t
    <3>1. path[t] = <<>>
      BY <1>1, <1>3, <1>4, <2>1
    <3>2. 3 \notin told[t]
      BY <3>1 DEF TPInv, PathsOK
    <3> QED  BY <1>3, <2>1, <3>2 DEF NewEscrow
  <2>2. CASE u # t
    <3>1. taskEscrow'[u] = taskEscrow[u]
      BY <1>3, <2>2
    <3>2. taskEscrow[u] # e
      BY <1>3, PaymentsAssumption DEF TPInv, PaymentsInv, BridgeKeepsTasksApart
    <3>3. taskEscrow[u] \in early
      BY <1>1, <3>1, <3>2
    <3>4. escrow'[taskEscrow[u]] = escrow[taskEscrow[u]]
      BY <1>3, <3>2, <3>3 DEF TPInv, EarlyOK
    <3>5. escrow[taskEscrow[u]].status = IF 3 \in told[u] THEN Effect(path[u][3]) ELSE "HELD"
      BY <3>1, <3>3, <3>4 DEF TPInv, SettledAsHeard
    <3> QED  BY <3>1, <3>4, <3>5
  <2> QED  BY <2>1, <2>2
<1> QED  BY <1>5, <1>6, <1>7, <1>8, <1>9 DEF TPInv

\* A call on PaymentService creates an escrow, marks one as settled by hand, or
\* leaves the escrows alone; it never touches the bridge's map.
LEMMA ServiceFrame ==
  ASSUME TPInv, ServiceCall
  PROVE  /\ taskEscrow' = taskEscrow
         /\ \A e \in Escrows :
              \/ escrow'[e] = escrow[e]
              \/ escrow[e].status = "NONE" /\ escrow'[e].status = "HELD"
              \/ escrow'[e].status # "NONE" /\ escrow'[e].direct
<1>1. escrow \in [Escrows -> [status : EscrowStatus, task : SUBSET Tasks, direct : BOOLEAN]]
  BY DEF TPInv, PaymentsInv, PaymentsTypeOK
<1>2. CASE \E i \in Invoices : (\E a \in Amounts : CreateInvoice(i, a)) \/ PayInvoice(i)
  BY <1>2 DEF CreateInvoice, PayInvoice
<1>3. ASSUME NEW x \in Escrows, NEW t \in Tasks, CreateEscrow(x, t),
             UNCHANGED <<invoice, payouts, channel, taskEscrow>>
      PROVE  /\ taskEscrow' = taskEscrow
             /\ \A e \in Escrows :
                  escrow'[e] = escrow[e] \/ (escrow[e].status = "NONE" /\ escrow'[e].status = "HELD")
  BY <1>1, <1>3 DEF CreateEscrow, NewEscrow
<1>4. ASSUME NEW x \in Escrows, ReleaseEscrow(x, TRUE) \/ RefundEscrow(x, TRUE)
      PROVE  /\ taskEscrow' = taskEscrow
             /\ \A e \in Escrows :
                  escrow'[e] = escrow[e] \/ (escrow'[e].status # "NONE" /\ escrow'[e].direct)
  BY <1>1, <1>4 DEF ReleaseEscrow, RefundEscrow
<1>5. CASE \E h \in Channels, a \in Amounts :
             OpenChannel(h, a) \/ \E fromA \in BOOLEAN : ChannelTransfer(h, fromA, a)
  BY <1>5 DEF OpenChannel, ChannelTransfer
<1>6. CASE \E h \in Channels : CloseChannel(h)
  BY <1>6 DEF CloseChannel
<1> QED  BY <1>2, <1>3, <1>4, <1>5, <1>6 DEF ServiceCall

LEMMA CallKeeps ==
  ASSUME TPInv, Call
  PROVE  TPInv'
<1>1. ServiceCall /\ path' = path /\ told' = told /\ early' = early
  BY DEF Call
<1>2. PaymentsInv'
  BY <1>1, ServiceCallStep DEF TPInv
<1>3. PathsOK'
  BY <1>1 DEF TPInv, PathsOK
<1>4. /\ taskEscrow' = taskEscrow
      /\ \A e \in Escrows :
           \/ escrow'[e] = escrow[e]
           \/ escrow[e].status = "NONE" /\ escrow'[e].status = "HELD"
           \/ escrow'[e].status # "NONE" /\ escrow'[e].direct
  BY <1>1, ServiceFrame
<1>5. EarlyOK'
  BY <1>1, <1>4 DEF TPInv, EarlyOK
<1>6. PaymentFollowsTask'
  <2>1. \A u \in Tasks : \A x : Reached(u, x)' = Reached(u, x)
    BY <1>1 DEF Reached
  <2>2. ASSUME NEW e \in Escrows, NEW u \in Tasks, escrow'[e].task = {u}, ~ escrow'[e].direct
        PROVE  /\ escrow'[e].status = "RELEASED" => Reached(u, "COMPLETED")
               /\ escrow'[e].status = "REFUNDED" => Reached(u, "FAILED")
    BY <1>4, <2>2 DEF TPInv, PaymentFollowsTask
  <2> QED  BY <2>1, <2>2 DEF PaymentFollowsTask
<1>7. SettledAsHeard'
  <2> SUFFICES ASSUME NEW u \in Tasks, taskEscrow[u] \in early, ~ escrow'[taskEscrow[u]].direct,
                      Len(path[u]) <= 3
               PROVE  escrow'[taskEscrow[u]].status = IF 3 \in told[u] THEN Effect(path[u][3]) ELSE "HELD"
    BY <1>1, <1>4 DEF SettledAsHeard
  <2>1. taskEscrow[u] \in Escrows /\ escrow[taskEscrow[u]].status # "NONE"
    BY DEF TPInv, EarlyOK
  <2>2. escrow'[taskEscrow[u]] = escrow[taskEscrow[u]]
    BY <1>4, <2>1
  <2> QED  BY <2>2 DEF TPInv, SettledAsHeard
<1> QED  BY <1>2, <1>3, <1>5, <1>6, <1>7 DEF TPInv

LEMMA TPStep == TPInv /\ [Next]_vars => TPInv'
<1> SUFFICES ASSUME TPInv, [Next]_vars PROVE TPInv'
  OBVIOUS
<1>1. ASSUME NEW t \in Tasks, Move(t) \/ Announce(t) \/ Fund(t) PROVE TPInv'
  BY <1>1, MoveKeeps, AnnounceKeeps, FundKeeps
<1>2. CASE Call
  BY <1>2, CallKeeps
<1>3. CASE UNCHANGED vars
  <2>1. PaymentsInv'
    BY <1>3, StutterStep DEF TPInv, vars, paymentVars
  <2> QED  BY <1>3, <2>1 DEF TPInv, vars, PathsOK, EarlyOK, PaymentFollowsTask, Reached, SettledAsHeard
<1> QED  BY <1>1, <1>2, <1>3 DEF Next

-----------------------------------------------------------------------------
(* The theorems.                                                           *)

\* The inductive invariant holds in every reachable state: that of the payments,
\* legal walks and announcements of what was taken, and escrows that follow both.
THEOREM TaskPaymentsInvariant == Spec => []TPInv
<1>1. TPInv /\ [Next]_vars => TPInv'
  BY TPStep
<1> QED  BY <1>1, TPInit, PTL DEF Spec

\* The bridge pays only for tasks that were completed and refunds only those that
\* failed, however late and out of order it hears of them (armp_payments.py:314-327).
THEOREM PaymentsFollowTasks == Spec => []PaymentFollowsTask
<1>1. TPInv => PaymentFollowsTask
  BY DEF TPInv
<1> QED  BY <1>1, TaskPaymentsInvariant, PTL

\* A task that has taken three steps has taken one.
LEMMA ThreeMoves == \A p \in Seq(TASK_STATUSES) : Len(p) = 3 => p # << >>
  OBVIOUS

\* A task of one attempt that was funded in advance and told of in full is paid
\* for if it was completed and refunded if it failed (armp_payments.py:300-327).
THEOREM OneAttemptSettled == Spec => []OneAttemptSettlesRight
<1>1. ASSUME TPInv PROVE OneAttemptSettlesRight
  <2> SUFFICES ASSUME NEW t \in Tasks, Settled(t), Len(path[t]) = 3
               PROVE  escrow[taskEscrow[t]].status =
                        IF Protocol!Current(t) = "COMPLETED" THEN "RELEASED" ELSE "REFUNDED"
    BY DEF OneAttemptSettlesRight
  <2>1. 3 \in told[t]
    BY DEF Settled
  <2>2. Protocol!Current(t) = path[t][3]
    <3>1. path[t] \in Seq(TASK_STATUSES)
      BY <1>1 DEF TPInv, PathsOK
    <3>2. path[t] # << >>
      BY <3>1, ThreeMoves, Zenon
    <3> QED  BY <3>2, Zenon DEF Protocol!Current
  <2>3. path[t][3] \in {"COMPLETED", "FAILED"}
    BY <2>2 DEF Settled
  <2>4. escrow[taskEscrow[t]].status = Effect(path[t][3])
    <3>1. Len(path[t]) <= 3
      OBVIOUS
    <3>2. taskEscrow[t] \in early /\ ~ escrow[taskEscrow[t]].direct
      BY DEF Settled
    <3>3. escrow[taskEscrow[t]].status = IF 3 \in told[t] THEN Effect(path[t][3]) ELSE "HELD"
      BY <1>1, <3>1, <3>2, Zenon DEF TPInv, SettledAsHeard
    <3> QED  BY <2>1, <3>3
  <2> QED  BY <2>2, <2>3, <2>4 DEF Effect
<1> QED  BY <1>1, TaskPaymentsInvariant, PTL

\* Driven by tasks, the payments still do nothing but what people and callbacks
\* may ask of PaymentService: all that is proved of PaymentsSpec holds here, that
\* nothing is paid after a refund included (armp_payments.py:114-327).
THEOREM TaskPaymentsAreCalls == Spec => PaymentsSpec
<1>1. Init => PaymentsInit
  BY DEF Init
<1>2. ASSUME TPInv, [Next]_vars PROVE [ServiceCall \/ BridgeCall]_paymentVars
  <2>1. ASSUME NEW t \in Tasks, Move(t) PROVE UNCHANGED paymentVars
    BY <2>1 DEF Move
  <2>2. ASSUME NEW t \in Tasks, Announce(t)
        PROVE  BridgeCall \/ UNCHANGED paymentVars
    <3>1. PICK n : Settle(t, IF n = 0 THEN "CREATED" ELSE path[t][n])
      BY <1>2, <2>2, OneIsTold
    <3>2. OnTaskCompleted(t) \/ OnTaskFailed(t) \/ UNCHANGED paymentVars
      BY <3>1, Zenon DEF Settle
    <3> QED  BY <3>2, Zenon DEF BridgeCall
  <2>3. ASSUME NEW t \in Tasks, Fund(t) PROVE BridgeCall
    BY <2>3, Zenon DEF Fund, BridgeCall
  <2>4. CASE Call
    BY <2>4 DEF Call
  <2>5. CASE UNCHANGED vars
    BY <2>5 DEF vars, paymentVars
  <2> QED  BY <1>2, <2>1, <2>2, <2>3, <2>4, <2>5, Zenon DEF Next
<1>3. TPInv /\ [Next]_vars => [ServiceCall \/ BridgeCall]_paymentVars
  BY <1>2
<1> QED  BY <1>1, <1>3, TaskPaymentsInvariant, PTL DEF Spec, PaymentsSpec
=============================================================================
