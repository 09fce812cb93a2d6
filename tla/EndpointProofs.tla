----------------------------- MODULE EndpointProofs -----------------------------
(***************************************************************************)
(* What GS and PVS were once answered about an order stays justified for   *)
(* ever, for any sets of orders and handlers: every answer leaves behind a *)
(* fact about the tables that no later step takes back.                    *)
(***************************************************************************)
EXTENDS Endpoints, RefundProofs

\* The order has no QR and no call that could still store one.
GivenUp(o) ==
  /\ Exists(o) /\ ~HasColumn(o, "pvs_qr")
  /\ \A p \in Procs : calls[p].pc \in Creating => Order(p) /= o

\* The order was decided against before its payment was stored.
IsOver(o) ==
  /\ HasColumn(o, "pvs_qr") /\ ~Paid(o)
  /\ orders[o].status \in {"CANCELLED", "FAILED", "REFUND_PENDING", "REFUNDED"}

\* The fact behind an answer about o.
Justified(o, answer) ==
  /\ answer = <<"approval", OK>> => Approved(o) /\ HasColumn(o, "pvs_qr") /\ ~Pending(o)
  /\ answer = <<"qr", OK>> => HasColumn(o, "pvs_qr")
  /\ answer = <<"cancelUnpaid", OK>> => IsOver(o)
  /\ answer \in {"qr"} \X (400..499) => GivenUp(o)

AnswersJustified == \A o \in ThirdOrderNos : \A answer \in heard[o] : Justified(o, answer)

\* GS cancels, or completes, only an order it got the QR of.
CancelsAreShown ==
  /\ \A p \in Procs : IsAt(p, "write") => HasColumn(Order(p), "pvs_qr")
  /\ \A o \in ThirdOrderNos : orders[o].status = "CANCELLED" => HasColumn(o, "pvs_qr")

EndpointInv ==
  heard \in [ThirdOrderNos -> SUBSET Remembered] /\ AnswersJustified /\ CancelsAreShown
-----------------------------------------------------------------------------
\* Answering does not change what the bridge does.
LEMMA EndpointsStep == [EndpointsNext]_endpointVars => [Next]_vars
<1>1. ASSUME NEW p \in Requests,
             AnswerNotInserted(p) \/ AnswerQR(p) \/ AnswerQRError(p) \/ AnswerCancel(p) \/ Acknowledge(p)
      PROVE  Handler(p) /\ p \in Procs
  BY <1>1 DEF AnswerNotInserted, AnswerQR, AnswerQRError, AnswerCancel, Acknowledge, Does, Handler,
              OrderServiceNext, Procs
<1> QED BY <1>1 DEF EndpointsNext, endpointVars, ReplayQR, AnswerCancelled, AcknowledgeIgnored, Next

LEMMA EndpointsRunBridge == EndpointsSpec => Spec
BY EndpointsStep, PTL DEF EndpointsSpec, Spec

\* A call that creates an order started when it had no row.
LEMMA WhoCreates ==
  ASSUME TypeOK, Next, NEW p \in Procs, calls'[p].pc \in Creating
  PROVE  (calls[p].pc \in Creating /\ calls'[p].ord = Order(p)) \/ ~Exists(calls'[p].ord)
<1> SUFFICES ASSUME calls'[p] /= calls[p]
             PROVE  (calls[p].pc \in Creating /\ calls'[p].ord = Order(p)) \/ ~Exists(calls'[p].ord)
  BY DEF Order
<1>t. calls \in [Procs -> CallRecords]
  BY DEF TypeOK
<1>1. \A q \in Procs : \A c : Becomes(q, c) => q = p /\ c = calls'[p]
  BY <1>t DEF Becomes
<1>2. /\ Idle.pc = "idle" /\ \A pc, x : At(pc, x).pc = pc /\ At(pc, x).ord = x
      /\ \A x, to : [At("write", x) EXCEPT !.to = to].pc = "write"
  BY DEF Idle, At
<1>3. ASSUME NEW q \in Procs, Handler(q)
      PROVE  (calls[p].pc \in Creating /\ calls'[p].ord = Order(p)) \/ ~Exists(calls'[p].ord)
  <2>1. CASE \E o \in ThirdOrderNos : \E lookupFails \in BOOLEAN : CreateOrder(q, o, lookupFails)
    BY <1>1, <1>2, <2>1 DEF CreateOrder
  <2>2. CASE InsertOrder(q) \/ GenerateQR(q) \/ GenerateQRFails(q)
    BY <1>1, <1>2, <2>2 DEF InsertOrder, GenerateQR, GenerateQRFails, IsAt, Creating
  <2>3. \A o, s : ~HandlePVSWebhook(q, o, s)
    BY <1>1 DEF HandlePVSWebhook, Creating
  <2>4. \A o, to : ~AcceptWrite(q, o, to)
    BY <1>1 DEF AcceptWrite, At, Creating
  <2>5. ~FailOrder(q) /\ ~ShowQR(q) /\ ~GuardedUpdate(q) /\ ~NotifyPayment(q) /\ ~MarkNotified(q)
        /\ ~WriteResult(q) /\ ~Abort(q)
    BY <1>1, <1>2 DEF FailOrder, ShowQR, GuardedUpdate, NotifyPayment, MarkNotified, WriteResult, Abort, Creating
  <2> QED BY <1>3, <2>1, <2>2, <2>3, <2>4, <2>5 DEF Handler, OrderServiceNext, CompleteOrder, CancelOrder
<1>4. ~ReconcilerNext
  <2>1. \A s : ~Reconcile(s) /\ ~RetryNotify(s) /\ ~QueryFails(s)
    BY <1>1, <1>2, WorkerIsProc DEF Reconcile, RetryNotify, QueryFails, serviceVars, Creating
  <2>2. ~Scan /\ ~ListUnnotified /\ ~EndPass /\ ~StopWorker
    BY <1>1, <1>2, WorkerIsProc DEF Scan, ListUnnotified, EndPass, StopWorker, serviceVars, Creating
  <2> QED BY <2>1, <2>2 DEF ReconcilerNext
<1>5. ~Environment
  BY DEF Environment, Pays, Rejected, Reversed, TimePasses, SnapshotBecomesDue, serviceVars
<1>6. \A r \in RefundRequests : ~RefundHandler(r)
  BY DEF RefundHandler, RefundServiceNext, serviceVars, Refund, InsertRefund, Reverse, ReverseFails, FailRefund,
         FailRefundOrder, PendingOrder, CloseRefund, AbortRefund
<1> QED BY <1>3, <1>4, <1>5, <1>6 DEF Next

\* A call that completes or cancels an order started when it had its QR.
LEMMA WhoCancels ==
  ASSUME TypeOK, Next, NEW p \in Procs, calls'[p].pc = "write"
  PROVE  calls'[p] = calls[p] \/ (calls'[p].ord \in ThirdOrderNos /\ HasColumn(calls'[p].ord, "pvs_qr"))
<1> SUFFICES ASSUME calls'[p] /= calls[p]
             PROVE  calls'[p].ord \in ThirdOrderNos /\ HasColumn(calls'[p].ord, "pvs_qr")
  OBVIOUS
<1>t. calls \in [Procs -> CallRecords]
  BY DEF TypeOK
<1>1. \A q \in Procs : \A c : Becomes(q, c) => q = p /\ c = calls'[p]
  BY <1>t DEF Becomes
<1>2. Idle.pc = "idle" /\ (\A pc, x : At(pc, x).pc = pc)
  BY DEF Idle, At
<1>3. ASSUME NEW q \in Procs, Handler(q)
      PROVE  calls'[p].ord \in ThirdOrderNos /\ HasColumn(calls'[p].ord, "pvs_qr")
  <2>1. ASSUME NEW o \in ThirdOrderNos, NEW to, AcceptWrite(q, o, to)
        PROVE  calls'[p].ord \in ThirdOrderNos /\ HasColumn(calls'[p].ord, "pvs_qr")
    <3>1. [At("write", o) EXCEPT !.to = to].ord = o
      BY DEF At
    <3> QED BY <1>1, <2>1, <3>1 DEF AcceptWrite
  <2>2. \A o \in ThirdOrderNos : \A lookupFails \in BOOLEAN : ~CreateOrder(q, o, lookupFails)
    BY <1>1, <1>2 DEF CreateOrder
  <2>3. \A o, s : ~HandlePVSWebhook(q, o, s)
    BY <1>1 DEF HandlePVSWebhook
  <2>4. ~InsertOrder(q) /\ ~GenerateQR(q) /\ ~GenerateQRFails(q) /\ ~FailOrder(q) /\ ~ShowQR(q)
    BY <1>1, <1>2 DEF InsertOrder, GenerateQR, GenerateQRFails, FailOrder, ShowQR
  <2>5. ~GuardedUpdate(q) /\ ~NotifyPayment(q) /\ ~MarkNotified(q) /\ ~WriteResult(q) /\ ~Abort(q)
    BY <1>1, <1>2 DEF GuardedUpdate, NotifyPayment, MarkNotified, WriteResult, Abort
  <2> QED BY <1>3, <2>1, <2>2, <2>3, <2>4, <2>5 DEF Handler, OrderServiceNext, CompleteOrder, CancelOrder
<1>4. ~ReconcilerNext
  <2>1. \A s : ~Reconcile(s) /\ ~RetryNotify(s) /\ ~QueryFails(s)
    BY <1>1, <1>2, WorkerIsProc DEF Reconcile, RetryNotify, QueryFails, serviceVars
  <2>2. ~Scan /\ ~ListUnnotified /\ ~EndPass /\ ~StopWorker
    BY <1>1, <1>2, WorkerIsProc DEF Scan, ListUnnotified, EndPass, StopWorker, serviceVars
  <2> QED BY <2>1, <2>2 DEF ReconcilerNext
<1>5. ~Environment
  BY DEF Environment, Pays, Rejected, Reversed, TimePasses, SnapshotBecomesDue, serviceVars
<1>6. \A r \in RefundRequests : ~RefundHandler(r)
  BY DEF RefundHandler, RefundServiceNext, serviceVars, Refund, InsertRefund, Reverse, ReverseFails, FailRefund,
         FailRefundOrder, PendingOrder, CloseRefund, AbortRefund
<1> QED BY <1>3, <1>4, <1>5, <1>6 DEF Next

LEMMA CancelsInductive ==
  /\ Init => CancelsAreShown
  /\ TypeOK /\ MoneyInv /\ SaleInv /\ CancelsAreShown /\ [Next]_vars => CancelsAreShown'
<1>1. Init => CancelsAreShown
  BY DEF Init, OrderRepoInit, OrderServiceInit, NoRow, Absent, Idle, IsAt, CancelsAreShown
<1>2. ASSUME UNCHANGED vars, CancelsAreShown
      PROVE  CancelsAreShown'
  BY <1>2 DEF vars, CancelsAreShown, IsAt, Order, HasColumn
<1>3. ASSUME TypeOK, MoneyInv, SaleInv, CancelsAreShown, Next
      PROVE  CancelsAreShown'
  <2>t. /\ orders \in [ThirdOrderNos -> Rows]
        /\ \A p \in Procs : ~IsAt(p, "idle") => Order(p) \in ThirdOrderNos
    BY <1>3 DEF TypeOK
  <2>k. \A o \in ThirdOrderNos : HasColumn(o, "pvs_qr") => HasColumn(o, "pvs_qr")'
    BY <1>3, RowsKeep DEF HasColumn
  <2>1. ASSUME NEW p \in Procs, calls'[p].pc = "write"
        PROVE  calls'[p].ord \in ThirdOrderNos /\ HasColumn(calls'[p].ord, "pvs_qr")
    BY <1>3, <2>1, <2>t, WhoCancels DEF CancelsAreShown, IsAt, Order
  <2>2. ASSUME NEW o \in ThirdOrderNos, orders'[o].status = "CANCELLED"
        PROVE  HasColumn(o, "pvs_qr")
    <3> SUFFICES ASSUME orders'[o].status /= orders[o].status
                 PROVE  HasColumn(o, "pvs_qr")
      BY <1>3, <2>2 DEF CancelsAreShown
    <3>1. ASSUME NEW status \in {"REFUND_PENDING", "REFUND_FAILED"}
          PROVE  ~UpdateStatus(o, status)
      BY <2>2, <2>t DEF UpdateStatus, UpdateStatusAndFields
    <3>2. PICK p \in Procs :
            /\ Order(p) = o
            /\ InsertOrder(p) \/ FailOrder(p) \/ ShowQR(p) \/ GuardedUpdate(p) \/ MarkNotified(p) \/ WriteResult(p)
      BY <1>3, <3>1, WhoWrites
    <3>3. ~InsertOrder(p) /\ ~FailOrder(p) /\ ~ShowQR(p) /\ ~MarkNotified(p)
      BY <2>2, <2>t, <3>2
         DEF InsertOrder, Create, FailOrder, ShowQR, MarkNotified, UpdateStatus, UpdateStatusAndFields
    <3>4. ~GuardedUpdate(p)
      BY <1>3, <2>2, <2>t, <3>2
         DEF GuardedUpdate, UpdateStatusGuardedAndFields, UpdateStatusAndFields, SaleInv, LegalWrites, LegalUpdate
    <3> QED BY <1>3, <3>2, <3>3, <3>4 DEF WriteResult, CancelsAreShown
  <2> QED BY <2>k, <2>1, <2>2 DEF CancelsAreShown, IsAt, Order, HasColumn
<1> QED BY <1>1, <1>2, <1>3

\* A sale that is over before its payment was stored stays so: the payment is never
\* stored, and no late write shows, times out or completes the order.
LEMMA OverForEver ==
  ASSUME TypeOK, MoneyInv, SaleInv, Next, NEW o \in ThirdOrderNos, IsOver(o)
  PROVE  IsOver(o)'
<1>t. orders \in [ThirdOrderNos -> Rows]
  BY DEF TypeOK
<1>1. HasColumn(o, "pvs_qr") /\ Exists(o) /\ ~Paid(o)
  BY DEF IsOver, Exists, Absent
<1>2. HasColumn(o, "pvs_qr")'
  BY <1>1, RowsKeep DEF HasColumn
<1>3. CASE orders'[o].status = orders[o].status /\ orders'[o].cols = orders[o].cols
  BY <1>3 DEF IsOver, HasColumn, Paid
<1>4. ASSUME NEW p \in Procs, Order(p) = o,
             InsertOrder(p) \/ FailOrder(p) \/ ShowQR(p) \/ GuardedUpdate(p) \/ MarkNotified(p) \/ WriteResult(p)
      PROVE  IsOver(o)'
  <2>1. CASE InsertOrder(p)
    BY <1>1, <1>3, <1>4, <2>1 DEF InsertOrder, SerialIsFree
  <2>2. CASE FailOrder(p)
    BY <1>t, <1>1, <1>2, <1>4, <2>2 DEF FailOrder, UpdateStatus, UpdateStatusAndFields, IsOver, HasColumn, Paid
  <2>3. CASE ShowQR(p)
    BY <1>1, <1>4, <2>3 DEF ShowQR, IsAt, SaleInv, NotShownYet
  <2>4. CASE GuardedUpdate(p) /\ Wins(p)
    <3>1. calls[p].to \in {"REFUND_PENDING", "REFUNDED"}
      BY <1>4, <2>4
         DEF GuardedUpdate, Wins, IsOver, SaleInv, LegalWrites, LegalUpdate, CanTransitionTo, Successors
    <3>2. UpdateStatusAndFields(o, calls[p].to, {})
      BY <1>4, <2>4, <3>1 DEF GuardedUpdate, Wins, UpdateStatusGuardedAndFields, PaymentFields
    <3> QED BY <1>t, <1>1, <1>2, <3>1, <3>2 DEF UpdateStatusAndFields, IsOver, HasColumn, Paid
  <2>5. CASE GuardedUpdate(p) /\ ~Wins(p)
    BY <1>3, <1>4, <2>5 DEF GuardedUpdate, Wins, UpdateStatusGuardedAndFields
  <2>6. CASE MarkNotified(p)
    BY <1>1, <1>4, <2>6 DEF MarkNotified, IsAt, MoneyInv, CallsKnowPayment
  <2>7. CASE WriteResult(p)
    <3>1. calls[p].to \in {"FAILED", "CANCELLED"}
      BY <1>1, <1>4, <2>7 DEF WriteResult, SaleInv, LegalWrites, MoneyInv, CallsKnowPayment
    <3>2. "payment_confirmed_at" \notin ResultFields(calls[p].to)
      BY <3>1 DEF ResultFields
    <3> QED BY <1>t, <1>1, <1>2, <1>4, <2>7, <3>1, <3>2
            DEF WriteResult, UpdateStatusAndFields, IsOver, HasColumn, Paid
  <2> QED BY <1>4, <2>1, <2>2, <2>3, <2>4, <2>5, <2>6, <2>7
<1>5. \A r \in RefundRequests : ~RefundIsAt(r, "idle") => rcalls[r].ord /= o
  BY <1>1 DEF MoneyInv, RefundsKnowPayment
<1> QED BY <1>3, <1>4, <1>5, WhoWrites

\* No step takes back the fact behind an answer.
LEMMA JustifiedForEver ==
  ASSUME TypeOK, MoneyInv, SaleInv, [Next]_vars, NEW o \in ThirdOrderNos, NEW answer, Justified(o, answer)
  PROVE  Justified(o, answer)'
<1>1. CASE UNCHANGED vars
  BY <1>1 DEF vars, Justified, GivenUp, IsOver, Approved, HasColumn, Pending, Paid, Exists, Order
<1>2. CASE Next
  <2>1. /\ Exists(o) => Exists(o)'
        /\ HasColumn(o, "pvs_qr") => HasColumn(o, "pvs_qr")'
        /\ HasColumn(o, "pvs_qr") /\ ~Pending(o) => ~Pending(o)'
        /\ HasColumn(o, "pvs_qr")' => HasColumn(o, "pvs_qr") \/ \E p \in Procs : ShowQR(p) /\ Order(p) = o
    BY <1>2, RowsKeep DEF HasColumn
  <2>2. Approved(o) => Approved(o)'
    BY <1>2, ReversalsAreFinal DEF ReversalsStay
  <2>3. ASSUME GivenUp(o) PROVE GivenUp(o)'
    <3>1. ~HasColumn(o, "pvs_qr")'
      BY <2>1, <2>3 DEF GivenUp, ShowQR, IsAt, Creating
    <3>2. \A p \in Procs : calls'[p].pc \in Creating => calls'[p].ord /= o
      BY <1>2, <2>3, WhoCreates DEF GivenUp
    <3> QED BY <2>1, <2>3, <3>1, <3>2 DEF GivenUp, Order
  <2>4. IsOver(o) => IsOver(o)'
    BY <1>2, OverForEver
  <2> QED BY <2>1, <2>2, <2>3, <2>4 DEF Justified
<1> QED BY <1>1, <1>2

\* A request for a QR that PVS refused leaves the order without a QR for ever.
LEMMA RefusedIsGivenUp ==
  ASSUME TypeOK, MoneyInv, SaleInv, NEW p \in Procs, IsAt(p, "failOrder"),
         FailOrder(p) \/ Abort(p), NEW o, o = Order(p)
  PROVE  GivenUp(o)'
<1>t. /\ orders \in [ThirdOrderNos -> Rows] /\ calls \in [Procs -> CallRecords]
      /\ o \in ThirdOrderNos
  BY DEF TypeOK, IsAt
<1>1. Exists(o) /\ ~HasColumn(o, "pvs_qr")
  BY DEF IsAt, SaleInv, CallsHaveRows, NotShownYet
<1>2. Exists(o)' /\ ~HasColumn(o, "pvs_qr")'
  BY <1>1, <1>t DEF FailOrder, Abort, UpdateStatus, UpdateStatusAndFields, Exists, HasColumn, Absent
<1>3. calls' = [calls EXCEPT ![p] = Idle]
  BY DEF FailOrder, Abort, Becomes
<1>4. \A q \in Procs : calls'[q].pc \in Creating => calls'[q].ord /= o
  BY <1>3, <1>t DEF IsAt, SaleInv, OneCreator, Idle, Creating, Order
<1> QED BY <1>2, <1>4 DEF GivenUp, Order

\* An approval that is acknowledged is booked, or was decided otherwise before.
LEMMA AcknowledgedIsDecided ==
  ASSUME TypeOK, MoneyInv, SaleInv, NEW p \in Procs, GuardedUpdate(p), calls[p].to = "PAYMENT_CONFIRMED",
         NEW o, o = Order(p)
  PROVE  (Approved(o) /\ HasColumn(o, "pvs_qr") /\ ~Pending(o))'
<1>t. orders \in [ThirdOrderNos -> Rows] /\ o \in ThirdOrderNos
  BY DEF TypeOK, GuardedUpdate, IsAt
<1>1. Approved(o) /\ HasColumn(o, "pvs_qr") /\ orders[o].status \notin {"RECEIVED", "QR_REQUESTED"}
  BY <1>t DEF GuardedUpdate, MoneyInv, CallsKnowPayment, SaleInv, RowsInv, ShownRows, NewRows
<1>2. calls[p].seen = "QR_SHOWN"
  BY DEF GuardedUpdate, SaleInv, LegalWrites, LegalUpdate, CanTransitionTo, Successors
<1>3. HasColumn(o, "pvs_qr")' /\ ~Pending(o)'
  BY <1>t, <1>1, <1>2 DEF GuardedUpdate, UpdateStatusGuardedAndFields, UpdateStatusAndFields, HasColumn, Pending
<1>4. Approved(o)'
  BY <1>1 DEF GuardedUpdate, Approved
<1> QED BY <1>3, <1>4

\* A cancel that was written, or found written, before PVS approved a payment ends
\* the sale.
LEMMA CancelledIsOver ==
  ASSUME MoneyInv, CancelsAreShown, NEW o \in ThirdOrderNos, orders[o].status = "CANCELLED", ~Approved(o)
  PROVE  IsOver(o)
BY DEF MoneyInv, RowsKnowPayment, CancelsAreShown, IsOver

LEMMA EndpointInductive ==
  /\ Init /\ EndpointsInit => EndpointInv
  /\ TypeOK /\ MoneyInv /\ SaleInv /\ EndpointInv /\ [EndpointsNext]_endpointVars => EndpointInv'
<1>1. Init /\ EndpointsInit => EndpointInv
  BY CancelsInductive DEF EndpointsInit, EndpointInv, AnswersJustified
<1>2. ASSUME TypeOK, MoneyInv, SaleInv, EndpointInv, [EndpointsNext]_endpointVars
      PROVE  EndpointInv'
  <2>t. /\ heard \in [ThirdOrderNos -> SUBSET Remembered] /\ orders \in [ThirdOrderNos -> Rows]
        /\ Requests \subseteq Procs
        /\ \A p \in Procs : ~IsAt(p, "idle") => Order(p) \in ThirdOrderNos
    BY <1>2 DEF EndpointInv, TypeOK, Procs
  <2>c. CancelsAreShown /\ CancelsAreShown'
    BY <1>2, EndpointsStep, CancelsInductive DEF EndpointInv
  <2>s. \A o \in ThirdOrderNos : \A answer : Justified(o, answer) => Justified(o, answer)'
    BY <1>2, EndpointsStep, JustifiedForEver
  \* It remains to show that an answer leaves its fact behind.
  <2>k. ASSUME \/ UNCHANGED heard
               \/ \E o \in ThirdOrderNos : \E endpoint, code :
                    Told(o, endpoint, code) /\ Justified(o, <<endpoint, code>>)'
        PROVE  EndpointInv'
    <3>1. heard' \in [ThirdOrderNos -> SUBSET Remembered]
      BY <2>k, <2>t DEF Told
    <3>2. \A o \in ThirdOrderNos : \A answer \in heard'[o] : answer \in heard[o] \/ Justified(o, answer)'
      BY <2>k, <2>t DEF Told
    <3>3. AnswersJustified'
      BY <1>2, <2>s, <3>2 DEF EndpointInv, AnswersJustified
    <3> QED BY <2>c, <3>1, <3>3 DEF EndpointInv
  \* A 500 says nothing.
  <2>n. \A o : InternalError(o) => UNCHANGED heard
    BY DEF InternalError, Told, writeError, Err, Remembered, OK
  <2>1. ASSUME NEW o \in ThirdOrderNos, ReplayQR(o) \/ AnswerCancelled(o) \/ AcknowledgeIgnored(o)
        PROVE  EndpointInv'
    <3>1. CASE ReplayQR(o)
      <4>1. Justified(o, <<"qr", OK>>)
        BY <3>1 DEF ReplayQR, Justified, OK
      <4> QED BY <2>k, <2>s, <3>1, <4>1 DEF ReplayQR
    <3>2. CASE AnswerCancelled(o)
      <4>1. ~Approved(o) => Justified(o, <<"cancelUnpaid", OK>>)
        BY <1>2, <2>c, <3>2, CancelledIsOver DEF AnswerCancelled, Justified
      <4> QED BY <2>k, <2>s, <3>2, <4>1 DEF AnswerCancelled, AcceptsCancel
    <3>3. CASE AcknowledgeIgnored(o)
      <4>1. Approved(o)
        BY <1>2, <3>3 DEF AcknowledgeIgnored, Callbacks, Approved
      <4>2. HasColumn(o, "pvs_qr") /\ orders[o].status \notin {"RECEIVED", "QR_REQUESTED"}
        BY <1>2, <4>1 DEF SaleInv, RowsInv, ShownRows, NewRows
      <4>3. orders[o].status /= "QR_SHOWN"
        BY <3>3 DEF AcknowledgeIgnored, pvsStatusToOrderStatus, CanTransitionTo, Successors
      <4>4. Justified(o, <<"approval", OK>>)
        BY <4>1, <4>2, <4>3 DEF Justified, Pending
      <4> QED BY <2>k, <2>s, <3>3, <4>4 DEF AcknowledgeIgnored
    <3> QED BY <2>1, <3>1, <3>2, <3>3
  <2>2. ASSUME NEW p \in Requests, AnswerNotInserted(p)
        PROVE  EndpointInv'
    BY <2>2, <2>k, <2>n DEF AnswerNotInserted
  <2>3. ASSUME NEW p \in Requests, AnswerQR(p)
        PROVE  EndpointInv'
    <3>1. CASE ShowQR(p) /\ Told(Order(p), "qr", OK)
      <4>1. PICK o \in ThirdOrderNos : o = Order(p)
        BY <2>t, <3>1 DEF ShowQR, IsAt
      <4>2. HasColumn(o, "pvs_qr")'
        BY <2>t, <3>1, <4>1 DEF ShowQR, UpdateStatusAndFields, HasColumn
      <4>3. Justified(o, <<"qr", OK>>)'
        BY <4>2 DEF Justified, OK
      <4> QED BY <2>k, <3>1, <4>1, <4>3
    <3> QED BY <2>3, <2>k, <2>n, <3>1 DEF AnswerQR, Does
  <2>4. ASSUME NEW p \in Requests, AnswerQRError(p)
        PROVE  EndpointInv'
    <3>1. PICK o \in ThirdOrderNos : o = Order(p)
      BY <2>4, <2>t DEF AnswerQRError, IsAt
    <3>2. PICK status \in {0, 400, 500} : Told(o, "qr", writeError(mapearError(status)))
      BY <2>4, <3>1 DEF AnswerQRError, PVSAnswer
    <3>3. writeError(mapearError(status)) \in {400, 500}
      BY DEF writeError, mapearError, PVSBusinessError, Err
    <3>4. GivenUp(o)'
      BY <1>2, <2>4, <2>t, <3>1, RefusedIsGivenUp DEF AnswerQRError, Does
    <3>5. Justified(o, <<"qr", writeError(mapearError(status))>>)'
      BY <3>3, <3>4 DEF Justified, OK
    <3> QED BY <2>k, <3>2, <3>5
  <2>5. ASSUME NEW p \in Requests, AnswerCancel(p)
        PROVE  EndpointInv'
    <3>1. PICK o \in ThirdOrderNos : o = Order(p)
      BY <2>t, <2>5 DEF AnswerCancel, Does, WriteResult, IsAt
    <3>2. orders'[o].status = "CANCELLED"
      BY <2>t, <2>5, <3>1 DEF AnswerCancel, Does, WriteResult, UpdateStatusAndFields
    <3>3. ~Approved(o) => IsOver(o)'
      <4>1. ~Approved(o) => ~Paid(o)
        BY <1>2 DEF MoneyInv, RowsKnowPayment
      <4>2. Paid(o)' => Paid(o)
        BY <2>t, <2>5, <3>1 DEF AnswerCancel, Does, WriteResult, UpdateStatusAndFields, ResultFields, Paid, HasColumn
      <4>3. HasColumn(o, "pvs_qr")'
        BY <2>c, <3>2 DEF CancelsAreShown, HasColumn
      <4> QED BY <3>2, <4>1, <4>2, <4>3 DEF IsOver
    <3>4. ~Approved(o) => Justified(o, <<"cancelUnpaid", OK>>)'
      BY <3>3 DEF Justified
    <3> QED BY <2>5, <2>k, <3>1, <3>4 DEF AnswerCancel, AcceptsCancel
  <2>6. ASSUME NEW p \in Requests, Acknowledge(p)
        PROVE  EndpointInv'
    <3>1. PICK o \in ThirdOrderNos : o = Order(p)
      BY <2>t, <2>6 DEF Acknowledge, IsAt
    <3>2. calls[p].to = "PAYMENT_CONFIRMED" => Justified(o, <<"approval", OK>>)'
      BY <1>2, <2>6, <2>t, <3>1, AcknowledgedIsDecided DEF Acknowledge, Does, Justified
    <3> QED BY <2>6, <2>k, <3>1, <3>2 DEF Acknowledge
  <2> QED BY <1>2, <2>k, <2>1, <2>2, <2>3, <2>4, <2>5, <2>6 DEF EndpointsNext, endpointVars
<1> QED BY <1>1, <1>2

LEMMA EndpointAlways == EndpointsSpec => [](TypeOK /\ MoneyInv /\ SaleInv /\ EndpointInv)
BY EndpointsRunBridge, TypeCorrect, MoneyAlways, SaleAlways, EndpointInductive, PTL DEF EndpointsSpec

\* PVS is answered "ok" for an approval only once the order is not pending, and no
\* later write, however late it was decided, makes it pending again.
THEOREM AckedIsNotPending == EndpointsSpec => []AckedApprovalIsNotPending
<1>1. EndpointInv => AckedApprovalIsNotPending
  <2>1. \A s : ToGSStatus(s) = 1 => s \in {"RECEIVED", "QR_REQUESTED", "QR_SHOWN"}
    BY DEF ToGSStatus
  <2> QED BY <2>1 DEF EndpointInv, AnswersJustified, Justified, AckedApprovalIsNotPending, HasHeard, Pending
<1> QED BY <1>1, EndpointAlways, PTL

\* All the QRs GS is answered for one serial are the QR of one order.
THEOREM OneQRIsAnswered == EndpointsSpec => []OneQRAnswered
<1>1. TypeOK /\ MoneyInv /\ SaleInv /\ EndpointInv => OneQRAnswered
  BY DEF MoneyInv, AbsentRowsAreEmpty, HasColumn, SaleInv, RowsInv, SerialsAreUnique, EndpointInv,
         AnswersJustified, Justified, OneQRAnswered, HasHeard
<1> QED BY <1>1, EndpointAlways, PTL

\* Nobody ever pays a QR of a serial for which GS was passed on a refusal of PVS: the
\* order PVS refused keeps the serial, and can get no QR any more.
THEOREM RefusedStaysUnpaid == EndpointsSpec => []RefusedIsNeverPaid
<1>1. MoneyInv /\ SaleInv /\ EndpointInv => RefusedIsNeverPaid
  <2> SUFFICES ASSUME MoneyInv, SaleInv, EndpointInv, NEW o \in ThirdOrderNos, NEW other \in ThirdOrderNos,
                      NEW code \in 400..499, <<"qr", code>> \in heard[o], GsOrderNo[other] = GsOrderNo[o]
               PROVE  ~Approved(other)
    BY DEF RefusedIsNeverPaid
  <2>1. GivenUp(o)
    BY DEF EndpointInv, AnswersJustified, Justified
  <2>2. Approved(other) => HasColumn(other, "pvs_qr") /\ Exists(other)
    BY DEF SaleInv, RowsInv, ShownRows, MoneyInv, AbsentRowsAreEmpty, HasColumn
  <2>3. Exists(other) => other = o
    BY <2>1 DEF GivenUp, SaleInv, RowsInv, SerialsAreUnique
  <2> QED BY <2>1, <2>2, <2>3 DEF GivenUp
<1> QED BY <1>1, EndpointAlways, PTL

\* After an "ok" to the cancel of an order nobody had paid, no late callback, pass of
\* the reconciler or stale write makes the machine see it pending, paid or completed.
THEOREM UnpaidCancelsStand == EndpointsSpec => []UnpaidCancelStands
<1>1. MoneyInv /\ EndpointInv => UnpaidCancelStands
  <2> SUFFICES ASSUME MoneyInv, EndpointInv, NEW o \in ThirdOrderNos, HasHeard(o, "cancelUnpaid")
               PROVE  ToGSStatus(orders[o].status) \notin {1, 2} /\ ~HasColumn(o, "gs_completed_at")
    BY DEF UnpaidCancelStands
  <2>1. IsOver(o)
    BY DEF EndpointInv, AnswersJustified, Justified, HasHeard
  <2>2. ToGSStatus(orders[o].status) \in {3, 4, 5}
    BY <2>1 DEF IsOver, ToGSStatus
  <2> QED BY <2>1, <2>2 DEF IsOver, MoneyInv, RowsKnowPayment
<1> QED BY <1>1, EndpointAlways, PTL
=============================================================================
