------------------------------ MODULE RefundProofs ------------------------------
(***************************************************************************)
(* Refunds, for any sets of orders, handlers, refund numbers and requests: *)
(* one Reverse per refundNo, no order or refund that waits for a reversal  *)
(* PVS has not accepted or made, and no REFUNDED without the money back.   *)
(* The writes of a refund are unguarded; what makes them safe is what the  *)
(* invariant says a refund in progress still knows when it writes.         *)
(***************************************************************************)
EXTENDS SaleProofs

\* The two halves of RefundPendingIsBacked.
OrdersBacked == \A o \in ThirdOrderNos : orders[o].status = "REFUND_PENDING" => ReversalUnderWay(o)

SuccessesBacked == \A n \in RefundNos : refunds[n].status = "SUCCESS" => ReversalUnderWay(refunds[n].ord)

OrderRowsKnowReversal == RefundedMeansReversed /\ OrdersBacked

\* The callbacks and the corrections that start or end a refund heard of a reversal.
UpdatesKnowReversal ==
  \A p \in Procs :
    IsAt(p, "guarded") /\ calls[p].to \in {"REFUND_PENDING", "REFUNDED"} => qr[Order(p)] = "REVERSED"

PastInsert(r) == rcalls[r].pc \notin {"idle", "insert"}

\* A refund past its INSERT has the row of its number, and the row names its order.
RefundsHaveRows ==
  \A r \in RefundRequests :
    PastInsert(r) =>
      refunds[rcalls[r].ref].status /= Absent /\ refunds[rcalls[r].ref].ord = rcalls[r].ord

AcceptedReversals ==
  \A r \in RefundRequests :
    rcalls[r].pc \in {"pendingOrder", "closeRefund"} => rcalls[r].ord \in reverseRequested

RowsNameOrders == \A n \in RefundNos : refunds[n].status /= Absent => refunds[n].ord \in ThirdOrderNos

RefundCallsInv == RowsNameOrders /\ OneReversePerRefundNo /\ RefundsHaveRows /\ AcceptedReversals

RefundInv == OrderRowsKnowReversal /\ SuccessesBacked /\ UpdatesKnowReversal /\ RefundCallsInv
-----------------------------------------------------------------------------
\* What the orders' writes rely on is never taken back.
ReversalsStay ==
  \A o \in ThirdOrderNos :
    /\ qr[o] = "REVERSED" => qr'[o] = "REVERSED"
    /\ o \in reverseRequested => o \in reverseRequested'
    /\ Approved(o) => Approved(o)'

\* No step takes back a payment or a reversal PVS has made or accepted.
LEMMA ReversalsAreFinal ==
  ASSUME TypeOK, Next
  PROVE  ReversalsStay
<1>t. qr \in [ThirdOrderNos -> PVSStatuses \cup {NoQR}] /\ "REVERSED" /= NoQR
  BY DEF TypeOK, NoQR
<1>1. ASSUME NEW p \in Procs, Handler(p)
      PROVE  ReversalsStay
  <2>1. CASE GenerateQR(p)
    BY <1>t, <2>1 DEF GenerateQR, CreateQR, ReversalsStay, Approved, NoQR
  <2>2. ~GenerateQR(p) => UNCHANGED <<qr, reverseRequested>>
    BY <1>1 DEF Handler, OrderServiceNext, CreateOrder, HandlePVSWebhook, CompleteOrder, CancelOrder,
                AcceptWrite, InsertOrder, GenerateQRFails, FailOrder, ShowQR, GuardedUpdate, NotifyPayment,
                MarkNotified, WriteResult, Abort
  <2> QED BY <2>1, <2>2 DEF ReversalsStay, Approved
<1>2. ASSUME NEW r \in RefundRequests, RefundHandler(r)
      PROVE  ReversalsStay
  <2>1. CASE Reverse(r)
    BY <1>t, <2>1 DEF Reverse, AcceptReverse, ReversalsStay, Approved
  <2>2. ~Reverse(r) => UNCHANGED <<qr, reverseRequested>>
    BY <1>2 DEF RefundHandler, RefundServiceNext, serviceVars, Refund, InsertRefund, ReverseFails,
                FailRefund, FailRefundOrder, PendingOrder, CloseRefund, AbortRefund
  <2> QED BY <2>1, <2>2 DEF ReversalsStay, Approved
<1>3. CASE ReconcilerNext
  BY <1>3 DEF ReconcilerNext, serviceVars, Scan, ListUnnotified, Reconcile, QueryFails, RetryNotify, EndPass,
              StopWorker, ReversalsStay, Approved
<1>4. CASE Environment
  BY <1>4, <1>t
     DEF Environment, Pays, Rejected, Reversed, TimePasses, SnapshotBecomesDue, serviceVars, CustomerPays,
         PaymentRejected, PaymentReversed, ReversalsStay, Approved
<1> QED BY <1>1, <1>2, <1>3, <1>4 DEF Next

\* An order row that is not written, or is written with a reversal that backs it, is
\* as it should be.
LEMMA UpdateKeepsReversals ==
  ASSUME TypeOK, OrderRowsKnowReversal, ReversalsStay,
         NEW o \in ThirdOrderNos, NEW status \in OrderStatuses, NEW fields \in SUBSET Columns,
         UpdateStatusAndFields(o, status, fields),
         status = "REFUNDED" => qr[o] = "REVERSED",
         status = "REFUND_PENDING" => ReversalUnderWay(o)
  PROVE  OrderRowsKnowReversal'
BY DEF TypeOK, UpdateStatusAndFields, ReversalsStay, OrderRowsKnowReversal, RefundedMeansReversed,
       OrdersBacked, ReversalUnderWay

LEMMA StatusesKeepReversals ==
  ASSUME OrderRowsKnowReversal, ReversalsStay, \A o \in ThirdOrderNos : orders'[o].status = orders[o].status
  PROVE  OrderRowsKnowReversal'
BY DEF ReversalsStay, OrderRowsKnowReversal, RefundedMeansReversed, OrdersBacked, ReversalUnderWay

\* Call p goes on with a record that knows of the reversal it is about to write.
LEMMA UpdatesGoOn ==
  ASSUME TypeOK, UpdatesKnowReversal, ReversalsStay, NEW p \in Procs, NEW c, Becomes(p, c),
         c.pc = "guarded" /\ c.to \in {"REFUND_PENDING", "REFUNDED"} => qr'[c.ord] = "REVERSED"
  PROVE  UpdatesKnowReversal'
<1>1. calls'[p] = c /\ \A q \in Procs : q /= p => calls'[q] = calls[q]
  BY DEF TypeOK, Becomes
<1> QED BY <1>1 DEF TypeOK, ReversalsStay, UpdatesKnowReversal, IsAt, Order

LEMMA UpdatesWait ==
  ASSUME TypeOK, UpdatesKnowReversal, ReversalsStay, UNCHANGED calls
  PROVE  UpdatesKnowReversal'
BY DEF TypeOK, ReversalsStay, UpdatesKnowReversal, IsAt, Order

\* Refunds nobody writes stay as they are.
LEMMA RefundsWait ==
  ASSUME TypeOK, SuccessesBacked, RefundCallsInv, ReversalsStay, UNCHANGED refundVars
  PROVE  SuccessesBacked' /\ RefundCallsInv'
<1>1. SuccessesBacked'
  BY DEF ReversalsStay, SuccessesBacked, RefundCallsInv, RowsNameOrders, ReversalUnderWay, refundVars,
         Absent
<1>2. RowsNameOrders' /\ OneReversePerRefundNo' /\ RefundsHaveRows'
  BY DEF RefundCallsInv, RowsNameOrders, OneReversePerRefundNo, RefundsHaveRows, PastInsert, refundVars
<1>3. AcceptedReversals'
  BY DEF TypeOK, ReversalsStay, RefundCallsInv, AcceptedReversals, RefundIsAt, refundVars
<1> QED BY <1>1, <1>2, <1>3 DEF RefundCallsInv

LEMMA OrderServiceRefunds ==
  ASSUME TypeOK, SaleInv, RefundInv, ReversalsStay, NEW p \in Procs, OrderServiceNext(p), UNCHANGED refundVars
  PROVE  RefundInv'
<1>t. /\ orders \in [ThirdOrderNos -> Rows]
      /\ calls[p].pc \in {"guarded", "write"} => calls[p].to \in OrderStatuses
      /\ ~IsAt(p, "idle") => Order(p) \in ThirdOrderNos
  BY DEF TypeOK
\* It remains to show what is written and what the call goes on with.
<1>k. ASSUME OrderRowsKnowReversal', NEW c, Becomes(p, c), c.pc /= "guarded"
      PROVE  RefundInv'
  BY <1>k, UpdatesGoOn, RefundsWait DEF RefundInv
<1>q. UNCHANGED orders => OrderRowsKnowReversal'
  BY StatusesKeepReversals DEF RefundInv
<1>u. ASSUME NEW o \in ThirdOrderNos, NEW status \in OrderStatuses \ {"REFUNDED", "REFUND_PENDING"},
             NEW fields \in SUBSET Columns, UpdateStatusAndFields(o, status, fields)
      PROVE  OrderRowsKnowReversal'
  BY <1>u, UpdateKeepsReversals DEF RefundInv
<1>i. Idle.pc /= "guarded" /\ \A pc, o : At(pc, o).pc = pc
  BY DEF Idle, At
<1>1. ASSUME NEW o \in ThirdOrderNos, NEW lookupFails \in BOOLEAN, CreateOrder(p, o, lookupFails)
      PROVE  RefundInv'
  BY <1>1, <1>i, <1>k, <1>q DEF CreateOrder
<1>2. ASSUME NEW o \in ThirdOrderNos, NEW s \in PVSStatuses, HandlePVSWebhook(p, o, s)
      PROVE  RefundInv'
  <2> DEFINE seen == orders[o].status
             to   == pvsStatusToOrderStatus(s, seen)
             c    == [pc |-> "guarded", ord |-> o, seen |-> seen, to |-> to]
  <2>1. to \in {"REFUND_PENDING", "REFUNDED"} => s = "REVERSED"
    BY DEF pvsStatusToOrderStatus, PVSStatuses, NoStatus
  <2>2. s = "REVERSED" => qr[o] = "REVERSED"
    BY <1>2 DEF HandlePVSWebhook, Callbacks
  <2>3. UpdatesKnowReversal'
    BY <1>2, <2>1, <2>2, UpdatesGoOn DEF HandlePVSWebhook, RefundInv
  <2> QED BY <1>2, <2>3, <1>q, RefundsWait DEF HandlePVSWebhook, RefundInv
<1>3. ASSUME NEW o \in ThirdOrderNos, NEW to \in OrderStatuses, AcceptWrite(p, o, to)
      PROVE  RefundInv'
  <2>1. [At("write", o) EXCEPT !.to = to].pc = "write"
    BY DEF At
  <2> QED BY <1>3, <2>1, <1>k, <1>q DEF AcceptWrite
<1>4. CASE InsertOrder(p)
  <2>1. OrderRowsKnowReversal'
    <3>1. CASE UNCHANGED orders
      BY <3>1, <1>q
    <3>2. CASE Create(Order(p))
      BY <1>4, <3>2, <1>t DEF InsertOrder, IsAt, Create, RefundInv, ReversalsStay, OrderRowsKnowReversal,
                              RefundedMeansReversed, OrdersBacked, ReversalUnderWay
    <3> QED BY <1>4, <3>1, <3>2 DEF InsertOrder
  <2> QED BY <1>4, <2>1, <1>i, <1>k DEF InsertOrder
<1>5. CASE GenerateQR(p)
  BY <1>5, <1>i, <1>k, <1>q DEF GenerateQR
<1>6. CASE GenerateQRFails(p)
  BY <1>6, <1>i, <1>k, <1>q DEF GenerateQRFails
<1>7. CASE FailOrder(p)
  BY <1>7, <1>t, <1>i, <1>k, <1>u DEF FailOrder, UpdateStatus, OrderStatuses, IsAt
<1>8. CASE ShowQR(p)
  BY <1>8, <1>t, <1>i, <1>k, <1>u DEF ShowQR, OrderStatuses, Columns, IsAt
<1>9. CASE GuardedUpdate(p)
  <2> DEFINE o  == Order(p)
             to == calls[p].to
  <2>1. o \in ThirdOrderNos /\ to \in OrderStatuses /\ PaymentFields(to) \in SUBSET Columns
    BY <1>9, <1>t DEF GuardedUpdate, IsAt, PaymentFields, Columns
  <2>2. to \in {"REFUND_PENDING", "REFUNDED"} => qr[o] = "REVERSED"
    BY <1>9 DEF GuardedUpdate, RefundInv, UpdatesKnowReversal
  <2>3. OrderRowsKnowReversal'
    <3>1. CASE UNCHANGED orders
      BY <3>1, <1>q
    <3>2. CASE UpdateStatusAndFields(o, to, PaymentFields(to))
      BY <2>1, <2>2, <3>2, UpdateKeepsReversals DEF RefundInv, ReversalUnderWay
    <3> QED BY <1>9, <3>1, <3>2 DEF GuardedUpdate, UpdateStatusGuardedAndFields
  <2> QED BY <1>9, <2>3, <1>i, <1>k DEF GuardedUpdate
<1>10. CASE NotifyPayment(p)
  BY <1>10, <1>i, <1>k, <1>q DEF NotifyPayment
<1>11. CASE MarkNotified(p)
  BY <1>11, <1>t, <1>i, <1>k, <1>u DEF MarkNotified, OrderStatuses, Columns, IsAt
<1>12. CASE WriteResult(p)
  <2>1. calls[p].to \in {"DONE", "FAILED", "CANCELLED"} /\ Order(p) \in ThirdOrderNos
    BY <1>12, <1>t DEF WriteResult, SaleInv, LegalWrites, IsAt
  <2>2. ResultFields(calls[p].to) \in SUBSET Columns
    BY DEF ResultFields, Columns
  <2> QED BY <1>12, <2>1, <2>2, <1>i, <1>k, <1>u DEF WriteResult, OrderStatuses
<1>13. CASE Abort(p)
  BY <1>13, <1>i, <1>k, <1>q DEF Abort
<1> QED
  BY <1>1, <1>2, <1>3, <1>4, <1>5, <1>6, <1>7, <1>8, <1>9, <1>10, <1>11, <1>12, <1>13
     DEF OrderServiceNext, CompleteOrder, CancelOrder, OrderStatuses

\* Rows of refunds are only added, and keep their orders.
LEMMA RefundRowsStay ==
  ASSUME TypeOK, Next, NEW m \in RefundNos, refunds[m].status /= Absent
  PROVE  refunds'[m].status /= Absent /\ refunds'[m].ord = refunds[m].ord
<1>t. refunds \in [RefundNos -> RefundRows]
  BY DEF TypeOK
<1>1. ASSUME NEW r \in RefundRequests, RefundServiceNext(r)
      PROVE  refunds'[m].status /= Absent /\ refunds'[m].ord = refunds[m].ord
  BY <1>1, <1>t DEF RefundServiceNext, serviceVars, Refund, InsertRefund, Reverse, ReverseFails, FailRefund,
                    FailRefundOrder, PendingOrder, CloseRefund, AbortRefund, SetRefund, RefundRows,
                    RefundStatuses, Absent
<1>2. ReconcilerNext => UNCHANGED refunds
  BY DEF ReconcilerNext, refundVars, Scan, ListUnnotified, Reconcile, QueryFails, RetryNotify, EndPass,
         StopWorker
<1>3. Environment => UNCHANGED refunds
  BY DEF Environment, Pays, Rejected, Reversed, TimePasses, SnapshotBecomesDue, refundVars
<1> QED BY <1>1, <1>2, <1>3 DEF Next, Handler, RefundHandler, refundVars

\* One refund goes on; its row, if any, was new or keeps its order.
LEMMA RefundServiceRefunds ==
  ASSUME TypeOK, RefundInv, ReversalsStay, NEW r \in RefundRequests, RefundServiceNext(r)
  PROVE  RefundInv'
<1> DEFINE o == rcalls[r].ord
           n == rcalls[r].ref
<1>t. /\ rcalls \in [RefundRequests -> RefundCallRecords] /\ refunds \in [RefundNos -> RefundRows]
      /\ ~RefundIsAt(r, "idle") => o \in ThirdOrderNos /\ n \in RefundNos
      /\ \A s \in RefundRequests : PastInsert(s) => rcalls[s].ord \in ThirdOrderNos /\ rcalls[s].ref \in RefundNos
  BY DEF TypeOK, PastInsert, RefundIsAt
<1>1. UpdatesKnowReversal'
  <2>1. UNCHANGED calls
    BY DEF RefundServiceNext, serviceVars, Refund, InsertRefund, Reverse, ReverseFails, FailRefund,
           FailRefundOrder, PendingOrder, CloseRefund, AbortRefund
  <2> QED BY <2>1, UpdatesWait DEF RefundInv
<1>2. OrderRowsKnowReversal'
  <2>1. CASE UNCHANGED orders
    BY <2>1, StatusesKeepReversals DEF RefundInv
  <2>2. CASE PendingOrder(r) /\ UpdateStatus(o, "REFUND_PENDING")
    <3>1. o \in ThirdOrderNos /\ ReversalUnderWay(o)
      BY <2>2, <1>t DEF PendingOrder, RefundIsAt, RefundInv, RefundCallsInv, AcceptedReversals, ReversalUnderWay
    <3> QED BY <2>2, <3>1, UpdateKeepsReversals DEF UpdateStatus, OrderStatuses, RefundInv
  <2>3. CASE FailRefundOrder(r)
    BY <2>3, <1>t, UpdateKeepsReversals DEF FailRefundOrder, UpdateStatus, RefundIsAt, OrderStatuses, RefundInv
  <2> QED
    BY <2>1, <2>2, <2>3
       DEF RefundServiceNext, serviceVars, Refund, InsertRefund, Reverse, ReverseFails, FailRefund,
           PendingOrder, CloseRefund, AbortRefund
\* Rows are only added, and keep their orders.
<1>3. ASSUME NEW m \in RefundNos, refunds[m].status /= Absent
      PROVE  refunds'[m].status /= Absent /\ refunds'[m].ord = refunds[m].ord
  BY <1>3, <1>t DEF RefundServiceNext, serviceVars, Refund, InsertRefund, Reverse, ReverseFails, FailRefund,
                    FailRefundOrder, PendingOrder, CloseRefund, AbortRefund, SetRefund, RefundRows,
                    RefundStatuses, Absent
<1>4. RowsNameOrders'
  <2>1. ASSUME NEW m \in RefundNos, refunds[m].status = Absent, refunds'[m].status /= Absent
        PROVE  refunds'[m].ord \in ThirdOrderNos
    <3>1. CASE InsertRefund(r)
      BY <2>1, <3>1, <1>t DEF InsertRefund, RefundIsAt
    <3>2. ASSUME NEW status, PastInsert(r), SetRefund(n, status)
          PROVE  FALSE
      BY <2>1, <3>2, <1>t DEF RefundInv, RefundCallsInv, RefundsHaveRows, SetRefund
    <3> QED
      BY <2>1, <3>1, <3>2 DEF RefundServiceNext, serviceVars, Refund, Reverse, ReverseFails, FailRefund,
           FailRefundOrder, PendingOrder, CloseRefund, AbortRefund, PastInsert, RefundIsAt
  <2> QED BY <1>3, <2>1 DEF RowsNameOrders, RefundInv, RefundCallsInv
<1>5. SuccessesBacked'
  <2>1. ASSUME NEW m \in RefundNos, refunds'[m].status = "SUCCESS", refunds[m].status /= "SUCCESS"
        PROVE  CloseRefund(r) /\ m = n
    BY <2>1, <1>t DEF RefundServiceNext, serviceVars, Refund, InsertRefund, Reverse, ReverseFails, FailRefund,
                      FailRefundOrder, PendingOrder, CloseRefund, AbortRefund, SetRefund, RefundRows
  <2>2. CloseRefund(r) => o \in reverseRequested /\ refunds[n].status /= Absent /\ refunds[n].ord = o
    BY DEF CloseRefund, RefundIsAt, RefundInv, RefundCallsInv, AcceptedReversals, RefundsHaveRows, PastInsert
  <2> QED
    BY <1>3, <1>4, <2>1, <2>2
       DEF RefundInv, RefundCallsInv, RowsNameOrders, SuccessesBacked, ReversalsStay, ReversalUnderWay, Absent
<1>6. \A s \in RefundRequests : s /= r => rcalls'[s] = rcalls[s]
  BY <1>t DEF RefundServiceNext, Refund, InsertRefund, Reverse, ReverseFails, FailRefund,
              FailRefundOrder, PendingOrder, CloseRefund, AbortRefund, GoesTo, Ends
\* What r does: it is not past its INSERT, comes past it, or stays so.
<1>7. OneReversePerRefundNo' /\ RefundsHaveRows' /\ AcceptedReversals'
  <2>1. CASE ~PastInsert(r)'
    BY <1>3, <1>6, <2>1, <1>t DEF RefundInv, RefundCallsInv, OneReversePerRefundNo, RefundsHaveRows,
                                  AcceptedReversals, ReversalsStay, PastInsert
  <2>2. CASE PastInsert(r)' /\ ~PastInsert(r)
    <3>1. /\ n \in RefundNos /\ refunds[n].status = Absent
          /\ refunds' = [refunds EXCEPT ![n] = [status |-> "PENDING", ord |-> o]]
          /\ rcalls'[r].pc = "reverse" /\ rcalls'[r].ord = o /\ rcalls'[r].ref = n
      BY <2>2, <1>t DEF RefundServiceNext, Refund, InsertRefund, Reverse, ReverseFails, FailRefund,
                        FailRefundOrder, PendingOrder, CloseRefund, AbortRefund, GoesTo, Ends, IdleRefund,
                        PastInsert, RefundIsAt, RefundCallRecords
    <3>2. \A s \in RefundRequests : s /= r /\ PastInsert(s) => rcalls[s].ref /= n
      BY <3>1 DEF RefundInv, RefundCallsInv, RefundsHaveRows
    <3>3. OneReversePerRefundNo'
      BY <1>6, <3>1, <3>2 DEF RefundInv, RefundCallsInv, OneReversePerRefundNo, PastInsert
    <3>4. refunds'[n].status /= Absent /\ refunds'[n].ord = o
      BY <3>1, <1>t DEF Absent
    <3>5. RefundsHaveRows'
      BY <1>3, <1>6, <1>t, <3>1, <3>4 DEF RefundInv, RefundCallsInv, RefundsHaveRows, PastInsert
    <3>6. AcceptedReversals'
      BY <1>6, <1>t, <3>1 DEF RefundInv, RefundCallsInv, AcceptedReversals, ReversalsStay, PastInsert
    <3> QED BY <3>3, <3>5, <3>6
  <2>3. CASE PastInsert(r)' /\ PastInsert(r)
    <3>1. rcalls'[r].ord = o /\ rcalls'[r].ref = n
      BY <2>3, <1>t DEF RefundServiceNext, Refund, InsertRefund, Reverse, ReverseFails, FailRefund,
                        FailRefundOrder, PendingOrder, CloseRefund, AbortRefund, GoesTo, Ends, IdleRefund,
                        PastInsert, RefundIsAt, RefundCallRecords
    <3>2. rcalls'[r].pc \in {"pendingOrder", "closeRefund"} =>
            Reverse(r) \/ rcalls[r].pc \in {"pendingOrder", "closeRefund"}
      BY <2>3, <1>t DEF RefundServiceNext, Refund, InsertRefund, ReverseFails, FailRefund,
                        FailRefundOrder, PendingOrder, CloseRefund, AbortRefund, GoesTo, Ends, IdleRefund,
                        PastInsert, RefundIsAt, RefundCallRecords
    <3>3. Reverse(r) => o \in reverseRequested'
      BY DEF Reverse, AcceptReverse
    <3>4. OneReversePerRefundNo'
      BY <1>6, <2>3, <3>1 DEF RefundInv, RefundCallsInv, OneReversePerRefundNo, PastInsert
    <3>5. RefundsHaveRows'
      BY <1>3, <1>6, <2>3, <1>t, <3>1 DEF RefundInv, RefundCallsInv, RefundsHaveRows, PastInsert
    <3>6. AcceptedReversals'
      BY <1>6, <2>3, <1>t, <3>1, <3>2, <3>3 DEF RefundInv, RefundCallsInv, AcceptedReversals, ReversalsStay, PastInsert
    <3> QED BY <3>4, <3>5, <3>6
  <2> QED BY <2>1, <2>2, <2>3
<1> QED BY <1>1, <1>2, <1>4, <1>5, <1>7 DEF RefundInv, RefundCallsInv

LEMMA ReconcilerRefunds ==
  ASSUME TypeOK, RefundInv, ReversalsStay, ReconcilerNext
  PROVE  RefundInv'
<1>1. UNCHANGED <<orders, qr>> /\ UNCHANGED refundVars
  BY DEF ReconcilerNext, serviceVars, refundVars, Scan, ListUnnotified, Reconcile, QueryFails, RetryNotify,
         EndPass, StopWorker
<1>2. OrderRowsKnowReversal' /\ SuccessesBacked' /\ RefundCallsInv'
  BY <1>1, StatusesKeepReversals, RefundsWait DEF RefundInv
<1>w. Worker \in Procs
  BY WorkerIsProc
<1>k. ASSUME NEW c, Becomes(Worker, c), c.pc /= "guarded"
      PROVE  UpdatesKnowReversal'
  BY <1>k, <1>w, UpdatesGoOn DEF RefundInv
<1>i. Idle.pc /= "guarded" /\ \A pc, o : At(pc, o).pc = pc
  BY DEF Idle, At
<1>3. UNCHANGED calls => UpdatesKnowReversal'
  BY UpdatesWait DEF RefundInv
<1>4. ASSUME NEW s \in batch, Reconcile(s)
      PROVE  UpdatesKnowReversal'
  <2> DEFINE to == Correction(s.status, qr[s.ord])
             c  == [pc |-> "guarded", ord |-> s.ord, seen |-> s.status, to |-> to]
  <2>1. to \in {"REFUND_PENDING", "REFUNDED"} => qr[s.ord] = "REVERSED"
    BY DEF Correction, NoStatus
  <2>2. Becomes(Worker, c) => UpdatesKnowReversal'
    BY <1>1, <1>w, <2>1, UpdatesGoOn DEF RefundInv
  <2> QED BY <1>4, <1>i, <1>k, <2>2 DEF Reconcile
<1>5. ASSUME NEW s \in batch, RetryNotify(s)
      PROVE  UpdatesKnowReversal'
  BY <1>5, <1>i, <1>k DEF RetryNotify
<1>6. StopWorker => UpdatesKnowReversal'
  BY <1>i, <1>k DEF StopWorker
<1>7. UpdatesKnowReversal'
  BY <1>3, <1>4, <1>5, <1>6 DEF ReconcilerNext, serviceVars, Scan, ListUnnotified, QueryFails, EndPass
<1> QED BY <1>2, <1>7 DEF RefundInv

LEMMA EnvironmentRefunds ==
  ASSUME TypeOK, RefundInv, ReversalsStay, Environment
  PROVE  RefundInv'
<1>1. UNCHANGED calls /\ UNCHANGED refundVars
  BY DEF Environment, Pays, Rejected, Reversed, TimePasses, SnapshotBecomesDue, serviceVars, refundVars
<1>2. \A o \in ThirdOrderNos : orders'[o].status = orders[o].status
  BY DEF Environment, Pays, Rejected, Reversed, TimePasses, RowBecomesDue, SnapshotBecomesDue, serviceVars,
         TypeOK, Rows
<1> QED BY <1>1, <1>2, StatusesKeepReversals, UpdatesWait, RefundsWait DEF RefundInv

LEMMA RefundInductive ==
  /\ Init => RefundInv
  /\ TypeOK /\ SaleInv /\ RefundInv /\ [Next]_vars => RefundInv'
<1>1. Init => RefundInv
  BY DEF Init, OrderRepoInit, OrderServiceInit, RefundServiceInit, NoRow, Idle, IdleRefund, RefundInv,
         OrderRowsKnowReversal, RefundedMeansReversed, OrdersBacked, SuccessesBacked, UpdatesKnowReversal,
         RefundCallsInv, RowsNameOrders, OneReversePerRefundNo, RefundsHaveRows, AcceptedReversals,
         PastInsert, IsAt, Absent
<1>2. ASSUME TypeOK, SaleInv, RefundInv, Next
      PROVE  RefundInv'
  <2>1. ReversalsStay
    BY <1>2, ReversalsAreFinal
  <2>2. ASSUME NEW p \in Procs, Handler(p) PROVE RefundInv'
    BY <1>2, <2>1, <2>2, OrderServiceRefunds DEF Handler
  <2>3. ASSUME NEW r \in RefundRequests, RefundHandler(r) PROVE RefundInv'
    BY <1>2, <2>1, <2>3, RefundServiceRefunds DEF RefundHandler
  <2> QED BY <1>2, <2>1, <2>2, <2>3, ReconcilerRefunds, EnvironmentRefunds DEF Next
<1>3. ASSUME TypeOK, RefundInv, UNCHANGED vars
      PROVE  RefundInv'
  <2>1. ReversalsStay /\ UNCHANGED <<orders, calls>> /\ UNCHANGED refundVars
    BY <1>3 DEF vars, ReversalsStay, Approved, refundVars
  <2> QED BY <1>3, <2>1, StatusesKeepReversals, UpdatesWait, RefundsWait DEF RefundInv
<1> QED BY <1>1, <1>2, <1>3

LEMMA RefundAlways == Spec => []RefundInv
BY TypeCorrect, SaleAlways, RefundInductive, PTL DEF Spec

\* An order is only REFUNDED once PVS has returned the money, whichever callback,
\* correction or late write of a handler came last.
THEOREM RefundedOrders == Spec => []RefundedMeansReversed
<1>1. RefundInv => RefundedMeansReversed
  BY DEF RefundInv, OrderRowsKnowReversal
<1> QED BY <1>1, RefundAlways, PTL

\* Nothing waits for a reversal that PVS has neither accepted nor made, although the
\* writes of a refund after the answer of PVS are neither guarded nor checked.
THEOREM PendingRefunds == Spec => []RefundPendingIsBacked
<1>1. RefundInv => RefundPendingIsBacked
  BY DEF RefundInv, OrderRowsKnowReversal, OrdersBacked, SuccessesBacked, RefundPendingIsBacked
<1> QED BY <1>1, RefundAlways, PTL

\* For any number of requests with one refundNo, the unique index lets one of them
\* reach PVS.
THEOREM OneReverse == Spec => []OneReversePerRefundNo
<1>1. RefundInv => OneReversePerRefundNo
  BY DEF RefundInv, RefundCallsInv
<1> QED BY <1>1, RefundAlways, PTL
=============================================================================
