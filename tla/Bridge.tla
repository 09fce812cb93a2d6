-------------------------------- MODULE Bridge --------------------------------
(***************************************************************************)
(* The whole bridge: request handlers, refund handlers and the reconciler  *)
(* over one orders table, with PVS, the customer, GS and time around them. *)
(* cmd/server/main.go puts the parts together.                             *)
(***************************************************************************)
EXTENDS Reconciler

vars == <<orders, qr, reverseRequested, calls, told, refunds, rcalls, phase, batch>>

Init ==
  /\ OrderRepoInit
  /\ PVSInit
  /\ OrderServiceInit
  /\ RefundServiceInit
  /\ ReconcilerInit

Pays(o) == CustomerPays(o) /\ UNCHANGED <<orders, calls, told, refundVars, reconcilerVars>>

Rejected(o) == PaymentRejected(o) /\ UNCHANGED <<orders, calls, told, refundVars, reconcilerVars>>

Reversed(o) == PaymentReversed(o) /\ UNCHANGED <<orders, calls, told, refundVars, reconcilerVars>>

\* Time runs for the row or for a copy of it.  A notice ends within the timeout of
\* the GS client, 10 seconds, and its UPDATE soon after: meanwhile updated_at,
\* written just before it, does not get 30 seconds old.
TimePasses(o) ==
  /\ Notifying(o) = {}
  /\ \/ /\ RowBecomesDue(o)
        /\ UNCHANGED <<qr, reverseRequested, calls, told, refundVars, reconcilerVars>>
     \/ \E s \in batch : s.ord = o /\ SnapshotBecomesDue(s)

Environment == \E o \in ThirdOrderNos : Pays(o) \/ Rejected(o) \/ Reversed(o) \/ TimePasses(o)

Handler(p) == OrderServiceNext(p) /\ UNCHANGED <<refundVars, reconcilerVars>>

RefundHandler(r) == RefundServiceNext(r) /\ UNCHANGED reconcilerVars

Next ==
  \/ Environment
  \/ \E p \in Procs : Handler(p)
  \/ \E r \in RefundRequests : RefundHandler(r)
  \/ ReconcilerNext

Spec == Init /\ [][Next]_vars
-----------------------------------------------------------------------------
\* Every variable holds values of its type; a call past its first step names
\* the order, the target of its UPDATE and, for a refund, its refund number.
TypeOK ==
  /\ orders \in [ThirdOrderNos -> Rows]
  /\ qr \in [ThirdOrderNos -> PVSStatuses \cup {NoQR}]
  /\ reverseRequested \subseteq ThirdOrderNos
  /\ calls \in [Procs -> CallRecords]
  /\ told \subseteq ThirdOrderNos
  /\ refunds \in [RefundNos -> RefundRows]
  /\ rcalls \in [RefundRequests -> RefundCallRecords]
  /\ phase \in Phases
  /\ batch \subseteq Snapshots
  /\ \A p \in Procs : ~IsAt(p, "idle") => Order(p) \in ThirdOrderNos
  /\ \A p \in Procs : calls[p].pc \in {"guarded", "write"} => calls[p].to \in OrderStatuses
  /\ \A r \in RefundRequests :
       ~RefundIsAt(r, "idle") => rcalls[r].ord \in ThirdOrderNos /\ rcalls[r].ref \in RefundNos
-----------------------------------------------------------------------------
(* Safety *)

Paid(o) == HasColumn(o, "payment_confirmed_at")

\* Whatever is delivered, retried or raced, GS is only notified of payments PVS
\* has approved.  (NotifyPaymentIfNeeded trusts a copy of the order in memory.)
NoNoticeWithoutMoney == \A o \in told : Approved(o)

\* The machine polls "2", or the order is completed, only if PVS approved its
\* payment and payment_confirmed_at, which a refund needs, was stored.
NeverDispenseUnpaid ==
  \A o \in ThirdOrderNos :
    ToGSStatus(orders[o].status) = 2 \/ HasColumn(o, "gs_completed_at")
      => Paid(o) /\ Approved(o)

\* The reconciler and the webhook race to decide a QR that is past its expiry:
\* once the payment is stored the order never again looks unpaid ("1") or timed
\* out ("6") to the machine.
PaidNeverLooksUnpaid ==
  \A o \in ThirdOrderNos : Paid(o) => ToGSStatus(orders[o].status) \notin {1, 6}

\* However many CreateOrder calls GS makes for one serial, at the same time or
\* after failures, the customer can pay at most one QR for it.
OneQRPerSerial ==
  \A a, b \in ThirdOrderNos :
    /\ a /= b
    /\ GsOrderNo[a] = GsOrderNo[b]
    => qr[a] = NoQR \/ qr[b] = NoQR

\* Refund and refundStatus answer "success" only when PVS has the money back.
RefundedMeansReversed ==
  \A o \in ThirdOrderNos : orders[o].status = "REFUNDED" => qr[o] = "REVERSED"

ReversalUnderWay(o) == qr[o] = "REVERSED" \/ o \in reverseRequested

\* An order waits in REFUND_PENDING, and a refund is stored as SUCCESS, only if
\* PVS has a reversal to confirm: the reconciler does not wait for nothing.
RefundPendingIsBacked ==
  /\ \A o \in ThirdOrderNos : orders[o].status = "REFUND_PENDING" => ReversalUnderWay(o)
  /\ \A n \in RefundNos : refunds[n].status = "SUCCESS" => ReversalUnderWay(refunds[n].ord)

\* PVS is never asked to reverse an order it did not approve.
ReverseOnlyPaid ==
  \A r \in RefundRequests : RefundIsAt(r, "reverse") => Approved(rcalls[r].ord)

\* Concurrent requests with one refundNo: at most one gets past the insert, so
\* PVS sees at most one Reverse per refundNo.
OneReversePerRefundNo ==
  \A r, s \in RefundRequests :
    /\ r /= s
    /\ rcalls[r].pc \notin {"idle", "insert"} /\ rcalls[s].pc \notin {"idle", "insert"}
    => rcalls[r].ref /= rcalls[s].ref

\* notifyMinAge: the retry of the reconciler and the notify of the webhook are
\* never in flight together for one order.
OneNoticeInFlight == \A o \in ThirdOrderNos : Cardinality(Notifying(o)) <= 1
-----------------------------------------------------------------------------
(* Action properties *)

\* Call p takes a step that changes the status of its order.
Moves(p) == calls'[p] /= calls[p] /\ orders'[Order(p)].status /= orders[Order(p)].status

\* A guarded update moves the row along an arrow of transitionTable, whatever
\* other calls wrote since it was read.  The one exception is the correction the
\* reconciler makes without asking the table (QR_SHOWN to REFUND_PENDING).
GuardedWritesFollowTable ==
  [][ \A p \in Procs :
        IsAt(p, "guarded") /\ Moves(p) =>
          \/ CanTransitionTo(orders[Order(p)].status, orders'[Order(p)].status)
          \/ /\ p = Worker
             /\ orders[Order(p)].status = "QR_SHOWN"
             /\ orders'[Order(p)].status = "REFUND_PENDING" ]_vars

\* A late APPROVED callback cannot revive an order that timed out: from "6" the
\* machine only ever sees "6" or, after a stale complete or cancel, "3".
TimedOutStaysUnpaid ==
  [][ \A o \in ThirdOrderNos :
        ToGSStatus(orders[o].status) = 6 => ToGSStatus(orders'[o].status) \in {3, 6} ]_vars
=============================================================================
