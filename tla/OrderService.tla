----------------------------- MODULE OrderService -----------------------------
(***************************************************************************)
(* The handlers of order_service.go.  A call is a sequence of steps, one   *)
(* per SQL statement or HTTP request, and calls interleave between them:   *)
(* what a call read from the orders table is kept in its record and may be *)
(* stale when it is used.  A request handler runs in a goroutine of its    *)
(* own (Requests); Worker is the goroutine of the reconciler, which shares *)
(* the guarded update and NotifyPaymentIfNeeded with the webhook.          *)
(***************************************************************************)
EXTENDS PVS

CONSTANTS
  Requests,   \* HTTP requests that can be in progress at the same time
  Worker      \* the goroutine of the reconciler

ASSUME WorkerAssumption == Worker \notin Requests

VARIABLES
  calls,      \* the state of the call each goroutine is executing
  told        \* the orders GS has been notified as paid (orderStatus "2")

Procs == Requests \cup {Worker}

NoOrder == "NO_ORDER"

\* pc is the next statement or HTTP request of the call:
\*   insert      INSERT INTO orders                      (CreateOrder)
\*   generateQR  POST /qr/pvs                            (CreateOrder)
\*   failOrder   UPDATE to FAILED after a PVS error      (CreateOrder)
\*   showQR      UPDATE to QR_SHOWN with the QR          (CreateOrder)
\*   guarded     UPDATE to `to` WHERE status = seen      (webhook, reconciler)
\*   notify      POST {notifyUrl}                        (NotifyPaymentIfNeeded)
\*   mark        UPDATE with gs_notified_at              (NotifyPaymentIfNeeded)
\*   write       UPDATE to `to`, unguarded               (Complete, Cancel)
Pcs == { "idle", "insert", "generateQR", "failOrder", "showQR",
         "guarded", "notify", "mark", "write" }

Targets == OrderStatuses \cup {NoStatus}

CallRecords == [ pc : Pcs, ord : ThirdOrderNos \cup {NoOrder},
                 seen : Targets, to : Targets ]

Idle == [pc |-> "idle", ord |-> NoOrder, seen |-> NoStatus, to |-> NoStatus]

At(pc, o) == [pc |-> pc, ord |-> o, seen |-> NoStatus, to |-> NoStatus]

OrderServiceInit ==
  /\ calls = [p \in Procs |-> Idle]
  /\ told = {}

IsAt(p, pc) == calls[p].pc = pc

Order(p) == calls[p].ord

\* Call p goes on as record c.
Becomes(p, c) == calls' = [calls EXCEPT ![p] = c]

\* The goroutines in the middle of NotifyPaymentIfNeeded for o.
Notifying(o) == {p \in Procs : calls[p].pc \in {"notify", "mark"} /\ Order(p) = o}
-----------------------------------------------------------------------------
(* CreateOrder *)

\* The serial is known and its row has a QR image: CreateOrder answers with it.
ReplaysQR(o) ==
  \E other \in ThirdOrderNos :
    GsOrderNo[other] = GsOrderNo[o] /\ Exists(other) /\ HasColumn(other, "pvs_qr")

\* The lookup by gs_order_no finds nothing to replay, or fails, which the code
\* takes for the same answer; o is the new UUID.
CreateOrder(p, o, lookupFails) ==
  /\ p \in Requests
  /\ IsAt(p, "idle")
  /\ ~Exists(o) /\ \A q \in Procs : Order(q) /= o
  /\ lookupFails \/ ~ReplaysQR(o)
  /\ Becomes(p, At("insert", o))
  /\ UNCHANGED <<orders, qr, reverseRequested, told>>

InsertOrder(p) ==
  /\ IsAt(p, "insert")
  /\ \/ /\ SerialIsFree(Order(p))
        /\ Create(Order(p))
        /\ Becomes(p, At("generateQR", Order(p)))
     \/ /\ ~SerialIsFree(Order(p))
        /\ Becomes(p, Idle)
        /\ UNCHANGED orders
  /\ UNCHANGED <<qr, reverseRequested, told>>

\* PVS creates the QR; its answer arrives, or is lost (timeout, bad body).
GenerateQR(p) ==
  /\ IsAt(p, "generateQR")
  /\ CreateQR(Order(p))
  /\ \E next \in {"showQR", "failOrder"} : Becomes(p, At(next, Order(p)))
  /\ UNCHANGED <<orders, reverseRequested, told>>

\* PVS refuses the QR or is never reached.
GenerateQRFails(p) ==
  /\ IsAt(p, "generateQR")
  /\ Becomes(p, At("failOrder", Order(p)))
  /\ UNCHANGED <<orders, qr, reverseRequested, told>>

FailOrder(p) ==
  /\ IsAt(p, "failOrder")
  /\ UpdateStatus(Order(p), "FAILED")
  /\ Becomes(p, Idle)
  /\ UNCHANGED <<qr, reverseRequested, told>>

ShowQR(p) ==
  /\ IsAt(p, "showQR")
  /\ UpdateStatusAndFields(Order(p), "QR_SHOWN", {"pvs_qr"})
  /\ Becomes(p, Idle)
  /\ UNCHANGED <<qr, reverseRequested, told>>
-----------------------------------------------------------------------------
(* HandlePVSWebhook, and the guarded update the reconciler makes as well *)

\* Mutant: the handler does not ask the table.
HandleAnyPVSWebhook(p, o, pvsStatus) ==
  LET seen == orders[o].status
      to   == pvsStatusToOrderStatus(pvsStatus, seen)
  IN  /\ p \in Requests
      /\ IsAt(p, "idle")
      /\ Exists(o)
      /\ pvsStatus \in Callbacks(o)
      /\ Becomes(p, [pc |-> "guarded", ord |-> o, seen |-> seen, to |-> to])
      /\ UNCHANGED <<orders, qr, reverseRequested, told>>

\* The callback finds its order, has a target and the table allows it from
\* the status just read.  In every other case the handler changes nothing.
HandlePVSWebhook(p, o, pvsStatus) ==
  LET seen == orders[o].status
      to   == pvsStatusToOrderStatus(pvsStatus, seen)
  IN  /\ p \in Requests
      /\ IsAt(p, "idle")
      /\ Exists(o)
      /\ pvsStatus \in Callbacks(o)
      /\ CanTransitionTo(seen, to)
      /\ Becomes(p, [pc |-> "guarded", ord |-> o, seen |-> seen, to |-> to])
      /\ UNCHANGED <<orders, qr, reverseRequested, told>>

\* Mutant: the confirmation is written without payment_confirmed_at.
NoPaymentFields(to) == {}

PaymentFields(to) == IF to = "PAYMENT_CONFIRMED" THEN {"payment_confirmed_at"} ELSE {}

\* The UPDATE of call p still finds the status the call read.
Wins(p) == orders[Order(p)].status = calls[p].seen

GuardedUpdate(p) ==
  /\ IsAt(p, "guarded")
  /\ UpdateStatusGuardedAndFields(Order(p), calls[p].seen, calls[p].to,
                                  PaymentFields(calls[p].to))
  /\ Becomes(p, IF Wins(p) /\ calls[p].to = "PAYMENT_CONFIRMED"
                  THEN At("notify", Order(p)) ELSE Idle)
  /\ UNCHANGED <<qr, reverseRequested, told>>
-----------------------------------------------------------------------------
(* NotifyPaymentIfNeeded *)

\* What NotifyPayment returns: "success", which it also takes an empty or unreadable
\* body for, or an error or another returnCode.
NoticeAnswers == {"success", "failure"}

\* GS receives the notice.  Its answer may be lost on the way: a failure.
NotifyPayment(p) ==
  /\ IsAt(p, "notify")
  /\ told' = told \cup {Order(p)}
  /\ \E answer \in NoticeAnswers :
       Becomes(p, IF answer = "success" THEN At("mark", Order(p)) ELSE Idle)
  /\ UNCHANGED <<orders, qr, reverseRequested>>

\* Mutant: the status is written again but not gs_notified_at.
MarkNothing(p) ==
  /\ IsAt(p, "mark")
  /\ UpdateStatusAndFields(Order(p), "PAYMENT_CONFIRMED", {})
  /\ Becomes(p, Idle)
  /\ UNCHANGED <<qr, reverseRequested, told>>

\* The status written is that of the copy in memory, PAYMENT_CONFIRMED.
MarkNotified(p) ==
  /\ IsAt(p, "mark")
  /\ UpdateStatusAndFields(Order(p), "PAYMENT_CONFIRMED", {"gs_notified_at"})
  /\ Becomes(p, Idle)
  /\ UNCHANGED <<qr, reverseRequested, told>>
-----------------------------------------------------------------------------
(* CompleteOrder and CancelOrder *)

\* Mutant: the table is not asked.
AcceptAnyWrite(p, o, to) ==
  /\ p \in Requests
  /\ IsAt(p, "idle")
  /\ HasColumn(o, "pvs_qr")
  /\ Becomes(p, [At("write", o) EXCEPT !.to = to])
  /\ UNCHANGED <<orders, qr, reverseRequested, told>>

\* The target is checked against the status just read, and written later.  GS
\* names an order by the third_order_no it got in the answer with the QR.
AcceptWrite(p, o, to) ==
  /\ p \in Requests
  /\ IsAt(p, "idle")
  /\ HasColumn(o, "pvs_qr")
  /\ CanTransitionTo(orders[o].status, to)
  /\ Becomes(p, [At("write", o) EXCEPT !.to = to])
  /\ UNCHANGED <<orders, qr, reverseRequested, told>>

CompleteOrder(p, o, success) == AcceptWrite(p, o, IF success THEN "DONE" ELSE "FAILED")

\* A cancelled order is answered with success and is not written again: the
\* table has no arrow from CANCELLED to itself.
CancelOrder(p, o) == AcceptWrite(p, o, "CANCELLED")

ResultFields(to) ==
  CASE to = "DONE"      -> {"gs_completed_at"}
    [] to = "CANCELLED" -> {"gs_cancelled_at"}
    [] OTHER            -> {}

WriteResult(p) ==
  /\ IsAt(p, "write")
  /\ UpdateStatusAndFields(Order(p), calls[p].to, ResultFields(calls[p].to))
  /\ Becomes(p, Idle)
  /\ UNCHANGED <<qr, reverseRequested, told>>
-----------------------------------------------------------------------------
\* The next statement or request of the call fails and the handler returns, the
\* client goes away and its context is cancelled, or the process dies.
Abort(p) ==
  /\ ~IsAt(p, "idle")
  /\ Becomes(p, Idle)
  /\ UNCHANGED <<orders, qr, reverseRequested, told>>

OrderServiceNext(p) ==
  \/ \E o \in ThirdOrderNos :
       \/ \E lookupFails \in BOOLEAN : CreateOrder(p, o, lookupFails)
       \/ \E pvsStatus \in PVSStatuses : HandlePVSWebhook(p, o, pvsStatus)
       \/ \E success \in BOOLEAN : CompleteOrder(p, o, success)
       \/ CancelOrder(p, o)
  \/ InsertOrder(p) \/ GenerateQR(p) \/ GenerateQRFails(p) \/ FailOrder(p) \/ ShowQR(p)
  \/ GuardedUpdate(p)
  \/ NotifyPayment(p) \/ MarkNotified(p)
  \/ WriteResult(p)
  \/ Abort(p)
=============================================================================
