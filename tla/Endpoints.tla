------------------------------ MODULE Endpoints ------------------------------
(***************************************************************************)
(* The endpoints of handler.go about orders: what GS and PVS are answered, *)
(* and when.  RefundAnswers has those about refunds.  An answer goes with  *)
(* the step that decides it; the same step without an answer (Next) is one *)
(* whose connection breaks.  A request that is refused before its INSERT,  *)
(* and POST /order/status, change nothing and are left out.                *)
(***************************************************************************)
EXTENDS Bridge, Errors

VARIABLE heard   \* what GS and PVS have been told of each order

endpointVars == <<vars, heard>>

OK == 200

\* <<endpoint, HTTP status>>; "approval" is the callback APPROVED, and "cancelUnpaid"
\* the cancel of an order PVS has approved no payment of.  A refusal of PVS is passed
\* on as 4xx.  Other answers are given and forgotten.
Remembered == {"qr", "approval", "cancelUnpaid"} \X {OK} \cup {"qr"} \X (400..499)

Told(o, endpoint, code) ==
  heard' = IF <<endpoint, code>> \in Remembered
             THEN [heard EXCEPT ![o] = @ \cup {<<endpoint, code>>}]
             ELSE heard

HasHeard(o, endpoint) == <<endpoint, OK>> \in heard[o]

EndpointsInit == heard = [o \in ThirdOrderNos |-> {}]

\* A step of the handler p of the bridge.
Does(p, Step) == Step /\ UNCHANGED <<refundVars, reconcilerVars>>
-----------------------------------------------------------------------------
(* POST /order/qr *)

InternalError(o) == Told(o, "qr", writeError(Err("internal")))

\* The serial of o has a QR: it is answered as it is stored, with "1" whatever has
\* become of the order since.
ReplayQR(o) ==
  /\ HasColumn(o, "pvs_qr")
  /\ Told(o, "qr", OK)
  /\ UNCHANGED vars

\* The INSERT fails, because the serial has an order already or for another reason,
\* or is made and its answer lost.
AnswerNotInserted(p) ==
  /\ \/ IsAt(p, "insert") /\ ~SerialIsFree(Order(p)) /\ Does(p, InsertOrder(p))
     \/ calls[p].pc \in {"insert", "generateQR"} /\ Does(p, Abort(p))
  /\ InternalError(Order(p))

\* The QR is stored and answered; or its UPDATE fails, or is made and its answer
\* lost, and GS gets an error for an order that can be paid.
AnswerQR(p) ==
  \/ Does(p, ShowQR(p)) /\ (Told(Order(p), "qr", OK) \/ InternalError(Order(p)))
  \/ IsAt(p, "showQR") /\ Does(p, Abort(p)) /\ InternalError(Order(p))

\* The HTTP status PVS refused the QR with; 0 if it did not: then an answer was lost.
PVSAnswer(o) == IF qr[o] = NoQR THEN {0, 400, 500} ELSE {0}

\* PVS has failed; the error of the UPDATE to FAILED is ignored.
AnswerQRError(p) ==
  /\ IsAt(p, "failOrder")
  /\ Does(p, FailOrder(p) \/ Abort(p))
  /\ \E status \in PVSAnswer(Order(p)) : Told(Order(p), "qr", writeError(mapearError(status)))
-----------------------------------------------------------------------------
(* POST /order/cancel *)

AcceptsCancel(o) == IF Approved(o) THEN UNCHANGED heard ELSE Told(o, "cancelUnpaid", OK)

\* The UPDATE of Cancel succeeds.
AnswerCancel(p) ==
  /\ calls[p].to = "CANCELLED"
  /\ Does(p, WriteResult(p))
  /\ AcceptsCancel(Order(p))

\* Cancel is idempotent.
AnswerCancelled(o) ==
  /\ orders[o].status = "CANCELLED"
  /\ AcceptsCancel(o)
  /\ UNCHANGED vars
-----------------------------------------------------------------------------
(* POST /webhook/pvs *)

\* Mutant: the callback is acknowledged before its UPDATE.
AcknowledgeEarly(p) ==
  /\ IsAt(p, "guarded") /\ p \in Requests
  /\ Does(p, Abort(p))
  /\ IF calls[p].to = "PAYMENT_CONFIRMED" THEN Told(Order(p), "approval", OK) ELSE UNCHANGED heard

\* The UPDATE moves the order, or finds that another has: both are "ok", and the
\* notice that may follow does not change it.
Acknowledge(p) ==
  /\ IsAt(p, "guarded") /\ p \in Requests
  /\ Does(p, GuardedUpdate(p))
  /\ IF calls[p].to = "PAYMENT_CONFIRMED" THEN Told(Order(p), "approval", OK) ELSE UNCHANGED heard

\* The table has no arrow for an approval.
AcknowledgeIgnored(o) ==
  /\ "APPROVED" \in Callbacks(o)
  /\ Exists(o)
  /\ ~CanTransitionTo(orders[o].status, pvsStatusToOrderStatus("APPROVED", orders[o].status))
  /\ Told(o, "approval", OK)
  /\ UNCHANGED vars

EndpointsNext ==
  \/ Next /\ UNCHANGED heard
  \/ \E o \in ThirdOrderNos :
       ReplayQR(o) \/ AnswerCancelled(o) \/ AcknowledgeIgnored(o)
  \/ \E p \in Requests :
       AnswerNotInserted(p) \/ AnswerQR(p) \/ AnswerQRError(p) \/ AnswerCancel(p) \/ Acknowledge(p)

EndpointsSpec == Init /\ EndpointsInit /\ [][EndpointsNext]_endpointVars
-----------------------------------------------------------------------------
\* PVS does not repeat a callback it was answered "ok" for: after that the order
\* never looks pending, whoever else wrote it in between and whoever writes it later.
\* (Booked as paid it need not be: a timeout or a cancel may have come first.)
AckedApprovalIsNotPending ==
  \A o \in ThirdOrderNos : HasHeard(o, "approval") => ToGSStatus(orders[o].status) /= 1

\* However often GS asks for a serial, and whatever answers it lost, all the QRs it
\* gets for it are one QR, of one order.
OneQRAnswered ==
  \A a, b \in ThirdOrderNos :
    GsOrderNo[a] = GsOrderNo[b] /\ HasHeard(a, "qr") /\ HasHeard(b, "qr") => a = b

\* A refusal of PVS that was passed on to GS is final for the serial: nobody ever
\* pays a QR of it, however often GS asks for it again.  (A 500 says nothing: the
\* serial may have a QR that is shown, paid and answered to the next request.)
RefusedIsNeverPaid ==
  \A o, other \in ThirdOrderNos :
    /\ \E code \in 400..499 : <<"qr", code>> \in heard[o]
    /\ GsOrderNo[other] = GsOrderNo[o]
    => ~Approved(other)

\* GS was answered "ok" to the cancel of an order nobody had paid: the sale does not
\* come back.  The QR can still be paid, and PVS calls back, but the machine never
\* sees the order pending, paid or completed.
UnpaidCancelStands ==
  \A o \in ThirdOrderNos :
    HasHeard(o, "cancelUnpaid") =>
      ToGSStatus(orders[o].status) \notin {1, 2} /\ ~HasColumn(o, "gs_completed_at")
=============================================================================
