----------------------------- MODULE OrderStatus -----------------------------
(***************************************************************************)
(* The status vocabularies of the bridge and the conversions between them: *)
(* the internal state machine of an order, the four states of a PVS QR and *)
(* the codes 1..6 the vending machine (GS) understands.                    *)
(* Source: internal/domain/status.go and two helpers of order_service.go.  *)
(***************************************************************************)
EXTENDS Naturals

OrderStatuses ==
  { "RECEIVED", "QR_REQUESTED", "QR_SHOWN", "PAYMENT_CONFIRMED", "DONE",
    "FAILED", "TIMEOUT", "CANCELLED",
    "REFUND_PENDING", "REFUNDED", "REFUND_FAILED" }

PVSStatuses == { "IN_PROCESS", "APPROVED", "REVERSED", "REJECTED" }

\* The empty target of the code ("" in Go): the event changes nothing.
NoStatus == "NO_STATUS"

\* The successors transitionTable lists for status s.
Successors(s) ==
  CASE s = "RECEIVED"          -> {"QR_REQUESTED", "FAILED"}
    [] s = "QR_REQUESTED"      -> {"QR_SHOWN", "FAILED"}
    [] s = "QR_SHOWN"          -> {"PAYMENT_CONFIRMED", "FAILED", "TIMEOUT", "CANCELLED"}
    [] s = "PAYMENT_CONFIRMED" -> {"DONE", "REFUND_PENDING", "FAILED", "CANCELLED"}
    [] s = "REFUND_PENDING"    -> {"REFUNDED", "REFUND_FAILED"}
    [] s \in {"DONE", "FAILED"} -> {"REFUND_PENDING"}
    [] OTHER                   -> {}

CanTransitionTo(s, nuevo) == nuevo \in Successors(s)

EsEstadoTerminal(s) == s \in OrderStatuses /\ Successors(s) = {}

\* What POST /order/status answers: "1" pending, "2" paid, "3" failed,
\* "4" refund pending, "5" refunded, "6" timeout.
ToGSStatus(s) ==
  CASE s \in {"RECEIVED", "QR_REQUESTED", "QR_SHOWN"} -> 1
    [] s \in {"PAYMENT_CONFIRMED", "DONE"}            -> 2
    [] s = "REFUND_PENDING"                           -> 4
    [] s \in {"REFUNDED", "REFUND_FAILED"}            -> 5
    [] s = "TIMEOUT"                                  -> 6
    [] OTHER                                          -> 3

\* The target of a PVS callback, given the status the order was read with:
\* a reversal completes a refund we asked for, and otherwise starts one.
pvsStatusToOrderStatus(pvs, actual) ==
  CASE pvs = "APPROVED" -> "PAYMENT_CONFIRMED"
    [] pvs = "REVERSED" -> IF actual = "REFUND_PENDING" THEN "REFUNDED"
                                                        ELSE "REFUND_PENDING"
    [] pvs = "REJECTED" -> "FAILED"
    [] OTHER            -> NoStatus
=============================================================================
