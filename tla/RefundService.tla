---------------------------- MODULE RefundService ----------------------------
(***************************************************************************)
(* The refunds table and POST /order/refund (refund_service.go).  None of  *)
(* the writes after the answer of PVS is guarded or checked: an error of   *)
(* any of them is ignored and the next one is made.                        *)
(***************************************************************************)
EXTENDS OrderService

CONSTANTS
  RefundNos,       \* the refund numbers GS generates
  RefundRequests   \* refund requests that can be in progress at the same time

VARIABLES
  refunds,         \* the row of each refund_no
  rcalls           \* the state of each refund request

serviceVars == <<orders, qr, reverseRequested, calls, told>>

RefundStatuses == {"PENDING", "SUCCESS", "FAILED"}

RefundRows == [status : RefundStatuses \cup {Absent}, ord : ThirdOrderNos \cup {NoOrder}]

NoRefund == "NO_REFUND"

\* pc is the next statement or HTTP request of the refund:
\*   insert        INSERT INTO refunds, PENDING
\*   reverse       POST /qr/pvs/reverse
\*   failRefund    UPDATE refunds to FAILED
\*   failOrder     UPDATE orders to REFUND_FAILED
\*   pendingOrder  UPDATE orders to REFUND_PENDING
\*   closeRefund   UPDATE refunds to SUCCESS
RefundPcs == { "idle", "insert", "reverse", "failRefund", "failOrder",
               "pendingOrder", "closeRefund" }

RefundCallRecords == [ pc : RefundPcs, ord : ThirdOrderNos \cup {NoOrder},
                       ref : RefundNos \cup {NoRefund} ]

IdleRefund == [pc |-> "idle", ord |-> NoOrder, ref |-> NoRefund]

RefundServiceInit ==
  /\ refunds = [n \in RefundNos |-> [status |-> Absent, ord |-> NoOrder]]
  /\ rcalls = [r \in RefundRequests |-> IdleRefund]

RefundIsAt(r, pc) == rcalls[r].pc = pc

GoesTo(r, pc) == rcalls' = [rcalls EXCEPT ![r].pc = pc]

Ends(r) == rcalls' = [rcalls EXCEPT ![r] = IdleRefund]

SetRefund(n, status) == refunds' = [refunds EXCEPT ![n].status = status]

\* Mutant: refundable by status alone, without payment_confirmed_at.
RefundUnpaid(r, n, o) ==
  /\ RefundIsAt(r, "idle")
  /\ refunds[n].status = Absent
  /\ CanTransitionTo(orders[o].status, "REFUND_PENDING")
  /\ rcalls' = [rcalls EXCEPT ![r] = [pc |-> "insert", ord |-> o, ref |-> n]]
  /\ UNCHANGED <<serviceVars, refunds>>

\* The order GS names is refundable as it is read and refundNo is new; a
\* refundNo already stored is answered from its row without any write.
Refund(r, n, o) ==
  /\ RefundIsAt(r, "idle")
  /\ refunds[n].status = Absent
  /\ CanTransitionTo(orders[o].status, "REFUND_PENDING")
  /\ HasColumn(o, "payment_confirmed_at")
  /\ rcalls' = [rcalls EXCEPT ![r] = [pc |-> "insert", ord |-> o, ref |-> n]]
  /\ UNCHANGED <<serviceVars, refunds>>

\* Mutant: the insert replaces a row with the same refund_no.
UpsertRefund(r) ==
  /\ RefundIsAt(r, "insert")
  /\ refunds' = [refunds EXCEPT ![rcalls[r].ref] = [status |-> "PENDING", ord |-> rcalls[r].ord]]
  /\ GoesTo(r, "reverse")
  /\ UNCHANGED serviceVars

\* refund_no is unique: the second of two requests with it stops here.
InsertRefund(r) ==
  /\ RefundIsAt(r, "insert")
  /\ LET n == rcalls[r].ref
     IN  \/ /\ refunds[n].status = Absent
            /\ refunds' = [refunds EXCEPT ![n] = [status |-> "PENDING", ord |-> rcalls[r].ord]]
            /\ GoesTo(r, "reverse")
         \/ /\ refunds[n].status /= Absent
            /\ Ends(r)
            /\ UNCHANGED refunds
  /\ UNCHANGED serviceVars

\* PVS accepts the reversal; its answer arrives, or is lost.
Reverse(r) ==
  /\ RefundIsAt(r, "reverse")
  /\ AcceptReverse(rcalls[r].ord)
  /\ \E next \in {"pendingOrder", "failRefund"} : GoesTo(r, next)
  /\ UNCHANGED <<orders, calls, told, refunds>>

\* Mutant: an error of PVS is taken for an accepted reversal.
ReverseFailsUnnoticed(r) ==
  /\ RefundIsAt(r, "reverse")
  /\ GoesTo(r, "pendingOrder")
  /\ UNCHANGED <<serviceVars, refunds>>

\* PVS rejects the reversal or is never reached.
ReverseFails(r) ==
  /\ RefundIsAt(r, "reverse")
  /\ GoesTo(r, "failRefund")
  /\ UNCHANGED <<serviceVars, refunds>>

FailRefund(r) ==
  /\ RefundIsAt(r, "failRefund")
  /\ SetRefund(rcalls[r].ref, "FAILED") \/ UNCHANGED refunds
  /\ GoesTo(r, "failOrder")
  /\ UNCHANGED serviceVars

FailRefundOrder(r) ==
  /\ RefundIsAt(r, "failOrder")
  /\ UpdateStatus(rcalls[r].ord, "REFUND_FAILED")
  /\ Ends(r)
  /\ UNCHANGED <<qr, reverseRequested, calls, told, refunds>>

PendingOrder(r) ==
  /\ RefundIsAt(r, "pendingOrder")
  /\ UpdateStatus(rcalls[r].ord, "REFUND_PENDING") \/ UNCHANGED orders
  /\ GoesTo(r, "closeRefund")
  /\ UNCHANGED <<qr, reverseRequested, calls, told, refunds>>

CloseRefund(r) ==
  /\ RefundIsAt(r, "closeRefund")
  /\ SetRefund(rcalls[r].ref, "SUCCESS")
  /\ Ends(r)
  /\ UNCHANGED serviceVars

\* The insert or the last write fails, or the process dies at any step.
AbortRefund(r) ==
  /\ ~RefundIsAt(r, "idle")
  /\ Ends(r)
  /\ UNCHANGED <<serviceVars, refunds>>

RefundServiceNext(r) ==
  \/ \E n \in RefundNos, o \in ThirdOrderNos : Refund(r, n, o)
  \/ InsertRefund(r)
  \/ Reverse(r) \/ ReverseFails(r)
  \/ FailRefund(r) \/ FailRefundOrder(r)
  \/ PendingOrder(r) \/ CloseRefund(r)
  \/ AbortRefund(r)
=============================================================================
