----------------------------- MODULE BridgeClaims -----------------------------
(***************************************************************************)
(* What the comments, documents and tests of the repository say of the     *)
(* bridge and its code does not do.  Each definition states one such claim *)
(* and is the property of one run, which TLC is expected to violate.       *)
(***************************************************************************)
EXTENDS Bridge

\* order_test.go: TIMEOUT, CANCELLED, REFUNDED and REFUND_FAILED are terminal.  Every
\* status written without a guard, after it was checked against a copy, breaks it:
\* the mark of a notice, the end of a refund, complete and cancel.
TerminalIsFinal ==
  [][ \A o \in ThirdOrderNos :
        EsEstadoTerminal(orders[o].status) => orders'[o].status = orders[o].status ]_vars

\* HandlePVSWebhook: a callback that was already applied is a silent no-op.  If
\* nobody asked for a refund, the order, paid, is in REFUND_PENDING because one
\* REVERSED callback was applied; the second copy of it moves it to REFUNDED.
DuplicateReversalIsNoOp ==
  [][ \A p \in Requests :
        /\ IsAt(p, "guarded") /\ Moves(p) /\ calls[p].to = "REFUNDED"
        /\ Paid(Order(p))
        => Order(p) \in reverseRequested ]_vars
=============================================================================
