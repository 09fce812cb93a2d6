--------------------------------- MODULE PVS ---------------------------------
(***************************************************************************)
(* The payment provider, as the bridge uses it (internal/client/pvs) and   *)
(* as its mock plays it (cmd/mockpvs).  The QR of an order is named by its *)
(* third_order_no, which GenerateQR sends as externalId and reference.     *)
(***************************************************************************)
EXTENDS OrderRepo

VARIABLES
  qr,               \* the state of the QR of each order
  reverseRequested  \* the orders whose Reverse PVS has accepted

NoQR == "NO_QR"

PVSInit ==
  /\ qr = [o \in ThirdOrderNos |-> NoQR]
  /\ reverseRequested = {}

\* PVS has at some time approved the payment of o.
Approved(o) == qr[o] \in {"APPROVED", "REVERSED"}

\* The callbacks PVS has sent for o, one per state it has been in.  Nothing
\* removes a callback: PVS may send it again, late, out of order, or never.
Callbacks(o) ==
  IF qr[o] = NoQR THEN {}
  ELSE {"IN_PROCESS", qr[o]} \cup (IF Approved(o) THEN {"APPROVED"} ELSE {})

\* POST /qr/pvs: a new QR in state 6.
CreateQR(o) ==
  /\ qr[o] = NoQR
  /\ qr' = [qr EXCEPT ![o] = "IN_PROCESS"]

\* The customer pays a QR the machine can display: its image was stored, which
\* is when CreateOrder first returns it.  A QR does not expire at PVS.
CustomerPays(o) ==
  /\ qr[o] = "IN_PROCESS"
  /\ HasColumn(o, "pvs_qr")
  /\ qr' = [qr EXCEPT ![o] = "APPROVED"]
  /\ UNCHANGED reverseRequested

PaymentRejected(o) ==
  /\ qr[o] = "IN_PROCESS"
  /\ qr' = [qr EXCEPT ![o] = "REJECTED"]
  /\ UNCHANGED reverseRequested

\* The reversal the bridge asked for, or one PVS makes on its own.
PaymentReversed(o) ==
  /\ qr[o] = "APPROVED"
  /\ qr' = [qr EXCEPT ![o] = "REVERSED"]
  /\ UNCHANGED reverseRequested

\* POST /qr/pvs/reverse, accepted: the reversal happens at once or later.
AcceptReverse(o) ==
  /\ Approved(o)
  /\ reverseRequested' = reverseRequested \cup {o}
  /\ qr' \in {qr, [qr EXCEPT ![o] = "REVERSED"]}
=============================================================================
