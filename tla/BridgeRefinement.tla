--------------------------- MODULE BridgeRefinement ---------------------------
(***************************************************************************)
(* The bridge keeps SalePromise.  A sale is a serial of the machine; its   *)
(* state is that of the one order the unique index lets exist for it.      *)
(***************************************************************************)
EXTENDS Bridge

OrdersOf(s) == {o \in ThirdOrderNos : GsOrderNo[o] = s}

MoneyAtPVS(state) ==
  CASE state = NoQR         -> "none"
    [] state = "IN_PROCESS" -> "asked"
    [] state = "APPROVED"   -> "taken"
    [] state = "REJECTED"   -> "refused"
    [] state = "REVERSED"   -> "returned"

AnswerCode(code) ==
  CASE code = 1 -> "pending"   [] code = 2 -> "paid"     [] code = 3 -> "failed"
    [] code = 4 -> "refunding" [] code = 5 -> "refunded" [] code = 6 -> "timeout"

SaleMoney(s) ==
  LET sold == {o \in OrdersOf(s) : qr[o] /= NoQR}
  IN  IF sold = {} THEN "none" ELSE MoneyAtPVS(qr[CHOOSE o \in sold : TRUE])

SaleAnswer(s) ==
  LET rows == {o \in OrdersOf(s) : Exists(o)}
  IN  IF rows = {} THEN "none" ELSE AnswerCode(ToGSStatus(orders[CHOOSE o \in rows : TRUE].status))

Promise == INSTANCE SalePromise WITH
  Sales    <- GsOrderNos,
  money    <- [s \in GsOrderNos |-> SaleMoney(s)],
  booked   <- {s \in GsOrderNos : \E o \in OrdersOf(s) : Paid(o)},
  answer   <- [s \in GsOrderNos |-> SaleAnswer(s)],
  refunded <- {s \in GsOrderNos : \E o \in OrdersOf(s) : orders[o].status = "REFUNDED"},
  told     <- {s \in GsOrderNos : \E o \in OrdersOf(s) : o \in told}

\* Every step of the bridge, seen from outside, is a step of the promise or is not
\* seen at all: retries, races, lost answers and stale copies add nothing to it.
KeepsPromise == Promise!Spec
=============================================================================
