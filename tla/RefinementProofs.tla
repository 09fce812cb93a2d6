---------------------------- MODULE RefinementProofs ----------------------------
(***************************************************************************)
(* The bridge implements SalePromise for any sets of serials, orders and   *)
(* handlers.  The invariants of the other proofs say that each serial has  *)
(* at most one order, so a sale can be read off it; then a step of the     *)
(* bridge moves one sale as the promise allows, or is not seen.            *)
(***************************************************************************)
EXTENDS BridgeRefinement, RefundProofs

Safe == TypeOK /\ MoneyInv /\ SaleInv /\ RefundInv

\* The values the promise's variables stand for.
Booked == {s \in GsOrderNos : \E o \in OrdersOf(s) : Paid(o)}

Refunded == {s \in GsOrderNos : \E o \in OrdersOf(s) : orders[o].status = "REFUNDED"}

ToldSales == {s \in GsOrderNos : \E o \in OrdersOf(s) : o \in told}

\* What is seen of a serial: nothing before it has an order, and then its order.
NotSeen(s) ==
  /\ SaleMoney(s) = "none" /\ SaleAnswer(s) = "none"
  /\ s \notin Booked /\ s \notin Refunded /\ s \notin ToldSales

SeenAs(s, o) ==
  /\ SaleMoney(s) = MoneyAtPVS(qr[o])
  /\ SaleAnswer(s) = AnswerCode(ToGSStatus(orders[o].status))
  /\ s \in Booked <=> Paid(o)
  /\ s \in Refunded <=> orders[o].status = "REFUNDED"
  /\ s \in ToldSales <=> o \in told

Views ==
  /\ \A s \in GsOrderNos : (\A o \in OrdersOf(s) : ~Exists(o)) => NotSeen(s)
  /\ \A o \in ThirdOrderNos : Exists(o) => SeenAs(GsOrderNo[o], o)

LEMMA MoneyStates ==
  /\ MoneyAtPVS(NoQR) = "none"
  /\ MoneyAtPVS("IN_PROCESS") = "asked"
  /\ MoneyAtPVS("APPROVED") = "taken"
  /\ MoneyAtPVS("REJECTED") = "refused"
  /\ MoneyAtPVS("REVERSED") = "returned"
BY DEF MoneyAtPVS, NoQR

LEMMA SafeViews == Safe => Views
<1> SUFFICES ASSUME Safe PROVE Views
  OBVIOUS
\* Only an order that exists is paid, has a QR, is refunded or was told of.
<1>1. \A o \in ThirdOrderNos :
        qr[o] /= NoQR \/ Paid(o) \/ orders[o].status = "REFUNDED" \/ o \in told => Exists(o)
  BY DEF Safe, MoneyInv, AbsentRowsAreEmpty, NoNoticeWithoutMoney, SaleInv, RowsInv, QRsHaveRows, Paid,
         HasColumn, Approved, NoQR, Exists, Absent
<1>2. ASSUME NEW s \in GsOrderNos, \A o \in OrdersOf(s) : ~Exists(o)
      PROVE  NotSeen(s)
  <2>1. \A o \in OrdersOf(s) : o \in ThirdOrderNos
    BY DEF OrdersOf
  <2>2. {o \in OrdersOf(s) : qr[o] /= NoQR} = {} /\ {o \in OrdersOf(s) : Exists(o)} = {}
    BY <1>1, <1>2, <2>1
  <2> QED BY <1>1, <1>2, <2>1, <2>2 DEF NotSeen, SaleMoney, SaleAnswer, Booked, Refunded, ToldSales
<1>3. ASSUME NEW o \in ThirdOrderNos, Exists(o)
      PROVE  SeenAs(GsOrderNo[o], o)
  <2> DEFINE s == GsOrderNo[o]
  <2>1. s \in GsOrderNos
    BY GsOrderNoAssumption DEF GsOrderNoAssumption
  <2>2. o \in OrdersOf(s) /\ \A x \in OrdersOf(s) : x \in ThirdOrderNos /\ (Exists(x) => x = o)
    BY <1>3 DEF OrdersOf, Safe, SaleInv, RowsInv, SerialsAreUnique
  <2>3. {x \in OrdersOf(s) : Exists(x)} = {o}
    BY <1>3, <2>2
  <2>4. SaleAnswer(s) = AnswerCode(ToGSStatus(orders[o].status))
    BY <2>3 DEF SaleAnswer
  <2>5. SaleMoney(s) = MoneyAtPVS(qr[o])
    <3>1. CASE qr[o] = NoQR
      <4>1. {x \in OrdersOf(s) : qr[x] /= NoQR} = {}
        BY <1>1, <2>2, <3>1
      <4> QED BY <3>1, <4>1, MoneyStates DEF SaleMoney
    <3>2. CASE qr[o] /= NoQR
      <4>1. {x \in OrdersOf(s) : qr[x] /= NoQR} = {o}
        BY <1>1, <2>2, <3>2
      <4> QED BY <4>1 DEF SaleMoney
    <3> QED BY <3>1, <3>2
  <2>6. /\ s \in Booked <=> Paid(o)
        /\ s \in Refunded <=> orders[o].status = "REFUNDED"
        /\ s \in ToldSales <=> o \in told
    BY <1>1, <2>1, <2>2 DEF Booked, Refunded, ToldSales
  <2> QED BY <2>4, <2>5, <2>6 DEF SeenAs
<1> QED BY <1>2, <1>3 DEF Views

LEMMA SafeViewsNext == Safe' => Views'
BY SafeViews, PTL

\* The statuses as the machine sees them.
LEMMA Codes ==
  \A status \in OrderStatuses :
    LET a == AnswerCode(ToGSStatus(status))
    IN  /\ a \in {"pending", "paid", "failed", "refunding", "refunded", "timeout"}
        /\ a = "paid" <=> status \in {"PAYMENT_CONFIRMED", "DONE"}
        /\ a \in {"pending", "timeout"} <=> status \in {"RECEIVED", "QR_REQUESTED", "QR_SHOWN", "TIMEOUT"}
        /\ a = "timeout" <=> status = "TIMEOUT"
        /\ status \in {"FAILED", "CANCELLED"} => a = "failed"
        /\ status = "REFUNDED" => a = "refunded"
<1>1. /\ AnswerCode(1) = "pending" /\ AnswerCode(2) = "paid" /\ AnswerCode(3) = "failed"
      /\ AnswerCode(4) = "refunding" /\ AnswerCode(5) = "refunded" /\ AnswerCode(6) = "timeout"
  BY DEF AnswerCode
<1>2. \A status \in OrderStatuses :
        /\ ToGSStatus(status) \in 1..6
        /\ ToGSStatus(status) = 1 <=> status \in {"RECEIVED", "QR_REQUESTED", "QR_SHOWN"}
        /\ ToGSStatus(status) = 2 <=> status \in {"PAYMENT_CONFIRMED", "DONE"}
        /\ ToGSStatus(status) = 6 <=> status = "TIMEOUT"
        /\ status \in {"FAILED", "CANCELLED"} => ToGSStatus(status) = 3
        /\ status = "REFUNDED" => ToGSStatus(status) = 5
  BY DEF ToGSStatus, OrderStatuses
<1>3. \A n \in 1..6 : n = 1 \/ n = 2 \/ n = 3 \/ n = 4 \/ n = 5 \/ n = 6
  OBVIOUS
<1> QED BY <1>1, <1>2, <1>3
-----------------------------------------------------------------------------
(* The actions of the promise, on the values its variables stand for. *)

MoneySeen == [s \in GsOrderNos |-> SaleMoney(s)]

AnswersSeen == [s \in GsOrderNos |-> SaleAnswer(s)]

LEMMA PromiseVariables ==
  UNCHANGED <<MoneySeen, Booked, AnswersSeen, Refunded, ToldSales>> => UNCHANGED Promise!saleVars
BY DEF MoneySeen, AnswersSeen, Booked, Refunded, ToldSales, Promise!saleVars

LEMMA PromiseOpens ==
  ASSUME NEW s \in GsOrderNos, AnswersSeen[s] = "none",
         AnswersSeen' = [AnswersSeen EXCEPT ![s] = "pending"],
         UNCHANGED <<MoneySeen, Booked, Refunded, ToldSales>>
  PROVE  Promise!Next
<1>1. Promise!Open(s)
  BY DEF MoneySeen, AnswersSeen, Booked, Refunded, ToldSales, Promise!Open
<1> QED BY <1>1 DEF Promise!Next

LEMMA PromiseMoneyMoves ==
  ASSUME NEW s \in GsOrderNos, NEW from, NEW to, MoneySeen[s] = from,
         MoneySeen' = [MoneySeen EXCEPT ![s] = to],
         UNCHANGED <<Booked, AnswersSeen, Refunded, ToldSales>>,
         \/ from = "none" /\ to = "asked" /\ AnswersSeen[s] /= "none"
         \/ from = "asked" /\ to \in {"taken", "refused"}
         \/ from = "taken" /\ to = "returned"
  PROVE  Promise!Next
<1>1. Promise!MoneyMoves(s, from, to)
  BY DEF MoneySeen, AnswersSeen, Booked, Refunded, ToldSales, Promise!MoneyMoves
<1> QED BY <1>1 DEF Promise!Next, AnswersSeen

LEMMA PromiseBooks ==
  ASSUME NEW s \in GsOrderNos, MoneySeen[s] \in {"taken", "returned"}, AnswersSeen[s] = "pending",
         s \notin Booked, Booked' = Booked \cup {s},
         AnswersSeen' = [AnswersSeen EXCEPT ![s] = "paid"],
         UNCHANGED <<MoneySeen, Refunded, ToldSales>>
  PROVE  Promise!Next
<1>1. Promise!Book(s)
  BY DEF MoneySeen, AnswersSeen, Booked, Refunded, ToldSales, Promise!Book, Promise!WasTaken
<1> QED BY <1>1 DEF Promise!Next

LEMMA PromiseTells ==
  ASSUME NEW s \in GsOrderNos, MoneySeen[s] \in {"taken", "returned"}, ToldSales' = ToldSales \cup {s},
         UNCHANGED <<MoneySeen, Booked, AnswersSeen, Refunded>>
  PROVE  Promise!Next
<1>1. Promise!Tell(s)
  BY DEF MoneySeen, AnswersSeen, Booked, Refunded, ToldSales, Promise!Tell, Promise!WasTaken
<1> QED BY <1>1 DEF Promise!Next

LEMMA PromiseSettles ==
  ASSUME NEW s \in GsOrderNos, NEW a \in {"pending", "paid", "failed", "refunding", "refunded", "timeout"},
         AnswersSeen[s] /= "none",
         a = "paid" => s \in Booked,
         a \in {"pending", "timeout"} => s \notin Booked,
         AnswersSeen[s] = "timeout" => a \in {"timeout", "failed"},
         AnswersSeen' = [AnswersSeen EXCEPT ![s] = a],
         \/ Refunded' = Refunded \ {s}
         \/ a = "refunded" /\ MoneySeen[s] = "returned" /\ Refunded' = Refunded \cup {s},
         UNCHANGED <<MoneySeen, Booked, ToldSales>>
  PROVE  Promise!Next
<1>1. Promise!Settle(s, a)
  BY DEF MoneySeen, AnswersSeen, Booked, Refunded, ToldSales, Promise!Settle
<1>2. a \in Promise!Answers
  BY DEF Promise!Answers
<1> QED BY <1>1, <1>2 DEF Promise!Next
-----------------------------------------------------------------------------
(* The steps of the bridge, each of one order. *)

\* Order x looks the same after the step; the age of its row is not seen.
Rests(x) ==
  /\ orders'[x].status = orders[x].status /\ orders'[x].cols = orders[x].cols
  /\ qr'[x] = qr[x] /\ (x \in told' <=> x \in told)

LEMMA SaleRests ==
  ASSUME Views, Views', NEW s \in GsOrderNos, \A x \in OrdersOf(s) : Rests(x)
  PROVE  /\ SaleMoney(s)' = SaleMoney(s) /\ SaleAnswer(s)' = SaleAnswer(s)
         /\ s \in Booked' <=> s \in Booked
         /\ s \in Refunded' <=> s \in Refunded
         /\ s \in ToldSales' <=> s \in ToldSales
<1>1. \A x \in OrdersOf(s) : x \in ThirdOrderNos /\ GsOrderNo[x] = s /\ Rests(x)
  BY DEF OrdersOf
<1>2. CASE \A x \in OrdersOf(s) : ~Exists(x)
  <2>1. NotSeen(s)
    BY <1>2 DEF Views
  <2>2. NotSeen(s)'
    BY <1>1, <1>2 DEF Views, Exists, OrdersOf, Rests
  <2> QED BY <2>1, <2>2 DEF NotSeen
<1>3. ASSUME NEW x \in OrdersOf(s), Exists(x)
      PROVE  /\ SaleMoney(s)' = SaleMoney(s) /\ SaleAnswer(s)' = SaleAnswer(s)
             /\ s \in Booked' <=> s \in Booked
             /\ s \in Refunded' <=> s \in Refunded
             /\ s \in ToldSales' <=> s \in ToldSales
  <2>1. SeenAs(s, x)
    BY <1>1, <1>3 DEF Views
  <2>2. SeenAs(s, x)'
    BY <1>1, <1>3 DEF Views, Exists, Rests
  <2> QED BY <1>1, <2>1, <2>2 DEF SeenAs, Paid, HasColumn, Rests
<1> QED BY <1>2, <1>3

\* Seen from outside, a step of one order changes nothing but its sale.
LEMMA OneSaleMoves ==
  ASSUME Views, Views', NEW o \in ThirdOrderNos, \A x \in ThirdOrderNos : x /= o => Rests(x),
         NEW s, s = GsOrderNo[o]
  PROVE  /\ s \in GsOrderNos
         /\ MoneySeen' = [MoneySeen EXCEPT ![s] = SaleMoney(s)']
         /\ AnswersSeen' = [AnswersSeen EXCEPT ![s] = SaleAnswer(s)']
         /\ Booked' = (Booked \ {s}) \cup {t \in {s} : t \in Booked'}
         /\ Refunded' = (Refunded \ {s}) \cup {t \in {s} : t \in Refunded'}
         /\ ToldSales' = (ToldSales \ {s}) \cup {t \in {s} : t \in ToldSales'}
<1>1. s \in GsOrderNos
  BY GsOrderNoAssumption DEF GsOrderNoAssumption
<1>2. \A t \in GsOrderNos : t /= s =>
        /\ SaleMoney(t)' = SaleMoney(t) /\ SaleAnswer(t)' = SaleAnswer(t)
        /\ t \in Booked' <=> t \in Booked
        /\ t \in Refunded' <=> t \in Refunded
        /\ t \in ToldSales' <=> t \in ToldSales
  BY SaleRests DEF OrdersOf
<1>3. MoneySeen' = [MoneySeen EXCEPT ![s] = SaleMoney(s)']
  BY <1>2 DEF MoneySeen
<1>4. AnswersSeen' = [AnswersSeen EXCEPT ![s] = SaleAnswer(s)']
  BY <1>2 DEF AnswersSeen
<1>5. /\ Booked \subseteq GsOrderNos /\ Booked' \subseteq GsOrderNos
      /\ Refunded \subseteq GsOrderNos /\ Refunded' \subseteq GsOrderNos
      /\ ToldSales \subseteq GsOrderNos /\ ToldSales' \subseteq GsOrderNos
  BY DEF Booked, Refunded, ToldSales
<1> QED BY <1>1, <1>2, <1>3, <1>4, <1>5

LEMMA NothingIsSeen ==
  ASSUME Views, Views', \A x \in ThirdOrderNos : Rests(x)
  PROVE  UNCHANGED Promise!saleVars
<1>1. \A s \in GsOrderNos :
        /\ SaleMoney(s)' = SaleMoney(s) /\ SaleAnswer(s)' = SaleAnswer(s)
        /\ s \in Booked' <=> s \in Booked
        /\ s \in Refunded' <=> s \in Refunded
        /\ s \in ToldSales' <=> s \in ToldSales
  BY SaleRests DEF OrdersOf
<1>2. UNCHANGED <<MoneySeen, AnswersSeen>>
  BY <1>1 DEF MoneySeen, AnswersSeen
<1>3. UNCHANGED <<Booked, Refunded, ToldSales>>
  <2>1. /\ Booked \subseteq GsOrderNos /\ Booked' \subseteq GsOrderNos
        /\ Refunded \subseteq GsOrderNos /\ Refunded' \subseteq GsOrderNos
        /\ ToldSales \subseteq GsOrderNos /\ ToldSales' \subseteq GsOrderNos
    BY DEF Booked, Refunded, ToldSales
  <2> QED BY <1>1, <2>1
<1> QED BY <1>2, <1>3, PromiseVariables

\* The customer's money moves at PVS, for an order that exists.
MovesMoney(o) ==
  /\ Exists(o)
  /\ \E to : /\ qr' = [qr EXCEPT ![o] = to]
             /\ \/ qr[o] = NoQR /\ to = "IN_PROCESS"
                \/ qr[o] = "IN_PROCESS" /\ to \in {"APPROVED", "REJECTED"}
                \/ qr[o] = "APPROVED" /\ to = "REVERSED"

\* A step writes the orders table, moves money, or tells GS of a stored payment.
LEMMA OneTableAtATime ==
  ASSUME TypeOK, MoneyInv, SaleInv, Next
  PROVE  \/ UNCHANGED <<qr, told>>
         \/ \E o \in ThirdOrderNos : MovesMoney(o) /\ UNCHANGED <<orders, told>>
         \/ \E o \in ThirdOrderNos : Paid(o) /\ told' = told \cup {o} /\ UNCHANGED <<orders, qr>>
<1>t. /\ qr \in [ThirdOrderNos -> PVSStatuses \cup {NoQR}]
      /\ \A p \in Procs : ~IsAt(p, "idle") => Order(p) \in ThirdOrderNos
      /\ \A r \in RefundRequests : ~RefundIsAt(r, "idle") => rcalls[r].ord \in ThirdOrderNos
  BY DEF TypeOK
<1>e. \A o \in ThirdOrderNos : qr[o] /= NoQR => Exists(o)
  BY DEF SaleInv, RowsInv, QRsHaveRows
<1>1. ASSUME NEW p \in Procs, Handler(p)
      PROVE  \/ UNCHANGED <<qr, told>>
             \/ \E o \in ThirdOrderNos : MovesMoney(o) /\ UNCHANGED <<orders, told>>
             \/ \E o \in ThirdOrderNos : Paid(o) /\ told' = told \cup {o} /\ UNCHANGED <<orders, qr>>
  <2>1. CASE GenerateQR(p)
    <3>1. Order(p) \in ThirdOrderNos /\ Exists(Order(p))
      BY <1>t, <2>1 DEF GenerateQR, IsAt, SaleInv, CallsHaveRows
    <3>2. MovesMoney(Order(p)) /\ UNCHANGED <<orders, told>>
      BY <2>1, <3>1 DEF GenerateQR, CreateQR, MovesMoney
    <3> QED BY <3>1, <3>2
  <2>2. CASE NotifyPayment(p)
    <3>1. Order(p) \in ThirdOrderNos /\ Paid(Order(p))
      BY <1>t, <2>2 DEF NotifyPayment, IsAt, MoneyInv, CallsKnowPayment
    <3> QED BY <2>2, <3>1 DEF NotifyPayment
  <2>3. ~GenerateQR(p) /\ ~NotifyPayment(p) => UNCHANGED <<qr, told>>
    BY <1>1 DEF Handler, OrderServiceNext, CreateOrder, HandlePVSWebhook, CompleteOrder, CancelOrder,
                AcceptWrite, InsertOrder, GenerateQRFails, FailOrder, ShowQR, GuardedUpdate, MarkNotified,
                WriteResult, Abort
  <2> QED BY <2>1, <2>2, <2>3
<1>2. ASSUME NEW r \in RefundRequests, RefundHandler(r)
      PROVE  \/ UNCHANGED <<qr, told>>
             \/ \E o \in ThirdOrderNos : MovesMoney(o) /\ UNCHANGED <<orders, told>>
  <2>1. CASE Reverse(r)
    <3>1. rcalls[r].ord \in ThirdOrderNos /\ qr[rcalls[r].ord] \in {"APPROVED", "REVERSED"}
      BY <1>t, <2>1 DEF Reverse, RefundIsAt, AcceptReverse, Approved
    <3>2. UNCHANGED qr \/ qr' = [qr EXCEPT ![rcalls[r].ord] = "REVERSED"]
      BY <2>1 DEF Reverse, AcceptReverse
    <3>3. UNCHANGED qr \/ MovesMoney(rcalls[r].ord)
      BY <1>e, <1>t, <3>1, <3>2 DEF MovesMoney, NoQR
    <3> QED BY <2>1, <3>1, <3>3 DEF Reverse
  <2>2. ~Reverse(r) => UNCHANGED <<qr, told>>
    BY <1>2 DEF RefundHandler, RefundServiceNext, serviceVars, Refund, InsertRefund, ReverseFails, FailRefund,
                FailRefundOrder, PendingOrder, CloseRefund, AbortRefund
  <2> QED BY <2>1, <2>2
<1>3. ReconcilerNext => UNCHANGED <<qr, told>>
  BY DEF ReconcilerNext, serviceVars, Scan, ListUnnotified, Reconcile, QueryFails, RetryNotify, EndPass,
         StopWorker
<1>4. ASSUME NEW o \in ThirdOrderNos, Pays(o) \/ Rejected(o) \/ Reversed(o)
      PROVE  MovesMoney(o) /\ UNCHANGED <<orders, told>>
  BY <1>4, <1>e DEF Pays, Rejected, Reversed, CustomerPays, PaymentRejected, PaymentReversed, MovesMoney, NoQR
<1>5. \A o \in ThirdOrderNos : TimePasses(o) => UNCHANGED <<qr, told>>
  BY DEF TimePasses, SnapshotBecomesDue, serviceVars
<1> QED BY <1>1, <1>2, <1>3, <1>4, <1>5 DEF Next, Environment

\* Money that moves is seen so.
LEMMA MoneyIsSeen ==
  ASSUME Safe, Views, Views', NEW o \in ThirdOrderNos, MovesMoney(o), UNCHANGED <<orders, told>>
  PROVE  Promise!Next
<1> DEFINE s == GsOrderNo[o]
<1>t. orders \in [ThirdOrderNos -> Rows] /\ qr \in [ThirdOrderNos -> PVSStatuses \cup {NoQR}]
  BY DEF Safe, TypeOK
<1>1. PICK to : /\ qr' = [qr EXCEPT ![o] = to]
                /\ \/ qr[o] = NoQR /\ to = "IN_PROCESS"
                   \/ qr[o] = "IN_PROCESS" /\ to \in {"APPROVED", "REJECTED"}
                   \/ qr[o] = "APPROVED" /\ to = "REVERSED"
  BY DEF MovesMoney
<1>2. \A x \in ThirdOrderNos : x /= o => Rests(x)
  BY <1>1, <1>t DEF Rests
<1>3. /\ s \in GsOrderNos
      /\ MoneySeen' = [MoneySeen EXCEPT ![s] = SaleMoney(s)']
      /\ AnswersSeen' = [AnswersSeen EXCEPT ![s] = SaleAnswer(s)']
      /\ Booked' = (Booked \ {s}) \cup {t \in {s} : t \in Booked'}
      /\ Refunded' = (Refunded \ {s}) \cup {t \in {s} : t \in Refunded'}
      /\ ToldSales' = (ToldSales \ {s}) \cup {t \in {s} : t \in ToldSales'}
  BY <1>2, OneSaleMoves
<1>4. Exists(o) /\ Exists(o)' /\ SeenAs(s, o)
  BY DEF MovesMoney, Views, Exists
<1>5. SeenAs(s, o)'
  BY <1>4 DEF Views
<1>6. SaleMoney(s) = MoneyAtPVS(qr[o]) /\ SaleMoney(s)' = MoneyAtPVS(to)
  BY <1>1, <1>4, <1>5, <1>t DEF SeenAs
<1>7. SaleAnswer(s)' = SaleAnswer(s)
  BY <1>4, <1>5 DEF SeenAs
<1>8. /\ s \in Booked' <=> s \in Booked
      /\ s \in Refunded' <=> s \in Refunded
      /\ s \in ToldSales' <=> s \in ToldSales
  BY <1>4, <1>5 DEF SeenAs, Paid, HasColumn
<1>9. UNCHANGED <<Booked, Refunded, ToldSales>>
  BY <1>3, <1>8
<1>10. MoneySeen[s] = SaleMoney(s) /\ AnswersSeen[s] = SaleAnswer(s)
  BY <1>3 DEF MoneySeen, AnswersSeen
<1>11. UNCHANGED AnswersSeen
  BY <1>3, <1>7, <1>10 DEF AnswersSeen
<1>12. SaleAnswer(s) /= "none"
  BY <1>4, <1>t, Codes DEF SeenAs, Exists, Rows
<1> QED BY <1>1, <1>3, <1>6, <1>9, <1>10, <1>11, <1>12, MoneyStates, PromiseMoneyMoves

\* The machine hears of a payment, once or again.
LEMMA NoticeIsSeen ==
  ASSUME Safe, Views, Views', NEW o \in ThirdOrderNos, Paid(o), told' = told \cup {o},
         UNCHANGED <<orders, qr>>
  PROVE  Promise!Next
<1> DEFINE s == GsOrderNo[o]
<1>1. \A x \in ThirdOrderNos : x /= o => Rests(x)
  BY DEF Rests
<1>2. /\ s \in GsOrderNos
      /\ MoneySeen' = [MoneySeen EXCEPT ![s] = SaleMoney(s)']
      /\ AnswersSeen' = [AnswersSeen EXCEPT ![s] = SaleAnswer(s)']
      /\ Booked' = (Booked \ {s}) \cup {t \in {s} : t \in Booked'}
      /\ Refunded' = (Refunded \ {s}) \cup {t \in {s} : t \in Refunded'}
      /\ ToldSales' = (ToldSales \ {s}) \cup {t \in {s} : t \in ToldSales'}
  BY <1>1, OneSaleMoves
<1>3. Exists(o) /\ Exists(o)' /\ Approved(o)
  BY DEF Safe, MoneyInv, AbsentRowsAreEmpty, RowsKnowPayment, Paid, HasColumn, Exists
<1>4. SeenAs(s, o) /\ SeenAs(s, o)'
  BY <1>3 DEF Views
<1>5. SaleMoney(s)' = SaleMoney(s) /\ SaleAnswer(s)' = SaleAnswer(s)
  BY <1>4 DEF SeenAs
<1>6. /\ s \in Booked' <=> s \in Booked
      /\ s \in Refunded' <=> s \in Refunded
      /\ s \in ToldSales'
  BY <1>4 DEF SeenAs, Paid, HasColumn
<1>7. UNCHANGED <<Booked, Refunded>> /\ ToldSales' = ToldSales \cup {s}
  BY <1>2, <1>6
<1>8. MoneySeen[s] = SaleMoney(s) /\ AnswersSeen[s] = SaleAnswer(s)
  BY <1>2 DEF MoneySeen, AnswersSeen
<1>9. UNCHANGED <<MoneySeen, AnswersSeen>>
  BY <1>2, <1>5, <1>8 DEF MoneySeen, AnswersSeen
<1>10. MoneySeen[s] \in {"taken", "returned"}
  BY <1>3, <1>4, <1>8, MoneyStates DEF SeenAs, Approved
<1> QED BY <1>2, <1>7, <1>9, <1>10, PromiseTells

\* A payment is recorded while its QR is shown, with the status that stands for it.
LEMMA PaymentIsBooked ==
  ASSUME TypeOK, MoneyInv, SaleInv, Next, NEW o \in ThirdOrderNos, Paid(o)', ~Paid(o)
  PROVE  orders[o].status = "QR_SHOWN" /\ orders'[o].status = "PAYMENT_CONFIRMED" /\ Approved(o)
<1>t. orders \in [ThirdOrderNos -> Rows]
  BY DEF TypeOK
<1>1. orders'[o].cols /= orders[o].cols /\ orders' /= orders
  BY DEF Paid, HasColumn
<1>2. \A status, fields :
        UpdateStatusAndFields(o, status, fields) =>
          "payment_confirmed_at" \in fields /\ orders'[o].status = status
  BY <1>t DEF UpdateStatusAndFields, Paid, HasColumn
<1>3. PICK p \in Procs :
        /\ Order(p) = o
        /\ InsertOrder(p) \/ FailOrder(p) \/ ShowQR(p) \/ GuardedUpdate(p) \/ MarkNotified(p) \/ WriteResult(p)
  BY <1>1, <1>2, WhoWrites DEF UpdateStatus
<1>4. GuardedUpdate(p)
  <2>1. ~InsertOrder(p)
    BY <1>t, <1>1, <1>3 DEF InsertOrder, Create, Paid, HasColumn
  <2>2. ~FailOrder(p) /\ ~ShowQR(p) /\ ~MarkNotified(p)
    BY <1>2, <1>3 DEF FailOrder, ShowQR, MarkNotified, UpdateStatus
  <2>3. ~WriteResult(p)
    BY <1>2, <1>3 DEF WriteResult, ResultFields
  <2> QED BY <1>3, <2>1, <2>2, <2>3
<1>5. /\ orders[o].status = calls[p].seen
      /\ UpdateStatusAndFields(o, calls[p].to, PaymentFields(calls[p].to))
  BY <1>1, <1>3, <1>4 DEF GuardedUpdate, UpdateStatusGuardedAndFields
<1>6. calls[p].to = "PAYMENT_CONFIRMED" /\ orders'[o].status = "PAYMENT_CONFIRMED"
  BY <1>2, <1>5 DEF PaymentFields
<1>7. calls[p].seen = "QR_SHOWN"
  BY <1>4, <1>6 DEF GuardedUpdate, SaleInv, LegalWrites, LegalUpdate, CanTransitionTo, Successors
<1>8. Approved(o)
  BY <1>3, <1>4, <1>6 DEF GuardedUpdate, MoneyInv, CallsKnowPayment
<1> QED BY <1>5, <1>6, <1>7, <1>8

\* A new order opens its sale: the unique index says there was none of its serial.
LEMMA OrderIsSeen ==
  ASSUME Safe, Views, Views', NEW o \in ThirdOrderNos, SerialIsFree(o), Create(o), UNCHANGED <<qr, told>>
  PROVE  Promise!Next
<1> DEFINE s == GsOrderNo[o]
<1>t. orders \in [ThirdOrderNos -> Rows]
  BY DEF Safe, TypeOK
<1>1. /\ orders'[o] = [status |-> "RECEIVED", cols |-> {}, due |-> FALSE]
      /\ \A x \in ThirdOrderNos : x /= o => Rests(x)
  BY <1>t DEF Create, Rests
<1>2. /\ s \in GsOrderNos
      /\ MoneySeen' = [MoneySeen EXCEPT ![s] = SaleMoney(s)']
      /\ AnswersSeen' = [AnswersSeen EXCEPT ![s] = SaleAnswer(s)']
      /\ Booked' = (Booked \ {s}) \cup {t \in {s} : t \in Booked'}
      /\ Refunded' = (Refunded \ {s}) \cup {t \in {s} : t \in Refunded'}
      /\ ToldSales' = (ToldSales \ {s}) \cup {t \in {s} : t \in ToldSales'}
  BY <1>1, OneSaleMoves
<1>3. NotSeen(s)
  BY <1>2 DEF SerialIsFree, OrdersOf, Views
<1>4. SeenAs(s, o)'
  BY <1>1 DEF Exists, Absent, Views
<1>5. ~Exists(o) /\ qr[o] = NoQR /\ o \notin told
  BY DEF SerialIsFree, Safe, SaleInv, RowsInv, QRsHaveRows, MoneyInv, NoNoticeWithoutMoney, Approved, NoQR
<1>6. SaleMoney(s)' = "none" /\ SaleAnswer(s)' = "pending"
  <2>1. AnswerCode(ToGSStatus("RECEIVED")) = "pending"
    BY DEF AnswerCode, ToGSStatus
  <2> QED BY <1>1, <1>4, <1>5, <2>1, MoneyStates DEF SeenAs
<1>7. s \notin Booked' /\ s \notin Refunded' /\ s \notin ToldSales'
  BY <1>1, <1>4, <1>5 DEF SeenAs, Paid, HasColumn
<1>8. UNCHANGED <<Booked, Refunded, ToldSales>>
  BY <1>2, <1>3, <1>7 DEF NotSeen
<1>9. MoneySeen[s] = "none" /\ AnswersSeen[s] = "none"
  BY <1>2, <1>3 DEF MoneySeen, AnswersSeen, NotSeen
<1>10. UNCHANGED MoneySeen /\ AnswersSeen' = [AnswersSeen EXCEPT ![s] = "pending"]
  BY <1>2, <1>6, <1>9 DEF MoneySeen
<1> QED BY <1>2, <1>8, <1>9, <1>10, PromiseOpens

\* An UPDATE records the payment, or settles the sale without touching it.
LEMMA UpdateIsSeen ==
  ASSUME Safe, Safe', Views, Views', Next, NEW o \in ThirdOrderNos, MovesRow(o), UNCHANGED <<qr, told>>
  PROVE  Promise!Next
<1> DEFINE s == GsOrderNo[o]
           a == AnswerCode(ToGSStatus(orders'[o].status))
<1>t. orders \in [ThirdOrderNos -> Rows] /\ orders' \in [ThirdOrderNos -> Rows]
  BY DEF Safe, TypeOK
<1>1. \A x \in ThirdOrderNos : x /= o => Rests(x)
  BY <1>t DEF MovesRow, UpdateStatusAndFields, Rests
<1>2. /\ s \in GsOrderNos
      /\ MoneySeen' = [MoneySeen EXCEPT ![s] = SaleMoney(s)']
      /\ AnswersSeen' = [AnswersSeen EXCEPT ![s] = SaleAnswer(s)']
      /\ Booked' = (Booked \ {s}) \cup {t \in {s} : t \in Booked'}
      /\ Refunded' = (Refunded \ {s}) \cup {t \in {s} : t \in Refunded'}
      /\ ToldSales' = (ToldSales \ {s}) \cup {t \in {s} : t \in ToldSales'}
  BY <1>1, OneSaleMoves
<1>3. /\ orders[o].status \in OrderStatuses /\ orders'[o].status \in OrderStatuses
      /\ orders[o].cols \subseteq orders'[o].cols
  BY <1>t DEF MovesRow, UpdateStatusAndFields, Exists, Rows
<1>4. SeenAs(s, o) /\ SeenAs(s, o)'
  <2>1. Exists(o) /\ Exists(o)'
    BY <1>3 DEF MovesRow, Exists, OrderStatuses, Absent
  <2> QED BY <2>1 DEF Views
<1>5. MoneySeen[s] = MoneyAtPVS(qr[o]) /\ AnswersSeen[s] = AnswerCode(ToGSStatus(orders[o].status))
  BY <1>2, <1>4 DEF MoneySeen, AnswersSeen, SeenAs
<1>6. UNCHANGED MoneySeen /\ AnswersSeen' = [AnswersSeen EXCEPT ![s] = a]
  BY <1>2, <1>4, <1>5 DEF MoneySeen, SeenAs
<1>7. UNCHANGED ToldSales
  BY <1>2, <1>4 DEF SeenAs
<1>8. /\ s \in Booked <=> Paid(o)
      /\ s \in Booked' <=> Paid(o)'
      /\ s \in Refunded <=> orders[o].status = "REFUNDED"
      /\ s \in Refunded' <=> orders'[o].status = "REFUNDED"
      /\ Paid(o) => Paid(o)'
  BY <1>3, <1>4 DEF SeenAs, Paid, HasColumn
<1>9. CASE ~Paid(o) /\ Paid(o)'
  <2>1. orders[o].status = "QR_SHOWN" /\ orders'[o].status = "PAYMENT_CONFIRMED" /\ Approved(o)
    BY <1>9, PaymentIsBooked DEF Safe
  <2>2. AnswersSeen[s] = "pending" /\ a = "paid" /\ MoneySeen[s] \in {"taken", "returned"}
    BY <1>5, <2>1, MoneyStates DEF AnswerCode, ToGSStatus, Approved
  <2>3. s \notin Booked /\ Booked' = Booked \cup {s} /\ UNCHANGED Refunded
    BY <1>2, <1>8, <1>9, <2>1
  <2> QED BY <1>2, <1>6, <1>7, <2>2, <2>3, PromiseBooks
<1>10. CASE Paid(o)' => Paid(o)
  <2>1. UNCHANGED Booked
    BY <1>2, <1>8, <1>10
  <2>2. a \in {"pending", "paid", "failed", "refunding", "refunded", "timeout"} /\ AnswersSeen[s] /= "none"
    BY <1>3, <1>5, Codes
  <2>3. a = "paid" => s \in Booked
    BY <1>3, <1>8, <1>10, Codes DEF Safe, MoneyInv, RowsKnowPayment
  <2>4. a \in {"pending", "timeout"} => s \notin Booked
    BY <1>3, <1>8, <1>10, Codes, PaidStatusesNext DEF Safe, SaleInv, RowsInv
  <2>5. AnswersSeen[s] = "timeout" => a \in {"timeout", "failed"}
    BY <1>3, <1>5, Codes, TimeoutStep DEF Safe
  <2>6. \/ Refunded' = Refunded \ {s}
        \/ a = "refunded" /\ MoneySeen[s] = "returned" /\ Refunded' = Refunded \cup {s}
    <3>1. CASE orders'[o].status = "REFUNDED"
      <4>1. qr[o] = "REVERSED"
        BY <3>1 DEF Safe, RefundInv, OrderRowsKnowReversal, RefundedMeansReversed
      <4>2. Refunded' = Refunded \cup {s}
        BY <1>2, <1>8, <3>1
      <4> QED BY <1>3, <1>5, <3>1, <4>1, <4>2, Codes, MoneyStates
    <3>2. CASE orders'[o].status /= "REFUNDED"
      BY <1>2, <1>8, <3>2
    <3> QED BY <3>1, <3>2
  <2> HIDE DEF a
  <2> QED BY <1>2, <1>6, <1>7, <2>1, <2>2, <2>3, <2>4, <2>5, <2>6, PromiseSettles
<1> QED BY <1>9, <1>10

LEMMA StepIsSeen ==
  ASSUME Safe, Safe', Views, Views', Next
  PROVE  Promise!Next \/ UNCHANGED Promise!saleVars
<1>1. CASE \E o \in ThirdOrderNos : MovesMoney(o) /\ UNCHANGED <<orders, told>>
  BY <1>1, MoneyIsSeen
<1>2. CASE \E o \in ThirdOrderNos : Paid(o) /\ told' = told \cup {o} /\ UNCHANGED <<orders, qr>>
  BY <1>2, NoticeIsSeen
<1>3. CASE UNCHANGED <<qr, told>>
  <2>1. CASE \A x \in ThirdOrderNos : orders'[x].status = orders[x].status /\ orders'[x].cols = orders[x].cols
    BY <1>3, <2>1, NothingIsSeen DEF Rests
  <2>2. ASSUME NEW o \in ThirdOrderNos,
               orders'[o].status /= orders[o].status \/ orders'[o].cols /= orders[o].cols
        PROVE  Promise!Next
    <3>1. (SerialIsFree(o) /\ Create(o)) \/ MovesRow(o)
      BY <2>2, RowsMove DEF Safe
    <3> QED BY <1>3, <3>1, OrderIsSeen, UpdateIsSeen
  <2> QED BY <2>1, <2>2
<1> QED BY <1>1, <1>2, <1>3, OneTableAtATime DEF Safe

LEMMA NothingSoldYet ==
  ASSUME Init, Views
  PROVE  Promise!Init
<1>1. \A s \in GsOrderNos : NotSeen(s)
  BY DEF Init, OrderRepoInit, NoRow, Exists, OrdersOf, Views
<1>2. /\ MoneySeen = [s \in GsOrderNos |-> "none"]
      /\ AnswersSeen = [s \in GsOrderNos |-> "none"]
      /\ Booked = {} /\ Refunded = {} /\ ToldSales = {}
  BY <1>1 DEF NotSeen, MoneySeen, AnswersSeen, Booked, Refunded, ToldSales
<1> QED BY <1>2 DEF MoneySeen, AnswersSeen, Booked, Refunded, ToldSales, Promise!Init

\* Seen from outside, the bridge with all its retries, races, lost answers and stale
\* copies is the one sale per serial that SalePromise describes: each of its steps
\* moves one sale as the promise allows, or is not seen at all.
THEOREM BridgeKeepsPromise == Spec => KeepsPromise
<1>1. Init /\ Views => Promise!Init
  BY NothingSoldYet
<1>2. Safe /\ Safe' /\ Views /\ Views' /\ [Next]_vars => [Promise!Next]_(Promise!saleVars)
  <2>1. ASSUME UNCHANGED vars, Views, Views'
        PROVE  UNCHANGED Promise!saleVars
    BY <2>1, NothingIsSeen DEF vars, Rests
  <2> QED BY <2>1, StepIsSeen
<1>3. Spec => []Safe
  BY TypeCorrect, MoneyAlways, SaleAlways, RefundAlways, PTL DEF Safe
<1> QED BY <1>1, <1>2, <1>3, SafeViews, PTL DEF Spec, KeepsPromise, Promise!Spec
=============================================================================
