------------------------------ MODULE SaleProofs ------------------------------
(***************************************************************************)
(* What the races between the handlers of one sale cannot do: make two QRs *)
(* for a serial, make a paid order look unpaid, write against the table of *)
(* transitions, or revive an order that timed out.  All four follow from   *)
(* one inductive invariant about the rows and the calls in progress.  A    *)
(* second one shows that no two requests notify GS of one payment at once. *)
(***************************************************************************)
EXTENDS BridgeProofs, FiniteSetTheorems

\* The statements of CreateOrder.
Creating == {"insert", "generateQR", "failOrder", "showQR"}

\* The unique index.
SerialsAreUnique ==
  \A a, b \in ThirdOrderNos : a /= b /\ Exists(a) /\ Exists(b) => GsOrderNo[a] /= GsOrderNo[b]

QRsHaveRows == \A o \in ThirdOrderNos : qr[o] /= NoQR => Exists(o)

\* Only a QR the machine can display is paid, waited for or timed out.
ShownRows ==
  \A o \in ThirdOrderNos :
    Approved(o) \/ orders[o].status \in {"QR_SHOWN", "TIMEOUT"} => HasColumn(o, "pvs_qr")

\* An order is RECEIVED only until its QR is stored, or fails.
NewRows ==
  \A o \in ThirdOrderNos :
    /\ orders[o].status /= "QR_REQUESTED"
    /\ orders[o].status = "RECEIVED" => ~HasColumn(o, "pvs_qr")

RowsInv == SerialsAreUnique /\ QRsHaveRows /\ ShownRows /\ NewRows /\ PaidNeverLooksUnpaid

CallsHaveRows ==
  /\ \A p \in Procs : calls[p].pc \notin {"idle", "insert"} => Exists(Order(p))
  /\ \A s \in batch : Exists(s.ord)

\* One call creates an order, and nobody else stores its QR.
OneCreator ==
  \A p, q \in Procs :
    p /= q /\ calls[p].pc \in Creating /\ calls[q].pc \in Creating => Order(p) /= Order(q)

NotShownYet ==
  \A p \in Procs : calls[p].pc \in {"generateQR", "failOrder", "showQR"} => ~HasColumn(Order(p), "pvs_qr")

\* What a guarded UPDATE may carry: an arrow of the table that leaves the status
\* it expects, or the one correction the reconciler makes without the table.
LegalUpdate(p, seen, to) ==
  /\ to \in {"PAYMENT_CONFIRMED", "FAILED", "TIMEOUT", "REFUND_PENDING", "REFUNDED"}
  /\ \/ CanTransitionTo(seen, to)
     \/ p = Worker /\ seen = "QR_SHOWN" /\ to = "REFUND_PENDING"

LegalWrites ==
  \A p \in Procs :
    /\ IsAt(p, "guarded") => LegalUpdate(p, calls[p].seen, calls[p].to)
    /\ IsAt(p, "write") => calls[p].to \in {"DONE", "FAILED", "CANCELLED"}

SaleInv == RowsInv /\ CallsHaveRows /\ OneCreator /\ NotShownYet /\ LegalWrites
-----------------------------------------------------------------------------
StoredOrders == {o \in ThirdOrderNos : Exists(o)}

ShownOrders == {o \in ThirdOrderNos : HasColumn(o, "pvs_qr")}

\* The step keeps what RowsInv says and loses no row.
RowsAdvance == RowsInv' /\ StoredOrders \subseteq StoredOrders'

\* The statuses behind codes "1" and "6".
LEMMA UnpaidStatuses ==
  \A s : ToGSStatus(s) \in {1, 6} <=> s \in {"RECEIVED", "QR_REQUESTED", "QR_SHOWN", "TIMEOUT"}
BY DEF ToGSStatus

LEMMA PaidStatuses ==
  PaidNeverLooksUnpaid <=>
    \A o \in ThirdOrderNos :
      Paid(o) => orders[o].status \notin {"RECEIVED", "QR_REQUESTED", "QR_SHOWN", "TIMEOUT"}
BY UnpaidStatuses DEF PaidNeverLooksUnpaid

LEMMA PaidStatusesNext ==
  PaidNeverLooksUnpaid' <=>
    \A o \in ThirdOrderNos :
      Paid(o)' => orders'[o].status \notin {"RECEIVED", "QR_REQUESTED", "QR_SHOWN", "TIMEOUT"}
BY UnpaidStatuses DEF PaidNeverLooksUnpaid

LEMMA SameRows ==
  ASSUME SaleInv, UNCHANGED <<orders, qr>>
  PROVE  RowsAdvance /\ UNCHANGED ShownOrders
BY DEF SaleInv, RowsInv, RowsAdvance, SerialsAreUnique, QRsHaveRows, ShownRows, NewRows, PaidNeverLooksUnpaid,
       StoredOrders, ShownOrders, Exists, Paid, HasColumn, Approved

\* An UPDATE keeps RowsInv if it shows the order or times it out only while unpaid,
\* and with its QR.
LEMMA UpdateKeepsRows ==
  ASSUME TypeOK, SaleInv, UNCHANGED qr,
         NEW o \in ThirdOrderNos, NEW status \in OrderStatuses \ {"RECEIVED", "QR_REQUESTED"},
         NEW fields \in SUBSET Columns,
         UpdateStatusAndFields(o, status, fields),
         Exists(o),
         status \in {"QR_SHOWN", "TIMEOUT"} =>
           /\ HasColumn(o, "pvs_qr") \/ "pvs_qr" \in fields
           /\ ~Paid(o) /\ "payment_confirmed_at" \notin fields
  PROVE  RowsAdvance /\ ShownOrders' \subseteq ShownOrders \cup {x \in {o} : "pvs_qr" \in fields}
<1>t. orders \in [ThirdOrderNos -> Rows]
  BY DEF TypeOK
<1>1. /\ orders'[o].status = status /\ orders'[o].cols = orders[o].cols \cup fields
      /\ \A x \in ThirdOrderNos : x /= o => orders'[x] = orders[x]
  BY <1>t DEF UpdateStatusAndFields, Rows
<1>2. Absent \notin OrderStatuses
  BY DEF Absent, OrderStatuses
<1>3. \A x \in ThirdOrderNos : Exists(x)' <=> Exists(x)
  BY <1>1, <1>2 DEF Exists
<1>4. SerialsAreUnique' /\ QRsHaveRows' /\ StoredOrders' = StoredOrders
  BY <1>3 DEF SaleInv, RowsInv, SerialsAreUnique, QRsHaveRows, StoredOrders
<1>5. ShownRows' /\ NewRows'
  BY <1>1 DEF SaleInv, RowsInv, ShownRows, NewRows, Approved, HasColumn
<1>6. PaidNeverLooksUnpaid'
  BY <1>1, PaidStatuses, PaidStatusesNext DEF SaleInv, RowsInv, Paid, HasColumn
<1>7. ShownOrders' \subseteq ShownOrders \cup {x \in {o} : "pvs_qr" \in fields}
  BY <1>1 DEF ShownOrders, HasColumn
<1> QED BY <1>4, <1>5, <1>6, <1>7 DEF RowsAdvance, RowsInv

\* After the step, call p may be at record c.
Fits(p, c) ==
  /\ c.pc \notin {"idle", "insert"} => c.ord \in StoredOrders'
  /\ c.pc \in Creating => \/ calls[p].pc \in Creating /\ c.ord = Order(p)
                          \/ \A q \in Procs : Order(q) /= c.ord
  /\ c.pc \in {"generateQR", "failOrder", "showQR"} => c.ord \notin ShownOrders'
  /\ c.pc = "guarded" => LegalUpdate(p, c.seen, c.to)
  /\ c.pc = "write" => c.to \in {"DONE", "FAILED", "CANCELLED"}

\* The calls that wait stay legal when call p goes on with a record that fits, and
\* only ShowQR stores a QR.
LEMMA SaleGoesOn ==
  ASSUME TypeOK, SaleInv, RowsAdvance,
         NEW p \in Procs, NEW c, Becomes(p, c), Fits(p, c),
         \A x \in ShownOrders' : x \in ShownOrders \/ (IsAt(p, "showQR") /\ x = Order(p)),
         \A s \in batch' : s.ord \in StoredOrders'
  PROVE  SaleInv'
<1>t. /\ calls \in [Procs -> CallRecords]
      /\ \A q \in Procs : ~IsAt(q, "idle") => Order(q) \in ThirdOrderNos
  BY DEF TypeOK
<1>1. calls'[p] = c /\ \A q \in Procs : q /= p => calls'[q] = calls[q]
  BY <1>t DEF Becomes
<1>2. CallsHaveRows'
  BY <1>t, <1>1 DEF Fits, SaleInv, CallsHaveRows, RowsAdvance, StoredOrders, Exists, IsAt, Order
<1>3. OneCreator'
  BY <1>1 DEF Fits, SaleInv, OneCreator, Order
<1>4. NotShownYet'
  <2>1. ASSUME NEW q \in Procs, q /= p, calls[q].pc \in {"generateQR", "failOrder", "showQR"}
        PROVE  Order(q) \in ThirdOrderNos \ ShownOrders'
    BY <2>1, <1>t DEF SaleInv, NotShownYet, OneCreator, Creating, ShownOrders, IsAt
  <2>2. ASSUME NEW q \in Procs, calls'[q].pc \in {"generateQR", "failOrder", "showQR"}
        PROVE  calls'[q].ord \in ThirdOrderNos \ ShownOrders'
    BY <2>1, <2>2, <1>1 DEF Fits, StoredOrders, Order
  <2> QED BY <2>2 DEF NotShownYet, ShownOrders, Order, HasColumn
<1>5. LegalWrites'
  BY <1>1 DEF Fits, SaleInv, LegalWrites, LegalUpdate, IsAt
<1> QED BY <1>2, <1>3, <1>4, <1>5 DEF SaleInv, RowsAdvance

LEMMA OrderServiceSale ==
  ASSUME TypeOK, MoneyInv, SaleInv, NEW p \in Procs, OrderServiceNext(p), UNCHANGED batch
  PROVE  SaleInv'
<1>t. /\ orders \in [ThirdOrderNos -> Rows]
      /\ qr \in [ThirdOrderNos -> PVSStatuses \cup {NoQR}]
      /\ calls[p].pc \in {"guarded", "write"} => calls[p].to \in OrderStatuses
      /\ ~IsAt(p, "idle") => Order(p) \in ThirdOrderNos
      /\ \A s \in batch : s.ord \in ThirdOrderNos
  BY DEF TypeOK, Snapshots
<1>o. calls[p].pc \notin {"idle", "insert"} => Order(p) \in ThirdOrderNos /\ Exists(Order(p))
  BY <1>t DEF SaleInv, CallsHaveRows, IsAt
\* It remains to show that the rows advance and that the record c the call goes on
\* with fits.
<1>k. ASSUME RowsAdvance, ShownOrders' \subseteq ShownOrders, NEW c, Becomes(p, c), Fits(p, c)
      PROVE  SaleInv'
  <2>1. \A s \in batch' : s.ord \in StoredOrders'
    BY <1>k, <1>t DEF SaleInv, CallsHaveRows, RowsAdvance, StoredOrders
  <2>2. \A x \in ShownOrders' : x \in ShownOrders \/ (IsAt(p, "showQR") /\ x = Order(p))
    BY <1>k
  <2> QED BY <1>k, <2>1, <2>2, SaleGoesOn
<1>q. UNCHANGED <<orders, qr>> => RowsAdvance /\ ShownOrders' \subseteq ShownOrders /\ StoredOrders' = StoredOrders
  BY SameRows DEF StoredOrders, Exists
<1>i. Fits(p, Idle)
  BY DEF Fits, Idle, Creating
<1>1. ASSUME NEW o \in ThirdOrderNos, NEW lookupFails \in BOOLEAN, CreateOrder(p, o, lookupFails)
      PROVE  SaleInv'
  <2>1. Fits(p, At("insert", o))
    BY <1>1 DEF CreateOrder, Fits, At, Creating
  <2> QED BY <1>1, <2>1, <1>k, <1>q DEF CreateOrder
<1>2. ASSUME NEW o \in ThirdOrderNos, NEW s \in PVSStatuses, HandlePVSWebhook(p, o, s)
      PROVE  SaleInv'
  <2> DEFINE seen == orders[o].status
             to   == pvsStatusToOrderStatus(s, seen)
             c    == [pc |-> "guarded", ord |-> o, seen |-> seen, to |-> to]
  <2>1. to \in {"PAYMENT_CONFIRMED", "FAILED", "REFUND_PENDING", "REFUNDED", NoStatus}
    BY DEF pvsStatusToOrderStatus, PVSStatuses, NoStatus
  <2>2. CanTransitionTo(seen, to)
    BY <1>2 DEF HandlePVSWebhook
  <2>3. to /= NoStatus
    BY <2>2 DEF CanTransitionTo, Successors, NoStatus
  <2>4. Fits(p, c)
    BY <1>2, <2>1, <2>2, <2>3, <1>q DEF HandlePVSWebhook, Fits, LegalUpdate, Creating, StoredOrders
  <2> QED BY <1>2, <2>4, <1>k, <1>q DEF HandlePVSWebhook
<1>3. ASSUME NEW o \in ThirdOrderNos, NEW to \in {"DONE", "FAILED", "CANCELLED"}, AcceptWrite(p, o, to)
      PROVE  SaleInv'
  <2> DEFINE c == [At("write", o) EXCEPT !.to = to]
  <2>1. Exists(o)
    BY <1>3 DEF AcceptWrite, CanTransitionTo, Successors, Exists, Absent
  <2>2. Fits(p, c)
    BY <1>3, <2>1, <1>q DEF AcceptWrite, Fits, At, Creating, StoredOrders
  <2> QED BY <1>3, <2>2, <1>k, <1>q DEF AcceptWrite
<1>4. CASE InsertOrder(p)
  <2>1. CASE UNCHANGED orders /\ Becomes(p, Idle)
    BY <1>4, <2>1, <1>i, <1>k, <1>q DEF InsertOrder
  <2>2. CASE SerialIsFree(Order(p)) /\ Create(Order(p)) /\ Becomes(p, At("generateQR", Order(p)))
    <3> DEFINE o == Order(p)
    <3>1. o \in ThirdOrderNos /\ ~Exists(o) /\ qr[o] = NoQR
      BY <1>4, <2>2, <1>t DEF InsertOrder, SerialIsFree, IsAt, SaleInv, RowsInv, QRsHaveRows
    <3>2. /\ orders'[o] = [status |-> "RECEIVED", cols |-> {}, due |-> FALSE]
          /\ \A x \in ThirdOrderNos : x /= o => orders'[x] = orders[x]
          /\ UNCHANGED qr
      BY <1>4, <2>2, <3>1, <1>t DEF InsertOrder, Create
    <3>3. orders'[o].status /= Absent /\ \A x \in ThirdOrderNos : x /= o => (Exists(x)' <=> Exists(x))
      BY <3>2 DEF Exists, Absent
    <3>4. SerialsAreUnique'
      BY <2>2, <3>1, <3>3 DEF SerialIsFree, SaleInv, RowsInv, SerialsAreUnique
    <3>5. QRsHaveRows' /\ StoredOrders \subseteq StoredOrders'
      BY <3>1, <3>2, <3>3 DEF SaleInv, RowsInv, QRsHaveRows, StoredOrders, Exists
    <3>6. ShownRows' /\ NewRows' /\ ShownOrders' \subseteq ShownOrders /\ o \notin ShownOrders'
      BY <3>1, <3>2 DEF SaleInv, RowsInv, ShownRows, NewRows, ShownOrders, Approved, HasColumn, NoQR
    <3>7. PaidNeverLooksUnpaid'
      BY <3>2, PaidStatuses, PaidStatusesNext DEF SaleInv, RowsInv, Paid, HasColumn
    <3>8. Fits(p, At("generateQR", o))
      BY <1>4, <3>1, <3>3, <3>6 DEF InsertOrder, Fits, At, Creating, StoredOrders, Exists, IsAt
    <3> QED BY <2>2, <3>4, <3>5, <3>6, <3>7, <3>8, <1>k DEF RowsAdvance, RowsInv
  <2> QED BY <1>4, <2>1, <2>2 DEF InsertOrder
<1>5. CASE GenerateQR(p)
  <2> DEFINE o == Order(p)
  <2>1. o \in ThirdOrderNos /\ Exists(o) /\ ~HasColumn(o, "pvs_qr")
    BY <1>5, <1>o DEF GenerateQR, IsAt, SaleInv, NotShownYet
  <2>2. /\ qr'[o] = "IN_PROCESS" /\ UNCHANGED orders
        /\ \A x \in ThirdOrderNos : x /= o => qr'[x] = qr[x]
    BY <1>5, <2>1, <1>t DEF GenerateQR, CreateQR
  <2>3. RowsAdvance /\ UNCHANGED <<ShownOrders, StoredOrders>>
    BY <2>1, <2>2 DEF SaleInv, RowsInv, RowsAdvance, SerialsAreUnique, QRsHaveRows, ShownRows, NewRows, Approved,
                      PaidNeverLooksUnpaid, StoredOrders, ShownOrders, Exists, Paid, HasColumn
  <2>4. \A next \in {"showQR", "failOrder"} : Fits(p, At(next, o))
    BY <1>5, <2>1, <2>3 DEF GenerateQR, Fits, At, Creating, IsAt, StoredOrders, ShownOrders
  <2> QED BY <1>5, <2>3, <2>4, <1>k DEF GenerateQR
<1>6. CASE GenerateQRFails(p)
  <2>1. Fits(p, At("failOrder", Order(p)))
    BY <1>6, <1>o, <1>q DEF GenerateQRFails, Fits, At, Creating, IsAt, StoredOrders, ShownOrders, SaleInv,
                            NotShownYet
  <2> QED BY <1>6, <2>1, <1>k, <1>q DEF GenerateQRFails
<1>7. CASE FailOrder(p)
  <2>1. RowsAdvance /\ ShownOrders' \subseteq ShownOrders
    BY <1>7, <1>o, UpdateKeepsRows DEF FailOrder, UpdateStatus, OrderStatuses, IsAt
  <2> QED BY <1>7, <2>1, <1>i, <1>k DEF FailOrder
<1>8. CASE ShowQR(p)
  <2> DEFINE o == Order(p)
  <2>1. o \in ThirdOrderNos /\ Exists(o) /\ ~HasColumn(o, "pvs_qr")
    BY <1>8, <1>o DEF ShowQR, IsAt, SaleInv, NotShownYet
  <2>2. ~Paid(o)
    BY <2>1 DEF SaleInv, RowsInv, ShownRows, MoneyInv, RowsKnowPayment
  <2>3. RowsAdvance /\ ShownOrders' \subseteq ShownOrders \cup {o}
    BY <1>8, <2>1, <2>2, UpdateKeepsRows DEF ShowQR, OrderStatuses, Columns
  <2>4. \A s \in batch' : s.ord \in StoredOrders'
    BY <2>3, <1>t DEF SaleInv, CallsHaveRows, RowsAdvance, StoredOrders
  <2>5. \A x \in ShownOrders' : x \in ShownOrders \/ (IsAt(p, "showQR") /\ x = Order(p))
    BY <1>8, <2>3 DEF ShowQR
  <2> QED BY <1>8, <2>3, <2>4, <2>5, <1>i, SaleGoesOn DEF ShowQR
<1>9. CASE GuardedUpdate(p)
  <2> DEFINE o    == Order(p)
             seen == calls[p].seen
             to   == calls[p].to
  <2>1. o \in ThirdOrderNos /\ Exists(o) /\ LegalUpdate(p, seen, to)
    BY <1>9, <1>o DEF GuardedUpdate, IsAt, SaleInv, LegalWrites
  <2>2. RowsAdvance /\ ShownOrders' \subseteq ShownOrders
    <3>1. CASE Wins(p)
      <4>1. to = "TIMEOUT" => HasColumn(o, "pvs_qr") /\ ~Paid(o)
        BY <2>1, <3>1, PaidStatuses
           DEF Wins, LegalUpdate, CanTransitionTo, Successors, SaleInv, RowsInv, ShownRows
      <4>2. to \in OrderStatuses \ {"RECEIVED", "QR_REQUESTED", "QR_SHOWN"}
        BY <2>1 DEF LegalUpdate, OrderStatuses
      <4>3. UpdateStatusAndFields(o, to, PaymentFields(to)) /\ UNCHANGED qr
        BY <1>9, <3>1 DEF GuardedUpdate, UpdateStatusGuardedAndFields, Wins
      <4>4. /\ PaymentFields(to) \in SUBSET Columns /\ "pvs_qr" \notin PaymentFields(to)
            /\ to = "TIMEOUT" => "payment_confirmed_at" \notin PaymentFields(to)
        BY DEF PaymentFields, Columns
      <4> QED BY <2>1, <4>1, <4>2, <4>3, <4>4, UpdateKeepsRows
    <3>2. CASE ~Wins(p)
      BY <1>9, <3>2, <1>q DEF GuardedUpdate, UpdateStatusGuardedAndFields, Wins
    <3> QED BY <3>1, <3>2
  <2>3. Fits(p, At("notify", o))
    BY <2>1, <2>2 DEF Fits, At, Creating, RowsAdvance, StoredOrders
  <2> QED BY <1>9, <2>2, <2>3, <1>i, <1>k DEF GuardedUpdate
<1>10. CASE NotifyPayment(p)
  <2>1. Fits(p, At("mark", Order(p)))
    BY <1>10, <1>o, <1>q DEF NotifyPayment, Fits, At, Creating, IsAt, StoredOrders
  <2>2. PICK c : Becomes(p, c) /\ Fits(p, c)
    BY <1>10, <2>1, <1>i DEF NotifyPayment
  <2> QED BY <1>10, <2>2, <1>k, <1>q DEF NotifyPayment
<1>11. CASE MarkNotified(p)
  <2>1. RowsAdvance /\ ShownOrders' \subseteq ShownOrders
    BY <1>11, <1>o, UpdateKeepsRows DEF MarkNotified, OrderStatuses, Columns, IsAt
  <2> QED BY <1>11, <2>1, <1>i, <1>k DEF MarkNotified
<1>12. CASE WriteResult(p)
  <2>1. calls[p].to \in {"DONE", "FAILED", "CANCELLED"}
    BY <1>12 DEF WriteResult, SaleInv, LegalWrites
  <2>2. ResultFields(calls[p].to) \in SUBSET Columns /\ "pvs_qr" \notin ResultFields(calls[p].to)
    BY DEF ResultFields, Columns
  <2>3. RowsAdvance /\ ShownOrders' \subseteq ShownOrders
    BY <1>12, <2>1, <2>2, <1>o, UpdateKeepsRows DEF WriteResult, OrderStatuses, IsAt
  <2> QED BY <1>12, <2>3, <1>i, <1>k DEF WriteResult
<1>13. CASE Abort(p)
  BY <1>13, <1>i, <1>k, <1>q DEF Abort
<1> QED
  BY <1>1, <1>2, <1>3, <1>4, <1>5, <1>6, <1>7, <1>8, <1>9, <1>10, <1>11, <1>12, <1>13
     DEF OrderServiceNext, CompleteOrder, CancelOrder

\* The same when no call goes on.
LEMMA SaleWaits ==
  ASSUME TypeOK, SaleInv, RowsAdvance, UNCHANGED calls, ShownOrders' \subseteq ShownOrders,
         \A s \in batch' : s.ord \in StoredOrders'
  PROVE  SaleInv'
<1>t. \A q \in Procs : ~IsAt(q, "idle") => Order(q) \in ThirdOrderNos
  BY DEF TypeOK
<1>1. CallsHaveRows'
  BY <1>t DEF SaleInv, CallsHaveRows, RowsAdvance, StoredOrders, IsAt, Order
<1>2. NotShownYet'
  BY <1>t DEF SaleInv, NotShownYet, ShownOrders, IsAt, Order
<1>3. OneCreator' /\ LegalWrites'
  BY DEF SaleInv, OneCreator, LegalWrites, LegalUpdate, IsAt, Order
<1> QED BY <1>1, <1>2, <1>3 DEF SaleInv, RowsAdvance

LEMMA CopiesStay ==
  ASSUME TypeOK, SaleInv, RowsAdvance, batch' \subseteq batch
  PROVE  \A s \in batch' : s.ord \in StoredOrders'
BY DEF TypeOK, Snapshots, SaleInv, CallsHaveRows, RowsAdvance, StoredOrders

LEMMA RefundServiceSale ==
  ASSUME TypeOK, MoneyInv, SaleInv, NEW r \in RefundRequests, RefundServiceNext(r), UNCHANGED reconcilerVars
  PROVE  SaleInv'
<1>1. UNCHANGED calls /\ UNCHANGED batch
  BY DEF RefundServiceNext, serviceVars, reconcilerVars, Refund, InsertRefund, Reverse, ReverseFails,
         FailRefund, FailRefundOrder, PendingOrder, CloseRefund, AbortRefund
<1>2. ~RefundIsAt(r, "idle") => rcalls[r].ord \in ThirdOrderNos /\ Exists(rcalls[r].ord)
  BY DEF TypeOK, MoneyInv, RefundsKnowPayment, AbsentRowsAreEmpty, Paid, HasColumn
<1>3. RowsAdvance /\ ShownOrders' \subseteq ShownOrders
  <2>1. CASE UNCHANGED <<orders, qr>>
    BY <2>1, SameRows
  <2>2. CASE Reverse(r)
    <3>1. /\ UNCHANGED orders
          /\ \A x \in ThirdOrderNos : /\ qr'[x] /= NoQR => qr[x] /= NoQR
                                      /\ Approved(x)' => Approved(x)
      BY <2>2 DEF Reverse, AcceptReverse, Approved, NoQR, TypeOK
    <3> QED
      BY <3>1 DEF SaleInv, RowsInv, RowsAdvance, SerialsAreUnique, QRsHaveRows, ShownRows,
                  NewRows, PaidNeverLooksUnpaid, StoredOrders, ShownOrders, Exists, Paid, HasColumn
  <2>3. ASSUME ~RefundIsAt(r, "idle"), UNCHANGED qr,
               NEW status \in {"REFUND_PENDING", "REFUND_FAILED"}, UpdateStatus(rcalls[r].ord, status)
        PROVE  RowsAdvance /\ ShownOrders' \subseteq ShownOrders
    BY <2>3, <1>2, UpdateKeepsRows DEF UpdateStatus, OrderStatuses
  <2> QED
    BY <2>1, <2>2, <2>3
       DEF RefundServiceNext, serviceVars, Refund, InsertRefund, ReverseFails, FailRefund,
           FailRefundOrder, PendingOrder, CloseRefund, AbortRefund, RefundIsAt
<1> QED BY <1>1, <1>3, SaleWaits, CopiesStay

LEMMA ReconcilerSale ==
  ASSUME TypeOK, SaleInv, ReconcilerNext
  PROVE  SaleInv'
<1>1. UNCHANGED <<orders, qr>>
  BY DEF ReconcilerNext, serviceVars, Scan, ListUnnotified, Reconcile, QueryFails, RetryNotify, EndPass,
         StopWorker
<1>2. RowsAdvance /\ UNCHANGED <<ShownOrders, StoredOrders>>
  BY <1>1, SameRows DEF StoredOrders, Exists
<1>w. Worker \in Procs
  BY WorkerIsProc
<1>b. \A s \in batch : s.ord \in ThirdOrderNos /\ s.ord \in StoredOrders
  BY DEF TypeOK, Snapshots, SaleInv, CallsHaveRows, StoredOrders
<1>3. \A s \in batch' : s.ord \in StoredOrders'
  <2>1. CASE Scan \/ ListUnnotified
    BY <2>1, <1>2 DEF Scan, ListUnnotified, Snapshot, IsStuck, IsUnnotified, StoredOrders, Exists, Absent
  <2>2. CASE batch' \subseteq batch
    BY <2>2, <1>2, CopiesStay
  <2> QED
    BY <2>1, <2>2 DEF ReconcilerNext, Reconcile, QueryFails, RetryNotify, EndPass, StopWorker
<1>k. ASSUME NEW c, Becomes(Worker, c), Fits(Worker, c)
      PROVE  SaleInv'
  <2>1. \A x \in ShownOrders' : x \in ShownOrders \/ (IsAt(Worker, "showQR") /\ x = Order(Worker))
    BY <1>2
  <2> QED BY <1>k, <1>2, <1>3, <1>w, <2>1, SaleGoesOn
<1>4. CASE UNCHANGED calls
  BY <1>4, <1>2, <1>3, SaleWaits
<1>5. CASE Becomes(Worker, Idle)
  <2>1. Fits(Worker, Idle)
    BY DEF Fits, Idle, Creating
  <2> QED BY <1>5, <2>1, <1>k
<1>6. ASSUME NEW s \in batch, Reconcile(s)
      PROVE  SaleInv'
  <2> DEFINE to == Correction(s.status, qr[s.ord])
             c  == [pc |-> "guarded", ord |-> s.ord, seen |-> s.status, to |-> to]
  <2>1. to /= NoStatus => LegalUpdate(Worker, s.status, to)
    BY DEF Correction, LegalUpdate, CanTransitionTo, Successors, NoStatus
  <2>2. to /= NoStatus => Fits(Worker, c)
    BY <2>1, <1>2, <1>b DEF Fits, Creating
  <2> QED BY <1>5, <1>6, <2>2, <1>k DEF Reconcile
<1>7. ASSUME NEW s \in batch, RetryNotify(s)
      PROVE  SaleInv'
  <2>1. Fits(Worker, At("notify", s.ord))
    BY <1>2, <1>b DEF Fits, At, Creating
  <2> QED BY <1>5, <1>7, <2>1, <1>k DEF RetryNotify
<1> QED
  BY <1>4, <1>5, <1>6, <1>7
     DEF ReconcilerNext, serviceVars, Scan, ListUnnotified, QueryFails, EndPass, StopWorker

LEMMA EnvironmentSale ==
  ASSUME TypeOK, SaleInv, Environment
  PROVE  SaleInv'
<1> SUFFICES ASSUME NEW o \in ThirdOrderNos, Pays(o) \/ Rejected(o) \/ Reversed(o) \/ TimePasses(o)
             PROVE  SaleInv'
  BY DEF Environment
<1>1. UNCHANGED calls
  BY DEF Pays, Rejected, Reversed, TimePasses, SnapshotBecomesDue, serviceVars
<1>2. RowsAdvance /\ ShownOrders' \subseteq ShownOrders
  <2>1. CASE UNCHANGED <<orders, qr>>
    BY <2>1, SameRows
  <2>2. CASE UNCHANGED orders /\ (Pays(o) \/ Rejected(o) \/ Reversed(o))
    <3>1. \A x \in ThirdOrderNos : /\ qr'[x] /= NoQR => qr[x] /= NoQR
                                   /\ Approved(x)' => Approved(x) \/ HasColumn(x, "pvs_qr")
      BY <2>2 DEF Pays, Rejected, Reversed, CustomerPays, PaymentRejected, PaymentReversed, Approved, NoQR,
                  TypeOK
    <3>2. PaidNeverLooksUnpaid'
      BY <2>2, PaidStatuses, PaidStatusesNext DEF SaleInv, RowsInv, Paid, HasColumn
    <3>3. NewRows' /\ UNCHANGED <<ShownOrders, StoredOrders>>
      BY <2>2 DEF SaleInv, RowsInv, NewRows, ShownOrders, StoredOrders, Exists, HasColumn
    <3>4. ShownRows'
      <4>1. ASSUME NEW x \in ThirdOrderNos, Approved(x)' \/ orders[x].status \in {"QR_SHOWN", "TIMEOUT"}
            PROVE  HasColumn(x, "pvs_qr")
        BY <3>1, <4>1 DEF SaleInv, RowsInv, ShownRows, Approved
      <4> QED BY <2>2, <4>1 DEF ShownRows, HasColumn
    <3>5. SerialsAreUnique' /\ QRsHaveRows'
      BY <2>2, <3>1 DEF SaleInv, RowsInv, SerialsAreUnique, QRsHaveRows, Exists
    <3> QED BY <3>2, <3>3, <3>4, <3>5 DEF RowsAdvance, RowsInv
  <2>3. CASE RowBecomesDue(o) /\ UNCHANGED qr
    <3>1. \A x \in ThirdOrderNos : orders'[x].status = orders[x].status /\ orders'[x].cols = orders[x].cols
      BY <2>3 DEF RowBecomesDue, TypeOK, Rows
    <3>2. PaidNeverLooksUnpaid'
      BY <3>1, PaidStatuses, PaidStatusesNext DEF SaleInv, RowsInv, Paid, HasColumn
    <3>3. ShownRows' /\ NewRows' /\ UNCHANGED <<ShownOrders, StoredOrders>>
      BY <2>3, <3>1 DEF SaleInv, RowsInv, ShownRows, NewRows, Approved, ShownOrders, StoredOrders, Exists, HasColumn
    <3>4. SerialsAreUnique' /\ QRsHaveRows'
      BY <2>3, <3>1 DEF SaleInv, RowsInv, SerialsAreUnique, QRsHaveRows, Exists
    <3> QED BY <3>2, <3>3, <3>4 DEF RowsAdvance, RowsInv
  <2> QED
    BY <2>1, <2>2, <2>3 DEF Pays, Rejected, Reversed, TimePasses, SnapshotBecomesDue, serviceVars
<1>3. \A s \in batch' : s.ord \in StoredOrders'
  <2>1. CASE UNCHANGED batch
    BY <2>1, <1>2, CopiesStay
  <2>2. ASSUME NEW s \in batch, SnapshotBecomesDue(s)
        PROVE  \A x \in batch' : x.ord \in StoredOrders'
    BY <2>2, <1>2 DEF SnapshotBecomesDue, TypeOK, Snapshots, SaleInv, CallsHaveRows, RowsAdvance, StoredOrders
  <2> QED
    BY <2>1, <2>2 DEF Pays, Rejected, Reversed, TimePasses, refundVars, reconcilerVars
<1> QED BY <1>1, <1>2, <1>3, SaleWaits

LEMMA SaleInductive ==
  /\ Init => SaleInv
  /\ TypeOK /\ MoneyInv /\ SaleInv /\ [Next]_vars => SaleInv'
<1>1. Init => SaleInv
  BY DEF Init, OrderRepoInit, PVSInit, OrderServiceInit, ReconcilerInit, NoRow, Idle, NoQR, SaleInv,
         RowsInv, SerialsAreUnique, QRsHaveRows, ShownRows, NewRows, PaidNeverLooksUnpaid, CallsHaveRows, OneCreator,
         NotShownYet, LegalWrites, Exists, Paid, HasColumn, Approved, IsAt, Absent, Creating
<1>2. ASSUME TypeOK, MoneyInv, SaleInv, [Next]_vars
      PROVE  SaleInv'
  <2>1. ASSUME NEW p \in Procs, Handler(p) PROVE SaleInv'
    BY <2>1, <1>2, OrderServiceSale DEF Handler, reconcilerVars
  <2>2. ASSUME NEW r \in RefundRequests, RefundHandler(r) PROVE SaleInv'
    BY <2>2, <1>2, RefundServiceSale DEF RefundHandler
  <2>3. CASE ReconcilerNext
    BY <2>3, <1>2, ReconcilerSale
  <2>4. CASE Environment
    BY <2>4, <1>2, EnvironmentSale
  <2>5. CASE UNCHANGED vars
    <3>1. UNCHANGED <<orders, qr, calls, batch>>
      BY <2>5 DEF vars
    <3> QED BY <3>1, <1>2, SameRows, SaleWaits, CopiesStay
  <2> QED BY <1>2, <2>1, <2>2, <2>3, <2>4, <2>5 DEF Next
<1> QED BY <1>1, <1>2

LEMMA SaleAlways == Spec => []SaleInv
BY TypeCorrect, MoneyAlways, SaleInductive, PTL DEF Spec

\* For any number of CreateOrder calls, at most one QR per serial can be paid.
THEOREM OneQR == Spec => []OneQRPerSerial
<1>1. SaleInv => OneQRPerSerial
  BY DEF SaleInv, RowsInv, SerialsAreUnique, QRsHaveRows, OneQRPerSerial
<1> QED BY <1>1, SaleAlways, PTL

\* No stored payment is ever answered as pending or timed out.
THEOREM PaidLooksPaid == Spec => []PaidNeverLooksUnpaid
<1>1. SaleInv => PaidNeverLooksUnpaid
  BY DEF SaleInv, RowsInv
<1> QED BY <1>1, SaleAlways, PTL
-----------------------------------------------------------------------------
(* The two action properties follow from the invariant, step by step. *)

\* Only these steps write the orders table, each in the row of its call.
LEMMA WhoWrites ==
  ASSUME TypeOK, Next, NEW o \in ThirdOrderNos,
         orders'[o].status /= orders[o].status \/ orders'[o].cols /= orders[o].cols
  PROVE  \/ \E p \in Procs :
              /\ Order(p) = o
              /\ InsertOrder(p) \/ FailOrder(p) \/ ShowQR(p) \/ GuardedUpdate(p) \/ MarkNotified(p) \/ WriteResult(p)
         \/ \E r \in RefundRequests :
              /\ ~RefundIsAt(r, "idle") /\ rcalls[r].ord = o /\ UNCHANGED calls
              /\ \E status \in {"REFUND_PENDING", "REFUND_FAILED"} : UpdateStatus(o, status)
<1>t. orders \in [ThirdOrderNos -> Rows]
  BY DEF TypeOK
<1>1. ASSUME NEW x, NEW row, orders' = [orders EXCEPT ![x] = row]
      PROVE  x = o
  BY <1>1, <1>t
<1>2. ASSUME NEW p \in Procs, Handler(p)
      PROVE  /\ Order(p) = o
             /\ InsertOrder(p) \/ FailOrder(p) \/ ShowQR(p) \/ GuardedUpdate(p) \/ MarkNotified(p) \/ WriteResult(p)
  <2>1. InsertOrder(p) \/ FailOrder(p) \/ ShowQR(p) \/ GuardedUpdate(p) \/ MarkNotified(p) \/ WriteResult(p)
    BY <1>2 DEF Handler, OrderServiceNext, CreateOrder, HandlePVSWebhook, CompleteOrder, CancelOrder,
                AcceptWrite, GenerateQR, GenerateQRFails, NotifyPayment, Abort
  <2>2. orders' = orders \/ \E row : orders' = [orders EXCEPT ![Order(p)] = row]
    BY <2>1 DEF InsertOrder, Create, FailOrder, ShowQR, GuardedUpdate, MarkNotified, WriteResult,
                UpdateStatus, UpdateStatusAndFields, UpdateStatusGuardedAndFields
  <2> QED BY <2>1, <2>2, <1>1
<1>3. ASSUME NEW r \in RefundRequests, RefundHandler(r)
      PROVE  /\ ~RefundIsAt(r, "idle") /\ rcalls[r].ord = o /\ UNCHANGED calls
             /\ \E status \in {"REFUND_PENDING", "REFUND_FAILED"} : UpdateStatus(o, status)
  <2>1. ~RefundIsAt(r, "idle") /\ UNCHANGED calls
    BY <1>3 DEF RefundHandler, RefundServiceNext, serviceVars, Refund, InsertRefund, Reverse, ReverseFails,
                FailRefund, FailRefundOrder, PendingOrder, CloseRefund, AbortRefund, RefundIsAt
  <2>2. \E status \in {"REFUND_PENDING", "REFUND_FAILED"} : UpdateStatus(rcalls[r].ord, status)
    BY <1>3 DEF RefundHandler, RefundServiceNext, serviceVars, Refund, InsertRefund, Reverse, ReverseFails,
                FailRefund, FailRefundOrder, PendingOrder, CloseRefund, AbortRefund
  <2>3. rcalls[r].ord = o
    BY <2>2, <1>1 DEF UpdateStatus, UpdateStatusAndFields
  <2> QED BY <2>1, <2>2, <2>3
<1>4. ~ReconcilerNext
  BY DEF ReconcilerNext, serviceVars, Scan, ListUnnotified, Reconcile, QueryFails, RetryNotify, EndPass,
         StopWorker
<1>5. ~Environment
  BY <1>t DEF Environment, Pays, Rejected, Reversed, TimePasses, RowBecomesDue, SnapshotBecomesDue,
              serviceVars, Rows
<1> QED BY <1>2, <1>3, <1>4, <1>5 DEF Next

\* What the statuses behind code "6", and the statuses it may become, are.
LEMMA FinalCodes ==
  \A s : /\ ToGSStatus(s) = 6 <=> s = "TIMEOUT"
         /\ s \in {"TIMEOUT", "FAILED", "CANCELLED"} => ToGSStatus(s) \in {3, 6}
BY DEF ToGSStatus

\* An order that timed out stays so until a stale complete or cancel writes it (no
\* need to exclude the FAILED of a CreateOrder, which has the same code).
LEMMA TimeoutStep ==
  ASSUME TypeOK, MoneyInv, SaleInv, Next, NEW o \in ThirdOrderNos, orders[o].status = "TIMEOUT"
  PROVE  orders'[o].status \in {"TIMEOUT", "FAILED", "CANCELLED"}
<1> SUFFICES ASSUME orders'[o].status /= orders[o].status
             PROVE  orders'[o].status \in {"FAILED", "CANCELLED"}
  OBVIOUS
<1>t. orders \in [ThirdOrderNos -> Rows]
  BY DEF TypeOK
<1>1. ~Paid(o)
  BY PaidStatuses DEF SaleInv, RowsInv
<1>2. HasColumn(o, "pvs_qr") /\ Exists(o)
  BY DEF SaleInv, RowsInv, ShownRows, Exists, Absent
<1>3. ASSUME NEW p \in Procs, Order(p) = o,
             InsertOrder(p) \/ FailOrder(p) \/ ShowQR(p) \/ GuardedUpdate(p) \/ MarkNotified(p) \/ WriteResult(p)
      PROVE  orders'[o].status \in {"FAILED", "CANCELLED"}
  <2>1. CASE InsertOrder(p)
    BY <1>2, <1>3, <2>1 DEF InsertOrder, SerialIsFree
  <2>2. CASE FailOrder(p)
    BY <1>t, <1>3, <2>2 DEF FailOrder, UpdateStatus, UpdateStatusAndFields
  <2>3. CASE ShowQR(p)
    BY <1>2, <1>3, <2>3 DEF ShowQR, IsAt, SaleInv, NotShownYet
  <2>4. CASE GuardedUpdate(p)
    BY <1>3, <2>4
       DEF GuardedUpdate, UpdateStatusGuardedAndFields, SaleInv, LegalWrites, LegalUpdate, CanTransitionTo,
           Successors
  <2>5. CASE MarkNotified(p)
    BY <1>1, <1>3, <2>5 DEF MarkNotified, IsAt, MoneyInv, CallsKnowPayment
  <2>6. CASE WriteResult(p)
    <3>1. calls[p].to \in {"FAILED", "CANCELLED"}
      BY <1>1, <1>3, <2>6 DEF WriteResult, SaleInv, LegalWrites, MoneyInv, CallsKnowPayment
    <3> QED BY <1>t, <1>3, <2>6, <3>1 DEF WriteResult, UpdateStatusAndFields
  <2> QED BY <1>3, <2>1, <2>2, <2>3, <2>4, <2>5, <2>6
<1>4. \A r \in RefundRequests : ~RefundIsAt(r, "idle") => rcalls[r].ord /= o
  BY <1>1 DEF MoneyInv, RefundsKnowPayment
<1> QED BY <1>3, <1>4, WhoWrites

\* No late callback, lost answer or retried pass of the reconciler brings an order
\* that timed out back to life.
THEOREM TimeoutIsFinal == Spec => TimedOutStaysUnpaid
<1>1. TypeOK /\ MoneyInv /\ SaleInv /\ [Next]_vars =>
        [ \A o \in ThirdOrderNos :
            ToGSStatus(orders[o].status) = 6 => ToGSStatus(orders'[o].status) \in {3, 6} ]_vars
  BY TimeoutStep, FinalCodes
<1> QED BY <1>1, TypeCorrect, MoneyAlways, SaleAlways, PTL DEF Spec, TimedOutStaysUnpaid

\* Only call p itself makes its guarded update, and its record holds a legal one.
LEMMA GuardedStep ==
  ASSUME TypeOK, SaleInv, Next, NEW p \in Procs, IsAt(p, "guarded"), Moves(p)
  PROVE  \/ CanTransitionTo(orders[Order(p)].status, orders'[Order(p)].status)
         \/ /\ p = Worker
            /\ orders[Order(p)].status = "QR_SHOWN"
            /\ orders'[Order(p)].status = "REFUND_PENDING"
<1>t. orders \in [ThirdOrderNos -> Rows] /\ Order(p) \in ThirdOrderNos /\ calls \in [Procs -> CallRecords]
  BY DEF TypeOK, IsAt
<1>1. PICK q \in Procs :
        /\ Order(q) = Order(p)
        /\ InsertOrder(q) \/ FailOrder(q) \/ ShowQR(q) \/ GuardedUpdate(q) \/ MarkNotified(q) \/ WriteResult(q)
  BY <1>t, WhoWrites DEF Moves
<1>2. \E c : Becomes(q, c)
  BY <1>1 DEF InsertOrder, FailOrder, ShowQR, GuardedUpdate, MarkNotified, WriteResult
<1>3. q = p
  BY <1>t, <1>2 DEF Becomes, Moves
<1>4. GuardedUpdate(p)
  BY <1>1, <1>3 DEF InsertOrder, FailOrder, ShowQR, MarkNotified, WriteResult, IsAt
<1>5. orders[Order(p)].status = calls[p].seen /\ orders'[Order(p)].status = calls[p].to
  BY <1>t, <1>4 DEF GuardedUpdate, UpdateStatusGuardedAndFields, UpdateStatusAndFields, Moves
<1> QED BY <1>5 DEF SaleInv, LegalWrites, LegalUpdate

\* Whatever other calls wrote since the status was read, a guarded update follows an
\* arrow of transitionTable, or is the correction the reconciler makes without it.
THEOREM GuardedWrites == Spec => GuardedWritesFollowTable
<1>1. TypeOK /\ SaleInv /\ [Next]_vars =>
        [ \A p \in Procs :
            IsAt(p, "guarded") /\ Moves(p) =>
              \/ CanTransitionTo(orders[Order(p)].status, orders'[Order(p)].status)
              \/ /\ p = Worker
                 /\ orders[Order(p)].status = "QR_SHOWN"
                 /\ orders'[Order(p)].status = "REFUND_PENDING" ]_vars
  BY GuardedStep
<1> QED BY <1>1, TypeCorrect, SaleAlways, PTL DEF Spec, GuardedWritesFollowTable
-----------------------------------------------------------------------------
(* What every step leaves as it is. *)

Pending(o) == orders[o].status \in {"RECEIVED", "QR_REQUESTED", "QR_SHOWN"}

\* An UPDATE of the row of o that does not show a QR a second time.
MovesRow(o) ==
  \E status \in OrderStatuses, fields \in SUBSET Columns :
    /\ Exists(o)
    /\ UpdateStatusAndFields(o, status, fields)
    /\ \/ status \notin {"RECEIVED", "QR_REQUESTED", "QR_SHOWN"} /\ "pvs_qr" \notin fields
       \/ ~HasColumn(o, "pvs_qr") /\ \E p \in Procs : ShowQR(p) /\ Order(p) = o

LEMMA RowsMove ==
  ASSUME TypeOK, MoneyInv, SaleInv, Next, NEW o \in ThirdOrderNos,
         orders'[o].status /= orders[o].status \/ orders'[o].cols /= orders[o].cols
  PROVE  (SerialIsFree(o) /\ Create(o)) \/ MovesRow(o)
<1>e. /\ \A p \in Procs : calls[p].pc \notin {"idle", "insert"} => Exists(Order(p))
      /\ \A r \in RefundRequests : ~RefundIsAt(r, "idle") /\ rcalls[r].ord = o => Exists(o)
  BY DEF SaleInv, CallsHaveRows, MoneyInv, RefundsKnowPayment, AbsentRowsAreEmpty, Paid, HasColumn
<1>1. ASSUME NEW status \in {"REFUND_PENDING", "REFUND_FAILED"}, UpdateStatus(o, status), Exists(o)
      PROVE  MovesRow(o)
  BY <1>1 DEF UpdateStatus, MovesRow, OrderStatuses
<1>2. ASSUME NEW p \in Procs, Order(p) = o,
             InsertOrder(p) \/ FailOrder(p) \/ ShowQR(p) \/ GuardedUpdate(p) \/ MarkNotified(p) \/ WriteResult(p)
      PROVE  (SerialIsFree(o) /\ Create(o)) \/ MovesRow(o)
  <2>1. CASE InsertOrder(p)
    BY <1>2, <2>1 DEF InsertOrder
  <2>2. CASE FailOrder(p)
    BY <1>2, <1>e, <2>2 DEF FailOrder, IsAt, UpdateStatus, MovesRow, OrderStatuses
  <2>3. CASE ShowQR(p)
    BY <1>2, <1>e, <2>3 DEF ShowQR, IsAt, SaleInv, NotShownYet, MovesRow, OrderStatuses, Columns
  <2>4. CASE GuardedUpdate(p)
    <3>1. UpdateStatusAndFields(o, calls[p].to, PaymentFields(calls[p].to))
      BY <1>2, <2>4 DEF GuardedUpdate, UpdateStatusGuardedAndFields
    <3>2. calls[p].to \in {"PAYMENT_CONFIRMED", "FAILED", "TIMEOUT", "REFUND_PENDING", "REFUNDED"}
      BY <2>4 DEF GuardedUpdate, SaleInv, LegalWrites, LegalUpdate
    <3>3. PaymentFields(calls[p].to) \in SUBSET Columns /\ "pvs_qr" \notin PaymentFields(calls[p].to)
      BY DEF PaymentFields, Columns
    <3> QED BY <1>2, <1>e, <2>4, <3>1, <3>2, <3>3 DEF GuardedUpdate, IsAt, MovesRow, OrderStatuses
  <2>5. CASE MarkNotified(p)
    BY <1>2, <1>e, <2>5 DEF MarkNotified, IsAt, MovesRow, OrderStatuses, Columns
  <2>6. CASE WriteResult(p)
    <3>1. calls[p].to \in {"DONE", "FAILED", "CANCELLED"}
      BY <2>6 DEF WriteResult, SaleInv, LegalWrites
    <3>2. ResultFields(calls[p].to) \in SUBSET Columns /\ "pvs_qr" \notin ResultFields(calls[p].to)
      BY DEF ResultFields, Columns
    <3> QED BY <1>2, <1>e, <2>6, <3>1, <3>2 DEF WriteResult, IsAt, MovesRow, OrderStatuses
  <2> QED BY <1>2, <2>1, <2>2, <2>3, <2>4, <2>5, <2>6
<1> QED BY <1>e, <1>1, <1>2, WhoWrites

\* Rows and what is stored in them are never lost, an order that left the pending
\* statuses with its QR does not come back, and only ShowQR stores a QR.
LEMMA RowsKeep ==
  ASSUME TypeOK, MoneyInv, SaleInv, Next, NEW o \in ThirdOrderNos
  PROVE  /\ Exists(o) => Exists(o)'
         /\ orders[o].cols \subseteq orders'[o].cols
         /\ HasColumn(o, "pvs_qr") /\ ~Pending(o) => ~Pending(o)'
         /\ HasColumn(o, "pvs_qr")' => HasColumn(o, "pvs_qr") \/ \E p \in Procs : ShowQR(p) /\ Order(p) = o
<1>t. orders \in [ThirdOrderNos -> Rows] /\ Absent \notin OrderStatuses
  BY DEF TypeOK, Absent, OrderStatuses
<1>1. CASE orders'[o].status = orders[o].status /\ orders'[o].cols = orders[o].cols
  BY <1>1 DEF Exists, HasColumn, Pending
<1>2. CASE SerialIsFree(o) /\ Create(o)
  BY <1>t, <1>2 DEF SerialIsFree, Create, Exists, MoneyInv, AbsentRowsAreEmpty, HasColumn, Pending
<1>3. CASE MovesRow(o)
  BY <1>t, <1>3 DEF MovesRow, UpdateStatusAndFields, Exists, HasColumn, Pending
<1> QED BY <1>1, <1>2, <1>3, RowsMove
-----------------------------------------------------------------------------
(* notifyMinAge keeps the retry of the reconciler away from the notify of the *)
(* webhook: a row or a copy of it is only old enough when no request is at it. *)

\* Only the reconciler may be notifying an order whose row counts as old.
DueRows == \A o \in ThirdOrderNos : orders[o].due => Notifying(o) \subseteq {Worker}

DueCopies == phase = "unnotified" => \A s \in batch : s.due => Notifying(s.ord) \subseteq {Worker}

OneNotifier == \A o \in ThirdOrderNos : \A p, q \in Notifying(o) : p = q

NoticeInv == DueRows /\ DueCopies /\ OneNotifier

\* A notify starts with a confirmation just written, or with an old copy.
StartsNotify(p, o) ==
  /\ GuardedUpdate(p) /\ Wins(p) /\ calls[p].to = "PAYMENT_CONFIRMED" /\ Order(p) = o
  /\ UNCHANGED reconcilerVars

RetriesNotify(o) == \E s \in batch : s.ord = o /\ s.due /\ RetryNotify(s)

LEMMA WhoNotifies ==
  ASSUME TypeOK, Next, NEW o \in ThirdOrderNos, NEW p \in Procs, p \in Notifying(o)', p \notin Notifying(o)
  PROVE  /\ StartsNotify(p, o) \/ (p = Worker /\ RetriesNotify(o))
         /\ \A q \in Procs : q /= p => calls'[q] = calls[q]
<1>t. calls \in [Procs -> CallRecords] /\ calls'[p] /= calls[p]
  BY DEF TypeOK, Notifying, Order
<1>1. ASSUME NEW q \in Procs, Handler(q)
      PROVE  q = p /\ StartsNotify(p, o) /\ \E c : Becomes(p, c)
  <2>1. \E c : Becomes(q, c)
    BY <1>1 DEF Handler, OrderServiceNext, CreateOrder, HandlePVSWebhook, CompleteOrder, CancelOrder,
                AcceptWrite, InsertOrder, GenerateQR, GenerateQRFails, FailOrder, ShowQR, GuardedUpdate,
                NotifyPayment, MarkNotified, WriteResult, Abort
  <2>2. q = p
    BY <1>t, <2>1 DEF Becomes
  <2>3. ~(calls[p].pc \in {"notify", "mark"} /\ calls[p].ord = o)
    BY DEF Notifying, Order
  <2>4. \A c : Becomes(p, c) => c.pc \in {"notify", "mark"} /\ c.ord = o
    BY <1>t DEF Becomes, Notifying, Order
  <2>5. /\ Idle.pc = "idle" /\ \A pc, x : At(pc, x).pc = pc /\ At(pc, x).ord = x
        /\ \A x, to : [At("write", x) EXCEPT !.to = to].pc = "write"
    BY DEF Idle, At
  <2>6. ASSUME NEW x
        PROVE  /\ \A lookupFails : ~CreateOrder(p, x, lookupFails)
               /\ \A s : ~HandlePVSWebhook(p, x, s)
               /\ \A to : ~AcceptWrite(p, x, to)
    <3>1. \A lookupFails : ~CreateOrder(p, x, lookupFails)
      BY <2>4, <2>5 DEF CreateOrder
    <3>2. \A s : ~HandlePVSWebhook(p, x, s)
      BY <2>4 DEF HandlePVSWebhook
    <3>3. \A to : ~AcceptWrite(p, x, to)
      BY <2>4, <2>5 DEF AcceptWrite
    <3> QED BY <3>1, <3>2, <3>3
  <2>7. ~InsertOrder(p) /\ ~GenerateQR(p) /\ ~GenerateQRFails(p) /\ ~FailOrder(p) /\ ~ShowQR(p)
    BY <2>4, <2>5 DEF InsertOrder, GenerateQR, GenerateQRFails, FailOrder, ShowQR
  <2>8. ~NotifyPayment(p)
    BY <2>3, <2>4, <2>5 DEF NotifyPayment, IsAt, Order
  <2>9. ~MarkNotified(p) /\ ~WriteResult(p) /\ ~Abort(p)
    BY <2>4, <2>5 DEF MarkNotified, WriteResult, Abort
  <2>10. GuardedUpdate(p)
    BY <1>1, <2>2, <2>6, <2>7, <2>8, <2>9 DEF Handler, OrderServiceNext, CompleteOrder, CancelOrder
  <2> QED BY <1>1, <2>1, <2>2, <2>4, <2>5, <2>10 DEF Handler, GuardedUpdate, StartsNotify
<1>2. ASSUME ReconcilerNext
      PROVE  p = Worker /\ RetriesNotify(o) /\ \E c : Becomes(p, c)
  <2>1. PICK s \in batch : Reconcile(s) \/ RetryNotify(s)
    BY <1>2, <1>t DEF ReconcilerNext, serviceVars, Scan, ListUnnotified, QueryFails, EndPass, StopWorker,
                      Becomes, Idle, Notifying, Order
  <2>2. p = Worker /\ \E c : Becomes(p, c)
    BY <2>1, <1>t DEF Reconcile, RetryNotify, Becomes
  <2>3. calls'[p].pc \in {"notify", "mark"} /\ calls'[p].ord = o
    BY DEF Notifying, Order
  <2>4. \A c : Becomes(p, c) => calls'[p] = c
    BY <1>t DEF Becomes
  <2>5. ~Reconcile(s)
    BY <2>2, <2>3, <2>4 DEF Reconcile, Idle
  <2>6. RetryNotify(s) => s.due /\ s.ord = o
    BY <2>2, <2>3, <2>4 DEF RetryNotify, Idle, At
  <2> QED BY <2>1, <2>2, <2>5, <2>6 DEF RetriesNotify
<1>3. ~Environment
  BY <1>t DEF Environment, Pays, Rejected, Reversed, TimePasses, SnapshotBecomesDue, serviceVars
<1>4. ASSUME NEW r \in RefundRequests, RefundHandler(r)
      PROVE  UNCHANGED calls
  BY <1>4 DEF RefundHandler, RefundServiceNext, serviceVars, Refund, InsertRefund, Reverse, ReverseFails,
              FailRefund, FailRefundOrder, PendingOrder, CloseRefund, AbortRefund
<1>5. ASSUME NEW c, Becomes(p, c), NEW q \in Procs, q /= p
      PROVE  calls'[q] = calls[q]
  BY <1>5, <1>t DEF Becomes
<1> QED BY <1>1, <1>2, <1>3, <1>4, <1>5, <1>t DEF Next

\* Rows and copies grow old only while nobody notifies their order.
LEMMA WhatGrowsOld ==
  ASSUME TypeOK, Next
  PROVE  /\ \A o \in ThirdOrderNos : orders'[o].due /\ ~orders[o].due => Notifying(o) = {} /\ UNCHANGED calls
         /\ \A s \in batch' : phase' = "unnotified" /\ s.due =>
              \/ phase = "unnotified" /\ s \in batch
              \/ Notifying(s.ord) = {} /\ UNCHANGED calls
              \/ orders[s.ord].due /\ UNCHANGED calls
<1>t. orders \in [ThirdOrderNos -> Rows] /\ batch \subseteq Snapshots
  BY DEF TypeOK
<1>1. ASSUME NEW x, NEW status, NEW fields, UpdateStatusAndFields(x, status, fields), NEW o \in ThirdOrderNos
      PROVE  orders'[o].due => orders[o].due
  BY <1>1, <1>t DEF UpdateStatusAndFields
<1>2. ASSUME NEW p \in Procs, Handler(p), NEW o \in ThirdOrderNos
      PROVE  orders'[o].due => orders[o].due
  <2>1. \/ orders' = orders
        \/ InsertOrder(p) \/ FailOrder(p) \/ ShowQR(p) \/ GuardedUpdate(p) \/ MarkNotified(p) \/ WriteResult(p)
    BY <1>2 DEF Handler, OrderServiceNext, CreateOrder, HandlePVSWebhook, CompleteOrder, CancelOrder,
                AcceptWrite, GenerateQR, GenerateQRFails, NotifyPayment, Abort
  <2>2. orders' = orders \/ Create(Order(p)) \/ \E status, fields : UpdateStatusAndFields(Order(p), status, fields)
    BY <2>1 DEF InsertOrder, FailOrder, ShowQR, GuardedUpdate, MarkNotified, WriteResult, UpdateStatus,
                UpdateStatusGuardedAndFields
  <2>3. Create(Order(p)) => (orders'[o].due => orders[o].due)
    BY <1>t DEF Create
  <2> QED BY <2>2, <2>3, <1>1
<1>3. ASSUME NEW r \in RefundRequests, RefundHandler(r), NEW o \in ThirdOrderNos
      PROVE  orders'[o].due => orders[o].due
  BY <1>1, <1>3 DEF RefundHandler, RefundServiceNext, serviceVars, Refund, InsertRefund, Reverse, ReverseFails,
                    FailRefund, FailRefundOrder, PendingOrder, CloseRefund, AbortRefund, UpdateStatus
<1>4. CASE \/ \E p \in Procs : Handler(p)
           \/ \E r \in RefundRequests : RefundHandler(r)
  BY <1>2, <1>3, <1>4 DEF Handler, RefundHandler, reconcilerVars
<1>5. CASE ReconcilerNext
  <2>1. UNCHANGED orders
    BY <1>5 DEF ReconcilerNext, serviceVars, Scan, ListUnnotified, Reconcile, QueryFails, RetryNotify, EndPass,
                StopWorker
  <2>2. ASSUME phase' = "unnotified", NEW s \in batch', s.due
        PROVE  (phase = "unnotified" /\ s \in batch) \/ (orders[s.ord].due /\ UNCHANGED calls)
    <3>1. ~Scan /\ ~EndPass /\ ~StopWorker
      BY <2>2 DEF Scan, EndPass, StopWorker
    <3>2. ListUnnotified => orders[s.ord].due /\ UNCHANGED calls
      BY <2>2 DEF ListUnnotified, Snapshot, serviceVars
    <3>3. (\E x \in batch : Reconcile(x) \/ QueryFails(x) \/ RetryNotify(x)) => phase = "unnotified" /\ s \in batch
      BY <2>2 DEF Reconcile, QueryFails, RetryNotify
    <3> QED BY <1>5, <3>1, <3>2, <3>3 DEF ReconcilerNext
  <2> QED BY <2>1, <2>2
<1>6. CASE Environment
  <2> SUFFICES ASSUME NEW o \in ThirdOrderNos, Pays(o) \/ Rejected(o) \/ Reversed(o) \/ TimePasses(o)
               PROVE  /\ \A x \in ThirdOrderNos : orders'[x].due /\ ~orders[x].due => Notifying(x) = {} /\ UNCHANGED calls
                      /\ \A s \in batch' : phase' = "unnotified" /\ s.due =>
                           (phase = "unnotified" /\ s \in batch) \/ (Notifying(s.ord) = {} /\ UNCHANGED calls)
    BY <1>6 DEF Environment
  <2>1. CASE Pays(o) \/ Rejected(o) \/ Reversed(o)
    BY <2>1 DEF Pays, Rejected, Reversed, reconcilerVars
  <2>2. CASE Notifying(o) = {} /\ RowBecomesDue(o) /\ UNCHANGED calls /\ UNCHANGED reconcilerVars
    BY <2>2, <1>t DEF RowBecomesDue, reconcilerVars
  <2>3. ASSUME NEW s \in batch, s.ord = o, Notifying(o) = {}, SnapshotBecomesDue(s)
        PROVE  /\ UNCHANGED <<orders, calls, phase>>
               /\ \A x \in batch' : x \in batch \/ x.ord = o
    BY <2>3, <1>t DEF SnapshotBecomesDue, serviceVars, Snapshots
  <2> QED BY <2>1, <2>2, <2>3 DEF TimePasses
<1> QED BY <1>4, <1>5, <1>6 DEF Next

LEMMA NoticeInductive ==
  /\ Init => NoticeInv
  /\ TypeOK /\ TypeOK' /\ MoneyInv /\ SaleInv /\ NoticeInv /\ [Next]_vars => NoticeInv'
<1>1. Init => NoticeInv
  BY DEF Init, OrderRepoInit, OrderServiceInit, ReconcilerInit, NoRow, Idle, NoticeInv, DueRows, DueCopies,
         OneNotifier, Notifying
<1>2. ASSUME TypeOK, TypeOK', MoneyInv, SaleInv, NoticeInv, Next
      PROVE  NoticeInv'
  <2>t. /\ orders \in [ThirdOrderNos -> Rows] /\ batch \subseteq Snapshots
        /\ \A o \in ThirdOrderNos : Notifying(o) \subseteq Procs /\ Notifying(o)' \subseteq Procs
    BY <1>2 DEF TypeOK, Notifying
  \* A confirmation is the first: nobody notifies the order, and it has no copies yet.
  <2>1. ASSUME NEW p \in Procs, NEW o \in ThirdOrderNos, StartsNotify(p, o)
        PROVE  /\ Notifying(o) = {} /\ ~orders'[o].due
               /\ phase = "unnotified" => \A s \in batch : s.ord /= o
               /\ UNCHANGED <<phase, batch>>
    <3>1. calls[p].seen = "QR_SHOWN" /\ orders[o].status = "QR_SHOWN"
      BY <1>2, <2>1 DEF StartsNotify, GuardedUpdate, Wins, SaleInv, LegalWrites, LegalUpdate,
                        CanTransitionTo, Successors
    <3>2. ~Paid(o)
      BY <1>2, <3>1, PaidStatuses DEF SaleInv, RowsInv
    <3>3. Notifying(o) = {}
      BY <1>2, <3>2 DEF MoneyInv, CallsKnowPayment, Notifying
    <3>4. phase = "unnotified" => \A s \in batch : s.ord /= o
      BY <1>2, <3>2 DEF MoneyInv, CopiesKnowPayment
    <3>5. ~orders'[o].due /\ UNCHANGED <<phase, batch>>
      BY <2>1, <2>t DEF StartsNotify, GuardedUpdate, Wins, UpdateStatusGuardedAndFields, UpdateStatusAndFields,
                       reconcilerVars
    <3> QED BY <3>3, <3>4, <3>5
  \* The worker is idle until it retries one.
  <2>2. ASSUME NEW o \in ThirdOrderNos, RetriesNotify(o)
        PROVE  Notifying(o) = {}
    <3>1. Notifying(o) \subseteq {Worker} /\ IsAt(Worker, "idle")
      BY <1>2, <2>2 DEF RetriesNotify, RetryNotify, WorkerIsFree, NoticeInv, DueCopies
    <3> QED BY <3>1 DEF Notifying, IsAt
  <2>3. ASSUME NEW o \in ThirdOrderNos
        PROVE  \/ Notifying(o)' \subseteq Notifying(o)
               \/ \E p \in Procs :
                    Notifying(o)' \subseteq {p} /\ (StartsNotify(p, o) \/ (p = Worker /\ RetriesNotify(o)))
    <3> SUFFICES ASSUME NEW p \in Procs, p \in Notifying(o)', p \notin Notifying(o)
                 PROVE  Notifying(o)' \subseteq {p} /\ (StartsNotify(p, o) \/ (p = Worker /\ RetriesNotify(o)))
      BY <2>t
    <3>1. /\ StartsNotify(p, o) \/ (p = Worker /\ RetriesNotify(o))
          /\ \A q \in Procs : q /= p => calls'[q] = calls[q]
      BY <1>2, WhoNotifies
    <3>2. Notifying(o)' \subseteq Notifying(o) \cup {p}
      BY <3>1 DEF Notifying, Order
    <3> QED BY <2>1, <2>2, <3>1, <3>2
  <2>4. ASSUME NEW o \in ThirdOrderNos, Notifying(o) \subseteq {Worker}, ~(Notifying(o)' \subseteq {Worker})
        PROVE  \E p \in Procs : StartsNotify(p, o)
    BY <2>3, <2>4
  <2>5. UNCHANGED calls => \A o \in ThirdOrderNos : Notifying(o)' = Notifying(o)
    BY DEF Notifying, Order
  <2>6. OneNotifier'
    BY <1>2, <2>3 DEF NoticeInv, OneNotifier
  <2>7. DueRows'
    BY <1>2, <2>1, <2>4, <2>5, WhatGrowsOld DEF NoticeInv, DueRows
  <2>8. DueCopies'
    <3> SUFFICES ASSUME phase' = "unnotified", NEW s \in batch', s.due
                 PROVE  Notifying(s.ord)' \subseteq {Worker}
      BY DEF DueCopies
    <3>1. s.ord \in ThirdOrderNos
      BY <1>2 DEF TypeOK, Snapshots
    <3> QED BY <1>2, <2>1, <2>4, <2>5, <3>1, WhatGrowsOld DEF NoticeInv, DueRows, DueCopies
  <2> QED BY <2>6, <2>7, <2>8 DEF NoticeInv
<1>3. NoticeInv /\ UNCHANGED vars => NoticeInv'
  BY DEF NoticeInv, DueRows, DueCopies, OneNotifier, Notifying, Order, vars
<1> QED BY <1>1, <1>2, <1>3

\* At any moment at most one request notifies GS of the payment of an order: neither
\* two callbacks nor a callback and the retry of the reconciler are at it together.
THEOREM OneNotice == Spec => []OneNoticeInFlight
<1>1. NoticeInv => OneNoticeInFlight
  <2> SUFFICES ASSUME NoticeInv, NEW o \in ThirdOrderNos
               PROVE  Cardinality(Notifying(o)) <= 1
    BY DEF OneNoticeInFlight
  <2>1. CASE Notifying(o) = {}
    BY <2>1, FS_EmptySet
  <2>2. ASSUME NEW p, p \in Notifying(o)
        PROVE  Cardinality(Notifying(o)) <= 1
    <3>1. Notifying(o) = {p}
      BY <2>2 DEF NoticeInv, OneNotifier
    <3> QED BY <3>1, FS_Singleton
  <2> QED BY <2>1, <2>2
<1> QED BY <1>1, TypeCorrect, MoneyAlways, SaleAlways, NoticeInductive, PTL DEF Spec
=============================================================================
