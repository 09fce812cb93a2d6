----------------------------- MODULE BridgeProofs -----------------------------
(***************************************************************************)
(* Types and safety of Bridge for any sets of orders, handlers and         *)
(* refunds.  The type invariant is inductive.  Each safety property is a   *)
(* consequence of an inductive invariant that also says what the calls in  *)
(* progress and the copies of the reconciler, which were read in the past, *)
(* still know of the tables.                                               *)
(***************************************************************************)
EXTENDS Bridge, TLAPS

\* An UPDATE of an existing or absent row leaves a table of rows.
LEMMA UpdateType ==
  ASSUME orders \in [ThirdOrderNos -> Rows],
         NEW o \in ThirdOrderNos, NEW status \in OrderStatuses, NEW fields \in SUBSET Columns,
         UpdateStatusAndFields(o, status, fields)
  PROVE  orders' \in [ThirdOrderNos -> Rows]
BY DEF UpdateStatusAndFields, Rows

CallsOK ==
  /\ calls \in [Procs -> CallRecords]
  /\ \A p \in Procs : ~IsAt(p, "idle") => Order(p) \in ThirdOrderNos
  /\ \A p \in Procs : calls[p].pc \in {"guarded", "write"} => calls[p].to \in OrderStatuses

\* A record a call may go on with.
WellFormed(c) ==
  /\ c \in CallRecords
  /\ c.pc /= "idle" => c.ord \in ThirdOrderNos
  /\ c.pc \in {"guarded", "write"} => c.to \in OrderStatuses

\* A call goes on with a well-formed record.
LEMMA BecomesType ==
  ASSUME CallsOK, NEW p \in Procs, NEW c, WellFormed(c), Becomes(p, c)
  PROVE  CallsOK'
BY DEF CallsOK, WellFormed, Becomes, IsAt, Order

LEMMA RecordTypes ==
  /\ WellFormed(Idle)
  /\ \A o \in ThirdOrderNos, pc \in Pcs \ {"guarded", "write"} : WellFormed(At(pc, o))
  /\ \A o \in ThirdOrderNos, pc \in Pcs, seen \in Targets, to \in OrderStatuses :
       WellFormed([pc |-> pc, ord |-> o, seen |-> seen, to |-> to])
BY DEF Idle, At, WellFormed, CallRecords, Pcs, Targets

\* A handler step that ends or moves on its call, and leaves tables of their types.
ServiceOK ==
  /\ CallsOK
  /\ orders \in [ThirdOrderNos -> Rows]
  /\ qr \in [ThirdOrderNos -> PVSStatuses \cup {NoQR}]
  /\ reverseRequested \subseteq ThirdOrderNos
  /\ told \subseteq ThirdOrderNos

LEMMA OrderServiceType ==
  ASSUME ServiceOK, NEW p \in Procs, OrderServiceNext(p)
  PROVE  ServiceOK'
<1> USE DEF ServiceOK
<1>i. WellFormed(Idle)
  BY RecordTypes
<1>a. \A o \in ThirdOrderNos, pc \in Pcs \ {"guarded", "write"} : WellFormed(At(pc, o))
  BY RecordTypes
<1>o. ~IsAt(p, "idle") => Order(p) \in ThirdOrderNos
  BY DEF CallsOK
<1>b. ASSUME NEW c, WellFormed(c), Becomes(p, c)
      PROVE  CallsOK'
  BY <1>b, BecomesType
<1>u. ASSUME NEW o \in ThirdOrderNos, NEW status \in OrderStatuses, NEW fields \in SUBSET Columns,
             UpdateStatusAndFields(o, status, fields)
      PROVE  orders' \in [ThirdOrderNos -> Rows]
  BY <1>u, UpdateType
<1>1. ASSUME NEW o \in ThirdOrderNos, NEW lookupFails \in BOOLEAN, CreateOrder(p, o, lookupFails)
      PROVE  ServiceOK'
  BY <1>1, <1>a, <1>b DEF CreateOrder, Pcs
<1>2. ASSUME NEW o \in ThirdOrderNos, NEW s \in PVSStatuses, HandlePVSWebhook(p, o, s)
      PROVE  ServiceOK'
  <2> DEFINE seen == orders[o].status
             to   == pvsStatusToOrderStatus(s, seen)
  <2>1. to \in OrderStatuses /\ seen \in OrderStatuses
    BY <1>2 DEF HandlePVSWebhook, CanTransitionTo, Successors, OrderStatuses, Rows, Exists
  <2>2. WellFormed([pc |-> "guarded", ord |-> o, seen |-> seen, to |-> to])
    BY <2>1, RecordTypes DEF Pcs, Targets
  <2> QED BY <1>2, <2>2, <1>b DEF HandlePVSWebhook
<1>3. ASSUME NEW o \in ThirdOrderNos, NEW to \in OrderStatuses, AcceptWrite(p, o, to)
      PROVE  ServiceOK'
  <2>1. WellFormed([At("write", o) EXCEPT !.to = to])
    BY RecordTypes DEF At, Pcs, Targets
  <2> QED BY <1>3, <2>1, <1>b DEF AcceptWrite
<1>4. CASE InsertOrder(p)
  <2>1. Order(p) \in ThirdOrderNos
    BY <1>4, <1>o DEF InsertOrder, IsAt
  <2>2. orders' \in [ThirdOrderNos -> Rows]
    <3>1. [status |-> "RECEIVED", cols |-> {}, due |-> FALSE] \in Rows
      BY DEF Rows, OrderStatuses
    <3> QED BY <1>4, <2>1, <3>1 DEF InsertOrder, Create
  <2>3. CallsOK'
    BY <1>4, <2>1, <1>i, <1>a, <1>b DEF InsertOrder, Pcs
  <2> QED BY <1>4, <2>2, <2>3 DEF InsertOrder
<1>5. CASE GenerateQR(p)
  BY <1>5, <1>a, <1>b, <1>o DEF GenerateQR, CreateQR, PVSStatuses, Pcs, IsAt
<1>6. CASE GenerateQRFails(p)
  BY <1>6, <1>a, <1>b, <1>o DEF GenerateQRFails, Pcs, IsAt
<1>7. CASE FailOrder(p)
  BY <1>7, <1>i, <1>b, <1>o, <1>u DEF FailOrder, UpdateStatus, OrderStatuses, IsAt
<1>8. CASE ShowQR(p)
  BY <1>8, <1>i, <1>b, <1>o, <1>u DEF ShowQR, OrderStatuses, Columns, IsAt
<1>9. CASE GuardedUpdate(p)
  <2>1. Order(p) \in ThirdOrderNos /\ calls[p].to \in OrderStatuses
    BY <1>9, <1>o DEF GuardedUpdate, IsAt, CallsOK
  <2>2. orders' \in [ThirdOrderNos -> Rows]
    BY <1>9, <2>1, <1>u DEF GuardedUpdate, UpdateStatusGuardedAndFields, PaymentFields, Columns
  <2>3. CallsOK'
    BY <1>9, <2>1, <1>i, <1>a, <1>b DEF GuardedUpdate, Pcs
  <2> QED BY <1>9, <2>2, <2>3 DEF GuardedUpdate
<1>10. CASE NotifyPayment(p)
  BY <1>10, <1>i, <1>a, <1>b, <1>o DEF NotifyPayment, NoticeAnswers, Pcs, IsAt
<1>11. CASE MarkNotified(p)
  BY <1>11, <1>i, <1>b, <1>o, <1>u DEF MarkNotified, OrderStatuses, Columns, IsAt
<1>12. CASE WriteResult(p)
  <2>1. Order(p) \in ThirdOrderNos /\ calls[p].to \in OrderStatuses
    BY <1>12, <1>o DEF WriteResult, IsAt, CallsOK
  <2> QED BY <1>12, <2>1, <1>i, <1>b, <1>u DEF WriteResult, ResultFields, Columns
<1>13. CASE Abort(p)
  BY <1>13, <1>i, <1>b DEF Abort
<1> QED
  BY <1>1, <1>2, <1>3, <1>4, <1>5, <1>6, <1>7, <1>8, <1>9, <1>10, <1>11, <1>12, <1>13
     DEF OrderServiceNext, CompleteOrder, CancelOrder, OrderStatuses

RefundsOK ==
  /\ refunds \in [RefundNos -> RefundRows]
  /\ rcalls \in [RefundRequests -> RefundCallRecords]
  /\ \A r \in RefundRequests :
       ~RefundIsAt(r, "idle") => rcalls[r].ord \in ThirdOrderNos /\ rcalls[r].ref \in RefundNos

LEMMA RefundServiceType ==
  ASSUME ServiceOK, RefundsOK, NEW r \in RefundRequests, RefundServiceNext(r)
  PROVE  ServiceOK' /\ RefundsOK'
<1> DEFINE o == rcalls[r].ord
           n == rcalls[r].ref
<1>o. ~RefundIsAt(r, "idle") => o \in ThirdOrderNos /\ n \in RefundNos
  BY DEF RefundsOK
<1>g. ASSUME NEW pc \in RefundPcs, ~RefundIsAt(r, "idle"), GoesTo(r, pc), refunds' \in [RefundNos -> RefundRows]
      PROVE  RefundsOK'
  BY <1>g, <1>o DEF RefundsOK, GoesTo, RefundCallRecords, RefundIsAt
<1>e. ASSUME Ends(r), refunds' \in [RefundNos -> RefundRows]
      PROVE  RefundsOK'
  BY <1>e DEF RefundsOK, Ends, IdleRefund, RefundCallRecords, RefundPcs, RefundIsAt
<1>s. ASSUME ~RefundIsAt(r, "idle"), NEW status \in RefundStatuses, SetRefund(n, status)
      PROVE  refunds' \in [RefundNos -> RefundRows]
  BY <1>s, <1>o DEF RefundsOK, SetRefund, RefundRows
<1>v. UNCHANGED serviceVars => ServiceOK'
  BY DEF serviceVars, ServiceOK, CallsOK, IsAt, Order
<1>u. ASSUME ~RefundIsAt(r, "idle"), NEW status \in OrderStatuses, UpdateStatus(o, status),
             UNCHANGED <<qr, reverseRequested, calls, told>>
      PROVE  ServiceOK'
  <2>1. orders' \in [ThirdOrderNos -> Rows]
    BY <1>u, <1>o, UpdateType DEF ServiceOK, UpdateStatus
  <2> QED BY <1>u, <2>1 DEF ServiceOK, CallsOK, IsAt, Order
<1>t. refunds \in [RefundNos -> RefundRows]
  BY DEF RefundsOK
<1>1. ASSUME NEW m \in RefundNos, NEW x \in ThirdOrderNos, Refund(r, m, x)
      PROVE  ServiceOK' /\ RefundsOK'
  BY <1>1, <1>v DEF Refund, RefundsOK, RefundCallRecords, RefundPcs, RefundIsAt
<1>2. CASE InsertRefund(r)
  <2>1. [status |-> "PENDING", ord |-> o] \in RefundRows
    BY <1>2, <1>o DEF InsertRefund, RefundRows, RefundStatuses, RefundIsAt
  <2>2. refunds' \in [RefundNos -> RefundRows]
    BY <1>2, <2>1, <1>t, <1>o DEF InsertRefund, RefundIsAt
  <2> QED BY <1>2, <2>2, <1>g, <1>e, <1>v DEF InsertRefund, RefundPcs, RefundIsAt
<1>3. CASE Reverse(r)
  <2>1. RefundsOK'
    BY <1>3, <1>g, <1>t DEF Reverse, RefundPcs, RefundIsAt
  <2>2. qr' \in [ThirdOrderNos -> PVSStatuses \cup {NoQR}] /\ reverseRequested' \subseteq ThirdOrderNos
    BY <1>3, <1>o DEF Reverse, AcceptReverse, PVSStatuses, RefundIsAt, ServiceOK
  <2> QED BY <1>3, <2>1, <2>2 DEF Reverse, ServiceOK, CallsOK, IsAt, Order
<1>4. CASE ReverseFails(r)
  BY <1>4, <1>g, <1>t, <1>v DEF ReverseFails, RefundPcs, RefundIsAt
<1>5. CASE FailRefund(r)
  BY <1>5, <1>g, <1>s, <1>t, <1>v DEF FailRefund, RefundPcs, RefundStatuses, RefundIsAt
<1>6. CASE FailRefundOrder(r)
  BY <1>6, <1>e, <1>u, <1>t DEF FailRefundOrder, OrderStatuses, RefundIsAt
<1>7. CASE PendingOrder(r)
  BY <1>7, <1>g, <1>u, <1>v, <1>t DEF PendingOrder, OrderStatuses, RefundPcs, RefundIsAt, serviceVars
<1>8. CASE CloseRefund(r)
  BY <1>8, <1>e, <1>s, <1>v DEF CloseRefund, RefundStatuses, RefundIsAt
<1>9. CASE AbortRefund(r)
  BY <1>9, <1>e, <1>t, <1>v DEF AbortRefund
<1> QED
  BY <1>1, <1>2, <1>3, <1>4, <1>5, <1>6, <1>7, <1>8, <1>9 DEF RefundServiceNext

BatchOK == phase \in Phases /\ batch \subseteq Snapshots

LEMMA TypeParts ==
  /\ TypeOK <=> ServiceOK /\ RefundsOK /\ BatchOK
  /\ TypeOK' <=> ServiceOK' /\ RefundsOK' /\ BatchOK'
BY DEF TypeOK, ServiceOK, CallsOK, RefundsOK, BatchOK

LEMMA WorkerIsProc == Worker \in Procs
BY DEF Procs

LEMMA ReconcilerType ==
  ASSUME ServiceOK, BatchOK, ReconcilerNext
  PROVE  ServiceOK' /\ BatchOK' /\ UNCHANGED refundVars
<1>i. WellFormed(Idle)
  BY RecordTypes
<1>b. ASSUME NEW c, WellFormed(c), Becomes(Worker, c), UNCHANGED <<orders, qr, reverseRequested, told>>
      PROVE  ServiceOK'
  BY <1>b, WorkerIsProc, BecomesType DEF ServiceOK
<1>v. UNCHANGED serviceVars => ServiceOK'
  BY DEF serviceVars, ServiceOK, CallsOK, IsAt, Order
<1>s. ASSUME NEW o \in ThirdOrderNos, orders[o].status \in OrderStatuses
      PROVE  Snapshot(o) \in Snapshots
  BY <1>s DEF ServiceOK, Snapshot, Snapshots, Rows
<1>1. CASE Scan
  <2>1. batch' \subseteq Snapshots
    BY <1>1, <1>s DEF Scan, IsStuck, OrderStatuses
  <2> QED BY <1>1, <2>1, <1>v DEF Scan, BatchOK, Phases
<1>2. CASE ListUnnotified
  <2>1. batch' \subseteq Snapshots
    BY <1>2, <1>s DEF ListUnnotified, IsUnnotified, OrderStatuses
  <2> QED BY <1>2, <2>1, <1>v DEF ListUnnotified, BatchOK, Phases
<1>3. ASSUME NEW s \in batch, Reconcile(s)
      PROVE  ServiceOK' /\ BatchOK' /\ UNCHANGED refundVars
  <2> DEFINE to == Correction(s.status, qr[s.ord])
             c  == [pc |-> "guarded", ord |-> s.ord, seen |-> s.status, to |-> to]
  <2>1. s.ord \in ThirdOrderNos /\ s.status \in OrderStatuses
    BY DEF BatchOK, Snapshots
  <2>2. to /= NoStatus => to \in OrderStatuses
    BY DEF Correction, OrderStatuses
  <2>3. to /= NoStatus => WellFormed(c)
    BY <2>1, <2>2, RecordTypes DEF Pcs, Targets
  <2>4. ServiceOK'
    BY <1>3, <2>3, <1>i, <1>b DEF Reconcile
  <2> QED BY <1>3, <2>4 DEF Reconcile, BatchOK
<1>4. ASSUME NEW s \in batch, QueryFails(s)
      PROVE  ServiceOK' /\ BatchOK' /\ UNCHANGED refundVars
  BY <1>4, <1>v DEF QueryFails, BatchOK
<1>5. ASSUME NEW s \in batch, RetryNotify(s)
      PROVE  ServiceOK' /\ BatchOK' /\ UNCHANGED refundVars
  <2>1. WellFormed(At("notify", s.ord))
    BY RecordTypes DEF BatchOK, Snapshots, Pcs
  <2>2. ServiceOK'
    BY <1>5, <2>1, <1>i, <1>b DEF RetryNotify
  <2> QED BY <1>5, <2>2 DEF RetryNotify, BatchOK
<1>6. CASE EndPass
  BY <1>6, <1>v DEF EndPass, BatchOK, Phases
<1>7. CASE StopWorker
  BY <1>7, <1>i, <1>b DEF StopWorker, BatchOK, Phases
<1> QED
  BY <1>1, <1>2, <1>3, <1>4, <1>5, <1>6, <1>7 DEF ReconcilerNext

LEMMA EnvironmentType ==
  ASSUME TypeOK, Environment
  PROVE  TypeOK'
<1> SUFFICES ASSUME NEW o \in ThirdOrderNos, Pays(o) \/ Rejected(o) \/ Reversed(o) \/ TimePasses(o)
             PROVE  TypeOK'
  BY DEF Environment
<1>1. CASE Pays(o) \/ Rejected(o) \/ Reversed(o)
  <2>1. qr' \in [ThirdOrderNos -> PVSStatuses \cup {NoQR}]
    BY <1>1 DEF TypeOK, Pays, Rejected, Reversed, CustomerPays, PaymentRejected, PaymentReversed, PVSStatuses
  <2> QED
    BY <1>1, <2>1 DEF TypeOK, Pays, Rejected, Reversed, CustomerPays, PaymentRejected, PaymentReversed,
                      refundVars, reconcilerVars, IsAt, Order, RefundIsAt
<1>2. CASE RowBecomesDue(o) /\ UNCHANGED <<qr, reverseRequested, calls, told, refundVars, reconcilerVars>>
  <2>1. orders' \in [ThirdOrderNos -> Rows]
    BY <1>2 DEF TypeOK, RowBecomesDue, Rows
  <2> QED BY <1>2, <2>1 DEF TypeOK, refundVars, reconcilerVars, IsAt, Order, RefundIsAt
<1>3. ASSUME NEW s \in batch, SnapshotBecomesDue(s)
      PROVE  TypeOK'
  <2>1. [s EXCEPT !.due = TRUE] \in Snapshots
    BY DEF TypeOK, Snapshots
  <2> QED BY <1>3, <2>1 DEF TypeOK, SnapshotBecomesDue, serviceVars, refundVars, IsAt, Order, RefundIsAt
<1> QED
  BY <1>1, <1>2, <1>3 DEF TimePasses

\* Whatever the sets of orders, handlers and refunds are, no interleaving of
\* their steps makes a variable leave its type.
THEOREM TypeCorrect == Spec => []TypeOK
<1>1. Init => TypeOK
  <2> SUFFICES ASSUME Init PROVE TypeOK
    OBVIOUS
  <2>1. ServiceOK
    <3>1. NoRow \in Rows
      BY DEF NoRow, Rows
    <3>2. orders \in [ThirdOrderNos -> Rows]
      BY <3>1 DEF Init, OrderRepoInit
    <3> QED
      BY <3>2, RecordTypes
         DEF Init, PVSInit, OrderServiceInit, ServiceOK, CallsOK, WellFormed, Idle, IsAt
  <2>2. RefundsOK
    BY DEF Init, RefundServiceInit, RefundsOK, IdleRefund, RefundCallRecords, RefundPcs, RefundRows, RefundIsAt
  <2>3. BatchOK
    BY DEF Init, ReconcilerInit, BatchOK, Phases
  <2> QED BY <2>1, <2>2, <2>3, TypeParts
<1>2. TypeOK /\ [Next]_vars => TypeOK'
  <2> SUFFICES ASSUME TypeOK, [Next]_vars PROVE TypeOK'
    OBVIOUS
  <2>1. ASSUME NEW p \in Procs, Handler(p) PROVE TypeOK'
    <3>1. ServiceOK'
      BY <2>1, TypeParts, OrderServiceType DEF Handler
    <3> QED
      BY <2>1, <3>1, TypeParts DEF Handler, refundVars, reconcilerVars, RefundsOK, BatchOK, RefundIsAt
  <2>2. ASSUME NEW r \in RefundRequests, RefundHandler(r) PROVE TypeOK'
    BY <2>2, TypeParts, RefundServiceType DEF RefundHandler, reconcilerVars, BatchOK
  <2>3. CASE ReconcilerNext
    BY <2>3, TypeParts, ReconcilerType DEF RefundsOK, RefundIsAt, refundVars
  <2>4. CASE Environment
    BY <2>4, EnvironmentType
  <2>5. CASE UNCHANGED vars
    BY <2>5 DEF vars, TypeOK, IsAt, Order, RefundIsAt
  <2> QED BY <2>1, <2>2, <2>3, <2>4, <2>5 DEF Next
<1> QED BY <1>1, <1>2, PTL DEF Spec
-----------------------------------------------------------------------------
(* What the tables, the calls and the copies know of payments. *)

\* Nothing is stored for an order that does not exist.
AbsentRowsAreEmpty == \A o \in ThirdOrderNos : ~Exists(o) => orders[o].cols = {}

\* A payment is only stored if PVS approved it, and a status or a column that
\* stands for one is only stored with it.
RowsKnowPayment ==
  \A o \in ThirdOrderNos :
    /\ Paid(o) => Approved(o)
    /\ orders[o].status \in {"PAYMENT_CONFIRMED", "DONE"} => Paid(o)
    /\ HasColumn(o, "gs_completed_at") => Paid(o)

\* What a call in progress is about to write or send is still true: the approval
\* it heard of, the payment it read.
CallsKnowPayment ==
  \A p \in Procs :
    /\ IsAt(p, "guarded") => /\ calls[p].to /= "DONE"
                             /\ calls[p].to = "PAYMENT_CONFIRMED" => Approved(Order(p))
    /\ calls[p].pc \in {"notify", "mark"} => Paid(Order(p))
    /\ IsAt(p, "write") => /\ calls[p].to /= "PAYMENT_CONFIRMED"
                           /\ calls[p].to = "DONE" => Paid(Order(p))

\* The same for the refunds in progress and the copies waiting to be notified.
RefundsKnowPayment ==
  \A r \in RefundRequests : ~RefundIsAt(r, "idle") => Paid(rcalls[r].ord)

CopiesKnowPayment == phase = "unnotified" => \A s \in batch : Paid(s.ord)

MoneyInv ==
  /\ AbsentRowsAreEmpty
  /\ RowsKnowPayment
  /\ CallsKnowPayment
  /\ RefundsKnowPayment
  /\ CopiesKnowPayment
  /\ NoNoticeWithoutMoney

PaidOrders == {o \in ThirdOrderNos : Paid(o)}

ApprovedOrders == {o \in ThirdOrderNos : Approved(o)}

\* After the step, record c knows what CallsKnowPayment asks of it.
Knows(c) ==
  /\ c.pc = "guarded" => c.to /= "DONE" /\ (c.to = "PAYMENT_CONFIRMED" => c.ord \in ApprovedOrders')
  /\ c.pc \in {"notify", "mark"} => c.ord \in PaidOrders'
  /\ c.pc = "write" => c.to /= "PAYMENT_CONFIRMED" /\ (c.to = "DONE" => c.ord \in PaidOrders')

\* The two tables only gain payments, and RowsKnowPayment holds of them.
TablesAdvance ==
  /\ AbsentRowsAreEmpty' /\ RowsKnowPayment'
  /\ \A o \in ThirdOrderNos : (Paid(o) => Paid(o)') /\ (Approved(o) => Approved(o)')

LEMMA TablesUnchanged ==
  ASSUME MoneyInv, UNCHANGED <<orders, qr>>
  PROVE  TablesAdvance
BY DEF MoneyInv, TablesAdvance, AbsentRowsAreEmpty, RowsKnowPayment, Exists, Paid, HasColumn, Approved

\* An UPDATE advances the tables if the payment it stores is approved and the
\* payment its status stands for is, or gets, stored.
LEMMA UpdateAdvances ==
  ASSUME TypeOK, MoneyInv, UNCHANGED qr,
         NEW o \in ThirdOrderNos, NEW status \in OrderStatuses, NEW fields \in SUBSET Columns,
         UpdateStatusAndFields(o, status, fields),
         "payment_confirmed_at" \in fields => Approved(o),
         status \in {"PAYMENT_CONFIRMED", "DONE"} \/ "gs_completed_at" \in fields
           => Paid(o) \/ "payment_confirmed_at" \in fields
  PROVE  TablesAdvance /\ ("payment_confirmed_at" \in fields => o \in PaidOrders')
BY DEF MoneyInv, TypeOK, UpdateStatusAndFields, Rows, AbsentRowsAreEmpty, RowsKnowPayment, Exists,
       Paid, HasColumn, Approved, OrderStatuses, Absent, TablesAdvance,
       PaidOrders

\* What the calls, refunds and copies know stays true when the tables advance.
LEMMA KnowledgeStays ==
  ASSUME TypeOK, MoneyInv, TablesAdvance
  PROVE  /\ UNCHANGED calls => CallsKnowPayment'
         /\ UNCHANGED rcalls => RefundsKnowPayment'
         /\ UNCHANGED phase /\ (phase = "unnotified" => batch' \subseteq batch) => CopiesKnowPayment'
         /\ \A o \in told : Approved(o)'
<1>1. UNCHANGED calls => CallsKnowPayment'
  BY DEF TypeOK, MoneyInv, TablesAdvance, CallsKnowPayment, IsAt, Order, CallRecords, Pcs
<1>2. UNCHANGED rcalls => RefundsKnowPayment'
  BY DEF TypeOK, MoneyInv, TablesAdvance, RefundsKnowPayment, RefundIsAt
<1>3. UNCHANGED phase /\ (phase = "unnotified" => batch' \subseteq batch) => CopiesKnowPayment'
  BY DEF TypeOK, MoneyInv, TablesAdvance, CopiesKnowPayment, Snapshots
<1> QED BY <1>1, <1>2, <1>3 DEF TypeOK, MoneyInv, TablesAdvance, NoNoticeWithoutMoney

\* So do the calls when one of them goes on with a record that knows what it has to.
LEMMA CallGoesOn ==
  ASSUME TypeOK, MoneyInv, TablesAdvance, NEW p \in Procs, NEW c, Becomes(p, c), Knows(c)
  PROVE  CallsKnowPayment'
BY DEF TypeOK, MoneyInv, TablesAdvance, CallsKnowPayment, Becomes, Knows, PaidOrders,
       ApprovedOrders, IsAt, Order, CallRecords, Pcs

LEMMA OrderServiceMoney ==
  ASSUME TypeOK, MoneyInv, NEW p \in Procs, OrderServiceNext(p), UNCHANGED <<rcalls, phase, batch>>
  PROVE  MoneyInv'
<1>t. /\ orders \in [ThirdOrderNos -> Rows]
      /\ qr \in [ThirdOrderNos -> PVSStatuses \cup {NoQR}]
      /\ calls[p].pc \in {"guarded", "write"} => calls[p].to \in OrderStatuses
      /\ ~IsAt(p, "idle") => Order(p) \in ThirdOrderNos
  BY DEF TypeOK
\* It remains to show that the tables advance and that the record c the call
\* goes on with knows what it has to.
<1>k. ASSUME TablesAdvance, NEW c, Becomes(p, c), Knows(c), UNCHANGED told
      PROVE  MoneyInv'
  BY <1>k, KnowledgeStays, CallGoesOn DEF MoneyInv, TablesAdvance, NoNoticeWithoutMoney
<1>q. UNCHANGED <<orders, qr>> => TablesAdvance
  BY TablesUnchanged
<1>i. Knows(Idle)
  BY DEF Knows, Idle
<1>1. ASSUME NEW o \in ThirdOrderNos, NEW lookupFails \in BOOLEAN, CreateOrder(p, o, lookupFails)
      PROVE  MoneyInv'
  <2>1. Knows(At("insert", o))
    BY DEF Knows, At
  <2> QED BY <1>1, <2>1, <1>k, <1>q DEF CreateOrder
<1>2. ASSUME NEW o \in ThirdOrderNos, NEW s \in PVSStatuses, HandlePVSWebhook(p, o, s)
      PROVE  MoneyInv'
  <2> DEFINE seen == orders[o].status
             to   == pvsStatusToOrderStatus(s, seen)
             c    == [pc |-> "guarded", ord |-> o, seen |-> seen, to |-> to]
  <2>1. to /= "DONE" /\ (to = "PAYMENT_CONFIRMED" => s = "APPROVED")
    BY DEF pvsStatusToOrderStatus, PVSStatuses, NoStatus
  <2>2. s = "APPROVED" => Approved(o)
    BY <1>2 DEF HandlePVSWebhook, Callbacks, Approved
  <2>3. Knows(c)
    BY <1>2, <2>1, <2>2 DEF HandlePVSWebhook, Knows, Approved, ApprovedOrders
  <2> QED BY <1>2, <2>3, <1>k, <1>q DEF HandlePVSWebhook
<1>3. ASSUME NEW o \in ThirdOrderNos, NEW to \in {"DONE", "FAILED", "CANCELLED"}, AcceptWrite(p, o, to)
      PROVE  MoneyInv'
  <2> DEFINE c == [At("write", o) EXCEPT !.to = to]
  <2>1. to = "DONE" => orders[o].status = "PAYMENT_CONFIRMED"
    BY <1>3 DEF AcceptWrite, CanTransitionTo, Successors
  <2>2. to = "DONE" => Paid(o)
    BY <2>1 DEF MoneyInv, RowsKnowPayment
  <2>3. Knows(c)
    BY <1>3, <2>2 DEF AcceptWrite, Knows, At, Paid, HasColumn, PaidOrders
  <2> QED BY <1>3, <2>3, <1>k, <1>q DEF AcceptWrite
<1>4. CASE InsertOrder(p)
  <2>1. TablesAdvance
    <3>1. CASE UNCHANGED orders
      BY <1>4, <3>1, <1>q DEF InsertOrder
    <3>2. CASE SerialIsFree(Order(p)) /\ Create(Order(p))
      <4>1. Order(p) \in ThirdOrderNos /\ ~Exists(Order(p))
        BY <1>4, <3>2, <1>t DEF InsertOrder, SerialIsFree, IsAt
      <4> QED
        BY <1>4, <3>2, <4>1, <1>t
           DEF InsertOrder, Create, TablesAdvance, MoneyInv, AbsentRowsAreEmpty, RowsKnowPayment, Exists,
               Paid, HasColumn, Approved, Rows, Absent
    <3> QED BY <1>4, <3>1, <3>2 DEF InsertOrder
  <2>2. Knows(At("generateQR", Order(p)))
    BY DEF Knows, At
  <2> QED BY <1>4, <2>1, <2>2, <1>i, <1>k DEF InsertOrder
<1>5. CASE GenerateQR(p)
  <2>1. TablesAdvance
    BY <1>5, <1>t DEF GenerateQR, CreateQR, TablesAdvance, MoneyInv, AbsentRowsAreEmpty, RowsKnowPayment,
                      Exists, Paid, HasColumn, Approved, NoQR
  <2>2. \A next \in {"showQR", "failOrder"} : Knows(At(next, Order(p)))
    BY DEF Knows, At
  <2> QED BY <1>5, <2>1, <2>2, <1>k DEF GenerateQR
<1>6. CASE GenerateQRFails(p)
  <2>1. Knows(At("failOrder", Order(p)))
    BY DEF Knows, At
  <2> QED BY <1>6, <2>1, <1>k, <1>q DEF GenerateQRFails
<1>7. CASE FailOrder(p)
  <2>1. TablesAdvance
    BY <1>7, <1>t, UpdateAdvances DEF FailOrder, UpdateStatus, OrderStatuses, IsAt
  <2> QED BY <1>7, <2>1, <1>i, <1>k DEF FailOrder
<1>8. CASE ShowQR(p)
  <2>1. TablesAdvance
    BY <1>8, <1>t, UpdateAdvances DEF ShowQR, OrderStatuses, Columns, IsAt
  <2> QED BY <1>8, <2>1, <1>i, <1>k DEF ShowQR
<1>9. CASE GuardedUpdate(p)
  <2> DEFINE o  == Order(p)
             to == calls[p].to
  <2>1. o \in ThirdOrderNos /\ to \in OrderStatuses /\ UNCHANGED qr
    BY <1>9, <1>t DEF GuardedUpdate, IsAt
  <2>2. to /= "DONE" /\ (to = "PAYMENT_CONFIRMED" => Approved(o))
    BY <1>9 DEF GuardedUpdate, MoneyInv, CallsKnowPayment
  <2>3. CASE Wins(p)
    <3>1. TablesAdvance /\ (to = "PAYMENT_CONFIRMED" => o \in PaidOrders')
      BY <1>9, <2>1, <2>2, <2>3, UpdateAdvances
         DEF GuardedUpdate, UpdateStatusGuardedAndFields, PaymentFields, Wins, Columns
    <3>2. to = "PAYMENT_CONFIRMED" => Knows(At("notify", o))
      BY <3>1 DEF Knows, At
    <3> QED BY <1>9, <2>3, <3>1, <3>2, <1>i, <1>k DEF GuardedUpdate
  <2>4. CASE ~Wins(p)
    <3>1. TablesAdvance
      BY <1>9, <2>1, <2>4, <1>q DEF GuardedUpdate, UpdateStatusGuardedAndFields, Wins
    <3> QED BY <1>9, <2>4, <3>1, <1>i, <1>k DEF GuardedUpdate
  <2> QED BY <2>3, <2>4
<1>10. CASE NotifyPayment(p)
  <2> DEFINE o == Order(p)
  <2>1. o \in ThirdOrderNos /\ Paid(o) /\ Approved(o)
    BY <1>10, <1>t DEF NotifyPayment, MoneyInv, CallsKnowPayment, RowsKnowPayment, IsAt
  <2>2. TablesAdvance
    BY <1>10, <1>q DEF NotifyPayment
  <2>3. Knows(At("mark", o))
    BY <2>1, <1>10 DEF NotifyPayment, Knows, At, Paid, HasColumn, PaidOrders
  <2>4. PICK c : Becomes(p, c) /\ Knows(c)
    BY <1>10, <2>3, <1>i DEF NotifyPayment
  <2>5. CallsKnowPayment' /\ RefundsKnowPayment' /\ CopiesKnowPayment'
    BY <2>2, <2>4, KnowledgeStays, CallGoesOn
  <2>6. \A x \in told \cup {o} : Approved(x)'
    BY <1>10, <2>1, <2>2, KnowledgeStays DEF NotifyPayment, Approved
  <2> QED BY <1>10, <2>2, <2>5, <2>6 DEF NotifyPayment, MoneyInv, TablesAdvance, NoNoticeWithoutMoney
<1>11. CASE MarkNotified(p)
  <2>1. Order(p) \in ThirdOrderNos /\ Paid(Order(p))
    BY <1>11, <1>t DEF MarkNotified, MoneyInv, CallsKnowPayment, IsAt
  <2>2. TablesAdvance
    BY <1>11, <2>1, UpdateAdvances DEF MarkNotified, OrderStatuses, Columns
  <2> QED BY <1>11, <2>2, <1>i, <1>k DEF MarkNotified
<1>12. CASE WriteResult(p)
  <2>1. /\ Order(p) \in ThirdOrderNos
        /\ calls[p].to \in OrderStatuses \ {"PAYMENT_CONFIRMED"}
        /\ calls[p].to = "DONE" => Paid(Order(p))
    BY <1>12, <1>t DEF WriteResult, MoneyInv, CallsKnowPayment, IsAt
  <2>2. /\ ResultFields(calls[p].to) \in SUBSET Columns
        /\ "payment_confirmed_at" \notin ResultFields(calls[p].to)
        /\ "gs_completed_at" \in ResultFields(calls[p].to) => calls[p].to = "DONE"
    BY DEF ResultFields, Columns
  <2>3. TablesAdvance
    BY <1>12, <2>1, <2>2, UpdateAdvances DEF WriteResult
  <2> QED BY <1>12, <2>3, <1>i, <1>k DEF WriteResult
<1>13. CASE Abort(p)
  BY <1>13, <1>i, <1>k, <1>q DEF Abort
<1> QED
  BY <1>1, <1>2, <1>3, <1>4, <1>5, <1>6, <1>7, <1>8, <1>9, <1>10, <1>11, <1>12, <1>13
     DEF OrderServiceNext, CompleteOrder, CancelOrder

LEMMA RefundServiceMoney ==
  ASSUME TypeOK, MoneyInv, NEW r \in RefundRequests, RefundServiceNext(r), UNCHANGED reconcilerVars
  PROVE  MoneyInv'
<1>o. ~RefundIsAt(r, "idle") => rcalls[r].ord \in ThirdOrderNos
  BY DEF TypeOK
<1>1. UNCHANGED calls /\ UNCHANGED told
  BY DEF RefundServiceNext, serviceVars, Refund, InsertRefund, Reverse, ReverseFails, FailRefund,
         FailRefundOrder, PendingOrder, CloseRefund, AbortRefund
<1>2. TablesAdvance
  <2>1. CASE UNCHANGED <<orders, qr>>
    BY <2>1, TablesUnchanged
  <2>2. CASE Reverse(r)
    BY <2>2 DEF Reverse, AcceptReverse, TablesAdvance, MoneyInv, AbsentRowsAreEmpty, RowsKnowPayment,
                Exists, Paid, HasColumn, Approved, TypeOK
  <2>3. ASSUME ~RefundIsAt(r, "idle"), UNCHANGED qr,
               NEW status \in {"REFUND_PENDING", "REFUND_FAILED"}, UpdateStatus(rcalls[r].ord, status)
        PROVE  TablesAdvance
    BY <2>3, <1>o, UpdateAdvances DEF UpdateStatus, OrderStatuses
  <2> QED
    BY <2>1, <2>2, <2>3
       DEF RefundServiceNext, serviceVars, Refund, InsertRefund, ReverseFails, FailRefund,
           FailRefundOrder, PendingOrder, CloseRefund, AbortRefund, RefundIsAt
<1>3. RefundsKnowPayment'
  <2>1. ASSUME NEW n \in RefundNos, NEW o \in ThirdOrderNos, Refund(r, n, o)
        PROVE  RefundsKnowPayment'
    BY <2>1 DEF Refund, serviceVars, MoneyInv, RefundsKnowPayment, RefundIsAt, Paid, HasColumn, TypeOK
  <2>2. ASSUME NEW pc, ~RefundIsAt(r, "idle"), GoesTo(r, pc)
        PROVE  RefundsKnowPayment'
    BY <2>2, <1>2, <1>o DEF GoesTo, TablesAdvance, MoneyInv, RefundsKnowPayment, RefundIsAt, TypeOK
  <2>3. CASE Ends(r)
    BY <2>3, <1>2 DEF Ends, IdleRefund, TablesAdvance, MoneyInv, RefundsKnowPayment, RefundIsAt, TypeOK
  <2> QED
    BY <2>1, <2>2, <2>3
       DEF RefundServiceNext, InsertRefund, Reverse, ReverseFails, FailRefund,
           FailRefundOrder, PendingOrder, CloseRefund, AbortRefund, RefundIsAt
<1> QED
  BY <1>1, <1>2, <1>3, KnowledgeStays
     DEF reconcilerVars, MoneyInv, TablesAdvance, NoNoticeWithoutMoney

LEMMA ReconcilerMoney ==
  ASSUME TypeOK, MoneyInv, ReconcilerNext, UNCHANGED refundVars
  PROVE  MoneyInv'
<1>1. UNCHANGED <<orders, qr, told, rcalls>>
  BY DEF ReconcilerNext, serviceVars, refundVars, Scan, ListUnnotified, Reconcile, QueryFails,
         RetryNotify, EndPass, StopWorker
<1>2. TablesAdvance
  BY <1>1, TablesUnchanged
<1>w. Worker \in Procs
  BY WorkerIsProc
<1>s. \A s \in batch : s.ord \in ThirdOrderNos
  BY DEF TypeOK, Snapshots
<1>3. CallsKnowPayment'
  <2>1. CASE UNCHANGED calls
    BY <2>1, <1>2, KnowledgeStays
  <2>2. CASE Becomes(Worker, Idle)
    BY <2>2, <1>2, <1>w, CallGoesOn DEF Knows, Idle
  <2>3. ASSUME NEW s \in batch, Reconcile(s)
        PROVE  CallsKnowPayment'
    <3> DEFINE to == Correction(s.status, qr[s.ord])
               c  == [pc |-> "guarded", ord |-> s.ord, seen |-> s.status, to |-> to]
    <3>1. to /= "DONE" /\ (to = "PAYMENT_CONFIRMED" => Approved(s.ord))
      BY DEF Correction, Approved, NoStatus
    <3>2. Knows(c)
      BY <3>1, <1>1, <1>s DEF Knows, ApprovedOrders, Approved
    <3> QED BY <2>2, <2>3, <3>2, <1>2, <1>w, CallGoesOn DEF Reconcile
  <2>4. ASSUME NEW s \in batch, RetryNotify(s)
        PROVE  CallsKnowPayment'
    <3>1. Paid(s.ord)
      BY <2>4 DEF RetryNotify, MoneyInv, CopiesKnowPayment
    <3>2. Knows(At("notify", s.ord))
      BY <3>1, <1>1, <1>s DEF Knows, At, PaidOrders, Paid, HasColumn
    <3> QED BY <2>2, <2>4, <3>2, <1>2, <1>w, CallGoesOn DEF RetryNotify
  <2> QED
    BY <2>1, <2>2, <2>3, <2>4
       DEF ReconcilerNext, serviceVars, Scan, ListUnnotified, QueryFails, EndPass, StopWorker
<1>4. CopiesKnowPayment'
  <2>1. CASE ListUnnotified
    BY <2>1, <1>1 DEF ListUnnotified, Snapshot, IsUnnotified, MoneyInv, RowsKnowPayment, CopiesKnowPayment,
                      Paid, HasColumn
  <2>2. CASE phase' \in {"stuck", "waiting"}
    BY <2>2 DEF CopiesKnowPayment
  <2>3. CASE UNCHANGED phase /\ batch' \subseteq batch
    BY <2>3, <1>2, KnowledgeStays
  <2> QED
    BY <2>1, <2>2, <2>3
       DEF ReconcilerNext, Scan, Reconcile, QueryFails, RetryNotify, EndPass, StopWorker
<1> QED
  BY <1>1, <1>2, <1>3, <1>4, KnowledgeStays DEF MoneyInv, TablesAdvance, NoNoticeWithoutMoney

LEMMA EnvironmentMoney ==
  ASSUME TypeOK, MoneyInv, Environment
  PROVE  MoneyInv'
<1> SUFFICES ASSUME NEW o \in ThirdOrderNos, Pays(o) \/ Rejected(o) \/ Reversed(o) \/ TimePasses(o)
             PROVE  MoneyInv'
  BY DEF Environment
<1>1. UNCHANGED <<calls, told, rcalls, phase>>
  BY DEF Pays, Rejected, Reversed, TimePasses, SnapshotBecomesDue, serviceVars, refundVars, reconcilerVars
<1>2. TablesAdvance
  <2>1. CASE UNCHANGED <<orders, qr>>
    BY <2>1, TablesUnchanged
  <2>2. CASE UNCHANGED orders /\ (Pays(o) \/ Rejected(o) \/ Reversed(o))
    BY <2>2 DEF Pays, Rejected, Reversed, CustomerPays, PaymentRejected, PaymentReversed, TablesAdvance,
                MoneyInv, AbsentRowsAreEmpty, RowsKnowPayment, Exists, Paid, HasColumn, Approved, TypeOK
  <2>3. CASE RowBecomesDue(o) /\ UNCHANGED qr
    BY <2>3 DEF RowBecomesDue, TablesAdvance, MoneyInv, AbsentRowsAreEmpty, RowsKnowPayment, Exists, Paid,
                HasColumn, Approved, TypeOK, Rows
  <2> QED
    BY <2>1, <2>2, <2>3 DEF Pays, Rejected, Reversed, TimePasses, SnapshotBecomesDue, serviceVars
<1>3. CopiesKnowPayment'
  <2>1. CASE UNCHANGED batch
    BY <2>1, <1>1, <1>2, KnowledgeStays
  <2>2. ASSUME NEW s \in batch, SnapshotBecomesDue(s)
        PROVE  CopiesKnowPayment'
    BY <2>2, <1>2 DEF SnapshotBecomesDue, TablesAdvance, MoneyInv, CopiesKnowPayment, TypeOK, Snapshots
  <2> QED
    BY <2>1, <2>2 DEF Pays, Rejected, Reversed, TimePasses, refundVars, reconcilerVars
<1> QED
  BY <1>1, <1>2, <1>3, KnowledgeStays DEF MoneyInv, TablesAdvance, NoNoticeWithoutMoney

LEMMA MoneyInductive ==
  /\ Init => MoneyInv
  /\ TypeOK /\ MoneyInv /\ [Next]_vars => MoneyInv'
<1>1. Init => MoneyInv
  BY DEF Init, OrderRepoInit, PVSInit, OrderServiceInit, RefundServiceInit, ReconcilerInit, NoRow, Idle,
         IdleRefund, MoneyInv, AbsentRowsAreEmpty, RowsKnowPayment, CallsKnowPayment, RefundsKnowPayment,
         CopiesKnowPayment, NoNoticeWithoutMoney, Exists, Paid, HasColumn, IsAt, RefundIsAt, Absent
<1>2. ASSUME TypeOK, MoneyInv, [Next]_vars
      PROVE  MoneyInv'
  <2>1. ASSUME NEW p \in Procs, Handler(p) PROVE MoneyInv'
    BY <2>1, <1>2, OrderServiceMoney DEF Handler, refundVars, reconcilerVars
  <2>2. ASSUME NEW r \in RefundRequests, RefundHandler(r) PROVE MoneyInv'
    BY <2>2, <1>2, RefundServiceMoney DEF RefundHandler
  <2>3. CASE ReconcilerNext
    BY <2>3, <1>2, TypeParts, ReconcilerType, ReconcilerMoney
  <2>4. CASE Environment
    BY <2>4, <1>2, EnvironmentMoney
  <2>5. CASE UNCHANGED vars
    BY <2>5, <1>2, TablesUnchanged, KnowledgeStays
       DEF vars, MoneyInv, TablesAdvance, NoNoticeWithoutMoney
  <2> QED BY <1>2, <2>1, <2>2, <2>3, <2>4, <2>5 DEF Next
<1> QED BY <1>1, <1>2

LEMMA MoneyAlways == Spec => []MoneyInv
BY TypeCorrect, MoneyInductive, PTL DEF Spec

\* GS is only notified of payments PVS approved, whatever is duplicated, delayed,
\* raced, lost or crashes.
THEOREM NoticesArePaid == Spec => []NoNoticeWithoutMoney
<1>1. MoneyInv => NoNoticeWithoutMoney
  BY DEF MoneyInv
<1> QED BY <1>1, MoneyAlways, PTL

\* The machine polls "2", and an order is completed, only with a payment that PVS
\* approved and the bridge stored.
THEOREM DispensedIsPaid == Spec => []NeverDispenseUnpaid
<1>1. MoneyInv => NeverDispenseUnpaid
  <2>1. \A o \in ThirdOrderNos :
          ToGSStatus(orders[o].status) = 2 => orders[o].status \in {"PAYMENT_CONFIRMED", "DONE"}
    BY DEF ToGSStatus
  <2> QED BY <2>1 DEF MoneyInv, RowsKnowPayment, NeverDispenseUnpaid
<1> QED BY <1>1, MoneyAlways, PTL

\* PVS is only asked to give back money it has, however old the order is that the
\* refund read.
THEOREM ReversedIsPaid == Spec => []ReverseOnlyPaid
<1>1. TypeOK /\ MoneyInv => ReverseOnlyPaid
  BY DEF MoneyInv, RefundsKnowPayment, RowsKnowPayment, ReverseOnlyPaid, RefundIsAt, TypeOK
<1> QED BY <1>1, TypeCorrect, MoneyAlways, PTL
=============================================================================
