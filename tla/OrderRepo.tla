------------------------------ MODULE OrderRepo ------------------------------
(***************************************************************************)
(* The orders table and the statements the bridge runs on it.  Each SQL    *)
(* statement is one atomic step; what happens between two statements of a  *)
(* call is in the modules that use them.                                   *)
(*                                                                         *)
(* third_order_no is a fresh UUID of one CreateOrder call, so the serial   *)
(* (gs_order_no) that call carries is a function of it: GsOrderNo.         *)
(* Source: internal/store/order_repo.go, reconciler_store.go, migrations.  *)
(***************************************************************************)
EXTENDS OrderStatus, FiniteSets

CONSTANTS
  ThirdOrderNos,   \* the identifiers the bridge generates
  GsOrderNos,      \* the serials the vending machine generates
  GsOrderNo        \* the serial each third_order_no was generated for

ASSUME GsOrderNoAssumption == GsOrderNo \in [ThirdOrderNos -> GsOrderNos]

VARIABLE
  orders           \* the row of each third_order_no

Absent == "ABSENT"

\* Nullable columns, each NULL until an UPDATE sets it.  "pvs_qr" stands for
\* pvs_qr_id, pvs_qr_image, qr_generated_at and qr_expires_at, which the code
\* only sets together.
Columns == { "pvs_qr", "payment_confirmed_at", "gs_notified_at",
             "gs_completed_at", "gs_cancelled_at" }

\* due abstracts the clock to the comparison the scans make for the status of
\* the row: qr_expires_at < now for QR_SHOWN, updated_at older than 10 minutes
\* for REFUND_PENDING and older than notifyMinAge for PAYMENT_CONFIRMED.
Rows == [ status : OrderStatuses \cup {Absent},
          cols   : SUBSET Columns,
          due    : BOOLEAN ]

NoRow == [status |-> Absent, cols |-> {}, due |-> FALSE]

OrderRepoInit == orders = [o \in ThirdOrderNos |-> NoRow]

Exists(o) == orders[o].status /= Absent

HasColumn(o, col) == col \in orders[o].cols

\* Mutant: the unique index leaves out the rows that FAILED.
SerialIsFreeOnceFailed(o) ==
  \A other \in ThirdOrderNos :
    Exists(other) /\ orders[other].status /= "FAILED" => GsOrderNo[other] /= GsOrderNo[o]

\* The unique index idx_orders_gs_order_no accepts a row for o.
SerialIsFree(o) ==
  \A other \in ThirdOrderNos :
    Exists(other) => GsOrderNo[other] /= GsOrderNo[o]

Create(o) ==
  orders' = [orders EXCEPT ![o] = [status |-> "RECEIVED", cols |-> {}, due |-> FALSE]]

\* UPDATE ... SET status, updated_at, fields WHERE third_order_no = o.
UpdateStatusAndFields(o, status, fields) ==
  orders' = [orders EXCEPT ![o] = [status |-> status,
                                   cols   |-> orders[o].cols \cup fields,
                                   due    |-> FALSE]]

UpdateStatus(o, status) == UpdateStatusAndFields(o, status, {})

\* Mutant: the WHERE clause without AND status = expected.
UpdateWithoutGuard(o, expected, status, fields) == UpdateStatusAndFields(o, status, fields)

\* The same UPDATE with AND status = expected: zero rows when another call
\* changed the status first.
UpdateStatusGuardedAndFields(o, expected, status, fields) ==
  \/ /\ orders[o].status = expected
     /\ UpdateStatusAndFields(o, status, fields)
  \/ /\ orders[o].status /= expected
     /\ UNCHANGED orders

\* Mutant: the scan for stuck orders leaves out QR_SHOWN.
IsStuckRefund(o) == orders[o].status = "REFUND_PENDING" /\ orders[o].due

\* The WHERE clauses of the two scans of the reconciler.
IsStuck(o) == orders[o].status \in {"QR_SHOWN", "REFUND_PENDING"} /\ orders[o].due

IsUnnotified(o) ==
  orders[o].status = "PAYMENT_CONFIRMED" /\ ~HasColumn(o, "gs_notified_at")

\* Time passes for the row of o.  The clock of any other row is never read.
RowBecomesDue(o) ==
  /\ orders[o].status \in {"QR_SHOWN", "REFUND_PENDING"} \/ IsUnnotified(o)
  /\ ~orders[o].due
  /\ orders' = [orders EXCEPT ![o].due = TRUE]
=============================================================================
