------------------------------ MODULE Reconciler ------------------------------
(***************************************************************************)
(* The background worker (reconciler.go).  A pass reads the stuck orders,  *)
(* asks PVS about each and corrects it with a guarded update; then it      *)
(* lists the paid orders GS has not acknowledged and notifies each again.  *)
(* Both lists are copies of the rows, used one at a time as the pass goes  *)
(* on.  LIMIT batchSize (200) is taken to be above the number of rows.     *)
(***************************************************************************)
EXTENDS RefundService

VARIABLES
  phase,   \* what the worker is doing: waiting for the tick, or one of two loops
  batch    \* the copies of rows the current loop has still to handle

refundVars == <<refunds, rcalls>>
reconcilerVars == <<phase, batch>>

Phases == {"waiting", "stuck", "unnotified"}

\* What the loops use of a copied row; due is whether updated_at of the COPY is
\* older than notifyMinAge when the copy is reached.
Snapshots == [ord : ThirdOrderNos, status : OrderStatuses, due : BOOLEAN]

Snapshot(o) == [ord |-> o, status |-> orders[o].status, due |-> orders[o].due]

ReconcilerInit == phase = "waiting" /\ batch = {}

WorkerIsFree == IsAt(Worker, "idle")

\* A tick: ScanStuckOrders succeeds (if it fails the pass ends, unchanged).
Scan ==
  /\ phase = "waiting"
  /\ phase' = "stuck"
  /\ batch' = {Snapshot(o) : o \in {x \in ThirdOrderNos : IsStuck(x)}}
  /\ UNCHANGED <<serviceVars, refundVars>>

\* Mutant: the meanings of stateId 5 and 6 are swapped.
CorrectionSwapped(status, pvs) ==
  CASE status = "QR_SHOWN" /\ pvs = "IN_PROCESS" -> "PAYMENT_CONFIRMED"
    [] status = "QR_SHOWN" /\ pvs = "APPROVED"   -> "TIMEOUT"
    [] OTHER                                     -> NoStatus

\* Mutant: an approved payment is taken for a completed refund.
CorrectionTooEarly(status, pvs) ==
  CASE status = "QR_SHOWN" /\ pvs = "APPROVED"       -> "PAYMENT_CONFIRMED"
    [] status = "REFUND_PENDING" /\ pvs = "APPROVED" -> "REFUNDED"
    [] OTHER                                         -> NoStatus

\* Mutant: refunds are left to the callback.
CorrectionOfQRsOnly(status, pvs) ==
  CASE status = "QR_SHOWN" /\ pvs = "IN_PROCESS" -> "TIMEOUT"
    [] status = "QR_SHOWN" /\ pvs = "APPROVED"   -> "PAYMENT_CONFIRMED"
    [] status = "QR_SHOWN" /\ pvs = "REJECTED"   -> "FAILED"
    [] status = "QR_SHOWN" /\ pvs = "REVERSED"   -> "REFUND_PENDING"
    [] OTHER                                     -> NoStatus

\* The correction for a copy, given the state PVS answers (stateId 6, 5, 3, 4).
Correction(status, pvs) ==
  CASE status = "QR_SHOWN" /\ pvs = "IN_PROCESS" -> "TIMEOUT"
    [] status = "QR_SHOWN" /\ pvs = "APPROVED"   -> "PAYMENT_CONFIRMED"
    [] status = "QR_SHOWN" /\ pvs = "REJECTED"   -> "FAILED"
    [] status = "QR_SHOWN" /\ pvs = "REVERSED"   -> "REFUND_PENDING"
    [] status = "REFUND_PENDING" /\ pvs = "REVERSED" -> "REFUNDED"
    [] OTHER                                     -> NoStatus

\* PVS answers the query about s; the guarded update comes next if it calls
\* for one.
Reconcile(s) ==
  LET to == Correction(s.status, qr[s.ord])
  IN  /\ phase = "stuck" /\ WorkerIsFree
      /\ batch' = batch \ {s}
      /\ Becomes(Worker, IF to = NoStatus THEN Idle
                         ELSE [pc |-> "guarded", ord |-> s.ord, seen |-> s.status, to |-> to])
      /\ UNCHANGED <<orders, qr, reverseRequested, told, refundVars, phase>>

\* QueryStatus fails and s is left for the next pass.
QueryFails(s) ==
  /\ phase = "stuck" /\ WorkerIsFree
  /\ batch' = batch \ {s}
  /\ UNCHANGED <<serviceVars, refundVars, phase>>

ListUnnotified ==
  /\ phase = "stuck" /\ batch = {} /\ WorkerIsFree
  /\ phase' = "unnotified"
  /\ batch' = {Snapshot(o) : o \in {x \in ThirdOrderNos : IsUnnotified(x)}}
  /\ UNCHANGED <<serviceVars, refundVars>>

\* Mutant: copies younger than notifyMinAge are notified too.
RetryAnyNotify(s) ==
  /\ phase = "unnotified" /\ WorkerIsFree
  /\ batch' = batch \ {s}
  /\ Becomes(Worker, At("notify", s.ord))
  /\ UNCHANGED <<orders, qr, reverseRequested, told, refundVars, phase>>

\* Only copies older than notifyMinAge are notified.
RetryNotify(s) ==
  /\ phase = "unnotified" /\ WorkerIsFree
  /\ batch' = batch \ {s}
  /\ Becomes(Worker, IF s.due THEN At("notify", s.ord) ELSE Idle)
  /\ UNCHANGED <<orders, qr, reverseRequested, told, refundVars, phase>>

\* Time passes between the listing and the turn of s.
SnapshotBecomesDue(s) ==
  /\ phase = "unnotified"
  /\ ~s.due
  /\ batch' = (batch \ {s}) \cup {[s EXCEPT !.due = TRUE]}
  /\ UNCHANGED <<serviceVars, refundVars, phase>>

\* RecordRun, whether it succeeds or not; and a ListUnnotified that failed.
EndPass ==
  /\ phase \in {"stuck", "unnotified"} /\ batch = {} /\ WorkerIsFree
  /\ phase' = "waiting"
  /\ UNCHANGED <<serviceVars, refundVars, batch>>

\* The process dies or shuts down in the middle of a pass.
StopWorker ==
  /\ phase /= "waiting"
  /\ phase' = "waiting" /\ batch' = {}
  /\ Becomes(Worker, Idle)
  /\ UNCHANGED <<orders, qr, reverseRequested, told, refundVars>>

ReconcilerNext ==
  \/ Scan
  \/ ListUnnotified
  \/ \E s \in batch : Reconcile(s) \/ QueryFails(s) \/ RetryNotify(s)
  \/ EndPass
  \/ StopWorker
=============================================================================
