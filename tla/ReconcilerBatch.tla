--------------------------- MODULE ReconcilerBatch ---------------------------
(***************************************************************************)
(* The limit of the reconciler's reads: a pass handles at most batchSize   *)
(* stuck orders and at most batchSize payments GS has not acknowledged,    *)
(* those with the oldest updated_at first (reconciler.go, ScanStuckOrders, *)
(* ListPaymentConfirmedUnnotified).  An order that cannot be corrected     *)
(* keeps its updated_at, and with it its place at the front.               *)
(*                                                                         *)
(* Asking PVS and the guarded update, or the notice and its mark, are one  *)
(* step here; what happens between them is the subject of Bridge.          *)
(***************************************************************************)
EXTENDS Naturals, Sequences

CONSTANTS
  Orders,      \* orders; one that left both lists stands for any later sale
  BatchSize,   \* LIMIT of both reads (200)
  Hopeless     \* orders no pass can correct: QueryStatus always fails, PVS never
               \* reverses, or GS never acknowledges

ASSUME BatchAssumption == BatchSize \in Nat \ {0} /\ Hopeless \subseteq Orders

VARIABLES
  status,      \* the status of each order, as far as the two reads tell it apart
  byAge,       \* the orders of either read, ordered by updated_at ascending
  due,         \* the QR expired, or updated_at is 10 minutes or notifyMinAge old
  phase,       \* what the pass is doing
  batch        \* the copies the current loop has still to handle, in order

vars == <<status, byAge, due, phase, batch>>

\* OTHER: every status neither read selects, and a payment GS has acknowledged.
Statuses == {"OTHER", "QR_SHOWN", "REFUND_PENDING", "PAYMENT_CONFIRMED"}

Init ==
  /\ status = [o \in Orders |-> "OTHER"]
  /\ byAge = << >>
  /\ due = {}
  /\ phase = "waiting"
  /\ batch = << >>

Least(m, n) == IF m < n THEN m ELSE n

Without(o) == SelectSeq(byAge, LAMBDA x : x /= o)

\* An UPDATE of o, which sets updated_at.
Write(o, s) ==
  /\ status' = [status EXCEPT ![o] = s]
  /\ byAge' = IF s = "OTHER" THEN Without(o) ELSE Append(Without(o), o)
  /\ due' = due \ {o}

\* What callbacks, refunds and requests of GS make of an order.
Writes(s) ==
  CASE s = "OTHER"             -> {"QR_SHOWN", "REFUND_PENDING"}
    [] s = "QR_SHOWN"          -> {"OTHER", "PAYMENT_CONFIRMED", "REFUND_PENDING"}
    [] s = "PAYMENT_CONFIRMED" -> {"OTHER", "REFUND_PENDING"}
    [] s = "REFUND_PENDING"    -> {"OTHER"}

InBatch(o) == \E i \in DOMAIN batch : batch[i].ord = o

\* A handler writes o; a new sale takes the place of an order no copy is left of.  A
\* second refund writes REFUND_PENDING again, which renews updated_at.
HandlerWrites(o, s) ==
  /\ s \in Writes(status[o]) \/ (s = "REFUND_PENDING" /\ status[o] = s)
  /\ status[o] = "OTHER" => ~InBatch(o)
  /\ Write(o, s)
  /\ UNCHANGED <<phase, batch>>

TimePasses(o) ==
  /\ status[o] /= "OTHER"
  /\ o \notin due
  /\ due' = due \cup {o}
  /\ UNCHANGED <<status, byAge, phase, batch>>
-----------------------------------------------------------------------------
(* The two reads and the loops over them *)

\* Mutant: ORDER BY updated_at DESC.
NewestFirst(S) ==
  LET all == SelectSeq(byAge, LAMBDA o : o \in S)
      n   == Len(all)
  IN  [i \in 1..Least(n, BatchSize) |-> [ord |-> all[n + 1 - i], status |-> status[all[n + 1 - i]]]]

\* ORDER BY updated_at ASC LIMIT batchSize, copied.
OldestFirst(S) ==
  LET all == SelectSeq(byAge, LAMBDA o : o \in S)
  IN  [i \in 1..Least(Len(all), BatchSize) |-> [ord |-> all[i], status |-> status[all[i]]]]

Stuck == {o \in Orders : status[o] \in {"QR_SHOWN", "REFUND_PENDING"} /\ o \in due}

\* The query does not look at the age of a payment, the loop does.
Unnotified == {o \in Orders : status[o] = "PAYMENT_CONFIRMED"}

Scan ==
  /\ phase = "waiting"
  /\ phase' = "stuck"
  /\ batch' = OldestFirst(Stuck)
  /\ UNCHANGED <<status, byAge, due>>

ListUnnotified ==
  /\ phase = "stuck" /\ batch = << >>
  /\ phase' = "unnotified"
  /\ batch' = OldestFirst(Unnotified)
  /\ UNCHANGED <<status, byAge, due>>

\* The second read fails: the pass ends.
ListFails ==
  /\ phase = "stuck" /\ batch = << >>
  /\ phase' = "waiting"
  /\ UNCHANGED <<status, byAge, due, batch>>

EndPass ==
  /\ phase = "unnotified" /\ batch = << >>
  /\ phase' = "waiting"
  /\ UNCHANGED <<status, byAge, due, batch>>

HasTurn(o) == batch /= << >> /\ Head(batch).ord = o

Unchanged(o) == status[o] = Head(batch).status

\* PVS decides the order and the guarded update finds it as it was copied.
Corrects(o) ==
  /\ phase = "stuck" /\ HasTurn(o)
  /\ o \notin Hopeless /\ Unchanged(o)
  /\ \E s \in Writes(status[o]) : Write(o, s)
  /\ batch' = Tail(batch)
  /\ UNCHANGED phase

\* GS acknowledges a notice that is old enough to be sent.
Notifies(o) ==
  /\ phase = "unnotified" /\ HasTurn(o)
  /\ o \notin Hopeless /\ Unchanged(o) /\ o \in due
  /\ Write(o, "OTHER")
  /\ batch' = Tail(batch)
  /\ UNCHANGED phase

\* Mutant: an error ends the loop.
GivesUp(o) ==
  /\ HasTurn(o)
  /\ batch' = << >>
  /\ UNCHANGED <<status, byAge, due, phase>>

\* An error, a stateId without a correction, an order written since it was copied,
\* or a payment too young to notify: the loop goes on with the next copy.
Skips(o) ==
  /\ HasTurn(o)
  /\ batch' = Tail(batch)
  /\ UNCHANGED <<status, byAge, due, phase>>

Turn(o) == Corrects(o) \/ Notifies(o) \/ Skips(o)

Next ==
  \/ \E o \in Orders : TimePasses(o) \/ \E s \in Statuses : HandlerWrites(o, s)
  \/ Scan \/ ListUnnotified \/ ListFails \/ EndPass
  \/ \E o \in Orders : Turn(o)

Spec == Init /\ [][Next]_vars

\* Time passes, the ticker fires and the loops go on; neither read fails for ever;
\* and an order that can be corrected is, once it has had its turn often enough.
Fairness ==
  /\ WF_vars(Scan) /\ SF_vars(ListUnnotified) /\ WF_vars(EndPass)
  /\ \A o \in Orders :
       /\ WF_vars(TimePasses(o))
       /\ WF_vars(Turn(o))
       /\ SF_vars(Corrects(o))
       /\ SF_vars(Notifies(o))

FairSpec == Spec /\ Fairness
-----------------------------------------------------------------------------
Waits(o, s) == status[o] = s /\ o \in due

\* A stuck order is corrected however many sales keep coming and whatever orders
\* wait for ever in front of it, if those are fewer than the batch.
StuckOrdersGetTheirTurn ==
  \A o \in Orders \ Hopeless :
    /\ Waits(o, "QR_SHOWN") ~> ~Waits(o, "QR_SHOWN")
    /\ Waits(o, "REFUND_PENDING") ~> ~Waits(o, "REFUND_PENDING")

\* So is a payment GS has not acknowledged: neither the stuck orders that come
\* first in a pass nor the notices that fail hold it up.
PaymentsGetTheirTurn ==
  \A o \in Orders \ Hopeless :
    Waits(o, "PAYMENT_CONFIRMED") ~> ~Waits(o, "PAYMENT_CONFIRMED")
=============================================================================
