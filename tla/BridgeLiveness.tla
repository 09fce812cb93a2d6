---------------------------- MODULE BridgeLiveness ----------------------------
(***************************************************************************)
(* What the reconciler promises when it runs (RECONCILER_ENABLED): orders  *)
(* whose callback or notice was lost do not stay where they are.           *)
(***************************************************************************)
EXTENDS Bridge

\* Time passes, PVS carries out the reversals it accepted, and no handler stays in a
\* request to GS or PVS for ever.  The clients of GS and PVS have a timeout; that the
\* OAuth server answers, or refuses, is assumed: that request has none, nor has the
\* context of the reconciler.
EnvironmentFairness ==
  /\ \A o \in ThirdOrderNos :
       /\ WF_vars(TimePasses(o))
       /\ WF_vars(o \in reverseRequested /\ Reversed(o))
  /\ \A p \in Requests : WF_vars(~IsAt(p, "idle") /\ Handler(p))

WorkerStep(A) == A /\ UNCHANGED <<refundVars, reconcilerVars>>

\* GS answers "success".
NoticeSucceeds(p) == NotifyPayment(p) /\ calls'[p].pc = "mark"

\* The ticker fires and the loops go on (Run, scan).  A step that needs PVS, GS
\* or the database may fail, or the process die, any number of times; but each is
\* tried again on a later pass, and not all of the tries fail.
WorkerFairness ==
  /\ SF_vars(Scan)
  /\ SF_vars(ListUnnotified)
  /\ SF_vars(EndPass)
  /\ \A o \in ThirdOrderNos :
       /\ SF_vars(\E s \in batch : s.ord = o /\ Reconcile(s))
       /\ SF_vars(\E s \in batch : s.ord = o /\ s.due /\ RetryNotify(s))
       /\ SF_vars(Order(Worker) = o /\ WorkerStep(GuardedUpdate(Worker)))
       /\ SF_vars(Order(Worker) = o /\ WorkerStep(NoticeSucceeds(Worker)))
       /\ SF_vars(Order(Worker) = o /\ WorkerStep(MarkNotified(Worker)))

FairSpec == Spec /\ EnvironmentFairness /\ WorkerFairness

\* An order whose callback was lost leaves QR_SHOWN after its QR expired.
ExpiredOrdersAreDecided ==
  \A o \in ThirdOrderNos : orders[o].status = "QR_SHOWN" ~> orders[o].status /= "QR_SHOWN"

\* A payment GS was not told of, or did not acknowledge, is notified until GS
\* does, unless the order goes on without it (completed, cancelled, refunded).
PaymentsAreNotified == \A o \in ThirdOrderNos : IsUnnotified(o) ~> ~IsUnnotified(o)

\* A refund PVS accepted is confirmed even if its callback is lost.
RefundsAreConfirmed ==
  \A o \in ThirdOrderNos :
    orders[o].status = "REFUND_PENDING" ~> orders[o].status /= "REFUND_PENDING"
=============================================================================
