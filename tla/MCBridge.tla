------------------------------- MODULE MCBridge -------------------------------
(* Instances of Bridge for TLC. *)
EXTENDS BridgeRefinement, TLC

CONSTANTS o1, o2, gs1, gs2, p1, p2, r1, r2, n1, n2, worker

\* Every third_order_no carries the same serial: retries of one CreateOrder.
OneSerial == [o \in ThirdOrderNos |-> gs1]

\* Two sales of the machine.
TwoSerials == [o \in ThirdOrderNos |-> IF o = o1 THEN gs1 ELSE gs2]

SymmetricCallers == Permutations(Requests) \cup Permutations(RefundRequests)
                      \cup Permutations(RefundNos)
=============================================================================
