------------------------------ MODULE MCLiveness ------------------------------
(* Instances of BridgeLiveness for TLC. *)
EXTENDS BridgeLiveness, TLC

CONSTANTS o1, o2, gs1, gs2, p1, p2, r1, r2, n1, n2, worker

\* Every third_order_no carries the same serial: retries of one CreateOrder.
OneSerial == [o \in ThirdOrderNos |-> gs1]

=============================================================================
