--------------------------- MODULE MCRefundAnswers ---------------------------
(* Instances of RefundAnswers for TLC. *)
EXTENDS RefundAnswers, TLC

CONSTANTS o1, gs1, p1, r1, r2, n1, a1, worker

OneSerial == [o \in ThirdOrderNos |-> gs1]

SymmetricRequests == Permutations(RefundRequests)
=============================================================================
