------------------------------- MODULE MCClaims -------------------------------
(* Instances of BridgeClaims for TLC. *)
EXTENDS BridgeClaims, TLC

CONSTANTS o1, o2, gs1, gs2, p1, p2, r1, r2, n1, n2, worker

OneSerial == [o \in ThirdOrderNos |-> gs1]

SymmetricCallers == Permutations(Requests) \cup Permutations(RefundRequests)
                      \cup Permutations(RefundNos)
=============================================================================
