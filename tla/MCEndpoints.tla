----------------------------- MODULE MCEndpoints -----------------------------
(* Instances of Endpoints for TLC. *)
EXTENDS Endpoints, TLC

CONSTANTS o1, o2, gs1, p1, p2, worker

OneSerial == [o \in ThirdOrderNos |-> gs1]

SymmetricCallers == Permutations(Requests)
=============================================================================
