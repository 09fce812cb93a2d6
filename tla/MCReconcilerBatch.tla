-------------------------- MODULE MCReconcilerBatch --------------------------
(* Instances of ReconcilerBatch for TLC. *)
EXTENDS ReconcilerBatch

CONSTANTS o1, o2, o3
=============================================================================
