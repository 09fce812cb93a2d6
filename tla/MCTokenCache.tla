----------------------------- MODULE MCTokenCache -----------------------------
(* Instances of TokenCache for TLC. *)
EXTENDS TokenCache

CONSTANTS c1, c2, t1, t2, t3
=============================================================================
