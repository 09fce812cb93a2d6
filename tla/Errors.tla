------------------------------- MODULE Errors -------------------------------
(***************************************************************************)
(* The errors a request to the bridge ends with and the HTTP status GS or  *)
(* PVS is answered for each: mapearError of the PVS client and writeError  *)
(* of the handlers.                                                        *)
(***************************************************************************)
EXTENDS Naturals

PVSBusinessError(status) == [kind |-> "PVSBusinessError", status |-> status]

\* One of the errors of domain/errors.go, or any other: "internal".
Err(kind) == [kind |-> kind, status |-> 0]

\* What the client makes of an answer of PVS that is not 2xx; 0 is no answer or
\* one it cannot read.
mapearError(status) ==
  IF status \in 400..499 THEN PVSBusinessError(status) ELSE Err("internal")

writeError(err) ==
  CASE err.kind = "PVSBusinessError" -> err.status
    [] err.kind \in {"ErrOrderNotFound", "ErrRefundNotFound"} -> 404
    [] err.kind \in {"ErrOrderNotRefundable", "ErrOrderNotCancellable", "ErrInvalidTransition"} -> 409
    [] err.kind \in {"ErrInvalidInput", "ErrInvalidAmount"} -> 400
    [] OTHER -> 500
=============================================================================
