----------------------------- MODULE SalePromise -----------------------------
(***************************************************************************)
(* What the bridge promises the machine and the customer about one sale,   *)
(* told without orders, callbacks, copies or retries.  A sale is what one  *)
(* serial of the machine stands for; the machine sees its answer, and the  *)
(* customer's money is at PVS.                                             *)
(***************************************************************************)
CONSTANT Sales

VARIABLES
  money,      \* the customer's payment of each sale, as PVS has it
  booked,     \* the sales whose payment the bridge has recorded
  answer,     \* what POST /order/status answers
  refunded,   \* the sales POST /order/refundStatus answers "success" for
  told        \* the sales the machine was notified as paid

saleVars == <<money, booked, answer, refunded, told>>

Money == {"none", "asked", "taken", "refused", "returned"}

\* "1" to "6" of the contract with GS, and no answer before there is an order.
Answers == {"none", "pending", "paid", "failed", "refunding", "refunded", "timeout"}

Init ==
  /\ money = [s \in Sales |-> "none"]
  /\ booked = {}
  /\ answer = [s \in Sales |-> "none"]
  /\ refunded = {}
  /\ told = {}

WasTaken(s) == money[s] \in {"taken", "returned"}

Open(s) ==
  /\ answer[s] = "none"
  /\ answer' = [answer EXCEPT ![s] = "pending"]
  /\ UNCHANGED <<money, booked, refunded, told>>

\* The customer is asked for money once, and it moves once in each direction.
MoneyMoves(s, from, to) ==
  /\ money[s] = from
  /\ money' = [money EXCEPT ![s] = to]
  /\ UNCHANGED <<booked, answer, refunded, told>>

\* A payment is recorded, and answered as paid, while the sale is pending.
Book(s) ==
  /\ WasTaken(s)
  /\ answer[s] = "pending" /\ s \notin booked
  /\ booked' = booked \cup {s}
  /\ answer' = [answer EXCEPT ![s] = "paid"]
  /\ UNCHANGED <<money, refunded, told>>

\* The machine is told of a payment, before or after it is recorded.
Tell(s) ==
  /\ WasTaken(s)
  /\ told' = told \cup {s}
  /\ UNCHANGED <<money, booked, answer, refunded>>

\* The sale goes on: never "paid" without a recorded payment, never unpaid with
\* one, and once timed out it stays so or fails.  A refund is a success only when
\* the customer has the money.
Settle(s, a) ==
  /\ answer[s] /= "none" /\ a /= "none"
  /\ a = "paid" => s \in booked
  /\ a \in {"pending", "timeout"} => s \notin booked
  /\ answer[s] = "timeout" => a \in {"timeout", "failed"}
  /\ answer' = [answer EXCEPT ![s] = a]
  /\ \/ refunded' = refunded \ {s}
     \/ a = "refunded" /\ money[s] = "returned" /\ refunded' = refunded \cup {s}
  /\ UNCHANGED <<money, booked, told>>

Next ==
  \E s \in Sales :
    \/ Open(s)
    \/ answer[s] /= "none" /\ MoneyMoves(s, "none", "asked")
    \/ MoneyMoves(s, "asked", "taken")
    \/ MoneyMoves(s, "asked", "refused")
    \/ MoneyMoves(s, "taken", "returned")
    \/ Book(s)
    \/ Tell(s)
    \/ \E a \in Answers : Settle(s, a)

Spec == Init /\ [][Next]_saleVars
=============================================================================
