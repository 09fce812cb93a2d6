------------------------------- MODULE Amounts -------------------------------
(***************************************************************************)
(* The amount of a sale on its way through the bridge: the decimal string  *)
(* of the machine, parseMonto, orders.price_cents, the decimal string PVS  *)
(* charges and the ones the machine is told (order_service.go,             *)
(* refund_service.go, client.go).  A string with two decimals is the       *)
(* number of cents it shows.                                               *)
(*                                                                         *)
(* Floating point is modelled exactly.  A double has a significand of 53   *)
(* bits, so the one nearest to c/100 is m / 2^k, where 2^k is the power    *)
(* that brings c/100 * 2^k between 2^52 and 2^53 and m is that product     *)
(* rounded.                                                                *)
(***************************************************************************)
EXTENDS Integers

CONSTANTS
  MaxCents,        \* the highest price of the machine
  OtherAmounts     \* what the machine may ask back besides the price and what it was told

\* The exponents of doubles are enumerated up to 23, the whole model up to there.
ASSUME AmountAssumption ==
  MaxCents \in 1..(2^24 - 1) /\ OtherAmounts \subseteq 0..(2^24 - 1)

VARIABLES
  step,            \* what has been done with the sale
  price,           \* the amount the machine asks for
  stored,          \* orders.price_cents
  charged,         \* the amount of the QR, which PVS charges
  told,            \* totalAmount of the notice and of the refund answers
  asked,           \* the amount the machine asks back
  refund,          \* refunds.price_cents, the refundAmount of the answers
  returned         \* what PVS returns to the customer

vars == <<step, price, stored, charged, told, asked, refund, returned>>

Steps == {"asked", "rejected", "created", "charged", "told", "refunded"}
-----------------------------------------------------------------------------
(* parseMonto *)

\* num / den is between 2^(e - 7) and the next power of two; every price is above 2^-7.
IsExponent(e, num, den) ==
  /\ den * 2^e <= 128 * num
  /\ 128 * num < den * 2^(e + 1)

\* The exponent of num / den as a double.
Exponent(num, den) == (CHOOSE e \in 0..30 : IsExponent(e, num, den)) - 7

\* 2^k % 100 for k >= 2: it has a period of 20, and 2^k itself is too large for TLC.
PowerOfTwoMod100(k) == (2^(2 + ((k - 2) % 20))) % 100

Scale(c) == 52 - Exponent(c, 100)

\* c/100 * 2^k is above the nearest integer by this many hundredths.  (Never half:
\* c * 2^k is a multiple of four.)
Excess(c) ==
  LET r == (c * PowerOfTwoMod100(Scale(c))) % 100
  IN  IF r < 50 THEN r ELSE r - 100

\* f * 100 is c - Excess / 2^k before it is rounded.  It rounds to c unless it is
\* more than half the distance of c to the double below it.
ProductIsBelow(c) ==
  LET gap == Exponent(c, 1) - Exponent(c, 100)
  IN  Excess(c) > IF c = 2^Exponent(c, 1) THEN 2^(gap - 2) ELSE 2^(gap - 1)

\* Mutant: int64(f) * 100.
WholeUnits(c) == (c \div 100) * 100

\* ParseFloat and int64(f * 100), which truncates.
parseMonto(c) == IF c = 0 THEN 0 ELSE IF ProductIsBelow(c) THEN c - 1 ELSE c

\* Mutant: the conversion back to cents truncates as well.
TruncatedDecimal(cents) == parseMonto(cents)

\* 100 * (m / 2^k) is cents - Excess / 2^k; this is Excess / 2^k to the nearest
\* integer, with 2^20 for 2^k, which is above it (TLC's integers have 32 bits).
RoundedExcess(cents) == (2 * Excess(cents) + 2^20) \div 2^21

\* Sprintf("%.2f", float64(cents)/100), which rounds; read back as cents.
MontoDecimal(cents) == cents - RoundedExcess(cents)

\* Sprintf("%d.%02d", cents/100, cents%100), read back as cents.
TotalAmount(cents) == (cents \div 100) * 100 + (cents % 100)
-----------------------------------------------------------------------------
Init ==
  /\ step = "asked"
  /\ price \in 0..MaxCents
  /\ stored = 0 /\ charged = 0 /\ told = 0
  /\ asked = 0 /\ refund = 0 /\ returned = 0

\* ErrInvalidAmount.
RejectOrder ==
  /\ step = "asked"
  /\ parseMonto(price) <= 0
  /\ step' = "rejected"
  /\ UNCHANGED <<price, stored, charged, told, asked, refund, returned>>

CreateOrder ==
  /\ step = "asked"
  /\ parseMonto(price) > 0
  /\ stored' = parseMonto(price)
  /\ step' = "created"
  /\ UNCHANGED <<price, charged, told, asked, refund, returned>>

GenerateQR ==
  /\ step = "created"
  /\ charged' = MontoDecimal(stored)
  /\ step' = "charged"
  /\ UNCHANGED <<price, stored, told, asked, refund, returned>>

NotifyPayment ==
  /\ step = "charged"
  /\ told' = TotalAmount(stored)
  /\ step' = "told"
  /\ UNCHANGED <<price, stored, charged, asked, refund, returned>>

\* Mutant: the amount of a refund is not truncated.
RefundExactly(amount) ==
  /\ step = "told"
  /\ parseMonto(amount) > 0
  /\ asked' = amount
  /\ refund' = amount
  /\ returned' = charged
  /\ step' = "refunded"
  /\ UNCHANGED <<price, stored, charged, told>>

\* Any positive amount is accepted, and not compared with the price.  Reverse names
\* only the QR, and PVS returns what it charged.
Refund(amount) ==
  /\ step = "told"
  /\ parseMonto(amount) > 0
  /\ asked' = amount
  /\ refund' = parseMonto(amount)
  /\ returned' = charged
  /\ step' = "refunded"
  /\ UNCHANGED <<price, stored, charged, told>>

Next ==
  \/ RejectOrder \/ CreateOrder \/ GenerateQR \/ NotifyPayment
  \/ \E amount \in {price, told} \cup OtherAmounts : Refund(amount)

Spec == Init /\ [][Next]_vars
-----------------------------------------------------------------------------
\* Truncation of a product of doubles costs the sale at most one cent, for every
\* price: the order is never stored with more than the machine asked for.
AtMostACentIsLost ==
  step \notin {"asked", "rejected"} => stored \in {price - 1, price}

\* What the customer is charged is what the machine is told, although one is
\* printed from a double and the other from the integer.
ChargedAsTold == step \in {"told", "refunded"} => charged = told

\* A machine that asks its price back is answered the amount PVS returns: a cent the
\* sale lost is lost on the way back too.  One that asks back what it was told may
\* lose a cent again.  Nothing is said of any other amount: the answer then repeats
\* it, whatever PVS returns.
WholeRefundIsReturned ==
  step = "refunded" =>
    /\ asked = price => refund = returned
    /\ asked = told => refund \in {returned - 1, returned}
=============================================================================
