----------------------------- MODULE AmountProofs -----------------------------
(***************************************************************************)
(* No price loses more than a cent between the machine and PVS, and none   *)
(* is charged differently from what the machine is told, and one asked     *)
(* back whole is answered as what PVS returns: for every price of up to    *)
(* 2^24 - 1 cents, the range of the model of doubles.                      *)
(***************************************************************************)
EXTENDS Amounts, TLAPS

\* Every price has an exponent among those Exponent chooses from.
LEMMA ExponentExists ==
  ASSUME NEW c \in 1..(2^24 - 1)
  PROVE  \E e \in 0..24 : IsExponent(e, c, 100)
<1>1. c \in Int /\ 1 <= c /\ c < 26214400
  BY SMT
<1>2. 1 <= c /\ c < 2 => IsExponent(0, c, 100)
  BY <1>1, SMT DEF IsExponent
<1>3. 2 <= c /\ c < 4 => IsExponent(1, c, 100)
  BY <1>1, SMT DEF IsExponent
<1>4. 4 <= c /\ c < 7 => IsExponent(2, c, 100)
  BY <1>1, SMT DEF IsExponent
<1>5. 7 <= c /\ c < 13 => IsExponent(3, c, 100)
  BY <1>1, SMT DEF IsExponent
<1>6. 13 <= c /\ c < 25 => IsExponent(4, c, 100)
  BY <1>1, SMT DEF IsExponent
<1>7. 25 <= c /\ c < 50 => IsExponent(5, c, 100)
  BY <1>1, SMT DEF IsExponent
<1>8. 50 <= c /\ c < 100 => IsExponent(6, c, 100)
  BY <1>1, SMT DEF IsExponent
<1>9. 100 <= c /\ c < 200 => IsExponent(7, c, 100)
  BY <1>1, SMT DEF IsExponent
<1>10. 200 <= c /\ c < 400 => IsExponent(8, c, 100)
  BY <1>1, SMT DEF IsExponent
<1>11. 400 <= c /\ c < 800 => IsExponent(9, c, 100)
  BY <1>1, SMT DEF IsExponent
<1>12. 800 <= c /\ c < 1600 => IsExponent(10, c, 100)
  BY <1>1, SMT DEF IsExponent
<1>13. 1600 <= c /\ c < 3200 => IsExponent(11, c, 100)
  BY <1>1, SMT DEF IsExponent
<1>14. 3200 <= c /\ c < 6400 => IsExponent(12, c, 100)
  BY <1>1, SMT DEF IsExponent
<1>15. 6400 <= c /\ c < 12800 => IsExponent(13, c, 100)
  BY <1>1, SMT DEF IsExponent
<1>16. 12800 <= c /\ c < 25600 => IsExponent(14, c, 100)
  BY <1>1, SMT DEF IsExponent
<1>17. 25600 <= c /\ c < 51200 => IsExponent(15, c, 100)
  BY <1>1, SMT DEF IsExponent
<1>18. 51200 <= c /\ c < 102400 => IsExponent(16, c, 100)
  BY <1>1, SMT DEF IsExponent
<1>19. 102400 <= c /\ c < 204800 => IsExponent(17, c, 100)
  BY <1>1, SMT DEF IsExponent
<1>20. 204800 <= c /\ c < 409600 => IsExponent(18, c, 100)
  BY <1>1, SMT DEF IsExponent
<1>21. 409600 <= c /\ c < 819200 => IsExponent(19, c, 100)
  BY <1>1, SMT DEF IsExponent
<1>22. 819200 <= c /\ c < 1638400 => IsExponent(20, c, 100)
  BY <1>1, SMT DEF IsExponent
<1>23. 1638400 <= c /\ c < 3276800 => IsExponent(21, c, 100)
  BY <1>1, SMT DEF IsExponent
<1>24. 3276800 <= c /\ c < 6553600 => IsExponent(22, c, 100)
  BY <1>1, SMT DEF IsExponent
<1>25. 6553600 <= c /\ c < 13107200 => IsExponent(23, c, 100)
  BY <1>1, SMT DEF IsExponent
<1>26. 13107200 <= c /\ c < 26214400 => IsExponent(24, c, 100)
  BY <1>1, SMT DEF IsExponent
<1> QED
  BY SMT, <1>1, <1>2, <1>3, <1>4, <1>5, <1>6, <1>7, <1>8, <1>9, <1>10, <1>11, <1>12, <1>13,
     <1>14, <1>15, <1>16, <1>17, <1>18, <1>19, <1>20, <1>21, <1>22, <1>23, <1>24, <1>25, <1>26

\* The powers of two that PowerOfTwoMod100 takes the rest of are integers.
LEMMA SmallPowers == \A n \in 2..21 : 2^n \in Nat
<1>1. \A n \in 2..21 : \/ n = 2 \/ n = 3 \/ n = 4 \/ n = 5 \/ n = 6 \/ n = 7 \/ n = 8
                        \/ n = 9 \/ n = 10 \/ n = 11 \/ n = 12 \/ n = 13 \/ n = 14
                        \/ n = 15 \/ n = 16 \/ n = 17 \/ n = 18 \/ n = 19 \/ n = 20 \/ n = 21
  OBVIOUS
<1>2. /\ 2^2 \in Nat /\ 2^3 \in Nat /\ 2^4 \in Nat /\ 2^5 \in Nat /\ 2^6 \in Nat /\ 2^7 \in Nat
      /\ 2^8 \in Nat /\ 2^9 \in Nat /\ 2^10 \in Nat /\ 2^11 \in Nat /\ 2^12 \in Nat
      /\ 2^13 \in Nat /\ 2^14 \in Nat /\ 2^15 \in Nat /\ 2^16 \in Nat /\ 2^17 \in Nat
      /\ 2^18 \in Nat /\ 2^19 \in Nat /\ 2^20 \in Nat /\ 2^21 \in Nat
  OBVIOUS
<1> QED BY <1>1, <1>2

\* The error of c/100 as a double is at most half a unit of its last place.
LEMMA ExcessBounds ==
  ASSUME NEW c \in 1..(2^24 - 1)
  PROVE  Excess(c) \in -50..49
<1>1. Exponent(c, 100) \in -7..23
  <2>1. \E e \in 0..30 : IsExponent(e, c, 100)
    <3>1. \E e \in 0..24 : IsExponent(e, c, 100)
      BY ExponentExists
    <3>2. \A e \in 0..24 : e \in 0..30
      OBVIOUS
    <3> QED BY <3>1, <3>2
  <2>2. (CHOOSE e \in 0..30 : IsExponent(e, c, 100)) \in 0..30
    BY <2>1
  <2> QED BY <2>2 DEF Exponent
<1>2. PowerOfTwoMod100(Scale(c)) \in 0..99
  <2>1. Scale(c) - 2 \in Nat
    BY <1>1 DEF Scale
  <2>2. 2 + ((Scale(c) - 2) % 20) \in 2..21
    BY <2>1
  <2>3. \A m \in Nat : m % 100 \in 0..99
    OBVIOUS
  <2> QED BY <2>2, <2>3, SmallPowers DEF PowerOfTwoMod100
<1>3. \A p \in 0..99 : (c * p) % 100 \in 0..99
  <2> SUFFICES ASSUME NEW p \in 0..99 PROVE (c * p) % 100 \in 0..99
    OBVIOUS
  <2>1. c * p \in Nat
    OBVIOUS
  <2>2. \A m \in Nat : m % 100 \in 0..99
    OBVIOUS
  <2> QED BY <2>1, <2>2
<1>4. (c * PowerOfTwoMod100(Scale(c))) % 100 \in 0..99
  BY <1>2, <1>3
<1> QED BY <1>4 DEF Excess

\* Sprintf("%.2f") of a price in cents as a double gives the price back.
LEMMA PrintedExactly == \A c \in 1..(2^24 - 1) : MontoDecimal(c) = c
<1> SUFFICES ASSUME NEW c \in 1..(2^24 - 1) PROVE MontoDecimal(c) = c
  OBVIOUS
<1>1. \A e \in -50..49 : (2 * e + 2^20) \div 2^21 = 0
  BY SMT
<1>2. Excess(c) \in -50..49
  BY ExcessBounds
<1>3. RoundedExcess(c) = 0
  BY <1>1, <1>2, Zenon DEF RoundedExcess
<1> QED BY <1>3, SMT DEF MontoDecimal

LEMMA ToldExactly == \A c \in Nat : TotalAmount(c) = c
BY DEF TotalAmount

\* parseMonto loses a cent or none.
LEMMA Truncates == \A c \in Nat : parseMonto(c) \in {c - 1, c} /\ parseMonto(c) \in Int
BY DEF parseMonto
-----------------------------------------------------------------------------
\* Every step has kept the amount it started with.
AmountInv ==
  /\ price \in 0..MaxCents
  /\ step \notin {"asked", "rejected"} => stored > 0 /\ stored = parseMonto(price)
  /\ step \in {"charged", "told", "refunded"} => charged = stored
  /\ step \in {"told", "refunded"} => told = stored
  /\ WholeRefundIsReturned

LEMMA AmountInductive ==
  /\ Init => AmountInv
  /\ AmountInv /\ [Next]_vars => AmountInv'
<1>1. Init => AmountInv
  BY DEF Init, AmountInv, WholeRefundIsReturned
<1>2. ASSUME AmountInv, [Next]_vars
      PROVE  AmountInv'
  <2>t. MaxCents \in 1..(2^24 - 1)
    BY AmountAssumption DEF AmountAssumption
  <2>p. /\ price \in Nat /\ parseMonto(price) \in {price - 1, price}
        /\ parseMonto(price) > 0 => parseMonto(price) \in 1..(2^24 - 1)
    <3>1. 2^24 = 16777216
      BY SMT
    <3> QED BY <1>2, <2>t, <3>1, Truncates, SMT DEF AmountInv
  <2>1. CASE RejectOrder
    BY <1>2, <2>1 DEF RejectOrder, AmountInv, WholeRefundIsReturned
  <2>2. CASE CreateOrder
    BY <1>2, <2>2 DEF CreateOrder, AmountInv, WholeRefundIsReturned
  <2>3. CASE GenerateQR
    <3>1. MontoDecimal(stored) = stored
      BY <1>2, <2>3, <2>p, PrintedExactly DEF GenerateQR, AmountInv
    <3> QED BY <1>2, <2>3, <3>1 DEF GenerateQR, AmountInv, WholeRefundIsReturned
  <2>4. CASE NotifyPayment
    <3>1. TotalAmount(stored) = stored
      BY <1>2, <2>4, <2>p, ToldExactly DEF NotifyPayment, AmountInv
    <3> QED BY <1>2, <2>4, <3>1 DEF NotifyPayment, AmountInv, WholeRefundIsReturned
  <2>5. ASSUME NEW amount \in {price, told} \cup OtherAmounts, Refund(amount)
        PROVE  AmountInv'
    <3>1. /\ stored = parseMonto(price) /\ charged = stored /\ told = stored /\ stored > 0
          /\ refund' = parseMonto(amount) /\ asked' = amount /\ returned' = charged /\ step' = "refunded"
          /\ UNCHANGED <<price, stored, charged, told>>
      BY <1>2, <2>5 DEF Refund, AmountInv
    <3>2. stored \in Nat
      BY <2>p, <3>1, SMT
    \* The price is truncated as it was before; the stored amount perhaps once more.
    <3>3. parseMonto(stored) \in {stored - 1, stored}
      BY <3>2, Truncates
    <3> QED BY <1>2, <3>1, <3>3 DEF AmountInv, WholeRefundIsReturned
  <2>6. CASE UNCHANGED vars
    BY <1>2, <2>6 DEF vars, AmountInv, WholeRefundIsReturned
  <2> QED BY <1>2, <2>1, <2>2, <2>3, <2>4, <2>5, <2>6 DEF Next
<1> QED BY <1>1, <1>2

LEMMA AmountAlways == Spec => []AmountInv
BY AmountInductive, PTL DEF Spec

\* An order is stored with the price of the machine, or one cent less.
THEOREM CentIsLost == Spec => []AtMostACentIsLost
<1>1. AmountInv => AtMostACentIsLost
  BY Truncates DEF AmountInv, AtMostACentIsLost
<1> QED BY <1>1, AmountAlways, PTL

\* The customer is charged what the machine is told, although one is printed from a
\* double and the other from an integer.
THEOREM ChargedIsTold == Spec => []ChargedAsTold
<1>1. AmountInv => ChargedAsTold
  BY DEF AmountInv, ChargedAsTold
<1> QED BY <1>1, AmountAlways, PTL

\* A machine that asks back its price is answered what PVS returns, for every price;
\* one that asks back what it was told, that or a cent less.
THEOREM WholeRefunds == Spec => []WholeRefundIsReturned
<1>1. AmountInv => WholeRefundIsReturned
  BY DEF AmountInv
<1> QED BY <1>1, AmountAlways, PTL
=============================================================================
