------------------------------ MODULE AnswerProofs ------------------------------
(***************************************************************************)
(* What GS is told about a refund is true when it hears it and stays true, *)
(* for any sets of orders, refund numbers and requests.  An answer is made *)
(* of two reads with any steps between them: the invariant says what the   *)
(* first read still knows when the second is made.                         *)
(***************************************************************************)
EXTENDS RefundAnswers, RefundProofs

AnswersTypeOK ==
  /\ asks \in [Askers -> AskRecords]
  /\ heard \in [RefundNos -> [ThirdOrderNos -> SUBSET RefundAnswerWords]]

\* A request in progress names a refundNo and an order; the one that may repeat a
\* refundNo has read REFUNDED only of an order whose money is back.
AskKnows(a) ==
  asks[a].kind /= "none" =>
    /\ asks[a].ref \in RefundNos /\ asks[a].ord \in ThirdOrderNos
    /\ asks[a].kind = "replay" /\ asks[a].read = "REFUNDED" => qr[asks[a].ord] = "REVERSED"
    /\ asks[a].kind = "query" => asks[a].read \in RefundStatuses

AsksKnow == \A a \in Askers : AskKnows(a)

\* "waiting" is said of a stored refund, whose order does not change any more.
WaitingHasRow ==
  \A n \in RefundNos, o \in ThirdOrderNos : "waiting" \in heard[n][o] => refunds[n].status /= Absent

AnswersInv ==
  AnswersTypeOK /\ AsksKnow /\ WaitingHasRow /\ SuccessMeansReturned /\ WaitingMeansAccepted
-----------------------------------------------------------------------------
\* Answering does not change what the bridge does.
LEMMA AnswersRunBridge == AnswersSpec => Spec
<1>1. [AnswersNext]_<<vars, askVars>> => [Next]_vars
  BY DEF AnswersNext, FirstAnswer, AskRefund, AskRefundStatus, AnswerRefund, NothingToRepeat,
         AnswerRefundStatus, Next
<1> QED BY <1>1, PTL DEF AnswersSpec, Spec

\* What the answers rely on outlasts any step of the bridge.
FactsStay ==
  /\ ReversalsStay
  /\ \A n \in RefundNos :
       refunds[n].status /= Absent => refunds'[n].status /= Absent /\ refunds'[n].ord = refunds[n].ord

LEMMA BridgeKeepsFacts == TypeOK /\ [Next]_vars => FactsStay
<1>1. UNCHANGED vars => FactsStay
  BY DEF vars, FactsStay, ReversalsStay, Approved
<1>2. TypeOK /\ Next => FactsStay
  BY ReversalsAreFinal, RefundRowsStay DEF FactsStay
<1> QED BY <1>1, <1>2

\* A request that waits, and the answers heard, stay as true as they were.
LEMMA AskWaits ==
  ASSUME AnswersInv, FactsStay, NEW a \in Askers, asks'[a] = asks[a]
  PROVE  AskKnows(a)'
BY DEF AnswersInv, AsksKnow, AskKnows, FactsStay, ReversalsStay

AnswerTrue(n, o, word) ==
  /\ word \in RefundAnswerWords
  /\ word = "success" => qr[o] = "REVERSED"
  /\ word = "waiting" => /\ refunds[n].status /= Absent
                         /\ refunds[n].ord = o => ReversalUnderWay(o)

\* GS hears nothing new, or an answer that is true when it is given.
LEMMA HeardStaysTrue ==
  ASSUME TypeOK, AnswersInv, FactsStay,
         \/ UNCHANGED heard
         \/ \E n \in RefundNos, o \in ThirdOrderNos : \E word : Hears(n, o, word) /\ AnswerTrue(n, o, word)
  PROVE  /\ heard' \in [RefundNos -> [ThirdOrderNos -> SUBSET RefundAnswerWords]]
         /\ WaitingHasRow' /\ SuccessMeansReturned' /\ WaitingMeansAccepted'
<1>t. heard \in [RefundNos -> [ThirdOrderNos -> SUBSET RefundAnswerWords]]
  BY DEF AnswersInv, AnswersTypeOK
<1>1. ASSUME NEW n \in RefundNos, NEW o \in ThirdOrderNos, NEW word \in heard'[n][o]
      PROVE  word \in heard[n][o] \/ AnswerTrue(n, o, word)
  BY <1>1, <1>t DEF Hears
<1>2. heard' \in [RefundNos -> [ThirdOrderNos -> SUBSET RefundAnswerWords]]
  BY <1>t DEF Hears, AnswerTrue
<1>3. WaitingHasRow'
  BY <1>1 DEF AnswersInv, WaitingHasRow, AnswerTrue, FactsStay
<1>4. SuccessMeansReturned'
  BY <1>1 DEF AnswersInv, SuccessMeansReturned, AnswerTrue, FactsStay, ReversalsStay
<1>5. WaitingMeansAccepted'
  <2> SUFFICES ASSUME NEW n \in RefundNos, NEW o \in ThirdOrderNos, "waiting" \in heard'[n][o], refunds'[n].ord = o
               PROVE  ReversalUnderWay(o)'
    BY DEF WaitingMeansAccepted
  <2>1. refunds[n].status /= Absent
    BY <1>1 DEF AnswersInv, WaitingHasRow, AnswerTrue
  <2>2. refunds[n].ord = o
    BY <2>1 DEF FactsStay
  <2>3. ReversalUnderWay(o)
    BY <1>1, <2>2 DEF AnswersInv, WaitingMeansAccepted, AnswerTrue
  <2> QED BY <2>3 DEF FactsStay, ReversalsStay, ReversalUnderWay
<1> QED BY <1>2, <1>3, <1>4, <1>5

LEMMA AnswersInductive ==
  /\ Init /\ AnswersInit => AnswersInv
  /\ TypeOK /\ RefundInv /\ AnswersInv /\ [AnswersNext]_<<vars, askVars>> => AnswersInv'
<1>1. Init /\ AnswersInit => AnswersInv
  BY DEF AnswersInit, NoAsk, AskRecords, AnswersInv, AnswersTypeOK, AsksKnow, AskKnows, WaitingHasRow,
         SuccessMeansReturned, WaitingMeansAccepted, RefundAnswerWords
<1>2. ASSUME TypeOK, RefundInv, AnswersInv, [AnswersNext]_<<vars, askVars>>, FactsStay
      PROVE  AnswersInv'
  <2>t. /\ asks \in [Askers -> AskRecords] /\ refunds \in [RefundNos -> RefundRows]
        /\ orders \in [ThirdOrderNos -> Rows]
    BY <1>2 DEF TypeOK, AnswersInv, AnswersTypeOK
  <2>1. ASSUME UNCHANGED asks,
               \/ UNCHANGED heard
               \/ \E n \in RefundNos, o \in ThirdOrderNos : \E word : Hears(n, o, word) /\ AnswerTrue(n, o, word)
        PROVE  AnswersInv'
    BY <1>2, <2>1, <2>t, AskWaits, HeardStaysTrue DEF AnswersInv, AnswersTypeOK, AsksKnow
  \* One request reads or answers.
  <2>2. ASSUME NEW a \in Askers, NEW k \in AskRecords, asks' = [asks EXCEPT ![a] = k], AskKnows(a)',
               \/ UNCHANGED heard
               \/ \E n \in RefundNos, o \in ThirdOrderNos : \E word : Hears(n, o, word) /\ AnswerTrue(n, o, word)
        PROVE  AnswersInv'
    <3>1. \A b \in Askers : b /= a => asks'[b] = asks[b]
      BY <2>2, <2>t
    <3>2. AsksKnow'
      BY <1>2, <2>2, <3>1, AskWaits DEF AsksKnow
    <3>3. asks' \in [Askers -> AskRecords]
      BY <2>2, <2>t
    <3> QED BY <1>2, <2>2, <3>2, <3>3, HeardStaysTrue DEF AnswersInv, AnswersTypeOK
  <2>3. ASSUME NEW r \in RefundRequests, FirstAnswer(r)
        PROVE  AnswersInv'
    <3>1. rcalls[r].ref \in RefundNos /\ rcalls[r].ord \in ThirdOrderNos
      BY <1>2, <2>3 DEF FirstAnswer, TypeOK, RefundIsAt
    <3>2. AnswerTrue(rcalls[r].ref, rcalls[r].ord, "waiting")
      BY <1>2, <2>3 DEF FirstAnswer, RefundIsAt, RefundInv, RefundCallsInv, RefundsHaveRows, AcceptedReversals,
                        PastInsert, ReversalUnderWay, AnswerTrue, RefundAnswerWords
    <3> QED BY <2>1, <2>3, <3>1, <3>2 DEF FirstAnswer
  <2>4. ASSUME NEW a \in Askers, NEW n \in RefundNos, NEW o \in ThirdOrderNos, AskRefund(a, n, o)
        PROVE  AnswersInv'
    <3> DEFINE k == [kind |-> "replay", ref |-> n, ord |-> o, read |-> orders[o].status]
    <3>1. k \in AskRecords
      BY <2>4, <2>t DEF AskRefund, AskRecords, Rows, Exists
    <3>2. asks' = [asks EXCEPT ![a] = k] /\ UNCHANGED heard
      BY <2>4 DEF AskRefund
    <3>3. AskKnows(a)'
      BY <1>2, <2>4, <2>t DEF AskRefund, AskKnows, RefundInv, OrderRowsKnowReversal, RefundedMeansReversed, vars
    <3> QED BY <2>2, <3>1, <3>2, <3>3
  <2>5. ASSUME NEW a \in Askers, NEW n \in RefundNos, AskRefundStatus(a, n)
        PROVE  AnswersInv'
    <3> DEFINE k == [kind |-> "query", ref |-> n, ord |-> refunds[n].ord, read |-> refunds[n].status]
    <3>1. refunds[n].ord \in ThirdOrderNos /\ refunds[n].status \in RefundStatuses
      BY <1>2, <2>5, <2>t DEF AskRefundStatus, RefundInv, RefundCallsInv, RowsNameOrders, RefundRows
    <3>2. k \in AskRecords
      BY <3>1 DEF AskRecords
    <3>3. asks' = [asks EXCEPT ![a] = k] /\ UNCHANGED heard
      BY <2>5 DEF AskRefundStatus
    <3>4. AskKnows(a)'
      BY <2>5, <2>t, <3>1 DEF AskRefundStatus, AskKnows, vars
    <3> QED BY <2>2, <3>2, <3>3, <3>4
  <2>6. NoAsk \in AskRecords /\ NoAsk.kind = "none"
    BY DEF NoAsk, AskRecords
  <2>7. ASSUME NEW a \in Askers, asks' = [asks EXCEPT ![a] = NoAsk],
               NEW n \in RefundNos, NEW o \in ThirdOrderNos, NEW word, Hears(n, o, word), AnswerTrue(n, o, word)
        PROVE  AnswersInv'
    <3>1. AskKnows(a)'
      BY <2>6, <2>7, <2>t DEF AskKnows
    <3> QED BY <2>2, <2>6, <2>7, <3>1
  <2>8. ASSUME NEW a \in Askers, AnswerRefund(a)
        PROVE  AnswersInv'
    <3> DEFINE word == mapRefundStatusForRefund(asks[a].read, refunds[asks[a].ref].status)
    <3>1. AskKnows(a) /\ asks[a].kind = "replay" /\ refunds[asks[a].ref].status /= Absent
      BY <1>2, <2>8 DEF AnswerRefund, AnswersInv, AsksKnow
    <3>2. AnswerTrue(asks[a].ref, asks[a].ord, word)
      BY <1>2, <3>1 DEF AskKnows, AnswerTrue, mapRefundStatusForRefund, RefundAnswerWords, RefundInv,
                        SuccessesBacked
    <3> QED BY <2>7, <2>8, <3>1, <3>2 DEF AnswerRefund, AskKnows
  <2>9. ASSUME NEW a \in Askers, AnswerRefundStatus(a)
        PROVE  AnswersInv'
    <3> DEFINE word == mapRefundStatusForQuery(orders[asks[a].ord].status, asks[a].read)
    <3>1. AskKnows(a) /\ asks[a].kind = "query"
      BY <1>2, <2>9 DEF AnswerRefundStatus, AnswersInv, AsksKnow
    <3>2. AnswerTrue(asks[a].ref, asks[a].ord, word)
      BY <1>2, <3>1 DEF AskKnows, AnswerTrue, mapRefundStatusForQuery, RefundAnswerWords, RefundInv,
                        OrderRowsKnowReversal, RefundedMeansReversed
    <3> QED BY <2>7, <2>9, <3>1, <3>2 DEF AnswerRefundStatus, AskKnows
  <2>10. ASSUME NEW a \in Askers, NothingToRepeat(a)
         PROVE  AnswersInv'
    <3>1. AskKnows(a)'
      BY <2>6, <2>10, <2>t DEF NothingToRepeat, AskKnows
    <3> QED BY <2>2, <2>6, <2>10, <3>1 DEF NothingToRepeat
  <2> QED BY <1>2, <2>1, <2>3, <2>4, <2>5, <2>8, <2>9, <2>10 DEF AnswersNext, askVars
<1>3. [AnswersNext]_<<vars, askVars>> => [Next]_vars
  BY DEF AnswersNext, FirstAnswer, AskRefund, AskRefundStatus, AnswerRefund, NothingToRepeat,
         AnswerRefundStatus, Next
<1> QED BY <1>1, <1>2, <1>3, BridgeKeepsFacts

LEMMA AnswersAlways == AnswersSpec => []AnswersInv
BY AnswersRunBridge, TypeCorrect, RefundAlways, AnswersInductive, PTL DEF AnswersSpec

\* Whatever happens between the two reads of an answer, the INSERT of the refund it
\* is about included, GS hears "success" about an order only when PVS has given the
\* money back.
THEOREM SuccessIsReturned == AnswersSpec => []SuccessMeansReturned
<1>1. AnswersInv => SuccessMeansReturned
  BY DEF AnswersInv
<1> QED BY <1>1, AnswersAlways, PTL

\* GS is told to wait for a refund only if PVS has accepted or made its reversal.
THEOREM WaitingIsAccepted == AnswersSpec => []WaitingMeansAccepted
<1>1. AnswersInv => WaitingMeansAccepted
  BY DEF AnswersInv
<1> QED BY <1>1, AnswersAlways, PTL
=============================================================================
