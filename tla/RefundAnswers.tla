---------------------------- MODULE RefundAnswers ----------------------------
(***************************************************************************)
(* What GS is answered about a refund: by POST /order/refund, also when it *)
(* repeats a refundNo, and by POST /order/refundStatus.  Either answer is  *)
(* put together from two reads, of the order and of the refund, with any   *)
(* step of the bridge between them (refund_service.go).                    *)
(***************************************************************************)
EXTENDS Bridge

CONSTANT Askers   \* requests about a refund that can be in progress

VARIABLES
  asks,     \* what each of these requests has read so far
  heard     \* the answers GS has got for each refundNo it has named with each order

askVars == <<asks, heard>>

RefundAnswerWords == {"waiting", "pending", "success", "fail"}

NoAsk == [kind |-> "none", ref |-> NoRefund, ord |-> NoOrder, read |-> NoStatus]

AskRecords == [ kind : {"none", "replay", "query"}, ref : RefundNos \cup {NoRefund},
                ord : ThirdOrderNos \cup {NoOrder},
                read : OrderStatuses \cup RefundStatuses \cup {NoStatus} ]

AnswersInit ==
  /\ asks = [a \in Askers |-> NoAsk]
  /\ heard = [n \in RefundNos |-> [o \in ThirdOrderNos |-> {}]]

Hears(n, o, word) == heard' = [heard EXCEPT ![n][o] = @ \cup {word}]

\* Mutant: a stored PENDING is answered like a stored SUCCESS.
RefundAnswerEager(order, refund) ==
  IF order = "REFUNDED" THEN "success"
  ELSE IF refund \in {"SUCCESS", "PENDING"} THEN "waiting" ELSE "fail"

\* POST /order/refund; a refund that is still PENDING is answered "fail".
mapRefundStatusForRefund(order, refund) ==
  IF order = "REFUNDED" THEN "success" ELSE IF refund = "SUCCESS" THEN "waiting" ELSE "fail"

\* Mutant: PVS having accepted the reversal is taken for its success.
QueryAnswerEager(order, refund) ==
  IF order = "REFUNDED" \/ refund = "SUCCESS" THEN "success"
  ELSE IF refund = "PENDING" \/ order = "REFUND_PENDING" THEN "pending" ELSE "fail"

\* POST /order/refundStatus.
mapRefundStatusForQuery(order, refund) ==
  IF order = "REFUNDED" THEN "success"
  ELSE IF refund \in {"SUCCESS", "PENDING"} \/ order = "REFUND_PENDING" THEN "pending"
  ELSE "fail"
-----------------------------------------------------------------------------
\* The request that makes the refund answers from the copy of the order it read
\* first, whether or not its last UPDATE failed.
FirstAnswer(r) ==
  /\ RefundIsAt(r, "closeRefund")
  /\ RefundHandler(r)
  /\ Hears(rcalls[r].ref, rcalls[r].ord, "waiting")
  /\ UNCHANGED asks

\* The order the request names is read first.  The refund may not be stored yet.
AskRefund(a, n, o) ==
  /\ asks[a] = NoAsk
  /\ Exists(o)
  /\ asks' = [asks EXCEPT ![a] = [kind |-> "replay", ref |-> n, ord |-> o,
                                  read |-> orders[o].status]]
  /\ UNCHANGED <<vars, heard>>

\* Then the refund, perhaps inserted since by the request it repeats.  Whether it is
\* one of that order is not looked at.
AnswerRefund(a) ==
  /\ asks[a].kind = "replay"
  /\ refunds[asks[a].ref].status /= Absent
  /\ Hears(asks[a].ref, asks[a].ord,
           mapRefundStatusForRefund(asks[a].read, refunds[asks[a].ref].status))
  /\ asks' = [asks EXCEPT ![a] = NoAsk]
  /\ UNCHANGED vars

\* The refundNo is new: the request is one of RefundRequests, past its reads.
NothingToRepeat(a) ==
  /\ asks[a].kind = "replay"
  /\ refunds[asks[a].ref].status = Absent
  /\ asks' = [asks EXCEPT ![a] = NoAsk]
  /\ UNCHANGED <<vars, heard>>

\* refundStatus, by refundNo or the latest of the order: the refund is read, then
\* its order, which must be the one GS names.
AskRefundStatus(a, n) ==
  /\ asks[a] = NoAsk
  /\ refunds[n].status /= Absent
  /\ asks' = [asks EXCEPT ![a] = [kind |-> "query", ref |-> n, ord |-> refunds[n].ord,
                                  read |-> refunds[n].status]]
  /\ UNCHANGED <<vars, heard>>

AnswerRefundStatus(a) ==
  /\ asks[a].kind = "query"
  /\ Hears(asks[a].ref, asks[a].ord,
           mapRefundStatusForQuery(orders[asks[a].ord].status, asks[a].read))
  /\ asks' = [asks EXCEPT ![a] = NoAsk]
  /\ UNCHANGED vars

AnswersNext ==
  \/ Next /\ UNCHANGED askVars
  \/ \E r \in RefundRequests : FirstAnswer(r)
  \/ \E a \in Askers :
       \/ \E n \in RefundNos, o \in ThirdOrderNos : AskRefund(a, n, o)
       \/ \E n \in RefundNos : AskRefundStatus(a, n)
       \/ AnswerRefund(a) \/ NothingToRepeat(a) \/ AnswerRefundStatus(a)

AnswersSpec == Init /\ AnswersInit /\ [][AnswersNext]_<<vars, askVars>>
-----------------------------------------------------------------------------
\* GS hears "success" about an order only when its customer has the money back,
\* although order and refund are read at different times, with an INSERT, the
\* reversal and its callback between them, and disagree on the way.
SuccessMeansReturned ==
  \A n \in RefundNos, o \in ThirdOrderNos :
    "success" \in heard[n][o] => qr[o] = "REVERSED"

\* "waiting" is never said of a refund whose reversal PVS has not accepted or made.
WaitingMeansAccepted ==
  \A n \in RefundNos, o \in ThirdOrderNos :
    "waiting" \in heard[n][o] /\ refunds[n].ord = o => ReversalUnderWay(o)
=============================================================================
