# powermix-pvs in TLA+

The bridge of this repository sits between a vending machine vendor (GS), which
asks for QR codes and wants to know when to dispense, and a payment provider
(PVS), which issues the QRs and collects the money. It is a Go program over one
PostgreSQL database: request handlers run in parallel, and a background worker,
the reconciler, repairs what lost callbacks and lost notices leave behind.

The specification follows the code statement by statement: **each SQL statement
and each HTTP request is one atomic step**, and what a handler read earlier is
kept in the record of its call, where it can be stale. No handler of the program
opens a transaction, so this is the grain at which calls interleave.

## The system

| Part | Code | State | Operations | Talks to |
|---|---|---|---|---|
| Order state machine | `internal/domain/status.go` | none | `transitionTable`, `CanTransitionTo`, `ToGSStatus`, PVS status parsing | everyone |
| Orders table | `internal/store/order_repo.go`, `reconciler_store.go`, `scanning.go`, migrations | one row per `third_order_no` | insert, plain and guarded updates, scans; unique index on `gs_order_no` | services, reconciler |
| Order service | `internal/service/order_service.go` | none between calls | `CreateOrder`, `QueryStatus`, `HandlePVSWebhook`, `NotifyPaymentIfNeeded`, `CompleteOrder`, `CancelOrder` | orders table, PVS, GS |
| Refund service | `internal/service/refund_service.go`, `internal/store/refund_repo.go` | refunds table | `Refund`, `RefundStatus` | both tables, PVS |
| Reconciler | `internal/reconciler/reconciler.go` | a batch of copied rows | `scan`, `reconcileQRShown`, `reconcileRefundPending`, `retryUnnotified` | orders table, PVS, order service |
| PVS client | `internal/client/pvs/client.go` | OAuth token cache | `Get`, `Invalidate`, `fetchToken`, `doConRetry`, `GenerateQR`, `QueryStatus`, `Reverse` | PVS |
| GS client | `internal/client/gs/client.go` | none | `NotifyPayment` | GS |
| HTTP handlers | `internal/handler/handler.go`, `domain/errors.go` | none | one endpoint per operation, `writeError` | GS, PVS, services |
| Amounts | `parseMonto` and the places that print cents | none | string to cents and back | order and refund service, PVS client |
| Composition | `cmd/server/main.go` | none | start, graceful shutdown | all |
| Mocks | `cmd/mockpvs`, `cmd/mockgs` | states of QRs | what PVS and GS answer | |
| Other | metrics, keepalive, logging, redaction, config, time zone, sync log, idempotency store | none, or write-only | | |

Behaviours that are hard here, and what makes each part correct:

* **Orders.** Two kinds of `UPDATE` meet on a row: guarded ones (`AND status =
  expected`, webhook and reconciler) and plain ones (everything else, after a
  check against a status read earlier). An order whose payment is stored must never be
  polled as pending or timed out, an unpaid one never as paid. (That a paid order stays
  refundable is more than the code keeps: it may end `CANCELLED`, which is terminal.)
* **CreateOrder.** Look up, insert, ask PVS, update: four steps with a crash or a
  concurrent retry between any two. One serial must never have two payable QRs.
* **Callbacks.** Lost, repeated, late and reordered, at the same time as the
  reconciler asks PVS for the same thing.
* **Notices.** At-least-once by design. They must be about money PVS has, they
  must not overlap, and one that was lost must be sent again.
* **Refunds.** Unchecked writes to two tables after an external effect, racing
  the callback of that very effect.
* **Reconciler.** Works through copies of rows; must make progress when
  everything that can fail fails many times.
  A pass has room for 200 rows, and some rows can never be corrected.
* **PVS client.** One token shared by all goroutines, fetched once for all of them and
  thrown away by any of them. Every call must end, none may use a token that expired.
* **Answers.** GS decides by what it was answered, and PVS stops repeating a callback it
  was answered "ok" for. Several answers come from two reads, or from a write that may
  have lost a race, or whose own answer was lost.
* **Amounts.** A decimal string becomes a double, then cents, then two strings.

`PROJECT.json` lists every hazard with its line.

## Modules

```
OrderStatus <- OrderRepo <- PVS <- OrderService <- RefundService <- Reconciler <- Bridge
Bridge <- BridgeLiveness <- MCLiveness          Bridge <- BridgeRefinement <- MCBridge
Bridge <- BridgeClaims   <- MCClaims            Bridge, Errors <- Endpoints <- MCEndpoints
Bridge <- RefundAnswers  <- MCRefundAnswers     TokenCache <- MCTokenCache
ReconcilerBatch <- MCReconcilerBatch            Amounts
SalePromise: instantiated by BridgeRefinement

Bridge <- BridgeProofs <- SaleProofs <- RefundProofs
RefundProofs, RefundAnswers    <- AnswerProofs
RefundProofs, Endpoints        <- EndpointProofs
RefundProofs, BridgeRefinement <- RefinementProofs
TokenCache <- TokenProofs                       Amounts <- AmountProofs
```

(`A <- B`: B extends A.) Each component adds its variables to those of the module it
extends and has a next-state operator of its own (`OrderServiceNext(p)`,
`RefundServiceNext(r)`, `ReconcilerNext`); `Bridge` takes their disjunction.

| Module | Variables | What it models |
|---|---|---|
| `OrderStatus` | none | Statuses and conversions, as operators. |
| `OrderRepo` | `orders` | A row is its status, the set of nullable columns that are set, and `due`, the answer to the time comparison the scans make for that status. The `Update...` operators are the statements. |
| `PVS` | `qr`, `reverseRequested` | External. A QR goes from in process to approved or rejected, and from approved to reversed. `Callbacks(o)` are those PVS has ever sent: since nothing takes one away, delivery covers loss, repetition, delay and reordering. |
| `OrderService` | `calls`, `told` | `calls[p]` is the call goroutine `p` is executing: its next statement (`pc`), its order, the status it read (`seen`) and the one it will write (`to`). `told` are the orders a notice "2" reached GS for. `Abort` ends a call anywhere: a failed statement, a cancelled context or a crash. |
| `RefundService` | `refunds`, `rcalls` | The same for `POST /order/refund`. Writes whose errors the code ignores may be skipped one by one. |
| `Reconciler` | `phase`, `batch` | The loop the pass is in and the copies it has still to use. Its guarded updates and notices are those of `OrderService`, made by the goroutine `Worker`. |
| `Bridge` | none | Init, Next, Spec of the whole; the safety properties. |
| `BridgeLiveness` | none | Fairness and the liveness properties. |
| `BridgeClaims` | none | What docs, comments and tests claim and the code does not do. |
| `SalePromise` | `money`, `booked`, `answer`, `refunded`, `told` | Abstract: what the machine and the customer can rely on for one sale. |
| `BridgeRefinement` | none | The refinement mapping from `Bridge` to `SalePromise`. |
| `Endpoints` | `heard` | What GS and PVS were answered, on top of `Bridge`: each answer goes with the step that decides it, and the same step without an answer is a broken connection. Only answers a property is about are remembered; a 500 is given and forgotten, since it may follow a write that failed or one that was made. |
| `RefundAnswers` | `asks`, `heard` | The two endpoints that read an order and a refund one after the other, on top of `Bridge`. |
| `Errors` | none | `mapearError` and `writeError`, as operators. |
| `TokenCache` | `cache`, `flight`, `life`, `revoked`, `calls` | `calls[p]` is a call to PVS: every mutex section, the reads outside of them and each HTTP request is a step. `flight` is the call singleflight shares; storing the token, reading `c.token` for the result, and singleflight forgetting the call are three steps, and the call can be joined until the last. `life` and `revoked` are what PVS thinks of each token. |
| `ReconcilerBatch` | `status`, `byAge`, `due`, `phase`, `batch` | The reads of the reconciler with their `ORDER BY updated_at LIMIT`, and the loops over them, with every order reduced to the list it is on. |
| `Amounts` | `step`, `price`, `stored`, `charged`, `told`, `asked`, `refund`, `returned` | One sale's amount on its way through the code. Doubles are computed exactly. |
| `BridgeProofs`, `SaleProofs`, `RefundProofs`, `AnswerProofs`, `EndpointProofs`, `RefinementProofs`, `TokenProofs`, `AmountProofs` | none | Theorems and proofs. |

Definitions named as mutants ("Mutant: ...") stand before the definition they alter.
No specification uses them: they are the plausible bugs each property was tried on.

### What the model assumes of the outside

* **PVS.** Reverses only what it approved. A QR can be paid once its image was
  stored, which is before `CreateOrder` answers with it. It does not expire at PVS:
  nothing in the code asks for that.
* **GS.** Knows a `thirdOrderNo` only from an answer that carried the QR, so complete,
  cancel and refund name orders whose QR was stored (for a refund this follows from its
  `payment_confirmed_at` test). It may send each of them at any time, in any order.
* **Time.** `TimePasses` makes the copy or row of an order due at any moment except while
  a notice for it is in flight: the GS client gives up after 10 seconds, `notifyMinAge`
  is 30 seconds and `updated_at` was written just before. This is the one timing
  assumption, and it assumes the two statements around the request take less than
  the 20 seconds between them.
* **Database.** One statement is atomic; `third_order_no` (a UUID) is never
  generated twice, so the model gives a failed lookup and a fresh UUID to each try.
  A refund that is new starts in one step (`Refund`): a refund number that is absent at the
  second SELECT was absent at the first. A request that finds its refund reads the two tables
  in two steps, with any INSERT between them (`AskRefund`, `AnswerRefund`).
* **Batch.** `LIMIT 200` is not reached in `Bridge`; `ReconcilerBatch` is about what happens
  when it is, and there asking PVS and the update that follows are one step.
* **Tokens.** PVS states the life a token really has, counted from its issue, and it is more
  than the 60 seconds the cache takes off. It may revoke a token at any time. Nothing in the
  code makes PVS issue a new token for each request: those of `Reissued` it may issue again
  while somebody holds them, with their full life again, and the others only when nobody does
  (`cmd/mockpvs` has one token, which it always issues again). At most one tick of 30 seconds passes between its issue and its
  arrival (`OAuthTicks`); nothing in the code sees to that, and with more of them
  `NoExpiredTokenSent` would not hold, because the 60 seconds are counted from the arrival. A
  request to the API takes at most the 10 seconds of its client, so at most one tick falls
  into it. No tick falls between an unlock and the read after it, or into the end of a fetch.
  `doConRetry` sends the same `*http.Request` again, and the body of a POST was consumed by the
  first try (`client.go:273`), so in practice only the retry of the GET of `QueryStatus` can
  succeed. The model lets any retry succeed or fail, and `GenerateQR` and `Reverse` of `Bridge`
  any call: it has more behaviours than the code. Retries, expiry and the
  shared fetch do not touch an order, so `TokenCache` is composed with nothing: to `Bridge` a
  call that fails is a call that fails.
* **Answers.** A request that is refused before its INSERT, and `/order/status`, change nothing
  and are no actions of `Endpoints`; what the machine polls is `ToGSStatus` of the row. A 4xx
  answer to `/order/qr` there is one PVS gave, passed on.
* **Doubles.** `ParseFloat`, multiplication and `%.2f` round to nearest, as IEEE 754 and Go
  have it. Exponents are enumerated up to 23, so the model of them, and `AmountAssumption`,
  end at 2^24 - 1 cents (167 772.15).
* **Shutdown.** `main` waits up to 10 seconds for requests and not at all for the reconciler, so
  a stop may end any call or pass between two statements. `Abort` and `StopWorker` do that at
  any time, not only at a stop.

Request validation, payloads, audit rows, metrics and logs are left out.

## Runs

| Run | Instance | States | Question |
|---|---|---|---|
| `order` | 2 UUIDs of one serial, 2 requests, 1 refund request | 683 000 | Can any interleaving of two handlers, the refund and the reconciler show or notify a payment that is not there, lose one that is, or make two payable QRs for a serial? |
| `refunds` | 1 order, 1 request, 2 refund requests with 2 refund numbers | 361 000 | Are refunds backed by PVS? |
| `sales` | 2 serials, 1 request, no refunds | 613 000 | With copies of several rows in hand, does the reconciler's retry overlap a webhook's notice? |
| `live` | 1 order, 1 request, 1 refund request, fairness | 29 000 | Does every lost callback or notice get repaired? |
| `promise` | 2 UUIDs of one serial, 1 request, 1 refund request | 81 000 | Does the bridge implement `SalePromise`? |
| `endpoints` | 2 UUIDs of one serial, 2 requests, no refunds | 158 000 | Can GS and PVS rely on what they are answered? |
| `answers` | 1 order, 1 request, 2 refund requests with 1 refund number, 1 asker | 1 713 000 | Can GS rely on what it is answered about refunds? |
| `token` | 2 callers, 3 tokens, 1 of them reissued, a life of 3 ticks, fairness | 682 000 | Does the token cache hold together, and does every call end? |
| `batch` | 3 orders, a batch of 2, 1 hopeless order, fairness | 28 000 | Does every order get its turn? |
| `amounts` | every price up to 300.00; asked back: the price, the amount told, 0.01 or 300.00 | 212 000 | What does truncation cost, is what is charged what is told, and is a whole refund answered with what PVS returns? |
| `claim_*` | 1 order, 2 requests, 1 refund request | until violated | Each refutes one statement of the repository. |

The safety properties, each with its mutant:

* `NoNoticeWithoutMoney`, `NeverDispenseUnpaid`: what GS is told or sees as paid, PVS
  approved (and the row can be refunded).
* `PaidNeverLooksUnpaid`: no race makes an order whose payment is stored look pending or timed
  out. This and `TimedOutStaysUnpaid` are about what `/order/status` answers. The replay of
  `POST /order/qr` answers the constant "1" whatever has become of the order
  (`order_service.go:206-211`), also of a paid, failed or timed-out one.
* `OneQRPerSerial`: retries, concurrent or after a crash, make at most one QR.
* `GuardedWritesFollowTable`: webhook and reconciler writes are arrows of the table from
  the status the row has *when written*, except `QR_SHOWN` to `REFUND_PENDING`, which
  the reconciler writes without asking the table.
* `TimedOutStaysUnpaid`: after a timeout the machine never polls "pending" or "paid".
* `RefundedMeansReversed`, `RefundPendingIsBacked`, `ReverseOnlyPaid`,
  `OneReversePerRefundNo`: refunds agree with PVS in spite of ignored errors.
* `OneNoticeInFlight`: `notifyMinAge` does what its comment says.
* `ExpiredOrdersAreDecided`, `PaymentsAreNotified`, `RefundsAreConfirmed`: liveness.
* `KeepsPromise`: `Bridge` implements `SalePromise`. A serial is asked for money once and
  the money moves once in each direction; a payment is booked only from "pending" and never
  forgotten; after "timeout" comes nothing but "timeout" or "failed"; a refund is a success only
  when the customer has the money. The order behind a serial is whichever UUID won the unique
  index. What the promise leaves open is what the code leaves open: `Settle` lets an answer
  move between "paid", "failed", "refunding" and "refunded" in any order, because the unguarded
  updates of the findings do.
* `AckedApprovalIsNotPending`: once PVS was answered "ok" for an approval, the order is never
  pending again, whoever won the race for the row. It need not be booked as paid: an approval
  that loses to a timeout or a cancel is acknowledged and dropped.
* `OneQRAnswered`: whatever answers were lost and requests repeated, GS holds one QR per serial.
* `RefusedIsNeverPaid`: once a refusal of PVS (4xx) was passed on, nobody pays a QR of that serial.
  A 500 says nothing: a repeated request meets the unique index and is answered 500 although the
  QR of the serial is shown and paid (`order_service.go:227-229`), and an `UPDATE` may be made and
  its answer lost (`:242-250`), after which the next request is answered the QR.
* `UnpaidCancelStands`: after an "ok" to the cancel of an order nobody had paid, the machine never
  sees it pending, paid or completed, although the QR can still be paid and PVS still calls back.
* `SuccessMeansReturned`, `WaitingMeansAccepted`: answers put together from two reads, with the
  INSERT of the refund perhaps between them, claim no more than PVS has done.
* `NoExpiredTokenSent`, `RepeatsOnlyByJoining`, `EveryCallEnds` and the second half of
  `TokenCache`'s `TypeOK` (goroutines wait exactly while one of them leads a fetch). A retry *can*
  send the token that was refused, other than one PVS issues again: a fetch has read its result, the
  call is refused that token, invalidates the cache, misses it and joins the fetch that singleflight
  has not forgotten yet. `RepeatsOnlyByJoining` says that this is the only way.
* `StuckOrdersGetTheirTurn`, `PaymentsGetTheirTurn`: as long as fewer orders are hopeless than
  fit into a batch, no order starves. Without that condition it is false.
* `AtMostACentIsLost`, `ChargedAsTold`, `WholeRefundIsReturned`: for every price, with exact
  doubles. The last is about a refund of the whole price, or of the amount the machine was told.
  The code accepts any positive amount, also one above the price, and answers it as refunded.

**Why the bounds are enough.** Rows interact only through a shared serial (`order`
has two UUIDs of one) and through the reconciler's batch (`sales` has two serials). For
one row, every race in the code is between a call that read and a call that wrote
in between: two request goroutines, a refund request and the worker give every pair
of kinds and most triples. A second refund request is needed only for `refunds`. No
counter grows, so no other bound is needed. A retry of the token cache meets
at most one other call's invalidation and one fetch, which two callers give. Three tokens
are one less than can be held at once (a cached one, one per caller, a fetched one), and when
none is new the fetch fails, as it may anyway, or gives the one of `Reissued`; a life of three ticks is the shortest `TokenAssumption`
admits, where the margin is tightest. A batch of two with three orders has
a full batch, one order outside of it and a hopeless one at the front; 300.00 takes prices
through all the powers of two at which the spacing of doubles changes up to there. One asker is enough for a
refund because it keeps nothing between two questions; the two concurrent requests of `answers`
have one refund number, those of `refunds` two. The request and refund goroutines are
symmetric in the safety runs; the liveness run uses no symmetry.

**Fairness** (`BridgeLiveness`). Weak fairness of time, of the reversals PVS has accepted and
of the end of every request in progress: the `http.Client` timeouts of GS and PVS and the context
of the request bound each. The worker has no such bound where it asks for a token: the OAuth request
has no timeout (`client.go:428`) and the context of the reconciler no deadline, so that the
OAuth server answers or refuses in the end is an assumption of `live` as it is of `token`. Strong fairness of the steps of the reconciler, per order: the
ticker fires for ever, a step may fail or the process die any number of times, but not
every try fails. `Run` and `scan` leave a failed order for the next pass, which is what
makes that the right reading. Nothing is assumed of callbacks, of customers or of GS
requests, and requests need not be admitted. `live` has one order, so that one which
keeps failing does not hold the others is not its question but that of `batch`. In
`ReconcilerBatch` the loops run, time passes and neither read fails for ever;
`Corrects` and `Notifies` are strongly fair for orders that are not `Hopeless`, with the same
reading. In `TokenCache` goroutines run and requests to the API end (their client has a
timeout); that the OAuth request ends (`WF_vars(OAuthAnswers)`) is an assumption that no timeout of the
code backs.

### Where code and words differ

Two runs end in a violation, each of something the repository says:

| Claim | Statement | Code |
|---|---|---|
| `TerminalIsFinal` | `order_test.go:51-54`: terminal statuses do not move | a complete checked before a cancel is written over `CANCELLED`, and both are answered "success" (`order_service.go:501-506`); so is the mark of a notice (`:445`) and the end of a refund (`refund_service.go:132,144`) |
| `DuplicateReversalIsNoOp` | `order_service.go:303-305`: a repeated webhook is a no-op | the second `REVERSED` moves `REFUND_PENDING` to `REFUNDED` (`:598`) |

Others show in the definitions, which follow the code:

* `order_test.go:37` has no arrow from `QR_SHOWN` to `REFUND_PENDING`; the reconciler takes it
  (`reconciler.go:157`, the exception in `GuardedWritesFollowTable`).
* `docs/DIAGRAMAS_MATRIZ_DECISION_GS_PVS.md:236` cancels an expired QR at PVS; the code only marks
  it (`reconciler.go:151`), and a later payment is kept and never told (`TimedOutStaysUnpaid`).
* `order_service.go:77,178` replay a `QR_SHOWN` order as "1"; the code replays any row with an
  image (`:206`, `ReplaysQR`).
* `refund_service.go:167-169` answer "fail" for a failed refund; a repeated request hears it also
  while the first one is under way (`:195`, `mapRefundStatusForRefund`). A `refundNo` is answered
  for whatever order the request names (`:105`, `AnswerRefund`).
* PVS returns the whole payment whatever amount was asked back (`:129`), and the amount is not
  compared with the price (`:85`, `Amounts!Refund`).
* "19.99" is stored as 1998 cents (`order_service.go:644`, `parseMonto`; at most one cent,
  `AtMostACentIsLost`).
* `client.go:375`: `Get` returns a valid token; it returns "" when another goroutine's `Invalidate`
  falls between its unlock and its return (`:381`, `ReadToken`). `:385-386`: one goroutine fetches;
  one that comes when the fetch is over fetches again (`JoinFlight`). `:256-257`: a 401 gets a new
  token; it can be the refused one (`RepeatsOnlyByJoining`). `:34`: a timeout of 10
  seconds; the OAuth request has none (`:428`). A 401 for the bridge's own token is passed to GS
  as a fault of GS (`:288`, `mapearError`, `domain/errors.go:23-26`).
* `reconciler_store.go:29`: a full batch of orders that cannot be corrected keeps the rest from
  ever being read (`BatchAssumption` and `Hopeless`).
* `main.go:124`: the workers stop before the server; nobody waits for them (`:125`).

## Proofs

Every safety invariant, every action property and the refinement the runs check is also
proved, by TLAPS, for every value of the constants. Nothing is assumed but the named
assumptions of the modules: `GsOrderNoAssumption` (each UUID has a serial),
`WorkerAssumption` (the worker is no request), `TokenAssumption` (a token lives longer than
the margin), `NoTokenAssumption` ("" is no token), `AmountAssumption` (prices are in the range
of the model of doubles), and one hypothesis, of `NoExpiredToken`, below.

| Theorem | States | Rests on |
|---|---|---|
| `BridgeProofs!TypeCorrect` | `TypeOK` | itself: it is inductive, because it also says that a call past its first step names an order and a legal target |
| `BridgeProofs!NoticesArePaid`, `DispensedIsPaid`, `ReversedIsPaid` | `NoNoticeWithoutMoney`, `NeverDispenseUnpaid`, `ReverseOnlyPaid` | `MoneyInv` |
| `SaleProofs!OneQR`, `PaidLooksPaid` | `OneQRPerSerial`, `PaidNeverLooksUnpaid` | `SaleInv` |
| `SaleProofs!GuardedWrites`, `TimeoutIsFinal` | `GuardedWritesFollowTable`, `TimedOutStaysUnpaid` (action properties) | `SaleInv` |
| `SaleProofs!OneNotice` | `OneNoticeInFlight` | `NoticeInv` |
| `RefundProofs!RefundedOrders`, `PendingRefunds`, `OneReverse` | `RefundedMeansReversed`, `RefundPendingIsBacked`, `OneReversePerRefundNo` | `RefundInv` |
| `AnswerProofs!SuccessIsReturned`, `WaitingIsAccepted` | `SuccessMeansReturned`, `WaitingMeansAccepted` | `AnswersInv` |
| `EndpointProofs!AckedIsNotPending`, `OneQRIsAnswered`, `RefusedStaysUnpaid`, `UnpaidCancelsStand` | `AckedApprovalIsNotPending`, `OneQRAnswered`, `RefusedIsNeverPaid`, `UnpaidCancelStands` | `EndpointInv` |
| `RefinementProofs!BridgeKeepsPromise` | `KeepsPromise` (`Bridge` implements `SalePromise`) | all invariants of `Bridge` |
| `TokenProofs!TokenTypes`, `NoExpiredToken`, `RepeatsByJoining` | `TokenCache`'s `TypeOK`, `NoExpiredTokenSent`, `RepeatsOnlyByJoining` (an action property) | `LifeInv`, `RetryInv` |
| `AmountProofs!CentIsLost`, `ChargedIsTold`, `WholeRefunds` | `AtMostACentIsLost`, `ChargedAsTold`, `WholeRefundIsReturned` | `AmountInv` |

Hardly any property is inductive: a step that writes "paid" is justified by something read or
learned several steps before. The invariants say what every carrier of such knowledge, a row,
a call in progress, a copy of the reconciler, an answer, still guarantees.

**`MoneyInv`** (payments).
- `AbsentRowsAreEmpty`: a row that does not exist has no columns;
- `RowsKnowPayment`: a stored payment was approved, and a paid status or a completion
  comes with a stored payment;
- `CallsKnowPayment`: a call about to confirm an order heard of the approval, and one about
  to notify, mark or complete it read the payment;
- `RefundsKnowPayment`: so did a refund past its check;
- `CopiesKnowPayment`: and the copies waiting to be notified were of paid orders.

It is preserved because knowledge is stable: PVS never takes an approval back (a reversal
keeps it) and no statement clears a column (`UpdateAdvances`, `KnowledgeStays`). The
proof has one lemma per component (`OrderServiceMoney`, `RefundServiceMoney`,
`ReconcilerMoney`, `EnvironmentMoney`) and one step per action; so have the ones below.

**`SaleInv`** (rows and the calls that will write them).
- `RowsInv`: serials are unique among stored rows, a QR has a row, an order that is
  shown, timed out or approved has its QR stored, and one that is RECEIVED has not;
- `CallsHaveRows`: what a call or a copy refers to is stored;
- `OneCreator`: no two `CreateOrder` calls work on one UUID;
- `NotShownYet`: while one of them is about to ask for a QR, store it or give up, none is
  stored. So `QR_SHOWN` is never written over a payment;
- `LegalWrites`: a guarded update in progress is an arrow from the status it *expects*, or
  the reconciler's correction. Since it only writes a row that has that status, it cannot
  time out a paid order, revive one that timed out, or leave the table.

`SaleGoesOn` reduces the preservation of the call parts to one condition (`Fits`) on the
record a call goes on with, and `UpdateKeepsRows` that of the row parts to one condition on
an `UPDATE`. For the action properties, `WhoWrites` says that only six statements of a call and
two of a refund write a row, each the row of its own record. `RowsMove` and `RowsKeep` draw from
it what the other proofs need of any step: no row and no column is lost, and an order that has
left the pending statuses with its QR never returns to them.

**`NoticeInv`** (`notifyMinAge`). A row, or a copy of it, is old enough to be retried only when no
request but the reconciler's own is notifying it (`DueRows`, `DueCopies`), because a confirmation
makes the row young and time does not pass for it while a notice is in flight. A
confirmation is the only other start of a notice (`WhoNotifies`), and `SaleInv` says that it is
the order's first.

**`RefundInv`** (reversals). The callbacks and corrections about to start or end a refund
heard of a reversal (`UpdatesKnowReversal`); a refund past its INSERT has the row of its number,
and the row names its order (`RefundsHaveRows`); one about to store its success was accepted by
PVS (`AcceptedReversals`). A reversal, made or accepted, is never taken back (`ReversalsAreFinal`),
so unguarded writes may come in any order.

**`AnswersInv`, `EndpointInv`** (answers). `AnswersRunBridge` and `EndpointsRunBridge` prove that
both specifications are those of `Bridge` with answers on top, so that every invariant of `Bridge`
is one of theirs. An answer made of two reads is true because of what the first read still
knows at the second (`AskKnows`); an answer once given stays justified because each kind of
it leaves behind a fact that no later step takes back (`Justified`): a QR that is stored, an
approval whose order is no longer pending, an order that is `GivenUp`, without a QR and without a
call that could still store one, or one that `IsOver`, decided against with no payment stored. That
a cancel finds a QR stored (`CancelsAreShown`) keeps `ShowQR` from writing over it.

**The refinement** (`RefinementProofs`). The mapping picks the order of a serial with `CHOOSE`; that
this means something is `SafeViews`: from the invariants, a serial either has no order, and nothing
of it is seen, or exactly one, and the promise's variables show that one (`Views`).
`OneTableAtATime` and `RowsMove` say that a step moves the money of one order, tells GS of one,
or writes one row, and `OneSaleMoves` that the rest looks as before. What is left are five kinds of
steps, the last unseen and the others actions of the promise: `MoneyIsSeen`, `NoticeIsSeen`, `OrderIsSeen` (Open: the
unique index says it is the serial's first) and `UpdateIsSeen` (Book if it stores the payment, which
`PaymentIsBooked` shows to happen from QR_SHOWN only, and Settle if not), or `NothingIsSeen`.

**`LifeInv`, `RetryInv`** (tokens). `LifeInv`: what the cache takes a token to have left is at least a tick
short of its real life, and a request in progress holds a token that outlasts it. The proof needs
the hypothesis `OAuthTicks <= 1`: the margin of 60 seconds, two ticks, pays for one tick on the way from PVS and
one in a request. It is a hypothesis of this theorem and not an assumption of the module, because
the code does nothing to ensure it (the OAuth request has no timeout). `RetryInv`, of the tokens PVS does not issue again:
while a call that was refused looks for another token, the refused one is not in the cache
(`RefusedIsNotCached`), because one just issued is new to everybody until it is stored
(`IssuedIsNew`); and what a fetch of its own returns is not the refused one either
(`OwnResultIsNew`). What is left is the result of another's fetch.

**`AmountInv`** (amounts). The stored price is what `parseMonto` made of the machine's, and every later
amount equals it. The arithmetic is in the lemmas: each price has an exponent (`ExponentExists`), the
error of its double is half a unit at most (`ExcessBounds`), so `%.2f` prints the cents it came from
(`PrintedExactly`). A refund of the price is truncated as the price was, one of the amount told once
more. `amounts` checks prices up to 300.00, the theorems say it up to 167 772.15.

`SaleInv` and `NoticeInv` were checked by TLC on the instances of the runs before they were proved.

**Only model-checked.** Liveness under fairness is out of the prover's reach: `ExpiredOrdersAreDecided`,
`PaymentsAreNotified`, `RefundsAreConfirmed`, `EveryCallEnds`, and with them all of
`ReconcilerBatch` (`StuckOrdersGetTheirTurn`, `PaymentsGetTheirTurn`). The two claims are refuted by a
counterexample, and need no proof. In `Amounts`, 2^k % 100 is written by its period and not by recursion,
because what a recursive function computes cannot be proved here; the period itself was not
proved, and the proofs use of it only that the result is between 0 and 99.

## Plan

Modelling is done and the safety of the runs is proved. What may still be added:

1. The safety half of the liveness arguments, as invariants that can be proved: an unnotified
   payment and an expired QR are always on one of the reconciler's two lists or have a call at work
   on them, so that fairness of the reconciler is all that is left to assume.
2. Types of `ReconcilerBatch`, and that a batch never holds an order twice or one that has left its list
   for good.

## Not modelled

* **Logging, redaction, metrics, sync log.** Text and rows that nothing reads back; an error in
  one of them is ignored by its caller.
* **Keepalive.** A periodic GET whose answer is logged; no state.
* **Configuration and time zone.** Read once at start; pure parsing.
* **Idempotency store.** Built and never used (`main.go:63`).
* **Validation of requests, JSON, signing, `/healthz`, middleware.** Stateless; a request they
  refuse reaches no service.
* **Rate limiter of the PVS client.** It delays a call; a call may be delayed anywhere.
* **The mocks**, but for what they say of PVS: they are stand-ins for the two external systems.
  The model leaves these freer, and lets PVS issue a token again as the mock does.
