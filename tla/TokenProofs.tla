------------------------------ MODULE TokenProofs ------------------------------
(***************************************************************************)
(* The token cache of the PVS client, for any number of callers and tokens *)
(* and any life of a token above the 60 seconds the cache takes off: what  *)
(* the calls, the cache and the fetch under way hold is of the right kind  *)
(* and lasts until it is used, and there is one way only for a token that  *)
(* was refused to be sent again.                                           *)
(***************************************************************************)
EXTENDS TokenCache, TLAPS

\* Token t, if it is one, is good for n more ticks.
Lasts(t, n) == t \in Tokens => life[t] >= n

\* The cache gives a token up a tick before it expires, so that one that is read,
\* or that a fetch hands out, still has two: one for the request to fall into.
CacheLasts ==
  /\ cache.left > 0 => Lasts(cache.token, cache.left + 1)
  /\ flight.state = "stored" \/ (\E p \in Callers : IsAt(p, "read")) => Lasts(cache.token, 2)

\* The life of a token runs while its answer is under way.
FlightLasts ==
  /\ flight.state = "asked" => flight.ticks = 0
  /\ flight.state = "answered" => Lasts(flight.token, ExpiresIn - flight.ticks)
  /\ flight.state = "returned" => Lasts(flight.token, 2)

RequestsLast ==
  \A p \in Callers : IsAt(p, "send") => Lasts(calls[p].token, IF calls[p].late THEN 1 ELSE 2)

LifeInv == CacheLasts /\ FlightLasts /\ RequestsLast

\* A token PVS has issued is new to the cache and to every caller until it is stored,
\* unless PVS issues it again and again.
IssuedIsNew ==
  flight.state = "answered" /\ flight.token \notin Reissued =>
    /\ flight.token \in Tokens \ {cache.token}
    /\ \A p \in Callers : calls[p].token /= flight.token

\* A call on its second try that has yet to send holds the token it was refused.
Refused(p) ==
  /\ calls[p].retried /\ calls[p].pc \in {"get", "read", "miss", "wait"}
  /\ calls[p].token \in Tokens \ Reissued

\* The cache does not hold that token.
RefusedIsNotCached ==
  \A p \in Callers :
    /\ IsAt(p, "idle") => ~calls[p].retried
    /\ Refused(p) => cache.token /= calls[p].token

\* Neither is it the result of a fetch of its own.
OwnResultIsNew ==
  flight.state = "returned" /\ Refused(flight.leader) => flight.token /= calls[flight.leader].token

RetryInv == IssuedIsNew /\ RefusedIsNotCached /\ OwnResultIsNew
-----------------------------------------------------------------------------
Pcs == {"idle", "get", "read", "miss", "wait", "send", "invalidate"}

\* A caller that is not waiting, and does not start to, goes on with record c: the
\* callers stay of their type and the same goroutines wait.
LEMMA CallerGoesOn ==
  ASSUME TypeOK, NEW p \in Callers, ~IsAt(p, "wait"),
         NEW c \in CallRecords, c.pc /= "wait", calls' = [calls EXCEPT ![p] = c]
  PROVE  calls' \in [Callers -> CallRecords] /\ UNCHANGED Waiting
BY DEF TypeOK, Waiting, IsAt

\* A step that leaves the fetch and the waiting alone keeps what TypeOK says of both.
LEMMA CallerType ==
  ASSUME TypeOK, NEW p \in Callers, Call(p) \/ Caller(p)
  PROVE  TypeOK'
<1> USE DEF TypeOK
<1>c. calls[p] \in CallRecords /\ calls[p].pc \in Pcs /\ cache.token \in Tokens \cup {NoToken}
  BY DEF CallRecords, Pcs
<1>g. ASSUME ~IsAt(p, "wait"), NEW pc \in Pcs \ {"wait"}, GoesTo(p, pc)
      PROVE  calls' \in [Callers -> CallRecords] /\ UNCHANGED Waiting
  <2>1. [calls[p] EXCEPT !.pc = pc] \in CallRecords /\ [calls[p] EXCEPT !.pc = pc].pc = pc
    BY <1>c DEF CallRecords, Pcs
  <2>2. calls' = [calls EXCEPT ![p] = [calls[p] EXCEPT !.pc = pc]]
    BY <1>g DEF GoesTo
  <2> QED BY <1>g, <2>1, <2>2, CallerGoesOn
<1>i. Idle \in CallRecords /\ Idle.pc = "idle"
  BY DEF Idle, CallRecords
<1>1. CASE Call(p)
  BY <1>1, <1>g DEF Call, IsAt, Pcs
<1>2. CASE CheckCache(p) /\ Hit
  BY <1>2, <1>g DEF CheckCache, IsAt, Pcs
<1>3. CASE CheckCache(p) /\ ~Hit
  BY <1>3, <1>g DEF CheckCache, IsAt, Pcs
<1>4. CASE ReadToken(p)
  <2>1. Sends(calls[p], cache.token) \in CallRecords /\ Sends(calls[p], cache.token).pc = "send"
    BY <1>c DEF Sends, CallRecords
  <2> QED BY <1>4, <2>1, CallerGoesOn DEF ReadToken, IsAt
<1>5. CASE JoinFlight(p)
  <2>1. calls' \in [Callers -> CallRecords] /\ Waiting' = Waiting \cup {p}
    BY <1>5, <1>c DEF JoinFlight, GoesTo, Waiting, IsAt, CallRecords
  <2>2. flight' \in Flights /\ flight'.state /= "none" /\ flight'.leader \in Waiting'
    <3> DEFINE started == [NoFlight EXCEPT !.state = "asked", !.leader = p]
    <3>1. NoFlight \in Flights
      BY TokenAssumption DEF TokenAssumption, NoFlight, Flights
    <3>2. started \in Flights /\ started.state = "asked" /\ started.leader = p
      BY <3>1 DEF Flights
    <3>3. flight' = IF flight.state = "none" THEN started ELSE flight
      BY <1>5 DEF JoinFlight
    <3> HIDE DEF started
    <3> QED BY <2>1, <3>2, <3>3
  <2> QED BY <1>5, <2>1, <2>2 DEF JoinFlight
<1>6. CASE PVSAccepts(p)
  BY <1>6, <1>i, CallerGoesOn DEF PVSAccepts, IsAt
<1>7. CASE PVSRefuses(p)
  <2>1. [calls[p] EXCEPT !.pc = "invalidate"] \in CallRecords /\ [calls[p] EXCEPT !.pc = "invalidate"].pc = "invalidate"
    BY <1>c DEF CallRecords
  <2> QED BY <1>7, <1>i, <2>1, CallerGoesOn DEF PVSRefuses, IsAt
<1>8. CASE Invalidate(p)
  <2> DEFINE c == [calls[p] EXCEPT !.pc = "get", !.retried = TRUE]
  <2>1. c \in CallRecords /\ c.pc = "get" /\ calls' = [calls EXCEPT ![p] = c]
    BY <1>8, <1>c DEF Invalidate, CallRecords
  <2>2. EmptyCache \in [token : Tokens \cup {NoToken}, left : 0..ExpiresIn]
    BY TokenAssumption DEF TokenAssumption, EmptyCache
  <2> QED BY <1>8, <2>1, <2>2, CallerGoesOn DEF Invalidate, IsAt
<1>9. CASE CallFails(p)
  BY <1>9, <1>i, CallerGoesOn DEF CallFails, IsAt
<1> QED
  BY <1>1, <1>2, <1>3, <1>4, <1>5, <1>6, <1>7, <1>8, <1>9 DEF Caller
\* A step of the fetch, of PVS or of time: what it does to the waiting callers it
\* does to the fetch they wait for.
LEMMA FetchType ==
  ASSUME TypeOK,
         OAuthAnswers \/ StoreToken \/ ReadResult \/ FlightReturns \/ (\E t \in Tokens : Revoke(t)) \/ Tick
  PROVE  TypeOK'
<1> USE DEF TypeOK
<1>e. cache.token \in Tokens \cup {NoToken} /\ flight.token \in Tokens \cup {NoToken}
  BY DEF Flights
<1>n. NoFlight \in Flights /\ NoFlight.state = "none"
  BY TokenAssumption DEF TokenAssumption, NoFlight, Flights
<1>w. ASSUME calls' = [p \in Callers |-> calls'[p]],
             \A p \in Waiting : calls'[p] \in CallRecords /\ calls'[p].pc /= "wait",
             \A p \in Callers \ Waiting : calls'[p] = calls[p],
             flight' = NoFlight, UNCHANGED <<cache, life, revoked>>
      PROVE  TypeOK'
  <2>1. \A p \in Callers : calls'[p] \in CallRecords /\ calls'[p].pc /= "wait"
    BY <1>w DEF Waiting, IsAt
  <2>2. calls' \in [Callers -> CallRecords] /\ Waiting' = {}
    BY <1>w, <2>1 DEF Waiting, IsAt
  <2> QED BY <2>2, <1>n, <1>w
<1>1. ASSUME NEW t \in Tokens, OAuthIssues(t)
      PROVE  TypeOK'
  <2>1. flight' \in Flights /\ flight'.state = "answered" /\ flight'.leader = flight.leader
    BY <1>1 DEF OAuthIssues, Flights
  <2>2. life' \in [Tokens -> 0..ExpiresIn]
    BY <1>1, TokenAssumption DEF TokenAssumption, OAuthIssues
  <2> QED BY <1>1, <2>1, <2>2 DEF OAuthIssues, Waiting, IsAt
<1>2. CASE FlightFails
  <2>1. Idle \in CallRecords /\ Idle.pc /= "wait"
    BY DEF Idle, CallRecords
  <2>2. calls' = [p \in Callers |-> IF p \in Waiting THEN Idle ELSE calls[p]]
    BY <1>2 DEF FlightFails
  <2> QED BY <1>2, <2>1, <2>2, <1>w DEF FlightFails, Waiting
<1>3. CASE StoreToken
  <2>1. cache' \in [token : Tokens \cup {NoToken}, left : 0..ExpiresIn]
    BY <1>3, <1>e, TokenAssumption DEF TokenAssumption, StoreToken, RenewAfter
  <2>2. flight' \in Flights /\ flight'.state = "stored" /\ flight'.leader = flight.leader
    BY <1>3 DEF StoreToken, Flights
  <2> QED BY <1>3, <2>1, <2>2 DEF StoreToken, Waiting, IsAt
<1>4. CASE FlightReturns
  <2>1. \A p \in Callers : /\ Sends(calls[p], flight.token) \in CallRecords
                           /\ Sends(calls[p], flight.token).pc /= "wait"
    BY <1>e DEF Sends, CallRecords
  <2>2. calls' = [p \in Callers |-> IF p \in Waiting THEN Sends(calls[p], flight.token) ELSE calls[p]]
    BY <1>4 DEF FlightReturns
  <2> QED BY <1>4, <2>1, <2>2, <1>w DEF FlightReturns, Waiting
<1>7. CASE ReadResult
  <2>1. flight' \in Flights /\ flight'.state = "returned" /\ flight'.leader = flight.leader
    BY <1>7, <1>e DEF ReadResult, Flights
  <2> QED BY <1>7, <2>1 DEF ReadResult, Waiting, IsAt
<1>5. ASSUME NEW t \in Tokens, Revoke(t)
      PROVE  TypeOK'
  BY <1>5 DEF Revoke, Waiting, IsAt
<1>6. CASE Tick
  <2>1. calls' \in [Callers -> CallRecords] /\ UNCHANGED Waiting
    <3>1. \A p \in Callers, late \in BOOLEAN :
            /\ [calls[p] EXCEPT !.late = late] \in CallRecords
            /\ [calls[p] EXCEPT !.late = late].pc = calls[p].pc
      BY DEF CallRecords
    <3>2. calls' = [p \in Callers |-> [calls[p] EXCEPT !.late = IsAt(p, "send")]]
      BY <1>6 DEF Tick
    <3> QED BY <3>1, <3>2 DEF Waiting, IsAt
  <2>2. flight' \in Flights /\ flight'.state = flight.state /\ flight'.leader = flight.leader
    BY <1>6, TokenAssumption DEF TokenAssumption, Tick, Flights
  <2>3. \A n \in 0..ExpiresIn : Sooner(n) \in 0..ExpiresIn
    BY TokenAssumption DEF TokenAssumption, Sooner
  <2>4. life' \in [Tokens -> 0..ExpiresIn]
    BY <1>6, <2>3, TokenAssumption DEF TokenAssumption, Tick
  <2>5. cache' \in [token : Tokens \cup {NoToken}, left : 0..ExpiresIn]
    BY <1>6, <2>3 DEF Tick
  <2> QED BY <1>6, <2>1, <2>2, <2>4, <2>5 DEF Tick
<1> QED
  BY <1>1, <1>2, <1>3, <1>4, <1>5, <1>6, <1>7 DEF OAuthAnswers

\* Whatever tokens PVS refuses, and however calls, fetches and invalidations
\* interleave, every value keeps its type and goroutines wait exactly while a fetch
\* is under way that one of them leads.
THEOREM TokenTypes == Spec => []TypeOK
<1>1. Init => TypeOK
  BY TokenAssumption
     DEF TokenAssumption, Init, TypeOK, EmptyCache, NoFlight, Flights, Idle, CallRecords, Waiting, IsAt
<1>2. TypeOK /\ [Next]_vars => TypeOK'
  <2> SUFFICES ASSUME TypeOK, [Next]_vars PROVE TypeOK'
    OBVIOUS
  <2>1. CASE UNCHANGED vars
    BY <2>1 DEF vars, TypeOK, Waiting, IsAt
  <2> QED BY <2>1, CallerType, FetchType DEF Next
<1> QED BY <1>1, <1>2, PTL DEF Spec
-----------------------------------------------------------------------------
(* How long a token lasts *)

\* A token outlives the 30 seconds of a tick on the way from PVS and those of the
\* request it is sent with: together they are what the cache takes off.
LEMMA CallerLife ==
  ASSUME OAuthTicks <= 1, TypeOK, LifeInv, NEW p \in Callers, Call(p) \/ Caller(p)
  PROVE  LifeInv'
<1> USE DEF TypeOK
<1>t. /\ calls \in [Callers -> CallRecords] /\ cache.token \in Tokens \cup {NoToken}
      /\ cache.left \in Nat /\ life \in [Tokens -> Nat]
  BY TokenAssumption DEF TokenAssumption
<1>f. FlightLasts'
  BY DEF LifeInv, FlightLasts, Lasts, Call, Caller, CheckCache, ReadToken, JoinFlight, PVSAccepts,
         PVSRefuses, Invalidate, CallFails, NoFlight
\* A call that neither comes to read the cache nor sends a token needs nothing of them.
<1>k. ASSUME NEW c \in CallRecords, c.pc \notin {"read", "send"}, calls' = [calls EXCEPT ![p] = c],
             UNCHANGED <<cache, life>>, flight'.state = "stored" => flight.state = "stored"
      PROVE  LifeInv'
  <2>1. \A q \in Callers : /\ IsAt(q, "read")' => IsAt(q, "read")
                           /\ IsAt(q, "send")' => IsAt(q, "send") /\ calls'[q] = calls[q]
    BY <1>k, <1>t DEF IsAt
  <2>2. CacheLasts'
    BY <1>k, <2>1 DEF LifeInv, CacheLasts, Lasts
  <2>3. RequestsLast'
    BY <1>k, <2>1 DEF LifeInv, RequestsLast, Lasts
  <2> QED BY <2>2, <2>3, <1>f DEF LifeInv
<1>g. ASSUME NEW pc \in Pcs \ {"read", "send"}, GoesTo(p, pc), UNCHANGED <<cache, life>>,
             flight'.state = "stored" => flight.state = "stored"
      PROVE  LifeInv'
  <2>1. [calls[p] EXCEPT !.pc = pc] \in CallRecords /\ [calls[p] EXCEPT !.pc = pc].pc = pc
    BY <1>t DEF CallRecords, Pcs
  <2>2. calls' = [calls EXCEPT ![p] = [calls[p] EXCEPT !.pc = pc]]
    BY <1>g DEF GoesTo
  <2> QED BY <1>g, <2>1, <2>2, <1>k
<1>i. Idle \in CallRecords /\ Idle.pc = "idle"
  BY DEF Idle, CallRecords
<1>1. CASE Call(p)
  BY <1>1, <1>g DEF Call, Pcs
<1>2. CASE CheckCache(p) /\ ~Hit
  BY <1>2, <1>g DEF CheckCache, Pcs
<1>3. CASE CheckCache(p) /\ Hit
  <2>1. \A q \in Callers : IsAt(q, "send")' => IsAt(q, "send") /\ calls'[q] = calls[q]
    BY <1>3, <1>t DEF CheckCache, GoesTo, IsAt
  <2>2. cache.left + 1 >= 2 /\ Lasts(cache.token, cache.left + 1)
    BY <1>3, <1>t DEF Hit, LifeInv, CacheLasts
  <2>3. Lasts(cache.token, 2)
    BY <2>2, <1>t DEF Lasts
  <2>4. CacheLasts'
    BY <1>3, <2>2, <2>3 DEF CheckCache, LifeInv, CacheLasts, Lasts
  <2>5. RequestsLast'
    BY <1>3, <2>1 DEF CheckCache, LifeInv, RequestsLast, Lasts
  <2> QED BY <2>4, <2>5, <1>f DEF LifeInv
<1>4. CASE ReadToken(p)
  <2>1. Lasts(cache.token, 2)
    BY <1>4 DEF ReadToken, LifeInv, CacheLasts
  <2>2. calls'[p].pc = "send" /\ calls'[p].token = cache.token /\ ~calls'[p].late
    BY <1>4, <1>t DEF ReadToken, Sends, CallRecords
  <2>3. \A q \in Callers : q /= p => calls'[q] = calls[q]
    BY <1>4, <1>t DEF ReadToken
  <2>4. CacheLasts'
    BY <1>4, <2>1, <2>2, <2>3 DEF ReadToken, LifeInv, CacheLasts, Lasts, IsAt
  <2>5. RequestsLast'
    BY <1>4, <2>1, <2>2, <2>3 DEF ReadToken, LifeInv, RequestsLast, Lasts, IsAt
  <2> QED BY <2>4, <2>5, <1>f DEF LifeInv
<1>5. CASE JoinFlight(p)
  <2>1. flight'.state = "stored" => flight.state = "stored"
    BY <1>5 DEF JoinFlight, NoFlight
  <2> QED BY <1>5, <2>1, <1>g DEF JoinFlight, Pcs
<1>6. CASE PVSAccepts(p) \/ CallFails(p)
  BY <1>6, <1>i, <1>k DEF PVSAccepts, CallFails
<1>7. CASE PVSRefuses(p)
  <2>1. /\ [calls[p] EXCEPT !.pc = "invalidate"] \in CallRecords
        /\ [calls[p] EXCEPT !.pc = "invalidate"].pc = "invalidate"
    BY <1>t DEF CallRecords
  <2> QED BY <1>7, <1>i, <2>1, <1>k DEF PVSRefuses
<1>8. CASE Invalidate(p)
  <2>1. \A q \in Callers : IsAt(q, "send")' => IsAt(q, "send") /\ calls'[q] = calls[q]
    BY <1>8, <1>t DEF Invalidate, IsAt, CallRecords
  <2>2. cache'.token \notin Tokens
    BY <1>8, NoTokenAssumption DEF NoTokenAssumption, Invalidate, EmptyCache
  <2>3. CacheLasts'
    BY <2>2 DEF CacheLasts, Lasts
  <2>4. RequestsLast'
    BY <1>8, <2>1 DEF Invalidate, LifeInv, RequestsLast, Lasts
  <2> QED BY <2>3, <2>4, <1>f DEF LifeInv
<1> QED
  BY <1>1, <1>2, <1>3, <1>4, <1>5, <1>6, <1>7, <1>8 DEF Caller

LEMMA FetchLife ==
  ASSUME OAuthTicks <= 1, TypeOK, LifeInv,
         OAuthAnswers \/ StoreToken \/ ReadResult \/ FlightReturns \/ \E t \in Tokens : Revoke(t)
  PROVE  LifeInv'
<1> USE DEF TypeOK
<1>t. /\ calls \in [Callers -> CallRecords] /\ cache.token \in Tokens \cup {NoToken}
      /\ flight.state \in {"none", "asked", "answered", "stored", "returned"}
      /\ cache.left \in Nat /\ life \in [Tokens -> Nat] /\ ExpiresIn \in Nat /\ ExpiresIn > 2
      /\ flight.ticks \in 0..OAuthTicks /\ OAuthTicks \in Nat
  BY TokenAssumption DEF TokenAssumption, Flights
<1>1. ASSUME NEW t \in Tokens, OAuthIssues(t)
      PROVE  LifeInv'
  <2>1. \A x \in Tokens : Held(x) => life'[x] >= life[x] /\ life'[x] \in Nat
    <3>1. \A x \in Tokens : life[x] \in 0..ExpiresIn
      OBVIOUS
    <3> QED BY <1>1, <1>t, <3>1 DEF OAuthIssues
  <2>2. Lasts(t, ExpiresIn)'
    BY <1>1, <1>t DEF OAuthIssues, Lasts
  <2>3. flight'.state = "answered" /\ flight'.token = t /\ flight'.ticks = 0
    BY <1>1 DEF OAuthIssues, Flights, LifeInv, FlightLasts
  <2>4. CacheLasts'
    BY <1>1, <2>1, <2>3 DEF OAuthIssues, LifeInv, CacheLasts, Lasts, Held, IsAt
  <2>5. FlightLasts'
    BY <2>2, <2>3, <1>t DEF FlightLasts, Lasts
  <2>6. RequestsLast'
    BY <1>1, <2>1 DEF OAuthIssues, LifeInv, RequestsLast, Lasts, Held, IsAt
  <2> QED BY <2>4, <2>5, <2>6 DEF LifeInv
<1>2. CASE FlightFails
  <2>1. flight'.state = "none" /\ UNCHANGED <<cache, life>>
    BY <1>2 DEF FlightFails, NoFlight
  <2>2. \A q \in Callers : calls'[q] = calls[q] \/ calls'[q].pc = "idle"
    BY <1>2 DEF FlightFails, Idle
  <2>3. CacheLasts' /\ FlightLasts'
    BY <2>1, <2>2 DEF LifeInv, CacheLasts, FlightLasts, Lasts, IsAt
  <2>4. RequestsLast'
    BY <2>1, <2>2 DEF LifeInv, RequestsLast, Lasts, IsAt
  <2> QED BY <2>3, <2>4 DEF LifeInv
<1>3. CASE StoreToken
  <2>1. Lasts(flight.token, ExpiresIn - flight.ticks)
    BY <1>3 DEF StoreToken, LifeInv, FlightLasts
  <2>2. Lasts(flight.token, RenewAfter + 1) /\ Lasts(flight.token, 2)
    BY <2>1, <1>t DEF Lasts, RenewAfter
  <2>3. CacheLasts'
    BY <1>3, <2>2 DEF StoreToken, CacheLasts, Lasts
  <2>4. FlightLasts'
    BY <1>3 DEF StoreToken, FlightLasts, Flights
  <2>5. RequestsLast'
    BY <1>3 DEF StoreToken, LifeInv, RequestsLast, Lasts, IsAt
  <2> QED BY <2>3, <2>4, <2>5 DEF LifeInv
<1>4. CASE FlightReturns
  <2>1. Lasts(flight.token, 2) /\ UNCHANGED <<cache, life>> /\ flight'.state = "none"
    BY <1>4 DEF FlightReturns, LifeInv, FlightLasts, NoFlight
  <2>2. \A q \in Callers :
          \/ calls'[q] = calls[q]
          \/ calls'[q].pc = "send" /\ calls'[q].token = flight.token /\ ~calls'[q].late
    BY <1>4, <1>t DEF FlightReturns, Sends, CallRecords
  <2>3. CacheLasts' /\ FlightLasts'
    BY <2>1, <2>2 DEF LifeInv, CacheLasts, FlightLasts, Lasts, IsAt
  <2>4. RequestsLast'
    BY <2>1, <2>2 DEF LifeInv, RequestsLast, Lasts, IsAt
  <2> QED BY <2>3, <2>4 DEF LifeInv
<1>5. ASSUME NEW t \in Tokens, Revoke(t)
      PROVE  LifeInv'
  BY <1>5 DEF Revoke, LifeInv, CacheLasts, FlightLasts, RequestsLast, Lasts, IsAt
<1>6. CASE ReadResult
  <2>1. flight'.state = "returned" /\ flight'.token = cache.token
    BY <1>6 DEF ReadResult, Flights
  <2>2. Lasts(cache.token, 2)
    BY <1>6 DEF ReadResult, LifeInv, CacheLasts
  <2>3. CacheLasts' /\ FlightLasts'
    BY <1>6, <2>1, <2>2 DEF ReadResult, LifeInv, CacheLasts, FlightLasts, Lasts, IsAt
  <2>4. RequestsLast'
    BY <1>6 DEF ReadResult, LifeInv, RequestsLast, Lasts, IsAt
  <2> QED BY <2>3, <2>4 DEF LifeInv
<1> QED
  BY <1>1, <1>2, <1>3, <1>4, <1>5, <1>6 DEF OAuthAnswers

LEMMA TickLife ==
  ASSUME OAuthTicks <= 1, TypeOK, LifeInv, Tick
  PROVE  LifeInv'
<1> USE DEF TypeOK
<1>t. /\ calls \in [Callers -> CallRecords] /\ life \in [Tokens -> Nat]
      /\ cache.token \in Tokens \cup {NoToken} /\ cache.left \in Nat
      /\ flight.state \in {"none", "asked", "answered", "stored", "returned"}
      /\ ExpiresIn \in Nat /\ ExpiresIn > 2 /\ flight.ticks \in 0..OAuthTicks /\ OAuthTicks \in Nat
  BY TokenAssumption DEF TokenAssumption, Flights
<1> DEFINE StillLasts(t, n) == t \in Tokens => life'[t] >= n
<1>1. \A t \in Tokens : Held(t) => life'[t] = Sooner(life[t])
  BY <1>t DEF Tick
<1>2. CacheLasts'
  <2>1. flight'.state /= "stored" /\ \A p \in Callers : ~IsAt(p, "read")'
    BY <1>t DEF Tick, IsAt, CallRecords
  <2>2. /\ cache'.token = cache.token /\ cache'.left \in Nat
        /\ cache'.left > 0 => cache.left > 0 /\ cache.left = cache'.left + 1
    BY <1>t DEF Tick, Sooner
  <2>3. cache'.left > 0 => StillLasts(cache.token, cache'.left + 1)
    BY <2>2, <1>1, <1>t DEF LifeInv, CacheLasts, Lasts, Held, Sooner
  <2> QED BY <2>1, <2>2, <2>3 DEF CacheLasts, Lasts
<1>3. FlightLasts'
  <2>1. CASE flight.state = "answered"
    <3>1. flight.ticks < OAuthTicks /\ flight' = [flight EXCEPT !.ticks = flight.ticks + 1]
      BY <2>1 DEF Tick
    <3>2. flight.ticks = 0
      BY <3>1, <1>t
    <3>3. flight'.state = "answered" /\ flight'.token = flight.token /\ flight'.ticks = 1
      BY <2>1, <3>1, <3>2 DEF Flights
    <3>4. Lasts(flight.token, ExpiresIn)
      BY <2>1, <3>2, <1>t DEF LifeInv, FlightLasts
    <3>5. StillLasts(flight.token, ExpiresIn - 1)
      BY <3>4, <1>1, <1>t DEF Lasts, Sooner, Held
    <3> QED BY <3>3, <3>5, <1>t DEF FlightLasts, Lasts
  <2>2. CASE flight.state /= "answered"
    BY <2>2 DEF Tick, LifeInv, FlightLasts
  <2> QED BY <2>1, <2>2
<1>4. RequestsLast'
  <2>1. ASSUME NEW p \in Callers, IsAt(p, "send")'
        PROVE  StillLasts(calls'[p].token, 1) /\ calls'[p].late
    <3>1. IsAt(p, "send") /\ ~calls[p].late /\ calls'[p].token = calls[p].token /\ calls'[p].late
      BY <2>1, <1>t DEF Tick, IsAt, CallRecords
    <3>2. Lasts(calls[p].token, 2)
      BY <3>1 DEF LifeInv, RequestsLast
    <3> QED BY <3>1, <3>2, <1>1, <1>t DEF Lasts, Sooner, Held
  <2> QED BY <2>1 DEF RequestsLast, Lasts
<1> QED BY <1>2, <1>3, <1>4 DEF LifeInv

\* As long as the answer of OAuth is under way for no more than a tick, no request
\* reaches PVS with a token that expired on the way, whatever the number of callers,
\* the life of a token and the order in which Get, Invalidate and fetches interleave.
THEOREM NoExpiredToken == OAuthTicks <= 1 => (Spec => []NoExpiredTokenSent)
<1> SUFFICES ASSUME OAuthTicks <= 1 PROVE Spec => []NoExpiredTokenSent
  OBVIOUS
<1>1. Init => LifeInv
  BY DEF Init, LifeInv, CacheLasts, FlightLasts, RequestsLast, Lasts, EmptyCache, NoFlight, Idle, IsAt
<1>2. TypeOK /\ LifeInv /\ [Next]_vars => LifeInv'
  <2> SUFFICES ASSUME TypeOK, LifeInv, [Next]_vars PROVE LifeInv'
    OBVIOUS
  <2>1. CASE UNCHANGED vars
    BY <2>1 DEF vars, LifeInv, CacheLasts, FlightLasts, RequestsLast, Lasts, IsAt
  <2> QED BY <2>1, CallerLife, FetchLife, TickLife DEF Next
<1>3. TypeOK /\ LifeInv => NoExpiredTokenSent
  BY TokenAssumption DEF TokenAssumption, TypeOK, LifeInv, RequestsLast, Lasts, NoExpiredTokenSent
<1> QED BY <1>1, <1>2, <1>3, TokenTypes, PTL DEF Spec
-----------------------------------------------------------------------------
(* What the retry sends *)

LEMMA CallerRetry ==
  ASSUME TypeOK, RetryInv, NEW p \in Callers, Call(p) \/ Caller(p)
  PROVE  RetryInv'
<1> USE DEF TypeOK
<1>t. calls \in [Callers -> CallRecords] /\ calls[p] \in CallRecords /\ NoToken \notin Tokens
  BY NoTokenAssumption DEF NoTokenAssumption
<1>f. flight'.state \in {"answered", "returned"} => UNCHANGED flight
  BY DEF Call, Caller, CheckCache, ReadToken, JoinFlight, PVSAccepts, PVSRefuses, Invalidate, CallFails,
         NoFlight
\* The leader of a fetch waits for it, and only that.
<1>l. flight.state = "returned" => flight.leader \in Callers \ {p}
  BY <1>t DEF Call, Caller, CheckCache, ReadToken, JoinFlight, PVSAccepts, PVSRefuses, Invalidate, CallFails,
              Waiting, IsAt
\* The token of the record c the call goes on with is none, its own or the cached one,
\* and a second try goes on with its own.
<1>k. ASSUME NEW c, calls' = [calls EXCEPT ![p] = c], cache'.token \in {NoToken, cache.token},
             c.token \in {NoToken, calls[p].token, cache.token},
             c.pc = "idle" => ~c.retried,
             c.retried /\ c.pc \in {"get", "read", "miss", "wait"} =>
               \/ cache'.token = NoToken
               \/ calls[p].retried /\ calls[p].pc \in {"get", "read", "miss"} /\ c.token = calls[p].token
      PROVE  RetryInv'
  <2>1. calls'[p] = c /\ \A q \in Callers : q /= p => calls'[q] = calls[q]
    BY <1>k, <1>t
  <2>2. IssuedIsNew'
    BY <1>k, <1>f, <1>t, <2>1 DEF RetryInv, IssuedIsNew
  <2>3. RefusedIsNotCached'
    BY <1>k, <1>t, <2>1 DEF RetryInv, RefusedIsNotCached, Refused, IsAt
  <2>4. OwnResultIsNew'
    BY <1>f, <1>l, <2>1 DEF RetryInv, OwnResultIsNew, Refused
  <2> QED BY <2>2, <2>3, <2>4 DEF RetryInv
<1>g. ASSUME NEW pc \in Pcs \ {"idle"}, GoesTo(p, pc), UNCHANGED cache,
             calls[p].pc \in {"idle", "get", "read", "miss"}
      PROVE  RetryInv'
  <2> DEFINE c == [calls[p] EXCEPT !.pc = pc]
  <2>1. c.pc = pc /\ c.token = calls[p].token /\ c.retried = calls[p].retried
    BY <1>t DEF CallRecords
  <2>2. calls[p].retried => calls[p].pc \in {"get", "read", "miss"}
    BY <1>g DEF RetryInv, RefusedIsNotCached, IsAt
  <2>3. calls' = [calls EXCEPT ![p] = c]
    BY <1>g DEF GoesTo
  <2> HIDE DEF c
  <2> QED BY <1>g, <2>1, <2>2, <2>3, <1>k DEF Pcs
<1>i. Idle.pc = "idle" /\ ~Idle.retried /\ Idle.token = NoToken
  BY DEF Idle
<1>1. CASE Call(p)
  BY <1>1, <1>g DEF Call, IsAt, Pcs
<1>2. CASE CheckCache(p) /\ Hit
  BY <1>2, <1>g DEF CheckCache, IsAt, Pcs
<1>3. CASE CheckCache(p) /\ ~Hit
  BY <1>3, <1>g DEF CheckCache, IsAt, Pcs
<1>4. CASE ReadToken(p)
  <2>1. Sends(calls[p], cache.token).pc = "send" /\ Sends(calls[p], cache.token).token = cache.token
    BY <1>t DEF Sends, CallRecords
  <2> QED BY <1>4, <2>1, <1>k DEF ReadToken
<1>5. CASE JoinFlight(p)
  BY <1>5, <1>g DEF JoinFlight, IsAt, Pcs
<1>6. CASE PVSAccepts(p) \/ CallFails(p)
  BY <1>6, <1>i, <1>k DEF PVSAccepts, CallFails
<1>7. CASE PVSRefuses(p)
  <2> DEFINE c == [calls[p] EXCEPT !.pc = "invalidate"]
  <2>1. c.pc = "invalidate" /\ c.token = calls[p].token
    BY <1>t DEF CallRecords
  <2>2. calls' = [calls EXCEPT ![p] = Idle] \/ calls' = [calls EXCEPT ![p] = c]
    BY <1>7 DEF PVSRefuses
  <2> QED BY <1>7, <2>1, <2>2, <1>i, <1>k DEF PVSRefuses
<1>8. CASE Invalidate(p)
  <2> DEFINE c == [calls[p] EXCEPT !.pc = "get", !.retried = TRUE]
  <2>1. c.pc = "get" /\ c.token = calls[p].token /\ calls' = [calls EXCEPT ![p] = c]
    BY <1>8, <1>t DEF Invalidate, CallRecords
  <2>2. cache'.token = NoToken
    BY <1>8 DEF Invalidate, EmptyCache
  <2> HIDE DEF c
  <2> QED BY <2>1, <2>2, <1>k
<1> QED
  BY <1>1, <1>2, <1>3, <1>4, <1>5, <1>6, <1>7, <1>8 DEF Caller

LEMMA FetchRetry ==
  ASSUME TypeOK, RetryInv,
         OAuthAnswers \/ StoreToken \/ ReadResult \/ FlightReturns \/ (\E t \in Tokens : Revoke(t)) \/ Tick
  PROVE  RetryInv'
<1> USE DEF TypeOK
<1>t. calls \in [Callers -> CallRecords] /\ flight \in Flights
  OBVIOUS
<1>1. ASSUME NEW t \in Tokens, OAuthIssues(t)
      PROVE  RetryInv'
  <2>1. flight'.token = t /\ flight'.state = "answered"
    BY <1>1, <1>t DEF OAuthIssues, Flights
  <2> QED
    BY <1>1, <2>1 DEF OAuthIssues, Held, RetryInv, IssuedIsNew, RefusedIsNotCached, OwnResultIsNew, Refused, IsAt
\* The callers that wait go on with records that are idle or send.
<1>2. ASSUME NoFlight = flight', UNCHANGED cache,
             \A p \in Callers : \/ calls'[p] = calls[p]
                                \/ calls'[p] = Idle
                                \/ calls'[p].pc = "send"
      PROVE  RetryInv'
  BY <1>2 DEF NoFlight, Idle, RetryInv, IssuedIsNew, RefusedIsNotCached, OwnResultIsNew, Refused, IsAt
<1>3. CASE FlightFails
  BY <1>2, <1>3 DEF FlightFails
<1>4. CASE FlightReturns
  <2>1. \A p \in Callers : Sends(calls[p], flight.token).pc = "send"
    BY <1>t DEF Sends, CallRecords
  <2> QED BY <1>2, <1>4, <2>1 DEF FlightReturns
<1>5. CASE StoreToken
  <2>1. flight'.state = "stored" /\ cache'.token = flight.token
    BY <1>5, <1>t DEF StoreToken, Flights
  <2> QED
    BY <1>5, <2>1 DEF StoreToken, RetryInv, IssuedIsNew, RefusedIsNotCached, OwnResultIsNew, Refused, IsAt
<1>6. CASE ReadResult
  <2>1. flight'.state = "returned" /\ flight'.token = cache.token /\ flight'.leader = flight.leader
    BY <1>6, <1>t DEF ReadResult, Flights
  <2>2. flight.leader \in Callers
    BY <1>6 DEF ReadResult, Waiting
  <2> QED
    BY <1>6, <2>1, <2>2 DEF ReadResult, RetryInv, IssuedIsNew, RefusedIsNotCached, OwnResultIsNew, Refused, IsAt
<1>7. ASSUME NEW t \in Tokens, Revoke(t)
      PROVE  RetryInv'
  BY <1>7 DEF Revoke, RetryInv, IssuedIsNew, RefusedIsNotCached, OwnResultIsNew, Refused, IsAt
<1>8. CASE Tick
  <2>1. /\ flight'.state = flight.state /\ flight'.token = flight.token /\ cache'.token = cache.token
        /\ flight.state /= "returned"
    BY <1>8, <1>t DEF Tick, Flights
  <2>2. \A p \in Callers : /\ calls'[p].pc = calls[p].pc /\ calls'[p].token = calls[p].token
                           /\ calls'[p].retried = calls[p].retried
    BY <1>8, <1>t DEF Tick, CallRecords
  <2> QED BY <2>1, <2>2 DEF RetryInv, IssuedIsNew, RefusedIsNotCached, OwnResultIsNew, Refused, IsAt
<1> QED
  BY <1>1, <1>3, <1>4, <1>5, <1>6, <1>7, <1>8 DEF OAuthAnswers

\* A call sends a token by reading the cache or by the end of the fetch it waits for.
LEMMA RetryStep ==
  ASSUME TypeOK, RetryInv, Next, NEW p \in Callers, calls[p].retried, ~IsAt(p, "send"),
         calls[p].token \in Tokens \ Reissued, calls'[p].pc = "send", calls'[p].token = calls[p].token
  PROVE  IsAt(p, "wait") /\ flight.state = "returned" /\ flight.leader /= p
<1>t. calls \in [Callers -> CallRecords] /\ calls[p] \in CallRecords
  BY DEF TypeOK
<1>1. ASSUME NEW q \in Callers, Call(q) \/ Caller(q)
      PROVE  FALSE
  <2>1. q = p
    BY <1>1, <1>t DEF Call, Caller, CheckCache, ReadToken, JoinFlight, PVSAccepts, PVSRefuses, Invalidate,
                      CallFails, GoesTo, IsAt
  <2>2. ReadToken(p)
    BY <1>1, <1>t, <2>1 DEF Call, Caller, CheckCache, ReadToken, JoinFlight, PVSAccepts, PVSRefuses,
                            Invalidate, CallFails, GoesTo, IsAt, Idle, CallRecords
  <2>3. calls'[p].token = cache.token
    BY <2>2, <1>t DEF ReadToken, Sends, CallRecords
  <2> QED BY <2>2, <2>3 DEF ReadToken, RetryInv, RefusedIsNotCached, Refused, IsAt
<1>2. CASE FlightReturns
  <2>1. IsAt(p, "wait") /\ calls'[p] = Sends(calls[p], flight.token)
    BY <1>2, <1>t DEF FlightReturns, Waiting, IsAt
  <2>2. calls'[p].token = flight.token
    BY <2>1, <1>t DEF Sends, CallRecords
  <2> QED BY <1>2, <2>1, <2>2 DEF FlightReturns, RetryInv, OwnResultIsNew, Refused, IsAt
<1>3. ~FlightFails
  BY DEF FlightFails, Idle, IsAt
<1>4. ~Tick
  BY <1>t DEF Tick, IsAt, CallRecords
<1> QED
  BY <1>1, <1>2, <1>3, <1>4 DEF Next, OAuthAnswers, OAuthIssues, StoreToken, ReadResult, Revoke, IsAt

\* For any number of callers and tokens, at the grain of the code: the retry sends
\* the token it was refused only if another goroutine's fetch, joined after it had
\* read that token as its result, gives it back, or if PVS itself may issue it again.
THEOREM RepeatsByJoining == Spec => RepeatsOnlyByJoining
<1>1. Init => RetryInv
  BY DEF Init, RetryInv, IssuedIsNew, RefusedIsNotCached, OwnResultIsNew, Refused, NoFlight, Idle, IsAt
<1>2. TypeOK /\ RetryInv /\ [Next]_vars => RetryInv'
  <2> SUFFICES ASSUME TypeOK, RetryInv, [Next]_vars PROVE RetryInv'
    OBVIOUS
  <2>1. CASE UNCHANGED vars
    BY <2>1 DEF vars, RetryInv, IssuedIsNew, RefusedIsNotCached, OwnResultIsNew, Refused, IsAt
  <2> QED BY <2>1, CallerRetry, FetchRetry DEF Next
<1>3. TypeOK /\ RetryInv /\ [Next]_vars =>
        [ \A p \in Callers :
            /\ calls[p].retried /\ ~IsAt(p, "send")
            /\ calls[p].token \in Tokens \ Reissued
            /\ calls'[p].pc = "send" /\ calls'[p].token = calls[p].token
            => IsAt(p, "wait") /\ flight.state = "returned" /\ flight.leader /= p ]_vars
  BY RetryStep
<1> QED BY <1>1, <1>2, <1>3, TokenTypes, PTL DEF Spec, RepeatsOnlyByJoining
=============================================================================
