------------------------------ MODULE TokenCache ------------------------------
(***************************************************************************)
(* The OAuth token of the PVS client (internal/client/pvs/client.go): the  *)
(* cache, the single fetch its callers share and the one retry after a     *)
(* 401.  Callers are the goroutines that call GenerateQR, QueryStatus or   *)
(* Reverse; every mutex section, read outside of it and HTTP request is a  *)
(* step of its own.                                                        *)
(*                                                                         *)
(* Time is counted in ticks of 30 seconds.  A request to the API ends      *)
(* within the timeout of its client, 10 seconds, so at most one tick falls *)
(* into it; the OAuth request has no timeout and OAuthTicks bounds how     *)
(* long its answer is under way.                                           *)
(***************************************************************************)
EXTENDS Integers

CONSTANTS
  Callers,     \* goroutines that call PVS at the same time
  Tokens,      \* access tokens; one nobody holds any more stands for a new one
  Reissued,    \* tokens PVS may issue again while somebody holds them
  ExpiresIn,   \* expires_in, the life PVS gives a token
  OAuthTicks   \* ticks that may fall between the issue of a token and its arrival

\* expires_in is above the 60 seconds the cache takes off.
ASSUME TokenAssumption ==
  ExpiresIn \in Nat /\ ExpiresIn > 2 /\ OAuthTicks \in Nat /\ Reissued \subseteq Tokens

VARIABLES
  cache,       \* c.token and the ticks left until c.expiresAt
  flight,      \* the call of the singleflight group, if one is under way
  life,        \* the ticks PVS will still accept each token for
  revoked,     \* tokens PVS does not accept although they have not expired
  calls        \* the state of each caller

vars == <<cache, flight, life, revoked, calls>>

NoToken == "NO_TOKEN"

\* The empty string is no token.
ASSUME NoTokenAssumption == NoToken \notin Tokens

NoCaller == "NO_CALLER"

\* pc is the next step of the call:
\*   get         the lock of Get and its test of the cache
\*   read        `return c.token`, after the unlock
\*   miss        sf.Do: join the fetch under way or become its leader
\*   wait        the caller waits for the fetch, its own or another's
\*   send        the request to the API
\*   invalidate  Invalidate, after a 401
CallRecords == [ pc      : {"idle", "get", "read", "miss", "wait", "send", "invalidate"},
                 token   : Tokens \cup {NoToken},   \* the token last sent, or to send
                 retried : BOOLEAN,
                 late    : BOOLEAN ]                \* a tick fell into the request

Idle == [pc |-> "idle", token |-> NoToken, retried |-> FALSE, late |-> FALSE]

EmptyCache == [token |-> NoToken, left |-> 0]

\* asked: the request is under way; answered: PVS has issued the token; stored: the
\* cache has it, and fetchToken has yet to `return c.token`; returned: token is its
\* result, and the group still has the call.
Flights == [ state  : {"none", "asked", "answered", "stored", "returned"},
             leader : Callers \cup {NoCaller},
             token  : Tokens \cup {NoToken},
             ticks  : 0..OAuthTicks ]

NoFlight == [state |-> "none", leader |-> NoCaller, token |-> NoToken, ticks |-> 0]

Init ==
  /\ cache = EmptyCache
  /\ flight = NoFlight
  /\ life = [t \in Tokens |-> 0]
  /\ revoked = {}
  /\ calls = [p \in Callers |-> Idle]

IsAt(p, pc) == calls[p].pc = pc

GoesTo(p, pc) == calls' = [calls EXCEPT ![p].pc = pc]

Sends(call, token) == [call EXCEPT !.pc = "send", !.token = token, !.late = FALSE]

Waiting == {p \in Callers : IsAt(p, "wait")}
-----------------------------------------------------------------------------
(* TokenCache.Get *)

\* GenerateQR, QueryStatus or Reverse, past the rate limiter.
Call(p) ==
  /\ IsAt(p, "idle")
  /\ GoesTo(p, "get")
  /\ UNCHANGED <<cache, flight, life, revoked>>

Hit == cache.token /= NoToken /\ cache.left > 0

CheckCache(p) ==
  /\ IsAt(p, "get")
  /\ GoesTo(p, IF Hit THEN "read" ELSE "miss")
  /\ UNCHANGED <<cache, flight, life, revoked>>

\* The mutex is not held: Invalidate or a fetch may have written c.token since.
\* A read torn by a write at that very moment gives either value, "" or a panic
\* (CallFails).
ReadToken(p) ==
  /\ IsAt(p, "read")
  /\ calls' = [calls EXCEPT ![p] = Sends(calls[p], cache.token)]
  /\ UNCHANGED <<cache, flight, life, revoked>>

\* The cache is not looked at again, and a fetch can be joined until the group has
\* forgotten it, whatever it has done by then.
JoinFlight(p) ==
  /\ IsAt(p, "miss")
  /\ flight' = IF flight.state = "none" THEN [NoFlight EXCEPT !.state = "asked", !.leader = p]
                                        ELSE flight
  /\ GoesTo(p, "wait")
  /\ UNCHANGED <<cache, life, revoked>>
-----------------------------------------------------------------------------
(* fetchToken, in the goroutine of the leader *)

Held(t) ==
  \/ cache.token = t
  \/ flight.token = t
  \/ \E p \in Callers : calls[p].token = t

\* PVS issues a token, a new one or one it has issued before, with its full life.
OAuthIssues(t) ==
  /\ flight.state = "asked"
  /\ t \in Reissued \/ ~Held(t)
  /\ flight' = [flight EXCEPT !.state = "answered", !.token = t]
  /\ life' = [x \in Tokens |-> IF x = t THEN ExpiresIn ELSE IF Held(x) THEN life[x] ELSE 0]
  /\ revoked' = {x \in revoked : Held(x)} \ {t}
  /\ UNCHANGED <<cache, calls>>

\* Mutant: the cache keeps the token to its last second.
LateRenewal == ExpiresIn

\* expires_in - 60 seconds.
RenewAfter == ExpiresIn - 2

StoreToken ==
  /\ flight.state = "answered"
  /\ flight' = [flight EXCEPT !.state = "stored"]
  /\ cache' = [token |-> flight.token, left |-> RenewAfter]
  /\ UNCHANGED <<life, revoked, calls>>

\* `return c.token`, again without the mutex: what the cache holds now, which an
\* Invalidate may have emptied, is the result.
ReadResult ==
  /\ flight.state = "stored"
  /\ flight' = [flight EXCEPT !.state = "returned", !.token = cache.token]
  /\ UNCHANGED <<cache, life, revoked, calls>>

\* Mutant: only the leader gets the result.
LeaderReturns ==
  /\ flight.state = "returned"
  /\ flight' = NoFlight
  /\ calls' = [calls EXCEPT ![flight.leader] = Sends(@, flight.token)]
  /\ UNCHANGED <<cache, life, revoked>>

\* singleflight forgets the call and wakes everyone who has joined it by now.
FlightReturns ==
  /\ flight.state = "returned"
  /\ flight' = NoFlight
  /\ calls' = [p \in Callers |-> IF p \in Waiting THEN Sends(calls[p], flight.token) ELSE calls[p]]
  /\ UNCHANGED <<cache, life, revoked>>

\* OAuth refuses or breaks off, its answer is not JSON, or the client of the
\* leader goes away: the request carries the leader's context.
FlightFails ==
  /\ flight.state \in {"asked", "answered"}
  /\ flight' = NoFlight
  /\ calls' = [p \in Callers |-> IF p \in Waiting THEN Idle ELSE calls[p]]
  /\ UNCHANGED <<cache, life, revoked>>
-----------------------------------------------------------------------------
(* doConRetry *)

Valid(t) == t \in Tokens /\ life[t] > 0 /\ t \notin revoked

\* PVS accepts the token, whatever else it answers.
PVSAccepts(p) ==
  /\ IsAt(p, "send")
  /\ Valid(calls[p].token)
  /\ calls' = [calls EXCEPT ![p] = Idle]
  /\ UNCHANGED <<cache, flight, life, revoked>>

\* Mutant: every 401 is retried.
PVSRefusesAgain(p) ==
  /\ IsAt(p, "send")
  /\ ~Valid(calls[p].token)
  /\ GoesTo(p, "invalidate")
  /\ UNCHANGED <<cache, flight, life, revoked>>

\* 401: retried once; the second one is the error of the call (mapearError).
PVSRefuses(p) ==
  /\ IsAt(p, "send")
  /\ ~Valid(calls[p].token)
  /\ calls' = [calls EXCEPT ![p] = IF @.retried THEN Idle ELSE [@ EXCEPT !.pc = "invalidate"]]
  /\ UNCHANGED <<cache, flight, life, revoked>>

\* Mutant: the token stays in the cache.
ForgetNothing(p) ==
  /\ IsAt(p, "invalidate")
  /\ calls' = [calls EXCEPT ![p].pc = "get", ![p].retried = TRUE]
  /\ UNCHANGED <<cache, flight, life, revoked>>

\* Whatever token the cache holds by now is dropped, not only the refused one.
Invalidate(p) ==
  /\ IsAt(p, "invalidate")
  /\ cache' = EmptyCache
  /\ calls' = [calls EXCEPT ![p].pc = "get", ![p].retried = TRUE]
  /\ UNCHANGED <<flight, life, revoked>>

\* No answer, the client of the request went away, or the read was torn.
CallFails(p) ==
  /\ calls[p].pc \in {"read", "send"}
  /\ calls' = [calls EXCEPT ![p] = Idle]
  /\ UNCHANGED <<cache, flight, life, revoked>>
-----------------------------------------------------------------------------
(* PVS and time *)

Revoke(t) ==
  /\ Valid(t)
  /\ Held(t)
  /\ revoked' = revoked \cup {t}
  /\ UNCHANGED <<cache, flight, life, calls>>

Sooner(n) == IF n = 0 THEN 0 ELSE n - 1

\* No tick falls between an unlock and the read that follows it, or into the end of
\* a fetch, two into one request to the API, or more than OAuthTicks into the way of
\* a token.
Tick ==
  /\ flight.state \notin {"stored", "returned"}
  /\ flight.state = "answered" => flight.ticks < OAuthTicks
  /\ \A p \in Callers : ~IsAt(p, "read") /\ (IsAt(p, "send") => ~calls[p].late)
  /\ \E t \in Tokens : Held(t) /\ life[t] > 0
  /\ life' = [t \in Tokens |-> IF Held(t) THEN Sooner(life[t]) ELSE 0]
  /\ cache' = [cache EXCEPT !.left = Sooner(@)]
  /\ flight' = IF flight.state = "answered" THEN [flight EXCEPT !.ticks = @ + 1] ELSE flight
  /\ calls' = [p \in Callers |-> [calls[p] EXCEPT !.late = IsAt(p, "send")]]
  /\ UNCHANGED revoked

Caller(p) ==
  \/ CheckCache(p) \/ ReadToken(p) \/ JoinFlight(p)
  \/ PVSAccepts(p) \/ PVSRefuses(p) \/ Invalidate(p)
  \/ CallFails(p)

OAuthAnswers == FlightFails \/ \E t \in Tokens : OAuthIssues(t)

Next ==
  \/ \E p \in Callers : Call(p) \/ Caller(p)
  \/ OAuthAnswers
  \/ StoreToken \/ ReadResult \/ FlightReturns
  \/ \E t \in Tokens : Revoke(t)
  \/ Tick

Spec == Init /\ [][Next]_vars

\* The scheduler runs every goroutine, and a request to the API ends by its
\* timeout.
CallerFairness ==
  /\ \A p \in Callers : WF_vars(Caller(p))
  /\ WF_vars(StoreToken)
  /\ WF_vars(ReadResult)
  /\ WF_vars(FlightReturns)

\* The OAuth endpoint answers or its connection breaks; no timeout of the code
\* sees to it.
FairSpec == Spec /\ CallerFairness /\ WF_vars(OAuthAnswers)
-----------------------------------------------------------------------------
\* Values have their types, and goroutines wait exactly while a fetch is under
\* way that one of them leads: nobody is left behind when it ends.
TypeOK ==
  /\ cache \in [token : Tokens \cup {NoToken}, left : 0..ExpiresIn]
  /\ flight \in Flights
  /\ life \in [Tokens -> 0..ExpiresIn]
  /\ revoked \subseteq Tokens
  /\ calls \in [Callers -> CallRecords]
  /\ IF flight.state = "none" THEN Waiting = {} ELSE flight.leader \in Waiting

\* The 60 seconds taken off expires_in are enough: even with an answer of OAuth
\* and a request under way, and however Get, Invalidate and a fetch interleave,
\* no request reaches PVS with a token that has expired on the way.
NoExpiredTokenSent ==
  \A p \in Callers : IsAt(p, "send") /\ calls[p].token \in Tokens => life[calls[p].token] > 0

\* The retry can be a repeat, but only by the end of a fetch.  A token PVS does not
\* issue again is sent a second time by the call it was refused to only if another
\* goroutine's fetch had it for its result and was joined before the group forgot
\* it: never from the cache, whoever refills it, nor by a fetch of the call's own.
RepeatsOnlyByJoining ==
  [][ \A p \in Callers :
        /\ calls[p].retried /\ ~IsAt(p, "send")
        /\ calls[p].token \in Tokens \ Reissued
        /\ calls'[p].pc = "send" /\ calls'[p].token = calls[p].token
        => IsAt(p, "wait") /\ flight.state = "returned" /\ flight.leader /= p ]_vars

\* Every call to PVS ends, whatever tokens PVS refuses and however the cache is
\* invalidated under it: at most one retry, and no fetch forgets a waiter.
EveryCallEnds == \A p \in Callers : ~IsAt(p, "idle") ~> IsAt(p, "idle")
=============================================================================
