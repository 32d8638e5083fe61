----------------------------- MODULE RateLimit -----------------------------
(***************************************************************************)
(* The two limiters, for the requests of one subject to one endpoint, and  *)
(* the circuit breaker they depend on.  A write endpoint runs JWTAuth,     *)
(* which reads Redis through the breaker, and then the sliding window,     *)
(* which asks the breaker for its state but runs its script around it.     *)
(* Login and registration run the fixed window only.                       *)
(*                                                                         *)
(* now is the time of Redis.                                               *)
(***************************************************************************)
EXTENDS Integers, FiniteSets

CONSTANTS
    Requests,             \* the requests of the subject
    MaxRequests,          \* maxRequests of the limiter (30, 20, 10)
    Window,               \* its window (one minute)
    MaxDelay,             \* from the timestamp of a request to its script
    MaxSkew,              \* clock of an API server against that of Redis
    ConsecutiveFailures,  \* failures that open the breaker (5)
    Timeout,              \* how long it stays open (10 s)
    RedisFails,           \* a Redis access may fail
    MaxTime               \* bound on the time

ASSUME RequestsFinite == IsFiniteSet(Requests)
ASSUME LimitTyped == MaxRequests \in Nat \ {0} /\ Window \in Nat \ {0}
ASSUME ClocksTyped == MaxDelay \in Nat /\ MaxSkew \in Nat
ASSUME BreakerTyped == ConsecutiveFailures \in Nat \ {0} /\ Timeout \in Nat
ASSUME RedisFailsTyped == RedisFails \in BOOLEAN /\ MaxTime \in Nat

VARIABLES
    now,
    endpoint,       \* which limiter the requests meet
    request,        \* request[r]: the next step of r, or its outcome
    since,          \* since[r]: when r came in, was stamped or was decided, the last of them
    stamp,          \* stamp[r]: t.UnixMilli() of the sliding window
    zset,           \* members of feedsystem:ratelimit:sw:...; their scores are stamp
    zsetExpires,    \* when that key expires
    counter,        \* feedsystem:ratelimit:...
    counterExpires, \* when that key expires
    breaker,        \* state of the breaker when it was last looked at
    failures,       \* counts.ConsecutiveFailures
    retryAt,        \* the breaker is open until then
    counting,       \* calls in flight whose result the breaker waits for
    lastFailure     \* history: when a call last failed

requestVars == <<request, since, stamp>>
keyVars     == <<zset, zsetExpires, counter, counterExpires>>
breakerVars == <<breaker, failures, retryAt, counting, lastFailure>>
vars == <<now, endpoint, requestVars, keyVars, breakerVars>>

\* JWTAuth: the read of the token, after a miss its refill; then the limiter.
Steps == {"new", "read", "reading", "refill", "refilling", "limit", "script"}

\* Let through uncounted, let through as one of MaxRequests, refused with 429.
Outcomes == {"unlimited", "counted", "rejected"}

TypeOK ==
    /\ now \in Nat
    /\ endpoint \in {"like", "login"}
    /\ request \in [Requests -> Steps \cup Outcomes]
    /\ since \in [Requests -> Nat]
    /\ stamp \in [Requests -> Int]
    /\ zset \in SUBSET Requests
    /\ zsetExpires \in Nat
    /\ counter \in Nat
    /\ counterExpires \in Nat
    /\ breaker \in {"closed", "open", "half_open"}
    /\ failures \in 0 .. ConsecutiveFailures - 1
    /\ retryAt \in Nat
    /\ counting \in SUBSET Requests
    /\ lastFailure \in Int

Init ==
    /\ now = 0
    /\ endpoint \in {"like", "login"}
    /\ request = [r \in Requests |-> "new"]
    /\ since = [r \in Requests |-> 0]
    /\ stamp = [r \in Requests |-> 0]
    /\ zset = {}
    /\ zsetExpires = 0
    /\ counter = 0
    /\ counterExpires = 0
    /\ breaker = "closed"
    /\ failures = 0
    /\ retryAt = 0
    /\ counting = {}
    /\ lastFailure = -Timeout - 1

-----------------------------------------------------------------------------
\* A stamped request reaches Redis within MaxDelay.
Tick ==
    /\ now < MaxTime
    /\ endpoint = "like" =>
          \A r \in Requests : request[r] = "script" => now < since[r] + MaxDelay
    /\ now' = now + 1
    /\ UNCHANGED <<endpoint, requestVars, keyVars, breakerVars>>

Receive(r) ==
    /\ request[r] = "new"
    /\ request' = [request EXCEPT ![r] = IF endpoint = "like" THEN "read" ELSE "script"]
    /\ since' = [since EXCEPT ![r] = now]
    /\ UNCHANGED <<now, endpoint, stamp, keyVars, breakerVars>>

-----------------------------------------------------------------------------
(* Breaker.Execute and IsBreakerOpen, around gobreaker.                    *)

\* The open state ends by itself when somebody looks.
State == IF breaker = "open" /\ now > retryAt THEN "half_open" ELSE breaker

\* Any number of calls while closed, one probe while half open.
Admits == State = "closed" \/ (State = "half_open" /\ counting = {})

\* setState(open): a new generation, so calls still in flight count no more.
Trip ==
    /\ breaker' = "open"
    /\ failures' = 0
    /\ retryAt' = now + Timeout
    /\ counting' = {}

Succeeds(r) ==
    /\ IF r \in counting
       THEN /\ breaker' = "closed"
            /\ failures' = 0
            /\ counting' = IF breaker = "closed" THEN counting \ {r} ELSE {}
       ELSE UNCHANGED <<breaker, failures, counting>>
    /\ UNCHANGED <<retryAt, lastFailure>>

\* As a bug: the breaker opens one failure too late.
FailsTripsLate(r) ==
    /\ RedisFails
    /\ lastFailure' = now
    /\ IF r \notin counting
       THEN UNCHANGED <<breaker, failures, retryAt, counting>>
       ELSE IF breaker = "half_open" \/ failures = ConsecutiveFailures
       THEN Trip
       ELSE /\ failures' = failures + 1
            /\ counting' = counting \ {r}
            /\ UNCHANGED <<breaker, retryAt>>

Fails(r) ==
    /\ RedisFails
    /\ lastFailure' = now
    /\ IF r \notin counting
       THEN UNCHANGED <<breaker, failures, retryAt, counting>>
       ELSE IF breaker = "half_open" \/ failures + 1 = ConsecutiveFailures
       THEN Trip
       ELSE /\ failures' = failures + 1
            /\ counting' = counting \ {r}
            /\ UNCHANGED <<breaker, retryAt>>

\* As a bug: redis.Nil is reported to gobreaker like any other error.
MissesAsFailure(r) ==
    IF r \notin counting
    THEN UNCHANGED breakerVars
    ELSE /\ UNCHANGED lastFailure
         /\ IF breaker = "half_open" \/ failures + 1 = ConsecutiveFailures
            THEN Trip
            ELSE /\ failures' = failures + 1
                 /\ counting' = counting \ {r}
                 /\ UNCHANGED <<breaker, retryAt>>

\* redis.Nil is an answer: gobreaker is told of a success.
Misses(r) == Succeeds(r)

\* Interval is over: a new generation with fresh counts.
IntervalEnds ==
    /\ breaker = "closed"
    /\ failures' = 0
    /\ counting' = {}
    /\ UNCHANGED <<now, endpoint, requestVars, keyVars, breaker, retryAt, lastFailure>>

-----------------------------------------------------------------------------
(* JWTAuth, as far as it uses the breaker.                                 *)

\* The steps of one call through Execute, and the step after a refusal.
Calls == [read |-> "reading", refill |-> "refilling"]
Refused == [read |-> "refill", refill |-> "limit"]

BeginCall(r) ==
    /\ request[r] \in DOMAIN Calls
    /\ IF Admits
       THEN /\ request' = [request EXCEPT ![r] = Calls[request[r]]]
            /\ breaker' = State
            /\ counting' = counting \cup {r}
       ELSE /\ request' = [request EXCEPT ![r] = Refused[request[r]]]
            /\ UNCHANGED <<breaker, counting>>
    /\ UNCHANGED <<now, endpoint, since, stamp, keyVars, failures, retryAt, lastFailure>>

\* After a miss or an error the token is looked up in MySQL and written back.
EndRead(r) ==
    /\ request[r] = "reading"
    /\ \/ Succeeds(r) /\ request' = [request EXCEPT ![r] = "limit"]
       \/ (Misses(r) \/ Fails(r)) /\ request' = [request EXCEPT ![r] = "refill"]
    /\ UNCHANGED <<now, endpoint, since, stamp, keyVars>>

EndRefill(r) ==
    /\ request[r] = "refilling"
    /\ Succeeds(r) \/ Fails(r)
    /\ request' = [request EXCEPT ![r] = "limit"]
    /\ UNCHANGED <<now, endpoint, since, stamp, keyVars>>

-----------------------------------------------------------------------------
(* SlidingWindowLimit.                                                     *)

\* Without the breaker's consent the limiter is skipped, otherwise the request is
\* stamped by the clock of its API server.
SlidingWindowLimit(r) ==
    /\ request[r] = "limit"
    /\ IF State # "closed"
       THEN /\ request' = [request EXCEPT ![r] = "unlimited"]
            /\ UNCHANGED <<since, stamp>>
       ELSE /\ request' = [request EXCEPT ![r] = "script"]
            /\ since' = [since EXCEPT ![r] = now]
            /\ \E t \in (now - MaxSkew) .. (now + MaxSkew) : stamp' = [stamp EXCEPT ![r] = t]
    /\ UNCHANGED <<now, endpoint, keyVars, breakerVars>>

Decide(r, outcome) ==
    /\ request' = [request EXCEPT ![r] = outcome]
    /\ since' = [since EXCEPT ![r] = now]

\* As a bug: the time itself is the member, so equal stamps overwrite each other.
KeptByTime(r) == {q \in IF now < zsetExpires THEN zset ELSE {} :
                     stamp[q] > stamp[r] - Window /\ stamp[q] # stamp[r]}

\* ZREMRANGEBYSCORE key -inf now-window, on a key that may have expired.
Kept(r) == {q \in IF now < zsetExpires THEN zset ELSE {} : stamp[q] > stamp[r] - Window}

\* slidingWindowScript; when the answer gets lost, a refused request passes.
RunSliding(r) ==
    /\ endpoint = "like" /\ request[r] = "script"
    /\ IF Cardinality(Kept(r)) < MaxRequests
       THEN /\ zset' = Kept(r) \cup {r}
            /\ zsetExpires' = now + Window
            /\ Decide(r, "counted")
       ELSE /\ zset' = Kept(r)
            /\ UNCHANGED zsetExpires
            /\ \E outcome \in {"rejected"} \cup (IF RedisFails THEN {"unlimited"} ELSE {}) :
                  Decide(r, outcome)
    /\ UNCHANGED <<now, endpoint, stamp, counter, counterExpires, breakerVars>>

-----------------------------------------------------------------------------
(* Limit, the fixed window.                                                *)

\* As a bug: every request pushes the expiry away.
RunFixedExtends(r) ==
    LET count == (IF now < counterExpires THEN counter ELSE 0) + 1 IN
    /\ endpoint = "login" /\ request[r] = "script"
    /\ counter' = count
    /\ counterExpires' = now + Window
    /\ Decide(r, IF count > MaxRequests THEN "rejected" ELSE "counted")
    /\ UNCHANGED <<now, endpoint, stamp, zset, zsetExpires, breakerVars>>

\* As a bug: the expiry is counted from the start of the request.
RunFixedExpiresEarly(r) ==
    LET count == (IF now < counterExpires THEN counter ELSE 0) + 1 IN
    /\ endpoint = "login" /\ request[r] = "script"
    /\ counter' = count
    /\ counterExpires' = IF count = 1 THEN since[r] + Window ELSE counterExpires
    /\ Decide(r, IF count > MaxRequests THEN "rejected" ELSE "counted")
    /\ UNCHANGED <<now, endpoint, stamp, zset, zsetExpires, breakerVars>>

\* incrementWithExpireScript: INCR, and PEXPIRE for the first of a window.
RunFixed(r) ==
    LET count == (IF now < counterExpires THEN counter ELSE 0) + 1 IN
    /\ endpoint = "login" /\ request[r] = "script"
    /\ counter' = count
    /\ counterExpires' = IF count = 1 THEN now + Window ELSE counterExpires
    /\ IF count > MaxRequests
       THEN \E outcome \in {"rejected"} \cup (IF RedisFails THEN {"unlimited"} ELSE {}) :
               Decide(r, outcome)
       ELSE Decide(r, "counted")
    /\ UNCHANGED <<now, endpoint, stamp, zset, zsetExpires, breakerVars>>

\* Either script fails before it runs; the breaker does not hear of it.
ScriptFails(r) ==
    /\ RedisFails
    /\ request[r] = "script"
    /\ request' = [request EXCEPT ![r] = "unlimited"]
    /\ UNCHANGED <<now, endpoint, since, stamp, keyVars, breakerVars>>

-----------------------------------------------------------------------------
RequestNext(r) ==
    \/ Receive(r)
    \/ BeginCall(r)
    \/ EndRead(r)
    \/ EndRefill(r)
    \/ SlidingWindowLimit(r)
    \/ RunSliding(r)
    \/ RunFixed(r)
    \/ ScriptFails(r)

Next ==
    \/ Tick
    \/ IntervalEnds
    \/ \E r \in Requests : RequestNext(r)

Spec == Init /\ [][Next]_vars

-----------------------------------------------------------------------------
(* Properties.                                                             *)

\* What late and skewed timestamps can cost.
Slack == MaxDelay + 2 * MaxSkew

\* The requests counted in the last d units of time.
Recent(d) == {r \in Requests : request[r] = "counted" /\ since[r] > now - d}

\* No interval of length Window - Slack sees more than MaxRequests counted
\* requests, in whatever order the stamped requests reach Redis.
SlidingBound ==
    endpoint = "like" => Cardinality(Recent(Window - Slack)) <= MaxRequests

\* No interval of length Window sees more than twice MaxRequests counted logins.
FixedBound ==
    endpoint = "login" => Cardinality(Recent(Window)) <= 2 * MaxRequests

\* Whoever is refused has really used up the quota: MaxRequests others were
\* counted within the window before (and the slack); refused requests cost nothing.
Before(r, d) ==
    {q \in Requests : request[q] = "counted" /\ since[q] \in (since[r] - d + 1) .. since[r]}

RejectionJustified ==
    \A r \in Requests : request[r] = "rejected" =>
       Cardinality(Before(r, IF endpoint = "like" THEN Window + Slack ELSE Window)) >= MaxRequests

\* The limiter is skipped only in times of failure: a request that comes in more
\* than Timeout after the last failed call finds the breaker closed when it gets
\* to the limiter, by its own read if need be, unless another one's probe is still
\* out.  Misses, late results of earlier generations and the end of an interval
\* never open it.
LimitedWhenHealthy ==
    \A r \in Requests :
       /\ request[r] = "limit"
       /\ since[r] > lastFailure + Timeout
       => State = "closed" \/ (State = "half_open" /\ counting \ {r} # {})
=============================================================================
