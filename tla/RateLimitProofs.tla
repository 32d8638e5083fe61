-------------------------- MODULE RateLimitProofs --------------------------
(* Theorems about RateLimit, for any number of requests, any limit and     *)
(* window, any delay and skew of the timestamps.                           *)
EXTENDS RateLimit, FiniteSetTheorems, TLAPS

Counted == {r \in Requests : request[r] = "counted"}

\* When things happened, and what a stamp can be at that time.
Timed ==
    /\ \A r \in Requests : since[r] <= now
    /\ endpoint = "like" => \A r \in Requests :
          /\ request[r] = "script" =>
                /\ now <= since[r] + MaxDelay
                /\ since[r] - MaxSkew <= stamp[r] /\ stamp[r] <= since[r] + MaxSkew
          /\ request[r] = "counted" =>
                /\ since[r] - MaxDelay - MaxSkew <= stamp[r]
                /\ stamp[r] <= since[r] + MaxSkew

\* The sorted set has every recently counted request, and has never too many.
SlidingKept ==
    endpoint = "like" =>
       /\ zset \subseteq Counted
       /\ Cardinality(zset) <= MaxRequests
       /\ \A r \in Counted : since[r] + Window <= zsetExpires
       /\ Recent(Window - Slack) \subseteq zset

\* The fixed window began when its key was created.
Begin == counterExpires - Window
Current == {r \in Counted : since[r] >= Begin}
Previous == {r \in Counted : since[r] < Begin /\ since[r] > Begin - Window}

FixedKept ==
    endpoint = "login" =>
       /\ counter = 0 => Counted = {}
       /\ counter > 0 =>
             /\ Begin <= now
             /\ \A r \in Counted : since[r] < counterExpires
             /\ Cardinality(Current) = IF counter <= MaxRequests THEN counter ELSE MaxRequests
             /\ Cardinality(Previous) <= MaxRequests

\* While half open a probe is out, and only calls in flight are waited for.
BreakerWaits ==
    /\ lastFailure <= now
    /\ breaker # "closed" => retryAt <= lastFailure + Timeout
    /\ breaker = "open" => counting = {}
    /\ breaker = "half_open" => counting # {}
    /\ \A r \in counting : request[r] \in {"reading", "refilling"}
    /\ \A r \in Requests :
          /\ request[r] \in {"reading", "refill", "refilling", "limit"}
          /\ since[r] > lastFailure + Timeout
          => breaker # "open"

-----------------------------------------------------------------------------
(* The constants, and finite sets of requests.                             *)

LEMMA SlackTyped == Slack \in Nat
BY ClocksTyped DEF Slack

LEMMA RequestsSubset ==
    ASSUME NEW S \in SUBSET Requests
    PROVE  IsFiniteSet(S) /\ Cardinality(S) \in Nat
BY RequestsFinite, FS_Subset, FS_CardinalityType

LEMMA Smaller ==
    ASSUME NEW T \in SUBSET Requests, NEW S \in SUBSET T
    PROVE  Cardinality(S) <= Cardinality(T)
<1>1. IsFiniteSet(T)  BY RequestsSubset
<1> QED  BY <1>1, FS_Subset

-----------------------------------------------------------------------------
(* Type correctness.                                                       *)

\* What a call that ends does to the breaker keeps it typed.
LEMMA SucceedsTyped ==
    ASSUME TypeOK, NEW r \in Requests, Succeeds(r)
    PROVE  /\ breaker' \in {"closed", "open", "half_open"}
           /\ failures' \in 0 .. ConsecutiveFailures - 1
           /\ counting' \in SUBSET Requests
           /\ retryAt' = retryAt /\ lastFailure' = lastFailure
BY BreakerTyped DEF TypeOK, Succeeds

LEMMA FailsTyped ==
    ASSUME TypeOK, NEW r \in Requests, Fails(r)
    PROVE  /\ breaker' \in {"closed", "open", "half_open"}
           /\ failures' \in 0 .. ConsecutiveFailures - 1
           /\ counting' \in SUBSET Requests
           /\ retryAt' \in Nat /\ lastFailure' \in Int
BY BreakerTyped DEF TypeOK, Fails, Trip

\* A decided request.
LEMMA DecideTyped ==
    ASSUME TypeOK, NEW r \in Requests, NEW outcome \in Outcomes, Decide(r, outcome)
    PROVE  /\ request' \in [Requests -> Steps \cup Outcomes]
           /\ since' \in [Requests -> Nat]
           /\ request'[r] = outcome /\ since'[r] = now
           /\ \A q \in Requests \ {r} : request'[q] = request[q] /\ since'[q] = since[q]
BY DEF TypeOK, Decide

LEMMA KeptSubset ==
    ASSUME TypeOK, NEW r \in Requests
    PROVE  Kept(r) \in SUBSET zset /\ Kept(r) \in SUBSET Requests
BY DEF TypeOK, Kept

LEMMA TypeInit == ASSUME Init PROVE TypeOK
BY BreakerTyped DEF Init, TypeOK, Steps

LEMMA TypeStep == ASSUME TypeOK, [Next]_vars PROVE TypeOK'
<1>1. CASE Tick  BY <1>1 DEF TypeOK, Tick, requestVars, keyVars, breakerVars
<1>2. CASE IntervalEnds
  BY <1>2, BreakerTyped DEF TypeOK, IntervalEnds, requestVars, keyVars
<1>3. CASE UNCHANGED vars
  BY <1>3 DEF TypeOK, vars, requestVars, keyVars, breakerVars
<1>4. ASSUME NEW r \in Requests, RequestNext(r)
      PROVE  TypeOK'
  <2>1. CASE Receive(r)
    BY <2>1 DEF TypeOK, Receive, Steps, keyVars, breakerVars
  <2>2. CASE BeginCall(r)
    <3>1. request[r] \in {"read", "refill"}  BY <2>2 DEF BeginCall, Calls
    <3>2. Calls["read"] = "reading" /\ Calls["refill"] = "refilling"  BY DEF Calls
    <3>3. Refused["read"] = "refill" /\ Refused["refill"] = "limit"  BY DEF Refused
    <3>4. Calls[request[r]] \in Steps /\ Refused[request[r]] \in Steps
      BY <3>1, <3>2, <3>3 DEF Steps
    <3>5. State \in {"closed", "open", "half_open"}  BY DEF TypeOK, State
    <3> QED  BY <2>2, <3>4, <3>5 DEF TypeOK, BeginCall, keyVars
  <2>3. CASE EndRead(r)
    <3>1. request' \in [Requests -> Steps \cup Outcomes]
      BY <2>3 DEF TypeOK, EndRead, Steps
    <3>2. Succeeds(r) \/ Fails(r)  BY <2>3 DEF EndRead, Misses
    <3> QED  BY <2>3, <3>1, <3>2, SucceedsTyped, FailsTyped DEF TypeOK, EndRead, keyVars
  <2>4. CASE EndRefill(r)
    <3>1. request' \in [Requests -> Steps \cup Outcomes]
      BY <2>4 DEF TypeOK, EndRefill, Steps
    <3> QED  BY <2>4, <3>1, SucceedsTyped, FailsTyped DEF TypeOK, EndRefill, keyVars
  <2>5. CASE SlidingWindowLimit(r)
    BY <2>5, ClocksTyped DEF TypeOK, SlidingWindowLimit, Steps, Outcomes, keyVars, breakerVars
  <2>6. CASE RunSliding(r)
    <3>1. Kept(r) \cup {r} \in SUBSET Requests  BY KeptSubset
    <3>2. zset' \in SUBSET Requests  BY <2>6, <3>1, KeptSubset DEF RunSliding
    <3>3. zsetExpires' \in Nat  BY <2>6, LimitTyped DEF TypeOK, RunSliding
    <3>4. \E outcome \in Outcomes : Decide(r, outcome)  BY <2>6 DEF RunSliding, Outcomes
    <3>5. request' \in [Requests -> Steps \cup Outcomes] /\ since' \in [Requests -> Nat]
      BY <3>4, DecideTyped
    <3> QED  BY <2>6, <3>2, <3>3, <3>5 DEF TypeOK, RunSliding, breakerVars
  <2>7. CASE RunFixed(r)
    <3>1. counter' \in Nat /\ counterExpires' \in Nat
      BY <2>7, LimitTyped DEF TypeOK, RunFixed
    <3>2. \E outcome \in Outcomes : Decide(r, outcome)  BY <2>7 DEF RunFixed, Outcomes
    <3>3. request' \in [Requests -> Steps \cup Outcomes] /\ since' \in [Requests -> Nat]
      BY <3>2, DecideTyped
    <3> QED  BY <2>7, <3>1, <3>3 DEF TypeOK, RunFixed, breakerVars
  <2>8. CASE ScriptFails(r)
    BY <2>8 DEF TypeOK, ScriptFails, Outcomes, keyVars, breakerVars
  <2> QED  BY <1>4, <2>1, <2>2, <2>3, <2>4, <2>5, <2>6, <2>7, <2>8 DEF RequestNext
<1> QED  BY <1>1, <1>2, <1>3, <1>4 DEF Next

\* RateLimit keeps its types; the consecutive failures of a closed breaker stay
\* below the number that opens it.
THEOREM TypeCorrect == Spec => []TypeOK
<1>1. Init => TypeOK  BY TypeInit
<1>2. TypeOK /\ [Next]_vars => TypeOK'  BY TypeStep
<1> QED  BY <1>1, <1>2, PTL DEF Spec

-----------------------------------------------------------------------------
(* What the steps do to the requests that are decided.                     *)

\* What a step leaves of the decisions that were taken before it.
Keeps(S) ==
    \A q \in S : request'[q] = request[q] /\ since'[q] = since[q] /\ stamp'[q] = stamp[q]

Decided == {r \in Requests : request[r] \in {"counted", "rejected"}}

\* The steps before a script and its failure decide nothing.
Undecided(r) ==
    \/ Receive(r)
    \/ BeginCall(r)
    \/ EndRead(r)
    \/ EndRefill(r)
    \/ SlidingWindowLimit(r)
    \/ ScriptFails(r)

LEMMA UndecidedKeeps ==
    ASSUME TypeOK, NEW r \in Requests, Undecided(r)
    PROVE  /\ Keeps(Requests \ {r}) /\ Keeps(Decided)
           /\ request'[r] \notin {"counted", "rejected"}
           /\ Counted' = Counted /\ Decided' = Decided
           /\ UNCHANGED <<now, endpoint, keyVars>>
<1>1. /\ request[r] \notin {"counted", "rejected"}
      /\ request'[r] \notin {"counted", "rejected"}
      /\ Keeps(Requests \ {r})
      /\ UNCHANGED <<now, endpoint, keyVars>>
  <2>1. CASE Receive(r)  BY <2>1 DEF TypeOK, Receive, Keeps
  <2>2. CASE BeginCall(r)
    <3>1. request[r] \in {"read", "refill"}  BY <2>2 DEF BeginCall, Calls
    <3>2. Calls["read"] = "reading" /\ Calls["refill"] = "refilling"  BY DEF Calls
    <3>3. Refused["read"] = "refill" /\ Refused["refill"] = "limit"  BY DEF Refused
    <3>4. /\ Calls[request[r]] \notin {"counted", "rejected"}
          /\ Refused[request[r]] \notin {"counted", "rejected"}
      BY <3>1, <3>2, <3>3
    <3> QED  BY <2>2, <3>1, <3>4 DEF TypeOK, BeginCall, Keeps
  <2>3. CASE EndRead(r)  BY <2>3 DEF TypeOK, EndRead, Keeps
  <2>4. CASE EndRefill(r)  BY <2>4 DEF TypeOK, EndRefill, Keeps
  <2>5. CASE SlidingWindowLimit(r)  BY <2>5 DEF TypeOK, SlidingWindowLimit, Keeps
  <2>6. CASE ScriptFails(r)  BY <2>6 DEF TypeOK, ScriptFails, Keeps
  <2> QED  BY <2>1, <2>2, <2>3, <2>4, <2>5, <2>6 DEF Undecided
<1>2. \A q \in Requests : request'[q] \in {"counted", "rejected"} => q # r  BY <1>1
<1>3. Counted' = Counted /\ Decided' = Decided  BY <1>1, <1>2 DEF Counted, Decided, Keeps
<1> QED  BY <1>1, <1>3 DEF Keeps, Decided

\* A script decides about r and nobody else.
LEMMA ScriptKeeps ==
    ASSUME TypeOK, NEW r \in Requests, RunSliding(r) \/ RunFixed(r)
    PROVE  /\ request[r] = "script" /\ since'[r] = now /\ stamp' = stamp
           /\ request'[r] \in Outcomes
           /\ Keeps(Requests \ {r}) /\ Keeps(Decided)
           /\ Counted' = IF request'[r] = "counted" THEN Counted \cup {r} ELSE Counted
           /\ r \notin Counted
           /\ UNCHANGED <<now, endpoint, breakerVars>>
<1>1. \E outcome \in Outcomes : Decide(r, outcome)
  BY DEF RunSliding, RunFixed, Outcomes
<1>2. request[r] = "script" /\ stamp' = stamp /\ UNCHANGED <<now, endpoint, breakerVars>>
  BY DEF RunSliding, RunFixed
<1>3. /\ request'[r] \in Outcomes /\ since'[r] = now
      /\ \A q \in Requests \ {r} : request'[q] = request[q] /\ since'[q] = since[q]
  BY <1>1, DecideTyped
<1>4. Keeps(Requests \ {r})  BY <1>2, <1>3 DEF Keeps
<1>5. Counted' = IF request'[r] = "counted" THEN Counted \cup {r} ELSE Counted
  BY <1>2, <1>3 DEF Counted
<1> QED  BY <1>2, <1>3, <1>4, <1>5 DEF Keeps, Decided, Counted

LEMMA NextCases ==
    ASSUME [Next]_vars
    PROVE  \/ Tick
           \/ IntervalEnds
           \/ UNCHANGED vars
           \/ \E r \in Requests : Undecided(r)
           \/ \E r \in Requests : RunSliding(r)
           \/ \E r \in Requests : RunFixed(r)
BY DEF Next, RequestNext, Undecided

\* Everything but time and the requests on their way stays.
LEMMA IdleSteps ==
    ASSUME TypeOK, Tick \/ IntervalEnds \/ UNCHANGED vars
    PROVE  /\ Keeps(Requests) /\ Counted' = Counted /\ Decided' = Decided
           /\ UNCHANGED <<endpoint, requestVars, keyVars>>
           /\ now' \in Nat /\ now <= now'
BY DEF TypeOK, Tick, IntervalEnds, vars, requestVars, Keeps, Counted, Decided

-----------------------------------------------------------------------------
(* Time.                                                                   *)

LEMMA TimedStep == ASSUME TypeOK, Timed, [Next]_vars PROVE Timed'
<1> USE ClocksTyped
<1>1. ASSUME Tick PROVE Timed'
  BY <1>1 DEF TypeOK, Timed, Tick, requestVars
<1>2. CASE IntervalEnds \/ UNCHANGED vars
  BY <1>2 DEF Timed, IntervalEnds, vars, requestVars
<1>3. ASSUME NEW r \in Requests, Undecided(r) PROVE Timed'
  <2>1. /\ Keeps(Requests \ {r}) /\ request'[r] # "counted"
        /\ UNCHANGED <<now, endpoint>>
    BY <1>3, UndecidedKeeps
  <2>2. /\ since'[r] <= now
        /\ endpoint = "like" /\ request'[r] = "script" =>
              /\ now <= since'[r] + MaxDelay
              /\ since'[r] - MaxSkew <= stamp'[r] /\ stamp'[r] <= since'[r] + MaxSkew
    <3>1. CASE Receive(r)  BY <3>1 DEF TypeOK, Receive
    <3>2. CASE BeginCall(r)
      <4>1. request[r] \in {"read", "refill"}  BY <3>2 DEF BeginCall, Calls
      <4>2. Calls["read"] = "reading" /\ Calls["refill"] = "refilling"  BY DEF Calls
      <4>3. Refused["read"] = "refill" /\ Refused["refill"] = "limit"  BY DEF Refused
      <4> QED  BY <3>2, <4>1, <4>2, <4>3 DEF TypeOK, Timed, BeginCall
    <3>3. CASE EndRead(r)  BY <3>3 DEF TypeOK, Timed, EndRead
    <3>4. CASE EndRefill(r)  BY <3>4 DEF TypeOK, Timed, EndRefill
    <3>5. CASE SlidingWindowLimit(r)  BY <3>5 DEF TypeOK, Timed, SlidingWindowLimit
    <3>6. CASE ScriptFails(r)  BY <3>6 DEF TypeOK, Timed, ScriptFails
    <3> QED  BY <1>3, <3>1, <3>2, <3>3, <3>4, <3>5, <3>6 DEF Undecided
  <2> QED  BY <2>1, <2>2 DEF Timed, Keeps
<1>4. ASSUME NEW r \in Requests, RunSliding(r) \/ RunFixed(r) PROVE Timed'
  <2>1. /\ request[r] = "script" /\ since'[r] = now /\ stamp' = stamp
        /\ request'[r] \in Outcomes /\ Keeps(Requests \ {r}) /\ UNCHANGED <<now, endpoint>>
    BY <1>4, ScriptKeeps
  <2>2. now \in Nat /\ since[r] \in Nat /\ stamp[r] \in Int  BY DEF TypeOK
  <2>3. endpoint = "like" => /\ since'[r] - MaxDelay - MaxSkew <= stamp'[r]
                             /\ stamp'[r] <= since'[r] + MaxSkew
    BY <2>1, <2>2 DEF Timed
  <2> QED  BY <2>1, <2>2, <2>3 DEF Timed, Keeps, Outcomes
<1> QED  BY <1>1, <1>2, <1>3, <1>4, NextCases

-----------------------------------------------------------------------------
(* The sliding window.                                                     *)

\* A script still finds everything that was counted recently.
LEMMA RecentKept ==
    ASSUME TypeOK, Timed, SlidingKept, endpoint = "like",
           NEW r \in Requests, request[r] = "script"
    PROVE  Recent(Window - Slack) \subseteq Kept(r)
<1> SUFFICES ASSUME NEW q \in Recent(Window - Slack) PROVE q \in Kept(r)
  OBVIOUS
<1>1. q \in Requests /\ request[q] = "counted" /\ since[q] > now - (Window - Slack)
  BY DEF Recent
<1>2. q \in zset /\ since[q] + Window <= zsetExpires  BY <1>1 DEF SlidingKept, Counted
<1>3. /\ now \in Nat /\ since[q] \in Nat /\ since[r] \in Nat /\ stamp[q] \in Int
      /\ stamp[r] \in Int /\ zsetExpires \in Nat /\ Window \in Nat
      /\ MaxDelay \in Nat /\ MaxSkew \in Nat
  BY <1>1, ClocksTyped, LimitTyped DEF TypeOK
<1>4. now < zsetExpires  BY <1>1, <1>2, <1>3, SlackTyped
<1>5. since[q] - MaxDelay - MaxSkew <= stamp[q]  BY <1>1 DEF Timed
<1>6. stamp[r] <= since[r] + MaxSkew /\ since[r] <= now  BY DEF Timed
<1>7. since[q] > now - (Window - (MaxDelay + 2 * MaxSkew))  BY <1>1 DEF Slack
<1>8. stamp[q] > stamp[r] - Window  BY <1>3, <1>5, <1>6, <1>7
<1> QED  BY <1>2, <1>4, <1>8 DEF Kept

LEMMA SlidingStep ==
    ASSUME TypeOK, Timed, SlidingKept, [Next]_vars PROVE SlidingKept'
<1> SUFFICES ASSUME endpoint' = "like" PROVE SlidingKept'
  BY DEF SlidingKept
<1> USE LimitTyped, SlackTyped
<1>1. CASE Tick \/ IntervalEnds \/ UNCHANGED vars
  <2>1. /\ endpoint = "like" /\ Counted' = Counted /\ now' \in Nat /\ now <= now'
        /\ UNCHANGED <<requestVars, zset, zsetExpires>>
    BY <1>1, IdleSteps DEF keyVars
  <2>2. Recent(Window - Slack)' \subseteq Recent(Window - Slack)
    BY <2>1 DEF TypeOK, Recent, requestVars
  <2> QED  BY <2>1, <2>2 DEF SlidingKept, requestVars
<1>2. ASSUME NEW r \in Requests, Undecided(r) PROVE SlidingKept'
  <2>1. /\ endpoint = "like" /\ Counted' = Counted /\ now' = now /\ Keeps(Counted)
        /\ UNCHANGED <<zset, zsetExpires>>
    BY <1>2, UndecidedKeeps DEF keyVars, Keeps, Decided, Counted
  <2>2. Recent(Window - Slack)' \subseteq Recent(Window - Slack)
    BY <2>1 DEF Recent, Counted, Keeps
  <2> QED  BY <2>1, <2>2 DEF SlidingKept, Keeps
<1>3. ASSUME NEW r \in Requests, RunSliding(r) PROVE SlidingKept'
  <2>1. /\ request[r] = "script" /\ since'[r] = now /\ now' = now /\ endpoint = "like"
        /\ Keeps(Requests \ {r}) /\ r \notin Counted
        /\ Counted' = IF request'[r] = "counted" THEN Counted \cup {r} ELSE Counted
    BY <1>3, ScriptKeeps
  <2>2. Recent(Window - Slack) \subseteq Kept(r)  BY <2>1, RecentKept
  <2>3. Recent(Window - Slack)' \subseteq Recent(Window - Slack) \cup {r}
    BY <2>1 DEF Recent, Keeps
  <2>4. Kept(r) \subseteq zset /\ r \notin Kept(r) /\ zset \subseteq Counted
    BY <2>1, KeptSubset DEF SlidingKept
  <2>5. CASE Cardinality(Kept(r)) < MaxRequests
    <3>1. /\ zset' = Kept(r) \cup {r} /\ zsetExpires' = now + Window
          /\ request'[r] = "counted"
      BY <1>3, <2>5 DEF RunSliding, Decide, TypeOK
    <3>2. Cardinality(zset') <= MaxRequests
      <4>1. IsFiniteSet(Kept(r)) /\ Cardinality(Kept(r)) \in Nat
        BY KeptSubset, RequestsSubset
      <4>2. Cardinality(Kept(r) \cup {r}) = Cardinality(Kept(r)) + 1
        BY <4>1, <2>4, FS_AddElement
      <4> QED  BY <2>5, <3>1, <4>1, <4>2
    <3>3. \A q \in Counted' : since'[q] + Window <= zsetExpires'
      <4>1. \A q \in Requests : since'[q] <= now /\ since'[q] \in Nat
        BY <2>1 DEF Timed, TypeOK, Keeps
      <4> QED  BY <3>1, <4>1 DEF TypeOK, Counted
    <3> QED  BY <2>1, <2>2, <2>3, <2>4, <3>1, <3>2, <3>3 DEF SlidingKept
  <2>6. CASE ~(Cardinality(Kept(r)) < MaxRequests)
    <3>1. zset' = Kept(r) /\ zsetExpires' = zsetExpires /\ request'[r] # "counted"
      BY <1>3, <2>6 DEF RunSliding, Decide, TypeOK
    <3>2. Recent(Window - Slack)' \subseteq Recent(Window - Slack)
      BY <2>3, <3>1 DEF Recent
    <3>3. Cardinality(zset') <= MaxRequests
      <4>1. Cardinality(Kept(r)) <= Cardinality(zset)
        BY KeptSubset, Smaller DEF TypeOK
      <4>2. Cardinality(Kept(r)) \in Nat /\ Cardinality(zset) \in Nat
        BY KeptSubset, RequestsSubset DEF TypeOK
      <4> QED  BY <2>1, <3>1, <4>1, <4>2 DEF SlidingKept
    <3>4. \A q \in Counted' : since'[q] + Window <= zsetExpires'
      BY <2>1, <3>1 DEF SlidingKept, Keeps, Counted
    <3> QED  BY <2>1, <2>2, <2>4, <3>1, <3>2, <3>3, <3>4 DEF SlidingKept
  <2> QED  BY <2>5, <2>6
<1>4. ASSUME NEW r \in Requests, RunFixed(r) PROVE SlidingKept'
  BY <1>4 DEF RunFixed, SlidingKept
<1> QED  BY <1>1, <1>2, <1>3, <1>4, NextCases

LEMMA SlidingKeptBounds == ASSUME TypeOK, SlidingKept PROVE SlidingBound
<1> SUFFICES ASSUME endpoint = "like"
             PROVE  Cardinality(Recent(Window - Slack)) <= MaxRequests
  BY DEF SlidingBound
<1>1. Cardinality(Recent(Window - Slack)) <= Cardinality(zset)
  BY Smaller DEF SlidingKept, TypeOK
<1>2. Cardinality(Recent(Window - Slack)) \in Nat /\ Cardinality(zset) \in Nat
  BY RequestsSubset DEF Recent, TypeOK
<1> QED  BY <1>1, <1>2, LimitTyped DEF SlidingKept

LEMMA SlidingInit == ASSUME Init PROVE Timed /\ SlidingKept
<1>1. Counted = {} /\ Recent(Window - Slack) = {}  BY DEF Init, Counted, Recent
<1>2. Cardinality({}) = 0  BY FS_EmptySet
<1> QED  BY <1>1, <1>2, LimitTyped DEF Init, Timed, SlidingKept

\* However late and skewed the stamps are within their bounds, no interval of
\* length Window - Slack has more than MaxRequests counted requests.
THEOREM SlidingBoundCorrect == Spec => []SlidingBound
<1> DEFINE I == TypeOK /\ Timed /\ SlidingKept
<1>1. Init => I  BY TypeInit, SlidingInit
<1>2. I /\ [Next]_vars => I'  BY TypeStep, TimedStep, SlidingStep
<1>3. I => SlidingBound  BY SlidingKeptBounds
<1> QED  BY <1>1, <1>2, <1>3, PTL DEF Spec

-----------------------------------------------------------------------------
(* The fixed window.                                                       *)

LEMMA FixedStep ==
    ASSUME TypeOK, Timed, FixedKept, [Next]_vars PROVE FixedKept'
<1> SUFFICES ASSUME endpoint' = "login" PROVE FixedKept'
  BY DEF FixedKept
<1> USE LimitTyped
<1>1. CASE Tick \/ IntervalEnds \/ UNCHANGED vars
  <2>1. /\ endpoint = "login" /\ Counted' = Counted /\ now' \in Nat /\ now <= now'
        /\ UNCHANGED <<requestVars, counter, counterExpires>>
    BY <1>1, IdleSteps DEF keyVars
  <2>2. Begin' = Begin /\ Current' = Current /\ Previous' = Previous
    BY <2>1 DEF Begin, Current, Previous, requestVars
  <2> QED  BY <2>1, <2>2 DEF TypeOK, FixedKept, Begin, requestVars
<1>2. ASSUME NEW r \in Requests, Undecided(r) PROVE FixedKept'
  <2>1. /\ endpoint = "login" /\ Counted' = Counted /\ now' = now /\ Keeps(Counted)
        /\ UNCHANGED <<counter, counterExpires>>
    BY <1>2, UndecidedKeeps DEF keyVars, Keeps, Decided, Counted
  <2>2. Begin' = Begin /\ Current' = Current /\ Previous' = Previous
    BY <2>1 DEF Begin, Current, Previous, Keeps
  <2> QED  BY <2>1, <2>2 DEF FixedKept, Keeps
<1>3. ASSUME NEW r \in Requests, RunFixed(r) PROVE FixedKept'
  <2> DEFINE count == (IF now < counterExpires THEN counter ELSE 0) + 1
  <2>1. /\ since'[r] = now /\ now' = now /\ endpoint = "login"
        /\ Keeps(Requests \ {r}) /\ r \notin Counted
        /\ Counted' = IF request'[r] = "counted" THEN Counted \cup {r} ELSE Counted
    BY <1>3, ScriptKeeps DEF RunFixed
  <2>2. \A q \in Counted : q # r /\ since'[q] = since[q]  BY <2>1 DEF Counted, Keeps
  <2>3. /\ counter' = count
        /\ counterExpires' = IF count = 1 THEN now + Window ELSE counterExpires
        /\ request'[r] = "counted" <=> count <= MaxRequests
    BY <1>3 DEF RunFixed, Decide, TypeOK
  <2>4. /\ now \in Nat /\ counter \in Nat /\ counterExpires \in Nat /\ count \in Nat
        /\ \A q \in Requests : since[q] \in Nat /\ since[q] <= now
    BY DEF TypeOK, Timed
  <2>5. CASE count = 1
    <3>1. Counted' = Counted \cup {r}  BY <2>1, <2>3, <2>5
    <3>2. counterExpires' = now + Window /\ Begin' = now  BY <2>3, <2>4, <2>5 DEF Begin
    <3>3. counter = 0 \/ counterExpires <= now  BY <2>4, <2>5
    <3>4. \A q \in Counted : counter > 0 /\ since[q] < now
      <4>1. CASE counter = 0  BY <2>1, <4>1 DEF FixedKept
      <4>2. CASE counter # 0 /\ counterExpires <= now
        <5>1. counter > 0  BY <2>4, <4>2
        <5>2. \A q \in Counted : since[q] < counterExpires  BY <2>1, <5>1 DEF FixedKept
        <5> QED  BY <2>4, <4>2, <5>1, <5>2 DEF Counted
      <4> QED  BY <3>3, <4>1, <4>2
    <3>5. Current' = {r}
      BY <2>1, <2>2, <2>4, <3>1, <3>2, <3>4 DEF Current, Counted
    <3>6. Previous' \subseteq Current
      <4> SUFFICES ASSUME NEW q \in Previous' PROVE q \in Current
        OBVIOUS
      <4>1. q \in Counted' /\ since'[q] < now /\ since'[q] > now - Window
        BY <3>2 DEF Previous
      <4>0. q # r  BY <2>1, <2>4, <4>1
      <4>2. q \in Counted /\ since[q] > now - Window  BY <2>2, <3>1, <4>0, <4>1
      <4>3. counterExpires <= now  BY <3>3, <3>4, <4>2, <2>4
      <4> QED  BY <2>4, <4>2, <4>3 DEF Current, Begin, Counted
    <3>7. Cardinality(Previous') <= MaxRequests
      <4>1. CASE Previous' = {}  BY <4>1, FS_EmptySet
      <4>2. CASE Previous' # {}
        <5>1. counter > 0  BY <3>4, <3>6, <4>2 DEF Current
        <5>2. Cardinality(Current) <= MaxRequests  BY <2>1, <2>4, <5>1 DEF FixedKept
        <5>3. Cardinality(Previous') <= Cardinality(Current)
          BY <3>6, Smaller DEF Current, Counted
        <5>4. Cardinality(Previous') \in Nat /\ Cardinality(Current) \in Nat
          BY <3>6, RequestsSubset DEF Current, Counted
        <5> QED  BY <5>2, <5>3, <5>4
      <4> QED  BY <4>1, <4>2
    <3>8. Cardinality(Current') = 1  BY <3>5, FS_Singleton
    <3>9. \A q \in Counted' : since'[q] < counterExpires'
      BY <2>1, <2>2, <2>4, <3>1, <3>2 DEF Counted
    <3> QED  BY <2>1, <2>3, <2>4, <2>5, <3>2, <3>7, <3>8, <3>9 DEF FixedKept
  <2>6. CASE count # 1
    <3>1. now < counterExpires /\ counter > 0 /\ count = counter + 1  BY <2>4, <2>6
    <3>2. counterExpires' = counterExpires /\ Begin' = Begin /\ Begin <= now
      BY <2>1, <2>3, <2>6, <3>1 DEF Begin, FixedKept
    <3>3. /\ Cardinality(Current) = IF counter <= MaxRequests THEN counter ELSE MaxRequests
          /\ Cardinality(Previous) <= MaxRequests
          /\ \A q \in Counted : since[q] < counterExpires
      BY <2>1, <3>1 DEF FixedKept
    <3>4. Previous' = Previous
      <4>1. ~(since'[r] < Begin) /\ Counted' \subseteq Counted \cup {r}
        BY <2>1, <2>4, <3>2 DEF Begin
      <4>2. Counted \subseteq Counted'  BY <2>1
      <4> QED  BY <2>2, <3>2, <4>1, <4>2 DEF Previous
    <3>5. Current' = IF count <= MaxRequests THEN Current \cup {r} ELSE Current
      BY <2>1, <2>2, <2>3, <2>4, <3>2 DEF Current, Counted
    <3>6. IsFiniteSet(Current) /\ r \notin Current
      BY <2>1, RequestsSubset DEF Current, Counted
    <3>7. Cardinality(Current \cup {r}) = Cardinality(Current) + 1
      BY <3>6, FS_AddElement
    <3>8. Cardinality(Current') = IF count <= MaxRequests THEN count ELSE MaxRequests
      BY <2>4, <3>1, <3>3, <3>5, <3>7
    <3>9. \A q \in Counted' : since'[q] < counterExpires'
      BY <2>1, <2>2, <2>4, <3>1, <3>2, <3>3
    <3> QED  BY <2>1, <2>3, <2>4, <3>1, <3>2, <3>3, <3>4, <3>8, <3>9 DEF FixedKept
  <2> QED  BY <2>5, <2>6
<1>4. ASSUME NEW r \in Requests, RunSliding(r) PROVE FixedKept'
  BY <1>4 DEF RunSliding, FixedKept
<1> QED  BY <1>1, <1>2, <1>3, <1>4, NextCases

LEMMA FixedKeptBounds == ASSUME TypeOK, Timed, FixedKept PROVE FixedBound
<1> USE LimitTyped
<1> SUFFICES ASSUME endpoint = "login"
             PROVE  Cardinality(Recent(Window)) <= 2 * MaxRequests
  BY DEF FixedBound
<1>1. CASE counter = 0
  <2>1. Recent(Window) = {}  BY <1>1 DEF FixedKept, Recent, Counted
  <2> QED  BY <2>1, FS_EmptySet
<1>2. CASE counter # 0
  <2>1. counter > 0 /\ Begin <= now /\ Begin \in Int /\ now \in Nat
    BY <1>2 DEF TypeOK, FixedKept, Begin
  <2>2. Recent(Window) \subseteq Current \cup Previous
    BY <2>1 DEF TypeOK, Recent, Current, Previous, Counted
  <2>3. Current \in SUBSET Requests /\ Previous \in SUBSET Requests
    BY DEF Current, Previous, Counted
  <2>4. /\ IsFiniteSet(Current) /\ IsFiniteSet(Previous)
        /\ Cardinality(Current) \in Nat /\ Cardinality(Previous) \in Nat
        /\ Cardinality(Current \cap Previous) \in Nat
    BY <2>3, RequestsSubset
  <2>5. Cardinality(Current \cup Previous)
           = Cardinality(Current) + Cardinality(Previous) - Cardinality(Current \cap Previous)
    BY <2>4, FS_Union
  <2>6. Cardinality(Recent(Window)) <= Cardinality(Current \cup Previous)
    BY <2>2, <2>3, Smaller
  <2>7. Cardinality(Current) <= MaxRequests /\ Cardinality(Previous) <= MaxRequests
    BY <2>1 DEF FixedKept, TypeOK
  <2>8. Cardinality(Recent(Window)) \in Nat  BY RequestsSubset DEF Recent
  <2> QED  BY <2>4, <2>5, <2>6, <2>7, <2>8
<1> QED  BY <1>1, <1>2

LEMMA FixedInit == ASSUME Init PROVE FixedKept
BY DEF Init, FixedKept, Counted

\* No interval of length Window has more than 2 * MaxRequests counted logins: it
\* meets at most two lives of the key.
THEOREM FixedBoundCorrect == Spec => []FixedBound
<1> DEFINE I == TypeOK /\ Timed /\ FixedKept
<1>1. Init => I  BY TypeInit, SlidingInit, FixedInit
<1>2. I /\ [Next]_vars => I'  BY TypeStep, TimedStep, FixedStep
<1>3. I => FixedBound  BY FixedKeptBounds
<1> QED  BY <1>1, <1>2, <1>3, PTL DEF Spec

-----------------------------------------------------------------------------
(* Refusals.                                                               *)

LEMMA BeforeKept ==
    ASSUME TypeOK, Keeps(Decided), NEW r \in Decided, NEW d \in Int
    PROVE  Before(r, d) \subseteq Before(r, d)'
<1> SUFFICES ASSUME NEW q \in Before(r, d) PROVE q \in Before(r, d)'
  OBVIOUS
<1>1. q \in Decided /\ since'[q] = since[q] /\ request'[q] = request[q]
  BY DEF Before, Decided, Keeps
<1>2. since'[r] = since[r]  BY DEF Keeps
<1> QED  BY <1>1, <1>2 DEF Before

LEMMA JustifiedStep ==
    ASSUME TypeOK, Timed, SlidingKept, FixedKept, RejectionJustified, [Next]_vars
    PROVE  RejectionJustified'
<1> USE LimitTyped, SlackTyped
<1> DEFINE D == IF endpoint = "like" THEN Window + Slack ELSE Window
<1>1. D \in Int /\ D' = (IF endpoint' = "like" THEN Window + Slack ELSE Window)
  BY DEF Slack
<1>2. ASSUME Keeps(Decided), endpoint' = endpoint,
             NEW r \in Decided, request'[r] = "rejected"
      PROVE  Cardinality(Before(r, D)') >= MaxRequests
  <2>1. request[r] = "rejected" /\ r \in Requests  BY <1>2 DEF Keeps, Decided
  <2>2. Cardinality(Before(r, D)) >= MaxRequests  BY <2>1 DEF RejectionJustified
  <2>3. Before(r, D) \subseteq Before(r, D)'  BY <1>1, <1>2, BeforeKept
  <2>4. Before(r, D)' \in SUBSET Requests /\ Before(r, D) \in SUBSET Requests
    BY DEF Before
  <2>5. Cardinality(Before(r, D)) <= Cardinality(Before(r, D)')
    BY <2>3, <2>4, Smaller
  <2>6. Cardinality(Before(r, D)) \in Nat /\ Cardinality(Before(r, D)') \in Nat
    BY <2>4, RequestsSubset
  <2> QED  BY <2>2, <2>5, <2>6
<1>3. ASSUME Keeps(Decided), endpoint' = endpoint,
             \A r \in Requests : request'[r] = "rejected" => r \in Decided
      PROVE  RejectionJustified'
  <2> SUFFICES ASSUME NEW r \in Requests, request'[r] = "rejected"
               PROVE  Cardinality(Before(r, D)') >= MaxRequests
    BY DEF RejectionJustified
  <2> QED  BY <1>2, <1>3
<1>4. CASE Tick \/ IntervalEnds \/ UNCHANGED vars
  <2>1. Keeps(Decided) /\ endpoint' = endpoint /\ Decided' = Decided
    BY <1>4, IdleSteps DEF Keeps, Decided
  <2> QED  BY <1>3, <2>1 DEF Decided
<1>5. ASSUME NEW x \in Requests, Undecided(x) PROVE RejectionJustified'
  <2>1. Keeps(Decided) /\ endpoint' = endpoint /\ Decided' = Decided
    BY <1>5, UndecidedKeeps
  <2> QED  BY <1>3, <2>1 DEF Decided
<1>6. ASSUME NEW x \in Requests, RunSliding(x) \/ RunFixed(x),
             request'[x] = "rejected" => Cardinality(Before(x, D)') >= MaxRequests
      PROVE  RejectionJustified'
  <2>1. Keeps(Decided) /\ Keeps(Requests \ {x}) /\ endpoint' = endpoint
    BY <1>6, ScriptKeeps
  <2> SUFFICES ASSUME NEW r \in Requests, request'[r] = "rejected"
               PROVE  Cardinality(Before(r, D)') >= MaxRequests
    BY <2>1 DEF RejectionJustified
  <2>2. r # x => r \in Decided  BY <2>1 DEF Keeps, Decided
  <2> QED  BY <1>2, <1>6, <2>1, <2>2
<1>7. ASSUME NEW x \in Requests, RunSliding(x) PROVE RejectionJustified'
  <2> SUFFICES ASSUME request'[x] = "rejected"
               PROVE  Cardinality(Before(x, D)') >= MaxRequests
    BY <1>6, <1>7
  <2>1. /\ request[x] = "script" /\ since'[x] = now /\ endpoint = "like"
        /\ Keeps(Decided) /\ UNCHANGED <<now, endpoint>>
    BY <1>7, ScriptKeeps DEF RunSliding
  <2>2. Cardinality(Kept(x)) >= MaxRequests
    <3>1. ~(Cardinality(Kept(x)) < MaxRequests)
      BY <1>7, <2>1 DEF RunSliding, Decide, TypeOK
    <3>2. Cardinality(Kept(x)) \in Nat  BY KeptSubset, RequestsSubset
    <3> QED  BY <3>1, <3>2
  <2>3. Kept(x) \subseteq Before(x, D)'
    <3> SUFFICES ASSUME NEW q \in Kept(x) PROVE q \in Before(x, D)'
      OBVIOUS
    <3>1. q \in Requests /\ request[q] = "counted" /\ stamp[q] > stamp[x] - Window
      BY <2>1, KeptSubset DEF Kept, SlidingKept, Counted
    <3>2. /\ since[q] <= now /\ stamp[q] <= since[q] + MaxSkew
          /\ now <= since[x] + MaxDelay /\ since[x] - MaxSkew <= stamp[x]
      BY <2>1, <3>1 DEF Timed
    <3>3. /\ now \in Nat /\ since[q] \in Nat /\ since[x] \in Nat
          /\ stamp[q] \in Int /\ stamp[x] \in Int
      BY <3>1 DEF TypeOK
    <3>4. since[q] \in (now - D + 1) .. now
      BY <2>1, <3>1, <3>2, <3>3, ClocksTyped DEF Slack
    <3>5. request'[q] = "counted" /\ since'[q] = since[q]
      BY <2>1, <3>1 DEF Keeps, Decided
    <3> QED  BY <2>1, <3>1, <3>4, <3>5 DEF Before
  <2>4. Before(x, D)' \in SUBSET Requests  BY DEF Before
  <2>5. Cardinality(Kept(x)) <= Cardinality(Before(x, D)')  BY <2>3, <2>4, Smaller
  <2>6. Cardinality(Kept(x)) \in Nat /\ Cardinality(Before(x, D)') \in Nat
    BY <2>4, KeptSubset, RequestsSubset
  <2> QED  BY <2>2, <2>5, <2>6
<1>8. ASSUME NEW x \in Requests, RunFixed(x) PROVE RejectionJustified'
  <2> SUFFICES ASSUME request'[x] = "rejected"
               PROVE  Cardinality(Before(x, D)') >= MaxRequests
    BY <1>6, <1>8
  <2>1. /\ since'[x] = now /\ endpoint = "login" /\ D = Window
        /\ Keeps(Decided) /\ UNCHANGED <<now, endpoint>>
    BY <1>8, ScriptKeeps DEF RunFixed
  <2>2. /\ now \in Nat /\ counter \in Nat /\ counterExpires \in Nat
        /\ \A q \in Requests : since[q] \in Nat /\ since[q] <= now
    BY DEF TypeOK, Timed
  <2>3. (IF now < counterExpires THEN counter ELSE 0) + 1 > MaxRequests
    BY <1>8, <2>1 DEF RunFixed, Decide, TypeOK
  <2>4. now < counterExpires /\ counter > 0 /\ counter >= MaxRequests  BY <2>2, <2>3
  <2>5. Cardinality(Current) = MaxRequests
    BY <2>1, <2>2, <2>4 DEF FixedKept
  <2>6. Current \subseteq Before(x, D)'
    <3> SUFFICES ASSUME NEW q \in Current PROVE q \in Before(x, D)'
      OBVIOUS
    <3>1. q \in Requests /\ request[q] = "counted" /\ since[q] >= counterExpires - Window
      BY DEF Current, Begin, Counted
    <3>2. request'[q] = "counted" /\ since'[q] = since[q]
      BY <2>1, <3>1 DEF Keeps, Decided
    <3>3. since[q] \in (now - D + 1) .. now  BY <2>1, <2>2, <2>4, <3>1
    <3> QED  BY <2>1, <3>1, <3>2, <3>3 DEF Before
  <2>7. Before(x, D)' \in SUBSET Requests  BY DEF Before
  <2>8. Cardinality(Current) <= Cardinality(Before(x, D)')  BY <2>6, <2>7, Smaller
  <2>9. Cardinality(Before(x, D)') \in Nat  BY <2>7, RequestsSubset
  <2> QED  BY <2>5, <2>8, <2>9
<1> QED  BY <1>4, <1>5, <1>7, <1>8, NextCases

\* Nobody is refused by either limiter before MaxRequests others were counted in
\* the window that ends with the refusal, wider by the slack for the sliding one.
THEOREM RejectionJustifiedCorrect == Spec => []RejectionJustified
<1> DEFINE I == TypeOK /\ Timed /\ SlidingKept /\ FixedKept /\ RejectionJustified
<1>1. Init => I
  BY TypeInit, SlidingInit, FixedInit DEF Init, RejectionJustified
<1>2. I /\ [Next]_vars => I'
  BY TypeStep, TimedStep, SlidingStep, FixedStep, JustifiedStep
<1>3. I => RejectionJustified  OBVIOUS
<1> QED  BY <1>1, <1>2, <1>3, PTL DEF Spec

-----------------------------------------------------------------------------
(* The breaker.                                                            *)

LEMMA BreakerCallStep ==
    ASSUME TypeOK, Timed, BreakerWaits, NEW r \in Requests, BeginCall(r)
    PROVE  BreakerWaits'
<1>1. request[r] \in {"read", "refill"}  BY DEF BeginCall, Calls
<1>2. Calls["read"] = "reading" /\ Calls["refill"] = "refilling"  BY DEF Calls
<1>3. Refused["read"] = "refill" /\ Refused["refill"] = "limit"  BY DEF Refused
<1>4. /\ since' = since /\ lastFailure' = lastFailure /\ retryAt' = retryAt /\ now' = now
      /\ now \in Nat /\ retryAt \in Nat /\ lastFailure \in Int /\ since[r] \in Nat
      /\ since[r] <= now
  BY DEF BeginCall, TypeOK, Timed
<1>5. r \notin counting  BY <1>1 DEF BreakerWaits
<1>6. CASE Admits
  <2>1. /\ request' = [request EXCEPT ![r] = Calls[request[r]]]
        /\ breaker' = State /\ counting' = counting \cup {r}
    BY <1>6 DEF BeginCall
  <2>2. request'[r] \in {"reading", "refilling"}  BY <1>1, <1>2, <2>1 DEF TypeOK
  <2>3. breaker' # "open" /\ breaker' \in {"closed", "half_open"}  BY <1>6, <2>1 DEF Admits
  <2>4. breaker' # "closed" => retryAt' <= lastFailure' + Timeout
    BY <1>4, <2>1, <2>3 DEF State, BreakerWaits
  <2>5. \A q \in counting' : request'[q] \in {"reading", "refilling"}
    BY <2>1, <2>2 DEF BreakerWaits, TypeOK
  <2> QED  BY <1>4, <2>1, <2>3, <2>4, <2>5 DEF BreakerWaits
<1>7. CASE ~Admits
  <2>1. /\ request' = [request EXCEPT ![r] = Refused[request[r]]]
        /\ UNCHANGED <<breaker, counting>>
    BY <1>7 DEF BeginCall
  <2>2. breaker = "open" => now <= retryAt
    BY <1>4, <1>7 DEF Admits, State, BreakerWaits
  <2>3. since[r] > lastFailure + Timeout => breaker # "open"
    BY <1>4, <2>2, BreakerTyped DEF BreakerWaits
  <2>4. \A q \in Requests \ {r} : request'[q] = request[q]  BY <2>1 DEF TypeOK
  <2>5. \A q \in counting' : request'[q] \in {"reading", "refilling"}
    BY <1>5, <2>1, <2>4 DEF BreakerWaits, TypeOK
  <2> QED  BY <1>4, <2>1, <2>3, <2>4, <2>5 DEF BreakerWaits
<1> QED  BY <1>6, <1>7

\* What the end of a call does to the breaker.
LEMMA BreakerEndStep ==
    ASSUME TypeOK, Timed, BreakerWaits, NEW r \in Requests,
           Succeeds(r) \/ Fails(r), request[r] \in {"reading", "refilling"},
           now' = now, since' = since,
           \A q \in Requests \ {r} : request'[q] = request[q],
           request'[r] \in {"refill", "limit"}
    PROVE  BreakerWaits'
<1>1. /\ now \in Nat /\ retryAt \in Nat /\ lastFailure \in Int
      /\ \A q \in Requests : since[q] \in Nat /\ since[q] <= now
      /\ Timeout \in Nat /\ counting \subseteq Requests
      /\ breaker \in {"closed", "open", "half_open"}
  BY BreakerTyped DEF TypeOK, Timed
<1>2. r \notin counting'  BY DEF Succeeds, Fails, Trip
<1>3. counting' \subseteq counting  BY DEF Succeeds, Fails, Trip
<1>4. \A q \in counting' : request'[q] \in {"reading", "refilling"}
  BY <1>1, <1>2, <1>3 DEF BreakerWaits
<1>5. CASE Succeeds(r)
  <2>1. lastFailure' = lastFailure /\ retryAt' = retryAt  BY <1>5 DEF Succeeds
  <2>2. CASE r \in counting
    <3>1. breaker' = "closed"  BY <1>5, <2>2 DEF Succeeds
    <3> QED  BY <1>1, <1>4, <2>1, <3>1 DEF BreakerWaits
  <2>3. CASE r \notin counting
    <3>1. breaker' = breaker /\ counting' = counting  BY <1>5, <2>3 DEF Succeeds
    <3> QED  BY <1>1, <1>4, <2>1, <3>1 DEF BreakerWaits
  <2> QED  BY <2>2, <2>3
<1>6. CASE Fails(r)
  <2>1. lastFailure' = now  BY <1>6 DEF Fails
  <2>2. \A q \in Requests : ~(since'[q] > lastFailure' + Timeout)  BY <1>1, <2>1
  <2>3. CASE breaker' = "open" /\ retryAt' = now + Timeout /\ counting' = {}
    BY <1>1, <2>1, <2>2, <2>3 DEF BreakerWaits
  <2>4. CASE r \notin counting /\ breaker' = breaker /\ retryAt' = retryAt /\ counting' = counting
    <3>1. breaker # "closed" => retryAt <= now + Timeout  BY <1>1 DEF BreakerWaits
    <3> QED  BY <1>1, <1>4, <2>1, <2>2, <2>4, <3>1 DEF BreakerWaits
  <2>5. CASE r \in counting /\ breaker # "half_open" /\ breaker' = breaker
    <3>1. breaker' = "closed"  BY <1>1, <2>5 DEF BreakerWaits
    <3> QED  BY <1>1, <1>4, <2>1, <2>2, <3>1 DEF BreakerWaits
  <2> QED  BY <1>6, <2>3, <2>4, <2>5 DEF Fails, Trip
<1> QED  BY <1>5, <1>6

LEMMA BreakerStep ==
    ASSUME TypeOK, Timed, BreakerWaits, [Next]_vars PROVE BreakerWaits'
<1>1. CASE Tick
  BY <1>1 DEF TypeOK, BreakerWaits, Tick, requestVars, breakerVars
<1>2. CASE IntervalEnds
  BY <1>2 DEF BreakerWaits, IntervalEnds, requestVars
<1>3. CASE UNCHANGED vars
  BY <1>3 DEF BreakerWaits, vars, requestVars, breakerVars
<1>4. ASSUME NEW r \in Requests, RequestNext(r) PROVE BreakerWaits'
  <2>1. CASE BeginCall(r)  BY <2>1, BreakerCallStep
  <2>2. CASE EndRead(r) \/ EndRefill(r)
    <3>1. /\ Succeeds(r) \/ Fails(r)
          /\ request[r] \in {"reading", "refilling"}
          /\ now' = now /\ since' = since
          /\ \A q \in Requests \ {r} : request'[q] = request[q]
          /\ request'[r] \in {"refill", "limit"}
      BY <2>2 DEF EndRead, EndRefill, Misses, TypeOK
    <3> QED  BY <3>1, BreakerEndStep
  <2>3. CASE Receive(r) \/ SlidingWindowLimit(r) \/ RunSliding(r) \/ RunFixed(r) \/ ScriptFails(r)
    <3>1. /\ request[r] \in {"new", "limit", "script"} /\ UNCHANGED <<now, breakerVars>>
      BY <2>3 DEF Receive, SlidingWindowLimit, RunSliding, RunFixed, ScriptFails
    <3>2. request'[r] \in {"read", "script"} \cup Outcomes
      <4>1. CASE Receive(r)  BY <4>1 DEF Receive, TypeOK
      <4>2. CASE SlidingWindowLimit(r)  BY <4>2 DEF SlidingWindowLimit, TypeOK, Outcomes
      <4>3. CASE RunSliding(r) \/ RunFixed(r)  BY <4>3, ScriptKeeps
      <4>4. CASE ScriptFails(r)  BY <4>4 DEF ScriptFails, TypeOK, Outcomes
      <4> QED  BY <2>3, <4>1, <4>2, <4>3, <4>4
    <3>3. \A q \in Requests \ {r} : request'[q] = request[q] /\ since'[q] = since[q]
      <4>1. CASE RunSliding(r) \/ RunFixed(r)  BY <4>1, ScriptKeeps DEF Keeps
      <4>2. CASE Receive(r) \/ SlidingWindowLimit(r) \/ ScriptFails(r)
        BY <4>2 DEF Receive, SlidingWindowLimit, ScriptFails, TypeOK
      <4> QED  BY <2>3, <4>1, <4>2
    <3>4. counting \subseteq Requests  BY DEF TypeOK
    <3> QED  BY <3>1, <3>2, <3>3, <3>4 DEF BreakerWaits, breakerVars, Outcomes
  <2> QED  BY <1>4, <2>1, <2>2, <2>3 DEF RequestNext
<1> QED  BY <1>1, <1>2, <1>3, <1>4 DEF Next

\* However many calls fail, miss or end late, the limiter of a write endpoint is
\* in force again for whoever comes in Timeout after the last failure.
THEOREM LimitedWhenHealthyCorrect == Spec => []LimitedWhenHealthy
<1> DEFINE I == TypeOK /\ Timed /\ BreakerWaits
<1>1. Init => I
  BY TypeInit, SlidingInit, BreakerTyped DEF Init, BreakerWaits
<1>2. I /\ [Next]_vars => I'  BY TypeStep, TimedStep, BreakerStep
<1>3. I => LimitedWhenHealthy
  <2> SUFFICES ASSUME I, NEW r \in Requests, request[r] = "limit",
                      since[r] > lastFailure + Timeout
               PROVE  State = "closed" \/ (State = "half_open" /\ counting \ {r} # {})
    BY DEF LimitedWhenHealthy
  <2>1. breaker # "open" /\ breaker \in {"closed", "open", "half_open"}
    BY DEF BreakerWaits, TypeOK
  <2>2. breaker = "half_open" => counting \ {r} # {}  BY DEF BreakerWaits
  <2> QED  BY <2>1, <2>2 DEF State
<1> QED  BY <1>1, <1>2, <1>3, PTL DEF Spec
=============================================================================
