------------------------------- MODULE Social -------------------------------
(***************************************************************************)
(* Follow and unfollow: SocialService (API handlers), the social queue and *)
(* SocialWorker.  A handler publishes its event before it writes the row   *)
(* itself, and the worker writes the same row again, so every request      *)
(* reaches table socials twice, by two roads.  The worker also keeps the   *)
(* Redis structures of the push-pull feed: following:bigv and inbox.       *)
(*                                                                         *)
(* A video is the number of its create_time.                               *)
(***************************************************************************)
EXTENDS Integers, Sequences, FiniteSets

CONSTANTS
    Followers,      \* accounts that send requests
    Vloggers,       \* accounts that are followed
    Videos,         \* videos that may be published
    Handlers,       \* API goroutines
    Sequential,     \* a user waits for the answer before the next request
    MQFails,        \* a publication may fail or get lost
    DBFails,        \* a MySQL access may fail
    RedisFails,     \* a Redis access may fail
    Expiring,       \* accounts whose following:bigv or user_videos may run out
    Prefetch,       \* Qos of the worker's channel
    BigVThreshold,  \* followers that make a big V (10000)
    UserVideosCap,  \* length of user_videos, and of a backfill (50)
    InboxCap,       \* length of an inbox (500)
    MaxRequests     \* bound on the requests the handlers receive

ASSUME AccountsFinite == IsFiniteSet(Followers) /\ IsFiniteSet(Vloggers)
ASSUME VideosNumbered == Videos \subseteq Nat /\ IsFiniteSet(Videos)
ASSUME ExpiringTyped == Expiring \subseteq Followers \cup Vloggers
ASSUME SocialSwitches == {Sequential, MQFails, DBFails, RedisFails} \subseteq BOOLEAN
ASSUME SocialBounds == /\ Prefetch \in Nat \ {0}
                       /\ BigVThreshold \in Nat
                       /\ UserVideosCap \in Nat \ {0}
                       /\ InboxCap \in Nat \ {0}
                       /\ MaxRequests \in Nat

VARIABLES
    follows,     \* rows of table socials: pairs <<follower, vlogger>>
    handler,     \* handler[h]: the request h is serving and where it stands
    socialQ,     \* the social queue, the event in SocialWorker's hands first
    social,      \* SocialWorker: its next step and its local variables
    countCache,  \* user:follower_count:{vlogger}
    bigv,        \* following:bigv:{follower}
    userVideos,  \* user_videos:{vlogger}
    inbox,       \* inbox:{follower}
    nreq,        \* number of requests received so far
    expected,    \* history: the last request for a pair that had any effect
    unlisted     \* history: pairs that following:bigv lost with its TTL

rowVars    == <<follows, expected>>
redisVars  == <<countCache, bigv, unlisted, userVideos, inbox>>
socialVars == <<rowVars, handler, socialQ, social, redisVars, nreq>>

Pairs == Followers \X Vloggers
Requests == {"follow", "unfollow"}
Events == [action : Requests, pair : Pairs]
NoCount == -1

Idle == [at |-> "idle"]
Serving == [at : {"IsFollowed", "Publish", "Write"}, action : Requests, pair : Pairs]

SocialSteps == {"Repo", "GetCount", "CountFollowers", "SetCount", "SAdd",
                "BackfillRead", "BackfillWrite", "SRem", "Ack", "Nack"}
Waiting == [at |-> "Repo", count |-> 0, videos |-> {}, failed |-> FALSE]

SocialTypeOK ==
    /\ follows \in SUBSET Pairs
    /\ handler \in [Handlers -> Serving \cup {Idle}]
    /\ socialQ \in Seq(Events)
    /\ social \in [at : SocialSteps, count : Nat, videos : SUBSET Videos, failed : BOOLEAN]
    /\ countCache \in [Vloggers -> Nat \cup {NoCount}]
    /\ bigv \in [Followers -> SUBSET Vloggers]
    /\ userVideos \in [Vloggers -> SUBSET Videos]
    /\ inbox \in [Followers -> SUBSET Videos]
    /\ nreq \in Nat
    /\ expected \in [Pairs -> Requests]
    /\ unlisted \in SUBSET Pairs

\* A count once cached stays, also that of a vlogger whom everybody has left since.
SocialInit ==
    /\ follows = {}
    /\ handler = [h \in Handlers |-> Idle]
    /\ socialQ = <<>>
    /\ social = Waiting
    /\ countCache \in [Vloggers -> {NoCount, BigVThreshold}]
    /\ bigv = [u \in Followers |-> {}]
    /\ userVideos = [a \in Vloggers |-> {}]
    /\ inbox = [u \in Followers |-> {}]
    /\ nreq = 0
    /\ expected = [p \in Pairs |-> "unfollow"]
    /\ unlisted = {}

-----------------------------------------------------------------------------
\* ZREMRANGEBYRANK key 0 -(cap+1): the cap newest members stay.
Newest(S, cap) == {v \in S : Cardinality({w \in S : w > v}) < cap}

\* Rows of socials for one vlogger.
FollowersOf(a) == {u \in Followers : <<u, a>> \in follows}

\* INSERT under the unique index, DELETE of perhaps no row.
Written(action, p) == IF action = "follow" THEN follows \cup {p} ELSE follows \ {p}

-----------------------------------------------------------------------------
(* SocialService.Follow and Unfollow.                                      *)

Goto(h, step) == handler' = [handler EXCEPT ![h].at = step]
Respond(h)    == handler' = [handler EXCEPT ![h] = Idle]

Receive(h, action, p) ==
    /\ handler[h] = Idle
    /\ nreq < MaxRequests
    /\ Sequential => \A k \in Handlers : handler[k] # Idle => handler[k].pair[1] # p[1]
    /\ nreq' = nreq + 1
    /\ handler' = [handler EXCEPT ![h] = [at |-> "IsFollowed", action |-> action, pair |-> p]]
    /\ UNCHANGED <<rowVars, socialQ, social, redisVars>>

\* Neither following oneself nor a request without effect gets past the checks.
CheckFollowed(h) ==
    LET r == handler[h] IN
    /\ r.at = "IsFollowed"
    /\ IF /\ r.action = "follow" => r.pair[1] # r.pair[2]
          /\ r.action = "follow" <=> r.pair \notin follows
       THEN Goto(h, "Publish")
       ELSE Respond(h)
    /\ UNCHANGED <<rowVars, socialQ, social, redisVars, nreq>>

\* socialMQ.Follow / UnFollow reaches the broker.
Publish(h) ==
    LET r == handler[h] IN
    /\ r.at = "Publish"
    /\ socialQ' = Append(socialQ, [action |-> r.action, pair |-> r.pair])
    /\ expected' = [expected EXCEPT ![r.pair] = r.action]
    /\ Goto(h, "Write")
    /\ UNCHANGED <<follows, social, redisVars, nreq>>

\* The publication fails, silently or with an error nobody looks at.
PublishFails(h) ==
    /\ MQFails
    /\ handler[h].at = "Publish"
    /\ Goto(h, "Write")
    /\ UNCHANGED <<rowVars, socialQ, social, redisVars, nreq>>

\* repo.Follow / repo.Unfollow.  If the worker was faster, a follow fails with
\* error 1062 on the row that is there.
Write(h) ==
    LET r == handler[h] IN
    /\ r.at = "Write"
    /\ follows' = Written(r.action, r.pair)
    /\ expected' = IF r.action = "follow" /\ r.pair \in follows
                   THEN expected
                   ELSE [expected EXCEPT ![r.pair] = r.action]
    /\ Respond(h)
    /\ UNCHANGED <<socialQ, social, redisVars, nreq>>

\* A database error at either access, or the end of the API process.
RequestFails(h) ==
    /\ handler[h] # Idle
    /\ Respond(h)
    /\ UNCHANGED <<rowVars, socialQ, social, redisVars, nreq>>

-----------------------------------------------------------------------------
(* SocialWorker.                                                           *)

Event == Head(socialQ)
Follower == Event.pair[1]
Vlogger == Event.pair[2]

\* SocialWorker has a delivery and stands at this step.
SocialAt(step) == socialQ # <<>> /\ social.at = step

\* As a bug: a delivery that changes no row ends here, although it may be the
\* handler that was faster.
SocialRepoStopsIfUnchanged ==
    /\ SocialAt("Repo")
    /\ follows' = Written(Event.action, Event.pair)
    /\ social' = [social EXCEPT !.at = IF follows' = follows THEN "Ack"
                                       ELSE IF Event.action = "follow" THEN "GetCount"
                                       ELSE "SRem"]
    /\ UNCHANGED <<expected, handler, socialQ, redisVars, nreq>>

\* The row is written, or it was already there / already gone.
SocialRepo ==
    /\ SocialAt("Repo")
    /\ follows' = Written(Event.action, Event.pair)
    /\ social' = [social EXCEPT !.at = IF Event.action = "follow" THEN "GetCount" ELSE "SRem"]
    /\ UNCHANGED <<expected, handler, socialQ, redisVars, nreq>>

\* A failed INSERT ends the delivery; after a failed DELETE the set is cleaned
\* all the same.
SocialRepoFails ==
    /\ DBFails
    /\ SocialAt("Repo")
    /\ social' = [social EXCEPT !.at = IF Event.action = "follow" THEN "Nack" ELSE "SRem",
                                !.failed = TRUE]
    /\ UNCHANGED <<rowVars, handler, socialQ, redisVars, nreq>>

\* What onFollow does for a vlogger with n followers.
Strategy(n) == IF n >= BigVThreshold THEN "SAdd" ELSE "BackfillRead"

\* isBigV reads user:follower_count; a miss or an error leads to MySQL.
SocialGetCount ==
    /\ SocialAt("GetCount")
    /\ \/ /\ countCache[Vlogger] # NoCount
          /\ social' = [social EXCEPT !.at = Strategy(countCache[Vlogger])]
       \/ /\ countCache[Vlogger] = NoCount \/ RedisFails
          /\ social' = [social EXCEPT !.at = "CountFollowers"]
    /\ UNCHANGED <<rowVars, handler, socialQ, redisVars, nreq>>

\* As a bug: the new follower is taken out of the count although the row may be
\* gone again.
SocialCountsOthers ==
    /\ SocialAt("CountFollowers")
    /\ social' = [social EXCEPT !.at = "SetCount", !.count = Cardinality(FollowersOf(Vlogger)) - 1]
    /\ UNCHANGED <<rowVars, handler, socialQ, redisVars, nreq>>

\* On an error isBigV answers false.
SocialCountFollowers ==
    /\ SocialAt("CountFollowers")
    /\ \/ social' = [social EXCEPT !.at = "SetCount", !.count = Cardinality(FollowersOf(Vlogger))]
       \/ DBFails /\ social' = [social EXCEPT !.at = "BackfillRead"]
    /\ UNCHANGED <<rowVars, handler, socialQ, redisVars, nreq>>

\* The count is cached without expiry, and nothing else ever updates it.
SocialSetCount ==
    /\ SocialAt("SetCount")
    /\ \/ countCache' = [countCache EXCEPT ![Vlogger] = social.count]
       \/ RedisFails /\ UNCHANGED countCache
    /\ social' = [social EXCEPT !.at = Strategy(social.count)]
    /\ UNCHANGED <<rowVars, handler, socialQ, bigv, unlisted, userVideos, inbox, nreq>>

\* SADD, which gives the set another 24 hours.
SocialSAdd ==
    /\ SocialAt("SAdd")
    /\ \/ /\ bigv' = [bigv EXCEPT ![Follower] = @ \cup {Vlogger}]
          /\ unlisted' = unlisted \ {Event.pair}
       \/ RedisFails /\ UNCHANGED <<bigv, unlisted>>
    /\ social' = [social EXCEPT !.at = "Ack"]
    /\ UNCHANGED <<rowVars, handler, socialQ, countCache, userVideos, inbox, nreq>>

SocialBackfillRead ==
    /\ SocialAt("BackfillRead")
    /\ \E found \in {Newest(userVideos[Vlogger], UserVideosCap)}
                    \cup (IF RedisFails THEN {{}} ELSE {}) :
          social' = [social EXCEPT !.at = IF found = {} THEN "Ack" ELSE "BackfillWrite",
                                   !.videos = found]
    /\ UNCHANGED <<rowVars, handler, socialQ, redisVars, nreq>>

SocialBackfillWrite ==
    /\ SocialAt("BackfillWrite")
    /\ \/ inbox' = [inbox EXCEPT ![Follower] = Newest(@ \cup social.videos, InboxCap)]
       \/ RedisFails /\ UNCHANGED inbox
    /\ social' = [social EXCEPT !.at = "Ack"]
    /\ UNCHANGED <<rowVars, handler, socialQ, countCache, bigv, unlisted, userVideos, nreq>>

SocialSRem ==
    /\ SocialAt("SRem")
    /\ \/ /\ bigv' = [bigv EXCEPT ![Follower] = @ \ {Vlogger}]
          /\ unlisted' = unlisted \ {Event.pair}
       \/ RedisFails /\ UNCHANGED <<bigv, unlisted>>
    /\ social' = [social EXCEPT !.at = IF social.failed THEN "Nack" ELSE "Ack"]
    /\ UNCHANGED <<rowVars, handler, socialQ, countCache, userVideos, inbox, nreq>>

SocialAck ==
    /\ SocialAt("Ack")
    /\ socialQ' = Tail(socialQ)
    /\ social' = Waiting
    /\ UNCHANGED <<rowVars, handler, redisVars, nreq>>

\* d.Nack(false, true): the event goes behind the k events already prefetched.
SocialNack ==
    /\ SocialAt("Nack")
    /\ \E k \in 0..(Prefetch - 1) :
          /\ k < Len(socialQ)
          /\ socialQ' = SubSeq(socialQ, 2, k + 1) \o <<Event>> \o SubSeq(socialQ, k + 2, Len(socialQ))
    /\ social' = Waiting
    /\ UNCHANGED <<rowVars, handler, redisVars, nreq>>

\* As a bug: the window of unacknowledged events comes back in reverse order.
SocialCrashReorders ==
    /\ social # Waiting
    /\ socialQ' = Append(Tail(socialQ), Event)
    /\ social' = Waiting
    /\ UNCHANGED <<rowVars, handler, redisVars, nreq>>

\* The worker stops: everything unacknowledged is delivered again, in order.
SocialCrash ==
    /\ social # Waiting
    /\ socialQ' = socialQ
    /\ social' = Waiting
    /\ UNCHANGED <<rowVars, handler, redisVars, nreq>>

\* 24 hours after the last SADD following:bigv is gone, and nothing builds it up again
\* but the follows to come.
ExpireBigV(u) ==
    /\ u \in Expiring
    /\ bigv[u] # {}
    /\ bigv' = [bigv EXCEPT ![u] = {}]
    /\ unlisted' = unlisted \cup ({u} \X bigv[u])
    /\ UNCHANGED <<rowVars, handler, socialQ, social, countCache, userVideos, inbox, nreq>>

-----------------------------------------------------------------------------
HandlerNext(h) ==
    \/ \E action \in Requests, p \in Pairs : Receive(h, action, p)
    \/ CheckFollowed(h)
    \/ Publish(h)
    \/ PublishFails(h)
    \/ Write(h)
    \/ RequestFails(h)

SocialWorkerNext ==
    \/ SocialRepo
    \/ SocialRepoFails
    \/ SocialGetCount
    \/ SocialCountFollowers
    \/ SocialSetCount
    \/ SocialSAdd
    \/ SocialBackfillRead
    \/ SocialBackfillWrite
    \/ SocialSRem
    \/ SocialAck
    \/ SocialNack
    \/ SocialCrash

SocialNext ==
    \/ \E h \in Handlers : HandlerNext(h)
    \/ SocialWorkerNext
    \/ \E u \in Followers : ExpireBigV(u)

-----------------------------------------------------------------------------
(* Properties.                                                             *)

\* No request is being served and the worker has nothing to do.
SocialQuiet == socialQ = <<>> /\ \A h \in Handlers : handler[h] = Idle

\* When everything has settled, a row exists exactly if the last request for the
\* pair was a follow: the two roads by which a request reaches the table never
\* leave an earlier request standing.
RowsFollowLastRequest ==
    SocialQuiet => \A p \in Pairs : p \in follows <=> expected[p] = "follow"

\* When everything has settled, following:bigv has only vloggers the user still
\* follows, so an unfollowed big V is not pulled into the feed.
BigVFollowed ==
    SocialQuiet => \A u \in Followers : \A a \in bigv[u] : <<u, a>> \in follows
=============================================================================
