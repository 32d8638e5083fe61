----------------------------- MODULE FollowFeed -----------------------------
(***************************************************************************)
(* The push-pull feed: FanoutWorker beside SocialWorker (module Social),   *)
(* and what FeedService.ListByFollowing makes of the Redis structures both *)
(* maintain.  A video comes in when the outbox poller has published its    *)
(* fanout event (module Outbox).                                           *)
(***************************************************************************)
EXTENDS Social

CONSTANTS
    Author,     \* Author[v]: the vlogger that publishes v
    BatchSize,  \* followers per Redis pipeline (100)
    PullQuota,  \* videos pulled of one big V (10)
    Sleepers    \* followers whose user:active key may expire

ASSUME AuthorTyped == Author \in [Videos -> Vloggers]
ASSUME FanoutBounds == BatchSize \in Nat \ {0} /\ PullQuota \in Nat \ {0}
ASSUME SleepersTyped == Sleepers \subseteq Followers

VARIABLES
    published,  \* rows of table videos
    fanoutQ,    \* the videos whose event is in the fanout queue
    fanout,     \* FanoutWorker: its next step and its local variables
    active,     \* followers with a key user:active
    lapsed,     \* history: videos whose user_videos ran out with them
    missed      \* history: pairs <<u, v>> where v lapsed before it was in the inbox of u

lapseVars == <<lapsed, missed>>
fanoutVars == <<published, fanoutQ, fanout, active, lapseVars>>
vars == <<socialVars, fanoutVars>>

FanoutSteps == {"ZAdd", "GetCount", "CountFollowers", "SetCount", "GetFollowers",
                "FilterActive", "Batch", "Ack"}
Free == [at |-> "idle"]

TypeOK ==
    /\ SocialTypeOK
    /\ published \in SUBSET Videos
    /\ fanoutQ \in SUBSET Videos
    /\ fanout \in {Free} \cup [at : FanoutSteps, video : Videos, count : Nat,
                               pending : SUBSET Followers]
    /\ active \in SUBSET Followers
    /\ lapsed \in SUBSET Videos
    /\ missed \in SUBSET (Followers \X Videos)

Init ==
    /\ SocialInit
    /\ published = {}
    /\ fanoutQ = {}
    /\ fanout = Free
    /\ active = Followers
    /\ lapsed = {}
    /\ missed = {}

-----------------------------------------------------------------------------
\* The video is committed and its fanout event is in the queue.
PublishVideo(v) ==
    /\ v \notin published
    /\ published' = published \cup {v}
    /\ fanoutQ' = fanoutQ \cup {v}
    /\ UNCHANGED <<socialVars, fanout, active, lapseVars>>

\* user:active expires 72 hours after a login; the next login sets it again.
FallAsleep(u) ==
    /\ u \in Sleepers \cap active
    /\ active' = active \ {u}
    /\ UNCHANGED <<socialVars, published, fanoutQ, fanout, lapseVars>>

Login(u) ==
    /\ u \in Followers \ active
    /\ active' = active \cup {u}
    /\ UNCHANGED <<socialVars, published, fanoutQ, fanout, lapseVars>>

-----------------------------------------------------------------------------
(* FanoutWorker.process.                                                   *)

V == Author[fanout.video]
FanoutGoto(step) == fanout' = [fanout EXCEPT !.at = step]

\* Nack with requeue, or a crash: the event stays in the queue.
FanoutGivesUp == fanout' = Free

FanoutReceive(v) ==
    /\ fanout = Free
    /\ v \in fanoutQ
    /\ fanout' = [at |-> "ZAdd", video |-> v, count |-> 0, pending |-> {}]
    /\ UNCHANGED <<socialVars, published, fanoutQ, active, lapseVars>>

\* The video is in user_videos again, for another 24 hours.
Renewed ==
    /\ lapsed' = lapsed \ {fanout.video}
    /\ missed' = {m \in missed : m[2] # fanout.video}

\* As a bug: a failed ZADD is only logged.
FanoutZAddLogsErrors ==
    /\ fanout.at = "ZAdd"
    /\ LET filled == userVideos[V] \cup {fanout.video} IN
       \/ userVideos' = [userVideos EXCEPT ![V] = Newest(filled, UserVideosCap)] /\ Renewed
       \/ RedisFails /\ UNCHANGED <<userVideos, lapseVars>>
    /\ FanoutGoto("GetCount")
    /\ UNCHANGED <<rowVars, handler, socialQ, social, countCache, bigv, unlisted, inbox, nreq,
                   published, fanoutQ, active>>

\* The event is first put into user_videos, which is then trimmed and given its TTL.
FanoutZAdd ==
    /\ fanout.at = "ZAdd"
    /\ LET filled == userVideos[V] \cup {fanout.video} IN
       \/ /\ userVideos' = [userVideos EXCEPT ![V] = Newest(filled, UserVideosCap)]
          /\ Renewed
          /\ FanoutGoto("GetCount")
       \/ /\ RedisFails
          /\ userVideos' = [userVideos EXCEPT ![V] = filled]
          /\ Renewed
          /\ FanoutGoto("GetCount")
       \/ RedisFails /\ UNCHANGED <<userVideos, lapseVars>> /\ FanoutGivesUp
    /\ UNCHANGED <<rowVars, handler, socialQ, social, countCache, bigv, unlisted, inbox, nreq,
                   published, fanoutQ, active>>

\* 24 hours after the last fanout of the author user_videos is gone, and nothing fills it
\* but the fanouts to come.
ExpireUserVideos(a) ==
    /\ a \in Expiring
    /\ userVideos[a] # {}
    /\ userVideos' = [userVideos EXCEPT ![a] = {}]
    /\ lapsed' = lapsed \cup userVideos[a]
    /\ missed' = missed \cup {m \in Followers \X userVideos[a] : m[2] \notin inbox[m[1]]}
    /\ UNCHANGED <<rowVars, handler, socialQ, social, countCache, bigv, unlisted, inbox, nreq,
                   published, fanoutQ, fanout, active>>

\* Push to the followers, or leave it to the readers to pull.
Push(n) == IF n >= BigVThreshold THEN "Ack" ELSE "GetFollowers"

FanoutGetCount ==
    /\ fanout.at = "GetCount"
    /\ \/ countCache[V] # NoCount /\ FanoutGoto(Push(countCache[V]))
       \/ (countCache[V] = NoCount \/ RedisFails) /\ FanoutGoto("CountFollowers")
    /\ UNCHANGED <<socialVars, published, fanoutQ, active, lapseVars>>

\* On an error the video stays in user_videos only, and is acknowledged.
FanoutCountFollowers ==
    /\ fanout.at = "CountFollowers"
    /\ \/ fanout' = [fanout EXCEPT !.at = "SetCount", !.count = Cardinality(FollowersOf(V))]
       \/ DBFails /\ FanoutGoto("Ack")
    /\ UNCHANGED <<socialVars, published, fanoutQ, active, lapseVars>>

FanoutSetCount ==
    /\ fanout.at = "SetCount"
    /\ \/ countCache' = [countCache EXCEPT ![V] = fanout.count]
       \/ RedisFails /\ UNCHANGED countCache
    /\ FanoutGoto(Push(fanout.count))
    /\ UNCHANGED <<rowVars, handler, socialQ, social, bigv, unlisted, userVideos, inbox, nreq,
                   published, fanoutQ, active, lapseVars>>

FanoutGetFollowers ==
    /\ fanout.at = "GetFollowers"
    /\ \/ fanout' = [fanout EXCEPT !.pending = FollowersOf(V),
                                   !.at = IF FollowersOf(V) = {} THEN "Ack" ELSE "FilterActive"]
       \/ DBFails /\ FanoutGivesUp
    /\ UNCHANGED <<socialVars, published, fanoutQ, active, lapseVars>>

\* Followers without user:active are left out; on a Redis error nobody is.
FanoutFilterActive ==
    /\ fanout.at = "FilterActive"
    /\ \E keep \in {fanout.pending \cap active} \cup (IF RedisFails THEN {fanout.pending} ELSE {}) :
          fanout' = [fanout EXCEPT !.pending = keep, !.at = IF keep = {} THEN "Ack" ELSE "Batch"]
    /\ UNCHANGED <<socialVars, published, fanoutQ, active, lapseVars>>

\* One pipeline: ZADD for every follower of the batch, ZREMRANGEBYRANK for those
\* the dice choose.  A failing pipeline is logged and may have written a part.
FanoutBatch ==
    /\ fanout.at = "Batch"
    /\ \E batch \in SUBSET fanout.pending :
          /\ Cardinality(batch) = BatchSize \/ (batch = fanout.pending /\ Cardinality(batch) < BatchSize)
          /\ \E written \in (IF RedisFails THEN SUBSET batch ELSE {batch}), trimmed \in SUBSET batch :
                inbox' = [u \in Followers |->
                            IF u \notin written THEN inbox[u]
                            ELSE IF u \in trimmed
                            THEN Newest(inbox[u] \cup {fanout.video}, InboxCap)
                            ELSE inbox[u] \cup {fanout.video}]
          /\ fanout' = [fanout EXCEPT !.pending = @ \ batch,
                                      !.at = IF batch = fanout.pending THEN "Ack" ELSE "Batch"]
    /\ UNCHANGED <<rowVars, handler, socialQ, social, countCache, bigv, unlisted, userVideos, nreq,
                   published, fanoutQ, active, lapseVars>>

FanoutAck ==
    /\ fanout.at = "Ack"
    /\ fanoutQ' = fanoutQ \ {fanout.video}
    /\ fanout' = Free
    /\ UNCHANGED <<socialVars, published, active, lapseVars>>

FanoutCrash ==
    /\ fanout # Free
    /\ FanoutGivesUp
    /\ UNCHANGED <<socialVars, published, fanoutQ, active, lapseVars>>

-----------------------------------------------------------------------------
FanoutNext ==
    \/ \E v \in Videos : PublishVideo(v) \/ FanoutReceive(v)
    \/ \E u \in Followers : FallAsleep(u) \/ Login(u)
    \/ \E a \in Vloggers : ExpireUserVideos(a)
    \/ FanoutZAdd
    \/ FanoutGetCount
    \/ FanoutCountFollowers
    \/ FanoutSetCount
    \/ FanoutGetFollowers
    \/ FanoutFilterActive
    \/ FanoutBatch
    \/ FanoutAck
    \/ FanoutCrash

\* A step of module Social.
SocialStep == SocialNext /\ UNCHANGED fanoutVars

Next ==
    \/ SocialStep
    \/ FanoutNext

Spec == Init /\ [][Next]_vars

-----------------------------------------------------------------------------
(* FeedService.ListByFollowing: the first page, with a limit large enough  *)
(* for the inbox and for the quota of every big V followed.                *)

\* The big Vs that are asked: one whose newest video is not newer than the oldest
\* video of a filled inbox is passed over.
Sampled(u) ==
    {b \in bigv[u] : inbox[u] = {} \/ \E v \in userVideos[b], x \in inbox[u] : v > x}

\* As a bug: an inbox that is not empty is the whole feed.
MergedIfEmpty(u) ==
    IF inbox[u] # {} THEN inbox[u]
    ELSE UNION {Newest(userVideos[b], PullQuota) : b \in Sampled(u)}

\* The inbox merged with the newest user_videos of those.
Merged(u) == inbox[u] \cup UNION {Newest(userVideos[b], PullQuota) : b \in Sampled(u)}

\* SELECT ... WHERE author_id IN (SELECT vlogger_id ... follower_id = u)
FromDB(u) == {v \in published : <<u, Author[v]>> \in follows}

\* MySQL is asked only when Redis has nothing at all.
ListByFollowing(u) == IF Merged(u) = {} THEN FromDB(u) ELSE Merged(u)

-----------------------------------------------------------------------------
(* Properties.                                                             *)

Quiet == SocialQuiet /\ fanoutQ = {}

\* The later videos of the same author.
Newer(v) == {w \in published : w > v /\ Author[w] = Author[v]}

\* A video that no cap has room to forget.
Recent(v) ==
    /\ Cardinality({w \in published : w > v}) < InboxCap
    /\ Cardinality(Newer(v)) < UserVideosCap
    /\ Cardinality(Newer(v)) < PullQuota

\* Whatever fails, a video whose fanout event is gone from the queue is among its
\* author's user_videos unless UserVideosCap later ones have displaced it or the whole
\* list has run out since: that is where big Vs are pulled from and where a later follow
\* is backfilled from.
FannedOutVideosPullable ==
    \A v \in published \ (fanoutQ \cup lapsed) :
       Cardinality(Newer(v)) < UserVideosCap => v \in userVideos[Author[v]]

\* The pull passes over a big V of whom nothing is left that is newer than the oldest
\* video of the inbox, however much room the page has.
Outdated(u, a) ==
    /\ a \in bigv[u]
    /\ inbox[u] # {}
    /\ \A w \in published \ lapsed, x \in inbox[u] : Author[w] = a => w <= x

\* When everything has settled, the feed of a follower who stays awake has every recent
\* video of the vloggers followed, whether they are pushed, pulled or both kinds, but for
\* outdated big Vs and for what a TTL took: a big V that was in following:bigv when that
\* ran out, a video whose user_videos ran out before it was in the inbox.  An inbox has no
\* TTL: what was pushed or backfilled stays.  A fanout reads the followers after it has
\* filled user_videos, a follow reads user_videos after it has written the row: one of the
\* two must see the other.
FollowedVideosVisible ==
    Quiet => \A u \in Followers \ Sleepers, v \in published :
                /\ <<u, Author[v]>> \in follows \ unlisted
                /\ <<u, v>> \notin missed
                /\ Recent(v)
                /\ ~Outdated(u, Author[v])
                => v \in ListByFollowing(u)
=============================================================================
