# A TLA+ verification of the video feed backend

This directory holds TLA+ models of the Go backend in `src/backend_repeat`, the
TLC configurations that check them on small instances, and TLAPS proofs of the
properties that matter most. The models are translated from the code; paths below
are relative to `src/backend_repeat/internal` unless they start with `src/`.

`tlc -config X.cfg M` checks a run, `tlapm M.tla` a module of proofs.
`PROJECT.json` lists components, runs, theorems and hazards, and maps every
definition to the lines it models.

## 1. Inventory

Two processes, `cmd/main.go` (the API) and `cmd/worker/main.go` (the workers), one of
each, as `docker-compose` starts them. They have no memory in common and meet in
MySQL, in Redis and in the durable queues of RabbitMQ. The models have many request
handlers but one outbox poller, one timeline consumer and one worker of each kind.
Nothing is claimed of several: two SocialWorkers, for instance, would break the queue
order that `RowsFollowLastRequest` relies on, and a second poller the order of
publication.

| Component | State | Operations | What makes it correct |
|---|---|---|---|
| Likes (`video/like_service.go`, `like_repo.go`, `worker/likeworker.go`) | rows of `likes`; `likes_count` and `popularity` of `videos`; the like queue | Like, Unlike; applyLike, applyUnlike; overwriting of `likes_count` | the counters agree with the rows; an accepted event is applied; a repetition does nothing |
| Publication (`video/video_service.go` Publish, `worker/outboxworker.go`) | `videos`, `outbox_msgs`, two queues, ZSET `feed:global_timeline` | publish, poll, publish twice, delete the row; consume, ZADD, trim | no committed video is forgotten; the timeline has the newest videos; delivery in the end |
| Follow relations (`social/service.go`, `worker/socialworker.go`) | rows of `socials`; `user:follower_count`, `following:bigv`, `inbox` | Follow, Unfollow; onFollow, onUnfollow | the last request decides the row; the Redis structures follow the rows |
| Push-pull feed (`worker/fanoutworker.go`, `feed/service.go` ListByFollowing) | `user_videos`, `inbox`, `following:bigv`, `user:active` | fanout in batches, trim; first page: inbox, pull of big Vs, MySQL | a follower sees what the followed authors published |
| Video detail (`video/video_service.go` GetDetail and Delete, `feed/service.go` GetVideoByIDs, `video/popularity_cache.go`, `middleware/redis/redis.go`) | two local caches, `video:detail`, `lock:video:detail`, the row | read through three levels with or without the lock; removal of the copy; deletion | one owner of the lock; every request answered; stale copies go away |
| Accounts (`account/service.go`, `middleware/jwt/jwt.go`) | token and password of the row; the token's copy in Redis | Login, Logout, ChangePassword, Rename; JWTAuth with refill | only the newest token is accepted; a revoked one does not come back |
| Comments (`video/comment_service.go`, `worker/commentworker.go`) | rows of `comments`, page cache, popularity | publish, delete, list | an accepted comment is stored, twice only after a redelivery; every row counts once; pages end up fresh |
| Feed queries (`feed/service.go`) | timeline, cold boundary, snapshots | ListLatest, ListLikesCount, ListByPopularity | pages neither repeat nor skip, from whichever store they come |
| Hot ranking (`video/popularity_cache.go`, `worker/popularityworker.go`) | one-minute ZSETs and their union | ZINCRBY; ZUNIONSTORE of 60 windows | a walk through one snapshot neither repeats nor skips |
| Rate limiting (`middleware/ratelimit`) | ZSET of time stamps, or counter, per subject | sliding and fixed window | never more than the limit in a window; nobody refused without cause |
| Circuit breaker (`middleware/redis`) | state of gobreaker | count, open, half-open | a miss is not a failure; it closes again |
| Wiring, RabbitMQ topology, observability, uploads, frontend | - | - | - |

How they interact:

- A like or a comment is published as two events, one for its worker and one for
  PopularityWorker. If a publication returns an error, the handler does that half
  itself. The two events travel apart.
- A follow is published *and* written by the handler; the worker writes the row
  again and maintains Redis.
- A publication writes an outbox row. The poller turns it into a timeline event
  and a fanout event. FanoutWorker pushes to the active followers of an author
  below 10000 followers and leaves the rest to the readers.

What is hard in it: queues deliver at least once and requeue out of order; nobody
waits for publisher confirms; a worker may die between its commit and its
acknowledgement; checks are made outside the transactions that rely on them;
caches are removed and refilled by different actors; Redis errors are mostly
logged and forgotten; two workers and the readers rely on each other's order of
accesses. The list, with the line at which each bites, is under `hazards` in
`PROJECT.json`.

## 2. Modules

A transaction of MySQL and a single command or script of Redis is one step.
Between any two of them everything else may happen. Every access that the code
handles the failure of has a disjunct in which it fails; an access refused by the
circuit breaker is one of these.

### Likes, LikeLedger

`Likes` has a handler per goroutine (`IsExist`, `likeMQ`, `popularityMQ`,
`fallback`), the queue as `ready` and `unacked`, and LikeWorker at the head of
`unacked`. A publication succeeds, fails, or is lost although it returned nil.
Nack puts the event behind what the prefetch window already holds; a crash
returns the window. The video may be deleted at any time, comments add to
popularity, and `/video/updateLikesCount` writes absolute values (`SyncCounts`).
`LikeLedger` is what the component promises: like, unlike and deletion as atomic
steps on rows and counters. The mapping hides the rows and counters of deleted
videos, which the code leaves behind.

### Outbox, Delivery

The transaction of the publication, the poller row by row in the order of
create_time with its page, and the timeline consumer in three steps. The poller
publishes both events before it deletes the row; any of these may fail, and an
event may be lost silently. The process has one AMQP connection, opened at
start. A restart loses what the process had in hand. A video is the number of its
create_time.
`Delivery` is what the component promises: an accepted video is open until the
timeline and the fanout have it or the broker has lost something of it; while it is
open it may be handed over any number of times, and once closed it never opens again.
In Outbox a video is open while its row or an event of it in the timeline queue is left.

### Social, FollowFeed

`Social` has the handlers (check, publish, write) and SocialWorker step by step.
The redelivered window keeps its order after a crash; after a Nack the event goes
behind up to `Prefetch - 1` others. `expected` is a history variable: the last
request of a pair that had an effect. `FollowFeed` extends it by FanoutWorker
(`ZAdd`, count, followers, activity filter, batches with failing pipelines and the
1 % trim as a free choice) and by the first page of ListByFollowing as an
operator over the Redis structures. The fanout queue is a set: FanoutWorker may
take any of its events, which covers every order in which nacks and crashes bring
them back. `Sequential` says that a user waits for the answer before the next
request; handlers of different users always interleave.

`following:bigv` and `user_videos` live for 24 hours after the last SADD or fanout.
`ExpireBigV` and `ExpireUserVideos` take one away at any moment, of the accounts in
`Expiring`; nothing but a later follow or fanout fills it again, and that only with its own
entry. Three history variables say what a TTL took: `unlisted`, pairs that
`following:bigv` lost; `lapsed`, videos whose `user_videos` ran out with them (a repeated
fanout takes them out, `Renewed`); `missed`, those that were not in the inbox of a
follower when they lapsed. `FannedOutVideosPullable` excuses `lapsed` only.
`FollowedVideosVisible` excuses `unlisted` and `missed`, followers who may fall asleep
(`Sleepers`) and big Vs that are `Outdated`: the code does not ask a big V that has
nothing newer than the oldest video of the inbox. What had reached an inbox, which has no
TTL, it does not excuse.

### VideoDetail

One video's row as a version number, the local caches of VideoService and
FeedService, `video:detail`, and the lock. A GetDetail reader tries the lock,
looks again, queries, refills and releases; without the lock it waits `MaxTries`
rounds and queries all the same. A GetVideoByIDs reader refills without a lock
from a goroutine of its own, before or after its answer. An update commits and
removes the cached copy in either order, as its two events do. Keys expire at
any time, also the lock under its owner.

### Session

One account: the token and the password (as a number) of the row, and the copy in
Redis. Requests are sequences of single accesses; Logout and Rename first pass
JWTAuth, ChangePassword does not and ends in Logout. Tokens are numbers. A login
in the same second yields the same token again. `trouble` is a history variable:
"some" after an overlap or a half-done operation, "login" while an undisturbed
login repairs it, "none" otherwise.

### Comments

The requests that publish and delete, the reader of a page, and CommentWorker, each
access a step. The handler publishes the comment's event and the popularity event;
if the first failed it writes row and popularity in one transaction, otherwise
the worker writes them in two statements. An event may be lost although its
publication returned nil, and any access may fail or the worker crash, `MaxFaults`
times in all. A row is the comment and an id, so that a second row of a comment
shows. A page of the cache is the set of rows it was filled from; slicing is
left out.

### RateLimit

The requests of one subject to one endpoint, with the time of Redis as a number. A
write endpoint runs JWTAuth (a read through the breaker, after a miss or an error
a refill through the breaker) and then the sliding window, which looks at the
breaker but runs its script around it; login runs the fixed window only. Between
a request's time stamp and its script lie at most `MaxDelay`, its clock is wrong by at
most `MaxSkew`. The breaker is gobreaker as the code configures and calls it: calls
in flight belong to a generation, which a trip, a recovery or the end of the
interval ends.

### FeedWalk, LatestFeed, HotRank, LikesFeed, Feeds

`FeedWalk` is table `videos` and a client that asks for page after page with the
cursor of the last answer. Three modules extend it. In `LatestFeed` a page takes
several reads (the tail, then the range or the cold query, then the stitching
query), and between any two of them the timeline may be filled, trimmed, lost or
rebuilt by the single flight. In `HotRank` the first page merges the windows into
the snapshot of its minute and the next ones read on in it by offset; requests of
others store the same snapshot again, it expires, and where Redis has nothing MySQL
answers with a cursor of its own. Sorted sets and ORDER BY are `Ranked`: the
place of a member is the number of those that go before it. `LikesFeed` is one query over a column that
changes. `Feeds` is their composition: the client opens one of the three. Popularity
and likes change by the steps that modules Likes and Comments have in detail; the
timeline consumer is that of Outbox.

### FollowingPages

ListByFollowing with a cursor: the sample of the big Vs, which of them are asked
and for how much, the merge, the fallback. Inbox and `user_videos` are any sets and
stand still. It exists for the walk with the cursor, which FollowFeed does not have.

## 3. Runs

`MC*.tla` define only the values a `.cfg` cannot write and the symmetry sets.

| Run | Instance | Shows |
|---|---|---|
| `likes_safety` | 2 users, 1 video, 2 handlers, window 2, 3 requests, 1 comment | `LikesCountMatchesRows`, `PopularityCoversLikes`, `NoEventLost`, and that Likes implements LikeLedger |
| `likes_live` | 1 user, 1 handler, window 2, 3 requests, `updateLikesCount` in use | `EventsSettle`: every accepted event is committed or dropped as stale |
| `likes_redelivery` | 1 user, 2 requests | finding 1 |
| `outbox` | 2 videos, page of 1, timeline of 1, all failures | `NoPublicationLost`, `TimelineKeepsNewest`, `DeliveredWhileConnected`, and that Outbox implements Delivery |
| `follow` | 2 followers, one of whom may fall asleep while the other's `following:bigv` may run out, 1 handler, 2 authors each on either side of the threshold, one of whose `user_videos` may run out, 2 videos, 2 requests, crashes | `RowsFollowLastRequest`, `BigVFollowed`, and `FollowedVideosVisible` on the push path, on the pull path and for who uses both |
| `follow_failures` | 1 follower, 2 videos, cap 1, every access may fail, `following:bigv` and `user_videos` may run out | `FannedOutVideosPullable` |
| `video_detail` | 2 readers, 1 update, 1 deletion, Redis fails | `LockOwned`, `EveryReadAnswered`, `EventuallyFresh` |
| `session` | 2 requests at a time, 3 tokens, 1 change of the password, failures | `SessionConsistent`, `RevokedEventually` |
| `limits` | 3 requests, 1 allowed per window of 4, delay and skew of 1, 2 failures open the breaker | `SlidingBound`, `FixedBound`, `RejectionJustified`, `LimitedWhenHealthy` |
| `comments` | 1 comment, 1 deletion, 2 cached pages, 2 faults | `DuplicatesNeedRedelivery`, `PopularityCountsRows`, `AcceptedStored`, `PagesEventuallyFresh` |
| `feeds` | 3 to 4 videos, two of one millisecond, pages of 2, timeline of 2 that is lost once, 2 windows and 1 update of a popularity, 1 deletion, everything may fail | `LatestNoRepeats`, `LatestComplete`, `HotNoRepeats`, `HotComplete`, `LikesNoRepeats`, `LikesComplete` |
| `following_pages` | 3 videos, 1 big V, pages of 2, nothing fails | finding 2 |

Every passing run but `follow_failures` and `likes_live`, whose modules are covered by
others, checks the type invariant of its module as well.

Why the bounds are enough. Every race in the code is between two actors (handler
and worker, two handlers, two readers, fanout and follow) and over one row, so two
of each and one contested object meet every pair of steps; the third request, token or
event lets an old one come back after a newer one took effect. In `follow`, where two
authors leave room for two requests only, a redelivery or the handler's own write does;
there a second handler would add states and no pair of steps, since it meets the
worker, which writes the same rows, in all of them. Page, timeline and
caps of one or two are reached by two videos, so trims and full pages happen.
In `follow` only one set and one list may run out, so that each run of the feed also has
a neighbour that keeps its own. The threshold is 3 and an author starts either without a cached count,
to be counted below it, or with a cached count of 3, so each path is taken; see
section 6 for an author who crosses it in between. In `limits` the window is longer
than `MaxDelay + 2 * MaxSkew`, so the bound is not empty, and the time suffices for a
second window and for the breaker to open, be probed and close. In `feeds` a walk
has three pages where the timeline covers one, and the ties sit at the newest end. The
proofs of section 5 remove the bounds from most of the safety properties.

Deadlock is checked in `outbox`, `video_detail`, `session` and `comments`. In the other
runs requests, videos or the time are bounded, and a system that has served them all,
or a client at the end of its feed, has really nothing to do.

## 4. Fairness

- *Likes*: the broker pushes (WF). Read, commit and acknowledgement of the worker
  are strongly fair: MySQL errors and crashes may recur for ever but do not hit
  every attempt. Without the latter nothing can be promised, since the code
  retries by requeueing.
- *Outbox*: poller and consumer are loops that go on (WF), and each access
  succeeds now and then (SF). ApiRestart is not fair: nothing restarts the
  process because its connection broke, and `DeliveredWhileConnected` says so by
  its premise.
- *VideoDetail*: goroutines go on, and the TTLs of cached values run out (WF). The
  expiry of the lock is *not* fair, so `EveryReadAnswered` does not lean on it.
  Redis may fail at every access for ever.
- *Session*: requests go on and the copy in Redis expires (WF). The expiry is what
  `RevokedEventually` rests on; the point of the property is that requests with
  a revoked token never renew the copy.

- *Comments*: requests, worker and readers that have begun go on, and the TTL of a
  cached page runs out (WF). Accesses fail and the worker crashes only `MaxFaults`
  times, and it is restarted; with unbounded faults a Nack could repeat for ever.

The remaining specifications state safety only and assume no fairness.

## 5. Proofs

Proved by TLAPS for all values of the constants under the named assumptions of
the modules (finite sets, positive bounds, Boolean switches):

| Theorem | Statement | Further assumption |
|---|---|---|
| `LikesProofs!TypeCorrect` | types, and a busy worker holds a delivery | - |
| `LikesProofs!LikesCountCorrect` | `LikesCountMatchesRows` | the column is not overwritten (`SyncCounts = {}`) |
| `LikesProofs!PopularityCorrect` | `PopularityCoversLikes` | - |
| `LikesProofs!NoEventLostCorrect` | `NoEventLost` | - |
| `LikesProofs!LikesImplementsLedger` | Likes implements LikeLedger | `SyncCounts = {}` |
| `OutboxProofs!TypeCorrect` | types | - |
| `OutboxProofs!NoPublicationLostCorrect` | `NoPublicationLost` | - |
| `OutboxProofs!TimelineCorrect` | `TimelineKeepsNewest` | - |
| `OutboxProofs!OutboxImplementsDelivery` | Outbox implements Delivery | - |
| `FollowFeedProofs!TypeCorrect` | types | - |
| `FollowFeedProofs!PullableCorrect` | `FannedOutVideosPullable` | - |
| `FollowFeedProofs!RowsCorrect` | `RowsFollowLastRequest` | users wait, broker and MySQL do not fail |
| `FollowFeedProofs!BigVCorrect` | `BigVFollowed` | and Redis does not fail |
| `FollowFeedProofs!VisibleCorrect` | `FollowedVideosVisible` | and nobody has followers enough to become a big V |
| `FollowFeedProofs!OnlyBigVsListedCorrect` | `following:bigv` lists big Vs only, so nobody else is ever `Outdated` | the same |
| `VideoDetailProofs!TypeCorrect` | types; no more than `MaxTries` rounds | - |
| `VideoDetailProofs!LockOwnedCorrect` | `LockOwned` | - |
| `SessionProofs!TypeCorrect` | types; no token before it is issued | - |
| `SessionProofs!SessionCorrect` | `SessionConsistent` | - |
| `RateLimitProofs!TypeCorrect` | types; the count of failures stays below the threshold | - |
| `RateLimitProofs!SlidingBoundCorrect` | `SlidingBound` | - |
| `RateLimitProofs!FixedBoundCorrect` | `FixedBound` | - |
| `RateLimitProofs!RejectionJustifiedCorrect` | `RejectionJustified` | - |
| `RateLimitProofs!LimitedWhenHealthyCorrect` | `LimitedWhenHealthy` | - |
| `CommentsProofs!TypeCorrect` | types | - |
| `CommentsProofs!DuplicatesCorrect` | `DuplicatesNeedRedelivery` | - |
| `CommentsProofs!PopularityCorrect` | `PopularityCountsRows` | - |
| `FeedsProofs!TypeCorrect` | types | - |
| `FeedsProofs!LatestNoRepeatsCorrect` | `LatestNoRepeats` | - |
| `FeedsProofs!LatestCompleteCorrect` | `LatestComplete` | events in order |
| `FeedsProofs!LikesNoRepeatsCorrect` | `LikesNoRepeats` | - |
| `FeedsProofs!HotNoRepeatsCorrect` | `HotNoRepeats` | - |
| `FeedsProofs!HotCompleteCorrect` | `HotComplete` | - |
| `FeedsProofs!LikesCompleteCorrect` | `LikesComplete` | - |

The arguments:

- *Counters.* Every step is an `Effect` on one pair, a step that leaves the tables
  alone, or one of the other writers (`StepKinds`). `EffectCounters` compares
  the cardinality of the rows before and after; `GREATEST` never cuts anything
  off because a deleted row implies a positive count. The same case split gives the
  refinement.
- *No event lost.* Strengthened by: a worker about to acknowledge has settled the
  event. The rest says of each queue operation which ids stay in flight.
- *Outbox.* `PollerInv`: past a publication the current row has reached that
  queue. It is inductive because `Reached...` is stable (`ReachedStable`), for which
  the consumer's part of `Typed` is needed: an acknowledgement follows the ZADD.
- *Delivery.* `InHand`: the poller works on pending rows only, what is queued was
  committed, and the consumer has one event at a time. Then a video is closed by one of
  two steps. The deletion of its row does it if no event of it is queued, and `PollerInv`
  says that both receivers had it (`DeleteRowCloses`); the acknowledgement of its last
  event does it if the row is gone, and `NoPublicationLost` says the same (`AckCloses`).
- *Timeline.* A trim removes only videos with `TimelineCap` newer ones, and these
  stay newer when more are consumed (`NewerMonotonic`).
- *user_videos.* `PullInv` extends the property to the video in FanoutWorker's
  hands, which is what makes the acknowledgement safe, and says that the list has
  published videos of its author only, which bounds what a trim may take. When the list
  runs out all it had goes to `lapsed`, and only a ZADD of the same video takes it out.
- *Rows.* `RowInv`: a handler about to write is the last that published for its
  pair; the last event of a pair in the queue is the last request; once all events
  of a pair are applied its row is what the last request asked for. A redelivery in
  order re-applies the window and ends with the same event.
- *following:bigv.* `BigVInv`: an unfollowed big V is still listed only while the
  event that removes it is in the queue and not past SREM.
- *Followed videos.* `VisibleInv`: a recent pushed video is in the inbox of everyone
  whose last request was to follow, or FanoutWorker still owes it (`FanoutOwes`), or a
  follow event that will read it back is in the queue (`PushKept`, `BackfillReady`), or it
  was missed. The two workers meet in `user_videos`, which is written before the followers
  are read; if the list has run out in between, the backfill finds nothing, and
  `MissedKept` says that the video is then in the inbox already or noted as missed. A
  followed big V is in the list, or was until its TTL, or an event in the queue will put it
  there (`ListKept`). An inbox has published videos only and fewer than `InboxCap` of them
  are newer than a recent one, so no trim takes it (`SocialInboxKept`, `FanoutInboxKept`).
  Both kinds may meet in one feed: a listed big V that is not outdated is asked, because
  the video that makes it so, or the one in question, is in `user_videos`.
- *Lock.* A release compares the owner, so a step of one reader never takes
  another's lock (`OthersStay`).
- *Session.* `SessionInv`: undisturbed requests are alone unless they read (`Alone`),
  a writer between its two writes knows what it wrote (`Writers`), and row and
  Redis agree at all other times (`Agree`).

- *Sliding window.* `SlidingKept`: the sorted set is never larger than the limit,
  and whatever was counted in the last `Window - Slack` is still in it. A script
  removes by the stamp of its own request; `Timed` bounds how far that and the
  stamps of the others are from the times they were counted, which is where `Slack`
  comes from. `RejectionJustified` reads the same bounds the other way.
- *Fixed window.* `FixedKept`: an interval of the window's length meets at most two
  lives of the key (`Current`, `Previous`), each with at most `MaxRequests` counted.
- *Breaker.* `BreakerWaits`: open or half open only within `Timeout` of the last
  failure or until somebody calls; a half-open breaker has a probe out. A request that
  came in later has itself read through the breaker and so has closed it.
- *Comments.* `OnePath`: an event in the queue and the transaction of the fallback
  exclude each other. `DeliveriesToSpare`: an event still to be applied has had
  one delivery more than its comment has rows.
- *Latest feed.* `LatestBehind`: what was shown lies at or above the cursor, and what
  a request has in hand below it. Every store is asked for what is below the cursor,
  so it does not matter which answers, or what the watermark said.
- *Latest feed, complete.* `LatestWhole`: the times of the timeline have no gap above its
  oldest video (`Gapless`), and what a rebuild in flight will add leaves none: what was
  published after its query is in sight on the timeline, itself or a video of its
  millisecond (`InSight`), and too little for a trim to take the last of them
  (`FlightFits`). What is due to a client and not in the hands of its request, nor a twin
  of what is, is not newer (`RequestFits`), so the query that stitches the cold
  rest still finds it.
- *Feed by likes.* `LikesParted`: the cursor parts the shown videos from the rest,
  except for those whose likes carried them across (`rose`, `fell`).
- *Feed by popularity.* `HotKept`: the order in hand is the one the first page was cut
  in. With a snapshot, what was shown are the members at the offset and before it that
  were still videos (`SnapshotWalked`). The offset counts shown items, so it falls behind
  when a member is gone, but such a page is short and ends the walk. With MySQL, what was
  shown is what does not come behind the cursor (`TableWalked`), which a deletion does not
  change. `HotUnread` is the state before the first page.
- *Rankings.* `RankedLists`: if a finite set is strictly ordered, no two members have the
  same number of others before them, so `Ranked` is a list in which every member has one
  place. `SumIsInt` gives the merged scores a type: the sum over a finite set exists,
  by an induction over its subsets that `SetInduction` states for sets of numbers,
  because the library's rules take an operator. `PageSizes` and `LastOfPage` say what a
  page of a list is.

Every invariant and every refinement that the runs check is proved. Only
model-checked is liveness (`EventsSettle`, `DeliveredWhileConnected`,
`EveryReadAnswered`, `EventuallyFresh`, `RevokedEventually`, `AcceptedStored`,
`PagesEventuallyFresh`), since the prover has no fairness. Where a theorem has a further
assumption the property fails without it; TLC has the counterexample: an overwritten
column, a lost publication, an author who crosses the threshold between two counts, an
event out of order. Videos of one millisecond need none: the proof of `LatestComplete`
said what `Tied` has to excuse. A trim during a rebuild may cut between two of them, and
a page of three whose twins cannot be looked up then passes over the one that is off.

## 6. Findings

1. `likes_redelivery`. `src/README.md` says a repeated delivery has no side effect.
   LikeWorker recognises a repetition by the row only. An event that was committed and
   not acknowledged, followed by the opposite request on the synchronous path, is applied
   again when it is redelivered and undoes that request. TLC prints one of two traces of
   the same length: an unlike is published first and its redelivery deletes the row of the
   later like, or a like is published first and its redelivery re-creates the row that
   the later unlike deleted. The counters still agree with the rows.
2. `following_pages`. `feed/handler.go:111` reads the cursor of the following feed as
   seconds; the answer gives milliseconds (`feed/service.go:457`) and the frontend sends
   them back. The cursor lies in the far future, the filter that is there against
   repetitions (`feed/service.go:256` and `:521`) filters nothing, and every page is the
   first.

Seen while modelling, not the subject of a run:

- The AMQP connection of the API is dialled once (`middleware/rabbitmq/rabbitmq.go:28`);
  after it breaks, pending outbox rows wait for a restart that nothing triggers,
  although the comment of the poller promises eventual consistency
  (`worker/outboxworker.go:21`). `DeliveredWhileConnected` is the guarantee that is left.
- The comment at `worker/fanoutworker.go:157` says that followers without `user:active`
  are served by the pull path. That path asks big Vs only, and MySQL only when
  Redis has nothing, so after the next login what was left out stays hidden as soon
  as the inbox has anything. `FollowedVideosVisible`
  is for the followers who stay active; in run `follow` one follower may fall asleep.
- `following:bigv` and `user_videos` run out after 24 hours
  (`worker/socialworker.go:136`, `worker/fanoutworker.go:132`; section 3 of
  `src/backend_repeat/docs/push-pull-hybrid-feed.md` documents both TTLs) and nothing
  rebuilds them. A day after the last follow of a big V, or after the big V's last
  video, its videos are gone from every feed whose inbox is not empty, and a new
  follower of an author who paused for a day is backfilled with nothing.
- The comment at `middleware/ratelimit/sliding_window.go:59` claims the bound for any
  window. `SlidingBound` is weaker by `Slack`, as the time stamps are taken before the
  script runs and by clocks that differ.
- The comment at UpdatePopularityCache (`video/popularity_cache.go:14`) says the next
  GetDetail gets the newest counts. A reader that queried before the commit refills
  after the removal, and the old copy stays for its TTL; `EventuallyFresh` shows that
  it does not stay longer.
- `src/docs/backend-interview-qa.md:792` speaks of a unique index that makes comments
  idempotent. There is none; `DuplicatesNeedRedelivery` says how far rows may repeat.
- In ListLatest the only request that rebuilds an empty timeline goes on with the
  tail it read before, `zsetTail[0]` of an empty slice (`feed/service.go:95`), and is
  answered with status 500; a request that shared the flight begins anew. `RebuildWrites`
  has both, and the client asks again.
- A timeline event consumed out of order leaves a gap in the timeline that
  the stitching does not see, so the feed skips what lies in it until the next rebuild;
  `LatestComplete` is checked with events in order.
- A ranking whose length is a multiple of the page size sends the client on to MySQL,
  whose answer has as_of 0: the page after it begins the ranking anew.
- If the publication of an unfollow fails while the event of the follow is still
  queued, the worker inserts the row again (`social/service.go:86`).
- SocialWorker and FanoutWorker cache the follower count without expiry. When an
  author crosses the threshold between their counts they decide differently, and
  a follower is served by neither path (`worker/fanoutworker.go:259`).
- The pull of the following feed does not ask a big V whose newest video is older than
  the oldest of the inbox (`feed/service.go:381`), and the most active one may take the
  whole quota (`:387`). `Asked` and `Take` of FollowingPages have both; nothing in the
  code or the docs says what should hold.
- A redelivered popularity event counts twice in its minute. The score is a heuristic
  that no record has to agree with; `HotNoRepeats` and `HotComplete` hold whatever it is.
- A refill in JWTAuth may restore a token that a concurrent logout removed, and
  Logout returns early when the row has no token although Redis still may have one.
  `RevokedEventually` bounds both by the TTL.

## 7. Not modelled, and why

- The frontend, observability, uploads, configuration and routing: no state
  that other parts rely on.
- Read-only queries without a cache (IsLiked, author and follower lists).
- Payloads, names, JSON, password hashing and JWT signatures: a message is its
  kind and its ids, a token a number.
- Time is an order of events, but in RateLimit and HotRank, where it is counted. TTLs
  may run out at any moment; in FollowFeed those of the accounts in `Expiring` and
  `Sleepers`, which the theorems leave free. create_time is taken to be unique in Outbox and FollowFeed;
  in Feeds two videos may share a millisecond.
- The gobreaker library is external: RateLimit has its states as the code uses them,
  the other modules a refused access as an error.
- The wrappers of single Redis commands, SoftJWTAuth (the check of JWTAuth that lets
  everybody pass), and the three lists of a user's own videos, likes and followers.
- ListByFollowing while the inbox changes under a walk: with a cursor that starts every
  page at the top there is no property of such a walk to state.

## 8. What is left

In the order of their worth: an author who crosses the threshold, with what
the two workers then still agree on; Comments with several comments at once and the
slicing of pages; a composition of Likes, Comments and VideoDetail, whose events travel
apart but meet in the row of the video.
