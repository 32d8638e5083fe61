------------------------------- MODULE Likes -------------------------------
(***************************************************************************)
(* Likes: LikeService (API handlers), the durable like queue, LikeWorker   *)
(* and the MySQL tables they share.  A handler is a sequence of steps that *)
(* interleave with other handlers, with the worker and with the deletion   *)
(* of the video; the worker has a prefetch window, acknowledges by hand,   *)
(* and may crash between the commit of an event and its acknowledgement.   *)
(***************************************************************************)
EXTENDS Integers, Sequences, FiniteSets

CONSTANTS
    Users,        \* account ids
    Videos,       \* video ids; all of them published when the model starts
    Handlers,     \* API goroutines
    Prefetch,     \* Qos of the worker's channel (50 in cmd/worker/main.go)
    SyncCounts,   \* absolute values POST /video/updateLikesCount may write
    MaxRequests,  \* bound on the requests the handlers receive
    MaxComments   \* bound on the comments that add to popularity

ASSUME UsersFinite == IsFiniteSet(Users)
ASSUME BoundsTyped == /\ Prefetch \in Nat \ {0}
                      /\ MaxRequests \in Nat
                      /\ MaxComments \in Nat
\* LikesCount is `binding:"required"`, so gin rejects the value zero.
ASSUME SyncCountsTyped == SyncCounts \subseteq Int \ {0}

VARIABLES
    videos,      \* rows of table videos
    likes,       \* rows of table likes: pairs <<video, account>>
    likesCount,  \* videos.likes_count
    popularity,  \* videos.popularity
    handler,     \* handler[h]: the request h is serving and where it stands
    ready,       \* messages the broker holds in the queue
    unacked,     \* messages delivered to the worker and not yet settled
    workerAt,    \* what the worker does with the first of unacked
    nreq,        \* number of requests received so far
    ncomments,   \* number of comments so far
    sent,        \* history: ids of the events the broker accepted
    settled      \* history: ids of the events committed or dropped as stale

vars == <<videos, likes, likesCount, popularity, handler, ready, unacked,
          workerAt, nreq, ncomments, sent, settled>>

dbVars     == <<videos, likes, likesCount, popularity>>
queueVars  == <<ready, unacked, workerAt, sent, settled>>

Actions == {"like", "unlike"}

\* LikeEvent; the id stands for EventID, unique per publication.
Events == [id : Nat, action : Actions, user : Users, video : Videos]

\* The steps of LikeService.Like and Unlike.
HandlerSteps == {"IsExist", "likeMQ", "popularityMQ", "fallback"}
Idle == [at |-> "idle"]
Serving == [at : HandlerSteps, id : Nat, action : Actions, user : Users,
            video : Videos, likeMQSent : BOOLEAN]

\* The steps of LikeWorker.handleDelivery for one delivery.
WorkerSteps == {"IsExist", "Transaction", "Ack", "Nack"}

\* The likers of a video according to table likes.
Rows(v) == {u \in Users : <<v, u>> \in likes}

TypeOK ==
    /\ videos \in SUBSET Videos
    /\ likes \in SUBSET (Videos \X Users)
    /\ likesCount \in [Videos -> Int]
    /\ popularity \in [Videos -> Nat]
    /\ handler \in [Handlers -> Serving \cup {Idle}]
    /\ ready \in Seq(Events)
    /\ unacked \in Seq(Events)
    /\ workerAt \in WorkerSteps
    /\ nreq \in Nat
    /\ ncomments \in Nat
    /\ sent \in SUBSET Nat
    /\ settled \in SUBSET Nat

Init ==
    /\ videos = Videos
    /\ likes = {}
    /\ likesCount = [v \in Videos |-> 0]
    /\ popularity = [v \in Videos |-> 0]
    /\ handler = [h \in Handlers |-> Idle]
    /\ ready = <<>>
    /\ unacked = <<>>
    /\ workerAt = "IsExist"
    /\ nreq = 0
    /\ ncomments = 0
    /\ sent = {}
    /\ settled = {}

-----------------------------------------------------------------------------
(* MySQL.  A transaction is one step: it commits with all its effects, or  *)
(* the action that calls it has a disjunct in which it has none.           *)

\* GREATEST(column + change, 0)
Greatest0(n) == IF n > 0 THEN n ELSE 0

\* UPDATE videos SET c = GREATEST(c + change, 0) WHERE id = v: no row of a
\* deleted video matches.
Bump(column, v, change) ==
    IF v \in videos THEN [column EXCEPT ![v] = Greatest0(@ + change)] ELSE column

\* As a bug: the duplicate check is missing, a second like counts again.
InsertLikeCountsDuplicates(v, u) ==
    /\ likes' = likes \cup {<<v, u>>}
    /\ likesCount' = Bump(likesCount, v, 1)
    /\ popularity' = Bump(popularity, v, 1)

\* As a bug: likes_count is left to another transaction.
InsertLikeForgetsCount(v, u) ==
    /\ <<v, u>> \notin likes
    /\ likes' = likes \cup {<<v, u>>}
    /\ likesCount' = likesCount
    /\ popularity' = Bump(popularity, v, 1)

\* The transaction that inserts the like row and moves both counters.
InsertLike(v, u) ==
    /\ <<v, u>> \notin likes
    /\ likes' = likes \cup {<<v, u>>}
    /\ likesCount' = Bump(likesCount, v, 1)
    /\ popularity' = Bump(popularity, v, 1)

\* As a bug: the counters move although no row was deleted.
DeleteLikeIgnoresRows(v, u) ==
    /\ likes' = likes \ {<<v, u>>}
    /\ likesCount' = Bump(likesCount, v, -1)
    /\ popularity' = Bump(popularity, v, -1)

\* As a bug: neither the deleted rows nor GREATEST protect the counters.
DeleteLikeUnclamped(v, u) ==
    /\ likes' = likes \ {<<v, u>>}
    /\ likesCount' = [likesCount EXCEPT ![v] = @ - 1]
    /\ popularity' = [popularity EXCEPT ![v] = @ - 1]

\* The transaction that deletes the like row and moves both counters.
DeleteLike(v, u) ==
    /\ <<v, u>> \in likes
    /\ likes' = likes \ {<<v, u>>}
    /\ likesCount' = Bump(likesCount, v, -1)
    /\ popularity' = Bump(popularity, v, -1)

\* The write half of an event or a request, when there is a row to move.
Effect(action, v, u) ==
    /\ \/ action = "like" /\ InsertLike(v, u)
       \/ action = "unlike" /\ DeleteLike(v, u)
    /\ UNCHANGED videos

\* The unique index refuses the insertion, or the deletion hits no row.
NothingToDo(action, v, u) ==
    \/ action = "like" /\ <<v, u>> \in likes
    \/ action = "unlike" /\ <<v, u>> \notin likes

-----------------------------------------------------------------------------
(* LikeService.Like and LikeService.Unlike, step by step.                  *)

Goto(h, step) == handler' = [handler EXCEPT ![h].at = step]
Respond(h)    == handler' = [handler EXCEPT ![h] = Idle]

\* A validated request reaches an idle handler.
Receive(h, action, u, v) ==
    /\ handler[h].at = "idle"
    /\ nreq < MaxRequests
    /\ nreq' = nreq + 1
    /\ handler' = [handler EXCEPT ![h] =
                      [at |-> "IsExist", id |-> nreq + 1, action |-> action,
                       user |-> u, video |-> v, likeMQSent |-> FALSE]]
    /\ UNCHANGED <<dbVars, queueVars, ncomments>>

\* videoRepo.IsExist, outside any transaction: a missing video or a database
\* error ends the request.
CheckVideo(h) ==
    /\ handler[h].at = "IsExist"
    /\ \/ handler[h].video \in videos /\ Goto(h, "likeMQ")
       \/ Respond(h)
    /\ UNCHANGED <<dbVars, queueVars, nreq, ncomments>>

\* likeMQ.Like / likeMQ.Unlike succeeds.
PublishLike(h) ==
    LET r == handler[h] IN
    /\ r.at = "likeMQ"
    /\ ready' = Append(ready, [id |-> r.id, action |-> r.action,
                               user |-> r.user, video |-> r.video])
    /\ sent' = sent \cup {r.id}
    /\ handler' = [handler EXCEPT ![h].at = "popularityMQ", ![h].likeMQSent = TRUE]
    /\ UNCHANGED <<dbVars, unacked, workerAt, settled, nreq, ncomments>>

\* PublishWithContext returns nil without a publisher confirm, and the message
\* never reaches the broker.  The handler cannot tell this from success.
PublishLikeLost(h) ==
    /\ handler[h].at = "likeMQ"
    /\ handler' = [handler EXCEPT ![h].at = "popularityMQ", ![h].likeMQSent = TRUE]
    /\ UNCHANGED <<dbVars, queueVars, nreq, ncomments>>

\* likeMQ is nil, or the publication returns an error.
PublishLikeFails(h) ==
    /\ handler[h].at = "likeMQ"
    /\ Goto(h, "popularityMQ")
    /\ UNCHANGED <<dbVars, queueVars, nreq, ncomments>>

\* popularityMQ.Update, successful or not.  If the like event went out, what is
\* left at most is UpdatePopularityCache, which touches Redis only (module
\* VideoDetail); otherwise the handler falls back to MySQL.
PublishPopularity(h) ==
    /\ handler[h].at = "popularityMQ"
    /\ IF handler[h].likeMQSent THEN Respond(h) ELSE Goto(h, "fallback")
    /\ UNCHANGED <<dbVars, queueVars, nreq, ncomments>>

\* The synchronous transaction commits.
Fallback(h) ==
    LET r == handler[h] IN
    /\ r.at = "fallback"
    /\ Effect(r.action, r.video, r.user)
    /\ Respond(h)
    /\ UNCHANGED <<queueVars, nreq, ncomments>>

\* The transaction rolls back: "user has liked this video", "user has not liked
\* this video", or a database error.  The request fails.
FallbackFails(h) ==
    /\ handler[h].at = "fallback"
    /\ Respond(h)
    /\ UNCHANGED <<dbVars, queueVars, nreq, ncomments>>

\* The API process stops while h is serving: the request is simply gone.
HandlerCrash(h) ==
    /\ handler[h].at # "idle"
    /\ Respond(h)
    /\ UNCHANGED <<dbVars, queueVars, nreq, ncomments>>

-----------------------------------------------------------------------------
(* The broker and LikeWorker.                                              *)

\* The broker pushes the next message while the prefetch window has room.
Deliver ==
    /\ ready # <<>>
    /\ Len(unacked) < Prefetch
    /\ unacked' = Append(unacked, Head(ready))
    /\ ready' = Tail(ready)
    /\ UNCHANGED <<dbVars, handler, workerAt, nreq, ncomments, sent, settled>>

\* The event LikeWorker is working on.
Current == Head(unacked)

WorkerGoto(step) == workerAt' = step

\* applyLike / applyUnlike read the video outside the transaction: present.
WorkerFindsVideo ==
    /\ workerAt = "IsExist" /\ unacked # <<>>
    /\ Current.video \in videos
    /\ WorkerGoto("Transaction")
    /\ UNCHANGED <<dbVars, handler, ready, unacked, sent, settled, nreq, ncomments>>

\* The video is gone: the event is dropped, that is acknowledged unapplied.
WorkerDrops ==
    /\ workerAt = "IsExist" /\ unacked # <<>>
    /\ Current.video \notin videos
    /\ WorkerGoto("Ack")
    /\ settled' = settled \cup {Current.id}
    /\ UNCHANGED <<dbVars, handler, ready, unacked, sent, nreq, ncomments>>

\* The transaction commits; on a duplicate it commits empty.
WorkerCommits ==
    /\ workerAt = "Transaction"
    /\ \/ Effect(Current.action, Current.video, Current.user)
       \/ NothingToDo(Current.action, Current.video, Current.user) /\ UNCHANGED dbVars
    /\ WorkerGoto("Ack")
    /\ settled' = settled \cup {Current.id}
    /\ UNCHANGED <<handler, ready, unacked, sent, nreq, ncomments>>

\* Either database access fails; nothing is written.
WorkerFails ==
    /\ workerAt \in {"IsExist", "Transaction"} /\ unacked # <<>>
    /\ WorkerGoto("Nack")
    /\ UNCHANGED <<dbVars, handler, ready, unacked, sent, settled, nreq, ncomments>>

\* d.Ack(false)
WorkerAcks ==
    /\ workerAt = "Ack"
    /\ unacked' = Tail(unacked)
    /\ WorkerGoto("IsExist")
    /\ UNCHANGED <<dbVars, handler, ready, sent, settled, nreq, ncomments>>

\* As a bug: Nack without requeue.
WorkerNacksDiscarding ==
    /\ workerAt = "Nack"
    /\ ready' = ready
    /\ unacked' = Tail(unacked)
    /\ WorkerGoto("IsExist")
    /\ UNCHANGED <<dbVars, handler, sent, settled, nreq, ncomments>>

\* d.Nack(false, true): the broker requeues the message at its old place, ahead
\* of what it still holds but behind what it has already pushed.
WorkerNacks ==
    /\ workerAt = "Nack"
    /\ ready' = <<Current>> \o ready
    /\ unacked' = Tail(unacked)
    /\ WorkerGoto("IsExist")
    /\ UNCHANGED <<dbVars, handler, sent, settled, nreq, ncomments>>

\* As a bug: consumption with autoAck, so a crash loses the window.
WorkerCrashAutoAck ==
    /\ unacked # <<>>
    /\ ready' = ready
    /\ unacked' = <<>>
    /\ WorkerGoto("IsExist")
    /\ UNCHANGED <<dbVars, handler, sent, settled, nreq, ncomments>>

\* The worker process or its connection dies; everything unacknowledged is
\* delivered again to the restarted worker.
WorkerCrash ==
    /\ unacked # <<>>
    /\ ready' = unacked \o ready
    /\ unacked' = <<>>
    /\ WorkerGoto("IsExist")
    /\ UNCHANGED <<dbVars, handler, sent, settled, nreq, ncomments>>

-----------------------------------------------------------------------------
(* The other writers of the table videos.                                  *)

\* VideoRepository.DeleteVideo: the like rows stay behind.
DeleteVideo(v) ==
    /\ v \in videos
    /\ videos' = videos \ {v}
    /\ UNCHANGED <<likes, likesCount, popularity, handler, queueVars, nreq, ncomments>>

\* A comment adds one to the popularity of its video.
CommentPopularity(v) ==
    /\ v \in videos
    /\ ncomments < MaxComments
    /\ ncomments' = ncomments + 1
    /\ popularity' = Bump(popularity, v, 1)
    /\ UNCHANGED <<videos, likes, likesCount, handler, queueVars, nreq>>

\* POST /video/updateLikesCount writes an absolute value.
SetLikesCount(v, n) ==
    /\ v \in videos
    /\ likesCount' = [likesCount EXCEPT ![v] = n]
    /\ UNCHANGED <<videos, likes, popularity, handler, queueVars, nreq, ncomments>>

-----------------------------------------------------------------------------
HandlerNext(h) ==
    \/ \E action \in Actions, u \in Users, v \in Videos : Receive(h, action, u, v)
    \/ CheckVideo(h)
    \/ PublishLike(h)
    \/ PublishLikeLost(h)
    \/ PublishLikeFails(h)
    \/ PublishPopularity(h)
    \/ Fallback(h)
    \/ FallbackFails(h)
    \/ HandlerCrash(h)

WorkerNext ==
    \/ Deliver
    \/ WorkerFindsVideo
    \/ WorkerDrops
    \/ WorkerCommits
    \/ WorkerFails
    \/ WorkerAcks
    \/ WorkerNacks
    \/ WorkerCrash

VideoNext(v) ==
    \/ DeleteVideo(v)
    \/ CommentPopularity(v)
    \/ \E n \in SyncCounts : SetLikesCount(v, n)

Next ==
    \/ \E h \in Handlers : HandlerNext(h)
    \/ WorkerNext
    \/ \E v \in Videos : VideoNext(v)

Spec == Init /\ [][Next]_vars

\* The broker keeps pushing and the worker keeps running; MySQL errors and
\* worker crashes may recur for ever, but not at every single attempt.
Fairness ==
    /\ WF_vars(Deliver)
    /\ SF_vars(WorkerFindsVideo \/ WorkerDrops)
    /\ SF_vars(WorkerCommits)
    /\ SF_vars(WorkerAcks)
    /\ WF_vars(WorkerNacks)

FairSpec == Spec /\ Fairness

-----------------------------------------------------------------------------
(* Properties.                                                             *)

\* likes_count of an existing video is the number of its rows in table likes,
\* whatever the interleaving of handlers, fallback transactions, redelivered
\* events and deletions (as long as nobody overwrites the column, see
\* SyncCounts).
LikesCountMatchesRows ==
    \A v \in videos : likesCount[v] = Cardinality(Rows(v))

\* The popularity of an existing video is at least the number of its likes, so
\* GREATEST never hides an unlike that had no matching like.
PopularityCoversLikes ==
    \A v \in videos : popularity[v] >= Cardinality(Rows(v))

\* The worker is past its first step only while it holds a delivery.
WorkerHoldsDelivery == workerAt # "IsExist" => unacked # <<>>

Holds(q, id) == \E i \in 1..Len(q) : q[i].id = id
InFlight(id) == Holds(ready, id) \/ Holds(unacked, id)

\* Manual acknowledgement: an event the broker accepted is still held by the
\* broker or pending at the worker until it is committed or dropped as stale.
NoEventLost == \A id \in sent : id \in settled \/ InFlight(id)

\* Every event the broker accepted is eventually committed, or dropped because
\* its video is gone.
EventsSettle ==
    \A id \in 1..MaxRequests : (id \in sent) ~> (id \in settled)

\* An event that was settled before changes nothing when it is delivered again.
RedeliveryHasNoEffect ==
    [][\A id \in settled :
          WorkerCommits /\ Current.id = id => likes' = likes]_vars

\* Likes implements LikeLedger: rows and counters of deleted videos are
\* forgotten.
Ledger == INSTANCE LikeLedger WITH
    live <- videos,
    likers <- [v \in Videos |-> IF v \in videos THEN Rows(v) ELSE {}],
    count <- [v \in Videos |-> IF v \in videos THEN likesCount[v] ELSE 0]

\* Every step changes likers and counters as one atomic step of the ledger.
ImplementsLedger == Ledger!LedgerSpec
=============================================================================
