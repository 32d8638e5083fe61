------------------------------- MODULE Outbox -------------------------------
(***************************************************************************)
(* The publication pipeline of the API process: PublishVideo writes the    *)
(* video and its outbox row in one transaction, the outbox poller hands    *)
(* pending rows to the timeline and the fanout queues and deletes them,    *)
(* and the timeline consumer adds the video to feed:global_timeline.       *)
(*                                                                         *)
(* A video is the number of its create_time, so "newer" is "greater"; two  *)
(* publications may commit in either order.  What FanoutWorker does with   *)
(* its queue is not part of this module.                                   *)
(***************************************************************************)
EXTENDS Integers, FiniteSets

CONSTANTS
    Videos,         \* the videos that may be published
    PageSize,       \* rows per poll (100)
    TimelineCap,    \* length of the timeline after a trim (1000)
    MaxCopies,      \* bound on the copies of one event in the timeline queue
    FanoutEnabled,  \* the fanout queue was declared at start (fmq # nil)
    Lossy,          \* a publication may return nil and never reach the broker
    Drops,          \* the AMQP connection may break
    Restarts        \* the API process may die and be started again

ASSUME VideosFinite == Videos \subseteq Nat /\ IsFiniteSet(Videos)
ASSUME CapsTyped == /\ PageSize \in Nat \ {0}
                    /\ TimelineCap \in Nat \ {0}
                    /\ MaxCopies \in Nat \ {0}
ASSUME SwitchesTyped == {FanoutEnabled, Lossy, Drops, Restarts} \subseteq BOOLEAN

VARIABLES
    videos,      \* rows of table videos
    outbox,      \* rows of outbox_msgs, all of them pending
    batch,       \* rows the poller has read and not yet dealt with
    pollerAt,    \* the poller's next step, for the oldest row of batch
    timelineQ,   \* timelineQ[v]: copies of v's event in the timeline queue
    fanoutSent,  \* videos whose event reached the fanout queue
    lost,        \* history: videos one of whose events was lost without an error
    connected,   \* the process's only AMQP connection is open
    consumerAt,  \* the timeline consumer's next step
    consuming,   \* the set of the one event it works on, or empty
    timeline,    \* members of the ZSET feed:global_timeline
    consumed     \* history: videos that were ever added to the timeline

vars == <<videos, outbox, batch, pollerAt, timelineQ, fanoutSent, lost, connected,
          consumerAt, consuming, timeline, consumed>>
pollerVars   == <<outbox, batch, pollerAt, fanoutSent, lost>>
consumerVars == <<consumerAt, consuming, timeline, consumed>>

PollerSteps == {"Find", "PublishVideo", "PublishFanout", "Delete"}
ConsumerSteps == {"Receive", "ZAdd", "ZRemRangeByRank", "Ack"}

TypeOK ==
    /\ videos \in SUBSET Videos
    /\ outbox \in SUBSET Videos
    /\ batch \in SUBSET Videos
    /\ pollerAt \in PollerSteps
    /\ timelineQ \in [Videos -> Nat]
    /\ fanoutSent \in SUBSET Videos
    /\ lost \in SUBSET Videos
    /\ connected \in BOOLEAN
    /\ consumerAt \in ConsumerSteps
    /\ consuming \in SUBSET Videos
    /\ timeline \in SUBSET Videos
    /\ consumed \in SUBSET Videos

Init ==
    /\ videos = {}
    /\ outbox = {}
    /\ batch = {}
    /\ pollerAt = "Find"
    /\ timelineQ = [v \in Videos |-> 0]
    /\ fanoutSent = {}
    /\ lost = {}
    /\ connected = TRUE
    /\ consumerAt = "Receive"
    /\ consuming = {}
    /\ timeline = {}
    /\ consumed = {}

-----------------------------------------------------------------------------
Older(S, v) == {w \in S : w < v}
Newer(S, v) == {w \in S : w > v}

\* VideoRepository.PublishVideo: both rows or neither.
PublishVideo(v) ==
    /\ v \notin videos
    /\ videos' = videos \cup {v}
    /\ outbox' = outbox \cup {v}
    /\ UNCHANGED <<batch, pollerAt, timelineQ, fanoutSent, lost, connected, consumerVars>>

-----------------------------------------------------------------------------
(* StartOutboxPoller.                                                      *)

\* SELECT ... ORDER BY create_time LIMIT PageSize; an empty result or an error
\* only sleeps.
PollFind ==
    /\ pollerAt = "Find"
    /\ outbox # {}
    /\ batch' = {v \in outbox : Cardinality(Older(outbox, v)) < PageSize}
    /\ pollerAt' = "PublishVideo"
    /\ UNCHANGED <<videos, outbox, timelineQ, fanoutSent, lost, connected, consumerVars>>

\* The row of the current iteration of the loop over msgs.
IsCurrent(v) == v \in batch /\ Older(batch, v) = {}

\* The loop goes on to the next row, or back to the next poll.
NextRow(v) ==
    /\ batch' = batch \ {v}
    /\ pollerAt' = IF batch = {v} THEN "Find" ELSE "PublishVideo"

\* tmq.PublishVideo succeeds.
PublishToTimeline(v) ==
    /\ pollerAt = "PublishVideo" /\ IsCurrent(v)
    /\ connected
    /\ timelineQ[v] < MaxCopies
    /\ timelineQ' = [timelineQ EXCEPT ![v] = @ + 1]
    /\ pollerAt' = "PublishFanout"
    /\ UNCHANGED <<videos, outbox, batch, fanoutSent, lost, connected, consumerVars>>

\* A publication returns nil and the broker never gets the event.
PublishLost(v) ==
    /\ Lossy
    /\ IsCurrent(v)
    /\ \/ pollerAt = "PublishVideo" /\ pollerAt' = "PublishFanout"
       \/ pollerAt = "PublishFanout" /\ FanoutEnabled /\ pollerAt' = "Delete"
    /\ lost' = lost \cup {v}
    /\ UNCHANGED <<videos, outbox, batch, timelineQ, fanoutSent, connected, consumerVars>>

\* fmq.PublishFanout succeeds, or fmq is nil.
PublishToFanout(v) ==
    /\ pollerAt = "PublishFanout" /\ IsCurrent(v)
    /\ connected \/ ~FanoutEnabled
    /\ fanoutSent' = IF FanoutEnabled THEN fanoutSent \cup {v} ELSE fanoutSent
    /\ pollerAt' = "Delete"
    /\ UNCHANGED <<videos, outbox, batch, timelineQ, lost, connected, consumerVars>>

\* As a bug: the row goes although only the timeline queue has the event.
PublishFailsButDeletes(v) ==
    /\ pollerAt \in {"PublishVideo", "PublishFanout"} /\ IsCurrent(v)
    /\ pollerAt = "PublishFanout" => FanoutEnabled
    /\ outbox' = IF pollerAt = "PublishFanout" THEN outbox \ {v} ELSE outbox
    /\ NextRow(v)
    /\ UNCHANGED <<videos, timelineQ, fanoutSent, lost, connected, consumerVars>>

\* Either publication returns an error: `continue`, the row stays.
PublishFails(v) ==
    /\ pollerAt \in {"PublishVideo", "PublishFanout"} /\ IsCurrent(v)
    /\ pollerAt = "PublishFanout" => FanoutEnabled
    /\ NextRow(v)
    /\ UNCHANGED <<videos, outbox, timelineQ, fanoutSent, lost, connected, consumerVars>>

\* db.Delete(&msg), whose error is ignored.
DeleteRow(v) ==
    /\ pollerAt = "Delete" /\ IsCurrent(v)
    /\ \/ outbox' = outbox \ {v}
       \/ outbox' = outbox
    /\ NextRow(v)
    /\ UNCHANGED <<videos, timelineQ, fanoutSent, lost, connected, consumerVars>>

-----------------------------------------------------------------------------
(* StartConsumer.  Its order of consumption is left open: an event that is *)
(* requeued, or left unacknowledged by a crash, comes back later.          *)

\* As a bug: the delivery is acknowledged by itself, before the ZADD.
ConsumerReceiveAutoAck(v) ==
    /\ consumerAt = "Receive"
    /\ connected
    /\ timelineQ[v] > 0
    /\ consuming' = {v}
    /\ consumerAt' = "ZAdd"
    /\ timelineQ' = [timelineQ EXCEPT ![v] = @ - 1]
    /\ UNCHANGED <<videos, pollerVars, connected, timeline, consumed>>

ConsumerReceive(v) ==
    /\ consumerAt = "Receive"
    /\ connected
    /\ timelineQ[v] > 0
    /\ consuming' = {v}
    /\ consumerAt' = "ZAdd"
    /\ UNCHANGED <<videos, pollerVars, timelineQ, connected, timeline, consumed>>

\* ZADD with score create_time: adding a member again changes nothing.
ConsumerZAdd ==
    /\ consumerAt = "ZAdd"
    /\ timeline' = timeline \cup consuming
    /\ consumed' = consumed \cup consuming
    /\ consumerAt' = "ZRemRangeByRank"
    /\ UNCHANGED <<videos, pollerVars, timelineQ, connected, consuming>>

\* As a bug: a failed ZADD is acknowledged instead of requeued.
ConsumerNackDiscards ==
    /\ consumerAt = "ZAdd"
    /\ consumerAt' = "Receive"
    /\ consuming' = {}
    /\ timelineQ' = [v \in Videos |-> timelineQ[v] - (IF v \in consuming THEN 1 ELSE 0)]
    /\ UNCHANGED <<videos, pollerVars, connected, timeline, consumed>>

\* ZADD fails (Redis error, 50 ms timeout or open breaker): Nack with requeue.
ConsumerNack ==
    /\ consumerAt = "ZAdd"
    /\ consumerAt' = "Receive"
    /\ consuming' = {}
    /\ UNCHANGED <<videos, pollerVars, timelineQ, connected, timeline, consumed>>

\* As a bug: ranks counted from the wrong end, the newest members go.
ConsumerTrimNewest ==
    /\ consumerAt = "ZRemRangeByRank"
    /\ timeline' = {v \in timeline : Cardinality(Older(timeline, v)) < TimelineCap}
    /\ consumerAt' = "Ack"
    /\ UNCHANGED <<videos, pollerVars, timelineQ, connected, consuming, consumed>>

\* ZREMRANGEBYRANK 0 -(cap+1): all but the cap newest members go.
ConsumerTrim ==
    /\ consumerAt = "ZRemRangeByRank"
    /\ timeline' = {v \in timeline : Cardinality(Newer(timeline, v)) < TimelineCap}
    /\ consumerAt' = "Ack"
    /\ UNCHANGED <<videos, pollerVars, timelineQ, connected, consuming, consumed>>

\* The trim fails: logged, and the event is acknowledged all the same.
ConsumerTrimFails ==
    /\ consumerAt = "ZRemRangeByRank"
    /\ consumerAt' = "Ack"
    /\ UNCHANGED <<videos, pollerVars, timelineQ, connected, consuming, timeline, consumed>>

\* As a bug: the loop does not leave the event after acknowledging it.
ConsumerAckRepeats ==
    /\ consumerAt = "Ack"
    /\ timelineQ' = IF connected
                    THEN [v \in Videos |-> timelineQ[v] - (IF v \in consuming THEN 1 ELSE 0)]
                    ELSE timelineQ
    /\ UNCHANGED <<videos, pollerVars, connected, consumerVars>>

\* msg.Ack(false); on a broken connection the broker keeps the event.
ConsumerAck ==
    /\ consumerAt = "Ack"
    /\ timelineQ' = IF connected
                    THEN [v \in Videos |-> timelineQ[v] - (IF v \in consuming THEN 1 ELSE 0)]
                    ELSE timelineQ
    /\ consumerAt' = "Receive"
    /\ consuming' = {}
    /\ UNCHANGED <<videos, pollerVars, connected, timeline, consumed>>

-----------------------------------------------------------------------------
\* The connection breaks.  Nothing in the process opens another one: the poller
\* goes on failing, and the consumer's `range msgs` ends.
ConnectionDrop ==
    /\ Drops
    /\ connected
    /\ connected' = FALSE
    /\ UNCHANGED <<videos, pollerVars, timelineQ, consumerVars>>

\* The API process dies and is started again.
ApiRestart ==
    /\ Restarts
    /\ connected' = TRUE
    /\ batch' = {}
    /\ pollerAt' = "Find"
    /\ consumerAt' = "Receive"
    /\ consuming' = {}
    /\ UNCHANGED <<videos, outbox, timelineQ, fanoutSent, lost, timeline, consumed>>

-----------------------------------------------------------------------------
PollerNext ==
    \/ PollFind
    \/ \E v \in Videos : \/ PublishToTimeline(v)
                         \/ PublishLost(v)
                         \/ PublishToFanout(v)
                         \/ PublishFails(v)
                         \/ DeleteRow(v)

ConsumerNext ==
    \/ \E v \in Videos : ConsumerReceive(v)
    \/ ConsumerZAdd
    \/ ConsumerNack
    \/ ConsumerTrim
    \/ ConsumerTrimFails
    \/ ConsumerAck

Next ==
    \/ \E v \in Videos : PublishVideo(v)
    \/ PollerNext
    \/ ConsumerNext
    \/ ConnectionDrop
    \/ ApiRestart

Spec == Init /\ [][Next]_vars

\* The poller and the consumer are goroutines that keep running; an error of
\* MySQL, of Redis or of a publication, and a restart of the process, may recur
\* for ever but does not hit every single attempt.  Nothing restarts the process
\* because its connection broke, so ApiRestart is not fair.
Fairness ==
    /\ WF_vars(PollerNext)
    /\ WF_vars(ConsumerNext)
    /\ SF_vars(\E v \in Videos : PublishToTimeline(v))
    /\ SF_vars(\E v \in Videos : PublishToFanout(v))
    /\ SF_vars(\E v \in Videos : DeleteRow(v) /\ outbox' # outbox)
    /\ SF_vars(ConsumerZAdd)
    /\ SF_vars(ConsumerTrim \/ ConsumerTrimFails)
    /\ SF_vars(ConsumerAck)

FairSpec == Spec /\ Fairness

-----------------------------------------------------------------------------
(* Properties.                                                             *)

\* The timeline queue has the event of v, or had it and added v.
ReachedTimeline(v) == timelineQ[v] > 0 \/ v \in consumed
ReachedFanout(v)   == FanoutEnabled => v \in fanoutSent

\* A video that is committed is never forgotten: until its outbox row goes, both
\* queues have its event, or it was consumed.  This is what the deletion of the
\* row after both publications is for.  Only a publication that the broker loses
\* although it returned nil escapes it.
NoPublicationLost ==
    \A v \in videos \ lost : v \in outbox \/ (ReachedTimeline(v) /\ ReachedFanout(v))

\* Outbox implements Delivery: a video is open while its row or an event of it in
\* the timeline queue is left, so it goes from both only when the timeline and the
\* fanout had it or the broker lost something of it, the timeline is given nothing
\* but open videos, and neither a restart nor a stale batch opens a video again.
Pipeline == INSTANCE Delivery WITH
    Forwarding <- FanoutEnabled,
    accepted <- videos,
    open <- outbox \cup {v \in Videos : timelineQ[v] > 0},
    received <- consumed,
    forwarded <- fanoutSent,
    missed <- lost
ImplementsDelivery == Pipeline!DeliverySpec

\* Whatever the order, the repetitions and the failed trims, the timeline has
\* the newest TimelineCap of the videos it was ever given, and nothing else
\* than such videos.
TimelineKeepsNewest ==
    /\ timeline \subseteq consumed
    /\ \A v \in consumed :
          Cardinality(Newer(consumed, v)) < TimelineCap => v \in timeline

Delivered(v) == v \in consumed /\ ReachedFanout(v)

\* A published video reaches the timeline and the fanout queue, unless the broker
\* loses it, as far as this does not need a connection that is opened again: nobody
\* opens it.  Publications, deletions and Redis may fail and the process may restart
\* any number of times.
DeliveredWhileConnected ==
    \A v \in Videos : v \in videos ~> (Delivered(v) \/ v \in lost \/ ~connected)
=============================================================================
