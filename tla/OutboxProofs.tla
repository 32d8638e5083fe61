---------------------------- MODULE OutboxProofs ----------------------------
(* Proofs about module Outbox, for every value of its constants.           *)
EXTENDS Outbox, FiniteSetTheorems, TLAPS

-----------------------------------------------------------------------------
(* Types, and what the consumer knows about the event it holds.            *)

\* An event the consumer works on is still in the queue, once it is past ZADD it
\* was added, and there is none between two deliveries.
ConsumerInv ==
    /\ \A v \in consuming : timelineQ[v] > 0
    /\ consumerAt \in {"ZRemRangeByRank", "Ack"} => consuming \subseteq consumed

Typed == TypeOK /\ ConsumerInv

\* An action of the poller preserves types and the consumer's knowledge.
LEMMA PollerTyped ==
  ASSUME Typed, PollerNext
  PROVE  Typed'
  <1> USE DEF Typed, TypeOK, ConsumerInv, consumerVars, PollerSteps
  <1>1. CASE PollFind
    BY <1>1 DEF PollFind
  <1>2. ASSUME NEW v \in Videos, PublishToTimeline(v)
        PROVE  Typed'
    BY <1>2 DEF PublishToTimeline
  <1>3. ASSUME NEW v \in Videos, PublishLost(v)
        PROVE  Typed'
    BY <1>3 DEF PublishLost
  <1>4. ASSUME NEW v \in Videos, PublishToFanout(v)
        PROVE  Typed'
    BY <1>4 DEF PublishToFanout
  <1>5. ASSUME NEW v \in Videos, PublishFails(v)
        PROVE  Typed'
    BY <1>5 DEF PublishFails, NextRow
  <1>6. ASSUME NEW v \in Videos, DeleteRow(v)
        PROVE  Typed'
    BY <1>6 DEF DeleteRow, NextRow
  <1> QED
    BY <1>1, <1>2, <1>3, <1>4, <1>5, <1>6 DEF PollerNext

\* An action of the consumer preserves them too.
LEMMA ConsumerTyped ==
  ASSUME Typed, ConsumerNext
  PROVE  Typed'
  <1> USE DEF Typed, TypeOK, ConsumerInv, pollerVars, ConsumerSteps
  <1>1. ASSUME NEW v \in Videos, ConsumerReceive(v)
        PROVE  Typed'
    BY <1>1 DEF ConsumerReceive
  <1>2. CASE ConsumerZAdd
    BY <1>2 DEF ConsumerZAdd
  <1>3. CASE ConsumerNack
    BY <1>3 DEF ConsumerNack
  <1>4. CASE ConsumerTrim
    BY <1>4 DEF ConsumerTrim
  <1>5. CASE ConsumerTrimFails
    BY <1>5 DEF ConsumerTrimFails
  <1>6. CASE ConsumerAck
    <2>1. timelineQ' \in [Videos -> Nat]
      BY <1>6 DEF ConsumerAck
    <2> QED
      BY <1>6, <2>1 DEF ConsumerAck
  <1> QED
    BY <1>1, <1>2, <1>3, <1>4, <1>5, <1>6 DEF ConsumerNext

\* Both hold in every reachable state.
LEMMA TypedAlways == Spec => []Typed
  <1>1. Init => Typed
    BY DEF Init, Typed, TypeOK, ConsumerInv, PollerSteps, ConsumerSteps
  <1>2. Typed /\ [Next]_vars => Typed'
    <2> SUFFICES ASSUME Typed, [Next]_vars
                 PROVE  Typed'
      OBVIOUS
    <2>1. ASSUME NEW v \in Videos, PublishVideo(v)
          PROVE  Typed'
      BY <2>1 DEF PublishVideo, Typed, TypeOK, ConsumerInv, consumerVars
    <2>2. CASE ConnectionDrop
      BY <2>2 DEF ConnectionDrop, Typed, TypeOK, ConsumerInv, pollerVars, consumerVars
    <2>3. CASE ApiRestart
      BY <2>3 DEF ApiRestart, Typed, TypeOK, ConsumerInv, PollerSteps, ConsumerSteps
    <2>4. CASE UNCHANGED vars
      BY <2>4 DEF vars, Typed, TypeOK, ConsumerInv
    <2> QED
      BY <2>1, <2>2, <2>3, <2>4, PollerTyped, ConsumerTyped DEF Next
  <1> QED
    BY <1>1, <1>2, PTL DEF Spec

\* The types hold in every reachable state; in particular the consumer never
\* acknowledges an event the queue does not hold.
THEOREM TypeCorrect == Spec => []TypeOK
  <1>1. Typed => TypeOK
    BY DEF Typed
  <1> QED
    BY <1>1, TypedAlways, PTL

-----------------------------------------------------------------------------
(* No publication is lost unless the broker loses it.                      *)

\* What the poller has achieved for the current row when it is past a step.
PollerInv ==
    /\ pollerAt = "PublishFanout" =>
         \A v \in Videos \ lost : IsCurrent(v) => ReachedTimeline(v)
    /\ pollerAt = "Delete" =>
         \A v \in Videos \ lost : IsCurrent(v) => ReachedTimeline(v) /\ ReachedFanout(v)

\* Neither queue forgets: only an acknowledgement takes an event out of the
\* timeline queue, and then the video has been added.
LEMMA ReachedStable ==
  ASSUME Typed, [Next]_vars
  PROVE  \A v \in Videos : /\ ReachedTimeline(v) => ReachedTimeline(v)'
                           /\ ReachedFanout(v) => ReachedFanout(v)'
  <1> SUFFICES ASSUME NEW v \in Videos
               PROVE  /\ ReachedTimeline(v) => ReachedTimeline(v)'
                      /\ ReachedFanout(v) => ReachedFanout(v)'
    OBVIOUS
  <1> USE DEF ReachedTimeline, ReachedFanout, Typed, TypeOK, ConsumerInv
  <1>1. CASE PollerNext
    BY <1>1 DEF PollerNext, PollFind, PublishToTimeline, PublishLost,
                PublishToFanout, PublishFails, DeleteRow, consumerVars
  <1>2. CASE ConsumerNext
    <2>1. CASE ConsumerAck
      BY <2>1 DEF ConsumerAck, pollerVars
    <2> QED
      BY <1>2, <2>1 DEF ConsumerNext, ConsumerReceive, ConsumerZAdd, ConsumerNack,
                        ConsumerTrim, ConsumerTrimFails, pollerVars
  <1>3. CASE UNCHANGED vars
    BY <1>3 DEF vars
  <1> QED
    BY <1>1, <1>2, <1>3 DEF Next, PublishVideo, ConnectionDrop, ApiRestart,
                            pollerVars, consumerVars

\* The poller's knowledge survives every step.
LEMMA PollerInvStep ==
  ASSUME Typed, PollerInv, [Next]_vars
  PROVE  PollerInv'
  <1>r. \A v \in Videos : /\ ReachedTimeline(v) => ReachedTimeline(v)'
                          /\ ReachedFanout(v) => ReachedFanout(v)'
    BY ReachedStable
  <1>s. CASE UNCHANGED <<batch, pollerAt, lost>>
    <2>1. \A v \in Videos : IsCurrent(v)' <=> IsCurrent(v)
      BY <1>s DEF IsCurrent, Older
    <2> QED
      BY <1>r, <1>s, <2>1 DEF PollerInv
  <1>1. CASE PollFind
    BY <1>1 DEF PollFind, PollerInv
  <1>2. ASSUME NEW v \in Videos, PublishToTimeline(v)
        PROVE  PollerInv'
    <2>1. ReachedTimeline(v)'
      BY <1>2 DEF PublishToTimeline, ReachedTimeline, Typed, TypeOK
    <2>2. \A w \in Videos : IsCurrent(w)' => w = v
      BY <1>2, VideosFinite DEF PublishToTimeline, IsCurrent, Older, Typed, TypeOK
    <2> QED
      BY <1>2, <2>1, <2>2 DEF PublishToTimeline, PollerInv
  <1>3. ASSUME NEW v \in Videos, PublishToFanout(v)
        PROVE  PollerInv'
    <2>1. v \in lost' \/ (ReachedTimeline(v)' /\ ReachedFanout(v)')
      BY <1>3, <1>r DEF PublishToFanout, PollerInv, ReachedFanout
    <2>2. \A w \in Videos : IsCurrent(w)' => w = v
      BY <1>3, VideosFinite DEF PublishToFanout, IsCurrent, Older, Typed, TypeOK
    <2> QED
      BY <1>3, <2>1, <2>2 DEF PublishToFanout, PollerInv
  <1>l. ASSUME NEW v \in Videos, PublishLost(v)
        PROVE  PollerInv'
    <2>1. \A w \in Videos : IsCurrent(w)' => w = v
      BY <1>l, VideosFinite DEF PublishLost, IsCurrent, Older, Typed, TypeOK
    <2> QED
      BY <1>l, <2>1 DEF PublishLost, PollerInv
  <1>4. ASSUME NEW v \in Videos, PublishFails(v) \/ DeleteRow(v)
        PROVE  PollerInv'
    BY <1>4 DEF PublishFails, DeleteRow, NextRow, PollerInv
  <1>5. CASE ApiRestart
    BY <1>5 DEF ApiRestart, PollerInv
  <1>6. CASE PollerNext
    BY <1>1, <1>2, <1>3, <1>l, <1>4, <1>6 DEF PollerNext
  <1>7. CASE ConsumerNext
    <2>1. UNCHANGED <<batch, pollerAt, lost>>
      BY <1>7 DEF ConsumerNext, ConsumerReceive, ConsumerZAdd, ConsumerNack,
                  ConsumerTrim, ConsumerTrimFails, ConsumerAck, pollerVars
    <2> QED
      BY <1>s, <2>1
  <1>8. CASE (\E v \in Videos : PublishVideo(v)) \/ ConnectionDrop \/ UNCHANGED vars
    <2>1. UNCHANGED <<batch, pollerAt, lost>>
      BY <1>8 DEF PublishVideo, ConnectionDrop, pollerVars, vars
    <2> QED
      BY <1>s, <2>1
  <1> QED
    BY <1>5, <1>6, <1>7, <1>8 DEF Next

\* Restarts, broken connections, failed or repeated publications and failed
\* deletions of the row never lose a video on its way to either queue: only the
\* broker can, with a publication that returned nil.
THEOREM NoPublicationLostCorrect == Spec => []NoPublicationLost
  <1>1. Init => PollerInv /\ NoPublicationLost
    BY DEF Init, PollerInv, NoPublicationLost
  <1>2. Typed /\ PollerInv /\ NoPublicationLost /\ [Next]_vars
          => PollerInv' /\ NoPublicationLost'
    <2> SUFFICES ASSUME Typed, PollerInv, NoPublicationLost, [Next]_vars
                 PROVE  PollerInv' /\ NoPublicationLost'
      OBVIOUS
    <2>1. PollerInv'
      BY PollerInvStep
    <2>r. \A v \in Videos : /\ ReachedTimeline(v) => ReachedTimeline(v)'
                            /\ ReachedFanout(v) => ReachedFanout(v)'
      BY ReachedStable
    <2>2. ASSUME NEW v \in Videos, PublishVideo(v)
          PROVE  NoPublicationLost'
      BY <2>2, <2>r DEF PublishVideo, NoPublicationLost, Typed, TypeOK
    <2>3. ASSUME NEW v \in Videos, DeleteRow(v)
          PROVE  NoPublicationLost'
      <3>1. v \in lost \/ (ReachedTimeline(v)' /\ ReachedFanout(v)')
        BY <2>3, <2>r DEF DeleteRow, PollerInv
      <3> QED
        BY <2>3, <2>r, <3>1 DEF DeleteRow, NoPublicationLost, Typed, TypeOK
    <2>s. CASE UNCHANGED <<videos, outbox>> /\ lost \subseteq lost'
      BY <2>1, <2>s, <2>r DEF NoPublicationLost, Typed, TypeOK
    <2>4. CASE PollerNext
      <3>1. \/ UNCHANGED <<videos, outbox>> /\ lost \subseteq lost'
            \/ \E v \in Videos : DeleteRow(v)
        BY <2>4 DEF PollerNext, PollFind, PublishToTimeline, PublishLost,
                    PublishToFanout, PublishFails
      <3> QED
        BY <2>1, <2>3, <2>s, <3>1
    <2>5. CASE ConsumerNext
      <3>1. UNCHANGED <<videos, outbox, lost>>
        BY <2>5 DEF ConsumerNext, ConsumerReceive, ConsumerZAdd, ConsumerNack,
                    ConsumerTrim, ConsumerTrimFails, ConsumerAck, pollerVars
      <3> QED
        BY <2>1, <2>s, <3>1
    <2>6. CASE ConnectionDrop \/ ApiRestart \/ UNCHANGED vars
      <3>1. UNCHANGED <<videos, outbox, lost>>
        BY <2>6 DEF ConnectionDrop, ApiRestart, vars, pollerVars
      <3> QED
        BY <2>1, <2>s, <3>1
    <2> QED
      BY <2>1, <2>2, <2>4, <2>5, <2>6 DEF Next
  <1> QED
    BY <1>1, <1>2, TypedAlways, PTL DEF Spec

-----------------------------------------------------------------------------
(* The timeline.                                                           *)

\* Fewer newer members in a subset.
LEMMA NewerMonotonic ==
  ASSUME NEW S \in SUBSET Videos, NEW T \in SUBSET S, NEW v
  PROVE  /\ Cardinality(Newer(T, v)) \in Nat
         /\ Cardinality(Newer(S, v)) \in Nat
         /\ Cardinality(Newer(T, v)) <= Cardinality(Newer(S, v))
  <1>1. Newer(T, v) \subseteq Newer(S, v) /\ Newer(S, v) \subseteq Videos
    BY DEF Newer
  <1>2. IsFiniteSet(Newer(S, v)) /\ IsFiniteSet(Newer(T, v))
    BY <1>1, VideosFinite, FS_Subset
  <1> QED
    BY <1>1, <1>2, FS_Subset, FS_CardinalityType

\* Whatever the order in which events arrive, are repeated, or fail to trim, the
\* newest TimelineCap videos consumed are on the timeline.
THEOREM TimelineCorrect == Spec => []TimelineKeepsNewest
  <1>1. Init => TimelineKeepsNewest
    BY DEF Init, TimelineKeepsNewest
  <1>2. Typed /\ TimelineKeepsNewest /\ [Next]_vars => TimelineKeepsNewest'
    <2> SUFFICES ASSUME Typed, TimelineKeepsNewest, [Next]_vars
                 PROVE  TimelineKeepsNewest'
      OBVIOUS
    <2>t. /\ timeline \subseteq consumed
          /\ consumed \in SUBSET Videos
          /\ consuming \in SUBSET Videos
          /\ TimelineCap \in Nat
      BY CapsTyped DEF Typed, TypeOK, TimelineKeepsNewest
    <2>1. CASE ConsumerZAdd
      <3>1. timeline' = timeline \cup consuming /\ consumed' = consumed \cup consuming
        BY <2>1 DEF ConsumerZAdd
      <3>2. ASSUME NEW v \in consumed', Cardinality(Newer(consumed', v)) < TimelineCap
            PROVE  v \in timeline'
        <4>1. consumed' \in SUBSET Videos /\ consumed \in SUBSET consumed'
          BY <2>t, <3>1
        <4>2. Cardinality(Newer(consumed, v)) < TimelineCap
          BY <2>t, <3>2, <4>1, NewerMonotonic
        <4> QED
          BY <3>1, <4>2 DEF TimelineKeepsNewest
      <3> QED
        BY <2>t, <3>1, <3>2 DEF TimelineKeepsNewest, Newer
    <2>2. CASE ConsumerTrim
      <3>1. /\ timeline' = {v \in timeline : Cardinality(Newer(timeline, v)) < TimelineCap}
            /\ consumed' = consumed
        BY <2>2 DEF ConsumerTrim
      <3>2. ASSUME NEW v \in consumed, Cardinality(Newer(consumed, v)) < TimelineCap
            PROVE  v \in timeline'
        <4>1. Cardinality(Newer(timeline, v)) < TimelineCap
          BY <2>t, <3>2, NewerMonotonic
        <4> QED
          BY <3>1, <3>2, <4>1 DEF TimelineKeepsNewest
      <3> QED
        BY <2>t, <3>1, <3>2 DEF TimelineKeepsNewest, Newer
    <2>s. CASE UNCHANGED <<timeline, consumed>>
      BY <2>s DEF TimelineKeepsNewest, Newer
    <2>3. CASE PollerNext
      <3>1. UNCHANGED <<timeline, consumed>>
        BY <2>3 DEF PollerNext, PollFind, PublishToTimeline, PublishLost,
                    PublishToFanout, PublishFails, DeleteRow, consumerVars
      <3> QED
        BY <2>s, <3>1
    <2>4. CASE ConsumerNext
      <3>1. \/ ConsumerZAdd
            \/ ConsumerTrim
            \/ UNCHANGED <<timeline, consumed>>
        BY <2>4 DEF ConsumerNext, ConsumerReceive, ConsumerNack, ConsumerTrimFails,
                    ConsumerAck
      <3> QED
        BY <2>1, <2>2, <2>s, <3>1
    <2>5. CASE \/ \E v \in Videos : PublishVideo(v)
               \/ ConnectionDrop
               \/ ApiRestart
               \/ UNCHANGED vars
      <3>1. UNCHANGED <<timeline, consumed>>
        BY <2>5 DEF PublishVideo, ConnectionDrop, ApiRestart, vars, consumerVars
      <3> QED
        BY <2>s, <3>1
    <2> QED
      BY <2>3, <2>4, <2>5 DEF Next
  <1> QED
    BY <1>1, <1>2, TypedAlways, PTL DEF Spec
-----------------------------------------------------------------------------
(* Refinement.                                                             *)

\* What is in hand anywhere is a committed video: the poller works on pending rows
\* only, and the consumer on one event at a time.
InHand ==
    /\ batch \subseteq outbox
    /\ outbox \subseteq videos
    /\ \A v \in Videos : timelineQ[v] > 0 => v \in videos
    /\ \A v, w \in consuming : v = w

LEMMA InHandStep ==
  ASSUME Typed, InHand, [Next]_vars
  PROVE  InHand'
  <1> USE DEF Typed, TypeOK, ConsumerInv, InHand
  <1>1. CASE PollerNext
    <2>1. CASE PollFind
      BY <2>1 DEF PollFind, consumerVars
    <2>2. ASSUME NEW v \in Videos, PublishToTimeline(v)
          PROVE  InHand'
      BY <2>2 DEF PublishToTimeline, IsCurrent, consumerVars
    <2>3. ASSUME NEW v \in Videos, PublishLost(v) \/ PublishToFanout(v)
          PROVE  InHand'
      BY <2>3 DEF PublishLost, PublishToFanout, consumerVars
    <2>4. ASSUME NEW v \in Videos, PublishFails(v) \/ DeleteRow(v)
          PROVE  InHand'
      BY <2>4 DEF PublishFails, DeleteRow, NextRow, consumerVars
    <2> QED
      BY <1>1, <2>1, <2>2, <2>3, <2>4 DEF PollerNext
  <1>2. CASE ConsumerNext
    <2>1. CASE ConsumerAck
      <3>1. \A v \in Videos : timelineQ'[v] > 0 => timelineQ[v] > 0
        BY <2>1 DEF ConsumerAck
      <3> QED
        BY <2>1, <3>1 DEF ConsumerAck, pollerVars
    <2> QED
      BY <1>2, <2>1 DEF ConsumerNext, ConsumerReceive, ConsumerZAdd, ConsumerNack,
                        ConsumerTrim, ConsumerTrimFails, pollerVars
  <1>3. ASSUME NEW v \in Videos, PublishVideo(v)
        PROVE  InHand'
    BY <1>3 DEF PublishVideo, consumerVars
  <1> QED
    BY <1>1, <1>2, <1>3 DEF Next, ConnectionDrop, ApiRestart, vars, pollerVars, consumerVars

\* The videos of which an event is in the timeline queue.
Queued == {v \in Videos : timelineQ[v] > 0}

\* A video's row goes only when the poller is past both publications.
LEMMA DeleteRowCloses ==
  ASSUME Typed, PollerInv, InHand, NEW v \in Videos, DeleteRow(v)
  PROVE  [Pipeline!DeliveryNext]_(Pipeline!deliveryVars)
  <1>1. /\ UNCHANGED <<videos, timelineQ, fanoutSent, lost, consumed>>
        /\ outbox' = outbox \/ outbox' = outbox \ {v}
        /\ v \in outbox
    BY DEF DeleteRow, consumerVars, IsCurrent, InHand
  <1>2. Queued' = Queued
    BY <1>1 DEF Queued
  <1>3. v \in lost \/ (ReachedTimeline(v) /\ ReachedFanout(v))
    BY DEF DeleteRow, PollerInv
  <1>4. CASE outbox' \cup Queued = outbox \cup Queued
    BY <1>1, <1>2, <1>4 DEF Pipeline!deliveryVars, Queued
  <1>5. CASE outbox' \cup Queued # outbox \cup Queued
    <2>1. /\ v \notin Queued
          /\ outbox' \cup Queued = (outbox \cup Queued) \ {v}
      BY <1>1, <1>5
    <2>2. Pipeline!Settled(v)
      BY <1>3, <2>1 DEF Pipeline!Settled, ReachedTimeline, ReachedFanout, Queued
    <2>3. Pipeline!Close(v)
      BY <1>1, <1>2, <2>1, <2>2 DEF Pipeline!Close, Queued
    <2> QED
      BY <2>3 DEF Pipeline!DeliveryNext
  <1> QED
    BY <1>4, <1>5

\* The last event of a video goes only when the timeline has it and, unless its row
\* is still there, the fanout queue too.
LEMMA AckCloses ==
  ASSUME Typed, InHand, NoPublicationLost, ConsumerAck
  PROVE  [Pipeline!DeliveryNext]_(Pipeline!deliveryVars)
  <1>1. UNCHANGED <<videos, outbox, fanoutSent, lost, consumed>>
    BY DEF ConsumerAck, pollerVars
  <1>2. CASE Queued' = Queued
    BY <1>1, <1>2 DEF Pipeline!deliveryVars, Queued
  <1>3. CASE Queued' # Queued
    <2>1. PICK v \in consuming : Queued' = Queued \ {v}
      <3>1. /\ connected
            /\ \A v \in Videos : timelineQ'[v] = timelineQ[v] - (IF v \in consuming THEN 1 ELSE 0)
        BY <1>3 DEF ConsumerAck, Queued
      <3>2. \A v \in Videos \ consuming : v \in Queued' <=> v \in Queued
        BY <3>1 DEF Queued, Typed, TypeOK
      <3>3. \A v \in Videos : v \in Queued' => v \in Queued
        BY <3>1 DEF Queued, Typed, TypeOK
      <3>4. PICK v \in Videos : v \in Queued /\ v \notin Queued'
        BY <1>3, <3>3 DEF Queued
      <3>5. v \in consuming
        BY <3>2, <3>4
      <3> QED
        BY <3>2, <3>3, <3>4, <3>5 DEF InHand, Queued
    <2>2. v \in Queued /\ v \in Videos /\ v \in videos /\ v \in consumed
      BY DEF ConsumerAck, Typed, TypeOK, ConsumerInv, InHand, Queued
    <2>3. CASE v \in outbox
      <3>1. outbox \cup Queued' = outbox \cup Queued
        BY <2>1, <2>3
      <3> QED
        BY <1>1, <3>1 DEF Pipeline!deliveryVars, Queued
    <2>4. CASE v \notin outbox
      <3>1. Pipeline!Settled(v)
        BY <2>2, <2>4 DEF Pipeline!Settled, NoPublicationLost, ReachedFanout
      <3>2. outbox \cup Queued' = (outbox \cup Queued) \ {v}
        BY <2>1, <2>4
      <3>3. Pipeline!Close(v)
        BY <1>1, <2>2, <3>1, <3>2 DEF Pipeline!Close, Queued
      <3> QED
        BY <2>2, <3>3 DEF Pipeline!DeliveryNext
    <2> QED
      BY <2>3, <2>4
  <1> QED
    BY <1>2, <1>3

\* Every step of Outbox is a step of Delivery or leaves it alone.
LEMMA DeliveryStep ==
  ASSUME Typed, PollerInv, InHand, NoPublicationLost, [Next]_vars
  PROVE  [Pipeline!DeliveryNext]_(Pipeline!deliveryVars)
  <1>s. CASE UNCHANGED <<videos, outbox, timelineQ, fanoutSent, lost, consumed>>
    BY <1>s DEF Pipeline!deliveryVars
  <1>1. ASSUME NEW v \in Videos, PublishVideo(v)
        PROVE  [Pipeline!DeliveryNext]_(Pipeline!deliveryVars)
    <2>1. /\ v \notin videos
          /\ videos' = videos \cup {v}
          /\ outbox' = outbox \cup {v}
          /\ UNCHANGED <<timelineQ, fanoutSent, lost, consumed>>
      BY <1>1 DEF PublishVideo, consumerVars
    <2>2. outbox' \cup Queued' = (outbox \cup Queued) \cup {v}
      BY <2>1 DEF Queued
    <2>3. Pipeline!Accept(v)
      BY <2>1, <2>2 DEF Pipeline!Accept, Queued
    <2> QED
      BY <2>3 DEF Pipeline!DeliveryNext
  <1>2. ASSUME NEW v \in Videos, PublishToTimeline(v)
        PROVE  [Pipeline!DeliveryNext]_(Pipeline!deliveryVars)
    <2>1. /\ v \in outbox
          /\ timelineQ' = [timelineQ EXCEPT ![v] = @ + 1]
          /\ UNCHANGED <<videos, outbox, fanoutSent, lost, consumed>>
      BY <1>2 DEF PublishToTimeline, consumerVars, IsCurrent, InHand
    <2>2. outbox' \cup Queued' = outbox \cup Queued
      BY <2>1 DEF Queued, Typed, TypeOK
    <2> QED
      BY <2>1, <2>2 DEF Pipeline!deliveryVars, Queued
  <1>3. ASSUME NEW v \in Videos, PublishLost(v)
        PROVE  [Pipeline!DeliveryNext]_(Pipeline!deliveryVars)
    <2>1. /\ v \in outbox
          /\ lost' = lost \cup {v}
          /\ UNCHANGED <<videos, outbox, timelineQ, fanoutSent, consumed>>
      BY <1>3 DEF PublishLost, consumerVars, IsCurrent, InHand
    <2>2. Pipeline!Miss(v)
      BY <2>1 DEF Pipeline!Miss
    <2> QED
      BY <2>2 DEF Pipeline!DeliveryNext
  <1>4. ASSUME NEW v \in Videos, PublishToFanout(v)
        PROVE  [Pipeline!DeliveryNext]_(Pipeline!deliveryVars)
    <2>1. /\ v \in outbox
          /\ UNCHANGED <<videos, outbox, timelineQ, lost, consumed>>
          /\ fanoutSent' = IF FanoutEnabled THEN fanoutSent \cup {v} ELSE fanoutSent
      BY <1>4 DEF PublishToFanout, consumerVars, IsCurrent, InHand
    <2>2. CASE FanoutEnabled
      <3>1. Pipeline!Forward(v)
        BY <2>1, <2>2 DEF Pipeline!Forward
      <3> QED
        BY <3>1 DEF Pipeline!DeliveryNext
    <2>3. CASE ~FanoutEnabled
      BY <1>s, <2>1, <2>3
    <2> QED
      BY <2>2, <2>3
  <1>5. CASE PollerNext
    <2>1. CASE PollFind
      BY <1>s, <2>1 DEF PollFind, consumerVars
    <2>2. ASSUME NEW v \in Videos, PublishFails(v)
          PROVE  [Pipeline!DeliveryNext]_(Pipeline!deliveryVars)
      BY <1>s, <2>2 DEF PublishFails, consumerVars
    <2> QED
      BY <1>2, <1>3, <1>4, <1>5, <2>1, <2>2, DeleteRowCloses DEF PollerNext
  <1>6. CASE ConsumerZAdd
    <2>1. UNCHANGED <<videos, outbox, timelineQ, fanoutSent, lost>>
      BY <1>6 DEF ConsumerZAdd, pollerVars
    <2>2. CASE consuming = {}
      <3>1. consumed' = consumed
        BY <1>6, <2>2 DEF ConsumerZAdd
      <3> QED
        BY <1>s, <2>1, <3>1
    <2>3. CASE consuming # {}
      <3>1. PICK v \in consuming : consumed' = consumed \cup {v}
        BY <1>6, <2>3 DEF ConsumerZAdd, InHand
      <3>2. v \in Videos /\ v \in Queued
        BY DEF Typed, TypeOK, ConsumerInv, Queued
      <3>3. Pipeline!Receive(v)
        BY <2>1, <3>1, <3>2 DEF Pipeline!Receive, Queued
      <3> QED
        BY <3>2, <3>3 DEF Pipeline!DeliveryNext
    <2> QED
      BY <2>2, <2>3
  <1>7. CASE ConsumerNext
    <2>1. \/ ConsumerZAdd
          \/ ConsumerAck
          \/ UNCHANGED <<videos, outbox, timelineQ, fanoutSent, lost, consumed>>
      BY <1>7 DEF ConsumerNext, ConsumerReceive, ConsumerNack, ConsumerTrim,
                  ConsumerTrimFails, pollerVars
    <2> QED
      BY <1>s, <1>6, <2>1, AckCloses
  <1>8. CASE ConnectionDrop \/ ApiRestart \/ UNCHANGED vars
    <2>1. UNCHANGED <<videos, outbox, timelineQ, fanoutSent, lost, consumed>>
      BY <1>8 DEF ConnectionDrop, ApiRestart, vars, pollerVars, consumerVars
    <2> QED
      BY <1>s, <2>1
  <1> QED
    BY <1>1, <1>5, <1>7, <1>8 DEF Next

\* Row, poller, queues and consumer together implement Delivery: whatever fails,
\* repeats or restarts, a video is closed only when it was delivered or the broker lost
\* something of it, and then no event of it appears again.
THEOREM OutboxImplementsDelivery == Spec => ImplementsDelivery
  <1>1. Init => InHand /\ PollerInv /\ Pipeline!DeliveryInit
    <2> SUFFICES ASSUME Init
                 PROVE  InHand /\ PollerInv /\ Pipeline!DeliveryInit
      OBVIOUS
    <2>1. {v \in Videos : timelineQ[v] > 0} = {}
      BY DEF Init
    <2> QED
      BY <2>1 DEF Init, InHand, PollerInv, Pipeline!DeliveryInit
  <1>2. Typed /\ PollerInv /\ InHand /\ [Next]_vars => PollerInv' /\ InHand'
    BY PollerInvStep, InHandStep
  <1>3. Typed /\ PollerInv /\ InHand /\ NoPublicationLost /\ [Next]_vars
          => [Pipeline!DeliveryNext]_(Pipeline!deliveryVars)
    BY DeliveryStep
  <1> QED
    BY <1>1, <1>2, <1>3, TypedAlways, NoPublicationLostCorrect, PTL
    DEF Spec, ImplementsDelivery, Pipeline!DeliverySpec
=============================================================================
