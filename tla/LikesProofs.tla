----------------------------- MODULE LikesProofs -----------------------------
(* Proofs about module Likes, for every value of its constants.            *)
EXTENDS Likes, FiniteSetTheorems, SequenceTheorems, TLAPS

\* What every step needs to know: the types, and that a working worker holds a
\* delivery (so that Current is an event).
Typed == TypeOK /\ WorkerHoldsDelivery

-----------------------------------------------------------------------------
(* The operators the actions are built from.                               *)

\* GREATEST(n, 0) is a natural number for every integer n.
LEMMA Greatest0Nat == \A n \in Int : Greatest0(n) \in Nat
  BY DEF Greatest0

\* A transaction keeps the types of the four columns it may write.
LEMMA EffectType ==
  ASSUME TypeOK, NEW a \in Actions, NEW v \in Videos, NEW u \in Users,
         Effect(a, v, u)
  PROVE  /\ videos' \in SUBSET Videos
         /\ likes' \in SUBSET (Videos \X Users)
         /\ likesCount' \in [Videos -> Int]
         /\ popularity' \in [Videos -> Nat]
  <1>1. videos' \in SUBSET Videos
    BY DEF Effect, TypeOK
  <1>2. CASE a = "like"
    <2>1. InsertLike(v, u)
      BY <1>2 DEF Effect
    <2>2. likesCount' \in [Videos -> Int] /\ popularity' \in [Videos -> Nat]
      BY <2>1 DEF InsertLike, TypeOK, Bump, Greatest0
    <2> QED
      BY <1>1, <2>1, <2>2 DEF InsertLike, TypeOK
  <1>3. CASE a = "unlike"
    <2>1. DeleteLike(v, u)
      BY <1>3 DEF Effect
    <2>2. likesCount' \in [Videos -> Int] /\ popularity' \in [Videos -> Nat]
      BY <2>1 DEF DeleteLike, TypeOK, Bump, Greatest0
    <2> QED
      BY <1>1, <2>1, <2>2 DEF DeleteLike, TypeOK
  <1> QED
    BY <1>2, <1>3 DEF Actions

-----------------------------------------------------------------------------
(* Type correctness.                                                       *)

\* The handler records an update of one field produces.
LEMMA HandlerType ==
  ASSUME TypeOK, NEW h \in Handlers
  PROVE  /\ Respond(h) => handler' \in [Handlers -> Serving \cup {Idle}]
         /\ handler[h].at # "idle" =>
              /\ handler[h] \in Serving
              /\ \A s \in HandlerSteps :
                   /\ Goto(h, s) => handler' \in [Handlers -> Serving \cup {Idle}]
                   /\ handler' = [handler EXCEPT ![h].at = s, ![h].likeMQSent = TRUE]
                        => handler' \in [Handlers -> Serving \cup {Idle}]
  <1>1. handler \in [Handlers -> Serving \cup {Idle}]
    BY DEF TypeOK
  <1>2. handler[h].at # "idle" => handler[h] \in Serving
    BY <1>1 DEF Idle
  <1> QED
    BY <1>1, <1>2 DEF Respond, Goto, Serving

\* While the worker holds a delivery, the current one is an event.
LEMMA CurrentType ==
  ASSUME Typed, unacked # <<>>
  PROVE  /\ Current \in Events
         /\ Tail(unacked) \in Seq(Events)
         /\ <<Current>> \o ready \in Seq(Events)
         /\ unacked \o ready \in Seq(Events)
  <1>1. unacked \in Seq(Events) /\ ready \in Seq(Events)
    BY DEF Typed, TypeOK
  <1>2. Current \in Events /\ Tail(unacked) \in Seq(Events)
    BY <1>1, HeadTailProperties DEF Current
  <1> QED
    BY <1>1, <1>2, ConcatProperties

\* Steps that leave the database and the queues alone.
LEMMA HandlerOnlyStep ==
  ASSUME Typed, UNCHANGED <<dbVars, queueVars, nreq, ncomments>>,
         handler' \in [Handlers -> Serving \cup {Idle}]
  PROVE  Typed'
  BY DEF Typed, TypeOK, WorkerHoldsDelivery, dbVars, queueVars

\* Every step of a handler preserves the types.
LEMMA HandlerTyped ==
  ASSUME Typed, NEW h \in Handlers, HandlerNext(h)
  PROVE  Typed'
  <1>0. TypeOK /\ handler \in [Handlers -> Serving \cup {Idle}]
    BY DEF Typed, TypeOK
  <1>s. /\ "likeMQ" \in HandlerSteps
        /\ "popularityMQ" \in HandlerSteps
        /\ "fallback" \in HandlerSteps
    BY DEF HandlerSteps
  <1>1. ASSUME NEW a \in Actions, NEW u \in Users, NEW v \in Videos,
               Receive(h, a, u, v)
        PROVE  Typed'
    <2>1. nreq' \in Nat /\ nreq + 1 \in Nat
      BY <1>0, <1>1 DEF Receive, TypeOK
    <2>2. handler' \in [Handlers -> Serving \cup {Idle}]
      BY <1>0, <1>1, <2>1 DEF Receive, Serving, HandlerSteps
    <2> QED
      BY <1>1, <2>1, <2>2
      DEF Receive, Typed, TypeOK, WorkerHoldsDelivery, dbVars, queueVars
  <1>2. CASE CheckVideo(h)
    BY <1>0, <1>s, <1>2, HandlerType, HandlerOnlyStep DEF CheckVideo
  <1>3. CASE PublishLike(h)
    <2>1. handler[h] \in Serving
      BY <1>0, <1>3, HandlerType DEF PublishLike
    <2>2. handler' \in [Handlers -> Serving \cup {Idle}]
      BY <1>0, <1>s, <1>3, HandlerType DEF PublishLike
    <2>3. [id |-> handler[h].id, action |-> handler[h].action,
           user |-> handler[h].user, video |-> handler[h].video] \in Events
      BY <2>1 DEF Serving, Events
    <2>4. ready' \in Seq(Events)
      BY <1>0, <1>3, <2>3, AppendProperties DEF PublishLike, TypeOK
    <2>5. sent' \in SUBSET Nat
      BY <1>0, <1>3, <2>1 DEF PublishLike, TypeOK, Serving
    <2> QED
      BY <1>3, <2>2, <2>4, <2>5
      DEF PublishLike, Typed, TypeOK, WorkerHoldsDelivery, dbVars
  <1>4. CASE PublishLikeLost(h)
    BY <1>0, <1>s, <1>4, HandlerType, HandlerOnlyStep DEF PublishLikeLost
  <1>5. CASE PublishLikeFails(h)
    BY <1>0, <1>s, <1>5, HandlerType, HandlerOnlyStep DEF PublishLikeFails
  <1>6. CASE PublishPopularity(h)
    BY <1>0, <1>s, <1>6, HandlerType, HandlerOnlyStep DEF PublishPopularity
  <1>7. CASE Fallback(h)
    <2>1. handler[h] \in Serving
      BY <1>0, <1>7, HandlerType DEF Fallback
    <2>2. handler' \in [Handlers -> Serving \cup {Idle}]
      BY <1>0, <1>7, HandlerType DEF Fallback
    <2>3. /\ videos' \in SUBSET Videos
          /\ likes' \in SUBSET (Videos \X Users)
          /\ likesCount' \in [Videos -> Int]
          /\ popularity' \in [Videos -> Nat]
      BY <1>0, <1>7, <2>1, EffectType DEF Fallback, Serving
    <2> QED
      BY <1>7, <2>2, <2>3
      DEF Fallback, Typed, TypeOK, WorkerHoldsDelivery, queueVars
  <1>8. CASE FallbackFails(h)
    BY <1>0, <1>8, HandlerType, HandlerOnlyStep DEF FallbackFails
  <1>9. CASE HandlerCrash(h)
    BY <1>0, <1>9, HandlerType, HandlerOnlyStep DEF HandlerCrash
  <1> QED
    BY <1>1, <1>2, <1>3, <1>4, <1>5, <1>6, <1>7, <1>8, <1>9 DEF HandlerNext

\* Every step of the broker and of the worker preserves the types.
LEMMA WorkerTyped ==
  ASSUME Typed, WorkerNext
  PROVE  Typed'
  <1>0. /\ TypeOK /\ WorkerHoldsDelivery
        /\ ready \in Seq(Events) /\ unacked \in Seq(Events)
    BY DEF Typed, TypeOK
  <1>1. CASE Deliver
    <2>1. Head(ready) \in Events /\ Tail(ready) \in Seq(Events)
      BY <1>0, <1>1, HeadTailProperties DEF Deliver
    <2>2. unacked' \in Seq(Events) /\ unacked' # <<>>
      BY <1>0, <1>1, <2>1, AppendProperties DEF Deliver
    <2> QED
      BY <1>0, <1>1, <2>1, <2>2
      DEF Deliver, Typed, TypeOK, WorkerHoldsDelivery, dbVars
  <1>2. CASE WorkerFindsVideo
    BY <1>0, <1>2
    DEF WorkerFindsVideo, WorkerGoto, Typed, TypeOK, WorkerHoldsDelivery,
        WorkerSteps, dbVars
  <1>3. CASE WorkerDrops
    <2>1. Current.id \in Nat
      BY <1>3, CurrentType DEF WorkerDrops, Events
    <2> QED
      BY <1>0, <1>3, <2>1
      DEF WorkerDrops, WorkerGoto, Typed, TypeOK, WorkerHoldsDelivery,
          WorkerSteps, dbVars
  <1>4. CASE WorkerCommits
    <2>1. unacked # <<>>
      BY <1>0, <1>4 DEF WorkerCommits, WorkerHoldsDelivery
    <2>2. Current \in Events
      BY <2>1, CurrentType
    <2>3. /\ videos' \in SUBSET Videos
          /\ likes' \in SUBSET (Videos \X Users)
          /\ likesCount' \in [Videos -> Int]
          /\ popularity' \in [Videos -> Nat]
      <3>1. CASE Effect(Current.action, Current.video, Current.user)
        BY <1>0, <2>2, <3>1, EffectType DEF Events
      <3>2. CASE UNCHANGED dbVars
        BY <1>0, <3>2 DEF TypeOK, dbVars
      <3> QED
        BY <1>4, <3>1, <3>2 DEF WorkerCommits
    <2>4. settled' \in SUBSET Nat
      BY <1>0, <1>4, <2>2 DEF WorkerCommits, TypeOK, Events
    <2> QED
      BY <1>0, <1>4, <2>1, <2>3, <2>4
      DEF WorkerCommits, WorkerGoto, Typed, TypeOK, WorkerHoldsDelivery, WorkerSteps
  <1>5. CASE WorkerFails
    BY <1>0, <1>5
    DEF WorkerFails, WorkerGoto, Typed, TypeOK, WorkerHoldsDelivery,
        WorkerSteps, dbVars
  <1>6. CASE WorkerAcks
    <2>1. unacked # <<>>
      BY <1>0, <1>6 DEF WorkerAcks, WorkerHoldsDelivery
    <2>2. unacked' \in Seq(Events)
      BY <1>6, <2>1, CurrentType DEF WorkerAcks
    <2> QED
      BY <1>0, <1>6, <2>2
      DEF WorkerAcks, WorkerGoto, Typed, TypeOK, WorkerHoldsDelivery,
          WorkerSteps, dbVars
  <1>7. CASE WorkerNacks
    <2>1. unacked # <<>>
      BY <1>0, <1>7 DEF WorkerNacks, WorkerHoldsDelivery
    <2>2. unacked' \in Seq(Events) /\ ready' \in Seq(Events)
      BY <1>7, <2>1, CurrentType DEF WorkerNacks
    <2> QED
      BY <1>0, <1>7, <2>2
      DEF WorkerNacks, WorkerGoto, Typed, TypeOK, WorkerHoldsDelivery,
          WorkerSteps, dbVars
  <1>8. CASE WorkerCrash
    <2>1. ready' \in Seq(Events) /\ unacked' \in Seq(Events)
      BY <1>8, CurrentType, EmptySeq DEF WorkerCrash
    <2> QED
      BY <1>0, <1>8, <2>1
      DEF WorkerCrash, WorkerGoto, Typed, TypeOK, WorkerHoldsDelivery,
          WorkerSteps, dbVars
  <1> QED
    BY <1>1, <1>2, <1>3, <1>4, <1>5, <1>6, <1>7, <1>8 DEF WorkerNext

\* Every step of the other writers of table videos preserves the types.
LEMMA VideoTyped ==
  ASSUME Typed, NEW v \in Videos, VideoNext(v)
  PROVE  Typed'
  <1>0. TypeOK /\ WorkerHoldsDelivery
    BY DEF Typed
  <1>1. CASE DeleteVideo(v)
    BY <1>0, <1>1 DEF DeleteVideo, Typed, TypeOK, WorkerHoldsDelivery, queueVars
  <1>2. CASE CommentPopularity(v)
    <2>1. popularity' \in [Videos -> Nat] /\ ncomments' \in Nat
      BY <1>0, <1>2 DEF CommentPopularity, TypeOK, Bump, Greatest0
    <2> QED
      BY <1>0, <1>2, <2>1
      DEF CommentPopularity, Typed, TypeOK, WorkerHoldsDelivery, queueVars
  <1>3. ASSUME NEW n \in SyncCounts, SetLikesCount(v, n)
        PROVE  Typed'
    <2>1. likesCount' \in [Videos -> Int]
      BY <1>0, <1>3, SyncCountsTyped DEF SetLikesCount, TypeOK
    <2> QED
      BY <1>0, <1>3, <2>1
      DEF SetLikesCount, Typed, TypeOK, WorkerHoldsDelivery, queueVars
  <1> QED
    BY <1>1, <1>2, <1>3 DEF VideoNext

\* The variables of Likes keep their types, and a working worker always holds
\* the delivery it works on.
THEOREM TypeCorrect == Spec => [](TypeOK /\ WorkerHoldsDelivery)
  <1>1. Init => Typed
    BY DEF Init, Typed, TypeOK, WorkerHoldsDelivery, WorkerSteps
  <1>2. Typed /\ [Next]_vars => Typed'
    <2> SUFFICES ASSUME Typed, [Next]_vars
                 PROVE  Typed'
      OBVIOUS
    <2>1. CASE Next
      BY <2>1, HandlerTyped, WorkerTyped, VideoTyped DEF Next
    <2>2. CASE UNCHANGED vars
      BY <2>2 DEF vars, Typed, TypeOK, WorkerHoldsDelivery
    <2> QED
      BY <2>1, <2>2
  <1> QED
    BY <1>1, <1>2, PTL DEF Spec, Typed

-----------------------------------------------------------------------------
(* The counters.                                                           *)

\* A video has finitely many rows.
LEMMA RowsFinite ==
  ASSUME NEW v
  PROVE  IsFiniteSet(Rows(v)) /\ Cardinality(Rows(v)) \in Nat
  <1>1. Rows(v) \subseteq Users
    BY DEF Rows
  <1> QED
    BY <1>1, UsersFinite, FS_Subset, FS_CardinalityType

\* What a committed transaction does to the rows and to the counters: those of
\* its video move by one together, those of the others stay.
LEMMA EffectRows ==
  ASSUME TypeOK, NEW a \in Actions, NEW v \in Videos, NEW u \in Users,
         Effect(a, v, u)
  PROVE  /\ \A w \in Videos \ {v} :
              /\ Rows(w)' = Rows(w)
              /\ likesCount'[w] = likesCount[w]
              /\ popularity'[w] = popularity[w]
         /\ a = "like" =>
              /\ u \notin Rows(v)
              /\ Rows(v)' = Rows(v) \cup {u}
              /\ Cardinality(Rows(v)') = Cardinality(Rows(v)) + 1
              /\ v \in videos =>
                   /\ likesCount'[v] = Greatest0(likesCount[v] + 1)
                   /\ popularity'[v] = Greatest0(popularity[v] + 1)
         /\ a = "unlike" =>
              /\ u \in Rows(v)
              /\ Rows(v)' = Rows(v) \ {u}
              /\ Cardinality(Rows(v)') = Cardinality(Rows(v)) - 1
              /\ v \in videos =>
                   /\ likesCount'[v] = Greatest0(likesCount[v] - 1)
                   /\ popularity'[v] = Greatest0(popularity[v] - 1)
  <1>0. /\ likes \in SUBSET (Videos \X Users)
        /\ likesCount \in [Videos -> Int]
        /\ popularity \in [Videos -> Nat]
    BY DEF TypeOK
  <1>1. CASE a = "like"
    <2>1. InsertLike(v, u)
      BY <1>1 DEF Effect
    <2>2. u \notin Rows(v) /\ Rows(v)' = Rows(v) \cup {u}
      BY <1>0, <2>1 DEF InsertLike, Rows
    <2>3. Cardinality(Rows(v)') = Cardinality(Rows(v)) + 1
      BY <2>2, RowsFinite, FS_AddElement
    <2>4. \A w \in Videos \ {v} : Rows(w)' = Rows(w)
      BY <1>0, <2>1 DEF InsertLike, Rows
    <2>5. \A w \in Videos \ {v} : /\ likesCount'[w] = likesCount[w]
                                  /\ popularity'[w] = popularity[w]
      BY <1>0, <2>1 DEF InsertLike, Bump
    <2>6. v \in videos => /\ likesCount'[v] = Greatest0(likesCount[v] + 1)
                          /\ popularity'[v] = Greatest0(popularity[v] + 1)
      BY <1>0, <2>1 DEF InsertLike, Bump
    <2> QED
      BY <1>1, <2>2, <2>3, <2>4, <2>5, <2>6
  <1>2. CASE a = "unlike"
    <2>1. DeleteLike(v, u)
      BY <1>2 DEF Effect
    <2>2. u \in Rows(v) /\ Rows(v)' = Rows(v) \ {u}
      BY <1>0, <2>1 DEF DeleteLike, Rows
    <2>3. Cardinality(Rows(v)') = Cardinality(Rows(v)) - 1
      BY <2>2, RowsFinite, FS_RemoveElement
    <2>4. \A w \in Videos \ {v} : Rows(w)' = Rows(w)
      BY <1>0, <2>1 DEF DeleteLike, Rows
    <2>5. \A w \in Videos \ {v} : /\ likesCount'[w] = likesCount[w]
                                  /\ popularity'[w] = popularity[w]
      BY <1>0, <2>1 DEF DeleteLike, Bump
    <2>6. v \in videos => /\ likesCount'[v] = Greatest0(likesCount[v] - 1)
                          /\ popularity'[v] = Greatest0(popularity[v] - 1)
      BY <1>0, <2>1 DEF DeleteLike, Bump
    <2> QED
      BY <1>2, <2>2, <2>3, <2>4, <2>5, <2>6
  <1> QED
    BY <1>1, <1>2 DEF Actions

\* A committed transaction keeps a counter that matches the rows matching, and
\* one that covers them covering: GREATEST clips neither.
LEMMA EffectCounters ==
  ASSUME TypeOK, NEW a \in Actions, NEW v \in Videos, NEW u \in Users,
         Effect(a, v, u)
  PROVE  /\ LikesCountMatchesRows => LikesCountMatchesRows'
         /\ PopularityCoversLikes => PopularityCoversLikes'
  <1>0. /\ videos' = videos /\ videos \in SUBSET Videos
        /\ \A w \in Videos : /\ likesCount[w] \in Int
                             /\ popularity[w] \in Nat
                             /\ Cardinality(Rows(w)) \in Nat
                             /\ Cardinality(Rows(w)') \in Nat
    <2>1. \A w \in Videos : Cardinality(Rows(w)') \in Nat
      <3> SUFFICES ASSUME NEW w \in Videos
                   PROVE  Cardinality(Rows(w)') \in Nat
        OBVIOUS
      <3>1. Rows(w)' \subseteq Users
        BY DEF Rows
      <3> QED
        BY <3>1, UsersFinite, FS_Subset, FS_CardinalityType
    <2> QED
      BY <2>1, RowsFinite DEF Effect, TypeOK
  <1>1. ASSUME NEW w \in videos, w # v
        PROVE  /\ likesCount[w] = Cardinality(Rows(w))
                    => likesCount'[w] = Cardinality(Rows(w)')
               /\ popularity[w] >= Cardinality(Rows(w))
                    => popularity'[w] >= Cardinality(Rows(w)')
    BY <1>0, <1>1, EffectRows
  <1>2. ASSUME v \in videos
        PROVE  /\ likesCount[v] = Cardinality(Rows(v))
                    => likesCount'[v] = Cardinality(Rows(v)')
               /\ popularity[v] >= Cardinality(Rows(v))
                    => popularity'[v] >= Cardinality(Rows(v)')
    <2>1. CASE a = "like"
      BY <1>0, <1>2, <2>1, EffectRows DEF Greatest0
    <2>2. CASE a = "unlike"
      BY <1>0, <1>2, <2>2, EffectRows DEF Greatest0
    <2> QED
      BY <2>1, <2>2 DEF Actions
  <1> QED
    BY <1>0, <1>1, <1>2 DEF LikesCountMatchesRows, PopularityCoversLikes

\* Every step either commits a transaction, leaves the database alone, or is one
\* of the three other writers of table videos.
LEMMA StepKinds ==
  ASSUME Typed, [Next]_vars
  PROVE  \/ \E a \in Actions, v \in Videos, u \in Users : Effect(a, v, u)
         \/ UNCHANGED dbVars
         \/ \E v \in Videos : \/ DeleteVideo(v)
                              \/ CommentPopularity(v)
                              \/ \E n \in SyncCounts : SetLikesCount(v, n)
  <1>0. TypeOK
    BY DEF Typed
  <1>1. ASSUME NEW h \in Handlers, HandlerNext(h)
        PROVE  \/ \E a \in Actions, v \in Videos, u \in Users : Effect(a, v, u)
               \/ UNCHANGED dbVars
    <2>1. CASE Fallback(h)
      <3>1. handler[h] \in Serving
        BY <1>0, <2>1, HandlerType DEF Fallback
      <3> QED
        BY <2>1, <3>1 DEF Fallback, Serving
    <2>2. CASE ~Fallback(h)
      BY <1>1, <2>2
      DEF HandlerNext, Receive, CheckVideo, PublishLike, PublishLikeLost,
          PublishLikeFails, PublishPopularity, FallbackFails, HandlerCrash
    <2> QED
      BY <2>1, <2>2
  <1>2. ASSUME WorkerNext
        PROVE  \/ \E a \in Actions, v \in Videos, u \in Users : Effect(a, v, u)
               \/ UNCHANGED dbVars
    <2>1. CASE WorkerCommits
      <3>1. unacked # <<>>
        BY <2>1 DEF Typed, WorkerHoldsDelivery, WorkerCommits
      <3>2. Current \in Events
        BY <3>1, CurrentType
      <3> QED
        BY <2>1, <3>2 DEF WorkerCommits, Events
    <2>2. CASE ~WorkerCommits
      BY <1>2, <2>2
      DEF WorkerNext, Deliver, WorkerFindsVideo, WorkerDrops, WorkerFails,
          WorkerAcks, WorkerNacks, WorkerCrash
    <2> QED
      BY <2>1, <2>2
  <1>3. CASE UNCHANGED vars
    BY <1>3 DEF vars, dbVars
  <1> QED
    BY <1>1, <1>2, <1>3 DEF Next, VideoNext

\* likes_count of every existing video is the number of its rows in table likes,
\* in every run in which nobody writes an absolute value to the column.
THEOREM LikesCountCorrect ==
  ASSUME SyncCounts = {}
  PROVE  Spec => []LikesCountMatchesRows
  <1>1. Init => LikesCountMatchesRows
    BY FS_EmptySet DEF Init, LikesCountMatchesRows, Rows
  <1>2. Typed /\ LikesCountMatchesRows /\ [Next]_vars => LikesCountMatchesRows'
    <2> SUFFICES ASSUME Typed, LikesCountMatchesRows, [Next]_vars
                 PROVE  LikesCountMatchesRows'
      OBVIOUS
    <2>0. TypeOK
      BY DEF Typed
    <2>1. CASE \E a \in Actions, v \in Videos, u \in Users : Effect(a, v, u)
      BY <2>0, <2>1, EffectCounters
    <2>2. CASE UNCHANGED dbVars
      BY <2>2 DEF dbVars, LikesCountMatchesRows, Rows
    <2>3. CASE \E v \in Videos : DeleteVideo(v) \/ CommentPopularity(v)
      BY <2>3 DEF DeleteVideo, CommentPopularity, LikesCountMatchesRows, Rows
    <2> QED
      BY <2>1, <2>2, <2>3, StepKinds
  <1> QED
    BY <1>1, <1>2, TypeCorrect, PTL DEF Spec, Typed

\* The popularity of every existing video covers its likes, absolute writes to
\* likes_count or not.
THEOREM PopularityCorrect == Spec => []PopularityCoversLikes
  <1>1. Init => PopularityCoversLikes
    <2> SUFFICES ASSUME Init, NEW v \in Videos
                 PROVE  popularity[v] >= Cardinality(Rows(v))
      BY DEF Init, PopularityCoversLikes
    <2>1. Rows(v) = {}
      BY DEF Init, Rows
    <2>2. popularity[v] = 0
      BY DEF Init
    <2> QED
      BY <2>1, <2>2, FS_EmptySet
  <1>2. Typed /\ PopularityCoversLikes /\ [Next]_vars => PopularityCoversLikes'
    <2> SUFFICES ASSUME Typed, PopularityCoversLikes, [Next]_vars
                 PROVE  PopularityCoversLikes'
      OBVIOUS
    <2>0. TypeOK
      BY DEF Typed
    <2>1. CASE \E a \in Actions, v \in Videos, u \in Users : Effect(a, v, u)
      BY <2>0, <2>1, EffectCounters
    <2>2. CASE UNCHANGED dbVars
      BY <2>2 DEF dbVars, PopularityCoversLikes, Rows
    <2>3. ASSUME NEW v \in Videos, DeleteVideo(v)
          PROVE  PopularityCoversLikes'
      BY <2>3 DEF DeleteVideo, PopularityCoversLikes, Rows
    <2>4. ASSUME NEW v \in Videos, CommentPopularity(v)
          PROVE  PopularityCoversLikes'
      <3>1. /\ \A w \in videos : /\ popularity[w] \in Nat
                                 /\ Cardinality(Rows(w)) \in Nat
            /\ videos' = videos /\ likes' = likes
        BY <2>0, <2>4, RowsFinite DEF TypeOK, CommentPopularity
      <3>2. \A w \in videos : popularity'[w] >= popularity[w]
        BY <2>0, <2>4 DEF TypeOK, CommentPopularity, Bump, Greatest0
      <3>3. \A w \in videos : popularity'[w] \in Nat
        BY <2>0, <2>4 DEF TypeOK, CommentPopularity, Bump, Greatest0
      <3>4. \A w \in videos : Rows(w)' = Rows(w)
        BY <3>1 DEF Rows
      <3> QED
        BY <3>1, <3>2, <3>3, <3>4 DEF PopularityCoversLikes
    <2>5. ASSUME NEW v \in Videos, NEW n \in SyncCounts, SetLikesCount(v, n)
          PROVE  PopularityCoversLikes'
      BY <2>5 DEF SetLikesCount, PopularityCoversLikes, Rows
    <2> QED
      BY <2>1, <2>2, <2>3, <2>4, <2>5, StepKinds
  <1> QED
    BY <1>1, <1>2, TypeCorrect, PTL DEF Spec, Typed

-----------------------------------------------------------------------------
(* The queue.                                                              *)

\* Removing the first message of a queue loses at most that one.
LEMMA HoldsTail ==
  ASSUME NEW q \in Seq(Events), q # <<>>, NEW id, Holds(q, id)
  PROVE  Head(q).id = id \/ Holds(Tail(q), id)
  <1>1. PICK i \in 1..Len(q) : q[i].id = id
    BY DEF Holds
  <1>2. CASE i = 1
    BY <1>1, <1>2
  <1>3. CASE i # 1
    <2>1. i - 1 \in 1..Len(Tail(q)) /\ Tail(q)[i - 1] = q[i]
      BY <1>3, HeadTailProperties
    <2> QED
      BY <1>1, <2>1 DEF Holds
  <1> QED
    BY <1>2, <1>3

\* Concatenating two queues loses nothing.
LEMMA HoldsConcat ==
  ASSUME NEW p \in Seq(Events), NEW q \in Seq(Events), NEW id,
         Holds(p, id) \/ Holds(q, id)
  PROVE  Holds(p \o q, id)
  <1>0. /\ Len(p) \in Nat /\ Len(q) \in Nat
        /\ Len(p \o q) = Len(p) + Len(q)
        /\ \A i \in 1..Len(p) : (p \o q)[i] = p[i]
        /\ \A i \in 1..Len(q) : (p \o q)[Len(p) + i] = q[i]
    BY ConcatProperties
  <1>1. CASE Holds(p, id)
    <2>1. PICK i \in 1..Len(p) : p[i].id = id
      BY <1>1 DEF Holds
    <2>2. i \in 1..Len(p \o q)
      BY <1>0
    <2> QED
      BY <1>0, <2>1, <2>2 DEF Holds
  <1>2. CASE Holds(q, id)
    <2>1. PICK i \in 1..Len(q) : q[i].id = id
      BY <1>2 DEF Holds
    <2>2. Len(p) + i \in 1..Len(p \o q)
      BY <1>0
    <2> QED
      BY <1>0, <2>1, <2>2 DEF Holds
  <1> QED
    BY <1>1, <1>2

\* Appending a message loses nothing and adds that message.
LEMMA HoldsAppend ==
  ASSUME NEW q \in Seq(Events), NEW e \in Events, NEW id,
         Holds(q, id) \/ e.id = id
  PROVE  Holds(Append(q, e), id)
  <1>0. /\ Len(q) \in Nat
        /\ Len(Append(q, e)) = Len(q) + 1
        /\ \A i \in 1..Len(q) : Append(q, e)[i] = q[i]
        /\ Append(q, e)[Len(q) + 1] = e
    BY AppendProperties
  <1>1. CASE Holds(q, id)
    <2>1. PICK i \in 1..Len(q) : q[i].id = id
      BY <1>1 DEF Holds
    <2>2. i \in 1..Len(Append(q, e))
      BY <1>0
    <2> QED
      BY <1>0, <2>1, <2>2 DEF Holds
  <1>2. CASE e.id = id
    <2>1. Len(q) + 1 \in 1..Len(Append(q, e))
      BY <1>0
    <2> QED
      BY <1>0, <1>2, <2>1 DEF Holds
  <1> QED
    BY <1>1, <1>2

\* The event a handler publishes.
LEMMA PublishedEvent ==
  ASSUME Typed, NEW h \in Handlers, PublishLike(h)
  PROVE  \E e \in Events : /\ e.id = handler[h].id
                           /\ ready' = Append(ready, e)
                           /\ unacked' = unacked
  <1>1. handler[h] \in Serving
    BY HandlerType DEF PublishLike, Typed
  <1> DEFINE e == [id |-> handler[h].id, action |-> handler[h].action,
                   user |-> handler[h].user, video |-> handler[h].video]
  <1>2. e \in Events /\ e.id = handler[h].id
    BY <1>1 DEF Serving, Events
  <1>3. ready' = Append(ready, e) /\ unacked' = unacked
    BY DEF PublishLike
  <1> QED
    BY <1>2, <1>3

\* The steps that touch the queues.
LEMMA QueueSteps ==
  ASSUME [Next]_vars
  PROVE  \/ UNCHANGED <<ready, unacked>>
         \/ \E h \in Handlers : PublishLike(h)
         \/ Deliver \/ WorkerAcks \/ WorkerNacks \/ WorkerCrash
  BY DEF Next, vars, HandlerNext, WorkerNext, VideoNext, Receive, CheckVideo,
         PublishLikeLost, PublishLikeFails, PublishPopularity, Fallback,
         FallbackFails, HandlerCrash, WorkerFindsVideo, WorkerDrops,
         WorkerCommits, WorkerFails, DeleteVideo, CommentPopularity,
         SetLikesCount, queueVars

\* An event in flight stays in flight unless the worker acknowledges it.
LEMMA InFlightStep ==
  ASSUME Typed, [Next]_vars, NEW id, InFlight(id)
  PROVE  InFlight(id)' \/ (WorkerAcks /\ id = Current.id)
  <1>0. ready \in Seq(Events) /\ unacked \in Seq(Events)
    BY DEF Typed, TypeOK
  <1>1. CASE UNCHANGED <<ready, unacked>>
    BY <1>1 DEF InFlight, Holds
  <1>2. ASSUME NEW h \in Handlers, PublishLike(h)
        PROVE  InFlight(id)'
    <2>1. PICK e \in Events : ready' = Append(ready, e) /\ unacked' = unacked
      BY <1>2, PublishedEvent
    <2>2. Holds(ready, id) => Holds(Append(ready, e), id)
      BY <1>0, HoldsAppend
    <2> QED
      BY <2>1, <2>2 DEF InFlight, Holds
  <1>3. CASE Deliver
    <2>1. /\ ready # <<>> /\ Head(ready) \in Events
          /\ unacked' = Append(unacked, Head(ready)) /\ ready' = Tail(ready)
      BY <1>0, <1>3, HeadTailProperties DEF Deliver
    <2>2. Holds(unacked, id) \/ Head(ready).id = id
            => Holds(Append(unacked, Head(ready)), id)
      BY <1>0, <2>1, HoldsAppend
    <2>3. Holds(ready, id) => Head(ready).id = id \/ Holds(Tail(ready), id)
      BY <1>0, <2>1, HoldsTail
    <2>4. Holds(Append(unacked, Head(ready)), id) \/ Holds(Tail(ready), id)
      BY <2>2, <2>3 DEF InFlight
    <2> QED
      BY <2>1, <2>4 DEF InFlight, Holds
  <1>4. CASE WorkerAcks
    <2>1. unacked # <<>> /\ unacked' = Tail(unacked) /\ ready' = ready
      BY <1>4 DEF WorkerAcks, Typed, WorkerHoldsDelivery
    <2>2. Holds(unacked, id) => Current.id = id \/ Holds(Tail(unacked), id)
      BY <1>0, <2>1, HoldsTail DEF Current
    <2>3. Holds(ready, id) \/ Holds(Tail(unacked), id) \/ Current.id = id
      BY <2>2 DEF InFlight
    <2> QED
      BY <1>4, <2>1, <2>3 DEF InFlight, Holds
  <1>5. CASE WorkerNacks
    <2>1. /\ unacked # <<>> /\ unacked' = Tail(unacked)
          /\ ready' = <<Current>> \o ready
      BY <1>5 DEF WorkerNacks, Typed, WorkerHoldsDelivery
    <2>2. Current \in Events
      BY <2>1, CurrentType
    <2>3. <<Current>> \in Seq(Events) /\ (Current.id = id => Holds(<<Current>>, id))
      BY <2>2 DEF Holds
    <2>4. Holds(unacked, id) => Current.id = id \/ Holds(Tail(unacked), id)
      BY <1>0, <2>1, HoldsTail DEF Current
    <2>5. Current.id = id \/ Holds(ready, id) => Holds(<<Current>> \o ready, id)
      BY <1>0, <2>3, HoldsConcat
    <2>6. Holds(<<Current>> \o ready, id) \/ Holds(Tail(unacked), id)
      BY <2>4, <2>5 DEF InFlight
    <2> QED
      BY <2>1, <2>6 DEF InFlight, Holds
  <1>6. CASE WorkerCrash
    <2>1. Holds(unacked \o ready, id)
      BY <1>0, HoldsConcat DEF InFlight
    <2> QED
      BY <1>6, <2>1 DEF WorkerCrash, InFlight, Holds
  <1> QED
    BY <1>1, <1>2, <1>3, <1>4, <1>5, <1>6, QueueSteps

\* The strengthening NoEventLost needs: what the worker is about to acknowledge
\* is already settled.
AckAfterSettled == workerAt = "Ack" => Current.id \in settled

\* Appending to a window that is not empty leaves its first message in place.
LEMMA AckAfterSettledStep ==
  ASSUME Typed, AckAfterSettled, [Next]_vars
  PROVE  AckAfterSettled'
  <1>0. unacked \in Seq(Events) /\ ready \in Seq(Events)
    BY DEF Typed, TypeOK
  <1>1. CASE UNCHANGED <<unacked, workerAt, settled>>
    BY <1>1 DEF AckAfterSettled, Current
  <1>2. CASE Deliver
    <2>1. Head(ready) \in Events
      BY <1>0, <1>2, HeadTailProperties DEF Deliver
    <2>2. unacked # <<>> => Head(Append(unacked, Head(ready))) = Head(unacked)
      BY <1>0, <2>1, AppendProperties
    <2> QED
      BY <1>2, <2>2 DEF Deliver, AckAfterSettled, Current, Typed, WorkerHoldsDelivery
  <1>3. CASE WorkerDrops \/ WorkerCommits
    BY <1>3 DEF WorkerDrops, WorkerCommits, AckAfterSettled, Current
  <1>4. CASE WorkerFindsVideo \/ WorkerFails \/ WorkerAcks \/ WorkerNacks \/ WorkerCrash
    BY <1>4 DEF WorkerFindsVideo, WorkerFails, WorkerAcks, WorkerNacks, WorkerCrash,
                WorkerGoto, AckAfterSettled
  <1>5. \/ UNCHANGED <<unacked, workerAt, settled>>
        \/ Deliver \/ WorkerDrops \/ WorkerCommits
        \/ WorkerFindsVideo \/ WorkerFails \/ WorkerAcks \/ WorkerNacks \/ WorkerCrash
    BY DEF Next, vars, HandlerNext, WorkerNext, VideoNext, Receive, CheckVideo,
           PublishLike, PublishLikeLost, PublishLikeFails, PublishPopularity, Fallback,
           FallbackFails, HandlerCrash, DeleteVideo, CommentPopularity,
           SetLikesCount, queueVars
  <1> QED
    BY <1>1, <1>2, <1>3, <1>4, <1>5

\* Only a successful publication adds to sent, and nothing leaves settled.
LEMMA HistorySteps ==
  ASSUME [Next]_vars
  PROVE  /\ settled \subseteq settled'
         /\ \/ sent' = sent
            \/ \E h \in Handlers : PublishLike(h)
  BY DEF Next, vars, HandlerNext, WorkerNext, VideoNext, Receive, CheckVideo,
         PublishLike, PublishLikeLost, PublishLikeFails, PublishPopularity, Fallback,
         FallbackFails, HandlerCrash, Deliver, WorkerFindsVideo, WorkerDrops,
         WorkerCommits, WorkerFails, WorkerAcks, WorkerNacks, WorkerCrash,
         DeleteVideo, CommentPopularity, SetLikesCount, queueVars

\* An event the broker accepted is in flight until it is settled, through any
\* number of errors, requeues and worker crashes.
THEOREM NoEventLostCorrect == Spec => []NoEventLost
  <1> DEFINE Inv == AckAfterSettled /\ NoEventLost
  <1>1. Init => Inv
    BY DEF Init, AckAfterSettled, NoEventLost
  <1>2. Typed /\ Inv /\ [Next]_vars => Inv'
    <2> SUFFICES ASSUME Typed, Inv, [Next]_vars
                 PROVE  NoEventLost'
      BY AckAfterSettledStep
    <2>1. ASSUME NEW id \in sent
          PROVE  id \in settled' \/ InFlight(id)'
      <3>1. CASE id \in settled
        BY <3>1, HistorySteps
      <3>2. CASE InFlight(id)
        BY <3>2, InFlightStep, HistorySteps DEF WorkerAcks, AckAfterSettled
      <3> QED
        BY <2>1, <3>1, <3>2 DEF NoEventLost
    <2>2. ASSUME NEW h \in Handlers, PublishLike(h), NEW id, id = handler[h].id
          PROVE  InFlight(id)'
      <3>1. PICK e \in Events : e.id = id /\ ready' = Append(ready, e)
        BY <2>2, PublishedEvent
      <3>2. Holds(Append(ready, e), id)
        BY <3>1, HoldsAppend DEF Typed, TypeOK
      <3> QED
        BY <3>1, <3>2 DEF InFlight, Holds
    <2>3. ASSUME NEW id \in sent'
          PROVE  id \in settled' \/ InFlight(id)'
      <3>1. CASE id \in sent
        BY <2>1, <3>1
      <3>2. CASE id \notin sent
        <4>1. PICK h \in Handlers : PublishLike(h) /\ id = handler[h].id
          BY <2>3, <3>2, HistorySteps DEF PublishLike
        <4> QED
          BY <2>2, <4>1
      <3> QED
        BY <3>1, <3>2
    <2> QED
      BY <2>3 DEF NoEventLost
  <1> QED
    BY <1>1, <1>2, TypeCorrect, PTL DEF Spec, Typed

-----------------------------------------------------------------------------
(* Refinement.                                                             *)

\* Every step of Likes is a step of the ledger or leaves it alone.
LEMMA LedgerStep ==
  ASSUME SyncCounts = {}, Typed, LikesCountMatchesRows, [Next]_vars
  PROVE  [Ledger!LedgerNext]_(Ledger!ledgerVars)
  <1> DEFINE L == [v \in Videos |-> IF v \in videos THEN Rows(v) ELSE {}]
             C == [v \in Videos |-> IF v \in videos THEN likesCount[v] ELSE 0]
  <1>0. /\ TypeOK
        /\ \A v \in videos : likesCount[v] \in Nat
    BY RowsFinite DEF Typed, LikesCountMatchesRows
  <1>1. ASSUME NEW a \in Actions, NEW v \in Videos, NEW u \in Users,
               Effect(a, v, u)
        PROVE  [Ledger!LedgerNext]_(Ledger!ledgerVars)
    <2>0. videos' = videos
      BY <1>1 DEF Effect
    <2>1. \A w \in Videos \ {v} : Rows(w)' = Rows(w) /\ likesCount'[w] = likesCount[w]
      BY <1>0, <1>1, EffectRows
    <2>2. CASE v \notin videos
      <3>1. L' = L /\ C' = C
        BY <2>0, <2>1, <2>2
      <3> QED
        BY <2>0, <3>1 DEF Ledger!ledgerVars
    <2>3. CASE v \in videos /\ a = "like"
      <3>1. /\ u \notin Rows(v) /\ Rows(v)' = Rows(v) \cup {u}
            /\ likesCount'[v] = likesCount[v] + 1
        BY <1>0, <1>1, <2>3, EffectRows DEF Greatest0
      <3>2. L' = [L EXCEPT ![v] = @ \cup {u}]
        BY <2>0, <2>1, <2>3, <3>1
      <3>3. C' = [C EXCEPT ![v] = @ + 1]
        BY <2>0, <2>1, <2>3, <3>1
      <3>4. Ledger!AddLike(v, u)
        BY <2>0, <2>3, <3>1, <3>2, <3>3 DEF Ledger!AddLike
      <3> QED
        BY <3>4 DEF Ledger!LedgerNext
    <2>4. CASE v \in videos /\ a = "unlike"
      <3>1. /\ u \in Rows(v) /\ Rows(v)' = Rows(v) \ {u}
            /\ Cardinality(Rows(v)') \in Nat
            /\ likesCount'[v] = Greatest0(likesCount[v] - 1)
        <4>1. Rows(v)' \subseteq Users
          BY DEF Rows
        <4> QED
          BY <1>0, <1>1, <2>4, <4>1, EffectRows, UsersFinite, FS_Subset, FS_CardinalityType
      <3>2. likesCount'[v] = likesCount[v] - 1
        <4>1. likesCount[v] = Cardinality(Rows(v)) /\ Cardinality(Rows(v)) \in Nat
          BY <2>4, RowsFinite DEF LikesCountMatchesRows
        <4>2. Cardinality(Rows(v)') = Cardinality(Rows(v)) - 1
          BY <1>0, <1>1, <2>4, EffectRows
        <4> QED
          BY <3>1, <4>1, <4>2 DEF Greatest0
      <3>3. L' = [L EXCEPT ![v] = @ \ {u}]
        BY <2>0, <2>1, <2>4, <3>1
      <3>4. C' = [C EXCEPT ![v] = @ - 1]
        BY <2>0, <2>1, <2>4, <3>2
      <3>5. Ledger!RemoveLike(v, u)
        BY <2>0, <2>4, <3>1, <3>3, <3>4 DEF Ledger!RemoveLike
      <3> QED
        BY <3>5 DEF Ledger!LedgerNext
    <2> QED
      BY <2>2, <2>3, <2>4 DEF Actions
  <1>2. CASE UNCHANGED dbVars
    <2>1. L' = L /\ C' = C /\ videos' = videos
      BY <1>2 DEF dbVars, Rows
    <2> QED
      BY <2>1 DEF Ledger!ledgerVars
  <1>3. ASSUME NEW v \in Videos, DeleteVideo(v)
        PROVE  [Ledger!LedgerNext]_(Ledger!ledgerVars)
    <2>1. v \in videos /\ videos' = videos \ {v} /\ likes' = likes /\ likesCount' = likesCount
      BY <1>3 DEF DeleteVideo
    <2>2. L' = [L EXCEPT ![v] = {}]
      BY <2>1 DEF Rows
    <2>3. C' = [C EXCEPT ![v] = 0]
      BY <2>1
    <2>4. Ledger!RemoveVideo(v)
      BY <2>1, <2>2, <2>3 DEF Ledger!RemoveVideo
    <2> QED
      BY <2>4 DEF Ledger!LedgerNext
  <1>4. ASSUME NEW v \in Videos, CommentPopularity(v)
        PROVE  [Ledger!LedgerNext]_(Ledger!ledgerVars)
    <2>1. L' = L /\ C' = C /\ videos' = videos
      BY <1>4 DEF CommentPopularity, Rows
    <2> QED
      BY <2>1 DEF Ledger!ledgerVars
  <1> QED
    BY <1>1, <1>2, <1>3, <1>4, StepKinds

\* Handlers, queue and worker together implement the atomic ledger.
THEOREM LikesImplementsLedger ==
  ASSUME SyncCounts = {}
  PROVE  Spec => ImplementsLedger
  <1>1. Init => Ledger!LedgerInit
    <2> SUFFICES ASSUME Init
                 PROVE  Ledger!LedgerInit
      OBVIOUS
    <2>1. [v \in Videos |-> IF v \in videos THEN Rows(v) ELSE {}] = [v \in Videos |-> {}]
      BY DEF Init, Rows
    <2>2. [v \in Videos |-> IF v \in videos THEN likesCount[v] ELSE 0] = [v \in Videos |-> 0]
      BY DEF Init
    <2> QED
      BY <2>1, <2>2 DEF Init, Ledger!LedgerInit
  <1>2. Typed /\ LikesCountMatchesRows /\ [Next]_vars
          => [Ledger!LedgerNext]_(Ledger!ledgerVars)
    BY LedgerStep
  <1> QED
    BY <1>1, <1>2, TypeCorrect, LikesCountCorrect, PTL
    DEF Spec, Typed, ImplementsLedger, Ledger!LedgerSpec
=============================================================================
