-------------------------- MODULE FollowFeedProofs --------------------------
(***************************************************************************)
(* Proofs about Social and FollowFeed.                                     *)
(***************************************************************************)
EXTENDS FollowFeed, FiniteSetTheorems, WellFoundedInduction, TLAPS

-----------------------------------------------------------------------------
(* Types.                                                                  *)

\* The followers of a vlogger can be counted.
LEMMA CountTyped ==
    ASSUME NEW a PROVE Cardinality(FollowersOf(a)) \in Nat
<1>1. FollowersOf(a) \subseteq Followers  BY DEF FollowersOf
<1>2. IsFiniteSet(FollowersOf(a))  BY <1>1, FS_Subset, AccountsFinite
<1> QED  BY <1>2, FS_CardinalityType

\* The event in SocialWorker's hands, and what is left when it goes.
LEMMA HeadTyped ==
    ASSUME SocialTypeOK, socialQ # <<>>
    PROVE  /\ Event \in Events
           /\ Event.pair \in Pairs
           /\ Follower \in Followers
           /\ Vlogger \in Vloggers
           /\ Tail(socialQ) \in Seq(Events)
<1>1. socialQ \in Seq(Events)  BY DEF SocialTypeOK
<1>2. Event \in Events /\ Tail(socialQ) \in Seq(Events)  BY <1>1 DEF Event
<1>3. Event.pair \in Pairs  BY <1>2 DEF Events
<1> QED  BY <1>2, <1>3 DEF Pairs, Follower, Vlogger

\* A step of a handler keeps the types.
LEMMA HandlerTyped ==
    ASSUME SocialTypeOK, NEW h \in Handlers, HandlerNext(h)
    PROVE  SocialTypeOK'
<1> USE DEF SocialTypeOK, Serving, Idle, rowVars, redisVars
<1>1. CASE \E action \in Requests, p \in Pairs : Receive(h, action, p)
  BY <1>1 DEF Receive
<1>2. CASE CheckFollowed(h)
  <2>1. handler[h] \in Serving  BY <1>2 DEF CheckFollowed
  <2>2. handler' \in [Handlers -> Serving \cup {Idle}]
    <3>1. CASE Goto(h, "Publish")  BY <3>1, <2>1 DEF Goto
    <3>2. CASE Respond(h)  BY <3>2 DEF Respond
    <3> QED  BY <1>2, <3>1, <3>2 DEF CheckFollowed
  <2> QED  BY <1>2, <2>2 DEF CheckFollowed
<1>3. CASE Publish(h)
  <2>1. handler[h] \in Serving  BY <1>3 DEF Publish
  <2> QED  BY <1>3, <2>1 DEF Publish, Goto, Events
<1>4. CASE PublishFails(h)
  <2>1. handler[h] \in Serving  BY <1>4 DEF PublishFails
  <2> QED  BY <1>4, <2>1 DEF PublishFails, Goto
<1>5. CASE Write(h)
  <2>1. handler[h] \in Serving  BY <1>5 DEF Write
  <2> QED  BY <1>5, <2>1 DEF Write, Respond, Written
<1>6. CASE RequestFails(h)
  BY <1>6 DEF RequestFails, Respond
<1> QED  BY <1>1, <1>2, <1>3, <1>4, <1>5, <1>6 DEF HandlerNext

\* A step of SocialWorker keeps the types.
LEMMA SocialWorkerTyped ==
    ASSUME SocialTypeOK, SocialWorkerNext
    PROVE  SocialTypeOK'
<1> USE DEF SocialTypeOK, SocialSteps, Waiting, SocialAt, rowVars, redisVars
<1>1. CASE SocialRepo
  BY <1>1, HeadTyped DEF SocialRepo, Written
<1>2. CASE SocialRepoFails
  BY <1>2 DEF SocialRepoFails
<1>3. CASE SocialGetCount
  BY <1>3 DEF SocialGetCount, Strategy
<1>4. CASE SocialCountFollowers
  <2>1. Cardinality(FollowersOf(Vlogger)) \in Nat  BY CountTyped
  <2> QED  BY <1>4, <2>1 DEF SocialCountFollowers
<1>5. CASE SocialSetCount
  BY <1>5, HeadTyped DEF SocialSetCount, Strategy
<1>6. CASE SocialSAdd
  <2>1. bigv' \in [Followers -> SUBSET Vloggers] /\ unlisted' \subseteq unlisted
    BY <1>6, HeadTyped DEF SocialSAdd
  <2> QED  BY <1>6, <2>1 DEF SocialSAdd
<1>7. CASE SocialBackfillRead
  <2>1. userVideos[Vlogger] \subseteq Videos  BY <1>7, HeadTyped DEF SocialBackfillRead
  <2>2. Newest(userVideos[Vlogger], UserVideosCap) \subseteq Videos  BY <2>1 DEF Newest
  <2>3. PICK found \in SUBSET Videos :
           social' = [social EXCEPT !.at = IF found = {} THEN "Ack" ELSE "BackfillWrite",
                                    !.videos = found]
    BY <1>7, <2>2 DEF SocialBackfillRead
  <2>4. social' \in [at : SocialSteps, count : Nat, videos : SUBSET Videos, failed : BOOLEAN]
    BY <2>3
  <2> QED  BY <1>7, <2>4 DEF SocialBackfillRead
<1>8. CASE SocialBackfillWrite
  <2>1. inbox' \in [Followers -> SUBSET Videos]
    BY <1>8, HeadTyped DEF SocialBackfillWrite, Newest
  <2> QED  BY <1>8, <2>1 DEF SocialBackfillWrite
<1>9. CASE SocialSRem
  <2>1. bigv' \in [Followers -> SUBSET Vloggers] /\ unlisted' \subseteq unlisted
    BY <1>9, HeadTyped DEF SocialSRem
  <2> QED  BY <1>9, <2>1 DEF SocialSRem
<1>10. CASE SocialAck
  BY <1>10, HeadTyped DEF SocialAck
<1>11. CASE SocialNack
  BY <1>11, HeadTyped DEF SocialNack
<1>12. CASE SocialCrash
  BY <1>12 DEF SocialCrash
<1> QED  BY <1>1, <1>2, <1>3, <1>4, <1>5, <1>6, <1>7, <1>8, <1>9, <1>10, <1>11, <1>12
         DEF SocialWorkerNext

\* The end of a following:bigv keeps the types.
LEMMA ExpireBigVTyped ==
    ASSUME SocialTypeOK, NEW u \in Followers, ExpireBigV(u)
    PROVE  SocialTypeOK'
<1>1. {u} \X bigv[u] \subseteq Pairs  BY DEF SocialTypeOK, Pairs
<1> QED  BY <1>1 DEF SocialTypeOK, ExpireBigV, rowVars

\* What FanoutWorker holds has its type.
FanoutTyped ==
    fanout \in {Free} \cup [at : FanoutSteps, video : Videos, count : Nat,
                           pending : SUBSET Followers]

\* A busy FanoutWorker holds a video and its author.
LEMMA FanoutBusy ==
    ASSUME FanoutTyped, fanout.at # "idle"
    PROVE  /\ fanout \in [at : FanoutSteps, video : Videos, count : Nat,
                          pending : SUBSET Followers]
           /\ fanout.video \in Videos
           /\ V \in Vloggers
<1>1. fanout # Free  BY DEF Free
<1>2. fanout \in [at : FanoutSteps, video : Videos, count : Nat, pending : SUBSET Followers]
  BY <1>1 DEF FanoutTyped
<1> QED  BY <1>2, AuthorTyped DEF V

\* A step of FanoutWorker, a publication or a login keeps the types.
LEMMA FanoutNextTyped ==
    ASSUME TypeOK, FanoutNext
    PROVE  TypeOK'
<1> USE DEF TypeOK, SocialTypeOK, Free, FanoutGoto, FanoutSteps, socialVars, rowVars, redisVars,
            lapseVars
<1>0. FanoutTyped  BY DEF FanoutTyped
<1>1. ASSUME NEW v \in Videos, PublishVideo(v) PROVE TypeOK'
  BY <1>1 DEF PublishVideo
<1>2. ASSUME NEW v \in Videos, FanoutReceive(v) PROVE TypeOK'
  BY <1>2 DEF FanoutReceive
<1>3. ASSUME NEW u \in Followers, FallAsleep(u) \/ Login(u) PROVE TypeOK'
  BY <1>3 DEF FallAsleep, Login
<1>4. CASE FanoutZAdd
  <2>1. V \in Vloggers /\ fanout.video \in Videos  BY <1>0, <1>4, FanoutBusy DEF FanoutZAdd
  <2>2. userVideos' \in [Vloggers -> SUBSET Videos]
    <3> DEFINE filled == userVideos[V] \cup {fanout.video}
    <3>1. filled \subseteq Videos /\ Newest(filled, UserVideosCap) \subseteq Videos
      BY <2>1 DEF Newest
    <3>2. \/ userVideos' = [userVideos EXCEPT ![V] = Newest(filled, UserVideosCap)]
          \/ userVideos' = [userVideos EXCEPT ![V] = filled]
          \/ userVideos' = userVideos
      BY <1>4 DEF FanoutZAdd
    <3> HIDE DEF filled
    <3> QED  BY <2>1, <3>1, <3>2
  <2>3. FanoutTyped'
    BY <1>0, <1>4, FanoutBusy DEF FanoutZAdd, FanoutGivesUp, FanoutTyped
  <2>4. lapsed' \subseteq lapsed /\ missed' \subseteq missed  BY <1>4 DEF FanoutZAdd, Renewed
  <2> QED  BY <1>4, <2>2, <2>3, <2>4 DEF FanoutZAdd, FanoutTyped
<1>5. CASE FanoutGetCount
  <2>1. FanoutTyped'
    BY <1>0, <1>5, FanoutBusy DEF FanoutGetCount, FanoutTyped, Push
  <2> QED  BY <1>5, <2>1 DEF FanoutGetCount, FanoutTyped
<1>6. CASE FanoutCountFollowers
  <2>1. Cardinality(FollowersOf(V)) \in Nat  BY CountTyped
  <2>2. FanoutTyped'
    BY <1>0, <1>6, <2>1, FanoutBusy DEF FanoutCountFollowers, FanoutTyped
  <2> QED  BY <1>6, <2>2 DEF FanoutCountFollowers, FanoutTyped
<1>7. CASE FanoutSetCount
  <2>1. fanout \in [at : FanoutSteps, video : Videos, count : Nat, pending : SUBSET Followers]
        /\ V \in Vloggers
    BY <1>0, <1>7, FanoutBusy DEF FanoutSetCount
  <2>2. countCache' \in [Vloggers -> Nat \cup {NoCount}]
    BY <1>7, <2>1 DEF FanoutSetCount
  <2>3. FanoutTyped'
    BY <1>7, <2>1 DEF FanoutSetCount, FanoutTyped, Push
  <2> QED  BY <1>7, <2>2, <2>3 DEF FanoutSetCount, FanoutTyped
<1>8. CASE FanoutGetFollowers
  <2>1. FollowersOf(V) \subseteq Followers  BY DEF FollowersOf
  <2>2. FanoutTyped'
    BY <1>0, <1>8, <2>1, FanoutBusy DEF FanoutGetFollowers, FanoutGivesUp, FanoutTyped
  <2> QED  BY <1>8, <2>2 DEF FanoutGetFollowers, FanoutTyped
<1>9. CASE FanoutFilterActive
  <2>1. fanout \in [at : FanoutSteps, video : Videos, count : Nat, pending : SUBSET Followers]
    BY <1>0, <1>9, FanoutBusy DEF FanoutFilterActive
  <2>2. PICK keep \in SUBSET Followers :
           fanout' = [fanout EXCEPT !.pending = keep, !.at = IF keep = {} THEN "Ack" ELSE "Batch"]
    BY <1>9, <2>1 DEF FanoutFilterActive
  <2>3. FanoutTyped'  BY <2>1, <2>2 DEF FanoutTyped
  <2> QED  BY <1>9, <2>3 DEF FanoutFilterActive, FanoutTyped
<1>10. CASE FanoutBatch
  <2>1. fanout \in [at : FanoutSteps, video : Videos, count : Nat, pending : SUBSET Followers]
    BY <1>0, <1>10, FanoutBusy DEF FanoutBatch
  <2>2. inbox' \in [Followers -> SUBSET Videos]
    BY <1>10, <2>1 DEF FanoutBatch, Newest
  <2>3. PICK batch \in SUBSET fanout.pending :
           fanout' = [fanout EXCEPT !.pending = @ \ batch,
                                    !.at = IF batch = fanout.pending THEN "Ack" ELSE "Batch"]
    BY <1>10 DEF FanoutBatch
  <2>4. FanoutTyped'  BY <2>1, <2>3 DEF FanoutTyped
  <2> QED  BY <1>10, <2>2, <2>4 DEF FanoutBatch, FanoutTyped
<1>11. CASE FanoutAck
  BY <1>11 DEF FanoutAck
<1>12. CASE FanoutCrash
  BY <1>12 DEF FanoutCrash, FanoutGivesUp
<1>13. ASSUME NEW b \in Vloggers, ExpireUserVideos(b) PROVE TypeOK'
  BY <1>13 DEF ExpireUserVideos
<1> QED  BY <1>1, <1>2, <1>3, <1>4, <1>5, <1>6, <1>7, <1>8, <1>9, <1>10, <1>11, <1>12, <1>13
         DEF FanoutNext

\* Every reachable state of the push-pull feed is typed.
THEOREM TypeCorrect == Spec => []TypeOK
<1>1. Init => TypeOK
  BY SocialBounds DEF Init, SocialInit, TypeOK, SocialTypeOK, Idle, Waiting, SocialSteps, Free, Requests, NoCount
<1>2. TypeOK /\ [Next]_vars => TypeOK'
  <2> SUFFICES ASSUME TypeOK, [Next]_vars PROVE TypeOK'
    OBVIOUS
  <2>1. CASE SocialStep
    <3>1. SocialTypeOK  BY DEF TypeOK
    <3>2. SocialTypeOK'
      BY <2>1, <3>1, HandlerTyped, SocialWorkerTyped, ExpireBigVTyped DEF SocialStep, SocialNext
    <3> QED  BY <2>1, <3>2 DEF SocialStep, TypeOK, fanoutVars, lapseVars
  <2>2. CASE FanoutNext  BY <2>2, FanoutNextTyped
  <2>3. CASE UNCHANGED vars
    BY <2>3 DEF vars, socialVars, rowVars, redisVars, fanoutVars, lapseVars, TypeOK, SocialTypeOK
  <2> QED  BY <2>1, <2>2, <2>3 DEF Next
<1> QED  BY <1>1, <1>2, PTL DEF Spec

-----------------------------------------------------------------------------
(* A video whose fanout event is gone can be pulled.                       *)

\* FanoutWorker has put v into user_videos in this delivery.
Filled(v) == fanout.at \notin {"idle", "ZAdd"} /\ fanout.video = v

\* user_videos has published videos of the author only, only published videos
\* lapse, the event in FanoutWorker's hands is still in the queue, and
\* FannedOutVideosPullable holds of the video it has just filled in as well.
PullInv ==
    /\ \A b \in Vloggers : userVideos[b] \subseteq {v \in published : Author[v] = b}
    /\ fanoutQ \cup lapsed \subseteq published
    /\ fanout # Free => fanout.video \in fanoutQ
    /\ \A v \in published \ lapsed :
          /\ v \notin fanoutQ \/ Filled(v)
          /\ Cardinality(Newer(v)) < UserVideosCap
          => v \in userVideos[Author[v]]

\* Trimming never takes a video that has fewer than UserVideosCap later ones.
LEMMA TrimKeeps ==
    ASSUME TypeOK, NEW v \in published, NEW S \in SUBSET published, v \in S,
           \A w \in S : Author[w] = Author[v],
           Cardinality(Newer(v)) < UserVideosCap
    PROVE  v \in Newest(S, UserVideosCap)
<1> DEFINE later == {w \in S : w > v}
<1>1. later \subseteq Newer(v) /\ Newer(v) \subseteq Videos  BY DEF Newer, TypeOK
<1>2. IsFiniteSet(Newer(v))  BY <1>1, FS_Subset, VideosNumbered
<1>3. Cardinality(later) <= Cardinality(Newer(v))
      /\ Cardinality(later) \in Nat /\ Cardinality(Newer(v)) \in Nat
  BY <1>1, <1>2, FS_Subset, FS_CardinalityType
<1>4. Cardinality(later) < UserVideosCap  BY <1>3, SocialBounds
<1> QED  BY <1>4 DEF Newest

\* A step after which FanoutWorker has the same filled-in video, or none, and
\* that touches neither user_videos nor the queue.
Frame ==
    /\ UNCHANGED <<userVideos, published, fanoutQ, lapsed>>
    /\ \/ fanout' = fanout
       \/ fanout' = Free
       \/ /\ fanout # Free
          /\ Filled(fanout.video)
          /\ fanout'.video = fanout.video

\* Such a step preserves the invariant.
LEMMA FramePreserves ==
    ASSUME PullInv, Frame
    PROVE  PullInv'
<1>1. \A v : Newer(v)' = Newer(v)  BY DEF Frame, Newer
<1>2. \A v : Filled(v)' => Filled(v)
  BY DEF Frame, Filled, Free
<1> QED  BY <1>1, <1>2 DEF PullInv, Frame

\* FanoutWorker puts its video into user_videos.
LEMMA ZAddPreserves ==
    ASSUME TypeOK, PullInv, FanoutZAdd
    PROVE  PullInv'
<1> DEFINE filled == userVideos[V] \cup {fanout.video}
<1>0. FanoutTyped  BY DEF TypeOK, FanoutTyped
<1>1. fanout \in [at : FanoutSteps, video : Videos, count : Nat, pending : SUBSET Followers]
      /\ V \in Vloggers /\ fanout # Free /\ fanout.at = "ZAdd"
  BY <1>0, FanoutBusy DEF FanoutZAdd, Free
<1>2. fanout.video \in fanoutQ /\ fanout.video \in published  BY <1>1 DEF PullInv
<1>3. filled \subseteq {v \in published : Author[v] = V}
  BY <1>1, <1>2 DEF PullInv, V
<1>4. UNCHANGED <<published, fanoutQ>>  BY DEF FanoutZAdd
<1>5. CASE fanout' = Free
  <2>1. UNCHANGED <<userVideos, lapsed>>
    BY <1>1, <1>5 DEF FanoutZAdd, FanoutGoto, Free, FanoutGivesUp, lapseVars
  <2> QED  BY <1>4, <1>5, <2>1, FramePreserves DEF Frame
<1>6. CASE fanout' = [fanout EXCEPT !.at = "GetCount"]
  <2>1. userVideos' \in {[userVideos EXCEPT ![V] = Newest(filled, UserVideosCap)],
                         [userVideos EXCEPT ![V] = filled]}
        /\ lapsed' = lapsed \ {fanout.video}
    BY <1>1, <1>6 DEF FanoutZAdd, FanoutGivesUp, Free, Renewed
  <2>2. Newest(filled, UserVideosCap) \subseteq filled  BY DEF Newest
  <2>3. userVideos \in [Vloggers -> SUBSET Videos]  BY DEF TypeOK, SocialTypeOK
  <2>4. \A b \in Vloggers : userVideos'[b] \subseteq {v \in published' : Author[v] = b}
    BY <1>1, <1>3, <1>4, <2>1, <2>2, <2>3 DEF PullInv
  <2>5. ASSUME NEW v \in published \ lapsed', v \notin fanoutQ' \/ Filled(v)',
               Cardinality(Newer(v)) < UserVideosCap
        PROVE  v \in userVideos'[Author[v]]
    <3>1. Author[v] \in Vloggers  BY AuthorTyped DEF TypeOK
    <3>2. CASE Author[v] # V
      <4>1. v # fanout.video  BY <3>2 DEF V
      <4>2. v \notin fanoutQ  BY <1>1, <1>4, <1>6, <2>5, <4>1 DEF Filled
      <4>3. v \in userVideos[Author[v]]  BY <2>1, <2>5, <4>1, <4>2 DEF PullInv
      <4> QED  BY <2>1, <2>3, <3>1, <3>2, <4>3
    <3>3. CASE Author[v] = V
      <4>1. v \in filled
        <5>1. CASE v = fanout.video  BY <5>1
        <5>2. CASE v # fanout.video
          <6>1. v \notin fanoutQ  BY <1>1, <1>4, <1>6, <2>5, <5>2 DEF Filled
          <6> QED  BY <2>1, <2>5, <3>3, <5>2, <6>1 DEF PullInv
        <5> QED  BY <5>1, <5>2
      <4>2. v \in Newest(filled, UserVideosCap)
        <5> HIDE DEF filled
        <5> QED  BY <1>3, <2>5, <3>3, <4>1, TrimKeeps
      <4> QED  BY <1>1, <2>1, <2>3, <3>3, <4>1, <4>2
    <3> QED  BY <3>2, <3>3
  <2>6. \A v : Newer(v)' = Newer(v)  BY <1>4 DEF Newer
  <2>7. fanout'.video \in fanoutQ'  BY <1>1, <1>2, <1>4, <1>6
  <2> QED  BY <1>4, <2>1, <2>4, <2>5, <2>6, <2>7 DEF PullInv
<1> QED  BY <1>5, <1>6 DEF FanoutZAdd, FanoutGoto, FanoutGivesUp

\* Nothing in module Social writes user_videos.
LEMMA SocialKeepsUserVideos ==
    ASSUME SocialNext PROVE userVideos' = userVideos
<1> USE DEF redisVars
<1>1. ASSUME NEW h \in Handlers, HandlerNext(h) PROVE userVideos' = userVideos
  BY <1>1 DEF HandlerNext, Receive, CheckFollowed, Publish, PublishFails, Write, RequestFails
<1>2. ASSUME SocialWorkerNext PROVE userVideos' = userVideos
  BY <1>2 DEF SocialWorkerNext, SocialRepo, SocialRepoFails, SocialGetCount,
        SocialCountFollowers, SocialSetCount, SocialSAdd, SocialBackfillRead,
        SocialBackfillWrite, SocialSRem, SocialAck, SocialNack, SocialCrash
<1> QED  BY <1>1, <1>2 DEF SocialNext, ExpireBigV

\* When user_videos runs out, the videos it had have lapsed.
LEMMA ExpirePreserves ==
    ASSUME TypeOK, PullInv, NEW b \in Vloggers, ExpireUserVideos(b)
    PROVE  PullInv'
<1>1. /\ userVideos' = [userVideos EXCEPT ![b] = {}] /\ lapsed' = lapsed \cup userVideos[b]
      /\ UNCHANGED <<published, fanoutQ, fanout>>
      /\ userVideos \in [Vloggers -> SUBSET Videos]
  BY DEF ExpireUserVideos, TypeOK, SocialTypeOK
<1>2. \A v : (Newer(v)' = Newer(v)) /\ (Filled(v)' <=> Filled(v))
  BY <1>1 DEF Newer, Filled
<1>3. ASSUME NEW v \in published \ lapsed', v \notin fanoutQ \/ Filled(v),
             Cardinality(Newer(v)) < UserVideosCap
      PROVE  v \in userVideos'[Author[v]]
  <2>1. v \in userVideos[Author[v]] /\ v \notin userVideos[b]  BY <1>1, <1>3 DEF PullInv
  <2>2. Author[v] \in Vloggers  BY <1>3, AuthorTyped DEF TypeOK
  <2> QED  BY <1>1, <2>1, <2>2
<1>4. \A c \in Vloggers : userVideos'[c] \subseteq {v \in published : Author[v] = c}
  BY <1>1 DEF PullInv
<1>5. lapsed' \subseteq published  BY <1>1 DEF PullInv
<1> QED  BY <1>1, <1>2, <1>3, <1>4, <1>5 DEF PullInv

\* A publication, a delivery or a step of FanoutWorker preserves the invariant.
LEMMA FanoutNextPullable ==
    ASSUME TypeOK, PullInv, FanoutNext
    PROVE  PullInv'
<1>0. FanoutTyped  BY DEF TypeOK, FanoutTyped
<1> USE DEF socialVars, redisVars, lapseVars
<1>1. ASSUME NEW v \in Videos, PublishVideo(v) PROVE PullInv'
  <2>1. published' = published \cup {v} /\ fanoutQ' = fanoutQ \cup {v}
        /\ UNCHANGED <<userVideos, fanout, lapsed>> /\ v \notin published
    BY <1>1 DEF PublishVideo
  <2>2. ASSUME NEW w \in published' \ lapsed', w \notin fanoutQ' \/ Filled(w)',
               Cardinality(Newer(w)') < UserVideosCap
        PROVE  w \in userVideos'[Author[w]]
    <3>1. Filled(w)' <=> Filled(w)  BY <2>1 DEF Filled
    <3>2. w \in published
      <4>1. CASE w \notin fanoutQ'  BY <2>1, <2>2, <4>1
      <4>2. CASE Filled(w)
        <5>1. fanout # Free /\ fanout.video = w  BY <4>2 DEF Filled, Free
        <5> QED  BY <5>1 DEF PullInv
      <4> QED  BY <2>2, <3>1, <4>1, <4>2
    <3>3. Newer(w) \subseteq Newer(w)' /\ Newer(w)' \subseteq Videos
      BY <2>1 DEF Newer, TypeOK
    <3>4. IsFiniteSet(Newer(w)')  BY <3>3, FS_Subset, VideosNumbered
    <3>5. Cardinality(Newer(w)) < UserVideosCap
      BY <2>2, <3>3, <3>4, FS_Subset, FS_CardinalityType, SocialBounds
    <3>6. w \notin fanoutQ \/ Filled(w)  BY <2>1, <2>2, <3>1
    <3> QED  BY <2>1, <3>2, <3>5, <3>6 DEF PullInv
  <2> QED  BY <2>1, <2>2 DEF PullInv
<1>2. ASSUME NEW v \in Videos, FanoutReceive(v) PROVE PullInv'
  <2>1. /\ fanout' = [at |-> "ZAdd", video |-> v, count |-> 0, pending |-> {}]
        /\ v \in fanoutQ
        /\ UNCHANGED <<userVideos, published, fanoutQ, lapsed>>
    BY <1>2 DEF FanoutReceive
  <2>2. \A w : ~Filled(w)'  BY <2>1 DEF Filled
  <2>3. \A w : Newer(w)' = Newer(w)  BY <2>1 DEF Newer
  <2> QED  BY <2>1, <2>2, <2>3 DEF PullInv
<1>3. ASSUME NEW u \in Followers, FallAsleep(u) \/ Login(u) PROVE PullInv'
  <2>1. Frame  BY <1>3 DEF FallAsleep, Login, Frame
  <2> QED  BY <2>1, FramePreserves
<1>4. CASE FanoutZAdd
  BY <1>4, ZAddPreserves
<1>5. CASE \/ FanoutGetCount
           \/ FanoutCountFollowers
           \/ FanoutSetCount
           \/ FanoutGetFollowers
           \/ FanoutFilterActive
           \/ FanoutBatch
  <2> USE DEF FanoutGetCount, FanoutCountFollowers, FanoutSetCount, FanoutGetFollowers,
              FanoutFilterActive, FanoutBatch
  <2>1. fanout.at \notin {"idle", "ZAdd"}  BY <1>5
  <2>2. fanout \in [at : FanoutSteps, video : Videos, count : Nat, pending : SUBSET Followers]
    BY <1>0, <2>1, FanoutBusy
  <2>3. fanout # Free /\ Filled(fanout.video)  BY <2>1 DEF Filled, Free
  <2>4. fanout' = Free \/ fanout'.video = fanout.video
    BY <1>5, <2>2 DEF FanoutGoto, FanoutGivesUp
  <2>5. UNCHANGED <<userVideos, published, fanoutQ, lapsed>>  BY <1>5
  <2>6. Frame  BY <2>3, <2>4, <2>5 DEF Frame
  <2> QED  BY <2>6, FramePreserves
<1>6. CASE FanoutAck
  <2>1. /\ fanout' = Free
        /\ fanoutQ' = fanoutQ \ {fanout.video}
        /\ UNCHANGED <<userVideos, published, lapsed>>
        /\ Filled(fanout.video)
    BY <1>6 DEF FanoutAck, Filled
  <2>2. \A w : ~Filled(w)'  BY <2>1 DEF Filled, Free
  <2>3. \A w : Newer(w)' = Newer(w)  BY <2>1 DEF Newer
  <2> QED  BY <2>1, <2>2, <2>3 DEF PullInv
<1>7. CASE FanoutCrash
  <2>1. Frame  BY <1>7 DEF FanoutCrash, FanoutGivesUp, Frame
  <2> QED  BY <2>1, FramePreserves
<1>8. ASSUME NEW b \in Vloggers, ExpireUserVideos(b) PROVE PullInv'
  BY <1>8, ExpirePreserves
<1> QED  BY <1>1, <1>2, <1>3, <1>4, <1>5, <1>6, <1>7, <1>8 DEF FanoutNext

\* PullInv is an invariant.
LEMMA PullInvCorrect == Spec => []PullInv
<1>1. Init => PullInv
  BY DEF Init, SocialInit, PullInv, Filled, Free
<1>2. TypeOK /\ PullInv /\ [Next]_vars => PullInv'
  <2> SUFFICES ASSUME TypeOK, PullInv, [Next]_vars PROVE PullInv'
    OBVIOUS
  <2>1. CASE SocialStep
    <3>1. Frame  BY <2>1, SocialKeepsUserVideos DEF SocialStep, fanoutVars, lapseVars, Frame
    <3> QED  BY <3>1, FramePreserves
  <2>2. CASE FanoutNext  BY <2>2, FanoutNextPullable
  <2>3. CASE UNCHANGED vars
    <3>1. Frame  BY <2>3 DEF vars, socialVars, redisVars, fanoutVars, lapseVars, Frame
    <3> QED  BY <3>1, FramePreserves
  <2> QED  BY <2>1, <2>2, <2>3 DEF Next
<1> QED  BY <1>1, <1>2, TypeCorrect, PTL DEF Spec

\* Whatever fails, a video whose fanout event is gone from the queue stays among its
\* author's user_videos until UserVideosCap later ones displace it or the list runs out:
\* no failure, crash, redelivery or lapse of another author's list ever takes it.
THEOREM PullableCorrect == Spec => []FannedOutVideosPullable
<1>1. PullInv => FannedOutVideosPullable
  BY DEF PullInv, FannedOutVideosPullable
<1> QED  BY <1>1, PullInvCorrect, PTL

-----------------------------------------------------------------------------
(* The rows of table socials and following:bigv, when users wait for their *)
(* answers and neither the broker nor MySQL loses anything.  Crashes of    *)
(* the workers and of the API are allowed.                                 *)

Reliable == Sequential /\ ~MQFails /\ ~DBFails

-----------------------------------------------------------------------------
(* The inductive invariant.                                                *)

\* Event i is the last one of its pair in the social queue.
IsLast(i) == \A j \in 1..Len(socialQ) : socialQ[j].pair = socialQ[i].pair => j <= i

\* All events of p in the queue have reached the table: at most the one in
\* SocialWorker's hands is left.
Applied(p) ==
    \A i \in 1..Len(socialQ) : socialQ[i].pair = p => i = 1 /\ social.at # "Repo"

\* A user has one request under way, and a handler about to write its row has
\* published its event and is the last to have done so for its pair.
HandlersOrdered ==
    /\ \A h, k \in Handlers :
          h # k /\ handler[h] # Idle /\ handler[k] # Idle
          => handler[h].pair[1] # handler[k].pair[1]
    /\ \A h \in Handlers : handler[h].at = "Write" => expected[handler[h].pair] = handler[h].action

\* SocialWorker is past its first step only with an event in its hands, never
\* gives one back, and does what the event asks for.
WorkerOrdered ==
    /\ socialQ = <<>> => social.at = "Repo"
    /\ social.at # "Nack" /\ ~social.failed
    /\ social.at = "SRem" => Event.action = "unfollow"
    /\ social.at \in {"GetCount", "CountFollowers", "SetCount", "SAdd"} => Event.action = "follow"

\* The last event of a pair is the last request.
QueueOrdered ==
    \A i \in 1..Len(socialQ) :
       IsLast(i) => socialQ[i].action = expected[socialQ[i].pair]

\* Once its events are applied, a pair's row is as the last request left it.
RowsApplied ==
    \A p \in Pairs : Applied(p) => (p \in follows <=> expected[p] = "follow")

RowInv == HandlersOrdered /\ WorkerOrdered /\ QueueOrdered /\ RowsApplied

\* The event that takes p[2] out of following:bigv:{p[1]} is on its way.
Removing(p) ==
    \E i \in 1..Len(socialQ) :
       /\ socialQ[i] = [action |-> "unfollow", pair |-> p]
       /\ i = 1 => social.at \in {"Repo", "SRem"}

\* A vlogger that was unfollowed stays in following:bigv only while that event is
\* in the queue.
BigVInv ==
    \A p \in Pairs : p[2] \in bigv[p[1]] /\ expected[p] = "unfollow" => Removing(p)

-----------------------------------------------------------------------------
(* Sequences and frames.                                                   *)

\* What Append makes of a queue.
LEMMA AppendFacts ==
    ASSUME NEW S, NEW q \in Seq(S), NEW e \in S
    PROVE  /\ Len(Append(q, e)) = Len(q) + 1
           /\ \A i \in 1..Len(q) : Append(q, e)[i] = q[i]
           /\ Append(q, e)[Len(q) + 1] = e
           /\ Len(q) \in Nat
           /\ q = <<>> <=> Len(q) = 0
  OBVIOUS

\* What an acknowledgement leaves of a queue.
LEMMA TailFacts ==
    ASSUME NEW S, NEW q \in Seq(S), q # <<>>
    PROVE  /\ Len(Tail(q)) = Len(q) - 1
           /\ \A i \in 1..(Len(q) - 1) : Tail(q)[i] = q[i + 1]
           /\ Head(q) = q[1]
           /\ Len(q) \in Nat \ {0}
  OBVIOUS

\* A pair with an event in the queue has a last one.
LEMMA LastExists ==
    ASSUME NEW S, NEW q \in Seq(S), NEW i \in 1..Len(q)
    PROVE  \E j \in 1..Len(q) :
              /\ q[j].pair = q[i].pair
              /\ \A k \in 1..Len(q) : q[k].pair = q[j].pair => k <= j
<1> DEFINE behind == {n \in Nat : Len(q) - n \in 1..Len(q) /\ q[Len(q) - n].pair = q[i].pair}
           less == {ss \in Nat \X Nat : ss[1] < ss[2]}
<1>1. Len(q) \in Nat  OBVIOUS
<1>2. Len(q) - i \in behind
  <2>1. Len(q) - i \in Nat /\ Len(q) - (Len(q) - i) = i  BY <1>1
  <2> QED  BY <2>1
<1>3. PICK x \in behind : \A y \in behind : <<y, x>> \notin less
  <2>1. IsWellFoundedOn(less, Nat)  BY NatLessThanWellFounded DEF OpToRel
  <2>2. behind \subseteq Nat /\ behind # {}  BY <1>2
  <2> HIDE DEF behind, less
  <2> QED  BY <2>1, <2>2, WFMin
<1>4. \A y \in behind : x <= y
  <2> SUFFICES ASSUME NEW y \in behind PROVE x <= y
    OBVIOUS
  <2>1. x \in Nat /\ y \in Nat  OBVIOUS
  <2>2. y < x => <<y, x>> \in less  BY <2>1
  <2>3. ~(y < x)  BY <1>3, <2>2
  <2> QED  BY <2>1, <2>3
<1>5. ASSUME NEW k \in 1..Len(q), q[k].pair = q[i].pair PROVE k <= Len(q) - x
  <2>1. Len(q) - k \in Nat /\ Len(q) - (Len(q) - k) = k  BY <1>1
  <2>2. Len(q) - k \in behind  BY <1>5, <2>1
  <2>3. x <= Len(q) - k  BY <1>4, <2>2
  <2> QED  BY <1>1, <2>3
<1> QED  BY <1>5

\* As long as rows, queue and worker stay as they are, so does what is known
\* about them.
LEMMA RowFrame ==
    ASSUME WorkerOrdered, QueueOrdered, RowsApplied,
           UNCHANGED <<follows, expected, socialQ, social>>
    PROVE  WorkerOrdered' /\ QueueOrdered' /\ RowsApplied'
  BY DEF WorkerOrdered, QueueOrdered, RowsApplied, IsLast, Applied, Event

\* A step within a delivery, past the table.
LEMMA DeliveryFrame ==
    ASSUME QueueOrdered, RowsApplied, HandlersOrdered,
           UNCHANGED <<follows, expected, socialQ, handler>>,
           social.at # "Repo", social'.at # "Repo"
    PROVE  QueueOrdered' /\ RowsApplied' /\ HandlersOrdered'
  BY DEF HandlersOrdered, QueueOrdered, RowsApplied, IsLast, Applied, Event

-----------------------------------------------------------------------------
(* The handlers.                                                           *)

\* A handler preserves the order of requests.
LEMMA HandlerRows ==
    ASSUME Reliable, SocialTypeOK, RowInv, NEW h \in Handlers, HandlerNext(h)
    PROVE  RowInv'
<1> USE DEF RowInv
<1>0. handler \in [Handlers -> Serving \cup {Idle}] /\ expected \in [Pairs -> Requests]
      /\ socialQ \in Seq(Events)
  BY DEF SocialTypeOK
<1>1. ASSUME NEW action \in Requests, NEW p \in Pairs, Receive(h, action, p) PROVE RowInv'
  <2>1. /\ UNCHANGED <<follows, expected, socialQ, social>>
        /\ handler' = [handler EXCEPT ![h] = [at |-> "IsFollowed", action |-> action, pair |-> p]]
        /\ \A k \in Handlers : handler[k] # Idle => handler[k].pair[1] # p[1]
    BY <1>1 DEF Receive, rowVars, Reliable
  <2>2. HandlersOrdered'  BY <1>0, <2>1 DEF HandlersOrdered
  <2> QED  BY <2>1, <2>2, RowFrame
<1>2. CASE CheckFollowed(h)
  <2>1. UNCHANGED <<follows, expected, socialQ, social>>  BY <1>2 DEF CheckFollowed, rowVars
  <2>2. handler[h] \in Serving  BY <1>0, <1>2 DEF CheckFollowed, Idle
  <2>3. HandlersOrdered'
    <3>1. CASE Goto(h, "Publish")  BY <1>0, <2>1, <2>2, <3>1 DEF Goto, HandlersOrdered, Serving, Idle
    <3>2. CASE Respond(h)  BY <1>0, <2>1, <3>2 DEF Respond, HandlersOrdered, Idle
    <3> QED  BY <1>2, <3>1, <3>2 DEF CheckFollowed
  <2> QED  BY <2>1, <2>3, RowFrame
<1>3. CASE Publish(h)
  <2> DEFINE r == handler[h]
             e == [action |-> r.action, pair |-> r.pair]
  <2>1. r \in Serving /\ r # Idle  BY <1>0, <1>3 DEF Publish, Idle
  <2>2. e \in Events /\ r.pair \in Pairs /\ r.action \in Requests  BY <2>1 DEF Serving, Events
  <2>3. /\ socialQ' = Append(socialQ, e)
        /\ expected' = [expected EXCEPT ![r.pair] = r.action]
        /\ handler' = [handler EXCEPT ![h].at = "Write"]
        /\ UNCHANGED <<follows, social>>
    BY <1>3 DEF Publish, Goto
  <2>4. /\ Len(socialQ') = Len(socialQ) + 1
        /\ \A i \in 1..Len(socialQ) : socialQ'[i] = socialQ[i]
        /\ socialQ'[Len(socialQ) + 1] = e
        /\ Len(socialQ) \in Nat
        /\ socialQ = <<>> <=> Len(socialQ) = 0
    BY <1>0, <2>2, <2>3, AppendFacts
  <2>5. HandlersOrdered'
    <3>1. \A k \in Handlers : k # h /\ handler[k] # Idle => handler[k].pair # r.pair
      BY <2>1 DEF HandlersOrdered
    <3>2. \A k \in Handlers :
             /\ handler'[k] # Idle <=> handler[k] # Idle
             /\ handler'[k].pair = handler[k].pair
             /\ handler'[k].action = handler[k].action
             /\ k # h => handler'[k] = handler[k]
      BY <1>0, <2>1, <2>3 DEF Serving, Idle
    <3>3. ASSUME NEW k \in Handlers, handler'[k].at = "Write"
          PROVE  expected'[handler'[k].pair] = handler'[k].action
      <4>1. CASE k = h  BY <1>0, <2>2, <2>3, <3>2, <4>1
      <4>2. CASE k # h
        <5>0. handler'[k] = handler[k]  BY <3>2, <4>2
        <5>1. handler[k].at = "Write" /\ handler[k] # Idle  BY <5>0, <3>3 DEF Idle
        <5>2. handler[k].pair \in Pairs  BY <1>0, <5>1 DEF Serving
        <5> QED  BY <1>0, <2>2, <2>3, <3>1, <3>2, <4>2, <5>1, <5>2 DEF HandlersOrdered
      <4> QED  BY <4>1, <4>2
    <3>4. ASSUME NEW j \in Handlers, NEW k \in Handlers, j # k, handler'[j] # Idle, handler'[k] # Idle
          PROVE  handler'[j].pair[1] # handler'[k].pair[1]
      <4>1. handler[j] # Idle /\ handler[k] # Idle  BY <3>2, <3>4
      <4>2. handler[j].pair[1] # handler[k].pair[1]  BY <3>4, <4>1 DEF HandlersOrdered
      <4>3. handler'[j].pair = handler[j].pair /\ handler'[k].pair = handler[k].pair  BY <3>2
      <4> QED  BY <4>2, <4>3
    <3> QED  BY <3>3, <3>4 DEF HandlersOrdered
  <2>6. WorkerOrdered'
    <3>1. CASE socialQ = <<>>  BY <2>3, <2>4, <3>1 DEF WorkerOrdered
    <3>2. CASE socialQ # <<>>
      <4>1. Event' = Event  BY <1>0, <2>2, <2>3, <3>2 DEF Event
      <4> QED  BY <2>3, <2>4, <3>2, <4>1 DEF WorkerOrdered
    <3> QED  BY <3>1, <3>2
  <2>7. QueueOrdered'
    <3> SUFFICES ASSUME NEW i \in 1..Len(socialQ'), IsLast(i)'
                 PROVE  socialQ'[i].action = expected'[socialQ'[i].pair]
      BY DEF QueueOrdered
    <3>1. CASE i = Len(socialQ) + 1  BY <1>0, <2>2, <2>3, <2>4, <3>1
    <3>2. CASE i \in 1..Len(socialQ)
      <4>1. socialQ[i].pair # r.pair  BY <2>2, <2>4, <3>2 DEF IsLast
      <4>2. IsLast(i)  BY <2>4, <3>2 DEF IsLast
      <4>3. socialQ[i] \in Events  BY <1>0, <3>2
      <4>4. socialQ[i].pair \in Pairs  BY <4>3 DEF Events
      <4> QED  BY <1>0, <2>2, <2>3, <2>4, <3>2, <4>1, <4>2, <4>4 DEF QueueOrdered
    <3> QED  BY <2>4, <3>1, <3>2
  <2>8. RowsApplied'
    <3> SUFFICES ASSUME NEW p \in Pairs, Applied(p)'
                 PROVE  p \in follows <=> expected'[p] = "follow"
      BY <2>3 DEF RowsApplied
    <3>1. p # r.pair
      <4>1. CASE socialQ = <<>>  BY <2>3, <2>4, <4>1 DEF Applied, WorkerOrdered
      <4>2. CASE socialQ # <<>>  BY <2>4, <4>2 DEF Applied
      <4> QED  BY <4>1, <4>2
    <3>2. Applied(p)  BY <2>3, <2>4 DEF Applied
    <3> QED  BY <1>0, <2>2, <2>3, <3>1, <3>2 DEF RowsApplied
  <2> QED  BY <2>5, <2>6, <2>7, <2>8
<1>4. CASE PublishFails(h)
  BY <1>4 DEF PublishFails, Reliable
<1>5. CASE Write(h)
  <2> DEFINE r == handler[h]
  <2>1. r \in Serving  BY <1>0, <1>5 DEF Write, Idle
  <2>2. r.pair \in Pairs /\ r.action \in {"follow", "unfollow"}  BY <2>1 DEF Serving, Requests
  <2>3. expected[r.pair] = r.action  BY <1>5 DEF Write, HandlersOrdered
  <2>4. expected' = expected  BY <1>0, <1>5, <2>2, <2>3 DEF Write
  <2>5. UNCHANGED <<socialQ, social>> /\ follows' = Written(r.action, r.pair)
    BY <1>5 DEF Write
  <2>6. HandlersOrdered'  BY <1>0, <1>5, <2>4 DEF Write, Respond, HandlersOrdered, Idle
  <2>7. WorkerOrdered' /\ QueueOrdered'
    BY <2>4, <2>5 DEF WorkerOrdered, QueueOrdered, IsLast, Event
  <2>8. RowsApplied'
    <3> SUFFICES ASSUME NEW p \in Pairs, Applied(p)
                 PROVE  p \in follows' <=> expected[p] = "follow"
      BY <2>4, <2>5 DEF RowsApplied, Applied
    <3>1. CASE p = r.pair  BY <2>2, <2>3, <2>5, <3>1 DEF Written
    <3>2. CASE p # r.pair  BY <2>2, <2>5, <3>2 DEF Written, RowsApplied
    <3> QED  BY <3>1, <3>2
  <2> QED  BY <2>6, <2>7, <2>8
<1>6. CASE RequestFails(h)
  <2>1. UNCHANGED <<follows, expected, socialQ, social>>  BY <1>6 DEF RequestFails, rowVars
  <2>2. HandlersOrdered'  BY <1>0, <1>6, <2>1 DEF RequestFails, Respond, HandlersOrdered, Idle
  <2> QED  BY <2>1, <2>2, RowFrame
<1> QED  BY <1>1, <1>2, <1>3, <1>4, <1>5, <1>6 DEF HandlerNext

-----------------------------------------------------------------------------
(* SocialWorker.                                                           *)

\* SocialWorker preserves the order of requests.
LEMMA SocialWorkerRows ==
    ASSUME Reliable, SocialTypeOK, RowInv, SocialWorkerNext
    PROVE  RowInv'
<1> USE DEF RowInv
<1>0. /\ socialQ \in Seq(Events)
      /\ social \in [at : SocialSteps, count : Nat, videos : SUBSET Videos, failed : BOOLEAN]
  BY DEF SocialTypeOK
<1>1. CASE SocialRepo
  <2>1. /\ socialQ # <<>> /\ social.at = "Repo"
        /\ follows' = Written(Event.action, Event.pair)
        /\ social' = [social EXCEPT !.at = IF Event.action = "follow" THEN "GetCount" ELSE "SRem"]
        /\ UNCHANGED <<expected, handler, socialQ>>
    BY <1>1 DEF SocialRepo, SocialAt
  <2>2. /\ Event = socialQ[1] /\ Event.pair \in Pairs /\ Len(socialQ) \in Nat \ {0}
        /\ Event.action \in {"follow", "unfollow"}
    <3>1. Event = socialQ[1] /\ Len(socialQ) \in Nat \ {0}  BY <1>0, <2>1, TailFacts DEF Event
    <3>2. Event \in Events  BY <2>1, HeadTyped
    <3> QED  BY <3>1, <3>2 DEF Events, Requests
  <2>3. HandlersOrdered' /\ QueueOrdered'
    BY <2>1 DEF HandlersOrdered, QueueOrdered, IsLast
  <2>4. WorkerOrdered'
    BY <1>0, <2>1, <2>2 DEF WorkerOrdered, Event
  <2>5. RowsApplied'
    <3> SUFFICES ASSUME NEW p \in Pairs, Applied(p)'
                 PROVE  p \in follows' <=> expected[p] = "follow"
      BY <2>1 DEF RowsApplied
    <3>1. CASE p = Event.pair
      <4>1. IsLast(1)  BY <2>1, <2>2, <3>1 DEF Applied, IsLast
      <4>2. Event.action = expected[p]  BY <2>2, <3>1, <4>1 DEF QueueOrdered
      <4> QED  BY <2>1, <2>2, <3>1, <4>2 DEF Written
    <3>2. CASE p # Event.pair
      <4>1. Applied(p)  BY <2>1, <2>2, <3>2 DEF Applied
      <4> QED  BY <2>1, <2>2, <3>2, <4>1 DEF RowsApplied, Written
    <3> QED  BY <3>1, <3>2
  <2> QED  BY <2>3, <2>4, <2>5
<1>2. CASE SocialRepoFails
  BY <1>2 DEF SocialRepoFails, Reliable
<1>3. CASE \/ SocialGetCount
           \/ SocialCountFollowers
           \/ SocialSetCount
           \/ SocialSAdd
           \/ SocialBackfillRead
           \/ SocialBackfillWrite
           \/ SocialSRem
  <2> USE DEF SocialGetCount, SocialCountFollowers, SocialSetCount, SocialSAdd,
              SocialBackfillRead, SocialBackfillWrite, SocialSRem, SocialAt
  <2>1. UNCHANGED <<follows, expected, socialQ, handler>> /\ socialQ # <<>>
    BY <1>3 DEF rowVars
  <2>2. social.at \in {"GetCount", "CountFollowers", "SetCount", "SAdd", "BackfillRead",
                       "BackfillWrite", "SRem"}
    BY <1>3
  <2>3. /\ social'.at \notin {"Repo", "Nack", "SRem", "GetCount"}
        /\ social'.failed = social.failed
        /\ social'.at \in {"CountFollowers", "SetCount", "SAdd"} =>
              social.at \in {"GetCount", "CountFollowers", "SetCount"}
    BY <1>0, <1>3 DEF Strategy, WorkerOrdered
  <2>4. WorkerOrdered'  BY <2>1, <2>2, <2>3 DEF WorkerOrdered, Event
  <2> QED  BY <2>1, <2>2, <2>3, <2>4, DeliveryFrame
<1>4. CASE SocialAck
  <2>1. /\ socialQ # <<>> /\ social.at = "Ack"
        /\ socialQ' = Tail(socialQ) /\ social' = Waiting
        /\ UNCHANGED <<follows, expected, handler>>
    BY <1>4 DEF SocialAck, SocialAt, rowVars
  <2>2. /\ Len(socialQ') = Len(socialQ) - 1
        /\ \A i \in 1..(Len(socialQ) - 1) : socialQ'[i] = socialQ[i + 1]
        /\ Len(socialQ) \in Nat \ {0}
    BY <1>0, <2>1, TailFacts
  <2>3. HandlersOrdered' /\ WorkerOrdered'
    BY <2>1 DEF HandlersOrdered, WorkerOrdered, Waiting
  <2>4. QueueOrdered'
    <3> SUFFICES ASSUME NEW i \in 1..Len(socialQ'), IsLast(i)'
                 PROVE  socialQ'[i].action = expected[socialQ'[i].pair]
      BY <2>1 DEF QueueOrdered
    <3>1. IsLast(i + 1)
      <4> SUFFICES ASSUME NEW j \in 1..Len(socialQ), socialQ[j].pair = socialQ[i + 1].pair
                   PROVE  j <= i + 1
        BY DEF IsLast
      <4>1. CASE j = 1  BY <2>2, <4>1
      <4>2. CASE j # 1
        <5>1. j - 1 \in 1..Len(socialQ') /\ socialQ'[j - 1] = socialQ[j]  BY <2>2, <4>2
        <5>2. j - 1 <= i  BY <2>2, <5>1 DEF IsLast
        <5> QED  BY <2>2, <5>2
      <4> QED  BY <4>1, <4>2
    <3> QED  BY <2>2, <3>1 DEF QueueOrdered
  <2>5. RowsApplied'
    <3> SUFFICES ASSUME NEW p \in Pairs, Applied(p)'
                 PROVE  p \in follows <=> expected[p] = "follow"
      BY <2>1 DEF RowsApplied
    <3>1. Applied(p)
      <4> SUFFICES ASSUME NEW j \in 1..Len(socialQ), socialQ[j].pair = p, j # 1 PROVE FALSE
        BY <2>1 DEF Applied
      <4>1. j - 1 \in 1..Len(socialQ') /\ socialQ'[j - 1] = socialQ[j]  BY <2>2
      <4> QED  BY <2>1, <4>1 DEF Applied, Waiting
    <3> QED  BY <3>1 DEF RowsApplied
  <2> QED  BY <2>3, <2>4, <2>5
<1>5. CASE SocialNack
  BY <1>5 DEF SocialNack, SocialAt, WorkerOrdered
<1>6. CASE SocialCrash
  <2>1. social' = Waiting /\ UNCHANGED <<follows, expected, handler, socialQ>>
    BY <1>6 DEF SocialCrash, rowVars
  <2>2. \A p \in Pairs : Applied(p)' => Applied(p)  BY <2>1 DEF Applied, Waiting
  <2> QED  BY <2>1, <2>2 DEF HandlersOrdered, WorkerOrdered, QueueOrdered, IsLast,
                             RowsApplied, Waiting
<1> QED  BY <1>1, <1>2, <1>3, <1>4, <1>5, <1>6 DEF SocialWorkerNext

\* The fanout touches none of it.
LEMMA FanoutKeepsRows ==
    ASSUME FanoutNext
    PROVE  UNCHANGED <<follows, expected, handler, socialQ, social, bigv, unlisted>>
  BY DEF FanoutNext, PublishVideo, FanoutReceive, FallAsleep, Login, ExpireUserVideos, FanoutZAdd,
         FanoutGetCount, FanoutCountFollowers, FanoutSetCount, FanoutGetFollowers,
         FanoutFilterActive, FanoutBatch, FanoutAck, FanoutCrash, socialVars, rowVars, redisVars

\* Nor does the end of a following:bigv.
LEMMA ExpireBigVKeepsRows ==
    ASSUME NEW u \in Followers, ExpireBigV(u)
    PROVE  UNCHANGED <<follows, expected, handler, socialQ, social, countCache, inbox>>
  BY DEF ExpireBigV, rowVars

\* RowInv is an invariant of a reliable system.
LEMMA RowInvCorrect ==
    ASSUME Reliable
    PROVE  Spec => []RowInv
<1>1. Init => RowInv
  BY DEF Init, SocialInit, RowInv, HandlersOrdered, WorkerOrdered, QueueOrdered, RowsApplied,
         Idle, Waiting
<1>2. TypeOK /\ RowInv /\ [Next]_vars => RowInv'
  <2> SUFFICES ASSUME TypeOK, RowInv, [Next]_vars PROVE RowInv'
    OBVIOUS
  <2>1. CASE (\E h \in Handlers : HandlerNext(h)) \/ SocialWorkerNext
    BY <2>1, HandlerRows, SocialWorkerRows DEF TypeOK
  <2>2. CASE UNCHANGED <<follows, expected, handler, socialQ, social>>
    <3>1. HandlersOrdered'  BY <2>2 DEF RowInv, HandlersOrdered
    <3> QED  BY <2>2, <3>1, RowFrame DEF RowInv
  <2>3. SocialStep => \/ \E h \in Handlers : HandlerNext(h)
                      \/ SocialWorkerNext
                      \/ UNCHANGED <<follows, expected, handler, socialQ, social>>
    BY ExpireBigVKeepsRows DEF SocialStep, SocialNext
  <2> QED  BY <2>1, <2>2, <2>3, FanoutKeepsRows DEF Next, vars, socialVars, rowVars
<1> QED  BY <1>1, <1>2, TypeCorrect, PTL DEF Spec

\* If users wait for their answers and neither the broker nor MySQL fails, the
\* last request of every pair decides its row, for any number of users, handlers
\* and requests and however often the workers and the API crash.
THEOREM RowsCorrect ==
    ASSUME Reliable
    PROVE  Spec => []RowsFollowLastRequest
<1>1. RowInv => RowsFollowLastRequest
  BY DEF RowInv, RowsApplied, Applied, RowsFollowLastRequest, SocialQuiet
<1> QED  BY <1>1, RowInvCorrect, PTL

-----------------------------------------------------------------------------
(* following:bigv.                                                         *)

\* A handler preserves BigVInv: it publishes before it forgets.
LEMMA HandlerBigV ==
    ASSUME Reliable, SocialTypeOK, RowInv, BigVInv, NEW h \in Handlers, HandlerNext(h)
    PROVE  BigVInv'
<1> USE DEF RowInv
<1>0. handler \in [Handlers -> Serving \cup {Idle}] /\ expected \in [Pairs -> Requests]
      /\ socialQ \in Seq(Events)
  BY DEF SocialTypeOK
<1>1. CASE Publish(h)
  <2> DEFINE r == handler[h]
             e == [action |-> r.action, pair |-> r.pair]
  <2>1. r \in Serving  BY <1>0, <1>1 DEF Publish, Idle
  <2>2. e \in Events /\ r.pair \in Pairs  BY <2>1 DEF Serving, Events
  <2>3. /\ socialQ' = Append(socialQ, e)
        /\ expected' = [expected EXCEPT ![r.pair] = r.action]
        /\ UNCHANGED <<bigv, social>>
    BY <1>1 DEF Publish, redisVars
  <2>4. /\ Len(socialQ') = Len(socialQ) + 1
        /\ \A i \in 1..Len(socialQ) : socialQ'[i] = socialQ[i]
        /\ socialQ'[Len(socialQ) + 1] = e
        /\ Len(socialQ) \in Nat
        /\ socialQ = <<>> <=> Len(socialQ) = 0
    BY <1>0, <2>2, <2>3, AppendFacts
  <2> SUFFICES ASSUME NEW p \in Pairs, p[2] \in bigv[p[1]], expected'[p] = "unfollow"
               PROVE  Removing(p)'
    BY <2>3 DEF BigVInv, Removing
  <2>5. CASE p = r.pair
    <3>1. r.action = "unfollow"  BY <1>0, <2>2, <2>3, <2>5
    <3>2. Len(socialQ) + 1 = 1 => social'.at = "Repo"  BY <2>3, <2>4 DEF WorkerOrdered
    <3> QED  BY <2>4, <2>5, <3>1, <3>2 DEF Removing
  <2>6. CASE p # r.pair
    <3>1. Removing(p)  BY <1>0, <2>2, <2>3, <2>6 DEF BigVInv, Removing
    <3> QED  BY <2>3, <2>4, <3>1 DEF Removing
  <2> QED  BY <2>5, <2>6
<1>2. CASE Write(h)
  <2>1. handler[h] \in Serving  BY <1>0, <1>2 DEF Write, Idle
  <2>2. handler[h].pair \in Pairs  BY <2>1 DEF Serving
  <2>3. expected[handler[h].pair] = handler[h].action  BY <1>2 DEF Write, HandlersOrdered
  <2>4. expected' = expected  BY <1>0, <1>2, <2>2, <2>3 DEF Write
  <2>5. UNCHANGED <<socialQ, social, bigv>>  BY <1>2 DEF Write, redisVars
  <2> QED  BY <2>4, <2>5 DEF BigVInv, Removing
<1>3. CASE UNCHANGED <<expected, socialQ, social, bigv>>
  BY <1>3 DEF BigVInv, Removing
<1>4. \/ Publish(h) \/ Write(h) \/ UNCHANGED <<expected, socialQ, social, bigv>>
  BY DEF HandlerNext, Receive, CheckFollowed, PublishFails, RequestFails, Reliable, rowVars, redisVars
<1> QED  BY <1>1, <1>2, <1>3, <1>4

\* SocialWorker preserves BigVInv if Redis does not fail.
LEMMA SocialWorkerBigV ==
    ASSUME Reliable, ~RedisFails, SocialTypeOK, RowInv, BigVInv, SocialWorkerNext
    PROVE  BigVInv'
<1> USE DEF RowInv, redisVars
<1>0. /\ socialQ \in Seq(Events)
      /\ social \in [at : SocialSteps, count : Nat, videos : SUBSET Videos, failed : BOOLEAN]
      /\ bigv \in [Followers -> SUBSET Vloggers]
  BY DEF SocialTypeOK
<1>1. UNCHANGED expected
  BY DEF SocialWorkerNext, SocialRepo, SocialRepoFails, SocialGetCount,
         SocialCountFollowers, SocialSetCount, SocialSAdd, SocialBackfillRead,
         SocialBackfillWrite, SocialSRem, SocialAck, SocialNack, SocialCrash, rowVars
<1> SUFFICES ASSUME NEW p \in Pairs, p[2] \in bigv'[p[1]], expected[p] = "unfollow"
             PROVE  Removing(p)'
  BY <1>1 DEF BigVInv, Removing
<1>p. p[1] \in Followers /\ p[2] \in Vloggers /\ p = <<p[1], p[2]>>  BY DEF Pairs
<1>2. CASE SocialRepo \/ SocialCrash
  <2>1. Removing(p)  BY <1>2 DEF SocialRepo, SocialCrash, BigVInv, Removing
  <2>2. PICK i \in 1..Len(socialQ) :
           /\ socialQ[i] = [action |-> "unfollow", pair |-> p]
           /\ i = 1 => social.at \in {"Repo", "SRem"}
    BY <2>1 DEF Removing
  <2>3. socialQ' = socialQ  BY <1>2 DEF SocialRepo, SocialCrash
  <2>4. i = 1 => social'.at \in {"Repo", "SRem"}
    <3>1. CASE SocialCrash  BY <3>1 DEF SocialCrash, Waiting
    <3>2. CASE SocialRepo
      <4>1. i = 1 => Event.action = "unfollow"
        BY <1>0, <2>2, <3>2, TailFacts DEF Event, SocialRepo, SocialAt
      <4> QED  BY <1>0, <3>2, <4>1 DEF SocialRepo
    <3> QED  BY <1>2, <3>1, <3>2
  <2> QED  BY <2>2, <2>3, <2>4 DEF Removing
<1>3. CASE \/ SocialGetCount
           \/ SocialCountFollowers
           \/ SocialSetCount
           \/ SocialBackfillRead
           \/ SocialBackfillWrite
  <2> USE DEF SocialGetCount, SocialCountFollowers, SocialSetCount,
              SocialBackfillRead, SocialBackfillWrite, SocialAt
  <2>1. UNCHANGED <<bigv, socialQ>> /\ social.at \notin {"Repo", "SRem"}  BY <1>3
  <2> QED  BY <2>1 DEF BigVInv, Removing
<1>4. CASE SocialSAdd
  <2>1. /\ socialQ # <<>> /\ social.at = "SAdd" /\ socialQ' = socialQ
        /\ bigv' = [bigv EXCEPT ![Follower] = @ \cup {Vlogger}]
    BY <1>4 DEF SocialSAdd, SocialAt
  <2>2. Event = socialQ[1] /\ Len(socialQ) \in Nat \ {0} /\ Event.action = "follow"
    BY <1>0, <2>1, TailFacts DEF Event, WorkerOrdered
  <2>3. CASE p = Event.pair
    <3>1. PICK i \in 1..Len(socialQ) : socialQ[i].pair = p /\ IsLast(i)
      <4>1. 1 \in 1..Len(socialQ) /\ socialQ[1].pair = p  BY <2>2, <2>3
      <4> QED  BY <1>0, <4>1, LastExists DEF IsLast
    <3>2. socialQ[i].action = "unfollow"  BY <3>1 DEF QueueOrdered
    <3>3. socialQ[i] = [action |-> "unfollow", pair |-> p]
      <4>1. socialQ[i] \in Events  BY <1>0
      <4> QED  BY <3>1, <3>2, <4>1 DEF Events
    <3>4. i # 1  BY <2>2, <3>2
    <3> QED  BY <2>1, <3>3, <3>4 DEF Removing
  <2>4. CASE p # Event.pair
    <3>1. Event.pair = <<Follower, Vlogger>>
      BY <2>1, HeadTyped DEF Pairs, Follower, Vlogger
    <3>2. p[2] \in bigv[p[1]]  BY <1>0, <1>p, <2>1, <2>4, <3>1
    <3> QED  BY <2>1, <3>2 DEF BigVInv, Removing
  <2> QED  BY <2>3, <2>4
<1>5. CASE SocialSRem
  <2>1. /\ socialQ # <<>> /\ social.at = "SRem" /\ socialQ' = socialQ
        /\ bigv' = [bigv EXCEPT ![Follower] = @ \ {Vlogger}]
    BY <1>5 DEF SocialSRem, SocialAt
  <2>2. Event = socialQ[1] /\ Follower \in Followers
    BY <1>0, <2>1, TailFacts, HeadTyped DEF Event
  <2>3. Event.pair # p  BY <1>0, <2>1, <2>2 DEF Follower, Vlogger
  <2>4. p[2] \in bigv[p[1]]  BY <1>0, <1>p, <2>1, <2>2
  <2>5. PICK i \in 1..Len(socialQ) : socialQ[i] = [action |-> "unfollow", pair |-> p]
    BY <2>4 DEF BigVInv, Removing
  <2>6. i # 1  BY <2>2, <2>3, <2>5
  <2> QED  BY <2>1, <2>5, <2>6 DEF Removing
<1>6. CASE SocialAck
  <2>1. /\ socialQ # <<>> /\ social.at = "Ack" /\ social' = Waiting
        /\ socialQ' = Tail(socialQ) /\ bigv' = bigv
    BY <1>6 DEF SocialAck, SocialAt
  <2>2. /\ Len(socialQ') = Len(socialQ) - 1
        /\ \A i \in 1..(Len(socialQ) - 1) : socialQ'[i] = socialQ[i + 1]
        /\ Len(socialQ) \in Nat \ {0}
    BY <1>0, <2>1, TailFacts
  <2>3. PICK i \in 1..Len(socialQ) :
           /\ socialQ[i] = [action |-> "unfollow", pair |-> p]
           /\ i = 1 => social.at \in {"Repo", "SRem"}
    BY <2>1 DEF BigVInv, Removing
  <2>4. i # 1  BY <2>1, <2>3
  <2>5. i - 1 \in 1..Len(socialQ') /\ socialQ'[i - 1] = socialQ[i]  BY <2>2, <2>4
  <2>6. social'.at = "Repo"  BY <2>1 DEF Waiting
  <2> QED  BY <2>3, <2>5, <2>6 DEF Removing
<1>7. CASE SocialRepoFails \/ SocialNack
  BY <1>7 DEF SocialRepoFails, SocialNack, SocialAt, WorkerOrdered, Reliable
<1> QED  BY <1>2, <1>3, <1>4, <1>5, <1>6, <1>7 DEF SocialWorkerNext

\* The end of a following:bigv takes vloggers out of it.
LEMMA ExpireBigVShrinks ==
    ASSUME SocialTypeOK, NEW u \in Followers, ExpireBigV(u)
    PROVE  \A w \in Followers : bigv'[w] \subseteq bigv[w]
  BY DEF SocialTypeOK, ExpireBigV

\* If, besides, Redis does not fail, an unfollowed big V is gone from
\* following:bigv when everything has settled.
THEOREM BigVCorrect ==
    ASSUME Reliable, ~RedisFails
    PROVE  Spec => []BigVFollowed
<1>1. Init => BigVInv
  BY DEF Init, SocialInit, BigVInv, Pairs
<1>2. TypeOK /\ RowInv /\ BigVInv /\ [Next]_vars => BigVInv'
  <2> SUFFICES ASSUME TypeOK, RowInv, BigVInv, [Next]_vars PROVE BigVInv'
    OBVIOUS
  <2>1. CASE SocialStep
    <3>1. ASSUME NEW u \in Followers, ExpireBigV(u) PROVE BigVInv'
      BY <3>1, ExpireBigVKeepsRows, ExpireBigVShrinks DEF BigVInv, Removing, Pairs, TypeOK
    <3> QED  BY <2>1, <3>1, HandlerBigV, SocialWorkerBigV DEF SocialStep, SocialNext, TypeOK
  <2>2. CASE UNCHANGED <<expected, socialQ, social, bigv>>
    BY <2>2 DEF BigVInv, Removing
  <2> QED  BY <2>1, <2>2, FanoutKeepsRows DEF Next, vars, socialVars, rowVars, redisVars
<1>3. TypeOK /\ RowInv /\ BigVInv => BigVFollowed
  <2> SUFFICES ASSUME TypeOK, RowInv, BigVInv, SocialQuiet,
                      NEW u \in Followers, NEW b \in bigv[u]
               PROVE  <<u, b>> \in follows
    BY DEF BigVFollowed
  <2>1. <<u, b>> \in Pairs  BY DEF TypeOK, SocialTypeOK, Pairs
  <2>2. Len(socialQ) = 0  BY DEF SocialQuiet
  <2>3. expected[<<u, b>>] # "unfollow"  BY <2>1, <2>2 DEF BigVInv, Removing
  <2>4. expected[<<u, b>>] = "follow"  BY <2>1, <2>3 DEF TypeOK, SocialTypeOK, Requests
  <2>5. Applied(<<u, b>>)  BY <2>2 DEF Applied
  <2> QED  BY <2>1, <2>4, <2>5 DEF RowInv, RowsApplied
<1> QED  BY <1>1, <1>2, <1>3, TypeCorrect, RowInvCorrect, PTL DEF Spec

-----------------------------------------------------------------------------
(* The feed, when besides Redis does not fail and no vlogger becomes a big *)
(* V.                                                                      *)

Calm == Reliable /\ ~RedisFails /\ Cardinality(Followers) < BigVThreshold

\* The cached count says that a is a big V, as it has done from the beginning.
Big(a) == countCache[a] >= BigVThreshold

\* Both workers treat a vlogger as what the cached count says.
ModesAgree ==
    /\ social.at \in {"CountFollowers", "SetCount", "BackfillRead", "BackfillWrite"} => ~Big(Vlogger)
    /\ social.at = "SAdd" => Big(Vlogger)
    /\ social.at = "SetCount" => social.count < BigVThreshold
    /\ fanout.at \in {"CountFollowers", "SetCount", "GetFollowers", "FilterActive", "Batch"} => ~Big(V)
    /\ fanout.at = "SetCount" => fanout.count < BigVThreshold

\* Whoever may not fall asleep has the key user:active.
Awake == Followers \ Sleepers \subseteq active

\* Only published videos that are pushed get into an inbox.
InboxesFilled ==
    /\ \A u \in Followers : \A v \in inbox[u] : v \in published /\ ~Big(Author[v])
    /\ social.at = "BackfillWrite" =>
          \A v \in social.videos : v \in published /\ Author[v] = Vlogger

\* A follow of p is in the queue; if it is in SocialWorker's hands, the worker is ready.
Coming(p, ready) ==
    \E i \in 1..Len(socialQ) :
       /\ socialQ[i] = [action |-> "follow", pair |-> p]
       /\ i = 1 => ready

\* SocialWorker has still to put v, or the big V, where the follower finds it.
BackfillReady(v) ==
    \/ social.at \in {"Repo", "GetCount", "CountFollowers", "SetCount", "BackfillRead"}
    \/ social.at = "BackfillWrite" /\ v \in social.videos
ListReady == social.at \in {"Repo", "GetCount", "SAdd"}

\* FanoutWorker has read the followers who are to get v.
HasRead(v) == fanout.at \in {"FilterActive", "Batch", "Ack"} /\ fanout.video = v

\* FanoutWorker has still to put v into the inbox of u.
FanoutOwes(u, v) == v \in fanoutQ /\ (HasRead(v) => fanout.at # "Ack" /\ u \in fanout.pending)

\* A recent video that is pushed is in the inbox of everybody who follows its author and
\* stays awake, or one of the two workers will bring it, or it lapsed before they could.
PushKept ==
    \A u \in Followers \ Sleepers, v \in published :
       expected[<<u, Author[v]>>] = "follow" /\ ~Big(Author[v]) /\ Recent(v) =>
          \/ v \in inbox[u]
          \/ <<u, v>> \in missed
          \/ FanoutOwes(u, v)
          \/ Coming(<<u, Author[v]>>, BackfillReady(v))

\* A followed big V is listed, or was until the list ran out, or SocialWorker will list it.
ListKept ==
    \A p \in Pairs :
       expected[p] = "follow" /\ Big(p[2]) =>
          p[2] \in bigv[p[1]] \/ p \in unlisted \/ Coming(p, ListReady)

\* Whoever has not missed a recent video that has lapsed has it in the inbox.
MissedKept ==
    \A u \in Followers, v \in lapsed :
       Recent(v) => v \in inbox[u] \/ <<u, v>> \in missed

VisibleInv == ModesAgree /\ Awake /\ InboxesFilled /\ PushKept /\ ListKept /\ MissedKept

-----------------------------------------------------------------------------
(* Facts about the queue and the caps.                                     *)

\* A pair that is to be followed and whose row is missing has a follow to come.
LEMMA MissingRowComes ==
    ASSUME SocialTypeOK, RowInv, NEW p \in Pairs, expected[p] = "follow", p \notin follows
    PROVE  Coming(p, social.at = "Repo")
<1>0. socialQ \in Seq(Events)  BY DEF SocialTypeOK
<1>1. PICK i \in 1..Len(socialQ) : socialQ[i].pair = p /\ (i = 1 => social.at = "Repo")
  BY DEF RowInv, RowsApplied, Applied
<1>2. PICK j \in 1..Len(socialQ) : socialQ[j].pair = p /\ IsLast(j)
  BY <1>0, <1>1, LastExists DEF IsLast
<1>3. i <= j  BY <1>1, <1>2 DEF IsLast
<1>4. socialQ[j] = [action |-> "follow", pair |-> p]
  <2>1. socialQ[j] \in Events  BY <1>0
  <2>2. socialQ[j].action = "follow"  BY <1>2 DEF RowInv, QueueOrdered
  <2> QED  BY <1>2, <2>1, <2>2 DEF Events
<1>5. j = 1 => social.at = "Repo"  BY <1>1, <1>3
<1> QED  BY <1>4, <1>5 DEF Coming

\* What a publication of an event appends, and what it makes of expected.
LEMMA PublishComes ==
    ASSUME SocialTypeOK, RowInv, NEW h \in Handlers, Publish(h), NEW p \in Pairs,
           expected'[p] = "follow"
    PROVE  /\ Len(socialQ') = Len(socialQ) + 1 /\ Len(socialQ) \in Nat
           /\ \A i \in 1..Len(socialQ) : socialQ'[i] = socialQ[i]
           /\ expected[p] = "follow" \/ Coming(p, social.at = "Repo")'
<1> DEFINE r == handler[h]
           e == [action |-> r.action, pair |-> r.pair]
<1>0. handler \in [Handlers -> Serving \cup {Idle}] /\ expected \in [Pairs -> Requests]
      /\ socialQ \in Seq(Events)
  BY DEF SocialTypeOK
<1>1. r \in Serving  BY <1>0 DEF Publish, Idle
<1>2. e \in Events /\ r.pair \in Pairs  BY <1>1 DEF Serving, Events
<1>3. /\ socialQ' = Append(socialQ, e)
      /\ expected' = [expected EXCEPT ![r.pair] = r.action]
      /\ UNCHANGED social
  BY DEF Publish
<1>4. /\ Len(socialQ') = Len(socialQ) + 1
      /\ \A i \in 1..Len(socialQ) : socialQ'[i] = socialQ[i]
      /\ socialQ'[Len(socialQ) + 1] = e
      /\ Len(socialQ) \in Nat
      /\ socialQ = <<>> <=> Len(socialQ) = 0
  BY <1>0, <1>2, <1>3, AppendFacts
<1>5. CASE p = r.pair
  <2>1. r.action = "follow"  BY <1>0, <1>2, <1>3, <1>5
  <2>2. Len(socialQ) + 1 = 1 => social'.at = "Repo"  BY <1>3, <1>4 DEF RowInv, WorkerOrdered
  <2>3. Len(socialQ) + 1 \in 1..Len(socialQ')  BY <1>4
  <2> QED  BY <1>4, <1>5, <2>1, <2>2, <2>3 DEF Coming
<1>6. CASE p # r.pair
  BY <1>0, <1>2, <1>3, <1>4, <1>6
<1> QED  BY <1>5, <1>6

\* A handler that does not publish an event leaves all of this alone.
LEMMA HandlerElse ==
    ASSUME Reliable, SocialTypeOK, RowInv, NEW h \in Handlers, HandlerNext(h), ~Publish(h)
    PROVE  UNCHANGED <<expected, socialQ, social>>
<1>0. handler \in [Handlers -> Serving \cup {Idle}] /\ expected \in [Pairs -> Requests]
  BY DEF SocialTypeOK
<1>1. CASE Write(h)
  <2>1. handler[h] \in Serving  BY <1>0, <1>1 DEF Write, Idle
  <2>2. handler[h].pair \in Pairs  BY <2>1 DEF Serving
  <2>3. expected[handler[h].pair] = handler[h].action
    BY <1>1 DEF Write, RowInv, HandlersOrdered
  <2> QED  BY <1>0, <1>1, <2>2, <2>3 DEF Write
<1> QED
  BY <1>1 DEF HandlerNext, Receive, CheckFollowed, PublishFails, RequestFails, Reliable, rowVars

LEMMA HandlerKeepsRedis ==
    ASSUME NEW h \in Handlers, HandlerNext(h)
    PROVE  UNCHANGED <<social, countCache, bigv, unlisted, userVideos, inbox>>
BY DEF HandlerNext, Receive, CheckFollowed, Publish, PublishFails, Write, RequestFails, redisVars

\* The event in SocialWorker's hands is not displaced by another.
LEMMA AppendKeepsHead ==
    ASSUME SocialTypeOK, NEW h \in Handlers, HandlerNext(h), socialQ # <<>>
    PROVE  Event' = Event /\ Vlogger' = Vlogger
<1>0. handler \in [Handlers -> Serving \cup {Idle}] /\ socialQ \in Seq(Events)
  BY DEF SocialTypeOK
<1>1. CASE Publish(h)
  <2>1. handler[h] \in Serving  BY <1>0, <1>1 DEF Publish, Idle
  <2>2. [action |-> handler[h].action, pair |-> handler[h].pair] \in Events
    BY <2>1 DEF Serving, Events
  <2> QED  BY <1>0, <1>1, <2>2 DEF Publish, Event, Vlogger
<1>2. CASE UNCHANGED socialQ
  BY <1>2 DEF Event, Vlogger
<1> QED
  BY <1>1, <1>2 DEF HandlerNext, Receive, CheckFollowed, PublishFails, Write, RequestFails

\* No trim takes a recent video out of an inbox.
LEMMA InboxKeeps ==
    ASSUME TypeOK, NEW v \in published, Recent(v), NEW S, v \in S, \A w \in S : w \in published
    PROVE  v \in Newest(S, InboxCap)
<1> DEFINE later == {w \in S : w > v}
           all == {w \in published : w > v}
<1>1. later \subseteq all /\ all \subseteq Videos  BY DEF TypeOK
<1>2. IsFiniteSet(all)  BY <1>1, FS_Subset, VideosNumbered
<1>3. Cardinality(later) <= Cardinality(all)
      /\ Cardinality(later) \in Nat /\ Cardinality(all) \in Nat
  BY <1>1, <1>2, FS_Subset, FS_CardinalityType
<1>4. Cardinality(later) < InboxCap  BY <1>3, SocialBounds DEF Recent
<1> QED  BY <1>4 DEF Newest

\* Nobody has as many followers as a big V.
LEMMA CountsStaySmall ==
    ASSUME Calm, NEW a
    PROVE  Cardinality(FollowersOf(a)) < BigVThreshold
<1>1. FollowersOf(a) \subseteq Followers  BY DEF FollowersOf
<1>2. Cardinality(FollowersOf(a)) <= Cardinality(Followers)
      /\ Cardinality(FollowersOf(a)) \in Nat /\ Cardinality(Followers) \in Nat
  BY <1>1, AccountsFinite, FS_Subset, FS_CardinalityType
<1> QED  BY <1>2, SocialBounds DEF Calm

-----------------------------------------------------------------------------
(* Pushing and pulling are not mixed up.                                   *)

LEMMA HandlerModes ==
    ASSUME Reliable, SocialTypeOK, RowInv, ModesAgree, NEW h \in Handlers, HandlerNext(h),
           UNCHANGED fanout
    PROVE  ModesAgree' /\ countCache' = countCache
<1>1. UNCHANGED <<social, countCache>>  BY HandlerKeepsRedis
<1>2. CASE socialQ = <<>>
  <2>1. social.at = "Repo"  BY <1>2 DEF RowInv, WorkerOrdered
  <2> QED  BY <1>1, <2>1 DEF ModesAgree, Big, V
<1>3. CASE socialQ # <<>>
  <2>1. Vlogger' = Vlogger  BY <1>3, AppendKeepsHead
  <2> QED  BY <1>1, <2>1 DEF ModesAgree, Big, V
<1> QED  BY <1>2, <1>3

LEMMA SocialWorkerModes ==
    ASSUME Calm, SocialTypeOK, RowInv, ModesAgree, SocialWorkerNext, UNCHANGED fanout
    PROVE  ModesAgree' /\ \A b \in Vloggers : Big(b)' <=> Big(b)
<1>0. /\ social \in [at : SocialSteps, count : Nat, videos : SUBSET Videos, failed : BOOLEAN]
      /\ countCache \in [Vloggers -> Nat \cup {NoCount}] /\ BigVThreshold \in Nat
      /\ ~RedisFails /\ ~DBFails
  BY SocialBounds DEF SocialTypeOK, Calm, Reliable
<1>1. CASE SocialGetCount
  <2>1. /\ UNCHANGED <<socialQ, countCache>> /\ socialQ # <<>>
        /\ \/ /\ countCache[Vlogger] # NoCount
              /\ social' = [social EXCEPT !.at = Strategy(countCache[Vlogger])]
           \/ countCache[Vlogger] = NoCount /\ social' = [social EXCEPT !.at = "CountFollowers"]
    BY <1>0, <1>1 DEF SocialGetCount, SocialAt, redisVars
  <2>2. Vlogger' = Vlogger /\ Vlogger \in Vloggers
    BY <2>1, HeadTyped DEF Event, Vlogger
  <2>3. ModesAgree'
    BY <1>0, <2>1, <2>2 DEF ModesAgree, Big, Strategy, NoCount, V
  <2> QED  BY <2>1, <2>3 DEF Big
<1>2. CASE SocialCountFollowers
  <2>1. /\ UNCHANGED <<socialQ, countCache>> /\ socialQ # <<>> /\ social.at = "CountFollowers"
        /\ social' = [social EXCEPT !.at = "SetCount", !.count = Cardinality(FollowersOf(Vlogger))]
    BY <1>0, <1>2 DEF SocialCountFollowers, SocialAt, redisVars
  <2>2. Vlogger' = Vlogger  BY <2>1 DEF Event, Vlogger
  <2>3. social'.at = "SetCount" /\ social'.count < BigVThreshold
    BY <1>0, <2>1, CountsStaySmall
  <2>4. ModesAgree'
    BY <2>1, <2>2, <2>3 DEF ModesAgree, Big, V
  <2> QED  BY <2>1, <2>4 DEF Big
<1>3. CASE SocialSetCount
  <2>1. /\ UNCHANGED socialQ /\ socialQ # <<>> /\ social.at = "SetCount"
        /\ countCache' = [countCache EXCEPT ![Vlogger] = social.count]
        /\ social' = [social EXCEPT !.at = Strategy(social.count)]
    BY <1>0, <1>3 DEF SocialSetCount, SocialAt
  <2>2. Vlogger' = Vlogger /\ Vlogger \in Vloggers
    BY <2>1, HeadTyped DEF Event, Vlogger
  <2>3. social.count \in Nat /\ ~(social.count >= BigVThreshold) /\ ~Big(Vlogger)
    BY <1>0, <2>1 DEF ModesAgree
  <2>4. \A b \in Vloggers : Big(b)' <=> Big(b)
    BY <1>0, <2>1, <2>2, <2>3 DEF Big
  <2>5. social'.at = "BackfillRead"  BY <1>0, <2>1, <2>3 DEF Strategy
  <2>6. ~Big(Vlogger)'  BY <2>2, <2>3, <2>4
  <2>7. fanout.at \in {"CountFollowers", "SetCount", "GetFollowers", "FilterActive", "Batch"}
           => ~Big(V)'
    <3> HAVE fanout.at \in {"CountFollowers", "SetCount", "GetFollowers", "FilterActive", "Batch"}
    <3>1. ~Big(V)  BY DEF ModesAgree
    <3>2. countCache'[V] \in {countCache[V], social.count}
      BY <1>0, <2>1, <2>2
    <3>3. V' = V  BY DEF V
    <3> QED  BY <2>3, <3>1, <3>2, <3>3 DEF Big
  <2> QED  BY <2>4, <2>5, <2>6, <2>7 DEF ModesAgree, V
<1>4. CASE SocialBackfillRead
  <2>1. /\ UNCHANGED <<socialQ, countCache>> /\ socialQ # <<>> /\ social.at = "BackfillRead"
        /\ social'.at \in {"Ack", "BackfillWrite"}
    BY <1>0, <1>4 DEF SocialBackfillRead, SocialAt, redisVars
  <2>2. Vlogger' = Vlogger  BY <2>1 DEF Event, Vlogger
  <2> QED  BY <2>1, <2>2 DEF ModesAgree, Big, V
<1>5. CASE \/ SocialRepo
           \/ SocialSAdd
           \/ SocialBackfillWrite
           \/ SocialSRem
           \/ SocialAck
           \/ SocialNack
           \/ SocialCrash
           \/ SocialRepoFails
  <2>1. UNCHANGED countCache
    BY <1>5 DEF SocialRepo, SocialSAdd, SocialBackfillWrite, SocialSRem, SocialAck, SocialNack,
                SocialCrash, SocialRepoFails, redisVars
  <2>2. social'.at \in {"Repo", "GetCount", "SRem", "Ack", "Nack"}
    BY <1>0, <1>5 DEF SocialRepo, SocialSAdd, SocialBackfillWrite, SocialSRem, SocialAck,
                      SocialNack, SocialCrash, SocialRepoFails, Waiting
  <2> QED  BY <2>1, <2>2 DEF ModesAgree, Big, V
<1> QED  BY <1>1, <1>2, <1>3, <1>4, <1>5 DEF SocialWorkerNext

LEMMA FanoutModes ==
    ASSUME Calm, TypeOK, RowInv, ModesAgree, FanoutNext
    PROVE  ModesAgree' /\ \A b \in Vloggers : Big(b)' <=> Big(b)
<1>0. /\ countCache \in [Vloggers -> Nat \cup {NoCount}] /\ BigVThreshold \in Nat
      /\ ~RedisFails /\ ~DBFails /\ FanoutTyped
      /\ UNCHANGED <<socialQ, social>> /\ Vlogger' = Vlogger
  BY SocialBounds, FanoutKeepsRows
     DEF TypeOK, SocialTypeOK, Calm, Reliable, FanoutTyped, Event, Vlogger
<1>1. CASE UNCHANGED countCache /\ fanout'.at \in {"idle", "ZAdd", "GetCount", "Ack"}
  BY <1>0, <1>1 DEF ModesAgree, Big
<1>2. CASE fanout' = fanout /\ UNCHANGED countCache
  BY <1>0, <1>2 DEF ModesAgree, Big, V
<1>3. CASE FanoutGetCount
  <2>1. /\ fanout \in [at : FanoutSteps, video : Videos, count : Nat, pending : SUBSET Followers]
        /\ V \in Vloggers /\ UNCHANGED countCache
    BY <1>0, <1>3, FanoutBusy DEF FanoutGetCount, socialVars, redisVars
  <2>2. /\ V' = V
        /\ \/ countCache[V] # NoCount /\ fanout'.at = Push(countCache[V])
           \/ countCache[V] = NoCount /\ fanout'.at = "CountFollowers"
    BY <1>0, <1>3, <2>1 DEF FanoutGetCount, FanoutGoto, V
  <2> QED  BY <1>0, <2>1, <2>2 DEF ModesAgree, Big, Push, NoCount
<1>4. CASE FanoutCountFollowers
  <2>1. /\ fanout \in [at : FanoutSteps, video : Videos, count : Nat, pending : SUBSET Followers]
        /\ UNCHANGED countCache /\ fanout.at = "CountFollowers"
    BY <1>0, <1>4, FanoutBusy DEF FanoutCountFollowers, socialVars, redisVars
  <2>2. /\ V' = V /\ fanout'.at = "SetCount" /\ fanout'.count = Cardinality(FollowersOf(V))
    BY <1>0, <1>4, <2>1 DEF FanoutCountFollowers, V
  <2>3. fanout'.count < BigVThreshold  BY <2>2, CountsStaySmall
  <2> QED  BY <1>0, <2>1, <2>2, <2>3 DEF ModesAgree, Big
<1>5. CASE FanoutSetCount
  <2>1. /\ fanout \in [at : FanoutSteps, video : Videos, count : Nat, pending : SUBSET Followers]
        /\ V \in Vloggers /\ fanout.at = "SetCount"
        /\ countCache' = [countCache EXCEPT ![V] = fanout.count]
    BY <1>0, <1>5, FanoutBusy DEF FanoutSetCount
  <2>2. fanout.count \in Nat /\ ~(fanout.count >= BigVThreshold) /\ ~Big(V)
    BY <1>0, <2>1 DEF ModesAgree
  <2>3. V' = V /\ fanout'.at = "GetFollowers"
    BY <1>0, <1>5, <2>1, <2>2 DEF FanoutSetCount, FanoutGoto, Push, V
  <2>4. \A b \in Vloggers : Big(b)' <=> Big(b)
    BY <1>0, <2>1, <2>2 DEF Big
  <2>5. social.at # "Repo" => Vlogger \in Vloggers
    BY HeadTyped DEF TypeOK, RowInv, WorkerOrdered
  <2>6. ~Big(V)' /\ (social.at # "Repo" => (Big(Vlogger)' <=> Big(Vlogger)))
    <3>1. Big(V)' <=> countCache'[V'] >= BigVThreshold  BY DEF Big
    <3>2. Big(Vlogger)' <=> countCache'[Vlogger'] >= BigVThreshold  BY DEF Big
    <3>3. ~Big(V)'  BY <1>0, <2>1, <2>2, <2>3, <3>1
    <3>4. \A b \in Vloggers : countCache'[b] >= BigVThreshold <=> countCache[b] >= BigVThreshold
      BY <2>4 DEF Big
    <3> QED  BY <1>0, <2>5, <3>2, <3>3, <3>4 DEF Big
  <2> QED  BY <1>0, <2>3, <2>4, <2>6 DEF ModesAgree
<1>6. CASE FanoutGetFollowers \/ FanoutFilterActive \/ FanoutBatch
  <2>1. /\ fanout \in [at : FanoutSteps, video : Videos, count : Nat, pending : SUBSET Followers]
        /\ UNCHANGED countCache
        /\ fanout.at \in {"GetFollowers", "FilterActive", "Batch"}
    BY <1>0, <1>6, FanoutBusy
       DEF FanoutGetFollowers, FanoutFilterActive, FanoutBatch, socialVars, redisVars
  <2>2. V' = V /\ fanout'.at \in {"FilterActive", "Batch", "Ack"}
    BY <1>0, <1>6, <2>1 DEF FanoutGetFollowers, FanoutFilterActive, FanoutBatch, V
  <2> QED  BY <1>0, <2>1, <2>2 DEF ModesAgree, Big
<1>7. ASSUME \/ \E v \in Videos : PublishVideo(v) \/ FanoutReceive(v)
             \/ \E u \in Followers : FallAsleep(u) \/ Login(u)
             \/ \E b \in Vloggers : ExpireUserVideos(b)
             \/ FanoutZAdd \/ FanoutAck \/ FanoutCrash
      PROVE  UNCHANGED countCache /\ (fanout' = fanout \/ fanout'.at \in {"idle", "ZAdd", "GetCount", "Ack"})
  <2>1. CASE FanoutZAdd
    <3>1. fanout \in [at : FanoutSteps, video : Videos, count : Nat, pending : SUBSET Followers]
      BY <1>0, <2>1, FanoutBusy DEF FanoutZAdd
    <3> QED  BY <1>0, <2>1, <3>1 DEF FanoutZAdd, FanoutGoto
  <2> QED
    BY <1>7, <2>1 DEF PublishVideo, FanoutReceive, FallAsleep, Login, ExpireUserVideos, FanoutAck,
                      FanoutCrash, FanoutGivesUp, Free, socialVars, redisVars
<1> QED  BY <1>1, <1>2, <1>3, <1>4, <1>5, <1>6, <1>7 DEF FanoutNext

-----------------------------------------------------------------------------
(* What is in the inboxes.                                                 *)

\* What only grows with published stays, if neither inbox nor backfill changes.
LEMMA InboxAlone ==
    ASSUME TypeOK, RowInv, InboxesFilled, published \subseteq published',
           UNCHANGED <<inbox, social>>, \A b \in Vloggers : Big(b)' <=> Big(b),
           socialQ # <<>> => Vlogger' = Vlogger
    PROVE  InboxesFilled'
<1>1. \A u \in Followers : \A v \in inbox[u] : v \in published' /\ ~Big(Author[v])'
  <2> SUFFICES ASSUME NEW u \in Followers, NEW v \in inbox[u]
               PROVE  v \in published' /\ ~Big(Author[v])'
    OBVIOUS
  <2>1. v \in published /\ ~Big(Author[v])  BY DEF InboxesFilled
  <2>2. Author[v] \in Vloggers  BY <2>1, AuthorTyped DEF TypeOK
  <2>3. Big(Author[v])' <=> Big(Author[v])
    <3>1. PICK b \in Vloggers : b = Author[v]  BY <2>2
    <3>2. Big(b)' <=> Big(b)  OBVIOUS
    <3> QED  BY <3>1, <3>2 DEF Big
  <2> QED  BY <2>1, <2>3
<1>2. social.at = "BackfillWrite" => socialQ # <<>>  BY DEF RowInv, WorkerOrdered
<1> QED  BY <1>1, <1>2 DEF InboxesFilled, Big

LEMMA SocialWorkerInboxes ==
    ASSUME Calm, TypeOK, RowInv, PullInv, ModesAgree, InboxesFilled, SocialWorkerNext,
           UNCHANGED fanoutVars, \A b \in Vloggers : Big(b)' <=> Big(b)
    PROVE  InboxesFilled'
<1>0. /\ social \in [at : SocialSteps, count : Nat, videos : SUBSET Videos, failed : BOOLEAN]
      /\ inbox \in [Followers -> SUBSET Videos] /\ published \subseteq Videos
      /\ UNCHANGED <<active, published>> /\ ~RedisFails
  BY DEF TypeOK, SocialTypeOK, fanoutVars, Calm
<1>1. ASSUME NEW u \in Followers, NEW v \in inbox[u]
      PROVE  v \in published /\ ~Big(Author[v])'
  <2>1. v \in published /\ ~Big(Author[v])  BY DEF InboxesFilled
  <2>2. Author[v] \in Vloggers  BY <1>0, <2>1, AuthorTyped
  <2> QED  BY <2>1, <2>2 DEF Big
<1>2. CASE SocialBackfillRead
  <2>1. /\ UNCHANGED <<socialQ, inbox>> /\ socialQ # <<>>
        /\ social'.videos = Newest(userVideos[Vlogger], UserVideosCap)
    BY <1>0, <1>2 DEF SocialBackfillRead, SocialAt, redisVars
  <2>2. Vlogger' = Vlogger /\ Vlogger \in Vloggers
    BY <2>1, HeadTyped DEF TypeOK, Event, Vlogger
  <2>3. social'.videos \subseteq {v \in published : Author[v] = Vlogger}
    BY <2>1, <2>2 DEF PullInv, Newest
  <2> QED  BY <1>0, <1>1, <2>1, <2>2, <2>3 DEF InboxesFilled
<1>3. CASE SocialBackfillWrite
  <2>1. /\ socialQ # <<>> /\ social.at = "BackfillWrite" /\ social'.at = "Ack"
        /\ inbox' = [inbox EXCEPT ![Follower] = Newest(@ \cup social.videos, InboxCap)]
    BY <1>0, <1>3 DEF SocialBackfillWrite, SocialAt
  <2>2. Follower \in Followers /\ Vlogger \in Vloggers
    BY <2>1, HeadTyped DEF TypeOK
  <2>3. ASSUME NEW u \in Followers, NEW v \in inbox'[u]
        PROVE  v \in published /\ ~Big(Author[v])'
    <3>1. v \in inbox[u] \cup social.videos
      BY <1>0, <2>1, <2>2 DEF Newest
    <3>2. CASE v \in inbox[u]  BY <1>1, <3>2
    <3>3. CASE v \in social.videos
      <4>1. v \in published /\ Author[v] = Vlogger  BY <2>1, <3>3 DEF InboxesFilled
      <4>2. ~Big(Vlogger)  BY <2>1 DEF ModesAgree
      <4> QED  BY <2>2, <4>1, <4>2 DEF Big
    <3> QED  BY <3>1, <3>2, <3>3
  <2> QED  BY <1>0, <2>1, <2>3 DEF InboxesFilled
<1>4. CASE ~SocialBackfillRead /\ ~SocialBackfillWrite
  <2>1. UNCHANGED inbox
    BY <1>4 DEF SocialWorkerNext, SocialRepo, SocialRepoFails, SocialGetCount,
         SocialCountFollowers, SocialSetCount, SocialSAdd, SocialSRem, SocialAck, SocialNack,
         SocialCrash, redisVars
  <2>2. social'.at # "BackfillWrite"
    <3>1. CASE SocialAck \/ SocialNack \/ SocialCrash
      <4>1. social' = Waiting
        BY <3>1 DEF SocialAck, SocialNack, SocialCrash
      <4> QED  BY <4>1 DEF Waiting
    <3>2. CASE SocialRepo \/ SocialRepoFails \/ SocialSAdd \/ SocialSRem
      BY <1>0, <3>2 DEF SocialRepo, SocialRepoFails, SocialSAdd, SocialSRem
    <3>3. CASE SocialGetCount \/ SocialCountFollowers \/ SocialSetCount
      <4>1. \A n : Strategy(n) \in {"SAdd", "BackfillRead"}  BY DEF Strategy
      <4> QED  BY <1>0, <3>3, <4>1 DEF SocialGetCount, SocialCountFollowers, SocialSetCount
    <3> QED  BY <1>4, <3>1, <3>2, <3>3 DEF SocialWorkerNext
  <2> QED  BY <1>0, <1>1, <2>1, <2>2 DEF InboxesFilled
<1> QED  BY <1>2, <1>3, <1>4

LEMMA FanoutInboxes ==
    ASSUME Calm, TypeOK, RowInv, PullInv, ModesAgree, InboxesFilled, FanoutNext,
           \A b \in Vloggers : Big(b)' <=> Big(b)
    PROVE  InboxesFilled'
<1>0. /\ inbox \in [Followers -> SUBSET Videos] /\ published \subseteq Videos
      /\ UNCHANGED <<socialQ, social>> /\ Vlogger' = Vlogger /\ ~RedisFails /\ FanoutTyped
  BY FanoutKeepsRows DEF TypeOK, SocialTypeOK, Calm, Event, Vlogger, FanoutTyped
<1>1. CASE FanoutBatch
  <2>1. /\ fanout.at = "Batch" /\ fanout \in [at : FanoutSteps, video : Videos, count : Nat,
                                             pending : SUBSET Followers]
        /\ V \in Vloggers /\ fanout # Free
    BY <1>0, <1>1, FanoutBusy DEF FanoutBatch, Free
  <2>2. fanout.video \in published /\ ~Big(V)'
    <3>1. ~Big(V)  BY <2>1 DEF ModesAgree
    <3>2. \A b \in Vloggers : countCache'[b] >= BigVThreshold <=> countCache[b] >= BigVThreshold
      BY DEF Big
    <3>3. ~(countCache'[V] >= BigVThreshold)  BY <2>1, <3>1, <3>2 DEF Big
    <3>4. UNCHANGED countCache  BY <1>1 DEF FanoutBatch
    <3>5. ~(countCache'[V'] >= BigVThreshold)
      <4>1. fanout'.video = fanout.video  BY <1>1, <2>1 DEF FanoutBatch
      <4> QED  BY <3>3, <4>1 DEF V
    <3> QED  BY <2>1, <3>5 DEF PullInv, Big
  <2>3. V' = V /\ UNCHANGED <<active, published>>
    BY <1>1, <2>1 DEF FanoutBatch, V
  <2>4. ASSUME NEW u \in Followers PROVE inbox'[u] \subseteq inbox[u] \cup {fanout.video}
    BY <1>1 DEF FanoutBatch, Newest
  <2>5. ASSUME NEW u \in Followers, NEW v \in inbox'[u]
        PROVE  v \in published /\ ~Big(Author[v])'
    <3>1. CASE v \in inbox[u]
      <4>1. v \in published /\ ~Big(Author[v])  BY <3>1 DEF InboxesFilled
      <4>2. Author[v] \in Vloggers  BY <1>0, <4>1, AuthorTyped
      <4> QED  BY <4>1, <4>2 DEF Big
    <3>2. CASE v = fanout.video
      BY <2>2, <2>3, <3>2 DEF V, Big
    <3> QED  BY <2>4, <3>1, <3>2
  <2> QED  BY <1>0, <2>3, <2>5 DEF InboxesFilled
<1>2. CASE ~FanoutBatch
  <2>1. UNCHANGED inbox /\ published \subseteq published'
    BY <1>2 DEF FanoutNext, PublishVideo, FanoutReceive, FallAsleep, Login, ExpireUserVideos,
         FanoutZAdd, FanoutGetCount, FanoutCountFollowers, FanoutSetCount, FanoutGetFollowers,
         FanoutFilterActive, FanoutAck, FanoutCrash, socialVars, redisVars
  <2> QED  BY <1>0, <2>1, InboxAlone
<1> QED  BY <1>1, <1>2

\* A recent video stays in an inbox: every write of one trims it to published videos.
LEMMA SocialInboxKept ==
    ASSUME TypeOK, InboxesFilled, SocialWorkerNext,
           NEW u \in Followers, NEW v \in inbox[u], Recent(v)
    PROVE  v \in inbox'[u]
<1>0. inbox \in [Followers -> SUBSET Videos] /\ v \in published /\ SocialTypeOK
  BY DEF TypeOK, SocialTypeOK, InboxesFilled
<1>1. CASE SocialBackfillWrite
  <2>1. /\ socialQ # <<>> /\ social.at = "BackfillWrite"
        /\ \/ inbox' = [inbox EXCEPT ![Follower] = Newest(@ \cup social.videos, InboxCap)]
           \/ inbox' = inbox
    BY <1>1 DEF SocialBackfillWrite, SocialAt
  <2>2. Follower \in Followers  BY <1>0, <2>1, HeadTyped
  <2>3. v \in Newest(inbox[u] \cup social.videos, InboxCap)
    BY <1>0, <2>1, InboxKeeps DEF InboxesFilled
  <2> QED  BY <1>0, <2>1, <2>2, <2>3
<1>2. CASE ~SocialBackfillWrite
  BY <1>2 DEF SocialWorkerNext, SocialRepo, SocialRepoFails, SocialGetCount,
     SocialCountFollowers, SocialSetCount, SocialSAdd, SocialBackfillRead, SocialSRem,
     SocialAck, SocialNack, SocialCrash, redisVars
<1> QED  BY <1>1, <1>2

LEMMA FanoutInboxKept ==
    ASSUME TypeOK, PullInv, InboxesFilled, FanoutNext,
           NEW u \in Followers, NEW v \in inbox[u], Recent(v)
    PROVE  v \in inbox'[u]
<1>1. CASE FanoutBatch
  <2>1. fanout.video \in published  BY <1>1 DEF FanoutBatch, PullInv, Free
  <2>2. v \in Newest(inbox[u] \cup {fanout.video}, InboxCap)
    BY <2>1, InboxKeeps DEF InboxesFilled
  <2> QED  BY <1>1, <2>2 DEF FanoutBatch
<1>2. CASE ~FanoutBatch
  BY <1>2 DEF FanoutNext, PublishVideo, FanoutReceive, FallAsleep, Login, ExpireUserVideos,
     FanoutZAdd, FanoutGetCount, FanoutCountFollowers, FanoutSetCount, FanoutGetFollowers,
     FanoutFilterActive, FanoutAck, FanoutCrash, socialVars, redisVars
<1> QED  BY <1>1, <1>2

\* As videos are published, no other becomes recent.
LEMMA RecentOnlyEnds ==
    ASSUME published \subseteq published', published' \subseteq Videos,
           NEW v \in published, Recent(v)'
    PROVE  Recent(v)
<1> DEFINE later == {w \in published : w > v}
           laterNow == {w \in published' : w > v}
<1>1. /\ Newer(v) \subseteq Newer(v)' /\ later \subseteq laterNow
      /\ Newer(v)' \subseteq Videos /\ laterNow \subseteq Videos
  BY DEF Newer
<1>2. IsFiniteSet(Newer(v)') /\ IsFiniteSet(laterNow)
  BY <1>1, FS_Subset, VideosNumbered
<1>3. /\ Cardinality(Newer(v)) <= Cardinality(Newer(v)')
      /\ Cardinality(later) <= Cardinality(laterNow)
      /\ Cardinality(Newer(v)) \in Nat /\ Cardinality(Newer(v)') \in Nat
      /\ Cardinality(later) \in Nat /\ Cardinality(laterNow) \in Nat
  BY <1>1, <1>2, FS_Subset, FS_CardinalityType
<1>4. /\ Cardinality(laterNow) < InboxCap
      /\ Cardinality(Newer(v)') < UserVideosCap /\ Cardinality(Newer(v)') < PullQuota
  BY DEF Recent
<1> HIDE DEF later, laterNow
<1>5. /\ Cardinality(later) < InboxCap
      /\ Cardinality(Newer(v)) < UserVideosCap /\ Cardinality(Newer(v)) < PullQuota
  BY <1>3, <1>4, SocialBounds, FanoutBounds
<1> USE DEF later
<1> QED  BY <1>5 DEF Recent

-----------------------------------------------------------------------------
(* Whoever follows is served.                                              *)

\* What stands behind the event in SocialWorker's hands moves up.
LEMMA ComingAfterAck ==
    ASSUME SocialTypeOK, SocialAck, NEW p \in Pairs, Coming(p, FALSE)
    PROVE  Coming(p, social.at = "Repo")'
<1>0. socialQ \in Seq(Events)  BY DEF SocialTypeOK
<1>1. /\ Len(socialQ') = Len(socialQ) - 1
      /\ \A i \in 1..(Len(socialQ) - 1) : socialQ'[i] = socialQ[i + 1]
      /\ Len(socialQ) \in Nat \ {0} /\ social'.at = "Repo"
  BY <1>0, TailFacts DEF SocialAck, SocialAt, Waiting
<1>2. PICK i \in 1..Len(socialQ) : socialQ[i] = [action |-> "follow", pair |-> p] /\ i # 1
  BY DEF Coming
<1>3. i - 1 \in 1..Len(socialQ') /\ socialQ'[i - 1] = socialQ[i]  BY <1>1, <1>2
<1> QED  BY <1>1, <1>2, <1>3 DEF Coming

\* If nothing is to come behind it, the event in SocialWorker's hands is the one.
LEMMA HeadIsComing ==
    ASSUME SocialTypeOK, NEW p \in Pairs, Coming(p, TRUE), ~Coming(p, FALSE)
    PROVE  /\ socialQ # <<>> /\ Event = [action |-> "follow", pair |-> p]
           /\ Len(socialQ) \in Nat \ {0} /\ socialQ[1] = Event
<1>0. socialQ \in Seq(Events)  BY DEF SocialTypeOK
<1>1. PICK i \in 1..Len(socialQ) : socialQ[i] = [action |-> "follow", pair |-> p]
  BY DEF Coming
<1>2. i = 1  BY <1>1 DEF Coming
<1>3. socialQ # <<>>  BY <1>0, <1>1
<1> QED  BY <1>0, <1>1, <1>2, <1>3, TailFacts DEF Event

LEMMA SocialWorkerPush ==
    ASSUME Calm, TypeOK, RowInv, PullInv, ModesAgree, InboxesFilled, PushKept, MissedKept,
           SocialWorkerNext, UNCHANGED fanoutVars, \A b \in Vloggers : Big(b)' <=> Big(b)
    PROVE  PushKept'
<1>0. /\ social \in [at : SocialSteps, count : Nat, videos : SUBSET Videos, failed : BOOLEAN]
      /\ inbox \in [Followers -> SUBSET Videos] /\ published \subseteq Videos /\ SocialTypeOK
      /\ UNCHANGED <<active, published, fanoutQ, fanout, missed>> /\ ~RedisFails /\ ~DBFails
  BY DEF TypeOK, SocialTypeOK, fanoutVars, lapseVars, Calm, Reliable
<1>1. UNCHANGED expected
  BY DEF SocialWorkerNext, SocialRepo, SocialRepoFails, SocialGetCount,
         SocialCountFollowers, SocialSetCount, SocialSAdd, SocialBackfillRead,
         SocialBackfillWrite, SocialSRem, SocialAck, SocialNack, SocialCrash, rowVars
<1> SUFFICES ASSUME NEW u \in Followers \ Sleepers, NEW v \in published,
                    expected[<<u, Author[v]>>] = "follow", ~Big(Author[v])', Recent(v),
                    <<u, v>> \notin missed
             PROVE  \/ v \in inbox'[u]
                    \/ FanoutOwes(u, v)
                    \/ Coming(<<u, Author[v]>>, BackfillReady(v))'
  BY <1>0, <1>1 DEF PushKept, Recent, Newer, FanoutOwes, HasRead
<1> DEFINE p == <<u, Author[v]>>
<1>2. p \in Pairs /\ Author[v] \in Vloggers /\ ~Big(Author[v])
  BY <1>0, AuthorTyped DEF Pairs, Big
<1>3. ~SocialNack /\ ~SocialRepoFails
  BY <1>0 DEF SocialNack, SocialRepoFails, SocialAt, RowInv, WorkerOrdered
<1>4. CASE FanoutOwes(u, v)
  BY <1>4
<1>5. CASE v \in inbox[u]
  BY <1>5, SocialInboxKept
<1>6. CASE Coming(p, FALSE)
  <2>1. CASE SocialAck
    <3>1. Coming(p, social.at = "Repo")'  BY <1>0, <1>2, <1>6, <2>1, ComingAfterAck
    <3> QED  BY <3>1 DEF Coming, BackfillReady
  <2>2. CASE ~SocialAck
    <3>1. UNCHANGED socialQ
      BY <1>3, <2>2 DEF SocialWorkerNext, SocialRepo, SocialGetCount, SocialCountFollowers,
         SocialSetCount, SocialSAdd, SocialBackfillRead, SocialBackfillWrite, SocialSRem, SocialCrash
    <3> QED  BY <1>6, <3>1 DEF Coming
  <2> QED  BY <2>1, <2>2
<1>7. CASE Coming(p, BackfillReady(v)) /\ ~Coming(p, FALSE) /\ ~FanoutOwes(u, v) /\ v \notin inbox[u]
  <2>1. Coming(p, TRUE) /\ BackfillReady(v)  BY <1>7 DEF Coming
  <2>2. /\ socialQ # <<>> /\ Event = [action |-> "follow", pair |-> p]
        /\ Len(socialQ) \in Nat \ {0} /\ socialQ[1] = Event
    BY <1>0, <1>2, <1>7, <2>1, HeadIsComing
  <2>3. Follower = u /\ Vlogger = Author[v]  BY <2>2 DEF Follower, Vlogger
  <2>4. ASSUME UNCHANGED socialQ, BackfillReady(v)'
        PROVE  Coming(p, BackfillReady(v))'
    <3>1. 1 \in 1..Len(socialQ') /\ socialQ'[1] = [action |-> "follow", pair |-> p]
      BY <2>2, <2>4
    <3> QED  BY <2>4, <3>1 DEF Coming
  <2>5. CASE SocialRepo
    <3>1. UNCHANGED socialQ /\ social'.at = "GetCount"
      BY <1>0, <2>2, <2>5 DEF SocialRepo
    <3> QED  BY <2>4, <3>1 DEF BackfillReady
  <2>6. CASE SocialGetCount
    <3>1. /\ UNCHANGED socialQ
          /\ \/ social'.at = Strategy(countCache[Vlogger])
             \/ social'.at = "CountFollowers"
      BY <1>0, <2>6 DEF SocialGetCount
    <3>2. Strategy(countCache[Vlogger]) = "BackfillRead"
      BY <1>2, <2>3 DEF Strategy, Big
    <3> QED  BY <2>4, <3>1, <3>2 DEF BackfillReady
  <2>7. CASE SocialCountFollowers
    <3>1. UNCHANGED socialQ /\ social'.at = "SetCount"
      BY <1>0, <2>7 DEF SocialCountFollowers
    <3> QED  BY <2>4, <3>1 DEF BackfillReady
  <2>8. CASE SocialSetCount
    <3>1. UNCHANGED socialQ /\ social'.at = Strategy(social.count) /\ social.at = "SetCount"
      BY <1>0, <2>8 DEF SocialSetCount, SocialAt
    <3>2. Strategy(social.count) = "BackfillRead"
      BY <1>0, <3>1, SocialBounds DEF Strategy, ModesAgree
    <3> QED  BY <2>4, <3>1, <3>2 DEF BackfillReady
  <2>9. CASE SocialBackfillRead
    <3>1. v \in userVideos[Author[v]]
      <4>1. v \notin fanoutQ \/ Filled(v)  BY <1>7 DEF FanoutOwes, HasRead, Filled
      <4>2. v \notin lapsed  BY <1>7 DEF MissedKept
      <4> QED  BY <4>1, <4>2 DEF PullInv, Recent
    <3>2. v \in Newest(userVideos[Author[v]], UserVideosCap)
      <4>1. userVideos[Author[v]] \subseteq {w \in published : Author[w] = Author[v]}
        BY <1>2 DEF PullInv
      <4>2. Cardinality(Newer(v)) < UserVideosCap  BY DEF Recent
      <4> QED  BY <3>1, <4>1, <4>2, TrimKeeps
    <3>3. /\ UNCHANGED socialQ
          /\ social' = [social EXCEPT !.at = IF Newest(userVideos[Vlogger], UserVideosCap) = {}
                                             THEN "Ack" ELSE "BackfillWrite",
                                      !.videos = Newest(userVideos[Vlogger], UserVideosCap)]
      BY <1>0, <2>9 DEF SocialBackfillRead
    <3>4. social'.at = "BackfillWrite" /\ v \in social'.videos
      BY <1>0, <2>3, <3>2, <3>3
    <3> QED  BY <2>4, <3>3, <3>4 DEF BackfillReady
  <2>10. CASE SocialBackfillWrite
    <3>1. /\ social.at = "BackfillWrite"
          /\ inbox' = [inbox EXCEPT ![Follower] = Newest(@ \cup social.videos, InboxCap)]
      BY <1>0, <2>10 DEF SocialBackfillWrite, SocialAt
    <3>2. v \in social.videos  BY <2>1, <3>1 DEF BackfillReady
    <3>3. v \in Newest(inbox[u] \cup social.videos, InboxCap)
      BY <3>1, <3>2, InboxKeeps DEF InboxesFilled
    <3> QED  BY <1>0, <2>3, <3>1, <3>3
  <2>11. CASE SocialCrash
    <3>1. UNCHANGED socialQ /\ social' = Waiting  BY <2>11 DEF SocialCrash
    <3>2. social'.at = "Repo"  BY <3>1 DEF Waiting
    <3> QED  BY <2>4, <3>1, <3>2 DEF BackfillReady
  <2>12. CASE SocialSAdd \/ SocialSRem \/ SocialAck
    BY <2>1, <2>12 DEF SocialSAdd, SocialSRem, SocialAck, SocialAt, BackfillReady
  <2> QED
    BY <1>3, <2>5, <2>6, <2>7, <2>8, <2>9, <2>10, <2>11, <2>12 DEF SocialWorkerNext
<1> QED
  BY <1>1, <1>2, <1>4, <1>5, <1>6, <1>7 DEF PushKept

LEMMA HandlerPush ==
    ASSUME Calm, TypeOK, RowInv, PushKept, NEW h \in Handlers, HandlerNext(h), UNCHANGED fanoutVars
    PROVE  PushKept'
<1>0. UNCHANGED <<social, countCache, inbox, published, fanoutQ, fanout, missed>> /\ SocialTypeOK
  BY HandlerKeepsRedis DEF TypeOK, fanoutVars, lapseVars
<1> SUFFICES ASSUME NEW u \in Followers \ Sleepers, NEW v \in published,
                    expected'[<<u, Author[v]>>] = "follow", ~Big(Author[v]), Recent(v),
                    v \notin inbox[u], <<u, v>> \notin missed, ~FanoutOwes(u, v)
             PROVE  Coming(<<u, Author[v]>>, BackfillReady(v))'
  BY <1>0 DEF PushKept, Recent, Newer, FanoutOwes, HasRead, Big
<1> DEFINE p == <<u, Author[v]>>
<1>1. p \in Pairs  BY AuthorTyped DEF TypeOK, Pairs
<1>2. CASE Publish(h)
  <2>1. /\ Len(socialQ') = Len(socialQ) + 1 /\ Len(socialQ) \in Nat
        /\ \A i \in 1..Len(socialQ) : socialQ'[i] = socialQ[i]
        /\ expected[p] = "follow" \/ Coming(p, social.at = "Repo")'
    BY <1>0, <1>1, <1>2, PublishComes
  <2>2. CASE Coming(p, social.at = "Repo")'
    BY <2>2 DEF Coming, BackfillReady
  <2>3. CASE expected[p] = "follow"
    <3>1. PICK i \in 1..Len(socialQ) : /\ socialQ[i] = [action |-> "follow", pair |-> p]
                                       /\ i = 1 => BackfillReady(v)
      BY <2>3 DEF PushKept, Coming
    <3>2. i \in 1..Len(socialQ') /\ socialQ'[i] = [action |-> "follow", pair |-> p]
      BY <2>1, <3>1
    <3>3. i = 1 => BackfillReady(v)'  BY <1>0, <3>1 DEF BackfillReady
    <3> QED  BY <3>2, <3>3 DEF Coming
  <2> QED  BY <2>1, <2>2, <2>3
<1>3. CASE ~Publish(h)
  <2>1. UNCHANGED <<expected, socialQ, social>>
    BY <1>0, <1>3, HandlerElse DEF Calm
  <2>2. Coming(p, BackfillReady(v))  BY <2>1 DEF PushKept
  <2> QED  BY <2>1, <2>2 DEF Coming, BackfillReady
<1> QED  BY <1>2, <1>3

\* FanoutWorker hands a video on, to the inboxes or to the follows that are to come.
LEMMA FanoutPush ==
    ASSUME Calm, TypeOK, RowInv, PullInv, ModesAgree, Awake, InboxesFilled, PushKept, FanoutNext,
           \A b \in Vloggers : Big(b)' <=> Big(b)
    PROVE  PushKept'
<1>0. /\ inbox \in [Followers -> SUBSET Videos] /\ published \subseteq Videos
      /\ UNCHANGED <<expected, socialQ, social>> /\ FanoutTyped /\ SocialTypeOK
      /\ ~RedisFails /\ ~DBFails /\ BigVThreshold \in Nat
      /\ countCache \in [Vloggers -> Nat \cup {NoCount}]
  BY FanoutKeepsRows, SocialBounds DEF TypeOK, SocialTypeOK, Calm, Reliable, FanoutTyped
<1> SUFFICES ASSUME NEW u \in Followers \ Sleepers, NEW v \in published',
                    expected[<<u, Author[v]>>] = "follow", ~Big(Author[v])', Recent(v)',
                    <<u, v>> \notin missed', ~Coming(<<u, Author[v]>>, BackfillReady(v))
             PROVE  v \in inbox'[u] \/ FanoutOwes(u, v)'
  BY <1>0 DEF PushKept, Coming, BackfillReady
<1> DEFINE p == <<u, Author[v]>>
<1>1. ASSUME v \in published, Recent(v)
      PROVE  /\ v \in Videos /\ Author[v] \in Vloggers /\ p \in Pairs /\ ~Big(Author[v])
             /\ v \in inbox[u] \/ FanoutOwes(u, v) \/ <<u, v>> \in missed
  <2>1. v \in Videos /\ Author[v] \in Vloggers /\ p \in Pairs
    BY <1>0, <1>1, AuthorTyped DEF Pairs
  <2>2. ~Big(Author[v])  BY <2>1 DEF Big
  <2> QED  BY <1>1, <2>1, <2>2 DEF PushKept
<1>z. CASE FanoutZAdd
  <2>1. /\ fanout \in [at : FanoutSteps, video : Videos, count : Nat, pending : SUBSET Followers]
        /\ UNCHANGED <<published, fanoutQ, inbox>> /\ fanout # Free
    BY <1>0, <1>z, FanoutBusy DEF FanoutZAdd, Free
  <2>2. fanout'.at = "GetCount" /\ missed' = {m \in missed : m[2] # fanout.video}
    BY <1>0, <1>z, <2>1 DEF FanoutZAdd, FanoutGoto, Renewed
  <2>3. v \in published /\ Recent(v) /\ ~HasRead(v)'
    BY <2>1, <2>2 DEF Recent, Newer, HasRead
  <2>4. CASE v = fanout.video
    <3>1. v \in fanoutQ  BY <2>1, <2>4 DEF PullInv
    <3> QED  BY <2>1, <2>3, <3>1 DEF FanoutOwes
  <2>5. CASE v # fanout.video
    <3>1. <<u, v>> \notin missed  BY <2>2, <2>5
    <3> QED  BY <1>1, <2>1, <2>3, <3>1 DEF FanoutOwes
  <2> QED  BY <2>4, <2>5
<1> SUFFICES ASSUME ~FanoutZAdd
             PROVE  v \in inbox'[u] \/ FanoutOwes(u, v)'
  BY <1>z
<1>m. <<u, v>> \notin missed
  <2>1. missed \subseteq missed'
    BY DEF FanoutNext, PublishVideo, FanoutReceive, FallAsleep, Login, ExpireUserVideos,
       FanoutGetCount, FanoutCountFollowers, FanoutSetCount, FanoutGetFollowers,
       FanoutFilterActive, FanoutBatch, FanoutAck, FanoutCrash, lapseVars
  <2> QED  BY <2>1
<1>2. CASE \E x \in Videos : PublishVideo(x)
  <2>1. PICK x \in Videos : PublishVideo(x)  BY <1>2
  <2>2. /\ x \notin published /\ published' = published \cup {x} /\ fanoutQ' = fanoutQ \cup {x}
        /\ fanout' = fanout /\ UNCHANGED inbox
    BY <2>1 DEF PublishVideo, socialVars, redisVars
  <2>3. CASE v = x
    <3>1. ~HasRead(x)
      <4>1. HasRead(x) => fanout # Free /\ fanout.video = x  BY DEF HasRead, Free
      <4> QED  BY <2>2, <4>1 DEF PullInv
    <3> QED  BY <2>2, <2>3, <3>1 DEF FanoutOwes, HasRead
  <2>4. CASE v # x
    <3>1. v \in published  BY <2>2, <2>4
    <3>2. Recent(v)  BY <1>0, <2>2, <3>1, RecentOnlyEnds
    <3>3. v \in inbox[u] \/ FanoutOwes(u, v)  BY <1>1, <1>m, <3>1, <3>2
    <3> QED  BY <2>2, <3>3 DEF FanoutOwes, HasRead
  <2> QED  BY <2>3, <2>4
<1>3. ASSUME UNCHANGED published
      PROVE  v \in published /\ Recent(v)
  BY <1>3 DEF Recent, Newer
<1>4. CASE UNCHANGED <<published, fanoutQ, inbox>> /\ fanout'.at \in {"idle", "ZAdd", "GetCount",
           "CountFollowers", "SetCount", "GetFollowers"}
  BY <1>1, <1>m, <1>3, <1>4 DEF FanoutOwes, HasRead
<1>5. CASE UNCHANGED <<published, fanoutQ, inbox, fanout>>
  BY <1>1, <1>m, <1>3, <1>5 DEF FanoutOwes, HasRead
<1>6. CASE FanoutGetCount
  <2>1. /\ fanout \in [at : FanoutSteps, video : Videos, count : Nat, pending : SUBSET Followers]
        /\ UNCHANGED <<published, fanoutQ, inbox>> /\ fanout.at = "GetCount"
    BY <1>0, <1>6, FanoutBusy DEF FanoutGetCount, socialVars, redisVars
  <2>2. /\ fanout'.video = fanout.video
        /\ fanout'.at \in {Push(countCache[V]), "CountFollowers"}
    BY <1>0, <1>6, <2>1 DEF FanoutGetCount, FanoutGoto
  <2>3. CASE fanout.video = v
    <3>1. ~Big(V)  BY <1>1, <1>m, <1>3, <2>1, <2>3 DEF V
    <3>2. Push(countCache[V]) = "GetFollowers"  BY <3>1 DEF Push, Big
    <3> QED  BY <1>4, <2>1, <2>2, <3>2
  <2>4. CASE fanout.video # v
    BY <1>1, <1>m, <1>3, <2>1, <2>2, <2>4 DEF FanoutOwes, HasRead
  <2> QED  BY <2>3, <2>4
<1>7. CASE FanoutGetFollowers
  <2>1. /\ fanout \in [at : FanoutSteps, video : Videos, count : Nat, pending : SUBSET Followers]
        /\ UNCHANGED <<published, fanoutQ, inbox>> /\ fanout.at = "GetFollowers"
    BY <1>0, <1>7, FanoutBusy DEF FanoutGetFollowers, socialVars, redisVars
  <2>2. /\ fanout'.video = fanout.video /\ fanout'.pending = FollowersOf(V)
        /\ fanout'.at = IF FollowersOf(V) = {} THEN "Ack" ELSE "FilterActive"
    BY <1>0, <1>7, <2>1 DEF FanoutGetFollowers
  <2>3. CASE fanout.video = v
    <3>1. p \in follows
      <4>1. p \notin follows => Coming(p, social.at = "Repo")
        BY <1>0, <1>1, <1>m, <1>3, <2>1, MissingRowComes
      <4> QED  BY <4>1 DEF Coming, BackfillReady
    <3>2. u \in FollowersOf(V)  BY <2>3, <3>1 DEF FollowersOf, V
    <3> QED  BY <1>1, <1>m, <1>3, <2>1, <2>2, <3>2 DEF FanoutOwes, HasRead
  <2>4. CASE fanout.video # v
    BY <1>1, <1>m, <1>3, <2>1, <2>2, <2>4 DEF FanoutOwes, HasRead
  <2> QED  BY <2>3, <2>4
<1>8. CASE FanoutFilterActive
  <2>1. /\ fanout \in [at : FanoutSteps, video : Videos, count : Nat, pending : SUBSET Followers]
        /\ UNCHANGED <<published, fanoutQ, inbox>> /\ fanout.at = "FilterActive"
    BY <1>0, <1>8, FanoutBusy DEF FanoutFilterActive, socialVars, redisVars
  <2>2. u \in active  BY DEF Awake
  <2>3. /\ fanout'.video = fanout.video /\ fanout'.pending = fanout.pending \cap active
        /\ fanout'.at = IF fanout.pending \cap active = {} THEN "Ack" ELSE "Batch"
    BY <1>0, <1>8, <2>1 DEF FanoutFilterActive
  <2> QED  BY <1>1, <1>m, <1>3, <2>1, <2>2, <2>3 DEF FanoutOwes, HasRead
<1>9. CASE FanoutBatch
  <2>1. /\ fanout \in [at : FanoutSteps, video : Videos, count : Nat, pending : SUBSET Followers]
        /\ UNCHANGED <<published, fanoutQ>> /\ fanout.at = "Batch" /\ fanout # Free
    BY <1>0, <1>9, FanoutBusy DEF FanoutBatch, Free
  <2>2. fanout.video \in published  BY <2>1 DEF PullInv
  <2> DEFINE Pushed(batch, written, trimmed) ==
               [x \in Followers |->
                  IF x \notin written THEN inbox[x]
                  ELSE IF x \in trimmed
                  THEN Newest(inbox[x] \cup {fanout.video}, InboxCap)
                  ELSE inbox[x] \cup {fanout.video}]
  <2>3. PICK batch \in SUBSET fanout.pending :
           /\ \E written \in {batch}, trimmed \in SUBSET batch :
                 inbox' = Pushed(batch, written, trimmed)
           /\ fanout' = [fanout EXCEPT !.pending = @ \ batch,
                                       !.at = IF batch = fanout.pending THEN "Ack" ELSE "Batch"]
    BY <1>0, <1>9 DEF FanoutBatch
  <2>4. PICK trimmed \in SUBSET batch : inbox' = Pushed(batch, batch, trimmed)
    BY <2>3
  <2>5. v \in published /\ Recent(v)  BY <1>3, <2>1
  <2>6. ASSUME v \in inbox[u] \cup (IF u \in batch THEN {fanout.video} ELSE {})
        PROVE  v \in inbox'[u]
    <3>1. u \in trimmed => v \in Newest(inbox[u] \cup {fanout.video}, InboxCap)
      BY <2>2, <2>5, <2>6, InboxKeeps DEF InboxesFilled
    <3> QED  BY <2>4, <2>6, <3>1
  <2>7. CASE FanoutOwes(u, v) /\ ~(fanout.video = v /\ u \in batch)
    <3>1. /\ fanout'.video = fanout.video /\ fanout'.pending = fanout.pending \ batch
          /\ fanout'.at = IF batch = fanout.pending THEN "Ack" ELSE "Batch"
      BY <2>1, <2>3
    <3>2. fanout.video = v => u \in fanout.pending \ batch
      BY <2>1, <2>7 DEF FanoutOwes, HasRead
    <3>3. FanoutOwes(u, v)'
      BY <2>1, <2>7, <3>1, <3>2 DEF FanoutOwes, HasRead
    <3> QED  BY <3>3
  <2> QED  BY <1>1, <1>m, <2>5, <2>6, <2>7
<1>10. CASE FanoutAck
  <2>1. /\ UNCHANGED <<published, inbox>> /\ fanoutQ' = fanoutQ \ {fanout.video}
        /\ fanout.at = "Ack" /\ fanout' = Free
    BY <1>10 DEF FanoutAck, socialVars, redisVars
  <2>2. fanout'.at = "idle"  BY <2>1 DEF Free
  <2> QED  BY <1>1, <1>m, <1>3, <2>1, <2>2 DEF FanoutOwes, HasRead
<1>11. CASE FanoutCountFollowers \/ FanoutSetCount
  <2>1. /\ fanout \in [at : FanoutSteps, video : Videos, count : Nat, pending : SUBSET Followers]
        /\ UNCHANGED <<published, fanoutQ, inbox>>
    BY <1>0, <1>11, FanoutBusy DEF FanoutCountFollowers, FanoutSetCount, socialVars, redisVars
  <2>2. CASE FanoutCountFollowers
    <3>1. fanout'.at = "SetCount"
      BY <1>0, <2>1, <2>2 DEF FanoutCountFollowers
    <3> QED  BY <1>4, <2>1, <3>1
  <2>3. CASE FanoutSetCount
    <3>1. fanout.at = "SetCount" /\ fanout'.at = Push(fanout.count)
      BY <2>1, <2>3 DEF FanoutSetCount, FanoutGoto
    <3>2. Push(fanout.count) = "GetFollowers"
      BY <1>0, <2>1, <3>1 DEF Push, ModesAgree
    <3> QED  BY <1>4, <2>1, <3>1, <3>2
  <2> QED  BY <1>11, <2>2, <2>3
<1>12. ASSUME (\E x \in Videos : FanoutReceive(x)) \/ FanoutCrash
       PROVE  UNCHANGED <<published, fanoutQ, inbox>> /\ fanout'.at \in {"ZAdd", "idle"}
  BY <1>12 DEF FanoutReceive, FanoutCrash, FanoutGivesUp, Free, socialVars, redisVars
<1>13. ASSUME \/ \E x \in Followers : FallAsleep(x) \/ Login(x)
              \/ \E b \in Vloggers : ExpireUserVideos(b)
       PROVE  UNCHANGED <<published, fanoutQ, inbox, fanout>>
  BY <1>13 DEF FallAsleep, Login, ExpireUserVideos, socialVars, redisVars
<1> QED
  BY <1>2, <1>4, <1>5, <1>6, <1>7, <1>8, <1>9, <1>10, <1>11, <1>12, <1>13 DEF FanoutNext

\* SocialWorker lists every big V that is followed, and takes none off the list that
\* was followed again: the event of the later follow is still behind it.
LEMMA SocialWorkerList ==
    ASSUME Calm, SocialTypeOK, RowInv, ListKept, SocialWorkerNext,
           \A b \in Vloggers : Big(b)' <=> Big(b)
    PROVE  ListKept'
<1>0. /\ social \in [at : SocialSteps, count : Nat, videos : SUBSET Videos, failed : BOOLEAN]
      /\ bigv \in [Followers -> SUBSET Vloggers] /\ socialQ \in Seq(Events)
      /\ countCache \in [Vloggers -> Nat \cup {NoCount}] /\ BigVThreshold \in Nat
      /\ ~RedisFails /\ ~DBFails
  BY SocialBounds DEF SocialTypeOK, Calm, Reliable
<1>1. UNCHANGED expected
  BY DEF SocialWorkerNext, SocialRepo, SocialRepoFails, SocialGetCount,
         SocialCountFollowers, SocialSetCount, SocialSAdd, SocialBackfillRead,
         SocialBackfillWrite, SocialSRem, SocialAck, SocialNack, SocialCrash, rowVars
<1> SUFFICES ASSUME NEW p \in Pairs, expected[p] = "follow", Big(p[2])'
             PROVE  p[2] \in bigv'[p[1]] \/ p \in unlisted' \/ Coming(p, ListReady)'
  BY <1>1 DEF ListKept
<1>2. p[1] \in Followers /\ p[2] \in Vloggers /\ p = <<p[1], p[2]>> /\ Big(p[2])
  <2>1. p[1] \in Followers /\ p[2] \in Vloggers /\ p = <<p[1], p[2]>>  BY DEF Pairs
  <2> QED  BY <2>1 DEF Big
<1>3. ~SocialNack /\ ~SocialRepoFails
  BY <1>0 DEF SocialNack, SocialRepoFails, SocialAt, RowInv, WorkerOrdered
<1>4. CASE Coming(p, FALSE)
  <2>1. CASE SocialAck
    <3>1. Coming(p, social.at = "Repo")'  BY <1>4, <2>1, ComingAfterAck
    <3> QED  BY <3>1 DEF Coming, ListReady
  <2>2. CASE ~SocialAck
    <3>1. UNCHANGED socialQ
      BY <1>3, <2>2 DEF SocialWorkerNext, SocialRepo, SocialGetCount, SocialCountFollowers,
         SocialSetCount, SocialSAdd, SocialBackfillRead, SocialBackfillWrite, SocialSRem, SocialCrash
    <3> QED  BY <1>4, <3>1 DEF Coming
  <2> QED  BY <2>1, <2>2
<1>5. CASE (p[2] \in bigv[p[1]] \/ p \in unlisted) /\ ~Coming(p, FALSE)
  <2>1. CASE SocialSAdd
    <3>1. /\ socialQ # <<>> /\ bigv' = [bigv EXCEPT ![Follower] = @ \cup {Vlogger}]
          /\ unlisted' = unlisted \ {Event.pair}
      BY <1>0, <2>1 DEF SocialSAdd, SocialAt
    <3>2. p = Event.pair => Follower = p[1] /\ Vlogger = p[2]  BY DEF Follower, Vlogger
    <3> QED  BY <1>0, <1>2, <1>5, <3>1, <3>2
  <2>2. CASE SocialSRem
    <3>1. /\ socialQ # <<>> /\ social.at = "SRem"
          /\ bigv' = [bigv EXCEPT ![Follower] = @ \ {Vlogger}]
          /\ unlisted' = unlisted \ {Event.pair}
      BY <1>0, <2>2 DEF SocialSRem, SocialAt
    <3>2. Event = socialQ[1] /\ Len(socialQ) \in Nat \ {0} /\ Event.action = "unfollow"
      BY <1>0, <3>1, TailFacts DEF Event, RowInv, WorkerOrdered
    <3>3. Event.pair # p
      <4> SUFFICES ASSUME Event.pair = p PROVE FALSE
        OBVIOUS
      <4>1. 1 \in 1..Len(socialQ) /\ socialQ[1].pair = p  BY <3>2
      <4>2. PICK j \in 1..Len(socialQ) : socialQ[j].pair = p /\ IsLast(j)
        BY <1>0, <4>1, LastExists DEF IsLast
      <4>3. socialQ[j].action = "follow"  BY <4>2 DEF RowInv, QueueOrdered
      <4>4. socialQ[j] \in Events /\ j # 1  BY <1>0, <3>2, <4>3
      <4>5. socialQ[j] = [action |-> "follow", pair |-> p]  BY <4>2, <4>3, <4>4 DEF Events
      <4> QED  BY <1>5, <4>4, <4>5 DEF Coming
    <3>4. Event.pair = <<Follower, Vlogger>> /\ Follower \in Followers
      BY <3>1, HeadTyped DEF Pairs, Follower, Vlogger
    <3> QED  BY <1>0, <1>2, <1>5, <3>1, <3>3, <3>4
  <2>3. CASE ~SocialSAdd /\ ~SocialSRem
    <3>1. UNCHANGED <<bigv, unlisted>>
      BY <2>3 DEF SocialWorkerNext, SocialRepo, SocialRepoFails, SocialGetCount,
         SocialCountFollowers, SocialSetCount, SocialBackfillRead, SocialBackfillWrite,
         SocialAck, SocialNack, SocialCrash, redisVars
    <3> QED  BY <1>5, <3>1
  <2> QED  BY <2>1, <2>2, <2>3
<1>6. CASE Coming(p, ListReady) /\ ~Coming(p, FALSE)
  <2>1. Coming(p, TRUE) /\ ListReady  BY <1>6 DEF Coming
  <2>2. /\ socialQ # <<>> /\ Event = [action |-> "follow", pair |-> p]
        /\ Len(socialQ) \in Nat \ {0} /\ socialQ[1] = Event
    BY <1>6, <2>1, HeadIsComing
  <2>3. Follower = p[1] /\ Vlogger = p[2]  BY <2>2 DEF Follower, Vlogger
  <2>4. ASSUME UNCHANGED socialQ, ListReady'
        PROVE  Coming(p, ListReady)'
    <3>1. 1 \in 1..Len(socialQ') /\ socialQ'[1] = [action |-> "follow", pair |-> p]
      BY <2>2, <2>4
    <3> QED  BY <2>4, <3>1 DEF Coming
  <2>5. CASE SocialRepo
    <3>1. UNCHANGED socialQ /\ social'.at = "GetCount"
      BY <1>0, <2>2, <2>5 DEF SocialRepo
    <3> QED  BY <2>4, <3>1 DEF ListReady
  <2>6. CASE SocialGetCount
    <3>1. countCache[Vlogger] # NoCount /\ Strategy(countCache[Vlogger]) = "SAdd"
      BY <1>0, <1>2, <2>3 DEF Strategy, Big, NoCount
    <3>2. UNCHANGED socialQ /\ social'.at = Strategy(countCache[Vlogger])
      BY <1>0, <2>6, <3>1 DEF SocialGetCount
    <3> QED  BY <2>4, <3>1, <3>2 DEF ListReady
  <2>7. CASE SocialSAdd
    <3>1. bigv' = [bigv EXCEPT ![Follower] = @ \cup {Vlogger}]
      BY <1>0, <2>7 DEF SocialSAdd
    <3> QED  BY <1>0, <1>2, <2>3, <3>1
  <2>8. CASE SocialCrash
    <3>1. UNCHANGED socialQ /\ social' = Waiting  BY <2>8 DEF SocialCrash
    <3>2. social'.at = "Repo"  BY <3>1 DEF Waiting
    <3> QED  BY <2>4, <3>1, <3>2 DEF ListReady
  <2>9. CASE \/ SocialCountFollowers \/ SocialSetCount \/ SocialBackfillRead
             \/ SocialBackfillWrite \/ SocialSRem \/ SocialAck
    BY <2>1, <2>9 DEF SocialCountFollowers, SocialSetCount, SocialBackfillRead,
         SocialBackfillWrite, SocialSRem, SocialAck, SocialAt, ListReady
  <2> QED
    BY <1>3, <2>5, <2>6, <2>7, <2>8, <2>9 DEF SocialWorkerNext
<1> QED
  BY <1>2, <1>4, <1>5, <1>6 DEF ListKept

LEMMA HandlerList ==
    ASSUME Calm, SocialTypeOK, RowInv, ListKept, NEW h \in Handlers, HandlerNext(h)
    PROVE  ListKept'
<1>0. UNCHANGED <<social, countCache, bigv, unlisted>>
  BY HandlerKeepsRedis
<1> SUFFICES ASSUME NEW p \in Pairs, expected'[p] = "follow", Big(p[2]),
                    p[2] \notin bigv[p[1]], p \notin unlisted
             PROVE  Coming(p, ListReady)'
  BY <1>0 DEF ListKept, Big
<1>1. CASE Publish(h)
  <2>1. /\ Len(socialQ') = Len(socialQ) + 1 /\ Len(socialQ) \in Nat
        /\ \A i \in 1..Len(socialQ) : socialQ'[i] = socialQ[i]
        /\ expected[p] = "follow" \/ Coming(p, social.at = "Repo")'
    BY <1>1, PublishComes
  <2>2. CASE Coming(p, social.at = "Repo")'
    BY <2>2 DEF Coming, ListReady
  <2>3. CASE expected[p] = "follow"
    <3>1. PICK i \in 1..Len(socialQ) : /\ socialQ[i] = [action |-> "follow", pair |-> p]
                                       /\ i = 1 => ListReady
      BY <2>3 DEF ListKept, Coming
    <3>2. i \in 1..Len(socialQ') /\ socialQ'[i] = [action |-> "follow", pair |-> p]
      BY <2>1, <3>1
    <3>3. i = 1 => ListReady'  BY <1>0, <3>1 DEF ListReady
    <3> QED  BY <3>2, <3>3 DEF Coming
  <2> QED  BY <2>1, <2>2, <2>3
<1>2. CASE ~Publish(h)
  <2>1. UNCHANGED <<expected, socialQ, social>>
    BY <1>2, HandlerElse DEF Calm
  <2>2. Coming(p, ListReady)  BY <2>1 DEF ListKept
  <2> QED  BY <2>1, <2>2 DEF Coming, ListReady
<1> QED  BY <1>1, <1>2

LEMMA FanoutList ==
    ASSUME ListKept, FanoutNext, \A b \in Vloggers : Big(b)' <=> Big(b)
    PROVE  ListKept'
<1>1. UNCHANGED <<expected, socialQ, social, bigv, unlisted>>  BY FanoutKeepsRows
<1>2. ASSUME NEW p \in Pairs, Big(p[2])' PROVE Big(p[2])
  <2>1. p[2] \in Vloggers  BY DEF Pairs
  <2> QED  BY <1>2, <2>1 DEF Big
<1> QED  BY <1>1, <1>2 DEF ListKept, Coming, ListReady

\* A big V that leaves following:bigv with the whole set is noted.
LEMMA ExpireBigVList ==
    ASSUME SocialTypeOK, ListKept, NEW u \in Followers, ExpireBigV(u)
    PROVE  ListKept'
<1>1. UNCHANGED <<expected, socialQ, social, countCache>>
  BY ExpireBigVKeepsRows
<1>2. /\ bigv' = [bigv EXCEPT ![u] = {}] /\ unlisted' = unlisted \cup ({u} \X bigv[u])
      /\ bigv \in [Followers -> SUBSET Vloggers]
  BY DEF ExpireBigV, SocialTypeOK
<1>3. ASSUME NEW p \in Pairs, p[2] \in bigv[p[1]] \/ p \in unlisted
      PROVE  p[2] \in bigv'[p[1]] \/ p \in unlisted'
  <2>1. p[1] \in Followers /\ p = <<p[1], p[2]>>  BY DEF Pairs
  <2> QED  BY <1>2, <1>3, <2>1
<1> QED  BY <1>1, <1>3 DEF ListKept, Coming, ListReady, Big

-----------------------------------------------------------------------------
(* What a TTL took.                                                        *)

LEMMA SocialMissedKept ==
    ASSUME TypeOK, InboxesFilled, MissedKept, SocialWorkerNext, UNCHANGED fanoutVars
    PROVE  MissedKept'
<1>1. UNCHANGED <<published, lapsed, missed>>  BY DEF fanoutVars, lapseVars
<1>2. \A v : Recent(v)' => Recent(v)  BY <1>1 DEF Recent, Newer
<1> QED  BY <1>1, <1>2, SocialInboxKept DEF MissedKept

\* A video that lapses is in the inbox or missed; one that is filled in again lapses no more.
LEMMA FanoutMissedKept ==
    ASSUME TypeOK, PullInv, InboxesFilled, MissedKept, FanoutNext
    PROVE  MissedKept'
<1>0. lapsed \subseteq published /\ published \subseteq published' /\ published' \subseteq Videos
  BY DEF PullInv, TypeOK, FanoutNext, PublishVideo, FanoutReceive, FallAsleep, Login,
     ExpireUserVideos, FanoutZAdd, FanoutGetCount, FanoutCountFollowers, FanoutSetCount,
     FanoutGetFollowers, FanoutFilterActive, FanoutBatch, FanoutAck, FanoutCrash
<1> SUFFICES ASSUME NEW u \in Followers, NEW v \in lapsed', Recent(v)'
             PROVE  v \in inbox'[u] \/ <<u, v>> \in missed'
  BY DEF MissedKept
<1>1. ASSUME v \in lapsed PROVE v \in inbox'[u] \/ <<u, v>> \in missed
  <2>1. Recent(v)  BY <1>0, <1>1, RecentOnlyEnds
  <2> QED  BY <1>1, <2>1, FanoutInboxKept DEF MissedKept
<1>2. ASSUME NEW b \in Vloggers, ExpireUserVideos(b)
      PROVE  v \in inbox'[u] \/ <<u, v>> \in missed'
  <2>1. /\ lapsed' = lapsed \cup userVideos[b] /\ UNCHANGED inbox
        /\ missed' = missed \cup {m \in Followers \X userVideos[b] : m[2] \notin inbox[m[1]]}
    BY <1>2 DEF ExpireUserVideos
  <2>2. CASE v \in lapsed  BY <1>1, <2>1, <2>2
  <2>3. CASE v \in userVideos[b]
    <3>1. <<u, v>> \in Followers \X userVideos[b]  BY <2>3
    <3> QED  BY <2>1, <3>1
  <2> QED  BY <2>1, <2>2, <2>3
<1>3. CASE FanoutZAdd
  <2>1. \/ lapsed' = lapsed \ {fanout.video} /\ missed' = {m \in missed : m[2] # fanout.video}
        \/ UNCHANGED <<lapsed, missed>>
    BY <1>3 DEF FanoutZAdd, Renewed, lapseVars
  <2> QED  BY <1>1, <2>1
<1>4. CASE UNCHANGED <<lapsed, missed>>
  BY <1>1, <1>4
<1> QED
  BY <1>2, <1>3, <1>4 DEF FanoutNext, PublishVideo, FanoutReceive, FallAsleep, Login,
     FanoutGetCount, FanoutCountFollowers, FanoutSetCount, FanoutGetFollowers,
     FanoutFilterActive, FanoutBatch, FanoutAck, FanoutCrash, lapseVars

-----------------------------------------------------------------------------
(* The theorem.                                                            *)

\* Every action keeps all of it.
LEMMA VisibleKept ==
    ASSUME Calm, TypeOK, RowInv, PullInv, VisibleInv, [Next]_vars
    PROVE  VisibleInv'
<1> USE DEF VisibleInv
<1>1. CASE SocialStep
  <2>1. /\ UNCHANGED fanoutVars /\ SocialTypeOK
        /\ UNCHANGED <<published, fanoutQ, fanout, active, lapsed, missed>>
    BY <1>1 DEF SocialStep, fanoutVars, lapseVars, TypeOK
  <2>2. ASSUME NEW h \in Handlers, HandlerNext(h) PROVE VisibleInv'
    <3>1. UNCHANGED <<social, countCache, bigv, userVideos, inbox>>
      BY <2>2, HandlerKeepsRedis
    <3>2. \A b \in Vloggers : Big(b)' <=> Big(b)  BY <3>1 DEF Big
    <3>3. socialQ # <<>> => Vlogger' = Vlogger  BY <2>1, <2>2, AppendKeepsHead
    <3>4. InboxesFilled'  BY <2>1, <3>1, <3>2, <3>3, InboxAlone
    <3>5. ModesAgree'  BY <2>1, <2>2, HandlerModes DEF Calm
    <3>6. PushKept'  BY <2>1, <2>2, HandlerPush
    <3>7. ListKept'  BY <2>1, <2>2, HandlerList
    <3>8. Awake'  BY <2>1 DEF Awake
    <3>9. MissedKept'  BY <2>1, <3>1 DEF MissedKept, Recent, Newer
    <3> QED  BY <3>4, <3>5, <3>6, <3>7, <3>8, <3>9
  <2>3. ASSUME SocialWorkerNext PROVE VisibleInv'
    <3>1. ModesAgree' /\ \A b \in Vloggers : Big(b)' <=> Big(b)
      BY <2>1, <2>3, SocialWorkerModes
    <3>2. InboxesFilled'  BY <2>1, <2>3, <3>1, SocialWorkerInboxes
    <3>3. PushKept'  BY <2>1, <2>3, <3>1, SocialWorkerPush
    <3>4. ListKept'  BY <2>1, <2>3, <3>1, SocialWorkerList
    <3>5. Awake'  BY <2>1 DEF Awake
    <3>6. MissedKept'  BY <2>1, <2>3, SocialMissedKept
    <3> QED  BY <3>1, <3>2, <3>3, <3>4, <3>5, <3>6
  <2>4. ASSUME NEW u \in Followers, ExpireBigV(u) PROVE VisibleInv'
    <3>1. UNCHANGED <<follows, expected, handler, socialQ, social, countCache, inbox>>
      BY <2>4, ExpireBigVKeepsRows
    <3>2. ModesAgree' /\ InboxesFilled' /\ Awake' /\ MissedKept'
      BY <2>1, <3>1 DEF ModesAgree, InboxesFilled, Awake, MissedKept, Recent, Newer, Big, Vlogger,
                        Event, V
    <3>3. PushKept'
      BY <2>1, <3>1 DEF PushKept, Coming, BackfillReady, FanoutOwes, HasRead, Recent, Newer, Big
    <3>4. ListKept'  BY <2>1, <2>4, ExpireBigVList
    <3> QED  BY <3>2, <3>3, <3>4
  <2> QED  BY <1>1, <2>2, <2>3, <2>4 DEF SocialStep, SocialNext
<1>2. CASE FanoutNext
  <2>1. ModesAgree' /\ \A b \in Vloggers : Big(b)' <=> Big(b)
    BY <1>2, FanoutModes
  <2>2. InboxesFilled'  BY <1>2, <2>1, FanoutInboxes
  <2>3. PushKept'  BY <1>2, <2>1, FanoutPush
  <2>4. ListKept'  BY <1>2, <2>1, FanoutList
  <2>5. Awake'
    BY <1>2 DEF Awake, FanoutNext, PublishVideo, FanoutReceive, FallAsleep, Login,
         ExpireUserVideos, FanoutZAdd, FanoutGetCount, FanoutCountFollowers, FanoutSetCount,
         FanoutGetFollowers, FanoutFilterActive, FanoutBatch, FanoutAck, FanoutCrash
  <2>6. MissedKept'  BY <1>2, FanoutMissedKept
  <2> QED  BY <2>1, <2>2, <2>3, <2>4, <2>5, <2>6
<1>3. CASE UNCHANGED vars
  <2>1. UNCHANGED <<follows, expected, handler, socialQ, social, countCache, bigv, unlisted,
                    userVideos, inbox, published, fanoutQ, fanout, active, lapsed, missed>>
    BY <1>3 DEF vars, socialVars, rowVars, redisVars, fanoutVars, lapseVars
  <2>2. ModesAgree' /\ InboxesFilled'
    BY <2>1 DEF ModesAgree, InboxesFilled, Big, Vlogger, Event, V
  <2>3. PushKept'
    BY <2>1 DEF PushKept, Coming, BackfillReady, FanoutOwes, HasRead, Recent, Newer, Big
  <2>4. ListKept'
    BY <2>1 DEF ListKept, Coming, ListReady, Big
  <2>5. Awake' /\ MissedKept'  BY <2>1 DEF Awake, MissedKept, Recent, Newer
  <2> QED  BY <2>2, <2>3, <2>4, <2>5
<1> QED  BY <1>1, <1>2, <1>3 DEF Next

\* What it says when everything has settled.
LEMMA SettledIsVisible ==
    ASSUME TypeOK, RowInv, PullInv, VisibleInv
    PROVE  FollowedVideosVisible
<1> SUFFICES ASSUME Quiet, NEW u \in Followers \ Sleepers, NEW v \in published,
                    <<u, Author[v]>> \in follows \ unlisted, <<u, v>> \notin missed,
                    Recent(v), ~Outdated(u, Author[v])
             PROVE  v \in ListByFollowing(u)
  BY DEF FollowedVideosVisible
<1> DEFINE p == <<u, Author[v]>>
<1>1. /\ published \subseteq Videos /\ Author[v] \in Vloggers /\ p \in Pairs
      /\ Len(socialQ) = 0 /\ fanoutQ = {}
  BY AuthorTyped DEF TypeOK, Pairs, Quiet, SocialQuiet
<1>2. expected[p] = "follow"
  <2>1. Applied(p)  BY <1>1 DEF Applied
  <2> QED  BY <1>1, <2>1 DEF RowInv, RowsApplied
<1>3. ASSUME v \in Merged(u) PROVE v \in ListByFollowing(u)
  BY <1>3 DEF ListByFollowing
<1>4. CASE ~Big(Author[v])
  <2>1. v \in inbox[u]
    <3>1. ~FanoutOwes(u, v)  BY <1>1 DEF FanoutOwes
    <3>2. ~Coming(p, BackfillReady(v))  BY <1>1 DEF Coming
    <3> QED  BY <1>2, <1>4, <3>1, <3>2 DEF VisibleInv, PushKept
  <2> QED  BY <1>3, <2>1 DEF Merged
<1>5. CASE Big(Author[v]) /\ v \in inbox[u]
  BY <1>3, <1>5 DEF Merged
<1>6. CASE Big(Author[v]) /\ v \notin inbox[u]
  <2>1. Author[v] \in bigv[u]
    <3>1. ~Coming(p, ListReady)  BY <1>1 DEF Coming
    <3>2. p[1] = u /\ p[2] = Author[v] /\ Big(Author[v])  BY <1>1, <1>6
    <3> QED  BY <1>1, <1>2, <3>1, <3>2 DEF VisibleInv, ListKept
  <2>2. v \in userVideos[Author[v]]
    <3>1. v \notin lapsed  BY <1>6 DEF VisibleInv, MissedKept
    <3> QED  BY <1>1, <3>1 DEF PullInv, Recent
  <2>3. Author[v] \in Sampled(u)
    <3>1. CASE inbox[u] = {}
      BY <2>1, <3>1 DEF Sampled
    <3>2. CASE inbox[u] # {}
      <4>1. PICK w \in published \ lapsed, x \in inbox[u] : Author[w] = Author[v] /\ ~(w <= x)
        BY <2>1, <3>2 DEF Outdated
      <4>2. x \in Nat /\ w \in Nat /\ v \in Nat
        <5>1. inbox[u] \subseteq Videos  BY DEF TypeOK, SocialTypeOK
        <5> QED  BY <1>1, <4>1, <5>1, VideosNumbered
      <4>3. CASE w <= v
        <5>1. v > x  BY <4>1, <4>2, <4>3
        <5> QED  BY <2>1, <2>2, <5>1 DEF Sampled
      <4>4. CASE w > v
        <5>1. Newer(w) \subseteq Newer(v) /\ Newer(v) \subseteq Videos
          <6>1. \A n \in published : n \in Nat /\ (n > w => n > v)
            BY <1>1, <4>2, <4>4, VideosNumbered
          <6> QED  BY <1>1, <4>1, <6>1 DEF Newer
        <5>2. Cardinality(Newer(w)) < UserVideosCap
          <6>1. IsFiniteSet(Newer(v))  BY <5>1, FS_Subset, VideosNumbered
          <6>2. /\ Cardinality(Newer(w)) <= Cardinality(Newer(v))
                /\ Cardinality(Newer(w)) \in Nat /\ Cardinality(Newer(v)) \in Nat
            BY <5>1, <6>1, FS_Subset, FS_CardinalityType
          <6> QED  BY <6>2, SocialBounds DEF Recent
        <5>3. w \in userVideos[Author[v]]  BY <1>1, <4>1, <5>2 DEF PullInv
        <5>4. w > x  BY <4>1, <4>2
        <5> QED  BY <2>1, <5>3, <5>4 DEF Sampled
      <4> QED  BY <4>2, <4>3, <4>4
    <3> QED  BY <3>1, <3>2
  <2>4. v \in Newest(userVideos[Author[v]], PullQuota)
    <3> DEFINE later == {w \in userVideos[Author[v]] : w > v}
    <3>1. later \subseteq Newer(v) /\ Newer(v) \subseteq Videos
      BY <1>1 DEF PullInv, Newer
    <3>2. IsFiniteSet(Newer(v))  BY <3>1, FS_Subset, VideosNumbered
    <3>3. Cardinality(later) <= Cardinality(Newer(v))
          /\ Cardinality(later) \in Nat /\ Cardinality(Newer(v)) \in Nat
      BY <3>1, <3>2, FS_Subset, FS_CardinalityType
    <3>4. Cardinality(later) < PullQuota  BY <3>3, FanoutBounds DEF Recent
    <3> QED  BY <2>2, <3>4 DEF Newest
  <2>5. v \in Merged(u)  BY <2>3, <2>4 DEF Merged
  <2> QED  BY <1>3, <2>5
<1> QED  BY <1>4, <1>5, <1>6

\* All its parts hold in every reachable state.
LEMMA VisibleInvCorrect ==
    ASSUME Calm
    PROVE  Spec => []VisibleInv
<1>1. Init => VisibleInv
  <2> SUFFICES ASSUME Init PROVE VisibleInv
    OBVIOUS
  <2>1. /\ socialQ = <<>> /\ social = Waiting /\ fanout = Free /\ published = {}
        /\ inbox = [u \in Followers |-> {}] /\ active = Followers
        /\ expected = [p \in Pairs |-> "unfollow"] /\ lapsed = {}
    BY DEF Init, SocialInit
  <2>2. social.at = "Repo" /\ fanout.at = "idle"  BY <2>1 DEF Waiting, Free
  <2> QED  BY <2>1, <2>2 DEF VisibleInv, ModesAgree, Awake, InboxesFilled, PushKept, ListKept,
                             MissedKept
<1>2. TypeOK /\ RowInv /\ PullInv /\ VisibleInv /\ [Next]_vars => VisibleInv'
  BY VisibleKept
<1>3. Reliable  BY DEF Calm
<1>4. Spec => []RowInv  BY <1>3, RowInvCorrect
<1> QED  BY <1>1, <1>2, <1>4, TypeCorrect, PullInvCorrect, PTL DEF Spec

\* If users wait for their answers, nothing but the workers and the API crashes and nobody
\* has followers enough to become a big V, every recent video of every vlogger followed is
\* in the feed of whoever stays awake when all has settled, whenever TTLs run out, except
\* for what a TTL took: a fanout reads the followers after it has filled user_videos, a
\* follow reads user_videos after it has written its row, and one of the two sees the other.
\* A video that is in an inbox when its user_videos runs out stays visible there.  Vloggers
\* who are pushed and big Vs may mix.
THEOREM VisibleCorrect ==
    ASSUME Calm
    PROVE  Spec => []FollowedVideosVisible
<1>1. TypeOK /\ RowInv /\ PullInv /\ VisibleInv => FollowedVideosVisible
  BY SettledIsVisible
<1>2. Reliable  BY DEF Calm
<1>3. Spec => []RowInv  BY <1>2, RowInvCorrect
<1> QED  BY <1>1, <1>3, VisibleInvCorrect, TypeCorrect, PullInvCorrect, PTL

\* following:bigv lists nobody who is pushed.
OnlyBigVsListed == \A u \in Followers : \A b \in bigv[u] : Big(b)

LEMMA OnlyBigVsListedStep ==
    ASSUME Calm, TypeOK, RowInv, VisibleInv, OnlyBigVsListed, [Next]_vars
    PROVE  OnlyBigVsListed'
<1>0. bigv \in [Followers -> SUBSET Vloggers] /\ SocialTypeOK
  BY DEF TypeOK, SocialTypeOK
<1>1. ASSUME UNCHANGED bigv, \A b \in Vloggers : Big(b)' <=> Big(b)
      PROVE  OnlyBigVsListed'
  BY <1>0, <1>1 DEF OnlyBigVsListed, Big
<1>2. ASSUME SocialWorkerNext, UNCHANGED fanoutVars
      PROVE  OnlyBigVsListed'
  <2>1. \A b \in Vloggers : Big(b)' <=> Big(b)
    BY <1>0, <1>2, SocialWorkerModes DEF VisibleInv, fanoutVars
  <2>2. CASE SocialSAdd
    <3>1. Big(Vlogger)  BY <2>2 DEF SocialSAdd, SocialAt, VisibleInv, ModesAgree
    <3>2. \A u \in Followers : bigv'[u] \subseteq bigv[u] \cup {Vlogger}
      BY <1>0, <2>2 DEF SocialSAdd
    <3>3. UNCHANGED countCache  BY <2>2 DEF SocialSAdd
    <3> QED  BY <3>1, <3>2, <3>3 DEF OnlyBigVsListed, Big
  <2>3. CASE SocialSRem
    <3>1. \A u \in Followers : bigv'[u] \subseteq bigv[u]
      BY <1>0, <2>3 DEF SocialSRem
    <3>2. UNCHANGED countCache  BY <2>3 DEF SocialSRem
    <3> QED  BY <3>1, <3>2 DEF OnlyBigVsListed, Big
  <2>4. CASE ~SocialSAdd /\ ~SocialSRem
    <3>1. UNCHANGED bigv
      BY <1>2, <2>4 DEF SocialWorkerNext, SocialRepo, SocialRepoFails, SocialGetCount,
         SocialCountFollowers, SocialSetCount, SocialBackfillRead, SocialBackfillWrite,
         SocialAck, SocialNack, SocialCrash, redisVars
    <3> QED  BY <1>1, <2>1, <3>1
  <2> QED  BY <2>2, <2>3, <2>4
<1>3. ASSUME NEW h \in Handlers, HandlerNext(h)
      PROVE  OnlyBigVsListed'
  <2>1. UNCHANGED <<countCache, bigv>>  BY <1>3, HandlerKeepsRedis
  <2> QED  BY <2>1 DEF OnlyBigVsListed, Big
<1>4. CASE FanoutNext
  <2>1. UNCHANGED bigv  BY <1>4, FanoutKeepsRows
  <2>2. \A b \in Vloggers : Big(b)' <=> Big(b)  BY <1>4, FanoutModes DEF VisibleInv
  <2> QED  BY <1>1, <2>1, <2>2
<1>5. CASE UNCHANGED vars
  <2>1. UNCHANGED <<countCache, bigv>>  BY <1>5 DEF vars, socialVars, redisVars
  <2> QED  BY <2>1 DEF OnlyBigVsListed, Big
<1>6. ASSUME NEW u \in Followers, ExpireBigV(u)
      PROVE  OnlyBigVsListed'
  <2>1. UNCHANGED countCache /\ \A w \in Followers : bigv'[w] \subseteq bigv[w]
    BY <1>0, <1>6, ExpireBigVKeepsRows, ExpireBigVShrinks
  <2> QED  BY <2>1 DEF OnlyBigVsListed, Big
<1> QED  BY <1>2, <1>3, <1>4, <1>5, <1>6 DEF Next, SocialStep, SocialNext

\* Under the same conditions the pull is confined to big Vs: a vlogger who is pushed is
\* never listed, so it is never asked for, nor ever outdated.
THEOREM OnlyBigVsListedCorrect ==
    ASSUME Calm
    PROVE  Spec => []OnlyBigVsListed
<1>1. Init => OnlyBigVsListed
  BY DEF Init, SocialInit, OnlyBigVsListed
<1>2. TypeOK /\ RowInv /\ VisibleInv /\ OnlyBigVsListed /\ [Next]_vars => OnlyBigVsListed'
  BY OnlyBigVsListedStep
<1>3. Reliable  BY DEF Calm
<1>4. Spec => []RowInv  BY <1>3, RowInvCorrect
<1> QED  BY <1>1, <1>2, <1>4, VisibleInvCorrect, TypeCorrect, PTL DEF Spec
=============================================================================
