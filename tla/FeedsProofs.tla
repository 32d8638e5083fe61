---------------------------- MODULE FeedsProofs ----------------------------
(* Theorems about the walks through the three feeds, for any videos, page  *)
(* size, length of the timeline, windows and weights, and with everything  *)
(* that may fail.                                                          *)
EXTENDS Feeds, FiniteSetTheorems, WellFoundedInduction, TLAPS

-----------------------------------------------------------------------------
(* The inductive invariant.                                                *)

\* All that was shown lies at or above the cursor, what is in hand below it.
LatestBehind ==
    /\ delivered = Cardinality(shown)
    /\ \A v \in shown : cursor # NoCursor /\ cursor <= CreateTime[v]
    /\ \A v \in request.base : cursor = NoCursor \/ CreateTime[v] < cursor
    /\ flight.videos \subseteq published

LatestIInv == LatestTypeOK /\ LatestBehind

\* The cursor parts what was shown from what is still to come, but for the videos
\* whose likes have carried them to the other side.
LikesParted ==
    /\ ~asked => shown = {} /\ hasMore /\ likesCursor = <<>>
    /\ asked /\ hasMore =>
          /\ likesCursor # <<>>
          /\ \A v \in shown \ fell : ~BehindCursor(v, likesCursor[1], likesCursor[2])
          /\ \A v \in (Rows \ shown) \ rose : BehindCursor(v, likesCursor[1], likesCursor[2])

LikesIInv == LikesTypeOK /\ LikesParted /\ LikesNoRepeats /\ LikesComplete

\* Members of S, none of them twice.
Lists(s, n, S) ==
    /\ s \in [1 .. n -> S]
    /\ \A i, j \in 1 .. n : s[i] = s[j] => i = j

IsRanking(s) == \E n \in Nat : Lists(s, n, Videos)

\* A request in flight belongs to a walk that goes on, and whatever is stored is a ranking.
HotKept ==
    /\ \A t \in Minutes : IsRanking(snapshot[t])
    /\ IsRanking(ranking)
    /\ hotRequest.at # "idle" => hasMore /\ hotRequest.asOf \in Minutes

HotUnread ==
    source = "none" =>
       /\ shown = {} /\ delivered = 0
       /\ hasMore /\ steady
       /\ hotCursor = NoHotCursor

\* In a snapshot, what was shown is what comes before the offset.
SnapshotWalked ==
    source = "hot" /\ steady =>
       /\ delivered = Cardinality(shown)
       /\ hasMore =>
             /\ 1 .. hotCursor.offset \subseteq DOMAIN ranking
             /\ shown = {ranking[i] : i \in 1 .. hotCursor.offset}
       /\ ~hasMore /\ ToSet(ranking) \subseteq Rows => ToSet(ranking) \subseteq shown

\* In table videos, the cursor parts what was shown from what is still to come.
TableWalked ==
    source = "db" /\ steady =>
       /\ delivered = Cardinality(shown)
       /\ hasMore =>
             /\ hotCursor.last \in Videos
             /\ hotCursor.pop = popularity[hotCursor.last]
             /\ \A v \in shown : ~Behind(popularity[v], v, hotCursor.pop, hotCursor.last)
             /\ \A v \in (ToSet(ranking) \cap Rows) \ shown :
                   Behind(popularity[v], v, hotCursor.pop, hotCursor.last)
       /\ ~hasMore => ToSet(ranking) \cap Rows \subseteq shown

HotWalked == HotUnread /\ SnapshotWalked /\ TableWalked

HotIInv == HotTypeOK /\ HotKept /\ HotWalked

\* A feed that is not open is not read.
FeedsApart ==
    /\ feed # "latest" => cursor = NoCursor /\ pending = {} /\ timeline = {}
    /\ feed # "hot" => source = "none"
    /\ feed # "likes" => ~asked /\ repeated = {} /\ fell = {}

IInv ==
    /\ TypeOK
    /\ FeedsApart
    /\ feed = "latest" => LatestIInv
    /\ feed = "hot" => HotIInv
    /\ feed = "likes" => LikesIInv

\* Published since the flight has read, so it is not for the flight to write.
Late(u) == u \notin flight.videos /\ \E x \in flight.videos : CreateTime[x] < CreateTime[u]

\* Consumed, and above all that the flight has read.
AboveFlight == {w \in published \ pending : \A x \in flight.videos : CreateTime[x] < CreateTime[w]}

ConsumedInOrder ==
    \A v \in published \ pending, w \in pending : CreateTime[v] <= CreateTime[w]

\* On the timeline is v, or another video of its millisecond: a trim cuts anywhere
\* between those.
InSight(v) == \E k \in timeline : CreateTime[k] = CreateTime[v]

\* The times of the timeline have no gap above its oldest video.
Gapless ==
    \A w \in timeline, v \in Rows \ pending : CreateTime[w] < CreateTime[v] => InSight(v)

\* Nor will they have one when the flight has written: what came late is in sight, and
\* no trim takes the last of its millisecond off, for there are too few videos above it.
FlightFits ==
    flight.read =>
       /\ \A v \in Rows \ pending : Late(v) => InSight(v)
       /\ \A u \in Rows : Late(u) =>
             /\ \A x \in flight.videos : CreateTime[x] <= CreateTime[u]
             /\ \A k \in timeline \cap pending : CreateTime[k] <= CreateTime[u]
       /\ \A u \in Rows \ pending : Late(u) => Cardinality(AboveFlight) < TimelineCap

\* v shares its millisecond with another video of S.
Twin(v, S) == \E w \in S \ {v} : CreateTime[w] = CreateTime[v]

\* What is due and neither in hand nor excused, and has no twin that is, is not newer
\* than what is in hand, so that the stitching query still finds it.
RequestFits ==
    /\ due \subseteq published \ pending
    /\ request.at # "idle" => hasMore
    /\ request.at = "stitch" =>
          \A v \in due \cap Rows : cursor = NoCursor \/ CreateTime[v] < cursor =>
             \/ v \in request.base \cup excused
             \/ Twin(v, request.base \cup excused \cup deleted)
             \/ \A w \in request.base : CreateTime[v] <= CreateTime[w]

LatestWhole == ConsumedInOrder /\ Gapless /\ FlightFits /\ RequestFits /\ LatestComplete

WholeIInv ==
    /\ feed = "latest" => LatestWhole
    /\ feed # "latest" => due = {}

-----------------------------------------------------------------------------
(* Videos, pages and times.                                                *)

LEMMA SomeVideos ==
    ASSUME NEW S \in SUBSET Videos
    PROVE  IsFiniteSet(S) /\ Cardinality(S) \in Nat
BY VideosTyped, FS_Subset, FS_CardinalityType

LEMMA EmptySize == Cardinality({}) = 0
BY FS_EmptySet

LEMMA JoinSizes ==
    ASSUME NEW S \in SUBSET Videos, NEW T \in SUBSET Videos, S \cap T = {}
    PROVE  Cardinality(S \cup T) = Cardinality(S) + Cardinality(T)
BY SomeVideos, FS_Union, EmptySize

LEMMA PagesAreRows ==
    ASSUME NEW S, NEW n, NEW P \in Newest(S, n)
    PROVE  P \subseteq S
BY DEF Newest

\* A page that is not empty has a last item.
LEMMA OldestExists ==
    ASSUME NEW P \in SUBSET Videos, P # {}
    PROVE  /\ OldestTime(P) \in {CreateTime[v] : v \in P}
           /\ \A v \in P : OldestTime(P) <= CreateTime[v]
           /\ OldestTime(P) \in Nat /\ OldestTime(P) \in Times
<1> DEFINE times == {CreateTime[v] : v \in P}
           less == {ss \in Nat \X Nat : ss[1] < ss[2]}
<1>1. times \subseteq Nat /\ times # {}
  BY CreateTimeTyped
<1>2. IsWellFoundedOn(less, Nat)
  BY NatLessThanWellFounded DEF OpToRel
<1>3. \E t \in times : \A u \in times : ~(<<u, t>> \in less)
  <2> HIDE DEF times, less
  <2> QED
    BY <1>1, <1>2, WFMin
<1>4. PICK t \in times : \A u \in times : t <= u
  <2>1. PICK t \in times : \A u \in times : ~(<<u, t>> \in less)
    BY <1>3
  <2>2. ASSUME NEW u \in times PROVE t <= u
    <3>1. t \in Nat /\ u \in Nat
      BY <1>1, <2>1
    <3>2. u < t => <<u, t>> \in less
      BY <3>1
    <3> HIDE DEF times, less
    <3> QED
      BY <2>1, <3>1, <3>2
  <2> QED
    BY <2>1, <2>2
<1>5. \A v \in P : t <= CreateTime[v]
  BY <1>4
<1>6. OldestTime(P) \in times /\ \A v \in P : OldestTime(P) <= CreateTime[v]
  BY <1>5 DEF OldestTime
<1> QED
  BY <1>1, <1>6 DEF Times

-----------------------------------------------------------------------------
(* The latest feed.                                                        *)

\* An answer below the cursor, whose cold part is older than its hot part, repeats
\* nothing and moves the cursor to its end.
LEMMA AnswerKeepsBehind ==
    ASSUME LatestTypeOK, LatestBehind,
           NEW hot \in SUBSET Videos, NEW cold \in SUBSET Videos,
           \A v \in hot \cup cold : cursor = NoCursor \/ CreateTime[v] < cursor,
           \A v \in hot, w \in cold : CreateTime[w] < CreateTime[v],
           AnswerLatest(hot, cold), flight'.videos \subseteq published'
    PROVE  /\ LatestBehind'
           /\ shown' \in SUBSET Videos /\ delivered' \in Nat /\ hasMore' \in BOOLEAN
           /\ request' = NoRequest
           /\ cursor' \in Times \cup {NoCursor}
<1>1. shown \in SUBSET Videos /\ cursor \in Times \cup {NoCursor} /\ Times \subseteq Nat
  BY CreateTimeTyped DEF LatestTypeOK, WalkTypeOK, Times
<1>2. \A v \in Videos : CreateTime[v] \in Nat
  BY CreateTimeTyped
<1>3. shown \cap hot = {} /\ (shown \cup hot) \cap cold = {}
  <2>1. \A v \in shown : cursor # NoCursor /\ ~(CreateTime[v] < cursor)
    BY <1>1, <1>2 DEF LatestBehind, NoCursor
  <2>2. \A v \in hot : ~(CreateTime[v] < CreateTime[v])
    BY <1>2
  <2> QED
    BY <2>1, <2>2
<1>4. Cardinality(shown \cup hot \cup cold)
        = Cardinality(shown) + Cardinality(hot) + Cardinality(cold)
  <2>1. Cardinality(shown \cup hot) = Cardinality(shown) + Cardinality(hot)
    BY <1>1, <1>3, JoinSizes
  <2>2. Cardinality((shown \cup hot) \cup cold) = Cardinality(shown \cup hot) + Cardinality(cold)
    BY <1>1, <1>3, JoinSizes
  <2> QED
    BY <2>1, <2>2
<1>5. /\ Cardinality(shown) \in Nat /\ Cardinality(hot) \in Nat /\ Cardinality(cold) \in Nat
  BY <1>1, SomeVideos
<1>6. delivered' = Cardinality(shown') /\ delivered' \in Nat
  BY <1>4, <1>5 DEF AnswerLatest, LatestBehind
<1>7. /\ cursor' \in Times \cup {NoCursor}
      /\ \A v \in shown' : cursor' # NoCursor /\ cursor' <= CreateTime[v]
  <2>1. CASE cold # {}
    <3>1. cursor' = OldestTime(cold)
      BY <2>1 DEF AnswerLatest
    <3>2. cursor' \in {CreateTime[v] : v \in cold} /\ cursor' \in Nat /\ cursor' \in Times
      BY <2>1, <3>1, OldestExists
    <3>3. \A v \in cold : cursor' <= CreateTime[v]
      BY <2>1, <3>1, OldestExists
    <3>4. \A v \in hot : cursor' <= CreateTime[v]
      BY <1>2, <3>2
    <3>5. \A v \in shown : cursor' <= CreateTime[v]
      BY <1>1, <1>2, <3>2 DEF LatestBehind, NoCursor
    <3> QED
      BY <3>2, <3>3, <3>4, <3>5 DEF AnswerLatest, NoCursor
  <2>2. CASE cold = {} /\ hot # {}
    <3>1. cursor' = OldestTime(hot)
      BY <2>2 DEF AnswerLatest
    <3>2. cursor' \in {CreateTime[v] : v \in hot} /\ cursor' \in Nat /\ cursor' \in Times
      BY <2>2, <3>1, OldestExists
    <3>3. \A v \in hot : cursor' <= CreateTime[v]
      BY <2>2, <3>1, OldestExists
    <3>4. \A v \in shown : cursor' <= CreateTime[v]
      BY <1>1, <1>2, <3>2 DEF LatestBehind, NoCursor
    <3> QED
      BY <2>2, <3>2, <3>3, <3>4 DEF AnswerLatest, NoCursor
  <2>3. CASE cold = {} /\ hot = {}
    BY <1>1, <2>3 DEF AnswerLatest, LatestBehind
  <2> QED
    BY <2>1, <2>2, <2>3
<1>8. /\ shown' \in SUBSET Videos /\ hasMore' \in BOOLEAN /\ request' = NoRequest
      /\ request'.base = {}
  BY <1>1 DEF AnswerLatest, NoRequest
<1> QED
  BY <1>6, <1>7, <1>8 DEF LatestBehind

\* What the action does to the rest of the state when it leaves the walk alone.
LEMMA WalkAlone ==
    ASSUME LatestBehind,
           UNCHANGED <<walkVars, request, cursor>>, flight'.videos \subseteq published'
    PROVE  LatestBehind'
BY DEF LatestBehind, walkVars

\* Videos that MySQL gives for the cursor lie below it.
LEMMA ColdIsBelow ==
    ASSUME LatestTypeOK, NEW t, NEW n, NEW P \in Newest(OlderThan(t, Rows), n)
    PROVE  P \in SUBSET Videos /\ \A v \in P : t = NoCursor \/ CreateTime[v] < t
BY PagesAreRows DEF OlderThan, Rows, LatestTypeOK, WalkTypeOK

LEMMA BelowAll ==
    ASSUME LatestTypeOK, LatestBehind,
           NEW P \in Newest(OlderThan(OldMax, Rows), Limit - Cardinality(request.base))
    PROVE  /\ P \in SUBSET Videos
           /\ \A v \in request.base \cup P : cursor = NoCursor \/ CreateTime[v] < cursor
           /\ \A v \in request.base, w \in P : CreateTime[w] < CreateTime[v]
<1>1. P \in SUBSET Videos /\ \A w \in P : OldMax = NoCursor \/ CreateTime[w] < OldMax
  BY ColdIsBelow
<1>2. cursor \in Nat \cup {NoCursor} /\ request.base \in SUBSET Videos
      /\ \A v \in Videos : CreateTime[v] \in Nat
  BY CreateTimeTyped DEF LatestTypeOK, Times
<1>3. CASE request.base = {}
  BY <1>1, <1>3 DEF OldMax
<1>4. CASE request.base # {}
  <2>1. OldMax = OldestTime(request.base)
    BY <1>4 DEF OldMax
  <2>2. /\ OldMax \in {CreateTime[v] : v \in request.base} /\ OldMax \in Nat
        /\ \A v \in request.base : OldMax <= CreateTime[v]
    BY <1>2, <1>4, <2>1, OldestExists
  <2>3. \A w \in P : CreateTime[w] < OldMax
    BY <1>1, <2>2 DEF NoCursor
  <2>4. ASSUME NEW v \in request.base, NEW w \in P
        PROVE  CreateTime[w] < CreateTime[v]
    BY <1>1, <1>2, <2>2, <2>3
  <2>5. ASSUME NEW w \in P, cursor # NoCursor
        PROVE  CreateTime[w] < cursor
    <3>1. PICK v \in request.base : CreateTime[v] < cursor
      BY <1>4, <2>5 DEF LatestBehind
    <3> QED
      BY <1>1, <1>2, <2>4, <2>5, <3>1
  <2> QED
    BY <1>1, <2>4, <2>5 DEF LatestBehind
<1> QED
  BY <1>3, <1>4

LEMMA LatestStep ==
    ASSUME LatestIInv, LatestNext
    PROVE  LatestIInv'
<1> USE DEF LatestIInv
<1>0. /\ {} \in SUBSET Videos /\ Rows \in SUBSET Videos /\ published \in SUBSET Videos
      /\ \A v \in {} : FALSE
  BY DEF LatestTypeOK, WalkTypeOK, Rows
<1>1. ASSUME NEW v \in Videos, LatestPublish(v)
      PROVE  LatestIInv'
  <2>1. LatestTypeOK'
    BY <1>1 DEF LatestPublish, PublishRow, LatestTypeOK, WalkTypeOK, walkVars
  <2> QED
    BY <1>1, <2>1, WalkAlone DEF LatestPublish, PublishRow, LatestBehind, walkVars
<1>2. ASSUME NEW v \in Videos, LatestDelete(v)
      PROVE  LatestIInv'
  <2>1. LatestTypeOK'
    BY <1>2 DEF LatestDelete, DeleteRow, Rows, LatestTypeOK, WalkTypeOK, walkVars, timelineVars
  <2> QED
    BY <1>2, <2>1, WalkAlone DEF LatestDelete, DeleteRow, LatestBehind, walkVars
<1>3. ASSUME NEW v \in Videos, TimelineAdd(v)
      PROVE  LatestIInv'
  <2>1. LatestTypeOK'
    BY <1>3 DEF TimelineAdd, LatestTypeOK, WalkTypeOK, walkVars, tableVars
  <2> QED
    BY <1>3, <2>1, WalkAlone DEF TimelineAdd, LatestBehind, tableVars
<1>4. ASSUME TimelineTrim
      PROVE  LatestIInv'
  <2>1. timeline' \subseteq timeline
    BY <1>4, PagesAreRows DEF TimelineTrim
  <2>2. LatestTypeOK'
    BY <1>4, <2>1 DEF TimelineTrim, LatestTypeOK, WalkTypeOK, walkVars, tableVars
  <2> QED
    BY <1>4, <2>2, WalkAlone DEF TimelineTrim, LatestBehind, tableVars
<1>5. ASSUME LoseTimeline
      PROVE  LatestIInv'
  <2>1. LatestTypeOK'
    BY <1>5 DEF LoseTimeline, LatestTypeOK, WalkTypeOK, walkVars, tableVars
  <2> QED
    BY <1>5, <2>1, WalkAlone DEF LoseTimeline, LatestBehind, tableVars
<1>6. ASSUME ReadTail
      PROVE  LatestIInv'
  <2>1. timeline # {} => OldestTime(timeline) \in Nat
    BY <1>0, OldestExists DEF LatestTypeOK
  <2>2. request' \in [at : {"rebuild", "query"}, watermark : Nat, base : {{}}]
    BY <1>6, <2>1 DEF ReadTail, NoRequest
  <2>3. due' \in SUBSET Videos
    BY <1>0, <1>6 DEF ReadTail, Due, LatestTypeOK
  <2>4. LatestTypeOK'
    BY <1>6, <2>2, <2>3 DEF ReadTail, LatestTypeOK, WalkTypeOK, walkVars, tableVars, timelineVars
  <2>5. LatestBehind'
    BY <1>6, <2>2 DEF ReadTail, LatestBehind, walkVars, tableVars
  <2> QED
    BY <2>4, <2>5
<1>7. ASSUME ListLatestFromDB
      PROVE  LatestIInv'
  <2>1. PICK P \in Newest(OlderThan(cursor, Rows), Limit) : AnswerLatest({}, P)
    BY <1>7 DEF ListLatestFromDB
  <2>2. P \in SUBSET Videos /\ \A v \in {} \cup P : cursor = NoCursor \/ CreateTime[v] < cursor
    BY ColdIsBelow
  <2>3. UNCHANGED <<flight, published, deleted, pending, timeline, trimming, losses, excused>>
    BY <1>7 DEF ListLatestFromDB, tableVars, timelineVars
  <2>4. /\ LatestBehind'
        /\ shown' \in SUBSET Videos /\ delivered' \in Nat /\ hasMore' \in BOOLEAN
        /\ request' = NoRequest /\ cursor' \in Times \cup {NoCursor}
    <3>1. flight'.videos \subseteq published'
      BY <2>3 DEF LatestBehind
    <3> QED
      BY <1>0, <2>1, <2>2, <3>1, AnswerKeepsBehind
  <2>5. due' \in SUBSET Videos
    BY <1>0, <1>7 DEF ListLatestFromDB, Due, LatestTypeOK
  <2>6. LatestTypeOK'
    BY <2>3, <2>4, <2>5 DEF LatestTypeOK, WalkTypeOK, NoRequest
  <2> QED
    BY <2>4, <2>6
<1>8. ASSUME RebuildReads
      PROVE  LatestIInv'
  <2>1. CASE Rows = {}
    <3>1. AnswerLatest({}, {}) /\ UNCHANGED <<flight, tableVars, timelineVars, due, excused>>
      BY <1>8, <2>1 DEF RebuildReads
    <3>2. flight'.videos \subseteq published'
      BY <3>1 DEF LatestBehind, tableVars
    <3>3. /\ LatestBehind'
          /\ shown' \in SUBSET Videos /\ delivered' \in Nat /\ hasMore' \in BOOLEAN
          /\ request' = NoRequest /\ cursor' \in Times \cup {NoCursor}
      BY <1>0, <3>1, <3>2, AnswerKeepsBehind
    <3>4. LatestTypeOK'
      BY <3>1, <3>3 DEF LatestTypeOK, WalkTypeOK, NoRequest, tableVars, timelineVars
    <3> QED
      BY <3>3, <3>4
  <2>2. CASE Rows # {}
    <3>1. PICK P \in Newest(Rows, TimelineCap) : flight' = [read |-> TRUE, videos |-> P]
      BY <1>8, <2>2 DEF RebuildReads
    <3>2. P \subseteq published /\ P \in SUBSET Videos
      BY <1>0, PagesAreRows DEF Rows
    <3>3. UNCHANGED <<walkVars, request, cursor, tableVars, timelineVars, due, excused>>
      BY <1>8, <2>2 DEF RebuildReads
    <3>4. LatestTypeOK'
      BY <3>1, <3>2, <3>3 DEF LatestTypeOK, WalkTypeOK, walkVars, tableVars, timelineVars
    <3> QED
      BY <3>1, <3>2, <3>3, <3>4, WalkAlone DEF tableVars
  <2> QED
    BY <2>1, <2>2
<1>9. ASSUME RebuildWrites
      PROVE  LatestIInv'
  <2>1. timeline' \subseteq published /\ flight' = NoFlight
    BY <1>9 DEF RebuildWrites, LatestTypeOK, LatestBehind
  <2>2. request' \in {request, NoRequest}
    BY <1>9 DEF RebuildWrites
  <2>3. UNCHANGED <<tableVars, walkVars, pending, trimming, losses, cursor, due, excused>>
    BY <1>9 DEF RebuildWrites
  <2>4. LatestTypeOK'
    BY <2>1, <2>2, <2>3
       DEF LatestTypeOK, WalkTypeOK, NoRequest, NoFlight, walkVars, tableVars
  <2>5. LatestBehind'
    BY <2>1, <2>2, <2>3 DEF LatestBehind, NoRequest, NoFlight, walkVars, tableVars
  <2> QED
    BY <2>4, <2>5
<1>10. ASSUME ColdPage
       PROVE  LatestIInv'
  <2>1. PICK P \in Newest(OlderThan(cursor, Rows), Limit) : AnswerLatest({}, P)
    BY <1>10 DEF ColdPage
  <2>2. P \in SUBSET Videos /\ \A v \in {} \cup P : cursor = NoCursor \/ CreateTime[v] < cursor
    BY ColdIsBelow
  <2>3. UNCHANGED <<flight, published, deleted, pending, timeline, trimming, losses, due, excused>>
    BY <1>10 DEF ColdPage, tableVars, timelineVars
  <2>4. flight'.videos \subseteq published'
    BY <2>3 DEF LatestBehind
  <2>5. /\ LatestBehind'
        /\ shown' \in SUBSET Videos /\ delivered' \in Nat /\ hasMore' \in BOOLEAN
        /\ request' = NoRequest /\ cursor' \in Times \cup {NoCursor}
    BY <1>0, <2>1, <2>2, <2>4, AnswerKeepsBehind
  <2>6. LatestTypeOK'
    BY <2>3, <2>5 DEF LatestTypeOK, WalkTypeOK, NoRequest
  <2> QED
    BY <2>5, <2>6
<1>11. ASSUME HotPage
       PROVE  LatestIInv'
  <2>1. PICK ids \in Newest(TimelineRange, Limit) : \E found \in SUBSET ids :
              /\ Lookup(ids, found)
              /\ IF Cardinality(found) < Limit
                 THEN /\ request' = [request EXCEPT !.at = "stitch", !.base = found]
                      /\ UNCHANGED <<walkVars, cursor>>
                 ELSE AnswerLatest(found, {})
    BY <1>11 DEF HotPage
  <2>2. PICK found \in SUBSET ids :
              /\ Lookup(ids, found)
              /\ IF Cardinality(found) < Limit
                 THEN /\ request' = [request EXCEPT !.at = "stitch", !.base = found]
                      /\ UNCHANGED <<walkVars, cursor>>
                 ELSE AnswerLatest(found, {})
    BY <2>1
  <2>3. ids \subseteq timeline /\ \A v \in ids : cursor = NoCursor \/ CreateTime[v] <= cursor - 1
    BY PagesAreRows DEF TimelineRange
  <2>4. ids \in SUBSET Videos /\ found \in SUBSET Videos
    BY <1>0, <2>3 DEF LatestTypeOK
  <2>5. cursor \in Nat \cup {NoCursor} /\ \A v \in Videos : CreateTime[v] \in Nat
    BY CreateTimeTyped DEF LatestTypeOK, Times
  <2>6. \A v \in found \cup {} : cursor = NoCursor \/ CreateTime[v] < cursor
    BY <2>3, <2>4, <2>5
  <2>7. UNCHANGED <<flight, published, deleted, pending, timeline, trimming, losses, due>>
    BY <1>11 DEF HotPage, tableVars, timelineVars
  <2>8. excused' \in SUBSET Videos
    BY <2>2, <2>4 DEF Lookup, LatestTypeOK
  <2>9. flight'.videos \subseteq published'
    BY <2>7 DEF LatestBehind
  <2>10. CASE Cardinality(found) < Limit
    <3>1. /\ request' = [request EXCEPT !.at = "stitch", !.base = found]
          /\ UNCHANGED <<shown, delivered, hasMore, cursor>>
      BY <2>2, <2>10 DEF walkVars
    <3>2. LatestTypeOK'
      BY <2>4, <2>7, <2>8, <3>1 DEF LatestTypeOK, WalkTypeOK
    <3>3. request'.base = found
      BY <3>1 DEF LatestTypeOK
    <3>4. LatestBehind'
      BY <2>6, <2>9, <3>1, <3>3 DEF LatestBehind
    <3> QED
      BY <3>2, <3>4
  <2>11. CASE ~(Cardinality(found) < Limit)
    <3>1. AnswerLatest(found, {})
      BY <2>2, <2>11
    <3>2. /\ LatestBehind'
          /\ shown' \in SUBSET Videos /\ delivered' \in Nat /\ hasMore' \in BOOLEAN
          /\ request' = NoRequest /\ cursor' \in Times \cup {NoCursor}
      BY <1>0, <2>4, <2>6, <2>9, <3>1, AnswerKeepsBehind
    <3>3. LatestTypeOK'
      BY <2>7, <2>8, <3>2 DEF LatestTypeOK, WalkTypeOK, NoRequest
    <3> QED
      BY <3>2, <3>3
  <2> QED
    BY <2>10, <2>11
<1>12. ASSUME Stitch
       PROVE  LatestIInv'
  <2>1. PICK P \in Newest(OlderThan(OldMax, Rows), Limit - Cardinality(request.base)) :
              AnswerLatest(request.base, P)
    BY <1>12 DEF Stitch
  <2>2. UNCHANGED <<flight, published, deleted, pending, timeline, trimming, losses, due, excused>>
    BY <1>12 DEF Stitch, tableVars, timelineVars
  <2>3. flight'.videos \subseteq published' /\ request.base \in SUBSET Videos
    BY <2>2 DEF LatestBehind, LatestTypeOK
  <2>4. /\ LatestBehind'
        /\ shown' \in SUBSET Videos /\ delivered' \in Nat /\ hasMore' \in BOOLEAN
        /\ request' = NoRequest /\ cursor' \in Times \cup {NoCursor}
    BY <2>1, <2>3, BelowAll, AnswerKeepsBehind
  <2>5. LatestTypeOK'
    BY <2>2, <2>4 DEF LatestTypeOK, WalkTypeOK, NoRequest
  <2> QED
    BY <2>4, <2>5
<1>13. ASSUME StitchFails
       PROVE  LatestIInv'
  <2>1. AnswerLatest(request.base, {})
    BY <1>13 DEF StitchFails
  <2>2. UNCHANGED <<flight, published, deleted, pending, timeline, trimming, losses, due>>
    BY <1>13 DEF StitchFails, tableVars, timelineVars
  <2>3. /\ flight'.videos \subseteq published' /\ request.base \in SUBSET Videos
        /\ \A v \in request.base \cup {} : cursor = NoCursor \/ CreateTime[v] < cursor
    BY <2>2 DEF LatestBehind, LatestTypeOK
  <2>4. /\ LatestBehind'
        /\ shown' \in SUBSET Videos /\ delivered' \in Nat /\ hasMore' \in BOOLEAN
        /\ request' = NoRequest /\ cursor' \in Times \cup {NoCursor}
    BY <1>0, <2>1, <2>3, AnswerKeepsBehind
  <2>5. excused' \in SUBSET Videos
    BY <1>0, <1>13 DEF StitchFails, OlderThan, LatestTypeOK
  <2>6. LatestTypeOK'
    BY <2>2, <2>4, <2>5 DEF LatestTypeOK, WalkTypeOK, NoRequest
  <2> QED
    BY <2>4, <2>6
<1> QED
  BY <1>1, <1>2, <1>3, <1>4, <1>5, <1>6, <1>7, <1>8, <1>9, <1>10, <1>11, <1>12, <1>13
     DEF LatestNext

-----------------------------------------------------------------------------
(* The latest feed misses nothing.                                         *)

\* Who is not on a page stands below it, and the page is full.
LEMMA BelowThePage ==
    ASSUME NEW S \in SUBSET Videos, NEW n \in Int, NEW P \in Newest(S, n), NEW v \in S \ P
    PROVE  Cardinality(P) = n /\ \A w \in P : CreateTime[v] <= CreateTime[w]
<1>1. /\ P \subseteq S
      /\ Cardinality(P) = IF Cardinality(S) < n THEN Cardinality(S) ELSE n
      /\ \A w \in P : CreateTime[v] <= CreateTime[w]
  BY DEF Newest
<1>2. Cardinality(P) # Cardinality(S)
  BY <1>1, SomeVideos, FS_Subset
<1> QED
  BY <1>1, <1>2

\* An answer keeps the promise if it gives what is due and below the cursor, or excuses
\* it, or gives one of its millisecond, or leaves it for the next page.
LEMMA AnswerCompletes ==
    ASSUME LatestTypeOK, LatestComplete, hasMore,
           NEW hot \in SUBSET Videos, NEW cold \in SUBSET Videos, AnswerLatest(hot, cold),
           UNCHANGED tableVars, excused \subseteq excused', cursor # NoCursor => due' = due,
           due' \in SUBSET Videos,
           \A v \in due' \cap Rows : cursor = NoCursor \/ CreateTime[v] < cursor =>
              \/ v \in hot \cup cold \cup excused'
              \/ Twin(v, hot \cup cold \cup excused' \cup deleted)
              \/ hasMore' /\ \A w \in hot \cup cold : CreateTime[v] <= CreateTime[w]
    PROVE  LatestComplete'
<1>0. UNCHANGED deleted /\ Rows' = Rows
  BY DEF tableVars, Rows
<1> SUFFICES ASSUME NEW v \in due' \cap Rows, Passed(v)', v \notin shown', v \notin excused'
             PROVE  Tied(v)'
  BY <1>0 DEF LatestComplete
<1>1. /\ shown' = shown \cup hot \cup cold
      /\ hasMore' = (Cardinality(hot) + Cardinality(cold) = Limit)
      /\ cursor' = IF cold # {} THEN OldestTime(cold)
                   ELSE IF hot # {} THEN OldestTime(hot) ELSE cursor
  BY DEF AnswerLatest
<1>2. /\ \A w \in Videos : CreateTime[w] \in Nat
      /\ cursor \in Nat \cup {NoCursor} /\ v \in Videos /\ v \in due'
  BY CreateTimeTyped DEF LatestTypeOK, Times
<1>3. CASE cursor # NoCursor /\ cursor <= CreateTime[v]
  <2>1. v \in due \cap Rows /\ Passed(v)
    BY <1>3 DEF Passed
  <2>2. Tied(v)
    BY <1>1, <2>1 DEF LatestComplete
  <2> QED
    BY <1>0, <1>1, <2>2 DEF Tied
<1>4. CASE Twin(v, hot \cup cold \cup excused' \cup deleted)
  BY <1>0, <1>1, <1>4 DEF Tied, Twin
<1>5. CASE hasMore' /\ \A w \in hot \cup cold : CreateTime[v] <= CreateTime[w]
  <2>1. cursor' # NoCursor /\ cursor' <= CreateTime[v]
    BY <1>5 DEF Passed
  <2>2. hot \cup cold # {}
    <3>1. Cardinality(hot) + Cardinality(cold) = Limit
      BY <1>1, <1>5
    <3>2. hot = {} /\ cold = {} => Cardinality(hot) = 0 /\ Cardinality(cold) = 0
      BY EmptySize
    <3> QED
      BY <3>1, <3>2, WalkBounds
  <2>3. cursor' \in {CreateTime[w] : w \in hot \cup cold}
    <3>1. CASE cold # {}
      BY <1>1, <3>1, OldestExists
    <3>2. CASE cold = {}
      <4>1. hot # {} /\ cursor' = OldestTime(hot)
        BY <1>1, <2>2, <3>2
      <4> QED
        BY <4>1, OldestExists
    <3> QED
      BY <3>1, <3>2
  <2>4. PICK w \in hot \cup cold : cursor' = CreateTime[w]
    BY <2>3
  <2>5. CreateTime[w] = CreateTime[v]
    BY <1>2, <1>5, <2>1, <2>4
  <2> QED
    BY <1>1, <2>5 DEF Tied
<1> QED
  BY <1>1, <1>2, <1>3, <1>4, <1>5 DEF NoCursor

\* A page that MySQL gives for the cursor.
LEMMA ColdCompletes ==
    ASSUME LatestTypeOK, LatestComplete, hasMore,
           NEW P \in Newest(OlderThan(cursor, Rows), Limit), AnswerLatest({}, P),
           UNCHANGED <<tableVars, excused>>, cursor # NoCursor => due' = due,
           due' \in SUBSET Videos
    PROVE  LatestComplete'
<1>1. P \in SUBSET Videos /\ {} \in SUBSET Videos
  BY ColdIsBelow
<1>2. ASSUME NEW v \in due' \cap Rows, cursor = NoCursor \/ CreateTime[v] < cursor, v \notin P
      PROVE  hasMore' /\ \A w \in P : CreateTime[v] <= CreateTime[w]
  <2>1. v \in OlderThan(cursor, Rows) \ P /\ OlderThan(cursor, Rows) \in SUBSET Videos
    BY <1>2 DEF OlderThan, Rows, LatestTypeOK, WalkTypeOK
  <2>2. Cardinality(P) = Limit /\ \A w \in P : CreateTime[v] <= CreateTime[w]
    BY <2>1, BelowThePage, WalkBounds
  <2> QED
    <3>1. Cardinality({}) + Cardinality(P) = Limit
      BY <2>2, EmptySize, WalkBounds
    <3> QED
      BY <2>2, <3>1 DEF AnswerLatest
<1> QED
  BY <1>1, <1>2, AnswerCompletes

\* What the timeline gives leaves out only what is older, once it has no gap.
LEMMA HotFits ==
    ASSUME LatestTypeOK, LatestWhole, NEW ids \in Newest(TimelineRange, Limit),
           NEW v \in due \cap Rows, cursor = NoCursor \/ CreateTime[v] < cursor, v \notin ids
    PROVE  \/ \A w \in ids : CreateTime[v] <= CreateTime[w]
           \/ \E k \in ids : k # v /\ CreateTime[k] = CreateTime[v]
<1>1. TimelineRange \in SUBSET Videos /\ ids \subseteq timeline
  BY PagesAreRows DEF TimelineRange, LatestTypeOK, WalkTypeOK
<1>2. v \in Rows \ pending /\ v \in Videos /\ timeline \in SUBSET Videos
      /\ cursor \in Nat \cup {NoCursor} /\ \A w \in Videos : CreateTime[w] \in Nat
  BY CreateTimeTyped DEF LatestWhole, RequestFits, LatestTypeOK, WalkTypeOK, Times
<1>3. CASE v \in timeline
  <2>1. v \in TimelineRange \ ids
    BY <1>2, <1>3 DEF TimelineRange, NoCursor
  <2> QED
    BY <1>1, <2>1, BelowThePage, WalkBounds
<1>4. CASE v \notin timeline
  <2> SUFFICES ASSUME NEW w \in ids, CreateTime[w] < CreateTime[v]
               PROVE  \E k \in ids : k # v /\ CreateTime[k] = CreateTime[v]
    BY <1>1, <1>2
  <2>1. PICK k \in timeline : CreateTime[k] = CreateTime[v]
    BY <1>1, <1>2 DEF LatestWhole, Gapless, InSight
  <2>2. k \in TimelineRange
    BY <1>2, <2>1 DEF TimelineRange, NoCursor
  <2>3. k \in ids
    <3>1. k \notin ids => CreateTime[k] <= CreateTime[w]
      BY <1>1, <2>2, BelowThePage, WalkBounds
    <3> QED
      BY <1>1, <1>2, <2>1, <3>1
  <2> QED
    BY <1>4, <2>1, <2>3
<1> QED
  BY <1>3, <1>4

\* A step that consumes nothing, loses or trims nothing and reads no flight disturbs
\* neither the order nor the timeline.
LEMMA TimelineAlone ==
    ASSUME LatestWhole, UNCHANGED <<published, timelineVars, flight>>, deleted \subseteq deleted'
    PROVE  ConsumedInOrder' /\ Gapless' /\ FlightFits'
<1>1. Rows' \subseteq Rows
  BY DEF Rows
<1>2. UNCHANGED <<published, pending, timeline, flight>>
  BY DEF timelineVars
<1>3. /\ AboveFlight' = AboveFlight
      /\ \A u \in Rows' : (Late(u)' <=> Late(u)) /\ (InSight(u)' <=> InSight(u))
  BY <1>2 DEF AboveFlight, Late, InSight
<1>4. FlightFits'
  <2> SUFFICES ASSUME flight.read
               PROVE  FlightFits'
    BY <1>2 DEF FlightFits
  <2>1. ASSUME NEW u \in Rows', Late(u)'
        PROVE  /\ u \notin pending' => InSight(u)' /\ (Cardinality(AboveFlight) < TimelineCap)'
               /\ \A x \in (flight.videos)' : CreateTime[x] <= CreateTime[u]
               /\ \A k \in (timeline \cap pending)' : CreateTime[k] <= CreateTime[u]
    <3>1. u \in Rows /\ Late(u) /\ (InSight(u) => InSight(u)')
      BY <1>1, <1>3, <2>1
    <3>2. /\ u \notin pending => InSight(u) /\ Cardinality(AboveFlight) < TimelineCap
          /\ \A x \in flight.videos : CreateTime[x] <= CreateTime[u]
          /\ \A k \in timeline \cap pending : CreateTime[k] <= CreateTime[u]
      BY <3>1 DEF LatestWhole, FlightFits
    <3> QED
      BY <1>2, <1>3, <3>1, <3>2
  <2> QED
    BY <2>1 DEF FlightFits
<1>5. ConsumedInOrder' /\ Gapless'
  BY <1>1, <1>2, <1>3 DEF LatestWhole, ConsumedInOrder, Gapless
<1> QED
  BY <1>4, <1>5

\* A step that leaves the walk alone, but may delete rows, keeps what it promises.
LEMMA PromiseAlone ==
    ASSUME LatestIInv, LatestWhole, UNCHANGED <<walkVars, request, cursor, due, excused>>,
           due \subseteq published' \ pending', due \cap Rows' \subseteq Rows,
           deleted \subseteq deleted'
    PROVE  RequestFits' /\ LatestComplete'
<1>1. UNCHANGED <<shown, hasMore>>
  BY DEF walkVars
<1>2. RequestFits'
  BY <1>1 DEF LatestWhole, RequestFits, Twin
<1>3. LatestComplete'
  BY <1>1 DEF LatestWhole, LatestComplete, Passed, Tied
<1> QED
  BY <1>2, <1>3

\* An answer ends the request.
LEMMA AnswerFits ==
    ASSUME NEW hot, NEW cold, AnswerLatest(hot, cold), due' \subseteq published' \ pending'
    PROVE  RequestFits'
BY DEF AnswerLatest, NoRequest, RequestFits

LEMMA PublishKeepsWhole ==
    ASSUME LatestIInv, LatestWhole, NEW v \in Videos, LatestPublish(v)
    PROVE  LatestWhole'
<1>1. /\ v \notin published /\ v \notin pending /\ \A w \in published : CreateTime[w] <= CreateTime[v]
      /\ published' = published \cup {v} /\ pending' = pending \cup {v}
      /\ UNCHANGED <<deleted, walkVars, timeline, trimming, losses, flight, request, cursor, due,
                     excused>>
  BY DEF LatestPublish, PublishRow, LatestIInv, LatestTypeOK, WalkTypeOK
<1>2. /\ timeline \subseteq published /\ pending \subseteq published /\ deleted \subseteq published
      /\ flight.videos \subseteq published /\ published \subseteq Videos
      /\ due \subseteq published \ pending
  BY DEF LatestIInv, LatestBehind, LatestTypeOK, WalkTypeOK, LatestWhole, RequestFits
<1>3. /\ published' \ pending' = published \ pending
      /\ Rows' = Rows \cup {v} /\ Rows' \ pending' = Rows \ pending
      /\ timeline' \cap pending' = timeline \cap pending
  BY <1>1, <1>2 DEF Rows
<1>4. /\ AboveFlight' = AboveFlight
      /\ \A u \in Videos : (Late(u)' <=> Late(u)) /\ (InSight(u)' <=> InSight(u))
  BY <1>1, <1>3 DEF AboveFlight, Late, InSight
<1>5. FlightFits'
  <2> SUFFICES ASSUME flight.read
               PROVE  FlightFits'
    BY <1>1 DEF FlightFits
  <2>1. Rows \subseteq Videos
    BY <1>2 DEF Rows
  <2>2. ASSUME NEW u \in Rows', Late(u)
        PROVE  /\ \A x \in flight.videos : CreateTime[x] <= CreateTime[u]
               /\ \A k \in timeline \cap pending : CreateTime[k] <= CreateTime[u]
    BY <1>1, <1>2, <1>3, <2>2 DEF LatestWhole, FlightFits
  <2>3. ASSUME NEW u \in Rows \ pending, Late(u)
        PROVE  InSight(u) /\ Cardinality(AboveFlight) < TimelineCap
    BY <2>3 DEF LatestWhole, FlightFits
  <2>4. ASSUME NEW u \in Rows', Late(u)'
        PROVE  /\ u \notin pending' => InSight(u)' /\ (Cardinality(AboveFlight) < TimelineCap)'
               /\ \A x \in (flight.videos)' : CreateTime[x] <= CreateTime[u]
               /\ \A k \in (timeline \cap pending)' : CreateTime[k] <= CreateTime[u]
    <3>1. u \in Videos /\ Late(u) /\ (InSight(u) => InSight(u)')
      BY <1>1, <1>3, <1>4, <2>1, <2>4
    <3>2. u \notin pending' => u \in Rows \ pending
      BY <1>3, <2>4
    <3> QED
      BY <1>1, <1>3, <1>4, <2>2, <2>3, <2>4, <3>1, <3>2
  <2> QED
    BY <2>4 DEF FlightFits
<1>6. ConsumedInOrder' /\ Gapless'
  BY <1>1, <1>2, <1>3 DEF LatestWhole, ConsumedInOrder, Gapless, InSight
<1>7. RequestFits' /\ LatestComplete'
  BY <1>1, <1>2, <1>3, PromiseAlone
<1> QED
  BY <1>5, <1>6, <1>7 DEF LatestWhole

\* The next video in order goes to the top of the timeline.
LEMMA AddKeepsWhole ==
    ASSUME InOrder, LatestIInv, LatestWhole, NEW v \in Videos, TimelineAdd(v)
    PROVE  LatestWhole'
<1>1. /\ v \in pending /\ NextInOrder(v) /\ FlightIsShort(v)
      /\ pending' = pending \ {v} /\ timeline' = timeline \cup {v}
      /\ UNCHANGED <<published, deleted, walkVars, flight, request, cursor, due, excused>>
  BY DEF TimelineAdd, tableVars
<1>2. /\ pending \subseteq published /\ published \subseteq Videos
      /\ \A w \in Videos : CreateTime[w] \in Nat
      /\ due \subseteq published \ pending
  BY CreateTimeTyped DEF LatestIInv, LatestTypeOK, WalkTypeOK, LatestWhole, RequestFits
<1>3. /\ published' \ pending' = (published \ pending) \cup {v}
      /\ Rows' = Rows /\ Rows' \ pending' \subseteq (Rows \ pending) \cup {v}
      /\ timeline' \cap pending' \subseteq timeline \cap pending
      /\ Rows \subseteq published
  BY <1>1, <1>2 DEF Rows
<1>4. \A u \in Rows : Late(u)' <=> Late(u)
  BY <1>1 DEF Late
<1>5. ConsumedInOrder'
  BY <1>1, <1>3 DEF LatestWhole, ConsumedInOrder, NextInOrder
<1>6. Gapless'
  <2> SUFFICES ASSUME NEW w \in timeline', NEW u \in Rows' \ pending',
                      CreateTime[w] < CreateTime[u], ~InSight(u)'
               PROVE  FALSE
    BY <1>1 DEF Gapless
  <2>1. u \in Rows \ pending /\ ~InSight(u)
    BY <1>1, <1>3 DEF InSight
  <2>2. w = v
    BY <1>1, <2>1 DEF LatestWhole, Gapless
  <2>3. CreateTime[u] <= CreateTime[v]
    BY <1>1, <1>3, <2>1 DEF NextInOrder
  <2> QED
    BY <1>2, <1>3, <2>1, <2>2, <2>3
<1>7. FlightFits'
  <2> SUFFICES ASSUME flight.read
               PROVE  FlightFits'
    BY <1>1 DEF FlightFits
  <2>1. Cardinality(AboveFlight') < TimelineCap
    <3>1. AboveFlight' = {w \in (published \ pending) \cup {v} :
                            \A x \in flight.videos : CreateTime[x] < CreateTime[w]}
      BY <1>1, <1>3 DEF AboveFlight
    <3> QED
      BY <1>1, <3>1 DEF FlightIsShort
  <2>2. ASSUME NEW u \in Rows' \ pending', Late(u)
        PROVE  InSight(u)'
    BY <1>1, <1>3, <2>2 DEF LatestWhole, FlightFits, InSight
  <2>3. ASSUME NEW u \in Rows', Late(u)
        PROVE  /\ \A x \in flight.videos : CreateTime[x] <= CreateTime[u]
               /\ \A k \in timeline' \cap pending' : CreateTime[k] <= CreateTime[u]
    BY <1>3, <2>3 DEF LatestWhole, FlightFits
  <2> QED
    BY <1>1, <1>3, <1>4, <2>1, <2>2, <2>3 DEF FlightFits
<1>8. RequestFits' /\ LatestComplete'
  BY <1>1, <1>2, <1>3, PromiseAlone
<1> QED
  BY <1>5, <1>6, <1>7, <1>8 DEF LatestWhole

\* A trim takes only the oldest off, and nothing that the flight would leave a gap for.
LEMMA TrimKeepsWhole ==
    ASSUME LatestIInv, LatestWhole, TimelineTrim
    PROVE  LatestWhole'
<1>1. /\ timeline' \in Newest(timeline, TimelineCap) \/ timeline' = timeline
      /\ UNCHANGED <<published, deleted, walkVars, pending, flight, request, cursor, due, excused>>
  BY DEF TimelineTrim, tableVars
<1>2. /\ pending \subseteq published /\ timeline \subseteq published /\ published \in SUBSET Videos
      /\ \A w \in Videos : CreateTime[w] \in Nat
      /\ due \subseteq published \ pending /\ flight.videos \subseteq published
  BY CreateTimeTyped
     DEF LatestIInv, LatestBehind, LatestTypeOK, WalkTypeOK, LatestWhole, RequestFits
<1>3. Rows' = Rows /\ Rows \subseteq published /\ timeline' \subseteq timeline
  BY <1>1, PagesAreRows DEF Rows
<1>4. AboveFlight' = AboveFlight /\ \A u \in Rows : Late(u)' <=> Late(u)
  BY <1>1 DEF AboveFlight, Late
<1>5. ASSUME NEW u \in timeline, u \notin timeline'
      PROVE  Cardinality(timeline') = TimelineCap /\ \A w \in timeline' : CreateTime[u] <= CreateTime[w]
  BY <1>1, <1>2, <1>5, BelowThePage, TimelineBounds
<1>6. ASSUME NEW u \in Videos, InSight(u), ~InSight(u)'
      PROVE  Cardinality(timeline') = TimelineCap /\ \A w \in timeline' : CreateTime[u] < CreateTime[w]
  <2>1. PICK k \in timeline : CreateTime[k] = CreateTime[u]
    BY <1>6 DEF InSight
  <2>2. k \notin timeline' /\ \A w \in timeline' : CreateTime[w] # CreateTime[u]
    BY <1>6, <2>1 DEF InSight
  <2> QED
    BY <1>2, <1>3, <1>5, <2>1, <2>2
<1>7. Gapless'
  <2> SUFFICES ASSUME NEW w \in timeline', NEW u \in Rows \ pending,
                      CreateTime[w] < CreateTime[u], ~InSight(u)'
               PROVE  FALSE
    BY <1>1, <1>3 DEF Gapless
  <2>1. InSight(u)
    BY <1>3 DEF LatestWhole, Gapless
  <2> QED
    BY <1>2, <1>3, <1>6, <2>1
<1>8. FlightFits'
  <2> SUFFICES ASSUME flight.read
               PROVE  FlightFits'
    BY <1>1 DEF FlightFits
  <2>1. ASSUME NEW u \in Rows \ pending, Late(u), ~InSight(u)'
        PROVE  FALSE
    <3>1. /\ InSight(u) /\ Cardinality(AboveFlight) < TimelineCap
          /\ \A x \in flight.videos : CreateTime[x] <= CreateTime[u]
          /\ \A k \in timeline \cap pending : CreateTime[k] <= CreateTime[u]
      BY <2>1 DEF LatestWhole, FlightFits
    <3>2. /\ u \in Videos /\ Cardinality(timeline') = TimelineCap
          /\ \A w \in timeline' : CreateTime[u] < CreateTime[w]
      BY <1>2, <1>3, <1>6, <2>1, <3>1
    <3>3. ASSUME NEW w \in timeline'
          PROVE  w \in AboveFlight
      <4>1. w \in timeline /\ w \in Videos /\ CreateTime[u] < CreateTime[w]
        BY <1>2, <1>3, <3>2
      <4>2. w \notin pending
        <5>1. w \in pending => CreateTime[w] <= CreateTime[u]
          BY <3>1, <4>1
        <5> QED
          BY <1>2, <3>2, <4>1, <5>1
      <4>3. \A x \in flight.videos : CreateTime[x] < CreateTime[w]
        BY <1>2, <3>1, <3>2, <4>1
      <4> QED
        BY <1>2, <4>1, <4>2, <4>3 DEF AboveFlight
    <3>4. AboveFlight \in SUBSET Videos
      BY <1>2 DEF AboveFlight
    <3>5. Cardinality(timeline') <= Cardinality(AboveFlight)
      BY <3>3, <3>4, SomeVideos, FS_Subset
    <3> QED
      BY <3>1, <3>2, <3>4, <3>5, SomeVideos, TimelineBounds
  <2>2. \A u \in Rows : Late(u) =>
            /\ \A x \in flight.videos : CreateTime[x] <= CreateTime[u]
            /\ \A k \in timeline' \cap pending : CreateTime[k] <= CreateTime[u]
    BY <1>3 DEF LatestWhole, FlightFits
  <2>3. \A u \in Rows \ pending : Late(u) => Cardinality(AboveFlight) < TimelineCap
    BY DEF LatestWhole, FlightFits
  <2> QED
    BY <1>1, <1>3, <1>4, <2>1, <2>2, <2>3 DEF FlightFits
<1>9. ConsumedInOrder'
  BY <1>1 DEF LatestWhole, ConsumedInOrder
<1>10. RequestFits' /\ LatestComplete'
  BY <1>1, <1>2, <1>3, PromiseAlone
<1> QED
  BY <1>7, <1>8, <1>9, <1>10 DEF LatestWhole

\* The flight reads the newest rows: nothing is late yet.
LEMMA RebuildReadsKeepsWhole ==
    ASSUME LatestIInv, LatestWhole, RebuildReads
    PROVE  LatestWhole'
<1>0. /\ UNCHANGED <<tableVars, timelineVars, due, excused>> /\ Rows' = Rows
      /\ Rows \in SUBSET Videos /\ due \in SUBSET Videos
      /\ due \subseteq published \ pending
  BY DEF RebuildReads, tableVars, Rows, LatestIInv, LatestTypeOK, WalkTypeOK, LatestWhole, RequestFits
<1>1. CASE Rows = {}
  <2>1. AnswerLatest({}, {}) /\ UNCHANGED flight /\ request.at = "rebuild"
    BY <1>1 DEF RebuildReads
  <2>2. hasMore
    BY <2>1 DEF LatestWhole, RequestFits
  <2>3. LatestComplete'
    BY <1>0, <1>1, <2>1, <2>2, AnswerCompletes DEF LatestIInv, LatestWhole
  <2>4. RequestFits'
    BY <1>0, <2>1, AnswerFits DEF tableVars, timelineVars
  <2> QED
    BY <1>0, <2>1, <2>3, <2>4, TimelineAlone DEF LatestWhole, tableVars
<1>2. CASE Rows # {}
  <2>1. PICK P \in Newest(Rows, TimelineCap) : flight' = [read |-> TRUE, videos |-> P]
    BY <1>2 DEF RebuildReads
  <2>2. UNCHANGED <<walkVars, request, cursor>>
    BY <1>2 DEF RebuildReads
  <2>3. P \subseteq Rows /\ \A w \in Videos : CreateTime[w] \in Nat
    BY <2>1, PagesAreRows, CreateTimeTyped
  <2>4. ASSUME NEW u \in Rows, Late(u)'
        PROVE  FALSE
    <3>1. u \in Rows \ P
      BY <2>1, <2>4 DEF Late
    <3>2. PICK x \in P : CreateTime[x] < CreateTime[u]
      BY <2>1, <2>4 DEF Late
    <3>3. CreateTime[u] <= CreateTime[x]
      BY <1>0, <3>1, BelowThePage, TimelineBounds
    <3> QED
      BY <1>0, <2>3, <3>2, <3>3
  <2>5. FlightFits'
    BY <1>0, <2>4 DEF FlightFits
  <2>6. ConsumedInOrder' /\ Gapless'
    BY <1>0 DEF LatestWhole, ConsumedInOrder, Gapless, InSight, tableVars, timelineVars
  <2>7. RequestFits' /\ LatestComplete'
    BY <1>0, <2>2, PromiseAlone DEF tableVars, timelineVars
  <2> QED
    BY <2>5, <2>6, <2>7 DEF LatestWhole
<1> QED
  BY <1>1, <1>2

LEMMA RebuildWritesKeepsWhole ==
    ASSUME LatestIInv, LatestWhole, RebuildWrites
    PROVE  LatestWhole'
<1>1. /\ UNCHANGED <<tableVars, walkVars, pending, trimming, losses, cursor, due, excused>>
      /\ flight.read /\ flight' = NoFlight
      /\ timeline' \in {timeline \cup flight.videos, timeline}
      /\ request' = IF request.at = "rebuild" THEN NoRequest ELSE request
  BY DEF RebuildWrites
<1>2. /\ Rows' = Rows /\ UNCHANGED <<published, pending, shown, hasMore>>
  BY <1>1 DEF Rows, tableVars, walkVars
<1>3. FlightFits' /\ ConsumedInOrder'
  BY <1>1, <1>2 DEF FlightFits, NoFlight, LatestWhole, ConsumedInOrder
<1>4. Gapless'
  <2> SUFFICES ASSUME NEW w \in timeline', NEW u \in Rows \ pending,
                      CreateTime[w] < CreateTime[u], ~InSight(u)'
               PROVE  FALSE
    BY <1>2 DEF Gapless
  <2>1. ~InSight(u) /\ w \notin timeline
    BY <1>1 DEF LatestWhole, Gapless, InSight
  <2>2. w \in flight.videos /\ u \notin flight.videos
    BY <1>1, <2>1 DEF InSight
  <2>3. InSight(u)
    BY <1>1, <2>2 DEF LatestWhole, FlightFits, Late
  <2> QED
    BY <2>1, <2>3
<1>5. RequestFits'
  BY <1>1, <1>2 DEF LatestWhole, RequestFits, NoRequest, Twin, tableVars
<1>6. LatestComplete'
  BY <1>1, <1>2 DEF LatestWhole, LatestComplete, Passed, Tied, tableVars
<1> QED
  BY <1>3, <1>4, <1>5, <1>6 DEF LatestWhole

\* A page from MySQL alone.
LEMMA ColdKeepsWhole ==
    ASSUME LatestIInv, LatestWhole, hasMore,
           NEW P \in Newest(OlderThan(cursor, Rows), Limit), AnswerLatest({}, P),
           UNCHANGED <<tableVars, timelineVars, flight, excused>>,
           due' \in {due, Due}
    PROVE  LatestWhole'
<1>1. /\ Rows' = Rows /\ UNCHANGED <<published, deleted, pending>>
      /\ Rows \subseteq published /\ published \in SUBSET Videos
  BY DEF Rows, tableVars, timelineVars, LatestIInv, LatestTypeOK, WalkTypeOK
<1>2. due' \subseteq published \ pending /\ (cursor # NoCursor => due' = due)
  BY <1>1 DEF Due, LatestWhole, RequestFits
<1>3. LatestComplete'
  BY <1>1, <1>2, ColdCompletes DEF LatestIInv, LatestWhole
<1>4. RequestFits'
  BY <1>1, <1>2, AnswerFits
<1> QED
  BY <1>1, <1>3, <1>4, TimelineAlone DEF LatestWhole

\* A page from the timeline, or its beginning.
LEMMA HotKeepsWhole ==
    ASSUME LatestIInv, LatestWhole, HotPage
    PROVE  LatestWhole'
<1>1. PICK ids \in Newest(TimelineRange, Limit) : \E found \in SUBSET ids :
            /\ Lookup(ids, found)
            /\ IF Cardinality(found) < Limit
               THEN /\ request' = [request EXCEPT !.at = "stitch", !.base = found]
                    /\ UNCHANGED <<walkVars, cursor>>
               ELSE AnswerLatest(found, {})
  BY DEF HotPage
<1>2. PICK found \in SUBSET ids :
            /\ Lookup(ids, found)
            /\ IF Cardinality(found) < Limit
               THEN /\ request' = [request EXCEPT !.at = "stitch", !.base = found]
                    /\ UNCHANGED <<walkVars, cursor>>
               ELSE AnswerLatest(found, {})
  BY <1>1
<1>3. /\ UNCHANGED <<published, deleted, pending, tableVars, timelineVars, flight, due>>
      /\ Rows' = Rows /\ due \subseteq published \ pending /\ due \in SUBSET Videos
      /\ request.at # "idle" /\ hasMore
  BY DEF HotPage, tableVars, timelineVars, Rows, LatestIInv, LatestTypeOK, LatestWhole, RequestFits
<1>4. ids \in SUBSET Videos /\ found \in SUBSET Videos /\ {} \in SUBSET Videos
  BY PagesAreRows DEF TimelineRange, LatestIInv, LatestTypeOK, WalkTypeOK
<1>5. excused \subseteq excused' /\ \A v \in (ids \cap Rows) \ found : v \in excused'
  BY <1>2 DEF Lookup
<1>6. ASSUME NEW v \in due \cap Rows, cursor = NoCursor \/ CreateTime[v] < cursor
      PROVE  \/ v \in found \cup excused' \/ Twin(v, found \cup excused' \cup deleted)
             \/ \A w \in found : CreateTime[v] <= CreateTime[w]
  <2>1. CASE \E k \in ids : k # v /\ CreateTime[k] = CreateTime[v]
    <3>1. PICK k \in ids : k # v /\ CreateTime[k] = CreateTime[v]
      BY <2>1
    <3>2. k \in published
      BY <3>1, PagesAreRows DEF TimelineRange, LatestIInv, LatestTypeOK
    <3>3. k \in found \cup excused' \cup deleted
      BY <1>5, <3>1, <3>2 DEF Rows
    <3> QED
      BY <3>1, <3>3 DEF Twin
  <2>2. v \notin ids => (\/ \A w \in ids : CreateTime[v] <= CreateTime[w]
                        \/ \E k \in ids : k # v /\ CreateTime[k] = CreateTime[v])
    BY <1>6, HotFits DEF LatestIInv
  <2> QED
    BY <1>5, <2>1, <2>2
<1>7. ConsumedInOrder' /\ Gapless' /\ FlightFits'
  BY <1>3, TimelineAlone
<1>8. CASE Cardinality(found) < Limit
  <2>1. /\ request' = [request EXCEPT !.at = "stitch", !.base = found]
        /\ UNCHANGED <<shown, hasMore, cursor>>
    BY <1>2, <1>8 DEF walkVars
  <2>2. request'.base = found
    BY <2>1 DEF LatestIInv, LatestTypeOK
  <2>3. RequestFits'
    BY <1>3, <1>6, <2>1, <2>2 DEF RequestFits
  <2>4. LatestComplete'
    BY <1>3, <1>5, <2>1 DEF LatestWhole, LatestComplete, Passed, Tied
  <2> QED
    BY <1>7, <2>3, <2>4 DEF LatestWhole
<1>9. CASE ~(Cardinality(found) < Limit)
  <2>1. AnswerLatest(found, {})
    BY <1>2, <1>9
  <2>2. hasMore'
    <3>1. Cardinality(ids) <= Limit
      <4>1. TimelineRange \in SUBSET Videos
        BY DEF TimelineRange, LatestIInv, LatestTypeOK, WalkTypeOK
      <4>2. Cardinality(TimelineRange) \in Nat
        BY <4>1, SomeVideos
      <4>3. Cardinality(ids) = IF Cardinality(TimelineRange) < Limit
                               THEN Cardinality(TimelineRange) ELSE Limit
        BY DEF Newest
      <4> QED
        BY <4>2, <4>3, WalkBounds
    <3>2. Cardinality(found) <= Cardinality(ids) /\ Cardinality(found) \in Nat
          /\ Cardinality(ids) \in Nat
      BY <1>4, SomeVideos, FS_Subset
    <3>3. Cardinality(found) + Cardinality({}) = Limit
      BY <1>9, <3>1, <3>2, EmptySize, WalkBounds
    <3> QED
      BY <2>1, <3>3 DEF AnswerLatest
  <2>3. LatestComplete'
    BY <1>3, <1>4, <1>5, <1>6, <2>1, <2>2, AnswerCompletes DEF LatestIInv, LatestWhole
  <2>4. RequestFits'
    BY <1>3, <2>1, AnswerFits
  <2> QED
    BY <1>7, <2>3, <2>4 DEF LatestWhole
<1> QED
  BY <1>8, <1>9

\* What MySQL adds begins where the hot part ends.
LEMMA StitchKeepsWhole ==
    ASSUME LatestIInv, LatestWhole, Stitch \/ StitchFails
    PROVE  LatestWhole'
<1>1. /\ UNCHANGED <<published, deleted, pending, tableVars, timelineVars, flight, due>>
      /\ Rows' = Rows /\ due \subseteq published \ pending /\ due \in SUBSET Videos
      /\ request.at = "stitch" /\ hasMore /\ Rows \in SUBSET Videos
      /\ request.base \in SUBSET Videos /\ {} \in SUBSET Videos
      /\ cursor \in Nat \cup {NoCursor} /\ \A w \in Videos : CreateTime[w] \in Nat
  BY CreateTimeTyped
     DEF Stitch, StitchFails, tableVars, timelineVars, Rows, LatestIInv, LatestTypeOK, WalkTypeOK,
         LatestWhole, RequestFits, Times
<1>2. ASSUME NEW v \in due \cap Rows, cursor = NoCursor \/ CreateTime[v] < cursor,
             v \notin request.base \cup excused, v \notin OlderThan(OldMax, Rows)
      PROVE  Twin(v, request.base \cup excused \cup deleted)
  <2> SUFFICES ASSUME ~Twin(v, request.base \cup excused \cup deleted)
               PROVE  FALSE
    OBVIOUS
  <2>1. \A w \in request.base : CreateTime[v] <= CreateTime[w]
    BY <1>1, <1>2 DEF LatestWhole, RequestFits
  <2>2. request.base # {} /\ OldMax = OldestTime(request.base)
    BY <1>2 DEF OldMax, OlderThan
  <2>3. OldMax \in {CreateTime[w] : w \in request.base}
    BY <1>1, <2>2, OldestExists
  <2>4. PICK w \in request.base : OldMax = CreateTime[w]
    BY <2>3
  <2>5. ~(CreateTime[v] < OldMax)
    BY <1>2 DEF OlderThan
  <2>6. CreateTime[w] = CreateTime[v] /\ w # v
    BY <1>1, <1>2, <2>1, <2>4, <2>5
  <2> QED
    BY <2>6 DEF Twin
<1>3. ConsumedInOrder' /\ Gapless' /\ FlightFits'
  BY <1>1, TimelineAlone
<1>4. CASE Stitch
  <2>1. PICK P \in Newest(OlderThan(OldMax, Rows), Limit - Cardinality(request.base)) :
              AnswerLatest(request.base, P)
    BY <1>4 DEF Stitch
  <2>2. UNCHANGED excused
    BY <1>4 DEF Stitch
  <2>3. P \in SUBSET Videos /\ \A v \in request.base, w \in P : CreateTime[w] < CreateTime[v]
    BY BelowAll DEF LatestIInv
  <2>4. ASSUME NEW v \in OlderThan(OldMax, Rows) \ P,
               \A w \in request.base : CreateTime[v] <= CreateTime[w]
        PROVE  hasMore' /\ \A w \in request.base \cup P : CreateTime[v] <= CreateTime[w]
    <3>1. Cardinality(request.base) \in Nat /\ Limit \in Nat
      BY <1>1, SomeVideos, WalkBounds
    <3>2. OlderThan(OldMax, Rows) \in SUBSET Videos
      BY <1>1 DEF OlderThan
    <3>3. /\ Cardinality(P) = Limit - Cardinality(request.base)
          /\ \A w \in P : CreateTime[v] <= CreateTime[w]
      BY <3>1, <3>2, BelowThePage
    <3>4. Cardinality(request.base) + Cardinality(P) = Limit
      BY <3>1, <3>3
    <3> QED
      BY <2>1, <2>4, <3>3, <3>4 DEF AnswerLatest
  <2>5. ASSUME NEW v \in due \cap Rows, cursor = NoCursor \/ CreateTime[v] < cursor
        PROVE  \/ v \in request.base \cup P \cup excused
               \/ Twin(v, request.base \cup P \cup excused \cup deleted)
               \/ hasMore' /\ \A w \in request.base \cup P : CreateTime[v] <= CreateTime[w]
    <3>1. \/ v \in request.base \cup excused
          \/ Twin(v, request.base \cup excused \cup deleted)
          \/ \A w \in request.base : CreateTime[v] <= CreateTime[w]
      BY <1>1, <2>5 DEF LatestWhole, RequestFits
    <3>2. Twin(v, request.base \cup excused \cup deleted)
            => Twin(v, request.base \cup P \cup excused \cup deleted)
      BY DEF Twin
    <3> QED
      BY <1>2, <2>4, <2>5, <3>1, <3>2
  <2>6. LatestComplete'
    BY <1>1, <2>1, <2>2, <2>3, <2>5, AnswerCompletes DEF LatestIInv, LatestWhole
  <2>7. RequestFits'
    BY <1>1, <2>1, AnswerFits
  <2> QED
    BY <1>3, <2>6, <2>7 DEF LatestWhole
<1>5. CASE StitchFails
  <2>1. AnswerLatest(request.base, {}) /\ excused' = excused \cup OlderThan(OldMax, Rows)
    BY <1>5 DEF StitchFails
  <2>2. ASSUME NEW v \in due \cap Rows, cursor = NoCursor \/ CreateTime[v] < cursor
        PROVE  \/ v \in request.base \cup excused'
               \/ Twin(v, request.base \cup excused' \cup deleted)
    <3>1. Twin(v, request.base \cup excused \cup deleted)
            => Twin(v, request.base \cup excused' \cup deleted)
      BY <2>1 DEF Twin
    <3> QED
      BY <1>2, <2>1, <2>2, <3>1
  <2>3. LatestComplete'
    BY <1>1, <2>1, <2>2, AnswerCompletes DEF LatestIInv, LatestWhole
  <2>4. RequestFits'
    BY <1>1, <2>1, AnswerFits
  <2> QED
    BY <1>3, <2>3, <2>4 DEF LatestWhole
<1> QED
  BY <1>4, <1>5

LEMMA WholeStep ==
    ASSUME InOrder, LatestIInv, LatestWhole, LatestNext
    PROVE  LatestWhole'
<1>1. ASSUME NEW v \in Videos, LatestDelete(v)
      PROVE  LatestWhole'
  <2>1. /\ UNCHANGED <<published, walkVars, timelineVars, flight, request, cursor, due, excused>>
        /\ deleted \subseteq deleted' /\ Rows' \subseteq Rows /\ due \subseteq published \ pending
    BY <1>1 DEF LatestDelete, DeleteRow, Rows, LatestWhole, RequestFits
  <2>2. published' \ pending' = published \ pending
    BY <2>1 DEF timelineVars
  <2> QED
    BY <2>1, <2>2, TimelineAlone, PromiseAlone DEF LatestWhole
<1>2. ASSUME LoseTimeline
      PROVE  LatestWhole'
  <2>1. /\ UNCHANGED <<published, deleted, walkVars, pending, flight, request, cursor, due, excused>>
        /\ ~flight.read /\ timeline' = {}
    BY <1>2 DEF LoseTimeline, tableVars
  <2>2. Rows' = Rows /\ due \subseteq published \ pending
    BY <2>1 DEF Rows, LatestWhole, RequestFits
  <2>3. ConsumedInOrder' /\ Gapless' /\ FlightFits'
    BY <2>1 DEF LatestWhole, ConsumedInOrder, Gapless, FlightFits
  <2> QED
    BY <2>1, <2>2, <2>3, PromiseAlone DEF LatestWhole
<1>3. ASSUME ReadTail
      PROVE  LatestWhole'
  <2>1. /\ UNCHANGED <<published, deleted, shown, hasMore, timelineVars, pending, flight, cursor, excused>>
        /\ hasMore /\ due' = Due /\ request'.at \in {"rebuild", "query"}
    BY <1>3 DEF ReadTail, tableVars, walkVars, timelineVars, NoRequest
  <2>2. /\ Rows' = Rows /\ Rows \subseteq published /\ due \subseteq published \ pending
    BY <2>1 DEF Rows, LatestWhole, RequestFits
  <2>3. RequestFits'
    BY <2>1, <2>2 DEF RequestFits, Due
  <2>4. LatestComplete'
    BY <2>1, <2>2 DEF LatestWhole, LatestComplete, Passed, Tied, Due
  <2> QED
    BY <2>1, <2>3, <2>4, TimelineAlone DEF LatestWhole
<1>4. ASSUME ListLatestFromDB
      PROVE  LatestWhole'
  <2>1. /\ \E P \in Newest(OlderThan(cursor, Rows), Limit) : AnswerLatest({}, P)
        /\ hasMore /\ due' \in {due, Due} /\ UNCHANGED <<tableVars, timelineVars, flight, excused>>
    BY <1>4 DEF ListLatestFromDB
  <2> QED
    BY <2>1, ColdKeepsWhole
<1>5. ASSUME ColdPage
      PROVE  LatestWhole'
  <2>1. /\ \E P \in Newest(OlderThan(cursor, Rows), Limit) : AnswerLatest({}, P)
        /\ due' \in {due, Due} /\ UNCHANGED <<tableVars, timelineVars, flight, excused>>
        /\ request.at = "query"
    BY <1>5 DEF ColdPage
  <2>2. hasMore
    BY <2>1 DEF LatestWhole, RequestFits
  <2> QED
    BY <2>1, <2>2, ColdKeepsWhole
<1> QED
  BY <1>1, <1>2, <1>3, <1>4, <1>5, PublishKeepsWhole, AddKeepsWhole, TrimKeepsWhole,
     RebuildReadsKeepsWhole, RebuildWritesKeepsWhole, HotKeepsWhole, StitchKeepsWhole
     DEF LatestNext

-----------------------------------------------------------------------------
(* The feed by likes.                                                      *)

\* Who stands at or before the cursor stands before the videos behind it.
LEMMA PartedBehind ==
    ASSUME NEW x \in Videos, NEW v \in Videos, NEW n \in Nat, NEW w \in Videos,
           likesCount \in [Videos -> Nat],
           ~BehindCursor(x, n, w), BehindCursor(v, n, w)
    PROVE  ~BehindCursor(x, likesCount[v], v)
BY VideosTyped DEF BehindCursor

LEMMA PrecedesIsBehind ==
    ASSUME NEW x \in Videos, NEW v \in Videos, likesCount \in [Videos -> Nat], Precedes(x, v)
    PROVE  /\ ~BehindCursor(x, likesCount[v], v)
           /\ BehindCursor(v, likesCount[x], x)
BY VideosTyped DEF BehindCursor, Precedes

LEMMA LikesPageStep ==
    ASSUME LikesIInv, ListLikesCount
    PROVE  LikesIInv'
<1> DEFINE rest == {v \in Rows : likesCursor = <<>> \/ BehindCursor(v, likesCursor[1], likesCursor[2])}
<1> USE DEF LikesIInv
<1>1. PICK P \in LikesPages :
         /\ Show(P)
         /\ repeated' = repeated \cup (P \cap shown)
         /\ hasMore' = (Cardinality(P) = Limit)
         /\ \/ P = {} /\ likesCursor' = <<>>
            \/ \E v \in P : /\ \A w \in P \ {v} : Precedes(w, v)
                           /\ likesCursor' = <<likesCount[v], v>>
  BY DEF ListLikesCount
<1>2. /\ P \subseteq rest
      /\ Cardinality(P) = IF Cardinality(rest) < Limit THEN Cardinality(rest) ELSE Limit
      /\ \A v \in P, w \in rest \ P : Precedes(v, w)
  BY DEF LikesPages
<1>3. /\ rest \in SUBSET Videos /\ P \in SUBSET Videos /\ Rows \in SUBSET Videos
      /\ likesCount \in [Videos -> Nat]
  BY <1>2 DEF LikesTypeOK, WalkTypeOK, Rows
<1>4. /\ UNCHANGED <<published, deleted, likesCount, likeChanges, rose, fell>>
      /\ asked' = TRUE /\ hasMore /\ Rows' = Rows
      /\ shown' = shown \cup P
  BY <1>1 DEF ListLikesCount, tableVars, Rows, Show
<1>5. LikesTypeOK'
  <2>1. delivered' \in Nat
    BY <1>1, <1>3, SomeVideos DEF Show, LikesTypeOK, WalkTypeOK
  <2>2. likesCursor' \in {<<>>} \cup (Nat \X Videos)
    BY <1>1, <1>3
  <2> QED
    BY <1>1, <1>3, <1>4, <2>1, <2>2 DEF LikesTypeOK, WalkTypeOK
<1>6. likesCursor # <<>> =>
         /\ asked /\ likesCursor[1] \in Nat /\ likesCursor[2] \in Videos
         /\ \A v \in shown \ fell : ~BehindCursor(v, likesCursor[1], likesCursor[2])
         /\ \A v \in P : BehindCursor(v, likesCursor[1], likesCursor[2])
  BY <1>2, <1>4 DEF LikesParted, LikesTypeOK
<1>7. likesCursor = <<>> => shown = {}
  BY <1>4 DEF LikesParted
<1>8. (Rows \ shown) \ rose \subseteq rest
  BY <1>4, <1>6 DEF LikesParted
<1>9. LikesNoRepeats'
  BY <1>1, <1>4, <1>6, <1>7 DEF LikesNoRepeats
<1>10. LikesComplete'
  <2> SUFFICES ASSUME ~hasMore' PROVE (Rows \ shown') \subseteq rose
    BY <1>4 DEF LikesComplete
  <2>1. Cardinality(P) = Cardinality(rest)
    BY <1>1, <1>2
  <2>2. P = rest
    BY <1>2, <1>3, <2>1, SomeVideos, FS_Subset
  <2> QED
    BY <1>4, <1>8, <2>2
<1>11. LikesParted'
  <2> SUFFICES ASSUME hasMore'
               PROVE  /\ likesCursor' # <<>>
                      /\ \A x \in shown' \ fell :
                            ~BehindCursor(x, likesCursor'[1], likesCursor'[2])
                      /\ \A y \in (Rows \ shown') \ rose :
                            BehindCursor(y, likesCursor'[1], likesCursor'[2])
    BY <1>4 DEF LikesParted, BehindCursor
  <2>1. P # {}
    BY <1>1, EmptySize, WalkBounds
  <2>2. PICK v \in P : /\ \A w \in P \ {v} : Precedes(w, v)
                       /\ likesCursor' = <<likesCount[v], v>>
    BY <1>1, <2>1
  <2>3. v \in Videos /\ likesCursor'[1] = likesCount[v] /\ likesCursor'[2] = v
        /\ likesCursor' # <<>>
    BY <1>3, <2>2
  <2>4. ASSUME NEW x \in shown' \ fell
        PROVE  ~BehindCursor(x, likesCount[v], v)
    <3>1. CASE x = v
      BY <1>3, <2>3, <3>1, VideosTyped DEF BehindCursor
    <3>2. CASE x \in P \ {v}
      BY <1>3, <2>2, <2>3, <3>2, PrecedesIsBehind
    <3>3. CASE x \in shown
      <4>1. likesCursor # <<>> /\ x \in Videos
        BY <1>7, <3>3 DEF LikesTypeOK, WalkTypeOK
      <4>2. ~BehindCursor(x, likesCursor[1], likesCursor[2])
        BY <1>6, <2>4, <3>3, <4>1
      <4>3. BehindCursor(v, likesCursor[1], likesCursor[2])
        BY <1>6, <2>2, <4>1
      <4> QED
        BY <1>3, <1>6, <2>3, <4>1, <4>2, <4>3, PartedBehind
    <3> QED
      BY <1>4, <2>4, <3>1, <3>2, <3>3
  <2>5. ASSUME NEW y \in (Rows \ shown') \ rose
        PROVE  BehindCursor(y, likesCount[v], v)
    <3>1. y \in rest \ P
      BY <1>4, <1>8, <2>5
    <3>2. Precedes(v, y)
      BY <1>2, <2>2, <3>1
    <3> QED
      BY <1>3, <2>3, <3>1, <3>2, PrecedesIsBehind
  <2> QED
    BY <2>3, <2>4, <2>5
<1> QED
  BY <1>5, <1>9, <1>10, <1>11

LEMMA LikesStep ==
    ASSUME LikesIInv, LikesNext
    PROVE  LikesIInv'
<1> USE DEF LikesIInv
<1>1. ASSUME NEW v \in Videos, LikesDelete(v)
      PROVE  LikesIInv'
  <2>1. /\ UNCHANGED <<shown, delivered, hasMore, likesCursor, asked, repeated, likesCount,
                       likeChanges, rose, fell, published>>
        /\ deleted' = deleted \cup {v} /\ v \in Rows
    BY <1>1 DEF LikesDelete, DeleteRow, walkVars, likesWalkVars
  <2>2. Rows' \subseteq Rows
    BY <2>1 DEF Rows
  <2>3. LikesTypeOK'
    BY <2>1 DEF LikesTypeOK, WalkTypeOK, Rows
  <2>4. LikesParted'
    BY <2>1, <2>2 DEF LikesParted, BehindCursor
  <2> QED
    BY <2>1, <2>2, <2>3, <2>4 DEF LikesNoRepeats, LikesComplete
<1>2. ASSUME NEW v \in Videos, NEW c \in {1, -1}, ChangeLikesCount(v, c)
      PROVE  LikesIInv'
  <2>1. /\ UNCHANGED <<shown, delivered, hasMore, likesCursor, asked, repeated, published, deleted>>
        /\ likesCount' = [likesCount EXCEPT ![v] = @ + c] /\ likesCount[v] + c >= 0
        /\ rose' = IF c > 0 /\ v \notin shown THEN rose \cup {v} ELSE rose
        /\ fell' = IF c < 0 /\ v \in shown THEN fell \cup {v} ELSE fell
    BY <1>2 DEF ChangeLikesCount, tableVars, walkVars, likesWalkVars
  <2>2. Rows' = Rows /\ Rows \in SUBSET Videos
    BY <2>1 DEF Rows, LikesTypeOK, WalkTypeOK
  <2>3. LikesTypeOK'
    <3>1. likesCount[v] + c \in Nat
      BY <2>1 DEF LikesTypeOK
    <3> QED
      BY <2>1, <3>1 DEF LikesTypeOK, WalkTypeOK
  <2>4. LikesParted'
    <3> SUFFICES ASSUME asked, hasMore
                 PROVE  /\ \A x \in shown \ fell' :
                             ~BehindCursor(x, likesCursor[1], likesCursor[2])'
                        /\ \A y \in (Rows \ shown) \ rose' :
                             BehindCursor(y, likesCursor[1], likesCursor[2])'
      BY <2>1, <2>2 DEF LikesParted
    <3>1. likesCursor[1] \in Nat /\ likesCursor[2] \in Videos
      BY DEF LikesParted, LikesTypeOK
    <3>2. ASSUME NEW x \in shown \ fell'
          PROVE  ~BehindCursor(x, likesCursor[1], likesCursor[2])'
      <4>1. ~BehindCursor(x, likesCursor[1], likesCursor[2]) /\ x \in Videos
        BY <2>1, <3>2 DEF LikesParted, LikesTypeOK, WalkTypeOK
      <4>2. likesCount[x] \in Nat /\ likesCount'[x] \in Nat /\ likesCount'[x] >= likesCount[x]
        BY <2>1, <2>3, <3>2, <4>1 DEF LikesTypeOK
      <4> QED
        BY <2>1, <3>1, <4>1, <4>2 DEF BehindCursor
    <3>3. ASSUME NEW y \in (Rows \ shown) \ rose'
          PROVE  BehindCursor(y, likesCursor[1], likesCursor[2])'
      <4>1. BehindCursor(y, likesCursor[1], likesCursor[2]) /\ y \in Videos
        BY <2>1, <2>2, <3>3 DEF LikesParted
      <4>2. likesCount[y] \in Nat /\ likesCount'[y] \in Nat /\ likesCount'[y] <= likesCount[y]
        BY <2>1, <2>3, <3>3, <4>1 DEF LikesTypeOK
      <4> QED
        BY <2>1, <3>1, <4>1, <4>2 DEF BehindCursor
    <3> QED
      BY <3>2, <3>3
  <2> QED
    BY <2>1, <2>2, <2>3, <2>4 DEF LikesNoRepeats, LikesComplete
<1> QED
  BY <1>1, <1>2, LikesPageStep DEF LikesNext

-----------------------------------------------------------------------------
(* Sums.                                                                   *)

\* Induction, over a set of numbers.
LEMMA SetInduction ==
    ASSUME NEW Q \in SUBSET Nat, 0 \in Q, \A n \in Q : n + 1 \in Q
    PROVE  Q = Nat
<1> SUFFICES ASSUME Nat \ Q # {} PROVE FALSE
  OBVIOUS
<1> DEFINE less == {ss \in Nat \X Nat : ss[1] < ss[2]}
<1>1. IsWellFoundedOn(less, Nat)
  BY NatLessThanWellFounded DEF OpToRel
<1>2. PICK n \in Nat \ Q : \A m \in Nat \ Q : ~(<<m, n>> \in less)
  <2> HIDE DEF less
  <2> QED
    BY <1>1, WFMin
<1>3. n # 0 /\ n - 1 \in Nat /\ <<n - 1, n>> \in less /\ (n - 1) + 1 = n
  OBVIOUS
<1> HIDE DEF less
<1> QED
  BY <1>2, <1>3

\* The sum exists because it can be had for ever larger subsets.
LEMMA SumIsInt ==
    ASSUME NEW S, IsFiniteSet(S), NEW g \in [S -> Int]
    PROVE  SumFunction(g) \in Int
<1> DEFINE pick(s) == CHOOSE x \in s : TRUE
           upTo(n) == {s \in SUBSET S : Cardinality(s) <= n}
           Sums(n) == {h \in [upTo(n) -> Int] : \A s \in upTo(n) :
                         h[s] = IF s = {} THEN 0 ELSE g[pick(s)] + h[s \ {pick(s)}]}
           solved == {n \in Nat : Sums(n) # {}}
           Solves(h) == h = [s \in SUBSET S |-> IF s = {} THEN 0
                               ELSE LET x == CHOOSE x \in s : TRUE IN g[x] + h[s \ {x}]]
           iter == CHOOSE h : Solves(h)
           typed == {n \in Nat : \A s \in upTo(n) : iter[s] \in Int}
<1>1. SumFunction(g) = iter[S]
  BY DEF SumFunction, SumFunctionOnSet, FoldFunctionOnSet, MapThenFoldSet
<1>2. \A s \in SUBSET S : IsFiniteSet(s) /\ Cardinality(s) \in Nat /\ (Cardinality(s) = 0 <=> s = {})
  BY FS_Subset, FS_CardinalityType, FS_EmptySet
<1>3. ASSUME NEW n \in Nat, NEW s \in upTo(n + 1), s # {}
      PROVE  pick(s) \in S /\ s \ {pick(s)} \in upTo(n)
  <2>1. pick(s) \in s
    BY <1>3
  <2>2. Cardinality(s \ {pick(s)}) = Cardinality(s) - 1
    BY <1>2, <2>1, FS_RemoveElement
  <2> HIDE DEF pick
  <2> QED
    BY <1>2, <2>1, <2>2
<1>4. upTo(0) = {{}}
  BY <1>2, FS_EmptySet
<1>5. 0 \in solved
  <2> DEFINE h == [s \in upTo(0) |-> 0]
  <2>1. h \in Sums(0)
    BY <1>4
  <2> QED
    BY <2>1
<1>6. ASSUME NEW n \in solved PROVE n + 1 \in solved
  <2>1. PICK h \in Sums(n) : TRUE
    OBVIOUS
  <2> DEFINE k == [s \in upTo(n + 1) |-> IF s = {} THEN 0 ELSE g[pick(s)] + h[s \ {pick(s)}]]
  <2>2. k \in [upTo(n + 1) -> Int]
    <3> HIDE DEF pick, upTo
    <3> QED
      BY <1>3, <2>1
  <2>3. \A s \in upTo(n) : s \in upTo(n + 1) /\ k[s] = h[s]
    <3>1. \A s \in upTo(n) : s \in upTo(n + 1)
      BY <1>2
    <3> HIDE DEF pick, upTo
    <3> QED
      BY <2>1, <3>1
  <2>4. \A s \in upTo(n + 1) : k[s] = IF s = {} THEN 0 ELSE g[pick(s)] + k[s \ {pick(s)}]
    <3> HIDE DEF pick, upTo
    <3> QED
      BY <1>3, <2>3
  <2>5. k \in Sums(n + 1)
    <3> HIDE DEF pick, upTo, k
    <3> QED
      BY <2>2, <2>4
  <2> HIDE DEF Sums
  <2> QED
    BY <2>5
<1>7. Cardinality(S) \in solved /\ Cardinality(S) \in Nat
  <2> HIDE DEF solved
  <2>1. solved \in SUBSET Nat
    BY DEF solved
  <2> QED
    BY <1>2, <1>5, <1>6, <2>1, SetInduction
<1>8. upTo(Cardinality(S)) = SUBSET S
  BY <1>2, FS_Subset
<1>9. Solves(iter)
  <2>1. PICK h \in Sums(Cardinality(S)) : TRUE
    BY <1>7
  <2>2. Solves(h)
    BY <1>8, <2>1
  <2> HIDE DEF Solves
  <2> QED
    BY <2>2
<1>10. \A s \in SUBSET S : iter[s] = IF s = {} THEN 0 ELSE g[pick(s)] + iter[s \ {pick(s)}]
  <2> HIDE DEF iter
  <2> QED
    BY <1>9
<1> HIDE DEF iter
<1>11. 0 \in typed
  <2>1. iter[{}] = 0
    BY <1>10
  <2> QED
    BY <1>4, <2>1
<1>12. ASSUME NEW n \in typed PROVE n + 1 \in typed
  <2> HIDE DEF pick
  <2>1. ASSUME NEW s \in upTo(n + 1) PROVE iter[s] \in Int
    <3>1. CASE s = {}
      BY <1>10, <3>1
    <3>2. CASE s # {}
      <4>1. pick(s) \in S /\ s \ {pick(s)} \in upTo(n)
        BY <1>3, <3>2
      <4> QED
        BY <1>10, <3>2, <4>1
    <3> QED
      BY <3>1, <3>2
  <2> QED
    BY <2>1
<1>13. Cardinality(S) \in typed
  <2> HIDE DEF typed
  <2>1. typed \in SUBSET Nat
    BY DEF typed
  <2> QED
    BY <1>7, <1>11, <1>12, <2>1, SetInduction
<1> QED
  BY <1>1, <1>8, <1>13

-----------------------------------------------------------------------------
(* Rankings and their pages.                                               *)

\* A strict order of all of S, as a set of pairs <<earlier, later>>.
Orders(R, S) ==
    /\ \A v \in S : <<v, v>> \notin R
    /\ \A u, v, w \in S : <<u, v>> \in R /\ <<v, w>> \in R => <<u, w>> \in R
    /\ \A v, w \in S : v = w \/ <<v, w>> \in R \/ <<w, v>> \in R

\* No two members have the same number of others before them, so each number is taken.
LEMMA RankedLists ==
    ASSUME NEW S, IsFiniteSet(S), NEW R, Orders(R, S)
    PROVE  /\ Cardinality(S) \in Nat
           /\ Lists(Ranked(S, R), Cardinality(S), S)
           /\ \A i, j \in 1 .. Cardinality(S) :
                 i < j => <<Ranked(S, R)[i], Ranked(S, R)[j]>> \in R
           /\ \A v \in S : \E i \in 1 .. Cardinality(S) : Ranked(S, R)[i] = v
<1> DEFINE n == Cardinality(S)
           before(v) == {w \in S : <<w, v>> \in R}
           rank(v) == Cardinality(before(v))
           s == Ranked(S, R)
<1>1. n \in Nat
  BY FS_CardinalityType
<1>2. ASSUME NEW v \in S
      PROVE  IsFiniteSet(before(v)) /\ rank(v) \in 0 .. n - 1
  <2>1. before(v) \in SUBSET (S \ {v})
    BY DEF Orders
  <2>2. IsFiniteSet(S \ {v}) /\ Cardinality(S \ {v}) = n - 1
    BY FS_RemoveElement
  <2> HIDE DEF before
  <2>3. IsFiniteSet(before(v)) /\ rank(v) <= n - 1
    BY <2>1, <2>2, FS_Subset
  <2> QED
    BY <1>1, <2>3, FS_CardinalityType
<1>3. ASSUME NEW v \in S, NEW w \in S, <<v, w>> \in R
      PROVE  rank(v) < rank(w)
  <2>1. before(v) \in SUBSET before(w) /\ v \in before(w) /\ v \notin before(v)
    BY <1>3 DEF Orders
  <2> HIDE DEF before
  <2>2. rank(v) <= rank(w) /\ (rank(w) = rank(v) => before(w) = before(v))
    BY <1>2, <2>1, FS_Subset
  <2> QED
    BY <1>2, <2>1, <2>2
<1> HIDE DEF n, rank
<1>4. ASSUME NEW v \in S, NEW w \in S, rank(v) = rank(w)
      PROVE  v = w
  <2>1. v = w \/ <<v, w>> \in R \/ <<w, v>> \in R
    BY DEF Orders
  <2>2. rank(v) \in 0 .. n - 1 /\ rank(w) \in 0 .. n - 1
    BY <1>2
  <2> QED
    BY <1>1, <1>3, <1>4, <2>1, <2>2
<1>5. \A i \in 1 .. n : \E v \in S : rank(v) = i - 1
  <2> DEFINE f == [v \in S |-> rank(v) + 1]
  <2>a. ASSUME NEW v \in S PROVE rank(v) \in Nat /\ rank(v) + 1 \in 1 .. n
    <3>1. rank(v) \in 0 .. n - 1
      BY <1>2
    <3> QED
      BY <1>1, <3>1
  <2>b. f \in [S -> 1 .. n]
    BY <2>a
  <2>c. ASSUME NEW v \in S, NEW w \in S, f[v] = f[w] PROVE v = w
    <3>1. rank(v) = rank(w)
      BY <2>a, <2>c
    <3> QED
      BY <1>4, <3>1
  <2>1. f \in Injection(S, 1 .. n)
    <3> HIDE DEF f
    <3> QED
      BY <2>b, <2>c DEF Injection, IsInjective
  <2>2. IsFiniteSet(1 .. n) /\ Cardinality(1 .. n) = n
    BY <1>1, FS_Interval
  <2>d. Cardinality(S) = Cardinality(1 .. n)
    BY <2>2 DEF n
  <2> HIDE DEF f
  <2>3. f \in Surjection(S, 1 .. n)
    BY <2>1, <2>2, <2>d, FS_Injection
  <2>4. ASSUME NEW i \in 1 .. n PROVE \E v \in S : rank(v) = i - 1
    <3>1. PICK v \in S : f[v] = i
      BY <2>3 DEF Surjection
    <3>2. rank(v) + 1 = i
      BY <3>1 DEF f
    <3> QED
      BY <1>1, <2>a, <3>2
  <2> QED
    BY <2>4
<1>6. \A i \in 1 .. n : s[i] \in S /\ rank(s[i]) = i - 1
  <2>1. s = [i \in 1 .. n |-> CHOOSE v \in S : rank(v) = i - 1]
    BY DEF Ranked, n, rank
  <2> HIDE DEF s
  <2> QED
    BY <1>5, <2>1
<1>7. s \in [1 .. n -> S]
  <2>1. s = [i \in 1 .. n |-> CHOOSE v \in S : rank(v) = i - 1]
    BY DEF Ranked, n, rank
  <2>2. DOMAIN s = 1 .. n /\ s = [i \in 1 .. n |-> s[i]]
    BY <2>1
  <2> HIDE DEF s
  <2> QED
    BY <1>6, <2>2
<1> HIDE DEF s
<1>8. \A i, j \in 1 .. n : s[i] = s[j] => i = j
  BY <1>1, <1>6
<1>9. \A i, j \in 1 .. n : i < j => <<s[i], s[j]>> \in R
  <2> SUFFICES ASSUME NEW i \in 1 .. n, NEW j \in 1 .. n, i < j, <<s[i], s[j]>> \notin R
               PROVE  FALSE
    OBVIOUS
  <2>1. <<s[j], s[i]>> \in R
    BY <1>6, <1>8 DEF Orders
  <2>2. rank(s[j]) < rank(s[i])
    BY <1>3, <1>6, <2>1
  <2> QED
    BY <1>1, <1>6, <2>2
<1>10. \A v \in S : \E i \in 1 .. n : s[i] = v
  <2> TAKE v \in S
  <2>0. rank(v) \in 0 .. n - 1
    BY <1>2
  <2>1. rank(v) + 1 \in 1 .. n /\ (rank(v) + 1) - 1 = rank(v)
    BY <1>1, <2>0
  <2> QED
    BY <1>4, <1>6, <2>1
<1> QED
  BY <1>1, <1>7, <1>8, <1>9, <1>10 DEF Lists, s, n

\* A page that is full leaves off within the ranking, any other at its end.
LEMMA PageSizes ==
    ASSUME NEW n \in Nat, NEW s, Lists(s, n, Videos), NEW offset \in Nat
    PROVE  /\ PageAt(s, offset) \in SUBSET Videos
           /\ Cardinality(PageAt(s, offset)) \in Nat
           /\ Cardinality(PageAt(s, offset)) <= Limit
           /\ Cardinality(PageAt(s, offset)) = Limit =>
                 /\ offset + Limit <= n
                 /\ PageAt(s, offset) = {s[i] : i \in offset + 1 .. offset + Limit}
           /\ Cardinality(PageAt(s, offset)) # Limit =>
                 PageAt(s, offset) = {s[i] : i \in {j \in 1 .. n : offset < j}}
<1> DEFINE last == IF offset + Limit <= n THEN offset + Limit ELSE n
           indices == offset + 1 .. last
           P == PageAt(s, offset)
           f == [i \in indices |-> s[i]]
<1>1. Limit \in Nat \ {0} /\ last \in Nat /\ last <= n /\ last <= offset + Limit
  BY WalkBounds
<1>2. DOMAIN s = 1 .. n /\ indices = {j \in 1 .. n : offset < j /\ j <= offset + Limit}
  BY <1>1 DEF Lists
<1>3. P = {s[i] : i \in indices}
  BY <1>2 DEF PageAt
<1>4. IsFiniteSet(indices) /\ Cardinality(indices) = IF offset + 1 > last THEN 0 ELSE last - offset
  <2>1. last - (offset + 1) + 1 = last - offset
    BY <1>1
  <2> HIDE DEF last
  <2> QED
    BY <1>1, <2>1, FS_Interval
<1>5. f \in Bijection(indices, P)
  <2>1. f \in Injection(indices, P)
    BY <1>2, <1>3 DEF Lists, Injection, IsInjective
  <2>2. f \in Surjection(indices, P)
    BY <1>3, <2>1 DEF Surjection, Injection
  <2> QED
    BY <2>1, <2>2 DEF Bijection
<1>6. Cardinality(P) = Cardinality(indices)
  <2> HIDE DEF f, P, indices
  <2> QED
    BY <1>4, <1>5, FS_Bijection DEF ExistsBijection
<1>7. P \in SUBSET Videos
  BY <1>2, <1>3 DEF Lists
<1>8. CASE offset + Limit <= n
  <2>1. last = offset + Limit /\ Cardinality(P) = Limit
    BY <1>1, <1>4, <1>6, <1>8
  <2> QED
    BY <1>1, <1>3, <1>7, <1>8, <2>1
<1>9. CASE ~(offset + Limit <= n)
  <2>1. last = n /\ Cardinality(P) < Limit /\ Cardinality(P) \in Nat
    BY <1>1, <1>4, <1>6, <1>9
  <2>2. indices = {j \in 1 .. n : offset < j}
    BY <1>2, <1>9, <1>1
  <2> QED
    BY <1>1, <1>3, <1>7, <2>1, <2>2
<1> QED
  BY <1>8, <1>9

\* The last of a page.
LEMMA LastOfPage ==
    ASSUME NEW n \in Nat, NEW s, Lists(s, n, Videos),
           NEW P \in SUBSET {s[i] : i \in 1 .. n}, P # {}
    PROVE  \E k \in 1 .. n :
              /\ s[k] \in P /\ LastOf(s, P) = s[k]
              /\ \A i \in 1 .. n : s[i] \in P => i <= k
<1> DEFINE I == {i \in 1 .. n : s[i] \in P}
           less == {ss \in Nat \X Nat : ss[1] < ss[2]}
           D == {n - i : i \in I}
<1>1. D \subseteq Nat /\ D # {}
  OBVIOUS
<1>2. IsWellFoundedOn(less, Nat)
  BY NatLessThanWellFounded DEF OpToRel
<1>3. PICK d \in D : \A e \in D : ~(<<e, d>> \in less)
  <2> HIDE DEF D, less
  <2> QED
    BY <1>1, <1>2, WFMin
<1>4. \A e \in D : d <= e
  <2> SUFFICES ASSUME NEW e \in D, ~(d <= e) PROVE FALSE
    OBVIOUS
  <2>1. d \in Nat /\ e \in Nat
    BY <1>1
  <2>2. <<e, d>> \in less
    <3> HIDE DEF D
    <3> QED
      BY <2>1
  <2> HIDE DEF D, less
  <2> QED
    BY <1>3, <2>2
<1>5. n - d \in I /\ \A i \in I : n - d >= i
  <2>1. PICK k \in I : d = n - k
    BY <1>3
  <2>2. k = n - d
    BY <2>1
  <2>3. ASSUME NEW i \in I PROVE k >= i
    <3>1. n - k <= n - i
      BY <1>4, <2>1
    <3> QED
      BY <3>1
  <2> HIDE DEF I
  <2> QED
    BY <2>2, <2>3
<1>6. Max(I) \in I /\ \A i \in I : Max(I) >= i
  <2> HIDE DEF I
  <2> QED
    BY <1>5 DEF Max
<1>7. LastOf(s, P) = s[Max(I)]
  <2>1. DOMAIN s = 1 .. n
    BY DEF Lists
  <2> QED
    BY <2>1 DEF LastOf
<1> QED
  BY <1>6, <1>7

-----------------------------------------------------------------------------
(* The feed by popularity: the two orders, and the types.                  *)

LEMMA ScoreIsInt ==
    ASSUME HotTypeOK, NEW t \in Minutes, NEW v \in Videos
    PROVE  MergedScore(t, v) \in Int
<1> DEFINE S == {j \in Merges(t) : v \in DOMAIN window[t - j]}
           g == [i \in S |-> Weight[i] * window[t - i][v]]
<1>1. S \in SUBSET (0 .. HotWindows - 1) /\ IsFiniteSet(0 .. HotWindows - 1)
  BY HotBounds, FS_Interval DEF Merges
<1>2. IsFiniteSet(S)
  <2> HIDE DEF S
  <2> QED
    BY <1>1, FS_Subset
<1>3. ASSUME NEW i \in S PROVE Weight[i] * window[t - i][v] \in Int
  <2>1. i \in 0 .. HotWindows - 1 /\ t - i \in Minutes
    BY HotBounds DEF Merges, Minutes
  <2>2. Weight[i] \in Int
    BY <2>1, HotBounds
  <2>3. window[t - i][v] \in Int
    BY <2>1 DEF HotTypeOK
  <2> HIDE DEF S
  <2> QED
    BY <2>2, <2>3
<1>4. g \in [S -> Int]
  <2> HIDE DEF S
  <2> QED
    BY <1>3
<1>5. SumFunction(g) \in Int
  <2> HIDE DEF S, g
  <2> QED
    BY <1>2, <1>4, SumIsInt
<1> QED
  BY <1>5 DEF MergedScore

LEMMA UnionIsRanking ==
    ASSUME HotTypeOK, NEW t \in Minutes
    PROVE  IsRanking(Union(t))
<1> DEFINE S == MergedMembers(t)
           R == MergedOrder(t)
<1>1. S \in SUBSET Videos
  BY HotBounds DEF MergedMembers, Merges, Minutes, HotTypeOK
<1>2. IsFiniteSet(S)
  BY <1>1, SomeVideos
<1>3. \A v \in S : MergedScore(t, v) \in Int /\ v \in Int
  <2> HIDE DEF S
  <2> QED
    BY <1>1, ScoreIsInt, VideosTyped
<1>4. Orders(R, S)
  <2>1. \A v, w \in S : <<v, w>> \in R <=>
           \/ MergedScore(t, v) > MergedScore(t, w)
           \/ MergedScore(t, v) = MergedScore(t, w) /\ v > w
    BY DEF MergedOrder
  <2> HIDE DEF S, R
  <2> QED
    BY <1>3, <2>1 DEF Orders
<1>5. Cardinality(S) \in Nat /\ Lists(Ranked(S, R), Cardinality(S), S)
  <2> HIDE DEF S, R
  <2> QED
    BY <1>2, <1>4, RankedLists
<1>6. Lists(Ranked(S, R), Cardinality(S), Videos)
  <2> HIDE DEF S, R
  <2> QED
    BY <1>1, <1>5 DEF Lists
<1> QED
  BY <1>5, <1>6 DEF IsRanking, Union

\* Behind, as an order of the rows.
TableOrder ==
    {p \in Rows \X Rows : Behind(popularity[p[2]], p[2], popularity[p[1]], p[1])}

LEMMA TableIsOrdered ==
    ASSUME HotTypeOK, NEW S \in SUBSET Rows
    PROVE  Orders(TableOrder, S)
<1>1. \A v \in S : v \in Int /\ popularity[v] \in Int /\ CreateTime[v] \in Int /\ v \in Rows
  BY VideosTyped, CreateTimeTyped DEF HotTypeOK, WalkTypeOK, Rows
<1>2. \A v, w \in S : <<v, w>> \in TableOrder <=> Behind(popularity[w], w, popularity[v], v)
  BY <1>1 DEF TableOrder
<1>3. \A v \in S : <<v, v>> \notin TableOrder
  BY <1>1, <1>2 DEF Behind
<1>4. \A u, v, w \in S : <<u, v>> \in TableOrder /\ <<v, w>> \in TableOrder => <<u, w>> \in TableOrder
  BY <1>1, <1>2 DEF Behind
<1>5. ASSUME NEW v \in S, NEW w \in S
      PROVE  v = w \/ <<v, w>> \in TableOrder \/ <<w, v>> \in TableOrder
  <2>1. /\ popularity[v] \in Int /\ popularity[w] \in Int
        /\ CreateTime[v] \in Int /\ CreateTime[w] \in Int /\ v \in Int /\ w \in Int
    BY <1>1
  <2>2. \/ v = w
        \/ Behind(popularity[w], w, popularity[v], v)
        \/ Behind(popularity[v], v, popularity[w], w)
    BY <2>1 DEF Behind
  <2> QED
    BY <1>2, <2>2
<1> QED
  BY <1>3, <1>4, <1>5 DEF Orders

\* What the query of the next page finds, and in which order.
Remaining ==
    {v \in Rows : \/ hotCursor.last = NoVideo
                  \/ Behind(popularity[v], v, hotCursor.pop, hotCursor.last)}

LEMMA TableRanking ==
    ASSUME HotTypeOK
    PROVE  /\ Cardinality(Remaining) \in Nat
           /\ Lists(ByPopularity, Cardinality(Remaining), Videos)
           /\ Remaining = {ByPopularity[i] : i \in 1 .. Cardinality(Remaining)}
           /\ \A i, j \in 1 .. Cardinality(Remaining) :
                 i < j => Behind(popularity[ByPopularity[j]], ByPopularity[j],
                                 popularity[ByPopularity[i]], ByPopularity[i])
<1>1. Remaining \in SUBSET Rows /\ Rows \in SUBSET Videos
  BY DEF Remaining, Rows, HotTypeOK, WalkTypeOK
<1>2. IsFiniteSet(Remaining)
  BY <1>1, SomeVideos
<1>3. Orders(TableOrder, Remaining)
  BY <1>1, TableIsOrdered
<1>4. ByPopularity = Ranked(Remaining, TableOrder)
  BY DEF ByPopularity, Remaining, TableOrder
<1> DEFINE s == Ranked(Remaining, TableOrder)
           n == Cardinality(Remaining)
<1>5. /\ n \in Nat /\ Lists(s, n, Remaining)
      /\ \A i, j \in 1 .. n : i < j => <<s[i], s[j]>> \in TableOrder
      /\ \A v \in Remaining : \E i \in 1 .. n : s[i] = v
  BY <1>2, <1>3, RankedLists
<1> HIDE DEF s, n
<1>6. Lists(s, n, Videos)
  BY <1>1, <1>5 DEF Lists
<1>7. Remaining = {s[i] : i \in 1 .. n}
  BY <1>5 DEF Lists
<1>8. \A i, j \in 1 .. n : i < j => Behind(popularity[s[j]], s[j], popularity[s[i]], s[i])
  BY <1>5 DEF TableOrder
<1> QED
  BY <1>4, <1>5, <1>6, <1>7, <1>8 DEF s, n

LEMMA RankingTyped ==
    ASSUME NEW s, IsRanking(s)
    PROVE  ToSet(s) \subseteq Videos
BY DEF IsRanking, Lists, ToSet

LEMMA EmptyRanking == IsRanking(<<>>)
<1>1. Lists(<<>>, 0, Videos)
  BY DEF Lists
<1> QED
  BY <1>1 DEF IsRanking

-----------------------------------------------------------------------------
(* The feed by popularity: the walk.                                       *)

LEMMA BehindTransitive ==
    ASSUME NEW p \in Int, NEW q \in Int, NEW r \in Int,
           NEW u \in Videos, NEW v \in Videos, NEW w \in Videos
    PROVE  /\ ~Behind(p, u, p, u)
           /\ Behind(p, u, q, v) /\ Behind(q, v, r, w) => Behind(p, u, r, w)
<1>1. /\ u \in Int /\ v \in Int /\ w \in Int
      /\ CreateTime[u] \in Int /\ CreateTime[v] \in Int /\ CreateTime[w] \in Int
  BY VideosTyped, CreateTimeTyped
<1> QED
  BY <1>1 DEF Behind

\* What is done while no page is shown.
LEMMA HotWalkAlone ==
    ASSUME HotTypeOK, HotWalked, UNCHANGED <<walkVars, hotCursor, source, ranking>>,
           Rows' \subseteq Rows, steady' => steady, source = "none" => steady',
           source = "db" /\ steady' => popularity' = popularity
    PROVE  HotWalked'
<1> USE DEF walkVars
<1>1. HotUnread'
  BY DEF HotWalked, HotUnread, NoHotCursor
<1>2. SnapshotWalked'
  BY DEF HotWalked, SnapshotWalked, ToSet
<1>3. TableWalked'
  <2> SUFFICES ASSUME source = "db", steady', popularity' = popularity, steady PROVE TableWalked'
    BY DEF TableWalked
  <2> QED
    BY DEF HotWalked, TableWalked, ToSet, Behind
<1> QED
  BY <1>1, <1>2, <1>3 DEF HotWalked

LEMMA StoreKeepsRankings ==
    ASSUME HotTypeOK, HotKept, NEW t \in Minutes, StoreUnion(t)
    PROVE  /\ \A u \in Minutes : IsRanking(snapshot'[u])
           /\ DOMAIN snapshot' = Minutes /\ merged' \in [Minutes -> Minutes]
<1>1. IsRanking(Union(t))
  BY UnionIsRanking
<1>2. \A u \in Minutes : snapshot'[u] = IF u = t THEN Union(t) ELSE snapshot[u]
  BY DEF StoreUnion, HotTypeOK
<1>3. \A u \in Minutes : IsRanking(snapshot'[u])
  BY <1>1, <1>2 DEF HotKept
<1> QED
  BY <1>3 DEF StoreUnion, HotTypeOK

\* The part of a page that is still there, of members that come behind the offset.
LEMMA HotRangeStep ==
    ASSUME HotIInv, HotRange
    PROVE  HotIInv'
<1> DEFINE s == snapshot[hotRequest.asOf]
           o == hotCursor.offset
           items == Members \cap Rows
<1>1. hasMore /\ hotRequest.asOf \in Minutes /\ o \in Nat
  BY DEF HotIInv, HotKept, HotRange, HotTypeOK
<1>2. PICK n \in Nat : Lists(s, n, Videos)
  BY <1>1 DEF HotIInv, HotKept, IsRanking
<1>3. Members = PageAt(s, o)
  BY DEF Members
<1> HIDE DEF s, o
<1>4. /\ Members \in SUBSET Videos
      /\ Cardinality(Members) \in Nat
      /\ Cardinality(Members) <= Limit
      /\ Cardinality(Members) = Limit =>
            /\ o + Limit <= n
            /\ Members = {s[i] : i \in o + 1 .. o + Limit}
      /\ Cardinality(Members) # Limit =>
            Members = {s[i] : i \in {j \in 1 .. n : o < j}}
  BY <1>1, <1>2, <1>3, PageSizes
<1>5. Members \in SUBSET {s[i] : i \in 1 .. n} /\ DOMAIN s = 1 .. n
      /\ \A v \in Members : \E i \in 1 .. n : o < i /\ v = s[i]
  BY <1>2, <1>3 DEF PageAt, Lists
<1>6. /\ items \in SUBSET Members /\ IsFiniteSet(Members)
      /\ Cardinality(items) \in Nat /\ Cardinality(items) <= Cardinality(Members)
      /\ Cardinality(items) = Cardinality(Members) => items = Members
  BY <1>4, SomeVideos, FS_Subset, FS_CardinalityType
<1>7. items # {} => LastOf(s, items) \in Videos
  <2> SUFFICES ASSUME items # {} PROVE LastOf(s, items) \in Videos
    OBVIOUS
  <2>1. items \in SUBSET {s[i] : i \in 1 .. n}
    BY <1>5
  <2> HIDE DEF items
  <2>2. PICK k \in 1 .. n : s[k] \in items /\ LastOf(s, items) = s[k]
    BY <1>2, <2>1, LastOfPage
  <2> QED
    BY <1>4, <1>6, <2>2
<1>8. /\ shown' = shown \cup items
      /\ delivered' = delivered + Cardinality(items)
      /\ hasMore' = (Cardinality(items) = Limit)
      /\ source' = IF source \in {"none", "hot"} THEN "hot" ELSE "mixed"
      /\ ranking' = IF source = "none" THEN s ELSE ranking
      /\ steady' = (steady /\ ranking' = s)
      /\ hotRequest' = HotIdle
      /\ UNCHANGED <<tableVars, heatVars, snapshotVars>>
  BY DEF HotRange, Show, HotMore, s
<1>9. hotCursor' = [(IF items = {} THEN NoHotCursor ELSE PopularityCursor(LastOf(s, items)))
                    EXCEPT !.asOf = hotRequest.asOf, !.offset = o + Cardinality(items)]
  BY DEF HotRange, s, o
<1>10. /\ hotCursor' \in [asOf : Minutes \cup {NoMinute}, offset : Nat, pop : Nat,
                          last : Videos \cup {NoVideo}]
       /\ hotCursor'.offset = o + Cardinality(items)
  <2>1. \A v \in Videos : popularity[v] \in Nat
    BY DEF HotIInv, HotTypeOK
  <2>2. o + Cardinality(items) \in Nat
    BY <1>1, <1>6
  <2> HIDE DEF items
  <2> QED
    BY <1>1, <1>7, <1>9, <2>1, <2>2 DEF PopularityCursor, NoHotCursor
<1>11. HotTypeOK'
  <2>1. shown' \in SUBSET Videos /\ delivered' \in Nat /\ hasMore' \in BOOLEAN
        /\ source' \in {"none", "hot", "db", "mixed"} /\ steady' \in BOOLEAN
        /\ hotRequest' \in [at : {"idle", "union", "range", "db"}, asOf : Minutes \cup {NoMinute}]
    <3> HIDE DEF items
    <3> QED
      BY <1>4, <1>6, <1>8 DEF HotIInv, HotTypeOK, WalkTypeOK, HotIdle
  <2> HIDE DEF items
  <2> QED
    BY <1>8, <1>10, <2>1 DEF HotIInv, HotTypeOK, WalkTypeOK, tableVars, heatVars, snapshotVars
<1>12. HotKept'
  <2>1. IsRanking(ranking')
    BY <1>2, <1>8 DEF HotIInv, HotKept, IsRanking
  <2> QED
    BY <1>8, <2>1 DEF HotIInv, HotKept, snapshotVars, HotIdle
<1>13. Rows' = Rows
  BY <1>8 DEF Rows, tableVars
<1>14. HotUnread' /\ TableWalked'
  BY <1>8 DEF HotUnread, TableWalked
<1>15. SnapshotWalked'
  <2> SUFFICES ASSUME source \in {"none", "hot"}, steady, ranking' = s
               PROVE  /\ delivered' = Cardinality(shown')
                      /\ hasMore' =>
                            /\ 1 .. hotCursor'.offset \subseteq DOMAIN ranking'
                            /\ shown' = {ranking'[i] : i \in 1 .. hotCursor'.offset}
                      /\ ~hasMore' /\ ToSet(ranking') \subseteq Rows'
                            => ToSet(ranking') \subseteq shown'
    BY <1>8 DEF SnapshotWalked
  <2>1. /\ delivered = Cardinality(shown)
        /\ 1 .. o \subseteq 1 .. n
        /\ shown = {s[i] : i \in 1 .. o}
    <3>1. CASE source = "none"
      <4>1. o = 0 /\ shown = {} /\ delivered = 0
        BY <3>1 DEF HotIInv, HotWalked, HotUnread, NoHotCursor, o
      <4> QED
        BY <4>1, EmptySize
    <3>2. CASE source = "hot"
      <4>1. ranking = s
        BY <1>8, <3>2
      <4> QED
        BY <1>1, <1>5, <3>2, <4>1 DEF HotIInv, HotWalked, SnapshotWalked, o
    <3> QED
      BY <3>1, <3>2
  <2>2. shown \cap items = {}
    <3> SUFFICES ASSUME NEW v \in shown, v \in Members PROVE FALSE
      BY <1>6
    <3>1. PICK i \in 1 .. o : v = s[i]
      BY <2>1
    <3>2. PICK j \in 1 .. n : o < j /\ v = s[j]
      BY <1>5
    <3>3. i \in 1 .. n /\ i # j
      BY <1>1, <2>1, <3>2
    <3> QED
      BY <1>2, <3>1, <3>2, <3>3 DEF Lists
  <2>3. delivered' = Cardinality(shown')
    <3>1. shown \in SUBSET Videos /\ items \in SUBSET Videos
      BY <1>4 DEF HotIInv, HotTypeOK, WalkTypeOK
    <3> HIDE DEF items
    <3> QED
      BY <1>8, <2>1, <2>2, <3>1, JoinSizes
  <2>4. ASSUME hasMore'
        PROVE  /\ 1 .. hotCursor'.offset \subseteq DOMAIN ranking'
               /\ shown' = {ranking'[i] : i \in 1 .. hotCursor'.offset}
    <3>1. Cardinality(items) = Limit
      BY <1>8, <2>4
    <3>2. Cardinality(Members) = Limit /\ items = Members
      <4> HIDE DEF items
      <4> QED
        BY <1>4, <1>6, <3>1, WalkBounds
    <3>3. o + Limit <= n /\ items = {s[i] : i \in o + 1 .. o + Limit}
      BY <1>4, <3>2
    <3>4. hotCursor'.offset = o + Limit
      BY <1>10, <3>1
    <3> HIDE DEF items
    <3>5. shown' = {s[i] : i \in 1 .. o} \cup {s[i] : i \in o + 1 .. o + Limit}
      BY <1>8, <2>1, <3>3
    <3>6. 1 .. o + Limit = 1 .. o \cup o + 1 .. o + Limit
      BY <1>1, WalkBounds
    <3> QED
      BY <1>1, <1>5, <3>3, <3>4, <3>5, <3>6, WalkBounds
  <2>5. ASSUME ~hasMore', ToSet(ranking') \subseteq Rows'
        PROVE  ToSet(ranking') \subseteq shown'
    <3>1. \A i \in 1 .. n : s[i] \in Rows
      BY <1>5, <1>13, <2>5 DEF ToSet
    <3>2. items = Members
      BY <1>5, <3>1
    <3>3. items = {s[i] : i \in {j \in 1 .. n : o < j}}
      BY <1>4, <1>8, <2>5, <3>2
    <3> HIDE DEF items
    <3>4. ASSUME NEW i \in 1 .. n PROVE s[i] \in shown'
      <4>1. CASE i <= o
        <5>1. i \in 1 .. o
          BY <1>1, <4>1
        <5> QED
          BY <1>8, <2>1, <5>1
      <4>2. CASE o < i
        BY <1>8, <3>3, <4>2
      <4> QED
        BY <1>1, <4>1, <4>2
    <3> QED
      BY <1>5, <3>4 DEF ToSet
  <2> QED
    BY <2>3, <2>4, <2>5
<1> QED
  BY <1>11, <1>12, <1>14, <1>15 DEF HotIInv, HotWalked

\* The page of the query, of rows that come behind the cursor.
LEMMA HotFromDBStep ==
    ASSUME HotIInv, HotFromDB
    PROVE  HotIInv'
<1> DEFINE s == ByPopularity
           n == Cardinality(Remaining)
           items == PageAt(s, 0)
           behind(v, w) == Behind(popularity[v], v, popularity[w], w)
<1>1. HotTypeOK /\ hasMore
  BY DEF HotIInv, HotKept, HotFromDB
<1>2. /\ n \in Nat /\ Lists(s, n, Videos)
      /\ Remaining = {s[i] : i \in 1 .. n}
      /\ \A i, j \in 1 .. n : i < j => behind(s[j], s[i])
  BY <1>1, TableRanking
<1> HIDE DEF s, n
<1>3. /\ items \in SUBSET Videos
      /\ Cardinality(items) \in Nat
      /\ Cardinality(items) = Limit => Limit <= n /\ items = {s[i] : i \in 1 .. Limit}
      /\ Cardinality(items) # Limit => items = {s[i] : i \in 1 .. n}
  <2>1. /\ items \in SUBSET Videos
        /\ Cardinality(items) \in Nat
        /\ Cardinality(items) = Limit =>
              /\ 0 + Limit <= n
              /\ items = {s[i] : i \in 0 + 1 .. 0 + Limit}
        /\ Cardinality(items) # Limit => items = {s[i] : i \in {j \in 1 .. n : 0 < j}}
    BY <1>2, PageSizes
  <2>2. {j \in 1 .. n : 0 < j} = 1 .. n
    OBVIOUS
  <2> HIDE DEF items
  <2> QED
    BY <2>1, <2>2, WalkBounds
<1>4. DOMAIN s = 1 .. n /\ items \in SUBSET Remaining /\ Remaining \in SUBSET Rows
  BY <1>2 DEF PageAt, Lists, Remaining
<1>5. /\ shown' = shown \cup items
      /\ delivered' = delivered + Cardinality(items)
      /\ hasMore' = (Cardinality(items) = Limit)
      /\ hotCursor' = IF items = {} THEN NoHotCursor ELSE PopularityCursor(LastOf(s, items))
      /\ source' = IF source \in {"none", "db"} THEN "db" ELSE "mixed"
      /\ ranking' = IF source = "none" THEN s ELSE ranking
      /\ steady' = steady /\ hotRequest' = HotIdle
      /\ UNCHANGED <<tableVars, heatVars, snapshotVars>>
  BY DEF HotFromDB, Show, s
<1> HIDE DEF items
<1>6. items # {} =>
        \E k \in 1 .. n : /\ s[k] \in items /\ LastOf(s, items) = s[k]
                          /\ \A i \in 1 .. n : s[i] \in items => i <= k
  BY <1>2, <1>4, LastOfPage
<1>7. \A v \in Videos : popularity[v] \in Nat
  BY <1>1 DEF HotTypeOK
<1>8. hotCursor' \in [asOf : Minutes \cup {NoMinute}, offset : Nat, pop : Nat,
                      last : Videos \cup {NoVideo}]
  BY <1>3, <1>5, <1>6, <1>7 DEF PopularityCursor, NoHotCursor
<1>9. HotTypeOK'
  <2>1. shown' \in SUBSET Videos /\ delivered' \in Nat /\ hasMore' \in BOOLEAN
        /\ source' \in {"none", "hot", "db", "mixed"} /\ steady' \in BOOLEAN
        /\ hotRequest' \in [at : {"idle", "union", "range", "db"}, asOf : Minutes \cup {NoMinute}]
    BY <1>1, <1>3, <1>5 DEF HotTypeOK, WalkTypeOK, HotIdle
  <2> QED
    BY <1>1, <1>5, <1>8, <2>1 DEF HotTypeOK, WalkTypeOK, tableVars, heatVars, snapshotVars
<1>10. HotKept'
  <2>1. IsRanking(ranking')
    BY <1>2, <1>5 DEF HotIInv, HotKept, IsRanking
  <2> QED
    BY <1>5, <2>1 DEF HotIInv, HotKept, snapshotVars, HotIdle
<1>11. Rows' = Rows /\ popularity' = popularity
  BY <1>5 DEF Rows, tableVars, heatVars
<1>12. HotUnread' /\ SnapshotWalked'
  BY <1>5 DEF HotUnread, SnapshotWalked
<1>13. TableWalked'
  <2> SUFFICES ASSUME source \in {"none", "db"}, steady
               PROVE  /\ delivered' = Cardinality(shown')
                      /\ hasMore' =>
                            /\ hotCursor'.last \in Videos
                            /\ hotCursor'.pop = popularity[hotCursor'.last]
                            /\ \A v \in shown' :
                                  ~Behind(popularity[v], v, hotCursor'.pop, hotCursor'.last)
                            /\ \A v \in (ToSet(ranking') \cap Rows) \ shown' :
                                  Behind(popularity[v], v, hotCursor'.pop, hotCursor'.last)
                      /\ ~hasMore' => ToSet(ranking') \cap Rows \subseteq shown'
    BY <1>5, <1>11 DEF TableWalked
  <2>1. /\ delivered = Cardinality(shown) /\ shown \in SUBSET Videos
        /\ source = "db" =>
              /\ hotCursor.last \in Videos /\ hotCursor.pop = popularity[hotCursor.last]
              /\ \A v \in shown : ~behind(v, hotCursor.last)
        /\ source = "none" => shown = {}
        /\ \A v \in Remaining : source = "db" => behind(v, hotCursor.last)
        /\ (ToSet(ranking') \cap Rows) \ shown \subseteq Remaining
    <3>1. shown \in SUBSET Videos
      BY <1>1 DEF HotTypeOK, WalkTypeOK
    <3>2. CASE source = "none"
      <4>1. shown = {} /\ delivered = 0
        BY <3>2 DEF HotIInv, HotWalked, HotUnread
      <4>2. ToSet(ranking') \subseteq Remaining
        BY <1>2, <1>4, <1>5, <3>2 DEF ToSet
      <4> QED
        BY <3>1, <3>2, <4>1, <4>2, EmptySize
    <3>3. CASE source = "db"
      <4>1. /\ delivered = Cardinality(shown)
            /\ hotCursor.last \in Videos /\ hotCursor.pop = popularity[hotCursor.last]
            /\ \A v \in shown : ~behind(v, hotCursor.last)
            /\ \A v \in (ToSet(ranking) \cap Rows) \ shown : behind(v, hotCursor.last)
        BY <1>1, <3>3 DEF HotIInv, HotWalked, TableWalked
      <4>2. hotCursor.last # NoVideo
        BY <4>1, VideosTyped DEF NoVideo
      <4>3. \A v \in Rows : v \in Remaining <=> behind(v, hotCursor.last)
        BY <4>1, <4>2 DEF Remaining
      <4>4. ranking' = ranking
        BY <1>5, <3>3
      <4> HIDE DEF behind
      <4> QED
        BY <1>4, <3>1, <3>3, <4>1, <4>3, <4>4
    <3> QED
      BY <3>2, <3>3
  <2> HIDE DEF behind
  <2>2. shown \cap items = {}
    BY <1>4, <2>1
  <2>3. delivered' = Cardinality(shown')
    BY <1>3, <1>5, <2>1, <2>2, JoinSizes
  <2>4. ASSUME hasMore'
        PROVE  /\ hotCursor'.last \in Videos
               /\ hotCursor'.pop = popularity[hotCursor'.last]
               /\ \A v \in shown' : ~behind(v, hotCursor'.last)
               /\ \A v \in (ToSet(ranking') \cap Rows) \ shown' : behind(v, hotCursor'.last)
    <3>1. Limit <= n /\ items = {s[i] : i \in 1 .. Limit} /\ Limit \in 1 .. n /\ s[Limit] \in items
      <4>1. Limit <= n /\ items = {s[i] : i \in 1 .. Limit}
        BY <1>3, <1>5, <2>4
      <4>2. Limit \in 1 .. n /\ Limit \in 1 .. Limit
        BY <1>2, <4>1, WalkBounds
      <4> QED
        BY <4>1, <4>2
    <3>2. LastOf(s, items) = s[Limit]
      <4>1. PICK k \in 1 .. n : /\ s[k] \in items /\ LastOf(s, items) = s[k]
                                /\ \A i \in 1 .. n : s[i] \in items => i <= k
        BY <1>6, <3>1
      <4>2. PICK i \in 1 .. Limit : s[k] = s[i]
        BY <3>1, <4>1
      <4>3. k = i
        BY <1>2, <3>1, <4>2 DEF Lists
      <4>4. Limit <= k
        BY <3>1, <4>1
      <4>5. k = Limit
        BY <3>1, <4>2, <4>3, <4>4
      <4> QED
        BY <4>1, <4>5
    <3>3. s[Limit] \in Videos /\ s[Limit] \in Remaining
      BY <1>3, <1>4, <3>1
    <3>4. hotCursor'.last = s[Limit] /\ hotCursor'.pop = popularity[s[Limit]]
      BY <1>5, <3>1, <3>2 DEF PopularityCursor, NoHotCursor
    <3>5. ASSUME NEW v \in shown' PROVE ~behind(v, s[Limit])
      <4>1. CASE v \in items
        <5>1. PICK i \in 1 .. Limit : v = s[i]
          BY <3>1, <4>1
        <5>2. i = Limit \/ behind(s[Limit], v)
          BY <1>2, <3>1, <5>1
        <5>3. v \in Videos /\ popularity[v] \in Int /\ popularity[s[Limit]] \in Int
          BY <1>3, <1>7, <3>3, <4>1
        <5> QED
          BY <3>3, <5>1, <5>2, <5>3, BehindTransitive DEF behind
      <4>2. CASE v \in shown
        <5>1. source = "db"
          BY <2>1, <4>2
        <5>2. ~behind(v, hotCursor.last) /\ behind(s[Limit], hotCursor.last)
              /\ hotCursor.last \in Videos
          BY <2>1, <3>3, <4>2, <5>1
        <5>3. v \in Videos /\ popularity[v] \in Int /\ popularity[s[Limit]] \in Int
              /\ popularity[hotCursor.last] \in Int
          BY <1>7, <2>1, <3>3, <4>2, <5>2
        <5>4. behind(v, s[Limit]) /\ behind(s[Limit], hotCursor.last) => behind(v, hotCursor.last)
          <6> DEFINE p == popularity[v]
                     q == popularity[s[Limit]]
                     r == popularity[hotCursor.last]
          <6>1. p \in Int /\ q \in Int /\ r \in Int
            BY <5>3
          <6> HIDE DEF p, q, r
          <6>2. Behind(p, v, q, s[Limit]) /\ Behind(q, s[Limit], r, hotCursor.last)
                   => Behind(p, v, r, hotCursor.last)
            BY <3>3, <5>2, <5>3, <6>1, BehindTransitive
          <6> QED
            BY <6>2 DEF behind, p, q, r
        <5> QED
          BY <5>2, <5>4
      <4> QED
        BY <1>5, <4>1, <4>2
    <3>6. ASSUME NEW v \in (ToSet(ranking') \cap Rows) \ shown' PROVE behind(v, s[Limit])
      <4>1. v \in Remaining /\ v \notin items
        BY <1>5, <2>1
      <4>2. PICK j \in 1 .. n : v = s[j]
        BY <1>2, <4>1
      <4>3. Limit < j
        BY <3>1, <4>1, <4>2
      <4> QED
        BY <1>2, <3>1, <4>2, <4>3
    <3> QED
      BY <3>3, <3>4, <3>5, <3>6
  <2>5. ASSUME ~hasMore' PROVE ToSet(ranking') \cap Rows \subseteq shown'
    <3>1. items = Remaining
      BY <1>2, <1>3, <1>5, <2>5
    <3> QED
      BY <1>5, <2>1, <3>1
  <2> QED
    BY <2>3, <2>4, <2>5 DEF behind
<1> QED
  BY <1>9, <1>10, <1>12, <1>13 DEF HotIInv, HotWalked

\* No step takes back what was shown, or brings back a video that was deleted.
LEMMA HotStep ==
    ASSUME HotIInv, HotNext
    PROVE  HotIInv' /\ shown \subseteq shown' /\ published' = published
<1> USE DEF HotIInv
<1>1. CASE MinutePasses
  <2>1. HotTypeOK'
    <3>1. minute' \in Minutes
      BY <1>1, HotBounds DEF MinutePasses, HotTypeOK, Minutes
    <3> QED
      BY <1>1, <3>1 DEF MinutePasses, HotTypeOK, WalkTypeOK, tableVars, walkVars, snapshotVars,
                        hotWalkVars
  <2>2. HotKept'
    BY <1>1 DEF MinutePasses, HotKept, walkVars, snapshotVars, hotWalkVars
  <2>3. HotWalked'
    BY <1>1, HotWalkAlone DEF MinutePasses, tableVars, hotWalkVars, Rows, HotWalked, HotUnread
  <2> QED
    BY <1>1, <2>1, <2>2, <2>3 DEF MinutePasses, tableVars, walkVars
<1>2. ASSUME NEW v \in Videos, NEW c \in {1, -1}, UpdatePopularityCache(v, c)
      PROVE  HotIInv' /\ shown \subseteq shown' /\ published' = published
  <2> USE <1>2 DEF UpdatePopularityCache
  <2>1. HotTypeOK'
    <3>1. /\ DOMAIN window' = Minutes
          /\ \A t \in Minutes : /\ DOMAIN window'[t] \subseteq Videos
                                /\ \A x \in DOMAIN window'[t] : window'[t][x] \in Int
      BY DEF HotTypeOK
    <3> QED
      BY <3>1 DEF HotTypeOK, WalkTypeOK, tableVars, walkVars, snapshotVars, hotWalkVars
  <2>2. HotKept'
    BY DEF HotKept, walkVars, snapshotVars, hotWalkVars
  <2>3. HotWalked'
    BY HotWalkAlone DEF tableVars, hotWalkVars, Rows, HotWalked, HotUnread
  <2> QED
    BY <2>1, <2>2, <2>3 DEF tableVars, walkVars
<1>3. ASSUME NEW v \in Videos, NEW c \in {1, -1}, ChangePopularity(v, c)
      PROVE  HotIInv' /\ shown \subseteq shown' /\ published' = published
  <2> USE <1>3 DEF ChangePopularity
  <2>1. Counted(popularity[v], c) \in Nat /\ popularity \in [Videos -> Nat]
    BY DEF Counted, HotTypeOK
  <2>2. popularity' \in [Videos -> Nat] /\ popularity'[v] = Counted(popularity[v], c)
        /\ \A w \in Videos : w # v => popularity'[w] = popularity[w]
    BY <2>1
  <2>3. steady' => steady /\ (source = "db" => popularity'[v] = popularity[v])
    OBVIOUS
  <2>4. source = "db" /\ steady' => popularity' = popularity
    BY <2>1, <2>2, <2>3
  <2>5. HotTypeOK'
    <3>1. steady' \in BOOLEAN
      BY DEF HotTypeOK
    <3> QED
      BY <2>2, <3>1 DEF HotTypeOK, WalkTypeOK, tableVars, walkVars, snapshotVars
  <2>6. HotKept'
    BY DEF HotKept, walkVars, snapshotVars
  <2>7. source = "none" => steady'
    BY DEF HotWalked, HotUnread
  <2>8. HotWalked'
    BY <2>3, <2>4, <2>7, HotWalkAlone DEF tableVars, Rows
  <2> QED
    BY <2>5, <2>6, <2>8 DEF tableVars, walkVars
<1>4. ASSUME NEW v \in Videos, HotDelete(v)
      PROVE  HotIInv' /\ shown \subseteq shown' /\ published' = published
  <2> USE <1>4 DEF HotDelete, DeleteRow
  <2>1. HotTypeOK'
    BY DEF HotTypeOK, WalkTypeOK, Rows, walkVars, heatVars, snapshotVars, hotWalkVars
  <2>2. HotKept'
    BY DEF HotKept, walkVars, snapshotVars, hotWalkVars
  <2>3. HotWalked'
    BY HotWalkAlone DEF hotWalkVars, heatVars, Rows, HotWalked, HotUnread
  <2> QED
    BY <2>1, <2>2, <2>3 DEF walkVars
<1>5. ASSUME NEW t \in Minutes, ExpireSnapshot(t)
      PROVE  HotIInv' /\ shown \subseteq shown' /\ published' = published
  <2> USE <1>5 DEF ExpireSnapshot
  <2>1. \A u \in Minutes : snapshot'[u] = IF u = t THEN <<>> ELSE snapshot[u]
    BY DEF HotTypeOK
  <2>2. HotKept'
    BY <2>1, EmptyRanking DEF HotKept, walkVars, hotWalkVars
  <2>3. \A u \in Minutes : ToSet(snapshot'[u]) \subseteq Videos
    BY <2>2, RankingTyped DEF HotKept
  <2>4. HotTypeOK'
    BY <2>3 DEF HotTypeOK, WalkTypeOK, tableVars, walkVars, heatVars, hotWalkVars
  <2>5. HotWalked'
    BY HotWalkAlone DEF tableVars, heatVars, hotWalkVars, Rows, HotWalked, HotUnread
  <2> QED
    BY <2>2, <2>4, <2>5 DEF tableVars, walkVars
<1>6. ASSUME NEW t \in Minutes, OtherUnion(t)
      PROVE  HotIInv' /\ shown \subseteq shown' /\ published' = published
  <2> USE <1>6 DEF OtherUnion
  <2>1. (\A u \in Minutes : IsRanking(snapshot'[u]))
        /\ DOMAIN snapshot' = Minutes /\ merged' \in [Minutes -> Minutes]
    BY StoreKeepsRankings
  <2>2. HotKept'
    BY <2>1 DEF HotKept, walkVars, hotWalkVars
  <2>3. \A u \in Minutes : ToSet(snapshot'[u]) \subseteq Videos
    BY <2>1, RankingTyped
  <2>4. HotTypeOK'
    BY <2>1, <2>3 DEF HotTypeOK, WalkTypeOK, tableVars, walkVars, heatVars, hotWalkVars
  <2>5. HotWalked'
    BY HotWalkAlone DEF tableVars, heatVars, hotWalkVars, Rows, HotWalked, HotUnread
  <2> QED
    BY <2>2, <2>4, <2>5 DEF tableVars, walkVars
<1>7. CASE OtherExists
  <2> USE <1>7 DEF OtherExists
  <2>1. HotTypeOK'
    BY DEF HotTypeOK, WalkTypeOK, tableVars, walkVars, heatVars, hotWalkVars
  <2>2. HotKept'
    BY DEF HotKept, walkVars, hotWalkVars
  <2>3. HotWalked'
    BY HotWalkAlone DEF tableVars, heatVars, hotWalkVars, Rows, HotWalked, HotUnread
  <2> QED
    BY <2>1, <2>2, <2>3 DEF tableVars, walkVars
<1>8. CASE HotExists
  <2> USE <1>8 DEF HotExists
  <2>1. hotRequest' \in [at : {"union", "range"}, asOf : Minutes]
    BY DEF HotTypeOK
  <2>2. HotTypeOK'
    BY <2>1 DEF HotTypeOK, WalkTypeOK, tableVars, walkVars, heatVars, snapshotVars
  <2>3. HotKept'
    BY <2>1 DEF HotKept, walkVars, snapshotVars
  <2>4. HotWalked'
    BY HotWalkAlone DEF tableVars, heatVars, Rows, HotWalked, HotUnread
  <2> QED
    BY <2>2, <2>3, <2>4 DEF tableVars, walkVars
<1>9. CASE HotUnion
  <2> USE <1>9 DEF HotUnion
  <2>1. hotRequest.asOf \in Minutes /\ hasMore
    BY DEF HotKept
  <2>2. (\A u \in Minutes : IsRanking(snapshot'[u]))
        /\ DOMAIN snapshot' = Minutes /\ merged' \in [Minutes -> Minutes]
    <3>1. CASE StoreUnion(hotRequest.asOf)
      BY <2>1, <3>1, StoreKeepsRankings
    <3>2. CASE UNCHANGED <<snapshot, merged>>
      BY <3>2 DEF HotKept, HotTypeOK
    <3> QED
      BY <3>1, <3>2
  <2>3. hotRequest' \in [at : {"range"}, asOf : Minutes]
    BY <2>1 DEF HotTypeOK
  <2>4. HotKept'
    BY <2>1, <2>2, <2>3 DEF HotKept, walkVars
  <2>5. \A u \in Minutes : ToSet(snapshot'[u]) \subseteq Videos
    BY <2>2, RankingTyped
  <2>6. HotTypeOK'
    BY <2>2, <2>3, <2>5 DEF HotTypeOK, WalkTypeOK, tableVars, walkVars, heatVars
  <2>7. HotWalked'
    BY HotWalkAlone DEF tableVars, heatVars, Rows, HotWalked, HotUnread
  <2> QED
    BY <2>4, <2>6, <2>7 DEF tableVars, walkVars
<1>10. CASE HotRange
  BY <1>10, HotRangeStep DEF HotRange, Show, tableVars
<1>11. CASE HotDegrades \/ HotError
  <2> USE <1>11 DEF HotDegrades, HotError
  <2>1. hotRequest' \in [at : {"idle", "db"}, asOf : Minutes \cup {NoMinute}]
        /\ (hotRequest'.at # "idle" => hotRequest'.asOf \in Minutes)
    BY DEF HotKept, HotTypeOK, HotIdle
  <2>2. HotTypeOK'
    BY <2>1 DEF HotTypeOK, WalkTypeOK, tableVars, walkVars, heatVars, snapshotVars
  <2>3. HotKept'
    BY <2>1 DEF HotKept, walkVars, snapshotVars
  <2>4. HotWalked'
    BY HotWalkAlone DEF tableVars, heatVars, Rows, HotWalked, HotUnread
  <2> QED
    BY <2>2, <2>3, <2>4 DEF tableVars, walkVars
<1>12. CASE HotFromDB
  BY <1>12, HotFromDBStep DEF HotFromDB, Show, tableVars
<1> QED
  BY <1>1, <1>2, <1>3, <1>4, <1>5, <1>6, <1>7, <1>8, <1>9, <1>10, <1>11, <1>12 DEF HotNext

-----------------------------------------------------------------------------
(* The theorems.                                                           *)

LEMMA HotStartTyped ==
    ASSUME WalkTypeOK, NEW S \in SUBSET Catalogue, HotStart(S)
    PROVE  /\ HotTypeOK /\ source = "none"
           /\ WalkInit => HotIInv
<1> USE DEF HotStart
<1>1. 0 \in Minutes /\ 0 \in Nat
  BY HotBounds DEF Minutes
<1>2. \A t \in Minutes : /\ DOMAIN window[t] \subseteq Videos
                         /\ \A v \in DOMAIN window[t] : window[t][v] \in Int
  BY VideosTyped
<1>3. IsRanking(ranking) /\ \A t \in Minutes : IsRanking(snapshot[t])
  BY EmptyRanking
<1>4. \A t \in Minutes : ToSet(snapshot[t]) \subseteq Videos
  BY <1>3, RankingTyped
<1>5. HotTypeOK
  BY <1>1, <1>2, <1>4 DEF HotTypeOK, HotIdle, NoHotCursor
<1>6. HotKept
  BY <1>3 DEF HotKept, HotIdle
<1>7. WalkInit => HotWalked
  BY DEF WalkInit, HotWalked, HotUnread, SnapshotWalked, TableWalked
<1> QED
  BY <1>5, <1>6, <1>7 DEF HotIInv

LEMMA InitIInv == Init => IInv
<1> SUFFICES ASSUME Init PROVE IInv
  OBVIOUS
<1>1. LatestStart /\ LikesStart /\ WalkInit
  BY DEF Init, LatestInit, LikesInit, HotInit
<1>2. WalkTypeOK
  BY <1>1, VideosTyped DEF Init, LatestInit, LikesInit, HotInit, WalkInit, WalkTypeOK
<1>3. HotTypeOK /\ source = "none" /\ HotIInv
  <2>1. \E S \in SUBSET Catalogue : HotStart(S)
    BY DEF Init, HotInit
  <2> QED
    BY <1>1, <1>2, <2>1, HotStartTyped
<1>4. LatestTypeOK
  BY <1>1, <1>2 DEF LatestTypeOK, LatestStart, NoFlight, NoRequest, NoCursor
<1>5. LikesTypeOK
  BY <1>1, <1>2 DEF LikesTypeOK, LikesStart
<1>6. FeedsApart
  BY <1>1, <1>3 DEF FeedsApart, LatestStart, LikesStart
<1>7. ASSUME feed = "latest" PROVE LatestIInv
  BY <1>1, <1>4, EmptySize
     DEF LatestIInv, LatestBehind, LatestStart, WalkInit, NoFlight, NoRequest, NoCursor
<1>8. LikesIInv
  BY <1>1, <1>5
     DEF LikesIInv, LikesParted, LikesNoRepeats, LikesComplete, LikesStart, WalkInit
<1> QED
  BY <1>3, <1>4, <1>5, <1>6, <1>7, <1>8 DEF IInv, TypeOK

\* A feed that is not open keeps its types.
LEMMA LatestAlone ==
    ASSUME LatestTypeOK, pending = {}, timeline = {}, WalkTypeOK', UNCHANGED latestOnly
    PROVE  LatestTypeOK'
BY DEF LatestTypeOK, latestOnly, timelineVars

LEMMA HotAlone ==
    ASSUME HotTypeOK, WalkTypeOK', UNCHANGED hotOnly
    PROVE  HotTypeOK'
BY DEF HotTypeOK, hotOnly, heatVars, snapshotVars, hotWalkVars

LEMMA LikesAlone ==
    ASSUME LikesTypeOK, repeated = {}, fell = {}, WalkTypeOK', UNCHANGED likesOnly
    PROVE  LikesTypeOK'
BY DEF LikesTypeOK, likesOnly, likesWalkVars

LEMMA StepIInv == IInv /\ [Next]_vars => IInv'
<1> SUFFICES ASSUME IInv, [Next]_vars PROVE IInv'
  OBVIOUS
<1>1. ASSUME feed = "latest", LatestNext, UNCHANGED <<hotOnly, likesOnly, feed>>
      PROVE  IInv'
  <2>1. LatestIInv'
    BY <1>1, LatestStep DEF IInv
  <2>2. HotTypeOK' /\ LikesTypeOK'
    BY <1>1, <2>1, HotAlone, LikesAlone
       DEF IInv, TypeOK, FeedsApart, LatestIInv, LatestTypeOK
  <2> QED
    BY <1>1, <2>1, <2>2
       DEF IInv, TypeOK, FeedsApart, LatestIInv, hotOnly, hotWalkVars, likesOnly, likesWalkVars
<1>2. ASSUME feed = "hot", HotNext, UNCHANGED <<latestOnly, likesOnly, feed>>
      PROVE  IInv'
  <2>1. HotIInv'
    BY <1>2, HotStep DEF IInv
  <2>2. LatestTypeOK' /\ LikesTypeOK'
    BY <1>2, <2>1, LatestAlone, LikesAlone
       DEF IInv, TypeOK, FeedsApart, HotIInv, HotTypeOK
  <2> QED
    BY <1>2, <2>1, <2>2
       DEF IInv, TypeOK, FeedsApart, HotIInv, latestOnly, timelineVars, likesOnly, likesWalkVars
<1>3. ASSUME feed = "likes", LikesNext, UNCHANGED <<latestOnly, hotOnly, feed>>
      PROVE  IInv'
  <2>1. LikesIInv'
    BY <1>3, LikesStep DEF IInv
  <2>2. LatestTypeOK' /\ HotTypeOK'
    BY <1>3, <2>1, LatestAlone, HotAlone
       DEF IInv, TypeOK, FeedsApart, LikesIInv, LikesTypeOK
  <2> QED
    BY <1>3, <2>1, <2>2
       DEF IInv, TypeOK, FeedsApart, LikesIInv, latestOnly, timelineVars, hotOnly, hotWalkVars
<1>4. ASSUME UNCHANGED vars
      PROVE  IInv'
  <2>1. UNCHANGED <<published, deleted, shown, delivered, hasMore, pending, timeline, trimming,
                    losses, flight, request, cursor, due, excused, likesCursor, asked, repeated,
                    likesCount, likeChanges, rose, fell, feed>>
        /\ UNCHANGED <<heatVars, snapshotVars, hotWalkVars>>
    BY <1>4 DEF vars, tableVars, walkVars, latestOnly, timelineVars, hotOnly, likesOnly,
                likesWalkVars
  <2> USE DEF heatVars, snapshotVars, hotWalkVars
  <2>2. FeedsApart'
    BY <2>1 DEF IInv, FeedsApart
  <2>3. LatestTypeOK' /\ (feed = "latest" => LatestIInv')
    BY <2>1 DEF IInv, TypeOK, LatestIInv, LatestTypeOK, WalkTypeOK, LatestBehind
  <2>4. LikesTypeOK' /\ (feed = "likes" => LikesIInv')
    BY <2>1 DEF IInv, TypeOK, LikesIInv, LikesTypeOK, WalkTypeOK, LikesParted, LikesNoRepeats,
                LikesComplete, BehindCursor, Rows
  <2>5. HotTypeOK'
    BY <2>1 DEF IInv, TypeOK, HotTypeOK, WalkTypeOK
  <2>6. ASSUME feed = "hot" PROVE HotIInv'
    <3>1. HotIInv
      BY <2>6 DEF IInv
    <3>2. HotKept'
      BY <2>1, <3>1 DEF HotIInv, HotKept
    <3>3. HotWalked'
      BY <2>1, <3>1, HotWalkAlone DEF HotIInv, walkVars, Rows, HotWalked, HotUnread
    <3> QED
      BY <2>5, <3>2, <3>3 DEF HotIInv
  <2> QED
    BY <2>1, <2>2, <2>3, <2>4, <2>5, <2>6 DEF IInv, TypeOK
<1> QED
  BY <1>1, <1>2, <1>3, <1>4 DEF Next

LEMMA Invariant == Spec => []IInv
BY InitIInv, StepIInv, PTL DEF Spec

\* Every reachable state of the three feeds is typed; what is stored as a snapshot holds
\* videos, and the scores it is made from are integers.
THEOREM TypeCorrect == Spec => []TypeOK
<1>1. IInv => TypeOK
  BY DEF IInv
<1> QED
  BY <1>1, Invariant, PTL

\* A walk through the latest feed never shows an item twice: the cursor parts what was
\* shown from every page to come, whichever of Redis and MySQL it comes from, and
\* whatever is lost, rebuilt, trimmed, deleted or fails meanwhile.
THEOREM LatestNoRepeatsCorrect == Spec => []LatestNoRepeats
<1>1. IInv => LatestNoRepeats
  BY DEF IInv, FeedsApart, LatestIInv, LatestBehind, LatestNoRepeats
<1> QED
  BY <1>1, Invariant, PTL

LEMMA WholeIsKept ==
    ASSUME InOrder
    PROVE  Spec => []WholeIInv
<1>1. Init => WholeIInv
  <2> SUFFICES ASSUME Init PROVE WholeIInv
    OBVIOUS
  <2>1. LatestStart
    BY DEF Init, LatestInit
  <2>2. ASSUME feed = "latest" PROVE published = {} /\ Rows = {}
    BY <2>2 DEF Init, LatestInit, Rows
  <2> QED
    BY <2>1, <2>2
       DEF WholeIInv, LatestWhole, ConsumedInOrder, Gapless, FlightFits, RequestFits,
           LatestComplete, LatestStart, NoFlight, NoRequest
<1>2. IInv /\ WholeIInv /\ [Next]_vars => WholeIInv'
  <2> SUFFICES ASSUME IInv, WholeIInv, [Next]_vars PROVE WholeIInv'
    OBVIOUS
  <2>1. ASSUME feed = "latest", LatestNext, UNCHANGED feed
        PROVE  WholeIInv'
    BY <2>1, WholeStep DEF IInv, WholeIInv
  <2>2. ASSUME feed # "latest", UNCHANGED <<latestOnly, feed>>
        PROVE  WholeIInv'
    BY <2>2 DEF WholeIInv, latestOnly
  <2>3. ASSUME UNCHANGED vars
        PROVE  WholeIInv'
    <3>1. UNCHANGED <<published, deleted, shown, hasMore, timelineVars, pending, timeline, flight,
                      request, cursor, due, excused, feed>>
      BY <2>3 DEF vars, tableVars, walkVars, latestOnly, timelineVars
    <3>2. LatestWhole <=> LatestWhole'
      BY <3>1 DEF LatestWhole, ConsumedInOrder, Gapless, FlightFits, RequestFits, LatestComplete,
                  Late, AboveFlight, InSight, Twin, Rows, Passed, Tied
    <3> QED
      BY <3>1, <3>2 DEF WholeIInv
  <2> QED
    BY <2>1, <2>2, <2>3 DEF Next
<1> QED
  BY <1>1, <1>2, Invariant, PTL DEF Spec

\* If the timeline events are consumed in order, a walk through the latest feed skips no
\* video that was consumed when it began, but for those deleted or lost to a failing
\* lookup, and twins of videos shown or sought: whatever Redis loses and the rebuild
\* writes back, the times of the timeline have no gap above the oldest, and MySQL goes
\* on below it.
THEOREM LatestCompleteCorrect ==
    ASSUME InOrder
    PROVE  Spec => []LatestComplete
<1>1. WholeIInv => LatestComplete
  BY DEF WholeIInv, LatestWhole, LatestComplete
<1> QED
  BY <1>1, WholeIsKept, PTL

\* The cursor (likes_count, id) is strict: a walk through the feed by likes repeats
\* only videos that have lost likes since they were shown.
THEOREM LikesNoRepeatsCorrect == Spec => []LikesNoRepeats
<1>1. IInv => LikesNoRepeats
  BY DEF IInv, FeedsApart, LikesIInv, LikesNoRepeats
<1> QED
  BY <1>1, Invariant, PTL

\* And it misses only videos that have won likes before their turn came.
THEOREM LikesCompleteCorrect == Spec => []LikesComplete
<1>1. IInv => LikesComplete
  BY DEF IInv, FeedsApart, LikesIInv, LikesComplete
<1> QED
  BY <1>1, Invariant, PTL

\* A walk through one ranking never shows an item twice: in a snapshot the offset has
\* moved past what was shown, because a page that lost a member ends the walk; in MySQL
\* the cursor (popularity, create_time, id) is strict.
THEOREM HotNoRepeatsCorrect == Spec => []HotNoRepeats
<1>1. IInv => HotNoRepeats
  BY DEF IInv, FeedsApart, HotIInv, HotWalked, SnapshotWalked, TableWalked, HotNoRepeats, OneOrder
<1> QED
  BY <1>1, Invariant, PTL

\* And a walk through one ranking that ends has shown all of it that is still there, unless
\* a member of the snapshot was deleted.
THEOREM HotCompleteCorrect == Spec => []HotComplete
<1>1. IInv => HotComplete
  BY DEF IInv, FeedsApart, HotIInv, HotWalked, SnapshotWalked, TableWalked, HotComplete, OneOrder
<1> QED
  BY <1>1, Invariant, PTL
=============================================================================
