----------------------------- MODULE LatestFeed -----------------------------
(***************************************************************************)
(* The latest feed: a client walks through FeedService.ListLatest while    *)
(* videos are published and deleted, the timeline consumer fills and trims *)
(* feed:global_timeline (module Outbox), and Redis may lose it.            *)
(*                                                                         *)
(* A page comes from the sorted set, from MySQL, or from both; it takes    *)
(* several reads, and the timeline may be another one at each of them.     *)
(***************************************************************************)
EXTENDS FeedWalk

CONSTANTS
    TimelineCap,  \* length of the timeline (1000)
    InOrder,      \* the timeline events are consumed in the order of create_time
    DBFails,      \* the stitching query, or the lookup of a video, may fail
    MaxLosses     \* bound on the losses of the timeline

ASSUME TimelineBounds == TimelineCap \in Nat \ {0} /\ MaxLosses \in Nat
ASSUME LatestSwitches == {InOrder, DBFails} \subseteq BOOLEAN

VARIABLES
    pending,   \* videos whose timeline event is not consumed yet
    timeline,  \* feed:global_timeline
    trimming,  \* the consumer is between ZADD and ZREMRANGEBYRANK
    losses,    \* how often Redis has lost the timeline
    flight,    \* singleflight of the rebuild: what it has read, or nothing
    request,   \* the request of the client: its next step and its local variables
    cursor,    \* latest_time of the next request
    due,       \* history: what the client must get to see
    excused    \* history: what a failing lookup has hidden from it

timelineVars == <<pending, timeline, trimming, losses>>

Times == {CreateTime[v] : v \in Videos}
NoCursor == -1
NoFlight == [read |-> FALSE, videos |-> {}]
NoRequest == [at |-> "idle", watermark |-> 0, base |-> {}]

LatestTypeOK ==
    /\ WalkTypeOK
    /\ pending \in SUBSET published
    /\ timeline \in SUBSET published
    /\ trimming \in BOOLEAN
    /\ losses \in Nat
    /\ flight \in [read : BOOLEAN, videos : SUBSET Videos]
    /\ request \in [at : {"idle", "rebuild", "query", "stitch"},
                    watermark : Nat, base : SUBSET Videos]
    /\ cursor \in Times \cup {NoCursor}
    /\ due \in SUBSET Videos
    /\ excused \in SUBSET Videos

\* Nobody has read the latest feed yet.
LatestStart ==
    /\ pending = {}
    /\ timeline = {}
    /\ trimming = FALSE
    /\ losses = 0
    /\ flight = NoFlight
    /\ request = NoRequest
    /\ cursor = NoCursor
    /\ due = {}
    /\ excused = {}

LatestInit == WalkInit /\ published = {} /\ LatestStart

-----------------------------------------------------------------------------
(* The videos, the consumer of the timeline events and Redis.              *)

\* The video is committed with its outbox row.
LatestPublish(v) ==
    /\ PublishRow(v)
    /\ pending' = pending \cup {v}
    /\ UNCHANGED <<walkVars, timeline, trimming, losses, flight, request, cursor, due, excused>>

LatestDelete(v) ==
    /\ DeleteRow(v)
    /\ UNCHANGED <<walkVars, timelineVars, flight, request, cursor, due, excused>>

\* Nothing that comes later was consumed, and nothing earlier waits.
NextInOrder(v) ==
    /\ \A w \in published \ pending : CreateTime[w] <= CreateTime[v]
    /\ \A w \in pending : CreateTime[v] <= CreateTime[w]

\* A flight ends after 2 s at the latest, before TimelineCap more videos are consumed.
FlightIsShort(v) ==
    flight.read =>
       Cardinality({w \in (published \ pending) \cup {v} :
                      \A x \in flight.videos : CreateTime[x] < CreateTime[w]}) < TimelineCap

\* StartConsumer: ZADD, then ZREMRANGEBYRANK, whose failure is ignored.
TimelineAdd(v) ==
    /\ v \in pending
    /\ InOrder => NextInOrder(v)
    /\ FlightIsShort(v)
    /\ ~trimming
    /\ pending' = pending \ {v}
    /\ timeline' = timeline \cup {v}
    /\ trimming' = TRUE
    /\ UNCHANGED <<tableVars, walkVars, losses, flight, request, cursor, due, excused>>

TimelineTrim ==
    /\ trimming
    /\ trimming' = FALSE
    /\ timeline' \in Newest(timeline, TimelineCap)
                     \cup (IF RedisFails THEN {timeline} ELSE {})
    /\ UNCHANGED <<tableVars, walkVars, pending, losses, flight, request, cursor, due, excused>>

\* Redis restarts empty or evicts the key, but not while a rebuild that began
\* before is still under way.
LoseTimeline ==
    /\ losses < MaxLosses
    /\ timeline # {}
    /\ ~flight.read
    /\ losses' = losses + 1
    /\ timeline' = {}
    /\ UNCHANGED <<tableVars, walkVars, pending, trimming, flight, request, cursor, due, excused>>

-----------------------------------------------------------------------------
(* FeedService.ListLatest.                                                 *)

\* Rows with create_time < latestBefore.
OlderThan(t, S) == {v \in S : t = NoCursor \/ CreateTime[v] < t}

\* The answer, with next_time and has_more: what the timeline gave, and behind it what
\* MySQL gave.
AnswerLatest(hot, cold) ==
    /\ shown' = shown \cup hot \cup cold
    /\ delivered' = delivered + Cardinality(hot) + Cardinality(cold)
    /\ cursor' = IF cold # {} THEN OldestTime(cold)
                 ELSE IF hot # {} THEN OldestTime(hot) ELSE cursor
    /\ hasMore' = (Cardinality(hot) + Cardinality(cold) = Limit)
    /\ request' = NoRequest

\* The first request of a walk: from now on everything consumed must be shown.
Due == IF cursor = NoCursor THEN Rows \ pending ELSE due

\* ZRANGE 0 0 gives the watermark.
ReadTail ==
    /\ request.at = "idle" /\ hasMore
    /\ request' = IF timeline = {} THEN [NoRequest EXCEPT !.at = "rebuild"]
                  ELSE [NoRequest EXCEPT !.at = "query", !.watermark = OldestTime(timeline)]
    /\ due' = Due
    /\ UNCHANGED <<tableVars, walkVars, timelineVars, flight, cursor, excused>>

\* ErrBreakerOpen at either access: listLatestFromDB.
ListLatestFromDB ==
    /\ RedisFails
    /\ request.at \in {"idle", "query"} /\ hasMore
    /\ \E P \in Newest(OlderThan(cursor, Rows), Limit) : AnswerLatest({}, P)
    /\ due' = IF request.at = "idle" THEN Due ELSE due
    /\ UNCHANGED <<tableVars, timelineVars, flight, excused>>

\* The timeline is empty: one request for all reads the newest rows.  Requests of
\* other clients start it too.  An empty table is answered at once.
RebuildReads ==
    /\ ~flight.read
    /\ request.at = "rebuild" \/ timeline = {}
    /\ IF Rows = {}
       THEN /\ request.at = "rebuild"
            /\ AnswerLatest({}, {})
            /\ UNCHANGED flight
       ELSE /\ \E P \in Newest(Rows, TimelineCap) : flight' = [read |-> TRUE, videos |-> P]
            /\ UNCHANGED <<walkVars, request, cursor>>
    /\ UNCHANGED <<tableVars, timelineVars, due, excused>>

\* ZADD, its error ignored.  Who shared the flight begins anew; who was alone runs
\* into zsetTail[0] of an empty slice, gets status 500 and has to ask again.
RebuildWrites ==
    /\ flight.read
    /\ flight' = NoFlight
    /\ timeline' \in {timeline \cup flight.videos} \cup (IF RedisFails THEN {timeline} ELSE {})
    /\ request' = IF request.at = "rebuild" THEN NoRequest ELSE request
    /\ UNCHANGED <<tableVars, walkVars, pending, trimming, losses, cursor, due, excused>>

\* At or below the watermark MySQL answers.
ColdPage ==
    /\ request.at = "query"
    /\ cursor # NoCursor /\ cursor <= request.watermark
    /\ \E P \in Newest(OlderThan(cursor, Rows), Limit) : AnswerLatest({}, P)
    /\ UNCHANGED <<tableVars, timelineVars, flight, due, excused>>

\* As a bug: ZREVRANGEBYSCORE from the cursor itself.
TimelineRangeInclusive == {v \in timeline : cursor = NoCursor \/ CreateTime[v] <= cursor}

\* ZREVRANGEBYSCORE from cursor - 1 downwards.
TimelineRange == {v \in timeline : cursor = NoCursor \/ CreateTime[v] <= cursor - 1}

\* GetVideoByIDs: deleted videos are gone unless a cache still has them; who cannot
\* be looked up is left out without a word.
Lookup(ids, found) ==
    /\ found \in SUBSET ids
    /\ DBFails \/ ids \cap Rows \subseteq found
    /\ excused' = excused \cup ((ids \cap Rows) \ found)

HotPage ==
    /\ request.at = "query"
    /\ cursor = NoCursor \/ cursor > request.watermark
    /\ \E ids \in Newest(TimelineRange, Limit) : \E found \in SUBSET ids :
          /\ Lookup(ids, found)
          /\ IF Cardinality(found) < Limit
             THEN /\ request' = [request EXCEPT !.at = "stitch", !.base = found]
                  /\ UNCHANGED <<walkVars, cursor>>
             ELSE AnswerLatest(found, {})
    /\ UNCHANGED <<tableVars, timelineVars, flight, due>>

\* Where the stitching goes on: below the last hot item, or at the cursor; as a bug,
\* one millisecond too low, as a bound of ZREVRANGEBYSCORE would have to be.
OldMaxTooLow == IF request.base = {} THEN cursor ELSE OldestTime(request.base) - 1
OldMax == IF request.base = {} THEN cursor ELSE OldestTime(request.base)

\* The rest of the page comes from MySQL.
Stitch ==
    /\ request.at = "stitch"
    /\ \E P \in Newest(OlderThan(OldMax, Rows), Limit - Cardinality(request.base)) :
          AnswerLatest(request.base, P)
    /\ UNCHANGED <<tableVars, timelineVars, flight, due, excused>>

\* The query fails: the page is short, and has_more says that this was the end.
StitchFails ==
    /\ DBFails
    /\ request.at = "stitch"
    /\ AnswerLatest(request.base, {})
    /\ excused' = excused \cup OlderThan(OldMax, Rows)
    /\ UNCHANGED <<tableVars, timelineVars, flight, due>>

-----------------------------------------------------------------------------
LatestNext ==
    \/ \E v \in Videos : LatestPublish(v) \/ LatestDelete(v) \/ TimelineAdd(v)
    \/ TimelineTrim
    \/ LoseTimeline
    \/ ReadTail
    \/ ListLatestFromDB
    \/ RebuildReads
    \/ RebuildWrites
    \/ ColdPage
    \/ HotPage
    \/ Stitch
    \/ StitchFails

-----------------------------------------------------------------------------
(* Properties.                                                             *)

\* The client has been told everything older than the cursor, or the end.
Passed(v) == ~hasMore \/ (cursor # NoCursor /\ cursor <= CreateTime[v])

\* v was created in the millisecond of another video that was shown, or looked for in
\* vain: neither the cursor nor the end of the timeline tells the two apart.
Tied(v) == \E w \in (shown \cup excused \cup deleted) \ {v} : CreateTime[w] = CreateTime[v]

\* No item is ever repeated, from whichever of the two stores the pages come.
LatestNoRepeats == cursor # NoCursor => delivered = Cardinality(shown)

\* No video that was on the timeline when the walk began is skipped, unless it was
\* deleted, could not be looked up, or shares its millisecond with another one.
LatestComplete ==
    \A v \in due \cap Rows : Passed(v) => v \in shown \/ Tied(v) \/ v \in excused
=============================================================================
