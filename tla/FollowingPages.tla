--------------------------- MODULE FollowingPages ---------------------------
(***************************************************************************)
(* A walk through the following feed: FeedHandler.ListByFollowing and      *)
(* FeedService.ListByFollowing with a cursor.  How the inbox and the       *)
(* user_videos of the big Vs are filled is in module FollowFeed; here they *)
(* stand still while one viewer reads page after page, and sends next_time *)
(* back as latest_time, as the views of the frontend do.                   *)
(***************************************************************************)
EXTENDS FeedWalk, Sequences, SequencesExt

CONSTANTS
    BigVs,     \* the big Vs that the viewer follows
    PullQuota  \* videos pulled of one big V (10)

VARIABLES
    inbox,       \* inbox:{viewer}
    userVideos,  \* user_videos:{big V}
    latestTime   \* latest_time of the next request, 0 for the first page

vars == <<tableVars, walkVars, inbox, userVideos, latestTime>>

Init ==
    /\ WalkInit
    /\ published = Catalogue
    /\ inbox \in SUBSET Videos
    /\ userVideos \in [BigVs -> SUBSET Videos]
    /\ latestTime = 0

\* time.Unix(latest_time, 0) makes seconds of it; UnixMilli gives 1000 times as much.
LatestBefore == 1000 * latestTime

\* parseZSetWithScores: nothing at or above maxScore = latestBefore - 1.
Unread(S) == {v \in S : latestTime = 0 \/ CreateTime[v] < LatestBefore - 1}

\* The sample: when a big V published last.
NewestAt(b) == CHOOSE t \in {CreateTime[v] : v \in userVideos[b]} :
                  \A v \in userVideos[b] : CreateTime[v] <= t

\* The big Vs that are asked, the most active first: none when push already fills
\* the page with newer videos, and none whose last video is older than all of push.
Asked(push, sampled) ==
    LET newer(b) == push = {} \/ NewestAt(b) > OldestTime(push)
    IN SetToSortSeq({b \in sampled : newer(b)}, LAMBDA b, c : NewestAt(b) > NewestAt(c))

\* What remains of the page is shared out among them in this order.
Take(push, i) ==
    LET needed == IF Cardinality(push) < Limit THEN Limit - Cardinality(push) ELSE Limit
        remaining == needed - PullQuota * (i - 1)
    IN IF remaining < PullQuota THEN remaining ELSE PullQuota

\* The streams that are pulled with an inbox that gave push.
Pulls(push, sampled) ==
    LET asked == Asked(push, sampled)
    IN {P \in SUBSET Videos :
          \E top \in [1 .. Len(asked) -> SUBSET Videos] :
             /\ \A i \in 1 .. Len(asked) :
                   IF Take(push, i) <= 0 THEN top[i] = {}
                   ELSE top[i] \in Newest(userVideos[asked[i]], Take(push, i))
             /\ P = UNION {Unread(top[i]) : i \in 1 .. Len(asked)}}

Answer(P) ==
    /\ Show(P)
    /\ latestTime' = IF P = {} THEN 0 ELSE OldestTime(P)
    /\ hasMore' = (Cardinality(P) >= Limit)

\* mergeAndDedup of the inbox and the pulled streams, and a look up of the result;
\* with nothing to merge listByFollowingFromDB answers.
ListByFollowing ==
    /\ hasMore
    /\ \E top \in Newest(inbox, 2 * Limit) \cup (IF RedisFails THEN {{}} ELSE {}),
          seen \in {BigVs} \cup (IF RedisFails THEN {{}} ELSE {}) :
       LET push == Unread(top)
           sampled == {b \in seen : userVideos[b] # {}}
       IN \E pull \in Pulls(push, sampled), merged \in SUBSET Videos :
            /\ merged \in Newest(push \cup pull, Limit)
            /\ IF merged = {}
               THEN \E P \in Newest({v \in Rows : latestTime = 0 \/ CreateTime[v] < LatestBefore}, Limit) :
                       Answer(P)
               ELSE Answer(merged \cap Rows)
    /\ UNCHANGED <<tableVars, inbox, userVideos>>

Next == ListByFollowing

Spec == Init /\ [][Next]_vars

-----------------------------------------------------------------------------
(* Properties.                                                             *)

\* What the cursor is for (maxScore in FeedService.ListByFollowing): no video that
\* was shown on one page comes again on a later one.
FollowingNoRepeats == delivered = Cardinality(shown)
=============================================================================
