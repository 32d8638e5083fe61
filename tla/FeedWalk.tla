------------------------------ MODULE FeedWalk ------------------------------
(***************************************************************************)
(* What the feeds have in common: table videos, and one client that reads  *)
(* page after page, sending the cursor of each answer with the next        *)
(* request, until an answer says that there is no more.                    *)
(***************************************************************************)
EXTENDS Integers, FiniteSets

CONSTANTS
    Videos,      \* ids of the videos that may be published
    Catalogue,   \* those that are, before a walk by heat or by likes begins
    CreateTime,  \* CreateTime[v]: create_time of v in milliseconds
    Limit,       \* limit of the requests
    RedisFails,  \* accesses to Redis may fail, or the breaker is open
    MaxDeletes   \* bound on the deletions

ASSUME VideosTyped == IsFiniteSet(Videos) /\ Videos \subseteq Nat \ {0} /\ Catalogue \subseteq Videos
ASSUME CreateTimeTyped == CreateTime \in [Videos -> Nat]
ASSUME WalkBounds == Limit \in Nat \ {0} /\ MaxDeletes \in Nat /\ RedisFails \in BOOLEAN

VARIABLES
    published,  \* videos that were ever committed
    deleted,    \* those of them that were deleted since
    shown,      \* history: what the client has been shown
    delivered,  \* history: how many items that were, repetitions included
    hasMore     \* has_more of the last answer

tableVars == <<published, deleted>>
walkVars  == <<shown, delivered, hasMore>>

WalkTypeOK ==
    /\ published \in SUBSET Videos
    /\ deleted \in SUBSET published
    /\ shown \in SUBSET Videos
    /\ delivered \in Nat
    /\ hasMore \in BOOLEAN

WalkInit ==
    /\ deleted = {}
    /\ shown = {}
    /\ delivered = 0
    /\ hasMore = TRUE

\* Rows of table videos.
Rows == published \ deleted

\* The possible results of ORDER BY create_time DESC LIMIT n on S, or of the same on
\* a sorted set: rows of the same millisecond come in any order.
Newest(S, n) ==
    {P \in SUBSET S :
       /\ Cardinality(P) = IF Cardinality(S) < n THEN Cardinality(S) ELSE n
       /\ \A v \in P, w \in S \ P : CreateTime[w] <= CreateTime[v]}

\* create_time of the last item of a page.
OldestTime(P) == CHOOSE t \in {CreateTime[v] : v \in P} : \A v \in P : t <= CreateTime[v]

\* What the client gets to see of a page.
Show(P) ==
    /\ shown' = shown \cup P
    /\ delivered' = delivered + Cardinality(P)

\* VideoRepository.PublishVideo; the clock does not run backwards.
PublishRow(v) ==
    /\ v \notin published
    /\ \A w \in published : CreateTime[w] <= CreateTime[v]
    /\ published' = published \cup {v}
    /\ UNCHANGED deleted

\* VideoRepository.DeleteVideo: nothing in Redis but the detail cache is cleaned.
DeleteRow(v) ==
    /\ v \in Rows
    /\ Cardinality(deleted) < MaxDeletes
    /\ deleted' = deleted \cup {v}
    /\ UNCHANGED published
=============================================================================
