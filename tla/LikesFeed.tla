----------------------------- MODULE LikesFeed -----------------------------
(***************************************************************************)
(* The feed by likes: a client walks through FeedService.ListLikesCount,   *)
(* which only asks MySQL, while the likes it is ordered by change.         *)
(***************************************************************************)
EXTENDS FeedWalk

CONSTANT MaxLikeChanges  \* bound on the changes of column likes_count

ASSUME LikeChangesTyped == MaxLikeChanges \in Nat

VARIABLES
    likesCount,   \* column likes_count
    likeChanges,  \* how often it changed
    likesCursor,  \* <<likes_count_before, id_before>>, or <<>> at first
    asked,        \* history: a page was asked for
    repeated,     \* history: videos shown more than once
    rose,         \* history: videos not shown when their count rose
    fell          \* history: videos shown before their count fell

likesWalkVars == <<likesCursor, asked, repeated>>

LikesTypeOK ==
    /\ WalkTypeOK
    /\ likesCount \in [Videos -> Nat]
    /\ likesCursor \in {<<>>} \cup (Nat \X Videos)
    /\ asked \in BOOLEAN
    /\ repeated \in SUBSET shown
    /\ rose \in SUBSET Videos
    /\ fell \in SUBSET shown

LikesStart ==
    /\ likesCount = [v \in Videos |-> 0]
    /\ likeChanges = 0
    /\ likesCursor = <<>>
    /\ asked = FALSE
    /\ repeated = {}
    /\ rose = {}
    /\ fell = {}

LikesInit == WalkInit /\ published = Catalogue /\ LikesStart

LikesDelete(v) ==
    /\ DeleteRow(v)
    /\ UNCHANGED <<walkVars, likesWalkVars, likesCount, likeChanges, rose, fell>>

\* A like or an unlike is counted (module Likes), never below 0.
ChangeLikesCount(v, change) ==
    /\ likeChanges < MaxLikeChanges
    /\ v \in Rows
    /\ likesCount[v] + change >= 0
    /\ likeChanges' = likeChanges + 1
    /\ likesCount' = [likesCount EXCEPT ![v] = @ + change]
    /\ rose' = IF change > 0 /\ v \notin shown THEN rose \cup {v} ELSE rose
    /\ fell' = IF change < 0 /\ v \in shown THEN fell \cup {v} ELSE fell
    /\ UNCHANGED <<tableVars, walkVars, likesWalkVars>>

\* ORDER BY likes_count DESC, id DESC.
Precedes(w, v) == likesCount[w] > likesCount[v] \/ (likesCount[w] = likesCount[v] /\ w > v)

\* WHERE with the cursor <<n, w>>; as bugs, with the row of the cursor, and without the
\* rows that have as many likes.
BehindOrAt(v, n, w) == likesCount[v] < n \/ (likesCount[v] = n /\ v <= w)
BehindCount(v, n, w) == likesCount[v] < n
BehindCursor(v, n, w) == likesCount[v] < n \/ (likesCount[v] = n /\ v < w)

\* ListLikesCountWithCursor: the first Limit of the rows behind the cursor.
LikesPages ==
    LET rest == {v \in Rows : likesCursor = <<>> \/ BehindCursor(v, likesCursor[1], likesCursor[2])}
    IN {P \in SUBSET rest :
          /\ Cardinality(P) = IF Cardinality(rest) < Limit THEN Cardinality(rest) ELSE Limit
          /\ \A v \in P, w \in rest \ P : Precedes(v, w)}

\* FeedService.ListLikesCount; the last item of the page is the next cursor.
ListLikesCount ==
    /\ hasMore
    /\ \E P \in LikesPages :
          /\ Show(P)
          /\ repeated' = repeated \cup (P \cap shown)
          /\ hasMore' = (Cardinality(P) = Limit)
          /\ \/ P = {} /\ likesCursor' = <<>>
             \/ \E v \in P : /\ \A w \in P \ {v} : Precedes(w, v)
                            /\ likesCursor' = <<likesCount[v], v>>
    /\ asked' = TRUE
    /\ UNCHANGED <<tableVars, likesCount, likeChanges, rose, fell>>

LikesNext ==
    \/ \E v \in Videos : LikesDelete(v)
    \/ \E v \in Videos, c \in {1, -1} : ChangeLikesCount(v, c)
    \/ ListLikesCount

-----------------------------------------------------------------------------
(* Properties.                                                             *)

\* The cursor of ListLikesCountWithCursor tells equal rows apart: only a video that
\* lost likes after it was shown can be shown again.
LikesNoRepeats == repeated \subseteq fell

\* And only a video that won likes before its turn came can be missed by a walk that
\* is at its end.
LikesComplete == asked /\ ~hasMore => Rows \ shown \subseteq rose
=============================================================================
