------------------------------ MODULE HotRank ------------------------------
(***************************************************************************)
(* The ranking by popularity: likes and comments raise the score of a      *)
(* video in the sorted set of the current minute, and a client walks       *)
(* through FeedService.ListByPopularity.                                   *)
(*                                                                         *)
(* The first page merges the last windows into the snapshot of its minute  *)
(* (as_of), the next ones read on in it by offset.  Where Redis has        *)
(* nothing to give, MySQL answers by the column popularity, with a cursor  *)
(* of its own; the client sends back whatever the last answer gave.        *)
(***************************************************************************)
EXTENDS FeedWalk, Sequences, SequencesExt

CONSTANTS
    MaxMinute,     \* bound on the clock
    HotWindows,    \* windows that are merged (60)
    Weight,        \* Weight[i]: weight of the window i minutes ago, falling
    MergeTTL,      \* minutes a snapshot lives (2)
    MaxHeat        \* bound on the updates of the windows and of column popularity

ASSUME HotBounds ==
    /\ {MaxMinute, MergeTTL, MaxHeat} \subseteq Nat
    /\ HotWindows \in Nat \ {0}
    /\ Weight \in [0 .. HotWindows - 1 -> Nat]

VARIABLES
    minute,      \* the clock
    window,      \* hot:video:1m:<minute>: member to score
    popularity,  \* column popularity
    heats,       \* how many updates the windows and the column had
    snapshot,    \* hot:video:merge:1m:<minute>, in the order of ZREVRANGE
    merged,      \* minute in which a snapshot was stored
    others,      \* snapshots that requests of others are about to store
    hotRequest,  \* the request of the client
    hotCursor,   \* what it sends with the next one
    source,      \* history: where the pages of the walk came from
    ranking,     \* history: the order in which the first page was cut
    steady       \* history: that order is still the one the pages are cut in

heatVars == <<minute, window, popularity, heats>>
snapshotVars == <<snapshot, merged, others>>
hotWalkVars == <<hotRequest, hotCursor, source, ranking, steady>>

Minutes == 0 .. MaxMinute
NoMinute == -1
NoVideo == 0
HotIdle == [at |-> "idle", asOf |-> NoMinute]
NoHotCursor == [asOf |-> NoMinute, offset |-> 0, pop |-> 0, last |-> NoVideo]

HotTypeOK ==
    /\ WalkTypeOK
    /\ minute \in Minutes
    /\ DOMAIN window = Minutes
    /\ \A t \in Minutes : /\ DOMAIN window[t] \subseteq Videos
                         /\ \A v \in DOMAIN window[t] : window[t][v] \in Int
    /\ popularity \in [Videos -> Nat]
    /\ DOMAIN snapshot = Minutes
    /\ \A t \in Minutes : ToSet(snapshot[t]) \subseteq Videos
    /\ merged \in [Minutes -> Minutes]
    /\ others \in SUBSET Minutes
    /\ hotRequest \in [at : {"idle", "union", "range", "db"}, asOf : Minutes \cup {NoMinute}]
    /\ hotCursor \in [asOf : Minutes \cup {NoMinute}, offset : Nat, pop : Nat,
                      last : Videos \cup {NoVideo}]
    /\ source \in {"none", "hot", "db", "mixed"}
    /\ steady \in BOOLEAN

\* The videos of S were liked once in the first minute, nobody has read the ranking.
HotStart(S) ==
    /\ minute = 0
    /\ window = [t \in Minutes |-> IF t = 0 THEN [v \in S |-> 1] ELSE <<>>]
    /\ popularity = [v \in Videos |-> 0]
    /\ heats = 0
    /\ snapshot = [t \in Minutes |-> <<>>]
    /\ merged = [t \in Minutes |-> 0]
    /\ others = {}
    /\ hotRequest = HotIdle
    /\ hotCursor = NoHotCursor
    /\ source = "none"
    /\ ranking = <<>>
    /\ steady = TRUE

HotInit == WalkInit /\ published = Catalogue /\ \E S \in SUBSET Catalogue : HotStart(S)

-----------------------------------------------------------------------------
(* Likes, comments and the clock.                                          *)

MinutePasses ==
    /\ minute < MaxMinute
    /\ minute' = minute + 1
    /\ UNCHANGED <<tableVars, walkVars, window, popularity, heats,
                   snapshotVars, hotWalkVars>>

\* UpdatePopularityCache, by PopularityWorker or a service, or once more by a
\* redelivered event: ZINCRBY on the window of this minute.
UpdatePopularityCache(v, change) ==
    /\ heats < MaxHeat
    /\ v \in published
    /\ heats' = heats + 1
    /\ LET w == window[minute]
       IN window' = [window EXCEPT ![minute] =
                       [x \in DOMAIN w \cup {v} |->
                          (IF x \in DOMAIN w THEN w[x] ELSE 0) + (IF x = v THEN change ELSE 0)]]
    /\ UNCHANGED <<tableVars, walkVars, minute, popularity, snapshotVars, hotWalkVars>>

\* GREATEST(popularity + ?, 0), and as a bug without GREATEST.
CountedUnbounded(pop, change) == pop + change
Counted(pop, change) == IF pop + change < 0 THEN 0 ELSE pop + change

\* ChangePopularity, by the other workers and services.
ChangePopularity(v, change) ==
    /\ heats < MaxHeat
    /\ v \in Rows
    /\ heats' = heats + 1
    /\ popularity' = [popularity EXCEPT ![v] = Counted(@, change)]
    /\ steady' = (steady /\ (source = "db" => popularity'[v] = popularity[v]))
    /\ UNCHANGED <<tableVars, walkVars, minute, window, snapshotVars,
                   hotRequest, hotCursor, source, ranking>>

\* A deleted video stays a member of windows and snapshots.
HotDelete(v) ==
    /\ DeleteRow(v)
    /\ UNCHANGED <<walkVars, heatVars, snapshotVars, hotWalkVars>>

-----------------------------------------------------------------------------
(* Snapshots.                                                              *)

\* The windows that the snapshot of minute t merges.
Merges(t) == {i \in 0 .. HotWindows - 1 : t - i >= 0}

MergedMembers(t) == UNION {DOMAIN window[t - i] : i \in Merges(t)}

MergedScore(t, v) ==
    SumFunction([i \in {j \in Merges(t) : v \in DOMAIN window[t - j]} |->
                   Weight[i] * window[t - i][v]])

\* The members of S in the order R, a set of pairs <<earlier, later>>.
Ranked(S, R) ==
    [i \in 1 .. Cardinality(S) |->
       CHOOSE v \in S : Cardinality({w \in S : <<w, v>> \in R}) = i - 1]

\* ZREVRANGE: by score, and equal scores by member.
MergedOrder(t) ==
    {p \in MergedMembers(t) \X MergedMembers(t) :
       LET earlier == MergedScore(t, p[1])
           later == MergedScore(t, p[2])
       IN earlier > later \/ (earlier = later /\ p[1] > p[2])}

\* ZUNIONSTORE WEIGHTS AGGREGATE SUM, as ZREVRANGE will read it.
Union(t) == Ranked(MergedMembers(t), MergedOrder(t))

\* ZUNIONSTORE and EXPIRE; an empty union stores nothing.
StoreUnion(t) ==
    /\ snapshot' = [snapshot EXCEPT ![t] = Union(t)]
    /\ merged' = [merged EXCEPT ![t] = minute]

\* The snapshot expires, unless the access that should have said when has failed.
ExpireSnapshot(t) ==
    /\ snapshot[t] # <<>>
    /\ minute >= merged[t] + MergeTTL
    /\ snapshot' = [snapshot EXCEPT ![t] = <<>>]
    /\ UNCHANGED <<tableVars, walkVars, heatVars, merged, others, hotWalkVars>>

\* A request of somebody else finds no snapshot of this minute ...
OtherExists ==
    /\ snapshot[minute] = <<>>
    /\ others' = others \cup {minute}
    /\ UNCHANGED <<tableVars, walkVars, heatVars, snapshot, merged, hotWalkVars>>

\* ... and stores one, over whatever is there by now.
OtherUnion(t) ==
    /\ t \in others
    /\ others' = others \ {t}
    /\ StoreUnion(t)
    /\ UNCHANGED <<tableVars, walkVars, heatVars, hotWalkVars>>

-----------------------------------------------------------------------------
(* FeedService.ListByPopularity.                                           *)

\* The walk stayed in the order its first page was cut in: with one snapshot that
\* nobody stored anew, or with MySQL while no popularity changed.
OneOrder == steady /\ source \in {"hot", "db"}

\* EXISTS; its error counts as a no.  The walk is followed while it is in one order.
HotExists ==
    /\ hotRequest.at = "idle" /\ hasMore
    /\ OneOrder \/ source = "none"
    /\ \E asOf \in {IF hotCursor.asOf = NoMinute THEN minute ELSE hotCursor.asOf} :
          hotRequest' \in {[at |-> IF snapshot[asOf] = <<>> THEN "union" ELSE "range", asOf |-> asOf]}
                          \cup (IF RedisFails THEN {[at |-> "union", asOf |-> asOf]} ELSE {})
    /\ UNCHANGED <<tableVars, walkVars, heatVars, snapshotVars,
                   hotCursor, source, ranking, steady>>

HotUnion ==
    /\ hotRequest.at = "union"
    /\ \/ StoreUnion(hotRequest.asOf)
       \/ RedisFails /\ UNCHANGED <<snapshot, merged>>
    /\ hotRequest' = [hotRequest EXCEPT !.at = "range"]
    /\ UNCHANGED <<tableVars, walkVars, heatVars, others, hotCursor, source, ranking, steady>>

\* The page of s behind its first offset members, as a bug as if ranks began at one, and
\* the last of P in s.
PageAtRank(s, offset) == {s[i] : i \in {j \in DOMAIN s : offset + 1 < j /\ j <= offset + Limit}}
PageAt(s, offset) == {s[i] : i \in {j \in DOMAIN s : offset < j /\ j <= offset + Limit}}
LastOf(s, P) == s[Max({i \in DOMAIN s : s[i] \in P})]

\* ZREVRANGE start stop.
Members == PageAt(snapshot[hotRequest.asOf], hotCursor.offset)

\* As a bug: has_more counts members that are no videos any more.
HotMoreByMembers(items) == Cardinality(Members) = Limit
HotMore(items) == Cardinality(items) = Limit

\* The cursor by popularity, whose last item is v.
PopularityCursor(v) == [NoHotCursor EXCEPT !.pop = popularity[v], !.last = v]

\* The members that are still videos make up the page.
HotRange ==
    /\ hotRequest.at = "range"
    /\ Members # {}
    /\ LET items == Members \cap Rows
       IN /\ Show(items)
          /\ hasMore' = HotMore(items)
          /\ hotCursor' =
                [(IF items = {} THEN NoHotCursor
                  ELSE PopularityCursor(LastOf(snapshot[hotRequest.asOf], items)))
                 EXCEPT !.asOf = hotRequest.asOf,
                        !.offset = hotCursor.offset + Cardinality(items)]
    /\ source' = IF source \in {"none", "hot"} THEN "hot" ELSE "mixed"
    /\ ranking' = IF source = "none" THEN snapshot[hotRequest.asOf] ELSE ranking
    /\ steady' = (steady /\ ranking' = snapshot[hotRequest.asOf])
    /\ hotRequest' = HotIdle
    /\ UNCHANGED <<tableVars, heatVars, snapshotVars>>

\* No members, or an error: MySQL.
HotDegrades ==
    /\ hotRequest.at = "range"
    /\ Members = {} \/ RedisFails
    /\ hotRequest' = [hotRequest EXCEPT !.at = "db"]
    /\ UNCHANGED <<tableVars, walkVars, heatVars, snapshotVars, hotCursor, source, ranking, steady>>

\* <<popularity, create_time, id>> of v comes behind that of w.
Behind(p, v, q, w) ==
    \/ p < q
    \/ p = q /\ CreateTime[v] < CreateTime[w]
    \/ p = q /\ CreateTime[v] = CreateTime[w] /\ v < w

\* FeedRepository.ListByPopularity without its LIMIT.
ByPopularity ==
    Ranked({v \in Rows : \/ hotCursor.last = NoVideo
                         \/ Behind(popularity[v], v, hotCursor.pop, hotCursor.last)},
           {p \in Rows \X Rows : Behind(popularity[p[2]], p[2], popularity[p[1]], p[1])})

\* The answer names neither a snapshot nor an offset.
HotFromDB ==
    /\ hotRequest.at = "db"
    /\ LET items == PageAt(ByPopularity, 0)
       IN /\ Show(items)
          /\ hasMore' = (Cardinality(items) = Limit)
          /\ hotCursor' = IF items = {} THEN NoHotCursor
                          ELSE PopularityCursor(LastOf(ByPopularity, items))
    /\ source' = IF source \in {"none", "db"} THEN "db" ELSE "mixed"
    /\ ranking' = IF source = "none" THEN ByPopularity ELSE ranking
    /\ hotRequest' = HotIdle
    /\ UNCHANGED <<tableVars, heatVars, snapshotVars, steady>>

\* A query of MySQL fails: status 500, the client asks again.
HotError ==
    /\ hotRequest.at \in {"range", "db"}
    /\ hotRequest' = HotIdle
    /\ UNCHANGED <<tableVars, walkVars, heatVars, snapshotVars, hotCursor, source, ranking, steady>>

-----------------------------------------------------------------------------
HotNext ==
    \/ MinutePasses
    \/ \E v \in Videos, c \in {1, -1} : UpdatePopularityCache(v, c) \/ ChangePopularity(v, c)
    \/ \E v \in Videos : HotDelete(v)
    \/ \E t \in Minutes : ExpireSnapshot(t) \/ OtherUnion(t)
    \/ OtherExists
    \/ HotExists
    \/ HotUnion
    \/ HotRange
    \/ HotDegrades
    \/ HotFromDB
    \/ HotError

-----------------------------------------------------------------------------
(* Properties.                                                             *)

\* No item is ever repeated in a walk through one order, although a video deleted on
\* the way stays in the snapshot and moves up everything behind it in the table.
HotNoRepeats == OneOrder => delivered = Cardinality(shown)

\* The walk through one order ends when everything was shown that is still there; only
\* a deleted member of the snapshot ends it early.
HotComplete ==
    /\ OneOrder
    /\ ~hasMore
    /\ source = "hot" => ToSet(ranking) \subseteq Rows
    => ToSet(ranking) \cap Rows \subseteq shown
=============================================================================
