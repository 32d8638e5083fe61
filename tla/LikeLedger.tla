----------------------------- MODULE LikeLedger -----------------------------
(***************************************************************************)
(* What the like feature promises, without queues, workers or handlers: a  *)
(* live video has a set of accounts that like it and a counter, and one    *)
(* atomic step moves both.  Module Likes implements this specification.    *)
(***************************************************************************)
EXTENDS Integers, FiniteSets

CONSTANTS Users, Videos

VARIABLES live,    \* the videos that exist
          likers,  \* likers[v]: the accounts that like the live video v
          count    \* count[v]: its likes_count

ledgerVars == <<live, likers, count>>

LedgerInit ==
    /\ live = Videos
    /\ likers = [v \in Videos |-> {}]
    /\ count = [v \in Videos |-> 0]

\* An account that does not like v starts to.
AddLike(v, u) ==
    /\ v \in live
    /\ u \notin likers[v]
    /\ likers' = [likers EXCEPT ![v] = @ \cup {u}]
    /\ count' = [count EXCEPT ![v] = @ + 1]
    /\ UNCHANGED live

\* An account that likes v stops to.
RemoveLike(v, u) ==
    /\ v \in live
    /\ u \in likers[v]
    /\ likers' = [likers EXCEPT ![v] = @ \ {u}]
    /\ count' = [count EXCEPT ![v] = @ - 1]
    /\ UNCHANGED live

\* A deleted video has neither likers nor a counter any more.
RemoveVideo(v) ==
    /\ v \in live
    /\ live' = live \ {v}
    /\ likers' = [likers EXCEPT ![v] = {}]
    /\ count' = [count EXCEPT ![v] = 0]

LedgerNext ==
    \E v \in Videos :
        \/ \E u \in Users : AddLike(v, u) \/ RemoveLike(v, u)
        \/ RemoveVideo(v)

LedgerSpec == LedgerInit /\ [][LedgerNext]_ledgerVars
=============================================================================
