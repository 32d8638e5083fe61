------------------------------- MODULE Feeds -------------------------------
(***************************************************************************)
(* FeedHandler: a client opens one of the public feeds and walks through   *)
(* it, on the same table videos.                                           *)
(***************************************************************************)
EXTENDS LatestFeed, HotRank, LikesFeed

VARIABLE feed  \* the one the client has opened

latestOnly == <<timelineVars, flight, request, cursor, due, excused>>
hotOnly == <<heatVars, snapshotVars, hotWalkVars>>
likesOnly == <<likesWalkVars, likesCount, likeChanges, rose, fell>>
vars == <<tableVars, walkVars, latestOnly, hotOnly, likesOnly, feed>>

TypeOK == LatestTypeOK /\ HotTypeOK /\ LikesTypeOK

Init ==
    \/ feed = "latest" /\ LatestInit /\ HotStart({}) /\ LikesStart
    \/ feed = "hot" /\ LatestStart /\ HotInit /\ LikesStart
    \/ feed = "likes" /\ LatestStart /\ HotStart({}) /\ LikesInit

Next ==
    \/ feed = "latest" /\ LatestNext /\ UNCHANGED <<hotOnly, likesOnly, feed>>
    \/ feed = "hot" /\ HotNext /\ UNCHANGED <<latestOnly, likesOnly, feed>>
    \/ feed = "likes" /\ LikesNext /\ UNCHANGED <<latestOnly, hotOnly, feed>>

Spec == Init /\ [][Next]_vars
=============================================================================
