---------------------------- MODULE MCFollowFeed ----------------------------
(* Instances of FollowFeed for TLC.                                        *)
EXTENDS FollowFeed, TLC

CONSTANTS a, b  \* the vloggers

OneAuthor  == [v \in Videos |-> a]
TwoAuthors == [v \in Videos |-> IF v % 2 = 1 THEN a ELSE b]

Symmetry == Permutations(Followers \ Sleepers) \cup Permutations(Handlers)
=============================================================================
