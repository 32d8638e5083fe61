------------------------------ MODULE MCFeeds ------------------------------
(* An instance of Feeds for TLC.                                           *)
EXTENDS Feeds

\* The last two videos are of the same millisecond.
TiedTimes == [v \in Videos |-> IF \A w \in Videos : w <= v THEN v - 1 ELSE v]

\* Falling weights, as integers.
Weights == [i \in 0 .. HotWindows - 1 |-> 20 - i]
=============================================================================
