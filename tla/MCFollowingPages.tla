-------------------------- MODULE MCFollowingPages --------------------------
(* An instance of FollowingPages for TLC.                                  *)
EXTENDS FollowingPages

\* Videos are named by their create_time.
OwnTime == [v \in Videos |-> v]
=============================================================================
