------------------------------ MODULE MCLikes ------------------------------
(* Instances of Likes for TLC.                                             *)
EXTENDS Likes, TLC

\* What /video/updateLikesCount may write: a value below and one above the truth.
SyncValues == {-1, 2}

Symmetry == Permutations(Users) \cup Permutations(Handlers)
=============================================================================
