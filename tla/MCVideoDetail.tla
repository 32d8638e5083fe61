--------------------------- MODULE MCVideoDetail ---------------------------
(* Instances of VideoDetail for TLC.                                       *)
EXTENDS VideoDetail
=============================================================================
