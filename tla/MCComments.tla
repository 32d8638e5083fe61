----------------------------- MODULE MCComments -----------------------------
(* An instance of Comments for TLC.                                        *)
EXTENDS Comments
=============================================================================
