--------------------------- MODULE MCLeaderFollow ---------------------------
(* Instances of LeaderFollow for TLC.                                       *)
EXTENDS LeaderFollow
=============================================================================
