------------------------------ MODULE MCMyRoomHub ------------------------------
(* MyRoomHub.tla for TLC: b migrates, d has a profile but never logs in.        *)
EXTENDS MyRoomHub, TLC

CONSTANTS a, b, c, d

Generation == (a :> 1) @@ (b :> 2) @@ (c :> 1) @@ (d :> 0)
================================================================================
