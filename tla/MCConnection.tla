---------------------------- MODULE MCConnection ----------------------------
(* Instances of Connection for TLC. *)
EXTENDS Connection

CONSTANTS r1, r2, r3

MCRequests == {r1, r2, r3}
MCTwo      == {r1, r2}
NoCodes    == {}
BothPushes == {"event", "liveError"}
EventOnly  == {"event"}
CloseFirst == {r1}
=============================================================================
