------------------------- MODULE MCDatabaseTransaction -------------------------
(* Instances of DatabaseTransaction for TLC. *)
EXTENDS DatabaseTransaction

CONSTANTS k1, m1, c1, c2, w1, d1

UnitOne   == {k1}
ManualOne == {m1}
TwoCalls  == {c1, c2}
OneWrite  == {w1}
OneDelete == {d1}
================================================================================
