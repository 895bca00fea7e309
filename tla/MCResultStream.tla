---------------------------- MODULE MCResultStream ----------------------------
(* Instances of ResultStream for TLC. *)
EXTENDS ResultStream

CONSTANTS c1, c2, c3, c4

FourCalls == {c1, c2, c3, c4}
===============================================================================
