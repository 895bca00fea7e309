------------------------------- MODULE MCPool -------------------------------
(* Four clients of pools of three.  Sessions are lost and openings fail any *)
(* number of times.                                                        *)
EXTENDS Pool, TLC
=============================================================================
