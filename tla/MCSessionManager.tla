--------------------------- MODULE MCSessionManager ---------------------------
(* Instances of SessionManager for TLC. *)
EXTENDS SessionManager

CONSTANTS db1, db2, o1, o2, s1, s2, k1

TwoManagers == {db1, db2}
OpenTwo  == {o1, o2}
SendTwo  == {s1, s2}
CloseOne == {k1}

\* The second open() and the second send() are of the other session.
Spread == [o \in Ops |-> IF o \in {o2, s2} THEN db2 ELSE db1]
===============================================================================
