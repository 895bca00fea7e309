---------------------------- MODULE RequestChannel ----------------------------
(***************************************************************************)
(* What Connection.send promises (client/network/conn.js:54-60), without   *)
(* sockets, bytes or parsers: requests go out one after another, the       *)
(* server answers them in that order, and each caller is handed the answer *)
(* to its own request, or an error when the connection is lost.  An        *)
(* implementation may forfeit the promise; nothing is said from then on.   *)
(***************************************************************************)
EXTENDS Integers, Sequences

CONSTANTS
    Requests,   \* the calls of send() that may be made
    OneWay      \* those that are complete once written: the server never answers

VARIABLES
    call,       \* what the caller of each request knows
    pipeline,   \* the requests sent and not settled, in the order they were sent
    served,     \* how many of them, from the head, the server has answered
    sound       \* the promise has not been forfeited

vars == <<call, pipeline, served, sound>>

Init ==
    /\ call = [r \in Requests |-> "unsent"]
    /\ pipeline = << >>
    /\ served = 0
    /\ sound = TRUE

Unsettled(r) == call[r] \in {"unsent", "waiting"}

\* The call is made while there is no connection.
Wait(r) ==
    /\ call[r] = "unsent"
    /\ call' = [call EXCEPT ![r] = "waiting"]
    /\ UNCHANGED <<pipeline, served>>

Submit(r) ==
    /\ Unsettled(r)
    /\ r \notin OneWay
    /\ call' = [call EXCEPT ![r] = "queued"]
    /\ pipeline' = Append(pipeline, r)
    /\ UNCHANGED served

SubmitOneWay(r) ==
    /\ Unsettled(r)
    /\ r \in OneWay
    /\ call' = [call EXCEPT ![r] = "resolved"]
    /\ UNCHANGED <<pipeline, served>>

\* There is no connection, and none can be made.
Refuse(r) ==
    /\ Unsettled(r)
    /\ call' = [call EXCEPT ![r] = "failed"]
    /\ UNCHANGED <<pipeline, served>>

Serve ==
    /\ served < Len(pipeline)
    /\ served' = served + 1
    /\ UNCHANGED <<call, pipeline>>

\* The oldest request gets its answer, which the server has given.
Deliver ==
    /\ pipeline # << >>
    /\ served > 0
    /\ call[Head(pipeline)] = "queued"
    /\ \E outcome \in {"resolved", "refused"} :
          call' = [call EXCEPT ![Head(pipeline)] = outcome]
    /\ pipeline' = Tail(pipeline)
    /\ served' = served - 1

\* The connection is lost: all that was sent and not settled fails, at once.
Lose ==
    /\ call' = [r \in Requests |->
                  IF \E i \in 1 .. Len(pipeline) : pipeline[i] = r
                  THEN "failed" ELSE call[r]]
    /\ pipeline' = << >>
    /\ served' = 0

Step ==
    \/ \E r \in Requests : Wait(r) \/ Submit(r) \/ SubmitOneWay(r) \/ Refuse(r)
    \/ Serve
    \/ Deliver
    \/ Lose

Next ==
    \/ sound /\ Step /\ sound' = TRUE
    \/ sound' = FALSE

Spec == Init /\ [][Next]_vars
================================================================================
