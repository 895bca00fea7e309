------------------------- MODULE SessionManagerProofs -------------------------
(* Proofs about SessionManager, for any sessions, calls and bounds.            *)
EXTENDS SessionManager, TLAPS

(***************************************************************************)
(* The strengthenings.                                                     *)
(***************************************************************************)

\* Only a send() is retried, and only once: it waits for a session in its first
\* attempt, as a close() never does.
Attempts ==
    \A o \in Ops : /\ ops[o].attempt = 2 => o \in Sends
                   /\ ops[o].pc \in {"idle", "opening"} => ops[o].attempt = 1
                   /\ ops[o].pc = "opening" => o \notin Closes

\* A second attempt has at most one execution behind it, which a broken
\* connection has hidden; an attempt adds one, when it gets past the wire.
Executions ==
    \A o \in Ops :
        /\ executed[o] <= (IF ops[o].attempt = 2 /\ o \in broken THEN 1 ELSE 0)
                          + (IF ops[o].pc \in {"idle", "acquire", "wire"} THEN 0 ELSE 1)
        /\ ops[o].attempt = 1 /\ ops[o].pc \in {"failed", "opening"} /\ o \notin broken
             => executed[o] = 0

\* A call that is going to make its second attempt, or to go on with it.
RetryAhead(o) ==
    \/ o \in Sends /\ ops[o].pc = "opening"
    \/ ops[o].attempt = 2 /\ ops[o].pc = "acquire"

\* From the retry of a call on, its manager has no session or a newer one.
SessionsNewer ==
    \A o \in Ops :
        /\ ops[o].session <= lastSession /\ ops[o].failed <= lastSession
        /\ RetryAhead(o) => \/ currentSession[Of[o]] = 0
                            \/ currentSession[Of[o]] > ops[o].failed

\* subscriptions counts what server.subscribedForCluster remembers.
Subscriptions ==
    /\ subscriptions = IF subscribed THEN 1 ELSE 0
    /\ subscribing = "pending" => ~subscribed
    /\ \A m \in Managers : opening[m] = "release" => subscribed

IInv == /\ TypeOK /\ Attempts /\ ConnectionsGoBack
        /\ Executions /\ SessionsNewer /\ NewSessionOnRetry /\ Subscriptions

-----------------------------------------------------------------------------
(* What the operators shared by the actions do, call by call *)

\* A failed attempt leaves the call rejected, or waiting for another session
\* when it may be retried; the current session is then dropped.
LEMMA FailAttemptEffect ==
    ASSUME TypeOK, NEW o \in Ops, NEW e, FailAttempt(o, e)
    PROVE  /\ ops' \in [Ops -> Op]
           /\ \A p \in Ops \ {o} : ops'[p] = ops[p]
           /\ ops'[o].pc \in {"opening", "rejected"}
           /\ ops'[o].attempt = ops[o].attempt
           /\ ops'[o].session = ops[o].session
           /\ ops'[o].failed \in {ops[o].failed, ops[o].session}
           /\ ops'[o].pc = "opening" =>
                 Retried(o, e) /\ currentSession'[Of[o]] = 0
           /\ currentSession' \in [Managers -> 0..lastSession]
           /\ \A m \in Managers : currentSession'[m] \in {0, currentSession[m]}
           /\ opening' \in [Managers -> Steps]
           /\ \A m \in Managers : opening'[m] = opening[m]
                 \/ (opening[m] = "no" /\ opening'[m] = "acquire")
<1> USE DEF TypeOK
<1>0. Of[o] \in Managers /\ ops[o] \in Op
  BY SessionAssumption
<1>1. CASE Retried(o, e)
  <2>1. /\ currentSession' = [currentSession EXCEPT ![Of[o]] = 0]
        /\ ops' = [ops EXCEPT ![o] = [JoinedOp(o) EXCEPT !.failed = ops[o].session]]
        /\ opening' = [opening EXCEPT ![Of[o]] = JoinedOpening(Of[o])]
    BY <1>1 DEF FailAttempt
  <2>2. JoinedOpening(Of[o]) \in Steps
    BY <1>0 DEF JoinedOpening, Steps
  <2>3. [JoinedOp(o) EXCEPT !.failed = ops[o].session] \in Op
    BY <1>0 DEF JoinedOp, Op
  <2>4. ops' \in [Ops -> Op] /\ \A p \in Ops \ {o} : ops'[p] = ops[p]
    BY <2>1, <2>3
  <2>5. /\ ops'[o].pc \in {"opening", "rejected"}
        /\ ops'[o].attempt = ops[o].attempt
        /\ ops'[o].session = ops[o].session
        /\ ops'[o].failed = ops[o].session
    BY <2>1, <1>0 DEF JoinedOp, Op
  <2>6. /\ currentSession' \in [Managers -> 0..lastSession]
        /\ \A m \in Managers : currentSession'[m] \in {0, currentSession[m]}
        /\ currentSession'[Of[o]] = 0
    BY <2>1, <1>0
  <2>7. /\ opening' \in [Managers -> Steps]
        /\ \A m \in Managers : opening'[m] = opening[m]
              \/ (opening[m] = "no" /\ opening'[m] = "acquire")
    BY <2>1, <2>2, <1>0 DEF JoinedOpening
  <2> QED
    BY <1>1, <2>4, <2>5, <2>6, <2>7
<1>2. CASE ~Retried(o, e)
  <2>1. /\ ops' = [ops EXCEPT ![o].pc = "rejected"]
        /\ currentSession' = currentSession /\ opening' = opening
    BY <1>2 DEF FailAttempt
  <2> QED
    BY <2>1, <1>0 DEF Op
<1> QED
  BY <1>1, <1>2

\* The end of an opening touches the calls that wait for it, and no other; a
\* send() then makes its second attempt or is rejected.
LEMMA WakeEffect ==
    ASSUME TypeOK, Attempts, NEW m \in Managers, NEW ok \in BOOLEAN, Wake(m, ok)
    PROVE  /\ ops' \in [Ops -> Op]
           /\ \A p \in Ops : \/ ops'[p] = ops[p]
                             \/ /\ ops[p].pc = "opening"
                                /\ ops'[p].session = ops[p].session
                                /\ ops'[p].failed = ops[p].failed
                                /\ ops'[p].pc \in {"acquire", "resolved", "rejected"}
                                /\ ops'[p].pc = "acquire" => p \notin Opens
                                /\ p \in Sends => ops'[p].attempt = 2
                                /\ p \notin Sends => ops'[p].attempt = ops[p].attempt
<1> USE DEF TypeOK
<1> SUFFICES ASSUME NEW p \in Ops
             PROVE  /\ ops'[p] \in Op
                    /\ \/ ops'[p] = ops[p]
                       \/ /\ ops[p].pc = "opening"
                          /\ ops'[p].session = ops[p].session
                          /\ ops'[p].failed = ops[p].failed
                          /\ ops'[p].pc \in {"acquire", "resolved", "rejected"}
                          /\ ops'[p].pc = "acquire" => p \notin Opens
                          /\ p \in Sends => ops'[p].attempt = 2
                          /\ p \notin Sends => ops'[p].attempt = ops[p].attempt
  <2>1. ops' = [q \in Ops |-> Woken(q, m, ok)]
    BY DEF Wake
  <2> QED
    BY <2>1
<1>0. ops[p] \in Op /\ ops'[p] = Woken(p, m, ok)
  BY DEF Wake
<1>1. CASE Of[p] # m \/ ops[p].pc # "opening"
  BY <1>0, <1>1 DEF Woken
<1>2. CASE Of[p] = m /\ ops[p].pc = "opening"
  <2> DEFINE pc == CASE ok /\ p \in Opens -> "resolved"
                     [] ok /\ p \notin Opens /\ currentSession[m] # 0 -> "acquire"
                     [] OTHER -> "rejected"
  <2> DEFINE attempt == IF p \in Sends THEN ops[p].attempt + 1 ELSE ops[p].attempt
  <2>1. ops'[p] = [ops[p] EXCEPT !.attempt = attempt, !.pc = pc]
    BY <1>0, <1>2 DEF Woken
  <2>2. pc \in {"acquire", "resolved", "rejected"} /\ (pc = "acquire" => p \notin Opens)
    OBVIOUS
  <2>3. /\ attempt \in {1, 2}
        /\ p \in Sends => attempt = 2
        /\ p \notin Sends => attempt = ops[p].attempt
    BY <1>0, <1>2 DEF Attempts, Op
  <2> HIDE DEF pc, attempt
  <2> QED
    BY <1>0, <1>2, <2>1, <2>2, <2>3 DEF Op
<1> QED
  BY <1>1, <1>2

-----------------------------------------------------------------------------
(* The invariant *)

LEMMA InitIInv == Init => IInv
<1> SUFFICES ASSUME Init PROVE IInv
  OBVIOUS
<1>1. TypeOK
  <2>1. [pc |-> "idle", attempt |-> 1, session |-> 0, failed |-> 0, error |-> "none"] \in Op
    BY SessionAssumption DEF Op
  <2>2. ops \in [Ops -> Op]
    BY <2>1 DEF Init
  <2>3. subscribed \in BOOLEAN
    BY Zenon DEF Init
  <2> QED
    BY <2>2, <2>3, SessionAssumption DEF Init, TypeOK, Steps
<1>2. Attempts /\ ConnectionsGoBack /\ NewSessionOnRetry
  BY SessionAssumption DEF Init, Attempts, ConnectionsGoBack, NewSessionOnRetry
<1>3. Executions
  BY DEF Init, Executions
<1>4. SessionsNewer
  BY SessionAssumption DEF Init, SessionsNewer, RetryAhead
<1>5. Subscriptions
  BY DEF Init, Subscriptions
<1> QED
  BY <1>1, <1>2, <1>3, <1>4, <1>5 DEF IInv

LEMMA FailedOp ==
    ASSUME NEW c \in Op, NEW e \in Errors
    PROVE  LET d == [c EXCEPT !.pc = "failed", !.error = e]
           IN  d \in Op /\ d.attempt = c.attempt /\ d.pc = "failed"
<1>1. e \in {"none"} \cup Errors
  OBVIOUS
<1> QED
  BY <1>1 DEF Op

LEMMA AcquiredOp ==
    ASSUME NEW c \in Op, NEW s \in 0..MaxSessions
    PROVE  /\ [c EXCEPT !.pc = "failed", !.error = "request", !.session = s] \in Op
           /\ [c EXCEPT !.pc = "wire", !.error = "none", !.session = s] \in Op
<1>1. "request" \in {"none"} \cup Errors /\ "none" \in {"none"} \cup Errors
  BY DEF Errors
<1> QED
  BY <1>1 DEF Op

\* The actions that move one call and keep its attempt.
LEMMA OneCallTyped ==
    ASSUME TypeOK, Attempts, NEW o \in Ops, NEW c \in Op,
           ops' = [ops EXCEPT ![o] = c],
           c.attempt = ops[o].attempt,
           c.pc # "idle", c.pc = "opening" => o \in Opens
    PROVE  ops' \in [Ops -> Op] /\ Attempts'
<1>1. ops \in [Ops -> Op]
  BY DEF TypeOK
<1>2. ASSUME NEW p \in Ops
      PROVE  /\ ops'[p].attempt = 2 => p \in Sends
             /\ ops'[p].pc \in {"idle", "opening"} => ops'[p].attempt = 1
             /\ ops'[p].pc = "opening" => p \notin Closes
  <2>1. CASE p = o
    <3>1. ops'[p] = c
      BY <1>1, <2>1
    <3>2. c.attempt \in {1, 2}
      BY DEF Op
    <3> QED
      BY <2>1, <3>1, <3>2, SessionAssumption DEF Attempts
  <2>2. CASE p # o
    <3>1. ops'[p] = ops[p]
      BY <1>1, <2>2
    <3> QED
      BY <3>1 DEF Attempts
  <2> QED
    BY <2>1, <2>2
<1>3. ops' \in [Ops -> Op]
  BY <1>1
<1> QED
  BY <1>2, <1>3 DEF Attempts

LEMMA WakeTyped ==
    ASSUME TypeOK, Attempts, NEW m \in Managers, NEW ok \in BOOLEAN, Wake(m, ok)
    PROVE  ops' \in [Ops -> Op] /\ Attempts'
<1>1. ops' \in [Ops -> Op]
  BY WakeEffect
<1>2. ASSUME NEW p \in Ops
      PROVE  /\ ops'[p].attempt = 2 => p \in Sends
             /\ ops'[p].pc \in {"idle", "opening"} => ops'[p].attempt = 1
             /\ ops'[p].pc = "opening" => p \notin Closes
  <2>1. CASE ops'[p] = ops[p]
    BY <2>1 DEF Attempts
  <2>2. CASE ops'[p] # ops[p]
    BY <2>2, WakeEffect DEF Attempts
  <2> QED
    BY <2>1, <2>2
<1> QED
  BY <1>1, <1>2 DEF Attempts

LEMMA FailAttemptTyped ==
    ASSUME TypeOK, Attempts, NEW o \in Ops, NEW e, FailAttempt(o, e)
    PROVE  /\ ops' \in [Ops -> Op] /\ Attempts'
           /\ currentSession' \in [Managers -> 0..lastSession]
           /\ opening' \in [Managers -> Steps]
<1>1. ASSUME NEW p \in Ops
      PROVE  /\ ops'[p].attempt = 2 => p \in Sends
             /\ ops'[p].pc \in {"idle", "opening"} => ops'[p].attempt = 1
             /\ ops'[p].pc = "opening" => p \notin Closes
  <2>1. CASE p # o
    <3>1. ops'[p] = ops[p]
      BY <2>1, FailAttemptEffect
    <3> QED
      BY <3>1 DEF Attempts
  <2>2. CASE p = o
    BY <2>2, FailAttemptEffect, SessionAssumption DEF Attempts, Retried
  <2> QED
    BY <2>1, <2>2
<1> QED
  BY <1>1, FailAttemptEffect DEF Attempts

LEMMA StepTyped == TypeOK /\ Attempts /\ [Next]_vars => TypeOK' /\ Attempts'
<1> SUFFICES ASSUME TypeOK, Attempts, [Next]_vars
             PROVE  TypeOK' /\ Attempts'
  OBVIOUS
<1> USE SessionAssumption DEF TypeOK, serverVars
<1>0. ASSUME NEW o \in Ops PROVE Of[o] \in Managers /\ ops[o] \in Op
  OBVIOUS
<1>1. ASSUME NEW m \in Managers, OpenAcquired(m) PROVE TypeOK' /\ Attempts'
  BY <1>1 DEF OpenAcquired, Attempts, Steps
<1>2. ASSUME NEW m \in Managers, OpenNotAcquired(m) PROVE TypeOK' /\ Attempts'
  <2>1. Wake(m, FALSE)
    BY <1>2 DEF OpenNotAcquired
  <2>2. ops' \in [Ops -> Op] /\ Attempts'
    BY <2>1, WakeTyped, Zenon
  <2> QED
    BY <1>2, <2>2 DEF OpenNotAcquired, Steps, Fault
<1>3. ASSUME NEW m \in Managers, OpenReply(m) PROVE TypeOK' /\ Attempts'
  BY <1>3 DEF OpenReply, NewSession, Attempts, Steps
<1>4. ASSUME NEW m \in Managers, OpenFails(m) PROVE TypeOK' /\ Attempts'
  <2>1. CASE NewSession(m)
    BY <1>4, <2>1 DEF OpenFails, NewSession, Fault, Attempts, Steps
  <2>2. CASE UNCHANGED serverVars
    BY <1>4, <2>2 DEF OpenFails, Fault, Attempts, Steps
  <2> QED
    BY <1>4, <2>1, <2>2 DEF OpenFails
<1>5. ASSUME NEW m \in Managers, OpenDone(m) PROVE TypeOK' /\ Attempts'
  <2>1. Wake(m, TRUE)
    BY <1>5 DEF OpenDone
  <2>2. ops' \in [Ops -> Op] /\ Attempts'
    BY <2>1, WakeTyped, Zenon
  <2> QED
    BY <1>5, <2>2 DEF OpenDone, Steps
<1>6. ASSUME NEW m \in Managers, OpenAborted(m) PROVE TypeOK' /\ Attempts'
  <2>1. Wake(m, FALSE)
    BY <1>6 DEF OpenAborted
  <2>2. ops' \in [Ops -> Op] /\ Attempts'
    BY <2>1, WakeTyped, Zenon
  <2> QED
    BY <1>6, <2>2 DEF OpenAborted, Steps
<1>7. ASSUME SubscribeReply PROVE TypeOK' /\ Attempts'
  BY <1>7 DEF SubscribeReply, Attempts, Steps
<1>8. ASSUME SubscribeFails PROVE TypeOK' /\ Attempts'
  BY <1>8 DEF SubscribeFails, Fault, Attempts, Steps
<1>9. ASSUME NEW o \in Ops, Open(o) PROVE TypeOK' /\ Attempts'
  <2>1. CASE currentSession[Of[o]] # 0
    <3> DEFINE c == [ops[o] EXCEPT !.pc = "resolved"]
    <3>1. c \in Op /\ c.attempt = ops[o].attempt /\ c.pc \notin {"idle", "opening"}
      BY <1>0 DEF Op
    <3>2. ops' = [ops EXCEPT ![o] = c]
      BY <1>9, <2>1 DEF Open
    <3>3. ops' \in [Ops -> Op] /\ Attempts'
      BY <3>1, <3>2, OneCallTyped
    <3> QED
      BY <1>9, <2>1, <3>3 DEF Open
  <2>2. CASE currentSession[Of[o]] = 0
    <3>1. JoinedOp(o) \in Op /\ JoinedOp(o).attempt = ops[o].attempt
          /\ JoinedOp(o).pc # "idle"
      BY <1>0, SMTT(30) DEF JoinedOp, Op
    <3>2. ops' = [ops EXCEPT ![o] = JoinedOp(o)] /\ o \in Opens
      BY <1>9, <2>2 DEF Open
    <3>3. ops' \in [Ops -> Op] /\ Attempts'
      BY <3>1, <3>2, OneCallTyped
    <3>4. JoinedOpening(Of[o]) \in Steps
      BY <1>0 DEF JoinedOpening, Steps
    <3> QED
      BY <1>9, <2>2, <3>3, <3>4 DEF Open
  <2> QED
    BY <2>1, <2>2
<1>10. ASSUME NEW o \in Ops, Start(o) PROVE TypeOK' /\ Attempts'
  <2>1. CASE currentSession[Of[o]] = 0
    <3>1. FailAttempt(o, "connection")
      BY <1>10, <2>1 DEF Start
    <3>2. /\ ops' \in [Ops -> Op] /\ Attempts'
          /\ currentSession' \in [Managers -> 0..lastSession]
          /\ opening' \in [Managers -> Steps]
      BY <3>1, FailAttemptTyped, Zenon
    <3> QED
      BY <1>10, <3>2 DEF Start
  <2>2. CASE currentSession[Of[o]] # 0
    <3> DEFINE c == [ops[o] EXCEPT !.pc = "acquire"]
    <3>1. c \in Op /\ c.attempt = ops[o].attempt /\ c.pc \notin {"idle", "opening"}
      BY <1>0 DEF Op
    <3>2. ops' = [ops EXCEPT ![o] = c]
      BY <1>10, <2>2 DEF Start
    <3>3. ops' \in [Ops -> Op] /\ Attempts'
      BY <3>1, <3>2, OneCallTyped
    <3> QED
      BY <1>10, <2>2, <3>3 DEF Start
  <2> QED
    BY <2>1, <2>2
<1>11. ASSUME NEW o \in Ops, Acquired(o) PROVE TypeOK' /\ Attempts'
  <2> DEFINE s == currentSession[Of[o]]
             c == [ops[o] EXCEPT !.pc = IF s = 0 THEN "failed" ELSE "wire",
                                 !.error = IF s = 0 THEN "request" ELSE "none",
                                 !.session = s]
  <2>1. s \in 0..MaxSessions
    BY <1>0
  <2>2. c \in Op /\ c.attempt = ops[o].attempt /\ c.pc \notin {"idle", "opening"}
    <3>1. ops[o] \in Op
      BY <1>0
    <3>2. c \in Op
      <4>1. CASE s = 0
        <5>1. c = [ops[o] EXCEPT !.pc = "failed", !.error = "request", !.session = s]
          BY <4>1
        <5> HIDE DEF s, c, TypeOK
        <5> QED
          BY <2>1, <3>1, <5>1, AcquiredOp, Zenon
      <4>2. CASE s # 0
        <5>1. c = [ops[o] EXCEPT !.pc = "wire", !.error = "none", !.session = s]
          BY <4>2
        <5> HIDE DEF s, c, TypeOK
        <5> QED
          BY <2>1, <3>1, <5>1, AcquiredOp, Zenon
      <4> QED
        BY <4>1, <4>2
    <3>3. c.attempt = ops[o].attempt /\ c.pc \notin {"idle", "opening"}
      BY <3>1 DEF Op
    <3> QED
      BY <3>2, <3>3
  <2>3. ops' = [ops EXCEPT ![o] = c]
    BY <1>11 DEF Acquired
  <2>4. ops' \in [Ops -> Op] /\ Attempts'
    BY <2>2, <2>3, OneCallTyped
  <2> QED
    BY <1>11, <2>4 DEF Acquired
<1>12. ASSUME NEW o \in Ops, NotAcquired(o) PROVE TypeOK' /\ Attempts'
  <2>1. FailAttempt(o, "connection")
    BY <1>12 DEF NotAcquired
  <2>2. /\ ops' \in [Ops -> Op] /\ Attempts'
        /\ currentSession' \in [Managers -> 0..lastSession]
        /\ opening' \in [Managers -> Steps]
    BY <2>1, FailAttemptTyped, Zenon
  <2> QED
    BY <1>12, <2>2, <1>0 DEF NotAcquired, Fault
<1>13. ASSUME NEW o \in Ops, Serve(o) PROVE TypeOK' /\ Attempts'
  <2> DEFINE c == IF ops[o].session \in live THEN [ops[o] EXCEPT !.pc = "reply"]
                  ELSE [ops[o] EXCEPT !.pc = "failed", !.error = "token"]
  <2>1. c \in Op /\ c.attempt = ops[o].attempt /\ c.pc \notin {"idle", "opening"}
    <3>1. "token" \in Errors
      BY DEF Errors
    <3>2. CASE ops[o].session \in live
      BY <1>0, <3>2 DEF Op
    <3>3. CASE ops[o].session \notin live
      BY <1>0, <3>1, <3>3, FailedOp
    <3> QED
      BY <3>2, <3>3
  <2>2. ops' = [ops EXCEPT ![o] = c]
    BY <1>13 DEF Serve
  <2>3. ops' \in [Ops -> Op] /\ Attempts'
    BY <2>1, <2>2, OneCallTyped
  <2> QED
    BY <1>13, <2>3 DEF Serve
<1>14. ASSUME NEW o \in Ops, Refused(o) PROVE TypeOK' /\ Attempts'
  <2> DEFINE c == [ops[o] EXCEPT !.pc = "failed", !.error = "request"]
  <2>1. c \in Op /\ c.attempt = ops[o].attempt /\ c.pc \notin {"idle", "opening"}
    <3>1. "request" \in Errors
      BY DEF Errors
    <3> QED
      BY <1>0, <3>1, FailedOp
  <2>2. ops' = [ops EXCEPT ![o] = c]
    BY <1>14 DEF Refused
  <2>3. ops' \in [Ops -> Op] /\ Attempts'
    BY <2>1, <2>2, OneCallTyped
  <2> QED
    BY <1>14, <2>3 DEF Refused, Fault
<1>15. ASSUME NEW o \in Ops, Broken(o) PROVE TypeOK' /\ Attempts'
  <2> DEFINE c == [ops[o] EXCEPT !.pc = "failed", !.error = "connection"]
  <2>1. c \in Op /\ c.attempt = ops[o].attempt /\ c.pc \notin {"idle", "opening"}
    <3>1. "connection" \in Errors
      BY DEF Errors
    <3> QED
      BY <1>0, <3>1, FailedOp
  <2>2. ops' = [ops EXCEPT ![o] = c]
    BY <1>15 DEF Broken
  <2>3. ops' \in [Ops -> Op] /\ Attempts'
    BY <2>1, <2>2, OneCallTyped
  <2> QED
    BY <1>15, <2>3 DEF Broken, Fault
<1>16. ASSUME NEW o \in Ops, Reply(o) PROVE TypeOK' /\ Attempts'
  <2> DEFINE c == [ops[o] EXCEPT !.pc = "release"]
  <2>1. c \in Op /\ c.attempt = ops[o].attempt /\ c.pc \notin {"idle", "opening"}
    BY <1>0 DEF Op
  <2>2. ops' = [ops EXCEPT ![o] = c]
    BY <1>16 DEF Reply
  <2>3. ops' \in [Ops -> Op] /\ Attempts'
    BY <2>1, <2>2, OneCallTyped
  <2>4. currentSession' \in [Managers -> 0..lastSession]
    BY <1>16, <1>0 DEF Reply
  <2> QED
    BY <1>16, <2>3, <2>4 DEF Reply
<1>17. ASSUME NEW o \in Ops, Release(o) PROVE TypeOK' /\ Attempts'
  <2> DEFINE c == [ops[o] EXCEPT !.pc = IF ops[o].attempt = 1 THEN "resolved"
                                      ELSE "stranded"]
  <2>1. c \in Op /\ c.attempt = ops[o].attempt /\ c.pc \notin {"idle", "opening"}
    BY <1>0 DEF Op
  <2>2. ops' = [ops EXCEPT ![o] = c]
    BY <1>17 DEF Release
  <2>3. ops' \in [Ops -> Op] /\ Attempts'
    BY <2>1, <2>2, OneCallTyped
  <2> QED
    BY <1>17, <2>3 DEF Release
<1>18. ASSUME NEW o \in Ops, Failed(o) PROVE TypeOK' /\ Attempts'
  <2>1. FailAttempt(o, ops[o].error)
    BY <1>18 DEF Failed
  <2>2. /\ ops' \in [Ops -> Op] /\ Attempts'
        /\ currentSession' \in [Managers -> 0..lastSession]
        /\ opening' \in [Managers -> Steps]
    BY <2>1, FailAttemptTyped, Zenon
  <2> QED
    BY <1>18, <2>2, <1>0 DEF Failed
<1>19. ASSUME NEW s \in 1..MaxSessions, Expire(s) PROVE TypeOK' /\ Attempts'
  BY <1>19 DEF Expire, Fault, Attempts
<1>20. ASSUME UNCHANGED vars PROVE TypeOK' /\ Attempts'
  BY <1>20 DEF vars, Attempts
<1> QED
  BY <1>1, <1>2, <1>3, <1>4, <1>5, <1>6, <1>7, <1>8, <1>9, <1>10, <1>11,
     <1>12, <1>13, <1>14, <1>15, <1>16, <1>17, <1>18, <1>19, <1>20
     DEF Next, OpenStep, Subscribe, OpStep

\* The places of a call, and of an opening, that hold a connection.
OpHolds   == {"wire", "reply", "release", "failed"}
OpenHolds == {"db-open", "subscribe", "release", "failing"}

LEMMA WakeHolds ==
    ASSUME TypeOK, Attempts, NEW m \in Managers, NEW ok \in BOOLEAN, Wake(m, ok),
           NEW p \in Ops
    PROVE  ops'[p].pc \in OpHolds <=> ops[p].pc \in OpHolds
<1>1. CASE ops'[p] = ops[p]
  BY <1>1
<1>2. CASE ops'[p] # ops[p]
  BY <1>2, WakeEffect DEF OpHolds
<1> QED
  BY <1>1, <1>2

LEMMA FailAttemptHolds ==
    ASSUME TypeOK, NEW o \in Ops, NEW e, FailAttempt(o, e)
    PROVE  /\ \A p \in Ops \ {o} : ops'[p] = ops[p]
           /\ ops'[o].pc \notin OpHolds
           /\ \A m \in Managers : opening'[m] \in OpenHolds <=> opening[m] \in OpenHolds
<1>1. ops'[o].pc \notin OpHolds
  BY FailAttemptEffect DEF OpHolds
<1>2. ASSUME NEW m \in Managers
      PROVE  opening'[m] \in OpenHolds <=> opening[m] \in OpenHolds
  BY FailAttemptEffect DEF OpenHolds
<1> QED
  BY <1>1, <1>2, FailAttemptEffect

\* The connections lent, when at most call o and opening n move.
LEMMA ConnectionsHeld ==
    ASSUME ops \in [Ops -> Op], lent \in [Ops \cup Managers -> Int], ConnectionsGoBack,
           NEW o \in Ops, \A m \in Managers : m # o,
           \A p \in Ops \ {o} : ops'[p] = ops[p],
           ops'[o].pc \notin OpHolds,
           \A m \in Managers : opening'[m] \in OpenHolds <=> opening[m] \in OpenHolds,
           \/ ops[o].pc \notin OpHolds /\ lent' = lent
           \/ ops[o].pc \in OpHolds /\ lent' = [lent EXCEPT ![o] = @ - 1]
    PROVE  ConnectionsGoBack'
<1>1. ASSUME NEW p \in Ops
      PROVE  lent'[p] = IF ops'[p].pc \in OpHolds THEN 1 ELSE 0
  <2>1. CASE p = o
    BY <2>1 DEF ConnectionsGoBack, OpHolds
  <2>2. CASE p # o
    <3>1. ops'[p] = ops[p] /\ lent'[p] = lent[p]
      BY <2>2
    <3> QED
      BY <3>1 DEF ConnectionsGoBack, OpHolds
  <2> QED
    BY <2>1, <2>2
<1>2. ASSUME NEW m \in Managers
      PROVE  lent'[m] = IF opening'[m] \in OpenHolds THEN 1 ELSE 0
  <2>1. lent'[m] = lent[m]
    OBVIOUS
  <2> QED
    BY <2>1 DEF ConnectionsGoBack, OpenHolds
<1> QED
  BY <1>1, <1>2 DEF ConnectionsGoBack, OpHolds, OpenHolds

\* What joining an opening leaves of a call.
LEMMA JoinedOpEffect ==
    ASSUME TypeOK, NEW o \in Ops
    PROVE  /\ JoinedOp(o).pc \in {"opening", "rejected"}
           /\ JoinedOp(o).attempt = ops[o].attempt
           /\ JoinedOp(o).session = ops[o].session
           /\ JoinedOp(o).failed = ops[o].failed
<1>1. ops[o] \in Op
  BY DEF TypeOK
<1> QED
  BY <1>1 DEF JoinedOp, Op

\* The calls that wait for an opening are not executed by its end.
LEMMA WakeExecutions ==
    ASSUME TypeOK, Attempts, Executions, NEW m \in Managers, NEW ok \in BOOLEAN,
           Wake(m, ok), UNCHANGED <<executed, broken>>
    PROVE  Executions'
<1> SUFFICES ASSUME NEW p \in Ops
             PROVE  /\ executed[p] <= (IF ops'[p].attempt = 2 /\ p \in broken THEN 1 ELSE 0)
                       + (IF ops'[p].pc \in {"idle", "acquire", "wire"} THEN 0 ELSE 1)
                    /\ ops'[p].attempt = 1 /\ ops'[p].pc \in {"failed", "opening"}
                          /\ p \notin broken => executed[p] = 0
  BY DEF Executions
<1>1. CASE ops'[p] = ops[p]
  BY <1>1 DEF Executions
<1>2. CASE ops'[p] # ops[p]
  <2>1. /\ ops[p].pc = "opening"
        /\ ops'[p].pc \in {"acquire", "resolved", "rejected"}
        /\ ops'[p].pc = "acquire" => p \notin Opens
        /\ p \in Sends => ops'[p].attempt = 2
        /\ p \notin Sends => ops'[p].attempt = ops[p].attempt
    BY <1>2, WakeEffect
  <2>2. executed[p] \in Nat /\ ops[p].attempt \in {1, 2}
    BY DEF TypeOK, Op
  <2>3. /\ p \notin Closes
        /\ p \in Sends => ops[p].attempt = 1
        /\ ops[p].attempt = 2 => p \in Sends
    BY <2>1 DEF Attempts
  <2>4. p \in Sends \/ p \in Opens
    BY <2>3 DEF Ops
  <2>5. /\ executed[p] <= (IF ops[p].attempt = 2 /\ p \in broken THEN 1 ELSE 0) + 1
        /\ ops[p].attempt = 1 /\ p \notin broken => executed[p] = 0
    BY <2>1 DEF Executions
  <2> QED
    BY <2>1, <2>2, <2>3, <2>4, <2>5
<1> QED
  BY <1>1, <1>2

\* A call whose attempt fails was not executed in it, or its connection broke.
LEMMA FailAttemptExecutions ==
    ASSUME TypeOK, Attempts, Executions, NEW o \in Ops, NEW e, FailAttempt(o, e),
           ops[o].pc \in {"idle", "acquire", "failed"}, UNCHANGED <<executed, broken>>
    PROVE  Executions'
<1> SUFFICES ASSUME NEW p \in Ops
             PROVE  /\ executed[p] <= (IF ops'[p].attempt = 2 /\ p \in broken THEN 1 ELSE 0)
                       + (IF ops'[p].pc \in {"idle", "acquire", "wire"} THEN 0 ELSE 1)
                    /\ ops'[p].attempt = 1 /\ ops'[p].pc \in {"failed", "opening"}
                          /\ p \notin broken => executed[p] = 0
  BY DEF Executions
<1>1. CASE p # o
  <2>1. ops'[p] = ops[p]
    BY <1>1, FailAttemptEffect
  <2> QED
    BY <2>1 DEF Executions
<1>2. CASE p = o
  <2>1. ops'[p].pc \in {"opening", "rejected"} /\ ops'[p].attempt = ops[p].attempt
    BY <1>2, FailAttemptEffect
  <2>2. executed[p] \in Nat /\ ops[p].attempt \in {1, 2}
    BY DEF TypeOK, Op
  <2>3. /\ executed[p] <= (IF ops[p].attempt = 2 /\ p \in broken THEN 1 ELSE 0)
                       + (IF ops[p].pc = "failed" THEN 1 ELSE 0)
        /\ ops[p].attempt = 1 /\ ops[p].pc = "failed" /\ p \notin broken
              => executed[p] = 0
    BY <1>2 DEF Executions
  <2> QED
    BY <1>2, <2>1, <2>2, <2>3
<1> QED
  BY <1>1, <1>2

\* The second attempt of a call begins with the sessions it waited for.
LEMMA WakeSessions ==
    ASSUME TypeOK, Attempts, SessionsNewer, NewSessionOnRetry, NEW m \in Managers,
           NEW ok \in BOOLEAN, Wake(m, ok), UNCHANGED <<currentSession, lastSession>>
    PROVE  SessionsNewer' /\ NewSessionOnRetry'
<1> SUFFICES ASSUME NEW p \in Ops
             PROVE  /\ ops'[p].session <= lastSession /\ ops'[p].failed <= lastSession
                    /\ RetryAhead(p)' => \/ currentSession[Of[p]] = 0
                                         \/ currentSession[Of[p]] > ops'[p].failed
                    /\ ops'[p].attempt = 2 /\ ops'[p].pc \in {"wire", "reply", "release"}
                         => ops'[p].session > ops'[p].failed
  BY DEF SessionsNewer, NewSessionOnRetry, RetryAhead
<1>1. CASE ops'[p] = ops[p]
  BY <1>1 DEF SessionsNewer, NewSessionOnRetry, RetryAhead
<1>2. CASE ops'[p] # ops[p]
  <2>1. /\ ops[p].pc = "opening"
        /\ ops'[p].session = ops[p].session
        /\ ops'[p].failed = ops[p].failed
        /\ ops'[p].pc \in {"acquire", "resolved", "rejected"}
        /\ ops'[p].pc = "acquire" => p \notin Opens
    BY <1>2, WakeEffect
  <2>2. p \notin Closes
    BY <2>1 DEF Attempts
  <2>3. p \in Sends \/ p \in Opens
    BY <2>2 DEF Ops
  <2>4. /\ ops[p].session <= lastSession /\ ops[p].failed <= lastSession
        /\ p \in Sends => \/ currentSession[Of[p]] = 0
                          \/ currentSession[Of[p]] > ops[p].failed
    BY <2>1 DEF SessionsNewer, RetryAhead
  <2> QED
    BY <2>1, <2>3, <2>4 DEF RetryAhead
<1> QED
  BY <1>1, <1>2

\* A call that is to be retried leaves the manager without a session.
LEMMA FailAttemptSessions ==
    ASSUME TypeOK, SessionsNewer, NewSessionOnRetry, NEW o \in Ops, NEW e,
           FailAttempt(o, e), UNCHANGED lastSession
    PROVE  SessionsNewer' /\ NewSessionOnRetry'
<1> SUFFICES ASSUME NEW p \in Ops
             PROVE  /\ ops'[p].session <= lastSession /\ ops'[p].failed <= lastSession
                    /\ RetryAhead(p)' => \/ currentSession'[Of[p]] = 0
                                         \/ currentSession'[Of[p]] > ops'[p].failed
                    /\ ops'[p].attempt = 2 /\ ops'[p].pc \in {"wire", "reply", "release"}
                         => ops'[p].session > ops'[p].failed
  BY DEF SessionsNewer, NewSessionOnRetry, RetryAhead
<1>1. CASE p # o
  <2>1. ops'[p] = ops[p]
    BY <1>1, FailAttemptEffect
  <2>2. currentSession'[Of[p]] \in {0, currentSession[Of[p]]}
    <3>1. Of[p] \in Managers
      BY SessionAssumption
    <3> QED
      BY <3>1, FailAttemptEffect
  <2> QED
    BY <2>1, <2>2 DEF SessionsNewer, NewSessionOnRetry, RetryAhead
<1>2. CASE p = o
  <2>1. /\ ops'[p].pc \in {"opening", "rejected"}
        /\ ops'[p].session = ops[p].session
        /\ ops'[p].failed \in {ops[p].failed, ops[p].session}
        /\ ops'[p].pc = "opening" => currentSession'[Of[p]] = 0
    BY <1>2, FailAttemptEffect
  <2>2. ops[p].session <= lastSession /\ ops[p].failed <= lastSession
    BY DEF SessionsNewer
  <2> QED
    BY <2>1, <2>2 DEF RetryAhead
<1> QED
  BY <1>1, <1>2

\* Every step keeps the bookkeeping of connections.
LEMMA StepConnections ==
    TypeOK /\ Attempts /\ ConnectionsGoBack /\ [Next]_vars => ConnectionsGoBack'
<1> SUFFICES ASSUME TypeOK, Attempts, ConnectionsGoBack, [Next]_vars
             PROVE  ConnectionsGoBack'
  OBVIOUS
<1>0. /\ ops \in [Ops -> Op] /\ lent \in [Ops \cup Managers -> Int]
      /\ opening \in [Managers -> Steps] /\ Of \in [Ops -> Managers]
      /\ \A o \in Ops, m \in Managers : o # m
  BY SessionAssumption DEF TypeOK
<1>1. ASSUME NEW m \in Managers, OpenAcquired(m) PROVE ConnectionsGoBack'
  BY <1>1, <1>0 DEF OpenAcquired, ConnectionsGoBack, serverVars
<1>2. ASSUME NEW m \in Managers, OpenNotAcquired(m) PROVE ConnectionsGoBack'
  <2>1. Wake(m, FALSE)
    BY <1>2 DEF OpenNotAcquired
  <2> QED
    BY <1>2, <1>0, <2>1, WakeHolds
       DEF OpenNotAcquired, ConnectionsGoBack, OpHolds, serverVars
<1>3. ASSUME NEW m \in Managers, OpenReply(m) PROVE ConnectionsGoBack'
  BY <1>3, <1>0 DEF OpenReply, NewSession, ConnectionsGoBack, serverVars
<1>4. ASSUME NEW m \in Managers, OpenFails(m) PROVE ConnectionsGoBack'
  BY <1>4, <1>0 DEF OpenFails, NewSession, ConnectionsGoBack, serverVars
<1>5. ASSUME NEW m \in Managers, OpenDone(m) PROVE ConnectionsGoBack'
  <2>1. Wake(m, TRUE)
    BY <1>5 DEF OpenDone
  <2>2. \A p \in Ops : ops'[p].pc \in OpHolds <=> ops[p].pc \in OpHolds
    BY <2>1, WakeHolds
  <2>3. /\ opening[m] \in OpenHolds /\ opening' = [opening EXCEPT ![m] = "no"]
        /\ lent' = [lent EXCEPT ![m] = lent[m] - 1]
    BY <1>5 DEF OpenDone, OpenHolds
  <2>4. ASSUME NEW p \in Ops
        PROVE  lent'[p] = IF ops'[p].pc \in OpHolds THEN 1 ELSE 0
    BY <1>0, <2>2, <2>3 DEF ConnectionsGoBack, OpHolds
  <2>5. ASSUME NEW n \in Managers
        PROVE  lent'[n] = IF opening'[n] \in OpenHolds THEN 1 ELSE 0
    BY <1>0, <2>3 DEF ConnectionsGoBack, OpenHolds
  <2> QED
    BY <2>4, <2>5 DEF ConnectionsGoBack, OpHolds, OpenHolds
<1>6. ASSUME NEW m \in Managers, OpenAborted(m) PROVE ConnectionsGoBack'
  <2>1. Wake(m, FALSE)
    BY <1>6 DEF OpenAborted
  <2>2. \A p \in Ops : ops'[p].pc \in OpHolds <=> ops[p].pc \in OpHolds
    BY <2>1, WakeHolds
  <2>3. /\ opening[m] \in OpenHolds /\ opening' = [opening EXCEPT ![m] = "rejected"]
        /\ lent' = [lent EXCEPT ![m] = lent[m] - 1]
    BY <1>6 DEF OpenAborted, OpenHolds
  <2>4. ASSUME NEW p \in Ops
        PROVE  lent'[p] = IF ops'[p].pc \in OpHolds THEN 1 ELSE 0
    BY <1>0, <2>2, <2>3 DEF ConnectionsGoBack, OpHolds
  <2>5. ASSUME NEW n \in Managers
        PROVE  lent'[n] = IF opening'[n] \in OpenHolds THEN 1 ELSE 0
    BY <1>0, <2>3 DEF ConnectionsGoBack, OpenHolds
  <2> QED
    BY <2>4, <2>5 DEF ConnectionsGoBack, OpHolds, OpenHolds
<1>7. ASSUME SubscribeReply PROVE ConnectionsGoBack'
  BY <1>7, <1>0 DEF SubscribeReply, ConnectionsGoBack, serverVars
<1>8. ASSUME SubscribeFails PROVE ConnectionsGoBack'
  BY <1>8, <1>0 DEF SubscribeFails, ConnectionsGoBack, serverVars
<1>9. ASSUME NEW o \in Ops, Open(o) PROVE ConnectionsGoBack'
  <2>1. CASE currentSession[Of[o]] # 0
    <3>1. /\ ops[o].pc = "idle" /\ ops' = [ops EXCEPT ![o].pc = "resolved"]
          /\ opening' = opening
      BY <1>9, <2>1 DEF Open
    <3> QED
      BY <1>9, <1>0, <3>1 DEF Open, ConnectionsGoBack, serverVars
  <2>2. CASE currentSession[Of[o]] = 0
    BY <1>9, <1>0, <2>2, JoinedOpEffect
       DEF Open, ConnectionsGoBack, JoinedOpening, serverVars
  <2> QED
    BY <2>1, <2>2
<1>10. ASSUME NEW o \in Ops, Start(o) PROVE ConnectionsGoBack'
  <2>1. CASE currentSession[Of[o]] = 0
    <3>0. FailAttempt(o, "connection")
      BY <1>10, <2>1 DEF Start
    <3>1. PICK e : FailAttempt(o, e)
      BY <3>0, Zenon
    <3>2. /\ \A p \in Ops \ {o} : ops'[p] = ops[p]
          /\ ops'[o].pc \notin OpHolds
          /\ \A m \in Managers : opening'[m] \in OpenHolds <=> opening[m] \in OpenHolds
      BY <3>1, FailAttemptHolds
    <3>3. lent' = lent /\ ops[o].pc \notin OpHolds
      BY <1>10, <2>1 DEF Start, OpHolds
    <3>4. \A m \in Managers : m # o
      BY <1>0
    <3> QED
      BY <3>2, <3>3, <3>4, <1>0, ConnectionsHeld, Zenon
  <2>2. CASE currentSession[Of[o]] # 0
    <3>1. /\ ops[o].pc = "idle" /\ ops' = [ops EXCEPT ![o].pc = "acquire"]
          /\ UNCHANGED <<currentSession, opening>>
      BY <1>10, <2>2 DEF Start
    <3> QED
      BY <1>10, <1>0, <3>1 DEF Start, ConnectionsGoBack, serverVars
  <2> QED
    BY <2>1, <2>2
<1>11. ASSUME NEW o \in Ops, Acquired(o) PROVE ConnectionsGoBack'
  BY <1>11, <1>0 DEF Acquired, ConnectionsGoBack, serverVars
<1>12. ASSUME NEW o \in Ops, NotAcquired(o) PROVE ConnectionsGoBack'
  <2>0. FailAttempt(o, "connection")
    BY <1>12 DEF NotAcquired
  <2>1. PICK e : FailAttempt(o, e)
    BY <2>0, Zenon
  <2>2. /\ \A p \in Ops \ {o} : ops'[p] = ops[p]
        /\ ops'[o].pc \notin OpHolds
        /\ \A m \in Managers : opening'[m] \in OpenHolds <=> opening[m] \in OpenHolds
    BY <2>1, FailAttemptHolds
  <2>3. lent' = lent /\ ops[o].pc \notin OpHolds
    BY <1>12 DEF NotAcquired, OpHolds
  <2>4. \A m \in Managers : m # o
    BY <1>0
  <2> QED
    BY <2>2, <2>3, <2>4, <1>0, ConnectionsHeld, Zenon
<1>13. ASSUME NEW o \in Ops, Serve(o) PROVE ConnectionsGoBack'
  <2>1. CASE ops[o].session \in live
    <3>1. /\ ops[o].pc = "wire" /\ ops' = [ops EXCEPT ![o].pc = "reply"]
          /\ executed' = [executed EXCEPT ![o] = @ + 1]
          /\ UNCHANGED <<currentSession, opening, subscribed, subscribing, lent, broken,
                         lastSession, subscriptions>>
      BY <1>13, <2>1 DEF Serve
    <3> QED
      BY <1>0, <3>1 DEF ConnectionsGoBack, serverVars
  <2>2. CASE ops[o].session \notin live
    <3>1. /\ ops[o].pc = "wire"
          /\ ops' = [ops EXCEPT ![o].pc = "failed", ![o].error = "token"]
          /\ UNCHANGED <<currentSession, opening, subscribed, subscribing, lent, broken,
                         executed, lastSession, subscriptions>>
      BY <1>13, <2>2 DEF Serve
    <3> QED
      BY <1>0, <3>1 DEF ConnectionsGoBack, serverVars
  <2> QED
    BY <2>1, <2>2
<1>14. ASSUME NEW o \in Ops, Refused(o) PROVE ConnectionsGoBack'
  BY <1>14, <1>0 DEF Refused, ConnectionsGoBack, serverVars
<1>15. ASSUME NEW o \in Ops, Broken(o) PROVE ConnectionsGoBack'
  BY <1>15, <1>0 DEF Broken, ConnectionsGoBack, serverVars
<1>16. ASSUME NEW o \in Ops, Reply(o) PROVE ConnectionsGoBack'
  BY <1>16, <1>0 DEF Reply, ConnectionsGoBack, serverVars
<1>17. ASSUME NEW o \in Ops, Release(o) PROVE ConnectionsGoBack'
  BY <1>17, <1>0 DEF Release, ConnectionsGoBack, serverVars
<1>18. ASSUME NEW o \in Ops, Failed(o) PROVE ConnectionsGoBack'
  <2>0. FailAttempt(o, ops[o].error)
    BY <1>18 DEF Failed
  <2>1. PICK e : FailAttempt(o, e)
    BY <2>0, Zenon
  <2>2. /\ \A p \in Ops \ {o} : ops'[p] = ops[p]
        /\ ops'[o].pc \notin OpHolds
        /\ \A m \in Managers : opening'[m] \in OpenHolds <=> opening[m] \in OpenHolds
    BY <2>1, FailAttemptHolds
  <2>3. lent' = [lent EXCEPT ![o] = @ - 1] /\ ops[o].pc \in OpHolds
    BY <1>18 DEF Failed, OpHolds
  <2>4. \A m \in Managers : m # o
    BY <1>0
  <2> QED
    BY <2>2, <2>3, <2>4, <1>0, ConnectionsHeld, Zenon
<1>19. ASSUME NEW s \in 1..MaxSessions, Expire(s) PROVE ConnectionsGoBack'
  BY <1>19, <1>0 DEF Expire, ConnectionsGoBack, serverVars
<1>20. ASSUME UNCHANGED vars PROVE ConnectionsGoBack'
  BY <1>20 DEF vars, ConnectionsGoBack, serverVars
<1> QED
  BY <1>1, <1>2, <1>3, <1>4, <1>5, <1>6, <1>7, <1>8, <1>9, <1>10, <1>11,
     <1>12, <1>13, <1>14, <1>15, <1>16, <1>17, <1>18, <1>19, <1>20
     DEF Next, OpenStep, Subscribe, OpStep

\* Every step keeps the bounds on executions.
LEMMA StepExecutions ==
    TypeOK /\ Attempts /\ Executions /\ [Next]_vars => Executions'
<1> SUFFICES ASSUME TypeOK, Attempts, Executions, [Next]_vars
             PROVE  Executions'
  OBVIOUS
<1>0. /\ ops \in [Ops -> Op] /\ executed \in [Ops -> Nat] /\ broken \subseteq Ops
      /\ \A o \in Ops : ops[o].attempt \in {1, 2}
      /\ Sends \cap Opens = {} /\ Sends \cap Closes = {} /\ Opens \cap Closes = {}
  BY SessionAssumption DEF TypeOK, Op
<1>1. ASSUME NEW m \in Managers, OpenAcquired(m) PROVE Executions'
  BY <1>1, <1>0 DEF OpenAcquired, Executions, Attempts, serverVars, Ops
<1>2. ASSUME NEW m \in Managers, OpenNotAcquired(m) PROVE Executions'
  <2>1. Wake(m, FALSE)
    BY <1>2 DEF OpenNotAcquired
  <2> QED
    BY <1>2, <1>0, <2>1, WakeExecutions DEF OpenNotAcquired, serverVars
<1>3. ASSUME NEW m \in Managers, OpenReply(m) PROVE Executions'
  BY <1>3, <1>0 DEF OpenReply, NewSession, Executions, Attempts, serverVars, Ops
<1>4. ASSUME NEW m \in Managers, OpenFails(m) PROVE Executions'
  BY <1>4, <1>0 DEF OpenFails, NewSession, Executions, Attempts, serverVars, Ops
<1>5. ASSUME NEW m \in Managers, OpenDone(m) PROVE Executions'
  <2>1. Wake(m, TRUE)
    BY <1>5 DEF OpenDone
  <2> QED
    BY <1>5, <1>0, <2>1, WakeExecutions DEF OpenDone, serverVars
<1>6. ASSUME NEW m \in Managers, OpenAborted(m) PROVE Executions'
  <2>1. Wake(m, FALSE)
    BY <1>6 DEF OpenAborted
  <2> QED
    BY <1>6, <1>0, <2>1, WakeExecutions DEF OpenAborted, serverVars
<1>7. ASSUME SubscribeReply PROVE Executions'
  BY <1>7, <1>0 DEF SubscribeReply, Executions, Attempts, serverVars, Ops
<1>8. ASSUME SubscribeFails PROVE Executions'
  BY <1>8, <1>0 DEF SubscribeFails, Executions, Attempts, serverVars, Ops
<1>9. ASSUME NEW o \in Ops, Open(o) PROVE Executions'
  BY <1>9, <1>0 DEF Open, JoinedOp, JoinedOpening, Executions, Attempts, serverVars, Ops
<1>10. ASSUME NEW o \in Ops, Start(o) PROVE Executions'
  <2>1. CASE currentSession[Of[o]] = 0
    <3>0. FailAttempt(o, "connection")
      BY <1>10, <2>1 DEF Start
    <3>1. PICK e : FailAttempt(o, e)
      BY <3>0, Zenon
    <3>2. UNCHANGED <<executed, broken>>
      BY <1>10, <2>1 DEF Start, serverVars
    <3>3. ops[o].pc \in {"idle", "acquire", "failed"}
      BY <1>10, <2>1 DEF Start
    <3> QED
      BY <3>1, <3>2, <3>3, FailAttemptExecutions
  <2>2. CASE currentSession[Of[o]] # 0
    <3>1. /\ ops[o].pc = "idle" /\ ops' = [ops EXCEPT ![o].pc = "acquire"]
          /\ UNCHANGED <<currentSession, opening>>
      BY <1>10, <2>2 DEF Start
    <3> QED
      BY <1>10, <1>0, <3>1 DEF Start, Executions, Attempts, serverVars, Ops
  <2> QED
    BY <2>1, <2>2
<1>11. ASSUME NEW o \in Ops, Acquired(o) PROVE Executions'
  BY <1>11, <1>0 DEF Acquired, Executions, Attempts, serverVars, Ops
<1>12. ASSUME NEW o \in Ops, NotAcquired(o) PROVE Executions'
  <2>0. FailAttempt(o, "connection")
    BY <1>12 DEF NotAcquired
  <2>1. PICK e : FailAttempt(o, e)
    BY <2>0, Zenon
  <2>2. UNCHANGED <<executed, broken>>
    BY <1>12 DEF NotAcquired, serverVars
  <2>3. ops[o].pc \in {"idle", "acquire", "failed"}
    BY <1>12 DEF NotAcquired
  <2> QED
    BY <2>1, <2>2, <2>3, FailAttemptExecutions
<1>13. ASSUME NEW o \in Ops, Serve(o) PROVE Executions'
  <2>1. CASE ops[o].session \in live
    <3>1. /\ ops[o].pc = "wire" /\ ops' = [ops EXCEPT ![o].pc = "reply"]
          /\ executed' = [executed EXCEPT ![o] = @ + 1]
          /\ UNCHANGED <<currentSession, opening, subscribed, subscribing, lent, broken,
                         lastSession, subscriptions>>
      BY <1>13, <2>1 DEF Serve
    <3> QED
      BY <1>0, <3>1 DEF Executions, Attempts, serverVars, Ops
  <2>2. CASE ops[o].session \notin live
    <3>1. /\ ops[o].pc = "wire"
          /\ ops' = [ops EXCEPT ![o].pc = "failed", ![o].error = "token"]
          /\ UNCHANGED <<currentSession, opening, subscribed, subscribing, lent, broken,
                         executed, lastSession, subscriptions>>
      BY <1>13, <2>2 DEF Serve
    <3> QED
      BY <1>0, <3>1 DEF Executions, Attempts, serverVars, Ops
  <2> QED
    BY <2>1, <2>2
<1>14. ASSUME NEW o \in Ops, Refused(o) PROVE Executions'
  BY <1>14, <1>0 DEF Refused, Executions, Attempts, serverVars, Ops
<1>15. ASSUME NEW o \in Ops, Broken(o) PROVE Executions'
  BY <1>15, <1>0 DEF Broken, Executions, Attempts, serverVars, Ops
<1>16. ASSUME NEW o \in Ops, Reply(o) PROVE Executions'
  BY <1>16, <1>0 DEF Reply, Executions, Attempts, serverVars, Ops
<1>17. ASSUME NEW o \in Ops, Release(o) PROVE Executions'
  BY <1>17, <1>0 DEF Release, Executions, Attempts, serverVars, Ops
<1>18. ASSUME NEW o \in Ops, Failed(o) PROVE Executions'
  <2>0. FailAttempt(o, ops[o].error)
    BY <1>18 DEF Failed
  <2>1. PICK e : FailAttempt(o, e)
    BY <2>0, Zenon
  <2>2. UNCHANGED <<executed, broken>>
    BY <1>18 DEF Failed, serverVars
  <2>3. ops[o].pc \in {"idle", "acquire", "failed"}
    BY <1>18 DEF Failed
  <2> QED
    BY <2>1, <2>2, <2>3, FailAttemptExecutions
<1>19. ASSUME NEW s \in 1..MaxSessions, Expire(s) PROVE Executions'
  BY <1>19, <1>0 DEF Expire, Executions, Attempts, serverVars, Ops
<1>20. ASSUME UNCHANGED vars PROVE Executions'
  BY <1>20 DEF vars, Executions, Attempts, serverVars, Ops
<1> QED
  BY <1>1, <1>2, <1>3, <1>4, <1>5, <1>6, <1>7, <1>8, <1>9, <1>10, <1>11,
     <1>12, <1>13, <1>14, <1>15, <1>16, <1>17, <1>18, <1>19, <1>20
     DEF Next, OpenStep, Subscribe, OpStep

\* Every step keeps the sessions of retries newer than those they lost.
LEMMA StepSessions ==
    TypeOK /\ Attempts /\ SessionsNewer /\ NewSessionOnRetry /\ [Next]_vars
        => SessionsNewer' /\ NewSessionOnRetry'
<1> SUFFICES ASSUME TypeOK, Attempts, SessionsNewer, NewSessionOnRetry, [Next]_vars
             PROVE  SessionsNewer' /\ NewSessionOnRetry'
  OBVIOUS
<1>0. /\ ops \in [Ops -> Op] /\ currentSession \in [Managers -> 0..lastSession]
      /\ lastSession \in Nat /\ Of \in [Ops -> Managers]
      /\ \A o \in Ops : /\ ops[o].attempt \in {1, 2}
                       /\ ops[o].session \in Nat /\ ops[o].failed \in Nat
  BY SessionAssumption DEF TypeOK, Op
<1>1. ASSUME NEW m \in Managers, OpenAcquired(m) PROVE SessionsNewer' /\ NewSessionOnRetry'
  BY <1>1, <1>0
     DEF OpenAcquired, SessionsNewer, NewSessionOnRetry, RetryAhead, Attempts, serverVars
<1>2. ASSUME NEW m \in Managers, OpenNotAcquired(m) PROVE SessionsNewer' /\ NewSessionOnRetry'
  <2>1. Wake(m, FALSE)
    BY <1>2 DEF OpenNotAcquired
  <2> QED
    BY <1>2, <1>0, <2>1, WakeSessions DEF OpenNotAcquired, serverVars
<1>3. ASSUME NEW m \in Managers, OpenReply(m) PROVE SessionsNewer' /\ NewSessionOnRetry'
  BY <1>3, <1>0
     DEF OpenReply, NewSession, SessionsNewer, NewSessionOnRetry, RetryAhead, Attempts, serverVars
<1>4. ASSUME NEW m \in Managers, OpenFails(m) PROVE SessionsNewer' /\ NewSessionOnRetry'
  BY <1>4, <1>0
     DEF OpenFails, NewSession, SessionsNewer, NewSessionOnRetry, RetryAhead, Attempts, serverVars
<1>5. ASSUME NEW m \in Managers, OpenDone(m) PROVE SessionsNewer' /\ NewSessionOnRetry'
  <2>1. Wake(m, TRUE)
    BY <1>5 DEF OpenDone
  <2> QED
    BY <1>5, <1>0, <2>1, WakeSessions DEF OpenDone, serverVars
<1>6. ASSUME NEW m \in Managers, OpenAborted(m) PROVE SessionsNewer' /\ NewSessionOnRetry'
  <2>1. Wake(m, FALSE)
    BY <1>6 DEF OpenAborted
  <2> QED
    BY <1>6, <1>0, <2>1, WakeSessions DEF OpenAborted, serverVars
<1>7. ASSUME SubscribeReply PROVE SessionsNewer' /\ NewSessionOnRetry'
  BY <1>7, <1>0
     DEF SubscribeReply, SessionsNewer, NewSessionOnRetry, RetryAhead, Attempts, serverVars
<1>8. ASSUME SubscribeFails PROVE SessionsNewer' /\ NewSessionOnRetry'
  BY <1>8, <1>0
     DEF SubscribeFails, SessionsNewer, NewSessionOnRetry, RetryAhead, Attempts, serverVars
<1>9. ASSUME NEW o \in Ops, Open(o) PROVE SessionsNewer' /\ NewSessionOnRetry'
  <2>1. CASE currentSession[Of[o]] # 0
    <3>1. /\ ops[o].pc = "idle" /\ ops' = [ops EXCEPT ![o].pc = "resolved"]
          /\ opening' = opening
      BY <1>9, <2>1 DEF Open
    <3> QED
      BY <1>9, <1>0, <3>1
         DEF Open, SessionsNewer, NewSessionOnRetry, RetryAhead, Attempts, serverVars
  <2>2. CASE currentSession[Of[o]] = 0
    BY <1>9, <1>0, <2>2, JoinedOpEffect
       DEF Open, SessionsNewer, NewSessionOnRetry, RetryAhead, Attempts, serverVars
  <2> QED
    BY <2>1, <2>2
<1>10. ASSUME NEW o \in Ops, Start(o) PROVE SessionsNewer' /\ NewSessionOnRetry'
  <2>1. CASE currentSession[Of[o]] = 0
    <3>0. FailAttempt(o, "connection")
      BY <1>10, <2>1 DEF Start
    <3>1. PICK e : FailAttempt(o, e)
      BY <3>0, Zenon
    <3>2. UNCHANGED lastSession
      BY <1>10, <2>1 DEF Start, serverVars
    <3> QED
      BY <3>1, <3>2, FailAttemptSessions
  <2>2. CASE currentSession[Of[o]] # 0
    <3>1. /\ ops[o].pc = "idle" /\ ops' = [ops EXCEPT ![o].pc = "acquire"]
          /\ UNCHANGED <<currentSession, opening>>
      BY <1>10, <2>2 DEF Start
    <3> QED
      BY <1>10, <1>0, <3>1
         DEF Start, SessionsNewer, NewSessionOnRetry, RetryAhead, Attempts, serverVars
  <2> QED
    BY <2>1, <2>2
<1>11. ASSUME NEW o \in Ops, Acquired(o) PROVE SessionsNewer' /\ NewSessionOnRetry'
  BY <1>11, <1>0
     DEF Acquired, SessionsNewer, NewSessionOnRetry, RetryAhead, Attempts, serverVars
<1>12. ASSUME NEW o \in Ops, NotAcquired(o) PROVE SessionsNewer' /\ NewSessionOnRetry'
  <2>0. FailAttempt(o, "connection")
    BY <1>12 DEF NotAcquired
  <2>1. PICK e : FailAttempt(o, e)
    BY <2>0, Zenon
  <2>2. UNCHANGED lastSession
    BY <1>12 DEF NotAcquired, serverVars
  <2> QED
    BY <2>1, <2>2, FailAttemptSessions
<1>13. ASSUME NEW o \in Ops, Serve(o) PROVE SessionsNewer' /\ NewSessionOnRetry'
  <2>1. CASE ops[o].session \in live
    <3>1. /\ ops[o].pc = "wire" /\ ops' = [ops EXCEPT ![o].pc = "reply"]
          /\ executed' = [executed EXCEPT ![o] = @ + 1]
          /\ UNCHANGED <<currentSession, opening, subscribed, subscribing, lent, broken,
                         lastSession, subscriptions>>
      BY <1>13, <2>1 DEF Serve
    <3> QED
      BY <1>0, <3>1
         DEF SessionsNewer, NewSessionOnRetry, RetryAhead, Attempts, serverVars
  <2>2. CASE ops[o].session \notin live
    <3>1. /\ ops[o].pc = "wire"
          /\ ops' = [ops EXCEPT ![o].pc = "failed", ![o].error = "token"]
          /\ UNCHANGED <<currentSession, opening, subscribed, subscribing, lent, broken,
                         executed, lastSession, subscriptions>>
      BY <1>13, <2>2 DEF Serve
    <3> QED
      BY <1>0, <3>1
         DEF SessionsNewer, NewSessionOnRetry, RetryAhead, Attempts, serverVars
  <2> QED
    BY <2>1, <2>2
<1>14. ASSUME NEW o \in Ops, Refused(o) PROVE SessionsNewer' /\ NewSessionOnRetry'
  BY <1>14, <1>0
     DEF Refused, SessionsNewer, NewSessionOnRetry, RetryAhead, Attempts, serverVars
<1>15. ASSUME NEW o \in Ops, Broken(o) PROVE SessionsNewer' /\ NewSessionOnRetry'
  BY <1>15, <1>0
     DEF Broken, SessionsNewer, NewSessionOnRetry, RetryAhead, Attempts, serverVars
<1>16. ASSUME NEW o \in Ops, Reply(o) PROVE SessionsNewer' /\ NewSessionOnRetry'
  BY <1>16, <1>0
     DEF Reply, SessionsNewer, NewSessionOnRetry, RetryAhead, Attempts, serverVars
<1>17. ASSUME NEW o \in Ops, Release(o) PROVE SessionsNewer' /\ NewSessionOnRetry'
  BY <1>17, <1>0
     DEF Release, SessionsNewer, NewSessionOnRetry, RetryAhead, Attempts, serverVars
<1>18. ASSUME NEW o \in Ops, Failed(o) PROVE SessionsNewer' /\ NewSessionOnRetry'
  <2>0. FailAttempt(o, ops[o].error)
    BY <1>18 DEF Failed
  <2>1. PICK e : FailAttempt(o, e)
    BY <2>0, Zenon
  <2>2. UNCHANGED lastSession
    BY <1>18 DEF Failed, serverVars
  <2> QED
    BY <2>1, <2>2, FailAttemptSessions
<1>19. ASSUME NEW s \in 1..MaxSessions, Expire(s) PROVE SessionsNewer' /\ NewSessionOnRetry'
  BY <1>19, <1>0
     DEF Expire, SessionsNewer, NewSessionOnRetry, RetryAhead, Attempts, serverVars
<1>20. ASSUME UNCHANGED vars PROVE SessionsNewer' /\ NewSessionOnRetry'
  BY <1>20 DEF vars, SessionsNewer, NewSessionOnRetry, RetryAhead, Attempts, serverVars
<1> QED
  BY <1>1, <1>2, <1>3, <1>4, <1>5, <1>6, <1>7, <1>8, <1>9, <1>10, <1>11,
     <1>12, <1>13, <1>14, <1>15, <1>16, <1>17, <1>18, <1>19, <1>20
     DEF Next, OpenStep, Subscribe, OpStep

\* Every step keeps the count of subscriptions.
LEMMA StepSubscriptions ==
    TypeOK /\ Attempts /\ Subscriptions /\ [Next]_vars => Subscriptions'
<1> SUFFICES ASSUME TypeOK, Attempts, Subscriptions, [Next]_vars
             PROVE  Subscriptions'
  OBVIOUS
<1>0. /\ opening \in [Managers -> Steps] /\ subscribed \in BOOLEAN
      /\ Of \in [Ops -> Managers]
  BY SessionAssumption DEF TypeOK
<1>1. ASSUME NEW m \in Managers, OpenAcquired(m) PROVE Subscriptions'
  BY <1>1, <1>0 DEF OpenAcquired, Subscriptions, serverVars
<1>2. ASSUME NEW m \in Managers, OpenNotAcquired(m) PROVE Subscriptions'
  <2>1. Wake(m, FALSE)
    BY <1>2 DEF OpenNotAcquired
  <2> QED
    BY <1>2, <1>0, <2>1, WakeEffect DEF OpenNotAcquired, Subscriptions, serverVars
<1>3. ASSUME NEW m \in Managers, OpenReply(m) PROVE Subscriptions'
  BY <1>3, <1>0 DEF OpenReply, NewSession, Subscriptions, serverVars
<1>4. ASSUME NEW m \in Managers, OpenFails(m) PROVE Subscriptions'
  BY <1>4, <1>0 DEF OpenFails, NewSession, Subscriptions, serverVars
<1>5. ASSUME NEW m \in Managers, OpenDone(m) PROVE Subscriptions'
  <2>1. Wake(m, TRUE)
    BY <1>5 DEF OpenDone
  <2> QED
    BY <1>5, <1>0, <2>1, WakeEffect DEF OpenDone, Subscriptions, serverVars
<1>6. ASSUME NEW m \in Managers, OpenAborted(m) PROVE Subscriptions'
  <2>1. Wake(m, FALSE)
    BY <1>6 DEF OpenAborted
  <2> QED
    BY <1>6, <1>0, <2>1, WakeEffect DEF OpenAborted, Subscriptions, serverVars
<1>7. ASSUME SubscribeReply PROVE Subscriptions'
  BY <1>7, <1>0 DEF SubscribeReply, Subscriptions, serverVars
<1>8. ASSUME SubscribeFails PROVE Subscriptions'
  BY <1>8, <1>0 DEF SubscribeFails, Subscriptions, serverVars
<1>9. ASSUME NEW o \in Ops, Open(o) PROVE Subscriptions'
  BY <1>9, <1>0 DEF Open, JoinedOp, JoinedOpening, Subscriptions, serverVars
<1>10. ASSUME NEW o \in Ops, Start(o) PROVE Subscriptions'
  <2>1. CASE currentSession[Of[o]] = 0
    <3>0. FailAttempt(o, "connection")
      BY <1>10, <2>1 DEF Start
    <3>1. PICK e : FailAttempt(o, e)
      BY <3>0, Zenon
    <3>2. \A m \in Managers : opening'[m] = "release" => opening[m] = "release"
      BY <3>1, FailAttemptEffect
    <3> QED
      BY <1>10, <2>1, <1>0, <3>2 DEF Start, Subscriptions, serverVars
  <2>2. CASE currentSession[Of[o]] # 0
    <3>1. /\ ops[o].pc = "idle" /\ ops' = [ops EXCEPT ![o].pc = "acquire"]
          /\ UNCHANGED <<currentSession, opening>>
      BY <1>10, <2>2 DEF Start
    <3> QED
      BY <1>10, <1>0, <3>1 DEF Start, Subscriptions, serverVars
  <2> QED
    BY <2>1, <2>2
<1>11. ASSUME NEW o \in Ops, Acquired(o) PROVE Subscriptions'
  BY <1>11, <1>0 DEF Acquired, Subscriptions, serverVars
<1>12. ASSUME NEW o \in Ops, NotAcquired(o) PROVE Subscriptions'
  <2>0. FailAttempt(o, "connection")
    BY <1>12 DEF NotAcquired
  <2>1. PICK e : FailAttempt(o, e)
    BY <2>0, Zenon
  <2>2. \A m \in Managers : opening'[m] = "release" => opening[m] = "release"
    BY <2>1, FailAttemptEffect
  <2> QED
    BY <1>12, <1>0, <2>2 DEF NotAcquired, Subscriptions, serverVars
<1>13. ASSUME NEW o \in Ops, Serve(o) PROVE Subscriptions'
  <2>1. CASE ops[o].session \in live
    <3>1. /\ ops[o].pc = "wire" /\ ops' = [ops EXCEPT ![o].pc = "reply"]
          /\ executed' = [executed EXCEPT ![o] = @ + 1]
          /\ UNCHANGED <<currentSession, opening, subscribed, subscribing, lent, broken,
                         lastSession, subscriptions>>
      BY <1>13, <2>1 DEF Serve
    <3> QED
      BY <1>0, <3>1 DEF Subscriptions, serverVars
  <2>2. CASE ops[o].session \notin live
    <3>1. /\ ops[o].pc = "wire"
          /\ ops' = [ops EXCEPT ![o].pc = "failed", ![o].error = "token"]
          /\ UNCHANGED <<currentSession, opening, subscribed, subscribing, lent, broken,
                         executed, lastSession, subscriptions>>
      BY <1>13, <2>2 DEF Serve
    <3> QED
      BY <1>0, <3>1 DEF Subscriptions, serverVars
  <2> QED
    BY <2>1, <2>2
<1>14. ASSUME NEW o \in Ops, Refused(o) PROVE Subscriptions'
  BY <1>14, <1>0 DEF Refused, Subscriptions, serverVars
<1>15. ASSUME NEW o \in Ops, Broken(o) PROVE Subscriptions'
  BY <1>15, <1>0 DEF Broken, Subscriptions, serverVars
<1>16. ASSUME NEW o \in Ops, Reply(o) PROVE Subscriptions'
  BY <1>16, <1>0 DEF Reply, Subscriptions, serverVars
<1>17. ASSUME NEW o \in Ops, Release(o) PROVE Subscriptions'
  BY <1>17, <1>0 DEF Release, Subscriptions, serverVars
<1>18. ASSUME NEW o \in Ops, Failed(o) PROVE Subscriptions'
  <2>0. FailAttempt(o, ops[o].error)
    BY <1>18 DEF Failed
  <2>1. PICK e : FailAttempt(o, e)
    BY <2>0, Zenon
  <2>2. \A m \in Managers : opening'[m] = "release" => opening[m] = "release"
    BY <2>1, FailAttemptEffect
  <2> QED
    BY <1>18, <1>0, <2>2 DEF Failed, Subscriptions, serverVars
<1>19. ASSUME NEW s \in 1..MaxSessions, Expire(s) PROVE Subscriptions'
  BY <1>19, <1>0 DEF Expire, Subscriptions, serverVars
<1>20. ASSUME UNCHANGED vars PROVE Subscriptions'
  BY <1>20 DEF vars, Subscriptions, serverVars
<1> QED
  BY <1>1, <1>2, <1>3, <1>4, <1>5, <1>6, <1>7, <1>8, <1>9, <1>10, <1>11,
     <1>12, <1>13, <1>14, <1>15, <1>16, <1>17, <1>18, <1>19, <1>20
     DEF Next, OpenStep, Subscribe, OpStep

-----------------------------------------------------------------------------
(* The theorems *)

LEMMA InvariantHolds == Spec => []IInv
<1>1. IInv /\ [Next]_vars => IInv'
  <2> SUFFICES ASSUME IInv, [Next]_vars
               PROVE  IInv'
    OBVIOUS
  <2>1. TypeOK /\ Attempts /\ ConnectionsGoBack /\ Executions /\ SessionsNewer
        /\ NewSessionOnRetry /\ Subscriptions
    BY DEF IInv
  <2>2. TypeOK' /\ Attempts'
    BY <2>1, StepTyped
  <2>3. ConnectionsGoBack'
    BY <2>1, StepConnections
  <2>4. Executions'
    BY <2>1, StepExecutions
  <2>5. SessionsNewer' /\ NewSessionOnRetry'
    BY <2>1, StepSessions
  <2>6. Subscriptions'
    BY <2>1, StepSubscriptions
  <2> QED
    BY <2>2, <2>3, <2>4, <2>5, <2>6 DEF IInv
<1> QED
  BY InitIInv, <1>1, PTL DEF Spec

\* Every state of the sessions is well-typed: a call is at one place of its chain,
\* a session is one that the server has given.
THEOREM SessionTypeCorrect == Spec => []TypeOK
<1>1. IInv => TypeOK
  BY DEF IInv
<1> QED
  BY InvariantHolds, <1>1, PTL

\* withSession and open() give every connection back once, for any number of calls,
\* sessions and faults.
THEOREM ConnectionsGoBackCorrect == Spec => []ConnectionsGoBack
<1>1. IInv => ConnectionsGoBack
  BY DEF IInv
<1> QED
  BY InvariantHolds, <1>1, PTL

\* withRetrySession executes a request at most twice, and twice only when its
\* connection broke; a close() once.
THEOREM ExecutedOnceCorrect == Spec => []ExecutedOnce
<1>1. IInv => ExecutedOnce
  <2> SUFFICES ASSUME IInv, NEW o \in Ops
               PROVE  executed[o] <= (IF o \in broken /\ o \in Sends THEN 2 ELSE 1)
    BY DEF ExecutedOnce
  <2>1. executed[o] \in Nat /\ ops[o].attempt \in {1, 2}
    BY DEF IInv, TypeOK, Op
  <2>2. executed[o] <= (IF ops[o].attempt = 2 /\ o \in broken THEN 1 ELSE 0)
                       + (IF ops[o].pc \in {"idle", "acquire", "wire"} THEN 0 ELSE 1)
    BY DEF IInv, Executions
  <2>3. ops[o].attempt = 2 => o \in Sends
    BY DEF IInv, Attempts
  <2> QED
    BY <2>1, <2>2, <2>3
<1> QED
  BY InvariantHolds, <1>1, PTL

\* A retry of withRetrySession is sent with a session that is newer than the lost
\* one, however many calls have lost it and reopened it together.
THEOREM NewSessionOnRetryCorrect == Spec => []NewSessionOnRetry
<1>1. IInv => NewSessionOnRetry
  BY DEF IInv
<1> QED
  BY InvariantHolds, <1>1, PTL

\* subscribeCluster makes one subscription for all the sessions of a server.
THEOREM SubscribedOnceCorrect == Spec => []SubscribedOnce
<1>1. IInv => SubscribedOnce
  BY DEF IInv, Subscriptions, SubscribedOnce
<1> QED
  BY InvariantHolds, <1>1, PTL

================================================================================
