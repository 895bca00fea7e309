---------------------------- MODULE SessionManager ----------------------------
(***************************************************************************)
(* The sessions of the driver on one server: SessionManager of             *)
(* client/database/session.js, which opens a session, sends its operations *)
(* and opens it again when it is lost, and subscribeCluster of             *)
(* client/topology/server.js, which all sessions share.                    *)
(*                                                                         *)
(* An operation borrows a connection from the server's pool, sends its     *)
(* request and gives the connection back.  The pool and the server are     *)
(* external: connections may break before or after a request is executed,  *)
(* and the server may forget a session at any time.                        *)
(***************************************************************************)
EXTENDS Integers, FiniteSets

CONSTANTS
    Managers,     \* the database sessions of the client
    Sends,        \* calls of send()
    Opens,        \* calls of open()
    Closes,       \* calls of close()
    Of,           \* the manager each of them is made on
    MaxSessions,  \* bound on the sessions the server opens
    MaxFaults     \* bound on the things that go wrong

Ops == Sends \cup Opens \cup Closes

ASSUME SessionAssumption ==
    /\ Sends \cap Opens = {} /\ Sends \cap Closes = {} /\ Opens \cap Closes = {}
    /\ Managers \cap Ops = {}
    /\ Of \in [Ops -> Managers]
    /\ MaxSessions \in Nat /\ MaxFaults \in Nat

VARIABLES
    currentSession, \* the id of this.currentSession, 0 for null
    opening,        \* this.opening: "no", how far it is, or "rejected"
    subscribed,     \* server.subscribedForCluster
    subscribing,    \* server.subscribing: "no", "pending" or "rejected"
    ops,            \* the calls, see Op
    lent,           \* connections held by each call and by each opening
    live,           \* the server: the sessions it knows
    lastSession,    \* the server: the last session id it gave
    faults,
    executed,       \* history: how often each request was executed
    broken,         \* history: the requests whose connection broke
    subscriptions   \* history: subscriptions sent to the server

serverVars == <<live, lastSession, executed, subscriptions>>
vars == <<currentSession, opening, subscribed, subscribing, ops, lent, serverVars,
          faults, broken>>

Errors == {"connection", "token", "request"}
\* session: whose token the request carries; failed: the one the first attempt had
Op == [pc : {"idle", "acquire", "wire", "reply", "release", "failed", "opening",
             "resolved", "rejected", "stranded"},
       attempt : {1, 2}, session : 0..MaxSessions, failed : 0..MaxSessions,
       error : {"none"} \cup Errors]
Steps == {"no", "acquire", "db-open", "subscribe", "release", "failing", "rejected"}

Settled(o) == ops[o].pc \in {"resolved", "rejected"}

Init ==
    /\ currentSession = [m \in Managers |-> 0]
    /\ opening = [m \in Managers |-> "no"]
    /\ subscribed = FALSE /\ subscribing = "no"
    /\ ops = [o \in Ops |-> [pc |-> "idle", attempt |-> 1, session |-> 0, failed |-> 0,
                             error |-> "none"]]
    /\ lent = [h \in Ops \cup Managers |-> 0]
    /\ live = {} /\ lastSession = 0
    /\ faults = 0
    /\ executed = [o \in Ops |-> 0]
    /\ broken = {} /\ subscriptions = 0

Fault == faults < MaxFaults /\ faults' = faults + 1

-----------------------------------------------------------------------------
(* open() *)

\* open() while there is no session: join the opening, whatever has become of it.
JoinedOp(o) == [ops[o] EXCEPT !.pc = IF opening[Of[o]] = "rejected" THEN "rejected"
                                     ELSE "opening"]
JoinedOpening(m) == IF opening[m] = "no" THEN "acquire" ELSE opening[m]

Open(o) ==
    LET m == Of[o]
    IN  /\ o \in Opens /\ ops[o].pc = "idle"
        /\ IF currentSession[m] # 0
             THEN /\ ops' = [ops EXCEPT ![o].pc = "resolved"]
                  /\ UNCHANGED opening
             ELSE /\ ops' = [ops EXCEPT ![o] = JoinedOp(o)]
                  /\ opening' = [opening EXCEPT ![m] = JoinedOpening(m)]
        /\ UNCHANGED <<currentSession, subscribed, subscribing, lent, serverVars,
                       faults, broken>>

\* A mutant: those who wait for an opening that fails are forgotten.
WokenOnSuccess(o, m, ok) ==
    IF Of[o] # m \/ ops[o].pc # "opening" \/ ~ok THEN ops[o]
    ELSE [ops[o] EXCEPT !.attempt = IF o \in Sends THEN @ + 1 ELSE @,
                        !.pc = CASE o \in Opens           -> "resolved"
                                 [] currentSession[m] # 0 -> "acquire"
                                 [] OTHER                 -> "rejected"]

\* A caller of open() when m's opening ends: it goes on, or is rejected.
Woken(o, m, ok) ==
    IF Of[o] # m \/ ops[o].pc # "opening" THEN ops[o]
    ELSE [ops[o] EXCEPT !.attempt = IF o \in Sends THEN @ + 1 ELSE @,
                        !.pc = CASE ok /\ o \in Opens                             -> "resolved"
                                 [] ok /\ o \notin Opens /\ currentSession[m] # 0 -> "acquire"
                                 [] OTHER                                         -> "rejected"]

\* The promise this.opening of m is settled.
Wake(m, ok) == ops' = [o \in Ops |-> Woken(o, m, ok)]

OpenAcquired(m) ==
    /\ opening[m] = "acquire"
    /\ opening' = [opening EXCEPT ![m] = "db-open"]
    /\ lent' = [lent EXCEPT ![m] = @ + 1]
    /\ UNCHANGED <<currentSession, subscribed, subscribing, ops, serverVars, faults, broken>>

\* acquireFrom() is rejected: no handler resets this.opening.
OpenNotAcquired(m) ==
    /\ opening[m] = "acquire" /\ Fault
    /\ opening' = [opening EXCEPT ![m] = "rejected"]
    /\ Wake(m, FALSE)
    /\ UNCHANGED <<currentSession, subscribed, subscribing, lent, serverVars, broken>>

\* The server opens a session for m.
NewSession(m) ==
    /\ lastSession < MaxSessions
    /\ lastSession' = lastSession + 1
    /\ live' = live \cup {lastSession + 1}
    /\ UNCHANGED <<executed, subscriptions>>

\* subscribeCluster(): done, under way, rejected for good, or to be started.
OpenReply(m) ==
    /\ opening[m] = "db-open"
    /\ NewSession(m)
    /\ currentSession' = [currentSession EXCEPT ![m] = lastSession + 1]
    /\ opening' = [opening EXCEPT ![m] =
                     CASE subscribed               -> "release"
                       [] subscribing = "rejected" -> "failing"
                       [] OTHER                    -> "subscribe"]
    /\ subscribing' = IF ~subscribed /\ subscribing = "no" THEN "pending" ELSE subscribing
    /\ UNCHANGED <<subscribed, ops, lent, faults, broken>>

\* The credentials are refused, or the connection breaks, before or after.
OpenFails(m) ==
    /\ opening[m] = "db-open" /\ Fault
    /\ NewSession(m) \/ UNCHANGED serverVars
    /\ opening' = [opening EXCEPT ![m] = "failing"]
    /\ UNCHANGED <<currentSession, subscribed, subscribing, ops, lent, broken>>

SubscribeReply ==
    /\ subscribing = "pending"
    /\ subscribed' = TRUE /\ subscribing' = "no"
    /\ subscriptions' = subscriptions + 1
    /\ opening' = [m \in Managers |-> IF opening[m] = "subscribe" THEN "release"
                                      ELSE opening[m]]
    /\ UNCHANGED <<currentSession, ops, lent, live, lastSession, executed, faults,
                   broken>>

\* No connection, or no reply: nothing resets server.subscribing.
SubscribeFails ==
    /\ subscribing = "pending" /\ Fault
    /\ subscribing' = "rejected"
    /\ opening' = [m \in Managers |-> IF opening[m] = "subscribe" THEN "failing"
                                      ELSE opening[m]]
    /\ UNCHANGED <<currentSession, subscribed, ops, lent, serverVars, broken>>

\* connection.close(), opening = null.
OpenDone(m) ==
    /\ opening[m] = "release"
    /\ opening' = [opening EXCEPT ![m] = "no"]
    /\ lent' = [lent EXCEPT ![m] = @ - 1]
    /\ Wake(m, TRUE)
    /\ UNCHANGED <<currentSession, subscribed, subscribing, serverVars, faults, broken>>

\* connection.close(), reject.
OpenAborted(m) ==
    /\ opening[m] = "failing"
    /\ opening' = [opening EXCEPT ![m] = "rejected"]
    /\ lent' = [lent EXCEPT ![m] = @ - 1]
    /\ Wake(m, FALSE)
    /\ UNCHANGED <<currentSession, subscribed, subscribing, serverVars, faults, broken>>

-----------------------------------------------------------------------------
(* send() and close() *)

\* A mutant: a retry is retried too.
RetriedAgain(o, e) == o \in Sends /\ e \in {"connection", "token"}

\* withRetrySession: a lost connection or a refused token is retried once, with
\* another session; any other error, and every error of close(), is final.
Retried(o, e) == o \in Sends /\ ops[o].attempt = 1 /\ e \in {"connection", "token"}

\* A mutant: the lost session stays the current one, and open() returns it.
FailAttemptKeepingSession(o, e) ==
    LET m == Of[o]
        retry == [ops[o] EXCEPT !.pc = "acquire", !.attempt = 2, !.failed = ops[o].session]
    IN  /\ UNCHANGED currentSession
        /\ IF ~Retried(o, e)
             THEN /\ ops' = [ops EXCEPT ![o].pc = "rejected"]
                  /\ UNCHANGED opening
             ELSE IF currentSession[m] # 0
             THEN /\ ops' = [ops EXCEPT ![o] = retry]
                  /\ UNCHANGED opening
             ELSE /\ ops' = [ops EXCEPT ![o] = [JoinedOp(o) EXCEPT !.failed = ops[o].session]]
                  /\ opening' = [opening EXCEPT ![m] = JoinedOpening(m)]

FailAttempt(o, e) ==
    LET m == Of[o]
    IN  IF Retried(o, e)
          THEN /\ currentSession' = [currentSession EXCEPT ![m] = 0]
               /\ ops' = [ops EXCEPT ![o] = [JoinedOp(o) EXCEPT !.failed = ops[o].session]]
               /\ opening' = [opening EXCEPT ![m] = JoinedOpening(m)]
          ELSE /\ ops' = [ops EXCEPT ![o].pc = "rejected"]
               /\ UNCHANGED <<currentSession, opening>>

\* acquireSession: without a session, a ConnectionError at once.
Start(o) ==
    /\ o \in Sends \cup Closes /\ ops[o].pc = "idle"
    /\ IF currentSession[Of[o]] # 0
         THEN /\ ops' = [ops EXCEPT ![o].pc = "acquire"]
              /\ UNCHANGED <<currentSession, opening>>
         ELSE FailAttempt(o, "connection")
    /\ UNCHANGED <<subscribed, subscribing, lent, serverVars, faults, broken>>

\* A connection: this.currentSession is read now.  When it has gone meanwhile,
\* session.token throws a TypeError.
Acquired(o) ==
    LET s == currentSession[Of[o]]
    IN  /\ ops[o].pc = "acquire"
        /\ lent' = [lent EXCEPT ![o] = @ + 1]
        /\ ops' = [ops EXCEPT ![o] =
               [@ EXCEPT !.pc = IF s = 0 THEN "failed" ELSE "wire",
                         !.error = IF s = 0 THEN "request" ELSE "none",
                         !.session = s]]
        /\ UNCHANGED <<currentSession, opening, subscribed, subscribing, serverVars,
                       faults, broken>>

NotAcquired(o) ==
    /\ ops[o].pc = "acquire" /\ Fault
    /\ FailAttempt(o, "connection")
    /\ UNCHANGED <<subscribed, subscribing, lent, serverVars, broken>>

\* The server executes the request, or does not know its session.
Serve(o) ==
    LET s == ops[o].session
    IN  /\ ops[o].pc = "wire"
        /\ IF s \in live
             THEN /\ ops' = [ops EXCEPT ![o].pc = "reply"]
                  /\ executed' = [executed EXCEPT ![o] = @ + 1]
                  /\ live' = IF o \in Closes THEN live \ {s} ELSE live
             ELSE /\ ops' = [ops EXCEPT ![o].pc = "failed", ![o].error = "token"]
                  /\ UNCHANGED <<executed, live>>
        /\ UNCHANGED <<currentSession, opening, subscribed, subscribing, lent, lastSession,
                       subscriptions, faults, broken>>

\* The request itself is wrong.
Refused(o) ==
    /\ ops[o].pc = "wire" /\ Fault
    /\ ops' = [ops EXCEPT ![o].pc = "failed", ![o].error = "request"]
    /\ UNCHANGED <<currentSession, opening, subscribed, subscribing, lent, serverVars, broken>>

\* The connection breaks, before the request is executed or after.
Broken(o) ==
    /\ ops[o].pc \in {"wire", "reply"} /\ Fault
    /\ ops' = [ops EXCEPT ![o].pc = "failed", ![o].error = "connection"]
    /\ broken' = broken \cup {o}
    /\ UNCHANGED <<currentSession, opening, subscribed, subscribing, lent, serverVars>>

\* The reply; that of db-close drops the current session, whichever it is.
Reply(o) ==
    /\ ops[o].pc = "reply"
    /\ ops' = [ops EXCEPT ![o].pc = "release"]
    /\ currentSession' = IF o \in Closes THEN [currentSession EXCEPT ![Of[o]] = 0]
                         ELSE currentSession
    /\ UNCHANGED <<opening, subscribed, subscribing, lent, serverVars, faults, broken>>

\* connection.close(), resolve: of withSession's promise, which in a retry
\* nobody has chained the caller's promise to.
Release(o) ==
    /\ ops[o].pc = "release"
    /\ ops' = [ops EXCEPT ![o].pc = IF ops[o].attempt = 1 THEN "resolved" ELSE "stranded"]
    /\ lent' = [lent EXCEPT ![o] = @ - 1]
    /\ UNCHANGED <<currentSession, opening, subscribed, subscribing, serverVars, faults,
                   broken>>

\* A mutant: the connection is given back only after a reply.
FailedKeepingConnection(o) ==
    /\ ops[o].pc = "failed"
    /\ FailAttempt(o, ops[o].error)
    /\ UNCHANGED <<subscribed, subscribing, lent, serverVars, faults, broken>>

\* The catch of withSession: connection.close(), reject.
Failed(o) ==
    /\ ops[o].pc = "failed"
    /\ lent' = [lent EXCEPT ![o] = @ - 1]
    /\ FailAttempt(o, ops[o].error)
    /\ UNCHANGED <<subscribed, subscribing, serverVars, faults, broken>>

\* The server forgets a session: a restart, a timeout.
Expire(s) ==
    /\ s \in live /\ Fault
    /\ live' = live \ {s}
    /\ UNCHANGED <<currentSession, opening, subscribed, subscribing, ops, lent, lastSession,
                   executed, subscriptions, broken>>

-----------------------------------------------------------------------------

OpenStep(m) ==
    \/ OpenAcquired(m) \/ OpenNotAcquired(m) \/ OpenReply(m) \/ OpenFails(m)
    \/ OpenDone(m) \/ OpenAborted(m)
Subscribe == SubscribeReply \/ SubscribeFails
OpStep(o) ==
    \/ Acquired(o) \/ NotAcquired(o) \/ Serve(o) \/ Refused(o) \/ Broken(o)
    \/ Reply(o) \/ Release(o) \/ Failed(o)

Next ==
    \/ \E m \in Managers : OpenStep(m)
    \/ Subscribe
    \/ \E o \in Ops : Open(o) \/ Start(o) \/ OpStep(o)
    \/ \E s \in 1..MaxSessions : Expire(s)

Spec == Init /\ [][Next]_vars

\* The pool lends connections, the server answers and callbacks run.
FairSpec ==
    /\ Spec
    /\ \A m \in Managers : WF_vars(OpenStep(m))
    /\ WF_vars(Subscribe)
    /\ \A o \in Ops : WF_vars(OpStep(o))

-----------------------------------------------------------------------------
(* Properties *)

\* Types; a session is one the server has given.
TypeOK ==
    /\ currentSession \in [Managers -> 0..lastSession] /\ lastSession \in 0..MaxSessions
    /\ opening \in [Managers -> Steps]
    /\ subscribed \in BOOLEAN /\ subscribing \in {"no", "pending", "rejected"}
    /\ ops \in [Ops -> Op]
    /\ lent \in [Ops \cup Managers -> Int]
    /\ live \subseteq 1..lastSession
    /\ faults \in 0..MaxFaults
    /\ executed \in [Ops -> Nat] /\ broken \subseteq Ops /\ subscriptions \in Nat

\* Every connection borrowed for a request or an opening goes back to the pool
\* once: on success, on a refusal, when it breaks and when the session has gone.
ConnectionsGoBack ==
    /\ \A o \in Ops : lent[o] = IF ops[o].pc \in {"wire", "reply", "release", "failed"}
                                  THEN 1 ELSE 0
    /\ \A m \in Managers :
          lent[m] = IF opening[m] \in {"db-open", "subscribe", "release", "failing"}
                      THEN 1 ELSE 0

\* A request is executed twice only when its connection broke in between; it is
\* never executed a third time, however many sessions are lost.
ExecutedOnce ==
    \A o \in Ops : executed[o] <= (IF o \in broken /\ o \in Sends THEN 2 ELSE 1)

\* A retry goes out with a session opened after the one that failed, although
\* several calls may have lost it and reopened it together.
NewSessionOnRetry ==
    \A o \in Ops : ops[o].attempt = 2 /\ ops[o].pc \in {"wire", "reply", "release"}
                     => ops[o].session > ops[o].failed

\* The sessions of a server share one cluster subscription, made before the
\* opening of any of them is finished.
SubscribedOnce ==
    /\ subscriptions <= 1
    /\ \A m \in Managers : opening[m] = "release" => subscriptions = 1

\* Every call comes to an end: its caller is told, or the retry of a lost session
\* succeeds, whose result nobody is told of.
EventuallyDone ==
    []<>(\A o \in Ops : ops[o].pc = "idle" \/ Settled(o) \/ ops[o].pc = "stranded")
===============================================================================
