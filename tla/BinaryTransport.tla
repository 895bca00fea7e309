--------------------------- MODULE BinaryTransport ---------------------------
(***************************************************************************)
(* The transport of the legacy driver (transport/binary/index.js) with its *)
(* connections, one or a pool of them (connection.js, connection-pool.js), *)
(* and the database over it (db/db.js, db/odatabase.js).                   *)
(*                                                                         *)
(* When a connection breaks the transport turns to the next of its servers *)
(* and sends again what was under way.  Replies are those of the request   *)
(* at the head of the queue; how they are read is the business of module   *)
(* Connection.  Handlers of promises run before the next event of a socket *)
(* (Calm); a connection the transport has replaced is no longer heard.     *)
(***************************************************************************)
EXTENDS Integers, Sequences, FiniteSets

CONSTANTS
    MaxCalls,      \* bound: operations the program sends
    Hosts,         \* the servers of the configuration, a sequence
    PoolMax,       \* connections of a pool
    MaxRetries,    \* errors of connections between two logins
    MaxFaults      \* bound on what goes wrong

ASSUME TransportAssumption ==
    /\ Hosts \in Seq(STRING) /\ Hosts # <<>> /\ PoolMax \in Nat \ {0}
    /\ MaxRetries \in Nat /\ MaxFaults \in Nat /\ MaxCalls \in Nat

VARIABLES
    mode,          \* pool: there is a pool; skip: the database needs no login
    servers,       \* transport.servers, the one in use first
    net,           \* the connections, see Init
    transport,     \* its session, its login (connect()) and autoReconnection
    db,            \* its session, and ODatabase.opening
    call,          \* what each call is doing
    owed,          \* history: executions of each operation that may still come
    crashed,       \* an error event without a listener: the process has died
    faults         \* what has gone wrong: its kind as long as it is the only one

vars == <<mode, servers, net, transport, db, call, owed, crashed, faults>>

\* The calls, in the order they are made, and the transport's own request.
Calls == 1..MaxCalls
Login == 0
Reconnectable == {"ended", "broken", "refused"}     \* codes 1, 2 and ECONNREFUSED

NewConnection(host) ==
    [host |-> host, stage |-> "idle", heard |-> TRUE, waiting |-> <<>>, queue |-> <<>>,
     ending |-> FALSE, timedOut |-> FALSE, ghosts |-> FALSE, login |-> "none"]

NoCall == [kind |-> "none", what |-> "none", session |-> 0, at |-> "idle", on |-> 0, err |-> "none"]

\* Session 0 is none; a session is named by the connection that got it.  login
\* is the connection of the connect() that is kept in transport.connecting, auto
\* that of the one that ends autoReconnection, 0 when there is no such.
Init ==
    /\ mode \in [pool : BOOLEAN, skip : BOOLEAN]
    /\ servers = [i \in 1..Len(Hosts) |-> [host |-> Hosts[i], active |-> TRUE]]
    /\ net = [conns |-> <<>>, current |-> <<>>, turn |-> 0, host |-> Hosts[1]]
    /\ transport = [session |-> 0, connecting |-> "none", login |-> 0, auto |-> 0, retries |-> 0]
    /\ db = [session |-> 0, opening |-> "none"]
    /\ call = [c \in Calls |-> NoCall]
    /\ owed = [c \in Calls |-> 1]
    /\ crashed = FALSE /\ faults = <<>>

Fault(kind) ==
    /\ Len(faults) < MaxFaults
    /\ faults' = IF faults = <<>> THEN <<kind>> ELSE [i \in 1..(Len(faults) + 1) |-> "several"]
Conns == 1..Len(net.conns)
At(c, places) == call[c].at \in places

\* Nothing is left to do before the next event of a socket.
Calm ==
    /\ ~crashed
    /\ \A c \in Calls : ~At(c, {"begin", "ready", "failed"})
    /\ \A k \in Conns : net.conns[k].login = "none"
    /\ mode.skip => transport.auto = 0

Callers(requests) == {requests[i].who : i \in 1..Len(requests)} \ {Login}
Operations(requests) == {requests[i].who : i \in {j \in 1..Len(requests) : requests[j].what = "op"}}
HasLogin(requests) == \E i \in 1..Len(requests) : requests[i].who = Login
Moved(cs, who, place) ==
    [c \in Calls |-> IF c \notin who THEN cs[c]
        ELSE IF place \in {"resolved", "rejected"}
        THEN [NoCall EXCEPT !.kind = IF cs[c].kind = "close" THEN "close" ELSE "none", !.at = place]
        ELSE [cs[c] EXCEPT !.at = place]]
Failing(cs, who, err) ==
    [c \in Calls |-> IF c \in who THEN [cs[c] EXCEPT !.at = "failed", !.err = err] ELSE cs[c]]

-----------------------------------------------------------------------------
(* Connections *)

\* A db-close is resolved once it is written, and the rest waits for replies.
Awaited(requests) ==
    LET f[i \in 0..Len(requests)] ==
            IF i = 0 THEN <<>>
            ELSE f[i - 1] \o (IF requests[i].what = "db-close" THEN <<>> ELSE <<requests[i]>>)
    IN  f[Len(requests)]
Written(conn, requests) ==
    [conn EXCEPT !.queue = @ \o Awaited(requests),
                 !.ending = @ \/ \E i \in 1..Len(requests) : requests[i].what = "db-close"]

\* send() of a connection.  One whose negotiation has failed keeps a socket and
\* has no protocol: to send on it throws.
Offered(conn, r) ==
    CASE conn.stage = "open"       -> Written(conn, <<r>>)
      [] conn.stage = "connecting" -> [conn EXCEPT !.waiting = Append(@, r)]
      [] conn.stage = "idle"       -> [conn EXCEPT !.stage = "connecting", !.waiting = <<r>>]
      [] conn.stage = "broken"     -> [conn EXCEPT !.login = IF r.who = Login THEN "thrown" ELSE @]

Dip(n) ==
    LET t == IF n.turn >= (IF mode.pool THEN PoolMax ELSE 1) THEN 1 ELSE n.turn + 1 IN
    IF t <= Len(n.current) THEN [n EXCEPT !.turn = t]
    ELSE [n EXCEPT !.turn = t, !.current = Append(@, Len(n.conns) + 1),
                   !.conns = Append(@, NewConnection(n.host))]
Picked(n) == n.current[n.turn]
Sent(n, r) == LET m == Dip(n) IN [m EXCEPT !.conns[Picked(m)] = Offered(@, r)]

\* What becomes of the caller.
Hand(cs, m, r) ==
    LET stage == Dip(m).conns[Picked(Dip(m))].stage IN
    IF stage = "broken" THEN Failing(cs, {r.who}, "thrown")
    ELSE IF stage = "open" /\ r.what = "db-close" THEN Moved(cs, {r.who}, "resolved")
    ELSE [cs EXCEPT ![r.who].at = "sent"]

\* reconnectTransport(): the connection is left to itself and its queue is
\* cancelled; a pool is closed, and then there is no connection to cancel: what
\* is in the queues stays there.
Left(conn) ==
    IF conn.queue = <<>> /\ (mode.pool \/ conn.stage = "idle")
    THEN [NewConnection(Hosts[1]) EXCEPT !.heard = FALSE, !.login = conn.login]
    ELSE IF mode.pool
    THEN [conn EXCEPT !.heard = FALSE, !.stage = "idle", !.waiting = <<>>]
    ELSE [conn EXCEPT !.heard = FALSE, !.queue = <<>>,
                      !.login = IF HasLogin(conn.queue) THEN "cancelled" ELSE @]
Reset(n, svs) ==
    [conns |-> [k \in 1..Len(n.conns) |->
                   IF \E i \in 1..Len(n.current) : n.current[i] = k THEN Left(n.conns[k])
                   ELSE n.conns[k]],
     current |-> <<>>, turn |-> 0, host |-> svs[1].host]
InUse(n) == {n.conns[n.current[i]] : i \in 1..Len(n.current)}
Dropped(cs, n) ==
    IF mode.pool THEN Moved(cs, UNION {Callers(conn.waiting) : conn \in InUse(n)}, "stranded")
    ELSE Failing(cs, UNION {Callers(conn.queue) : conn \in InUse(n)}, "cancelled")
NoSession == [transport EXCEPT !.session = 0, !.connecting = "none", !.login = 0]

-----------------------------------------------------------------------------
(* The transport *)

\* A mutant: one rotation too few.
ServerLeftOfMany == \E i \in 2..(Len(servers) - 1) : servers[i].active

ServerLeft == \E i \in 2..Len(servers) : servers[i].active

\* shiftServer(): the server in use, and those known not to answer, go last; all of
\* them when there is none left.
ShiftServer ==
    LET n == Len(servers)
        gone == IF ~ServerLeft THEN n
                ELSE (CHOOSE i \in 2..n : /\ servers[i].active
                                          /\ \A j \in 2..(i - 1) : ~servers[j].active) - 1
    IN  [i \in 1..n |-> IF i + gone <= n THEN servers[i + gone]
                        ELSE [servers[i + gone - n] EXCEPT !.active = FALSE]]

\* connect(), after a reset of the network n or without.
Connecting(n, t) ==
    LET m == Sent(n, [who |-> Login, what |-> "connect", session |-> 0, reply |-> "none"]) IN
    /\ net' = m
    /\ transport' = [t EXCEPT !.connecting = "pending", !.login = Picked(m)]

Attempt(n) == Picked(Dip(n))

RequestOf(c, session) ==
    [who |-> c, what |-> call[c].what, session |-> session, reply |-> "none"]

\* A mutant: only the caller that has opened it is told.
SettledAlone(cs, c, outcome) == Moved(cs, {c}, outcome)

\* Calls that share the opening of an ODatabase share its outcome.
Settled(cs, c, outcome) ==
    IF mode.skip /\ cs[c].what = "db-open"
    THEN Moved(cs, {c} \cup {x \in Calls : At(x, {"opening"})}, outcome)
    ELSE Moved(cs, {c}, outcome)
OpeningFails(c) == IF mode.skip /\ call[c].what = "db-open" THEN [db EXCEPT !.opening = "rejected"] ELSE db

Send(c) ==
    LET session == IF call[c].session # 0 THEN call[c].session ELSE transport.session
        r == RequestOf(c, session)
    IN
    /\ ~crashed /\ At(c, {"ready"})
    /\ IF session # 0 \/ mode.skip
       THEN /\ net' = Sent(net, r)
            /\ call' = Hand(call, net, r)
            /\ db' = IF call'[c].at = "resolved" THEN [db EXCEPT !.session = 0] ELSE db
            /\ UNCHANGED transport
       ELSE IF transport.connecting = "pending"
       THEN /\ call' = [call EXCEPT ![c].at = "login", ![c].on = transport.login]
            /\ UNCHANGED <<net, transport, db>>
       ELSE LET again == transport.connecting = "rejected"
                n == IF again THEN Reset(net, servers) ELSE net
            IN  /\ Connecting(n, IF again THEN NoSession ELSE transport)
                /\ call' = [IF again THEN Dropped(call, net) ELSE call EXCEPT
                               ![c].at = "login", ![c].on = Attempt(n)]
                /\ db' = IF again THEN [db EXCEPT !.session = 0] ELSE db
    /\ UNCHANGED <<mode, servers, owed, crashed, faults>>

\* A mutant: the session of the lost connection is kept.
ResentSameSession(cs, who) ==
    [c \in Calls |-> IF c \in who THEN [cs[c] EXCEPT !.at = "ready", !.on = 0, !.err = "none"] ELSE cs[c]]

\* The request is sent anew, by a database with a session it has opened anew.
Resent(cs, who) ==
    [c \in Calls |-> IF c \notin who THEN cs[c]
        ELSE IF cs[c].kind = "db" /\ cs[c].what = "op"
        THEN [cs[c] EXCEPT !.at = "begin", !.session = 0, !.on = 0, !.err = "none"]
        ELSE [cs[c] EXCEPT !.at = "ready", !.session = 0, !.on = 0, !.err = "none"]]

\* A mutant: any error makes the transport send the request again.
AutoReconnectAndSendAlways(c) ==
    /\ ~crashed /\ At(c, {"failed"})
    /\ call' = Resent(call, {c})
    /\ UNCHANGED <<mode, servers, net, transport, db, owed, crashed, faults>>

\* autoReconnectTransportAndSend(): when the transport is reconnecting already
\* its connect() is joined, if it still has one.
AutoReconnectAndSend(c) ==
    /\ ~crashed /\ At(c, {"failed"})
    /\ IF call[c].err \notin Reconnectable
       THEN /\ call' = Settled(call, c, "rejected") /\ db' = OpeningFails(c)
            /\ UNCHANGED <<servers, net, transport>>
       ELSE IF transport.auto # 0
       THEN /\ IF mode.skip \/ transport.connecting = "pending"
               THEN call' = [call EXCEPT ![c].at = "auto", ![c].on = transport.login] /\ UNCHANGED db
               ELSE IF transport.connecting = "resolved" THEN call' = Resent(call, {c}) /\ UNCHANGED db
               ELSE IF transport.connecting = "rejected"
               THEN call' = Settled(call, c, "rejected") /\ db' = OpeningFails(c)
               ELSE call' = Settled(call, c, "stranded") /\ UNCHANGED db
            /\ UNCHANGED <<servers, net, transport>>
       ELSE /\ servers' = ShiftServer
            /\ IF ~ServerLeft
               THEN /\ call' = Settled(call, c, "rejected") /\ db' = OpeningFails(c)
                    /\ UNCHANGED <<net, transport>>
               ELSE LET n == Reset(net, servers')
                        on == IF mode.skip THEN 0 ELSE Attempt(n)
                    IN  /\ call' = [Dropped(call, net) EXCEPT ![c].at = "auto", ![c].on = on]
                        /\ db' = [db EXCEPT !.session = 0]
                        /\ IF mode.skip
                           THEN net' = n /\ transport' = [NoSession EXCEPT !.auto = 1]
                           ELSE Connecting(n, [NoSession EXCEPT !.auto = on])
    /\ UNCHANGED <<mode, owed, crashed, faults>>

\* Without a login connect() is resolved at once, after the handlers of all the
\* requests that were cut off together.
AutoReconnected ==
    /\ ~crashed /\ mode.skip /\ transport.auto # 0 /\ \A c \in Calls : ~At(c, {"failed"})
    /\ transport' = [transport EXCEPT !.auto = 0]
    /\ call' = Resent(call, {c \in Calls : At(c, {"auto"})})
    /\ UNCHANGED <<mode, servers, net, db, owed, crashed, faults>>

Waiters(k) == {c \in Calls : At(c, {"login", "auto"}) /\ call[c].on = k}

\* A login is refused: the next server is tried.  autoReconnection stays set
\* when it fails for good.
LoginFails(k) ==
    LET err == net.conns[k].login
        n0 == [net EXCEPT !.conns[k].login = "none"]
    IN
    /\ ~crashed /\ err # "none"
    /\ servers' = IF err = "refused" THEN ShiftServer ELSE servers
    /\ IF err = "refused" /\ ServerLeft
       THEN LET n == Reset(n0, servers')
                t == [NoSession EXCEPT !.auto = IF @ = k THEN Attempt(n) ELSE @]
                on == Attempt(n)
            IN  /\ Connecting(n, t)
                /\ call' = [c \in Calls |-> IF c \in Waiters(k) THEN [call[c] EXCEPT !.on = on]
                                            ELSE Dropped(call, net)[c]]
                /\ db' = [db EXCEPT !.session = 0]
       ELSE /\ net' = n0
            /\ transport' = IF transport.login = k THEN [transport EXCEPT !.connecting = "rejected"]
                            ELSE transport
            /\ call' = Moved(call, Waiters(k), "rejected")
            /\ UNCHANGED db
    /\ UNCHANGED <<mode, owed, crashed, faults>>

-----------------------------------------------------------------------------
(* The program and the database *)

\* An operation of the server or of the database, or the database's db-close;
\* this last one not over a pool.  The handlers of what was cut off come before
\* those of the program.
Start(c) ==
    /\ ~crashed /\ At(c, {"idle"}) /\ (\A x \in 1..(c - 1) : ~At(x, {"idle"}))
    /\ \A x \in Calls : ~At(x, {"failed"})
    /\ \/ ~mode.skip /\ call' = [call EXCEPT ![c].kind = "server", ![c].what = "op", ![c].at = "ready"]
       \/ call' = [call EXCEPT ![c].kind = "db", ![c].what = "op", ![c].at = "begin"]
       \/ /\ ~mode.pool
          /\ call' = [call EXCEPT ![c].kind = "close", ![c].what = "db-close",
                                  ![c].session = db.session, ![c].at = "ready"]
    /\ UNCHANGED <<mode, servers, net, transport, db, owed, crashed, faults>>

\* open() and then the operation; an ODatabase is opened by one of its callers.
Open(c) ==
    /\ ~crashed /\ At(c, {"begin"})
    /\ IF db.session # 0
       THEN /\ call' = [call EXCEPT ![c].what = "op", ![c].session = db.session, ![c].at = "ready"]
            /\ UNCHANGED db
       ELSE IF mode.skip /\ db.opening # "none"
       THEN /\ call' = Moved(call, {c}, IF db.opening = "pending" THEN "opening" ELSE "rejected")
            /\ UNCHANGED db
       ELSE /\ call' = [call EXCEPT ![c].what = "db-open", ![c].session = 0, ![c].at = "ready"]
            /\ db' = [db EXCEPT !.opening = IF mode.skip THEN "pending" ELSE @]
    /\ UNCHANGED <<mode, servers, net, transport, owed, crashed, faults>>

-----------------------------------------------------------------------------
(* Sockets and servers *)

Connected(k) ==
    LET conn == net.conns[k]
        closers == {conn.waiting[i].who : i \in {j \in 1..Len(conn.waiting) :
                                                   conn.waiting[j].what = "db-close"}}
    IN
    /\ Calm /\ conn.stage = "connecting"
    /\ net' = [net EXCEPT !.conns[k] =
                  Written([conn EXCEPT !.stage = "open", !.waiting = <<>>], conn.waiting)]
    /\ call' = Moved(call, closers, "resolved")
    /\ db' = IF closers = {} THEN db ELSE [db EXCEPT !.session = 0]
    /\ UNCHANGED <<mode, servers, transport, owed, crashed, faults>>

\* The socket stays, and nobody reads it.
NotConnected(k) == \E err \in {"refused", "lost"} :
    LET conn == net.conns[k] IN
    /\ Calm /\ Fault(err) /\ conn.stage = "connecting"
    /\ net' = [net EXCEPT !.conns[k] = [conn EXCEPT !.stage = "broken", !.waiting = <<>>,
                  !.login = IF HasLogin(conn.waiting) THEN err ELSE "none"]]
    /\ call' = Failing(call, Callers(conn.waiting), err)
    /\ UNCHANGED <<mode, servers, transport, db, owed, crashed>>

\* The server executes its requests in order, or sends one to another server.
Serve(k) == \E i \in 1..Len(net.conns[k].queue) : \E reply \in {"ok", "error", "redirect"} :
    LET conn == net.conns[k]
        r == conn.queue[i]
    IN
    /\ Calm /\ conn.stage = "open"
    /\ r.reply = "none" /\ \A j \in 1..(i - 1) : conn.queue[j].reply # "none"
    /\ IF reply = "ok" THEN UNCHANGED faults ELSE Fault(reply)
    /\ reply = "redirect" => r.what = "op"
    /\ net' = [net EXCEPT !.conns[k].queue[i].reply = reply]
    /\ owed' = IF r.what = "op" /\ reply # "redirect" THEN [owed EXCEPT ![r.who] = @ - 1] ELSE owed
    /\ UNCHANGED <<mode, servers, transport, db, call, crashed>>

ReplyToLogin(k, reply) ==
    IF reply = "ok"
    THEN /\ transport' = [transport EXCEPT !.session = k, !.retries = 0,
                             !.auto = IF @ = k THEN 0 ELSE @,
                             !.connecting = IF transport.login = k THEN "resolved" ELSE @]
         /\ call' = [c \in Calls |-> IF c \notin Waiters(k) THEN call[c]
                        ELSE IF At(c, {"auto"}) THEN Resent(call, {c})[c]
                        ELSE [call[c] EXCEPT !.at = "ready", !.on = 0]]
         /\ UNCHANGED <<db, servers>>
    ELSE UNCHANGED <<transport, call, db, servers>>

\* update-config: the servers of the cluster, the one in use first.
UpdateConfig == servers' = [i \in 1..Len(servers) |-> [servers[i] EXCEPT !.active = TRUE]]

ReplyToCall(k, c, reply) ==
    /\ UNCHANGED transport
    /\ IF reply = "redirect"
       THEN call' = Moved(call, {c}, "ready") /\ UNCHANGED <<db, servers>>
       ELSE IF reply = "error"
       THEN call' = Settled(call, c, "rejected") /\ db' = OpeningFails(c) /\ UNCHANGED servers
       ELSE IF call[c].what = "db-open"
       THEN /\ db' = [session |-> k, opening |-> "none"]
            /\ call' = Settled(call, c, "begin")
            /\ UNCHANGED servers \/ (~mode.skip /\ UpdateConfig)
       ELSE call' = Settled(call, c, "resolved") /\ UNCHANGED <<db, servers>>

Reply(k) ==
    LET r == net.conns[k].queue[1] IN
    /\ Calm /\ net.conns[k].stage = "open"
    /\ net.conns[k].queue # <<>> /\ r.reply # "none"
    /\ net' = [net EXCEPT !.conns[k].queue = Tail(@),
                  !.conns[k].login = IF r.who = Login /\ r.reply # "ok" THEN "answered" ELSE @]
    /\ IF r.who = Login THEN ReplyToLogin(k, r.reply) ELSE ReplyToCall(k, r.who, r.reply)
    /\ UNCHANGED <<mode, owed, crashed, faults>>

\* cancel() and destroySocket() of a connection.
Destroyed(conn, err) ==
    [conn EXCEPT !.stage = "idle", !.queue = <<>>, !.ghosts = @ \/ conn.queue # <<>>,
                 !.login = IF HasLogin(conn.queue) THEN err ELSE @]

SocketFails(k) == \E err \in {"broken", "ended", "closed"} :
    LET conn == net.conns[k]
        n == [net EXCEPT !.conns[k] = Destroyed(conn, err)]
        cancelled == Failing(call, Callers(conn.queue), err)
    IN
    /\ Calm /\ Fault(IF HasLogin(conn.queue) THEN "login" ELSE err)
    /\ conn.stage = "open" /\ (err = "ended" => ~conn.ending)
    /\ owed' = [c \in Calls |-> IF c \in Operations(conn.queue) THEN owed[c] + 1 ELSE owed[c]]
    /\ IF err = "closed"
       THEN net' = n /\ call' = cancelled /\ UNCHANGED <<transport, db, crashed>>
       ELSE IF ~conn.heard \/ transport.retries > MaxRetries
       THEN crashed' = TRUE /\ UNCHANGED <<net, call, transport, db>>
       ELSE /\ net' = Reset(n, servers)
            /\ call' = Dropped(cancelled, n)
            /\ transport' = [NoSession EXCEPT !.retries = @ + 1]
            /\ db' = [db EXCEPT !.session = 0]
            /\ UNCHANGED crashed
    /\ UNCHANGED <<mode, servers>>

\* The server ends the socket of a db-close.  What was sent after it on a
\* connection that is no longer heard stays in its queue.
SocketEnds(k) ==
    LET conn == net.conns[k]
        n == [net EXCEPT !.conns[k] = [conn EXCEPT !.stage = "idle", !.ending = FALSE]]
    IN
    /\ Calm /\ conn.stage = "open" /\ conn.ending
    /\ IF conn.heard
       THEN /\ net' = Reset(n, servers) /\ call' = Dropped(call, n)
            /\ transport' = NoSession /\ db' = [db EXCEPT !.session = 0]
       ELSE net' = n /\ UNCHANGED <<call, transport, db>>
    /\ UNCHANGED <<mode, servers, owed, crashed, faults>>

\* The timer of a request that is not answered, or that was cancelled (a ghost):
\* once for each connection.
OperationTimeout(k) ==
    LET conn == net.conns[k] IN
    /\ Calm /\ Fault(IF HasLogin(conn.queue) THEN "login" ELSE "timeout")
    /\ ~conn.timedOut
    /\ conn.queue # <<>> \/ (conn.ghosts /\ (conn.heard \/ conn.stage # "idle"))
    /\ net' = [net EXCEPT !.conns[k] =
                  [Destroyed(conn, "ended") EXCEPT !.timedOut = TRUE, !.waiting = <<>>]]
    /\ call' = Moved(Failing(call, Callers(conn.queue), "ended"), Callers(conn.waiting), "stranded")
    /\ owed' = [c \in Calls |-> IF c \in Operations(conn.queue) THEN owed[c] + 1 ELSE owed[c]]
    /\ UNCHANGED <<mode, servers, transport, db, crashed>>

ConfigPushed(k) ==
    /\ Calm /\ Fault("config") /\ net.conns[k].stage = "open" /\ net.conns[k].heard
    /\ \E i \in 1..Len(servers) : ~servers[i].active      \* else nothing changes
    /\ UpdateConfig
    /\ UNCHANGED <<mode, net, transport, db, call, owed, crashed>>

-----------------------------------------------------------------------------
Progress ==
    \/ \E c \in Calls : Send(c) \/ AutoReconnectAndSend(c) \/ Open(c)
    \/ AutoReconnected
    \/ \E k \in Conns : LoginFails(k) \/ Connected(k) \/ Serve(k) \/ Reply(k) \/ SocketEnds(k)

Next ==
    \/ \E c \in Calls : Start(c) \/ Open(c) \/ Send(c) \/ AutoReconnectAndSend(c)
    \/ AutoReconnected
    \/ \E k \in Conns :
        \/ LoginFails(k) \/ Connected(k) \/ NotConnected(k) \/ Serve(k) \/ Reply(k)
        \/ SocketFails(k) \/ SocketEnds(k) \/ OperationTimeout(k) \/ ConfigPushed(k)

Spec == Init /\ [][Next]_vars /\ WF_vars(Progress)

(***************************************************************************)
(* Properties                                                              *)
(***************************************************************************)

\* An operation is executed again only if its connection was lost after it had
\* been written, once for each time.
ExecutedAgain == \A c \in Calls : owed[c] >= 0

\* What is written to a connection carries a session of that connection.
SessionOfTheConnection ==
    ~mode.pool => \A k \in Conns : \A i \in 1..Len(net.conns[k].queue) :
        net.conns[k].queue[i].session \in {0, k}

\* A call that nobody will answer: what it waits for was left on a connection
\* that has no socket any more.
LeftBehind(c) ==
    \/ At(c, {"stranded"})
    \/ \E k \in Conns : /\ net.conns[k].stage = "idle" /\ net.conns[k].login = "none"
                        /\ c \in Callers(net.conns[k].queue) \cup Waiters(k)
Abandoned(c) == LeftBehind(c) \/ (At(c, {"opening"}) /\ \E x \in Calls : LeftBehind(x))

\* One connection that is refused, breaks, ends or is given up for a timeout is
\* made good: the requests go to another server, and no call hears of it.  (Not
\* in the middle of a login, nor over a pool, nor beside a db-close, which
\* cancels what is sent after it.)
FailsOver ==
    /\ ~mode.pool /\ (\A c \in Calls : call[c].kind # "close")
    /\ Len(faults) <= 1 /\ (\A i \in 1..Len(faults) : faults[i] \in {"refused", "broken", "ended", "timeout"})
    => ~crashed /\ \A c \in Calls : ~At(c, {"rejected", "stranded"}) /\ ~Abandoned(c)

\* Every call is answered, except those that are known to be stranded.
Settling == ~crashed /\ \E c \in Calls : ~(At(c, {"idle", "resolved", "rejected"}) \/ Abandoned(c))
EventuallySettled == Settling ~> ~Settling
=============================================================================
