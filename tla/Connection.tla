------------------------------ MODULE Connection ------------------------------
(***************************************************************************)
(* One network connection of the driver: client/network/conn.js and the    *)
(* subclass ONetworkConnection of client/network/connection.js, with the   *)
(* part of protocol37/operation.js that decides whose reply the incoming   *)
(* bytes are (Operation.consume).                                          *)
(*                                                                         *)
(* JavaScript runs each callback to completion.  A callback that loops     *)
(* over data (process, the drain of resolved promises) is a sequence of    *)
(* steps here, one per iteration; ctl is the lock that keeps every other   *)
(* callback out until the loop ends.                                       *)
(*                                                                         *)
(* A message of the server is three units: its code byte (k = 1) and a     *)
(* body (k = 2, 3) the parser reads only when both halves have arrived, so *)
(* that a chunk may end before, inside and after a field.                  *)
(***************************************************************************)
EXTENDS Integers, Sequences, FiniteSets

CONSTANTS
    Requests,       \* the calls of Connection.send that may be made
    CloseRequests,  \* those of them that are REQUEST_DB_CLOSE
    NoRequest,      \* no request: the pool's factory called connect()
    PushCodes,      \* the unsolicited messages the server may send
    Exclusive,      \* TRUE: one request at a time, as a pool lends a connection
    MaxSockets,     \* bound on the sockets one Connection object opens
    MaxPushes       \* bound on the unsolicited messages

ASSUME ConnectionAssumption ==
    /\ CloseRequests \subseteq Requests
    /\ NoRequest \notin Requests
    /\ PushCodes \subseteq {"event", "liveError"}
    /\ Exclusive \in BOOLEAN
    /\ MaxSockets \in Nat
    /\ MaxPushes \in Nat

VARIABLES
    socket,      \* "null", "connect", "negotiate", "open"; "dead": set, no listeners
    connecting,  \* this.connecting: "no", "pending" or a "rejected" promise
    protocol,    \* this.protocol has been bound
    reconnectNow,\* this.reconnectNow
    queue,       \* this.queue: the operations waiting for their reply
    writes,      \* this.writes: requests kept while there is no socket
    bytes,       \* units sent by the server and not yet parsed
    received,    \* how many of them the client holds (buffer, this.remaining)
    initiator,   \* the request whose send() called connect()
    waiting,     \* the requests chained to the pending this.connecting
    ready,       \* the promise callbacks scheduled and not yet run
    ctl,         \* "idle", "drain", "process"; "overflow": the process died
    wire,        \* what the server has read from the current socket
    written,     \* requests with a reply written to the current socket
    answered,    \* replies the server has sent on the current socket
    last,        \* the last unit parsed from the current socket
    sockets,     \* sockets opened so far
    pushes,      \* unsolicited messages sent so far
    status,      \* what the caller of each request knows
    mishaps      \* history: which of the named mishaps have occurred

sockVars   == <<socket, connecting, protocol, reconnectNow, initiator, waiting, sockets>>
serverVars == <<wire, written, answered, pushes>>
streamVars == <<bytes, received, last>>
vars == <<sockVars, serverVars, streamVars, queue, writes, ready, ctl, status, mishaps>>

--------------------------------------------------------------------------------
(* Data.                                                                       *)

ReplyCodes == {"ok", "err"}
Codes      == {"ok", "err", "event", "liveError", "odd"}

Unit == [sock : Nat, n : Nat, code : Codes, k : 0 .. 3]

\* A message of code c on socket s: the n-th reply, or a push after n replies.
Units(s, n, c) == << [sock |-> s, n |-> n, code |-> c, k |-> 1],
                     [sock |-> s, n |-> n, code |-> c, k |-> 2],
                     [sock |-> s, n |-> n, code |-> c, k |-> 3] >>

\* The (imaginary) end of the message before the first one of socket s.
Origin(s) == [sock |-> s, n |-> 0, code |-> "ok", k |-> 3]

NoUnit == [sock |-> 0, n |-> 0, code |-> "odd", k |-> 0]

\* "fresh": PENDING with its read operations; "body", "push": READING, the code
\* byte is consumed; "robbed": PENDING, but its read operations are gone.
Stages == {"fresh", "body", "push", "robbed"}

Op == [req : Requests, sock : Nat, n : Nat, stage : Stages, head : Unit]

\* A continuation of ready: what is called, and for which request.
Job == [kind : {"handshake", "destroy"}, req : Requests \cup {NoRequest}]
         \cup [kind : {"send", "reject"}, req : Requests]

Statuses == {"unsent", "waiting", "queued",
             "resolved", "refused", "failed", "misread"}

Mishaps == {"staleBytes",   \* this.remaining survived its socket
            "pushPending",  \* a push was parsed by a pending operation
            "liveError",    \* a push no parser recognises, queue empty
            "earlyWrite",   \* a request or handshake written out of turn
            "abandoned"}    \* a socket was dropped, its operations were not

Clean == mishaps = {}

TypeOK ==
    /\ socket \in {"null", "connect", "negotiate", "open", "dead"}
    /\ connecting \in {"no", "pending", "rejected"}
    /\ protocol \in BOOLEAN
    /\ reconnectNow \in BOOLEAN
    /\ queue \in Seq(Op)
    /\ writes \in Seq(Requests)
    /\ bytes \in Seq(Unit)
    /\ received \in Nat
    /\ received <= Len(bytes)
    /\ initiator \in Requests \cup {NoRequest}
    /\ waiting \in Seq(Requests)
    /\ ready \in Seq(Job)
    /\ ctl \in {"idle", "drain", "process", "overflow"}
    /\ wire \in {"silent", "greeted", "closing", "broken"}
    /\ written \in Nat
    /\ answered \in Nat
    /\ last \in Unit
    /\ sockets \in Nat
    /\ pushes \in Nat
    /\ status \in [Requests -> Statuses]
    /\ mishaps \subseteq Mishaps

Init ==
    /\ socket = "null"
    /\ connecting = "no"
    /\ protocol = FALSE
    /\ reconnectNow = FALSE
    /\ queue = << >>
    /\ writes = << >>
    /\ bytes = << >>
    /\ received = 0
    /\ initiator = NoRequest
    /\ waiting = << >>
    /\ ready = << >>
    /\ ctl = "idle"
    /\ wire = "silent"
    /\ written = 0
    /\ answered = 0
    /\ last = Origin(0)
    /\ sockets = 0
    /\ pushes = 0
    /\ status = [r \in Requests |-> "unsent"]
    /\ mishaps = {}

Idle == ctl = "idle"

Settled(r) == status[r] \in {"resolved", "refused", "failed", "misread"}

Outstanding == {r \in Requests : status[r] \in {"waiting", "queued"}}

QueueReqs == {queue[i].req : i \in 1 .. Len(queue)}

Note(cond, mishap) == IF cond THEN {mishap} ELSE {}

--------------------------------------------------------------------------------
(* Writing a request.                                                          *)

\* socket.write(buffer) of an operation.  The server expects one handshake and
\* then requests; anything else leaves it reading garbage.
WriteRequest(w) ==
    /\ wire' = IF wire \in {"greeted", "closing"} THEN w ELSE "broken"
    /\ mishaps' = mishaps \cup Note(wire \notin {"greeted", "closing"}, "earlyWrite")

\* Mutant of Enqueue: unshift for push.
EnqueueFirst(r) ==
    /\ queue' = << [req |-> r, sock |-> sockets, n |-> written + 1,
                    stage |-> "fresh", head |-> NoUnit] >> \o queue
    /\ status' = [status EXCEPT ![r] = "queued"]

Enqueue(r) ==
    /\ queue' = Append(queue, [req |-> r, sock |-> sockets, n |-> written + 1,
                               stage |-> "fresh", head |-> NoUnit])
    /\ status' = [status EXCEPT ![r] = "queued"]

\* _sendOp: without a protocol the lookup of the operation throws inside the
\* promise; a db-close without a socket throws too.
SendWithoutProtocol(r) ==
    /\ ~protocol
    /\ status' = [status EXCEPT ![r] = "failed"]
    /\ UNCHANGED <<reconnectNow, wire, written, queue, writes, mishaps>>

SendDbClose(r) ==
    /\ protocol
    /\ r \in CloseRequests
    /\ reconnectNow' = TRUE
    /\ IF socket = "null"
       THEN /\ status' = [status EXCEPT ![r] = "failed"]
            /\ UNCHANGED <<wire, mishaps>>
       ELSE /\ status' = [status EXCEPT ![r] = "resolved"]
            /\ WriteRequest("closing")
    /\ UNCHANGED <<written, queue, writes>>

SendNormally(r) ==
    /\ protocol
    /\ r \notin CloseRequests
    /\ Enqueue(r)
    /\ IF socket = "null"
       THEN /\ writes' = Append(writes, r)
            /\ mishaps' = mishaps \cup {"earlyWrite"}
            /\ UNCHANGED <<wire, written>>
       ELSE /\ WriteRequest(wire)
            /\ written' = written + 1
            /\ UNCHANGED writes
    /\ UNCHANGED reconnectNow

SendOp(r) == SendWithoutProtocol(r) \/ SendDbClose(r) \/ SendNormally(r)

--------------------------------------------------------------------------------
(* Connecting.                                                                 *)

\* createSocket and negotiateConnection, called by connect().
OpenSocket(r) ==
    /\ connecting = "no"
    /\ socket = "null"
    /\ sockets < MaxSockets
    /\ socket' = "connect"
    /\ connecting' = "pending"
    /\ initiator' = r
    /\ sockets' = sockets + 1
    /\ wire' = "silent"
    /\ written' = 0
    /\ answered' = 0
    /\ last' = Origin(sockets + 1)

\* PoolFactory.create: the connection is fresh.
Connect ==
    /\ Idle
    /\ sockets = 0
    /\ OpenSocket(NoRequest)
    /\ UNCHANGED <<protocol, reconnectNow, waiting, pushes, bytes, received,
                   queue, writes, ready, ctl, status, mishaps>>

\* A pool lends the connection to one caller at a time, and only if the connect()
\* of its factory succeeded.
MaySend(r) ==
    /\ Idle
    /\ status[r] = "unsent"
    /\ Exclusive => /\ Outstanding = {}
                    /\ protocol
                    /\ connecting = "no"
                    /\ ready = << >>

\* send() while this.connecting is set: chained to that promise.
SendWhileConnecting(r) ==
    /\ MaySend(r)
    /\ \/ /\ connecting = "pending"
          /\ waiting' = Append(waiting, r)
          /\ UNCHANGED ready
       \/ /\ connecting = "rejected"
          /\ ready' = Append(ready, [kind |-> "reject", req |-> r])
          /\ UNCHANGED waiting
    /\ status' = [status EXCEPT ![r] = "waiting"]
    /\ UNCHANGED <<socket, connecting, protocol, reconnectNow, initiator, sockets,
                   serverVars, streamVars, queue, writes, ctl, mishaps>>

SendOnSocket(r) ==
    /\ MaySend(r)
    /\ connecting = "no"
    /\ socket # "null"
    /\ SendOp(r)
    /\ UNCHANGED <<socket, connecting, protocol, initiator, waiting, sockets,
                   answered, pushes, streamVars, ready, ctl>>

SendAndConnect(r) ==
    /\ MaySend(r)
    /\ OpenSocket(r)
    /\ status' = [status EXCEPT ![r] = "waiting"]
    /\ UNCHANGED <<protocol, reconnectNow, waiting, pushes, bytes, received,
                   queue, writes, ready, ctl, mishaps>>

Send(r) == SendWhileConnecting(r) \/ SendOnSocket(r) \/ SendAndConnect(r)

SocketConnect ==
    /\ Idle
    /\ socket = "connect"
    /\ socket' = "negotiate"
    /\ UNCHANGED <<connecting, protocol, reconnectNow, initiator, waiting, sockets,
                   serverVars, streamVars, queue, writes, ready, ctl, status, mishaps>>

Jobs(kind, reqs) == [i \in 1 .. Len(reqs) |-> [kind |-> kind, req |-> reqs[i]]]

\* Mutant of NegotiateProtocol: connect() does not wait for the handshake.
NegotiateWithoutWaiting ==
    /\ Idle
    /\ socket = "negotiate"
    /\ socket' = "open"
    /\ connecting' = "no"
    /\ protocol' = TRUE
    /\ ready' = ready \o (IF initiator = NoRequest THEN << >>
                          ELSE Jobs("send", << initiator >>))
                      \o << [kind |-> "handshake", req |-> NoRequest] >>
                      \o Jobs("send", waiting)
    /\ initiator' = NoRequest
    /\ waiting' = << >>
    /\ UNCHANGED <<reconnectNow, sockets, answered, pushes, streamVars, wire, written,
                   writes, queue, ctl, status, mishaps>>

\* The server's protocol version has arrived: resolve the promise, bind the
\* handlers and, in the next tick, flush this.writes.
NegotiateProtocol ==
    /\ Idle
    /\ socket = "negotiate"
    /\ socket' = "open"
    /\ connecting' = "no"
    /\ protocol' = TRUE
    /\ ready' = ready \o << [kind |-> "handshake", req |-> initiator] >>
                      \o Jobs("send", waiting)
    /\ initiator' = NoRequest
    /\ waiting' = << >>
    /\ writes' = << >>
    /\ IF writes = << >>
       THEN UNCHANGED <<wire, written>>
       ELSE wire' = "broken" /\ written' = written + Len(writes)
    /\ UNCHANGED <<reconnectNow, sockets, answered, pushes, streamVars,
                   queue, ctl, status, mishaps>>

\* The error, close and end listeners of the negotiation, or a protocol version
\* the driver does not support.  Only the latter leaves connecting set.
NegotiationFails ==
    /\ Idle
    /\ \/ socket \in {"connect", "negotiate"} /\ connecting' = "no"
       \/ socket = "negotiate" /\ connecting' = "rejected"
    /\ socket' = "dead"
    /\ ready' = ready \o << [kind |-> "destroy", req |-> initiator] >>
                      \o Jobs("reject", waiting)
    /\ initiator' = NoRequest
    /\ waiting' = << >>
    /\ UNCHANGED <<protocol, reconnectNow, sockets, serverVars, streamVars,
                   queue, writes, ctl, status, mishaps>>

--------------------------------------------------------------------------------
(* Losing the socket.                                                          *)

\* destroySocket, or the body of close().  Bytes in flight are lost with the
\* socket, this.remaining is not.  leftover is the queue the handler leaves.
DropSocket(leftover) ==
    /\ socket' = "null"
    /\ bytes' = SubSeq(bytes, 1, received)
    /\ mishaps' = mishaps
         \cup Note(received > 0, "staleBytes")
         \cup Note(leftover # << >> \/ connecting = "pending", "abandoned")
    /\ initiator' = NoRequest
    /\ waiting' = << >>
    /\ UNCHANGED <<received, last>>

\* Mutant of Cancel: the queue is emptied, but nobody is told.
CancelSilently(reqs) == status

\* cancel(err): every queued operation is rejected.
Cancel(reqs) == [r \in Requests |-> IF r \in reqs THEN "failed" ELSE status[r]]

\* Mutant of SocketFails: the call of cancel is missing.
SocketFailsNoCancel ==
    /\ Idle
    /\ socket = "open"
    /\ connecting' = "no"
    /\ DropSocket(<< >>)
    /\ UNCHANGED <<protocol, reconnectNow, sockets, serverVars, queue, writes,
                   ready, ctl, status>>

\* handleSocketError, handleSocketClose, and handleSocketEnd when no db-close
\* was sent.
SocketFails ==
    /\ Idle
    /\ socket = "open"
    /\ queue' = << >>
    /\ status' = Cancel(QueueReqs)
    /\ connecting' = "no"
    /\ DropSocket(<< >>)
    /\ UNCHANGED <<protocol, reconnectNow, sockets, serverVars, writes, ready, ctl>>

\* handleSocketEnd after a db-close: the queue is left as it is.
SocketEndsToReconnect ==
    /\ Idle
    /\ socket = "open"
    /\ reconnectNow
    /\ reconnectNow' = FALSE
    /\ connecting' = "no"
    /\ DropSocket(queue)
    /\ UNCHANGED <<protocol, sockets, serverVars, queue, writes, ready, ctl, status>>

\* forceClose().  connecting keeps its value, and with it a promise that will
\* never be settled.  A pool destroys only a connection nobody has borrowed.
Close ==
    /\ Idle
    /\ socket # "null"
    /\ ~Exclusive
    /\ UNCHANGED connecting
    /\ DropSocket(queue)
    /\ UNCHANGED <<protocol, reconnectNow, sockets, serverVars, queue, writes,
                   ready, ctl, status>>

--------------------------------------------------------------------------------
(* The drain of the promise callbacks: one turn of the event loop runs them    *)
(* all, those they schedule in the meantime included.                          *)

Draining == ctl \in {"idle", "drain"} /\ ready # << >>

EndTurn == ctl' = IF ready' = << >> THEN "idle" ELSE "drain"

\* protocol.handshake writes to whatever socket there is, then the request that
\* called connect() goes out after those that waited for it.
RunHandshake ==
    /\ Draining
    /\ Head(ready).kind = "handshake"
    /\ LET r == Head(ready).req IN
       IF socket = "null"
       THEN /\ ready' = Tail(ready)
            /\ status' = IF r = NoRequest THEN status
                         ELSE [status EXCEPT ![r] = "failed"]
            /\ connecting' = "no"
            /\ UNCHANGED <<wire, mishaps>>
       ELSE /\ ready' = Tail(ready) \o IF r = NoRequest THEN << >>
                                       ELSE << [kind |-> "send", req |-> r] >>
            /\ wire' = IF wire = "silent" /\ socket = "open" THEN "greeted" ELSE "broken"
            /\ mishaps' = mishaps
                 \cup Note(wire # "silent" \/ socket # "open", "earlyWrite")
            /\ UNCHANGED <<status, connecting>>
    /\ EndTurn
    /\ UNCHANGED <<socket, protocol, reconnectNow, initiator, waiting, sockets,
                   written, answered, pushes, streamVars, queue, writes>>

RunSend ==
    /\ Draining
    /\ Head(ready).kind = "send"
    /\ SendOp(Head(ready).req)
    /\ ready' = Tail(ready)
    /\ EndTurn
    /\ UNCHANGED <<socket, connecting, protocol, initiator, waiting, sockets,
                   answered, pushes, streamVars>>

RunReject ==
    /\ Draining
    /\ Head(ready).kind = "reject"
    /\ status' = [status EXCEPT ![Head(ready).req] = "failed"]
    /\ ready' = Tail(ready)
    /\ EndTurn
    /\ UNCHANGED <<sockVars, serverVars, streamVars, queue, writes, mishaps>>

\* The catch of ONetworkConnection.connect: destroySocket, then reject.
RunDestroy ==
    /\ Draining
    /\ Head(ready).kind = "destroy"
    /\ LET r == Head(ready).req IN
       status' = IF r = NoRequest THEN status ELSE [status EXCEPT ![r] = "failed"]
    /\ ready' = Tail(ready)
    /\ EndTurn
    /\ connecting' = "no"
    /\ DropSocket(queue)
    /\ UNCHANGED <<protocol, reconnectNow, sockets, serverVars, queue, writes>>

--------------------------------------------------------------------------------
(* Reading.                                                                    *)

\* A chunk of the bytes in flight is handed to handleSocketData.
HandleSocketData(n) ==
    /\ Idle
    /\ socket = "open"
    /\ received + n <= Len(bytes)
    /\ received' = received + n
    /\ ctl' = "process"
    /\ UNCHANGED <<sockVars, serverVars, bytes, last, queue, writes, ready,
                   status, mishaps>>

Consume(n) ==
    /\ bytes' = SubSeq(bytes, n + 1, Len(bytes))
    /\ received' = received - n
    /\ last' = bytes[n]

\* What the parser takes the next byte for.  A byte that is not a code byte can
\* be mistaken for any code.
CodeByte == IF bytes[1].k = 1 THEN {bytes[1].code} ELSE Codes

Processing == ctl = "process"

\* No operation is queued: a fresh Operation looks at the bytes, and handles a
\* push it knows once all of it is there.
ProcessPush ==
    /\ Processing
    /\ queue = << >>
    /\ received >= 3
    /\ "event" \in CodeByte
    /\ Consume(3)
    /\ UNCHANGED <<sockVars, serverVars, queue, writes, ready, ctl, status, mishaps>>

\* ... but returns COMPLETE at the same offset for anything else, and
\* handleSocketData calls itself on the same bytes until the stack is exhausted.
ProcessForever ==
    /\ Processing
    /\ queue = << >>
    /\ \/ received >= 1 /\ CodeByte \ {"event", "liveError"} # {}
       \/ received >= 3 /\ "liveError" \in CodeByte
    /\ ctl' = "overflow"
    /\ mishaps' = mishaps \cup Note("liveError" \in CodeByte, "liveError")
    /\ UNCHANGED <<sockVars, serverVars, streamVars, queue, writes, ready, status>>

\* Nothing more can be parsed: the rest is kept in this.remaining.
ProcessEnds ==
    /\ Processing
    /\ \/ /\ queue = << >>
          /\ \/ received = 0
             \/ received \in 1 .. 2 /\ CodeByte \cap {"event", "liveError"} # {}
       \/ /\ queue # << >>
          /\ received < IF queue[1].stage \in {"fresh", "robbed"} THEN 1 ELSE 2
    /\ ctl' = "idle"
    /\ UNCHANGED <<sockVars, serverVars, streamVars, queue, writes, ready,
                   status, mishaps>>

SetHead(stage, head) ==
    queue' = [queue EXCEPT ![1] = [req |-> @.req, sock |-> @.sock, n |-> @.n,
                                   stage |-> stage, head |-> head]]

\* The head of the queue is PENDING: it reads the code byte of the next message.
\* For a push it puts its own read operations aside, and never takes them back.
ReadCode ==
    /\ Processing
    /\ queue # << >>
    /\ received >= 1
    /\ \E c \in CodeByte :
          \/ /\ queue[1].stage \in {"fresh", "robbed"}
             /\ c \in {"event", "liveError"}
             /\ SetHead("push", [bytes[1] EXCEPT !.code = c])
             /\ mishaps' = mishaps \cup {"pushPending"}
          \/ /\ queue[1].stage = "fresh"
             /\ c \notin {"event", "liveError"}
             /\ SetHead("body", [bytes[1] EXCEPT !.code = c])
             /\ UNCHANGED mishaps
    /\ Consume(1)
    /\ UNCHANGED <<sockVars, serverVars, writes, ready, ctl, status>>

\* Is the message whose code byte op has read, and whose body is b, b2, its reply?
OwnReply(op, b, b2) ==
    /\ op.head.code \in ReplyCodes
    /\ << op.head, b, b2 >> = Units(op.sock, op.n, op.head.code)

Outcome(op, b, b2) ==
    CASE ~OwnReply(op, b, b2)  -> "misread"
      [] op.head.code = "ok"   -> "resolved"
      [] OTHER                 -> "refused"

\* Mutant of ReadReply: the offset is one field short.
ReadReplyShort ==
    /\ Processing
    /\ queue # << >>
    /\ queue[1].stage = "body"
    /\ received >= 2
    /\ Consume(1)
    /\ queue' = Tail(queue)
    /\ status' = [status EXCEPT
         ![queue[1].req] = Outcome(queue[1], bytes[1], bytes[2])]
    /\ UNCHANGED <<sockVars, serverVars, writes, ready, ctl, mishaps>>

\* Mutant of ReadReply: a refused operation takes the next one out of the queue.
ReadReplyShiftingTwice ==
    /\ Processing
    /\ queue # << >>
    /\ queue[1].stage = "body"
    /\ received >= 2
    /\ Consume(2)
    /\ queue' = SubSeq(queue, IF queue[1].head.code = "err" THEN 3 ELSE 2, Len(queue))
    /\ status' = [status EXCEPT
         ![queue[1].req] = Outcome(queue[1], bytes[1], bytes[2])]
    /\ UNCHANGED <<sockVars, serverVars, writes, ready, ctl, mishaps>>

\* A reply is complete.  A code that is neither 0 nor 1 cancels the whole queue.
ReadReply ==
    /\ Processing
    /\ queue # << >>
    /\ queue[1].stage = "body"
    /\ received >= 2
    /\ Consume(2)
    /\ IF queue[1].head.code = "odd"
       THEN /\ queue' = << >>
            /\ status' = Cancel(QueueReqs)
       ELSE /\ queue' = Tail(queue)
            /\ status' = [status EXCEPT
                 ![queue[1].req] = Outcome(queue[1], bytes[1], bytes[2])]
    /\ UNCHANGED <<sockVars, serverVars, writes, ready, ctl, mishaps>>

\* A push parsed by a queued operation is complete: the operation goes back to
\* PENDING, or, for a push error, is completed with an empty result.
ReadPush ==
    /\ Processing
    /\ queue # << >>
    /\ queue[1].stage = "push"
    /\ received >= 2
    /\ Consume(2)
    /\ \/ /\ queue[1].head.code = "event"
          /\ SetHead("robbed", NoUnit)
          /\ UNCHANGED status
       \/ /\ queue[1].head.code = "liveError"
          /\ queue' = Tail(queue)
          /\ status' = [status EXCEPT ![queue[1].req] = "misread"]
    /\ UNCHANGED <<sockVars, serverVars, writes, ready, ctl, mishaps>>

\* An operation whose read operations are gone completes on the first byte of
\* any reply, without consuming it.
CompleteEmpty ==
    /\ Processing
    /\ queue # << >>
    /\ queue[1].stage = "robbed"
    /\ received >= 1
    /\ CodeByte \ {"event", "liveError"} # {}
    /\ queue' = Tail(queue)
    /\ status' = [status EXCEPT ![queue[1].req] = "misread"]
    /\ UNCHANGED <<sockVars, serverVars, streamVars, writes, ready, ctl, mishaps>>

--------------------------------------------------------------------------------
(* The server: it answers the requests of a socket in order.  It moves only    *)
(* between two turns of the client: until then its bytes are in flight anyway. *)
(* A db-close is the last request it reads; on a pooled connection nothing is  *)
(* outstanding when it is written, on another what was sent before it may      *)
(* still be answered (and, in the model, what was sent after it).              *)

ServerReply ==
    /\ Idle
    /\ socket = "open"
    /\ wire = "greeted" \/ (wire = "closing" /\ ~Exclusive)
    /\ answered < written
    /\ \E c \in ReplyCodes : bytes' = bytes \o Units(sockets, answered + 1, c)
    /\ answered' = answered + 1
    /\ UNCHANGED <<sockVars, wire, written, pushes, received, last, queue, writes,
                   ready, ctl, status, mishaps>>

ServerPush ==
    /\ Idle
    /\ socket = "open"
    /\ wire = "greeted"
    /\ pushes < MaxPushes
    /\ \E c \in PushCodes : bytes' = bytes \o Units(sockets, answered, c)
    /\ pushes' = pushes + 1
    /\ UNCHANGED <<sockVars, wire, written, answered, received, last, queue, writes,
                   ready, ctl, status, mishaps>>

--------------------------------------------------------------------------------
Drain == RunHandshake \/ RunSend \/ RunReject \/ RunDestroy

Process == ProcessPush \/ ProcessForever \/ ProcessEnds
             \/ ReadCode \/ ReadReply \/ ReadPush \/ CompleteEmpty

Next ==
    \/ Connect
    \/ \E r \in Requests : Send(r)
    \/ SocketConnect
    \/ NegotiateProtocol
    \/ NegotiationFails
    \/ SocketFails
    \/ SocketEndsToReconnect
    \/ Close
    \/ Drain
    \/ \E n \in 1 .. Len(bytes) : HandleSocketData(n)
    \/ Process
    \/ ServerReply
    \/ ServerPush

Spec == Init /\ [][Next]_vars

\* What keeps the program going: the event loop runs the scheduled callbacks and
\* the loops they are in, the network connects or fails and delivers, the server
\* answers, and ends a socket on which it has read a db-close.
Fairness ==
    /\ WF_vars(SocketConnect)
    /\ WF_vars(NegotiateProtocol \/ NegotiationFails)
    /\ WF_vars(Drain)
    /\ WF_vars(\E n \in 1 .. Len(bytes) : HandleSocketData(n))
    /\ WF_vars(Process)
    /\ WF_vars(wire = "greeted" /\ ServerReply)
    /\ WF_vars(wire = "closing" /\ (SocketFails \/ SocketEndsToReconnect))

FairSpec == Spec /\ Fairness

--------------------------------------------------------------------------------
(* Properties.                                                                 *)

\* The caller of send() is handed its own reply ("@promise {Object} The result of
\* the operation", conn.js:59), whatever the chunks the bytes arrive in, the
\* errors, the reconnections and the pushes between replies: a reply goes to the
\* wrong caller only after one of the named mishaps.
RepliesMatch == Clean => \A r \in Requests : status[r] # "misread"

\* A call of send() that is not settled is in exactly one place from which a
\* handler will settle it: chained to a pending or just settled connect(), or in
\* the queue of a live socket.
Chained(r) ==
    \/ r = initiator
    \/ \E i \in 1 .. Len(waiting) : waiting[i] = r
    \/ \E i \in 1 .. Len(ready) : ready[i].req = r

NothingLost == Clean =>
    \A r \in Requests :
        /\ status[r] = "waiting" => Chained(r) /\ r \notin QueueReqs
        /\ status[r] = "queued" => /\ socket = "open"
                                   /\ ~Chained(r)
                                   /\ \E i \in 1 .. Len(queue) :
                                        /\ queue[i].req = r
                                        /\ \A j \in 1 .. Len(queue) :
                                             queue[j].req = r => j = i

\* handleSocketData calls itself again only if process made progress: the recursion
\* that kills the process needs a push error or one of the other mishaps.
NoRunaway == ctl = "overflow" => ~Clean

\* On a pooled connection the server reads the handshake before any request, on
\* the first socket and after every reconnection, although the handshake is
\* written by a promise callback and the requests by others.
HandshakeFirst == Exclusive => wire # "broken" /\ "earlyWrite" \notin mishaps

\* Every call of send() is settled, unless a mishap struck the connection.
EventuallySettled ==
    \A r \in Requests :
        status[r] \in {"waiting", "queued"} ~> Settled(r) \/ ~Clean


(* What the repository says of the program, and its runs refute.               *)

\* "@promise {Object} The result of the operation." (conn.js:59, 76), and of the
\* parser: "determine whether the response we're reading is really for us or whether
\* it's a PUSH_DATA command" (protocol37/operation.js:452-454).
ResultOfTheOperation == \A r \in Requests : status[r] # "misread"

--------------------------------------------------------------------------------
(* Why RepliesMatch and NoRunaway hold: an inductive invariant of the clean    *)
(* behaviours.  The bytes on their way to the parser are the continuation of   *)
(* what it has parsed, and the queue is exactly the replies still to come.     *)

\* v may follow u in the stream of a socket.
Follows(u, v) ==
    \/ /\ u.k < 3
       /\ v.k = u.k + 1
       /\ v.n = u.n
       /\ v.code = u.code
    \/ /\ u.k = 3
       /\ v.k = 1
       /\ v.n = IF v.code \in ReplyCodes THEN u.n + 1 ELSE u.n

\* The replies the parser has handed out, or begun to skip to.
Settlements == written - Len(queue)

StreamInOrder ==
    /\ last.sock = sockets
    /\ last.k \in 1 .. 3
    /\ answered <= written
    /\ bytes # << >> => Follows(last, bytes[1])
    /\ \A i \in 1 .. Len(bytes) :
          /\ bytes[i].sock = sockets
          /\ bytes[i].k \in 1 .. 3
          /\ bytes[i].n <= answered
          /\ bytes[i].code # "odd"
          /\ i < Len(bytes) => Follows(bytes[i], bytes[i + 1])
    /\ LET end == IF bytes = << >> THEN last ELSE bytes[Len(bytes)]
       IN end.k = 3 /\ end.n = answered

QueueInOrder ==
    /\ \A i \in 1 .. Len(queue) :
          /\ queue[i].sock = sockets
          /\ queue[i].n = Settlements + i
          /\ i > 1 => queue[i].stage = "fresh"
    /\ queue # << >> => queue[1].stage \in {"fresh", "body"}
    /\ (queue = << >> \/ queue[1].stage = "fresh") => last.k = 3 /\ last.n = Settlements
    /\ (queue # << >> /\ queue[1].stage = "body") =>
          /\ last = queue[1].head
          /\ last.k = 1
          /\ last.n = Settlements + 1
          /\ last.code \in ReplyCodes

\* Before the handshake nothing has been asked, so nothing is on its way.
NothingAsked ==
    /\ wire = "silent"
    /\ written = 0
    /\ answered = 0
    /\ last = Origin(sockets)
    /\ bytes = << >>
    /\ queue = << >>

InOrder ==
    /\ writes = << >>
    /\ \A r \in Requests : status[r] # "misread"
    /\ ctl # "overflow"
    /\ socket # "open" => bytes = << >> /\ queue = << >>
    /\ socket \in {"connect", "negotiate", "dead"} => NothingAsked
    /\ socket = "open" => /\ wire # "broken"
                          /\ wire = "silent" => NothingAsked
                          /\ StreamInOrder
                          /\ QueueInOrder

ReplyOrder == Clean => InOrder

\* A Connection is a RequestChannel as long as no mishap strikes it: replies are
\* given in the order of the requests, each to its own caller and only once the
\* server has given it, and the loss of the socket fails every request sent on it.
Rpc == INSTANCE RequestChannel WITH
    OneWay   <- CloseRequests,
    call     <- status,
    pipeline <- [i \in 1 .. Len(queue) |-> queue[i].req],
    served   <- IF socket = "open" THEN answered - (written - Len(queue)) ELSE 0,
    sound    <- Clean

ImplementsRequestChannel == Rpc!Spec
================================================================================
