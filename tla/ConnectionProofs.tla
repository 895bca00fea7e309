--------------------------- MODULE ConnectionProofs ---------------------------
(* Proofs about Connection, for every set of requests and every bound.         *)
EXTENDS Connection, SequenceTheorems, TLAPS

LEMMA UnitsType ==
    ASSUME NEW s \in Nat, NEW n \in Nat, NEW c \in Codes
    PROVE  /\ Units(s, n, c) \in Seq(Unit)
           /\ Len(Units(s, n, c)) = 3
BY DEF Units, Unit

LEMMA JobsType ==
    ASSUME NEW kind \in {"send", "reject"},
           NEW reqs \in Seq(Requests)
    PROVE  Jobs(kind, reqs) \in Seq(Job)
BY DEF Jobs, Job

LEMMA OriginType == ASSUME NEW s \in Nat PROVE Origin(s) \in Unit
BY DEF Origin, Unit, Codes

LEMMA InitTypeOK == Init => TypeOK
<1> SUFFICES ASSUME Init PROVE TypeOK
  OBVIOUS
<1>1. last \in Unit
  BY OriginType DEF Init
<1>2. << >> \in Seq(Op) /\ << >> \in Seq(Requests) /\ << >> \in Seq(Unit) /\ << >> \in Seq(Job)
  OBVIOUS
<1>3. protocol \in BOOLEAN /\ reconnectNow \in BOOLEAN
  BY Zenon DEF Init
<1>4. received \in Nat /\ received <= Len(bytes)
  BY DEF Init
<1>5. status \in [Requests -> Statuses]
  BY DEF Init, Statuses
<1> QED
  BY <1>1, <1>2, <1>3, <1>4, <1>5 DEF Init, TypeOK

LEMMA SendOpTypeOK ==
    ASSUME TypeOK, NEW r \in Requests, SendOp(r)
    PROVE  /\ reconnectNow' \in BOOLEAN
           /\ queue' \in Seq(Op)
           /\ writes' \in Seq(Requests)
           /\ wire' \in {"silent", "greeted", "closing", "broken"}
           /\ written' \in Nat
           /\ status' \in [Requests -> Statuses]
           /\ mishaps' \subseteq Mishaps
<1> USE DEF TypeOK, Statuses, Mishaps, Note
<1>1. CASE SendWithoutProtocol(r)
  <2>1. status' \in [Requests -> Statuses]
    BY <1>1 DEF SendWithoutProtocol
  <2>2. reconnectNow' \in BOOLEAN
    BY <1>1, Zenon DEF SendWithoutProtocol
  <2> QED
    BY <1>1, <2>1, <2>2 DEF SendWithoutProtocol
<1>2. CASE SendDbClose(r)
  <2>1. status' \in [Requests -> Statuses]
    BY <1>2 DEF SendDbClose
  <2>2. reconnectNow' \in BOOLEAN
    BY <1>2, Zenon DEF SendDbClose
  <2>3. mishaps' \subseteq Mishaps
    BY <1>2 DEF SendDbClose, WriteRequest
  <2>4. wire' \in {"silent", "greeted", "closing", "broken"}
    BY <1>2 DEF SendDbClose, WriteRequest
  <2> QED
    BY <1>2, <2>1, <2>2, <2>3, <2>4 DEF SendDbClose
<1>3. CASE SendNormally(r)
  <2>1. [req |-> r, sock |-> sockets, n |-> written + 1,
         stage |-> "fresh", head |-> NoUnit] \in Op
    BY DEF Op, Stages, NoUnit, Unit, Codes
  <2>2. queue' \in Seq(Op)
    BY <1>3, <2>1 DEF SendNormally, Enqueue
  <2>3. status' \in [Requests -> Statuses]
    BY <1>3 DEF SendNormally, Enqueue
  <2>4. reconnectNow' \in BOOLEAN
    BY <1>3, Zenon DEF SendNormally
  <2>5. writes' \in Seq(Requests) /\ written' \in Nat
    <3>1. writes \in Seq(Requests) /\ written \in Nat
      OBVIOUS
    <3>2. Append(writes, r) \in Seq(Requests)
      BY <3>1, AppendProperties
    <3>3. CASE socket = "null"
      BY <1>3, <3>1, <3>2, <3>3 DEF SendNormally
    <3>4. CASE socket # "null"
      BY <1>3, <3>1, <3>4 DEF SendNormally
    <3> QED
      BY <3>3, <3>4
  <2>6. mishaps' \subseteq Mishaps
    BY <1>3 DEF SendNormally, WriteRequest
  <2>7. wire' \in {"silent", "greeted", "closing", "broken"}
    BY <1>3 DEF SendNormally, WriteRequest
  <2> QED
    BY <2>2, <2>3, <2>4, <2>5, <2>6, <2>7
<1> QED
  BY <1>1, <1>2, <1>3 DEF SendOp

LEMMA DropSocketTypeOK ==
    ASSUME TypeOK, NEW leftover, DropSocket(leftover)
    PROVE  /\ socket' = "null"
           /\ bytes' \in Seq(Unit)
           /\ received' \in Nat
           /\ received' <= Len(bytes')
           /\ initiator' \in Requests \cup {NoRequest}
           /\ waiting' \in Seq(Requests)
           /\ last' \in Unit
           /\ mishaps' \subseteq Mishaps
BY SubSeqProperties DEF DropSocket, TypeOK, Mishaps, Note

LEMMA ConsumeTypeOK ==
    ASSUME TypeOK, NEW n \in Nat \ {0}, received >= n, Consume(n)
    PROVE  /\ bytes' \in Seq(Unit)
           /\ received' \in Nat
           /\ received' <= Len(bytes')
           /\ last' \in Unit
BY SubSeqProperties, ElementOfSeq DEF Consume, TypeOK

LEMMA OpenSocketTypeOK ==
    ASSUME TypeOK, NEW r \in Requests \cup {NoRequest}, OpenSocket(r)
    PROVE  /\ socket' \in {"null", "connect", "negotiate", "open", "dead"}
           /\ connecting' \in {"no", "pending", "rejected"}
           /\ initiator' \in Requests \cup {NoRequest}
           /\ sockets' \in Nat
           /\ wire' \in {"silent", "greeted", "closing", "broken"}
           /\ written' \in Nat
           /\ answered' \in Nat
           /\ last' \in Unit
BY OriginType DEF OpenSocket, TypeOK

\* What a step leaves unchanged keeps its type.
LEMMA TailReady ==
    ASSUME TypeOK, ready # << >>
    PROVE  /\ Head(ready) \in Job
           /\ Tail(ready) \in Seq(Job)
BY HeadTailProperties DEF TypeOK

LEMMA HeadTypes ==
    ASSUME TypeOK, NEW stage \in Stages, NEW head \in Unit,
           queue # << >>, SetHead(stage, head)
    PROVE  /\ queue' \in Seq(Op)
           /\ Len(queue') = Len(queue)
           /\ queue'[1] = [req |-> queue[1].req, sock |-> queue[1].sock,
                           n |-> queue[1].n, stage |-> stage, head |-> head]
           /\ \A i \in 2 .. Len(queue) : queue'[i] = queue[i]
<1>1. queue \in Seq(Op) /\ Len(queue) \in Nat \ {0}
  BY EmptySeq DEF TypeOK
<1> DEFINE new == [req |-> queue[1].req, sock |-> queue[1].sock,
                   n |-> queue[1].n, stage |-> stage, head |-> head]
<1>2. queue[1] \in Op /\ 1 \in 1 .. Len(queue)
  BY <1>1, ElementOfSeq
<1>3. new \in Op
  BY <1>2 DEF Op
<1>4. queue' = [queue EXCEPT ![1] = new]
  BY <1>1, <1>2 DEF SetHead
<1> HIDE DEF new
<1>5. /\ [queue EXCEPT ![1] = new] \in Seq(Op)
      /\ Len([queue EXCEPT ![1] = new]) = Len(queue)
      /\ \A j \in 1 .. Len(queue) :
           [queue EXCEPT ![1] = new][j] = IF j = 1 THEN new ELSE queue[j]
  BY <1>1, <1>2, <1>3, ExceptSeq
<1>6. /\ queue' \in Seq(Op)
      /\ Len(queue') = Len(queue)
      /\ queue'[1] = new
      /\ \A j \in 2 .. Len(queue) : queue'[j] = queue[j]
  BY <1>2, <1>4, <1>5
<1> QED
  BY <1>6 DEF new

LEMMA CancelType ==
    ASSUME TypeOK, NEW reqs
    PROVE  Cancel(reqs) \in [Requests -> Statuses]
BY DEF Cancel, TypeOK, Statuses

LEMMA CodeByteType ==
    ASSUME TypeOK, received >= 1
    PROVE  /\ bytes[1] \in Unit
           /\ bytes[1].code \in Codes
           /\ CodeByte \subseteq Codes
           /\ \A c \in Codes : [bytes[1] EXCEPT !.code = c] \in Unit
<1>1. bytes[1] \in Unit
  BY ElementOfSeq DEF TypeOK
<1> QED
  BY <1>1 DEF Unit, CodeByte

LEMMA NextTypeOK == TypeOK /\ [Next]_vars => TypeOK'
<1> SUFFICES ASSUME TypeOK, [Next]_vars
             PROVE  TypeOK'
  OBVIOUS
<1> USE DEF sockVars, serverVars, streamVars
<1>1. CASE Connect
  BY <1>1, OpenSocketTypeOK DEF Connect, TypeOK
<1>2. ASSUME NEW r \in Requests, Send(r)
      PROVE  TypeOK'
  <2>1. CASE SendWhileConnecting(r)
    <3>1. status' \in [Requests -> Statuses]
      BY <2>1 DEF SendWhileConnecting, TypeOK, Statuses
    <3>2. waiting' \in Seq(Requests) /\ ready' \in Seq(Job)
      <4>1. waiting \in Seq(Requests) /\ ready \in Seq(Job)
        BY DEF TypeOK
      <4>2. [kind |-> "reject", req |-> r] \in Job
        BY DEF Job
      <4>3. /\ Append(waiting, r) \in Seq(Requests)
            /\ Append(ready, [kind |-> "reject", req |-> r]) \in Seq(Job)
        BY <4>1, <4>2, AppendProperties
      <4> QED
        BY <2>1, <4>1, <4>3 DEF SendWhileConnecting
    <3> QED
      BY <2>1, <3>1, <3>2 DEF SendWhileConnecting, TypeOK
  <2>2. CASE SendOnSocket(r)
    BY <2>2, SendOpTypeOK DEF SendOnSocket, TypeOK
  <2>3. CASE SendAndConnect(r)
    <3>1. status' \in [Requests -> Statuses]
      BY <2>3 DEF SendAndConnect, TypeOK, Statuses
    <3> QED
      BY <2>3, <3>1, OpenSocketTypeOK DEF SendAndConnect, TypeOK
  <2> QED
    BY <1>2, <2>1, <2>2, <2>3 DEF Send
<1>3. CASE SocketConnect
  BY <1>3 DEF SocketConnect, TypeOK
<1>4. CASE NegotiateProtocol
  <2>1. ready' \in Seq(Job)
    <3>1. ready \in Seq(Job) /\ Jobs("send", waiting) \in Seq(Job)
      BY JobsType DEF TypeOK
    <3>2. << [kind |-> "handshake", req |-> initiator] >> \in Seq(Job)
      BY DEF TypeOK, Job
    <3> QED
      BY <1>4, <3>1, <3>2, ConcatProperties DEF NegotiateProtocol
  <2>2. protocol' \in BOOLEAN
    BY <1>4, Zenon DEF NegotiateProtocol
  <2>3. wire' \in {"silent", "greeted", "closing", "broken"} /\ written' \in Nat
    BY <1>4 DEF NegotiateProtocol, TypeOK
  <2> QED
    BY <1>4, <2>1, <2>2, <2>3 DEF NegotiateProtocol, TypeOK
<1>5. CASE NegotiationFails
  <2>1. ready' \in Seq(Job)
    <3>1. ready \in Seq(Job) /\ Jobs("reject", waiting) \in Seq(Job)
      BY JobsType DEF TypeOK
    <3>2. << [kind |-> "destroy", req |-> initiator] >> \in Seq(Job)
      BY DEF TypeOK, Job
    <3> QED
      BY <1>5, <3>1, <3>2, ConcatProperties DEF NegotiationFails
  <2> QED
    BY <1>5, <2>1 DEF NegotiationFails, TypeOK
<1>6. CASE SocketFails
  BY <1>6, DropSocketTypeOK, CancelType DEF SocketFails, TypeOK
<1>7. CASE SocketEndsToReconnect
  <2>1. reconnectNow' \in BOOLEAN
    BY <1>7, Zenon DEF SocketEndsToReconnect
  <2> QED
    BY <1>7, <2>1, DropSocketTypeOK DEF SocketEndsToReconnect, TypeOK
<1>8. CASE Close
  BY <1>8, DropSocketTypeOK DEF Close, TypeOK
<1>9. CASE Drain
  <2>1. /\ Head(ready) \in Job
        /\ Tail(ready) \in Seq(Job)
    BY <1>9, TailReady DEF Drain, RunHandshake, RunSend, RunReject, RunDestroy, Draining
  <2>2. Head(ready).req \in Requests \cup {NoRequest}
    BY <2>1 DEF Job
  <2>3. ASSUME NEW r \in Requests \cup {NoRequest}
        PROVE  [status EXCEPT ![r] = "failed"] \in [Requests -> Statuses]
    BY DEF TypeOK, Statuses
  <2>4. CASE RunHandshake
    <3>1. ready' \in Seq(Job)
      <4>1. ASSUME Head(ready).req # NoRequest
            PROVE  << [kind |-> "send", req |-> Head(ready).req] >> \in Seq(Job)
        BY <2>2, <4>1 DEF Job
      <4>2. << >> \in Seq(Job)
        OBVIOUS
      <4> QED
        BY <2>1, <2>4, <4>1, <4>2, ConcatProperties DEF RunHandshake
    <3>2. status' \in [Requests -> Statuses]
      BY <2>2, <2>3, <2>4 DEF RunHandshake, TypeOK
    <3>3. mishaps' \subseteq Mishaps
      BY <2>4 DEF RunHandshake, TypeOK, Mishaps, Note
    <3>4. /\ wire' \in {"silent", "greeted", "closing", "broken"}
          /\ connecting' \in {"no", "pending", "rejected"}
          /\ ctl' \in {"idle", "drain", "process", "overflow"}
      BY <2>4 DEF RunHandshake, TypeOK, EndTurn
    <3> QED
      BY <2>4, <3>1, <3>2, <3>3, <3>4 DEF RunHandshake, TypeOK
  <2>5. CASE RunSend
    <3>1. Head(ready).req \in Requests
      BY <2>1, <2>5 DEF RunSend, Job
    <3>2. ctl' \in {"idle", "drain", "process", "overflow"}
      BY <2>5 DEF RunSend, EndTurn
    <3> QED
      BY <2>1, <2>5, <3>1, <3>2, SendOpTypeOK DEF RunSend, TypeOK
  <2>6. CASE RunReject
    <3>1. ctl' \in {"idle", "drain", "process", "overflow"}
      BY <2>6 DEF RunReject, EndTurn
    <3> QED
      BY <2>1, <2>2, <2>3, <2>6, <3>1 DEF RunReject, TypeOK
  <2>7. CASE RunDestroy
    <3>1. ctl' \in {"idle", "drain", "process", "overflow"}
      BY <2>7 DEF RunDestroy, EndTurn
    <3>2. status' \in [Requests -> Statuses]
      BY <2>2, <2>3, <2>7 DEF RunDestroy, TypeOK
    <3> QED
      BY <2>1, <2>7, <3>1, <3>2, DropSocketTypeOK DEF RunDestroy, TypeOK
  <2> QED
    BY <1>9, <2>4, <2>5, <2>6, <2>7 DEF Drain
<1>10. ASSUME NEW n \in 1 .. Len(bytes), HandleSocketData(n)
       PROVE  TypeOK'
  BY <1>10 DEF HandleSocketData, TypeOK
<1>11. CASE Process
  <2>1. CASE ProcessPush
    BY <2>1, ConsumeTypeOK DEF ProcessPush, TypeOK
  <2>2. CASE ProcessForever
    <3>1. mishaps' \subseteq Mishaps
      BY <2>2 DEF ProcessForever, TypeOK, Mishaps, Note
    <3> QED
      BY <2>2, <3>1 DEF ProcessForever, TypeOK
  <2>3. CASE ProcessEnds
    BY <2>3 DEF ProcessEnds, TypeOK
  <2>4. CASE ReadCode
    <3>1. queue' \in Seq(Op)
      <4>1. PICK c \in CodeByte, stage \in {"push", "body"} :
              SetHead(stage, [bytes[1] EXCEPT !.code = c])
        BY <2>4 DEF ReadCode
      <4> DEFINE head == [bytes[1] EXCEPT !.code = c]
      <4>2. head \in Unit
        BY <2>4, CodeByteType DEF ReadCode
      <4>3. queue # << >> /\ stage \in Stages
        BY <2>4 DEF ReadCode, Stages
      <4>4. SetHead(stage, head)
        BY <4>1
      <4> HIDE DEF head
      <4> QED
        BY <4>2, <4>3, <4>4, HeadTypes
    <3>2. mishaps' \subseteq Mishaps
      BY <2>4 DEF ReadCode, TypeOK, Mishaps
    <3> QED
      BY <2>4, <3>1, <3>2, ConsumeTypeOK DEF ReadCode, TypeOK
  <2>5. CASE ReadReply
    <3>1. queue' \in Seq(Op)
      <4>1. queue \in Seq(Op) /\ queue # << >>
        BY <2>5 DEF ReadReply, TypeOK
      <4>2. Tail(queue) \in Seq(Op) /\ << >> \in Seq(Op)
        BY <4>1, HeadTailProperties, EmptySeq
      <4> QED
        BY <2>5, <4>2 DEF ReadReply
    <3>2. Outcome(queue[1], bytes[1], bytes[2]) \in Statuses
      BY DEF Outcome, Statuses
    <3>3. status' \in [Requests -> Statuses]
      BY <2>5, <3>2, CancelType DEF ReadReply, TypeOK
    <3> QED
      BY <2>5, <3>1, <3>3, ConsumeTypeOK DEF ReadReply, TypeOK
  <2>6. CASE ReadPush
    <3>1. NoUnit \in Unit
      BY DEF NoUnit, Unit, Codes
    <3>2. queue' \in Seq(Op)
      <4>1. Tail(queue) \in Seq(Op)
        BY <2>6, HeadTailProperties DEF ReadPush, TypeOK
      <4> QED
        BY <2>6, <3>1, <4>1, HeadTypes DEF ReadPush, Stages
    <3>3. status' \in [Requests -> Statuses]
      BY <2>6 DEF ReadPush, TypeOK, Statuses
    <3> QED
      BY <2>6, <3>2, <3>3, ConsumeTypeOK DEF ReadPush, TypeOK
  <2>7. CASE CompleteEmpty
    <3>1. queue' \in Seq(Op)
      BY <2>7, HeadTailProperties DEF CompleteEmpty, TypeOK
    <3>2. status' \in [Requests -> Statuses]
      BY <2>7 DEF CompleteEmpty, TypeOK, Statuses
    <3> QED
      BY <2>7, <3>1, <3>2 DEF CompleteEmpty, TypeOK
  <2> QED
    BY <1>11, <2>1, <2>2, <2>3, <2>4, <2>5, <2>6, <2>7 DEF Process
<1>12. CASE ServerReply
  <2>1. PICK c \in ReplyCodes : bytes' = bytes \o Units(sockets, answered + 1, c)
    BY <1>12 DEF ServerReply
  <2>2. bytes' \in Seq(Unit) /\ Len(bytes') = Len(bytes) + 3
    <3>1. bytes \in Seq(Unit) /\ sockets \in Nat /\ answered + 1 \in Nat /\ c \in Codes
      BY DEF TypeOK, ReplyCodes, Codes
    <3> DEFINE m == Units(sockets, answered + 1, c)
    <3>2. m \in Seq(Unit) /\ Len(m) = 3
      BY <3>1, UnitsType
    <3> HIDE DEF m
    <3>3. bytes \o m \in Seq(Unit) /\ Len(bytes \o m) = Len(bytes) + Len(m)
      BY <3>1, <3>2, ConcatProperties
    <3> QED
      BY <2>1, <3>2, <3>3 DEF m
  <2> QED
    BY <1>12, <2>2 DEF ServerReply, TypeOK
<1>13. CASE ServerPush
  <2>1. PICK c \in PushCodes : bytes' = bytes \o Units(sockets, answered, c)
    BY <1>13 DEF ServerPush
  <2>2. bytes' \in Seq(Unit) /\ Len(bytes') = Len(bytes) + 3
    <3>1. bytes \in Seq(Unit) /\ sockets \in Nat /\ answered \in Nat /\ c \in Codes
      BY ConnectionAssumption DEF TypeOK, Codes
    <3> DEFINE m == Units(sockets, answered, c)
    <3>2. m \in Seq(Unit) /\ Len(m) = 3
      BY <3>1, UnitsType
    <3> HIDE DEF m
    <3>3. bytes \o m \in Seq(Unit) /\ Len(bytes \o m) = Len(bytes) + Len(m)
      BY <3>1, <3>2, ConcatProperties
    <3> QED
      BY <2>1, <3>2, <3>3 DEF m
  <2> QED
    BY <1>13, <2>2 DEF ServerPush, TypeOK
<1>14. CASE UNCHANGED vars
  BY <1>14 DEF vars, TypeOK
<1> QED
  BY <1>1, <1>2, <1>3, <1>4, <1>5, <1>6, <1>7, <1>8, <1>9, <1>10, <1>11, <1>12,
     <1>13, <1>14 DEF Next

\* Every variable keeps its type, for every set of requests and every bound.
THEOREM TypeCorrect == Spec => []TypeOK
<1>1. Init => TypeOK
  BY InitTypeOK
<1>2. TypeOK /\ [Next]_vars => TypeOK'
  BY NextTypeOK
<1> QED
  BY <1>1, <1>2, PTL DEF Spec

--------------------------------------------------------------------------------
(* The replies are in order.                                                   *)

LEMMA MishapsGrow == [Next]_vars => mishaps \subseteq mishaps'
BY DEF Next, vars, Connect, Send, SendWhileConnecting, SendOnSocket, SendAndConnect,
       SendOp, SendWithoutProtocol, SendDbClose, SendNormally, WriteRequest,
       SocketConnect, NegotiateProtocol, NegotiationFails, SocketFails,
       SocketEndsToReconnect, Close, DropSocket, Drain, RunHandshake, RunSend,
       RunReject, RunDestroy, HandleSocketData, Process, ProcessPush,
       ProcessForever, ProcessEnds, ReadCode, ReadReply, ReadPush, CompleteEmpty,
       ServerReply, ServerPush

\* Parsing n units leaves the stream in order.
LEMMA ConsumeInOrder ==
    ASSUME TypeOK, StreamInOrder, NEW n \in Nat \ {0}, received >= n, Consume(n),
           UNCHANGED <<written, answered, sockets>>
    PROVE  StreamInOrder'
<1>1. bytes \in Seq(Unit) /\ Len(bytes) \in Nat /\ n \in 1 .. Len(bytes)
  BY DEF TypeOK
<1>2. /\ bytes' \in Seq(Unit)
      /\ Len(bytes') = Len(bytes) - n
      /\ \A i \in 1 .. Len(bytes') : bytes'[i] = bytes[n + i]
  <2>1. \A i \in (n + 1) .. Len(bytes) : bytes[i] \in Unit
    BY <1>1, ElementOfSeq
  <2>2. /\ SubSeq(bytes, n + 1, Len(bytes)) \in Seq(Unit)
        /\ Len(SubSeq(bytes, n + 1, Len(bytes))) =
             IF n + 1 <= Len(bytes) THEN Len(bytes) - (n + 1) + 1 ELSE 0
        /\ \A i \in 1 .. Len(bytes) - (n + 1) + 1 :
             SubSeq(bytes, n + 1, Len(bytes))[i] = bytes[(n + 1) + i - 1]
    BY <1>1, <2>1, SubSeqProperties
  <2> QED
    BY <1>1, <2>2 DEF Consume
<1>3. last' = bytes[n]
  BY DEF Consume
<1>4. bytes' # << >> => Len(bytes) > n /\ Len(bytes') > 0
  BY <1>1, <1>2, EmptySeq
<1>5. bytes' = << >> => n = Len(bytes)
  BY <1>1, <1>2, EmptySeq
<1>6. bytes # << >>
  BY <1>1
<1> USE DEF StreamInOrder
<1>7. last'.sock = sockets' /\ last'.k \in 1 .. 3 /\ answered' <= written'
  BY <1>1, <1>3
<1>8. bytes' # << >> => Follows(last', bytes'[1])
  BY <1>1, <1>2, <1>3, <1>4
<1>9. ASSUME NEW i \in 1 .. Len(bytes')
      PROVE  /\ bytes'[i].sock = sockets'
             /\ bytes'[i].k \in 1 .. 3
             /\ bytes'[i].n <= answered'
             /\ bytes'[i].code # "odd"
             /\ i < Len(bytes') => Follows(bytes'[i], bytes'[i + 1])
  <2>1. n + i \in 1 .. Len(bytes) /\ bytes'[i] = bytes[n + i]
    BY <1>1, <1>2
  <2>2. i < Len(bytes') => n + i < Len(bytes) /\ bytes'[i + 1] = bytes[(n + i) + 1]
    BY <1>1, <1>2
  <2> QED
    BY <2>1, <2>2
<1>10. bytes' = << >> => last' = bytes[Len(bytes)]
  BY <1>3, <1>5
<1>11. bytes' # << >> => bytes'[Len(bytes')] = bytes[Len(bytes)]
  BY <1>1, <1>2, <1>4
<1> QED
  BY <1>6, <1>7, <1>8, <1>9, <1>10, <1>11

LEMMA ConcatThree ==
    ASSUME NEW S, NEW s \in Seq(S), NEW m \in Seq(S), Len(m) = 3
    PROVE  /\ Len(s \o m) = Len(s) + 3
           /\ \A i \in 1 .. Len(s) : (s \o m)[i] = s[i]
           /\ (s \o m)[Len(s) + 1] = m[1]
           /\ (s \o m)[Len(s) + 2] = m[2]
           /\ (s \o m)[Len(s) + 3] = m[3]
           /\ s \o m # << >>
<1> DEFINE cat == s \o m
<1>1. /\ cat \in Seq(S)
      /\ Len(cat) = Len(s) + Len(m)
      /\ \A i \in 1 .. Len(s) + Len(m) :
           cat[i] = IF i <= Len(s) THEN s[i] ELSE m[i - Len(s)]
  BY ConcatProperties
<1>2. Len(s) \in Nat
  OBVIOUS
<1> HIDE DEF cat
<1>3. cat # << >>
  BY <1>1, <1>2, EmptySeq
<1>4. \A i \in 1 .. Len(s) : cat[i] = s[i]
  BY <1>1, <1>2
<1>5. /\ cat[Len(s) + 1] = m[(Len(s) + 1) - Len(s)]
      /\ cat[Len(s) + 2] = m[(Len(s) + 2) - Len(s)]
      /\ cat[Len(s) + 3] = m[(Len(s) + 3) - Len(s)]
  BY <1>1, <1>2
<1>6. /\ (Len(s) + 1) - Len(s) = 1
      /\ (Len(s) + 2) - Len(s) = 2
      /\ (Len(s) + 3) - Len(s) = 3
  BY <1>2
<1> QED
  BY <1>1, <1>2, <1>3, <1>4, <1>5, <1>6 DEF cat

\* So does the next message of the server.
LEMMA AppendInOrder ==
    ASSUME TypeOK, StreamInOrder, NEW n \in Nat, NEW c \in Codes \ {"odd"},
           n = IF c \in ReplyCodes THEN answered + 1 ELSE answered,
           n <= written,
           bytes' = bytes \o Units(sockets, n, c),
           answered' = n,
           UNCHANGED <<last, written, sockets>>
    PROVE  StreamInOrder'
<1> DEFINE m == Units(sockets, n, c)
<1>1. /\ bytes \in Seq(Unit) /\ Len(bytes) \in Nat /\ answered \in Nat
      /\ sockets \in Nat
  BY DEF TypeOK
<1>2. /\ m \in Seq(Unit) /\ Len(m) = 3
      /\ m[1] = [sock |-> sockets, n |-> n, code |-> c, k |-> 1]
      /\ m[2] = [sock |-> sockets, n |-> n, code |-> c, k |-> 2]
      /\ m[3] = [sock |-> sockets, n |-> n, code |-> c, k |-> 3]
  BY <1>1, UnitsType DEF Units
<1>3. bytes' = bytes \o m
  OBVIOUS
<1> HIDE DEF m
<1>4. /\ Len(bytes') = Len(bytes) + 3
      /\ \A i \in 1 .. Len(bytes) : bytes'[i] = bytes[i]
      /\ bytes'[Len(bytes) + 1] = m[1]
      /\ bytes'[Len(bytes) + 2] = m[2]
      /\ bytes'[Len(bytes) + 3] = m[3]
      /\ bytes' # << >>
  BY <1>1, <1>2, <1>3, ConcatThree
<1> DEFINE end == IF bytes = << >> THEN last ELSE bytes[Len(bytes)]
<1>5. end.k = 3 /\ end.n = answered
  BY DEF StreamInOrder
<1>6. Follows(end, m[1]) /\ Follows(m[1], m[2]) /\ Follows(m[2], m[3])
  BY <1>1, <1>2, <1>5 DEF Follows
<1>7. bytes = << >> <=> Len(bytes) = 0
  BY <1>1, EmptySeq
<1>8. Follows(last', bytes'[1])
  <2>1. CASE bytes = << >>
    BY <1>4, <1>6, <1>7, <2>1
  <2>2. CASE bytes # << >>
    BY <1>1, <1>4, <1>7, <2>2 DEF StreamInOrder
  <2> QED
    BY <2>1, <2>2
<1>9. ASSUME NEW i \in 1 .. Len(bytes')
      PROVE  /\ bytes'[i].sock = sockets'
             /\ bytes'[i].k \in 1 .. 3
             /\ bytes'[i].n <= answered'
             /\ bytes'[i].code # "odd"
             /\ i < Len(bytes') => Follows(bytes'[i], bytes'[i + 1])
  <2>1. CASE i \in 1 .. Len(bytes) - 1
    <3>1. /\ bytes'[i] = bytes[i] /\ bytes'[i + 1] = bytes[i + 1]
          /\ i \in 1 .. Len(bytes) /\ i < Len(bytes)
      BY <1>1, <1>4, <2>1
    <3>2. bytes[i].n \in Nat
      <4>1. bytes[i] \in Unit
        BY <1>1, <3>1, ElementOfSeq
      <4> QED
        BY <4>1 DEF Unit
    <3> QED
      BY <1>1, <3>1, <3>2 DEF StreamInOrder
  <2>2. CASE i = Len(bytes)
    <3>1. i \in 1 .. Len(bytes) /\ bytes # << >> /\ bytes'[i] = bytes[i] /\ bytes'[i + 1] = m[1]
      BY <1>1, <1>4, <1>7, <2>2
    <3>2. bytes[i].n \in Nat
      <4>1. bytes[i] \in Unit
        BY <1>1, <3>1, ElementOfSeq
      <4> QED
        BY <4>1 DEF Unit
    <3> QED
      BY <1>1, <1>6, <2>2, <3>1, <3>2 DEF StreamInOrder
  <2>3. CASE i = Len(bytes) + 1
    BY <1>1, <1>2, <1>4, <1>6, <2>3
  <2>4. CASE i = Len(bytes) + 2
    BY <1>1, <1>2, <1>4, <1>6, <2>4
  <2>5. CASE i = Len(bytes) + 3
    BY <1>1, <1>2, <1>4, <2>5
  <2> QED
    BY <1>1, <1>4, <2>1, <2>2, <2>3, <2>4, <2>5
<1>10. bytes'[Len(bytes')].k = 3 /\ bytes'[Len(bytes')].n = n
  BY <1>1, <1>2, <1>4
<1> QED
  BY <1>4, <1>8, <1>9, <1>10 DEF StreamInOrder

\* A step that leaves the stream and the queue alone leaves their order alone.
LEMMA OrderStays ==
    ASSUME UNCHANGED <<bytes, last, written, answered, sockets, queue>>
    PROVE  /\ StreamInOrder => StreamInOrder'
           /\ QueueInOrder => QueueInOrder'
           /\ (NothingAsked /\ wire' = wire) => NothingAsked'
BY DEF StreamInOrder, QueueInOrder, NothingAsked, Settlements, Follows, Origin

\* A socket dropped without a mishap leaves neither bytes nor operations.
LEMMA DropInOrder ==
    ASSUME TypeOK, InOrder, NEW leftover, DropSocket(leftover),
           mishaps' = {}, queue' = leftover, writes' = writes,
           \A r \in Requests : status'[r] # "misread",
           ctl' # "overflow"
    PROVE  InOrder'
<1>1. received = 0 /\ queue' = << >>
  <2>1. ~ (received > 0)
    <3>1. ASSUME received > 0 PROVE "staleBytes" \in mishaps'
      BY <3>1 DEF DropSocket, Note
    <3> QED
      BY <3>1
  <2>2. leftover = << >>
    <3>1. ASSUME leftover # << >> PROVE "abandoned" \in mishaps'
      BY <3>1 DEF DropSocket, Note
    <3> QED
      BY <3>1
  <2> QED
    BY <2>1, <2>2 DEF TypeOK
<1>2. bytes' = << >>
  BY <1>1, SubSeqEmpty DEF DropSocket
<1>3. socket' = "null"
  BY DEF DropSocket
<1> QED
  BY <1>1, <1>2, <1>3 DEF InOrder

LEMMA OpenInOrder ==
    ASSUME TypeOK, InOrder, NEW r, OpenSocket(r), mishaps = {},
           UNCHANGED <<bytes, queue, writes, ctl>>,
           \A q \in Requests : status'[q] # "misread"
    PROVE  InOrder'
BY DEF OpenSocket, InOrder, NothingAsked, Origin

\* A request is appended to the requests and to the queue, or goes nowhere.
LEMMA SendOpInOrder ==
    ASSUME TypeOK, InOrder, NEW r \in Requests, SendOp(r), mishaps' = {},
           UNCHANGED <<socket, bytes, last, answered, sockets>>,
           ctl' # "overflow"
    PROVE  InOrder'
<1>1. \A q \in Requests : status'[q] # "misread"
  BY DEF SendOp, SendWithoutProtocol, SendDbClose, SendNormally, Enqueue, InOrder, TypeOK
<1>2. CASE SendWithoutProtocol(r)
  BY <1>1, <1>2, OrderStays DEF SendWithoutProtocol, InOrder
<1>3. CASE SendDbClose(r)
  <2>1. CASE socket = "null"
    BY <1>1, <1>3, <2>1, OrderStays DEF SendDbClose, InOrder
  <2>2. CASE socket # "null"
    <3>1. wire \in {"greeted", "closing"} /\ wire' = "closing"
      BY <1>3, <2>2 DEF SendDbClose, WriteRequest, Note
    <3>2. socket = "open"
      BY <2>2, <3>1 DEF InOrder, NothingAsked, TypeOK
    <3> QED
      BY <1>1, <1>3, <3>1, <3>2, OrderStays DEF SendDbClose, InOrder
  <2> QED
    BY <2>1, <2>2
<1>4. CASE SendNormally(r)
  <2>1. socket # "null"
    BY <1>4 DEF SendNormally
  <2>2. wire \in {"greeted", "closing"} /\ wire' = wire
    BY <1>4, <2>1 DEF SendNormally, WriteRequest, Note
  <2>3. socket = "open"
    BY <2>1, <2>2 DEF InOrder, NothingAsked, TypeOK
  <2>4. StreamInOrder /\ QueueInOrder
    BY <2>3 DEF InOrder
  <2>5. written' = written + 1 /\ writes' = writes
    BY <1>4, <2>1 DEF SendNormally
  <2>6. StreamInOrder'
    BY <2>4, <2>5 DEF StreamInOrder, Follows, TypeOK
  <2> DEFINE new == [req |-> r, sock |-> sockets, n |-> written + 1,
                     stage |-> "fresh", head |-> NoUnit]
  <2>7. queue' = Append(queue, new) /\ new \in Op
    BY <1>4 DEF SendNormally, Enqueue, TypeOK, Op, Stages, NoUnit, Unit, Codes
  <2>8. new.sock = sockets /\ new.n = written + 1 /\ new.stage = "fresh"
    OBVIOUS
  <2> HIDE DEF new
  <2>9. /\ queue \in Seq(Op) /\ Len(queue) \in Nat /\ written \in Nat
        /\ (queue = << >> <=> Len(queue) = 0)
    BY EmptySeq DEF TypeOK
  <2>10. /\ Len(queue') = Len(queue) + 1
         /\ queue' # << >>
         /\ \A i \in 1 .. Len(queue) : queue'[i] = queue[i]
         /\ queue'[Len(queue) + 1] = new
    BY <2>7, <2>9, AppendProperties
  <2>11. Settlements' = Settlements
    BY <2>5, <2>9, <2>10 DEF Settlements
  <2>12. \A i \in 1 .. Len(queue') :
           /\ queue'[i].sock = sockets
           /\ queue'[i].n = Settlements + i
           /\ i > 1 => queue'[i].stage = "fresh"
    <3>1. ASSUME NEW i \in 1 .. Len(queue)
          PROVE  /\ queue'[i].sock = sockets
                 /\ queue'[i].n = Settlements + i
                 /\ i > 1 => queue'[i].stage = "fresh"
      BY <2>4, <2>10 DEF QueueInOrder
    <3>2. written + 1 = Settlements + (Len(queue) + 1)
      BY <2>9 DEF Settlements
    <3> QED
      BY <2>8, <2>9, <2>10, <3>1, <3>2
  <2>13. QueueInOrder'
    <3>1. CASE queue = << >>
      <4>1. queue'[1].stage = "fresh"
        BY <2>8, <2>9, <2>10, <3>1
      <4> QED
        BY <2>4, <2>10, <2>11, <2>12, <3>1, <4>1 DEF QueueInOrder
    <3>2. CASE queue # << >>
      <4>1. queue'[1] = queue[1]
        BY <2>9, <2>10, <3>2
      <4> QED
        BY <2>4, <2>10, <2>11, <2>12, <3>2, <4>1 DEF QueueInOrder
    <3> QED
      BY <3>1, <3>2
  <2> QED
    BY <1>1, <2>2, <2>3, <2>5, <2>6, <2>13 DEF InOrder
<1> QED
  BY <1>2, <1>3, <1>4 DEF SendOp

\* What the parser finds when it is about to read a code byte.
LEMMA NextMessage ==
    ASSUME TypeOK, StreamInOrder, QueueInOrder, received >= 1,
           queue = << >> \/ queue[1].stage = "fresh"
    PROVE  /\ bytes[1].k = 1
           /\ bytes[1].sock = sockets
           /\ CodeByte = {bytes[1].code}
           /\ bytes[1].code \in {"ok", "err", "event", "liveError"}
           /\ bytes[1].n = IF bytes[1].code \in ReplyCodes THEN Settlements + 1
                           ELSE Settlements
           /\ queue = << >> => bytes[1].code \in {"event", "liveError"}
<1>1. bytes \in Seq(Unit) /\ 1 \in 1 .. Len(bytes) /\ bytes # << >>
  BY DEF TypeOK
<1>2. bytes[1] \in Unit
  BY <1>1, ElementOfSeq
<1>3. Follows(last, bytes[1]) /\ bytes[1].n <= answered /\ answered <= written
        /\ bytes[1].code # "odd"
  BY <1>1 DEF StreamInOrder
<1>4. last.k = 3 /\ last.n = Settlements
  BY DEF QueueInOrder
<1>5. bytes[1].sock = sockets
  BY <1>1 DEF StreamInOrder
<1>6. /\ bytes[1].k = 1
      /\ bytes[1].n = IF bytes[1].code \in ReplyCodes THEN Settlements + 1
                      ELSE Settlements
  BY <1>3, <1>4 DEF Follows
<1>7. bytes[1].code \in {"ok", "err", "event", "liveError"}
  BY <1>2, <1>3 DEF Unit, Codes
<1>8. ASSUME queue = << >>
      PROVE  bytes[1].code \in {"event", "liveError"}
  <2>1. Settlements = written
    BY <1>8, EmptySeq DEF Settlements, TypeOK
  <2> QED
    BY <1>3, <1>6, <1>7, <2>1 DEF ReplyCodes, TypeOK
<1> QED
  BY <1>5, <1>6, <1>7, <1>8 DEF CodeByte

\* The reply the head of the queue completes is its own.
LEMMA OwnReplyRead ==
    ASSUME TypeOK, StreamInOrder, QueueInOrder,
           queue # << >>, queue[1].stage = "body", received >= 2
    PROVE  OwnReply(queue[1], bytes[1], bytes[2])
<1>1. /\ bytes \in Seq(Unit) /\ Len(bytes) \in Nat /\ 2 <= Len(bytes) /\ bytes # << >>
      /\ Len(queue) \in Nat /\ 1 \in 1 .. Len(queue)
  BY EmptySeq DEF TypeOK
<1>2. /\ last = queue[1].head /\ last.k = 1 /\ last.n = Settlements + 1
      /\ last.code \in ReplyCodes /\ last.sock = sockets
  BY DEF QueueInOrder, StreamInOrder
<1>3. /\ Follows(last, bytes[1]) /\ Follows(bytes[1], bytes[2])
      /\ bytes[1].sock = sockets /\ bytes[2].sock = sockets
  BY <1>1 DEF StreamInOrder
<1>4. queue[1].sock = sockets /\ queue[1].n = Settlements + 1
  BY <1>1 DEF QueueInOrder
<1>5. /\ bytes[1].k = 2 /\ bytes[1].n = last.n /\ bytes[1].code = last.code
      /\ bytes[2].k = 3 /\ bytes[2].n = last.n /\ bytes[2].code = last.code
  BY <1>2, <1>3 DEF Follows
<1>6. last \in Unit /\ bytes[1] \in Unit /\ bytes[2] \in Unit
  BY <1>1, ElementOfSeq DEF TypeOK
<1> QED
  BY <1>2, <1>3, <1>4, <1>5, <1>6 DEF OwnReply, Units, Unit

LEMMA NextInOrder ==
    ASSUME TypeOK, [Next]_vars, InOrder, mishaps = {}, mishaps' = {}
    PROVE  InOrder'
<1> USE DEF sockVars, serverVars, streamVars
<1>1. CASE Connect
  <2>1. \A q \in Requests : status'[q] # "misread"
    BY <1>1 DEF Connect, InOrder
  <2> QED
    BY <1>1, <2>1, OpenInOrder DEF Connect
<1>2. ASSUME NEW r \in Requests, Send(r)
      PROVE  InOrder'
  <2>1. CASE SendWhileConnecting(r)
    <3>1. \A q \in Requests : status'[q] # "misread"
      BY <2>1 DEF SendWhileConnecting, InOrder, TypeOK
    <3> QED
      BY <2>1, <3>1, OrderStays DEF SendWhileConnecting, InOrder
  <2>2. CASE SendOnSocket(r)
    <3>1. ctl' # "overflow"
      BY <2>2 DEF SendOnSocket, InOrder
    <3> QED
      BY <2>2, <3>1, SendOpInOrder DEF SendOnSocket
  <2>3. CASE SendAndConnect(r)
    <3>1. \A q \in Requests : status'[q] # "misread"
      BY <2>3 DEF SendAndConnect, InOrder, TypeOK
    <3> QED
      BY <2>3, <3>1, OpenInOrder DEF SendAndConnect
  <2> QED
    BY <1>2, <2>1, <2>2, <2>3 DEF Send
<1>3. CASE SocketConnect
  BY <1>3, OrderStays DEF SocketConnect, InOrder
<1>4. CASE NegotiateProtocol
  <2>1. /\ NothingAsked /\ writes = << >> /\ writes' = << >> /\ socket' = "open"
        /\ UNCHANGED <<wire, written, answered, last, bytes, queue, sockets, status, ctl>>
    BY <1>4 DEF NegotiateProtocol, InOrder
  <2>2. NothingAsked'
    BY <2>1, OrderStays
  <2>3. StreamInOrder /\ QueueInOrder
    <3>1. /\ last = [sock |-> sockets, n |-> 0, code |-> "ok", k |-> 3]
          /\ written = 0 /\ answered = 0
          /\ Len(bytes) = 0 /\ bytes = << >>
          /\ Len(queue) = 0 /\ queue = << >>
      BY <2>1, EmptySeq DEF NothingAsked, Origin
    <3>2. last.sock = sockets /\ last.k = 3 /\ last.n = 0
      BY <3>1
    <3>3. StreamInOrder
      BY <3>1, <3>2 DEF StreamInOrder
    <3>4. Settlements = 0
      BY <3>1 DEF Settlements
    <3>5. QueueInOrder
      BY <3>1, <3>2, <3>4 DEF QueueInOrder
    <3> QED
      BY <3>3, <3>5
  <2>4. StreamInOrder' /\ QueueInOrder'
    BY <2>1, <2>3, OrderStays
  <2>5. wire' = "silent"
    BY <2>1 DEF NothingAsked
  <2> QED
    BY <2>1, <2>2, <2>4, <2>5 DEF InOrder
<1>5. CASE NegotiationFails
  BY <1>5, OrderStays DEF NegotiationFails, InOrder
<1>6. CASE SocketFails
  <2>1. \A q \in Requests : status'[q] # "misread"
    BY <1>6 DEF SocketFails, Cancel, InOrder
  <2>2. ctl' # "overflow" /\ writes' = writes
    BY <1>6 DEF SocketFails, InOrder
  <2> QED
    BY <1>6, <2>1, <2>2, DropInOrder DEF SocketFails
<1>7. CASE SocketEndsToReconnect
  BY <1>7, DropInOrder DEF SocketEndsToReconnect, InOrder
<1>8. CASE Close
  BY <1>8, DropInOrder DEF Close, InOrder
<1>9. CASE Drain
  <2>1. ctl' # "overflow"
    BY <1>9 DEF Drain, RunHandshake, RunSend, RunReject, RunDestroy, EndTurn
  <2>2. /\ Head(ready) \in Job
        /\ Head(ready).req \in Requests \cup {NoRequest}
    <3>1. Head(ready) \in Job
      BY <1>9, TailReady DEF Drain, RunHandshake, RunSend, RunReject, RunDestroy, Draining
    <3> QED
      BY <3>1 DEF Job
  <2>3. ASSUME NEW r \in Requests \cup {NoRequest}, NEW q \in Requests
        PROVE  [status EXCEPT ![r] = "failed"][q] # "misread"
    BY DEF InOrder, TypeOK
  <2>4. CASE RunHandshake
    <3>1. \A q \in Requests : status'[q] # "misread"
      BY <2>2, <2>3, <2>4 DEF RunHandshake, InOrder
    <3>2. CASE socket = "null"
      BY <2>1, <2>4, <3>1, <3>2, OrderStays DEF RunHandshake, InOrder
    <3>3. CASE socket # "null"
      <4>1. wire = "silent" /\ socket = "open"
        <5>1. ASSUME ~ (wire = "silent" /\ socket = "open")
              PROVE  "earlyWrite" \in mishaps'
          BY <2>4, <3>3, <5>1 DEF RunHandshake, Note
        <5> QED
          BY <5>1
      <4>2. wire' = "greeted"
        BY <2>4, <3>3, <4>1 DEF RunHandshake
      <4> QED
        BY <2>1, <2>4, <3>1, <4>1, <4>2, OrderStays DEF RunHandshake, InOrder
    <3> QED
      BY <3>2, <3>3
  <2>5. CASE RunSend
    <3>1. Head(ready).req \in Requests
      BY <2>2, <2>5 DEF RunSend, Job
    <3> QED
      BY <2>1, <2>5, <3>1, SendOpInOrder DEF RunSend
  <2>6. CASE RunReject
    <3>1. \A q \in Requests : status'[q] # "misread"
      BY <2>2, <2>3, <2>6 DEF RunReject
    <3> QED
      BY <2>1, <2>6, <3>1, OrderStays DEF RunReject, InOrder
  <2>7. CASE RunDestroy
    <3>1. \A q \in Requests : status'[q] # "misread"
      BY <2>2, <2>3, <2>7 DEF RunDestroy, InOrder
    <3> QED
      BY <2>1, <2>7, <3>1, DropInOrder DEF RunDestroy
  <2> QED
    BY <1>9, <2>4, <2>5, <2>6, <2>7 DEF Drain
<1>10. ASSUME NEW n \in 1 .. Len(bytes), HandleSocketData(n)
       PROVE  InOrder'
  BY <1>10, OrderStays DEF HandleSocketData, InOrder
<1>11. CASE Process
  <2> SUFFICES ASSUME ~ ProcessEnds
               PROVE  InOrder'
    BY <1>11, OrderStays DEF ProcessEnds, InOrder
  <2>1. received >= 1
    BY <1>11 DEF Process, ProcessPush, ProcessForever, ReadCode, ReadReply, ReadPush,
                 CompleteEmpty, TypeOK
  <2>2. bytes # << >>
    BY <2>1, EmptySeq DEF TypeOK
  <2>3. /\ socket = "open" /\ wire # "broken" /\ wire # "silent"
        /\ StreamInOrder /\ QueueInOrder
    BY <2>2 DEF InOrder, NothingAsked
  <2>4. queue # << >> => queue[1].stage \in {"fresh", "body"}
    BY <2>3 DEF QueueInOrder
  <2>5. ASSUME NEW n \in Nat \ {0}, received >= n, Consume(n),
               UNCHANGED <<written, answered, sockets>>
        PROVE  StreamInOrder'
    BY <2>3, <2>5, ConsumeInOrder
  <2>6. bytes \in Seq(Unit) /\ received <= Len(bytes) /\ received \in Nat
        /\ Len(bytes) \in Nat
    BY DEF TypeOK
  <2>7. /\ queue \in Seq(Op) /\ Len(queue) \in Nat /\ written \in Nat
        /\ (queue = << >> <=> Len(queue) = 0)
    BY EmptySeq DEF TypeOK
  <2>8. CASE ProcessPush
    <3>1. StreamInOrder'
      BY <2>5, <2>8 DEF ProcessPush
    <3>2. queue = << >> /\ received >= 3 /\ last' = bytes[3]
      BY <2>8 DEF ProcessPush, Consume
    <3>3. bytes[1].k = 1 /\ bytes[1].n = Settlements
      BY <2>1, <2>3, <3>2, NextMessage DEF ReplyCodes
    <3>4. Follows(bytes[1], bytes[2]) /\ Follows(bytes[2], bytes[3])
      BY <2>3, <2>6, <3>2 DEF StreamInOrder
    <3>5. last'.k = 3 /\ last'.n = Settlements
      BY <3>2, <3>3, <3>4 DEF Follows
    <3>6. QueueInOrder'
      <4>1. queue' = << >> /\ Settlements' = Settlements
        BY <2>8 DEF ProcessPush, Settlements
      <4> QED
        BY <3>5, <4>1, EmptySeq DEF QueueInOrder
    <3> QED
      BY <2>3, <2>8, <3>1, <3>6 DEF ProcessPush, InOrder
  <2>9. CASE ProcessForever
    <3>1. queue = << >>
      BY <2>9 DEF ProcessForever
    <3>2. CodeByte = {bytes[1].code} /\ bytes[1].code \in {"event", "liveError"}
      BY <2>1, <2>3, <3>1, NextMessage
    <3>3. bytes[1].code # "event"
      BY <2>9, <3>2 DEF ProcessForever
    <3>4. "liveError" \in mishaps'
      BY <2>9, <3>2, <3>3 DEF ProcessForever, Note
    <3> QED
      BY <3>4
  <2>10. CASE ReadCode
    <3>1. queue # << >> /\ queue[1].stage = "fresh"
      BY <2>4, <2>10 DEF ReadCode
    <3>2. CodeByte = {bytes[1].code}
      BY <2>1, <2>3, <3>1, NextMessage
    <3>3. /\ bytes[1].code \notin {"event", "liveError"}
          /\ SetHead("body", [bytes[1] EXCEPT !.code = bytes[1].code])
      BY <2>10, <3>1, <3>2 DEF ReadCode
    <3>4. bytes[1] \in Unit
      BY <2>1, CodeByteType
    <3>5. [bytes[1] EXCEPT !.code = bytes[1].code] = bytes[1]
      BY <3>4 DEF Unit
    <3>6. /\ bytes[1].k = 1 /\ bytes[1].code \in ReplyCodes
          /\ bytes[1].n = Settlements + 1
      BY <2>1, <2>3, <3>1, <3>3, NextMessage DEF ReplyCodes
    <3>7. SetHead("body", bytes[1])
      BY <3>3, <3>5
    <3>8. /\ Len(queue') = Len(queue)
          /\ queue'[1] = [req |-> queue[1].req, sock |-> queue[1].sock,
                          n |-> queue[1].n, stage |-> "body", head |-> bytes[1]]
          /\ \A i \in 2 .. Len(queue) : queue'[i] = queue[i]
          /\ queue' \in Seq(Op)
      BY <3>1, <3>4, <3>7, HeadTypes DEF Stages
    <3>9. /\ queue'[1].sock = queue[1].sock /\ queue'[1].n = queue[1].n
          /\ queue'[1].stage = "body" /\ queue'[1].head = bytes[1]
      BY <3>8
    <3>10. queue' # << >> /\ Settlements' = Settlements
      BY <2>7, <2>10, <3>1, <3>8, EmptySeq DEF ReadCode, Settlements
    <3>11. StreamInOrder' /\ last' = bytes[1]
      <4>1. Consume(1) /\ UNCHANGED <<written, answered, sockets>>
        BY <2>10 DEF ReadCode
      <4>2. StreamInOrder'
        BY <2>1, <2>5, <4>1
      <4> QED
        BY <4>1, <4>2 DEF Consume
    <3>12. \A i \in 1 .. Len(queue') :
             /\ queue'[i].sock = sockets
             /\ queue'[i].n = Settlements + i
             /\ i > 1 => queue'[i].stage = "fresh"
      BY <2>3, <2>7, <3>8, <3>9 DEF QueueInOrder
    <3>13. QueueInOrder'
      BY <2>10, <3>6, <3>9, <3>10, <3>11, <3>12 DEF QueueInOrder, ReadCode
    <3> QED
      BY <2>3, <2>10, <3>11, <3>13 DEF ReadCode, InOrder
  <2>11. CASE ReadReply
    <3>1. queue # << >> /\ queue[1].stage = "body" /\ received >= 2
      BY <2>11 DEF ReadReply
    <3>2. /\ last = queue[1].head /\ last.k = 1 /\ last.n = Settlements + 1
          /\ last.code \in ReplyCodes /\ last.sock = sockets
      BY <2>3, <3>1 DEF QueueInOrder, StreamInOrder
    <3>3. /\ Follows(last, bytes[1]) /\ Follows(bytes[1], bytes[2])
          /\ bytes[1].sock = sockets /\ bytes[2].sock = sockets
      BY <2>2, <2>3, <2>6, <3>1 DEF StreamInOrder
    <3>5. /\ bytes[1].k = 2 /\ bytes[1].n = last.n /\ bytes[1].code = last.code
          /\ bytes[2].k = 3 /\ bytes[2].n = last.n /\ bytes[2].code = last.code
      BY <3>2, <3>3 DEF Follows
    <3>4. OwnReply(queue[1], bytes[1], bytes[2])
      BY <2>3, <3>1, OwnReplyRead
    <3>8. /\ queue' = Tail(queue)
          /\ status' = [status EXCEPT
               ![queue[1].req] = Outcome(queue[1], bytes[1], bytes[2])]
          /\ last' = bytes[2]
      BY <2>11, <3>2 DEF ReadReply, Consume, ReplyCodes
    <3>9. Outcome(queue[1], bytes[1], bytes[2]) # "misread"
      BY <3>4 DEF Outcome
    <3>10. \A q \in Requests : status'[q] # "misread"
      BY <3>8, <3>9 DEF InOrder, TypeOK
    <3>11. StreamInOrder'
      BY <2>5, <2>11 DEF ReadReply
    <3>12. /\ Len(queue') = Len(queue) - 1
           /\ \A i \in 1 .. Len(queue') : queue'[i] = queue[i + 1]
           /\ queue' \in Seq(Op)
      BY <2>7, <3>1, <3>8, HeadTailProperties
    <3>13. Settlements' = Settlements + 1
      BY <2>7, <2>11, <3>12 DEF ReadReply, Settlements
    <3>14. \A i \in 1 .. Len(queue') :
             /\ queue'[i].sock = sockets
             /\ queue'[i].n = Settlements + 1 + i
             /\ queue'[i].stage = "fresh"
      <4>1. TAKE i \in 1 .. Len(queue')
      <4>2. i + 1 \in 1 .. Len(queue) /\ i + 1 > 1 /\ queue'[i] = queue[i + 1]
        BY <2>7, <3>12
      <4>3. Settlements + (i + 1) = Settlements + 1 + i
        BY <2>7 DEF Settlements
      <4> QED
        BY <2>3, <4>2, <4>3 DEF QueueInOrder
    <3>15. last'.k = 3 /\ last'.n = Settlements + 1
      BY <3>2, <3>5, <3>8
    <3>16. queue' # << >> => queue'[1].stage = "fresh"
      BY <3>12, <3>14, EmptySeq
    <3>17. QueueInOrder'
      BY <2>11, <3>13, <3>14, <3>15, <3>16 DEF QueueInOrder, ReadReply
    <3> QED
      BY <2>3, <2>11, <3>10, <3>11, <3>17 DEF ReadReply, InOrder
  <2> QED
    BY <1>11, <2>4, <2>8, <2>9, <2>10, <2>11 DEF Process, ReadPush, CompleteEmpty
<1>12. CASE ServerReply
  <2>1. PICK c \in ReplyCodes : bytes' = bytes \o Units(sockets, answered + 1, c)
    BY <1>12 DEF ServerReply
  <2>2. socket = "open" /\ wire # "silent" /\ StreamInOrder /\ QueueInOrder
    BY <1>12 DEF ServerReply, InOrder
  <2>3. c \in Codes \ {"odd"} /\ answered + 1 \in Nat /\ answered + 1 <= written
    BY <1>12 DEF ServerReply, ReplyCodes, Codes, TypeOK
  <2>4. StreamInOrder'
    BY <1>12, <2>1, <2>2, <2>3, AppendInOrder DEF ServerReply
  <2>5. QueueInOrder'
    BY <1>12, <2>2 DEF ServerReply, QueueInOrder, Settlements
  <2> QED
    BY <1>12, <2>2, <2>4, <2>5 DEF ServerReply, InOrder
<1>13. CASE ServerPush
  <2>1. PICK c \in PushCodes : bytes' = bytes \o Units(sockets, answered, c)
    BY <1>13 DEF ServerPush
  <2>2. socket = "open" /\ wire # "silent" /\ StreamInOrder /\ QueueInOrder
    BY <1>13 DEF ServerPush, InOrder
  <2>3. c \in Codes \ {"odd"} /\ c \notin ReplyCodes /\ answered \in Nat
        /\ answered <= written
    BY <2>2, ConnectionAssumption DEF StreamInOrder, ReplyCodes, Codes, TypeOK
  <2>4. StreamInOrder'
    BY <1>13, <2>1, <2>2, <2>3, AppendInOrder DEF ServerPush
  <2>5. QueueInOrder'
    BY <1>13, <2>2 DEF ServerPush, QueueInOrder, Settlements
  <2> QED
    BY <1>13, <2>2, <2>4, <2>5 DEF ServerPush, InOrder
<1>14. CASE UNCHANGED vars
  BY <1>14, OrderStays DEF vars, InOrder
<1> QED
  BY <1>1, <1>2, <1>3, <1>4, <1>5, <1>6, <1>7, <1>8, <1>9, <1>10, <1>11, <1>12,
     <1>13, <1>14 DEF Next

LEMMA InitInOrder == Init => InOrder
BY DEF Init, InOrder

LEMMA NextReplyOrder == TypeOK /\ ReplyOrder /\ [Next]_vars => ReplyOrder'
<1> SUFFICES ASSUME TypeOK, ReplyOrder, [Next]_vars, mishaps' = {}
             PROVE  InOrder'
  BY DEF ReplyOrder, Clean
<1>1. mishaps = {}
  BY MishapsGrow
<1> QED
  BY <1>1, NextInOrder DEF ReplyOrder, Clean

\* While no mishap has occurred, the bytes on their way to the parser are the
\* continuation of what it has parsed and the queue is exactly the replies still to
\* come, for every set of requests, pushes and any number of reconnections.
THEOREM ReplyOrderCorrect == Spec => []ReplyOrder
<1>1. Init => TypeOK /\ ReplyOrder
  BY InitTypeOK, InitInOrder DEF ReplyOrder
<1>2. TypeOK /\ ReplyOrder /\ [Next]_vars => (TypeOK /\ ReplyOrder)'
  BY NextTypeOK, NextReplyOrder
<1> QED
  BY <1>1, <1>2, PTL DEF Spec

\* No caller of send() is ever handed the reply of another request, but for the
\* named mishaps.
THEOREM RepliesMatchCorrect == Spec => []RepliesMatch
<1>1. ReplyOrder => RepliesMatch
  BY DEF ReplyOrder, InOrder, RepliesMatch
<1> QED
  BY <1>1, ReplyOrderCorrect, PTL

\* handleSocketData never calls itself for ever, but for the named mishaps.
THEOREM NoRunawayCorrect == Spec => []NoRunaway
<1>1. ReplyOrder => NoRunaway
  BY DEF ReplyOrder, InOrder, NoRunaway
<1> QED
  BY <1>1, ReplyOrderCorrect, PTL

--------------------------------------------------------------------------------
(* The handshake comes first.                                                  *)

\* A pooled connection between two calls of its borrower: nothing is chained to
\* connect(), and of the promise callbacks at most one is scheduled, whose kind
\* says how far the connection has come.
Lent ==
    /\ wire # "broken"
    /\ "earlyWrite" \notin mishaps
    /\ writes = << >>
    /\ waiting = << >>
    /\ connecting = "pending" <=> socket \in {"connect", "negotiate"}
    /\ socket \in {"connect", "negotiate"} => ready = << >> /\ wire = "silent"
    /\ socket = "dead" => ready # << >> /\ ready[1].kind = "destroy"
    /\ socket = "open" /\ ready = << >> => wire \in {"greeted", "closing"}
    /\ sockets = 0 => socket = "null" /\ ready = << >>
    /\ ready # << >> =>
         /\ Len(ready) = 1
         /\ \/ /\ ready[1].kind = "handshake"
               /\ socket = "null" \/ (socket = "open" /\ wire = "silent")
            \/ /\ ready[1].kind = "send"
               /\ socket = "open"
               /\ wire = "greeted"
               /\ ctl = "drain"
            \/ /\ ready[1].kind = "destroy"
               /\ socket = "dead"

\* The one scheduled callback, and what is left when it has been taken.
LEMMA OneReady ==
    ASSUME TypeOK, ready # << >>, Len(ready) = 1
    PROVE  /\ Head(ready) = ready[1]
           /\ Tail(ready) = << >>
           /\ \A job \in Job : /\ Tail(ready) \o << job >> = << job >>
                               /\ Len(<< job >>) = 1
                               /\ << job >>[1] = job
                               /\ << job >> # << >>
           /\ Tail(ready) \o << >> = << >>
<1>1. ready \in Seq(Job)
  BY DEF TypeOK
<1>2. Head(ready) = ready[1]
  BY <1>1, HeadTailProperties
<1>3. Tail(ready) \in Seq(Job) /\ Len(Tail(ready)) = 0
  BY <1>1, HeadTailProperties
<1>4. Tail(ready) = << >>
  BY <1>3, EmptySeq
<1>5. ASSUME NEW job \in Job PROVE << >> \o << job >> = << job >>
  OBVIOUS
<1>6. << >> \o << >> = << >>
  OBVIOUS
<1> QED
  BY <1>2, <1>4, <1>5, <1>6

\* What the end of the negotiation schedules: first a job for the caller of
\* connect(), then one for each request chained to it.
Scheduled(first, kind) == ready \o << first >> \o Jobs(kind, waiting)

LEMMA HandOver ==
    ASSUME TypeOK, NEW first \in Job, NEW kind \in {"send", "reject"}
    PROVE  LET jobs == Scheduled(first, kind)
           IN /\ jobs \in Seq(Job)
              /\ Len(jobs) = Len(ready) + 1 + Len(waiting)
              /\ \A i \in 1 .. Len(ready) : jobs[i] = ready[i]
              /\ jobs[Len(ready) + 1] = first
              /\ \A i \in 1 .. Len(waiting) :
                   jobs[Len(ready) + 1 + i].req = waiting[i]
<1> DEFINE jobs == Scheduled(first, kind)
           one  == << first >>
           rest == Jobs(kind, waiting)
           left == ready \o one
<1>1. /\ ready \in Seq(Job) /\ Len(ready) \in Nat
      /\ waiting \in Seq(Requests) /\ Len(waiting) \in Nat
  BY DEF TypeOK
<1>2. one \in Seq(Job) /\ Len(one) = 1 /\ one[1] = first
  OBVIOUS
<1>3. /\ rest \in Seq(Job)
      /\ Len(rest) = Len(waiting)
      /\ \A i \in 1 .. Len(waiting) : rest[i].req = waiting[i]
  BY <1>1, JobsType DEF Jobs
<1>4. jobs = left \o rest
  BY DEF Scheduled
<1> HIDE DEF one, rest, jobs
<1>5. /\ left \in Seq(Job)
      /\ Len(left) = Len(ready) + 1
      /\ \A i \in 1 .. Len(ready) : left[i] = ready[i]
      /\ left[Len(ready) + 1] = first
  <2>1. /\ left \in Seq(Job)
        /\ Len(left) = Len(ready) + Len(one)
        /\ \A i \in 1 .. Len(ready) + Len(one) :
             left[i] = IF i <= Len(ready) THEN ready[i] ELSE one[i - Len(ready)]
    BY <1>1, <1>2, ConcatProperties
  <2>2. (Len(ready) + 1) - Len(ready) = 1
    BY <1>1
  <2> QED
    BY <1>1, <1>2, <2>1, <2>2
<1> HIDE DEF left
<1>6. /\ jobs \in Seq(Job)
      /\ Len(jobs) = Len(left) + Len(rest)
      /\ \A i \in 1 .. Len(left) + Len(rest) :
           jobs[i] = IF i <= Len(left) THEN left[i] ELSE rest[i - Len(left)]
  <2>1. left \in Seq(Job) /\ rest \in Seq(Job)
    BY <1>3, <1>5
  <2>2. /\ left \o rest \in Seq(Job)
        /\ Len(left \o rest) = Len(left) + Len(rest)
        /\ \A i \in 1 .. Len(left) + Len(rest) :
             (left \o rest)[i] = IF i <= Len(left) THEN left[i] ELSE rest[i - Len(left)]
    BY <2>1, ConcatProperties
  <2> QED
    BY <1>4, <2>2
<1>7. \A i \in 1 .. Len(ready) + 1 : jobs[i] = left[i]
  BY <1>1, <1>3, <1>5, <1>6
<1>8. ASSUME NEW i \in 1 .. Len(waiting)
      PROVE  jobs[Len(ready) + 1 + i] = rest[i]
  <2>1. /\ Len(ready) + 1 + i \in 1 .. Len(left) + Len(rest)
        /\ ~ (Len(ready) + 1 + i <= Len(left))
        /\ (Len(ready) + 1 + i) - Len(left) = i
    BY <1>1, <1>3, <1>5
  <2> QED
    BY <1>6, <2>1
<1>9. ASSUME NEW i \in 1 .. Len(waiting)
      PROVE  jobs[Len(ready) + 1 + i].req = waiting[i]
  BY <1>3, <1>8
<1>10. Len(jobs) = Len(ready) + 1 + Len(waiting)
  BY <1>1, <1>3, <1>5, <1>6
<1>11. \A i \in 1 .. Len(ready) : jobs[i] = ready[i]
  BY <1>1, <1>5, <1>7
<1>12. jobs[Len(ready) + 1] = first
  BY <1>1, <1>5, <1>7
<1> QED
  BY <1>6, <1>9, <1>10, <1>11, <1>12 DEF jobs

LEMMA NextLent ==
    ASSUME TypeOK, [Next]_vars, Exclusive, Lent
    PROVE  Lent'
<1> USE DEF sockVars, serverVars, streamVars
<1>1. CASE Connect
  BY <1>1 DEF Connect, OpenSocket, Lent
<1>2. ASSUME NEW r \in Requests, Send(r)
      PROVE  Lent'
  <2>1. Idle /\ connecting = "no" /\ ready = << >>
    BY <1>2 DEF Send, SendWhileConnecting, SendOnSocket, SendAndConnect, MaySend
  <2>2. CASE SendWhileConnecting(r)
    BY <2>1, <2>2 DEF SendWhileConnecting
  <2>3. CASE SendOnSocket(r)
    <3>1. socket = "open" /\ wire \in {"greeted", "closing"}
      BY <2>1, <2>3 DEF SendOnSocket, Lent, TypeOK
    <3>2. CASE SendWithoutProtocol(r)
      BY <2>1, <2>3, <3>1, <3>2 DEF SendOnSocket, SendWithoutProtocol, Lent
    <3>3. CASE SendDbClose(r)
      BY <2>1, <2>3, <3>1, <3>3 DEF SendOnSocket, SendDbClose, WriteRequest, Note, Lent
    <3>4. CASE SendNormally(r)
      BY <2>1, <2>3, <3>1, <3>4 DEF SendOnSocket, SendNormally, WriteRequest, Note, Lent
    <3> QED
      BY <2>3, <3>2, <3>3, <3>4 DEF SendOnSocket, SendOp
  <2>4. CASE SendAndConnect(r)
    BY <2>1, <2>4 DEF SendAndConnect, OpenSocket, Lent, TypeOK
  <2> QED
    BY <1>2, <2>2, <2>3, <2>4 DEF Send
<1>3. CASE SocketConnect
  BY <1>3 DEF SocketConnect, Lent
<1>4. CASE NegotiateProtocol
  <2>1. /\ ready = << >> /\ waiting = << >> /\ writes = << >>
        /\ wire = "silent" /\ sockets # 0
    BY <1>4 DEF NegotiateProtocol, Lent
  <2> DEFINE job == [kind |-> "handshake", req |-> initiator]
  <2>2. job \in Job
    BY DEF Job, TypeOK
  <2>3. job.kind = "handshake"
    OBVIOUS
  <2>4. ready' = Scheduled(job, "send")
    BY <1>4 DEF NegotiateProtocol, Scheduled
  <2> HIDE DEF job
  <2>5. Len(ready) = 0 /\ Len(waiting) = 0
    BY <2>1, EmptySeq
  <2>6. ready' \in Seq(Job) /\ Len(ready') = 1 /\ ready'[1] = job
    BY <2>2, <2>4, <2>5, HandOver
  <2>7. ready' # << >>
    <3>1. Len(ready') = 1 /\ Len(<< >>) = 0
      BY <2>6
    <3> QED
      BY <3>1
  <2> QED
    BY <1>4, <2>1, <2>3, <2>6, <2>7 DEF NegotiateProtocol, Lent
<1>5. CASE NegotiationFails
  <2>1. ready = << >> /\ waiting = << >> /\ wire = "silent" /\ sockets # 0
    BY <1>5 DEF NegotiationFails, Lent
  <2> DEFINE job == [kind |-> "destroy", req |-> initiator]
  <2>2. job \in Job
    BY DEF Job, TypeOK
  <2>3. job.kind = "destroy"
    OBVIOUS
  <2>4. ready' = Scheduled(job, "reject")
    BY <1>5 DEF NegotiationFails, Scheduled
  <2> HIDE DEF job
  <2>5. Len(ready) = 0 /\ Len(waiting) = 0
    BY <2>1, EmptySeq
  <2>6. ready' \in Seq(Job) /\ Len(ready') = 1 /\ ready'[1] = job
    BY <2>2, <2>4, <2>5, HandOver
  <2>7. ready' # << >>
    <3>1. Len(ready') = 1 /\ Len(<< >>) = 0
      BY <2>6
    <3> QED
      BY <3>1
  <2> QED
    BY <1>5, <2>1, <2>3, <2>6, <2>7 DEF NegotiationFails, Lent
<1>6. CASE SocketFails
  BY <1>6 DEF SocketFails, DropSocket, Note, Idle, Lent
<1>7. CASE SocketEndsToReconnect
  BY <1>7 DEF SocketEndsToReconnect, DropSocket, Note, Idle, Lent
<1>8. CASE Close
  BY <1>8 DEF Close
<1>9. CASE Drain
  <2>1. ready # << >> /\ Len(ready) = 1
    BY <1>9 DEF Drain, RunHandshake, RunSend, RunReject, RunDestroy, Draining, Lent
  <2>2. Head(ready) = ready[1] /\ Tail(ready) = << >> /\ Tail(ready) \o << >> = << >>
    BY <2>1, OneReady
  <2>3. Head(ready) \in Job /\ sockets # 0
    BY <2>1, TailReady DEF Lent
  <2>4. CASE RunHandshake
    <3>1. Head(ready).kind = "handshake"
      BY <2>4 DEF RunHandshake
    <3>2. socket = "null" \/ (socket = "open" /\ wire = "silent")
      BY <2>1, <2>2, <3>1 DEF Lent
    <3>3. CASE socket = "null"
      BY <2>2, <2>3, <2>4, <3>3 DEF RunHandshake, Lent
    <3>4. CASE socket # "null" /\ Head(ready).req = NoRequest
      BY <2>2, <2>3, <2>4, <3>2, <3>4 DEF RunHandshake, Note, Lent
    <3>5. CASE socket # "null" /\ Head(ready).req # NoRequest
      <4> DEFINE job == [kind |-> "send", req |-> Head(ready).req]
      <4>1. job \in Job
        BY <2>3, <3>5 DEF Job
      <4>2. job.kind = "send"
        OBVIOUS
      <4>3. ready' = Tail(ready) \o << job >>
        BY <2>4, <3>5 DEF RunHandshake
      <4> HIDE DEF job
      <4>4. Len(ready') = 1 /\ ready'[1] = job /\ ready' # << >>
        BY <2>1, <4>1, <4>3, OneReady
      <4>5. wire' = "greeted" /\ ctl' = "drain" /\ mishaps' = mishaps
        BY <2>4, <3>2, <3>5, <4>4 DEF RunHandshake, Note, EndTurn
      <4> QED
        BY <2>3, <2>4, <3>2, <3>5, <4>2, <4>4, <4>5 DEF RunHandshake, Lent
    <3> QED
      BY <3>3, <3>4, <3>5
  <2>5. CASE RunSend
    <3>1. socket = "open" /\ wire = "greeted" /\ ready' = << >>
      BY <2>1, <2>2, <2>5 DEF RunSend, Lent
    <3>2. CASE SendWithoutProtocol(Head(ready).req)
      BY <2>3, <2>5, <3>1, <3>2 DEF RunSend, SendWithoutProtocol, Lent
    <3>3. CASE SendDbClose(Head(ready).req)
      BY <2>3, <2>5, <3>1, <3>3 DEF RunSend, SendDbClose, WriteRequest, Note, Lent
    <3>4. CASE SendNormally(Head(ready).req)
      BY <2>3, <2>5, <3>1, <3>4 DEF RunSend, SendNormally, WriteRequest, Note, Lent
    <3> QED
      BY <2>5, <3>2, <3>3, <3>4 DEF RunSend, SendOp
  <2>6. CASE RunReject
    BY <2>1, <2>2, <2>6 DEF RunReject, Lent
  <2>7. CASE RunDestroy
    BY <2>2, <2>3, <2>7 DEF RunDestroy, DropSocket, Note, Lent
  <2> QED
    BY <1>9, <2>4, <2>5, <2>6, <2>7 DEF Drain
<1>10. ASSUME NEW n \in 1 .. Len(bytes), HandleSocketData(n)
       PROVE  Lent'
  BY <1>10 DEF HandleSocketData, Idle, Lent
<1>11. CASE Process
  <2>1. /\ "earlyWrite" \notin mishaps' /\ Processing
        /\ UNCHANGED <<wire, writes, waiting, connecting, socket, sockets, ready>>
    BY <1>11 DEF Process, ProcessPush, ProcessForever, ProcessEnds, ReadCode, ReadReply,
                 ReadPush, CompleteEmpty, Note, Lent
  <2> QED
    BY <2>1 DEF Processing, Lent
<1>12. CASE ServerReply
  BY <1>12 DEF ServerReply, Idle, Lent
<1>13. CASE ServerPush
  BY <1>13 DEF ServerPush, Idle, Lent
<1>14. CASE UNCHANGED vars
  BY <1>14 DEF vars, Lent
<1> QED
  BY <1>1, <1>2, <1>3, <1>4, <1>5, <1>6, <1>7, <1>8, <1>9, <1>10, <1>11, <1>12,
     <1>13, <1>14 DEF Next

\* On a connection that a pool lends to one caller at a time, the server reads the
\* handshake before any request, on every socket the connection opens.
THEOREM HandshakeFirstCorrect == Spec => []HandshakeFirst
<1>1. Init => TypeOK /\ (Exclusive => Lent)
  BY InitTypeOK DEF Init, Lent
<1>2. TypeOK /\ (Exclusive => Lent) /\ [Next]_vars => (TypeOK /\ (Exclusive => Lent))'
  BY NextTypeOK, NextLent
<1>3. (Exclusive => Lent) => HandshakeFirst
  BY DEF Lent, HandshakeFirst
<1> QED
  BY <1>1, <1>2, <1>3, PTL DEF Spec

--------------------------------------------------------------------------------
(* Each unsettled call is in one place.                                        *)

\* No request is in two of the places a call can be in, with jobs for the scheduled
\* callbacks, and the place agrees with what its caller knows.
Separate(jobs) ==
    /\ \A i \in 1 .. Len(queue) : status[queue[i].req] = "queued"
    /\ \A i, j \in 1 .. Len(queue) : queue[i].req = queue[j].req => i = j
    /\ initiator # NoRequest => status[initiator] = "waiting"
    /\ \A i \in 1 .. Len(waiting) : /\ status[waiting[i]] = "waiting"
                                    /\ waiting[i] # initiator
    /\ \A i, j \in 1 .. Len(waiting) : waiting[i] = waiting[j] => i = j
    /\ \A i \in 1 .. Len(jobs) : jobs[i].req # NoRequest =>
         /\ status[jobs[i].req] = "waiting"
         /\ jobs[i].req # initiator
         /\ \A j \in 1 .. Len(waiting) : waiting[j] # jobs[i].req
         /\ \A j \in 1 .. Len(jobs) : jobs[j].req = jobs[i].req => i = j

Apart == Separate(ready)

\* r is in none of them.
Away(r, jobs) ==
    /\ r # initiator
    /\ \A i \in 1 .. Len(queue) : queue[i].req # r
    /\ \A i \in 1 .. Len(waiting) : waiting[i] # r
    /\ \A i \in 1 .. Len(jobs) : jobs[i].req # r

\* What the types say of the places.
LEMMA Places ==
    ASSUME TypeOK
    PROVE  /\ Len(queue) \in Nat /\ Len(waiting) \in Nat /\ Len(ready) \in Nat
           /\ \A i \in 1 .. Len(queue) : queue[i] \in Op /\ queue[i].req \in Requests
           /\ \A i \in 1 .. Len(waiting) : waiting[i] \in Requests
           /\ \A i \in 1 .. Len(ready) :
                ready[i] \in Job /\ ready[i].req \in Requests \cup {NoRequest}
<1>1. queue \in Seq(Op) /\ waiting \in Seq(Requests) /\ ready \in Seq(Job)
  BY DEF TypeOK
<1>2. \A i \in 1 .. Len(queue) : queue[i] \in Op
  BY <1>1, ElementOfSeq
<1>3. \A i \in 1 .. Len(waiting) : waiting[i] \in Requests
  BY <1>1, ElementOfSeq
<1>4. \A i \in 1 .. Len(ready) : ready[i] \in Job
  BY <1>1, ElementOfSeq
<1>5. \A op \in Op : op.req \in Requests
  BY DEF Op
<1>6. \A job \in Job : job.req \in Requests \cup {NoRequest}
  BY DEF Job
<1>7. Len(queue) \in Nat /\ Len(waiting) \in Nat /\ Len(ready) \in Nat
  BY <1>1
<1> QED
  BY <1>2, <1>3, <1>4, <1>5, <1>6, <1>7

LEMMA UnsentAway ==
    ASSUME TypeOK, Apart, NEW r \in Requests, status[r] \notin {"waiting", "queued"}
    PROVE  Away(r, ready)
BY Places, ConnectionAssumption DEF Apart, Separate, Away

\* Taking the next callback.
LEMMA TailApart ==
    ASSUME TypeOK, Apart, ready # << >>
    PROVE  /\ Head(ready) = ready[1] /\ 1 \in 1 .. Len(ready)
           /\ Tail(ready) \in Seq(Job)
           /\ Len(Tail(ready)) = Len(ready) - 1
           /\ \A i \in 1 .. Len(Tail(ready)) : Tail(ready)[i] = ready[i + 1]
           /\ Separate(Tail(ready))
           /\ Head(ready).req # NoRequest =>
                /\ Head(ready).req \in Requests
                /\ status[Head(ready).req] = "waiting"
                /\ Away(Head(ready).req, Tail(ready))
<1>1. ready \in Seq(Job)
  BY DEF TypeOK
<1>2. /\ Head(ready) = ready[1] /\ 1 \in 1 .. Len(ready) /\ Len(ready) \in Nat
      /\ Tail(ready) \in Seq(Job)
      /\ Len(Tail(ready)) = Len(ready) - 1
      /\ \A i \in 1 .. Len(Tail(ready)) : Tail(ready)[i] = ready[i + 1]
  BY <1>1, HeadTailProperties, EmptySeq
<1> DEFINE rest == Tail(ready)
<1>3. Len(rest) = Len(ready) - 1 /\ \A i \in 1 .. Len(rest) : rest[i] = ready[i + 1]
  BY <1>2
<1> HIDE DEF rest
<1>4. \A i \in 1 .. Len(rest) : i + 1 \in 1 .. Len(ready) /\ i + 1 # 1 /\ rest[i] = ready[i + 1]
  BY <1>2, <1>3
<1>5. Separate(rest)
  <2>1. ASSUME NEW i \in 1 .. Len(rest), rest[i].req # NoRequest
        PROVE  /\ status[rest[i].req] = "waiting"
               /\ rest[i].req # initiator
               /\ \A j \in 1 .. Len(waiting) : waiting[j] # rest[i].req
    BY <1>4, <2>1 DEF Apart, Separate
  <2>2. ASSUME NEW i \in 1 .. Len(rest), NEW j \in 1 .. Len(rest),
               rest[i].req # NoRequest, rest[j].req = rest[i].req
        PROVE  i = j
    <3>1. i + 1 = j + 1
      BY <1>4, <2>2 DEF Apart, Separate
    <3> QED
      BY <3>1
  <2> QED
    BY <2>1, <2>2 DEF Apart, Separate
<1>6. ASSUME Head(ready).req # NoRequest
      PROVE  /\ Head(ready).req \in Requests
             /\ status[Head(ready).req] = "waiting"
             /\ Away(Head(ready).req, rest)
  <2> DEFINE r == ready[1].req
  <2>1. r \in Requests /\ r # NoRequest /\ status[r] = "waiting" /\ r # initiator
    BY <1>2, <1>6, Places DEF Apart, Separate
  <2>2. \A i \in 1 .. Len(queue) : queue[i].req # r
    BY <2>1 DEF Apart, Separate
  <2>3. \A i \in 1 .. Len(waiting) : waiting[i] # r
    BY <1>2, <2>1 DEF Apart, Separate
  <2>4. \A i \in 1 .. Len(rest) : rest[i].req # r
    BY <1>2, <1>4, <2>1 DEF Apart, Separate
  <2> QED
    BY <1>2, <2>1, <2>2, <2>3, <2>4 DEF Away
<1> QED
  BY <1>2, <1>5, <1>6 DEF rest

\* The call of r, which is nowhere any more, is settled.
LEMMA SettleApart ==
    ASSUME TypeOK, NEW jobs, Separate(jobs), NEW r \in Requests, Away(r, jobs),
           NEW outcome,
           status' = [status EXCEPT ![r] = outcome],
           ready' = jobs,
           UNCHANGED <<queue, initiator, waiting>>
    PROVE  Apart'
<1>1. \A q : q \in Requests /\ q # r => status'[q] = status[q]
  BY DEF TypeOK
<1>2. initiator # NoRequest => status'[initiator] = "waiting"
  BY <1>1 DEF Separate, Away, TypeOK
<1>3. \A i \in 1 .. Len(queue) : status'[queue[i].req] = "queued"
  BY <1>1, Places DEF Separate, Away
<1>4. \A i \in 1 .. Len(waiting) : status'[waiting[i]] = "waiting"
  BY <1>1, Places DEF Separate, Away
<1>5. \A i \in 1 .. Len(jobs) : jobs[i].req # NoRequest => status'[jobs[i].req] = "waiting"
  BY DEF Separate, Away, TypeOK
<1> QED
  BY <1>2, <1>3, <1>4, <1>5 DEF Apart, Separate

LEMMA EnqueueApart ==
    ASSUME TypeOK, NEW jobs, Separate(jobs), NEW r \in Requests, Away(r, jobs), Enqueue(r),
           ready' = jobs,
           UNCHANGED <<initiator, waiting>>
    PROVE  Apart'
<1> DEFINE new == [req |-> r, sock |-> sockets, n |-> written + 1,
                   stage |-> "fresh", head |-> NoUnit]
<1>1. new \in Op
  BY DEF TypeOK, Op, Stages, NoUnit, Unit, Codes
<1>2. new.req = r
  OBVIOUS
<1>3. queue' = Append(queue, new) /\ status' = [status EXCEPT ![r] = "queued"]
  BY DEF Enqueue
<1> HIDE DEF new
<1>4. /\ Len(queue') = Len(queue) + 1
      /\ \A i \in 1 .. Len(queue) : queue'[i] = queue[i]
      /\ queue'[Len(queue) + 1] = new
  BY <1>1, <1>3, AppendProperties DEF TypeOK
<1>5. \A i \in 1 .. Len(queue') :
         \/ i \in 1 .. Len(queue) /\ queue'[i].req = queue[i].req /\ queue'[i].req # r
         \/ i = Len(queue) + 1 /\ queue'[i].req = r
  BY <1>2, <1>4, Places DEF Away
<1>6. \A i, j \in 1 .. Len(queue') : queue'[i].req = queue'[j].req => i = j
  BY <1>5 DEF Separate
<1>7. \A i \in 1 .. Len(queue') : status'[queue'[i].req] = "queued"
  BY <1>3, <1>5, Places DEF Separate, TypeOK
<1>8. \A q \in Requests : q # r => status'[q] = status[q]
  BY <1>3 DEF TypeOK
<1>9. \A i \in 1 .. Len(jobs) : jobs[i].req # NoRequest => status'[jobs[i].req] = "waiting"
  BY <1>3 DEF Separate, Away, TypeOK
<1> QED
  BY <1>3, <1>6, <1>7, <1>8, <1>9, Places DEF Apart, Separate, Away, TypeOK

LEMMA SendOpApart ==
    ASSUME TypeOK, NEW jobs, Separate(jobs), NEW r \in Requests, Away(r, jobs), SendOp(r),
           ready' = jobs,
           UNCHANGED <<initiator, waiting>>
    PROVE  Apart'
<1>1. CASE SendWithoutProtocol(r)
  BY <1>1, SettleApart DEF SendWithoutProtocol
<1>2. CASE SendDbClose(r)
  BY <1>2, SettleApart DEF SendDbClose
<1>3. CASE SendNormally(r)
  BY <1>3, EnqueueApart DEF SendNormally
<1> QED
  BY <1>1, <1>2, <1>3 DEF SendOp

\* The end of the negotiation hands every chained call to a callback.
LEMMA HandOverApart ==
    ASSUME TypeOK, Apart, NEW first \in Job, NEW kind \in {"send", "reject"},
           first.req = initiator,
           ready' = Scheduled(first, kind),
           waiting' = << >>, initiator' = NoRequest,
           UNCHANGED <<queue, status>>
    PROVE  Apart'
<1>1. /\ Len(ready) \in Nat /\ Len(waiting) \in Nat
      /\ \A i \in 1 .. Len(waiting) : waiting[i] \in Requests
  BY Places
<1>2. /\ Len(ready') = Len(ready) + 1 + Len(waiting)
      /\ \A i \in 1 .. Len(ready) : ready'[i] = ready[i]
      /\ ready'[Len(ready) + 1] = first
      /\ \A i \in 1 .. Len(waiting) : ready'[Len(ready) + 1 + i].req = waiting[i]
  <2> DEFINE jobs == Scheduled(first, kind)
  <2>1. /\ Len(jobs) = Len(ready) + 1 + Len(waiting)
        /\ \A i \in 1 .. Len(ready) : jobs[i] = ready[i]
        /\ jobs[Len(ready) + 1] = first
        /\ \A i \in 1 .. Len(waiting) : jobs[Len(ready) + 1 + i].req = waiting[i]
    BY HandOver
  <2> QED
    BY <2>1
<1>3. ASSUME NEW i \in 1 .. Len(ready')
      PROVE  \/ i \in 1 .. Len(ready) /\ ready'[i].req = ready[i].req
             \/ i = Len(ready) + 1 /\ ready'[i].req = initiator
             \/ \E m \in 1 .. Len(waiting) : /\ i = Len(ready) + 1 + m
                                             /\ ready'[i].req = waiting[m]
  <2>1. CASE i > Len(ready) + 1
    <3>1. i - (Len(ready) + 1) \in 1 .. Len(waiting)
      BY <1>1, <1>2, <2>1
    <3>2. i = Len(ready) + 1 + (i - (Len(ready) + 1))
      BY <1>1
    <3> QED
      BY <1>2, <3>1, <3>2
  <2>2. CASE ~ (i > Len(ready) + 1)
    BY <1>1, <1>2, <2>2
  <2> QED
    BY <2>1, <2>2
<1>4. ASSUME NEW i \in 1 .. Len(ready'), ready'[i].req # NoRequest
      PROVE  status[ready'[i].req] = "waiting"
  <2>1. CASE i \in 1 .. Len(ready) /\ ready'[i].req = ready[i].req
    BY <1>4, <2>1 DEF Apart, Separate
  <2>2. CASE ready'[i].req = initiator
    BY <1>4, <2>2 DEF Apart, Separate
  <2>3. CASE \E m \in 1 .. Len(waiting) : ready'[i].req = waiting[m]
    BY <2>3 DEF Apart, Separate
  <2> QED
    BY <1>3, <2>1, <2>2, <2>3
<1>5. ASSUME NEW i \in 1 .. Len(ready'), ready'[i].req # NoRequest,
             NEW j \in 1 .. Len(ready'), ready'[j].req = ready'[i].req
      PROVE  i = j
  <2>1. CASE i \in 1 .. Len(ready) /\ ready'[i].req = ready[i].req
    BY <1>3, <1>5, <2>1 DEF Apart, Separate
  <2>2. CASE i = Len(ready) + 1 /\ ready'[i].req = initiator
    <3>1. CASE j \in 1 .. Len(ready) /\ ready'[j].req = ready[j].req
      BY <1>5, <2>2, <3>1 DEF Apart, Separate
    <3>2. CASE j = Len(ready) + 1
      BY <2>2, <3>2
    <3>3. CASE \E l \in 1 .. Len(waiting) : ready'[j].req = waiting[l]
      BY <1>5, <2>2, <3>3 DEF Apart, Separate
    <3> QED
      BY <1>3, <3>1, <3>2, <3>3
  <2>3. ASSUME NEW m \in 1 .. Len(waiting), i = Len(ready) + 1 + m,
               ready'[i].req = waiting[m]
        PROVE  i = j
    <3>1. CASE j \in 1 .. Len(ready) /\ ready'[j].req = ready[j].req
      BY <1>5, <2>3, <3>1 DEF Apart, Separate
    <3>2. CASE j = Len(ready) + 1 /\ ready'[j].req = initiator
      BY <1>5, <2>3, <3>2 DEF Apart, Separate
    <3>3. ASSUME NEW l \in 1 .. Len(waiting), j = Len(ready) + 1 + l,
                 ready'[j].req = waiting[l]
          PROVE  i = j
      BY <1>5, <2>3, <3>3 DEF Apart, Separate
    <3> QED
      BY <1>3, <3>1, <3>2, <3>3
  <2> QED
    BY <1>3, <2>1, <2>2, <2>3
<1>6. Len(waiting') = 0
  BY EmptySeq
<1> QED
  BY <1>4, <1>5, <1>6 DEF Apart, Separate

\* A socket is dropped, and of the queue either nothing or all is left.
LEMMA DropApart ==
    ASSUME TypeOK, NEW jobs \in Seq(Job), Separate(jobs), NEW leftover, DropSocket(leftover),
           ready' = jobs,
           \/ queue' = queue /\ status' = status
           \/ queue' = << >> /\ status' = Cancel(QueueReqs)
    PROVE  Apart'
<1>1. initiator' = NoRequest /\ waiting' = << >> /\ Len(waiting') = 0
  BY DEF DropSocket
<1>2. CASE queue' = queue /\ status' = status
  BY <1>1, <1>2 DEF Apart, Separate
<1>3. CASE queue' = << >> /\ status' = Cancel(QueueReqs)
  <2>1. Len(queue') = 0
    BY <1>3
  <2>2. \A r \in Requests : status[r] = "waiting" => status'[r] = "waiting"
    BY <1>3 DEF Cancel, QueueReqs, Separate
  <2>3. \A i \in 1 .. Len(jobs) : jobs[i].req # NoRequest => jobs[i].req \in Requests
    BY ElementOfSeq DEF Job
  <2> QED
    BY <1>1, <1>3, <2>1, <2>2, <2>3 DEF Apart, Separate
<1> QED
  BY <1>2, <1>3

\* The head of the queue is settled, or only changes how far it has come.
LEMMA TailQueueApart ==
    ASSUME TypeOK, Apart, queue # << >>, NEW outcome,
           queue' = Tail(queue), status' = [status EXCEPT ![queue[1].req] = outcome],
           UNCHANGED <<initiator, waiting, ready>>
    PROVE  Apart'
<1>1. queue \in Seq(Op) /\ Len(queue) \in Nat /\ 1 \in 1 .. Len(queue)
  BY EmptySeq DEF TypeOK
<1>2. /\ Len(queue') = Len(queue) - 1
      /\ \A i \in 1 .. Len(queue') : queue'[i] = queue[i + 1]
  BY <1>1, HeadTailProperties
<1>3. queue[1].req \in Requests /\ status[queue[1].req] = "queued"
  BY <1>1, Places DEF Apart, Separate
<1>4. \A i \in 1 .. Len(queue') :
         i + 1 \in 1 .. Len(queue) /\ i + 1 # 1 /\ queue'[i] = queue[i + 1]
  BY <1>1, <1>2
<1>5. ASSUME NEW i \in 1 .. Len(queue'), NEW j \in 1 .. Len(queue'),
             queue'[i].req = queue'[j].req
      PROVE  i = j
  <2>1. i + 1 = j + 1
    BY <1>4, <1>5 DEF Apart, Separate
  <2> QED
    BY <2>1
<1>6. ASSUME NEW i \in 1 .. Len(queue')
      PROVE  status'[queue'[i].req] = "queued"
  <2>1. i + 1 \in 1 .. Len(queue) /\ i + 1 # 1 /\ queue'[i] = queue[i + 1]
    BY <1>4
  <2>2. queue[i + 1].req # queue[1].req
    BY <1>1, <2>1 DEF Apart, Separate
  <2>3. /\ status[queue[i + 1].req] = "queued"
        /\ queue[i + 1].req \in Requests
    BY <2>1, Places DEF Apart, Separate
  <2>4. \A q \in Requests \ {queue[1].req} : status'[q] = status[q]
    BY DEF TypeOK
  <2> QED
    BY <2>1, <2>2, <2>3, <2>4
<1>7. \A q \in Requests : status[q] = "waiting" => status'[q] = "waiting"
  BY <1>3 DEF TypeOK
<1>8. initiator # NoRequest => status'[initiator] = "waiting"
  BY <1>7 DEF Apart, Separate, TypeOK
<1>9. \A i \in 1 .. Len(waiting) : status'[waiting[i]] = "waiting"
  BY <1>7, Places DEF Apart, Separate
<1>10. \A i \in 1 .. Len(ready) :
          ready[i].req # NoRequest => status'[ready[i].req] = "waiting"
  BY <1>7, Places DEF Apart, Separate
<1> QED
  BY <1>5, <1>6, <1>8, <1>9, <1>10 DEF Apart, Separate

LEMMA HeadApart ==
    ASSUME TypeOK, Apart, queue # << >>,
           NEW stage \in Stages, NEW head \in Unit, SetHead(stage, head),
           UNCHANGED <<initiator, waiting, ready, status>>
    PROVE  /\ Apart'
           /\ Len(queue') = Len(queue)
           /\ \A i \in 1 .. Len(queue) : queue'[i].req = queue[i].req
<1>1. queue \in Seq(Op) /\ Len(queue) \in Nat /\ 1 \in 1 .. Len(queue)
  BY EmptySeq DEF TypeOK
<1>2. /\ Len(queue') = Len(queue)
      /\ queue'[1] = [req |-> queue[1].req, sock |-> queue[1].sock,
                      n |-> queue[1].n, stage |-> stage, head |-> head]
      /\ \A i \in 2 .. Len(queue) : queue'[i] = queue[i]
  BY HeadTypes
<1>3. \A i \in 1 .. Len(queue) : queue'[i].req = queue[i].req
  <2>1. queue'[1].req = queue[1].req
    BY <1>2
  <2>2. \A i \in 2 .. Len(queue) : queue'[i].req = queue[i].req
    BY <1>2
  <2> QED
    BY <1>1, <2>1, <2>2
<1> QED
  BY <1>2, <1>3 DEF Apart, Separate

LEMMA NextApart ==
    ASSUME TypeOK, [Next]_vars, Apart
    PROVE  Apart'
<1> USE DEF sockVars, serverVars, streamVars
<1>1. CASE Connect
  BY <1>1, Places, ConnectionAssumption, SMTT(30) DEF Connect, OpenSocket, Apart, Separate
<1>2. ASSUME NEW r \in Requests, Send(r)
      PROVE  Apart'
  <2>1. status[r] = "unsent" /\ Away(r, ready)
    <3>1. status[r] = "unsent"
      BY <1>2 DEF Send, SendWhileConnecting, SendOnSocket, SendAndConnect, MaySend
    <3> QED
      BY <3>1, UnsentAway
  <2>2. CASE SendWhileConnecting(r)
    <3>1. \A q \in Requests : q # r => status'[q] = status[q]
      BY <2>2 DEF SendWhileConnecting, TypeOK
    <3>2. status'[r] = "waiting"
      BY <2>2 DEF SendWhileConnecting, TypeOK
    <3>3. /\ initiator' = initiator /\ queue' = queue
          /\ initiator # NoRequest => status'[initiator] = "waiting"
          /\ \A i \in 1 .. Len(queue) : status'[queue[i].req] = "queued"
          /\ \A i \in 1 .. Len(waiting) : status'[waiting[i]] = "waiting"
          /\ \A i \in 1 .. Len(ready) :
               ready[i].req # NoRequest => status'[ready[i].req] = "waiting"
      BY <2>1, <2>2, <3>1, Places, ConnectionAssumption
         DEF SendWhileConnecting, Apart, Separate, Away, TypeOK
    <3>4. CASE waiting' = Append(waiting, r) /\ ready' = ready
      <4>1. /\ Len(waiting') = Len(waiting) + 1
            /\ \A i \in 1 .. Len(waiting) : waiting'[i] = waiting[i]
            /\ waiting'[Len(waiting) + 1] = r
        BY <3>4, AppendProperties DEF TypeOK
      <4>2. \A i \in 1 .. Len(waiting') :
              \/ i \in 1 .. Len(waiting) /\ waiting'[i] = waiting[i] /\ waiting[i] # r
              \/ i = Len(waiting) + 1 /\ waiting'[i] = r
        BY <2>1, <4>1, Places DEF Away
      <4>3. \A i, j \in 1 .. Len(waiting') : waiting'[i] = waiting'[j] => i = j
        BY <4>2 DEF Apart, Separate
      <4>4. \A i \in 1 .. Len(waiting') :
              /\ status'[waiting'[i]] = "waiting"
              /\ waiting'[i] # initiator
        BY <2>1, <3>2, <3>3, <4>2 DEF Apart, Separate, Away
      <4>5. \A i \in 1 .. Len(ready) : ready[i].req # NoRequest =>
              \A j \in 1 .. Len(waiting') : waiting'[j] # ready[i].req
        BY <2>1, <4>2 DEF Apart, Separate, Away
      <4> QED
        BY <3>3, <3>4, <4>3, <4>4, <4>5 DEF Apart, Separate
    <3>5. CASE ready' = Append(ready, [kind |-> "reject", req |-> r]) /\ waiting' = waiting
      <4> DEFINE job == [kind |-> "reject", req |-> r]
      <4>1. job \in Job /\ job.req = r
        BY DEF Job
      <4>2. ready' = Append(ready, job)
        BY <3>5
      <4> HIDE DEF job
      <4>3. /\ Len(ready') = Len(ready) + 1
            /\ \A i \in 1 .. Len(ready) : ready'[i] = ready[i]
            /\ ready'[Len(ready) + 1] = job
        BY <4>1, <4>2, AppendProperties DEF TypeOK
      <4>4. \A i \in 1 .. Len(ready') :
              \/ i \in 1 .. Len(ready) /\ ready'[i].req = ready[i].req /\ ready[i].req # r
              \/ i = Len(ready) + 1 /\ ready'[i].req = r
        BY <2>1, <4>1, <4>3, Places DEF Away
      <4>5. \A i, j \in 1 .. Len(ready') :
              ready'[i].req # NoRequest /\ ready'[j].req = ready'[i].req => i = j
        BY <4>4 DEF Apart, Separate
      <4>6. \A i \in 1 .. Len(ready') : ready'[i].req # NoRequest =>
              /\ status'[ready'[i].req] = "waiting"
              /\ ready'[i].req # initiator
              /\ \A j \in 1 .. Len(waiting) : waiting[j] # ready'[i].req
        BY <2>1, <3>2, <3>3, <4>4 DEF Apart, Separate, Away
      <4> QED
        BY <3>3, <3>5, <4>5, <4>6 DEF Apart, Separate
    <3> QED
      BY <2>2, <3>4, <3>5 DEF SendWhileConnecting
  <2>3. CASE SendOnSocket(r)
    BY <2>1, <2>3, SendOpApart DEF SendOnSocket, Apart
  <2>4. CASE SendAndConnect(r)
    <3>1. initiator' = r /\ UNCHANGED <<queue, waiting, ready>>
      BY <2>4 DEF SendAndConnect, OpenSocket
    <3>2. status'[r] = "waiting" /\ \A q \in Requests : q # r => status'[q] = status[q]
      BY <2>4 DEF SendAndConnect, TypeOK
    <3>3. /\ \A i \in 1 .. Len(queue) : status'[queue[i].req] = "queued"
          /\ \A i \in 1 .. Len(waiting) : status'[waiting[i]] = "waiting"
          /\ \A i \in 1 .. Len(ready) :
               ready[i].req # NoRequest => status'[ready[i].req] = "waiting"
      BY <2>1, <3>2, Places DEF Apart, Separate, Away
    <3> QED
      BY <2>1, <3>1, <3>2, <3>3 DEF Apart, Separate, Away
  <2> QED
    BY <1>2, <2>2, <2>3, <2>4 DEF Send
<1>3. CASE SocketConnect
  BY <1>3 DEF SocketConnect, Apart, Separate
<1>4. CASE NegotiateProtocol
  <2> DEFINE job == [kind |-> "handshake", req |-> initiator]
  <2>1. job \in Job /\ job.req = initiator
    BY DEF Job, TypeOK
  <2>2. ready' = Scheduled(job, "send")
    BY <1>4 DEF NegotiateProtocol, Scheduled
  <2> HIDE DEF job
  <2> QED
    BY <1>4, <2>1, <2>2, HandOverApart DEF NegotiateProtocol
<1>5. CASE NegotiationFails
  <2> DEFINE job == [kind |-> "destroy", req |-> initiator]
  <2>1. job \in Job /\ job.req = initiator
    BY DEF Job, TypeOK
  <2>2. ready' = Scheduled(job, "reject")
    BY <1>5 DEF NegotiationFails, Scheduled
  <2> HIDE DEF job
  <2> QED
    BY <1>5, <2>1, <2>2, HandOverApart DEF NegotiationFails
<1>6. ready \in Seq(Job)
  BY DEF TypeOK
<1>7. CASE SocketFails
  BY <1>6, <1>7, DropApart DEF SocketFails, Apart
<1>8. CASE SocketEndsToReconnect
  BY <1>6, <1>8, DropApart DEF SocketEndsToReconnect, Apart
<1>9. CASE Close
  BY <1>6, <1>9, DropApart DEF Close, Apart
<1>10. CASE Drain
  <2> DEFINE r    == Head(ready).req
             rest == Tail(ready)
  <2>1. ready # << >>
    BY <1>10 DEF Drain, RunHandshake, RunSend, RunReject, RunDestroy, Draining
  <2>2. /\ rest \in Seq(Job) /\ Separate(rest)
        /\ r # NoRequest => /\ r \in Requests /\ status[r] = "waiting"
                            /\ Away(r, rest)
    BY <2>1, TailApart
  <2>3. Head(ready) \in Job
    BY <2>1, TailReady
  <2>4. Head(ready).kind \in {"send", "reject"} => r # NoRequest
    BY <2>3, ConnectionAssumption DEF Job
  <2>5. ASSUME ready' = rest,
               status' = IF r = NoRequest THEN status ELSE [status EXCEPT ![r] = "failed"],
               UNCHANGED <<queue, initiator, waiting>>
        PROVE  Apart'
    <3>1. CASE r = NoRequest
      BY <2>2, <2>5, <3>1 DEF Apart, Separate
    <3>2. CASE r # NoRequest
      BY <2>2, <2>5, <3>2, SettleApart
    <3> QED
      BY <3>1, <3>2
  <2>6. CASE RunHandshake
    <3>1. CASE socket = "null"
      BY <2>5, <2>6, <3>1 DEF RunHandshake
    <3>2. CASE socket # "null" /\ r = NoRequest
      <4>1. ready' = rest \o << >> /\ UNCHANGED <<queue, initiator, waiting, status>>
        BY <2>6, <3>2 DEF RunHandshake
      <4>2. ready' = rest
        BY <2>2, <4>1, ConcatEmptySeq
      <4> QED
        BY <2>2, <4>1, <4>2 DEF Apart, Separate
    <3>3. CASE socket # "null" /\ r # NoRequest
      <4> DEFINE job == [kind |-> "send", req |-> r]
      <4>1. job \in Job /\ job.req = r
        BY <2>2, <3>3 DEF Job
      <4>2. ready' = rest \o << job >> /\ UNCHANGED <<queue, initiator, waiting, status>>
        BY <2>6, <3>3 DEF RunHandshake
      <4> HIDE DEF job, rest, r
      <4>3. ready' = Append(rest, job)
        BY <2>2, <4>1, <4>2, AppendIsConcat
      <4>4. /\ Len(ready') = Len(rest) + 1 /\ Len(rest) \in Nat
            /\ \A i \in 1 .. Len(rest) : ready'[i] = rest[i]
            /\ ready'[Len(rest) + 1] = job
        BY <2>2, <4>1, <4>3, AppendProperties
      <4>5. \A i \in 1 .. Len(ready') :
              \/ i \in 1 .. Len(rest) /\ ready'[i].req = rest[i].req /\ rest[i].req # r
              \/ i = Len(rest) + 1 /\ ready'[i].req = r
        BY <2>2, <3>3, <4>1, <4>4 DEF Away
      <4>6. \A i, j \in 1 .. Len(ready') :
              ready'[i].req # NoRequest /\ ready'[j].req = ready'[i].req => i = j
        BY <2>2, <4>5 DEF Separate
      <4>7. \A i \in 1 .. Len(ready') : ready'[i].req # NoRequest =>
              /\ status[ready'[i].req] = "waiting"
              /\ ready'[i].req # initiator
              /\ \A j \in 1 .. Len(waiting) : waiting[j] # ready'[i].req
        BY <2>2, <3>3, <4>5 DEF Separate, Away
      <4> QED
        BY <2>2, <4>2, <4>6, <4>7 DEF Apart, Separate
    <3> QED
      BY <3>1, <3>2, <3>3
  <2>7. CASE RunSend
    BY <2>2, <2>4, <2>7, SendOpApart DEF RunSend
  <2>8. CASE RunReject
    BY <2>4, <2>5, <2>8 DEF RunReject
  <2>9. CASE RunDestroy
    <3>1. /\ ready' = rest /\ queue' = queue
          /\ status' = IF r = NoRequest THEN status ELSE [status EXCEPT ![r] = "failed"]
          /\ initiator' = NoRequest /\ waiting' = << >> /\ Len(waiting') = 0
      BY <2>9 DEF RunDestroy, DropSocket
    <3>2. CASE r = NoRequest
      BY <2>2, <3>1, <3>2 DEF Apart, Separate
    <3>3. CASE r # NoRequest
      <4>1. \A q \in Requests : q # r => status'[q] = status[q]
        BY <3>1, <3>3 DEF TypeOK
      <4>2. \A i \in 1 .. Len(queue) : status'[queue[i].req] = "queued"
        BY <2>2, <3>3, <4>1, Places DEF Separate, Away
      <4>3. \A i \in 1 .. Len(rest) : rest[i].req # NoRequest => status'[rest[i].req] = "waiting"
        BY <2>2, <3>1, <3>3 DEF Separate, Away, TypeOK
      <4> HIDE DEF rest, r
      <4> QED
        BY <2>2, <3>1, <4>2, <4>3 DEF Apart, Separate
    <3> QED
      BY <3>2, <3>3
  <2> QED
    BY <1>10, <2>6, <2>7, <2>8, <2>9 DEF Drain
<1>11. ASSUME NEW n \in 1 .. Len(bytes), HandleSocketData(n)
       PROVE  Apart'
  BY <1>11 DEF HandleSocketData, Apart, Separate
<1>12. CASE Process
  <2>1. UNCHANGED <<initiator, waiting, ready>>
    BY <1>12 DEF Process, ProcessPush, ProcessForever, ProcessEnds, ReadCode, ReadReply,
                 ReadPush, CompleteEmpty
  <2>2. ASSUME UNCHANGED <<queue, status>> PROVE Apart'
    BY <2>1, <2>2 DEF Apart, Separate
  <2>3. CASE ReadCode
    <3>1. PICK c \in CodeByte, stage \in {"push", "body"} :
            SetHead(stage, [bytes[1] EXCEPT !.code = c])
      BY <2>3 DEF ReadCode
    <3> DEFINE head == [bytes[1] EXCEPT !.code = c]
    <3>2. head \in Unit /\ queue # << >> /\ stage \in Stages /\ status' = status
      BY <2>3, CodeByteType DEF ReadCode, Stages
    <3>3. SetHead(stage, head)
      BY <3>1
    <3> HIDE DEF head
    <3> QED
      BY <2>1, <3>2, <3>3, HeadApart
  <2>4. CASE ReadReply
    <3>1. CASE queue[1].head.code = "odd"
      <4>1. queue' = << >> /\ Len(queue') = 0 /\ status' = Cancel(QueueReqs)
        BY <2>4, <3>1 DEF ReadReply
      <4>2. \A q \in Requests : status[q] = "waiting" => status'[q] = "waiting"
        BY <4>1 DEF Cancel, QueueReqs, Apart, Separate
      <4> QED
        BY <2>1, <4>1, <4>2, Places, ConnectionAssumption DEF Apart, Separate, TypeOK
    <3>2. CASE queue[1].head.code # "odd"
      BY <2>1, <2>4, <3>2, TailQueueApart DEF ReadReply
    <3> QED
      BY <3>1, <3>2
  <2>5. CASE ReadPush
    <3>1. NoUnit \in Unit /\ "robbed" \in Stages
      BY DEF NoUnit, Unit, Codes, Stages
    <3>2. CASE SetHead("robbed", NoUnit) /\ UNCHANGED status
      BY <2>1, <2>5, <3>1, <3>2, HeadApart DEF ReadPush
    <3>3. CASE queue' = Tail(queue) /\ status' = [status EXCEPT ![queue[1].req] = "misread"]
      BY <2>1, <2>5, <3>3, TailQueueApart DEF ReadPush
    <3> QED
      BY <2>5, <3>2, <3>3 DEF ReadPush
  <2>6. CASE CompleteEmpty
    BY <2>1, <2>6, TailQueueApart DEF CompleteEmpty
  <2> QED
    BY <1>12, <2>2, <2>3, <2>4, <2>5, <2>6
       DEF Process, ProcessPush, ProcessForever, ProcessEnds
<1>13. CASE ServerReply
  BY <1>13 DEF ServerReply, Apart, Separate
<1>14. CASE ServerPush
  BY <1>14 DEF ServerPush, Apart, Separate
<1>15. CASE UNCHANGED vars
  BY <1>15 DEF vars, Apart, Separate
<1> QED
  BY <1>1, <1>2, <1>3, <1>4, <1>5, <1>7, <1>8, <1>9, <1>10, <1>11, <1>12,
     <1>13, <1>14, <1>15 DEF Next

--------------------------------------------------------------------------------
(* No call is lost.                                                            *)

\* Every unsettled call has a place, as long as no mishap strikes; what is chained to
\* connect() is there only while connect() is on its way; and the parser is never
\* ahead of the server.
Held ==
    /\ connecting = "pending" => socket \in {"connect", "negotiate"}
    /\ connecting # "pending" => initiator = NoRequest /\ waiting = << >>
    /\ \A r \in Requests : status[r] = "waiting" => Chained(r)
    /\ \A r \in Requests : status[r] = "queued" => r \in QueueReqs
    /\ socket = "open" => last.n <= answered

LEMMA HeldStays ==
    ASSUME Held,
           UNCHANGED <<connecting, initiator, waiting, ready, queue, status, socket,
                       last, answered>>
    PROVE  Held'
BY DEF Held, Chained, QueueReqs

\* Parsing n units.
LEMMA ConsumeHeld ==
    ASSUME TypeOK, StreamInOrder, NEW n \in Nat \ {0}, received >= n, Consume(n)
    PROVE  last'.n <= answered
<1>1. n \in 1 .. Len(bytes)
  BY DEF TypeOK
<1> QED
  BY <1>1 DEF Consume, StreamInOrder

\* A request is written, or fails; jobs are the callbacks that are left.
LEMMA SendOpHeld ==
    ASSUME TypeOK, Held, NEW r \in Requests, SendOp(r), mishaps = {}, mishaps' = {},
           \A q \in Requests : status[q] = "waiting" /\ q # r =>
             \/ q = initiator
             \/ \E i \in 1 .. Len(waiting) : waiting[i] = q
             \/ \E i \in 1 .. Len(ready') : ready'[i].req = q,
           UNCHANGED <<connecting, initiator, waiting, socket, last, answered>>
    PROVE  Held'
<1>1. /\ \A q \in Requests : q # r => status'[q] = status[q]
      /\ status'[r] \in {"failed", "resolved", "queued"}
  BY DEF SendOp, SendWithoutProtocol, SendDbClose, SendNormally, Enqueue, TypeOK
<1>2. \A q \in Requests : status'[q] = "waiting" => Chained(q)'
  BY <1>1 DEF Chained
<1>3. \A q \in Requests : status'[q] = "queued" => q \in QueueReqs'
  <2>1. CASE SendWithoutProtocol(r) \/ SendDbClose(r)
    <3>1. queue' = queue /\ status'[r] # "queued"
      BY <2>1 DEF SendWithoutProtocol, SendDbClose, TypeOK
    <3> QED
      BY <1>1, <3>1 DEF Held, QueueReqs
  <2>2. CASE SendNormally(r)
    <3> DEFINE new == [req |-> r, sock |-> sockets, n |-> written + 1,
                       stage |-> "fresh", head |-> NoUnit]
    <3>1. new \in Op /\ new.req = r
      BY DEF TypeOK, Op, Stages, NoUnit, Unit, Codes
    <3>2. queue' = Append(queue, new)
      BY <2>2 DEF SendNormally, Enqueue
    <3> HIDE DEF new
    <3>3. /\ Len(queue') = Len(queue) + 1 /\ Len(queue) \in Nat
          /\ \A i \in 1 .. Len(queue) : queue'[i] = queue[i]
          /\ queue'[Len(queue) + 1] = new
      BY <3>1, <3>2, AppendProperties DEF TypeOK
    <3>4. r \in QueueReqs'
      <4>1. Len(queue) + 1 \in 1 .. Len(queue')
        BY <3>3
      <4> QED
        BY <3>1, <3>3, <4>1 DEF QueueReqs
    <3>5. QueueReqs \subseteq QueueReqs'
      BY <3>3 DEF QueueReqs
    <3> QED
      BY <1>1, <3>4, <3>5 DEF Held
  <2> QED
    BY <2>1, <2>2 DEF SendOp
<1> QED
  BY <1>2, <1>3 DEF Held

\* The negotiation ends: what was chained is scheduled.
LEMMA HandOverHeld ==
    ASSUME TypeOK, Held, NEW first \in Job, NEW kind \in {"send", "reject"},
           first.req = initiator,
           ready' = Scheduled(first, kind),
           waiting' = << >>, initiator' = NoRequest, connecting' # "pending",
           UNCHANGED <<queue, status>>,
           socket' = "open" => last'.n <= answered'
    PROVE  Held'
<1>1. /\ Len(ready) \in Nat /\ Len(waiting) \in Nat
      /\ \A i \in 1 .. Len(waiting) : waiting[i] \in Requests
  BY Places
<1>2. /\ Len(ready') = Len(ready) + 1 + Len(waiting)
      /\ \A i \in 1 .. Len(ready) : ready'[i] = ready[i]
      /\ ready'[Len(ready) + 1] = first
      /\ \A i \in 1 .. Len(waiting) : ready'[Len(ready) + 1 + i].req = waiting[i]
  <2> DEFINE jobs == Scheduled(first, kind)
  <2>1. /\ Len(jobs) = Len(ready) + 1 + Len(waiting)
        /\ \A i \in 1 .. Len(ready) : jobs[i] = ready[i]
        /\ jobs[Len(ready) + 1] = first
        /\ \A i \in 1 .. Len(waiting) : jobs[Len(ready) + 1 + i].req = waiting[i]
    BY HandOver
  <2> QED
    BY <2>1
<1>3. ASSUME NEW r \in Requests, Chained(r)
      PROVE  Chained(r)'
  <2>1. CASE r = initiator
    <3>1. Len(ready) + 1 \in 1 .. Len(ready') /\ ready'[Len(ready) + 1].req = r
      BY <1>1, <1>2, <2>1
    <3> QED
      BY <3>1 DEF Chained
  <2>2. ASSUME NEW i \in 1 .. Len(waiting), waiting[i] = r
        PROVE  Chained(r)'
    <3>1. /\ Len(ready) + 1 + i \in 1 .. Len(ready')
          /\ ready'[Len(ready) + 1 + i].req = r
      BY <1>1, <1>2, <2>2
    <3> QED
      BY <3>1 DEF Chained
  <2>3. ASSUME NEW i \in 1 .. Len(ready), ready[i].req = r
        PROVE  Chained(r)'
    <3>1. i \in 1 .. Len(ready') /\ ready'[i].req = r
      BY <1>1, <1>2, <2>3
    <3> QED
      BY <3>1 DEF Chained
  <2> QED
    BY <1>3, <2>1, <2>2, <2>3 DEF Chained
<1> QED
  BY <1>3 DEF Held, QueueReqs

\* A socket is dropped without a mishap: nothing was chained to connect().
LEMMA DropHeld ==
    ASSUME TypeOK, Held, NEW leftover, DropSocket(leftover), mishaps' = {},
           connecting' \in {"no", connecting}, ready' = ready,
           \A r \in Requests : /\ status'[r] = "waiting" => status[r] = "waiting"
                               /\ status'[r] = "queued" => r \in QueueReqs'
    PROVE  Held'
<1>1. connecting # "pending" /\ connecting' # "pending"
  <2>1. ASSUME connecting = "pending" PROVE "abandoned" \in mishaps'
    BY <2>1 DEF DropSocket, Note
  <2> QED
    BY <2>1 DEF TypeOK
<1>2. initiator = NoRequest /\ waiting = << >>
  BY <1>1 DEF Held
<1>3. socket' = "null" /\ initiator' = NoRequest /\ waiting' = << >>
  BY DEF DropSocket
<1>4. \A r \in Requests : Chained(r) => Chained(r)'
  BY <1>2, <1>3 DEF Chained
<1> QED
  BY <1>1, <1>3, <1>4 DEF Held

\* The head of the queue is settled.
LEMMA TailQueueHeld ==
    ASSUME TypeOK, Held, queue # << >>, NEW outcome, outcome \notin {"waiting", "queued"},
           queue' = Tail(queue), status' = [status EXCEPT ![queue[1].req] = outcome],
           UNCHANGED <<connecting, initiator, waiting, ready, socket, answered>>,
           socket = "open" => last'.n <= answered
    PROVE  Held'
<1>1. queue \in Seq(Op) /\ Len(queue) \in Nat /\ 1 \in 1 .. Len(queue)
  BY EmptySeq DEF TypeOK
<1>2. /\ Len(queue') = Len(queue) - 1
      /\ \A i \in 1 .. Len(queue') : queue'[i] = queue[i + 1]
  BY <1>1, HeadTailProperties
<1>3. ASSUME NEW r \in Requests, status'[r] = "queued"
      PROVE  r \in QueueReqs'
  <2>1. r # queue[1].req /\ status[r] = "queued"
    BY <1>3 DEF TypeOK
  <2>2. PICK i \in 1 .. Len(queue) : queue[i].req = r
    BY <2>1 DEF Held, QueueReqs
  <2>3. i # 1
    BY <2>1, <2>2
  <2>4. i - 1 \in 1 .. Len(queue') /\ queue'[i - 1] = queue[(i - 1) + 1] /\ (i - 1) + 1 = i
    BY <1>1, <1>2, <2>3
  <2> QED
    BY <2>2, <2>4 DEF QueueReqs
<1>4. \A r \in Requests : status'[r] = "waiting" => status[r] = "waiting"
  BY DEF TypeOK
<1> QED
  BY <1>3, <1>4 DEF Held, Chained

LEMMA NextHeld ==
    ASSUME TypeOK, [Next]_vars, InOrder, Apart, Held, mishaps = {}, mishaps' = {}
    PROVE  Held'
<1> USE DEF sockVars, serverVars, streamVars
<1>1. CASE Connect
  <2>1. initiator = NoRequest /\ connecting' = "pending" /\ socket' = "connect"
        /\ UNCHANGED <<waiting, ready, queue, status>>
    BY <1>1 DEF Connect, OpenSocket, Held
  <2> QED
    BY <2>1, ConnectionAssumption DEF Held, Chained, QueueReqs
<1>2. ASSUME NEW r \in Requests, Send(r)
      PROVE  Held'
  <2>1. status[r] = "unsent"
    BY <1>2 DEF Send, SendWhileConnecting, SendOnSocket, SendAndConnect, MaySend
  <2>2. CASE SendWhileConnecting(r)
    <3>1. /\ \A q \in Requests : q # r => status'[q] = status[q]
          /\ status'[r] = "waiting"
          /\ UNCHANGED <<queue, initiator, connecting, socket, last, answered>>
      BY <2>2 DEF SendWhileConnecting, TypeOK
    <3>2. /\ \A q \in Requests : Chained(q) => Chained(q)'
          /\ Chained(r)'
          /\ connecting # "pending" => waiting' = waiting
      <4>1. CASE connecting = "pending" /\ waiting' = Append(waiting, r) /\ ready' = ready
        <5>1. /\ Len(waiting') = Len(waiting) + 1 /\ Len(waiting) \in Nat
              /\ \A i \in 1 .. Len(waiting) : waiting'[i] = waiting[i]
              /\ waiting'[Len(waiting) + 1] = r
          BY <4>1, AppendProperties DEF TypeOK
        <5>2. Chained(r)'
          <6>1. Len(waiting) + 1 \in 1 .. Len(waiting')
            BY <5>1
          <6> QED
            BY <5>1, <6>1 DEF Chained
        <5> QED
          BY <3>1, <4>1, <5>1, <5>2 DEF Chained
      <4>2. CASE /\ ready' = Append(ready, [kind |-> "reject", req |-> r])
                 /\ waiting' = waiting
        <5> DEFINE job == [kind |-> "reject", req |-> r]
        <5>1. job \in Job /\ job.req = r
          BY DEF Job
        <5>2. ready' = Append(ready, job)
          BY <4>2
        <5> HIDE DEF job
        <5>3. /\ Len(ready') = Len(ready) + 1 /\ Len(ready) \in Nat
              /\ \A i \in 1 .. Len(ready) : ready'[i] = ready[i]
              /\ ready'[Len(ready) + 1] = job
          BY <5>1, <5>2, AppendProperties DEF TypeOK
        <5>4. Chained(r)'
          <6>1. Len(ready) + 1 \in 1 .. Len(ready')
            BY <5>3
          <6> QED
            BY <5>1, <5>3, <6>1 DEF Chained
        <5> QED
          BY <3>1, <4>2, <5>3, <5>4 DEF Chained
      <4> QED
        BY <2>2, <4>1, <4>2 DEF SendWhileConnecting
    <3> QED
      BY <3>1, <3>2 DEF Held, QueueReqs
  <2>3. CASE SendOnSocket(r)
    <3>1. \A q \in Requests : status[q] = "waiting" /\ q # r =>
             \/ q = initiator
             \/ \E i \in 1 .. Len(waiting) : waiting[i] = q
             \/ \E i \in 1 .. Len(ready') : ready'[i].req = q
      BY <2>3 DEF SendOnSocket, Held, Chained
    <3> QED
      BY <2>3, <3>1, SendOpHeld DEF SendOnSocket
  <2>4. CASE SendAndConnect(r)
    <3>1. /\ initiator = NoRequest /\ initiator' = r
          /\ connecting' = "pending" /\ socket' = "connect"
          /\ UNCHANGED <<waiting, ready, queue>>
      BY <2>4 DEF SendAndConnect, OpenSocket, Held
    <3>2. status'[r] = "waiting" /\ \A q \in Requests : q # r => status'[q] = status[q]
      BY <2>4 DEF SendAndConnect, TypeOK
    <3> QED
      BY <3>1, <3>2, ConnectionAssumption DEF Held, Chained, QueueReqs
  <2> QED
    BY <1>2, <2>2, <2>3, <2>4 DEF Send
<1>3. CASE SocketConnect
  BY <1>3 DEF SocketConnect, Held, Chained, QueueReqs
<1>4. CASE NegotiateProtocol
  <2> DEFINE job == [kind |-> "handshake", req |-> initiator]
  <2>1. job \in Job /\ job.req = initiator
    BY DEF Job, TypeOK
  <2>2. ready' = Scheduled(job, "send")
    BY <1>4 DEF NegotiateProtocol, Scheduled
  <2>3. last'.n <= answered'
    <3>1. last' = Origin(sockets) /\ answered' = 0
      BY <1>4 DEF NegotiateProtocol, InOrder, NothingAsked
    <3> QED
      BY <3>1 DEF Origin
  <2> HIDE DEF job
  <2> QED
    BY <1>4, <2>1, <2>2, <2>3, HandOverHeld DEF NegotiateProtocol
<1>5. CASE NegotiationFails
  <2> DEFINE job == [kind |-> "destroy", req |-> initiator]
  <2>1. job \in Job /\ job.req = initiator
    BY DEF Job, TypeOK
  <2>2. ready' = Scheduled(job, "reject")
    BY <1>5 DEF NegotiationFails, Scheduled
  <2> HIDE DEF job
  <2> QED
    BY <1>5, <2>1, <2>2, HandOverHeld DEF NegotiationFails
<1>6. CASE SocketFails
  <2>1. \A r \in Requests : /\ status'[r] = "waiting" => status[r] = "waiting"
                            /\ status'[r] # "queued"
    BY <1>6 DEF SocketFails, Cancel, Held
  <2> QED
    BY <1>6, <2>1, DropHeld DEF SocketFails
<1>7. ASSUME NEW leftover, DropSocket(leftover), UNCHANGED <<queue, status, ready>>,
             connecting' \in {"no", connecting}
      PROVE  Held'
  BY <1>7, DropHeld DEF Held, QueueReqs
<1>8. CASE SocketEndsToReconnect
  BY <1>7, <1>8 DEF SocketEndsToReconnect
<1>9. CASE Close
  BY <1>7, <1>9 DEF Close
<1>10. CASE Drain
  <2> DEFINE r    == Head(ready).req
             rest == Tail(ready)
  <2>1. ready # << >>
    BY <1>10 DEF Drain, RunHandshake, RunSend, RunReject, RunDestroy, Draining
  <2>2. /\ r # NoRequest => r \in Requests
        /\ rest \in Seq(Job) /\ Len(ready) \in Nat
        /\ Len(rest) = Len(ready) - 1
        /\ \A i \in 1 .. Len(rest) : rest[i] = ready[i + 1]
        /\ r = ready[1].req
    BY <2>1, TailApart, Places
  <2>3. Head(ready).kind \in {"send", "reject"} => r # NoRequest
    <3>1. Head(ready) \in Job
      BY <2>1, TailReady
    <3> QED
      BY <3>1, ConnectionAssumption DEF Job
  <2> HIDE DEF rest
  <2>4. ASSUME NEW q \in Requests, status[q] = "waiting", q # r
        PROVE  \/ q = initiator
               \/ \E i \in 1 .. Len(waiting) : waiting[i] = q
               \/ \E i \in 1 .. Len(rest) : rest[i].req = q
    <3>1. ASSUME NEW i \in 1 .. Len(ready), ready[i].req = q
          PROVE  \E j \in 1 .. Len(rest) : rest[j].req = q
      <4>1. i # 1
        BY <2>2, <2>4, <3>1
      <4>2. i - 1 \in 1 .. Len(rest) /\ (i - 1) + 1 = i
        BY <2>2, <4>1
      <4> QED
        BY <2>2, <3>1, <4>2
    <3> QED
      BY <2>4, <3>1 DEF Held, Chained
  <2>5. ASSUME ready' = rest,
               status' = IF r = NoRequest THEN status ELSE [status EXCEPT ![r] = "failed"]
        PROVE  \A q \in Requests : /\ status'[q] = "waiting" => status[q] = "waiting" /\ q # r
                                   /\ status'[q] = "queued" => q \in QueueReqs
    BY <2>2, <2>5, ConnectionAssumption DEF TypeOK, Held
  <2>6. CASE RunHandshake
    <3>1. connecting = "pending" => socket \in {"connect", "negotiate"}
      BY DEF Held
    <3>2. CASE socket = "null"
      <4>1. /\ ready' = rest
            /\ status' = IF r = NoRequest THEN status ELSE [status EXCEPT ![r] = "failed"]
            /\ connecting' = "no" /\ connecting # "pending"
            /\ UNCHANGED <<queue, initiator, waiting, socket>>
        BY <2>6, <3>1, <3>2 DEF RunHandshake, rest
      <4>2. \A q \in Requests : status'[q] = "waiting" => Chained(q)'
        BY <2>4, <2>5, <4>1 DEF Chained
      <4>3. \A q \in Requests : status'[q] = "queued" => q \in QueueReqs'
        BY <2>5, <4>1 DEF QueueReqs
      <4> QED
        BY <3>2, <4>1, <4>2, <4>3 DEF Held
    <3>3. CASE socket # "null"
      <4>1. UNCHANGED <<connecting, queue, initiator, waiting, socket, status, last, answered>>
        BY <2>6, <3>3 DEF RunHandshake
      <4>2. CASE r = NoRequest
        <5>1. ready' = rest
          <6>1. ready' = rest \o << >>
            BY <2>6, <3>3, <4>2 DEF RunHandshake, rest
          <6> QED
            BY <2>2, <6>1, ConcatEmptySeq
        <5>2. \A q \in Requests : status[q] = "waiting" => Chained(q)'
          BY <2>4, <4>1, <4>2, <5>1, ConnectionAssumption DEF Chained
        <5> QED
          BY <4>1, <5>2 DEF Held, QueueReqs
      <4>3. CASE r # NoRequest
        <5> DEFINE job == [kind |-> "send", req |-> r]
        <5>1. job \in Job /\ job.req = r
          BY <2>2, <4>3 DEF Job
        <5>2. ready' = rest \o << job >>
          BY <2>6, <3>3, <4>3 DEF RunHandshake, rest
        <5> HIDE DEF job
        <5>3. ready' = Append(rest, job)
          BY <2>2, <5>1, <5>2, AppendIsConcat
        <5>4. /\ Len(ready') = Len(rest) + 1 /\ Len(rest) \in Nat
              /\ \A i \in 1 .. Len(rest) : ready'[i] = rest[i]
              /\ ready'[Len(rest) + 1] = job
          BY <2>2, <5>1, <5>3, AppendProperties
        <5>5. Len(rest) + 1 \in 1 .. Len(ready') /\ ready'[Len(rest) + 1].req = r
          BY <5>1, <5>4
        <5>6. \A q \in Requests : status[q] = "waiting" => Chained(q)'
          <6>1. ASSUME NEW q \in Requests, status[q] = "waiting", q # r
                PROVE  Chained(q)'
            BY <2>4, <4>1, <5>4, <6>1 DEF Chained
          <6>2. ASSUME NEW q \in Requests, q = r
                PROVE  Chained(q)'
            BY <5>5, <6>2 DEF Chained
          <6> QED
            BY <6>1, <6>2
        <5> QED
          BY <4>1, <5>6 DEF Held, QueueReqs
      <4> QED
        BY <4>2, <4>3
    <3> QED
      BY <3>2, <3>3
  <2>7. CASE RunSend
    <3>1. /\ ready' = rest /\ r \in Requests /\ SendOp(r)
          /\ UNCHANGED <<connecting, initiator, waiting, socket, last, answered>>
      BY <2>2, <2>3, <2>7 DEF RunSend, rest
    <3> HIDE DEF r
    <3> QED
      BY <2>4, <3>1, SendOpHeld
  <2>8. CASE RunReject
    <3>1. /\ ready' = rest /\ r # NoRequest /\ status' = [status EXCEPT ![r] = "failed"]
          /\ UNCHANGED <<connecting, queue, initiator, waiting, socket, last, answered>>
      BY <2>3, <2>8 DEF RunReject, rest
    <3>2. \A q \in Requests : status'[q] = "waiting" => Chained(q)'
      BY <2>4, <2>5, <3>1 DEF Chained
    <3>3. \A q \in Requests : status'[q] = "queued" => q \in QueueReqs'
      BY <2>5, <3>1 DEF QueueReqs
    <3> QED
      BY <3>1, <3>2, <3>3 DEF Held
  <2>9. CASE RunDestroy
    <3>1. /\ ready' = rest /\ queue' = queue
          /\ status' = IF r = NoRequest THEN status ELSE [status EXCEPT ![r] = "failed"]
          /\ initiator' = NoRequest /\ waiting' = << >>
          /\ connecting' = "no" /\ socket' = "null"
      BY <2>9 DEF RunDestroy, DropSocket, rest
    <3>2. initiator = NoRequest /\ waiting = << >>
      <4>1. ASSUME connecting = "pending" PROVE "abandoned" \in mishaps'
        BY <2>9, <4>1 DEF RunDestroy, DropSocket, Note
      <4> QED
        BY <4>1 DEF Held
    <3>3. \A q \in Requests : status'[q] = "waiting" => Chained(q)'
      BY <2>4, <2>5, <3>1, <3>2 DEF Chained
    <3>4. \A q \in Requests : status'[q] = "queued" => q \in QueueReqs'
      BY <2>5, <3>1 DEF QueueReqs
    <3> QED
      BY <3>1, <3>3, <3>4 DEF Held
  <2> QED
    BY <1>10, <2>6, <2>7, <2>8, <2>9 DEF Drain
<1>11. ASSUME NEW n \in 1 .. Len(bytes), HandleSocketData(n)
       PROVE  Held'
  BY <1>11, HeldStays DEF HandleSocketData
<1>12. CASE Process
  <2>1. UNCHANGED <<connecting, initiator, waiting, ready, socket, answered>>
    BY <1>12 DEF Process, ProcessPush, ProcessForever, ProcessEnds, ReadCode, ReadReply,
                 ReadPush, CompleteEmpty
  <2>2. CASE ProcessForever \/ ProcessEnds
    BY <2>2, HeldStays DEF ProcessForever, ProcessEnds
  <2>3. ASSUME NEW n \in Nat \ {0}, received >= n, Consume(n)
        PROVE  socket = "open" => last'.n <= answered
    BY <2>3, ConsumeHeld DEF InOrder
  <2>4. CASE ProcessPush
    <3>1. socket = "open" => last'.n <= answered
      BY <2>3, <2>4 DEF ProcessPush
    <3> QED
      BY <2>1, <2>4, <3>1 DEF ProcessPush, Held, Chained, QueueReqs
  <2>5. CASE ReadCode
    <3>1. PICK c \in CodeByte, stage \in {"push", "body"} :
            SetHead(stage, [bytes[1] EXCEPT !.code = c])
      BY <2>5 DEF ReadCode
    <3> DEFINE head == [bytes[1] EXCEPT !.code = c]
    <3>2. head \in Unit /\ queue # << >> /\ stage \in Stages /\ status' = status
      BY <2>5, CodeByteType DEF ReadCode, Stages
    <3>3. SetHead(stage, head)
      BY <3>1
    <3> HIDE DEF head
    <3>4. Len(queue') = Len(queue) /\ \A i \in 1 .. Len(queue) : queue'[i].req = queue[i].req
      BY <2>1, <3>2, <3>3, HeadApart
    <3>5. QueueReqs' = QueueReqs
      BY <3>4 DEF QueueReqs
    <3>6. socket = "open" => last'.n <= answered
      BY <2>3, <2>5 DEF ReadCode
    <3> QED
      BY <2>1, <3>2, <3>5, <3>6 DEF Held, Chained
  <2>6. CASE ReadReply
    <3>1. socket = "open" => last'.n <= answered
      BY <2>3, <2>6 DEF ReadReply
    <3>2. CASE queue[1].head.code = "odd"
      <4>1. \A q \in Requests : /\ status'[q] = "waiting" => status[q] = "waiting"
                                /\ status'[q] # "queued"
        BY <2>6, <3>2 DEF ReadReply, Cancel, Held
      <4> QED
        BY <2>1, <3>1, <4>1 DEF Held, Chained
    <3>3. CASE queue[1].head.code # "odd"
      <4>1. Outcome(queue[1], bytes[1], bytes[2]) \notin {"waiting", "queued"}
        BY DEF Outcome
      <4> QED
        BY <2>1, <2>6, <3>1, <3>3, <4>1, TailQueueHeld DEF ReadReply
    <3> QED
      BY <3>2, <3>3
  <2>7. ASSUME queue # << >>, bytes # << >> PROVE queue[1].stage \in {"fresh", "body"}
    BY <2>7 DEF InOrder, NothingAsked, QueueInOrder
  <2>8. received > 0 => bytes # << >>
    BY DEF TypeOK
  <2> QED
    BY <1>12, <2>2, <2>4, <2>5, <2>6, <2>7, <2>8
       DEF Process, ReadPush, CompleteEmpty, TypeOK
<1>13. CASE ServerReply
  <2>1. last'.n <= answered'
    <3>1. last \in Unit /\ answered \in Nat
      BY DEF TypeOK
    <3>2. last.n \in Nat /\ last.n <= answered
      BY <1>13, <3>1 DEF Unit, ServerReply, Held
    <3> QED
      BY <1>13, <3>1, <3>2 DEF ServerReply
  <2> QED
    BY <1>13, <2>1 DEF ServerReply, Held, Chained, QueueReqs
<1>14. CASE ServerPush
  BY <1>14, HeldStays DEF ServerPush
<1>15. CASE UNCHANGED vars
  BY <1>15, HeldStays DEF vars
<1> QED
  BY <1>1, <1>2, <1>3, <1>4, <1>5, <1>6, <1>8, <1>9, <1>10, <1>11, <1>12,
     <1>13, <1>14, <1>15 DEF Next

\* The inductive invariant: no request is in two places; and, before any mishap, the
\* replies are in order and every unsettled request is in one.
Kept ==
    /\ TypeOK
    /\ Apart
    /\ Clean => InOrder /\ Held

LEMMA InitKept == Init => Kept
<1> SUFFICES ASSUME Init PROVE Kept
  OBVIOUS
<1>1. TypeOK /\ InOrder
  BY InitTypeOK, InitInOrder
<1>2. Len(queue) = 0 /\ Len(waiting) = 0 /\ Len(ready) = 0
  BY DEF Init
<1>3. Apart
  BY <1>2 DEF Init, Apart, Separate
<1>4. Held
  BY DEF Init, Held
<1> QED
  BY <1>1, <1>3, <1>4 DEF Kept

LEMMA NextKept == Kept /\ [Next]_vars => Kept'
<1> SUFFICES ASSUME Kept, [Next]_vars PROVE Kept'
  OBVIOUS
<1>1. TypeOK' /\ Apart'
  BY NextTypeOK, NextApart DEF Kept
<1>2. ASSUME Clean' PROVE InOrder' /\ Held'
  <2>1. mishaps = {} /\ mishaps' = {}
    BY <1>2, MishapsGrow DEF Clean
  <2> QED
    BY <2>1, NextInOrder, NextHeld DEF Kept, Clean
<1> QED
  BY <1>1, <1>2 DEF Kept

LEMMA KeptCorrect == Spec => []Kept
BY InitKept, NextKept, PTL DEF Spec

\* Until a mishap strikes, every call of send() that is not settled is in exactly one
\* place from which a handler will settle it: chained to a connect() on its way or
\* just ended, or once in the queue of a live socket.
THEOREM NothingLostCorrect == Spec => []NothingLost
<1>1. Kept => NothingLost
  <2> SUFFICES ASSUME Kept, Clean, NEW r \in Requests
               PROVE  /\ status[r] = "waiting" => Chained(r) /\ r \notin QueueReqs
                      /\ status[r] = "queued" =>
                           /\ socket = "open"
                           /\ ~Chained(r)
                           /\ \E i \in 1 .. Len(queue) :
                                /\ queue[i].req = r
                                /\ \A j \in 1 .. Len(queue) : queue[j].req = r => j = i
    BY DEF NothingLost
  <2>1. TypeOK /\ Apart /\ InOrder /\ Held
    BY DEF Kept
  <2>2. r # NoRequest
    BY ConnectionAssumption
  <2>3. status[r] = "waiting" => Chained(r) /\ r \notin QueueReqs
    BY <2>1 DEF Held, Apart, Separate, QueueReqs
  <2>4. ASSUME status[r] = "queued"
        PROVE  /\ socket = "open"
               /\ ~Chained(r)
               /\ \E i \in 1 .. Len(queue) :
                    /\ queue[i].req = r
                    /\ \A j \in 1 .. Len(queue) : queue[j].req = r => j = i
    <3>1. PICK i \in 1 .. Len(queue) : queue[i].req = r
      BY <2>1, <2>4 DEF Held, QueueReqs
    <3>2. \A j \in 1 .. Len(queue) : queue[j].req = r => j = i
      BY <2>1, <3>1 DEF Apart, Separate
    <3>3. queue # << >>
      BY <3>1
    <3>4. socket = "open"
      BY <2>1, <3>3 DEF InOrder
    <3>5. ~Chained(r)
      BY <2>1, <2>2, <2>4 DEF Chained, Apart, Separate
    <3> QED
      BY <3>1, <3>2, <3>4, <3>5
  <2> QED
    BY <2>3, <2>4
<1> QED
  BY <1>1, KeptCorrect, PTL

--------------------------------------------------------------------------------
(* A Connection implements a RequestChannel.                                   *)

\* What the refinement mapping makes of the queue and of the replies on their way.
CallsOf(q) == [i \in 1 .. Len(q) |-> q[i].req]

Pipeline == CallsOf(queue)

Served == IF socket = "open" THEN answered - (written - Len(queue)) ELSE 0

LEMMA CallsType ==
    ASSUME NEW q \in Seq(Op)
    PROVE  /\ CallsOf(q) \in Seq(Requests)
           /\ Len(CallsOf(q)) = Len(q)
           /\ \A i \in 1 .. Len(q) : CallsOf(q)[i] = q[i].req
<1>1. Len(q) \in Nat /\ \A i \in 1 .. Len(q) : q[i] \in Op
  BY ElementOfSeq
<1>2. \A i \in 1 .. Len(q) : q[i].req \in Requests
  BY <1>1 DEF Op
<1> QED
  BY <1>1, <1>2 DEF CallsOf

LEMMA PipelineType ==
    ASSUME TypeOK
    PROVE  /\ Pipeline \in Seq(Requests)
           /\ Len(Pipeline) = Len(queue)
           /\ \A i \in 1 .. Len(queue) : Pipeline[i] = queue[i].req
BY CallsType DEF Pipeline, TypeOK

LEMMA PipelineEmpty == ASSUME TypeOK PROVE Pipeline = << >> <=> queue = << >>
<1>1. Pipeline = << >> <=> Len(Pipeline) = 0
  BY PipelineType, EmptySeq
<1>2. queue = << >> <=> Len(queue) = 0
  BY EmptySeq DEF TypeOK
<1> QED
  BY <1>1, <1>2, PipelineType

\* The replies written and not read are replies to requests of the queue.
LEMMA ServedRange ==
    ASSUME TypeOK, InOrder, Held
    PROVE  /\ Served \in 0 .. Len(queue)
           /\ socket = "open" => Settlements + Served = answered
<1>1. /\ written \in Nat /\ answered \in Nat /\ Len(queue) \in Nat /\ last.n \in Nat
      /\ (queue = << >> <=> Len(queue) = 0)
  BY EmptySeq DEF TypeOK, Unit
<1>2. ASSUME socket = "open" PROVE Settlements <= last.n /\ last.n <= answered /\ answered <= written
  <2>1. queue # << >> => queue[1].stage \in {"fresh", "body"}
    BY <1>2 DEF InOrder, QueueInOrder
  <2>2. CASE queue = << >> \/ queue[1].stage = "fresh"
    BY <1>1, <1>2, <2>2 DEF InOrder, QueueInOrder, Held, StreamInOrder
  <2>3. CASE queue # << >> /\ queue[1].stage = "body"
    <3>1. last.n = Settlements + 1
      BY <1>2, <2>3 DEF InOrder, QueueInOrder
    <3> QED
      BY <1>1, <1>2, <3>1 DEF InOrder, Held, StreamInOrder, Settlements
  <2> QED
    BY <2>1, <2>2, <2>3
<1> QED
  BY <1>1, <1>2 DEF Served, Settlements

LEMMA CallsStay ==
    ASSUME NEW q \in Seq(Op), NEW p \in Seq(Op), Len(q) = Len(p),
           \A i \in 1 .. Len(p) : q[i].req = p[i].req
    PROVE  CallsOf(q) = CallsOf(p)
BY DEF CallsOf

LEMMA CallsGrow ==
    ASSUME NEW q \in Seq(Op), NEW op \in Op
    PROVE  CallsOf(Append(q, op)) = Append(CallsOf(q), op.req)
<1> DEFINE calls  == CallsOf(q)
           longer == Append(q, op)
           both   == CallsOf(longer)
           added  == Append(calls, op.req)
<1>1. op.req \in Requests /\ Len(q) \in Nat
  BY DEF Op
<1>2. /\ calls \in Seq(Requests) /\ Len(calls) = Len(q)
      /\ \A i \in 1 .. Len(q) : calls[i] = q[i].req
  BY CallsType
<1>3. /\ longer \in Seq(Op) /\ Len(longer) = Len(q) + 1
      /\ \A i \in 1 .. Len(q) : longer[i] = q[i]
      /\ longer[Len(q) + 1] = op
  BY AppendProperties
<1> HIDE DEF calls, longer
<1>4. /\ both \in Seq(Requests) /\ Len(both) = Len(longer)
      /\ \A i \in 1 .. Len(longer) : both[i] = longer[i].req
  BY <1>3, CallsType
<1>5. /\ added \in Seq(Requests) /\ Len(added) = Len(calls) + 1
      /\ \A i \in 1 .. Len(calls) : added[i] = calls[i]
      /\ added[Len(calls) + 1] = op.req
  BY <1>1, <1>2, AppendProperties
<1> HIDE DEF both, added
<1>6. ASSUME NEW i \in 1 .. Len(both)
      PROVE  both[i] = added[i]
  <2>1. CASE i = Len(q) + 1
    BY <1>2, <1>3, <1>4, <1>5, <2>1
  <2>2. CASE i # Len(q) + 1
    <3>1. i \in 1 .. Len(q)
      BY <1>1, <1>3, <1>4, <2>2
    <3> QED
      BY <1>2, <1>3, <1>4, <1>5, <3>1
  <2> QED
    BY <2>1, <2>2
<1>7. both = added
  BY <1>2, <1>3, <1>4, <1>5, <1>6, SeqEqual
<1> QED
  BY <1>7 DEF both, added, calls, longer

LEMMA CallsShrink ==
    ASSUME NEW q \in Seq(Op), q # << >>
    PROVE  /\ CallsOf(q) # << >>
           /\ Head(CallsOf(q)) = q[1].req
           /\ CallsOf(Tail(q)) = Tail(CallsOf(q))
<1> DEFINE calls == CallsOf(q)
           rest  == Tail(q)
           fewer == CallsOf(rest)
           left  == Tail(calls)
<1>1. Len(q) \in Nat \ {0}
  BY EmptySeq
<1>2. /\ calls \in Seq(Requests) /\ Len(calls) = Len(q)
      /\ \A i \in 1 .. Len(q) : calls[i] = q[i].req
  BY CallsType
<1>3. /\ rest \in Seq(Op) /\ Len(rest) = Len(q) - 1
      /\ \A i \in 1 .. Len(rest) : rest[i] = q[i + 1]
  BY HeadTailProperties
<1> HIDE DEF calls, rest
<1>4. calls # << >>
  BY <1>1, <1>2
<1>5. Head(calls) = q[1].req
  BY <1>1, <1>2, <1>4
<1>6. /\ fewer \in Seq(Requests) /\ Len(fewer) = Len(rest)
      /\ \A i \in 1 .. Len(rest) : fewer[i] = rest[i].req
  BY <1>3, CallsType
<1>7. /\ left \in Seq(Requests) /\ Len(left) = Len(calls) - 1
      /\ \A i \in 1 .. Len(left) : left[i] = calls[i + 1]
  BY <1>2, <1>4, HeadTailProperties
<1> HIDE DEF fewer, left
<1>8. ASSUME NEW i \in 1 .. Len(fewer)
      PROVE  fewer[i] = left[i]
  <2>1. i \in 1 .. Len(rest) /\ i \in 1 .. Len(left) /\ i + 1 \in 1 .. Len(q)
    BY <1>1, <1>2, <1>3, <1>6, <1>7
  <2> QED
    BY <1>2, <1>3, <1>6, <1>7, <2>1
<1>9. fewer = left
  BY <1>1, <1>2, <1>3, <1>6, <1>7, <1>8, SeqEqual
<1> QED
  BY <1>4, <1>5, <1>9 DEF fewer, left, rest, calls

\* The steps of the channel, in terms of the mapping.
LEMMA AbstractWait ==
    ASSUME NEW r \in Requests, status[r] = "unsent",
           status' = [status EXCEPT ![r] = "waiting"],
           UNCHANGED <<Pipeline, Served>>
    PROVE  Rpc!Step
BY DEF Rpc!Step, Rpc!Wait, Pipeline, CallsOf, Served

LEMMA AbstractRefuse ==
    ASSUME NEW r \in Requests, status[r] \in {"unsent", "waiting"},
           status' = [status EXCEPT ![r] = "failed"],
           UNCHANGED <<Pipeline, Served>>
    PROVE  Rpc!Step
BY DEF Rpc!Step, Rpc!Refuse, Rpc!Unsettled, Pipeline, CallsOf, Served

LEMMA AbstractSubmitOneWay ==
    ASSUME NEW r \in CloseRequests, r \in Requests, status[r] \in {"unsent", "waiting"},
           status' = [status EXCEPT ![r] = "resolved"],
           UNCHANGED <<Pipeline, Served>>
    PROVE  Rpc!Step
BY DEF Rpc!Step, Rpc!SubmitOneWay, Rpc!Unsettled, Pipeline, CallsOf, Served

LEMMA AbstractSubmit ==
    ASSUME NEW r \in Requests, r \notin CloseRequests,
           status[r] \in {"unsent", "waiting"},
           status' = [status EXCEPT ![r] = "queued"],
           Pipeline' = Append(Pipeline, r), Served' = Served
    PROVE  Rpc!Step
BY DEF Rpc!Step, Rpc!Submit, Rpc!Unsettled, Pipeline, CallsOf, Served

LEMMA AbstractServe ==
    ASSUME Served < Len(Pipeline), Served' = Served + 1, UNCHANGED <<status, Pipeline>>
    PROVE  Rpc!Step
BY DEF Rpc!Step, Rpc!Serve, Pipeline, CallsOf, Served

LEMMA AbstractDeliver ==
    ASSUME Pipeline # << >>, Served > 0, status[Head(Pipeline)] = "queued",
           NEW outcome \in {"resolved", "refused"},
           status' = [status EXCEPT ![Head(Pipeline)] = outcome],
           Pipeline' = Tail(Pipeline), Served' = Served - 1
    PROVE  Rpc!Step
BY DEF Rpc!Step, Rpc!Deliver, Pipeline, CallsOf, Served

LEMMA AbstractLose ==
    ASSUME status' = [r \in Requests |->
                        IF \E i \in 1 .. Len(Pipeline) : Pipeline[i] = r
                        THEN "failed" ELSE status[r]],
           Pipeline' = << >>, Served' = 0
    PROVE  Rpc!Step
BY DEF Rpc!Step, Rpc!Lose, Pipeline, CallsOf, Served

\* Writing a request submits it, or refuses it.
LEMMA SendOpImplements ==
    ASSUME TypeOK, NEW r \in Requests, status[r] \in {"unsent", "waiting"}, SendOp(r),
           mishaps' = {}, UNCHANGED <<socket, answered>>
    PROVE  Rpc!Step
<1>1. ASSUME queue' = queue, written' = written
      PROVE  UNCHANGED <<Pipeline, Served>>
  BY <1>1 DEF Pipeline, Served
<1>2. CASE SendWithoutProtocol(r)
  BY <1>1, <1>2, AbstractRefuse DEF SendWithoutProtocol
<1>3. CASE SendDbClose(r)
  <2>1. queue' = queue /\ written' = written /\ r \in CloseRequests
    BY <1>3 DEF SendDbClose
  <2>2. CASE socket = "null"
    BY <1>1, <1>3, <2>1, <2>2, AbstractRefuse DEF SendDbClose
  <2>3. CASE socket # "null"
    BY <1>1, <1>3, <2>1, <2>3, AbstractSubmitOneWay DEF SendDbClose
  <2> QED
    BY <2>2, <2>3
<1>4. CASE SendNormally(r)
  <2>1. socket # "null"
    <3>1. ASSUME socket = "null" PROVE "earlyWrite" \in mishaps'
      BY <1>4, <3>1 DEF SendNormally
    <3> QED
      BY <3>1
  <2>2. /\ r \notin CloseRequests /\ written' = written + 1
        /\ status' = [status EXCEPT ![r] = "queued"]
    BY <1>4, <2>1 DEF SendNormally, Enqueue
  <2> DEFINE new == [req |-> r, sock |-> sockets, n |-> written + 1,
                     stage |-> "fresh", head |-> NoUnit]
  <2>3. new \in Op /\ new.req = r
    BY DEF TypeOK, Op, Stages, NoUnit, Unit, Codes
  <2>4. queue' = Append(queue, new)
    BY <1>4 DEF SendNormally, Enqueue
  <2> HIDE DEF new
  <2>5. /\ queue \in Seq(Op) /\ Len(queue) \in Nat /\ written \in Nat /\ answered \in Nat
    BY DEF TypeOK
  <2>6. Pipeline' = Append(Pipeline, r)
    BY <2>3, <2>4, <2>5, CallsGrow DEF Pipeline
  <2>7. Len(queue') = Len(queue) + 1
    BY <2>3, <2>4, <2>5, AppendProperties
  <2>8. Served' = Served
    BY <2>2, <2>5, <2>7 DEF Served
  <2> QED
    BY <2>2, <2>6, <2>8, AbstractSubmit
<1> QED
  BY <1>2, <1>3, <1>4 DEF SendOp

\* Outside an open socket there are neither requests nor replies.
LEMMA NothingServed ==
    ASSUME TypeOK, InOrder, Held, socket # "open" \/ queue = << >>
    PROVE  Served = 0
<1>1. queue = << >> => Len(queue) = 0
  BY EmptySeq DEF TypeOK
<1> QED
  BY <1>1, ServedRange DEF Served, InOrder

LEMMA NextImplements ==
    ASSUME TypeOK, InOrder, Apart, Held, mishaps = {}, mishaps' = {},
           [Next]_vars
    PROVE  Rpc!Step \/ UNCHANGED <<status, Pipeline, Served>>
<1> USE DEF sockVars, serverVars, streamVars
<1>1. ASSUME UNCHANGED <<queue, socket, answered, written>>
      PROVE  UNCHANGED <<Pipeline, Served>>
  BY <1>1 DEF Pipeline, Served
<1>2. ASSUME UNCHANGED queue, socket # "open", socket' # "open"
      PROVE  UNCHANGED <<Pipeline, Served>>
  BY <1>2 DEF Pipeline, Served
<1>3. CASE Connect
  BY <1>2, <1>3 DEF Connect, OpenSocket
<1>4. ASSUME NEW r \in Requests, Send(r)
      PROVE  Rpc!Step
  <2>1. status[r] = "unsent"
    BY <1>4 DEF Send, SendWhileConnecting, SendOnSocket, SendAndConnect, MaySend
  <2>2. CASE SendWhileConnecting(r)
    BY <1>1, <2>1, <2>2, AbstractWait DEF SendWhileConnecting
  <2>3. CASE SendOnSocket(r)
    BY <2>1, <2>3, SendOpImplements DEF SendOnSocket
  <2>4. CASE SendAndConnect(r)
    BY <1>2, <2>1, <2>4, AbstractWait DEF SendAndConnect, OpenSocket
  <2> QED
    BY <1>4, <2>2, <2>3, <2>4 DEF Send
<1>5. CASE SocketConnect
  BY <1>2, <1>5 DEF SocketConnect
<1>6. CASE NegotiateProtocol
  <2>1. written = 0 /\ answered = 0 /\ queue = << >> /\ Len(queue) = 0 /\ writes = << >>
    BY <1>6 DEF NegotiateProtocol, InOrder, NothingAsked
  <2>2. UNCHANGED <<queue, written, answered, status>> /\ socket # "open"
    BY <1>6, <2>1 DEF NegotiateProtocol
  <2>3. Pipeline' = Pipeline /\ Served = 0
    BY <2>2 DEF Pipeline, Served
  <2>4. written' = 0 /\ answered' = 0 /\ Len(queue') = 0
    BY <2>1, <2>2
  <2>5. Served' = 0
    BY <2>4 DEF Served
  <2> QED
    BY <2>2, <2>3, <2>5
<1>7. CASE NegotiationFails
  BY <1>2, <1>7 DEF NegotiationFails
<1>8. CASE SocketFails
  <2>1. queue' = << >> /\ socket' = "null" /\ status' = Cancel(QueueReqs)
    BY <1>8 DEF SocketFails, DropSocket
  <2>2. Pipeline' = << >> /\ Served' = 0
    BY <2>1 DEF Pipeline, CallsOf, Served
  <2>3. \A r : r \in QueueReqs <=> \E i \in 1 .. Len(Pipeline) : Pipeline[i] = r
    BY PipelineType DEF QueueReqs
  <2>4. status' = [r \in Requests |->
                     IF \E i \in 1 .. Len(Pipeline) : Pipeline[i] = r
                     THEN "failed" ELSE status[r]]
    BY <2>1, <2>3 DEF Cancel
  <2> QED
    BY <2>2, <2>4, AbstractLose
<1>9. ASSUME DropSocket(queue), queue' = queue
      PROVE  UNCHANGED <<Pipeline, Served>>
  <2>1. queue = << >>
    <3>1. ASSUME queue # << >> PROVE "abandoned" \in mishaps'
      BY <1>9, <3>1 DEF DropSocket, Note
    <3> QED
      BY <3>1
  <2>2. Served = 0
    BY <2>1, NothingServed
  <2>3. Served' = 0
    BY <1>9 DEF DropSocket, Served
  <2> QED
    BY <1>9, <2>2, <2>3 DEF Pipeline
<1>10. CASE SocketEndsToReconnect
  BY <1>9, <1>10 DEF SocketEndsToReconnect
<1>11. CASE Close
  BY <1>9, <1>11 DEF Close
<1>12. CASE Drain
  <2> DEFINE r == Head(ready).req
  <2>1. ready # << >>
    BY <1>12 DEF Drain, RunHandshake, RunSend, RunReject, RunDestroy, Draining
  <2>2. r # NoRequest => r \in Requests /\ status[r] = "waiting"
    BY <2>1, TailApart
  <2>3. Head(ready).kind \in {"send", "reject"} => r # NoRequest
    <3>1. Head(ready) \in Job
      BY <2>1, TailReady
    <3> QED
      BY <3>1, ConnectionAssumption DEF Job
  <2>4. ASSUME status' = IF r = NoRequest THEN status ELSE [status EXCEPT ![r] = "failed"],
               UNCHANGED <<Pipeline, Served>>
        PROVE  Rpc!Step \/ UNCHANGED <<status, Pipeline, Served>>
    BY <2>2, <2>4, AbstractRefuse
  <2>5. CASE RunHandshake
    <3>1. UNCHANGED <<Pipeline, Served>>
      BY <1>1, <2>5 DEF RunHandshake
    <3>2. CASE socket = "null"
      BY <2>4, <2>5, <3>1, <3>2 DEF RunHandshake
    <3>3. CASE socket # "null"
      BY <2>5, <3>1, <3>3 DEF RunHandshake
    <3> QED
      BY <3>2, <3>3
  <2>6. CASE RunSend
    BY <2>2, <2>3, <2>6, SendOpImplements DEF RunSend
  <2>7. CASE RunReject
    BY <1>1, <2>3, <2>4, <2>7 DEF RunReject
  <2>8. CASE RunDestroy
    BY <1>9, <2>4, <2>8 DEF RunDestroy
  <2> QED
    BY <1>12, <2>5, <2>6, <2>7, <2>8 DEF Drain
<1>13. ASSUME NEW n \in 1 .. Len(bytes), HandleSocketData(n)
       PROVE  UNCHANGED <<status, Pipeline, Served>>
  BY <1>1, <1>13 DEF HandleSocketData
<1>14. CASE Process
  <2>1. queue \in Seq(Op) /\ Len(queue) \in Nat /\ written \in Nat /\ answered \in Nat
    BY DEF TypeOK
  <2>2. CASE ProcessPush \/ ProcessForever \/ ProcessEnds
    BY <1>1, <2>2 DEF ProcessPush, ProcessForever, ProcessEnds
  <2>3. CASE ReadCode
    <3>1. PICK c \in CodeByte, stage \in {"push", "body"} :
            SetHead(stage, [bytes[1] EXCEPT !.code = c])
      BY <2>3 DEF ReadCode
    <3> DEFINE head == [bytes[1] EXCEPT !.code = c]
    <3>2. head \in Unit /\ queue # << >> /\ stage \in Stages
      BY <2>3, CodeByteType DEF ReadCode, Stages
    <3>3. SetHead(stage, head)
      BY <3>1
    <3>4. UNCHANGED <<initiator, waiting, ready, status, socket, answered, written>>
      BY <2>3 DEF ReadCode
    <3> HIDE DEF head
    <3>5. /\ Len(queue') = Len(queue)
          /\ \A i \in 1 .. Len(queue) : queue'[i].req = queue[i].req
      BY <3>2, <3>3, <3>4, HeadApart
    <3>6. queue' \in Seq(Op)
      BY <3>2, <3>3, HeadTypes
    <3>7. Pipeline' = Pipeline
      BY <2>1, <3>5, <3>6, CallsStay DEF Pipeline
    <3>8. Served' = Served
      BY <3>4, <3>5 DEF Served
    <3> QED
      BY <3>4, <3>7, <3>8
  <2>4. CASE ReadReply
    <3>1. queue # << >> /\ queue[1].stage = "body" /\ received >= 2
      BY <2>4 DEF ReadReply
    <3>2. socket = "open" /\ StreamInOrder /\ QueueInOrder
      BY <3>1 DEF InOrder
    <3>3. /\ queue[1].head.code \in ReplyCodes /\ last.n = Settlements + 1
      BY <3>1, <3>2 DEF QueueInOrder
    <3>4. OwnReply(queue[1], bytes[1], bytes[2])
      BY <3>1, <3>2, OwnReplyRead
    <3>5. /\ queue' = Tail(queue)
          /\ status' = [status EXCEPT
               ![queue[1].req] = Outcome(queue[1], bytes[1], bytes[2])]
          /\ UNCHANGED <<socket, answered, written>>
      BY <2>4, <3>3 DEF ReadReply, ReplyCodes
    <3>6. Outcome(queue[1], bytes[1], bytes[2]) \in {"resolved", "refused"}
      BY <3>4 DEF Outcome
    <3>7. /\ Pipeline # << >> /\ Head(Pipeline) = queue[1].req
          /\ Pipeline' = Tail(Pipeline)
      BY <2>1, <3>1, <3>5, CallsShrink DEF Pipeline
    <3>8. status[Head(Pipeline)] = "queued"
      <4>1. 1 \in 1 .. Len(queue)
        BY <2>1, <3>1, EmptySeq
      <4> QED
        BY <3>7, <4>1 DEF Apart, Separate
    <3>9. Len(queue') = Len(queue) - 1
      BY <2>1, <3>1, <3>5, HeadTailProperties
    <3>10. Served > 0
      <4>1. Settlements + 1 <= answered
        BY <3>2, <3>3 DEF Held
      <4> QED
        BY <2>1, <3>2, <4>1, ServedRange DEF Settlements
    <3>11. Served' = Served - 1
      BY <2>1, <3>2, <3>5, <3>9 DEF Served
    <3> QED
      BY <3>5, <3>6, <3>7, <3>8, <3>10, <3>11, AbstractDeliver
  <2>5. ASSUME queue # << >>, bytes # << >> PROVE queue[1].stage \in {"fresh", "body"}
    BY <2>5 DEF InOrder, NothingAsked, QueueInOrder
  <2>6. received > 0 => bytes # << >>
    BY DEF TypeOK
  <2> QED
    BY <1>14, <2>2, <2>3, <2>4, <2>5, <2>6
       DEF Process, ReadPush, CompleteEmpty, TypeOK
<1>15. CASE ServerReply
  <2>1. socket = "open" /\ answered < written /\ answered' = answered + 1
        /\ UNCHANGED <<queue, written, status, socket>>
    BY <1>15 DEF ServerReply
  <2>2. written \in Nat /\ answered \in Nat /\ Len(queue) \in Nat
    BY DEF TypeOK
  <2>3. Served' = Served + 1 /\ Served < Len(Pipeline) /\ Pipeline' = Pipeline
    BY <2>1, <2>2, PipelineType DEF Served, Pipeline
  <2> QED
    BY <2>1, <2>3, AbstractServe
<1>16. CASE ServerPush
  BY <1>1, <1>16 DEF ServerPush
<1>17. CASE UNCHANGED vars
  BY <1>1, <1>17 DEF vars
<1> QED
  BY <1>3, <1>4, <1>5, <1>6, <1>7, <1>8, <1>10, <1>11, <1>12, <1>13, <1>14,
     <1>15, <1>16, <1>17 DEF Next

\* A Connection does what a RequestChannel does, until a mishap strikes: replies are
\* given in the order of the requests, each to its own caller and only once the server
\* has given it, and the loss of the socket fails all that was sent on it, for every
\* set of requests and pushes and any number of reconnections.
THEOREM ImplementsRequestChannelCorrect == Spec => ImplementsRequestChannel
<1>1. Init => Rpc!Init
  <2> SUFFICES ASSUME Init PROVE Rpc!Init
    OBVIOUS
  <2>1. status = [r \in Requests |-> "unsent"] /\ queue = << >> /\ socket = "null" /\ mishaps = {}
    BY DEF Init
  <2>2. [i \in 1 .. Len(queue) |-> queue[i].req] = << >>
    BY <2>1
  <2>3. Clean = TRUE
    BY <2>1 DEF Clean
  <2> QED
    BY <2>1, <2>2, <2>3 DEF Rpc!Init
<1>2. Kept /\ [Next]_vars => [Rpc!Next]_Rpc!vars
  <2> SUFFICES ASSUME Kept, [Next]_vars PROVE [Rpc!Next]_Rpc!vars
    OBVIOUS
  <2>1. CASE mishaps' # {}
    <3>1. Clean' = FALSE
      BY <2>1 DEF Clean
    <3> QED
      BY <3>1 DEF Rpc!Next
  <2>2. CASE mishaps' = {}
    <3>1. mishaps = {}
      BY <2>2, MishapsGrow
    <3>2. Clean = TRUE /\ Clean' = TRUE
      BY <2>2, <3>1 DEF Clean
    <3>3. Rpc!Step \/ UNCHANGED <<status, Pipeline, Served>>
      BY <2>2, <3>1, <3>2, NextImplements DEF Kept
    <3>4. CASE Rpc!Step
      BY <3>2, <3>4 DEF Rpc!Next
    <3>5. CASE UNCHANGED <<status, Pipeline, Served>>
      BY <3>2, <3>5 DEF Rpc!vars, Pipeline, CallsOf, Served
    <3> QED
      BY <3>3, <3>4, <3>5
  <2> QED
    BY <2>1, <2>2
<1> QED
  BY <1>1, <1>2, KeptCorrect, PTL DEF Spec, Rpc!Spec, ImplementsRequestChannel
================================================================================
