-------------------------------- MODULE Wire --------------------------------
(***************************************************************************)
(* One client on one connection: it writes the request of an operation,    *)
(* the server answers, and the operation reads what has arrived each time  *)
(* more arrives.  Between two operations the server may push.  The calls   *)
(* of the two ends are one at a time here; module Connection has the       *)
(* queue, the failures and the pushes that meet an operation halfway.      *)
(***************************************************************************)
EXTENDS ServerReplies

CONSTANTS
    Protocols,    \* a subset of {33, 37}
    Targets,      \* what the callers of the record operations give
    Works,        \* the records of the transactions: [creates, updates, deletes]
    Tokens,       \* the tokens a server may renew a session with; <<>>: none
    Causes,       \* how many earlier errors an error may have
    Chunks        \* how many bytes may arrive at once, at most

ASSUME WireAssumption ==
    /\ Protocols \subseteq {33, 37}
    /\ Chunks \subseteq Nat \ {0}
    /\ Causes \subseteq Nat

VARIABLES
    protocol, token,     \* of the session
    given,               \* of the server: the token it gave last
    stage,               \* "idle", "sent", "reading", "push" or "done"
    request, work,       \* the operation's name, its records
    sent,                \* the bytes of the request
    fields, wire,        \* the reply: its fields, its bytes
    arrived,             \* how many of them have arrived
    op                   \* the operation's reader, OperationReader.tla

vars == <<protocol, token, given, stage, request, work, sent, fields, wire, arrived, op>>
reply == <<fields, wire, arrived, op>>

Session == 5
NoWork == [creates |-> <<>>, updates |-> <<>>, deletes |-> <<>>]
NoTarget == [rid |-> <<>>, cluster |-> 1, position |-> 1, version |-> Unset, recVersion |-> Unset]
OperationsOf(d, tx) == IF protocol = 37 THEN Operations37(d, tx) ELSE Operations33(d, tx)
ByTarget == {"record-create", "record-update", "record-delete", "record-clean-out", "record-metadata",
             "record-load", "datacluster-add"}
ByWork == {"tx-commit", "tx-begin", "record-batch"}
Current == OperationsOf(NoTarget, NoWork)[request]

Init ==
    /\ protocol \in Protocols
    /\ token \in Tokens /\ given = token
    /\ stage = "idle" /\ request = "none" /\ work = NoWork
    /\ sent = <<>> /\ fields = <<>> /\ wire = <<>> /\ arrived = 0 /\ op = Start(<<>>)

Header(o) == IF protocol = 37 THEN WriteHeader(o.op, Session, token) ELSE WriteHeader33(o.op, Session, token)
Write(name, d, tx) ==
    LET o == OperationsOf(d, tx)[name]
    IN  /\ stage = "idle"
        /\ stage' = "sent" /\ request' = name /\ work' = tx
        /\ sent' = IF protocol = 37 THEN Buffer(WriteOps(Header(o), o)) ELSE Buffer33(WriteOps(Header(o), o))
        /\ UNCHANGED <<protocol, token, given>> /\ UNCHANGED reply

Call37Or33 == \E name \in DOMAIN OperationsOf(NoTarget, NoWork) \ (ByTarget \cup ByWork) : Write(name, NoTarget, NoWork)
CallOnRecord == \E name \in ByTarget, d \in Targets : Write(name, d, NoWork)
CallOnWork == \E name \in ByWork \cap DOMAIN OperationsOf(NoTarget, NoWork), tx \in Works : Write(name, NoTarget, tx)

(* The reply of the server, after a push if the protocol is 33             *)
Answer ==
    /\ stage = "sent" /\ Current.answered
    /\ \E body \in Replies(Current), causes \in Causes \cup {-1},
          t \in (IF protocol = 37 THEN Tokens ELSE {token}),
          push \in {<<>>} \cup (IF protocol = 33 THEN {Push33(TRUE), Push33(FALSE)} ELSE {}) :
        LET status == IF protocol = 37 THEN StatusOk(t)
                      ELSE StatusOk33(IF Current.op \in {2, 3} THEN <<>> ELSE token)
        IN  /\ fields' = Numbered(push \o (CASE causes = -1   -> status \o body
                                                [] protocol = 37   -> Failed(status, causes)
                                                [] OTHER           -> Failed33(status, causes)))
            /\ given' = IF t = <<>> THEN given ELSE t
    /\ wire' = WireOf(fields')
    /\ op' = Start((IF protocol = 37 THEN ReadStatus ELSE ReadStatus33(Current, token)) \o Current.reader)
    /\ stage' = "reading" /\ arrived' = 0
    /\ sent' = <<>> /\ work' = NoWork
    /\ UNCHANGED <<protocol, token, request>>

(* REQUEST_DB_CLOSE has no reply                                           *)
NoAnswer ==
    /\ stage = "sent" /\ ~Current.answered
    /\ stage' = "idle" /\ sent' = <<>> /\ request' = "none"
    /\ UNCHANGED <<protocol, token, given, work>> /\ UNCHANGED reply

(* The server pushes to a connection that no operation waits on            *)
PushWhileIdle ==
    /\ stage = "idle"
    /\ \E push \in (IF protocol = 37 THEN Pushes ELSE {Push33(TRUE), Push33(FALSE)}) : fields' = Numbered(push)
    /\ wire' = WireOf(fields')
    /\ stage' = "push" /\ arrived' = 0 /\ op' = Start(<<>>)
    /\ UNCHANGED <<protocol, token, given, request, work, sent>>

Arrives == \E n \in Chunks : arrived' = IF arrived + n > Len(wire) THEN Len(wire) ELSE arrived + n

(* handleSocketData(): the operation goes on from where it stopped         *)
ReadMore ==
    /\ stage = "reading" /\ arrived < Len(wire)
    /\ Arrives
    /\ op' = Feed(op, wire, arrived', protocol)
    /\ stage' = IF op'.status = "COMPLETE" THEN "done" ELSE "reading"
    /\ token' = IF op'.token = <<>> THEN token ELSE op'.token
    /\ UNCHANGED <<protocol, given, request, work, sent, fields, wire>>

(* process() without a queue: a new operation reads all that has arrived;  *)
(* the bytes are kept until it knows what they are                         *)
ReadPush ==
    /\ stage = "push" /\ arrived < Len(wire)
    /\ Arrives
    /\ op' = Consume(Start(<<>>), wire, arrived', protocol)
    /\ stage' = IF op'.status = "PENDING" THEN "done" ELSE "push"
    /\ UNCHANGED <<protocol, token, given, request, work, sent, fields, wire>>

Finish ==
    /\ stage = "done"
    /\ stage' = "idle" /\ request' = "none"
    /\ fields' = <<>> /\ wire' = <<>> /\ arrived' = 0 /\ op' = Start(<<>>)
    /\ UNCHANGED <<protocol, token, given, work, sent>>

Next == Call37Or33 \/ CallOnRecord \/ CallOnWork \/ Answer \/ NoAnswer \/ PushWhileIdle
        \/ ReadMore \/ ReadPush \/ Finish

Spec == Init /\ [][Next]_vars
-----------------------------------------------------------------------------
(* What the server makes of a request.                                     *)
HeaderSize == 5 + (IF token = <<>> THEN 0 ELSE 4 + Len(token))
RECURSIVE EntriesFrom(_)
EntriesFrom(at) ==
    IF sent[at].v = <<0>> THEN <<>>
    ELSE LET kind == sent[at + 1].v[1]
             size == CASE kind = 3 -> 4 [] kind = 1 -> 4 + 4 + 1 [] kind = 2 -> 4
         IN  <<<<kind, <<sent[at + 2].v[1], sent[at + 4].v[1]>>>>>> \o EntriesFrom(at + 13 + size)
EntriesOf(tx) ==
    [i \in 1..Len(tx.creates) |-> <<3, tx.creates[i]>>]
    \o [i \in 1..Len(tx.updates) |-> <<1, tx.updates[i]>>]
    \o [i \in 1..Len(tx.deletes) |-> <<2, tx.deletes[i]>>]
Before(name) == IF protocol = 37 /\ name # "record-batch" THEN 6 ELSE IF protocol = 37 THEN 4 ELSE 5

\* A server that reads the request of an operation finds the session and the
\* token it gave last, and of a transaction every record of it, in order, each
\* with its kind, and the content flag when there is one (writeHeader, buffer
\* and the writers of tx-commit.js, tx-begin.js and record-batch.js).
ServerReadsRequest ==
    stage = "sent" =>
        /\ \A b \in 1..Len(sent) : sent[b].k \notin {"-", "w0"} =>
              \E t \in {"Byte", "Short", "Int", "Long", "Bytes"} :
                /\ sent[b].k = Kind(t)
                /\ b + Size(t, sent[b].v) - 1 <= Len(sent)
                /\ \A c \in (b + 1)..(b + Size(t, sent[b].v) - 1) : sent[c].k = "-"
        /\ Current.head =>
             /\ sent[2].v = <<IF protocol = 33 /\ given # <<>> THEN -1 ELSE Session>>
             /\ given # <<>> => sent[6].v = given
        /\ request \in ByWork =>
             /\ EntriesFrom(HeaderSize + Before(request) + 1) = EntriesOf(work)
             /\ protocol = 37 /\ request # "record-batch" =>
                  (sent[HeaderSize + 5].v = <<1>> <=> EntriesOf(work) # <<>>)

(* What a reply means: the value of a field is the last one sent for it.   *)
SentFor(at, f) == LET s == {i \in 1..Len(fields) : fields[i].at = at /\ fields[i].f = f}
                  IN  fields[CHOOSE i \in s : \A j \in s : j <= i]
InChain(x) ==
    \/ x.at = <<"status", "error">> /\ x.f = "javaStackTrace"
    \/ IsPrefix(Previous, x.at)
\* parseElement() leaves the object of a null on the stack
AfterNull(i) == \E j \in 1..(i - 1) : fields[j].f = "t" /\ fields[j].v = <<-2>>
Inserted(x) ==
    LET v == SentFor(x.at, x.f).v
    IN  IF x.t = "RecordId"
        THEN /\ op.heap[<<Append(x.at, x.f), "cluster">>] = <<v[1]>>
             /\ op.heap[<<Append(x.at, x.f), "position">>] = <<v[2]>>
        ELSE <<x.at, x.f>> \in DOMAIN op.heap /\ op.heap[<<x.at, x.f>>] = v
IsRow(x) == IsPrefix(<<"current", "result">>, x.at)

(* the rows of a result set, each from its fields                          *)
RowStarts == {i \in 1..Len(fields) : IsRow(fields[i]) /\ fields[i].f = "elementType"}
RowFrom(i) ==
    IF fields[i].v = <<4>> THEN <<fields[i + 1].v>>
    ELSE IF fields[i + 1].v = <<-2>> THEN <<<<>>, <<-1>>, <<-1>>>>
    ELSE <<fields[i + 6].v, fields[i + 3].v, fields[i + 4].v>>
Nth(set, k) == CHOOSE i \in set : Cardinality({j \in set : j < i}) = k - 1

\* An operation is over when its whole reply has been read and not before, and
\* every field of the reply is then in the object it is about: in its item of
\* an array, in the record of its class, in the error (consume, the parse
\* functions and the readers; but for the errors that led to an error, and for
\* what follows a null in a result set).  The rows a query's stream has been
\* given are those of the page, in order, once each, with the record id of each,
\* and the end of the stream is among them when the page is the last (query.js).
WhereItBelongs ==
    /\ stage \in {"reading", "push"} => arrived < Len(wire)
    /\ stage = "done" =>
        /\ arrived = Len(wire) /\ op.off = Len(wire) /\ op.ops = <<>>
        /\ \A i \in 1..Len(fields) :
              ~InChain(fields[i]) /\ ~AfterNull(i) /\ fields[i].f # "" => Inserted(fields[i])
    /\ stage \in {"reading", "done"} /\ request \in {"query", "query-next"} =>
        /\ \A k \in 1..Len(op.rows) :
              op.rows[k] = IF k <= Cardinality(RowStarts) THEN RowFrom(Nth(RowStarts, k)) ELSE <<>>
        /\ stage = "done" /\ op.closed => Len(op.rows) = Cardinality(RowStarts) + 1
        /\ stage = "done" /\ op.heap[<<<<"status">>, "code">>] = <<0>> =>
             /\ Len(op.rows) >= Cardinality(RowStarts)
             /\ op.fetch # op.closed

\* Whatever the chunks a reply arrives in, the operation has read the same of
\* it as if its bytes had arrived at once: no entry runs on a value that is not
\* all there, none is run twice or lost when it has to wait (canRead, and the
\* unshift of consume, operation.js:562-568).
ChunkingDoesNotMatter ==
    stage \in {"reading", "done"} /\ request # "none" /\ arrived > 0 =>
        op = Feed(Start((IF protocol = 37 THEN ReadStatus ELSE ReadStatus33(Current, given)) \o Current.reader),
                  wire, arrived, protocol)
=============================================================================
