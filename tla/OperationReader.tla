--------------------------- MODULE OperationReader ---------------------------
(***************************************************************************)
(* How an operation writes its request and reads its reply (protocol37/   *)
(* operation.js, and what protocol33/operation.js does differently).      *)
(* consume() is called with whatever has arrived so far: it runs the       *)
(* entries of readOps one by one, each may add entries, and it stops where *)
(* the bytes run out.                                                      *)
(*                                                                         *)
(* The bytes are cells: a value of w bytes is a cell that holds it and     *)
(* w - 1 cells that hold nothing; a string or a buffer is four cells and   *)
(* one for each of its bytes.  Every value is a sequence of numbers: <<n>> *)
(* for a number, the bytes of a blob, Null for a blob of length -1.       *)
(*                                                                         *)
(* An object of the result is the path of the fields that lead to it, and  *)
(* the heap maps <<path, field>> to a value.                               *)
(* A closure of the code is a record with its name n and what it captures. *)
(***************************************************************************)
EXTENDS Operations, FiniteSets, TLC

Width(t) == CASE t \in {"Byte", "Char", "Boolean"} -> 1
              [] t = "Short" -> 2
              [] t \in {"Int", "Bytes", "String"} -> 4
              [] t \in {"Long", "Double"} -> 8
Blob(t) == t \in {"Bytes", "String"}
Null == <<-1>>
BlobSize(v) == IF v = Null THEN 0 ELSE Len(v)
Kind(t) == IF Blob(t) THEN "blob" ELSE "w" \o ToString(Width(t))
Size(t, v) == Width(t) + (IF Blob(t) THEN BlobSize(v) ELSE 0)
Cells(t, v) == <<[k |-> Kind(t), v |-> v]>> \o [i \in 1..(Size(t, v) - 1) |-> [k |-> "-", v |-> <<>>]]

(* ------------------------------- writing ------------------------------- *)
(* writeHeader(): protocol 33 drops the session id when there is a token   *)
WriteHeader(op, session, token) ==
    <<<<"Byte", <<op>>>>, <<"Int", <<Or(session, -1)>>>>>>
    \o (IF token = <<>> THEN <<>> ELSE <<<<"Bytes", token>>>>)
WriteHeader33(op, session, token) ==
    WriteHeader(op, IF token = <<>> THEN session ELSE -1, token)

WriteOps(header, op) == (IF op.head THEN header ELSE <<>>) \o op.writer

(* buffer(): a first pass gives every writeOp its offset, a second lets it *)
(* fill its bytes of the allocated buffer                                  *)
Offset(ops, i) == FoldLeft(LAMBDA a, w : a + Size(w[1], w[2]), 0, SubSeq(ops, 1, i - 1))
Buffer(ops) ==
    LET offset == [i \in 1..(Len(ops) + 1) |-> Offset(ops, i)]
        Owner(b) == CHOOSE i \in 1..Len(ops) : offset[i] < b /\ b <= offset[i + 1]
    IN  [b \in 1..offset[Len(ops) + 1] |->
           LET i == Owner(b) IN Cells(ops[i][1], ops[i][2])[b - offset[i]]]

Buffer33(ops) == Buffer(ops)

(* ------------------------------- reading ------------------------------- *)
Closure(name, at, f, rest, cb) == [n |-> name, at |-> at, f |-> f, rest |-> rest, cb |-> cb]
Named(name) == [n |-> name]

Top(st) == Last(st.stack)
Val(st, at, f) == st.heap[<<at, f>>]
Num(st, at, f) == Val(st, at, f)[1]
PushOps(st, ops) == [st EXCEPT !.ops = @ \o ops]
PushCtx(st, at) == [st EXCEPT !.stack = Append(@, at)]
PopCtx(st) == [st EXCEPT !.stack = Front(@)]
Set(st, at, f, v) == [st EXCEPT !.heap = (<<at, f>> :> v) @@ @]
(* the number of objects an array holds                                   *)
Count(st, at) == IF <<at, "length">> \in DOMAIN st.heap THEN Num(st, at, "length") ELSE 0
(* this.readOps is kept aside and an empty one begun                       *)
Aside(st, ops) == [st EXCEPT !.ops = ops]

(* readStatus(): with a token the server repeats it; protocol 37 always    *)
ReadStatus ==
    <<Fn(Named("status.begin")), Rd("Byte", "code"), Rd("Int", "sessionId"),
      RdCb("Bytes", "token", Named("status.token")), RdCb("Byte", "op", Named("status.next"))>>
ReadStatus33(op, token) ==
    <<Fn(Named("status.begin")), Rd("Byte", "code")>>
    \o (IF op.op \notin {2, 3} /\ token # <<>>
        THEN <<Rd("Int", "sessionId"), RdCb("Bytes", "token", Named("status.next"))>>
        ELSE <<RdCb("Int", "sessionId", Named("status.next"))>>)

Previous == <<"status", "error", "previous">>
ReadError == RdCb("Error", "error", Named("status.error"))
ErrorItem == <<Rd("String", "type"), Rd("String", "message"), RdCb("Byte", "hasMore", Named("error.more"))>>

(* a record read to its end: leave its object, call the reader, go on with *)
(* what was set aside                                                      *)
EndOfRecord(st, c) ==
    PushOps(PopCtx(st), <<Fn(Closure("reader", c.at, c.f, <<>>, c.cb))>> \o c.rest)

RecordFields == <<Rd("Char", "type"), Rd("Short", "cluster"), Rd("Long", "position"), Rd("Int", "version")>>

RECURSIVE Call(_, _, _)

CallStatus(c, st, at) ==
    CASE c.n = "status.begin" -> PushCtx(st, Append(at, "status"))
      [] c.n = "status.token" -> IF BlobSize(Val(st, at, "token")) > 0 THEN [st EXCEPT !.token = Val(st, at, "token")] ELSE st
      [] c.n = "status.next"  -> IF Num(st, at, "code") = 1 THEN Aside(st, <<ReadError>>) ELSE PopCtx(st)
      [] c.n = "status.error" -> PushOps(st, <<Fn(Named("pop"))>>)
      [] c.n = "error.more"   ->
           IF Num(st, at, "hasMore") # 0
           THEN PushOps(PushCtx(PopCtx(Set(st, Previous, "length", <<Count(st, Previous) + 1>>)),
                                Append(Previous, ToString(Count(st, Previous) + 1))), ErrorItem)
           ELSE PushOps(st, <<RdCb("Bytes", "javaStackTrace", Named("error.trace"))>>)
      [] c.n = "error.trace"  -> PushOps(st, <<Fn(Named("pop"))>>)
      [] c.n = "success"      -> Set(st, at, "success", <<1>>)

(* parseRecord(): what follows the class id                                *)
CallRecord(c, st, at) ==
    CASE c.n = "record.classId" ->
           (CASE Num(st, at, "classId") = -1 -> EndOfRecord(st, c)
              [] Num(st, at, "classId") = -2 -> EndOfRecord(Set(st, at, "value", Null), c)
              [] Num(st, at, "classId") = -3 ->
                   PushOps(st, <<Rd("Short", "cluster"), Rd("Long", "position"),
                                 Fn([c EXCEPT !.n = "record.end"])>>)
              [] OTHER -> PushOps(st, RecordFields \o <<RdCb("Bytes", "value", [c EXCEPT !.n = "record.end"])>>))
      [] c.n = "record.end" -> EndOfRecord(st, c)

(* A live query's push: the events, each with the record and, of an        *)
(* update, the record before                                               *)
EventsOp == Arr("events", "eventsSize", <<RdCb("Byte", "type", Named("event.type"))>>)
HostsOp == Arr("hosts", "hostSize", <<Rd("String", "address")>>)
ReturnOp(what) == RdCb("return", what, Call0)

CallPush(c, st, at) ==
    CASE c.n = "push.type" ->
           IF Num(st, at, "pushType") = 81
           THEN PushOps(st, <<Rd("Int", "monitorId"), RdCb("Byte", "status", Named("push.status"))>>)
           ELSE PushOps(st, <<Rd("Int", "hostSize"), HostsOp, ReturnOp("config")>>)
      [] c.n = "push.status" ->
           IF Num(st, at, "status") = 3
           THEN PushOps(st, <<Rd("Int", "errorIdentifier"), Rd("Int", "errorCode"), Rd("String", "errorMessage")>>)
           ELSE PushOps(st, <<Rd("Int", "eventsSize"), EventsOp, ReturnOp("live")>>)
      [] c.n = "event.type" ->
           LET last == RdCb("Result", IF Num(st, at, "type") = 2 THEN "before" ELSE "data",
                            Closure("event.last", at, "", st.ops, Call0))
           IN  Aside(st, (IF Num(st, at, "type") = 2 THEN <<Rd("Result", "data")>> ELSE <<>>) \o <<last>>)
      [] c.n = "event.last" -> PushOps(st, c.rest)

(* protocol 33: the read operations that were kept aside come back         *)
CallPush33(c, st, at) ==
    CASE c.n = "push33.type" ->
           PushOps(st, <<RdCb("Bytes", IF Num(st, at, "type") = 81 THEN "liveMessage" ELSE "data",
                              [c EXCEPT !.n = "push33.data"])>>)
      [] c.n = "push33.data" ->
           PushOps(PopCtx(st), <<ReturnOp(IF Num(st, at, "type") = 81 THEN "live" ELSE "config")>> \o c.rest)

(* parseElement() sets nothing aside; a null has no end but its class id   *)
CallElement(c, st, at) ==
    CASE c.n = "element.type" ->
           IF Num(st, at, "elementType") = 4
           THEN PushOps(st, <<RdCb("Bytes", "value", [c EXCEPT !.n = "element.value"])>>)
           ELSE PushOps(st, <<RdCb("Short", "t", [c EXCEPT !.n = "element.t"])>>)
      [] c.n = "element.t" ->
           (CASE Num(st, at, "t") = 0 ->
                   PushOps(st, RecordFields \o <<RdCb("Bytes", "value", [c EXCEPT !.n = "element.end"])>>)
              [] Num(st, at, "t") = -2 /\ c.cb # Call0 ->
                   Call(c.cb, Set(Set(Set(st, at, "value", <<>>), at, "cluster", <<-1>>), at, "position", <<-1>>), c.at)
              [] OTHER -> st)
      [] c.n = "element.value" -> Call(c.cb, PopCtx(st), c.at)
      [] c.n = "element.end" -> PushOps(PopCtx(st), <<Fn(Closure("reader", c.at, c.f, <<>>, c.cb))>>)

(* parseResult(): what was set aside comes back once the value is read     *)
CallResult(c, st, at) ==
    CASE c.n = "result.type" ->
           IF Num(st, at, "elementType") = 4
           THEN PushOps(st, <<RdCb("Bytes", "value", [c EXCEPT !.n = "result.value"])>>)
           ELSE PushOps(st, <<Rd("Short", "t")>> \o RecordFields
                            \o <<RdCb("Bytes", "value", [c EXCEPT !.n = "result.end"])>>)
      [] c.n = "result.value" -> PushOps(Call(c.cb, PopCtx(st), c.at), c.rest)
      [] c.n = "result.end" -> EndOfRecord(st, c)

(* query.js: the rows are given to the stream while they are read          *)
ReadRow(k, st) ==
    IF k = 0
    THEN PushOps(st, <<RdCb("Boolean", "hasNext", Named("row.hasNext")), RdCb("Int", "statsSize", Named("row.stats"))>>)
    ELSE PushOps(st, <<RdCb("Element", "result", [n |-> "row.read", k |-> k])>>)
Row(st, at) ==
    LET e == Append(at, "result")
    IN  <<Val(st, e, "value")>>
        \o (IF Num(st, e, "elementType") = 4 THEN <<>> ELSE <<Val(st, e, "cluster"), Val(st, e, "position")>>)

CallQuery(c, st, at) ==
    CASE c.n = "resultset.begin" ->
           PushOps(PushCtx(st, <<"header">>),
                   <<Rd("String", "queryId"), Rd("Boolean", "txChanges"),
                     RdCb("Boolean", "hasExecutionPlan", Named("plan.has"))>>)
      [] c.n = "plan.has" ->
           IF Num(st, at, "hasExecutionPlan") # 0
           THEN PushOps(st, <<RdCb("Element", "executionPlan", Named("plan.next"))>>)
           ELSE PushOps(st, <<Fn(Named("rows.begin"))>>)
      [] c.n = "plan.next" -> PushOps(st, <<Fn(Named("rows.begin"))>>)
      [] c.n = "rows.begin" ->
           PushOps(PushCtx(st, <<"current">>), <<Rd("Int", "prefetched"), RdCb("Int", "count", Named("rows.count"))>>)
      [] c.n = "rows.count" -> ReadRow(Num(st, at, "count"), st)
      [] c.n = "row.read" ->
           ReadRow(c.k - 1, IF st.closed THEN st ELSE [st EXCEPT !.rows = Append(@, Row(st, at))])
      [] c.n = "row.hasNext" ->
           IF Num(st, at, "hasNext") # 0 THEN [st EXCEPT !.fetch = TRUE]
           ELSE [st EXCEPT !.closed = TRUE, !.rows = Append(@, <<>>)]
      [] c.n = "row.stats" -> PushOps(st, <<Rd("Boolean", "reloadMetadata")>>)

(* record-load.js of both protocols: records until the payload status 0    *)
ReadLoad(i) == RdCb("Byte", "payloadStatus", [n |-> "load.payload", i |-> i])
CallLoad(c, st, at) ==
    CASE c.n = "load.begin" -> PushOps(PushCtx(st, <<"records">>), <<ReadLoad(1)>>)
      [] c.n = "load.payload" ->
           (CASE Num(st, at, "payloadStatus") = 0 -> PopCtx(st)
              [] Num(st, at, "payloadStatus") = 1 ->
                   PushOps(PushCtx(st, <<"records", ToString(c.i)>>),
                           <<Rd("Char", "type"), Rd("Int", "version"),
                             RdCb("Bytes", "content", [c EXCEPT !.n = "load.content"])>>)
              [] Num(st, at, "payloadStatus") = 2 ->
                   PushOps(PushCtx(st, <<"records", ToString(c.i)>>),
                           <<RdCb("Short", "classId", [c EXCEPT !.n = "load.classId"])>>)
              [] OTHER -> PushOps(st, <<ReadLoad(c.i)>>))
      [] c.n = "load.content" -> PushOps(PopCtx(st), <<ReadLoad(c.i + 1)>>)
      [] c.n = "load.classId" ->
           IF Num(st, at, "classId") = -2
           THEN PushOps(PopCtx(st), <<ReadLoad(c.i + 1)>>)
           ELSE PushOps(st, RecordFields \o <<RdCb("Bytes", "content", [c EXCEPT !.n = "load.content"])>>)

(* command.js of protocol 33: payloads until the status 0                  *)
ReadPayload33(i) == RdCb("Byte", "payloadStatus", [n |-> "command.payload", i |-> i])
CallCommand33(c, st, at) ==
    LET at2 == <<"results", ToString(c.i)>>
        next == [n |-> "command.next", i |-> c.i]
    IN  CASE c.n = "command.payload" ->
               (CASE Num(st, at, "payloadStatus") = 110 -> PushOps(Set(st, at2, "content", Null), <<ReadPayload33(c.i + 1)>>)
                  [] Num(st, at, "payloadStatus") \in {1, 2, 114} ->
                       PushOps(PushCtx(st, at2), <<RdCb("Record", "content", next)>>)
                  [] Num(st, at, "payloadStatus") = 97 -> PushOps(PushCtx(st, at2), <<RdCb("String", "content", next)>>)
                  [] Num(st, at, "payloadStatus") = 108 ->
                       PushOps(PushCtx(st, at2), <<RdCb("Collection", "content", next)>>)
                  [] OTHER -> PopCtx(st))
          [] c.n = "command.next" -> PushOps(PopCtx(st), <<ReadPayload33(c.i + 1)>>)

Call(c, st, at) ==
    CASE c.n = "none" -> st
      [] c.n = "pop" -> PopCtx(st)
      [] c.n = "push" -> PushCtx(st, c.at)
      [] c.n = "reader" -> Call(c.cb, st, c.at)
      [] c.n = "command.begin" -> PushOps(PushCtx(st, <<"results">>), <<ReadPayload33(1)>>)
      [] c.n \in {"status.begin", "status.token", "status.next", "status.error", "error.more", "error.trace", "success"}
           -> CallStatus(c, st, at)
      [] c.n \in {"record.classId", "record.end"} -> CallRecord(c, st, at)
      [] c.n \in {"element.type", "element.t", "element.value", "element.end"} -> CallElement(c, st, at)
      [] c.n \in {"result.type", "result.value", "result.end"} -> CallResult(c, st, at)
      [] c.n \in {"push.type", "push.status", "event.type", "event.last"} -> CallPush(c, st, at)
      [] c.n \in {"push33.type", "push33.data"} -> CallPush33(c, st, at)
      [] c.n \in {"load.begin", "load.payload", "load.content", "load.classId"} -> CallLoad(c, st, at)
      [] c.n \in {"command.payload", "command.next"} -> CallCommand33(c, st, at)
      [] OTHER -> CallQuery(c, st, at)

(* canRead(): are the bytes of the next value here?                        *)
CanRead37(t, st, wire, arrived) ==
    LET here == arrived - st.off
    IN  CASE t \in {"Result", "Array", "Error"} -> TRUE
          [] t \in {"Element", "Record"} -> here >= 2
          [] t = "RecordId" -> here >= 10
          [] t = "Collection" -> here >= 4
          [] Blob(t) -> /\ here >= 4
                        /\ here >= 4 + BlobSize(wire[st.off + 1].v)
          [] OTHER -> here >= Width(t)

CanRead33(t, st, wire, arrived) ==
    t \notin {"Result", "Element", "RecordId"} /\ CanRead37(t, st, wire, arrived)

(* what the bytes at an offset say when they are read as a value of type t *)
Garbage == <<-99>>
At(t, off, wire) ==
    IF off < Len(wire) /\ wire[off + 1].k = Kind(t) THEN wire[off + 1].v ELSE Garbage

(* the parse functions of the values, then their reader                    *)
ParseNumber(op, st, wire) ==
    LET v == At(op.k, st.off, wire)
        read == [Set(st, Top(st), op.f, v) EXCEPT !.off = @ + Width(op.k)]
    IN  Call(op.cb, read, Top(st))
ParseBlob(op, st, wire) ==
    LET v == At(op.k, st.off, wire)
        read == [Set(st, Top(st), op.f, v) EXCEPT !.off = @ + Size(op.k, v)]
    IN  Call(op.cb, read, Top(st))

ParseRecordId(op, st, wire) ==
    LET at == Append(Top(st), op.f)
        named == Set(Set(st, at, "cluster", At("Short", st.off, wire)), at, "position", At("Long", st.off + 2, wire))
    IN  [named EXCEPT !.off = @ + 10]

(* in a collection, item i of the array that the field already is          *)
ParseRecord(op, st) ==
    LET at == Append(Top(st), op.f) \o op.item
        c == Closure("record.classId", Top(st), op.f, st.ops, op.cb)
    IN  Aside(PushCtx(st, at), <<RdCb("Short", "classId", c)>>)

ParseElement(op, st) ==
    LET c == Closure("element.type", Top(st), op.f, <<>>, op.cb)
    IN  PushOps(PushCtx(st, Append(Top(st), op.f)), <<RdCb("Byte", "elementType", c)>>)

\* Mutant of ParseResult: what was to be read after it is not set aside.
ParseResultAmongOthers(op, st) ==
    LET c == Closure("result.type", Top(st), op.f, <<>>, op.cb)
    IN  PushOps(PushCtx(st, Append(Top(st), op.f)), <<RdCb("Byte", "elementType", c)>>)
ParseResult(op, st) ==
    LET c == Closure("result.type", Top(st), op.f, st.ops, op.cb)
    IN  Aside(PushCtx(st, Append(Top(st), op.f)), <<RdCb("Byte", "elementType", c)>>)

ParseCollection(op, st, wire) ==
    LET total == At("Int", st.off, wire)[1]
        records == [i \in 1..total |-> [Rd("Record", op.f) EXCEPT !.item = <<ToString(i)>>]]
    IN  [Aside(st, records \o <<Fn(op.cb)>> \o st.ops) EXCEPT !.off = @ + 4]

(* each item has an object of its own, which the entries before and after  *)
(* those of the item enter and leave                                       *)
ParseArray(op, st) ==
    LET at == Append(Top(st), op.f)
        Item(i) == <<Fn([n |-> "push", at |-> Append(at, ToString(i))])>> \o op.item \o <<Fn(Named("pop"))>>
        items == FlattenSeq([i \in 1..Num(st, Top(st), op.n) |-> Item(i)])
    IN  Aside(PushCtx(st, at), items \o <<Fn(Named("pop"))>> \o st.ops)

ParseErrorOf(op, st, begins) ==
    Call(op.cb, Aside(PushCtx(st, Append(Top(st), op.f)), begins \o ErrorItem), Top(st))
ParseError(op, st) == ParseErrorOf(op, st, <<Rd("Int", "code"), Rd("Int", "identifier"), Rd("Byte", "id")>>)

Parse37(op, st, wire) ==
    CASE op.k = "fn"         -> Call(op.cb, st, Top(st))
      [] op.k = "RecordId"   -> ParseRecordId(op, st, wire)
      [] op.k = "Record"     -> ParseRecord(op, st)
      [] op.k = "Element"    -> ParseElement(op, st)
      [] op.k = "Result"     -> ParseResult(op, st)
      [] op.k = "Collection" -> ParseCollection(op, st, wire)
      [] op.k = "Array"      -> ParseArray(op, st)
      [] op.k = "Error"      -> ParseError(op, st)
      [] Blob(op.k)          -> ParseBlob(op, st, wire)
      [] OTHER               -> ParseNumber(op, st, wire)

(* protocol 33 knows no elements and no results, and its errors no codes   *)
ParseValue33(op, st, wire) ==
    IF Blob(op.k) THEN ParseBlob(op, st, wire) ELSE ParseNumber(op, st, wire)
ParseRecord33(op, st) == ParseRecord(op, st)
ParseCollection33(op, st, wire) == ParseCollection(op, st, wire)
ParseArray33(op, st) == ParseArray(op, st)
ParseError33(op, st) == ParseErrorOf(op, st, <<Rd("Byte", "id")>>)
Parse33(op, st, wire) ==
    CASE op.k = "fn"         -> Call(op.cb, st, Top(st))
      [] op.k = "Record"     -> ParseRecord33(op, st)
      [] op.k = "Collection" -> ParseCollection33(op, st, wire)
      [] op.k = "Array"      -> ParseArray33(op, st)
      [] op.k = "Error"      -> ParseError33(op, st)
      [] OTHER               -> ParseValue33(op, st, wire)

(* a pending operation looks whether what comes is a push                  *)
BeginPush(st) ==
    [PushCtx(st, <<"push">>) EXCEPT !.ops = <<Rd("Byte", "code"), RdCb("Byte", "pushType", Named("push.type"))>>]
BeginPush33(st) ==
    [PushCtx(st, <<"push">>) EXCEPT !.ops =
        <<Rd("Byte", "code"), Rd("Int", "sessionId"),
          RdCb("Byte", "type", Closure("push33.type", <<>>, "", st.ops, Call0))>>]
Look(st, wire, arrived, protocol) ==
    LET looked == IF At("Byte", st.off, wire) # <<3>> THEN st
                  ELSE IF protocol = 33 THEN BeginPush33(st) ELSE BeginPush(st)
    IN  [looked EXCEPT !.status = "READING"]

(* consume(): run the entries of readOps until none is left (COMPLETE), or *)
(* a push is over, or the bytes do not do for the next one                 *)
RECURSIVE Run(_, _, _, _)
Run(st, wire, arrived, protocol) ==
    IF st.ops = <<>> THEN [st EXCEPT !.status = "COMPLETE"]
    ELSE LET op == Head(st.ops)
             rest == [st EXCEPT !.ops = Tail(@)]
             here == IF protocol = 33 THEN CanRead33(op.k, st, wire, arrived) ELSE CanRead37(op.k, st, wire, arrived)
         IN  CASE op.k = "return" -> [rest EXCEPT !.status = "PENDING", !.pushes = Append(@, op.f)]
               [] op.k \notin {"fn", "return"} /\ ~here -> st
               [] OTHER -> Run(IF protocol = 33 THEN Parse33(op, rest, wire) ELSE Parse37(op, rest, wire),
                               wire, arrived, protocol)

\* Mutant of Consume: every chunk is taken for the beginning of a reply.
ConsumeAfresh(st, wire, arrived, protocol) ==
    IF arrived < st.off + 1 THEN st
    ELSE Run(Look(st, wire, arrived, protocol), wire, arrived, protocol)

Consume(st, wire, arrived, protocol) ==
    IF st.status # "PENDING" THEN Run(st, wire, arrived, protocol)
    ELSE IF arrived < st.off + 1 THEN st
    ELSE Run(Look(st, wire, arrived, protocol), wire, arrived, protocol)

(* process() goes on with the same operation after a push                  *)
RECURSIVE Feed(_, _, _, _)
Feed(st, wire, arrived, protocol) ==
    LET next == Consume(st, wire, arrived, protocol)
    IN  IF next.status = "PENDING" /\ next.off > st.off
        THEN Feed(next, wire, arrived, protocol) ELSE next

Start(readOps) ==
    [ops |-> readOps, stack |-> <<<<>>>>, heap |-> <<>>, rows |-> <<>>, pushes |-> <<>>, off |-> 0,
     status |-> "PENDING", token |-> <<>>, closed |-> FALSE, fetch |-> FALSE]
=============================================================================
