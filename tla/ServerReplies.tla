---------------------------- MODULE ServerReplies ----------------------------
(***************************************************************************)
(* What a server sends: the fields of a reply or of a push in the order of *)
(* the wire, each with the object of the result it is about.  The server   *)
(* is not part of the repository: its side of the protocols is taken from  *)
(* what the readers expect.                                                *)
(***************************************************************************)
EXTENDS OperationReader

CONSTANT ItemCounts   \* how many items an array of a reply may have

(* A value nothing depends on is Fresh until the fields are numbered         *)
Fresh == <<-77>>
Field(at, t, f, v) == [at |-> at, t |-> t, f |-> f, v |-> v]
Numbered(fields) ==
    [i \in 1..Len(fields) |->
        IF fields[i].v # Fresh THEN fields[i]
        ELSE IF fields[i].t = "RecordId" THEN [fields[i] EXCEPT !.v = <<i, i>>] ELSE [fields[i] EXCEPT !.v = <<i>>]]
FieldCells(x) == IF x.t = "RecordId" THEN Cells("Short", <<x.v[1]>>) \o Cells("Long", <<x.v[2]>>)
                 ELSE Cells(x.t, x.v)
WireOf(fields) == FlattenSeq([i \in 1..Len(fields) |-> FieldCells(fields[i])])

Then(A, B) == {a \o b : a \in A, b \in B}
Fields(at, ops) == [i \in 1..Len(ops) |-> Field(at, ops[i].k, ops[i].f, Fresh)]

(* all replies a static sequence of entries reads                          *)
RECURSIVE Bodies(_, _)
Bodies(ops, at) ==
    IF ops = <<>> THEN {<<>>}
    ELSE IF Len(ops) >= 2 /\ ops[2].k = "Array"
    THEN UNION {LET items == FlattenSeq([i \in 1..n |->
                        Fields(at \o <<ops[2].f, ToString(i)>>, ops[2].item)])
                IN  Then({<<Field(at, ops[1].k, ops[1].f, <<n>>)>> \o items},
                         Bodies(SubSeq(ops, 3, Len(ops)), at)) : n \in ItemCounts}
    ELSE Then({Fields(at, <<Head(ops)>>)}, Bodies(Tail(ops), at))

S(t, f, v) == Field(<<"status">>, t, f, v)
StatusOk(token) == <<S("Byte", "code", <<0>>), S("Int", "sessionId", Fresh), S("Bytes", "token", token), S("Byte", "op", Fresh)>>
StatusOk33(token) == <<S("Byte", "code", <<0>>), S("Int", "sessionId", Fresh)>>
                     \o (IF token = <<>> THEN <<>> ELSE <<S("Bytes", "token", Fresh)>>)

(* an error with the causes that led to it                                 *)
E(t, f) == Field(<<"status", "error">>, t, f, Fresh)
Cause(at, more) == <<Field(at, "String", "type", Fresh), Field(at, "String", "message", Fresh),
                     Field(at, "Byte", "hasMore", <<IF more THEN 1 ELSE 0>>)>>
ErrorFields(codes, causes) ==
    codes \o <<E("Byte", "id")>> \o Cause(<<"status", "error">>, causes > 0)
    \o FlattenSeq([i \in 1..causes |-> Cause(Append(Previous, ToString(i)), i < causes)])
    \o <<E("Bytes", "javaStackTrace")>>
Failed(status, causes) ==
    [status EXCEPT ![1].v = <<1>>] \o ErrorFields(<<E("Int", "code"), E("Int", "identifier")>>, causes)
Failed33(status, causes) == [status EXCEPT ![1].v = <<1>>] \o ErrorFields(<<>>, causes)

RecordAt(at) == Fields(at, RecordFields)

(* an element of a result: of a class, a projection or null                *)
Element(at, kind) ==
    CASE kind = "projection" -> <<Field(at, "Byte", "elementType", <<4>>), Field(at, "Bytes", "value", Fresh)>>
      [] kind = "null"       -> <<Field(at, "Byte", "elementType", <<3>>), Field(at, "Short", "t", <<-2>>)>>
      [] OTHER               -> <<Field(at, "Byte", "elementType", <<3>>), Field(at, "Short", "t", <<0>>)>>
                                \o RecordAt(at) \o <<Field(at, "Bytes", "value", Fresh)>>

Cur(t, f, v) == Field(<<"current">>, t, f, v)
ResultSet(plan, rows, more) ==
    <<Field(<<"header">>, "String", "queryId", Fresh), Field(<<"header">>, "Boolean", "txChanges", Fresh),
      Field(<<"header">>, "Boolean", "hasExecutionPlan", <<IF plan = "none" THEN 0 ELSE 1>>)>>
    \o (IF plan = "none" THEN <<>> ELSE Element(<<"header", "executionPlan">>, plan))
    \o <<Cur("Int", "prefetched", Fresh), Cur("Int", "count", <<Len(rows)>>)>>
    \o FlattenSeq([i \in 1..Len(rows) |-> Element(<<"current", "result">>, rows[i])])
    \o <<Cur("Boolean", "hasNext", <<IF more THEN 1 ELSE 0>>), Cur("Int", "statsSize", Fresh),
         Cur("Boolean", "reloadMetadata", Fresh)>>

(* a record as protocol 33 sends it: with a class, null, or a link         *)
Record33(at, classId) ==
    <<Field(at, "Short", "classId", <<classId>>)>>
    \o (CASE classId = -2 -> <<>>
          [] classId = -3 -> Fields(at, <<Rd("Short", "cluster"), Rd("Long", "position")>>)
          [] OTHER        -> RecordAt(at) \o <<Field(at, "Bytes", "value", Fresh)>>)
Status33(at, code) == Field(at, "Byte", "payloadStatus", <<code>>)

Loads == LET at == <<"records">>
             rec1 == <<Status33(at, 1)>> \o Fields(<<"records", "1">>, <<Rd("Char", "type"), Rd("Int", "version"), Rd("Bytes", "content")>>)
             sub(i, c) == <<Status33(at, 2), Field(<<"records", i>>, "Short", "classId", <<c>>)>>
                          \o (IF c = -2 THEN <<>>
                              ELSE RecordAt(<<"records", i>>) \o <<Field(<<"records", i>>, "Bytes", "content", Fresh)>>)
         IN  {<<Status33(at, 0)>>, rec1 \o <<Status33(at, 0)>>,
              rec1 \o sub("2", 0) \o sub("3", 0) \o <<Status33(at, 0)>>,
              rec1 \o sub("2", -2) \o sub("3", 0) \o <<Status33(at, 0)>>}

Commands33 ==
    LET at == <<"results">>
        it(i) == <<"results", i, "content">>
        one(i, code, c) == <<Status33(at, code)>> \o Record33(it(i), c)
        coll(i, cs) == <<Status33(at, 108), Field(<<"results", i>>, "Int", "", <<Len(cs)>>)>>
                       \o FlattenSeq([j \in 1..Len(cs) |-> Record33(it(i) \o <<ToString(j)>>, cs[j])])
        text(i) == <<Status33(at, 97), Field(<<"results", i>>, "String", "content", Fresh)>>
        end == <<Status33(at, 0)>>
    IN  {end, text("1") \o end, <<Status33(at, 110)>> \o end, one("1", 114, 0) \o end, one("1", 1, -2) \o end,
         coll("1", <<>>) \o end, coll("1", <<0, -3, 0>>) \o end,
         coll("1", <<0, -2>>) \o one("2", 2, 0) \o text("3") \o end}

P(t, f, v) == Field(<<"push">>, t, f, v)
ConfigPush == <<P("Byte", "code", <<3>>), P("Byte", "pushType", <<80>>), P("Int", "hostSize", <<2>>),
                Field(<<"push", "hosts", "1">>, "String", "address", Fresh),
                Field(<<"push", "hosts", "2">>, "String", "address", Fresh)>>
Event(i, type, kind) ==
    LET at == <<"push", "events", i>>
    IN  <<Field(at, "Byte", "type", <<type>>)>> \o Element(at \o <<"data">>, kind)
        \o (IF type = 2 THEN Element(at \o <<"before">>, kind) ELSE <<>>)
LivePush(more, events) ==
    <<P("Byte", "code", <<3>>), P("Byte", "pushType", <<81>>), P("Int", "monitorId", Fresh),
      P("Byte", "status", <<IF more THEN 1 ELSE 2>>), P("Int", "eventsSize", <<Len(events)>>)>>
    \o FlattenSeq([i \in 1..Len(events) |-> Event(ToString(i), events[i][1], events[i][2])])
Push33(live) ==
    <<P("Byte", "code", <<3>>), P("Int", "sessionId", Fresh), P("Byte", "type", <<IF live THEN 81 ELSE 80>>),
      P("Bytes", IF live THEN "liveMessage" ELSE "data", Fresh)>>
ResultSets ==
    {ResultSet("none", <<>>, FALSE), ResultSet("none", <<"record", "projection", "record">>, TRUE),
     ResultSet("record", <<"null">>, FALSE), ResultSet("projection", <<"record">>, FALSE)}
Replies(op) ==
    LET first == IF op.reader = <<>> THEN "" ELSE Head(op.reader).cb.n
    IN  CASE first = "resultset.begin" -> ResultSets
          [] first = "load.begin"      -> Loads
          [] first = "command.begin"   -> Commands33
          [] first = "success"         -> {<<>>}
          [] OTHER                     -> Bodies(op.reader, <<>>)
Pushes == {ConfigPush, LivePush(TRUE, << <<1, "record">>, <<2, "record">> >>),
           LivePush(FALSE, << <<3, "projection">>, <<2, "projection">>, <<1, "record">> >>)}
=============================================================================
