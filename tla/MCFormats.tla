----------------------------- MODULE MCFormats -----------------------------
(* Documents of up to two fields beside a record id, whose values are       *)
(* scalars, arrays, maps and embedded documents down to three levels, with  *)
(* the characters that text gives a meaning; and a value of every type a    *)
(* server writes.                                                           *)
EXTENDS Formats

MCNumbers == {-5, -2, 1, 2, 3, 7}
Scalars == {<<"null">>, <<"undefined">>, <<"bool", TRUE>>, <<"bool", FALSE>>, <<"int", -5>>, <<"dbl", 3>>,
            <<"date", 7>>, <<"str", <<>>>>, <<"str", <<"x", "\"", "\\", ",">>>>, <<"rid", 1, 2>>, <<"rid", -2, 7>>}
Small == {<<"null">>, <<"undefined">>, <<"int", 7>>, <<"date", 7>>, <<"str", <<"]", "\"">>>>, <<"rid", 1, 2>>}
F(name, v) == <<<<name, v>>>>
Arrays == {<<"arr", <<>>>>} \cup {<<"arr", <<a>>>> : a \in Scalars}
          \cup {<<"arr", <<a, b>>>> : a, b \in Small}
Maps == {<<"map", <<>>>>} \cup {<<"map", F(<<"k">>, a)>> : a \in Scalars \cup Arrays}
        \cup {<<"map", F(<<"k">>, a) \o F(<<"l">>, b)>> : a, b \in Small}
Docs == {<<"doc", <<"B">>, <<>>>>} \cup {<<"doc", <<"B">>, F(<<"k">>, a)>> : a \in Scalars \cup Arrays \cup Maps}
Deep == {<<"arr", <<m, <<"int", 7>>>>>> : m \in Arrays \cup Maps \cup Docs}
        \cup {<<"map", F(<<"k">>, d)>> : d \in Docs}
MCDocuments ==
    {<<"doc", c, F(<<"f">>, a) \o F(<<"@rid">>, <<"rid", 1, 2>>) \o F(<<"g">>, b)>> :
        c \in {<<>>, <<"A">>}, a \in Scalars \cup Arrays \cup Maps \cup Docs \cup Deep, b \in Small}
    \cup {<<"doc", <<"A">>, F(<<"f">>, a)>> : a \in Scalars}

Sv(type, items, v) == [type |-> type, items |-> items, value |-> v]
Long2 == <<<<"long", 1>>, <<"long", 1>>>>
Bytes2(n) == <<(IF n < 0 THEN 65536 + n ELSE n) \div 256, (IF n < 0 THEN 65536 + n ELSE n) % 256>>
MCServerValues ==
    {Sv(t, Varint(5), <<"int", 5>>) : t \in 1..3}
    \cup {Sv(4, <<<<"float", 3>>>>, <<"dbl", 3>>), Sv(-1, <<>>, <<"null">>), Sv(17, Byte(9), <<"int", 9>>),
          Sv(6, Varint(7), <<"date", 7>>), Sv(19, Varint(2), <<"date", 172800000>>),
          Sv(13, Varint(-2) \o Varint(-1), <<"null">>),
          Sv(11, Varint(2) \o Byte(-1) \o Byte(0) \o Byte(1), <<"arr", <<<<"null">>, <<"bool", TRUE>>>>>>),
          Sv(15, Varint(1) \o Varint(1) \o Varint(2), <<"arr", <<<<"rid", 1, 2>>>>>>),
          Sv(16, Varint(1) \o Byte(7) \o Str(<<"k">>) \o Varint(1) \o Varint(2), <<"map", F(<<"k">>, <<"rid", 1, 2>>)>>),
          Sv(22, Long2 \o Byte(1) \o Varint(2) \o Varint(1) \o Varint(2) \o Varint(3) \o Varint(4),
             <<"bag", <<<<"rid", 1, 2>>, <<"rid", 3, 4>>>>>>),
          Sv(22, Long2 \o Byte(2) \o Varint(1) \o Varint(2) \o Varint(3) \o Varint(50) \o Varint(0), <<"tree", 50>>)}
    \cup {Sv(21, <<<<"int32", 2>>, <<"bytes", Bytes2(n)>>>>, <<"decimal", n, 2>>) : n \in {-32768, -256, -1, 0, 1, 32767}}
=============================================================================
