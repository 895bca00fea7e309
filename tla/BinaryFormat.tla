---------------------------- MODULE BinaryFormat ----------------------------
(***************************************************************************)
(* The binary record format of the protocol 37: what serializer-binary.js  *)
(* writes, and what deserializer-binary.js reads of a record or of a       *)
(* projection.  A record is a sequence of items <<kind, value>>: "byte",   *)
(* "var" (a varint), "str" (its length and its bytes), "double", "float",  *)
(* "long", "int32" and "bytes".  A parse function returns how many items   *)
(* it read and the value.                                                  *)
(*                                                                         *)
(* Values: <<"null">>, <<"undefined">>, <<"bool", b>>, <<"int", n>>,       *)
(* <<"dbl", n>> (the number n.5), <<"date", ms>>, <<"str", s>>,            *)
(* <<"rid", c, p>>, <<"arr", values>>, <<"map", fields>>,                  *)
(* <<"doc", class, fields>> (an object with a @class), <<"raw", s>> (a     *)
(* RawExpression); strings are sequences, fields are pairs of a name and a *)
(* value in the order of Object.keys().                                    *)
(***************************************************************************)
EXTENDS Integers, Sequences, SequencesExt

Pair(name, v) == <<name, v>>
(* object[name] = v                                                        *)
SetField(fields, name, v) ==
    IF \E i \in 1..Len(fields) : fields[i][1] = name
    THEN [i \in 1..Len(fields) |-> IF fields[i][1] = name THEN Pair(name, v) ELSE fields[i]]
    ELSE Append(fields, Pair(name, v))

Byte(n) == <<<<"byte", n>>>>
Varint(n) == <<<<"var", n>>>>
Str(s) == <<<<"str", s>>>>

(* ------------------------------ serializer ----------------------------- *)
RECURSIVE WriteValue(_)
WriteFields(fields) ==
    Varint(Len(fields))
    \o FlattenSeq([i \in 1..Len(fields) |-> Str(fields[i][1]) \o WriteValue(fields[i][2])])
WriteObject(fields) ==
    WriteFields(SelectSeq(fields, LAMBDA f : f[1] \notin {<<"@class">>, <<"@rid">>}))
SerializeDocument(class, fields) == Str(class) \o WriteObject(fields)
WriteLink(v) == Varint(v[2]) \o Varint(v[3])
HandleObject(v) ==
    CASE v[1] = "raw"  -> WriteValue(<<"str", v[2]>>)
      [] v[1] = "rid"  -> Byte(13) \o WriteLink(v)
      [] v[1] = "date" -> Byte(6) \o Varint(v[2])
      [] v[1] = "doc"  -> Byte(9) \o SerializeDocument(v[2], v[3])
      [] v[1] = "map"  -> Byte(12) \o WriteObject(v[2])
HandleEmbeddedCollection(vs) ==
    Byte(10) \o Varint(Len(vs)) \o FlattenSeq([i \in 1..Len(vs) |-> WriteValue(vs[i])])
HandleLinkList(vs) == Byte(14) \o Varint(Len(vs)) \o FlattenSeq([i \in 1..Len(vs) |-> WriteLink(vs[i])])
HandleArray(vs) ==
    IF vs # <<>> /\ vs[1][1] = "rid" THEN HandleLinkList(vs) ELSE HandleEmbeddedCollection(vs)
WriteValue(v) ==
    CASE v[1] \in {"null", "undefined"} -> Byte(-1)
      [] v[1] = "str"  -> Byte(7) \o Str(v[2])
      [] v[1] = "int"  -> Byte(3) \o Varint(v[2])
      [] v[1] = "dbl"  -> Byte(5) \o <<<<"double", v[2]>>>>
      [] v[1] = "bool" -> Byte(0) \o Byte(IF v[2] THEN 1 ELSE 0)
      [] v[1] = "arr"  -> HandleArray(v[2])
      [] OTHER         -> HandleObject(v)

(* ----------------------------- deserializer ---------------------------- *)
Parsed(read, v) == [read |-> read, value |-> v]
Item(kind, in, at) == IF in[at][1] = kind THEN in[at][2] ELSE -99
ParseVarintNumber(in, at) == Parsed(1, <<"int", Item("var", in, at)>>)
ParseDateTime(in, at) == Parsed(1, <<"date", Item("var", in, at)>>)
ParseDate(in, at) == Parsed(1, <<"date", Item("var", in, at) * 86400000>>)
ParseBoolean(in, at) == Parsed(1, <<"bool", Item("byte", in, at) = 1>>)
ParseByte(in, at) == Parsed(1, <<"int", Item("byte", in, at)>>)
ParseDouble(kind, in, at) == Parsed(1, <<"dbl", Item(kind, in, at)>>)
ParseString(in, at) == Parsed(1, <<"str", Item("str", in, at)>>)
ParseLink(in, at) ==
    LET c == Item("var", in, at)
        p == Item("var", in, at + 1)
    IN  Parsed(2, IF c = -2 /\ p = -1 THEN <<"null">> ELSE <<"rid", c, p>>)

(* decimalRead(): a two's complement number and the power of ten below it  *)
Unsigned(bs) == FoldLeft(LAMBDA n, b : 256 * n + b, 0, bs)
\* Mutant of DecimalRead: the complement without the unit it has moved by.
DecimalReadFlipped(bs) ==
    IF bs[1] < 128 THEN Unsigned(bs) ELSE -Unsigned([i \in 1..Len(bs) |-> 255 - bs[i]])
DecimalRead(bs) ==
    IF bs[1] < 128 THEN Unsigned(bs)
    ELSE -Unsigned([i \in 1..Len(bs) |-> 255 - bs[i]]) - 1
ParseDecimal(in, at) == Parsed(2, <<"decimal", DecimalRead(Item("bytes", in, at + 1)), Item("int32", in, at)>>)

(* what a parse function makes of what another has read: n items more, a   *)
(* value with its type, a field with its name                              *)
After(n, one) == Parsed(n + one.read, one.value)
Typed(type, all) == Parsed(all.read, <<type, all.value>>)
Fields(type, all) == Parsed(all.read, <<type, FoldLeft(LAMBDA o, f : SetField(o, f[1], f[2]), <<>>, all.value)>>)
Named(n, name, one) == Parsed(n + one.read, Pair(name.value[2], one.value))
Followed(one, rest) == Parsed(one.read + rest.read, <<one.value>> \o rest.value)

RECURSIVE ParseValue(_, _, _, _), ParseMany(_, _, _, _, _)
ParseOne(in, at, what, reader) ==
    CASE what = "link"  -> ParseLink(in, at)
      [] what = "value" -> After(1, ParseValue(in, Item("byte", in, at), at + 1, reader))
      [] what = "field" -> Named(2, ParseString(in, at), ParseValue(in, Item("byte", in, at + 1), at + 2, reader))
      [] what = "key"   -> Named(2, ParseString(in, at + 1), ParseLink(in, at + 2))
(* n parses one after another: what they read and their values            *)
ParseMore(in, at, n, what, reader, one) == Followed(one, ParseMany(in, at + one.read, n - 1, what, reader))
ParseMany(in, at, n, what, reader) ==
    IF n = 0 THEN Parsed(0, <<>>)
    ELSE ParseMore(in, at, n, what, reader, ParseOne(in, at, what, reader))
Counted(in, at, what, reader) ==
    After(1, ParseMany(in, at + 1, ParseVarintNumber(in, at).value[2], what, reader))

ParseFields(in, at, reader) == Counted(in, at, "field", reader)
Document(n, class, all) == Parsed(n + all.read, <<"doc", class>> \o Tail(all.value))
ParseDocument(in, at) ==
    Document(1, ParseString(in, at).value[2], Fields("doc", ParseFields(in, at + 1, "document")))
(* an element of a projection: the class comes last and is dropped         *)
ParseElement(in, at) == Document(1, <<>>, Fields("doc", ParseFields(in, at, "element")))
ParseEmbedded(in, at, reader) == IF reader = "element" THEN ParseElement(in, at) ELSE ParseDocument(in, at)
ParseEmbeddedCollection(in, at, reader) == Typed("arr", Counted(in, at, "value", reader))
ParseLinkCollection(in, at) == Typed("arr", Counted(in, at, "link", ""))
ParseEmbeddedMap(in, at, reader) == Fields("map", ParseFields(in, at, reader))
ParseLinkMap(in, at) == Fields("map", Counted(in, at, "key", ""))
(* the entries of an embedded bag; of a tree only its size                 *)
ParseRidBag(in, at) ==
    IF Item("byte", in, at + 2) = 1 THEN After(3, Typed("bag", Counted(in, at + 3, "link", "")))
    ELSE Parsed(3 + 5, <<"tree", Item("var", in, at + 6)>>)

ParseValue(in, type, at, reader) ==
    CASE type = -1         -> Parsed(0, <<"null">>)
      [] type = 0          -> ParseBoolean(in, at)
      [] type \in 1..3     -> ParseVarintNumber(in, at)
      [] type = 4          -> ParseDouble("float", in, at)
      [] type = 5          -> ParseDouble("double", in, at)
      [] type = 6          -> ParseDateTime(in, at)
      [] type = 7          -> ParseString(in, at)
      [] type = 9          -> ParseEmbedded(in, at, reader)
      [] type \in {10, 11} -> ParseEmbeddedCollection(in, at, reader)
      [] type = 12         -> ParseEmbeddedMap(in, at, reader)
      [] type = 13         -> ParseLink(in, at)
      [] type \in {14, 15} -> ParseLinkCollection(in, at)
      [] type = 16         -> ParseLinkMap(in, at)
      [] type = 17         -> ParseByte(in, at)
      [] type = 19         -> ParseDate(in, at)
      [] type = 21         -> ParseDecimal(in, at)
      [] type = 22         -> ParseRidBag(in, at)

Deserialize(type, in) == IF type = 4 THEN ParseElement(in, 1).value ELSE ParseDocument(in, 1).value
=============================================================================
