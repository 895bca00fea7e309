----------------------------- MODULE CsvFormat -----------------------------
(***************************************************************************)
(* The textual record format of the protocol 33 (serializer-csv.js and     *)
(* deserializer-csv.js), the values being those of BinaryFormat.  A text   *)
(* is a sequence of characters, a number or a word being one; an eat       *)
(* function returns what it has read and the text that remains.            *)
(***************************************************************************)
EXTENDS Integers, Sequences, SequencesExt, TLC

LOCAL B == INSTANCE BinaryFormat

CONSTANT Numbers   \* the numbers a text may hold

Half(n) == ToString(n) \o ".5"
Number(c) == CHOOSE n \in Numbers : c \in {ToString(n), Half(n)}
IsNumber(c) == \E n \in Numbers : c \in {ToString(n), Half(n)}

(* ------------------------------ serializer ----------------------------- *)
\* Mutant of Escaped: only the quotes are.
EscapedQuotes(s) == FlattenSeq([i \in 1..Len(s) |-> IF s[i] = "\"" THEN <<"\\", s[i]>> ELSE <<s[i]>>])
Escaped(s) == FlattenSeq([i \in 1..Len(s) |-> IF s[i] \in {"\\", "\""} THEN <<"\\", s[i]>> ELSE <<s[i]>>])
Objects == {"rid", "date", "arr", "map", "doc"}

RECURSIVE SerializeValue(_)
SerializeFields(class, fields, isMap) ==
    LET quote == IF isMap THEN <<"\"">> ELSE <<>>
        kept == SelectSeq(fields, LAMBDA f : f[2] # <<"undefined">> /\ f[1] # <<"@rid">>)
        text == FlattenSeq([i \in 1..Len(kept) |->
                    quote \o kept[i][1] \o quote \o <<":">> \o SerializeValue(kept[i][2]) \o <<",">>])
        whole == (IF class = <<>> THEN <<>> ELSE class \o <<"@">>) \o text
    IN  IF whole # <<>> /\ Last(whole) = "," THEN Front(whole) ELSE whole
(* an array or a date is an object like any other, without a type         *)
SerializeObject(v) ==
    CASE v[1] = "rid" -> <<"#", ToString(v[2]), ":", ToString(v[3])>>
      [] v[1] = "doc" -> <<"(">> \o SerializeFields(v[2], v[3], FALSE) \o <<")">>
      [] v[1] = "map" -> <<"{">> \o SerializeFields(<<>>, v[2], TRUE) \o <<"}">>
      [] v[1] = "arr" -> <<"{">> \o SerializeFields(<<>>,
                              [i \in 1..Len(v[2]) |-> <<<<ToString(i - 1)>>, v[2][i]>>], TRUE) \o <<"}">>
      [] v[1] = "date" -> <<"{", "}">>
SerializeArray(vs) ==
    LET one(v) == IF v[1] \in Objects THEN SerializeObject(v) ELSE SerializeValue(v)
    IN  <<"[">> \o FlattenSeq([i \in 1..Len(vs) |-> one(vs[i]) \o (IF i < Len(vs) THEN <<",">> ELSE <<>>)])
        \o <<"]">>
SerializeValue(v) ==
    CASE v[1] = "str"  -> <<"\"">> \o Escaped(v[2]) \o <<"\"">>
      [] v[1] = "int"  -> <<ToString(v[2])>>
      [] v[1] = "dbl"  -> <<Half(v[2]), "d">>
      [] v[1] = "bool" -> <<IF v[2] THEN "true" ELSE "false">>
      [] v[1] = "date" -> <<ToString(v[2]), "t">>
      [] v[1] = "arr"  -> SerializeArray(v[2])
      [] v[1] \in {"null", "undefined"} -> <<>>
      [] OTHER         -> SerializeObject(v)
Serialize(doc) == SerializeFields(doc[2], doc[3], FALSE)

(* ----------------------------- deserializer ---------------------------- *)
Eaten(v, rest) == [v |-> v, rest |-> rest]
Starts(s, c) == s # <<>> /\ Head(s) = c
Drop(s, n) == IF Len(s) < n THEN <<>> ELSE SubSeq(s, n + 1, Len(s))
(* the first place of one of the characters, past the end if there is none *)
IndexIn(s, stops) == CHOOSE i \in 1..(Len(s) + 1) :
    /\ i <= Len(s) => s[i] \in stops
    /\ \A j \in 1..(i - 1) : s[j] \notin stops

RECURSIVE EatChars(_, _)
EatChars(s, collected) ==
    IF s = <<>> \/ Starts(s, "\"") THEN Eaten(collected, Drop(s, 1))
    ELSE IF Head(s) = "\\" THEN EatChars(Drop(s, 2), collected \o SubSeq(s, 2, 2))
    ELSE EatChars(Tail(s), Append(collected, Head(s)))
EatString(s) == EatChars(s, <<>>)

EatKeyTo(s, stops) ==
    IF Starts(s, "\"") THEN LET r == EatString(Tail(s)) IN Eaten(r.v, Drop(r.rest, 1))
    ELSE LET i == IndexIn(s, stops) IN Eaten(SubSeq(s, 1, i - 1), Drop(s, i))
EatKey(s) == EatKeyTo(s, {":"})
EatFirstKey(s) ==
    LET i == IndexIn(s, {":", "@"})
    IN  [isClass |-> ~Starts(s, "\"") /\ i <= Len(s) /\ s[i] = "@", chunk |-> EatKeyTo(s, {":", "@"})]

EatNumber(s) ==
    LET n == Number(Head(s))
        suffix == IF Len(s) > 1 THEN s[2] ELSE ""
    IN  CASE suffix \in {"a", "t"} -> Eaten(<<"date", n>>, Drop(s, 2))
          [] OTHER -> Eaten(<<IF Head(s) = Half(n) THEN "dbl" ELSE "int", n>>,
                            Drop(s, IF suffix \in {"b", "s", "l", "f", "d", "c"} THEN 2 ELSE 1))
EatRID(s) == Eaten(<<"rid", Number(s[1]), Number(s[3])>>, Drop(s, 3))
EatBag(s) ==
    LET i == IndexIn(s, {";"}) IN Eaten(<<"bag", SubSeq(s, 1, i - 1)>>, Drop(s, i))
EatBinary(s) ==
    LET i == IndexIn(s, {"_", ",", ")", ">", "}", "]"}) IN Eaten(<<"bytes", SubSeq(s, 1, i - 1)>>, Drop(s, i))

RECURSIVE EatValue(_), EatItems(_, _, _), EatFields(_, _, _)
(* the items of an array or of a set up to its end                         *)
EatItems(s, close, items) ==
    IF s = <<>> THEN Eaten(items, s)
    ELSE IF Head(s) = close THEN Eaten(items, Tail(s))
    ELSE LET one == EatValue(IF Head(s) = "," THEN Tail(s) ELSE s)
         IN  EatItems(one.rest, close, Append(items, one.v))
EatArray(s) == LET all == EatItems(s, "]", <<>>) IN Eaten(<<"arr", all.v>>, all.rest)
EatSet(s) == LET all == EatItems(s, ">", <<>>) IN Eaten(<<"arr", all.v>>, all.rest)

EatField(s, fields) ==
    LET key == EatKey(s)
        one == IF key.rest = <<>> THEN Eaten(<<"null">>, <<>>) ELSE EatValue(key.rest)
    IN  Eaten(B!SetField(fields, key.v, one.v), one.rest)
(* the fields of a map or of an embedded record, those before the first of *)
(* the record included, up to its end; a text that ends, ends them too     *)
EatFields(s, close, fields) ==
    IF s = <<>> THEN Eaten(fields, s)
    ELSE IF Head(s) = " " THEN EatFields(Tail(s), close, fields)
    ELSE IF Head(s) = close THEN Eaten(fields, Tail(s))
    ELSE LET next == EatField(IF Head(s) = "," THEN Tail(s) ELSE s, fields)
         IN  EatFields(next.rest, close, next.v)
EatMap(s) == LET all == EatFields(s, "}", <<>>) IN Eaten(<<"map", all.v>>, all.rest)
EatRecord(s) ==
    LET first == EatFirstKey(s)
        all == EatFields(IF first.isClass THEN first.chunk.rest ELSE s, ")", <<>>)
    IN  Eaten(<<"doc", IF first.isClass THEN first.chunk.v ELSE <<>>, all.v>>, all.rest)

EatValue(s) ==
    LET c == IF s = <<>> THEN "" ELSE Head(s)
    IN  CASE c = " "  -> EatValue(Tail(s))
          [] c = "\"" -> LET r == EatString(Tail(s)) IN Eaten(<<"str", r.v>>, r.rest)
          [] c = "#"  -> EatRID(Tail(s))
          [] c = "["  -> EatArray(Tail(s))
          [] c = "<"  -> EatSet(Tail(s))
          [] c = "{"  -> EatMap(Tail(s))
          [] c = "("  -> EatRecord(Tail(s))
          [] c = "%"  -> EatBag(Tail(s))
          [] c = "_"  -> EatBinary(Tail(s))
          [] c = "null"  -> Eaten(<<"null">>, Tail(s))
          [] c = "true"  -> Eaten(<<"bool", TRUE>>, Tail(s))
          [] c = "false" -> Eaten(<<"bool", FALSE>>, Tail(s))
          [] IsNumber(c) -> EatNumber(s)
          [] OTHER -> Eaten(<<"null">>, s)

(* deserialize(): the first value is read even when nothing follows the    *)
(* class; the fields go on as long as a comma does                         *)
RECURSIVE EatRest(_, _)
EatRest(s, fields) ==
    IF ~Starts(s, ",") THEN fields
    ELSE LET next == EatField(Tail(s), fields) IN EatRest(next.rest, next.v)
Deserialize(s) ==
    LET first == EatFirstKey(s)
        key == IF first.isClass THEN EatKey(first.chunk.rest) ELSE first.chunk
        one == EatValue(key.rest)
    IN  <<"doc", IF first.isClass THEN first.chunk.v ELSE <<>>,
          EatRest(one.rest, <<B!Pair(key.v, one.v)>>)>>
=============================================================================
