------------------------------- MODULE Formats -------------------------------
(***************************************************************************)
(* Records as they travel: a client writes a record in the format of its   *)
(* protocol and reads it back, reads what a server writes that no client   *)
(* does, and goes through the bags of record ids found in it.              *)
(***************************************************************************)
EXTENDS BinaryFormat, FiniteSets

CONSTANTS
    Numbers,       \* the numbers of a text
    Documents,     \* the records a client writes
    ServerValues   \* what a server writes: [type, items, value] of a field

Csv == INSTANCE CsvFormat

VARIABLES
    stage,      \* "idle", "csv", "binary", "server" or "bag"
    value,      \* the record that was written; of a bag, its record ids
    text,       \* what was written
    back,       \* what was read of it
    bag         \* an ORidBag or a Bag: see NewBag

vars == <<stage, value, text, back, bag>>
Nothing == <<"nothing">>
NoBag == [lazy |-> FALSE, current |-> -1, content |-> <<>>, offset |-> 0, given |-> <<>>]
Init == stage = "idle" /\ value = Nothing /\ text = <<>> /\ back = Nothing /\ bag = NoBag

(* What a record means once it has been read.                              *)
RECURSIVE Meant(_, _)
MeantFields(fields, csv) ==
    LET kept == SelectSeq(fields, LAMBDA f : f[1] # <<"@rid">> /\ ~(csv /\ f[2] = <<"undefined">>))
    IN  [i \in 1..Len(kept) |-> Pair(kept[i][1], Meant(kept[i][2], csv))]
Meant(v, csv) ==
    CASE v[1] = "undefined" -> <<"null">>
      [] v[1] = "arr" -> <<"arr", [i \in 1..Len(v[2]) |-> Meant(v[2][i], csv)]>>
      [] v[1] = "map" -> <<"map", MeantFields(v[2], csv)>>
      [] v[1] = "doc" -> <<"doc", v[2], MeantFields(v[3], csv)>>
      [] OTHER -> v

(* Records a format has words for: a list of links is all links; in a text *)
(* an array holds no date and no array and begins with no null, and a      *)
(* record has a field.                                                     *)
RECURSIVE Sayable(_, _)
SayableFields(fields, csv) == \A i \in 1..Len(fields) : Sayable(fields[i][2], csv)
Sayable(v, csv) ==
    CASE v[1] = "arr" ->
           /\ \A i \in 1..Len(v[2]) : Sayable(v[2][i], csv)
           /\ v[2] # <<>> =>
                IF csv THEN /\ v[2][1][1] \notin {"null", "undefined"}
                            /\ \A i \in 1..Len(v[2]) : v[2][i][1] \notin {"date", "arr"}
                ELSE v[2][1][1] = "rid" => \A i \in 1..Len(v[2]) : v[2][i][1] = "rid"
      [] v[1] = "map" -> SayableFields(v[2], csv)
      [] v[1] = "doc" -> SayableFields(v[3], csv)
      [] OTHER -> TRUE

WriteCsv ==
    /\ stage = "idle"
    /\ \E d \in Documents : value' = d /\ text' = Csv!Serialize(d)
    /\ stage' = "csv" /\ UNCHANGED <<back, bag>>
ReadCsv ==
    /\ stage = "csv" /\ back = Nothing
    /\ back' = Csv!Deserialize(text)
    /\ UNCHANGED <<stage, value, text, bag>>
(* writing a link list that holds anything else throws, or writes NaN     *)
WriteBinary ==
    /\ stage = "idle"
    /\ \E d \in {r \in Documents : Sayable(r, FALSE)} : value' = d /\ text' = SerializeDocument(d[2], d[3])
    /\ stage' = "binary" /\ UNCHANGED <<back, bag>>
ReadBinary ==
    /\ stage = "binary" /\ back = Nothing
    /\ back' = Deserialize(0, text)
    /\ UNCHANGED <<stage, value, text, bag>>

(* The server writes a record or a projection of two fields; an embedded   *)
(* record of a projection is written as the projection is.                 *)
Fields2(a, b) == Varint(2) \o Str(<<"a">>) \o Byte(a.type) \o a.items \o Str(<<"b">>) \o Byte(b.type) \o b.items
Embedded(x, projection) ==
    [type |-> 9, value |-> <<"doc", IF projection THEN <<>> ELSE <<"A">>, <<Pair(<<"a">>, x.value), Pair(<<"b">>, x.value)>>>>,
     items |-> IF projection THEN Fields2(x, x) \o Str(<<"A">>) ELSE Str(<<"A">>) \o Fields2(x, x)]
ServerWrites(a, b, projection) ==
    /\ stage = "idle" /\ stage' = "server"
    /\ value' = <<"doc", IF projection THEN <<>> ELSE <<"A">>, <<Pair(<<"a">>, a.value), Pair(<<"b">>, b.value)>>>>
    /\ text' = IF projection THEN Fields2(a, b) \o Str(<<"A">>) ELSE Str(<<"A">>) \o Fields2(a, b)
    /\ back' = Deserialize(IF projection THEN 4 ELSE 0, text')
    /\ UNCHANGED bag
ServerWritesRecord ==
    \E a, b \in ServerValues, projection \in BOOLEAN : ServerWrites(Embedded(a, projection), b, projection)

(* ---------------------------------- bags ------------------------------- *)
(* bag.js: a Bag reads its entries one by one from what was serialized and *)
(* remembers them in its content; without entries it is not lazy.          *)
NewBag ==
    /\ stage = "idle" /\ stage' = "bag"
    /\ \E rids \in {<<>>, <<1>>, <<1, 2>>, <<1, 2, 1>>} : value' = rids
    /\ \E lazy \in BOOLEAN : bag' = [NoBag EXCEPT !.lazy = lazy, !.content = IF lazy THEN <<>> ELSE value']
    /\ UNCHANGED <<text, back>>
(* next(): the bag afterwards and what it returns, 0 for null or undefined *)
Next1(b) ==
    IF b.lazy
    THEN IF b.current >= Len(value) - 1 THEN <<b, 0>>
         ELSE <<[b EXCEPT !.current = @ + 1, !.content = Append(@, value[b.current + 2])], value[b.current + 2]>>
    ELSE IF b.current + 1 > Len(b.content) THEN <<[b EXCEPT !.current = -1], 0>>
         ELSE <<[b EXCEPT !.current = @ + 1],
                IF b.current + 1 = Len(b.content) THEN 0 ELSE b.content[b.current + 2]>>
RECURSIVE Exhaust(_)
Exhaust(b) == LET n == Next1(b) IN IF n[2] = 0 THEN n[1] ELSE Exhaust(n[1])

NextOfBag ==
    /\ stage = "bag" /\ bag' = Next1(bag)[1]
    /\ UNCHANGED <<stage, value, text, back>>
AllOfBag ==
    /\ stage = "bag" /\ bag' = [Exhaust(bag) EXCEPT !.given = Exhaust(bag).content]
    /\ back' = <<"all">>
    /\ UNCHANGED <<stage, value, text>>

Forget ==
    /\ back # Nothing
    /\ stage' = "idle" /\ value' = Nothing /\ text' = <<>> /\ back' = Nothing /\ bag' = NoBag

Next == WriteCsv \/ ReadCsv \/ WriteBinary \/ ReadBinary \/ ServerWritesRecord
        \/ NewBag \/ NextOfBag \/ AllOfBag \/ Forget
Spec == Init /\ [][Next]_vars
-----------------------------------------------------------------------------
\* A record sent to the server is read back as it was, however deep it is (an
\* undefined field as null): in the binary format the type written before a
\* value is the one its parser is chosen by, and each parser stops where the
\* next field begins; as text, whatever quotes, backslashes, commas and brackets
\* its strings hold.
ComesBack ==
    back # Nothing =>
        /\ stage = "binary" => back = Meant(value, FALSE)
        /\ stage = "csv" /\ Sayable(value, TRUE) /\ MeantFields(value[3], TRUE) # <<>> =>
              back = Meant(value, TRUE)

\* Every type a server writes is read to its value and no further, in a record
\* and in a projection, where an embedded record ends with its class; and of a
\* bag of record ids all() gives each once, however many next() calls and other
\* calls of all() came before it.
ServerValuesAreRead ==
    /\ stage = "server" => back = value
    /\ stage = "bag" /\ back # Nothing => bag.given = value
=============================================================================
