------------------------ MODULE MigrationsInvariants ------------------------
(* The types of Migrations and of the Schema under it, and the inductive invariants *)
(* that MigrationsProofs is about.                                                  *)
EXTENDS Migrations

--------------------------------------------------------------------------------
(* The types.                                                                   *)

Whole  == {Thing(k, n) : k \in Kinds, n \in Names}
Parts  == {Property(n, p) : n \in Names, p \in Props}
Named  == Whole \cup Parts

\* What a program asks about the schema, and what managers ask besides.
SchemaRequests == [op : SchemaOps \ {"list"}, of : Named, to : Named] \cup {List(k) : k \in Kinds}
StatementOps   == {"up", "down", "select", "record", "erase"}
StatementOf(op, n) == Request(op, <<n>>, <<n>>)
Statements     == {StatementOf(op, n) : op \in StatementOps \ {"select"}, n \in Known}
                  \cup {StatementOf("select", n) : n \in Known \cup {0}}
Requests       == SchemaRequests \cup Statements

\* What comes back: the version of the schema, or what a statement has found.
Answers == Nat \cup {<<>>} \cup [Known -> Nat]
Refused == <<"error">>
Replies == {<<>>, Refused} \cup ({"ok"} \X Answers)
Answered(e) == e.reply # <<>> /\ e.reply # Refused

Entry == {e \in [who : Callers \cup {Nobody}, what : Requests, reply : Replies] :
             e.what \in SchemaRequests /\ Answered(e) => e.reply[2] \in Nat}

CallOps  == {"none", "statement", "create", "update", "drop", "alter", "use", "get", "list",
             "reload", "count"}
Outcomes == {"none", "pending", "found", "missing", "gone", "done", "failed"}

\* What a call of a kind asks for: only two of them change the schema.
Changing == {"create", "drop", "rename"}
Changes  == {"create", "drop"}
AskedBy(op) == IF op = "statement" THEN Statements
               ELSE IF op \in Changes THEN SchemaRequests
               ELSE {r \in SchemaRequests : r.op \notin Changing}

CallRecord ==
    {k \in [op : CallOps, of : Named \cup {<<>>}, todo : Seq(Seq(Requests)), sent : Nat,
            made : Nat, got : Answers, outcome : Outcomes] :
        /\ k.op \notin {"none", "statement"} => k.of \in Named
        /\ k.todo \in Seq(Seq(AskedBy(k.op)))}

Held == {<<>>} \cup (Names \X (Nat \cup {Never}))

Steps == {"none", "next", "list", "create to list", "properties to list", "structure", "create",
          "properties", "class", "select", "run", "class again", "find", "record"}
Manager == [doing : {"nothing", "up", "down"}, limit : {0, 1}, step : Steps,
            left : Seq(Known), done : BOOLEAN]

SchemaType ==
    /\ api \in {"legacy", "client"}
    /\ dbOf \in [Callers -> Dbs]
    /\ changes \in Seq([removed : SUBSET Named, added : SUBSET Named])
    /\ cached \in [Dbs -> [Kinds -> Nat \cup {Never}]]
    /\ call \in [Callers -> CallRecord]
    /\ flight \in [Dbs -> Seq(Entry)]
    /\ instance \in [Callers -> Held]
    /\ opened \in [Dbs -> BOOLEAN]
    /\ losses \in Nat

MigrationType ==
    /\ role \in Kinds \cup {"managers"}
    /\ manager \in [Callers -> Manager]
    /\ ups \in [Known -> Nat] /\ downs \in [Known -> Nat] /\ records \in [Known -> Nat]
    /\ overlapped \in BOOLEAN

TypeOK == SchemaType /\ MigrationType

--------------------------------------------------------------------------------
(* What calls ask for.                                                          *)

\* What a creation is, of a property in the class of the property.
Makes(r, t) == /\ r.op \in {"create", "rename"} /\ r.to = t
               /\ t[1] = "property" => r.of[1] = "property" /\ r.of[2] = t[2]

Listing(t) == One(List(ListOf(t)))

\* A call that changes the schema closes with the list of what it changes, and one
\* that creates begins with the creation.
Plan(op, t, stages) ==
    /\ op \in CallOps \ {"none", "statement"} /\ t \in Named
    /\ stages \in Seq(Seq(AskedBy(op)))
    /\ t \in Whole \/ stages # <<>>
    /\ op \in Changes => stages # <<>> /\ stages[Len(stages)] = Listing(t)
    /\ op = "create" => Len(stages) > 1 /\ stages[1] # <<>> /\ Makes(stages[1][1], t)

\* What a call may start with.
Begins(op, t, stages) ==
    \/ Plan(op, t, stages)
    \/ op = "statement" /\ t = <<>> /\ \E r \in Statements : stages = <<One(r)>>

--------------------------------------------------------------------------------
(* What every call and every request in flight keep to.                         *)

OwnIn(s, c) == {i \in 1..Len(s) : s[i].who = c}
Own(c) == OwnIn(flight[dbOf[c]], c)

Finding == {"create", "update", "get"}

Counted(c) ==
    /\ call[c].sent = Cardinality(Own(c))
    /\ call[c].outcome # "pending" => call[c].sent = 0 /\ call[c].todo = <<>>
    /\ call[c].outcome = "pending" => call[c].op # "none"
    /\ call[c].outcome = "pending" /\ call[c].op = "statement" => call[c].sent = 1 /\ call[c].todo = <<>>
    /\ call[c].outcome = "pending" /\ call[c].of \in Parts => instance[c] # <<>>
    /\ call[c].outcome = "found" /\ call[c].of \in Whole /\ call[c].of[1] = "class"
          /\ call[c].op \in Finding => instance[c] # <<>>

Traced(d) == \A i \in 1..Len(flight[d]) :
    flight[d][i].who # Nobody => /\ dbOf[flight[d][i].who] = d
                                 /\ flight[d][i].what \in AskedBy(call[flight[d][i].who].op)

SchemaInv == /\ SchemaType
             /\ \A c \in Callers : Counted(c)
             /\ \A d \in Dbs : Traced(d)

--------------------------------------------------------------------------------
(* What is applied, and what is left.                                           *)

UpTo(n) == \A k \in Known : k < n => ups[k] > 0
Shown(found) == found \in [Known -> Nat] /\ \A k \in Known : found[k] > 0 => ups[k] > 0
Ordered(left) ==
    /\ \A i, j \in 1..Len(left) : i < j => left[i] <= left[j]
    /\ \A k \in Known : \/ ups[k] > 0
                        \/ \E i \in 1..Len(left) : left[i] = k
                        \/ \A i \in 1..Len(left) : left[i] < k

--------------------------------------------------------------------------------
(* What a manager has asked for.                                                *)

\* A migration is asked for when all before it have been applied, recorded when it
\* has been; a record tells that it has.
EntryOK(e) ==
    /\ e.what.op = "up" => UpTo(e.what.of[1]) /\ (Answered(e) => ups[e.what.of[1]] > 0)
    /\ e.what.op = "record" => ups[e.what.of[1]] > 0
    /\ e.what.op = "select" /\ Answered(e) => Shown(e.reply[2])

Asks(m, r) == call[m].op = "statement" /\ \A i \in Own(m) : flight[dbOf[m]][i].what = r

Reached(m, steps) == Working(m) /\ manager[m].step \in steps
Applying(m, steps) == manager[m].doing = "up" /\ Reached(m, steps)

CreatesClass(m) == /\ call[m].op = "create" /\ call[m].of = MigrationClass
                   /\ call[m].outcome # "done"
Fits(m) == LET left == manager[m].left IN
    /\ Reached(m, {"create to list", "create"}) => CreatesClass(m)
    /\ Reached(m, {"run", "class again", "find", "record"}) => left # <<>>
    /\ Reached(m, {"select"}) => /\ Asks(m, StatementOf("select", 0))
                                 /\ Went(m) => Shown(call[m].got)
    /\ Applying(m, {"next", "run", "class again", "record"}) => Ordered(left)
    /\ Applying(m, {"run"}) => /\ Asks(m, StatementOf("up", Head(left)))
                               /\ Went(m) => ups[Head(left)] > 0
    /\ Applying(m, {"class again", "record"}) => ups[Head(left)] > 0

MigrationsInv ==
    /\ SchemaInv /\ MigrationType
    /\ role # "managers" => \A m \in Callers : ~Working(m)
    /\ \A m \in Callers : Fits(m)
    /\ \A d \in Dbs : \A i \in 1..Len(flight[d]) : EntryOK(flight[d][i])
    /\ \A k \in Known : records[k] > 0 => ups[k] > 0

--------------------------------------------------------------------------------
(* A cache over one connection: what the server has done, in order.             *)

Change == [removed : SUBSET Named, added : SUBSET Named]

\* What there is after each of the changes s.
History(s) ==
    LET f[v \in 0..Len(s)] == IF v = 0 THEN {} ELSE (f[v - 1] \ s[v].removed) \cup s[v].added
    IN  f

\* What comes after changes nothing of what was there before.
Grew(s, t) ==
    /\ Len(s) <= Len(t)
    /\ \A v \in 1..Len(s) : t[v] = s[v]
    /\ \A v \in 0..Len(s) : History(t)[v] = History(s)[v]

\* With a class go its properties.
Thorough(s) == \A v \in 1..Len(s) : \A n \in Names, p \in Props :
    Thing("class", n) \in s[v].removed => Property(n, p) \in s[v].removed

\* After v changes t is there, and a property in its class.
Shows(s, t, v) ==
    /\ v \in 1..Len(s) /\ t \in History(s)[v]
    /\ t \in Parts => ClassOf(t) \in History(s)[v]

--------------------------------------------------------------------------------
(* The requests of one connection, and the lists cached of it.                  *)

Ok(e) == e.what \in SchemaRequests /\ Answered(e)
Caches == [Kinds -> Nat \cup {Never}]

\* They are served in order, ...
OneByOne(f) == \A i, j \in 1..Len(f) : i < j /\ f[j].reply # <<>> => f[i].reply # <<>>

\* ... so that of two answers the later tells of a later version, ...
Rising(f) == \A i, j \in 1..Len(f) : i < j /\ Ok(f[i]) /\ Ok(f[j]) => f[i].reply[2] <= f[j].reply[2]

\* ... and each of one that is not before what is cached already.
Dated(s, ca, e) == Ok(e) =>
    /\ e.reply[2] <= Len(s)
    /\ \A k \in Kinds : ca[k] <= e.reply[2]
    /\ \A t \in Named : Makes(e.what, t) => Shows(s, t, e.reply[2])
    /\ e.what.op \in Changing => e.reply[2] > 0

Line(s, ca, f) ==
    /\ OneByOne(f) /\ Rising(f)
    /\ \A i \in 1..Len(f) : Dated(s, ca, f[i])
    /\ \A k \in Kinds : ca[k] <= Len(s)

\* What the server answers to a request r about a schema of s changes.
Truth(s, r, reply) ==
    r \in SchemaRequests /\ reply # Refused =>
        /\ reply = <<"ok", Len(s)>>
        /\ \A t \in Named : Makes(r, t) => Shows(s, t, Len(s))
        /\ r.op \in Changing => Len(s) > 0

--------------------------------------------------------------------------------
(* A call that changes the schema, and the list it waits for.                   *)

\* What it has made is there, ...
Made(s, k) ==
    /\ k.op \notin Changes => k.made = 0
    /\ k.made <= Len(s)
    /\ k.op = "create" /\ k.made > 0 => Shows(s, k.of, k.made)

\* ... before the list there is the creation, and the list comes last, ...
Waits(c, k, f) ==
    k.op \in Changes /\ k.outcome = "pending" =>
        /\ k.todo # <<>> => k.todo[Len(k.todo)] = Listing(k.of)
        /\ k.todo = <<>> => \A i \in OwnIn(f, c) :
              f[i].what = List(ListOf(k.of)) /\ (Ok(f[i]) => f[i].reply[2] >= k.made)
        /\ k.op = "create" /\ k.made = 0 =>
              /\ k.todo # <<>>
              /\ \E i \in OwnIn(f, c) : Makes(f[i].what, k.of) /\ \A j \in OwnIn(f, c) : i <= j

\* ... and then what is cached is as new as that.
Knows(s, ca, c, k, f) ==
    /\ k.made > 0 /\ k.todo = <<>> /\ k.outcome # "failed" /\ OwnIn(f, c) = {} =>
          ca[ListOf(k.of)] >= k.made
    /\ k.op = "create" /\ k.outcome \in {"missing", "gone"} =>
          \E v \in (k.made + 1)..Len(s) : k.of \in s[v].removed

Awaits(s, ca, c, k, f) == Made(s, k) /\ Waits(c, k, f) /\ Knows(s, ca, c, k, f)

Legacy ==
    /\ role # "managers" /\ Thorough(changes)
    /\ \A d \in Dbs : Line(changes, cached[d], flight[d])
    /\ \A c \in Callers : Awaits(changes, cached[dbOf[c]], c, call[c], flight[dbOf[c]])

LegacyInv == api = "legacy" => Legacy

--------------------------------------------------------------------------------
(* What is recorded, and what is applied.                                       *)

\* The steps whose request is a statement, and those at which the class is there.
ByStatement == {"select", "run", "find", "record"}
Inside == ByStatement \cup {"next", "class again"}

\* What a manager has asked for.
AskedFor(y) ==
    LET n == Head(y.left) IN
    IF y.step = "select" THEN StatementOf("select", 0)
    ELSE IF y.step = "run" THEN StatementOf(IF y.doing = "up" THEN "up" ELSE "down", n)
    ELSE IF y.step = "find" THEN StatementOf("select", n)
    ELSE StatementOf(IF y.doing = "up" THEN "record" ELSE "erase", n)

\* What a statement has come to: <<>> until it is served, then its answer, on its
\* way or received, or Refused, also when it was lost.
WordIn(k, s, c) == IF k.outcome = "pending" THEN s[CHOOSE i \in OwnIn(s, c) : TRUE].reply
                   ELSE IF k.outcome = "done" THEN <<"ok", k.got>>
                   ELSE Refused
Word(c) == WordIn(call[c], flight[dbOf[c]], c)

\* Without managers nothing is applied.
Programs ==
    /\ \A d \in Dbs : \A i \in 1..Len(flight[d]) : flight[d][i].what \in SchemaRequests
    /\ \A n \in Known : ups[n] = 0 /\ downs[n] = 0 /\ records[n] = 0
    /\ \A m \in Callers : ~manager[m].done

\* A list is asked for alone, ...
Solo(s) == (\E j \in 1..Len(s) : s[j].op = "list") => Len(s) = 1
Alone(c) ==
    /\ \A i \in 1..Len(call[c].todo) : Solo(call[c].todo[i])
    /\ (\E i \in Own(c) : flight[dbOf[c]][i].what.op = "list") => call[c].sent = 1

\* ... so that none is left over when a call fails.
Passed(e) == e.who = Nobody => e.what \in SchemaRequests /\ e.what.op # "list"
DatedBy(v, e) == Ok(e) => e.reply[2] <= v
Tidy ==
    /\ api = "client" /\ \A a, b \in Callers : dbOf[a] = dbOf[b] => a = b
    /\ \A d \in Dbs : /\ opened[d]
                      /\ \A k \in Kinds : cached[d][k] <= Len(changes)
                      /\ \A i \in 1..Len(flight[d]) : DatedBy(Len(changes), flight[d][i]) /\ Passed(flight[d][i])
    /\ \A c \in Callers : Alone(c)

\* A manager that has found its class keeps it, and its statements are answered.
Steady(m) ==
    /\ call[m].outcome = "pending" /\ call[m].op = "statement" => Reached(m, ByStatement)
    /\ Reached(m, {"class", "class again"}) =>
          /\ call[m].op = "get" /\ call[m].of = MigrationClass
          /\ call[m].outcome \in {"pending", "found", "missing", "failed"}
          /\ call[m].outcome = "found" => Finds(m, MigrationClass)
    /\ Reached(m, {"class again"}) => call[m].outcome = "found"
    /\ Reached(m, {"next"}) => call[m].outcome = "done"
    /\ Reached(m, ByStatement) => /\ Asks(m, AskedFor(manager[m]))
                                  /\ call[m].outcome \in {"pending", "done", "failed"}
    /\ Reached(m, Inside) => Finds(m, MigrationClass)

\* A migration has run, and its record has yet to follow: what a manager y whose
\* statement has come to w owes the records of n.
Ran(y, w) ==
    /\ y.doing # "nothing"
    /\ \/ y.step = "run" /\ w # <<>> /\ w # Refused
       \/ y.step = "class again"
       \/ y.step = "find" /\ w # Refused
       \/ y.step = "record" /\ w = <<>>
Due(y, w, n) == IF ~Ran(y, w) \/ Head(y.left) # n THEN 0 ELSE IF y.doing = "up" THEN 1 ELSE 0 - 1

\* By how much the records are off, when what will follow is counted.
Size(x) == IF x < 0 THEN 0 - x ELSE x
Gaps(r, u, d, y, w) == [n \in Known |-> Size((r[n] - (u[n] - d[n])) + Due(y, w, n))]
Off(y, w) == Gaps(records, ups, downs, y, w)
Total(w) ==
    LET names == Ascending(Known)
        sum[i \in 0..Len(names)] == IF i = 0 THEN 0 ELSE sum[i - 1] + w[names[i]]
    IN  sum[Len(names)]

\* There is a record for each migration that is to be reverted, and none has to be
\* made for one that is not left.
Enough(found, left) ==
    \A i, j \in 1..Len(left) : i <= j /\ left[i] = left[j] => j - i < found[left[i]]
Covers(found, left) == \A n \in Known : found[n] > 0 \/ \E i \in 1..Len(left) : left[i] = n

Reverting(found, y, w) ==
    /\ y.step \in {"next", "run", "class again", "find"} => Enough(found, y.left)
    /\ y.step = "record" /\ w = <<>> => Enough(found, y.left)
    /\ y.step = "record" /\ w # <<>> /\ w # Refused => Enough(found, Tail(y.left))
Covering(found, y, w) ==
    /\ y.step \in {"next", "run", "class again", "record"} => Covers(found, y.left)
    /\ y.step = "record" /\ w # <<>> /\ w # Refused => found[Head(y.left)] > 0
Careful(found, y, w) ==
    /\ y.step \in {"select", "find"} => w \in {<<>>, Refused, <<"ok", found>>}
    /\ y.step = "find" => y.doing = "down"
    /\ y.doing = "down" => Reverting(found, y, w)
    /\ y.doing = "up" /\ y.limit = 0 => Covering(found, y, w)

Calm ==
    /\ \A a, b \in Callers : Working(a) /\ Working(b) => a = b
    /\ \A m \in Callers : Working(m) => /\ Careful(records, manager[m], Word(m))
                                        /\ Total(Off(manager[m], Word(m))) <= losses
    /\ (\A m \in Callers : ~Working(m)) => Total(Off(Resting, <<>>)) <= losses
    /\ \A m \in Callers : manager[m].done => /\ \A x \in Callers : ~Working(x)
                                             /\ \A n \in Known : records[n] > 0

Managed == Tidy /\ (\A m \in Callers : Steady(m)) /\ (~overlapped => Calm)
RecordsInv == MigrationsInv /\ (IF role = "managers" THEN Managed ELSE Programs)
=============================================================================
