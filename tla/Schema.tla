------------------------------- MODULE Schema -------------------------------
(***************************************************************************)
(* What a database object knows of the schema: the lists of classes,       *)
(* indices, sequences and clusters that it caches, and the calls that      *)
(* change the database and list it anew (client/database/class,            *)
(* client/database/idx, db/sequence, db/cluster.js).                       *)
(*                                                                         *)
(* A call is a few stages, each of them the requests it sends together;    *)
(* the next stage starts once all are answered.  The database is the       *)
(* sequence of its changes; a list of version v is what was there after    *)
(* the first v of them.                                                    *)
(***************************************************************************)
EXTENDS Integers, Sequences, SequencesExt

CONSTANTS
    Dbs,           \* database objects
    Callers,       \* parts of a program, each with a call under way at most
    Names,         \* of classes, indices, sequences and clusters
    Props,         \* names of properties
    MaxCalls,      \* bound: calls made altogether
    MaxLosses      \* bound: times a connection is lost

VARIABLES
    api,           \* "legacy": one connection; "client": a pool of them
    dbOf,          \* which database object a caller uses
    changes,       \* what happened to the schema, in order
    cached,        \* the version of each list that is cached, Never for none
    call,          \* of each caller: its call, or its last one
    flight,        \* per database object: requests sent and not yet answered
    instance,      \* the class a caller holds: its name and version
    opened,        \* the legacy database has a session
    calls, losses  \* counted for the bounds

schemaVars == <<api, dbOf, changes, cached, call, flight, instance, opened, calls, losses>>

Never == 0 - 1
Nobody == "nobody"
Kinds == {"class", "index", "sequence", "cluster"}

ASSUME SchemaAssumption ==
    /\ Names # {} /\ Props # {} /\ IsFiniteSet(Props)
    /\ Nobody \notin Callers

\* What a schema consists of: <<"class", name, "">>, <<"property", name, p>>...
Thing(k, n) == <<k, n, "">>
Property(n, p) == <<"property", n, p>>
ListOf(t) == IF t[1] = "property" THEN "class" ELSE t[1]
ClassOf(t) == Thing("class", t[2])
PartsOf(t) == IF t[1] = "class" THEN {t} \cup {Property(t[2], p) : p \in Props} ELSE {t}

Contents ==
    LET f[v \in 0..Len(changes)] ==
          IF v = 0 THEN {} ELSE (f[v - 1] \ changes[v].removed) \cup changes[v].added
    IN  f
Now == Contents[Len(changes)]

Added(things) == [removed |-> {}, added |-> things]

Request(op, t, to) == [op |-> op, of |-> t, to |-> to]
Create(t) == Request("create", t, t)
Drop(t) == Request("drop", t, t)
Alter(t) == Request("alter", t, t)
Rename(t, to) == Request("rename", t, to)
List(k) == Request("list", Thing(k, ""), Thing(k, ""))

NoCall == [op |-> "none", of |-> <<>>, todo |-> <<>>, sent |-> 0, made |-> 0,
           got |-> <<>>, outcome |-> "none"]

\* A class may be there before the program starts, and everybody may have it
\* already; db-open of the legacy database caches the clusters, that of the
\* client does not.
SchemaInit ==
    /\ api \in {"legacy", "client"}
    /\ dbOf \in [Callers -> Dbs] /\ dbOf[CHOOSE c \in Callers : TRUE] = CHOOSE d \in Dbs : TRUE
    /\ changes \in {<<>>, <<Added({Thing("class", n) : n \in Names})>>}
    /\ \E held \in IF changes = <<>> THEN {Never} ELSE {Never, Len(changes)} :
        /\ cached = [d \in Dbs |-> [k \in Kinds |->
                        IF k = "class" THEN held
                        ELSE IF k = "cluster" /\ api = "legacy" THEN Len(changes) ELSE Never]]
        /\ instance \in {f \in [Callers -> {<<>>} \cup (Names \X {held})] :
                           \A c \in Callers : f[c] = <<>> <=> held = Never}
    /\ call = [c \in Callers |-> NoCall]
    /\ flight = [d \in Dbs |-> <<>>]
    /\ opened = [d \in Dbs |-> TRUE]
    /\ calls = 0 /\ losses = 0

HasCached(c, k) == cached[dbOf[c]][k] # Never
Finds(c, t) == HasCached(c, ListOf(t)) /\ t \in Contents[cached[dbOf[c]][ListOf(t)]]

-----------------------------------------------------------------------------
(* The stages of every call *)

One(r) == <<r>>

ClassList(c, refresh) == IF ~refresh /\ HasCached(c, "class") THEN <<>> ELSE <<One(List("class"))>>
ClassGet(c, refresh) == IF ~refresh /\ HasCached(c, "class") THEN <<>> ELSE ClassList(c, TRUE)
ClassCreate(c, t) == <<One(Create(t)), One(List("cluster"))>> \o ClassList(c, TRUE)
ClassUpdate(c, t) == <<One(Alter(t))>> \o ClassGet(c, TRUE)
ClassDrop(c, t) == <<One(Drop(t))>> \o ClassList(c, TRUE)
ClassReload(c) == ClassGet(c, TRUE)

\* Records of a class are read by a query that names it, and created, of an
\* array all at once.
Use(t) == Request("use", t, t)
ClassRecords(t) == <<One(Use(t))>>
ClassInsert(t) == <<(<<Use(t), Use(t)>>)>>

\* CREATE PROPERTY is followed by an update, with nothing to alter or with a
\* setting; of an array all are created and one reload follows.  Statements that
\* are sent together are two here: creations, and ALTERs of custom fields.
PropertyUpdate(c, t, reload) ==
    <<One(Alter(t))>> \o (IF reload THEN ClassReload(c) ELSE <<>>)
PropertyCreate(c, t) == <<One(Create(t))>> \o ClassReload(c)
PropertyCreateSet(c, t) == <<One(Create(t))>> \o PropertyUpdate(c, t, TRUE)
PropertyCreateAll(c, ts) == <<[i \in 1..Len(ts) |-> Create(ts[i])]>> \o ClassReload(c)
PropertyDrop(c, t) == <<One(Drop(t))>> \o ClassReload(c)
PropertyAlter(c, t) == <<One(Alter(t))>> \o ClassReload(c)
PropertyRename(c, t, to) == <<One(Rename(t, to))>> \o ClassReload(c)
PropertyReload(c) == ClassReload(c)
CustomSet(c, t) == <<(<<Alter(t), Alter(t)>>)>> \o ClassReload(c)
CustomUnset(c, t) == <<One(Alter(t))>> \o ClassReload(c)

IndexList(c, refresh) == IF ~refresh /\ HasCached(c, "index") THEN <<>> ELSE <<One(List("index"))>>
IndexGet(c, refresh) == IF ~refresh /\ HasCached(c, "index") THEN <<>> ELSE IndexList(c, TRUE)
IndexCreate(c, t) == <<One(Create(t))>> \o IndexList(c, TRUE)

\* A mutant: the cache keeps what was dropped.
IndexDropOnly(c, t) == <<One(Drop(t))>>

IndexDrop(c, t) == <<One(Drop(t))>> \o IndexList(c, TRUE)
IndexAdd(t) == <<(<<Use(t), Use(t)>>)>>
IndexStatement(t) == <<One(Use(t))>>

SequenceList(c, refresh) ==
    IF ~refresh /\ HasCached(c, "sequence") THEN <<>> ELSE <<One(List("sequence"))>>
SequenceGet(c, refresh) ==
    IF ~refresh /\ HasCached(c, "sequence") THEN <<>> ELSE SequenceList(c, TRUE)
SequenceCreate(c, t) == <<One(Create(t))>> \o SequenceList(c, TRUE)
SequenceUpdate(c, t) == <<One(Alter(t))>> \o SequenceGet(c, TRUE)
SequenceDrop(c, t) == <<One(Drop(t))>> \o SequenceList(c, TRUE)

\* Without a sessionId, which the client never sets, the list is not loaded:
\* the database is opened, if it has no session.
ClusterList(c, refresh) ==
    IF (~refresh /\ HasCached(c, "cluster")) \/ api = "client" THEN <<>> ELSE <<One(List("cluster"))>>
ClusterGet(c, refresh) ==
    IF ~refresh /\ HasCached(c, "cluster") THEN <<>> ELSE ClusterList(c, refresh)
ClusterCreate(t) == <<One(Create(t)), One(List("cluster"))>>
ClusterDrop(c, t) == ClusterGet(c, FALSE) \o <<One(Drop(t)), One(List("cluster"))>>
ClusterCount(c, t) == ClusterGet(c, FALSE) \o <<One(Use(t))>>

-----------------------------------------------------------------------------
(* A call, stage by stage *)

Tagged(c, rs) == [i \in 1..Len(rs) |-> [who |-> c, what |-> rs[i], reply |-> <<>>]]

\* A lost session of the legacy database is opened before anything is sent,
\* and that caches the clusters.
Reopening(c) ==
    IF opened[dbOf[c]] THEN <<>> ELSE Tagged(Nobody, One(List("cluster")))

Sends(c, k) ==
    IF k.todo = <<>>
    THEN /\ call' = [call EXCEPT ![c] = k]
         /\ UNCHANGED <<flight, opened>>
    ELSE /\ call' = [call EXCEPT ![c] = [k EXCEPT !.todo = Tail(k.todo), !.sent = Len(Head(k.todo))]]
         /\ flight' = [flight EXCEPT ![dbOf[c]] = @ \o Reopening(c) \o Tagged(c, Head(k.todo))]
         /\ opened' = [opened EXCEPT ![dbOf[c]] = TRUE]

Settled(c, k, outcome) == call' = [call EXCEPT ![c] = [k EXCEPT !.outcome = outcome, !.todo = <<>>]]

\* reload() configures the object that callers of one database object may share.
Reconfigured(c, v) ==
    instance' = [x \in Callers |->
        IF dbOf[x] = dbOf[c] /\ instance[x] = instance[c] THEN <<instance[c][1], v>> ELSE instance[x]]

\* The end of a call k about a class, index, sequence or cluster.
FinishThing(c, k) ==
    LET v == cached[dbOf[c]][k.of[1]] IN
    IF k.of[1] = "cluster" /\ v = Never THEN Settled(c, k, "failed") /\ UNCHANGED instance
    ELSE IF k.op \notin {"create", "update", "get"} THEN Settled(c, k, "done") /\ UNCHANGED instance
    ELSE /\ Settled(c, k, IF Finds(c, k.of) THEN "found" ELSE "missing")
         /\ instance' = IF k.of[1] = "class" /\ Finds(c, k.of)
                        THEN [instance EXCEPT ![c] = <<k.of[2], v>>] ELSE instance

\* The end of a call about a property: the class is configured from the list.
FinishProperty(c, k) ==
    LET v == cached[dbOf[c]]["class"] IN
    IF ~Finds(c, ClassOf(k.of)) THEN Settled(c, k, "gone") /\ UNCHANGED instance
    ELSE /\ Reconfigured(c, v)
         /\ Settled(c, k, IF k.op \in {"drop", "alter"} THEN "done"
                          ELSE IF k.of \in Contents[v] THEN "found"
                          ELSE IF k.op = "reload" THEN "failed" ELSE "missing")

\* What is cached is there at once.
Start(c, op, t, stages) ==
    LET k == [NoCall EXCEPT !.op = op, !.of = t, !.todo = stages, !.outcome = "pending"] IN
    /\ call[c].outcome # "pending"
    /\ IF stages = <<>> /\ HasCached(c, t[1]) THEN FinishThing(c, k) /\ UNCHANGED <<flight, opened>>
       ELSE Sends(c, k) /\ UNCHANGED instance
    /\ UNCHANGED <<api, dbOf, changes, cached, losses>>

Call(c, op, t, stages) ==
    /\ calls < MaxCalls /\ calls' = calls + 1
    /\ Start(c, op, t, stages)

CallClass(c) == \E n \in Names : LET t == Thing("class", n) IN
    \/ Call(c, "create", t, ClassCreate(c, t))
    \/ Call(c, "update", t, ClassUpdate(c, t))
    \/ Call(c, "drop", t, ClassDrop(c, t))
    \/ Call(c, "use", t, ClassRecords(t))
    \/ Call(c, "use", t, ClassInsert(t))
    \/ \E refresh \in BOOLEAN :
        \/ Call(c, "get", t, ClassGet(c, refresh))
        \/ Call(c, "list", t, ClassList(c, refresh))

CallIndex(c) == \E n \in Names : LET t == Thing("index", n) IN
    \/ Call(c, "create", t, IndexCreate(c, t))
    \/ Call(c, "drop", t, IndexDrop(c, t))
    \/ Call(c, "use", t, IndexAdd(t))
    \/ Call(c, "use", t, IndexStatement(t))
    \/ \E refresh \in BOOLEAN :
        \/ Call(c, "get", t, IndexGet(c, refresh))
        \/ Call(c, "list", t, IndexList(c, refresh))

CallSequence(c) == \E n \in Names : LET t == Thing("sequence", n) IN
    \/ Call(c, "create", t, SequenceCreate(c, t))
    \/ Call(c, "update", t, SequenceUpdate(c, t))
    \/ Call(c, "drop", t, SequenceDrop(c, t))
    \/ \E refresh \in BOOLEAN :
        \/ Call(c, "get", t, SequenceGet(c, refresh))
        \/ Call(c, "list", t, SequenceList(c, refresh))

CallCluster(c) == \E n \in Names : LET t == Thing("cluster", n) IN
    \/ Call(c, "create", t, ClusterCreate(t))
    \/ Call(c, "drop", t, ClusterDrop(c, t))
    \/ Call(c, "count", t, ClusterCount(c, t))
    \/ \E refresh \in BOOLEAN :
        \/ Call(c, "get", t, ClusterGet(c, refresh))
        \/ Call(c, "list", t, ClusterList(c, refresh))

\* Calls on the class that the caller holds.
CallProperty(c) ==
    /\ instance[c] # <<>>
    /\ LET n == instance[c][1] IN \E p \in Props : LET t == Property(n, p) IN
        \/ Call(c, "create", t, PropertyCreate(c, t))
        \/ Call(c, "create", t, PropertyCreateSet(c, t))
        \/ Call(c, "update", t, PropertyUpdate(c, t, TRUE))
        \/ Call(c, "drop", t, PropertyDrop(c, t))
        \/ Call(c, "alter", t, PropertyAlter(c, t))
        \/ Call(c, "reload", t, PropertyReload(c))
        \/ Call(c, "alter", t, CustomSet(c, t))
        \/ Call(c, "alter", t, CustomUnset(c, t))
        \/ \E q \in Props \ {p} :
            \/ Call(c, "create", Property(n, q), PropertyRename(c, t, Property(n, q)))
            \/ Call(c, "create", t, PropertyCreateAll(c, <<t, Property(n, q)>>))

\* The cluster to drop or to count is looked up first.
Unknown(c) ==
    /\ call[c].of[1] = "cluster"
    /\ call[c].todo # <<>> /\ Head(call[c].todo)[1].op \in {"drop", "use"}
    /\ ~Finds(c, call[c].of)

Continue(c) ==
    /\ call[c].outcome = "pending" /\ call[c].sent = 0
    /\ IF Unknown(c) THEN Settled(c, call[c], "failed") /\ UNCHANGED <<flight, opened, instance>>
       ELSE IF call[c].todo # <<>> THEN Sends(c, call[c]) /\ UNCHANGED instance
       ELSE /\ UNCHANGED <<flight, opened>>
            /\ IF call[c].of[1] = "property" THEN FinishProperty(c, call[c])
               ELSE FinishThing(c, call[c])
    /\ UNCHANGED <<api, dbOf, changes, cached, calls, losses>>

-----------------------------------------------------------------------------
(* The server, and what comes back *)

Possible(r) ==
    /\ r.op \in {"drop", "alter", "rename", "use"} => r.of \in Now
    /\ r.op \in {"create", "rename"} => r.to \notin Now
    /\ r.of[1] = "property" => ClassOf(r.of) \in Now

\* One connection serves its requests in order.
Served(d, i, reply) ==
    /\ i \in 1..Len(flight[d]) /\ flight[d][i].reply = <<>>
    /\ api = "legacy" => \A j \in 1..(i - 1) : flight[d][j].reply # <<>>
    /\ flight' = [flight EXCEPT ![d][i].reply = reply]

SchemaOps == {"create", "drop", "alter", "rename", "use", "list"}

Serve(d, i) ==
    /\ i \in 1..Len(flight[d])
    /\ LET r == flight[d][i].what IN
        /\ r.op \in SchemaOps
        /\ IF ~Possible(r) THEN Served(d, i, <<"error">>) /\ UNCHANGED changes
           ELSE IF r.op \in {"create", "drop", "rename"}
           THEN /\ changes' = Append(changes,
                     [removed |-> IF r.op = "create" THEN {} ELSE PartsOf(r.of),
                      added |-> IF r.op = "drop" THEN {} ELSE {r.to}])
                /\ Served(d, i, <<"ok", Len(changes) + 1>>)
           ELSE Served(d, i, <<"ok", Len(changes)>>) /\ UNCHANGED changes
    /\ UNCHANGED <<api, dbOf, cached, call, instance, opened, calls, losses>>

\* Nobody waits any more for what else a rejected caller has sent.
Disowned(requests, who) ==
    [i \in 1..Len(requests) |->
        IF requests[i].who \in who THEN [requests[i] EXCEPT !.who = Nobody] ELSE requests[i]]

\* What a call k makes of an answer, and of an error.
Heard(k, e) ==
    [k EXCEPT !.sent = @ - 1,
              !.made = IF e.what.op \in {"create", "drop", "rename"} /\ @ = 0 THEN e.reply[2] ELSE @,
              !.got = IF e.what.op \in SchemaOps THEN @ ELSE e.reply[2],
              !.outcome = IF e.what.op \in SchemaOps THEN @ ELSE "done"]
Failed(k) == [k EXCEPT !.outcome = "failed", !.todo = <<>>, !.sent = 0]

Reply(d, i) ==
    /\ i \in 1..Len(flight[d]) /\ flight[d][i].reply # <<>>
    /\ api = "legacy" => i = 1
    /\ LET e == flight[d][i]
           rest == RemoveAt(flight[d], i)
           failed == e.reply = <<"error">>
       IN  /\ flight' = [flight EXCEPT ![d] = IF failed THEN Disowned(rest, {e.who}) ELSE rest]
           /\ cached' = IF failed \/ e.what.op # "list" THEN cached
                        ELSE [cached EXCEPT ![d][e.what.of[1]] = e.reply[2]]
           /\ IF e.who = Nobody THEN UNCHANGED call
              ELSE call' = [call EXCEPT ![e.who] =
                               IF failed THEN Failed(call[e.who]) ELSE Heard(call[e.who], e)]
    /\ UNCHANGED <<api, dbOf, changes, instance, opened, calls, losses>>

\* A mutant: nobody is told.
LoseUnheard(d) ==
    /\ losses < MaxLosses /\ losses' = losses + 1
    /\ flight[d] # <<>> /\ flight' = [flight EXCEPT ![d] = <<>>]
    /\ opened' = [opened EXCEPT ![d] = api = "client"]
    /\ UNCHANGED <<api, dbOf, changes, cached, call, instance, calls>>

\* The calls of those who waited for what is lost are rejected.
Cut(who) == call' = [c \in Callers |-> IF c \in who THEN Failed(call[c]) ELSE call[c]]

\* A connection is lost, and with it the requests on it; of a pool, one.
Lose(d) ==
    /\ losses < MaxLosses /\ losses' = losses + 1
    /\ \/ /\ api = "legacy"
          /\ flight' = [flight EXCEPT ![d] = <<>>]
          /\ Cut({flight[d][i].who : i \in 1..Len(flight[d])})
       \/ /\ api = "client"
          /\ \E i \in 1..Len(flight[d]) : LET who == {flight[d][i].who} \ {Nobody} IN
                /\ flight' = [flight EXCEPT ![d] = Disowned(RemoveAt(flight[d], i), who)]
                /\ Cut(who)
    /\ opened' = [opened EXCEPT ![d] = api = "client"]
    /\ UNCHANGED <<api, dbOf, changes, cached, instance, calls>>

-----------------------------------------------------------------------------
SchemaNext ==
    \/ \E d \in Dbs : \/ \E i \in 1..Len(flight[d]) : Serve(d, i) \/ Reply(d, i)
                     \/ Lose(d)
    \/ \E c \in Callers : Continue(c)

\* The calls about one kind of thing do not depend on those about another.
CallNext(k) == \E c \in Callers :
    \/ k = "class" /\ (CallClass(c) \/ CallProperty(c))
    \/ k = "index" /\ CallIndex(c)
    \/ k = "sequence" /\ CallSequence(c)
    \/ k = "cluster" /\ CallCluster(c)

(***************************************************************************)
(* Properties                                                              *)
(***************************************************************************)

\* On the legacy database a cache never falls behind what its own calls have
\* done: whatever lists were on their way, when a create, drop or rename has
\* been answered the list that is cached shows it, then and for ever, and what a
\* create() has made it also finds, unless somebody has removed it since: the
\* class, index, sequence or cluster in the list, the property in the class that
\* was configured anew.  (Over a pool of connections a list that was asked for
\* earlier may arrive later.)
OwnChangesStay ==
    api = "legacy" => \A c \in Callers :
        /\ call[c].made > 0 /\ call[c].outcome \in {"found", "missing", "gone", "done"} =>
              cached[dbOf[c]][ListOf(call[c].of)] >= call[c].made
        /\ call[c].op = "create" /\ call[c].outcome \in {"missing", "gone"} =>
              \E v \in (call[c].made + 1)..Len(changes) : call[c].of \in changes[v].removed
=============================================================================
