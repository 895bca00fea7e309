----------------------------- MODULE Migrations -----------------------------
(***************************************************************************)
(* The migration managers (client/migration/manager.js and its legacy twin *)
(* migration/manager.js) on top of Schema: what is applied is recorded in  *)
(* a class of the database that the manager creates when it cannot find it.*)
(* To run a migration and to record it are two requests.  A program makes  *)
(* calls of Schema, about one kind of thing, or runs managers: role says   *)
(* which.                                                                  *)
(***************************************************************************)
EXTENDS Schema, FiniteSets

CONSTANTS
    Directory,     \* the migrations, numbered by name, as the directory lists them
    MaxRuns        \* bound: up() and down() called altogether

ASSUME DirectoryAssumption == Directory \in Seq(Nat \ {0})

VARIABLES
    role,          \* a kind of thing, or "managers"
    manager,       \* of each manager what it does, its step and what is left
    ups, downs,    \* how often a migration has been applied, and reverted
    records,       \* how many records there are of it
    runs, overlapped  \* runs begun; were there ever two at once

migrationVars == <<role, manager, ups, downs, records, runs, overlapped>>
vars == <<schemaVars, migrationVars>>

Known == ToSet(Directory)
ClassName == CHOOSE n \in Names : TRUE
MigrationClass == Thing("class", ClassName)
Fields == SetToSeq({Property(ClassName, p) : p \in Props})

\* Every manager has a database object of its own, as client.migrator() and the
\* command line make it; alone on it, it meets over a pool of connections all
\* that it meets over one.  One is doing "up" or "down" of at most limit
\* (0: all); step is what it has asked for last, left the migrations still to do;
\* done tells that up() without a limit was the last run and has resolved.
Resting == [doing |-> "nothing", limit |-> 0, step |-> "none", left |-> <<>>, done |-> FALSE]

Init ==
    /\ SchemaInit
    /\ role \in Kinds \cup {"managers"}
    /\ role \notin {"class", "managers"} => changes = <<>>
    /\ role # "class" => \A c \in Callers : instance[c] = <<>>
    /\ role = "managers" => api = "client" /\ \A a, b \in Callers : dbOf[a] = dbOf[b] => a = b
    /\ manager = [m \in Callers |-> Resting]
    /\ ups = [n \in Known |-> 0] /\ downs = [n \in Known |-> 0]
    /\ records = [n \in Known |-> 0]
    /\ runs = 0 /\ overlapped = FALSE

Working(m) == manager[m].doing # "nothing"

-----------------------------------------------------------------------------
(* What a manager asks for *)

Step(m, step, op, t, stages) ==
    /\ Start(m, op, t, stages)
    /\ manager' = [manager EXCEPT ![m].step = step]
    /\ UNCHANGED <<calls, role, ups, downs, records, runs, overlapped>>

Statement(m, step, op, n) == Step(m, step, "statement", <<>>, <<One(Request(op, <<n>>, <<n>>))>>)
GetsClass(m, step) == Step(m, step, "get", MigrationClass, ClassGet(m, FALSE))

After(m, step) == Working(m) /\ manager[m].step = step /\ call[m].outcome # "pending"
Went(m) == call[m].outcome \in {"found", "done"}

Rests(m, done) ==
    /\ manager' = [manager EXCEPT ![m] = [Resting EXCEPT !.done = done]]
    /\ UNCHANGED <<schemaVars, role, ups, downs, records, runs, overlapped>>

\* up() lists what is pending, which ensures the class twice over; down() once.
Begin(m, doing, limit) ==
    /\ role = "managers" /\ ~Working(m) /\ runs < MaxRuns
    /\ runs' = runs + 1
    /\ overlapped' = (overlapped \/ \E x \in Callers : Working(x))
    /\ Start(m, "get", MigrationClass, ClassGet(m, FALSE))
    /\ manager' = [x \in Callers |->
           IF x = m THEN [Resting EXCEPT !.doing = doing, !.limit = limit,
                                         !.step = IF doing = "up" THEN "list" ELSE "structure"]
           ELSE [manager[x] EXCEPT !.done = FALSE]]
    /\ UNCHANGED <<calls, role, ups, downs, records>>

Up(m) == \E limit \in {0, 1} : Begin(m, "up", limit)
Down(m) == \E limit \in {0, 1} : Begin(m, "down", limit)

\* ensureStructure(): only a class that is not there is created, for list() first
\* and then for listApplied().
Creating(step) == IF step = "list" THEN "create to list" ELSE "create"
Completing(step) == IF step = "list" THEN "properties to list" ELSE "properties"

EnsureStructure(m) == \E step \in {"list", "structure"} :
    \/ /\ After(m, step) /\ call[m].outcome = "missing"
       /\ Step(m, Creating(step), "create", MigrationClass, ClassCreate(m, MigrationClass))
    \/ /\ After(m, Creating(step)) /\ Went(m)
       /\ Step(m, Completing(step), "create", Fields[1], PropertyCreateAll(m, Fields))

Ensured(m, step) ==
    \/ After(m, step) /\ Went(m)
    \/ After(m, Completing(step)) /\ call[m].outcome \in {"found", "missing"}

\* list(): what is available is read from the directory, what is applied from
\* the class, which listApplied() ensures again.
ListMigrations(m) == Ensured(m, "list") /\ GetsClass(m, "structure")

ListApplied(m) ==
    \/ Ensured(m, "structure") /\ GetsClass(m, "class")
    \/ After(m, "class") /\ Went(m) /\ Statement(m, "select", "select", 0)

\* The names of S in their order, and each of them as often as times says.
Ascending(S) ==
    CHOOSE s \in [1..Cardinality(S) -> S] : \A i, j \in 1..Cardinality(S) : i < j => s[i] < s[j]
InOrder(times) ==
    LET names == Ascending(Known)
        f[i \in 0..Len(names)] ==
            IF i = 0 THEN <<>> ELSE f[i - 1] \o [j \in 1..times[names[i]] |-> names[i]]
    IN  f[Len(names)]

\* A mutant: the order of the directory.
PendingAsListed(found) == SelectSeq(Directory, LAMBDA n : found[n] = 0)

\* A name is listed twice that is there as JavaScript and as TypeScript.
Listed(n) == Cardinality({i \in 1..Len(Directory) : Directory[i] = n})
Pending(found) == InOrder([n \in Known |-> IF found[n] = 0 THEN Listed(n) ELSE 0])
Applied(found) == Reverse(InOrder(found))

Limited(s, limit) == IF limit = 0 THEN s ELSE SubSeq(s, 1, IF limit < Len(s) THEN limit ELSE Len(s))

Selected(m) ==
    LET m0 == manager[m] IN
    /\ After(m, "select") /\ Went(m)
    /\ manager' = [manager EXCEPT ![m].step = "next",
            ![m].left = Limited(IF m0.doing = "up" THEN Pending(call[m].got)
                                ELSE Applied(call[m].got), m0.limit)]
    /\ UNCHANGED <<schemaVars, role, ups, downs, records, runs, overlapped>>

\* A mutant: it is recorded before it has run.
RecordMigrationFirst(m) ==
    LET n == Head(manager[m].left) IN
    /\ manager[m].doing = "up" /\ manager[m].left # <<>>
    /\ \/ manager[m].step = "next" /\ GetsClass(m, "class again")
       \/ After(m, "class again") /\ Went(m) /\ Statement(m, "run", "record", n)
       \/ After(m, "run") /\ Went(m) /\ Statement(m, "record", "up", n)

\* applyMigration(): run it, get the class, create the record.
ApplyMigration(m) ==
    LET n == Head(manager[m].left) IN
    /\ manager[m].doing = "up" /\ manager[m].left # <<>>
    /\ \/ manager[m].step = "next" /\ Statement(m, "run", "up", n)
       \/ After(m, "run") /\ Went(m) /\ GetsClass(m, "class again")
       \/ After(m, "class again") /\ Went(m) /\ Statement(m, "record", "record", n)

\* revertMigration(): the record is looked up, and the first found is deleted.
RevertMigration(m) ==
    LET n == Head(manager[m].left) IN
    /\ manager[m].doing = "down" /\ manager[m].left # <<>>
    /\ \/ manager[m].step = "next" /\ Statement(m, "run", "down", n)
       \/ After(m, "run") /\ Went(m) /\ GetsClass(m, "class again")
       \/ After(m, "class again") /\ Went(m) /\ Statement(m, "find", "select", n)
       \/ After(m, "find") /\ Went(m) /\ call[m].got[n] > 0 /\ Statement(m, "record", "erase", n)

\* reduce() goes on with the next one.
NextMigration(m) ==
    /\ After(m, "record") /\ Went(m)
    /\ manager' = [manager EXCEPT ![m].step = "next", ![m].left = Tail(@)]
    /\ UNCHANGED <<schemaVars, role, ups, downs, records, runs, overlapped>>

Finished(m) ==
    /\ Working(m) /\ manager[m].step = "next" /\ manager[m].left = <<>>
    /\ Rests(m, manager[m].doing = "up" /\ manager[m].limit = 0)

\* Anything that is rejected rejects the whole, but for the class that is missing.
Rejected(m) ==
    /\ Working(m) /\ manager[m].step # "next" /\ call[m].outcome # "pending"
    /\ \/ call[m].outcome \in {"failed", "gone"}
       \/ call[m].outcome = "missing" /\ manager[m].step \notin
            {"list", "structure", "properties to list", "properties"}
       \/ manager[m].step = "find" /\ Went(m) /\ call[m].got[Head(manager[m].left)] = 0
    /\ Rests(m, FALSE)

\* A migration may reject without having done anything.
ServeStatement(d, i) ==
    /\ i \in 1..Len(flight[d]) /\ flight[d][i].what.op \notin SchemaOps
    /\ LET op == flight[d][i].what.op
           n == flight[d][i].what.of[1]
       IN  \/ /\ op \in {"up", "down"} \/ (op = "erase" /\ records[n] = 0)
              /\ Served(d, i, <<"error">>)
              /\ UNCHANGED <<ups, downs, records>>
           \/ /\ op = "erase" => records[n] > 0
              /\ Served(d, i, <<"ok", IF op = "select" THEN records ELSE <<>> >>)
              /\ ups' = IF op = "up" THEN [ups EXCEPT ![n] = @ + 1] ELSE ups
              /\ downs' = IF op = "down" THEN [downs EXCEPT ![n] = @ + 1] ELSE downs
              /\ records' = CASE op = "record" -> [records EXCEPT ![n] = @ + 1]
                              [] op = "erase" -> [records EXCEPT ![n] = @ - 1]
                              [] OTHER -> records
    /\ UNCHANGED <<api, dbOf, changes, cached, call, instance, opened, calls, losses,
                   role, manager, runs, overlapped>>

-----------------------------------------------------------------------------
Manage(m) ==
    \/ EnsureStructure(m) \/ ListMigrations(m) \/ ListApplied(m) \/ Selected(m)
    \/ ApplyMigration(m) \/ RevertMigration(m) \/ NextMigration(m)
    \/ Finished(m) \/ Rejected(m)

Next ==
    \/ SchemaNext /\ UNCHANGED migrationVars
    \/ CallNext(role) /\ UNCHANGED migrationVars
    \/ \E d \in Dbs : \E i \in 1..Len(flight[d]) : ServeStatement(d, i)
    \/ \E m \in Callers : Up(m) \/ Down(m) \/ Manage(m)

\* The event loop runs what is ready, and what is on a connection is answered.
Progress ==
    \/ /\ \/ \E c \in Callers : Continue(c)
          \/ \E d \in Dbs : \E i \in 1..Len(flight[d]) : Serve(d, i) \/ Reply(d, i)
       /\ UNCHANGED migrationVars
    \/ \E d \in Dbs : \E i \in 1..Len(flight[d]) : ServeStatement(d, i)
    \/ \E m \in Callers : Manage(m)

Spec == Init /\ [][Next]_vars /\ WF_vars(Progress)

(***************************************************************************)
(* Properties                                                              *)
(***************************************************************************)

Unrecorded(n) == LET d == records[n] - (ups[n] - downs[n]) IN IF d < 0 THEN 0 - d ELSE d

Unmatched ==
    LET names == Ascending(Known)
        sum[i \in 0..Len(names)] == IF i = 0 THEN 0 ELSE sum[i - 1] + Unrecorded(names[i])
    IN  sum[Len(names)]

\* Where no two runs overlap, what is recorded is what is applied, up to one
\* migration for each connection that was lost between the two requests: it
\* was run and not recorded, and runs again, or was reverted and still counts
\* as applied.  And an up() without a limit that has ended leaves none unrecorded.
AsRecorded ==
    ~overlapped =>
        /\ (\A m \in Callers : ~Working(m)) => Unmatched <= losses
        /\ \A m \in Callers : manager[m].done => \A n \in Known : records[n] > 0

\* A migration is applied only when all those before it have been.
AppliedInOrder ==
    [][\A n \in Known : ups'[n] # ups[n] => \A k \in Known : k < n => ups[k] > 0]_vars

\* Whatever fails, every call is answered and every run of a manager ends.
Quiet == \A c \in Callers : call[c].outcome # "pending" /\ ~Working(c)
EventuallyDone == ~Quiet ~> Quiet
=============================================================================
