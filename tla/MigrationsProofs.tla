-------------------------- MODULE MigrationsProofs --------------------------
(* Proofs about Migrations and the Schema under it, for every set of database     *)
(* objects, callers and names, every directory and every bound.                    *)
EXTENDS MigrationsInvariants, FiniteSetTheorems, SequenceTheorems, WellFoundedInduction, TLAPS

--------------------------------------------------------------------------------
(* What calls ask for.                                                          *)

LEMMA ThingType ==
    /\ \A k \in Kinds, n \in Names : Thing(k, n) \in Whole
    /\ \A n \in Names, p \in Props : Property(n, p) \in Parts
    /\ \A k, n : Thing(k, n)[1] = k /\ Thing(k, n)[2] = n /\ Thing(k, n) # <<>>
    /\ \A n, p : Property(n, p)[1] = "property" /\ Property(n, p)[2] = n /\ Property(n, p) # <<>>
    /\ Whole \subseteq Named /\ Parts \subseteq Named /\ <<>> \notin Named
<1>1. \A k \in Kinds, n \in Names : Thing(k, n) \in Whole
  BY DEF Whole
<1>2. \A n \in Names, p \in Props : Property(n, p) \in Parts
  BY DEF Parts
<1>3. \A k, n : Len(Thing(k, n)) = 3 /\ Len(Property(k, n)) = 3 /\ Len(<<>>) = 0
  BY DEF Thing, Property
<1>4. \A k, n : Thing(k, n)[1] = k /\ Thing(k, n)[2] = n
  BY DEF Thing
<1>5. \A n, p : Property(n, p)[1] = "property" /\ Property(n, p)[2] = n
  BY DEF Property
<1>6. \A k, n : Thing(k, n) # <<>> /\ Property(k, n) # <<>>
  BY <1>3
<1>7. <<>> \notin Whole
  BY <1>6 DEF Whole
<1>8. <<>> \notin Parts
  BY <1>6 DEF Parts
<1> QED
  BY <1>1, <1>2, <1>4, <1>5, <1>6, <1>7, <1>8 DEF Named

LEMMA RequestType ==
    /\ \A t \in Named : /\ Create(t) \in SchemaRequests
                         /\ Drop(t) \in SchemaRequests
                         /\ Alter(t) \in SchemaRequests
                         /\ Use(t) \in SchemaRequests
    /\ \A t, to \in Named : Rename(t, to) \in SchemaRequests
    /\ \A k \in Kinds : List(k) \in SchemaRequests
    /\ SchemaRequests \subseteq Requests /\ Statements \subseteq Requests
<1>1. \A t, to \in Named, op \in SchemaOps \ {"list"} : Request(op, t, to) \in SchemaRequests
  BY DEF Request, SchemaRequests
<1>2. \A k \in Kinds : List(k) \in SchemaRequests
  BY DEF SchemaRequests
<1> QED
  BY <1>1, <1>2 DEF Create, Drop, Alter, Use, Rename, SchemaOps, Requests

\* Statements are not requests about the schema.
LEMMA StatementType ==
    /\ \A r \in Statements : /\ r.op \in StatementOps /\ r.op \notin SchemaOps
                             /\ r.op # "select" => r.of[1] \in Known
    /\ \A r \in SchemaRequests : /\ r.op \in SchemaOps
                                 /\ r.op # "list" => r.of \in Named /\ r.to \in Named
                                 /\ r.op = "list" => r.of[1] \in Kinds
    /\ \A op \in StatementOps, n \in Known : StatementOf(op, n) \in Statements
    /\ StatementOf("select", 0) \in Statements
    /\ \A op, n : StatementOf(op, n).op = op /\ StatementOf(op, n).of = <<n>>
    /\ \A r \in Requests : r.op \in SchemaOps <=> r \in SchemaRequests
<1>1. StatementOps \cap SchemaOps = {}
  BY DEF StatementOps, SchemaOps
<1>2. \A op, n : StatementOf(op, n).op = op /\ StatementOf(op, n).of = <<n>>
  BY DEF StatementOf, Request
<1>3. ASSUME NEW r \in SchemaRequests
      PROVE  /\ r.op \in SchemaOps
             /\ r.op # "list" => r.of \in Named /\ r.to \in Named
             /\ r.op = "list" => r.of[1] \in Kinds
  <2>1. CASE r \in [op : SchemaOps \ {"list"}, of : Named, to : Named]
    BY <2>1
  <2>2. CASE r \in {List(k) : k \in Kinds}
    <3>1. PICK k \in Kinds : r = List(k)
      BY <2>2
    <3>2. r.op = "list" /\ r.of = Thing(k, "")
      BY <3>1 DEF List, Request
    <3>3. r.of[1] = k /\ "list" \in SchemaOps
      BY <3>2, ThingType DEF SchemaOps
    <3> QED
      BY <3>2, <3>3
  <2> QED
    BY <2>1, <2>2 DEF SchemaRequests
<1>4. \A op \in StatementOps, n \in Known : StatementOf(op, n) \in Statements
  <2> TAKE op \in StatementOps, n \in Known
  <2>1. CASE op = "select"
    BY <2>1 DEF Statements
  <2>2. CASE op # "select"
    BY <2>2 DEF Statements
  <2> QED
    BY <2>1, <2>2
<1>6. StatementOf("select", 0) \in Statements
  BY DEF Statements
<1>5. ASSUME NEW r \in Statements
      PROVE  r.op \in StatementOps /\ r.op \notin SchemaOps /\ (r.op # "select" => r.of[1] \in Known)
  <2>1. CASE r \in {StatementOf(op, n) : op \in StatementOps \ {"select"}, n \in Known}
    <3>1. PICK op \in StatementOps \ {"select"}, n \in Known : r = StatementOf(op, n)
      BY <2>1
    <3> QED
      BY <3>1, <1>1, <1>2
  <2>2. CASE r \in {StatementOf("select", n) : n \in Known \cup {0}}
    <3>1. PICK n \in Known \cup {0} : r = StatementOf("select", n)
      BY <2>2
    <3>2. "select" \in StatementOps
      BY DEF StatementOps
    <3> QED
      BY <3>1, <3>2, <1>1, <1>2
  <2> QED
    BY <2>1, <2>2 DEF Statements
<1> QED
  BY <1>2, <1>3, <1>4, <1>5, <1>6 DEF Requests

LEMMA OneType ==
    ASSUME NEW S, NEW r \in S
    PROVE  One(r) \in Seq(S) /\ One(r)[1] = r /\ Len(One(r)) = 1 /\ One(r) # <<>>
BY DEF One

LEMMA AskedType ==
    /\ \A op : AskedBy(op) \subseteq Requests
    /\ \A op \in Changes : AskedBy(op) = SchemaRequests
    /\ \A op : op # "statement" => AskedBy(op) \subseteq SchemaRequests
    /\ AskedBy("statement") = Statements
    /\ \A op \in CallOps \ {"none", "statement"} : \A t \in Named : Alter(t) \in AskedBy(op) /\ Use(t) \in AskedBy(op)
    /\ \A op \in CallOps \ {"none", "statement"} : \A k \in Kinds : List(k) \in AskedBy(op)
    /\ \A t \in Named : Create(t) \in AskedBy("create") /\ Drop(t) \in AskedBy("drop")
    /\ \A t, to \in Named : Rename(t, to) \in AskedBy("create")
<1>1. \A t : Alter(t).op = "alter" /\ Use(t).op = "use"
  BY DEF Alter, Use, Request
<1>2. \A k : List(k).op = "list"
  BY DEF List, Request
<1>3. "alter" \notin Changing /\ "use" \notin Changing /\ "list" \notin Changing /\ "statement" \notin Changes
  BY DEF Changing, Changes
<1>4. "create" \in Changes /\ "drop" \in Changes
  BY DEF Changes
<1> QED
  BY <1>1, <1>2, <1>3, <1>4, RequestType DEF AskedBy

LEMMA KindOf ==
    /\ \A k \in Kinds : \A n : ListOf(Thing(k, n)) = k
    /\ \A n, p : ListOf(Property(n, p)) = "class"
    /\ \A t \in Named : ListOf(t) \in Kinds
    /\ \A t \in Whole : t[1] \in Kinds /\ t[1] # "property" /\ t[2] \in Names /\ ListOf(t) = t[1]
    /\ \A t \in Parts : t[1] = "property" /\ t[2] \in Names
<1>1. "property" \notin Kinds /\ "class" \in Kinds
  BY DEF Kinds
<1>4. \A k \in Kinds : \A n : ListOf(Thing(k, n)) = k
  BY <1>1, ThingType DEF ListOf
<1>5. \A n, p : ListOf(Property(n, p)) = "class"
  BY ThingType DEF ListOf
<1>6. ASSUME NEW t \in Whole PROVE t[1] \in Kinds /\ t[1] # "property" /\ t[2] \in Names /\ ListOf(t) = t[1]
  <2>1. PICK k \in Kinds, n \in Names : t = Thing(k, n)
    BY DEF Whole
  <2> QED
    BY <2>1, <1>1, <1>4, ThingType
<1>7. ASSUME NEW t \in Parts PROVE t[1] = "property" /\ t[2] \in Names /\ ListOf(t) = "class"
  <2>1. PICK n \in Names, p \in Props : t = Property(n, p)
    BY DEF Parts
  <2> QED
    BY <2>1, <1>5, ThingType
<1>8. \A t \in Named : ListOf(t) \in Kinds
  BY <1>1, <1>6, <1>7 DEF Named
<1> QED
  BY <1>4, <1>5, <1>6, <1>7, <1>8

--------------------------------------------------------------------------------
(* The plans of the calls.                                                      *)

Ops == CallOps \ {"none", "statement"}

\* Stages of one request, and of two.
LEMMA Stage ==
    ASSUME NEW S, NEW r \in S
    PROVE  /\ One(r) \in Seq(S) /\ One(r)[1] = r /\ One(r) # <<>>
           /\ <<One(r)>> \in Seq(Seq(S)) /\ <<One(r)>>[1] = One(r) /\ Len(<<One(r)>>) = 1
           /\ <<(<<r, r>>)>> \in Seq(Seq(S)) /\ Len(<<(<<r, r>>)>>) = 1
BY DEF One

\* The stages s close with the list of t, whatever comes before.
Closes(op, t, s) == s \in Seq(Seq(AskedBy(op))) /\ Len(s) > 0 /\ s[Len(s)] = Listing(t)

LEMMA Joins ==
    ASSUME NEW op, NEW t, NEW a \in Seq(Seq(AskedBy(op))), NEW s, Closes(op, t, s)
    PROVE  /\ Closes(op, t, a \o s)
           /\ Len(a \o s) = Len(a) + Len(s)
           /\ Len(a) > 0 => (a \o s)[1] = a[1]
<1>1. /\ a \o s \in Seq(Seq(AskedBy(op))) /\ Len(a \o s) = Len(a) + Len(s)
      /\ \A i \in 1..Len(a) : (a \o s)[i] = a[i]
      /\ \A i \in 1..Len(s) : (a \o s)[Len(a) + i] = s[i]
  BY ConcatProperties DEF Closes
<1>2. Len(s) \in 1..Len(s) /\ Len(a) \in Nat
  BY DEF Closes
<1>3. Len(a) > 0 => 1 \in 1..Len(a)
  BY <1>2
<1> QED
  BY <1>1, <1>2, <1>3 DEF Closes

LEMMA PlanOf ==
    ASSUME NEW op \in Ops, NEW t \in Named, NEW s, Closes(op, t, s),
           op = "create" => Len(s) > 1 /\ s[1] # <<>> /\ Makes(s[1][1], t)
    PROVE  Plan(op, t, s)
<1>1. s # <<>>
  BY DEF Closes
<1> QED
  BY <1>1 DEF Plan, Closes, Ops

LEMMA ClosesItself ==
    ASSUME NEW op \in Ops, NEW t \in Named
    PROVE  Closes(op, t, <<Listing(t)>>)
<1>1. List(ListOf(t)) \in AskedBy(op)
  BY KindOf, AskedType DEF Ops
<1>2. <<Listing(t)>> \in Seq(Seq(AskedBy(op))) /\ Len(<<Listing(t)>>) = 1 /\ <<Listing(t)>>[1] = Listing(t)
  BY <1>1, Stage DEF Listing
<1> QED
  BY <1>2 DEF Closes

\* One request, or several together, and the list.
LEMMA AndList ==
    ASSUME NEW op \in Ops, NEW t \in Named, NEW a \in Seq(Seq(AskedBy(op))), Len(a) > 0,
           op = "create" => a[1] # <<>> /\ Makes(a[1][1], t)
    PROVE  Plan(op, t, a \o <<Listing(t)>>)
<1>1. Closes(op, t, <<Listing(t)>>) /\ Len(<<Listing(t)>>) = 1
  BY ClosesItself
<1> DEFINE s == a \o <<Listing(t)>>
<1>2. /\ Closes(op, t, s)
      /\ Len(s) = Len(a) + 1
      /\ s[1] = a[1]
  BY <1>1, Joins
<1>3. Len(a) \in Nat /\ Len(s) > 1
  BY <1>2
<1> HIDE DEF s
<1>4. Plan(op, t, s)
  BY <1>2, <1>3, PlanOf
<1> QED
  BY <1>4 DEF s

\* What changes nothing.
LEMMA Reads ==
    ASSUME NEW op \in Ops \ Changes, NEW t \in Named, NEW s \in Seq(Seq(AskedBy(op))),
           t \in Whole \/ s # <<>>
    PROVE  Plan(op, t, s)
<1>1. op # "create" /\ op \notin Changes
  BY DEF Changes
<1> QED
  BY <1>1 DEF Plan, Ops

LEMMA ReadsOne ==
    ASSUME NEW op \in Ops \ Changes, NEW t \in Named
    PROVE  /\ t \in Whole => Plan(op, t, <<>>)
           /\ Plan(op, t, <<Listing(t)>>)
           /\ Plan(op, t, <<One(Use(t))>>)
           /\ Plan(op, t, <<(<<Use(t), Use(t)>>)>>)
<1>1. List(ListOf(t)) \in AskedBy(op) /\ Use(t) \in AskedBy(op)
  BY KindOf, AskedType, ThingType DEF Ops
<1>2. /\ <<>> \in Seq(Seq(AskedBy(op)))
      /\ <<One(List(ListOf(t)))>> \in Seq(Seq(AskedBy(op)))
      /\ <<One(Use(t))>> \in Seq(Seq(AskedBy(op)))
      /\ <<(<<Use(t), Use(t)>>)>> \in Seq(Seq(AskedBy(op)))
  <2> DEFINE r == List(ListOf(t))
             q == Use(t)
  <2>1. r \in AskedBy(op) /\ q \in AskedBy(op)
    BY <1>1
  <2> HIDE DEF r, q
  <2>2. /\ <<>> \in Seq(Seq(AskedBy(op))) /\ <<One(r)>> \in Seq(Seq(AskedBy(op)))
        /\ <<One(q)>> \in Seq(Seq(AskedBy(op)))
    BY <2>1, Stage
  <2>3. <<(<<q, q>>)>> \in Seq(Seq(AskedBy(op)))
    BY <2>1, Stage
  <2> QED
    BY <2>2, <2>3 DEF r, q
<1>3. <<Listing(t)>> # <<>> /\ <<One(Use(t))>> # <<>> /\ <<(<<Use(t), Use(t)>>)>> # <<>>
  OBVIOUS
<1> QED
  BY <1>2, <1>3, Reads DEF Listing

LEMMA ClassPlan ==
    ASSUME NEW c, NEW refresh \in BOOLEAN
    PROVE  /\ ClassList(c, TRUE) = <<One(List("class"))>>
           /\ ClassGet(c, TRUE) = <<One(List("class"))>>
           /\ ClassReload(c) = <<One(List("class"))>>
           /\ ClassList(c, refresh) \in {<<>>, <<One(List("class"))>>}
           /\ ClassGet(c, refresh) \in {<<>>, <<One(List("class"))>>}
BY DEF ClassList, ClassGet, ClassReload

LEMMA OtherPlans ==
    ASSUME NEW c, NEW refresh \in BOOLEAN
    PROVE  /\ IndexList(c, TRUE) = <<One(List("index"))>>
           /\ SequenceList(c, TRUE) = <<One(List("sequence"))>>
           /\ SequenceGet(c, TRUE) = <<One(List("sequence"))>>
           /\ IndexList(c, refresh) \in {<<>>, <<One(List("index"))>>}
           /\ IndexGet(c, refresh) \in {<<>>, <<One(List("index"))>>}
           /\ SequenceList(c, refresh) \in {<<>>, <<One(List("sequence"))>>}
           /\ SequenceGet(c, refresh) \in {<<>>, <<One(List("sequence"))>>}
           /\ ClusterList(c, refresh) \in {<<>>, <<One(List("cluster"))>>}
           /\ ClusterGet(c, refresh) \in {<<>>, <<One(List("cluster"))>>}
BY DEF IndexList, IndexGet, SequenceList, SequenceGet, ClusterList, ClusterGet

LEMMA MakesType ==
    /\ \A t : Makes(Create(t), t)
    /\ \A n, p, q : Makes(Rename(Property(n, p), Property(n, q)), Property(n, q))
    /\ \A n, p, q : Makes(Create(Property(n, p)), Property(n, p))
BY DEF Makes, Create, Rename, Request, Property

LEMMA OpsType ==
    /\ {"create", "update", "drop", "use", "alter", "get", "list", "reload", "count"} \subseteq Ops
    /\ {"update", "use", "alter", "get", "list", "reload", "count"} \subseteq Ops \ Changes
    /\ {"class", "index", "sequence", "cluster"} \subseteq Kinds
BY DEF Ops, CallOps, Changes, Kinds

\* Plans of one kind of thing t: create, or change, or drop it, and list anew.
LEMMA PlansOf ==
    ASSUME NEW t \in Named
    PROVE  /\ Plan("create", t, <<One(Create(t))>> \o <<Listing(t)>>)
           /\ \A k \in Kinds : Plan("create", t, <<One(Create(t)), One(List(k))>> \o <<Listing(t)>>)
           /\ \A op \in {"update", "alter"} : Plan(op, t, <<One(Alter(t))>> \o <<Listing(t)>>)
           /\ Plan("alter", t, <<(<<Alter(t), Alter(t)>>)>> \o <<Listing(t)>>)
           /\ Plan("drop", t, <<One(Drop(t))>> \o <<Listing(t)>>)
<1>1. t \in Named
  BY ThingType
<1>2. /\ Create(t) \in AskedBy("create") /\ Drop(t) \in AskedBy("drop")
      /\ \A op \in Ops : Alter(t) \in AskedBy(op)
      /\ \A k \in Kinds : List(k) \in AskedBy("create")
  BY <1>1, AskedType, OpsType DEF Ops
<1>3. Makes(Create(t), t)
  BY MakesType
<1>4. "drop" # "create"
  OBVIOUS
<1>0. "create" \in Ops /\ "drop" \in Ops /\ "update" \in Ops /\ "alter" \in Ops
  BY OpsType
<1>5. Plan("create", t, <<One(Create(t))>> \o <<Listing(t)>>)
  <2> DEFINE a == <<One(Create(t))>>
  <2>1. a \in Seq(Seq(AskedBy("create"))) /\ Len(a) = 1 /\ a[1] # <<>> /\ a[1][1] = Create(t)
    BY <1>2, Stage
  <2> HIDE DEF a
  <2>2. Plan("create", t, a \o <<Listing(t)>>)
    BY <1>0, <2>1, <1>3, AndList
  <2> QED
    BY <2>2 DEF a
<1>6. ASSUME NEW k \in Kinds
      PROVE  Plan("create", t, <<One(Create(t)), One(List(k))>> \o <<Listing(t)>>)
  <2> DEFINE r == Create(t)
             q == List(k)
             a == <<One(r), One(q)>>
  <2>1. r \in AskedBy("create") /\ q \in AskedBy("create")
    BY <1>2
  <2> HIDE DEF r, q
  <2>2. a \in Seq(Seq(AskedBy("create"))) /\ Len(a) = 2 /\ a[1] # <<>> /\ a[1][1] = r
    BY <2>1, Stage
  <2> HIDE DEF a
  <2>3. Plan("create", t, a \o <<Listing(t)>>)
    BY <1>0, <2>2, <1>3, AndList DEF r
  <2> QED
    BY <2>3 DEF a, r, q
<1>7. ASSUME NEW op \in {"update", "alter"} PROVE Plan(op, t, <<One(Alter(t))>> \o <<Listing(t)>>)
  <2> DEFINE a == <<One(Alter(t))>>
  <2>1. op \in Ops /\ op # "create"
    BY <1>0
  <2>2. a \in Seq(Seq(AskedBy(op))) /\ Len(a) = 1
    BY <1>2, <2>1, Stage
  <2> HIDE DEF a
  <2>3. Plan(op, t, a \o <<Listing(t)>>)
    BY <2>1, <2>2, AndList
  <2> QED
    BY <2>3 DEF a
<1>8. Plan("alter", t, <<(<<Alter(t), Alter(t)>>)>> \o <<Listing(t)>>)
  <2> DEFINE a == <<(<<Alter(t), Alter(t)>>)>>
  <2>2. a \in Seq(Seq(AskedBy("alter"))) /\ Len(a) = 1
    BY <1>0, <1>2, Stage
  <2> HIDE DEF a
  <2>3. Plan("alter", t, a \o <<Listing(t)>>)
    BY <1>0, <2>2, AndList
  <2> QED
    BY <2>3 DEF a
<1>9. Plan("drop", t, <<One(Drop(t))>> \o <<Listing(t)>>)
  <2> DEFINE a == <<One(Drop(t))>>
  <2>2. a \in Seq(Seq(AskedBy("drop"))) /\ Len(a) = 1
    BY <1>2, Stage
  <2> HIDE DEF a
  <2>3. Plan("drop", t, a \o <<Listing(t)>>)
    BY <1>0, <1>4, <2>2, AndList
  <2> QED
    BY <2>3 DEF a
<1> QED
  BY <1>5, <1>6, <1>7, <1>8, <1>9

LEMMA ListingOf ==
    /\ \A k \in Kinds : \A n : Listing(Thing(k, n)) = One(List(k))
    /\ \A n, p : Listing(Property(n, p)) = One(List("class"))
BY KindOf DEF Listing

LEMMA ClassPlans ==
    ASSUME NEW c, NEW n \in Names, NEW refresh \in BOOLEAN
    PROVE  LET t == Thing("class", n) IN
           /\ Plan("create", t, ClassCreate(c, t))
           /\ Plan("update", t, ClassUpdate(c, t))
           /\ Plan("drop", t, ClassDrop(c, t))
           /\ Plan("use", t, ClassRecords(t))
           /\ Plan("use", t, ClassInsert(t))
           /\ Plan("get", t, ClassGet(c, refresh))
           /\ Plan("list", t, ClassList(c, refresh))
<1> DEFINE t == Thing("class", n)
<1>1. t \in Whole /\ t \in Named /\ Listing(t) = One(List("class"))
  BY OpsType, ThingType, ListingOf
<1> HIDE DEF t
<1>2. Plan("create", t, ClassCreate(c, t))
  BY <1>1, ClassPlan, PlansOf, OpsType DEF ClassCreate
<1>3. Plan("update", t, ClassUpdate(c, t))
  BY <1>1, ClassPlan, PlansOf DEF ClassUpdate
<1>4. Plan("drop", t, ClassDrop(c, t))
  BY <1>1, ClassPlan, PlansOf DEF ClassDrop
<1>5. Plan("use", t, ClassRecords(t)) /\ Plan("use", t, ClassInsert(t))
  BY <1>1, ReadsOne, OpsType DEF ClassRecords, ClassInsert
<1>6. Plan("get", t, ClassGet(c, refresh)) /\ Plan("list", t, ClassList(c, refresh))
  BY <1>1, ReadsOne, OpsType, ClassPlan
<1> QED
  BY <1>2, <1>3, <1>4, <1>5, <1>6 DEF t

LEMMA IndexPlans ==
    ASSUME NEW c, NEW n \in Names, NEW refresh \in BOOLEAN
    PROVE  LET t == Thing("index", n) IN
           /\ Plan("create", t, IndexCreate(c, t))
           /\ Plan("drop", t, IndexDrop(c, t))
           /\ Plan("use", t, IndexAdd(t))
           /\ Plan("use", t, IndexStatement(t))
           /\ Plan("get", t, IndexGet(c, refresh))
           /\ Plan("list", t, IndexList(c, refresh))
<1> DEFINE t == Thing("index", n)
<1>1. t \in Whole /\ t \in Named /\ Listing(t) = One(List("index"))
  BY OpsType, ThingType, ListingOf
<1> HIDE DEF t
<1>2. Plan("create", t, IndexCreate(c, t))
  BY <1>1, OtherPlans, PlansOf DEF IndexCreate
<1>4. Plan("drop", t, IndexDrop(c, t))
  BY <1>1, OtherPlans, PlansOf DEF IndexDrop
<1>5. Plan("use", t, IndexAdd(t)) /\ Plan("use", t, IndexStatement(t))
  BY <1>1, ReadsOne, OpsType DEF IndexAdd, IndexStatement
<1>6. Plan("get", t, IndexGet(c, refresh)) /\ Plan("list", t, IndexList(c, refresh))
  BY <1>1, ReadsOne, OpsType, OtherPlans
<1> QED
  BY <1>2, <1>4, <1>5, <1>6 DEF t

LEMMA SequencePlans ==
    ASSUME NEW c, NEW n \in Names, NEW refresh \in BOOLEAN
    PROVE  LET t == Thing("sequence", n) IN
           /\ Plan("create", t, SequenceCreate(c, t))
           /\ Plan("update", t, SequenceUpdate(c, t))
           /\ Plan("drop", t, SequenceDrop(c, t))
           /\ Plan("get", t, SequenceGet(c, refresh))
           /\ Plan("list", t, SequenceList(c, refresh))
<1> DEFINE t == Thing("sequence", n)
<1>1. t \in Whole /\ t \in Named /\ Listing(t) = One(List("sequence"))
  BY OpsType, ThingType, ListingOf
<1> HIDE DEF t
<1>2. Plan("create", t, SequenceCreate(c, t))
  BY <1>1, OtherPlans, PlansOf DEF SequenceCreate
<1>3. Plan("update", t, SequenceUpdate(c, t))
  BY <1>1, OtherPlans, PlansOf DEF SequenceUpdate
<1>4. Plan("drop", t, SequenceDrop(c, t))
  BY <1>1, OtherPlans, PlansOf DEF SequenceDrop
<1>6. Plan("get", t, SequenceGet(c, refresh)) /\ Plan("list", t, SequenceList(c, refresh))
  BY <1>1, ReadsOne, OpsType, OtherPlans
<1> QED
  BY <1>2, <1>3, <1>4, <1>6 DEF t

LEMMA ClusterPlans ==
    ASSUME NEW c, NEW n \in Names, NEW refresh \in BOOLEAN
    PROVE  LET t == Thing("cluster", n) IN
           /\ Plan("create", t, ClusterCreate(t))
           /\ Plan("drop", t, ClusterDrop(c, t))
           /\ Plan("count", t, ClusterCount(c, t))
           /\ Plan("get", t, ClusterGet(c, refresh))
           /\ Plan("list", t, ClusterList(c, refresh))
<1> DEFINE t == Thing("cluster", n)
           l == One(List("cluster"))
<1>1. t \in Named /\ t \in Whole /\ Listing(t) = l
  BY OpsType, ThingType, ListingOf
<1>2. \A op \in Ops : <<l>> \in Seq(Seq(AskedBy(op))) /\ l \in Seq(AskedBy(op))
  BY OpsType, AskedType, Stage DEF Ops
<1>3. \A r \in BOOLEAN : ClusterGet(c, r) \in {<<>>, <<l>>} /\ ClusterList(c, r) \in {<<>>, <<l>>}
  BY OtherPlans
<1> HIDE DEF t, l
<1>4. \A r \in BOOLEAN : \A op \in Ops : ClusterGet(c, r) \in Seq(Seq(AskedBy(op)))
                                         /\ ClusterList(c, r) \in Seq(Seq(AskedBy(op)))
  <2>1. \A op \in Ops : <<>> \in Seq(Seq(AskedBy(op)))
    OBVIOUS
  <2> QED
    BY <2>1, <1>2, <1>3
<1>5. Plan("create", t, ClusterCreate(t))
  <2> DEFINE r == One(Create(t))
             s == <<r, l>>
  <2>0. "create" \in Ops
    BY OpsType
  <2>1. r \in Seq(AskedBy("create")) /\ r # <<>> /\ r[1] = Create(t)
    BY <1>1, AskedType, Stage
  <2> HIDE DEF r
  <2>2. s \in Seq(Seq(AskedBy("create"))) /\ Len(s) = 2 /\ s[1] = r /\ s[Len(s)] = l
    BY <2>0, <2>1, <1>2
  <2>3. ClusterCreate(t) = s
    BY DEF ClusterCreate, s, r, l
  <2> HIDE DEF s
  <2>4. Closes("create", t, s) /\ Makes(s[1][1], t)
    BY <2>1, <2>2, <1>1, MakesType DEF Closes
  <2>5. Len(s) > 1 /\ s[1] # <<>>
    BY <2>1, <2>2
  <2>6. Plan("create", t, s)
    BY <2>0, <2>4, <2>5, <1>1, PlanOf
  <2> QED
    BY <2>3, <2>6
<1>6. Plan("drop", t, ClusterDrop(c, t))
  <2> DEFINE r == One(Drop(t))
             s == <<r, l>>
             a == ClusterGet(c, FALSE)
  <2>0. "drop" \in Ops /\ "drop" # "create"
    BY OpsType
  <2>1. r \in Seq(AskedBy("drop"))
    BY <1>1, AskedType, Stage
  <2> HIDE DEF r
  <2>2. s \in Seq(Seq(AskedBy("drop"))) /\ Len(s) = 2 /\ s[Len(s)] = l
    BY <2>0, <2>1, <1>2
  <2>3. ClusterDrop(c, t) = a \o s
    BY DEF ClusterDrop, s, r, l, a
  <2>4. a \in Seq(Seq(AskedBy("drop")))
    BY <2>0, <1>4
  <2> HIDE DEF s, a
  <2>5. Closes("drop", t, s)
    BY <2>2, <1>1 DEF Closes
  <2>6. Closes("drop", t, a \o s)
    BY <2>4, <2>5, Joins
  <2> QED
    BY <2>0, <2>3, <2>6, <1>1, PlanOf
<1>7. Plan("count", t, ClusterCount(c, t))
  <2>0. "count" \in Ops \ Changes /\ "count" \in Ops
    BY OpsType
  <2> DEFINE a == ClusterGet(c, FALSE)
             b == <<One(Use(t))>>
  <2>1. a \in Seq(Seq(AskedBy("count"))) /\ b \in Seq(Seq(AskedBy("count")))
    BY <2>0, <1>1, <1>4, AskedType, Stage DEF Ops
  <2>2. ClusterCount(c, t) = a \o b
    BY DEF ClusterCount
  <2> HIDE DEF a, b
  <2>3. ClusterCount(c, t) \in Seq(Seq(AskedBy("count")))
    BY <2>1, <2>2, ConcatProperties
  <2> QED
    BY <2>0, <2>3, <1>1, Reads
<1>8. Plan("get", t, ClusterGet(c, refresh)) /\ Plan("list", t, ClusterList(c, refresh))
  BY <1>1, <1>4, OpsType, Reads
<1> QED
  BY <1>5, <1>6, <1>7, <1>8 DEF t

\* Several properties of a class at once.
LEMMA CreatesAll ==
    ASSUME NEW c, NEW ts \in Seq(Parts), ts # <<>>
    PROVE  Plan("create", ts[1], PropertyCreateAll(c, ts))
<1> DEFINE a == [i \in 1..Len(ts) |-> Create(ts[i])]
           s == <<a>>
<1>0. Parts \subseteq Named
  BY DEF Named
<1>1. Len(ts) \in Nat /\ Len(ts) > 0 /\ \A i \in 1..Len(ts) : ts[i] \in Parts /\ ts[i] \in Named
  BY <1>0
<1>2. \A i \in 1..Len(ts) : Create(ts[i]) \in AskedBy("create")
  BY <1>1, AskedType
<1>3. a \in Seq(AskedBy("create")) /\ Len(a) = Len(ts) /\ a[1] = Create(ts[1])
  BY <1>1, <1>2
<1> HIDE DEF a
<1>4. s \in Seq(Seq(AskedBy("create"))) /\ Len(s) = 1 /\ Len(s) > 0 /\ s[1] # <<>> /\ s[1][1] = a[1]
  BY <1>1, <1>3
<1>5. ts[1] \in Parts /\ ts[1] \in Named
  BY <1>1
<1>6. Makes(a[1], ts[1]) /\ Listing(ts[1]) = One(List("class"))
  <2>1. PICK n \in Names, p \in Props : ts[1] = Property(n, p)
    BY <1>5 DEF Parts
  <2> QED
    BY <2>1, <1>3, MakesType, ListingOf
<1>7. PropertyCreateAll(c, ts) = s \o <<Listing(ts[1])>>
  BY <1>6, ClassPlan DEF PropertyCreateAll, a
<1> HIDE DEF s
<1>8. "create" \in Ops
  BY OpsType
<1>9. Plan("create", ts[1], s \o <<Listing(ts[1])>>)
  BY <1>4, <1>5, <1>6, <1>8, AndList
<1> QED
  BY <1>7, <1>9

LEMMA PropertyPlans ==
    ASSUME NEW c, NEW n \in Names, NEW p \in Props, NEW q \in Props
    PROVE  LET t == Property(n, p) IN
           /\ Plan("create", t, PropertyCreate(c, t))
           /\ Plan("create", t, PropertyCreateSet(c, t))
           /\ Plan("update", t, PropertyUpdate(c, t, TRUE))
           /\ Plan("drop", t, PropertyDrop(c, t))
           /\ Plan("alter", t, PropertyAlter(c, t))
           /\ Plan("reload", t, PropertyReload(c))
           /\ Plan("alter", t, CustomSet(c, t))
           /\ Plan("alter", t, CustomUnset(c, t))
           /\ Plan("create", Property(n, q), PropertyRename(c, t, Property(n, q)))
           /\ Plan("create", t, PropertyCreateAll(c, <<t, Property(n, q)>>))
<1> DEFINE t == Property(n, p)
           to == Property(n, q)
<1>1. /\ t \in Named /\ Listing(t) = One(List("class")) /\ t \in Parts
      /\ to \in Named /\ Listing(to) = One(List("class")) /\ to \in Parts
  BY ListingOf DEF Parts, Named
<1>2. Makes(Rename(t, to), to) /\ Makes(Create(t), t)
  BY MakesType
<1>3. ClassReload(c) = <<Listing(t)>> /\ ClassReload(c) = <<Listing(to)>>
  BY <1>1, ClassPlan
<1> HIDE DEF t, to
<1>4. Plan("create", t, PropertyCreate(c, t))
  BY <1>1, <1>3, PlansOf DEF PropertyCreate
<1>5. PropertyUpdate(c, t, TRUE) = <<One(Alter(t))>> \o <<Listing(t)>>
  BY <1>3 DEF PropertyUpdate
<1>6. Plan("update", t, PropertyUpdate(c, t, TRUE))
  BY <1>1, <1>5, PlansOf
<1>7. Plan("create", t, PropertyCreateSet(c, t))
  <2> DEFINE r == Create(t)
             b == <<One(Alter(t))>>
             x == <<Listing(t)>>
             a == <<One(r)>>
  <2>0. "create" \in Ops
    BY OpsType
  <2>1. a \in Seq(Seq(AskedBy("create"))) /\ Len(a) = 1 /\ a[1] # <<>> /\ a[1][1] = r
    BY <1>1, AskedType, Stage
  <2>2. b \in Seq(Seq(AskedBy("create"))) /\ Len(b) = 1
    BY <2>0, <1>1, AskedType, Stage DEF Ops
  <2>3. Closes("create", t, x) /\ Len(x) = 1
    BY <2>0, <1>1, ClosesItself
  <2> HIDE DEF r, x, a, b
  <2> DEFINE s == b \o x
  <2>4. Closes("create", t, s) /\ Len(s) = 2
    <3>1. Closes("create", t, s) /\ Len(s) = Len(b) + Len(x)
      BY <2>2, <2>3, Joins, ZenonT(30)
    <3> QED
      BY <3>1, <2>2, <2>3
  <2>5. PropertyCreateSet(c, t) = a \o s
    BY <1>5 DEF PropertyCreateSet, a, r, b, x
  <2> HIDE DEF s
  <2> DEFINE u == a \o s
  <2>6. Closes("create", t, u) /\ Len(u) = 3 /\ u[1] = a[1]
    <3>0. a \in Seq(Seq(AskedBy("create"))) /\ Closes("create", t, s)
      BY <2>1, <2>4
    <3>1. /\ Closes("create", t, a \o s) /\ Len(a \o s) = Len(a) + Len(s)
          /\ Len(a) > 0 => (a \o s)[1] = a[1]
      BY <3>0, Joins
    <3> QED
      BY <3>1, <2>1, <2>4
  <2> HIDE DEF u
  <2>7. Plan("create", t, u)
    <3>1. Len(u) > 1 /\ u[1] # <<>> /\ Makes(u[1][1], t)
      BY <2>1, <2>6, <1>2 DEF r
    <3> QED
      BY <3>1, <2>0, <2>6, <1>1, PlanOf
  <2> QED
    BY <2>5, <2>7 DEF u
<1>8. Plan("drop", t, PropertyDrop(c, t))
  BY <1>1, <1>3, PlansOf DEF PropertyDrop
<1>9. Plan("alter", t, PropertyAlter(c, t)) /\ Plan("alter", t, CustomUnset(c, t))
  BY <1>1, <1>3, PlansOf DEF PropertyAlter, CustomUnset
<1>10. Plan("alter", t, CustomSet(c, t))
  BY <1>1, <1>3, PlansOf DEF CustomSet
<1>11. Plan("reload", t, PropertyReload(c))
  BY <1>1, <1>3, ReadsOne, OpsType DEF PropertyReload
<1>12. Plan("create", to, PropertyRename(c, t, to))
  <2> DEFINE r == Rename(t, to)
             a == <<One(r)>>
  <2>0. "create" \in Ops
    BY OpsType
  <2>1. a \in Seq(Seq(AskedBy("create"))) /\ Len(a) = 1 /\ a[1] # <<>> /\ a[1][1] = r
    BY <1>1, AskedType, Stage
  <2>2. PropertyRename(c, t, to) = a \o <<Listing(to)>>
    BY <1>3 DEF PropertyRename
  <2> HIDE DEF a
  <2>3. Plan("create", to, a \o <<Listing(to)>>)
    BY <2>0, <2>1, <1>1, <1>2, AndList
  <2> QED
    BY <2>2, <2>3
<1>13. Plan("create", t, PropertyCreateAll(c, <<t, to>>))
  <2> DEFINE ts == <<t, to>>
  <2>1. ts \in Seq(Parts) /\ ts # <<>> /\ ts[1] = t
    BY <1>1
  <2> HIDE DEF ts
  <2>2. Plan("create", t, PropertyCreateAll(c, ts))
    BY <2>1, CreatesAll
  <2> QED
    BY <2>2 DEF ts
<1> QED
  BY <1>4, <1>6, <1>7, <1>8, <1>9, <1>10, <1>11, <1>12, <1>13 DEF t, to

\* What a manager asks for.
LEMMA FieldsType == Fields \in Seq(Parts) /\ Fields # <<>> /\ Fields[1] \in Named
                    /\ ClassName \in Names /\ MigrationClass \in Named
<1> DEFINE S == {Property(ClassName, p) : p \in Props}
           n == Cardinality(S)
<1>1. ClassName \in Names
  BY SchemaAssumption DEF ClassName
<1>2. S \subseteq Parts /\ S # {}
  BY <1>1, SchemaAssumption DEF Parts
<1>3. IsFiniteSet(S)
  <2> DEFINE f == [p \in Props |-> Property(ClassName, p)]
  <2>1. f \in Surjection(Props, S)
    <3>1. f \in [Props -> S]
      OBVIOUS
    <3>2. \A x \in S : \E p \in Props : f[p] = x
      OBVIOUS
    <3> HIDE DEF S, f
    <3> QED
      BY <3>1, <3>2 DEF Surjection
  <2> HIDE DEF S, f
  <2> QED
    BY <2>1, SchemaAssumption, FS_Surjection
<1> HIDE DEF S
<1>4. n \in Nat /\ n # 0
  BY <1>2, <1>3, FS_CardinalityType, FS_EmptySet
<1>5. PICK f \in [1..n -> S] : IsInjective(f)
  BY <1>3, FS_CardinalityType DEF ExistsBijection, Bijection, Injection
<1>6. Fields \in [1..n -> S]
  BY <1>5 DEF Fields, SetToSeq, S
<1>7. Fields \in Seq(Parts) /\ Len(Fields) = n
  BY <1>2, <1>4, <1>6
<1>8. MigrationClass \in Named
  BY <1>1, ThingType, OpsType DEF MigrationClass
<1> QED
  BY <1>1, <1>4, <1>7, <1>8 DEF Named

--------------------------------------------------------------------------------
(* Requests in flight.                                                          *)

LEMMA OwnType ==
    ASSUME NEW s \in Seq(Entry), NEW c
    PROVE  /\ IsFiniteSet(OwnIn(s, c)) /\ Cardinality(OwnIn(s, c)) \in Nat
           /\ Cardinality(OwnIn(s, c)) = 0 <=> OwnIn(s, c) = {}
<1>1. Len(s) \in Nat /\ OwnIn(s, c) \subseteq 1..Len(s)
  BY DEF OwnIn
<1>2. IsFiniteSet(1..Len(s))
  BY <1>1, FS_Interval
<1>3. IsFiniteSet(OwnIn(s, c))
  BY <1>1, <1>2, FS_Subset
<1> QED
  BY <1>3, FS_CardinalityType, FS_EmptySet

LEMMA Removal ==
    ASSUME NEW S, NEW s \in Seq(S), NEW i \in 1..Len(s)
    PROVE  /\ RemoveAt(s, i) \in Seq(S)
           /\ Len(RemoveAt(s, i)) = Len(s) - 1
           /\ \A j \in 1..(Len(s) - 1) : RemoveAt(s, i)[j] = IF j < i THEN s[j] ELSE s[j + 1]
<1> DEFINE a == SubSeq(s, 1, i - 1)
           b == SubSeq(s, i + 1, Len(s))
<1>1. /\ a \in Seq(S) /\ Len(a) = i - 1 /\ \A j \in 1..(i - 1) : a[j] = s[j]
      /\ b \in Seq(S) /\ Len(b) = Len(s) - i /\ \A j \in 1..(Len(s) - i) : b[j] = s[i + j]
  OBVIOUS
<1>2. RemoveAt(s, i) = a \o b
  BY DEF RemoveAt
<1> HIDE DEF a, b
<1>3. /\ a \o b \in Seq(S) /\ Len(a \o b) = Len(a) + Len(b)
      /\ \A j \in 1..Len(a) : (a \o b)[j] = a[j]
      /\ \A j \in 1..Len(b) : (a \o b)[Len(a) + j] = b[j]
  <2>1. a \in Seq(S) /\ b \in Seq(S)
    BY <1>1
  <2> QED
    BY <2>1, ConcatProperties
<1>4. Len(a) + Len(b) = Len(s) - 1
  BY <1>1
<1>5. ASSUME NEW j \in 1..(Len(s) - 1)
      PROVE  (a \o b)[j] = IF j < i THEN s[j] ELSE s[j + 1]
  <2>1. CASE j < i
    BY <2>1, <1>1, <1>3
  <2>2. CASE ~(j < i)
    <3>1. j - (i - 1) \in 1..(Len(s) - i) /\ Len(a) + (j - (i - 1)) = j /\ i + (j - (i - 1)) = j + 1
      BY <2>2, <1>1
    <3>2. (a \o b)[Len(a) + (j - (i - 1))] = b[j - (i - 1)]
      BY <3>1, <1>1, <1>3
    <3>3. b[j - (i - 1)] = s[i + (j - (i - 1))]
      BY <3>1, <1>1
    <3> QED
      BY <3>1, <3>2, <3>3, <2>2
  <2> QED
    BY <2>1, <2>2
<1> QED
  BY <1>2, <1>3, <1>4, <1>5

LEMMA OwnRemoved ==
    ASSUME NEW s \in Seq(Entry), NEW i \in 1..Len(s), NEW c
    PROVE  Cardinality(OwnIn(RemoveAt(s, i), c)) =
              IF s[i].who = c THEN Cardinality(OwnIn(s, c)) - 1 ELSE Cardinality(OwnIn(s, c))
<1> DEFINE t == RemoveAt(s, i)
           A == OwnIn(s, c) \ {i}
           B == OwnIn(t, c)
           f == [j \in B |-> IF j < i THEN j ELSE j + 1]
<1>1. /\ t \in Seq(Entry) /\ Len(t) = Len(s) - 1
      /\ \A j \in 1..(Len(s) - 1) : t[j] = IF j < i THEN s[j] ELSE s[j + 1]
  BY Removal
<1> HIDE DEF t
<1>2. \A j \in B : j \in 1..(Len(s) - 1) /\ t[j].who = c
  BY <1>1 DEF OwnIn
<1>3. f \in [B -> A]
  <2> SUFFICES ASSUME NEW j \in B PROVE (IF j < i THEN j ELSE j + 1) \in A
    OBVIOUS
  <2>1. j \in 1..(Len(s) - 1) /\ t[j].who = c /\ t[j] = IF j < i THEN s[j] ELSE s[j + 1]
    BY <1>1, <1>2
  <2>2. Len(s) \in Nat
    OBVIOUS
  <2> QED
    BY <2>1, <2>2 DEF OwnIn
<1>4. \A j, k \in B : f[j] = f[k] => j = k
  BY <1>2
<1>5. ASSUME NEW x \in A PROVE \E j \in B : f[j] = x
  <2>1. x \in 1..Len(s) /\ s[x].who = c /\ x # i
    BY DEF OwnIn
  <2>2. CASE x < i
    <3>1. x \in 1..(Len(s) - 1) /\ x \in 1..Len(t)
      BY <2>1, <2>2, <1>1
    <3>2. x \in B
      BY <3>1, <2>1, <2>2, <1>1 DEF OwnIn
    <3> QED
      BY <3>2, <2>2
  <2>3. CASE ~(x < i)
    <3>1. x - 1 \in 1..(Len(s) - 1) /\ x - 1 \in 1..Len(t) /\ ~(x - 1 < i) /\ (x - 1) + 1 = x
      BY <2>1, <2>3, <1>1
    <3>2. x - 1 \in B
      BY <3>1, <2>1, <1>1 DEF OwnIn
    <3> QED
      BY <3>1, <3>2
  <2> QED
    BY <2>2, <2>3
<1>6. IsFiniteSet(B) /\ IsFiniteSet(OwnIn(s, c))
  BY <1>1, OwnType
<1>7. ExistsBijection(B, A)
  <2> HIDE DEF f, A, B
  <2>1. f \in Injection(B, A)
    BY <1>3, <1>4 DEF Injection, IsInjective
  <2>2. f \in Surjection(B, A)
    BY <1>3, <1>5 DEF Surjection
  <2> QED
    BY <2>1, <2>2 DEF ExistsBijection, Bijection
<1>8. Cardinality(A) = Cardinality(B)
  BY <1>6, <1>7, FS_Bijection
<1>9. i \in OwnIn(s, c) <=> s[i].who = c
  BY DEF OwnIn
<1>10. Cardinality(A) = IF i \in OwnIn(s, c) THEN Cardinality(OwnIn(s, c)) - 1 ELSE Cardinality(OwnIn(s, c))
  BY <1>6, FS_RemoveElement
<1> QED
  BY <1>8, <1>9, <1>10 DEF t

LEMMA OwnAppended ==
    ASSUME NEW s \in Seq(Entry), NEW t \in Seq(Entry), NEW c
    PROVE  Cardinality(OwnIn(s \o t, c)) = Cardinality(OwnIn(s, c)) + Cardinality(OwnIn(t, c))
<1> DEFINE u == s \o t
           A == OwnIn(s, c)
           B == OwnIn(t, c)
           C == OwnIn(u, c) \ A
           f == [j \in B |-> Len(s) + j]
<1>1. /\ u \in Seq(Entry) /\ Len(u) = Len(s) + Len(t)
      /\ \A i \in 1..Len(s) : u[i] = s[i]
      /\ \A i \in 1..Len(t) : u[Len(s) + i] = t[i]
      /\ Len(s) \in Nat /\ Len(t) \in Nat
  BY ConcatProperties
<1> HIDE DEF u
<1>2. A \subseteq OwnIn(u, c)
  BY <1>1 DEF OwnIn
<1>3. \A x : x \in C <=> x \in 1..Len(u) /\ u[x].who = c /\ ~(x <= Len(s))
  <2> SUFFICES ASSUME NEW x PROVE x \in C <=> x \in 1..Len(u) /\ u[x].who = c /\ ~(x <= Len(s))
    OBVIOUS
  <2>1. x \in 1..Len(u) /\ x <= Len(s) => (u[x].who = c <=> x \in A)
    BY <1>1 DEF OwnIn
  <2>2. x \in A => x \in 1..Len(s)
    BY DEF OwnIn
  <2>3. x \in OwnIn(u, c) <=> x \in 1..Len(u) /\ u[x].who = c
    BY DEF OwnIn
  <2> QED
    BY <2>1, <2>2, <2>3, <1>1
<1>4. f \in [B -> C]
  <2> SUFFICES ASSUME NEW j \in B PROVE Len(s) + j \in C
    OBVIOUS
  <2>1. j \in 1..Len(t) /\ t[j].who = c
    BY DEF OwnIn
  <2> HIDE DEF C, B, f
  <2> QED
    BY <2>1, <1>1, <1>3
<1>5. \A j, k \in B : f[j] = f[k] => j = k
  BY <1>1 DEF OwnIn
<1>6. ASSUME NEW x \in C PROVE \E j \in B : f[j] = x
  <2> HIDE DEF C
  <2>1. x \in 1..Len(u) /\ u[x].who = c /\ ~(x <= Len(s))
    BY <1>3
  <2>2. x - Len(s) \in 1..Len(t) /\ Len(s) + (x - Len(s)) = x
    BY <2>1, <1>1
  <2>3. x - Len(s) \in B
    BY <2>1, <2>2, <1>1 DEF OwnIn
  <2> QED
    BY <2>2, <2>3
<1>7. IsFiniteSet(A) /\ IsFiniteSet(B) /\ IsFiniteSet(OwnIn(u, c))
  BY <1>1, OwnType
<1>8. ExistsBijection(B, C)
  <2> HIDE DEF f, C, B
  <2>1. f \in Injection(B, C)
    BY <1>4, <1>5 DEF Injection, IsInjective
  <2>2. f \in Surjection(B, C)
    BY <1>4, <1>6 DEF Surjection
  <2> QED
    BY <2>1, <2>2 DEF ExistsBijection, Bijection
<1>9. Cardinality(C) = Cardinality(B) /\ IsFiniteSet(C)
  BY <1>7, <1>8, FS_Bijection
<1>10. OwnIn(u, c) = A \cup C /\ A \cap C = {}
  BY <1>2
<1> HIDE DEF A, B, C
<1>11. Cardinality(OwnIn(u, c)) = Cardinality(A) + Cardinality(C)
  <2>1. Cardinality(A \cup C) = Cardinality(A) + Cardinality(C) - Cardinality(A \cap C)
    BY <1>7, <1>9, FS_Union
  <2>2. Cardinality(A \cap C) = 0 /\ Cardinality(A) \in Nat /\ Cardinality(C) \in Nat
    BY <1>7, <1>9, <1>10, FS_EmptySet, FS_CardinalityType
  <2> QED
    BY <2>1, <2>2, <1>10
<1> QED
  BY <1>9, <1>11 DEF u, A, B

LEMMA TaggedType ==
    ASSUME NEW c \in Callers \cup {Nobody}, NEW rs \in Seq(Requests)
    PROVE  /\ Tagged(c, rs) \in Seq(Entry) /\ Len(Tagged(c, rs)) = Len(rs)
           /\ \A i \in 1..Len(rs) : Tagged(c, rs)[i].who = c /\ Tagged(c, rs)[i].what = rs[i]
                                    /\ Tagged(c, rs)[i].reply = <<>>
           /\ \A x : Cardinality(OwnIn(Tagged(c, rs), x)) = IF x = c THEN Len(rs) ELSE 0
<1>1. \A i \in 1..Len(rs) : [who |-> c, what |-> rs[i], reply |-> <<>>] \in Entry
  BY DEF Entry, Replies, Answered
<1> DEFINE t == Tagged(c, rs)
<1>2. /\ t \in Seq(Entry) /\ Len(t) = Len(rs) /\ Len(rs) \in Nat
      /\ \A i \in 1..Len(rs) : t[i].who = c /\ t[i].what = rs[i] /\ t[i].reply = <<>>
  BY <1>1 DEF Tagged
<1> HIDE DEF t
<1>3. OwnIn(t, c) = 1..Len(rs) /\ \A x : x # c => OwnIn(t, x) = {}
  BY <1>2 DEF OwnIn
<1>4. Cardinality(1..Len(rs)) = Len(rs)
  <2>1. 1 \in Int /\ Len(rs) \in Int /\ Len(rs) \in Nat
    BY <1>2
  <2>2. Cardinality(1..Len(rs)) = IF 1 > Len(rs) THEN 0 ELSE Len(rs) - 1 + 1
    BY <2>1, FS_Interval
  <2> QED
    BY <2>1, <2>2
<1> QED
  BY <1>2, <1>3, <1>4, FS_EmptySet DEF t

LEMMA ReopeningType ==
    ASSUME NEW c \in Callers
    PROVE  /\ Reopening(c) \in Seq(Entry)
           /\ \A i \in 1..Len(Reopening(c)) : /\ Reopening(c)[i].who = Nobody
                                             /\ Reopening(c)[i].what \in SchemaRequests
                                             /\ Reopening(c)[i].reply = <<>>
<1> DEFINE r == List("cluster")
           e == [who |-> Nobody, what |-> r, reply |-> <<>>]
<1>1. r \in SchemaRequests /\ r \in Requests
  BY OpsType, RequestType
<1> HIDE DEF r
<1>2. e \in Entry /\ e.who = Nobody /\ e.what = r /\ e.reply = <<>>
  BY <1>1 DEF Entry, Replies, Answered
<1> HIDE DEF e
<1>3. Tagged(Nobody, One(r)) = [i \in 1..1 |-> e]
  BY DEF Tagged, One, e
<1>4. [i \in 1..1 |-> e] \in Seq(Entry) /\ Len([i \in 1..1 |-> e]) = 1
  BY <1>2
<1>5. CASE opened[dbOf[c]]
  <2>1. Reopening(c) = <<>>
    BY <1>5 DEF Reopening
  <2>2. <<>> \in Seq(Entry) /\ Len(<<>>) = 0
    OBVIOUS
  <2> QED
    BY <2>1, <2>2
<1>6. CASE ~opened[dbOf[c]]
  <2>1. Reopening(c) = [i \in 1..1 |-> e]
    BY <1>3, <1>6 DEF Reopening, r
  <2> QED
    BY <2>1, <1>1, <1>2, <1>4
<1> QED
  BY <1>5, <1>6

LEMMA DisownedType ==
    ASSUME NEW s \in Seq(Entry), NEW W
    PROVE  /\ Disowned(s, W) \in Seq(Entry) /\ Len(Disowned(s, W)) = Len(s)
           /\ \A i \in 1..Len(s) : /\ Disowned(s, W)[i].who = IF s[i].who \in W THEN Nobody ELSE s[i].who
                                   /\ Disowned(s, W)[i].what = s[i].what
                                   /\ Disowned(s, W)[i].reply = s[i].reply
           /\ \A c \in Callers : OwnIn(Disowned(s, W), c) = IF c \in W THEN {} ELSE OwnIn(s, c)
<1>1. \A e \in Entry : [e EXCEPT !.who = Nobody] \in Entry
  BY DEF Entry, Answered
<1>2. \A e \in Entry : /\ [e EXCEPT !.who = Nobody].who = Nobody
                       /\ [e EXCEPT !.who = Nobody].what = e.what
                       /\ [e EXCEPT !.who = Nobody].reply = e.reply
  BY DEF Entry
<1> DEFINE t == Disowned(s, W)
<1>3. /\ t \in Seq(Entry) /\ Len(t) = Len(s)
      /\ \A i \in 1..Len(s) : t[i] = IF s[i].who \in W THEN [s[i] EXCEPT !.who = Nobody] ELSE s[i]
  BY <1>1 DEF Disowned
<1> HIDE DEF t
<1>4. \A i \in 1..Len(s) : s[i] \in Entry
  OBVIOUS
<1>5. \A i \in 1..Len(s) : /\ t[i].who = IF s[i].who \in W THEN Nobody ELSE s[i].who
                           /\ t[i].what = s[i].what /\ t[i].reply = s[i].reply
  BY <1>2, <1>3, <1>4
<1>6. \A c \in Callers : OwnIn(t, c) = IF c \in W THEN {} ELSE OwnIn(s, c)
  BY <1>3, <1>5, SchemaAssumption DEF OwnIn
<1> QED
  BY <1>3, <1>5, <1>6 DEF t

\* An answer changes nothing but the reply.
Answer(s, i, reply) == [s EXCEPT ![i].reply = reply]

LEMMA AnsweredType ==
    ASSUME NEW s \in Seq(Entry), NEW i \in 1..Len(s), NEW reply \in Replies,
           s[i].what \in SchemaRequests => reply \in {<<>>, Refused} \cup ({"ok"} \X Nat)
    PROVE  LET t == Answer(s, i, reply) IN
           /\ t \in Seq(Entry) /\ Len(t) = Len(s)
           /\ \A j \in 1..Len(s) : /\ t[j].who = s[j].who /\ t[j].what = s[j].what
                                   /\ t[j].reply = IF j = i THEN reply ELSE s[j].reply
           /\ \A c : OwnIn(t, c) = OwnIn(s, c)
<1> DEFINE e == [s[i] EXCEPT !.reply = reply]
           t == Answer(s, i, reply)
<1>1. s[i] \in Entry
  OBVIOUS
<1>2. e \in Entry /\ e.who = s[i].who /\ e.what = s[i].what /\ e.reply = reply
  <2>1. e.who = s[i].who /\ e.what = s[i].what /\ e.reply = reply
    BY <1>1 DEF Entry
  <2>2. e \in [who : Callers \cup {Nobody}, what : Requests, reply : Replies]
    BY <1>1 DEF Entry
  <2>3. e.what \in SchemaRequests /\ Answered(e) => e.reply[2] \in Nat
    BY <2>1 DEF Answered
  <2> HIDE DEF e
  <2> QED
    BY <2>1, <2>2, <2>3 DEF Entry
<1>3. t = [s EXCEPT ![i] = e]
  BY DEF Answer
<1> HIDE DEF e
<1>4. /\ t \in Seq(Entry) /\ Len(t) = Len(s)
      /\ \A j \in 1..Len(s) : t[j] = IF j = i THEN e ELSE s[j]
  BY <1>2, <1>3, ExceptSeq
<1> HIDE DEF t
<1>5. \A j \in 1..Len(s) : /\ t[j].who = s[j].who /\ t[j].what = s[j].what
                           /\ t[j].reply = IF j = i THEN reply ELSE s[j].reply
  BY <1>2, <1>4
<1>6. \A c : OwnIn(t, c) = OwnIn(s, c)
  BY <1>4, <1>5 DEF OwnIn
<1> QED
  BY <1>4, <1>5, <1>6 DEF t

--------------------------------------------------------------------------------
(* What every call and every request in flight keep to.                         *)

LEMMA CallType ==
    ASSUME NEW k \in CallRecord
    PROVE  /\ k.op \in CallOps /\ k.of \in Named \cup {<<>>} /\ k.todo \in Seq(Seq(Requests))
           /\ k.sent \in Nat /\ k.made \in Nat /\ k.got \in Answers /\ k.outcome \in Outcomes
           /\ k.op \notin {"none", "statement"} => k.of \in Named
           /\ k.todo \in Seq(Seq(AskedBy(k.op)))
BY DEF CallRecord

LEMMA CallFails ==
    ASSUME NEW k \in CallRecord
    PROVE  LET x == [k EXCEPT !.outcome = "failed", !.todo = <<>>, !.sent = 0]
           IN  /\ x \in CallRecord /\ x.op = k.op /\ x.of = k.of /\ x.got = k.got /\ x.made = k.made
               /\ x.todo = <<>> /\ x.sent = 0 /\ x.outcome = "failed"
<1>1. <<>> \in Seq(Seq(Requests)) /\ <<>> \in Seq(Seq(AskedBy(k.op))) /\ "failed" \in Outcomes
  BY DEF Outcomes
<1>2. k \in [op : CallOps, of : Named \cup {<<>>}, todo : Seq(Seq(Requests)), sent : Nat,
            made : Nat, got : Answers, outcome : Outcomes]
  BY DEF CallRecord
<1> DEFINE x == [k EXCEPT !.outcome = "failed", !.todo = <<>>, !.sent = 0]
<1>3. /\ x.op = k.op /\ x.of = k.of /\ x.got = k.got /\ x.made = k.made
      /\ x.todo = <<>> /\ x.sent = 0 /\ x.outcome = "failed"
  BY <1>2
<1>4. x \in [op : CallOps, of : Named \cup {<<>>}, todo : Seq(Seq(Requests)), sent : Nat,
            made : Nat, got : Answers, outcome : Outcomes]
  BY <1>1, <1>2
<1> HIDE DEF x
<1>5. x \in CallRecord
  BY <1>4, <1>3, CallType, <1>1 DEF CallRecord
<1> QED
  BY <1>3, <1>5 DEF x

LEMMA CallEnds ==
    ASSUME NEW k \in CallRecord, NEW outcome \in Outcomes
    PROVE  LET x == [k EXCEPT !.outcome = outcome, !.todo = <<>>]
           IN  /\ x \in CallRecord /\ x.op = k.op /\ x.of = k.of /\ x.got = k.got /\ x.made = k.made
               /\ x.todo = <<>> /\ x.sent = k.sent /\ x.outcome = outcome
<1>1. <<>> \in Seq(Seq(Requests)) /\ <<>> \in Seq(Seq(AskedBy(k.op)))
  OBVIOUS
<1>2. k \in [op : CallOps, of : Named \cup {<<>>}, todo : Seq(Seq(Requests)), sent : Nat,
            made : Nat, got : Answers, outcome : Outcomes]
  BY DEF CallRecord
<1> DEFINE x == [k EXCEPT !.outcome = outcome, !.todo = <<>>]
<1>3. /\ x.op = k.op /\ x.of = k.of /\ x.got = k.got /\ x.made = k.made
      /\ x.todo = <<>> /\ x.sent = k.sent /\ x.outcome = outcome
  BY <1>2
<1>4. x \in [op : CallOps, of : Named \cup {<<>>}, todo : Seq(Seq(Requests)), sent : Nat,
            made : Nat, got : Answers, outcome : Outcomes]
  BY <1>1, <1>2
<1> HIDE DEF x
<1>5. x \in CallRecord
  BY <1>4, <1>3, CallType, <1>1 DEF CallRecord
<1> QED
  BY <1>3, <1>5 DEF x

\* Nothing of a caller that has sent nothing is in flight.
LEMMA Unsent ==
    ASSUME SchemaInv, NEW c \in Callers, call[c].sent = 0
    PROVE  Own(c) = {}
<1>1. flight[dbOf[c]] \in Seq(Entry)
  BY DEF SchemaInv, SchemaType
<1> QED
  BY <1>1, OwnType DEF SchemaInv, Counted, Own

LEMMA UnsentNowhere ==
    ASSUME SchemaInv, NEW c \in Callers, call[c].sent = 0, NEW d \in Dbs
    PROVE  \A i \in 1..Len(flight[d]) : flight[d][i].who # c
<1> SUFFICES ASSUME NEW i \in 1..Len(flight[d]), flight[d][i].who = c PROVE FALSE
  OBVIOUS
<1>1. dbOf[c] = d
  BY SchemaAssumption DEF SchemaInv, Traced
<1>2. i \in Own(c)
  BY <1>1 DEF Own, OwnIn
<1> QED
  BY <1>2, Unsent

LEMMA InFlight ==
    ASSUME SchemaInv, NEW d \in Dbs, NEW i \in 1..Len(flight[d])
    PROVE  /\ flight[d] \in Seq(Entry) /\ flight[d][i] \in Entry
           /\ flight[d][i].who \in Callers \cup {Nobody} /\ flight[d][i].what \in Requests
           /\ flight[d][i].reply \in Replies
           /\ flight[d][i].what \in SchemaRequests /\ Answered(flight[d][i]) => flight[d][i].reply[2] \in Nat
           /\ flight[d][i].who # Nobody =>
                 /\ flight[d][i].who \in Callers /\ dbOf[flight[d][i].who] = d
                 /\ i \in Own(flight[d][i].who)
                 /\ flight[d][i].what \in AskedBy(call[flight[d][i].who].op)
                 /\ call[flight[d][i].who].sent > 0
                 /\ call[flight[d][i].who].outcome = "pending"
<1>1. flight[d] \in Seq(Entry)
  BY DEF SchemaInv, SchemaType
<1>2. flight[d][i] \in Entry
  BY <1>1
<1>3. /\ flight[d][i].who \in Callers \cup {Nobody} /\ flight[d][i].what \in Requests
      /\ flight[d][i].reply \in Replies
      /\ flight[d][i].what \in SchemaRequests /\ Answered(flight[d][i]) => flight[d][i].reply[2] \in Nat
  BY <1>2 DEF Entry
<1>4. ASSUME flight[d][i].who # Nobody
      PROVE  /\ flight[d][i].who \in Callers /\ dbOf[flight[d][i].who] = d
             /\ i \in Own(flight[d][i].who)
             /\ flight[d][i].what \in AskedBy(call[flight[d][i].who].op)
             /\ call[flight[d][i].who].sent > 0
             /\ call[flight[d][i].who].outcome = "pending"
  <2> DEFINE c == flight[d][i].who
  <2>1. c \in Callers /\ dbOf[c] = d /\ flight[d][i].what \in AskedBy(call[c].op)
    BY <1>3, <1>4 DEF SchemaInv, Traced
  <2>2. i \in Own(c)
    BY <2>1 DEF Own, OwnIn
  <2> HIDE DEF c
  <2>3. call[c].sent # 0
    BY <2>1, <2>2, Unsent
  <2>4. call[c].sent \in Nat /\ (call[c].outcome # "pending" => call[c].sent = 0)
    BY <2>1, CallType DEF SchemaInv, SchemaType, Counted
  <2> QED
    BY <2>1, <2>2, <2>3, <2>4 DEF c
<1> QED
  BY <1>1, <1>2, <1>3, <1>4

\* A call that is settled.
LEMMA SettledStep ==
    ASSUME SchemaInv, NEW c \in Callers, NEW k \in CallRecord, k.sent = 0, call[c].sent = 0,
           NEW outcome \in Outcomes \ {"pending"}, Settled(c, k, outcome),
           instance' \in [Callers -> Held],
           \A x \in Callers : instance[x] # <<>> => instance'[x] # <<>>,
           outcome = "found" /\ k.of \in Whole /\ k.of[1] = "class" => instance'[c] # <<>>,
           UNCHANGED <<api, dbOf, changes, cached, flight, opened, losses>>
    PROVE  SchemaInv'
<1> DEFINE k2 == [k EXCEPT !.outcome = outcome, !.todo = <<>>]
<1>1. /\ k2 \in CallRecord /\ k2.outcome = outcome /\ k2.todo = <<>> /\ k2.sent = 0 /\ k2.op = k.op
      /\ k2.of = k.of
  BY CallEnds
<1>2. call' = [call EXCEPT ![c] = k2]
  BY DEF Settled
<1> HIDE DEF k2
<1>3. call \in [Callers -> CallRecord]
  BY DEF SchemaInv, SchemaType
<1>4. call'[c] = k2 /\ \A x \in Callers : x # c => call'[x] = call[x]
  BY <1>2, <1>3
<1>5. SchemaType'
  BY <1>1, <1>2, <1>3 DEF SchemaInv, SchemaType
<1>6. \A x \in Callers : Own(x)' = Own(x)
  BY DEF Own
<1>7. ASSUME NEW x \in Callers PROVE Counted(x)'
  <2>0. Counted(x) /\ Own(x)' = Own(x)
    BY <1>6 DEF SchemaInv
  <2>1. CASE x = c
    BY <2>0, <2>1, <1>1, <1>4 DEF Counted
  <2>2. CASE x # c
    BY <2>0, <2>2, <1>4 DEF Counted
  <2> QED
    BY <2>1, <2>2
<1>8. ASSUME NEW d \in Dbs PROVE Traced(d)'
  <2> SUFFICES ASSUME NEW i \in 1..Len(flight[d]), flight[d][i].who # Nobody
               PROVE  /\ dbOf[flight[d][i].who] = d
                      /\ flight[d][i].what \in AskedBy(call'[flight[d][i].who].op)
    BY DEF Traced
  <2>1. flight[d][i].who # c /\ flight[d][i].who \in Callers
    BY UnsentNowhere, InFlight
  <2> QED
    BY <2>1, <1>4, InFlight
<1> QED
  BY <1>5, <1>7, <1>8 DEF SchemaInv

LEMMA HeldType ==
    ASSUME SchemaInv
    PROVE  /\ instance \in [Callers -> Held]
           /\ \A c \in Callers : instance[c] # <<>> => instance[c][1] \in Names
           /\ \A d \in Dbs, k \in Kinds : cached[d][k] \in Nat \cup {Never}
           /\ \A n \in Names, v \in Nat \cup {Never} : <<n, v>> \in Held /\ <<n, v>> # <<>>
           /\ \A c \in Callers : dbOf[c] \in Dbs /\ call[c] \in CallRecord
<1>1. instance \in [Callers -> Held] /\ cached \in [Dbs -> [Kinds -> Nat \cup {Never}]]
      /\ dbOf \in [Callers -> Dbs] /\ call \in [Callers -> CallRecord]
  BY DEF SchemaInv, SchemaType
<1>2. \A h \in Held : h # <<>> => h[1] \in Names
  BY DEF Held
<1>3. \A n \in Names, v \in Nat \cup {Never} : <<n, v>> \in Held /\ <<n, v>> # <<>>
  BY DEF Held
<1> QED
  BY <1>1, <1>2, <1>3

LEMMA FinishThingStep ==
    ASSUME SchemaInv, NEW c \in Callers, NEW k \in CallRecord, k.sent = 0, call[c].sent = 0,
           k.of \in Whole, FinishThing(c, k),
           UNCHANGED <<api, dbOf, changes, cached, flight, opened, losses>>
    PROVE  SchemaInv'
<1> DEFINE v == cached[dbOf[c]][k.of[1]]
<1>1. v \in Nat \cup {Never} /\ instance \in [Callers -> Held]
  BY HeldType, KindOf
<1>2. <<k.of[2], v>> \in Held /\ <<k.of[2], v>> # <<>>
  BY <1>1, HeldType, KindOf
<1>3. {"failed", "done", "found", "missing"} \subseteq Outcomes \ {"pending"}
  BY DEF Outcomes
<1>4. CASE k.of[1] = "cluster" /\ v = Never
  BY <1>4, <1>1, <1>3, SettledStep DEF FinishThing
<1>5. CASE ~(k.of[1] = "cluster" /\ v = Never) /\ k.op \notin {"create", "update", "get"}
  BY <1>5, <1>1, <1>3, SettledStep DEF FinishThing
<1>6. CASE ~(k.of[1] = "cluster" /\ v = Never) /\ k.op \in {"create", "update", "get"}
  <2>1. /\ Settled(c, k, IF Finds(c, k.of) THEN "found" ELSE "missing")
        /\ instance' = IF k.of[1] = "class" /\ Finds(c, k.of)
                        THEN [instance EXCEPT ![c] = <<k.of[2], v>>] ELSE instance
    BY <1>6 DEF FinishThing
  <2>2. CASE Finds(c, k.of)
    <3>1. Settled(c, k, "found") /\ instance' = IF k.of[1] = "class"
                        THEN [instance EXCEPT ![c] = <<k.of[2], v>>] ELSE instance
      BY <2>1, <2>2
    <3>2. instance' \in [Callers -> Held] /\ \A x \in Callers : instance[x] # <<>> => instance'[x] # <<>>
      BY <3>1, <1>1, <1>2
    <3>3. k.of[1] = "class" => instance'[c] # <<>>
      BY <3>1, <1>1, <1>2
    <3> QED
      BY <3>1, <3>2, <3>3, <1>3, SettledStep
  <2>3. CASE ~Finds(c, k.of)
    BY <2>1, <2>3, <1>1, <1>3, SettledStep
  <2> QED
    BY <2>2, <2>3
<1> QED
  BY <1>4, <1>5, <1>6

LEMMA FinishPropertyStep ==
    ASSUME SchemaInv, NEW c \in Callers, NEW k \in CallRecord, k.sent = 0, call[c].sent = 0,
           k.of \in Parts, instance[c] # <<>>, FinishProperty(c, k),
           UNCHANGED <<api, dbOf, changes, cached, flight, opened, losses>>
    PROVE  SchemaInv'
<1> DEFINE v == cached[dbOf[c]]["class"]
<1>1. v \in Nat \cup {Never} /\ instance \in [Callers -> Held]
  BY HeldType, OpsType
<1>2. <<instance[c][1], v>> \in Held /\ <<instance[c][1], v>> # <<>>
  BY <1>1, HeldType
<1>3. {"failed", "done", "found", "missing", "gone"} \subseteq Outcomes \ {"pending"}
  BY DEF Outcomes
<1>4. k.of \notin Whole
  BY KindOf
<1>5. CASE ~Finds(c, ClassOf(k.of))
  BY <1>5, <1>1, <1>3, SettledStep DEF FinishProperty
<1>6. CASE Finds(c, ClassOf(k.of))
  <2>1. \E outcome \in Outcomes \ {"pending"} : Settled(c, k, outcome)
    BY <1>3, <1>6 DEF FinishProperty
  <2>2. Reconfigured(c, v)
    BY <1>6 DEF FinishProperty
  <2>3. instance' \in [Callers -> Held] /\ \A x \in Callers : instance[x] # <<>> => instance'[x] # <<>>
    BY <2>2, <1>1, <1>2 DEF Reconfigured
  <2> QED
    BY <2>1, <2>3, <1>4, SettledStep
<1> QED
  BY <1>5, <1>6

LEMMA SendsStep ==
    ASSUME SchemaInv, NEW c \in Callers, NEW k \in CallRecord, k.sent = 0, call[c].sent = 0,
           k.outcome = "pending", k.op # "none",
           k.op = "statement" => Len(k.todo) = 1 /\ Len(k.todo[1]) = 1,
           k.of \in Parts => instance[c] # <<>>,
           Sends(c, k), UNCHANGED <<api, dbOf, changes, cached, instance, losses>>
    PROVE  SchemaInv'
<1>0. /\ call \in [Callers -> CallRecord] /\ flight \in [Dbs -> Seq(Entry)] /\ opened \in [Dbs -> BOOLEAN]
      /\ dbOf[c] \in Dbs /\ dbOf \in [Callers -> Dbs]
  BY DEF SchemaInv, SchemaType
<1>1. CASE k.todo = <<>>
  <2>1. call' = [call EXCEPT ![c] = k] /\ UNCHANGED <<flight, opened>>
    BY <1>1 DEF Sends
  <2>2. k.op # "statement"
    BY <1>1
  <2>3. call'[c] = k /\ \A x \in Callers : x # c => call'[x] = call[x]
    BY <2>1, <1>0
  <2>4. SchemaType'
    BY <2>1, <1>0 DEF SchemaInv, SchemaType
  <2>5. \A x \in Callers : Own(x)' = Own(x)
    BY <2>1 DEF Own
  <2>6. ASSUME NEW x \in Callers PROVE Counted(x)'
    <3>0. Counted(x) /\ Own(x)' = Own(x)
      BY <2>5 DEF SchemaInv
    <3>1. CASE x = c
      BY <3>0, <3>1, <2>2, <2>3 DEF Counted
    <3>2. CASE x # c
      BY <3>0, <3>2, <2>3 DEF Counted
    <3> QED
      BY <3>1, <3>2
  <2>7. ASSUME NEW d \in Dbs PROVE Traced(d)'
    <3> SUFFICES ASSUME NEW i \in 1..Len(flight[d]), flight[d][i].who # Nobody
                 PROVE  /\ dbOf[flight[d][i].who] = d
                        /\ flight[d][i].what \in AskedBy(call'[flight[d][i].who].op)
      BY <2>1 DEF Traced
    <3>1. flight[d][i].who # c /\ flight[d][i].who \in Callers
      BY UnsentNowhere, InFlight
    <3> QED
      BY <3>1, <2>3, InFlight
  <2> QED
    BY <2>4, <2>6, <2>7 DEF SchemaInv
<1>2. CASE k.todo # <<>>
  <2> DEFINE rs == Head(k.todo)
             rest == Tail(k.todo)
             n == Len(rs)
             k2 == [k EXCEPT !.todo = rest, !.sent = n]
             D == dbOf[c]
             a == Reopening(c)
             b == Tagged(c, rs)
  <2>1. /\ call' = [call EXCEPT ![c] = k2]
        /\ flight' = [flight EXCEPT ![D] = @ \o a \o b]
        /\ opened' = [opened EXCEPT ![D] = TRUE]
    BY <1>2 DEF Sends
  <2>2. /\ Len(k.todo) = 1 => rs = k.todo[1] /\ rest = <<>>
        /\ k.todo \in Seq(Seq(AskedBy(k.op)))
        /\ rs \in Seq(AskedBy(k.op)) /\ rest \in Seq(Seq(AskedBy(k.op))) /\ n \in Nat /\ n = Len(rs)
    <3> DEFINE Q == Seq(AskedBy(k.op))
               s == k.todo
    <3>1. s \in Seq(Q) /\ s # <<>>
      BY CallType, <1>2
    <3>2. \A q \in Q : Len(q) \in Nat
      OBVIOUS
    <3> HIDE DEF Q, s
    <3>3. Head(s) \in Q /\ Tail(s) \in Seq(Q) /\ Head(s) = s[1]
      BY <3>1, HeadTailProperties
    <3>4. Len(s) = 1 => Len(Tail(s)) = 0
      BY <3>1, HeadTailProperties
    <3>5. Len(s) = 1 => Tail(s) = <<>>
      BY <3>3, <3>4, EmptySeq
    <3> QED
      BY <3>1, <3>2, <3>3, <3>5 DEF Q, s
  <2>3. rs \in Seq(Requests)
    BY <2>2, AskedType, SeqMonotonic
  <2> HIDE DEF rs, rest, n
  <2>4. /\ k2 \in CallRecord /\ k2.todo = rest /\ k2.sent = n /\ k2.op = k.op
        /\ k2.of = k.of /\ k2.outcome = k.outcome
    <3>0. AskedBy(k.op) \subseteq Requests
      BY AskedType
    <3>1. rest \in Seq(Seq(AskedBy(k.op))) /\ n \in Nat /\ rest \in Seq(Seq(Requests))
      BY <2>2, <3>0, SeqMonotonic
    <3>2. k \in [op : CallOps, of : Named \cup {<<>>}, todo : Seq(Seq(Requests)), sent : Nat,
                  made : Nat, got : Answers, outcome : Outcomes]
      BY DEF CallRecord
    <3>3. /\ k2.todo = rest /\ k2.sent = n /\ k2.op = k.op /\ k2.of = k.of /\ k2.outcome = k.outcome
      BY <3>2
    <3>4. k2 \in [op : CallOps, of : Named \cup {<<>>}, todo : Seq(Seq(Requests)), sent : Nat,
                  made : Nat, got : Answers, outcome : Outcomes]
      BY <3>1, <3>2
    <3> HIDE DEF k2
    <3>5. k2.op \notin {"none", "statement"} => k2.of \in Named
      BY <3>3, CallType
    <3>6. k2.todo \in Seq(Seq(AskedBy(k2.op)))
      BY <3>1, <3>3
    <3> QED
      BY <3>3, <3>4, <3>5, <3>6 DEF CallRecord
  <2>5. k.op = "statement" => n = 1 /\ rest = <<>>
    BY <2>2
  <2> HIDE DEF k2
  <2>6. /\ a \in Seq(Entry) /\ \A i \in 1..Len(a) : a[i].who = Nobody
        /\ \A x \in Callers : Cardinality(OwnIn(a, x)) = 0
    <3>1. CASE opened[D]
      <4>1. a = <<>>
        BY <3>1 DEF Reopening
      <4>2. \A x : OwnIn(<<>>, x) = {}
        BY DEF OwnIn
      <4>3. <<>> \in Seq(Entry) /\ \A i \in 1..Len(<<>>) : FALSE
        OBVIOUS
      <4> HIDE DEF a
      <4> QED
        BY <4>1, <4>2, <4>3, FS_EmptySet
    <3>2. CASE ~opened[D]
      <4>1. a = Tagged(Nobody, One(List("cluster")))
        BY <3>2 DEF Reopening
      <4>2. One(List("cluster")) \in Seq(Requests)
        BY OpsType, RequestType, Stage
      <4> QED
        BY <4>1, <4>2, TaggedType, SchemaAssumption
    <3> QED
      BY <3>1, <3>2
  <2>7. /\ b \in Seq(Entry) /\ Len(b) = n /\ n \in Nat
        /\ \A i \in 1..n : b[i].who = c /\ b[i].what = rs[i]
        /\ \A x : Cardinality(OwnIn(b, x)) = IF x = c THEN n ELSE 0
    BY <2>2, <2>3, TaggedType
  <2> HIDE DEF a, b
  <2> DEFINE s == flight[D] \o a
             t == s \o b
  <2>8. /\ flight[D] \in Seq(Entry) /\ s \in Seq(Entry) /\ t \in Seq(Entry)
        /\ \A x : /\ Cardinality(OwnIn(s, x)) = Cardinality(OwnIn(flight[D], x)) + Cardinality(OwnIn(a, x))
                  /\ Cardinality(OwnIn(t, x)) = Cardinality(OwnIn(s, x)) + Cardinality(OwnIn(b, x))
    <3>1. flight[D] \in Seq(Entry)
      BY <1>0
    <3>2. s \in Seq(Entry)
      BY <3>1, <2>6, ConcatProperties
    <3>3. t \in Seq(Entry)
      BY <3>2, <2>7, ConcatProperties
    <3>4. \A x : Cardinality(OwnIn(s, x)) = Cardinality(OwnIn(flight[D], x)) + Cardinality(OwnIn(a, x))
      BY <3>1, <2>6, OwnAppended
    <3> HIDE DEF s
    <3>5. \A x : Cardinality(OwnIn(t, x)) = Cardinality(OwnIn(s, x)) + Cardinality(OwnIn(b, x))
      BY <3>2, <2>7, OwnAppended
    <3> QED
      BY <3>1, <3>2, <3>3, <3>4, <3>5
  <2>9. \A i \in 1..Len(t) : \/ i \in 1..Len(flight[D]) /\ t[i] = flight[D][i]
                             \/ t[i].who = Nobody
                             \/ t[i].who = c /\ t[i].what \in AskedBy(k.op)
    <3>1. /\ Len(s) = Len(flight[D]) + Len(a)
          /\ \A i \in 1..Len(flight[D]) : s[i] = flight[D][i]
          /\ \A i \in 1..Len(a) : s[Len(flight[D]) + i] = a[i]
      BY <2>6, <2>8, ConcatProperties
    <3>2. /\ Len(flight[D]) \in Nat /\ Len(a) \in Nat /\ n \in Nat /\ Len(s) \in Nat
      BY <2>2, <2>6, <2>8
    <3> HIDE DEF s
    <3>3. /\ Len(t) = Len(s) + Len(b)
          /\ \A i \in 1..Len(s) : t[i] = s[i]
          /\ \A i \in 1..Len(b) : t[Len(s) + i] = b[i]
      <4>1. s \in Seq(Entry) /\ b \in Seq(Entry)
        BY <2>7, <2>8
      <4> QED
        BY <4>1, ConcatProperties
    <3> HIDE DEF t
    <3> TAKE i \in 1..Len(t)
    <3>4. CASE i <= Len(flight[D])
      BY <3>1, <3>2, <3>3, <3>4
    <3>5. CASE ~(i <= Len(flight[D])) /\ i <= Len(s)
      <4> DEFINE j == i - Len(flight[D])
      <4>1. j \in 1..Len(a) /\ Len(flight[D]) + j = i /\ i \in 1..Len(s)
        BY <3>1, <3>2, <3>5, SMTT(30)
      <4> HIDE DEF j
      <4>2. t[i] = a[j]
        BY <4>1, <3>1, <3>3
      <4> QED
        BY <4>1, <4>2, <2>6
    <3>6. CASE ~(i <= Len(s))
      <4> DEFINE j == i - Len(s)
      <4>1. j \in 1..n /\ Len(s) + j = i
        BY <3>2, <3>3, <3>6, <2>7
      <4> HIDE DEF j
      <4>2. t[i] = b[j]
        BY <4>1, <3>3, <2>7
      <4>3. rs[j] \in AskedBy(k.op)
        BY <4>1, <2>2
      <4> QED
        BY <4>1, <4>2, <4>3, <2>7
    <3> QED
      BY <3>4, <3>5, <3>6
  <2>10. flight' = [flight EXCEPT ![D] = t]
    BY <2>1
  <2> HIDE DEF t, s
  <2>11. flight'[D] = t /\ \A d \in Dbs : d # D => flight'[d] = flight[d]
    BY <2>10, <1>0
  <2>12. call'[c] = k2 /\ \A x \in Callers : x # c => call'[x] = call[x]
    BY <2>1, <1>0
  <2>13. SchemaType'
    <3>1. call' \in [Callers -> CallRecord] /\ opened' \in [Dbs -> BOOLEAN]
      BY <2>1, <2>4, <1>0
    <3>2. flight' \in [Dbs -> Seq(Entry)]
      BY <2>8, <2>10, <1>0
    <3> QED
      BY <3>1, <3>2 DEF SchemaInv, SchemaType
  <2>14. ASSUME NEW x \in Callers
         PROVE  Cardinality(Own(x)') = Cardinality(Own(x)) + (IF x = c THEN n ELSE 0)
    <3>1. Own(x)' = OwnIn(flight'[dbOf[x]], x) /\ dbOf[x] \in Dbs
      BY <1>0 DEF Own
    <3>0. Cardinality(OwnIn(flight[dbOf[x]], x)) \in Nat
      BY <3>1, <1>0, OwnType
    <3>2. CASE dbOf[x] = D
      <4>1. Cardinality(Own(x)') = Cardinality(OwnIn(flight[D], x)) + Cardinality(OwnIn(a, x)) + Cardinality(OwnIn(b, x))
        BY <3>1, <3>2, <2>8, <2>11
      <4>2. Cardinality(OwnIn(a, x)) = 0 /\ Cardinality(OwnIn(b, x)) = IF x = c THEN n ELSE 0
        BY <2>6, <2>7
      <4> QED
        BY <4>1, <4>2, <3>0, <3>2 DEF Own
    <3>3. CASE dbOf[x] # D
      BY <3>0, <3>1, <3>3, <2>11 DEF Own
    <3> QED
      BY <3>2, <3>3
  <2>15. ASSUME NEW x \in Callers PROVE Counted(x)'
    <3>0. Counted(x)
      BY DEF SchemaInv
    <3>1. CASE x = c
      <4>1. Cardinality(Own(c)') = n
        BY <3>0, <3>1, <2>14, <2>2 DEF Counted
      <4> QED
        BY <3>0, <3>1, <4>1, <2>4, <2>5, <2>12 DEF Counted
    <3>2. CASE x # c
      <4>1. Cardinality(Own(x)') = Cardinality(Own(x))
        BY <1>0, OwnType, <3>2, <2>14 DEF Own
      <4> QED
        BY <3>0, <3>2, <4>1, <2>12 DEF Counted
    <3> QED
      BY <3>1, <3>2
  <2>16. ASSUME NEW d \in Dbs PROVE Traced(d)'
    <3> SUFFICES ASSUME NEW i \in 1..Len(flight'[d]), flight'[d][i].who # Nobody
                 PROVE  /\ dbOf[flight'[d][i].who] = d
                        /\ flight'[d][i].what \in AskedBy(call'[flight'[d][i].who].op)
      BY DEF Traced
    <3>1. CASE i \in 1..Len(flight[d]) /\ flight'[d][i] = flight[d][i]
      BY <3>1, UnsentNowhere, InFlight, <2>12
    <3>2. CASE d = D /\ flight'[d][i].who = c /\ flight'[d][i].what \in AskedBy(k.op)
      BY <3>2, <2>4, <2>12
    <3> QED
      BY <3>1, <3>2, <2>9, <2>11
  <2> QED
    BY <2>13, <2>15, <2>16 DEF SchemaInv
<1> QED
  BY <1>1, <1>2

Fresh(op, t, stages) == [NoCall EXCEPT !.op = op, !.of = t, !.todo = stages, !.outcome = "pending"]

LEMMA NewCall ==
    ASSUME NEW op, NEW t, NEW stages, Begins(op, t, stages)
    PROVE  LET k == Fresh(op, t, stages) IN
           /\ k \in CallRecord /\ k.op = op /\ k.of = t /\ k.todo = stages /\ k.outcome = "pending"
           /\ k.sent = 0 /\ k.made = 0
           /\ op # "none" /\ (t \in Whole \/ stages # <<>>)
           /\ op = "statement" => Len(stages) = 1 /\ Len(stages[1]) = 1
<1> DEFINE k == Fresh(op, t, stages)
<1>1. /\ op \in CallOps /\ op # "none" /\ t \in Named \cup {<<>>}
      /\ stages \in Seq(Seq(AskedBy(op)))
      /\ op # "statement" => t \in Named
      /\ t \in Whole \/ stages # <<>>
      /\ op = "statement" => Len(stages) = 1 /\ Len(stages[1]) = 1
  <2>1. CASE Plan(op, t, stages)
    BY <2>1 DEF Plan
  <2>2. CASE op = "statement" /\ t = <<>> /\ \E r \in Statements : stages = <<One(r)>>
    <3>1. PICK r \in Statements : stages = <<One(r)>>
      BY <2>2
    <3>2. AskedBy(op) = Statements
      BY <2>2, AskedType
    <3>3. stages \in Seq(Seq(AskedBy(op))) /\ Len(stages) = 1 /\ stages[1] = One(r)
      BY <3>1, <3>2, Stage
    <3>4. Len(One(r)) = 1
      BY DEF One
    <3>5. stages # <<>>
      BY <3>3
    <3> QED
      BY <2>2, <3>3, <3>4, <3>5 DEF CallOps
  <2> QED
    BY <2>1, <2>2 DEF Begins
<1>2. stages \in Seq(Seq(Requests))
  BY <1>1, AskedType, SeqMonotonic
<1>3. NoCall \in [op : {"none"}, of : {<<>>}, todo : {<<>>}, sent : {0}, made : {0}, got : {<<>>},
                   outcome : {"none"}]
  BY DEF NoCall
<1>5. /\ k.op = op /\ k.of = t /\ k.todo = stages /\ k.outcome = "pending" /\ k.sent = 0 /\ k.made = 0
  BY <1>3 DEF Fresh
<1>4. k \in [op : CallOps, of : Named \cup {<<>>}, todo : Seq(Seq(Requests)), sent : Nat,
             made : Nat, got : Answers, outcome : Outcomes]
  <2>1. <<>> \in Answers /\ "pending" \in Outcomes /\ 0 \in Nat
    BY DEF Answers, Outcomes
  <2> DEFINE R == [op : CallOps, of : Named \cup {<<>>}, todo : Seq(Seq(Requests)), sent : Nat,
                   made : Nat, got : Answers, outcome : Outcomes]
  <2>2. NoCall \in R
    BY <2>1 DEF CallOps, Outcomes, NoCall
  <2>3. [NoCall EXCEPT !.op = op] \in R
    BY <2>2, <1>1
  <2>4. [NoCall EXCEPT !.op = op, !.of = t] \in R
    BY <2>2, <1>1
  <2>5. [NoCall EXCEPT !.op = op, !.of = t, !.todo = stages] \in R
    BY <2>2, <1>1, <1>2
  <2>6. [NoCall EXCEPT !.op = op, !.of = t, !.todo = stages, !.outcome = "pending"] \in R
    BY <2>1, <2>2, <1>1, <1>2
  <2> QED
    BY <2>6 DEF Fresh
<1> HIDE DEF k
<1>6. k \in CallRecord
  BY <1>4, <1>1, <1>5 DEF CallRecord
<1> QED
  BY <1>1, <1>5, <1>6 DEF k

LEMMA StartStep ==
    ASSUME SchemaInv, NEW c \in Callers, NEW op, NEW t, NEW stages, Begins(op, t, stages),
           t \in Parts => instance[c] # <<>>,
           Start(c, op, t, stages)
    PROVE  SchemaInv'
<1> DEFINE k == Fresh(op, t, stages)
<1>1. /\ k \in CallRecord /\ k.op = op /\ k.of = t /\ k.todo = stages /\ k.outcome = "pending"
      /\ k.sent = 0 /\ op # "none" /\ (t \in Whole \/ stages # <<>>)
      /\ op = "statement" => Len(stages) = 1 /\ Len(stages[1]) = 1
  BY NewCall
<1>2. /\ call[c].outcome # "pending"
      /\ IF stages = <<>> /\ HasCached(c, t[1]) THEN FinishThing(c, k) /\ UNCHANGED <<flight, opened>>
         ELSE Sends(c, k) /\ UNCHANGED instance
      /\ UNCHANGED <<api, dbOf, changes, cached, losses>>
  BY DEF Start, Fresh
<1>3. call[c].sent = 0
  BY <1>2 DEF SchemaInv, Counted
<1> HIDE DEF k
<1>4. CASE stages = <<>> /\ HasCached(c, t[1])
  BY <1>1, <1>2, <1>3, <1>4, FinishThingStep
<1>5. CASE ~(stages = <<>> /\ HasCached(c, t[1]))
  BY <1>1, <1>2, <1>3, <1>5, SendsStep
<1> QED
  BY <1>4, <1>5

LEMMA ContinueStep ==
    ASSUME SchemaInv, NEW c \in Callers, Continue(c)
    PROVE  SchemaInv'
<1> DEFINE k == call[c]
<1>1. k \in CallRecord /\ instance \in [Callers -> Held]
  BY HeldType
<1>2. k.outcome = "pending" /\ k.sent = 0 /\ UNCHANGED <<api, dbOf, changes, cached, losses>>
  BY DEF Continue
<1>3. k.op # "none" /\ k.op # "statement" /\ (k.of \in Parts => instance[c] # <<>>)
  BY <1>2 DEF SchemaInv, Counted
<1>4. k.of \in Named
  BY <1>1, <1>3, CallType
<1>5. CASE Unknown(c)
  BY <1>1, <1>2, <1>5, SettledStep DEF Continue, Outcomes
<1>6. CASE ~Unknown(c) /\ k.todo # <<>>
  BY <1>1, <1>2, <1>3, <1>6, SendsStep DEF Continue
<1>7. CASE ~Unknown(c) /\ k.todo = <<>>
  <2>1. /\ UNCHANGED <<flight, opened>>
        /\ IF k.of[1] = "property" THEN FinishProperty(c, k) ELSE FinishThing(c, k)
    BY <1>7 DEF Continue
  <2>2. CASE k.of[1] = "property"
    <3>1. k.of \in Parts
      BY <2>2, <1>4, KindOf DEF Named
    <3> QED
      BY <3>1, <2>1, <2>2, <1>1, <1>2, <1>3, FinishPropertyStep
  <2>3. CASE k.of[1] # "property"
    <3>1. k.of \in Whole
      BY <2>3, <1>4, KindOf DEF Named
    <3> QED
      BY <3>1, <2>1, <2>3, <1>1, <1>2, FinishThingStep
  <2> QED
    BY <2>2, <2>3
<1> QED
  BY <1>5, <1>6, <1>7

\* The server answers.
LEMMA ServedStep ==
    ASSUME SchemaInv, NEW d \in Dbs, NEW i, NEW reply \in Replies, Served(d, i, reply),
           flight[d][i].what \in SchemaRequests => reply \in {<<>>, Refused} \cup ({"ok"} \X Nat),
           changes' \in Seq([removed : SUBSET Named, added : SUBSET Named]),
           UNCHANGED <<api, dbOf, cached, call, instance, opened, losses>>
    PROVE  SchemaInv'
<1>0. /\ flight \in [Dbs -> Seq(Entry)] /\ flight[d] \in Seq(Entry) /\ i \in 1..Len(flight[d])
      /\ flight' = [flight EXCEPT ![d][i].reply = reply]
      /\ dbOf \in [Callers -> Dbs]
  BY DEF SchemaInv, SchemaType, Served
<1> DEFINE t == Answer(flight[d], i, reply)
<1>1. /\ t \in Seq(Entry) /\ Len(t) = Len(flight[d])
      /\ \A j \in 1..Len(flight[d]) : t[j].who = flight[d][j].who /\ t[j].what = flight[d][j].what
      /\ \A c : OwnIn(t, c) = OwnIn(flight[d], c)
  BY <1>0, AnsweredType
<1>2. flight' = [flight EXCEPT ![d] = t]
  BY <1>0 DEF Answer
<1> HIDE DEF t
<1>3. flight'[d] = t /\ \A x \in Dbs : x # d => flight'[x] = flight[x]
  BY <1>0, <1>2
<1>4. SchemaType'
  BY <1>0, <1>1, <1>2 DEF SchemaInv, SchemaType
<1>5. ASSUME NEW c \in Callers PROVE Counted(c)'
  <2>1. Own(c)' = Own(c)
    BY <1>0, <1>1, <1>3 DEF Own
  <2>2. Counted(c)
    BY DEF SchemaInv
  <2> QED
    BY <2>1, <2>2 DEF Counted
<1>6. ASSUME NEW x \in Dbs PROVE Traced(x)'
  <2>1. Traced(x)
    BY DEF SchemaInv
  <2> QED
    BY <2>1, <1>1, <1>3 DEF Traced
<1> QED
  BY <1>4, <1>5, <1>6 DEF SchemaInv

LEMMA PartsType ==
    ASSUME NEW t \in Named
    PROVE  PartsOf(t) \subseteq Named
<1>1. CASE t[1] = "class"
  BY <1>1, KindOf, ThingType DEF Named, PartsOf
<1>2. CASE t[1] # "class"
  BY <1>2 DEF PartsOf
<1> QED
  BY <1>1, <1>2

LEMMA ServeStep ==
    ASSUME SchemaInv, NEW d \in Dbs, NEW i, Serve(d, i)
    PROVE  SchemaInv'
<1> DEFINE r == flight[d][i].what
           v == Len(changes)
           T == [removed : SUBSET Named, added : SUBSET Named]
<1>1. i \in 1..Len(flight[d]) /\ r.op \in SchemaOps
      /\ UNCHANGED <<api, dbOf, cached, call, instance, opened, calls, losses>>
  BY DEF Serve
<1>2. r \in Requests /\ changes \in Seq(T) /\ v \in Nat
  BY <1>1, InFlight DEF SchemaInv, SchemaType
<1>3. r \in SchemaRequests /\ (r.op # "list" => r.of \in Named /\ r.to \in Named)
  BY <1>1, <1>2, StatementType
<1>4. /\ Refused \in Replies /\ <<"ok", v>> \in {"ok"} \X Nat /\ <<"ok", v + 1>> \in {"ok"} \X Nat
      /\ ({"ok"} \X Nat) \subseteq Replies
  BY <1>2 DEF Replies, Answers
<1> HIDE DEF v, T
<1>5. CASE ~Possible(r)
  <2>1. Served(d, i, Refused) /\ UNCHANGED changes
    BY <1>5 DEF Serve, Refused
  <2> QED
    BY <2>1, <1>1, <1>2, <1>4, ServedStep DEF T
<1>6. CASE Possible(r) /\ r.op \in {"create", "drop", "rename"}
  <2> DEFINE x == [removed |-> IF r.op = "create" THEN {} ELSE PartsOf(r.of),
                   added |-> IF r.op = "drop" THEN {} ELSE {r.to}]
  <2>1. changes' = Append(changes, x) /\ Served(d, i, <<"ok", v + 1>>)
    BY <1>6 DEF Serve, v
  <2>2. x \in T
    BY <1>3, <1>6, PartsType DEF T
  <2> HIDE DEF x
  <2>3. changes' \in Seq(T)
    BY <2>1, <2>2, <1>2
  <2> QED
    BY <2>1, <2>3, <1>1, <1>4, ServedStep DEF T
<1>7. CASE Possible(r) /\ r.op \notin {"create", "drop", "rename"}
  <2>1. Served(d, i, <<"ok", v>>) /\ UNCHANGED changes
    BY <1>7 DEF Serve, v
  <2> QED
    BY <2>1, <1>1, <1>2, <1>4, ServedStep DEF T
<1> QED
  BY <1>5, <1>6, <1>7

LEMMA ServeStatementStep ==
    ASSUME SchemaInv, records \in [Known -> Nat], NEW d \in Dbs, NEW i, ServeStatement(d, i)
    PROVE  SchemaInv'
<1>1. /\ i \in 1..Len(flight[d]) /\ flight[d][i].what.op \notin SchemaOps
      /\ UNCHANGED <<api, dbOf, changes, cached, call, instance, opened, losses>>
  BY DEF ServeStatement
<1>2. flight[d][i].what \notin SchemaRequests
  BY <1>1, StatementType
<1>3. \E reply \in Replies : Served(d, i, reply)
  BY DEF Replies, Answers, ServeStatement, Refused
<1>4. changes' \in Seq([removed : SUBSET Named, added : SUBSET Named])
  BY <1>1 DEF SchemaInv, SchemaType
<1> QED
  BY <1>1, <1>2, <1>3, <1>4, ServedStep

LEMMA HeardType ==
    ASSUME NEW k \in CallRecord, NEW e \in Entry, k.sent > 0, Answered(e), e.what \in AskedBy(k.op)
    PROVE  LET x == Heard(k, e) IN
           /\ x \in CallRecord /\ x.op = k.op /\ x.of = k.of /\ x.todo = k.todo /\ x.sent = k.sent - 1
           /\ x.made = IF e.what.op \in Changing /\ k.made = 0 THEN e.reply[2] ELSE k.made
           /\ x.got = IF e.what \in SchemaRequests THEN k.got ELSE e.reply[2]
           /\ x.outcome = IF e.what \in SchemaRequests THEN k.outcome ELSE "done"
<1> DEFINE R == [op : CallOps, of : Named \cup {<<>>}, todo : Seq(Seq(Requests)), sent : Nat,
                 made : Nat, got : Answers, outcome : Outcomes]
           x == Heard(k, e)
           r == e.reply
<1>1. k \in R /\ k.sent - 1 \in Nat
  BY DEF CallRecord
<1>2. /\ r \in {"ok"} \X Answers
      /\ e.what \in Requests /\ (e.what \in SchemaRequests => r[2] \in Nat)
  BY DEF Entry, Answered, Replies
<1> HIDE DEF r
<1>3. /\ r[2] \in Answers /\ (e.what.op \in SchemaOps <=> e.what \in SchemaRequests)
      /\ (e.what.op \in Changing => r[2] \in Nat) /\ "done" \in Outcomes
  BY <1>2, StatementType DEF Changing, SchemaOps, Outcomes
<1> DEFINE sent == k.sent - 1
           made == IF e.what.op \in Changing /\ k.made = 0 THEN r[2] ELSE k.made
           got == IF e.what.op \in SchemaOps THEN k.got ELSE r[2]
           outcome == IF e.what.op \in SchemaOps THEN k.outcome ELSE "done"
<1>4. sent \in Nat /\ made \in Nat /\ got \in Answers /\ outcome \in Outcomes
  BY <1>1, <1>3
<1>5. x = [k EXCEPT !.sent = sent, !.made = made, !.got = got, !.outcome = outcome]
  BY <1>1 DEF Heard, Changing, r
<1> HIDE DEF x, sent, made, got, outcome
<1>6. x \in R /\ x.op = k.op /\ x.of = k.of /\ x.todo = k.todo /\ x.sent = sent /\ x.made = made /\ x.got = got
      /\ x.outcome = outcome
  BY <1>1, <1>4, <1>5
<1>7. x \in CallRecord
  BY <1>6, CallType DEF CallRecord
<1> QED
  BY <1>3, <1>6, <1>7 DEF x, sent, made, got, outcome, r

LEMMA FailedType ==
    ASSUME NEW k \in CallRecord
    PROVE  LET x == Failed(k) IN
           /\ x \in CallRecord /\ x.op = k.op /\ x.of = k.of /\ x.got = k.got /\ x.made = k.made
           /\ x.todo = <<>> /\ x.sent = 0 /\ x.outcome = "failed"
BY CallFails DEF Failed

\* What is left in flight when a request is taken from it, and its caller, or
\* nobody, is told.
Taken(d, i, k, s) == LET who == flight[d][i].who IN
    /\ who = Nobody => \/ s = RemoveAt(flight[d], i)
                       \/ \E W \in {{}, {Nobody}} : s = Disowned(RemoveAt(flight[d], i), W)
    /\ who # Nobody => k.op = call[who].op /\ k.of = call[who].of
              /\ \/ k.outcome = "failed" /\ k.sent = 0 /\ k.todo = <<>>
                       /\ s = Disowned(RemoveAt(flight[d], i), {who})
                 \/ /\ k.sent = call[who].sent - 1 /\ k.todo = call[who].todo
                    /\ k.outcome = IF k.op = "statement" THEN "done" ELSE "pending"
                    /\ s = RemoveAt(flight[d], i)

LEMMA TakenStep ==
    ASSUME SchemaInv, NEW d \in Dbs, NEW i \in 1..Len(flight[d]),
           NEW s \in Seq(Entry), flight' = [flight EXCEPT ![d] = s],
           NEW k \in CallRecord,
           call' = IF flight[d][i].who = Nobody THEN call ELSE [call EXCEPT ![flight[d][i].who] = k],
           Taken(d, i, k, s),
           cached' \in [Dbs -> [Kinds -> Nat \cup {Never}]], opened' \in [Dbs -> BOOLEAN], losses' \in Nat,
           UNCHANGED <<api, dbOf, changes, instance>>
    PROVE  SchemaInv'
<1> DEFINE t == RemoveAt(flight[d], i)
           who == flight[d][i].who
<1>a. /\ who \in Callers \cup {Nobody}
      /\ call' = IF who = Nobody THEN call ELSE [call EXCEPT ![who] = k]
  BY InFlight
<1>b. who # Nobody => k.op = call[who].op /\ k.of = call[who].of
              /\ \/ k.outcome = "failed" /\ k.sent = 0 /\ k.todo = <<>> /\ s = Disowned(t, {who})
                 \/ /\ k.sent = call[who].sent - 1 /\ k.todo = call[who].todo
                    /\ k.outcome = IF k.op = "statement" THEN "done" ELSE "pending"
                    /\ s = t
  BY DEF Taken
<1>c. s = t \/ \E W \in {{}, {who}} : s = Disowned(t, W)
  BY <1>b DEF Taken
<1>0. /\ call \in [Callers -> CallRecord] /\ flight \in [Dbs -> Seq(Entry)] /\ dbOf \in [Callers -> Dbs]
      /\ flight[d] \in Seq(Entry) /\ Len(flight[d]) \in Nat
  BY DEF SchemaInv, SchemaType
<1>1. /\ t \in Seq(Entry) /\ Len(t) = Len(flight[d]) - 1
      /\ \A j \in 1..(Len(flight[d]) - 1) : t[j] = IF j < i THEN flight[d][j] ELSE flight[d][j + 1]
  BY <1>0, Removal
<1>2. \A c : Cardinality(OwnIn(t, c)) =
                IF who = c THEN Cardinality(OwnIn(flight[d], c)) - 1 ELSE Cardinality(OwnIn(flight[d], c))
  BY <1>0, OwnRemoved
<1>3. \A j \in 1..Len(t) : \E l \in 1..Len(flight[d]) : t[j] = flight[d][l]
  <2> TAKE j \in 1..Len(t)
  <2>1. j \in 1..(Len(flight[d]) - 1) /\ j \in 1..Len(flight[d]) /\ j + 1 \in 1..Len(flight[d])
    BY <1>0, <1>1
  <2> QED
    BY <2>1, <1>1
<1>d. who # Nobody => who \in Callers /\ dbOf[who] = d /\ call[who].sent > 0 /\ call[who].outcome = "pending"
  BY InFlight
<1> HIDE DEF t, who
<1>4. \E W : s = Disowned(t, W) \/ s = t
  BY <1>c
<1>5. \A j \in 1..Len(s) : \E l \in 1..Len(flight[d]) :
         /\ s[j].what = flight[d][l].what
         /\ s[j].who = Nobody \/ s[j].who = flight[d][l].who
  <2>1. CASE s = t
    BY <2>1, <1>3
  <2>2. ASSUME NEW W, s = Disowned(t, W)
        PROVE  \A j \in 1..Len(s) : \E l \in 1..Len(flight[d]) :
                  /\ s[j].what = flight[d][l].what
                  /\ s[j].who = Nobody \/ s[j].who = flight[d][l].who
    <3>1. /\ Len(s) = Len(t)
          /\ \A j \in 1..Len(t) : /\ s[j].who = IF t[j].who \in W THEN Nobody ELSE t[j].who
                                  /\ s[j].what = t[j].what
      <4>1. t \in Seq(Entry)
        BY <1>1
      <4> QED
        BY <4>1, <2>2, DisownedType
    <3> TAKE j \in 1..Len(s)
    <3>2. j \in 1..Len(t)
      BY <3>1
    <3>3. PICK l \in 1..Len(flight[d]) : t[j] = flight[d][l]
      BY <3>2, <1>3
    <3>4. s[j].what = t[j].what /\ (s[j].who = Nobody \/ s[j].who = t[j].who)
      BY <3>1, <3>2
    <3> QED
      BY <3>3, <3>4
  <2> QED
    BY <2>1, <2>2, <1>4
<1>6. flight'[d] = s /\ \A x \in Dbs : x # d => flight'[x] = flight[x]
  BY <1>0
<1>7. /\ \A x \in Callers : x # who => call'[x] = call[x]
      /\ who # Nobody => call'[who] = k
  BY <1>0, <1>a, SchemaAssumption
<1>8. SchemaType'
  BY <1>0, <1>a DEF SchemaInv, SchemaType
<1>9. \A x \in Callers : call'[x].op = call[x].op
  BY <1>7, <1>b, SchemaAssumption
<1>10. ASSUME NEW x \in Dbs PROVE Traced(x)'
  <2> SUFFICES ASSUME NEW j \in 1..Len(flight'[x]), flight'[x][j].who # Nobody
               PROVE  /\ dbOf[flight'[x][j].who] = x
                      /\ flight'[x][j].what \in AskedBy(call'[flight'[x][j].who].op)
    BY DEF Traced
  <2>1. \E l \in 1..Len(flight[x]) : flight'[x][j].what = flight[x][l].what /\ flight'[x][j].who = flight[x][l].who
    BY <1>5, <1>6
  <2> QED
    BY <2>1, <1>9, InFlight, SMTT(30)
<1>11. ASSUME NEW x \in Callers, x # who PROVE Cardinality(Own(x)') = Cardinality(Own(x))
  <2>1. Own(x)' = OwnIn(flight'[dbOf[x]], x) /\ Own(x) = OwnIn(flight[dbOf[x]], x) /\ dbOf[x] \in Dbs
    BY <1>0 DEF Own
  <2>2. CASE dbOf[x] # d
    BY <2>1, <2>2, <1>6
  <2>3. CASE dbOf[x] = d
    <3>1. OwnIn(s, x) = OwnIn(t, x)
      BY <1>11, <1>c, <1>1, DisownedType
    <3> QED
      BY <3>1, <2>1, <2>3, <1>2, <1>6, <1>11
  <2> QED
    BY <2>2, <2>3
<1>12. ASSUME NEW x \in Callers PROVE Counted(x)'
  <2>0. Counted(x)
    BY DEF SchemaInv
  <2>1. CASE x # who
    BY <2>0, <2>1, <1>7, <1>11 DEF Counted
  <2>2. CASE x = who
    <3>1. dbOf[x] = d /\ call[x].sent > 0 /\ call[x].outcome = "pending" /\ call'[x] = k
      BY <2>2, <1>7, <1>d, SchemaAssumption
    <3>2. Own(x)' = OwnIn(s, x) /\ Own(x) = OwnIn(flight[d], x)
      BY <3>1, <1>6 DEF Own
    <3>3. x # Nobody
      BY SchemaAssumption
    <3>4. CASE k.outcome = "failed" /\ k.sent = 0 /\ k.todo = <<>> /\ s = Disowned(t, {who})
      <4>1. OwnIn(s, x) = {}
        BY <1>1, <2>2, <3>4, DisownedType
      <4>2. Cardinality(Own(x)') = 0
        BY <4>1, <3>2, FS_EmptySet
      <4> QED
        BY <4>2, <3>1, <3>4 DEF Counted
    <3>5. CASE /\ k.sent = call[who].sent - 1 /\ k.todo = call[who].todo
               /\ k.outcome = IF k.op = "statement" THEN "done" ELSE "pending"
               /\ s = t
      <4>1. Cardinality(Own(x)') = Cardinality(Own(x)) - 1
        BY <3>2, <3>5, <2>2, <1>2
      <4>2. Cardinality(Own(x)) = call[x].sent
        BY <2>0 DEF Counted
      <4>3. k.op = call[x].op /\ k.of = call[x].of
        BY <2>2, <3>3, <1>b
      <4>4. CASE k.op = "statement"
        <5>1. call[x].sent = 1 /\ call[x].todo = <<>>
          BY <2>0, <3>1, <4>3, <4>4 DEF Counted
        <5> QED
          BY <5>1, <3>1, <3>5, <4>1, <4>2, <4>4, <2>2 DEF Counted
      <4>5. CASE k.op # "statement"
        BY <2>0, <3>1, <3>5, <4>1, <4>2, <4>3, <4>5, <2>2 DEF Counted
      <4> QED
        BY <4>4, <4>5
    <3> QED
      BY <3>3, <3>4, <3>5, <2>2, <1>b
  <2> QED
    BY <2>1, <2>2
<1> QED
  BY <1>8, <1>10, <1>12 DEF SchemaInv

LEMMA NoCallType == NoCall \in CallRecord
<1>1. /\ "none" \in CallOps /\ "none" \in Outcomes /\ <<>> \in Seq(Seq(Requests)) /\ <<>> \in Named \cup {<<>>}
      /\ <<>> \in Answers /\ <<>> \in Seq(Seq(AskedBy("none")))
  BY DEF CallOps, Outcomes, Answers
<1> QED
  BY <1>1 DEF NoCall, CallRecord

LEMMA ReplyStep ==
    ASSUME SchemaInv, NEW d \in Dbs, NEW i, Reply(d, i)
    PROVE  SchemaInv'
<1> DEFINE e == flight[d][i]
           rest == RemoveAt(flight[d], i)
           failed == e.reply = Refused
           k == IF e.who = Nobody THEN NoCall ELSE IF failed THEN Failed(call[e.who]) ELSE Heard(call[e.who], e)
           s == IF failed THEN Disowned(rest, {e.who}) ELSE rest
<1>1. /\ i \in 1..Len(flight[d]) /\ e.reply # <<>>
      /\ flight' = [flight EXCEPT ![d] = s]
      /\ cached' = IF failed \/ e.what.op # "list" THEN cached
                   ELSE [cached EXCEPT ![d][e.what.of[1]] = e.reply[2]]
      /\ call' = IF e.who = Nobody THEN call ELSE [call EXCEPT ![e.who] = k]
      /\ UNCHANGED <<api, dbOf, changes, instance, opened, losses>>
  BY DEF Reply, Refused
<1>2. /\ flight[d] \in Seq(Entry) /\ e \in Entry /\ e.who \in Callers \cup {Nobody} /\ e.what \in Requests
      /\ e.what \in SchemaRequests /\ Answered(e) => e.reply[2] \in Nat
      /\ e.who # Nobody => /\ e.who \in Callers /\ dbOf[e.who] = d
                           /\ e.what \in AskedBy(call[e.who].op)
                           /\ call[e.who].sent > 0 /\ call[e.who].outcome = "pending"
  BY <1>1, InFlight
<1>3. rest \in Seq(Entry)
  BY <1>1, <1>2, Removal
<1>4. s \in Seq(Entry)
  BY <1>3, DisownedType
<1>5. Answered(e) <=> ~failed
  BY <1>1 DEF Answered
<1>6. cached' \in [Dbs -> [Kinds -> Nat \cup {Never}]]
  <2>1. cached \in [Dbs -> [Kinds -> Nat \cup {Never}]]
    BY DEF SchemaInv, SchemaType
  <2>2. CASE failed \/ e.what.op # "list"
    BY <2>1, <2>2, <1>1
  <2>3. CASE ~failed /\ e.what.op = "list"
    <3>1. e.what \in SchemaRequests
      BY <2>3, <1>2, StatementType DEF SchemaOps
    <3>2. e.what.of[1] \in Kinds /\ e.reply[2] \in Nat
      BY <3>1, <2>3, <1>2, <1>5, StatementType
    <3>3. cached' = [cached EXCEPT ![d][e.what.of[1]] = e.reply[2]]
      BY <2>3, <1>1
    <3> HIDE DEF e
    <3> QED
      BY <2>1, <3>2, <3>3
  <2> QED
    BY <2>2, <2>3
<1>7. k \in CallRecord
  <2>1. CASE e.who = Nobody
    BY <2>1, NoCallType
  <2>2. CASE e.who # Nobody
    <3>1. call[e.who] \in CallRecord
      BY <2>2, <1>2, HeldType
    <3>2. CASE failed
      BY <3>1, <3>2, <2>2, FailedType
    <3>3. CASE ~failed
      BY <3>1, <3>3, <2>2, <1>2, <1>5, HeardType
    <3> QED
      BY <3>2, <3>3
  <2> QED
    BY <2>1, <2>2
<1>8. ASSUME e.who # Nobody
      PROVE  k.op = call[e.who].op /\ k.of = call[e.who].of
              /\ \/ k.outcome = "failed" /\ k.sent = 0 /\ k.todo = <<>> /\ s = Disowned(rest, {e.who})
                 \/ /\ k.sent = call[e.who].sent - 1 /\ k.todo = call[e.who].todo
                    /\ k.outcome = IF k.op = "statement" THEN "done" ELSE "pending"
                    /\ s = rest
  <2>1. call[e.who] \in CallRecord
    BY <1>2, <1>8, HeldType
  <2>2. CASE failed
    BY <2>1, <2>2, <1>8, FailedType
  <2>3. CASE ~failed
    <3>1. e.what \in SchemaRequests <=> call[e.who].op # "statement"
      BY StatementType, RequestType, <1>2, <1>8, AskedType
    <3> DEFINE c == call[e.who]
    <3>2. c \in CallRecord /\ c.sent > 0 /\ Answered(e) /\ e.what \in AskedBy(c.op) /\ e \in Entry
      BY <2>1, <2>3, <1>2, <1>5, <1>8
    <3>3. k = Heard(c, e) /\ s = rest
      BY <2>3, <1>8
    <3>4. c.outcome = "pending"
      BY <1>2, <1>8
    <3> HIDE DEF c, k, s, e
    <3>5. k.op = c.op /\ k.of = c.of /\ k.sent = c.sent - 1 /\ k.todo = c.todo
          /\ k.outcome = IF e.what \in SchemaRequests THEN c.outcome ELSE "done"
      BY <3>2, <3>3, HeardType
    <3> QED
      BY <3>1, <3>3, <3>4, <3>5 DEF c
  <2> QED
    BY <2>2, <2>3
<1>9. Taken(d, i, k, s)
  <2>1. s = rest \/ s = Disowned(rest, {e.who})
    OBVIOUS
  <2> HIDE DEF k, s
  <2> QED
    BY <1>8, <2>1 DEF Taken
<1>10. losses' \in Nat /\ opened' \in [Dbs -> BOOLEAN]
  BY <1>1 DEF SchemaInv, SchemaType
<1> HIDE DEF k, s
<1> QED
  BY <1>1, <1>4, <1>6, <1>7, <1>9, <1>10, TakenStep

\* Without what is on a connection, everything of the legacy database.
LEMMA LoseStep ==
    ASSUME SchemaInv, NEW d \in Dbs, Lose(d)
    PROVE  SchemaInv'
<1>0. /\ call \in [Callers -> CallRecord] /\ flight \in [Dbs -> Seq(Entry)] /\ dbOf \in [Callers -> Dbs]
      /\ flight[d] \in Seq(Entry) /\ Len(flight[d]) \in Nat /\ losses \in Nat
      /\ opened \in [Dbs -> BOOLEAN] /\ cached \in [Dbs -> [Kinds -> Nat \cup {Never}]]
  BY DEF SchemaInv, SchemaType
<1>1. /\ losses' = losses + 1 /\ opened' = [opened EXCEPT ![d] = api = "client"]
      /\ UNCHANGED <<api, dbOf, changes, cached, instance>>
  BY DEF Lose
<1>2. losses' \in Nat /\ opened' \in [Dbs -> BOOLEAN] /\ cached' \in [Dbs -> [Kinds -> Nat \cup {Never}]]
  <2>1. (api = "client") \in BOOLEAN
    OBVIOUS
  <2>2. opened' \in [Dbs -> BOOLEAN]
    BY <2>1, <1>0, <1>1, Zenon
  <2> QED
    BY <2>2, <1>0, <1>1
<1>3. CASE /\ flight' = [flight EXCEPT ![d] = <<>>]
           /\ Cut({flight[d][i].who : i \in 1..Len(flight[d])})
  <2> DEFINE W == {flight[d][i].who : i \in 1..Len(flight[d])}
  <2>1. call' = [c \in Callers |-> IF c \in W THEN Failed(call[c]) ELSE call[c]]
    BY <1>3 DEF Cut
  <2>2. \A c \in Callers : c \in W => dbOf[c] = d
    BY InFlight, SchemaAssumption
  <2>3. \A c \in Callers : c \notin W /\ dbOf[c] = d => Own(c) = {}
    BY DEF Own, OwnIn
  <2> HIDE DEF W
  <2>4. \A c \in Callers : /\ call'[c] \in CallRecord /\ call'[c].op = call[c].op
                           /\ c \in W => call'[c].sent = 0 /\ call'[c].todo = <<>> /\ call'[c].outcome = "failed"
                           /\ c \notin W => call'[c] = call[c]
    BY <2>1, <1>0, FailedType
  <2>5. SchemaType'
    <3>1. call' \in [Callers -> CallRecord]
      BY <2>1, <2>4
    <3>2. flight' \in [Dbs -> Seq(Entry)]
      BY <1>0, <1>3
    <3> QED
      BY <3>1, <3>2, <1>1, <1>2 DEF SchemaInv, SchemaType
  <2>6. flight'[d] = <<>> /\ \A x \in Dbs : x # d => flight'[x] = flight[x]
    BY <1>0, <1>3
  <2>7. ASSUME NEW x \in Callers PROVE Counted(x)'
    <3>0. Counted(x) /\ dbOf[x] \in Dbs
      BY <1>0 DEF SchemaInv
    <3>1. CASE x \in W
      <4>1. Own(x)' = {}
        BY <3>1, <2>2, <2>6, <1>1 DEF Own, OwnIn
      <4> QED
        BY <4>1, <3>1, <2>4, FS_EmptySet DEF Counted
    <3>2. CASE x \notin W
      <4>1. Own(x)' = Own(x)
        <5>1. CASE dbOf[x] = d
          <6>1. Own(x)' = {}
            BY <5>1, <2>6, <1>1 DEF Own, OwnIn
          <6> QED
            BY <6>1, <5>1, <3>2, <2>3
        <5>2. CASE dbOf[x] # d
          BY <5>2, <3>0, <2>6, <1>1 DEF Own
        <5> QED
          BY <5>1, <5>2
      <4> QED
        BY <4>1, <3>0, <3>2, <2>4, <1>1 DEF Counted
    <3> QED
      BY <3>1, <3>2
  <2>8. ASSUME NEW x \in Dbs PROVE Traced(x)'
    <3>1. CASE x = d
      BY <3>1, <2>6 DEF Traced
    <3>2. CASE x # d
      <4> SUFFICES ASSUME NEW j \in 1..Len(flight[x]), flight[x][j].who # Nobody
                   PROVE  /\ dbOf[flight[x][j].who] = x
                          /\ flight[x][j].what \in AskedBy(call'[flight[x][j].who].op)
        BY <3>2, <2>6, <1>1 DEF Traced
      <4> QED
        BY <2>4, InFlight
    <3> QED
      BY <3>1, <3>2
  <2> QED
    BY <2>5, <2>7, <2>8 DEF SchemaInv
<1>4. ASSUME NEW i \in 1..Len(flight[d]),
             flight' = [flight EXCEPT ![d] = Disowned(RemoveAt(flight[d], i), {flight[d][i].who} \ {Nobody})],
             Cut({flight[d][i].who} \ {Nobody})
      PROVE  SchemaInv'
  <2> DEFINE who == flight[d][i].who
             W == {who} \ {Nobody}
             rest == RemoveAt(flight[d], i)
             s == Disowned(rest, W)
             k == IF who = Nobody THEN NoCall ELSE Failed(call[who])
  <2>1. who \in Callers \cup {Nobody}
    BY InFlight
  <2>2. s \in Seq(Entry)
    BY <1>0, Removal, DisownedType
  <2>3. k \in CallRecord /\ (who # Nobody => /\ k.op = call[who].op /\ k.of = call[who].of
                                             /\ k.outcome = "failed" /\ k.sent = 0 /\ k.todo = <<>>)
    BY <2>1, <1>0, NoCallType, FailedType
  <2>4. call' = IF who = Nobody THEN call ELSE [call EXCEPT ![who] = k]
    BY <1>4, <1>0, <2>1, SchemaAssumption DEF Cut
  <2>5. who = Nobody => W = {}
    OBVIOUS
  <2>6. who # Nobody => W = {who}
    OBVIOUS
  <2>9. flight' = [flight EXCEPT ![d] = s] /\ who = flight[d][i].who
    BY <1>4
  <2>10. s = Disowned(rest, W)
    OBVIOUS
  <2> HIDE DEF s, k, W
  <2>11. Taken(d, i, k, s)
    BY <2>3, <2>5, <2>6, <2>10 DEF Taken
  <2> QED
    BY <2>2, <2>3, <2>4, <2>9, <2>11, <1>1, <1>2, TakenStep
<1> QED
  BY <1>3, <1>4 DEF Lose

--------------------------------------------------------------------------------
(* Induction, over a set of numbers.                                            *)

LEMMA Least ==
    ASSUME NEW T, T \subseteq Nat, T # {}
    PROVE  \E m \in T : \A n \in T : m <= n
<1> DEFINE R == OpToRel(<, Nat)
<1>1. IsWellFoundedOn(R, Nat)
  BY NatLessThanWellFounded
<1>2. \A y \in Nat, x \in Nat : y < x => <<y, x>> \in R
  BY DEF OpToRel
<1> HIDE DEF R
<1>3. PICK x \in T : \A y \in T : ~ (<<y, x>> \in R)
  BY <1>1, WFMin
<1> QED
  <2>1. \A y \in T : ~(y < x)
    BY <1>2, <1>3
  <2>2. \A y \in T : y \in Nat /\ x \in Nat
    OBVIOUS
  <2> QED
    BY <2>1, <2>2

LEMMA Induction ==
    ASSUME NEW S, NEW N \in Nat, 0 \in S, \A n \in 0..(N - 1) : n \in S => n + 1 \in S
    PROVE  \A n \in 0..N : n \in S
<1> SUFFICES ASSUME ~(\A n \in 0..N : n \in S) PROVE FALSE
  OBVIOUS
<1> DEFINE T == {n \in 0..N : n \notin S}
<1>1. T \subseteq Nat /\ T # {}
  OBVIOUS
<1>2. PICK m \in T : \A n \in T : m <= n
  BY <1>1, Least
<1>3. m \in 0..N /\ m \notin S /\ m # 0
  BY <1>2
<1>4. m - 1 \in 0..(N - 1) /\ m - 1 \in 0..N /\ ~(m <= m - 1) /\ (m - 1) + 1 = m
  BY <1>3
<1>5. m - 1 \in S
  BY <1>2, <1>4
<1> QED
  BY <1>3, <1>4, <1>5

--------------------------------------------------------------------------------
(* The names in their order.                                                    *)

IsAscending(s, S) == /\ s \in [1..Cardinality(S) -> S]
                     /\ \A i, j \in 1..Cardinality(S) : i < j => s[i] < s[j]

LEMMA AscendingExists ==
    ASSUME NEW S, S \subseteq Nat, IsFiniteSet(S)
    PROVE  \E s : IsAscending(s, S)
<1> DEFINE N == Cardinality(S)
           P == {n \in Nat : \A T \in SUBSET S : Cardinality(T) = n => \E s : IsAscending(s, T)}
<1>0. N \in Nat /\ \A T \in SUBSET S : IsFiniteSet(T) /\ T \subseteq Nat
  BY FS_CardinalityType, FS_Subset
<1>1. 0 \in P
  <2> SUFFICES ASSUME NEW T \in SUBSET S, Cardinality(T) = 0 PROVE \E s : IsAscending(s, T)
    OBVIOUS
  <2>1. T = {} /\ 1..0 = {}
    BY <1>0, FS_EmptySet
  <2>2. IsAscending([i \in {} |-> 0], T)
    BY <2>1 DEF IsAscending
  <2> QED
    BY <2>2
<1>2. ASSUME NEW n \in 0..(N - 1), n \in P PROVE n + 1 \in P
  <2> SUFFICES ASSUME NEW T \in SUBSET S, Cardinality(T) = n + 1 PROVE \E s : IsAscending(s, T)
    BY <1>0
  <2>0. n \in Nat /\ IsFiniteSet(T) /\ T \subseteq Nat
    BY <1>0
  <2>1. T # {}
    BY <2>0, FS_EmptySet
  <2>2. PICK m \in T : \A x \in T : m <= x
    BY <2>0, <2>1, Least
  <2> DEFINE U == T \ {m}
  <2>3. Cardinality(U) = n /\ U \in SUBSET S
    <3>1. Cardinality(U) = IF m \in T THEN Cardinality(T) - 1 ELSE Cardinality(T)
      BY <2>0, FS_RemoveElement
    <3> QED
      BY <3>1, <2>0
  <2>4. PICK s : IsAscending(s, U)
    BY <1>2, <2>3
  <2>5. s \in [1..n -> U] /\ \A i, j \in 1..n : i < j => s[i] < s[j]
    BY <2>3, <2>4 DEF IsAscending
  <2>6. \A x \in U : m < x /\ x \in T
    BY <2>0, <2>2
  <2> HIDE DEF U
  <2> DEFINE t == [i \in 1..(n + 1) |-> IF i = 1 THEN m ELSE s[i - 1]]
  <2>7. t \in [1..(n + 1) -> T]
    <3> SUFFICES ASSUME NEW i \in 1..(n + 1) PROVE (IF i = 1 THEN m ELSE s[i - 1]) \in T
      OBVIOUS
    <3>1. i # 1 => i - 1 \in 1..n
      BY <2>0
    <3> QED
      BY <3>1, <2>5, <2>6
  <2>8. ASSUME NEW i \in 1..(n + 1), NEW j \in 1..(n + 1), i < j PROVE t[i] < t[j]
    <3>1. j # 1 /\ j - 1 \in 1..n /\ t[j] = s[j - 1]
      BY <2>0, <2>8
    <3>2. CASE i = 1
      BY <3>1, <3>2, <2>5, <2>6
    <3>3. CASE i # 1
      BY <3>1, <2>0, <2>8, <3>3, <2>5
    <3> QED
      BY <3>2, <3>3
  <2> HIDE DEF t
  <2>9. IsAscending(t, T)
    BY <2>7, <2>8 DEF IsAscending
  <2> QED
    BY <2>9
<1> HIDE DEF P
<1>3. \A n \in 0..N : n \in P
  BY <1>0, <1>1, <1>2, Induction
<1>4. N \in P
  BY <1>0, <1>3
<1> QED
  BY <1>4 DEF P

LEMMA AscendingType ==
    ASSUME NEW S, S \subseteq Nat, IsFiniteSet(S)
    PROVE  LET s == Ascending(S) IN
           /\ s \in Seq(S) /\ Len(s) = Cardinality(S)
           /\ \A i, j \in 1..Len(s) : i < j => s[i] < s[j]
           /\ \A x \in S : \E i \in 1..Len(s) : s[i] = x
<1> DEFINE s == Ascending(S)
           n == Cardinality(S)
<1>1. IsAscending(s, S)
  BY AscendingExists DEF Ascending, IsAscending
<1> HIDE DEF s
<1>2. n \in Nat
  BY FS_CardinalityType
<1>3. s \in [1..n -> S] /\ \A i, j \in 1..n : i < j => s[i] < s[j]
  BY <1>1 DEF IsAscending
<1>4. s \in Seq(S) /\ Len(s) = n
  BY <1>2, <1>3
<1>5. s \in Injection(1..n, S)
  <2>1. \A i, j \in 1..n : s[i] = s[j] => i = j
    <3> SUFFICES ASSUME NEW i \in 1..n, NEW j \in 1..n, i # j PROVE s[i] # s[j]
      OBVIOUS
    <3>0. s[i] \in S /\ s[j] \in S
      BY <1>3
    <3>1. s[i] \in Nat /\ s[j] \in Nat
      BY <3>0
    <3>3. i < j \/ j < i
      BY <1>2
    <3>2. s[i] < s[j] \/ s[j] < s[i]
      BY <1>3, <3>3
    <3> QED
      BY <3>1, <3>2
  <2> QED
    BY <1>3, <2>1 DEF Injection, IsInjective
<1>6. IsFiniteSet(1..n) /\ Cardinality(1..n) = n
  BY <1>2, FS_Interval
<1>7. s \in Surjection(1..n, S)
  BY <1>5, <1>6, FS_Injection
<1> QED
  BY <1>3, <1>4, <1>7 DEF s, Surjection

LEMMA KnownType ==
    /\ Known \subseteq Nat \ {0} /\ Known \subseteq Nat /\ IsFiniteSet(Known)
    /\ \A n \in Known : Listed(n) \in Nat /\ Listed(n) > 0
<1>1. Directory \in Seq(Nat \ {0}) /\ Len(Directory) \in Nat /\ DOMAIN Directory = 1..Len(Directory)
  BY DirectoryAssumption
<1>2. Known = {Directory[i] : i \in 1..Len(Directory)}
  BY <1>1 DEF Known, ToSet
<1>3. Known \subseteq Nat \ {0}
  BY <1>1, <1>2
<1>4. IsFiniteSet(1..Len(Directory))
  BY <1>1, FS_Interval
<1>5. IsFiniteSet(Known)
  <2>1. Directory \in Surjection(1..Len(Directory), Known)
    BY <1>1, <1>2 DEF Surjection
  <2> QED
    BY <2>1, <1>4, FS_Surjection
<1>6. ASSUME NEW n \in Known PROVE Listed(n) \in Nat /\ Listed(n) > 0
  <2> DEFINE I == {i \in 1..Len(Directory) : Directory[i] = n}
  <2>1. I # {}
    BY <1>2
  <2>2. IsFiniteSet(I)
    BY <1>4, FS_Subset
  <2>3. Cardinality(I) \in Nat /\ Cardinality(I) # 0
    BY <2>1, <2>2, FS_CardinalityType, FS_EmptySet
  <2> QED
    BY <2>3 DEF Listed
<1> QED
  BY <1>3, <1>5, <1>6

\* What is joined piece by piece.
Pieces(p, N, g) == g = [i \in 0..N |-> IF i = 0 THEN <<>> ELSE g[i - 1] \o p[i]]

LEMMA PiecesExist ==
    ASSUME NEW N \in Nat, NEW p
    PROVE  \E g : Pieces(p, N, g)
<1> DEFINE P == {n \in Nat : \E g : Pieces(p, n, g)}
<1>1. 0 \in P
  <2> DEFINE g == [i \in 0..0 |-> <<>>]
  <2>1. Pieces(p, 0, g)
    BY DEF Pieces
  <2> QED
    BY <2>1
<1>2. ASSUME NEW n \in 0..(N - 1), n \in P PROVE n + 1 \in P
  <2>0. n \in Nat /\ n + 1 \in Nat
    OBVIOUS
  <2>1. PICK g : Pieces(p, n, g)
    BY <1>2
  <2> DEFINE h == [i \in 0..(n + 1) |-> IF i <= n THEN g[i] ELSE g[n] \o p[n + 1]]
             f == [i \in 0..(n + 1) |-> IF i = 0 THEN <<>> ELSE h[i - 1] \o p[i]]
  <2>2. \A i \in 0..n : g[i] = IF i = 0 THEN <<>> ELSE g[i - 1] \o p[i]
    BY <2>1 DEF Pieces
  <2>3. ASSUME NEW i \in 0..(n + 1) PROVE h[i] = f[i]
    <3>1. CASE i = 0
      BY <3>1, <2>0, <2>2
    <3>2. CASE i # 0 /\ i <= n
      <4>1. i \in 0..n /\ i - 1 \in 0..(n + 1) /\ i - 1 <= n
        BY <3>2, <2>0
      <4> QED
        BY <4>1, <3>2, <2>2
    <3>3. CASE i = n + 1
      BY <3>3, <2>0
    <3> QED
      BY <3>1, <3>2, <3>3, <2>0
  <2>4. h = f
    BY <2>3
  <2>5. Pieces(p, n + 1, h)
    BY <2>4 DEF Pieces
  <2> QED
    BY <2>0, <2>5
<1> HIDE DEF P
<1>3. \A n \in 0..N : n \in P
  BY <1>1, <1>2, Induction
<1>4. N \in P
  BY <1>3
<1> QED
  BY <1>4 DEF P

\* The names, each as often as it is given, piece by piece.
Joined(names, times, g) ==
    g = [i \in 0..Len(names) |->
            IF i = 0 THEN <<>> ELSE g[i - 1] \o [j \in 1..times[names[i]] |-> names[i]]]

LEMMA JoinedExists ==
    ASSUME NEW times
    PROVE  \E g : Joined(Ascending(Known), times, g) /\ InOrder(times) = g[Len(Ascending(Known))]
<1> DEFINE names == Ascending(Known)
           N == Len(names)
<1>1. N \in Nat
  BY KnownType, AscendingType
<1> HIDE DEF names
<1> DEFINE p == [i \in 0..N |-> [j \in 1..times[names[i]] |-> names[i]]]
<1>2. PICK g : Pieces(p, N, g)
  BY <1>1, PiecesExist
<1>3. g = [i \in 0..N |-> IF i = 0 THEN <<>> ELSE g[i - 1] \o p[i]]
  BY <1>2 DEF Pieces
<1>4. Joined(names, times, g)
  BY <1>3 DEF Joined
<1> DEFINE h == CHOOSE x : x = [i \in 0..Len(names) |->
                  IF i = 0 THEN <<>> ELSE x[i - 1] \o [j \in 1..times[names[i]] |-> names[i]]]
<1>5. Joined(names, times, h)
  BY <1>4 DEF Joined
<1>6. InOrder(times) = h[Len(names)]
  BY DEF InOrder, names
<1> QED
  BY <1>5, <1>6 DEF names

\* After i names of its sequence: what there is of them, in their order.
Ascends(names, times, i, s) ==
    /\ s \in Seq(Known)
    /\ \A a, b \in 1..Len(s) : a < b => s[a] <= s[b]
    /\ \A a \in 1..Len(s) : \E j \in 1..i : s[a] = names[j] /\ times[names[j]] > 0
    /\ \A j \in 1..i : times[names[j]] > 0 => \E a \in 1..Len(s) : s[a] = names[j]

LEMMA PieceAscends ==
    ASSUME NEW names \in Seq(Known), \A i, j \in 1..Len(names) : i < j => names[i] < names[j],
           NEW times \in [Known -> Nat], NEW i \in 0..(Len(names) - 1), NEW s,
           Ascends(names, times, i, s)
    PROVE  Ascends(names, times, i + 1, s \o [j \in 1..times[names[i + 1]] |-> names[i + 1]])
<1> DEFINE n == names[i + 1]
           k == times[n]
           t == [j \in 1..k |-> n]
           u == s \o t
<1>1. i + 1 \in 1..Len(names) /\ i \in Nat /\ n \in Known /\ k \in Nat
  OBVIOUS
<1>0. Known \subseteq Nat
  BY KnownType
<1> HIDE DEF n, k
<1>2. t \in Seq(Known) /\ Len(t) = k /\ \A j \in 1..k : t[j] = n
  BY <1>1
<1>3. s \in Seq(Known) /\ Len(s) \in Nat /\ (\A a \in 1..Len(s) : s[a] \in Known)
  BY DEF Ascends
<1> HIDE DEF t
<1>4. u \in Seq(Known) /\ Len(u) = Len(s) + k
      /\ \A a \in 1..(Len(s) + k) : u[a] = IF a <= Len(s) THEN s[a] ELSE t[a - Len(s)]
  BY <1>2, <1>3, ConcatProperties
<1> HIDE DEF u
<1>5. \A a \in 1..(Len(s) + k) : a <= Len(s) => a \in 1..Len(s) /\ u[a] = s[a]
  BY <1>3, <1>4
<1>6. \A a \in 1..(Len(s) + k) : ~(a <= Len(s)) => u[a] = n /\ k > 0
  <2> TAKE a \in 1..(Len(s) + k)
  <2> HAVE ~(a <= Len(s))
  <2>1. a - Len(s) \in 1..k
    BY <1>1, <1>3
  <2> QED
    BY <2>1, <1>1, <1>2, <1>4
<1>7. \A a \in 1..Len(s) : s[a] < n
  <2> TAKE a \in 1..Len(s)
  <2>1. PICK j \in 1..i : s[a] = names[j]
    BY DEF Ascends
  <2>2. j \in 1..Len(names) /\ j < i + 1
    BY <1>1
  <2> QED
    BY <2>1, <2>2, <1>1 DEF n
<1>8. ASSUME NEW a \in 1..(Len(s) + k), NEW b \in 1..(Len(s) + k), a < b PROVE u[a] <= u[b]
  <2>0. n \in Nat /\ \A x \in 1..Len(s) : s[x] \in Nat
    BY <1>0, <1>1, <1>3
  <2>1. CASE b <= Len(s)
    <3>1. a <= Len(s)
      BY <2>1, <1>3, <1>8
    <3>2. s[a] <= s[b]
      BY <3>1, <2>1, <1>5, <1>8 DEF Ascends
    <3> QED
      BY <3>1, <3>2, <2>1, <1>5
  <2>2. CASE ~(b <= Len(s)) /\ a <= Len(s)
    <3>1. u[b] = n /\ u[a] = s[a] /\ a \in 1..Len(s)
      BY <2>2, <1>5, <1>6
    <3>2. s[a] \in Nat /\ s[a] < n
      BY <3>1, <2>0, <1>7
    <3> QED
      BY <3>1, <3>2, <2>0
  <2>3. CASE ~(b <= Len(s)) /\ ~(a <= Len(s))
    BY <2>0, <2>3, <1>6
  <2> QED
    BY <2>1, <2>2, <2>3
<1>9. ASSUME NEW a \in 1..(Len(s) + k) PROVE \E j \in 1..(i + 1) : u[a] = names[j] /\ times[names[j]] > 0
  <2>1. CASE a <= Len(s)
    <3>1. PICK j \in 1..i : s[a] = names[j] /\ times[names[j]] > 0
      BY <2>1, <1>5 DEF Ascends
    <3>2. j \in 1..(i + 1)
      BY <1>1
    <3> QED
      BY <3>1, <3>2, <2>1, <1>5
  <2>2. CASE ~(a <= Len(s))
    BY <1>1, <2>2, <1>6 DEF n, k
  <2> QED
    BY <2>1, <2>2
<1>10. ASSUME NEW j \in 1..(i + 1), times[names[j]] > 0 PROVE \E a \in 1..(Len(s) + k) : u[a] = names[j]
  <2>1. CASE j \in 1..i
    <3>1. PICK a \in 1..Len(s) : s[a] = names[j]
      BY <2>1, <1>10 DEF Ascends
    <3>2. a \in 1..(Len(s) + k) /\ a <= Len(s)
      BY <1>1, <1>3
    <3> QED
      BY <3>1, <3>2, <1>5
  <2>2. CASE j = i + 1
    <3>1. k > 0
      BY <2>2, <1>10 DEF n, k
    <3>2. Len(s) + k \in 1..(Len(s) + k) /\ ~(Len(s) + k <= Len(s))
      BY <3>1, <1>1, <1>3
    <3> QED
      BY <3>2, <2>2, <1>6 DEF n
  <2> QED
    BY <2>1, <2>2, <1>1
<1>11. Ascends(names, times, i + 1, u)
  BY <1>4, <1>8, <1>9, <1>10 DEF Ascends
<1> QED
  BY <1>11 DEF u, t, k, n

LEMMA InOrderAscends ==
    ASSUME NEW times \in [Known -> Nat]
    PROVE  LET s == InOrder(times) IN
           /\ s \in Seq(Known)
           /\ \A a, b \in 1..Len(s) : a < b => s[a] <= s[b]
           /\ \A a \in 1..Len(s) : times[s[a]] > 0
           /\ \A n \in Known : times[n] > 0 => \E a \in 1..Len(s) : s[a] = n
<1> DEFINE names == Ascending(Known)
           N == Len(names)
<1>0. Known \subseteq Nat /\ IsFiniteSet(Known)
  BY KnownType
<1>1. /\ names \in Seq(Known) /\ N \in Nat
      /\ \A i, j \in 1..Len(names) : i < j => names[i] < names[j]
      /\ \A x \in Known : \E i \in 1..Len(names) : names[i] = x
  <2>1. /\ names \in Seq(Known)
        /\ \A i, j \in 1..Len(names) : i < j => names[i] < names[j]
        /\ \A x \in Known : \E i \in 1..Len(names) : names[i] = x
    BY <1>0, AscendingType
  <2> HIDE DEF names
  <2> QED
    BY <2>1
<1>2. PICK g : Joined(names, times, g) /\ InOrder(times) = g[N]
  BY JoinedExists
<1> HIDE DEF names
<1> DEFINE P == {i \in 0..N : Ascends(names, times, i, g[i])}
<1>3. \A i \in 0..N : g[i] = IF i = 0 THEN <<>> ELSE g[i - 1] \o [j \in 1..times[names[i]] |-> names[i]]
  BY <1>2 DEF Joined
<1>4. 0 \in P
  <2>0. 0 \in 0..N
    BY <1>1
  <2>1. g[0] = <<>>
    BY <2>0, <1>3
  <2>2. Ascends(names, times, 0, <<>>)
    BY DEF Ascends
  <2> QED
    BY <2>0, <2>1, <2>2
<1>5. ASSUME NEW n \in 0..(N - 1), n \in P PROVE n + 1 \in P
  <2>1. n + 1 \in 0..N /\ n + 1 # 0 /\ (n + 1) - 1 = n
    BY <1>1
  <2>2. g[n + 1] = g[n] \o [j \in 1..times[names[n + 1]] |-> names[n + 1]]
    BY <2>1, <1>3
  <2>3. Ascends(names, times, n, g[n])
    BY <1>5
  <2>4. Ascends(names, times, n + 1, g[n] \o [j \in 1..times[names[n + 1]] |-> names[n + 1]])
    BY <2>3, <1>1, PieceAscends
  <2> QED
    BY <2>1, <2>2, <2>4
<1> HIDE DEF P
<1>6. \A i \in 0..N : i \in P
  BY <1>1, <1>4, <1>5, Induction
<1>7. Ascends(names, times, N, g[N])
  BY <1>1, <1>6 DEF P
<1> DEFINE s == InOrder(times)
<1>8. Ascends(names, times, N, s)
  BY <1>2, <1>7
<1> HIDE DEF s
<1>9. \A a \in 1..Len(s) : times[s[a]] > 0
  BY <1>8 DEF Ascends
<1>10. ASSUME NEW n \in Known, times[n] > 0 PROVE \E a \in 1..Len(s) : s[a] = n
  <2>1. PICK i \in 1..N : names[i] = n
    BY <1>1
  <2> QED
    BY <2>1, <1>8, <1>10 DEF Ascends
<1>11. s \in Seq(Known) /\ \A a, b \in 1..Len(s) : a < b => s[a] <= s[b]
  BY <1>8 DEF Ascends
<1> QED
  BY <1>9, <1>10, <1>11 DEF s

--------------------------------------------------------------------------------
(* What is applied, and what is left.                                           *)

LEMMA LimitedType ==
    ASSUME NEW s \in Seq(Known), NEW limit \in {0, 1}
    PROVE  LET t == Limited(s, limit) IN
           /\ t \in Seq(Known) /\ Len(t) <= Len(s) /\ \A i \in 1..Len(t) : t[i] = s[i]
<1> DEFINE n == IF limit < Len(s) THEN limit ELSE Len(s)
<1>0. Len(s) \in Nat
  OBVIOUS
<1>1. CASE limit = 0
  BY <1>0, <1>1 DEF Limited
<1>2. CASE limit # 0
  <2>1. n \in Nat /\ n <= Len(s)
    BY <1>0
  <2>2. Limited(s, limit) = SubSeq(s, 1, n)
    BY <1>2 DEF Limited
  <2> HIDE DEF n
  <2>3. SubSeq(s, 1, n) = [i \in 1..n |-> s[i]]
    BY <2>1
  <2>4. [i \in 1..n |-> s[i]] \in Seq(Known) /\ Len([i \in 1..n |-> s[i]]) = n
    BY <2>1, <1>0
  <2> QED
    BY <2>1, <2>2, <2>3, <2>4
<1> QED
  BY <1>1, <1>2

LEMMA PendingOrdered ==
    ASSUME NEW found, Shown(found), NEW limit \in {0, 1}
    PROVE  LET left == Limited(Pending(found), limit) IN left \in Seq(Known) /\ Ordered(left)
<1> DEFINE times == [n \in Known |-> IF found[n] = 0 THEN Listed(n) ELSE 0]
           s == InOrder(times)
           t == Limited(s, limit)
<1>0. Known \subseteq Nat /\ \A n \in Known : Listed(n) \in Nat /\ Listed(n) > 0
  BY KnownType
<1>1. times \in [Known -> Nat]
  BY <1>0
<1>2. Pending(found) = s
  BY DEF Pending
<1>3. \A n \in Known : ups[n] > 0 \/ times[n] > 0
  <2> TAKE n \in Known
  <2>1. found[n] \in Nat /\ (found[n] > 0 => ups[n] > 0)
    BY DEF Shown
  <2> QED
    BY <2>1, <1>0
<1> HIDE DEF times
<1>4. /\ s \in Seq(Known)
      /\ \A a, b \in 1..Len(s) : a < b => s[a] <= s[b]
      /\ \A n \in Known : times[n] > 0 => \E a \in 1..Len(s) : s[a] = n
  BY <1>1, InOrderAscends
<1> HIDE DEF s
<1>5. t \in Seq(Known) /\ Len(t) <= Len(s) /\ \A i \in 1..Len(t) : t[i] = s[i]
  BY <1>4, LimitedType
<1> HIDE DEF t
<1>6. Len(s) \in Nat /\ Len(t) \in Nat /\ (\A i \in 1..Len(t) : i \in 1..Len(s) /\ t[i] \in Nat)
  <2>1. Len(s) \in Nat /\ Len(t) \in Nat
    BY <1>4, <1>5
  <2>2. ASSUME NEW i \in 1..Len(t) PROVE i \in 1..Len(s) /\ t[i] \in Nat
    <3>1. i \in 1..Len(s)
      BY <2>1, <1>5
    <3>2. t[i] \in Known
      BY <1>5
    <3> QED
      BY <3>1, <3>2, <1>0
  <2> QED
    BY <2>1, <2>2
<1>7. \A i, j \in 1..Len(t) : i < j => t[i] <= t[j]
  BY <1>4, <1>5, <1>6
<1>8. ASSUME NEW k \in Known, ~(ups[k] > 0), \A i \in 1..Len(t) : t[i] # k, NEW i \in 1..Len(t)
      PROVE  t[i] < k
  <2>1. PICK a \in 1..Len(s) : s[a] = k
    BY <1>3, <1>4, <1>8
  <2>2. ~(a \in 1..Len(t)) /\ i \in 1..Len(s)
    BY <2>1, <1>5, <1>6, <1>8
  <2>3. i < a
    BY <2>2, <1>6
  <2>4. t[i] <= k
    BY <2>1, <2>2, <2>3, <1>4, <1>5
  <2>5. t[i] \in Nat /\ k \in Nat /\ t[i] # k
    BY <1>0, <1>6, <1>8
  <2> QED
    BY <2>4, <2>5
<1>9. Ordered(t)
  BY <1>7, <1>8 DEF Ordered
<1> QED
  BY <1>2, <1>5, <1>9 DEF t, s

LEMMA AppliedType ==
    ASSUME NEW found \in [Known -> Nat], NEW limit \in {0, 1}
    PROVE  Limited(Applied(found), limit) \in Seq(Known)
<1> DEFINE s == InOrder(found)
<1>1. s \in Seq(Known)
  BY InOrderAscends
<1> HIDE DEF s
<1>2. Reverse(s) = [i \in 1..Len(s) |-> s[(Len(s) - i) + 1]]
  BY DEF Reverse
<1>3. [i \in 1..Len(s) |-> s[(Len(s) - i) + 1]] \in Seq(Known)
  <2>1. Len(s) \in Nat
    BY <1>1
  <2>2. \A i \in 1..Len(s) : s[(Len(s) - i) + 1] \in Known
    <3> TAKE i \in 1..Len(s)
    <3>1. (Len(s) - i) + 1 \in 1..Len(s)
      BY <2>1
    <3> QED
      BY <3>1, <1>1
  <2> QED
    BY <2>1, <2>2
<1>4. Applied(found) \in Seq(Known)
  BY <1>2, <1>3 DEF Applied, s
<1> QED
  BY <1>4, LimitedType

\* The next one of what is left in order.
LEMMA NextInOrder ==
    ASSUME NEW left \in Seq(Known), left # <<>>, Ordered(left)
    PROVE  /\ Head(left) \in Known /\ UpTo(Head(left)) /\ Tail(left) \in Seq(Known)
           /\ ups[Head(left)] > 0 => Ordered(Tail(left))
<1>0. Known \subseteq Nat
  BY KnownType
<1>1. /\ Len(left) \in Nat /\ 1 \in 1..Len(left) /\ Head(left) = left[1]
      /\ \A i \in 1..Len(left) : left[i] \in Known /\ left[i] \in Nat
  <2>1. Len(left) \in Nat /\ Len(left) # 0 /\ Head(left) = left[1]
    BY HeadTailProperties
  <2>2. \A i \in 1..Len(left) : left[i] \in Known
    OBVIOUS
  <2>3. 1 \in 1..Len(left)
    BY <2>1
  <2>4. \A i \in 1..Len(left) : left[i] \in Nat
    BY <2>2, <1>0
  <2> QED
    BY <2>1, <2>2, <2>3, <2>4
<1>2. Tail(left) \in Seq(Known) /\ Len(Tail(left)) = Len(left) - 1
      /\ \A i \in 1..(Len(left) - 1) : Tail(left)[i] = left[i + 1]
  BY HeadTailProperties
<1>3. UpTo(left[1])
  <2> SUFFICES ASSUME NEW k \in Known, k < left[1], ~(ups[k] > 0) PROVE FALSE
    BY DEF UpTo
  <2>1. k \in Nat /\ left[1] \in Nat /\ ~(left[1] < k)
    BY <1>0, <1>1
  <2>2. PICK i \in 1..Len(left) : left[i] = k
    BY <2>1, <1>1 DEF Ordered
  <2>3. i # 1 /\ 1 < i
    BY <2>1, <2>2, <1>1
  <2>4. left[1] <= left[i]
    BY <2>3, <1>1 DEF Ordered
  <2> QED
    BY <2>1, <2>2, <2>4
<1>4. ASSUME ups[left[1]] > 0 PROVE Ordered(Tail(left))
  <2> DEFINE t == Tail(left)
  <2>0. \A i \in 1..Len(t) : i + 1 \in 1..Len(left) /\ t[i] = left[i + 1]
    BY <1>1, <1>2
  <2>1. \A i, j \in 1..Len(t) : i < j => t[i] <= t[j]
    <3> TAKE i \in 1..Len(t), j \in 1..Len(t)
    <3> HAVE i < j
    <3>1. i + 1 \in 1..Len(left) /\ j + 1 \in 1..Len(left) /\ i + 1 < j + 1
      BY <2>0, <1>1, <1>2
    <3>2. left[i + 1] <= left[j + 1]
      BY <3>1 DEF Ordered
    <3> QED
      BY <3>2, <2>0
  <2>2. ASSUME NEW k \in Known, ~(ups[k] > 0), ~(\A i \in 1..Len(t) : t[i] < k)
        PROVE  \E i \in 1..Len(t) : t[i] = k
    <3>1. PICK x \in 1..Len(t) : ~(t[x] < k)
      BY <2>2
    <3>2. x + 1 \in 1..Len(left) /\ ~(left[x + 1] < k)
      BY <3>1, <2>0
    <3>3. PICK i \in 1..Len(left) : left[i] = k
      BY <2>2, <3>2 DEF Ordered
    <3>4. i # 1
      BY <3>3, <2>2, <1>4
    <3>5. i - 1 \in 1..Len(t) /\ (i - 1) + 1 = i
      BY <3>4, <1>1, <1>2
    <3>6. t[i - 1] = k
      BY <3>3, <3>5, <2>0
    <3> QED
      BY <3>5, <3>6
  <2> QED
    BY <2>1, <2>2 DEF Ordered
<1> QED
  BY <1>1, <1>2, <1>3, <1>4

--------------------------------------------------------------------------------
(* Init.                                                                        *)

LEMMA SchemaInitInv ==
    ASSUME SchemaInit
    PROVE  SchemaInv
<1>1. changes \in Seq([removed : SUBSET Named, added : SUBSET Named])
  <2> DEFINE A == {Thing("class", n) : n \in Names}
  <2>1. A \subseteq Named
    BY ThingType DEF Kinds
  <2>2. Added(A) = [removed |-> {}, added |-> A]
    BY DEF Added
  <2> HIDE DEF A
  <2>3. Added(A) \in [removed : SUBSET Named, added : SUBSET Named]
    BY <2>1, <2>2
  <2>4. changes \in {<<>>, <<Added(A)>>}
    BY DEF SchemaInit, A
  <2>5. <<Added(A)>> \in Seq([removed : SUBSET Named, added : SUBSET Named])
    BY <2>3
  <2>6. <<>> \in Seq([removed : SUBSET Named, added : SUBSET Named])
    OBVIOUS
  <2> QED
    BY <2>4, <2>5, <2>6
<1>2. Len(changes) \in Nat
  BY <1>1
<1>3. PICK held \in {Never, Len(changes)} :
        /\ cached = [d \in Dbs |-> [k \in Kinds |->
                        IF k = "class" THEN held
                        ELSE IF k = "cluster" /\ api = "legacy" THEN Len(changes) ELSE Never]]
        /\ instance \in {f \in [Callers -> {<<>>} \cup (Names \X {held})] :
                           \A c \in Callers : f[c] = <<>> <=> held = Never}
  BY DEF SchemaInit
<1>4. held \in Nat \cup {Never}
  BY <1>2
<1>5. cached \in [Dbs -> [Kinds -> Nat \cup {Never}]]
  BY <1>2, <1>3, <1>4
<1>6. instance \in [Callers -> Held]
  BY <1>3, <1>4 DEF Held
<1>7. /\ api \in {"legacy", "client"} /\ dbOf \in [Callers -> Dbs]
      /\ call = [c \in Callers |-> NoCall] /\ flight = [d \in Dbs |-> <<>>]
      /\ opened = [d \in Dbs |-> TRUE] /\ losses = 0
  BY DEF SchemaInit
<1>8. \A d \in Dbs : flight[d] \in Seq(Entry) /\ Len(flight[d]) = 0
  BY <1>7
<1>9. SchemaType
  <2>1. call \in [Callers -> CallRecord]
    BY <1>7, NoCallType
  <2>2. flight \in [Dbs -> Seq(Entry)]
    BY <1>7
  <2>3. opened \in [Dbs -> BOOLEAN] /\ losses \in Nat
    BY <1>7
  <2> QED
    BY <1>1, <1>5, <1>6, <1>7, <2>1, <2>2, <2>3 DEF SchemaType
<1>10. ASSUME NEW d \in Dbs PROVE Traced(d)
  BY <1>8 DEF Traced
<1>11. ASSUME NEW c \in Callers PROVE Counted(c)
  <2>1. dbOf[c] \in Dbs
    BY <1>7
  <2>2. OwnIn(flight[dbOf[c]], c) = {}
    BY <2>1, <1>8 DEF OwnIn
  <2>3. Cardinality(Own(c)) = 0
    BY <2>2, FS_EmptySet DEF Own
  <2>4. call[c] = NoCall
    BY <1>7
  <2>5. NoCall.sent = 0 /\ NoCall.todo = <<>> /\ NoCall.outcome = "none" /\ NoCall.op = "none"
    BY DEF NoCall
  <2> QED
    BY <2>3, <2>4, <2>5 DEF Counted
<1> QED
  BY <1>9, <1>10, <1>11 DEF SchemaInv

--------------------------------------------------------------------------------
(* The calls a program makes.                                                   *)

LEMMA CallsBegin ==
    ASSUME SchemaInv, NEW k \in Kinds \cup {"managers"}, CallNext(k)
    PROVE  \E c \in Callers : \E op, t, stages :
              /\ op # "statement" /\ Plan(op, t, stages) /\ (t \in Parts => instance[c] # <<>>)
              /\ Start(c, op, t, stages)
<1>1. PICK c \in Callers : CallClass(c) \/ CallProperty(c) \/ CallIndex(c) \/ CallSequence(c) \/ CallCluster(c)
  BY DEF CallNext
<1> DEFINE Goal == \E op, t, stages :
              /\ op # "statement" /\ Plan(op, t, stages) /\ (t \in Parts => instance[c] # <<>>)
              /\ Start(c, op, t, stages)
<1> SUFFICES Goal
  OBVIOUS
<1>2. ASSUME NEW op, NEW t, NEW stages, Plan(op, t, stages), Call(c, op, t, stages),
             t \in Parts => instance[c] # <<>>
      PROVE  Goal
  BY <1>2 DEF Plan, Call
<1>3. \A k1 \in Kinds : \A n \in Names : Thing(k1, n) \notin Parts
  <2> TAKE k1 \in Kinds
  <2> TAKE n \in Names
  <2>1. Thing(k1, n) \in Whole
    BY ThingType
  <2> QED
    BY <2>1, KindOf
<1>4. "class" \in Kinds /\ "index" \in Kinds /\ "sequence" \in Kinds /\ "cluster" \in Kinds
  BY DEF Kinds
<1> HIDE DEF Goal
<1>5. ASSUME NEW op, NEW n \in Names, NEW k1 \in Kinds, NEW stages, Plan(op, Thing(k1, n), stages),
             Call(c, op, Thing(k1, n), stages)
      PROVE  Goal
  BY <1>2, <1>3, <1>5
<1>6. CASE CallClass(c)
  <2>1. PICK n \in Names : LET t == Thing("class", n) IN
    \/ Call(c, "create", t, ClassCreate(c, t))
    \/ Call(c, "update", t, ClassUpdate(c, t))
    \/ Call(c, "drop", t, ClassDrop(c, t))
    \/ Call(c, "use", t, ClassRecords(t))
    \/ Call(c, "use", t, ClassInsert(t))
    \/ \E refresh \in BOOLEAN :
        \/ Call(c, "get", t, ClassGet(c, refresh))
        \/ Call(c, "list", t, ClassList(c, refresh))
    BY <1>6 DEF CallClass
  <2> DEFINE t == Thing("class", n)
  <2>2. PICK refresh \in BOOLEAN :
    \/ Call(c, "create", t, ClassCreate(c, t))
    \/ Call(c, "update", t, ClassUpdate(c, t))
    \/ Call(c, "drop", t, ClassDrop(c, t))
    \/ Call(c, "use", t, ClassRecords(t))
    \/ Call(c, "use", t, ClassInsert(t))
    \/ Call(c, "get", t, ClassGet(c, refresh))
    \/ Call(c, "list", t, ClassList(c, refresh))
    BY <2>1
  <2>3. /\ Plan("create", t, ClassCreate(c, t))
        /\ Plan("update", t, ClassUpdate(c, t))
        /\ Plan("drop", t, ClassDrop(c, t))
        /\ Plan("use", t, ClassRecords(t))
        /\ Plan("use", t, ClassInsert(t))
        /\ Plan("get", t, ClassGet(c, refresh))
        /\ Plan("list", t, ClassList(c, refresh))
    BY ClassPlans
  <2> QED
    BY <2>2, <2>3, <1>4, <1>5
<1>7. CASE CallIndex(c)
  <2>1. PICK n \in Names : LET t == Thing("index", n) IN
    \/ Call(c, "create", t, IndexCreate(c, t))
    \/ Call(c, "drop", t, IndexDrop(c, t))
    \/ Call(c, "use", t, IndexAdd(t))
    \/ Call(c, "use", t, IndexStatement(t))
    \/ \E refresh \in BOOLEAN :
        \/ Call(c, "get", t, IndexGet(c, refresh))
        \/ Call(c, "list", t, IndexList(c, refresh))
    BY <1>7 DEF CallIndex
  <2> DEFINE t == Thing("index", n)
  <2>2. PICK refresh \in BOOLEAN :
    \/ Call(c, "create", t, IndexCreate(c, t))
    \/ Call(c, "drop", t, IndexDrop(c, t))
    \/ Call(c, "use", t, IndexAdd(t))
    \/ Call(c, "use", t, IndexStatement(t))
    \/ Call(c, "get", t, IndexGet(c, refresh))
    \/ Call(c, "list", t, IndexList(c, refresh))
    BY <2>1
  <2>3. /\ Plan("create", t, IndexCreate(c, t))
        /\ Plan("drop", t, IndexDrop(c, t))
        /\ Plan("use", t, IndexAdd(t))
        /\ Plan("use", t, IndexStatement(t))
        /\ Plan("get", t, IndexGet(c, refresh))
        /\ Plan("list", t, IndexList(c, refresh))
    BY IndexPlans
  <2> QED
    BY <2>2, <2>3, <1>4, <1>5
<1>8. CASE CallSequence(c)
  <2>1. PICK n \in Names : LET t == Thing("sequence", n) IN
    \/ Call(c, "create", t, SequenceCreate(c, t))
    \/ Call(c, "update", t, SequenceUpdate(c, t))
    \/ Call(c, "drop", t, SequenceDrop(c, t))
    \/ \E refresh \in BOOLEAN :
        \/ Call(c, "get", t, SequenceGet(c, refresh))
        \/ Call(c, "list", t, SequenceList(c, refresh))
    BY <1>8 DEF CallSequence
  <2> DEFINE t == Thing("sequence", n)
  <2>2. PICK refresh \in BOOLEAN :
    \/ Call(c, "create", t, SequenceCreate(c, t))
    \/ Call(c, "update", t, SequenceUpdate(c, t))
    \/ Call(c, "drop", t, SequenceDrop(c, t))
    \/ Call(c, "get", t, SequenceGet(c, refresh))
    \/ Call(c, "list", t, SequenceList(c, refresh))
    BY <2>1
  <2>3. /\ Plan("create", t, SequenceCreate(c, t))
        /\ Plan("update", t, SequenceUpdate(c, t))
        /\ Plan("drop", t, SequenceDrop(c, t))
        /\ Plan("get", t, SequenceGet(c, refresh))
        /\ Plan("list", t, SequenceList(c, refresh))
    BY SequencePlans
  <2> QED
    BY <2>2, <2>3, <1>4, <1>5
<1>9. CASE CallCluster(c)
  <2>1. PICK n \in Names : LET t == Thing("cluster", n) IN
    \/ Call(c, "create", t, ClusterCreate(t))
    \/ Call(c, "drop", t, ClusterDrop(c, t))
    \/ Call(c, "count", t, ClusterCount(c, t))
    \/ \E refresh \in BOOLEAN :
        \/ Call(c, "get", t, ClusterGet(c, refresh))
        \/ Call(c, "list", t, ClusterList(c, refresh))
    BY <1>9 DEF CallCluster
  <2> DEFINE t == Thing("cluster", n)
  <2>2. PICK refresh \in BOOLEAN :
    \/ Call(c, "create", t, ClusterCreate(t))
    \/ Call(c, "drop", t, ClusterDrop(c, t))
    \/ Call(c, "count", t, ClusterCount(c, t))
    \/ Call(c, "get", t, ClusterGet(c, refresh))
    \/ Call(c, "list", t, ClusterList(c, refresh))
    BY <2>1
  <2>3. /\ Plan("create", t, ClusterCreate(t))
        /\ Plan("drop", t, ClusterDrop(c, t))
        /\ Plan("count", t, ClusterCount(c, t))
        /\ Plan("get", t, ClusterGet(c, refresh))
        /\ Plan("list", t, ClusterList(c, refresh))
    BY ClusterPlans
  <2> QED
    BY <2>2, <2>3, <1>4, <1>5
<1>10. CASE CallProperty(c)
  <2>1. instance[c] # <<>> /\ instance[c][1] \in Names
    BY <1>10, HeldType DEF CallProperty
  <2> DEFINE n == instance[c][1]
  <2>2. PICK p \in Props : LET t == Property(n, p) IN
        \/ Call(c, "create", t, PropertyCreate(c, t))
        \/ Call(c, "create", t, PropertyCreateSet(c, t))
        \/ Call(c, "update", t, PropertyUpdate(c, t, TRUE))
        \/ Call(c, "drop", t, PropertyDrop(c, t))
        \/ Call(c, "alter", t, PropertyAlter(c, t))
        \/ Call(c, "reload", t, PropertyReload(c))
        \/ Call(c, "alter", t, CustomSet(c, t))
        \/ Call(c, "alter", t, CustomUnset(c, t))
        \/ \E q \in Props \ {p} :
            \/ Call(c, "create", Property(n, q), PropertyRename(c, t, Property(n, q)))
            \/ Call(c, "create", t, PropertyCreateAll(c, <<t, Property(n, q)>>))
    BY <1>10 DEF CallProperty
  <2> HIDE DEF n
  <2> DEFINE t == Property(n, p)
  <2>3. PICK q \in Props :
        \/ Call(c, "create", t, PropertyCreate(c, t))
        \/ Call(c, "create", t, PropertyCreateSet(c, t))
        \/ Call(c, "update", t, PropertyUpdate(c, t, TRUE))
        \/ Call(c, "drop", t, PropertyDrop(c, t))
        \/ Call(c, "alter", t, PropertyAlter(c, t))
        \/ Call(c, "reload", t, PropertyReload(c))
        \/ Call(c, "alter", t, CustomSet(c, t))
        \/ Call(c, "alter", t, CustomUnset(c, t))
        \/ Call(c, "create", Property(n, q), PropertyRename(c, t, Property(n, q)))
        \/ Call(c, "create", t, PropertyCreateAll(c, <<t, Property(n, q)>>))
    BY <2>2
  <2>4. n \in Names
    BY <2>1 DEF n
  <2>5. /\ Plan("create", t, PropertyCreate(c, t))
        /\ Plan("create", t, PropertyCreateSet(c, t))
        /\ Plan("update", t, PropertyUpdate(c, t, TRUE))
        /\ Plan("drop", t, PropertyDrop(c, t))
        /\ Plan("alter", t, PropertyAlter(c, t))
        /\ Plan("reload", t, PropertyReload(c))
        /\ Plan("alter", t, CustomSet(c, t))
        /\ Plan("alter", t, CustomUnset(c, t))
        /\ Plan("create", Property(n, q), PropertyRename(c, t, Property(n, q)))
        /\ Plan("create", t, PropertyCreateAll(c, <<t, Property(n, q)>>))
    BY <2>4, PropertyPlans
  <2> HIDE DEF t
  <2> QED
    BY <2>1, <2>3, <2>5, <1>2
<1> QED
  BY <1>1, <1>6, <1>7, <1>8, <1>9, <1>10

--------------------------------------------------------------------------------
(* What a step on the schema may do to the calls and requests of a manager.     *)

\* A request in flight that was in flight before, with what it had.
Carried(d, e) == \E i \in 1..Len(flight[d]) :
    /\ e.what = flight[d][i].what /\ e.reply = flight[d][i].reply
    /\ e.who \in {flight[d][i].who, Nobody}

\* Besides there are requests about the schema, and those of R.
Flows(R) == \A d \in Dbs : \A j \in 1..Len(flight'[d]) :
    \/ Carried(d, flight'[d][j])
    \/ flight'[d][j].what \in SchemaRequests
    \/ flight'[d][j] \in R

Sent(c, r) == [who |-> c, what |-> r, reply |-> <<>>]

\* A statement ends with the answer to a request of its own, or fails.
Follows(c) ==
    /\ call'[c].op = call[c].op /\ call'[c].of = call[c].of
    /\ call[c].op = "create" /\ call'[c].outcome = "done" => call[c].outcome = "done"
    /\ call[c].op = "statement" =>
          \/ call'[c] = call[c]
          \/ call'[c].outcome = "failed"
          \/ \E i \in Own(c) : LET e == flight[dbOf[c]][i] IN Answered(e) /\ call'[c].got = e.reply[2]

Moves == UNCHANGED dbOf /\ (\A c \in Callers : Follows(c)) /\ Flows({})

LEMMA Joined2 ==
    ASSUME NEW S, NEW s \in Seq(S), NEW t \in Seq(S), NEW i \in 1..Len(s \o t)
    PROVE  \/ i \in 1..Len(s) /\ (s \o t)[i] = s[i]
           \/ \E j \in 1..Len(t) : (s \o t)[i] = t[j]
<1>1. /\ Len(s) \in Nat /\ Len(t) \in Nat /\ Len(s \o t) = Len(s) + Len(t)
      /\ \A j \in 1..Len(s) : (s \o t)[j] = s[j]
      /\ \A j \in 1..Len(t) : (s \o t)[Len(s) + j] = t[j]
  BY ConcatProperties
<1>2. CASE i <= Len(s)
  BY <1>1, <1>2
<1>3. CASE ~(i <= Len(s))
  <2> DEFINE j == i - Len(s)
  <2>1. j \in 1..Len(t) /\ Len(s) + j = i
    BY <1>1, <1>3
  <2> HIDE DEF j
  <2> QED
    BY <2>1, <1>1
<1> QED
  BY <1>2, <1>3

LEMMA StillThere ==
    ASSUME SchemaInv, UNCHANGED flight
    PROVE  Flows({})
BY DEF Flows, Carried

LEMMA SendsMoves ==
    ASSUME SchemaInv, NEW c \in Callers, NEW k \in CallRecord, Sends(c, k)
    PROVE  /\ \A x \in Callers : x # c => call'[x] = call[x]
           /\ call'[c].op = k.op /\ call'[c].of = k.of /\ call'[c].outcome = k.outcome
           /\ k.op # "statement" => Flows({})
           /\ \A r \in Statements : k.todo = <<One(r)>> => Flows({Sent(c, r)})
<1> DEFINE D == dbOf[c]
<1>0. /\ call \in [Callers -> CallRecord] /\ flight \in [Dbs -> Seq(Entry)] /\ D \in Dbs /\ flight[D] \in Seq(Entry)
  BY DEF SchemaInv, SchemaType
<1>1. CASE k.todo = <<>>
  BY <1>0, <1>1, StillThere DEF Sends, Flows
<1>2. CASE k.todo # <<>>
  <2> DEFINE k2 == [k EXCEPT !.todo = Tail(k.todo), !.sent = Len(Head(k.todo))]
             a == Reopening(c)
             rs == Head(k.todo)
             b == Tagged(c, rs)
  <2>1. call' = [call EXCEPT ![c] = k2] /\ flight' = [flight EXCEPT ![D] = flight[D] \o a \o b]
    BY <1>2 DEF Sends
  <2>2. k2.op = k.op /\ k2.of = k.of /\ k2.outcome = k.outcome
    BY DEF CallRecord
  <2> HIDE DEF k2
  <2>3. rs \in Seq(AskedBy(k.op)) /\ rs \in Seq(Requests) /\ rs = k.todo[1]
    <3>1. k.todo \in Seq(Seq(AskedBy(k.op)))
      BY CallType
    <3>2. rs \in Seq(AskedBy(k.op)) /\ rs = k.todo[1]
      BY <1>2, <3>1, HeadTailProperties
    <3>3. Seq(AskedBy(k.op)) \subseteq Seq(Requests)
      BY AskedType, SeqMonotonic
    <3> QED
      BY <3>2, <3>3
  <2> HIDE DEF rs
  <2>4. a \in Seq(Entry) /\ \A j \in 1..Len(a) : a[j].what \in SchemaRequests
    BY ReopeningType
  <2>5. b \in Seq(Entry) /\ \A j \in 1..Len(b) : \E x \in 1..Len(rs) : b[j] = Sent(c, rs[x])
    BY <2>3, TaggedType DEF Tagged, Sent
  <2> HIDE DEF a, b
  <2> DEFINE s == flight[D] \o a
             t == s \o b
  <2>6. s \in Seq(Entry)
    BY <1>0, <2>4, ConcatProperties
  <2>7. ASSUME NEW j \in 1..Len(t)
        PROVE  \/ \E i \in 1..Len(flight[D]) : t[j] = flight[D][i]
               \/ t[j].what \in SchemaRequests
               \/ \E x \in 1..Len(rs) : t[j] = Sent(c, rs[x])
    <3> HIDE DEF s
    <3>1. (j \in 1..Len(s) /\ t[j] = s[j]) \/ \E x \in 1..Len(b) : t[j] = b[x]
      BY <2>5, <2>6, Joined2
    <3> HIDE DEF t
    <3>2. CASE j \in 1..Len(s) /\ t[j] = s[j]
      BY <3>2, <1>0, <2>4, Joined2 DEF s
    <3>3. CASE \E x \in 1..Len(b) : t[j] = b[x]
      BY <3>3, <2>5
    <3> QED
      BY <3>1, <3>2, <3>3
  <2> HIDE DEF s, t
  <2>8. flight'[D] = t /\ \A d \in Dbs : d # D => flight'[d] = flight[d]
    BY <1>0, <2>1 DEF s, t
  <2>9. ASSUME NEW R, \A x \in 1..Len(rs) : Sent(c, rs[x]) \in R \/ rs[x] \in SchemaRequests
        PROVE  Flows(R)
    <3> SUFFICES ASSUME NEW d \in Dbs, NEW j \in 1..Len(flight'[d])
                 PROVE  \/ Carried(d, flight'[d][j])
                        \/ flight'[d][j].what \in SchemaRequests
                        \/ flight'[d][j] \in R
      BY DEF Flows
    <3>1. CASE d = D
      <4>1. (\E i \in 1..Len(flight[D]) : t[j] = flight[D][i]) => Carried(d, t[j])
        BY <3>1 DEF Carried
      <4>2. \A r : Sent(c, r).what = r
        BY DEF Sent
      <4> QED
        BY <3>1, <4>1, <4>2, <2>7, <2>8, <2>9
    <3>2. CASE d # D
      BY <3>2, <2>8 DEF Carried
    <3> QED
      BY <3>1, <3>2
  <2>10. k.op # "statement" => Flows({})
    BY AskedType, <2>3, <2>9
  <2>11. ASSUME NEW r \in Statements, k.todo = <<One(r)>> PROVE Flows({Sent(c, r)})
    <3>0. rs = One(r)
      BY <2>3, <2>11
    <3>1. rs = One(r) /\ Len(One(r)) = 1 /\ One(r)[1] = r
      BY <3>0, OneType
    <3> QED
      BY <3>1, <2>9
  <2>12. call'[c] = k2 /\ \A x \in Callers : x # c => call'[x] = call[x]
    BY <1>0, <2>1
  <2> QED
    BY <2>2, <2>10, <2>11, <2>12
<1> QED
  BY <1>1, <1>2

LEMMA StartMoves ==
    ASSUME SchemaInv, NEW c \in Callers, NEW op, NEW t, NEW stages, Begins(op, t, stages),
           Start(c, op, t, stages)
    PROVE  /\ UNCHANGED dbOf
           /\ \A x \in Callers : x # c => call'[x] = call[x]
           /\ call'[c].op = op /\ call'[c].of = t
           /\ op \in {"create", "statement"} => call'[c].outcome = "pending"
           /\ op # "statement" => Flows({})
           /\ \A r \in Statements : stages = <<One(r)>> => Flows({Sent(c, r)})
<1> DEFINE k == Fresh(op, t, stages)
<1>1. /\ k \in CallRecord /\ k.op = op /\ k.of = t /\ k.todo = stages /\ k.outcome = "pending"
  BY NewCall
<1>2. /\ IF stages = <<>> /\ HasCached(c, t[1]) THEN FinishThing(c, k) /\ UNCHANGED <<flight, opened>>
         ELSE Sends(c, k) /\ UNCHANGED instance
      /\ UNCHANGED <<api, dbOf, changes, cached, losses>>
  BY DEF Start, Fresh
<1> HIDE DEF k
<1>3. CASE stages = <<>> /\ HasCached(c, t[1])
  <2>1. FinishThing(c, k) /\ UNCHANGED <<flight, opened>>
    BY <1>2, <1>3
  <2>2. op \notin {"create", "statement"}
    <3>1. op = "create" => Len(stages) > 1
      BY DEF Begins, Plan
    <3>2. op = "statement" => \E r : stages = <<One(r)>>
      BY DEF Begins, Plan
    <3>3. \A r : Len(<<One(r)>>) = 1
      OBVIOUS
    <3> QED
      BY <1>3, <3>1, <3>2, <3>3
  <2>3. PICK outcome : Settled(c, k, outcome)
    BY <2>1 DEF FinishThing
  <2>4. call' = [call EXCEPT ![c] = [k EXCEPT !.outcome = outcome, !.todo = <<>>]]
    BY <2>3 DEF Settled
  <2>5. call \in [Callers -> CallRecord]
    BY DEF SchemaInv, SchemaType
  <2>6. call'[c].op = op /\ call'[c].of = t /\ \A x \in Callers : x # c => call'[x] = call[x]
    BY <1>1, <2>4, <2>5 DEF CallRecord
  <2>7. Flows({}) /\ \A r : stages # <<One(r)>>
    BY <2>1, <1>3, StillThere
  <2> QED
    BY <1>2, <2>2, <2>6, <2>7
<1>4. CASE ~(stages = <<>> /\ HasCached(c, t[1]))
  BY <1>1, <1>2, <1>4, SendsMoves
<1> QED
  BY <1>3, <1>4

LEMMA RestCarried ==
    ASSUME SchemaInv, NEW d \in Dbs, NEW i \in 1..Len(flight[d]), NEW s,
           s = RemoveAt(flight[d], i) \/ \E W : s = Disowned(RemoveAt(flight[d], i), W)
    PROVE  \A j \in 1..Len(s) : Carried(d, s[j])
<1> DEFINE f == flight[d]
           r == RemoveAt(f, i)
<1>0. f \in Seq(Entry) /\ Len(f) \in Nat
  BY DEF SchemaInv, SchemaType
<1>1. /\ r \in Seq(Entry) /\ Len(r) = Len(f) - 1
      /\ \A j \in 1..(Len(f) - 1) : r[j] = IF j < i THEN f[j] ELSE f[j + 1]
  BY <1>0, Removal
<1> HIDE DEF r
<1>2. ASSUME NEW j \in 1..Len(r) PROVE \E x \in 1..Len(f) : r[j] = f[x]
  BY <1>0, <1>1
<1>3. CASE s = r
  BY <1>2, <1>3 DEF Carried
<1>4. CASE \E W : s = Disowned(r, W)
  <2>1. PICK W : s = Disowned(r, W)
    BY <1>4
  <2>2. /\ Len(s) = Len(r)
        /\ \A j \in 1..Len(r) : /\ s[j].who = IF r[j].who \in W THEN Nobody ELSE r[j].who
                                /\ s[j].what = r[j].what /\ s[j].reply = r[j].reply
    BY <2>1, <1>1, DisownedType
  <2> HIDE DEF f
  <2>3. ASSUME NEW j \in 1..Len(s)
        PROVE  \E x \in 1..Len(f) : s[j].what = f[x].what /\ s[j].reply = f[x].reply
                                     /\ s[j].who \in {f[x].who, Nobody}
    <3>1. PICK x \in 1..Len(f) : r[j] = f[x]
      BY <2>2, <1>2
    <3>2. s[j].what = f[x].what /\ s[j].reply = f[x].reply /\ s[j].who \in {f[x].who, Nobody}
      BY <3>1, <2>2
    <3> QED
      BY <3>2
  <2> QED
    BY <2>3 DEF Carried, f
<1> QED
  BY <1>3, <1>4 DEF r

LEMMA ThingSettles ==
    ASSUME NEW c, NEW k \in CallRecord, FinishThing(c, k)
    PROVE  \E outcome : Settled(c, k, outcome) /\ (k.op = "create" => outcome # "done")
<1> DEFINE v == cached[dbOf[c]][k.of[1]]
<1>1. CASE k.of[1] = "cluster" /\ v = Never
  BY <1>1 DEF FinishThing
<1>2. CASE ~(k.of[1] = "cluster" /\ v = Never) /\ k.op \notin {"create", "update", "get"}
  BY <1>2 DEF FinishThing
<1>3. CASE ~(k.of[1] = "cluster" /\ v = Never) /\ k.op \in {"create", "update", "get"}
  BY <1>3 DEF FinishThing
<1> QED
  BY <1>1, <1>2, <1>3

LEMMA PropertySettles ==
    ASSUME NEW c, NEW k \in CallRecord, FinishProperty(c, k)
    PROVE  \E outcome : Settled(c, k, outcome) /\ (k.op = "create" => outcome # "done")
<1> DEFINE v == cached[dbOf[c]]["class"]
           o == IF k.op \in {"drop", "alter"} THEN "done"
                ELSE IF k.of \in Contents[v] THEN "found"
                ELSE IF k.op = "reload" THEN "failed" ELSE "missing"
<1>1. Settled(c, k, "gone") \/ Settled(c, k, o)
  BY DEF FinishProperty
<1>2. k.op = "create" => o # "done"
  OBVIOUS
<1> HIDE DEF o
<1> QED
  BY <1>1, <1>2

LEMMA ContinueMoves ==
    ASSUME SchemaInv, NEW c \in Callers, Continue(c)
    PROVE  Moves
<1> DEFINE k == call[c]
<1>1. k \in CallRecord /\ call \in [Callers -> CallRecord]
  BY DEF SchemaInv, SchemaType
<1>2. k.outcome = "pending" /\ k.sent = 0 /\ UNCHANGED <<api, dbOf, changes, cached, losses>>
  BY DEF Continue
<1>3. k.op # "statement"
  BY <1>2 DEF SchemaInv, Counted
<1> HIDE DEF k
<1>4. ASSUME NEW outcome, Settled(c, k, outcome), k.op = "create" => outcome # "done"
      PROVE  \A x \in Callers : Follows(x)
  <2>1. call' = [call EXCEPT ![c] = [k EXCEPT !.outcome = outcome, !.todo = <<>>]]
    BY <1>4 DEF Settled
  <2>2. /\ \A x \in Callers : x # c => call'[x] = call[x]
        /\ call'[c].op = k.op /\ call'[c].of = k.of /\ call'[c].outcome = outcome
    BY <2>1, <1>1 DEF CallRecord
  <2> QED
    BY <2>2, <1>3, <1>4 DEF Follows, k
<1>5. CASE Unknown(c)
  <2>1. Settled(c, k, "failed") /\ UNCHANGED flight
    BY <1>5 DEF Continue, k
  <2> QED
    BY <2>1, <1>2, <1>4, StillThere DEF Moves
<1>6. CASE ~Unknown(c) /\ k.todo # <<>>
  <2>1. Sends(c, k)
    BY <1>6 DEF Continue, k
  <2>2. /\ \A x \in Callers : x # c => call'[x] = call[x]
        /\ call'[c].op = k.op /\ call'[c].of = k.of /\ call'[c].outcome = k.outcome
        /\ Flows({})
    BY <2>1, <1>1, <1>3, SendsMoves
  <2>3. \A x \in Callers : Follows(x)
    BY <2>2, <1>2, <1>3 DEF Follows, k
  <2> QED
    BY <2>2, <2>3, <1>2 DEF Moves
<1>7. CASE ~Unknown(c) /\ k.todo = <<>>
  <2>1. /\ UNCHANGED flight
        /\ IF k.of[1] = "property" THEN FinishProperty(c, k) ELSE FinishThing(c, k)
    BY <1>7 DEF Continue, k
  <2>2. \E outcome : Settled(c, k, outcome) /\ (k.op = "create" => outcome # "done")
    <3> QED
      BY <2>1, <1>1, ThingSettles, PropertySettles
  <2> QED
    BY <2>1, <2>2, <1>2, <1>4, StillThere DEF Moves
<1> QED
  BY <1>5, <1>6, <1>7

LEMMA StandStill ==
    ASSUME UNCHANGED call
    PROVE  \A c \in Callers : Follows(c)
BY DEF Follows

LEMMA ServeMoves ==
    ASSUME SchemaInv, NEW d \in Dbs, NEW i, Serve(d, i)
    PROVE  Moves
<1> DEFINE r == flight[d][i].what
<1>1. i \in 1..Len(flight[d]) /\ r.op \in SchemaOps /\ UNCHANGED <<call, dbOf>>
      /\ \E reply : Served(d, i, reply)
  BY DEF Serve
<1>2. PICK reply : Served(d, i, reply)
  BY <1>1
<1>3. r \in SchemaRequests
  BY <1>1, InFlight, StatementType
<1>4. /\ flight \in [Dbs -> Seq(Entry)] /\ flight' = [flight EXCEPT ![d][i].reply = reply]
      /\ flight[d] \in Seq(Entry)
  BY <1>2 DEF SchemaInv, SchemaType, Served
<1>5. \A x \in Dbs : x # d => flight'[x] = flight[x]
  BY <1>4
<1>6. Len(flight'[d]) = Len(flight[d]) /\ flight'[d][i].what = r
      /\ \A j \in 1..Len(flight[d]) : j # i => flight'[d][j] = flight[d][j]
  <2>1. flight'[d] = [flight[d] EXCEPT ![i].reply = reply]
    BY <1>4
  <2>2. flight[d][i] \in Entry
    BY <1>1, <1>4
  <2>3. Len(flight'[d]) = Len(flight[d]) /\ flight'[d][i] = [flight[d][i] EXCEPT !.reply = reply]
        /\ \A j \in 1..Len(flight[d]) : j # i => flight'[d][j] = flight[d][j]
    BY <2>1, <1>1, <1>4
  <2>4. [flight[d][i] EXCEPT !.reply = reply].what = r
    BY <2>2 DEF Entry
  <2> QED
    BY <2>3, <2>4
<1> HIDE DEF r
<1>7. Flows({})
  <2> SUFFICES ASSUME NEW x \in Dbs, NEW j \in 1..Len(flight'[x])
               PROVE  Carried(x, flight'[x][j]) \/ flight'[x][j].what \in SchemaRequests
    BY DEF Flows
  <2>1. CASE x = d /\ j = i
    BY <2>1, <1>3, <1>6
  <2>2. CASE ~(x = d /\ j = i)
    BY <2>2, <1>5, <1>6 DEF Carried
  <2> QED
    BY <2>1, <2>2
<1> QED
  BY <1>1, <1>7, StandStill DEF Moves

LEMMA ReplyMoves ==
    ASSUME SchemaInv, NEW d \in Dbs, NEW i, Reply(d, i)
    PROVE  Moves
<1> DEFINE e == flight[d][i]
           rest == RemoveAt(flight[d], i)
           failed == e.reply = <<"error">>
           s == IF failed THEN Disowned(rest, {e.who}) ELSE rest
<1>1. /\ i \in 1..Len(flight[d]) /\ e.reply # <<>> /\ UNCHANGED dbOf
      /\ flight' = [flight EXCEPT ![d] = s]
      /\ IF e.who = Nobody THEN UNCHANGED call
         ELSE call' = [call EXCEPT ![e.who] = IF failed THEN Failed(call[e.who]) ELSE Heard(call[e.who], e)]
  BY DEF Reply
<1>2. /\ e \in Entry /\ e.who \in Callers \cup {Nobody}
      /\ e.who # Nobody => /\ e.who \in Callers /\ i \in Own(e.who) /\ dbOf[e.who] = d
                           /\ e.what \in AskedBy(call[e.who].op) /\ call[e.who].sent > 0
  BY <1>1, InFlight
<1>0. flight \in [Dbs -> Seq(Entry)] /\ call \in [Callers -> CallRecord]
  BY DEF SchemaInv, SchemaType
<1>3. Flows({})
  <2>1. s = rest \/ \E W : s = Disowned(rest, W)
    OBVIOUS
  <2> HIDE DEF s
  <2>2. \A j \in 1..Len(s) : Carried(d, s[j])
    BY <2>1, <1>1, RestCarried
  <2>3. flight'[d] = s /\ \A x \in Dbs : x # d => flight'[x] = flight[x]
    BY <1>0, <1>1
  <2> SUFFICES ASSUME NEW x \in Dbs, NEW j \in 1..Len(flight'[x]) PROVE Carried(x, flight'[x][j])
    BY DEF Flows
  <2>4. CASE x = d
    BY <2>2, <2>3, <2>4
  <2>5. CASE x # d
    BY <2>3, <2>5 DEF Carried
  <2> QED
    BY <2>4, <2>5
<1>4. \A c \in Callers : Follows(c)
  <2>1. CASE e.who = Nobody
    BY <1>1, <2>1, StandStill
  <2>2. CASE e.who # Nobody /\ failed
    BY <1>0, <1>1, <1>2, <2>2, FailedType DEF Follows
  <2>3. CASE e.who # Nobody /\ ~failed
    <3> DEFINE c == e.who
               k == call[c]
    <3>1. call'[c] = Heard(k, e) /\ (\A x \in Callers : x # c => call'[x] = call[x]) /\ c \in Callers
      BY <1>0, <1>1, <1>2, <2>3
    <3>2. k \in CallRecord /\ k.sent > 0 /\ Answered(e) /\ e.what \in AskedBy(k.op) /\ e \in Entry
          /\ i \in Own(c) /\ e = flight[dbOf[c]][i]
      BY <1>0, <1>1, <1>2, <2>3 DEF Answered, Refused
    <3>3. e.what \in SchemaRequests <=> k.op # "statement"
      BY StatementType, RequestType, <3>2, AskedType
    <3> HIDE DEF k, c, e
    <3>4. /\ call'[c].op = k.op /\ call'[c].of = k.of
          /\ call'[c].got = IF e.what \in SchemaRequests THEN k.got ELSE e.reply[2]
          /\ call'[c].outcome = IF e.what \in SchemaRequests THEN k.outcome ELSE "done"
      BY <3>1, <3>2, HeardType
    <3>5. ASSUME k.op = "statement"
          PROVE  \E j \in Own(c) : LET x == flight[dbOf[c]][j] IN Answered(x) /\ call'[c].got = x.reply[2]
      BY <3>2, <3>3, <3>4, <3>5
    <3>6. Follows(c)
      BY <3>3, <3>4, <3>5 DEF Follows, k
    <3> QED
      BY <3>1, <3>6 DEF Follows
  <2> QED
    BY <2>1, <2>2, <2>3
<1> QED
  BY <1>1, <1>3, <1>4 DEF Moves

LEMMA CutMoves ==
    ASSUME SchemaInv, NEW W, Cut(W)
    PROVE  \A c \in Callers : Follows(c)
<1> TAKE c \in Callers
<1>1. call[c] \in CallRecord
  BY HeldType
<1>2. CASE c \in W
  BY <1>2, <1>1, FailedType DEF Cut, Follows
<1>3. CASE c \notin W
  BY <1>3 DEF Cut, Follows
<1> QED
  BY <1>2, <1>3

LEMMA LoseMoves ==
    ASSUME SchemaInv, NEW d \in Dbs, Lose(d)
    PROVE  Moves
<1>0. flight \in [Dbs -> Seq(Entry)]
  BY DEF SchemaInv, SchemaType
<1>1. UNCHANGED dbOf /\ \E W : Cut(W)
  BY DEF Lose
<1>2. \E s : flight' = [flight EXCEPT ![d] = s] /\ \A j \in 1..Len(s) : Carried(d, s[j])
  <2>1. CASE flight' = [flight EXCEPT ![d] = <<>>]
    <3>1. Len(<<>>) = 0 /\ 1..0 = {}
      OBVIOUS
    <3> QED
      BY <2>1, <3>1
  <2>2. ASSUME NEW i \in 1..Len(flight[d]), NEW W,
               flight' = [flight EXCEPT ![d] = Disowned(RemoveAt(flight[d], i), W)]
        PROVE  \E s : flight' = [flight EXCEPT ![d] = s] /\ \A j \in 1..Len(s) : Carried(d, s[j])
    BY <2>2, RestCarried
  <2> QED
    BY <2>1, <2>2 DEF Lose
<1>3. PICK s : flight' = [flight EXCEPT ![d] = s] /\ \A j \in 1..Len(s) : Carried(d, s[j])
  BY <1>2
<1>4. Flows({})
  <2> SUFFICES ASSUME NEW x \in Dbs, NEW j \in 1..Len(flight'[x]) PROVE Carried(x, flight'[x][j])
    BY DEF Flows
  <2>1. flight'[d] = s /\ \A y \in Dbs : y # d => flight'[y] = flight[y]
    BY <1>0, <1>3
  <2>2. CASE x = d
    BY <2>1, <2>2, <1>3
  <2>3. CASE x # d
    BY <2>1, <2>3 DEF Carried
  <2> QED
    BY <2>2, <2>3
<1> QED
  BY <1>1, <1>4, CutMoves DEF Moves

--------------------------------------------------------------------------------
(* What a manager has asked for.                                                *)

\* Requests about the schema are none of its business.
LEMMA SchemaEntry ==
    ASSUME NEW e, e.what \in SchemaRequests
    PROVE  EntryOK(e)
<1>1. e.what.op \notin {"up", "record", "select"}
  BY StatementType DEF SchemaOps
<1> QED
  BY <1>1 DEF EntryOK

LEMMA SameEntry ==
    ASSUME NEW e, NEW f, e.what = f.what, e.reply = f.reply, EntryOK(f)
    PROVE  EntryOK(e)
<1>1. Answered(e) <=> Answered(f)
  BY DEF Answered
<1> QED
  BY <1>1 DEF EntryOK

\* What it has asked for is asked for still, while nothing else is sent for it.
LEMMA AsksStill ==
    ASSUME SchemaInv, SchemaInv', UNCHANGED dbOf, NEW R, Flows(R),
           NEW m \in Callers, \A e \in R : e.who # m,
           call'[m].op = "statement", NEW r, Asks(m, r)
    PROVE  Asks(m, r)'
<1>1. ASSUME NEW j \in Own(m)' PROVE flight'[dbOf'[m]][j].what = r
  <2> DEFINE d == dbOf[m]
             e == flight'[d][j]
  <2>1. d \in Dbs /\ j \in 1..Len(flight'[d]) /\ e.who = m /\ m # Nobody
    BY <1>1, HeldType, SchemaAssumption DEF Own, OwnIn
  <2>2. e.what \in Statements
    BY <2>1, AskedType DEF SchemaInv, Traced
  <2>3. e.what \notin SchemaRequests
    BY <2>2, StatementType
  <2>4. Carried(d, e)
    BY <2>1, <2>3 DEF Flows
  <2>5. PICK i \in 1..Len(flight[d]) : e.what = flight[d][i].what /\ e.who \in {flight[d][i].who, Nobody}
    BY <2>4 DEF Carried
  <2>6. i \in Own(m)
    BY <2>1, <2>5 DEF Own, OwnIn
  <2> QED
    BY <2>5, <2>6 DEF Asks
<1> QED
  BY <1>1 DEF Asks

LEMMA EntriesStill ==
    ASSUME MigrationsInv, UNCHANGED ups, NEW R, Flows(R), \A e \in R : EntryOK(e)
    PROVE  \A d \in Dbs : \A j \in 1..Len(flight'[d]) : EntryOK(flight[d][j])'
<1> SUFFICES ASSUME NEW d \in Dbs, NEW j \in 1..Len(flight'[d]) PROVE EntryOK(flight[d][j])'
  OBVIOUS
<1>1. EntryOK(flight'[d][j])
  <2> DEFINE e == flight'[d][j]
  <2>1. CASE Carried(d, e)
    <3>1. PICK i \in 1..Len(flight[d]) : e.what = flight[d][i].what /\ e.reply = flight[d][i].reply
      BY <2>1 DEF Carried
    <3>2. EntryOK(flight[d][i])
      BY DEF MigrationsInv
    <3> QED
      BY <3>1, <3>2, SameEntry
  <2>2. CASE e.what \in SchemaRequests
    <3> QED
      BY <2>2, SchemaEntry
  <2>3. CASE e \in R
    BY <2>3
  <2> QED
    BY <2>1, <2>2, <2>3 DEF Flows
<1>2. \A n : UpTo(n)' = UpTo(n)
  BY DEF UpTo
<1>3. \A f : Shown(f)' = Shown(f)
  BY DEF Shown
<1>4. Answered(flight[d][j])' = Answered(flight'[d][j])
  BY DEF Answered
<1> QED
  BY <1>1, <1>2, <1>3, <1>4 DEF EntryOK

Grows == \A k \in Known : ups[k] > 0 => ups'[k] > 0

LEMMA GrowsType ==
    ASSUME Grows
    PROVE  /\ \A n : UpTo(n) => UpTo(n)'
           /\ \A f : Shown(f) => Shown(f)'
           /\ \A left : Ordered(left) => Ordered(left)'
<1>1. \A n : UpTo(n) => UpTo(n)'
  BY DEF Grows, UpTo
<1>2. \A f : Shown(f) => Shown(f)'
  BY DEF Grows, Shown
<1>3. ASSUME NEW left, Ordered(left) PROVE Ordered(left)'
  BY <1>3 DEF Grows, Ordered
<1> QED
  BY <1>1, <1>2, <1>3

LEMMA ManagerType ==
    ASSUME MigrationType, NEW m \in Callers
    PROVE  /\ manager[m] \in Manager /\ manager[m].left \in Seq(Known)
           /\ manager[m].limit \in {0, 1}
           /\ manager[m].left # <<>> => Head(manager[m].left) \in Known
BY HeadTailProperties DEF MigrationType, Manager

LEMMA FitsStill ==
    ASSUME MigrationsInv, Grows, NEW m \in Callers, Follows(m),
           \A r : Asks(m, r) => Asks(m, r)',
           manager'[m].doing = manager[m].doing, manager'[m].step = manager[m].step,
           manager'[m].left = manager[m].left
    PROVE  Fits(m)'
<1> DEFINE left == manager[m].left
<1>0. Fits(m) /\ left \in Seq(Known) /\ (left # <<>> => Head(left) \in Known) /\ dbOf[m] \in Dbs
  BY ManagerType, HeldType DEF MigrationsInv
<1>1. \A steps : (Reached(m, steps)' <=> Reached(m, steps)) /\ (Applying(m, steps)' <=> Applying(m, steps))
  BY DEF Reached, Applying, Working
<1>2. ASSUME NEW i \in Own(m) PROVE EntryOK(flight[dbOf[m]][i])
  BY <1>0 DEF MigrationsInv, Own, OwnIn
<1>3. /\ Reached(m, {"create to list", "create"}) => CreatesClass(m)
      /\ Reached(m, {"run", "class again", "find", "record"}) => left # <<>>
      /\ Reached(m, {"select"}) => Asks(m, StatementOf("select", 0)) /\ (Went(m) => Shown(call[m].got))
      /\ Applying(m, {"next", "run", "class again", "record"}) => Ordered(left)
      /\ Applying(m, {"run"}) => Asks(m, StatementOf("up", Head(left))) /\ (Went(m) => ups[Head(left)] > 0)
      /\ Applying(m, {"class again", "record"}) => ups[Head(left)] > 0
  BY <1>0 DEF Fits
<1>4. /\ call'[m].op = call[m].op /\ call'[m].of = call[m].of
      /\ call[m].op = "create" /\ call'[m].outcome = "done" => call[m].outcome = "done"
      /\ call[m].op = "statement" =>
          \/ call'[m] = call[m]
          \/ call'[m].outcome = "failed"
          \/ \E i \in Own(m) : LET e == flight[dbOf[m]][i] IN Answered(e) /\ call'[m].got = e.reply[2]
  BY DEF Follows
<1>5. Reached(m, {"create to list", "create"}) => CreatesClass(m)'
  BY <1>3, <1>4 DEF CreatesClass
<1>6. ASSUME Asks(m, StatementOf("select", 0)), Went(m) => Shown(call[m].got), Went(m)'
      PROVE  Shown(call[m].got)'
  <2>1. CASE call'[m] = call[m]
    BY <2>1, <1>6, GrowsType DEF Went
  <2>2. CASE call'[m].outcome = "failed"
    BY <2>2, <1>6 DEF Went
  <2>3. CASE \E i \in Own(m) : LET e == flight[dbOf[m]][i] IN Answered(e) /\ call'[m].got = e.reply[2]
    <3>1. PICK i \in Own(m) : Answered(flight[dbOf[m]][i]) /\ call'[m].got = flight[dbOf[m]][i].reply[2]
      BY <2>3
    <3>2. flight[dbOf[m]][i].what.op = "select" /\ EntryOK(flight[dbOf[m]][i])
      BY <1>2, <1>6, StatementType DEF Asks
    <3>3. Shown(flight[dbOf[m]][i].reply[2])
      BY <3>1, <3>2 DEF EntryOK
    <3> QED
      BY <3>1, <3>3, GrowsType
  <2> QED
    BY <2>1, <2>2, <2>3, <1>4, <1>6 DEF Asks
<1>7. ASSUME NEW n \in Known, Asks(m, StatementOf("up", n)), Went(m) => ups[n] > 0, Went(m)'
      PROVE  ups'[n] > 0
  <2>1. CASE call'[m] = call[m]
    BY <2>1, <1>7 DEF Went, Grows
  <2>2. CASE call'[m].outcome = "failed"
    BY <2>2, <1>7 DEF Went
  <2>3. CASE \E i \in Own(m) : LET e == flight[dbOf[m]][i] IN Answered(e) /\ call'[m].got = e.reply[2]
    <3>1. PICK i \in Own(m) : Answered(flight[dbOf[m]][i])
      BY <2>3
    <3>2. flight[dbOf[m]][i].what = StatementOf("up", n) /\ EntryOK(flight[dbOf[m]][i])
      BY <1>2, <1>7 DEF Asks
    <3>3. StatementOf("up", n).op = "up" /\ StatementOf("up", n).of[1] = n
      BY StatementType
    <3>4. ups[n] > 0
      BY <3>1, <3>2, <3>3 DEF EntryOK
    <3> QED
      BY <3>4 DEF Grows
  <2> QED
    BY <2>1, <2>2, <2>3, <1>4, <1>7 DEF Asks
<1>8. Reached(m, {"select"}) => Asks(m, StatementOf("select", 0))' /\ (Went(m)' => Shown(call[m].got)')
  BY <1>3, <1>6
<1>9. Applying(m, {"next", "run", "class again", "record"}) => Ordered(left)'
  <2>1. Ordered(left) => Ordered(manager[m].left)'
    BY GrowsType
  <2> QED
    BY <2>1, <1>3
<1>10. ASSUME Applying(m, {"run"})
       PROVE  Asks(m, StatementOf("up", Head(left)))' /\ (Went(m)' => ups'[Head(left)] > 0)
  <2>1. Reached(m, {"run", "class again", "find", "record"})
    BY <1>10 DEF Applying, Reached
  <2>2. Head(left) \in Known
    BY <2>1, <1>0, <1>3
  <2>3. Asks(m, StatementOf("up", Head(left)))'
    BY <1>3, <1>10
  <2> QED
    BY <2>2, <2>3, <1>3, <1>7, <1>10
<1>11. ASSUME Applying(m, {"class again", "record"}) PROVE ups'[Head(left)] > 0
  BY <1>11, <1>0, <1>3 DEF Applying, Reached, Grows
<1> QED
  BY <1>1, <1>3, <1>5, <1>8, <1>9, <1>10, <1>11 DEF Fits

LEMMA SameGrows ==
    ASSUME UNCHANGED ups
    PROVE  Grows
BY DEF Grows

\* A step on the schema.
LEMMA MovesKeep ==
    ASSUME MigrationsInv, SchemaInv', Moves, UNCHANGED migrationVars
    PROVE  MigrationsInv'
<1>1. /\ UNCHANGED <<role, manager, ups, downs, records, runs, overlapped>>
      /\ UNCHANGED dbOf /\ (\A c \in Callers : Follows(c)) /\ Flows({})
  BY DEF migrationVars, Moves
<1>2. MigrationType' /\ (role # "managers" => \A m \in Callers : ~Working(m))'
      /\ (\A k \in Known : records[k] > 0 => ups[k] > 0)'
  BY <1>1 DEF MigrationsInv, MigrationType, Working
<1>3. SchemaInv
  BY DEF MigrationsInv
<1>4. ASSUME NEW m \in Callers PROVE Fits(m)'
  <2>1. ASSUME NEW r, Asks(m, r) PROVE Asks(m, r)'
    BY <1>1, <1>3, <2>1, AsksStill DEF Asks, Follows
  <2>2. Grows
    BY <1>1, SameGrows
  <2> QED
    BY <1>1, <2>1, <2>2, FitsStill
<1>5. \A d \in Dbs : \A j \in 1..Len(flight'[d]) : EntryOK(flight[d][j])'
  BY <1>1, EntriesStill
<1> QED
  BY <1>2, <1>4, <1>5 DEF MigrationsInv

\* A manager asks.
LEMMA Asking ==
    ASSUME SchemaInv, SchemaInv', NEW m \in Callers, NEW r \in Statements,
           Start(m, "statement", <<>>, <<One(r)>>)
    PROVE  Asks(m, r)' /\ call'[m].outcome = "pending"
<1>1. Begins("statement", <<>>, <<One(r)>>)
  BY DEF Begins
<1>2. UNCHANGED dbOf /\ call'[m].op = "statement" /\ call'[m].outcome = "pending" /\ Flows({Sent(m, r)})
  BY <1>1, StartMoves
<1>3. call[m].sent = 0
  BY DEF SchemaInv, Counted, Start
<1>4. ASSUME NEW j \in Own(m)' PROVE flight'[dbOf'[m]][j].what = r
  <2> DEFINE d == dbOf[m]
             e == flight'[d][j]
  <2>1. d \in Dbs /\ j \in 1..Len(flight'[d]) /\ e.who = m /\ m # Nobody
    BY <1>2, <1>4, HeldType, SchemaAssumption DEF Own, OwnIn
  <2>2. e.what \notin SchemaRequests
    BY <1>2, <2>1, AskedType, StatementType DEF SchemaInv, Traced
  <2>3. ~Carried(d, e)
    BY <2>1, <1>3, UnsentNowhere DEF Carried
  <2>4. e = Sent(m, r)
    BY <1>2, <2>1, <2>2, <2>3 DEF Flows
  <2>5. Sent(m, r).what = r
    BY DEF Sent
  <2> QED
    BY <1>2, <2>4, <2>5
<1> QED
  BY <1>2, <1>4 DEF Asks

LEMMA AskingStep ==
    ASSUME MigrationsInv, NEW m \in Callers, role = "managers", NEW op, NEW t, NEW stages,
           Begins(op, t, stages), t \in Parts => instance[m] # <<>>, Start(m, op, t, stages),
           op = "statement" => \E r \in Statements : stages = <<One(r)>> /\ EntryOK(Sent(m, r)),
           manager' \in [Callers -> Manager],
           \A x \in Callers : x # m => /\ manager'[x].doing = manager[x].doing
                                       /\ manager'[x].step = manager[x].step
                                       /\ manager'[x].left = manager[x].left,
           UNCHANGED <<role, ups, downs, records>>, overlapped' \in BOOLEAN,
           SchemaInv' => Fits(m)'
    PROVE  MigrationsInv'
<1>1. SchemaInv /\ MigrationType
  BY DEF MigrationsInv
<1>2. SchemaInv'
  BY <1>1, StartStep
<1>3. /\ UNCHANGED dbOf
      /\ \A x \in Callers : x # m => call'[x] = call[x]
      /\ op # "statement" => Flows({})
      /\ \A r \in Statements : stages = <<One(r)>> => Flows({Sent(m, r)})
  BY <1>1, StartMoves
<1>4. PICK R : Flows(R) /\ \A e \in R : EntryOK(e) /\ e.who = m
  <2>1. CASE op = "statement"
    <3>1. PICK r \in Statements : stages = <<One(r)>> /\ EntryOK(Sent(m, r))
      BY <2>1
    <3>2. Sent(m, r).who = m
      BY DEF Sent
    <3>3. Flows({Sent(m, r)}) /\ \A e \in {Sent(m, r)} : EntryOK(e) /\ e.who = m
      BY <3>1, <3>2, <1>3
    <3> QED
      BY <3>3
  <2>2. CASE op # "statement"
    BY <2>2, <1>3
  <2> QED
    BY <2>1, <2>2
<1>5. MigrationType'
  BY <1>1 DEF MigrationType
<1>6. \A d \in Dbs : \A j \in 1..Len(flight'[d]) : EntryOK(flight[d][j])'
  BY <1>4, EntriesStill
<1>7. ASSUME NEW x \in Callers, x # m PROVE Fits(x)'
  <2>1. Follows(x)
    BY <1>3, <1>7 DEF Follows
  <2>2. ASSUME NEW r, Asks(x, r) PROVE Asks(x, r)'
    <3>1. call'[x].op = "statement"
      BY <1>3, <1>7, <2>2 DEF Asks
    <3>2. \A e \in R : e.who # x
      BY <1>4, <1>7
    <3> QED
      BY <1>1, <1>2, <1>3, <1>4, <2>2, <3>1, <3>2, AsksStill
  <2>3. Grows
    BY SameGrows
  <2> QED
    BY <1>7, <2>1, <2>2, <2>3, FitsStill
<1>8. (role # "managers" => \A x \in Callers : ~Working(x))' /\ (\A k \in Known : records[k] > 0 => ups[k] > 0)'
  BY DEF MigrationsInv
<1>9. Fits(m)'
  BY <1>2
<1> QED
  BY <1>2, <1>5, <1>6, <1>7, <1>8, <1>9 DEF MigrationsInv

\* A manager goes on without asking.
LEMMA RestingStep ==
    ASSUME MigrationsInv, NEW m \in Callers, role = "managers",
           UNCHANGED <<schemaVars, role, ups, downs, records, overlapped>>,
           NEW y \in Manager, manager' = [manager EXCEPT ![m] = y], Fits(m)'
    PROVE  MigrationsInv'
<1>0. SchemaInv /\ MigrationType
  BY DEF MigrationsInv
<1>1. SchemaInv'
  <2>1. SchemaType'
    BY <1>0 DEF schemaVars, SchemaInv, SchemaType
  <2>2. ASSUME NEW c \in Callers PROVE Counted(c)'
    BY <1>0 DEF schemaVars, SchemaInv, Counted, Own
  <2>3. ASSUME NEW d \in Dbs PROVE Traced(d)'
    BY <1>0 DEF schemaVars, SchemaInv, Traced
  <2> QED
    BY <2>1, <2>2, <2>3 DEF SchemaInv
<1>2. MigrationType' /\ \A x \in Callers : x # m => manager'[x] = manager[x]
  BY <1>0 DEF MigrationType
<1>3. ASSUME NEW x \in Callers, x # m PROVE Fits(x)'
  <2>1. Follows(x)
    BY DEF Follows, schemaVars
  <2>2. \A r : Asks(x, r) => Asks(x, r)'
    BY DEF Asks, Own, OwnIn, schemaVars
  <2>3. Grows
    BY SameGrows
  <2> QED
    BY <1>2, <1>3, <2>1, <2>2, <2>3, FitsStill
<1>4. \A d \in Dbs : \A j \in 1..Len(flight'[d]) : EntryOK(flight[d][j])'
  BY <1>0, StillThere, EntriesStill DEF schemaVars
<1>5. (role # "managers" => \A x \in Callers : ~Working(x))' /\ (\A k \in Known : records[k] > 0 => ups[k] > 0)'
  BY DEF MigrationsInv
<1> QED
  BY <1>1, <1>2, <1>3, <1>4, <1>5 DEF MigrationsInv

LEMMA ServedFlight ==
    ASSUME SchemaInv, NEW d \in Dbs, NEW i, NEW reply, Served(d, i, reply)
    PROVE  /\ i \in 1..Len(flight[d]) /\ Len(flight'[d]) = Len(flight[d])
           /\ \A x \in Dbs : x # d => flight'[x] = flight[x]
           /\ \A j \in 1..Len(flight[d]) : j # i => flight'[d][j] = flight[d][j]
           /\ flight'[d][i].who = flight[d][i].who /\ flight'[d][i].what = flight[d][i].what
           /\ flight'[d][i].reply = reply
<1>1. /\ flight \in [Dbs -> Seq(Entry)] /\ flight' = [flight EXCEPT ![d][i].reply = reply]
      /\ flight[d] \in Seq(Entry) /\ i \in 1..Len(flight[d])
  BY DEF SchemaInv, SchemaType, Served
<1>2. \A x \in Dbs : x # d => flight'[x] = flight[x]
  BY <1>1
<1>3. flight'[d] = [flight[d] EXCEPT ![i].reply = reply]
  BY <1>1
<1>4. flight[d][i] \in Entry
  BY <1>1
<1>5. Len(flight'[d]) = Len(flight[d]) /\ flight'[d][i] = [flight[d][i] EXCEPT !.reply = reply]
      /\ \A j \in 1..Len(flight[d]) : j # i => flight'[d][j] = flight[d][j]
  BY <1>1, <1>3
<1>6. LET e == [flight[d][i] EXCEPT !.reply = reply]
      IN  e.what = flight[d][i].what /\ e.who = flight[d][i].who /\ e.reply = reply
  BY <1>4 DEF Entry
<1> QED
  BY <1>1, <1>2, <1>5, <1>6

\* What an entry tells stays true.
LEMMA EntryStays ==
    ASSUME Grows, NEW e, e.what \in Requests, EntryOK(e)
    PROVE  EntryOK(e)'
<1>1. e.what.op \in {"up", "record"} => e.what.of[1] \in Known
  BY StatementType DEF Requests, SchemaOps
<1>2. \A n : UpTo(n) => UpTo(n)'
  BY GrowsType
<1>3. \A f : Shown(f) => Shown(f)'
  BY GrowsType
<1>4. Answered(e)' <=> Answered(e)
  BY DEF Answered
<1> QED
  BY <1>1, <1>2, <1>3, <1>4 DEF EntryOK, Grows

LEMMA ServeStatementKeeps ==
    ASSUME MigrationsInv, NEW d \in Dbs, NEW i, ServeStatement(d, i)
    PROVE  MigrationsInv'
<1> DEFINE e == flight[d][i]
           op == e.what.op
           n == e.what.of[1]
<1>0. /\ SchemaInv /\ MigrationType /\ i \in 1..Len(flight[d]) /\ op \notin SchemaOps
      /\ UNCHANGED <<api, dbOf, changes, cached, call, instance, opened, calls, losses,
                     role, manager, runs, overlapped>>
      /\ records \in [Known -> Nat] /\ ups \in [Known -> Nat] /\ downs \in [Known -> Nat]
  BY DEF MigrationsInv, ServeStatement, MigrationType
<1>1. SchemaInv'
  BY <1>0, ServeStatementStep
<1>2. /\ e.what \in Requests /\ e.what \in Statements /\ op \in StatementOps /\ (op # "select" => n \in Known)
      /\ EntryOK(e)
  BY <1>0, InFlight, StatementType DEF Requests, MigrationsInv
<1>3. PICK reply :
        /\ Served(d, i, reply)
        /\ \/ reply = Refused /\ UNCHANGED <<ups, downs, records>>
           \/ /\ op = "erase" => records[n] > 0
              /\ reply = <<"ok", IF op = "select" THEN records ELSE <<>> >>
              /\ ups' = IF op = "up" THEN [ups EXCEPT ![n] = @ + 1] ELSE ups
              /\ downs' = IF op = "down" THEN [downs EXCEPT ![n] = @ + 1] ELSE downs
              /\ records' = CASE op = "record" -> [records EXCEPT ![n] = @ + 1]
                              [] op = "erase" -> [records EXCEPT ![n] = @ - 1]
                              [] OTHER -> records
  BY Zenon DEF ServeStatement, Refused
<1>4. /\ Len(flight'[d]) = Len(flight[d])
      /\ \A x \in Dbs : x # d => flight'[x] = flight[x]
      /\ \A j \in 1..Len(flight[d]) : j # i => flight'[d][j] = flight[d][j]
      /\ flight'[d][i].who = e.who /\ flight'[d][i].what = e.what
      /\ flight'[d][i].reply = reply
  BY <1>0, <1>3, ServedFlight, ZenonT(60)
<1>5. /\ op = "record" => records' = records \/ records' = [records EXCEPT ![n] = @ + 1]
      /\ op = "erase" => records' = records \/ (records[n] > 0 /\ records' = [records EXCEPT ![n] = @ - 1])
      /\ op \notin {"record", "erase"} => records' = records
  BY <1>3, Zenon
<1>6. /\ op = "up" => ups' = ups \/ ups' = [ups EXCEPT ![n] = @ + 1]
      /\ op # "up" => ups' = ups
      /\ op = "down" => downs' = downs \/ downs' = [downs EXCEPT ![n] = @ + 1]
      /\ op # "down" => downs' = downs
      /\ reply = Refused \/ (reply = <<"ok", IF op = "select" THEN records ELSE <<>> >>
                             /\ (op = "up" => ups' = [ups EXCEPT ![n] = @ + 1]))
  BY <1>3
<1> HIDE DEF e, op, n
<1>7. ups' \in [Known -> Nat] /\ downs' \in [Known -> Nat] /\ Grows
  <2>1. ups' \in [Known -> Nat] /\ Grows
    <3>1. CASE ups' = ups
      BY <3>1, <1>0, SameGrows
    <3>2. CASE op = "up" /\ ups' = [ups EXCEPT ![n] = @ + 1]
      <4>1. n \in Known
        BY <3>2, <1>2
      <4>2. ups' \in [Known -> Nat]
        BY <3>2, <4>1, <1>0
      <4>3. ASSUME NEW k \in Known, ups[k] > 0 PROVE ups'[k] > 0
        BY <3>2, <4>1, <1>0, <4>3
      <4> QED
        BY <4>2, <4>3 DEF Grows
    <3> QED
      BY <3>1, <3>2, <1>6
  <2>2. downs' \in [Known -> Nat]
    <3>1. CASE downs' = downs
      BY <3>1, <1>0
    <3>2. CASE op = "down" /\ downs' = [downs EXCEPT ![n] = @ + 1]
      BY <3>2, <1>2, <1>0
    <3> QED
      BY <3>1, <3>2, <1>6
  <2> QED
    BY <2>1, <2>2
<1>8. records' \in [Known -> Nat] /\ \A k \in Known : records'[k] > 0 => ups'[k] > 0
  <2>0. \A k \in Known : records[k] > 0 => ups'[k] > 0
    BY <1>7 DEF MigrationsInv, Grows
  <2>1. CASE records' = records
    BY <2>0, <2>1, <1>0
  <2>2. CASE op = "record" /\ records' = [records EXCEPT ![n] = @ + 1]
    <3>1. n \in Known /\ ups[n] > 0
      BY <2>2, <1>2 DEF EntryOK, op, n
    <3>2. ups'[n] > 0
      BY <3>1, <1>7 DEF Grows
    <3> QED
      BY <2>0, <2>2, <3>1, <3>2, <1>0
  <2>3. CASE op = "erase" /\ records[n] > 0 /\ records' = [records EXCEPT ![n] = @ - 1]
    BY <2>0, <2>3, <1>0, <1>2
  <2> QED
    BY <2>1, <2>2, <2>3, <1>5
<1>9. MigrationType'
  BY <1>0, <1>7, <1>8 DEF MigrationType
<1>10. ASSUME NEW m \in Callers PROVE Fits(m)'
  <2>1. Follows(m)
    BY <1>0 DEF Follows
  <2>2. ASSUME NEW r, Asks(m, r) PROVE Asks(m, r)'
    <3>1. Own(m)' = Own(m) /\ \A j \in Own(m) : flight'[dbOf[m]][j].what = flight[dbOf[m]][j].what
      <4>1. dbOf[m] \in Dbs
        BY <1>0, HeldType
      <4>2. CASE dbOf[m] = d
        BY <1>4, <4>2, <1>0 DEF e, Own, OwnIn
      <4>3. CASE dbOf[m] # d
        BY <4>1, <4>3, <1>0, <1>4 DEF Own, OwnIn
      <4> QED
        BY <4>2, <4>3
    <3> QED
      BY <3>1, <2>2, <1>0 DEF Asks
  <2> QED
    BY <1>0, <1>7, <2>1, <2>2, FitsStill
<1>11. EntryOK(flight[d][i])'
  <2> DEFINE f == flight'[d][i]
             Before(x) == \A k \in Known : k < x => ups'[k] > 0
             Seen(x) == x \in [Known -> Nat] /\ \A k \in Known : x[k] > 0 => ups'[k] > 0
  <2>1. f.what = e.what /\ f.reply = reply
    BY <1>4 DEF e
  <2>3. op = "up" => Before(n)
    BY <1>2, <1>7 DEF EntryOK, UpTo, Grows, op, n
  <2>4. op = "up" /\ reply # Refused => ups'[n] > 0
    BY <1>2, <1>6, <1>0
  <2>5. op = "record" => ups'[n] > 0
    BY <1>2, <1>7 DEF EntryOK, Grows, op, n
  <2>6. op = "select" /\ reply # Refused => Seen(reply[2])
    BY <1>6, <1>7, <1>0 DEF MigrationsInv, Grows
  <2>7. f.what.op = op /\ f.what.of[1] = n
    BY <2>1 DEF op, n
  <2> HIDE DEF f, Before, Seen
  <2>8. /\ f.what.op = "up" => Before(f.what.of[1]) /\ (f.reply # Refused => ups'[f.what.of[1]] > 0)
        /\ f.what.op = "record" => ups'[f.what.of[1]] > 0
        /\ f.what.op = "select" /\ f.reply # Refused => Seen(f.reply[2])
    BY <2>1, <2>3, <2>4, <2>5, <2>6, <2>7
  <2> QED
    BY <2>8 DEF f, Before, Seen, EntryOK, UpTo, Shown, Answered
<1>12. ASSUME NEW x \in Dbs, NEW j \in 1..Len(flight'[x]) PROVE EntryOK(flight[x][j])'
  <2>1. CASE x = d /\ j = i
    BY <2>1, <1>11
  <2>2. CASE ~(x = d /\ j = i)
    <3>1. flight'[x][j] = flight[x][j] /\ j \in 1..Len(flight[x])
      BY <2>2, <1>4
    <3>2. EntryOK(flight[x][j]) /\ flight[x][j].what \in Requests
      BY <3>1, <1>0, InFlight DEF MigrationsInv
    <3>3. \A y : y.what \in Requests /\ EntryOK(y) => EntryOK(y)'
      BY <1>7, EntryStays
    <3> QED
      BY <3>1, <3>2, <3>3
  <2> QED
    BY <2>1, <2>2
<1> QED
  BY <1>0, <1>1, <1>8, <1>9, <1>10, <1>12 DEF MigrationsInv, Working

--------------------------------------------------------------------------------
(* The steps of a manager.                                                      *)

LEMMA Managing ==
    ASSUME MigrationsInv, NEW m \in Callers, Working(m)
    PROVE  /\ role = "managers" /\ manager[m].left \in Seq(Known) /\ manager[m].doing \in {"up", "down"}
           /\ manager[m] \in Manager /\ Fits(m) /\ SchemaInv /\ MigrationType
<1>1. role = "managers" /\ Fits(m) /\ SchemaInv /\ MigrationType
  BY DEF MigrationsInv
<1>2. manager[m] \in Manager
  BY <1>1 DEF MigrationType
<1> QED
  BY <1>1, <1>2 DEF Manager, Working

\* After a step of a manager.
Takes(m, step) ==
    /\ SchemaInv' /\ UNCHANGED ups
    /\ manager'[m].step = step /\ manager'[m].doing = manager[m].doing
    /\ manager'[m].left = manager[m].left

LEMMA StepKeeps ==
    ASSUME MigrationsInv, NEW m \in Callers, Working(m), NEW step \in Steps, NEW op, NEW t, NEW stages,
           Step(m, step, op, t, stages), Begins(op, t, stages), t \in Parts => instance[m] # <<>>,
           op = "statement" => \E r \in Statements : stages = <<One(r)>> /\ EntryOK(Sent(m, r)),
           Takes(m, step) => Fits(m)'
    PROVE  MigrationsInv'
<1>1. /\ Start(m, op, t, stages) /\ manager' = [manager EXCEPT ![m].step = step]
      /\ UNCHANGED <<role, ups, downs, records, overlapped>>
  BY DEF Step
<1>2. role = "managers" /\ manager[m] \in Manager /\ MigrationType
  BY Managing
<1>3. manager \in [Callers -> Manager] /\ overlapped \in BOOLEAN
  BY <1>2 DEF MigrationType
<1>4. [manager[m] EXCEPT !.step = step] \in Manager
  BY <1>2 DEF Manager
<1>5. manager' \in [Callers -> Manager]
  BY <1>1, <1>3, <1>4
<1>6. /\ manager'[m].step = step /\ manager'[m].doing = manager[m].doing
      /\ manager'[m].left = manager[m].left
      /\ \A x \in Callers : x # m => manager'[x] = manager[x]
  BY <1>1, <1>3, <1>2 DEF Manager
<1>7. SchemaInv' => Fits(m)'
  BY <1>1, <1>6 DEF Takes
<1> QED
  BY <1>1, <1>2, <1>3, <1>5, <1>6, <1>7, AskingStep

LEMMA ClassBegins ==
    ASSUME NEW m
    PROVE  /\ Begins("get", MigrationClass, ClassGet(m, FALSE))
           /\ Begins("create", MigrationClass, ClassCreate(m, MigrationClass))
           /\ Begins("create", Fields[1], PropertyCreateAll(m, Fields))
           /\ MigrationClass \notin Parts /\ <<>> \notin Parts
           /\ MigrationClass \in Whole /\ MigrationClass[1] = "class"
<1>1. ClassName \in Names /\ Fields \in Seq(Parts) /\ Fields # <<>>
  BY FieldsType
<1>2. Plan("get", MigrationClass, ClassGet(m, FALSE)) /\ Plan("create", MigrationClass, ClassCreate(m, MigrationClass))
  BY <1>1, ClassPlans DEF MigrationClass
<1>3. Plan("create", Fields[1], PropertyCreateAll(m, Fields))
  BY <1>1, CreatesAll
<1>4. MigrationClass \in Whole /\ MigrationClass[1] = "class"
  BY <1>1, ThingType, OpsType DEF MigrationClass
<1>5. MigrationClass \notin Parts /\ <<>> \notin Parts
  BY <1>4, ThingType, KindOf
<1> QED
  BY <1>2, <1>3, <1>4, <1>5 DEF Begins

LEMMA GetsClassKeeps ==
    ASSUME MigrationsInv, NEW m \in Callers, Working(m), NEW step \in {"structure", "class", "class again"},
           GetsClass(m, step),
           step = "class again" =>
              /\ manager[m].left # <<>>
              /\ manager[m].doing = "up" => Ordered(manager[m].left) /\ ups[Head(manager[m].left)] > 0
    PROVE  MigrationsInv'
<1>1. step \in Steps /\ Step(m, step, "get", MigrationClass, ClassGet(m, FALSE))
  BY DEF Steps, GetsClass
<1>2. Begins("get", MigrationClass, ClassGet(m, FALSE)) /\ MigrationClass \notin Parts
  BY ClassBegins
<1>3. ASSUME Takes(m, step) PROVE Fits(m)'
  BY <1>3 DEF Ordered, Takes, Fits, Reached, Applying
<1> QED
  BY <1>1, <1>2, <1>3, StepKeeps

LEMMA EnsureStructureKeeps ==
    ASSUME MigrationsInv, NEW m \in Callers, EnsureStructure(m)
    PROVE  MigrationsInv'
<1>0. PICK step \in {"list", "structure"} :
        \/ /\ After(m, step) /\ call[m].outcome = "missing"
           /\ Step(m, Creating(step), "create", MigrationClass, ClassCreate(m, MigrationClass))
        \/ /\ After(m, Creating(step)) /\ Went(m)
           /\ Step(m, Completing(step), "create", Fields[1], PropertyCreateAll(m, Fields))
  BY DEF EnsureStructure
<1>1. /\ Creating(step) \in {"create to list", "create"} /\ Creating(step) \in Steps
      /\ Completing(step) \in {"properties to list", "properties"} /\ Completing(step) \in Steps
  BY DEF Creating, Completing, Steps
<1>2. CASE Step(m, Creating(step), "create", MigrationClass, ClassCreate(m, MigrationClass)) /\ After(m, step)
  <2>1. Working(m) /\ SchemaInv
    BY <1>2 DEF After, MigrationsInv
  <2>2. Begins("create", MigrationClass, ClassCreate(m, MigrationClass)) /\ MigrationClass \notin Parts
    BY ClassBegins
  <2>3. CreatesClass(m)'
    <3>1. Start(m, "create", MigrationClass, ClassCreate(m, MigrationClass))
      BY <1>2 DEF Step
    <3>2. call'[m].op = "create" /\ call'[m].of = MigrationClass /\ call'[m].outcome = "pending"
      BY <2>1, <2>2, <3>1, StartMoves
    <3> QED
      BY <3>2 DEF CreatesClass, MigrationClass, ClassName
  <2>4. ASSUME Takes(m, Creating(step)) PROVE Fits(m)'
    BY <2>3, <2>4, <1>1 DEF Fits, Reached, Applying, Takes
  <2> QED
    BY <1>1, <1>2, <2>1, <2>2, <2>4, StepKeeps
<1>3. CASE /\ Step(m, Completing(step), "create", Fields[1], PropertyCreateAll(m, Fields))
           /\ After(m, Creating(step)) /\ Went(m)
  <2>1. Working(m) /\ SchemaInv
    BY <1>3 DEF After, MigrationsInv
  <2>2. Begins("create", Fields[1], PropertyCreateAll(m, Fields))
    BY ClassBegins
  <2>3. instance[m] # <<>>
    <3>1. Reached(m, {"create to list", "create"})
      BY <1>1, <1>3 DEF After, Reached
    <3>2. CreatesClass(m)
      BY <3>1 DEF MigrationsInv, Fits
    <3>3. call[m].outcome = "found" /\ call[m].op \in Finding
      BY <3>2, <1>3 DEF CreatesClass, Went, Finding
    <3>4. call[m].of \in Whole /\ call[m].of[1] = "class"
      BY <3>2, ClassBegins DEF CreatesClass
    <3>5. Counted(m)
      BY <2>1 DEF SchemaInv
    <3> QED
      BY <3>3, <3>4, <3>5 DEF Counted
  <2>4. ASSUME Takes(m, Completing(step)) PROVE Fits(m)'
    BY <2>4, <1>1 DEF Fits, Reached, Applying, Takes
  <2> QED
    BY <1>1, <1>3, <2>1, <2>2, <2>3, <2>4, StepKeeps
<1> QED
  BY <1>0, <1>2, <1>3

\* A statement: what it asks for, and what is true when it is asked.
LEMMA StatementKeeps ==
    ASSUME MigrationsInv, NEW m \in Callers, Working(m), NEW step \in {"select", "run", "find", "record"},
           NEW op \in StatementOps, NEW n, StatementOf(op, n) \in Statements, Statement(m, step, op, n),
           op = "up" => UpTo(n), op = "record" => ups[n] > 0,
           step = "select" => op = "select" /\ n = 0,
           step # "select" => manager[m].left # <<>> /\ n = Head(manager[m].left),
           step \in {"run", "record"} /\ manager[m].doing = "up" => Ordered(manager[m].left),
           step = "run" /\ manager[m].doing = "up" => op = "up",
           step = "record" /\ manager[m].doing = "up" => ups[n] > 0
    PROVE  MigrationsInv'
<1> DEFINE r == StatementOf(op, n)
<1>1. step \in Steps /\ Step(m, step, "statement", <<>>, <<One(r)>>)
  BY DEF Steps, Statement, StatementOf
<1>2. Begins("statement", <<>>, <<One(r)>>) /\ <<>> \notin Parts
  BY ClassBegins DEF Begins
<1>3. EntryOK(Sent(m, r))
  <2>1. Sent(m, r).what = r /\ Sent(m, r).reply = <<>> /\ ~Answered(Sent(m, r))
    BY DEF Sent, Answered
  <2>2. r.op = op /\ r.of[1] = n
    BY StatementType
  <2> HIDE DEF r
  <2> QED
    BY <2>1, <2>2 DEF EntryOK
<1>4. ASSUME Takes(m, step) PROVE Fits(m)'
  <2>1. Start(m, "statement", <<>>, <<One(r)>>) /\ SchemaInv
    BY <1>1 DEF Step, MigrationsInv
  <2>2. Asks(m, r)' /\ ~Went(m)'
    <3> HIDE DEF r
    <3>1. Asks(m, r)' /\ call'[m].outcome = "pending"
      BY <1>4, <2>1, Asking DEF r, Takes
    <3> QED
      BY <3>1 DEF Went
  <2>3. Ordered(manager[m].left) => Ordered(manager[m].left)'
    BY <1>4 DEF Ordered, Takes
  <2> QED
    BY <1>4, <2>2, <2>3 DEF Fits, Reached, Applying, Takes
<1> QED
  BY <1>1, <1>2, <1>3, <1>4, StepKeeps

\* Where a manager is, and what is true of it.
LEMMA Standing ==
    ASSUME MigrationsInv, NEW m \in Callers, Working(m)
    PROVE  LET left == manager[m].left
               s == manager[m].step
               up == manager[m].doing = "up" IN
           /\ s \in {"run", "class again", "find", "record"} => left # <<>>
           /\ s = "select" /\ Went(m) => Shown(call[m].got)
           /\ up /\ s \in {"next", "run", "class again", "record"} => Ordered(left)
           /\ up /\ s = "run" /\ Went(m) => ups[Head(left)] > 0
           /\ up /\ s \in {"class again", "record"} => ups[Head(left)] > 0
<1>1. Fits(m)
  BY DEF MigrationsInv
<1> QED
  BY <1>1 DEF Fits, Reached, Applying

LEMMA ListKeeps ==
    ASSUME MigrationsInv, NEW m \in Callers, ListMigrations(m) \/ ListApplied(m)
    PROVE  MigrationsInv'
<1>1. Working(m)
  BY DEF ListMigrations, ListApplied, Ensured, After
<1>2. CASE GetsClass(m, "structure")
  BY <1>1, <1>2, GetsClassKeeps
<1>3. CASE GetsClass(m, "class")
  BY <1>1, <1>3, GetsClassKeeps
<1>4. CASE Statement(m, "select", "select", 0)
  BY StatementType, <1>1, <1>4, StatementKeeps DEF StatementOps
<1> QED
  BY <1>2, <1>3, <1>4 DEF ListMigrations, ListApplied

LEMMA ApplyKeeps ==
    ASSUME MigrationsInv, NEW m \in Callers, Working(m), ApplyMigration(m)
    PROVE  MigrationsInv'
<1> DEFINE left == manager[m].left
           n == Head(left)
<1>1. manager[m].doing = "up" /\ left # <<>> /\ left \in Seq(Known)
  BY Managing DEF ApplyMigration
<1>2. {"up", "record"} \subseteq StatementOps
  BY DEF StatementOps
<1>3. /\ \/ manager[m].step = "next" /\ Statement(m, "run", "up", n)
         \/ manager[m].step = "run" /\ Went(m) /\ GetsClass(m, "class again")
         \/ manager[m].step = "class again" /\ Statement(m, "record", "record", n)
  BY DEF ApplyMigration, After
<1>4. Ordered(left)
  BY <1>1, <1>3, Standing
<1>5. n \in Known /\ UpTo(n)
  BY <1>1, <1>4, NextInOrder
<1>6. StatementOf("up", n) \in Statements /\ StatementOf("record", n) \in Statements
  BY <1>2, <1>5, StatementType
<1>7. CASE manager[m].step = "next" /\ Statement(m, "run", "up", n)
  BY <1>1, <1>2, <1>4, <1>5, <1>6, <1>7, StatementKeeps
<1>8. CASE manager[m].step = "run" /\ Went(m) /\ GetsClass(m, "class again")
  BY <1>1, <1>8, Standing, <1>4, GetsClassKeeps
<1>9. CASE manager[m].step = "class again" /\ Statement(m, "record", "record", n)
  <2>1. ups[n] > 0
    BY <1>1, <1>9, Standing
  <2> QED
    BY <2>1, <1>1, <1>2, <1>4, <1>6, <1>9, StatementKeeps
<1> QED
  BY <1>3, <1>7, <1>8, <1>9

LEMMA RevertKeeps ==
    ASSUME MigrationsInv, NEW m \in Callers, Working(m), RevertMigration(m)
    PROVE  MigrationsInv'
<1> DEFINE left == manager[m].left
           n == Head(left)
<1>1. manager[m].doing # "up" /\ left # <<>> /\ left \in Seq(Known)
  BY Managing DEF RevertMigration
<1>2. {"down", "select", "erase"} \subseteq StatementOps
  BY DEF StatementOps
<1>3. \/ Statement(m, "run", "down", n)
      \/ GetsClass(m, "class again")
      \/ Statement(m, "find", "select", n)
      \/ Statement(m, "record", "erase", n)
  BY DEF RevertMigration
<1>4. n \in Known
  BY <1>1, HeadTailProperties
<1>5. \A op \in {"down", "select", "erase"} : op \in StatementOps /\ StatementOf(op, n) \in Statements
  BY <1>2, <1>4, StatementType
<1>6. CASE Statement(m, "run", "down", n)
  BY <1>1, <1>5, <1>6, StatementKeeps
<1>7. CASE GetsClass(m, "class again")
  BY <1>1, <1>7, GetsClassKeeps
<1>8. CASE Statement(m, "find", "select", n)
  BY <1>1, <1>5, <1>8, StatementKeeps
<1>9. CASE Statement(m, "record", "erase", n)
  BY <1>1, <1>5, <1>9, StatementKeeps
<1> QED
  BY <1>3, <1>6, <1>7, <1>8, <1>9

\* What a manager does by itself.
LEMMA SelectedKeeps ==
    ASSUME MigrationsInv, NEW m \in Callers, Selected(m)
    PROVE  MigrationsInv'
<1> DEFINE got == call[m].got
           left == Limited(IF manager[m].doing = "up" THEN Pending(got) ELSE Applied(got), manager[m].limit)
           y == [manager[m] EXCEPT !.step = "next", !.left = left]
<1>1. /\ Working(m) /\ manager[m].step = "select" /\ Went(m)
      /\ manager' = [manager EXCEPT ![m].step = "next", ![m].left = left]
      /\ UNCHANGED <<schemaVars, role, ups, downs, records, overlapped>>
  BY DEF Selected, After
<1>2. manager \in [Callers -> Manager] /\ role = "managers" /\ manager[m] \in Manager
      /\ manager[m].limit \in {0, 1} /\ manager[m].doing \in {"up", "down"}
  BY <1>1, Managing, ManagerType DEF MigrationType
<1>3. Shown(got)
  BY <1>1, Standing
<1>4. left \in Seq(Known) /\ (manager[m].doing = "up" => Ordered(left))
  <2>1. CASE manager[m].doing = "up"
    BY <2>1, <1>2, <1>3, PendingOrdered
  <2>2. CASE manager[m].doing # "up"
    <3>1. got \in [Known -> Nat]
      BY <1>3 DEF Shown
    <3> HIDE DEF got
    <3> QED
      BY <2>2, <3>1, <1>2, AppliedType
  <2> QED
    BY <2>1, <2>2
<1> HIDE DEF left
<1>5. y \in Manager /\ y.step = "next" /\ y.left = left /\ y.doing = manager[m].doing
  BY <1>2, <1>4 DEF Manager, Steps
<1>6. manager' = [manager EXCEPT ![m] = y]
  BY <1>1, <1>2
<1> HIDE DEF y
<1>7. manager'[m] = y
  BY <1>2, <1>6
<1>8. Fits(m)'
  <2>1. manager'[m].doing = "up" => Ordered(manager[m].left)'
    BY <1>1, <1>4, <1>5, <1>7 DEF Ordered
  <2> QED
    BY <2>1, <1>5, <1>7 DEF Fits, Reached, Applying
<1> QED
  BY <1>1, <1>2, <1>5, <1>6, <1>8, RestingStep

LEMMA NextMigrationKeeps ==
    ASSUME MigrationsInv, NEW m \in Callers, NextMigration(m)
    PROVE  MigrationsInv'
<1> DEFINE left == manager[m].left
           y == [manager[m] EXCEPT !.step = "next", !.left = Tail(left)]
<1>1. /\ Working(m) /\ manager[m].step = "record"
      /\ manager' = [manager EXCEPT ![m].step = "next", ![m].left = Tail(@)]
      /\ UNCHANGED <<schemaVars, role, ups, downs, records, overlapped>>
  BY DEF NextMigration, After
<1>2. manager \in [Callers -> Manager] /\ role = "managers" /\ manager[m] \in Manager /\ left \in Seq(Known)
  BY <1>1, Managing DEF MigrationType
<1>3. left # <<>> /\ (manager[m].doing = "up" => Ordered(left) /\ ups[Head(left)] > 0)
  BY <1>1, Standing
<1>4. Tail(left) \in Seq(Known) /\ (manager[m].doing = "up" => Ordered(Tail(left)))
  BY <1>2, <1>3, NextInOrder, HeadTailProperties
<1>5. y \in Manager /\ y.step = "next" /\ y.left = Tail(left) /\ y.doing = manager[m].doing
  BY <1>2, <1>4 DEF Manager, Steps
<1>6. manager' = [manager EXCEPT ![m] = y]
  BY <1>1, <1>2
<1> HIDE DEF y
<1>7. manager'[m] = y
  BY <1>2, <1>6
<1>8. Fits(m)'
  <2>1. manager'[m].doing = "up" => Ordered(manager[m].left)'
    BY <1>1, <1>4, <1>5, <1>7 DEF Ordered
  <2> QED
    BY <2>1, <1>5, <1>7 DEF Fits, Reached, Applying
<1> QED
  BY <1>1, <1>2, <1>5, <1>6, <1>8, RestingStep

LEMMA RestsKeeps ==
    ASSUME MigrationsInv, NEW m \in Callers, Working(m), NEW done \in BOOLEAN, Rests(m, done)
    PROVE  MigrationsInv'
<1> DEFINE y == [Resting EXCEPT !.done = done]
<1>1. /\ manager' = [manager EXCEPT ![m] = y]
      /\ UNCHANGED <<schemaVars, role, ups, downs, records, overlapped>>
  BY DEF Rests
<1>2. manager \in [Callers -> Manager] /\ role = "managers"
  BY Managing DEF MigrationType
<1>3. y \in Manager /\ y.doing = "nothing"
  <2>1. Resting \in Manager
    BY DEF Resting, Manager, Steps
  <2>2. y \in Manager
    BY <2>1 DEF Manager
  <2> QED
    BY <2>2 DEF Resting
<1> HIDE DEF y
<1>4. ~Working(m)'
  BY <1>1, <1>2, <1>3 DEF Working
<1>5. Fits(m)'
  BY <1>4 DEF Fits, Reached, Applying
<1> QED
  BY <1>1, <1>2, <1>3, <1>5, RestingStep

LEMMA BeginKeeps ==
    ASSUME MigrationsInv, NEW m \in Callers, NEW doing \in {"up", "down"}, NEW limit \in {0, 1},
           Begin(m, doing, limit)
    PROVE  MigrationsInv'
<1> DEFINE step == IF doing = "up" THEN "list" ELSE "structure"
           y == [Resting EXCEPT !.doing = doing, !.limit = limit, !.step = step]
<1>1. /\ role = "managers" /\ Start(m, "get", MigrationClass, ClassGet(m, FALSE))
      /\ overlapped' = (overlapped \/ \E x \in Callers : Working(x))
      /\ manager' = [x \in Callers |-> IF x = m THEN y ELSE [manager[x] EXCEPT !.done = FALSE]]
      /\ UNCHANGED <<role, ups, downs, records>>
  BY DEF Begin
<1>2. manager \in [Callers -> Manager] /\ overlapped \in BOOLEAN
  BY DEF MigrationsInv, MigrationType
<1>3. y \in Manager /\ y.step = step
  <2>1. step \in Steps
    BY DEF Steps
  <2>2. Resting \in Manager
    BY DEF Resting, Manager, Steps
  <2> HIDE DEF step
  <2> QED
    BY <2>1, <2>2 DEF Manager
<1> HIDE DEF y
<1>4. \A x \in Callers : /\ [manager[x] EXCEPT !.done = FALSE] \in Manager
                         /\ [manager[x] EXCEPT !.done = FALSE].doing = manager[x].doing
                         /\ [manager[x] EXCEPT !.done = FALSE].step = manager[x].step
                         /\ [manager[x] EXCEPT !.done = FALSE].left = manager[x].left
  BY <1>2 DEF Manager
<1>5. /\ manager' \in [Callers -> Manager] /\ manager'[m] = y
      /\ \A x \in Callers : x # m => /\ manager'[x].doing = manager[x].doing
                                     /\ manager'[x].step = manager[x].step
                                     /\ manager'[x].left = manager[x].left
  BY <1>1, <1>3, <1>4
<1>6. overlapped' \in BOOLEAN
  BY <1>1, <1>2
<1>7. Fits(m)'
  BY <1>3, <1>5 DEF Fits, Reached, Applying
<1>8. Begins("get", MigrationClass, ClassGet(m, FALSE)) /\ MigrationClass \notin Parts
  BY ClassBegins
<1> QED
  BY <1>1, <1>5, <1>6, <1>7, <1>8, AskingStep

LEMMA MigrationsInit ==
    ASSUME Init
    PROVE  MigrationsInv
<1>1. SchemaInv
  BY SchemaInitInv DEF Init
<1>2. /\ manager = [m \in Callers |-> Resting] /\ role \in Kinds \cup {"managers"}
      /\ ups = [n \in Known |-> 0] /\ downs = [n \in Known |-> 0] /\ records = [n \in Known |-> 0]
      /\ overlapped = FALSE
  BY DEF Init
<1>3. MigrationType
  <2>1. Resting \in Manager
    BY DEF Resting, Manager, Steps
  <2> QED
    BY <1>2, <2>1 DEF MigrationType
<1>4. ASSUME NEW m \in Callers PROVE ~Working(m) /\ Fits(m)
  BY <1>2 DEF Working, Resting, Fits, Reached, Applying
<1>5. ASSUME NEW d \in Dbs, NEW i \in 1..Len(flight[d]) PROVE EntryOK(flight[d][i])
  BY <1>5 DEF Init, SchemaInit
<1>6. \A k \in Known : records[k] > 0 => ups[k] > 0
  BY <1>2
<1> QED
  BY <1>1, <1>3, <1>4, <1>5, <1>6 DEF MigrationsInv

LEMMA SchemaNextKeeps ==
    ASSUME MigrationsInv, SchemaNext, UNCHANGED migrationVars
    PROVE  MigrationsInv'
<1>1. SchemaInv
  BY DEF MigrationsInv
<1>2. ASSUME NEW d \in Dbs, NEW i, Serve(d, i) PROVE MigrationsInv'
  BY <1>1, <1>2, ServeStep, ServeMoves, MovesKeep
<1>3. ASSUME NEW d \in Dbs, NEW i, Reply(d, i) PROVE MigrationsInv'
  BY <1>1, <1>3, ReplyStep, ReplyMoves, MovesKeep
<1>4. ASSUME NEW d \in Dbs, Lose(d) PROVE MigrationsInv'
  BY <1>1, <1>4, LoseStep, LoseMoves, MovesKeep
<1>5. ASSUME NEW c \in Callers, Continue(c) PROVE MigrationsInv'
  BY <1>1, <1>5, ContinueStep, ContinueMoves, MovesKeep
<1> QED
  BY <1>2, <1>3, <1>4, <1>5 DEF SchemaNext

LEMMA CallNextKeeps ==
    ASSUME MigrationsInv, CallNext(role), UNCHANGED migrationVars
    PROVE  MigrationsInv'
<1>1. SchemaInv /\ role \in Kinds \cup {"managers"}
  BY DEF MigrationsInv, MigrationType
<1>2. PICK c \in Callers : \E op, t, stages :
        /\ op # "statement" /\ Plan(op, t, stages) /\ (t \in Parts => instance[c] # <<>>)
        /\ Start(c, op, t, stages)
  BY <1>1, CallsBegin
<1>3. PICK op, t, stages :
        /\ op # "statement" /\ Plan(op, t, stages) /\ (t \in Parts => instance[c] # <<>>)
        /\ Start(c, op, t, stages)
  BY <1>2
<1>4. Begins(op, t, stages)
  BY <1>3 DEF Begins
<1>5. SchemaInv'
  BY <1>1, <1>3, <1>4, StartStep
<1>6. UNCHANGED <<role, manager, ups, downs, records, overlapped>>
  BY DEF migrationVars
<1>7. role # "managers"
  BY DEF CallNext
<1>8. \A m \in Callers : ~Working(m)
  BY <1>7 DEF MigrationsInv
<1>9. \A m \in Callers : ~Working(m)' /\ Fits(m)'
  BY <1>6, <1>8 DEF Working, Fits, Reached, Applying
<1>10. Flows({})
  BY <1>1, <1>3, <1>4, StartMoves
<1>11. \A d \in Dbs : \A j \in 1..Len(flight'[d]) : EntryOK(flight[d][j])'
  BY <1>6, <1>10, EntriesStill
<1>12. MigrationType' /\ (\A k \in Known : records[k] > 0 => ups[k] > 0)'
  BY <1>6 DEF MigrationsInv, MigrationType
<1> QED
  BY <1>5, <1>9, <1>11, <1>12 DEF MigrationsInv

LEMMA ManageKeeps ==
    ASSUME MigrationsInv, NEW m \in Callers, Up(m) \/ Down(m) \/ Manage(m)
    PROVE  MigrationsInv'
<1>1. CASE Up(m)
  BY <1>1, BeginKeeps DEF Up
<1>2. CASE Down(m)
  BY <1>2, BeginKeeps DEF Down
<1>3. CASE EnsureStructure(m)
  BY <1>3, EnsureStructureKeeps
<1>4. CASE ListMigrations(m) \/ ListApplied(m)
  BY <1>4, ListKeeps
<1>5. CASE Selected(m)
  BY <1>5, SelectedKeeps
<1>6. CASE ApplyMigration(m)
  BY <1>6, ApplyKeeps DEF ApplyMigration, Working
<1>7. CASE RevertMigration(m)
  BY <1>7, RevertKeeps DEF RevertMigration, Working
<1>8. CASE NextMigration(m)
  BY <1>8, NextMigrationKeeps
<1>9. CASE Finished(m)
  BY <1>9, RestsKeeps DEF Finished
<1>10. CASE Rejected(m)
  BY <1>10, RestsKeeps DEF Rejected
<1> QED
  BY <1>1, <1>2, <1>3, <1>4, <1>5, <1>6, <1>7, <1>8, <1>9, <1>10 DEF Manage

LEMMA StutterKeeps ==
    ASSUME MigrationsInv, UNCHANGED vars
    PROVE  MigrationsInv'
<1>1. SchemaInv /\ UNCHANGED schemaVars /\ UNCHANGED migrationVars
  BY DEF MigrationsInv, vars
<1>2. SchemaInv'
  <2>1. SchemaType'
    BY <1>1 DEF schemaVars, SchemaInv, SchemaType
  <2>2. ASSUME NEW c \in Callers PROVE Counted(c)'
    BY <1>1 DEF schemaVars, SchemaInv, Counted, Own
  <2>3. ASSUME NEW d \in Dbs PROVE Traced(d)'
    BY <1>1 DEF schemaVars, SchemaInv, Traced
  <2> QED
    BY <2>1, <2>2, <2>3 DEF SchemaInv
<1>3. Moves
  BY <1>1, StillThere, StandStill DEF schemaVars, Moves
<1> QED
  BY <1>1, <1>2, <1>3, MovesKeep

LEMMA MigrationsStep ==
    ASSUME MigrationsInv, [Next]_vars
    PROVE  MigrationsInv'
<1>1. CASE SchemaNext /\ UNCHANGED migrationVars
  BY <1>1, SchemaNextKeeps
<1>2. CASE CallNext(role) /\ UNCHANGED migrationVars
  BY <1>2, CallNextKeeps
<1>3. CASE \E d \in Dbs : \E i \in 1..Len(flight[d]) : ServeStatement(d, i)
  BY <1>3, ServeStatementKeeps
<1>4. CASE \E m \in Callers : Up(m) \/ Down(m) \/ Manage(m)
  BY <1>4, ManageKeeps
<1>5. CASE UNCHANGED vars
  BY <1>5, StutterKeeps
<1> QED
  BY <1>1, <1>2, <1>3, <1>4, <1>5 DEF Next

LEMMA AppliedStep ==
    ASSUME MigrationsInv, [Next]_vars
    PROVE  \A n \in Known : ups'[n] # ups[n] => \A k \in Known : k < n => ups[k] > 0
<1> SUFFICES ASSUME NEW n \in Known, ups'[n] # ups[n] PROVE UpTo(n)
  BY DEF UpTo
<1>1. PICK d \in Dbs : \E i \in 1..Len(flight[d]) : ServeStatement(d, i)
  <2>1. ~(UNCHANGED ups)
    OBVIOUS
  <2>2. ASSUME NEW m \in Callers, Up(m) \/ Down(m) \/ Manage(m) PROVE UNCHANGED ups
    BY <2>2 DEF Up, Down, Begin, Manage, EnsureStructure, ListMigrations, ListApplied, GetsClass,
       Statement, Step, Selected, ApplyMigration, RevertMigration, NextMigration, Finished, Rejected, Rests
  <2> QED
    BY <2>1, <2>2 DEF Next, vars, migrationVars
<1>2. PICK i \in 1..Len(flight[d]) : ServeStatement(d, i)
  BY <1>1
<1> DEFINE e == flight[d][i]
<1>3. e.what.op = "up" /\ ups' = [ups EXCEPT ![e.what.of[1]] = @ + 1]
  BY <1>2 DEF ServeStatement
<1>4. n = e.what.of[1]
  <2>1. ups \in [Known -> Nat]
    BY DEF MigrationsInv, MigrationType
  <2> HIDE DEF e
  <2> QED
    BY <2>1, <1>3
<1>5. EntryOK(e)
  BY DEF MigrationsInv
<1> QED
  BY <1>3, <1>4, <1>5 DEF EntryOK

--------------------------------------------------------------------------------
(* A cache over one connection: what the server has done, in order.             *)

Recounts(s, N, g) ==
    g = [v \in 0..N |-> IF v = 0 THEN {} ELSE (g[v - 1] \ s[v].removed) \cup s[v].added]

LEMMA RecountExists ==
    ASSUME NEW N \in Nat, NEW s
    PROVE  \E g : Recounts(s, N, g)
<1> DEFINE P == {n \in Nat : \E g : Recounts(s, n, g)}
<1>1. 0 \in P
  <2> DEFINE g == [v \in 0..0 |-> {}]
  <2>1. Recounts(s, 0, g)
    BY DEF Recounts
  <2> QED
    BY <2>1
<1>2. ASSUME NEW n \in 0..(N - 1), n \in P PROVE n + 1 \in P
  <2>0. n \in Nat /\ n + 1 \in Nat
    OBVIOUS
  <2>1. PICK g : Recounts(s, n, g)
    BY <1>2
  <2> DEFINE last == (g[n] \ s[n + 1].removed) \cup s[n + 1].added
             h == [v \in 0..(n + 1) |-> IF v <= n THEN g[v] ELSE last]
             f == [v \in 0..(n + 1) |->
                      IF v = 0 THEN {} ELSE (h[v - 1] \ s[v].removed) \cup s[v].added]
  <2>2. \A v \in 0..n : g[v] = IF v = 0 THEN {} ELSE (g[v - 1] \ s[v].removed) \cup s[v].added
    BY <2>1 DEF Recounts
  <2>3. ASSUME NEW v \in 0..(n + 1) PROVE h[v] = f[v]
    <3>1. CASE v = 0
      <4>1. 0 \in 0..n /\ 0 \in 0..(n + 1) /\ 0 <= n
        BY <2>0
      <4>2. g[0] = {} /\ h[0] = g[0] /\ f[0] = {}
        BY <4>1, <2>2
      <4> QED
        BY <4>2, <3>1
    <3>2. CASE v # 0 /\ v <= n
      <4>1. v \in 0..n /\ v - 1 \in 0..(n + 1) /\ v - 1 <= n
        BY <3>2, <2>0
      <4> QED
        BY <4>1, <3>2, <2>2
    <3>3. CASE v = n + 1
      <4>1. v # 0 /\ ~(v <= n) /\ v - 1 = n /\ n \in 0..(n + 1) /\ n <= n
        BY <3>3, <2>0
      <4> QED
        BY <4>1, <3>3
    <3> QED
      BY <3>1, <3>2, <3>3, <2>0
  <2>4. h = f
    BY <2>3
  <2>5. Recounts(s, n + 1, h)
    BY <2>4 DEF Recounts
  <2> QED
    BY <2>0, <2>5
<1> HIDE DEF P
<1>3. \A n \in 0..N : n \in P
  BY <1>1, <1>2, Induction
<1>4. N \in P
  BY <1>3
<1> QED
  BY <1>4 DEF P

LEMMA HistoryDef ==
    ASSUME NEW s, Len(s) \in Nat
    PROVE  /\ History(s)[0] = {}
           /\ \A v \in 1..Len(s) :
                 History(s)[v] = (History(s)[v - 1] \ s[v].removed) \cup s[v].added
<1>1. PICK g : Recounts(s, Len(s), g)
  BY RecountExists
<1> DEFINE h == CHOOSE x : x = [v \in 0..Len(s) |->
                  IF v = 0 THEN {} ELSE (x[v - 1] \ s[v].removed) \cup s[v].added]
<1>2. Recounts(s, Len(s), h)
  BY <1>1 DEF Recounts
<1>3. History(s) = h
  BY DEF History
<1> HIDE DEF h
<1>4. h = [v \in 0..Len(s) |-> IF v = 0 THEN {} ELSE (h[v - 1] \ s[v].removed) \cup s[v].added]
  BY <1>2 DEF Recounts
<1>5. 0 \in 0..Len(s) /\ \A v \in 1..Len(s) : v \in 0..Len(s) /\ v # 0
  OBVIOUS
<1> QED
  BY <1>3, <1>4, <1>5

LEMMA GrowsBy ==
    ASSUME NEW s \in Seq(Change), NEW x \in Change
    PROVE  /\ Grew(s, s) /\ Grew(s, Append(s, x))
           /\ Append(s, x) \in Seq(Change) /\ Len(Append(s, x)) = Len(s) + 1
           /\ Append(s, x)[Len(s) + 1] = x
           /\ History(Append(s, x))[Len(s) + 1] = (History(s)[Len(s)] \ x.removed) \cup x.added
<1> DEFINE t == Append(s, x)
<1>1. /\ t \in Seq(Change) /\ Len(t) = Len(s) + 1 /\ Len(s) \in Nat /\ t[Len(s) + 1] = x
      /\ \A v \in 1..Len(s) : t[v] = s[v]
  OBVIOUS
<1> HIDE DEF t
<1> DEFINE S == {v \in Nat : History(t)[v] = History(s)[v]}
<1>2. 0 \in S
  <2>1. Len(s) \in Nat /\ Len(t) \in Nat
    BY <1>1
  <2>2. History(s)[0] = {} /\ History(t)[0] = {}
    BY <2>1, HistoryDef
  <2> QED
    BY <2>2
<1>3. ASSUME NEW v \in 0..(Len(s) - 1), v \in S PROVE v + 1 \in S
  <2>1. v + 1 \in 1..Len(s) /\ v + 1 \in 1..Len(t) /\ (v + 1) - 1 = v /\ v + 1 \in Nat
    BY <1>1
  <2>2. /\ History(t)[v + 1] = (History(t)[v] \ t[v + 1].removed) \cup t[v + 1].added
        /\ History(s)[v + 1] = (History(s)[v] \ s[v + 1].removed) \cup s[v + 1].added
    BY <2>1, <1>1, HistoryDef
  <2>3. History(t)[v] = History(s)[v] /\ t[v + 1] = s[v + 1]
    BY <1>1, <1>3, <2>1
  <2> QED
    BY <2>1, <2>2, <2>3
<1> HIDE DEF S
<1>4. \A v \in 0..Len(s) : v \in S
  BY <1>1, <1>2, <1>3, Induction
<1>5. \A v \in 0..Len(s) : History(t)[v] = History(s)[v]
  BY <1>4 DEF S
<1>6. History(t)[Len(s) + 1] = (History(s)[Len(s)] \ x.removed) \cup x.added
  BY <1>1, HistoryDef, <1>5
<1>7. Grew(s, s)
  BY <1>1 DEF Grew
<1> QED
  BY <1>1, <1>5, <1>6, <1>7 DEF Grew, t

\* What was there and is not any more has been removed in between.
LEMMA Lost ==
    ASSUME NEW s \in Seq(Change), NEW t, NEW m \in 0..Len(s), NEW v \in m..Len(s),
           t \in History(s)[m], t \notin History(s)[v]
    PROVE  \E w \in (m + 1)..v : t \in s[w].removed
<1> DEFINE T == {n \in m..v : t \notin History(s)[n]}
<1>0. Len(s) \in Nat /\ m \in Nat /\ v \in Nat
  OBVIOUS
<1>1. T \subseteq Nat /\ T # {}
  BY <1>0
<1>2. PICK n \in T : \A x \in T : n <= x
  BY <1>1, Least
<1>3. n \in m..v /\ t \notin History(s)[n] /\ n # m
  BY <1>2
<1>4. n \in (m + 1)..v /\ n \in 1..Len(s) /\ n - 1 \in m..v /\ ~(n <= n - 1)
  BY <1>0, <1>3
<1>5. t \in History(s)[n - 1]
  BY <1>2, <1>4
<1>6. History(s)[n] = (History(s)[n - 1] \ s[n].removed) \cup s[n].added
  BY <1>0, <1>4, HistoryDef
<1> QED
  BY <1>3, <1>4, <1>5, <1>6

LEMMA ClassOfType ==
    /\ \A t : ClassOf(t)[1] = "class" /\ ClassOf(t)[2] = t[2]
    /\ \A t \in Parts : \E n \in Names, p \in Props : t = Property(n, p) /\ ClassOf(t) = Thing("class", n)
<1>1. \A t : ClassOf(t)[1] = "class" /\ ClassOf(t)[2] = t[2]
  BY ThingType DEF ClassOf
<1>2. ASSUME NEW t \in Parts
      PROVE  \E n \in Names, p \in Props : t = Property(n, p) /\ ClassOf(t) = Thing("class", n)
  <2>1. PICK n \in Names, p \in Props : t = Property(n, p)
    BY DEF Parts
  <2>2. t[2] = n
    BY <2>1, ThingType
  <2> QED
    BY <2>1, <2>2 DEF ClassOf
<1> QED
  BY <1>1, <1>2

LEMMA Vanished ==
    ASSUME NEW s \in Seq(Change), Thorough(s), NEW t \in Named, NEW m, Shows(s, t, m),
           NEW v \in m..Len(s),
           t \notin History(s)[v] \/ (t \in Parts /\ ClassOf(t) \notin History(s)[v])
    PROVE  \E w \in (m + 1)..Len(s) : t \in s[w].removed
<1>1. m \in 1..Len(s) /\ m \in 0..Len(s) /\ Len(s) \in Nat /\ v \in m..Len(s)
  BY DEF Shows
<1>2. CASE t \notin History(s)[v]
  BY <1>1, <1>2, Lost DEF Shows
<1>3. CASE t \in Parts /\ ClassOf(t) \notin History(s)[v]
  <2>1. PICK w \in (m + 1)..v : ClassOf(t) \in s[w].removed
    BY <1>3, <1>1, Lost DEF Shows
  <2>2. w \in (m + 1)..Len(s) /\ w \in 1..Len(s)
    BY <1>1
  <2>3. PICK n \in Names, p \in Props : t = Property(n, p) /\ ClassOf(t) = Thing("class", n)
    BY <1>3, ClassOfType
  <2> QED
    BY <2>1, <2>2, <2>3 DEF Thorough
<1> QED
  BY <1>2, <1>3

LEMMA ShowsStill ==
    ASSUME NEW s \in Seq(Change), NEW s2 \in Seq(Change), Grew(s, s2), NEW t, NEW v, Shows(s, t, v)
    PROVE  Shows(s2, t, v)
<1>1. v \in 1..Len(s) /\ v \in 0..Len(s) /\ v \in 1..Len(s2)
  BY DEF Shows, Grew
<1> QED
  BY <1>1 DEF Shows, Grew

\* What the server does when it creates, drops or renames.
Effect(r) == [removed |-> IF r.op = "create" THEN {} ELSE PartsOf(r.of),
              added |-> IF r.op = "drop" THEN {} ELSE {r.to}]

LEMMA EffectShows ==
    ASSUME NEW s \in Seq(Change), Thorough(s), NEW r \in SchemaRequests, r.op \in Changing,
           r.of[1] = "property" => ClassOf(r.of) \in History(s)[Len(s)]
    PROVE  /\ Effect(r) \in Change /\ Thorough(Append(s, Effect(r)))
           /\ \A t \in Named : Makes(r, t) => Shows(Append(s, Effect(r)), t, Len(s) + 1)
<1> DEFINE x == Effect(r)
           s2 == Append(s, x)
<1>1. r.of \in Named /\ r.to \in Named
  BY StatementType DEF Changing
<1>2. x \in Change /\ x.removed = (IF r.op = "create" THEN {} ELSE PartsOf(r.of))
      /\ x.added = (IF r.op = "drop" THEN {} ELSE {r.to})
  BY <1>1, PartsType DEF Effect, Change
<1> HIDE DEF x
<1>3. /\ s2 \in Seq(Change) /\ Len(s2) = Len(s) + 1 /\ Len(s) \in Nat /\ s2[Len(s) + 1] = x
      /\ \A v \in 1..Len(s) : s2[v] = s[v]
      /\ History(s2)[Len(s) + 1] = (History(s)[Len(s)] \ x.removed) \cup x.added
  <2>1. Grew(s, s2) /\ s2 \in Seq(Change) /\ Len(s2) = Len(s) + 1 /\ s2[Len(s) + 1] = x
        /\ History(s2)[Len(s) + 1] = (History(s)[Len(s)] \ x.removed) \cup x.added
    BY <1>2, GrowsBy
  <2>2. Len(s) \in Nat
    OBVIOUS
  <2> HIDE DEF s2
  <2> QED
    BY <2>1, <2>2 DEF Grew
<1> HIDE DEF s2
<1>4. ASSUME NEW n \in Names, NEW p \in Props, Thing("class", n) \in x.removed
      PROVE  Property(n, p) \in x.removed
  <2>1. Thing("class", n) \in PartsOf(r.of) /\ x.removed = PartsOf(r.of)
    BY <1>2, <1>4
  <2>2. Thing("class", n)[1] = "class" /\ Thing("class", n)[2] = n /\ \A q : Property(r.of[2], q)[1] = "property"
    BY ThingType
  <2>3. CASE r.of[1] = "class"
    <3>1. PartsOf(r.of) = {r.of} \cup {Property(r.of[2], q) : q \in Props}
      BY <2>3 DEF PartsOf
    <3>2. Thing("class", n) = r.of
      BY <3>1, <2>1, <2>2
    <3>3. r.of[2] = n
      BY <3>2, <2>2
    <3> QED
      BY <3>1, <3>3, <2>1
  <2>4. CASE r.of[1] # "class"
    BY <2>1, <2>2, <2>4 DEF PartsOf
  <2> QED
    BY <2>3, <2>4
<1>5. Thorough(s2)
  <2> SUFFICES ASSUME NEW v \in 1..Len(s2), NEW n \in Names, NEW p \in Props, Thing("class", n) \in s2[v].removed
               PROVE  Property(n, p) \in s2[v].removed
    BY DEF Thorough
  <2>1. CASE v \in 1..Len(s)
    BY <2>1, <1>3 DEF Thorough
  <2>2. CASE v = Len(s) + 1
    BY <2>2, <1>3, <1>4
  <2> QED
    BY <2>1, <2>2, <1>3
<1>6. ASSUME NEW t \in Named, Makes(r, t)
      PROVE  Shows(s2, t, Len(s) + 1)
  <2>1. r.to = t /\ r.op # "drop" /\ (t[1] = "property" => r.of[1] = "property" /\ r.of[2] = t[2])
    BY <1>6 DEF Makes
  <2>2. t \in History(s2)[Len(s) + 1]
    BY <2>1, <1>2, <1>3
  <2>3. ASSUME t \in Parts PROVE ClassOf(t) \in History(s2)[Len(s) + 1]
    <3>1. r.of[1] = "property" /\ r.of[2] = t[2]
      BY <2>1, <2>3, KindOf
    <3>2. ClassOf(t) = ClassOf(r.of)
      BY <3>1 DEF ClassOf
    <3>3. PartsOf(r.of) = {r.of}
      BY <3>1 DEF PartsOf
    <3>4. ClassOf(t) # r.of
      BY <3>1, ClassOfType
    <3> QED
      BY <3>1, <3>2, <3>3, <3>4, <1>2, <1>3
  <2>4. Len(s) + 1 \in 1..Len(s2)
    BY <1>3
  <2> QED
    BY <2>2, <2>3, <2>4 DEF Shows
<1> QED
  BY <1>2, <1>5, <1>6 DEF s2, x

--------------------------------------------------------------------------------
(* The requests of one connection, and the lists cached of it.                  *)

LEMMA EntryType ==
    ASSUME NEW e \in Entry
    PROVE  /\ e.who \in Callers \cup {Nobody} /\ e.what \in Requests /\ e.reply \in Replies
           /\ Ok(e) => e.reply[2] \in Nat /\ e.reply # <<>> /\ e.reply # Refused
BY DEF Entry, Ok, Answered

LEMMA DatedStill ==
    ASSUME NEW s \in Seq(Change), NEW s2 \in Seq(Change), Grew(s, s2), NEW ca \in Caches,
           NEW e \in Entry, Dated(s, ca, e)
    PROVE  Dated(s2, ca, e)
<1>1. Len(s) \in Nat /\ Len(s2) \in Nat /\ Len(s) <= Len(s2)
  BY DEF Grew
<1>2. Ok(e) => e.reply[2] \in Nat
  BY EntryType
<1>3. \A t, v : Shows(s, t, v) => Shows(s2, t, v)
  BY ShowsStill
<1> QED
  BY <1>1, <1>2, <1>3 DEF Dated

LEMMA LineStill ==
    ASSUME NEW s \in Seq(Change), NEW s2 \in Seq(Change), Grew(s, s2), NEW ca \in Caches,
           NEW f \in Seq(Entry), Line(s, ca, f)
    PROVE  Line(s2, ca, f)
<1>1. Len(s) \in Nat /\ Len(s2) \in Nat /\ Len(s) <= Len(s2)
  BY DEF Grew
<1>2. \A k \in Kinds : ca[k] <= Len(s2)
  BY <1>1 DEF Line, Caches, Never
<1>3. \A i \in 1..Len(f) : Dated(s2, ca, f[i])
  BY DatedStill DEF Line
<1> QED
  BY <1>2, <1>3 DEF Line

LEMMA LineEmpty ==
    ASSUME NEW s, NEW ca, \A k \in Kinds : ca[k] <= Len(s)
    PROVE  Line(s, ca, <<>>)
<1>1. Len(<<>>) = 0 /\ 1..0 = {}
  OBVIOUS
<1> QED
  BY <1>1 DEF Line, OneByOne, Rising

LEMMA LineLonger ==
    ASSUME NEW s, NEW ca, NEW f \in Seq(Entry), Line(s, ca, f),
           NEW g \in Seq(Entry), \A i \in 1..Len(g) : g[i].reply = <<>>
    PROVE  Line(s, ca, f \o g)
<1> DEFINE h == f \o g
<1>1. /\ h \in Seq(Entry) /\ Len(h) = Len(f) + Len(g) /\ Len(f) \in Nat /\ Len(g) \in Nat
      /\ \A i \in 1..Len(f) : h[i] = f[i]
      /\ \A i \in 1..Len(g) : h[Len(f) + i] = g[i]
  BY ConcatProperties
<1> HIDE DEF h
<1>2. ASSUME NEW i \in 1..Len(h), ~(i <= Len(f)) PROVE h[i].reply = <<>>
  <2> DEFINE j == i - Len(f)
  <2>1. j \in 1..Len(g) /\ Len(f) + j = i
    BY <1>1, <1>2
  <2> HIDE DEF j
  <2> QED
    BY <2>1, <1>1
<1>3. \A i \in 1..Len(h) : ~(i <= Len(f)) => ~Ok(h[i])
  BY <1>2 DEF Ok, Answered
<1>4. \A i \in 1..Len(h) : i <= Len(f) => i \in 1..Len(f) /\ h[i] = f[i]
  BY <1>1
<1>5. \A i, j \in 1..Len(h) : i < j /\ j <= Len(f) => i <= Len(f)
  BY <1>1
<1>6. OneByOne(h)
  BY <1>2, <1>4, <1>5 DEF Line, OneByOne
<1>7. Rising(h)
  BY <1>3, <1>4, <1>5 DEF Line, Rising
<1>8. \A i \in 1..Len(h) : Dated(s, ca, h[i])
  BY <1>3, <1>4 DEF Line, Dated
<1> QED
  BY <1>6, <1>7, <1>8 DEF Line, h

LEMMA LineServed ==
    ASSUME NEW s \in Seq(Change), NEW s2 \in Seq(Change), Grew(s, s2), NEW ca \in Caches,
           NEW f \in Seq(Entry), Line(s, ca, f), NEW i \in 1..Len(f),
           \A j \in 1..(i - 1) : f[j].reply # <<>>, f[i].reply = <<>>,
           NEW reply \in Replies, reply # <<>>, Truth(s2, f[i].what, reply)
    PROVE  Line(s2, ca, Answer(f, i, reply))
<1> DEFINE g == Answer(f, i, reply)
           r == f[i].what
<1>1. Line(s2, ca, f) /\ Len(s2) \in Nat /\ Len(f) \in Nat
  BY LineStill
<1>2. r \in SchemaRequests => reply \in {<<>>, Refused} \cup ({"ok"} \X Nat)
  BY <1>1 DEF Truth
<1>3. /\ g \in Seq(Entry) /\ Len(g) = Len(f)
      /\ \A j \in 1..Len(f) : /\ g[j].who = f[j].who /\ g[j].what = f[j].what
                              /\ g[j].reply = IF j = i THEN reply ELSE f[j].reply
  BY <1>2, AnsweredType
<1> HIDE DEF g
<1>4. \A j \in 1..Len(f) : i < j => f[j].reply = <<>>
  BY <1>1 DEF Line, OneByOne
<1>5. OneByOne(g)
  <2> SUFFICES ASSUME NEW j \in 1..Len(f), NEW l \in 1..Len(f), j < l, g[l].reply # <<>>
               PROVE  g[j].reply # <<>>
    BY <1>3 DEF OneByOne
  <2>1. ~(i < l)
    BY <1>3, <1>4
  <2>2. j \in 1..(i - 1)
    BY <2>1, <1>1
  <2> QED
    BY <2>2, <1>3
<1>6. \A j \in 1..Len(f) : j # i => (Ok(g[j]) <=> Ok(f[j])) /\ g[j].reply = f[j].reply /\ g[j].what = f[j].what
  BY <1>3 DEF Ok, Answered
<1>7. Ok(g[i]) => r \in SchemaRequests /\ reply # Refused /\ g[i].reply[2] = Len(s2) /\ g[i].what = r
  BY <1>3 DEF Ok, Answered, Truth
<1>8. \A j \in 1..Len(f) : Ok(f[j]) => f[j].reply[2] <= Len(s2)
  BY <1>1 DEF Line, Dated
<1>9. Rising(g)
  <2> SUFFICES ASSUME NEW j \in 1..Len(f), NEW l \in 1..Len(f), j < l, Ok(g[j]), Ok(g[l])
               PROVE  g[j].reply[2] <= g[l].reply[2]
    BY <1>3 DEF Rising
  <2>1. CASE l = i
    BY <2>1, <1>6, <1>7, <1>8
  <2>2. CASE l # i /\ j = i
    BY <2>2, <1>4, <1>6 DEF Ok, Answered
  <2>3. CASE l # i /\ j # i
    BY <2>3, <1>1, <1>6 DEF Line, Rising
  <2> QED
    BY <2>1, <2>2, <2>3
<1>10. ASSUME NEW j \in 1..Len(f) PROVE Dated(s2, ca, g[j])
  <2>1. CASE j # i
    BY <2>1, <1>1, <1>6 DEF Line, Dated
  <2>2. CASE j = i
    BY <1>1, <2>2, <1>7 DEF Line, Dated, Truth
  <2> QED
    BY <2>1, <2>2
<1> QED
  BY <1>1, <1>3, <1>5, <1>9, <1>10 DEF Line, g

\* The first of them is answered; a list is cached.
Cached(ca, e) == IF e.reply = Refused \/ e.what.op # "list" THEN ca
                 ELSE [ca EXCEPT ![e.what.of[1]] = e.reply[2]]

LEMMA LineTaken ==
    ASSUME NEW s \in Seq(Change), NEW ca \in Caches, NEW f \in Seq(Entry), Line(s, ca, f),
           1 \in 1..Len(f), f[1].reply # <<>>,
           NEW g, g = RemoveAt(f, 1) \/ \E W : g = Disowned(RemoveAt(f, 1), W)
    PROVE  /\ Line(s, Cached(ca, f[1]), g)
           /\ \A k \in Kinds : ca[k] <= Cached(ca, f[1])[k]
           /\ Len(g) = Len(f) - 1
           /\ \A j \in 1..Len(g) : g[j].what = f[j + 1].what /\ g[j].reply = f[j + 1].reply
           /\ f[1].what.op = "list" /\ f[1].reply # Refused =>
                 Ok(f[1]) /\ Cached(ca, f[1])[f[1].what.of[1]] = f[1].reply[2]
<1> DEFINE h == RemoveAt(f, 1)
           e == f[1]
           ca2 == Cached(ca, e)
<1>0. Len(f) \in Nat /\ e \in Entry
  OBVIOUS
<1>1. /\ h \in Seq(Entry) /\ Len(h) = Len(f) - 1
      /\ \A j \in 1..(Len(f) - 1) : h[j] = f[j + 1]
  BY Removal
<1>2. /\ Len(g) = Len(f) - 1
      /\ \A j \in 1..Len(g) : g[j].what = f[j + 1].what /\ g[j].reply = f[j + 1].reply
  <2>1. CASE g = h
    BY <2>1, <1>1
  <2>2. ASSUME NEW W, g = Disowned(h, W)
        PROVE  /\ Len(g) = Len(f) - 1
               /\ \A j \in 1..Len(g) : g[j].what = f[j + 1].what /\ g[j].reply = f[j + 1].reply
    <3>1. h \in Seq(Entry)
      BY <1>1
    <3> HIDE DEF h
    <3>2. Len(g) = Len(h) /\ \A j \in 1..Len(h) : g[j].what = h[j].what /\ g[j].reply = h[j].reply
      BY <3>1, <2>2, DisownedType
    <3> QED
      BY <3>2, <1>1
  <2> QED
    BY <2>1, <2>2
<1> HIDE DEF h
<1>3. e.what.op = "list" => e.what \in SchemaRequests /\ e.what.of[1] \in Kinds
  BY <1>0, EntryType, StatementType DEF SchemaOps
<1>4. e.what.op = "list" /\ e.reply # Refused => Ok(e) /\ e.reply[2] \in Nat
  BY <1>3, <1>0, EntryType DEF Ok, Answered
<1>5. \A k \in Kinds : ca[k] \in Int
  BY DEF Caches, Never
<1>6. Ok(e) => (\A k \in Kinds : ca[k] <= e.reply[2]) /\ e.reply[2] <= Len(s)
  BY DEF Line, Dated
<1> HIDE DEF e
<1>7. \A k \in Kinds : \/ ca2[k] = ca[k]
                       \/ Ok(e) /\ ca2[k] = e.reply[2]
  <2>1. CASE e.reply = Refused \/ e.what.op # "list"
    BY <2>1 DEF Cached
  <2>2. CASE ~(e.reply = Refused \/ e.what.op # "list")
    BY <2>2, <1>4 DEF Cached, Caches
  <2> QED
    BY <2>1, <2>2
<1>8. e.what.op = "list" /\ e.reply # Refused => ca2[e.what.of[1]] = e.reply[2]
  BY <1>3 DEF Cached, Caches
<1> HIDE DEF ca2
<1>9. \A k \in Kinds : ca[k] <= ca2[k] /\ ca2[k] <= Len(s)
  BY <1>5, <1>6, <1>7 DEF Line
<1>10. \A j \in 1..Len(g) : j + 1 \in 1..Len(f) /\ 1 < j + 1 /\ (Ok(g[j]) <=> Ok(f[j + 1]))
  BY <1>0, <1>2 DEF Ok, Answered
<1>11. OneByOne(g)
  <2> SUFFICES ASSUME NEW j \in 1..Len(g), NEW l \in 1..Len(g), j < l, g[l].reply # <<>>
               PROVE  g[j].reply # <<>>
    BY DEF OneByOne
  <2>1. j + 1 < l + 1
    OBVIOUS
  <2> QED
    BY <2>1, <1>2, <1>10 DEF Line, OneByOne
<1>12. Rising(g)
  <2> SUFFICES ASSUME NEW j \in 1..Len(g), NEW l \in 1..Len(g), j < l, Ok(g[j]), Ok(g[l])
               PROVE  g[j].reply[2] <= g[l].reply[2]
    BY DEF Rising
  <2>1. j + 1 < l + 1
    OBVIOUS
  <2> QED
    BY <2>1, <1>2, <1>10 DEF Line, Rising
<1>13. ASSUME NEW j \in 1..Len(g) PROVE Dated(s, ca2, g[j])
  <2> SUFFICES ASSUME Ok(g[j])
               PROVE  /\ g[j].reply[2] <= Len(s)
                      /\ \A k \in Kinds : ca2[k] <= g[j].reply[2]
                      /\ \A t \in Named : Makes(g[j].what, t) => Shows(s, t, g[j].reply[2])
                      /\ g[j].what.op \in Changing => g[j].reply[2] > 0
    BY DEF Dated
  <2>1. Ok(f[j + 1]) /\ j + 1 \in 1..Len(f) /\ Dated(s, ca, f[j + 1])
    BY <1>10 DEF Line
  <2>2. g[j].reply = f[j + 1].reply /\ g[j].what = f[j + 1].what
    BY <1>2
  <2>3. Ok(e) => e.reply[2] <= f[j + 1].reply[2]
    BY <2>1, <1>10 DEF Line, Rising, e
  <2>4. \A k \in Kinds : ca2[k] <= f[j + 1].reply[2]
    BY <2>1, <2>3, <1>7 DEF Dated
  <2> QED
    BY <2>1, <2>2, <2>4 DEF Dated
<1>14. Line(s, ca2, g)
  BY <1>9, <1>11, <1>12, <1>13 DEF Line
<1> QED
  BY <1>2, <1>4, <1>8, <1>9, <1>14 DEF ca2, e

--------------------------------------------------------------------------------
(* A call that changes the schema, and the list it waits for.                   *)

LEMMA ListOfType ==
    ASSUME NEW k \in CallRecord, k.op \in Changes
    PROVE  k.of \in Named /\ ListOf(k.of) \in Kinds
<1>1. k.op \notin {"none", "statement"}
  BY DEF Changes
<1> QED
  BY <1>1, CallType, KindOf

LEMMA MadeStill ==
    ASSUME NEW s \in Seq(Change), NEW s2 \in Seq(Change), Grew(s, s2), NEW k \in CallRecord, Made(s, k)
    PROVE  Made(s2, k)
<1>1. Len(s) \in Nat /\ Len(s2) \in Nat /\ Len(s) <= Len(s2) /\ k.made \in Nat
  BY CallType DEF Grew
<1>2. \A t, v : Shows(s, t, v) => Shows(s2, t, v)
  BY ShowsStill
<1> QED
  BY <1>1, <1>2 DEF Made

\* Whatever else happens: z requests before its own are answered.
LEMMA AwaitsStill ==
    ASSUME NEW s \in Seq(Change), NEW s2 \in Seq(Change), Grew(s, s2),
           NEW ca \in Caches, NEW ca2 \in Caches, \A x \in Kinds : ca[x] <= ca2[x],
           NEW c, NEW k \in CallRecord, NEW f \in Seq(Entry), NEW g \in Seq(Entry), NEW z \in Nat,
           Awaits(s, ca, c, k, f),
           \A j \in OwnIn(g, c) : /\ j + z \in OwnIn(f, c) /\ g[j].what = f[j + z].what
                                  /\ \/ g[j].reply = f[j + z].reply
                                     \/ Ok(g[j]) => g[j].reply[2] >= Len(s),
           \A i \in OwnIn(f, c) : i - z \in OwnIn(g, c)
    PROVE  Awaits(s2, ca2, c, k, g)
<1>1. Len(s) \in Nat /\ Len(s2) \in Nat /\ Len(s) <= Len(s2) /\ k.made \in Nat /\ k.made <= Len(s)
  BY CallType DEF Grew, Awaits, Made
<1>2. Made(s2, k)
  BY MadeStill DEF Awaits
<1>3. Waits(c, k, g)
  <2> SUFFICES ASSUME k.op \in Changes, k.outcome = "pending"
               PROVE  /\ k.todo # <<>> => k.todo[Len(k.todo)] = Listing(k.of)
                      /\ k.todo = <<>> => \A i \in OwnIn(g, c) :
                            g[i].what = List(ListOf(k.of)) /\ (Ok(g[i]) => g[i].reply[2] >= k.made)
                      /\ k.op = "create" /\ k.made = 0 =>
                            /\ k.todo # <<>>
                            /\ \E i \in OwnIn(g, c) : Makes(g[i].what, k.of) /\ \A j \in OwnIn(g, c) : i <= j
    BY DEF Waits
  <2>1. /\ k.todo # <<>> => k.todo[Len(k.todo)] = Listing(k.of)
        /\ k.todo = <<>> => \A i \in OwnIn(f, c) :
              f[i].what = List(ListOf(k.of)) /\ (Ok(f[i]) => f[i].reply[2] >= k.made)
        /\ k.op = "create" /\ k.made = 0 =>
              /\ k.todo # <<>>
              /\ \E i \in OwnIn(f, c) : Makes(f[i].what, k.of) /\ \A j \in OwnIn(f, c) : i <= j
    BY DEF Awaits, Waits
  <2>2. ASSUME k.todo = <<>>, NEW i \in OwnIn(g, c)
        PROVE  g[i].what = List(ListOf(k.of)) /\ (Ok(g[i]) => g[i].reply[2] >= k.made)
    <3>1. i + z \in OwnIn(f, c) /\ g[i].what = f[i + z].what
      OBVIOUS
    <3>2. f[i + z].what = List(ListOf(k.of)) /\ (Ok(f[i + z]) => f[i + z].reply[2] >= k.made)
      BY <3>1, <2>1, <2>2
    <3>3. g[i].reply = f[i + z].reply \/ (Ok(g[i]) => g[i].reply[2] >= Len(s))
      OBVIOUS
    <3>4. CASE g[i].reply = f[i + z].reply
      BY <3>1, <3>2, <3>4 DEF Ok, Answered
    <3>5. CASE Ok(g[i]) => g[i].reply[2] >= Len(s)
      BY <3>1, <3>2, <3>5, EntryType, <1>1 DEF OwnIn
    <3> QED
      BY <3>3, <3>4, <3>5
  <2>3. ASSUME k.op = "create", k.made = 0
        PROVE  /\ k.todo # <<>>
               /\ \E i \in OwnIn(g, c) : Makes(g[i].what, k.of) /\ \A j \in OwnIn(g, c) : i <= j
    <3>1. PICK i \in OwnIn(f, c) : Makes(f[i].what, k.of) /\ \A j \in OwnIn(f, c) : i <= j
      BY <2>1, <2>3
    <3>2. i - z \in OwnIn(g, c) /\ i \in Nat
      BY DEF OwnIn
    <3>3. (i - z) + z = i
      BY <3>2
    <3>4. Makes(g[i - z].what, k.of)
      BY <3>1, <3>2, <3>3
    <3>5. \A j \in OwnIn(g, c) : i <= j + z /\ j \in Nat
      BY <3>1 DEF OwnIn
    <3>6. \A j \in OwnIn(g, c) : i - z <= j
      BY <3>2, <3>5
    <3> QED
      BY <3>2, <3>4, <3>6, <2>1, <2>3
  <2> QED
    BY <2>1, <2>2, <2>3
<1>4. Knows(s2, ca2, c, k, g)
  <2>1. ASSUME k.made > 0, k.todo = <<>>, k.outcome # "failed", OwnIn(g, c) = {}
        PROVE  ca2[ListOf(k.of)] >= k.made
    <3>1. OwnIn(f, c) = {}
      BY <2>1
    <3>2. ca[ListOf(k.of)] >= k.made
      BY <2>1, <3>1 DEF Awaits, Knows
    <3>3. k.op \in Changes
      BY <2>1 DEF Awaits, Made
    <3>4. ListOf(k.of) \in Kinds
      BY <3>3, ListOfType
    <3>5. ca[ListOf(k.of)] \in Int /\ ca2[ListOf(k.of)] \in Int /\ ca[ListOf(k.of)] <= ca2[ListOf(k.of)]
      BY <3>4 DEF Caches, Never
    <3> QED
      BY <3>2, <3>5, <1>1
  <2>2. ASSUME k.op = "create", k.outcome \in {"missing", "gone"}
        PROVE  \E v \in (k.made + 1)..Len(s2) : k.of \in s2[v].removed
    <3>1. PICK v \in (k.made + 1)..Len(s) : k.of \in s[v].removed
      BY <2>2 DEF Awaits, Knows
    <3>2. v \in (k.made + 1)..Len(s2) /\ v \in 1..Len(s)
      BY <1>1
    <3>3. s2[v] = s[v]
      BY <3>2 DEF Grew
    <3> QED
      BY <3>1, <3>2, <3>3
  <2> QED
    BY <2>1, <2>2 DEF Knows
<1> QED
  BY <1>2, <1>3, <1>4 DEF Awaits

\* A call that is over.
LEMMA AwaitsEnd ==
    ASSUME NEW s, NEW ca, NEW c, NEW k, NEW x, NEW f, Made(s, k),
           x.op = k.op, x.of = k.of, x.made = k.made, x.outcome # "pending",
           x.outcome # "failed" /\ k.made > 0 => ca[ListOf(k.of)] >= k.made,
           k.op = "create" /\ x.outcome \in {"missing", "gone"} =>
              \E v \in (k.made + 1)..Len(s) : k.of \in s[v].removed
    PROVE  Awaits(s, ca, c, x, f)
BY DEF Awaits, Made, Waits, Knows

\* An answer to it.
LEMMA AwaitsHeard ==
    ASSUME NEW s \in Seq(Change), NEW ca \in Caches, NEW f \in Seq(Entry), Line(s, ca, f),
           NEW c, NEW k \in CallRecord, k.sent > 0, k.outcome = "pending",
           1 \in 1..Len(f), f[1].who = c, Answered(f[1]), f[1].what \in AskedBy(k.op),
           Awaits(s, ca, c, k, f)
    PROVE  Awaits(s, Cached(ca, f[1]), c, Heard(k, f[1]), RemoveAt(f, 1))
<1> DEFINE e == f[1]
           x == Heard(k, e)
           g == RemoveAt(f, 1)
           ca2 == Cached(ca, e)
<1>0. e \in Entry /\ 1 \in OwnIn(f, c) /\ e.reply # <<>> /\ e.reply # Refused
  BY DEF OwnIn, Answered
<1>1. /\ x \in CallRecord /\ x.op = k.op /\ x.of = k.of /\ x.todo = k.todo
      /\ x.made = IF e.what.op \in Changing /\ k.made = 0 THEN e.reply[2] ELSE k.made
      /\ x.outcome \in {"pending", "done"}
  <2> HIDE DEF x
  <2>1. /\ x \in CallRecord /\ x.op = k.op /\ x.of = k.of /\ x.todo = k.todo
        /\ x.made = IF e.what.op \in Changing /\ k.made = 0 THEN e.reply[2] ELSE k.made
        /\ x.outcome = IF e.what \in SchemaRequests THEN k.outcome ELSE "done"
    BY <1>0, HeardType DEF x
  <2> QED
    BY <2>1
<1>2. /\ Len(g) = Len(f) - 1
      /\ \A j \in 1..Len(g) : g[j].what = f[j + 1].what /\ g[j].reply = f[j + 1].reply
      /\ e.what.op = "list" => Ok(e) /\ ca2[e.what.of[1]] = e.reply[2]
  BY LineTaken DEF Answered
<1>3. \A j \in OwnIn(g, c) : j + 1 \in OwnIn(f, c)
  <2>1. \A j \in 1..(Len(f) - 1) : g[j] = f[j + 1]
    BY Removal
  <2>2. Len(f) \in Nat
    OBVIOUS
  <2> HIDE DEF g
  <2> QED
    BY <2>1, <2>2, <1>2 DEF OwnIn
<1>4. /\ Ok(e) => e.reply[2] <= Len(s) /\ (e.what.op \in Changing => e.reply[2] > 0) /\ e.reply[2] \in Nat
      /\ Ok(e) => \A t \in Named : Makes(e.what, t) => Shows(s, t, e.reply[2])
  BY <1>0, EntryType DEF Line, Dated
<1>5. e.what.op \in Changing => e.what \in SchemaRequests /\ Ok(e) /\ k.op \in Changes
  <2>1. e.what.op \in Changing => e.what \in SchemaRequests
    BY <1>0, EntryType, StatementType DEF Changing, SchemaOps
  <2>2. e.what.op \in Changing /\ k.op \notin Changes => k.op = "statement"
    BY DEF AskedBy
  <2>3. k.op = "statement" => e.what.op \notin SchemaOps
    BY AskedType, StatementType
  <2>4. Changing \subseteq SchemaOps
    BY DEF Changing, SchemaOps
  <2> QED
    BY <2>1, <2>2, <2>3, <2>4, <1>0 DEF Ok, Answered
<1>6. \A t : Makes(e.what, t) => e.what.op \in Changing
  BY DEF Makes, Changing
<1>7. \A t : List(ListOf(t)).op = "list" /\ List(ListOf(t)).of[1] = ListOf(t) /\ "list" \notin Changing
  BY ThingType DEF List, Request, Changing
<1>8. k.op = "create" /\ k.made = 0 => Makes(e.what, k.of)
  <2> SUFFICES ASSUME k.op = "create", k.made = 0 PROVE Makes(e.what, k.of)
    OBVIOUS
  <2>1. k.op \in Changes
    BY DEF Changes
  <2>2. PICK i \in OwnIn(f, c) : Makes(f[i].what, k.of) /\ \A j \in OwnIn(f, c) : i <= j
    BY <2>1 DEF Awaits, Waits
  <2>3. i <= 1 /\ i \in 1..Len(f)
    BY <2>2, <1>0 DEF OwnIn
  <2>4. i = 1
    BY <2>3
  <2> QED
    BY <2>2, <2>4
<1>9. k.made \in Nat /\ Made(s, k) /\ Waits(c, k, f) /\ Knows(s, ca, c, k, f)
  BY CallType DEF Awaits
<1>10. k.op = "create" => k.op \in Changes /\ k.of \in Named
  BY ListOfType DEF Changes
<1> HIDE DEF x, g, ca2, e
<1>11. Made(s, x)
  <2>1. CASE x.made = k.made
    BY <2>1, <1>1, <1>9 DEF Made
  <2>2. CASE x.made # k.made
    <3>1. e.what.op \in Changing /\ k.made = 0 /\ x.made = e.reply[2]
      BY <2>2, <1>1
    <3>2. Ok(e) /\ k.op \in Changes
      BY <3>1, <1>5
    <3>3. k.op = "create" => Shows(s, k.of, x.made)
      BY <3>1, <3>2, <1>4, <1>8, <1>10
    <3> QED
      BY <3>1, <3>2, <3>3, <1>1, <1>4 DEF Made
  <2> QED
    BY <2>1, <2>2
<1>12. k.op \in Changes /\ k.todo = <<>> =>
          /\ e.what = List(ListOf(k.of)) /\ e.what.op = "list" /\ e.what.of[1] = ListOf(k.of)
          /\ x.made = k.made /\ Ok(e) /\ e.reply[2] >= k.made
  <2> SUFFICES ASSUME k.op \in Changes, k.todo = <<>>
               PROVE  /\ e.what = List(ListOf(k.of)) /\ e.what.op = "list" /\ e.what.of[1] = ListOf(k.of)
                      /\ x.made = k.made /\ Ok(e) /\ e.reply[2] >= k.made
    OBVIOUS
  <2>1. e.what = List(ListOf(k.of)) /\ (Ok(e) => e.reply[2] >= k.made)
    BY <1>0, <1>9 DEF Waits, e
  <2>2. e.what.op = "list" /\ e.what.of[1] = ListOf(k.of)
    BY <2>1, <1>7
  <2> QED
    BY <2>1, <2>2, <1>1, <1>2, <1>7
<1>13. Waits(c, x, g)
  <2> SUFFICES ASSUME k.op \in Changes, x.outcome = "pending"
               PROVE  /\ k.todo # <<>> => k.todo[Len(k.todo)] = Listing(k.of)
                      /\ k.todo = <<>> => \A i \in OwnIn(g, c) :
                            g[i].what = List(ListOf(k.of)) /\ (Ok(g[i]) => g[i].reply[2] >= x.made)
                      /\ ~(k.op = "create" /\ x.made = 0)
    BY <1>1 DEF Waits
  <2>1. k.todo # <<>> => k.todo[Len(k.todo)] = Listing(k.of)
    BY <1>9 DEF Waits
  <2>2. ASSUME k.todo = <<>>, NEW i \in OwnIn(g, c)
        PROVE  g[i].what = List(ListOf(k.of)) /\ (Ok(g[i]) => g[i].reply[2] >= x.made)
    <3>1. i + 1 \in OwnIn(f, c) /\ i \in 1..Len(g)
      BY <1>3 DEF OwnIn
    <3>2. f[i + 1].what = List(ListOf(k.of)) /\ (Ok(f[i + 1]) => f[i + 1].reply[2] >= k.made)
      BY <3>1, <2>2, <1>9 DEF Waits
    <3>3. g[i].what = f[i + 1].what /\ g[i].reply = f[i + 1].reply
      BY <3>1, <1>2
    <3> QED
      BY <3>2, <3>3, <2>2, <1>12 DEF Ok, Answered
  <2>3. ~(k.op = "create" /\ x.made = 0)
    <3> SUFFICES ASSUME k.op = "create", x.made = 0 PROVE FALSE
      OBVIOUS
    <3>1. k.made = 0 => e.what.op \in Changing
      BY <1>6, <1>8
    <3>2. e.what.op \in Changing => e.reply[2] > 0
      BY <1>4, <1>5
    <3> QED
      BY <3>1, <3>2, <1>1
  <2> QED
    BY <2>1, <2>2, <2>3
<1>14. Knows(s, ca2, c, x, g)
  <2>1. ASSUME x.made > 0, x.todo = <<>>
        PROVE  ca2[ListOf(x.of)] >= x.made
    <3>1. k.op \in Changes
      BY <2>1, <1>1, <1>5, <1>9 DEF Made
    <3> QED
      BY <2>1, <3>1, <1>1, <1>2, <1>12
  <2>2. x.outcome \notin {"missing", "gone"}
    BY <1>1
  <2> QED
    BY <2>1, <2>2 DEF Knows
<1> QED
  BY <1>11, <1>13, <1>14 DEF Awaits, x, g, ca2, e

\* A call that is about to send.
Ready(s, k) ==
    /\ k.outcome = "pending" /\ Made(s, k)
    /\ k.op \in Changes => k.todo # <<>> /\ k.todo[Len(k.todo)] = Listing(k.of)
    /\ k.op = "create" /\ k.made = 0 =>
          Len(k.todo) > 1 /\ k.todo[1] # <<>> /\ Makes(k.todo[1][1], k.of)

Sending(k) == [k EXCEPT !.todo = Tail(k.todo), !.sent = Len(Head(k.todo))]

LEMMA SendingType ==
    ASSUME NEW k \in CallRecord, k.todo # <<>>
    PROVE  /\ Sending(k).op = k.op /\ Sending(k).of = k.of /\ Sending(k).made = k.made
           /\ Sending(k).outcome = k.outcome /\ Sending(k).todo = Tail(k.todo)
           /\ Sending(k).sent = Len(Head(k.todo))
           /\ Head(k.todo) = k.todo[1] /\ Head(k.todo) \in Seq(Requests)
           /\ Len(Tail(k.todo)) = Len(k.todo) - 1 /\ Len(k.todo) \in Nat \ {0}
           /\ \A i \in 1..(Len(k.todo) - 1) : Tail(k.todo)[i] = k.todo[i + 1]
<1>1. k \in [op : CallOps, of : Named \cup {<<>>}, todo : Seq(Seq(Requests)), sent : Nat,
              made : Nat, got : Answers, outcome : Outcomes]
  BY DEF CallRecord
<1>2. /\ Sending(k).op = k.op /\ Sending(k).of = k.of /\ Sending(k).made = k.made
      /\ Sending(k).outcome = k.outcome /\ Sending(k).todo = Tail(k.todo)
      /\ Sending(k).sent = Len(Head(k.todo))
  BY <1>1 DEF Sending
<1> DEFINE s == k.todo
           Q == Seq(Requests)
<1>3. s \in Seq(Q) /\ s # <<>>
  BY <1>1
<1> HIDE DEF s, Q
<1>4. Head(s) = s[1] /\ Head(s) \in Q /\ Len(Tail(s)) = Len(s) - 1 /\ Len(s) \in Nat \ {0}
      /\ \A i \in 1..(Len(s) - 1) : Tail(s)[i] = s[i + 1]
  BY <1>3, EmptySeq, HeadTailProperties
<1> QED
  BY <1>2, <1>4 DEF s, Q

\* The first stage of it is sent.
LEMMA AwaitsSent ==
    ASSUME NEW s, NEW ca, NEW c \in Callers, NEW k \in CallRecord, Ready(s, k), k.todo # <<>>,
           NEW f \in Seq(Entry), OwnIn(f, c) = {},
           NEW a \in Seq(Entry), \A i \in 1..Len(a) : a[i].who = Nobody
    PROVE  Awaits(s, ca, c, Sending(k), f \o a \o Tagged(c, Head(k.todo)))
<1> DEFINE x == Sending(k)
           rs == Head(k.todo)
           b == Tagged(c, rs)
           g == f \o a \o b
           n == Len(f) + Len(a)
<1>1. /\ x.op = k.op /\ x.of = k.of /\ x.made = k.made /\ x.outcome = "pending" /\ x.todo = Tail(k.todo)
      /\ rs = k.todo[1] /\ rs \in Seq(Requests)
      /\ Len(x.todo) = Len(k.todo) - 1 /\ Len(k.todo) \in Nat \ {0}
      /\ \A i \in 1..(Len(k.todo) - 1) : x.todo[i] = k.todo[i + 1]
  BY SendingType DEF Ready
<1> HIDE DEF x, rs
<1>a. Len(x.todo) \in Nat /\ Len(x.todo) = Len(k.todo) - 1 /\ Len(k.todo) \in Nat
  BY <1>1
<1>b. x.todo = <<>> => Len(x.todo) = 0
  OBVIOUS
<1>2. /\ b \in Seq(Entry) /\ Len(b) = Len(rs) /\ Len(rs) \in Nat
      /\ \A i \in 1..Len(rs) : b[i].who = c /\ b[i].what = rs[i] /\ b[i].reply = <<>>
  BY <1>1, TaggedType
<1> HIDE DEF b
<1>3. /\ Len(g) = n + Len(b) /\ n \in Nat
      /\ \A i \in 1..Len(b) : g[n + i] = b[i]
      /\ \A i \in 1..n : g[i].who # c
  <2> DEFINE h == f \o a
  <2>1. /\ h \in Seq(Entry) /\ Len(h) = n /\ Len(f) \in Nat /\ Len(a) \in Nat
        /\ \A i \in 1..Len(f) : h[i] = f[i]
        /\ \A i \in 1..Len(a) : h[Len(f) + i] = a[i]
    BY ConcatProperties
  <2>2. ASSUME NEW i \in 1..Len(h) PROVE h[i].who # c
    <3>1. (i \in 1..Len(f) /\ h[i] = f[i]) \/ (\E j \in 1..Len(a) : h[i] = a[j])
      BY Joined2
    <3> HIDE DEF h
    <3>2. c # Nobody
      BY SchemaAssumption
    <3> QED
      BY <3>1, <3>2 DEF OwnIn
  <2> HIDE DEF h
  <2>3. /\ Len(h \o b) = Len(h) + Len(b)
        /\ \A i \in 1..Len(h) : (h \o b)[i] = h[i]
        /\ \A i \in 1..Len(b) : (h \o b)[Len(h) + i] = b[i]
    <3>1. h \in Seq(Entry) /\ b \in Seq(Entry)
      BY <2>1, <1>2
    <3> QED
      BY <3>1, ConcatProperties
  <2>4. \A i \in 1..Len(h) : (h \o b)[i].who # c
    BY <2>2, <2>3
  <2> QED
    BY <2>1, <2>3, <2>4 DEF h
<1> HIDE DEF g
<1>4. \A i \in OwnIn(g, c) : i > n /\ i \in Nat /\ \E j \in 1..Len(rs) : i = n + j /\ g[i].what = rs[j] /\ g[i].reply = <<>>
  <2> SUFFICES ASSUME NEW i \in OwnIn(g, c)
               PROVE  i > n /\ i \in Nat /\ \E j \in 1..Len(rs) : i = n + j /\ g[i].what = rs[j] /\ g[i].reply = <<>>
    OBVIOUS
  <2>1. i \in 1..Len(g) /\ g[i].who = c
    BY DEF OwnIn
  <2>2. i > n
    BY <2>1, <1>3
  <2> DEFINE j == i - n
  <2>3. j \in 1..Len(rs) /\ n + j = i
    BY <2>1, <2>2, <1>2, <1>3
  <2> HIDE DEF j
  <2> QED
    BY <2>1, <2>2, <2>3, <1>2, <1>3
<1>5. \A j \in 1..Len(rs) : n + j \in OwnIn(g, c)
  BY <1>2, <1>3 DEF OwnIn
<1>6. Made(s, x)
  BY <1>1 DEF Ready, Made
<1>7. ASSUME k.op \in Changes, x.todo = <<>>
      PROVE  rs = Listing(k.of) /\ Len(rs) = 1 /\ rs[1] = List(ListOf(k.of))
  <2>1. Len(k.todo) = 1
    BY <1>a, <1>b, <1>7
  <2>2. k.todo[Len(k.todo)] = Listing(k.of)
    BY <1>7 DEF Ready
  <2>3. rs = Listing(k.of)
    BY <2>1, <2>2, <1>1
  <2> QED
    BY <2>3 DEF Listing, One
<1> HIDE DEF n
<1>8. n \in Nat /\ Len(rs) \in Nat
  BY <1>2, <1>3
<1>9. Waits(c, x, g)
  <2> SUFFICES ASSUME k.op \in Changes
               PROVE  /\ x.todo # <<>> => x.todo[Len(x.todo)] = Listing(k.of)
                      /\ x.todo = <<>> => \A i \in OwnIn(g, c) :
                            g[i].what = List(ListOf(k.of)) /\ (Ok(g[i]) => g[i].reply[2] >= x.made)
                      /\ k.op = "create" /\ k.made = 0 =>
                            /\ x.todo # <<>>
                            /\ \E i \in OwnIn(g, c) : Makes(g[i].what, k.of) /\ \A j \in OwnIn(g, c) : i <= j
    BY <1>1 DEF Waits
  <2>1. ASSUME x.todo # <<>> PROVE x.todo[Len(x.todo)] = Listing(k.of)
    <3>0. x.todo \in Seq(Seq(Requests))
      BY CallType, <1>1, HeadTailProperties
    <3>1. Len(x.todo) # 0
      BY <3>0, <2>1, EmptySeq
    <3>2. Len(x.todo) \in 1..(Len(k.todo) - 1) /\ Len(x.todo) + 1 = Len(k.todo)
      <4> DEFINE m == Len(x.todo)
                 q == Len(k.todo)
      <4>1. m \in Nat /\ m # 0 /\ q \in Nat /\ m = q - 1
        BY <1>a, <3>1
      <4> HIDE DEF m, q
      <4>2. m \in 1..(q - 1) /\ m + 1 = q
        BY <4>1
      <4> QED
        BY <4>2 DEF m, q
    <3>3. x.todo[Len(x.todo)] = k.todo[Len(x.todo) + 1]
      BY <3>2, <1>1
    <3>4. k.todo[Len(k.todo)] = Listing(k.of)
      BY DEF Ready
    <3> QED
      BY <3>2, <3>3, <3>4
  <2>2. ASSUME x.todo = <<>>, NEW i \in OwnIn(g, c)
        PROVE  g[i].what = List(ListOf(k.of)) /\ ~Ok(g[i])
    <3>1. PICK j \in 1..Len(rs) : g[i].what = rs[j] /\ g[i].reply = <<>>
      BY <1>4
    <3>2. Len(rs) = 1 /\ rs[1] = List(ListOf(k.of))
      BY <2>2, <1>7
    <3>3. j = 1
      BY <3>2
    <3> QED
      BY <3>1, <3>2, <3>3 DEF Ok, Answered
  <2>3. ASSUME k.op = "create", k.made = 0
        PROVE  /\ x.todo # <<>>
               /\ \E i \in OwnIn(g, c) : Makes(g[i].what, k.of) /\ \A j \in OwnIn(g, c) : i <= j
    <3>1. Len(k.todo) > 1 /\ rs # <<>> /\ Makes(rs[1], k.of)
      BY <2>3, <1>1 DEF Ready
    <3>2. Len(rs) # 0
      BY <3>1, <1>1, EmptySeq
    <3>3. 1 \in 1..Len(rs) /\ n + 1 \in OwnIn(g, c) /\ n + 1 > n
      BY <3>2, <1>8, <1>5
    <3>4. g[n + 1].what = rs[1]
      <4>1. PICK j \in 1..Len(rs) : n + 1 = n + j /\ g[n + 1].what = rs[j]
        BY <3>3, <1>4
      <4>2. j = 1
        BY <4>1, <1>8
      <4> QED
        BY <4>1, <4>2
    <3>5. \A j \in OwnIn(g, c) : n + 1 <= j
      BY <1>4, <1>8
    <3>6. x.todo # <<>>
      <4> DEFINE m == Len(x.todo)
                 q == Len(k.todo)
      <4>0. m = q - 1 /\ q \in Nat /\ q > 1
        BY <1>a, <3>1
      <4> HIDE DEF m, q
      <4>1. m # 0
        BY <4>0
      <4> QED
        BY <4>1, <1>b DEF m
    <3> QED
      BY <3>1, <3>3, <3>4, <3>5, <3>6
  <2> QED
    BY <2>1, <2>2, <2>3
<1>10. Knows(s, ca, c, x, g)
  <2>1. ASSUME x.made > 0, x.todo = <<>> PROVE OwnIn(g, c) # {}
    BY <2>1, <1>1, <1>7, <1>5 DEF Ready, Made
  <2> QED
    BY <2>1, <1>1 DEF Knows
<1> QED
  BY <1>6, <1>9, <1>10 DEF Awaits, x, g, b, rs

--------------------------------------------------------------------------------
(* The legacy database.                                                         *)

LEMMA LegacyType ==
    ASSUME SchemaInv
    PROVE  /\ changes \in Seq(Change) /\ Len(changes) \in Nat
           /\ \A d \in Dbs : cached[d] \in Caches /\ flight[d] \in Seq(Entry) /\ Len(flight[d]) \in Nat
           /\ \A d \in Dbs : \A x \in Kinds : cached[d][x] \in Int /\ cached[d][x] <= cached[d][x]
           /\ \A c \in Callers : dbOf[c] \in Dbs /\ call[c] \in CallRecord /\ c # Nobody
           /\ call \in [Callers -> CallRecord] /\ flight \in [Dbs -> Seq(Entry)]
           /\ cached \in [Dbs -> [Kinds -> Nat \cup {Never}]]
           /\ Contents = History(changes) /\ Grew(changes, changes)
<1>1. /\ changes \in Seq(Change) /\ cached \in [Dbs -> Caches] /\ flight \in [Dbs -> Seq(Entry)]
      /\ cached \in [Dbs -> [Kinds -> Nat \cup {Never}]]
      /\ dbOf \in [Callers -> Dbs] /\ call \in [Callers -> CallRecord]
  BY DEF SchemaInv, SchemaType, Change, Caches
<1>2. Contents = History(changes)
  BY DEF Contents, History
<1>3. Grew(changes, changes)
  BY <1>1 DEF Grew
<1>4. \A d \in Dbs : \A x \in Kinds : cached[d][x] \in Int /\ cached[d][x] <= cached[d][x]
  BY <1>1 DEF Caches, Never
<1> QED
  BY <1>1, <1>2, <1>3, <1>4, SchemaAssumption

\* The others wait as before, when only what is at the end of a connection is new.
LEMMA OthersAwait ==
    ASSUME SchemaInv, SchemaInv', Legacy, UNCHANGED <<changes, cached, dbOf>>,
           NEW D \in Dbs, NEW h \in Seq(Entry), flight' = [flight EXCEPT ![D] = flight[D] \o h],
           NEW x \in Callers, call'[x] = call[x], \A i \in 1..Len(h) : h[i].who # x
    PROVE  Awaits(changes', cached'[dbOf'[x]], x, call'[x], flight'[dbOf'[x]])
<1> DEFINE d == dbOf[x]
           f == flight[d]
           g == flight'[d]
<1>1. /\ f \in Seq(Entry) /\ Len(f) \in Nat /\ d \in Dbs /\ call[x] \in CallRecord /\ cached[d] \in Caches
      /\ changes \in Seq(Change) /\ Grew(changes, changes) /\ 0 \in Nat
      /\ \A y \in Kinds : cached[d][y] <= cached[d][y]
      /\ Awaits(changes, cached[d], x, call[x], f)
  BY LegacyType DEF Legacy
<1>2. g \in Seq(Entry) /\ OwnIn(g, x) = OwnIn(f, x) /\ \A i \in OwnIn(f, x) : g[i] = f[i]
  <2>1. CASE d # D
    BY <2>1, <1>1, LegacyType
  <2>2. CASE d = D
    <3>1. g = f \o h
      BY <2>2, <1>1, LegacyType
    <3>2. /\ f \o h \in Seq(Entry) /\ Len(f \o h) = Len(f) + Len(h)
          /\ \A i \in 1..Len(f) : (f \o h)[i] = f[i]
      BY <1>1, ConcatProperties
    <3>3. \A i \in 1..Len(f \o h) : (i \in 1..Len(f) /\ (f \o h)[i] = f[i]) \/ (f \o h)[i].who # x
      BY <1>1, Joined2
    <3>4. Len(f) <= Len(f \o h)
      BY <1>1, <3>2
    <3> HIDE DEF f, g
    <3>5. OwnIn(f \o h, x) = OwnIn(f, x)
      BY <3>3, <3>2, <3>4, <1>1 DEF OwnIn
    <3>6. \A i \in OwnIn(f, x) : (f \o h)[i] = f[i]
      BY <3>2 DEF OwnIn
    <3> QED
      BY <3>1, <3>2, <3>5, <3>6
  <2> QED
    BY <2>1, <2>2
<1> HIDE DEF f, g
<1>3. \A j \in OwnIn(g, x) : j + 0 = j /\ j - 0 = j
  BY DEF OwnIn
<1>4. \A j \in OwnIn(g, x) : j + 0 \in OwnIn(f, x) /\ g[j].what = f[j + 0].what
                             /\ (g[j].reply = f[j + 0].reply \/ (Ok(g[j]) => g[j].reply[2] >= Len(changes)))
  BY <1>2, <1>3
<1>5. \A i \in OwnIn(f, x) : i - 0 \in OwnIn(g, x)
  BY <1>2, <1>3
<1>6. Awaits(changes, cached[d], x, call[x], g)
  BY <1>1, <1>2, <1>4, <1>5, AwaitsStill
<1> QED
  BY <1>6 DEF f, g

\* A call of c is over, and nothing else has happened.
LEMMA LegacySettled ==
    ASSUME SchemaInv, Legacy, UNCHANGED <<changes, cached, dbOf, flight, role>>,
           NEW c \in Callers, NEW k \in CallRecord, Made(changes, k),
           NEW outcome \in Outcomes \ {"pending"}, Settled(c, k, outcome),
           outcome # "failed" /\ k.made > 0 => cached[dbOf[c]][ListOf(k.of)] >= k.made,
           k.op = "create" /\ outcome \in {"missing", "gone"} =>
              \E v \in (k.made + 1)..Len(changes) : k.of \in changes[v].removed
    PROVE  Legacy'
<1> DEFINE x == [k EXCEPT !.outcome = outcome, !.todo = <<>>]
<1>1. x.op = k.op /\ x.of = k.of /\ x.made = k.made /\ x.outcome = outcome
  BY CallEnds
<1>2. call' = [call EXCEPT ![c] = x] /\ call \in [Callers -> CallRecord]
  BY LegacyType DEF Settled
<1> HIDE DEF x
<1>3. call'[c] = x /\ \A y \in Callers : y # c => call'[y] = call[y]
  BY <1>2
<1>4. Awaits(changes, cached[dbOf[c]], c, x, flight[dbOf[c]])
  BY <1>1, AwaitsEnd
<1>5. \A y \in Callers : Awaits(changes, cached[dbOf[y]], y, call'[y], flight[dbOf[y]])
  BY <1>3, <1>4 DEF Legacy
<1> QED
  BY <1>5 DEF Legacy

\* c sends the next requests of its call.
LEMMA LegacySends ==
    ASSUME SchemaInv, SchemaInv', Legacy, UNCHANGED <<changes, cached, dbOf, role>>,
           NEW c \in Callers, NEW k \in CallRecord, call[c].sent = 0, Sends(c, k),
           k.outcome = "pending", Made(changes, k),
           k.todo # <<>> => Ready(changes, k), k.todo = <<>> => k.op \notin Changes
    PROVE  Legacy'
<1> DEFINE D == dbOf[c]
<1>0. /\ call \in [Callers -> CallRecord] /\ flight \in [Dbs -> Seq(Entry)] /\ D \in Dbs /\ flight[D] \in Seq(Entry)
      /\ changes \in Seq(Change) /\ cached[D] \in Caches
  BY LegacyType
<1>1. CASE k.todo = <<>>
  <2>1. call' = [call EXCEPT ![c] = k] /\ UNCHANGED flight
    BY <1>1 DEF Sends
  <2>2. call'[c] = k /\ \A y \in Callers : y # c => call'[y] = call[y]
    BY <2>1, <1>0
  <2>3. k.op # "create" /\ k.made = 0 /\ k.op \notin Changes
    BY <1>1 DEF Changes, Made
  <2>4. Awaits(changes, cached[D], c, k, flight[D])
    BY <2>3 DEF Awaits, Waits, Knows
  <2>5. \A y \in Callers : Awaits(changes, cached[dbOf[y]], y, call'[y], flight[dbOf[y]])
    BY <2>2, <2>4 DEF Legacy
  <2> QED
    BY <2>1, <2>5 DEF Legacy
<1>2. CASE k.todo # <<>>
  <2> DEFINE a == Reopening(c)
             b == Tagged(c, Head(k.todo))
             h == a \o b
  <2>1. call' = [call EXCEPT ![c] = Sending(k)] /\ flight' = [flight EXCEPT ![D] = flight[D] \o a \o b]
    BY <1>2 DEF Sends, Sending
  <2>2. call'[c] = Sending(k) /\ \A y \in Callers : y # c => call'[y] = call[y]
    BY <2>1, <1>0
  <2>3. a \in Seq(Entry) /\ \A i \in 1..Len(a) : a[i].who = Nobody /\ a[i].reply = <<>>
    BY ReopeningType
  <2>4. b \in Seq(Entry) /\ \A i \in 1..Len(b) : b[i].who = c /\ b[i].reply = <<>>
    BY <1>2, SendingType, TaggedType
  <2>5. OwnIn(flight[D], c) = {}
    BY Unsent DEF Own
  <2>6. Awaits(changes, cached[D], c, Sending(k), flight[D] \o a \o b)
    <3>1. \A i \in 1..Len(a) : a[i].who = Nobody
      BY <2>3
    <3>2. a \in Seq(Entry)
      BY <2>3
    <3> HIDE DEF a
    <3> QED
      BY <3>1, <3>2, <2>5, <1>0, <1>2, AwaitsSent
  <2> HIDE DEF a, b
  <2>7. /\ h \in Seq(Entry) /\ flight[D] \o a \o b = flight[D] \o h
        /\ \A i \in 1..Len(h) : h[i].reply = <<>> /\ h[i].who \in {c, Nobody}
    <3>1. h \in Seq(Entry)
      BY <2>3, <2>4, ConcatProperties
    <3>2. flight[D] \o a \o b = flight[D] \o h
      <4> DEFINE f == flight[D]
      <4>1. f \in Seq(Entry) /\ a \in Seq(Entry) /\ b \in Seq(Entry)
        BY <2>3, <2>4, <1>0
      <4> HIDE DEF f
      <4>2. (f \o a) \o b = f \o (a \o b)
        BY <4>1, ConcatAssociative
      <4> QED
        BY <4>2 DEF f
    <3>3. \A i \in 1..Len(a \o b) : (i \in 1..Len(a) /\ (a \o b)[i] = a[i]) \/ \E j \in 1..Len(b) : (a \o b)[i] = b[j]
      BY <2>3, <2>4, Joined2
    <3> QED
      BY <3>1, <3>2, <3>3, <2>3, <2>4
  <2> HIDE DEF h
  <2>8. flight' = [flight EXCEPT ![D] = flight[D] \o h]
    BY <2>1, <2>7
  <2>9. flight'[D] = flight[D] \o h /\ \A d \in Dbs : d # D => flight'[d] = flight[d]
    BY <2>8, <1>0
  <2>10. ASSUME NEW d \in Dbs PROVE Line(changes, cached[d], flight'[d])
    <3>1. CASE d = D
      BY <1>0, <2>7, LineLonger, <3>1, <2>9 DEF Legacy
    <3>2. CASE d # D
      BY <3>2, <2>9 DEF Legacy
    <3> QED
      BY <3>1, <3>2
  <2>11. ASSUME NEW y \in Callers PROVE Awaits(changes, cached[dbOf[y]], y, call'[y], flight'[dbOf[y]])
    <3>1. CASE y = c
      BY <3>1, <2>2, <2>6, <2>7, <2>9
    <3>2. CASE y # c
      <4>1. call'[y] = call[y] /\ \A i \in 1..Len(h) : h[i].who # y
        BY <3>2, <2>2, <2>7, SchemaAssumption
      <4>2. Awaits(changes', cached'[dbOf'[y]], y, call'[y], flight'[dbOf'[y]])
        BY <4>1, <1>0, <2>7, <2>8, OthersAwait
      <4> QED
        BY <4>2
    <3> QED
      BY <3>1, <3>2
  <2> QED
    BY <2>10, <2>11 DEF Legacy
<1> QED
  BY <1>1, <1>2

\* What a call has created it finds, or it is gone again.
LEMMA LegacyLooks ==
    ASSUME SchemaInv, Legacy, NEW c \in Callers, NEW k \in CallRecord, Made(changes, k),
           k.op = "create" => k.made > 0 /\ cached[dbOf[c]][ListOf(k.of)] >= k.made
    PROVE  k.op = "create" =>
              /\ cached[dbOf[c]][ListOf(k.of)] # Never /\ HasCached(c, ListOf(k.of))
              /\ (\/ k.of \notin Contents[cached[dbOf[c]][ListOf(k.of)]]
                  \/ (k.of \in Parts /\ ClassOf(k.of) \notin Contents[cached[dbOf[c]][ListOf(k.of)]]))
                 => \E v \in (k.made + 1)..Len(changes) : k.of \in changes[v].removed
<1> SUFFICES ASSUME k.op = "create"
             PROVE  /\ cached[dbOf[c]][ListOf(k.of)] # Never /\ HasCached(c, ListOf(k.of))
                    /\ (\/ k.of \notin Contents[cached[dbOf[c]][ListOf(k.of)]]
                        \/ (k.of \in Parts /\ ClassOf(k.of) \notin Contents[cached[dbOf[c]][ListOf(k.of)]]))
                       => \E v \in (k.made + 1)..Len(changes) : k.of \in changes[v].removed
  OBVIOUS
<1> DEFINE v == cached[dbOf[c]][ListOf(k.of)]
           m == k.made
<1>1. /\ changes \in Seq(Change) /\ Len(changes) \in Nat /\ Contents = History(changes)
      /\ dbOf[c] \in Dbs
  BY LegacyType
<1>2. k.of \in Named /\ ListOf(k.of) \in Kinds
  BY ListOfType DEF Changes
<1>3. v \in Int /\ v <= Len(changes)
  BY <1>1, <1>2, LegacyType DEF Legacy, Line
<1>4. m > 0 /\ v >= m /\ m \in Nat /\ m <= Len(changes) /\ Shows(changes, k.of, m)
  BY CallType DEF Made
<1>5. ListOf(k.of) = ListOf(k.of) /\ v # Never /\ v \in m..Len(changes)
  BY <1>1, <1>3, <1>4 DEF Never
<1>6. HasCached(c, ListOf(k.of))
  BY <1>5 DEF HasCached
<1>7. Thorough(changes)
  BY DEF Legacy
<1> HIDE DEF v, m
<1>8. k.of \notin History(changes)[v] \/ (k.of \in Parts /\ ClassOf(k.of) \notin History(changes)[v])
        => \E w \in (m + 1)..Len(changes) : k.of \in changes[w].removed
  BY <1>1, <1>2, <1>4, <1>5, <1>7, Vanished
<1> QED
  BY <1>1, <1>5, <1>6, <1>8 DEF v, m

LEMMA LegacyFinishes ==
    ASSUME SchemaInv, Legacy, UNCHANGED <<changes, cached, dbOf, flight, role>>,
           NEW c \in Callers, NEW k \in CallRecord, Made(changes, k),
           k.op = "create" => k.made > 0,
           k.made > 0 => cached[dbOf[c]][ListOf(k.of)] >= k.made,
           (k.of \in Whole /\ FinishThing(c, k)) \/ (k.of \in Parts /\ FinishProperty(c, k))
    PROVE  Legacy'
<1>1. k.op = "create" => k.made > 0 /\ cached[dbOf[c]][ListOf(k.of)] >= k.made
  OBVIOUS
<1>2. k.op = "create" =>
              /\ cached[dbOf[c]][ListOf(k.of)] # Never /\ HasCached(c, ListOf(k.of))
              /\ (\/ k.of \notin Contents[cached[dbOf[c]][ListOf(k.of)]]
                  \/ (k.of \in Parts /\ ClassOf(k.of) \notin Contents[cached[dbOf[c]][ListOf(k.of)]]))
                 => \E v \in (k.made + 1)..Len(changes) : k.of \in changes[v].removed
  BY <1>1, LegacyLooks
<1>3. {"failed", "done", "found", "missing", "gone"} \subseteq Outcomes \ {"pending"}
  BY DEF Outcomes
<1> DEFINE Vanishes == \E v \in (k.made + 1)..Len(changes) : k.of \in changes[v].removed
<1>4. ASSUME NEW o \in {"failed", "done", "found", "missing", "gone"}, Settled(c, k, o),
             k.op = "create" /\ o \in {"missing", "gone"} => Vanishes
      PROVE  Legacy'
  BY <1>3, <1>4, LegacySettled
<1> HIDE DEF Vanishes
<1>5. ASSUME k.of \in Whole, FinishThing(c, k) PROVE Legacy'
  <2> DEFINE v == cached[dbOf[c]][k.of[1]]
  <2>1. ListOf(k.of) = k.of[1]
    BY <1>5, KindOf
  <2>2. CASE k.of[1] = "cluster" /\ v = Never
    BY <2>2, <1>5, <1>4 DEF FinishThing
  <2>3. CASE ~(k.of[1] = "cluster" /\ v = Never) /\ k.op \notin {"create", "update", "get"}
    BY <2>3, <1>5, <1>4 DEF FinishThing
  <2>4. CASE ~(k.of[1] = "cluster" /\ v = Never) /\ k.op \in {"create", "update", "get"}
    <3>1. Settled(c, k, IF Finds(c, k.of) THEN "found" ELSE "missing")
      BY <2>4, <1>5 DEF FinishThing
    <3>2. CASE Finds(c, k.of)
      BY <3>1, <3>2, <1>4
    <3>3. CASE ~Finds(c, k.of)
      BY <3>1, <3>3, <1>2, <1>4 DEF Finds, Vanishes
    <3> QED
      BY <3>2, <3>3
  <2> QED
    BY <2>2, <2>3, <2>4
<1>6. ASSUME k.of \in Parts, FinishProperty(c, k) PROVE Legacy'
  <2> DEFINE v == cached[dbOf[c]]["class"]
  <2>1. ListOf(k.of) = "class" /\ ListOf(ClassOf(k.of)) = "class"
    BY <1>6, KindOf, ClassOfType DEF ListOf
  <2>2. CASE ~Finds(c, ClassOf(k.of))
    <3>1. Settled(c, k, "gone")
      BY <2>2, <1>6 DEF FinishProperty
    <3>2. k.op = "create" => Vanishes
      BY <2>1, <2>2, <1>2, <1>6 DEF Finds, Vanishes
    <3> QED
      BY <3>1, <3>2, <1>4
  <2>3. CASE Finds(c, ClassOf(k.of))
    <3>1. Settled(c, k, IF k.op \in {"drop", "alter"} THEN "done"
                        ELSE IF k.of \in Contents[v] THEN "found"
                        ELSE IF k.op = "reload" THEN "failed" ELSE "missing")
      BY <2>3, <1>6 DEF FinishProperty
    <3>2. k.op = "create" /\ k.of \notin Contents[v] => Vanishes
      BY <2>1, <1>2 DEF Vanishes
    <3>3. CASE k.op \in {"drop", "alter"}
      BY <3>1, <3>3, <1>4
    <3>4. CASE k.op \notin {"drop", "alter"} /\ k.of \in Contents[v]
      BY <3>1, <3>4, <1>4
    <3>5. CASE k.op \notin {"drop", "alter"} /\ k.of \notin Contents[v]
      BY <3>1, <3>5, <3>2, <1>4
    <3> QED
      BY <3>3, <3>4, <3>5
  <2> QED
    BY <2>2, <2>3
<1> QED
  BY <1>5, <1>6

LEMMA LegacyContinue ==
    ASSUME SchemaInv, SchemaInv', Legacy, role' = role, NEW c \in Callers, Continue(c)
    PROVE  Legacy'
<1> DEFINE k == call[c]
<1>1. k \in CallRecord /\ k.outcome = "pending" /\ k.sent = 0 /\ UNCHANGED <<api, dbOf, changes, cached>>
  BY LegacyType DEF Continue
<1>2. /\ OwnIn(flight[dbOf[c]], c) = {}
      /\ Made(changes, k) /\ Waits(c, k, flight[dbOf[c]]) /\ Knows(changes, cached[dbOf[c]], c, k, flight[dbOf[c]])
  BY <1>1, Unsent DEF Own, Legacy, Awaits
<1>3. k.op # "none" /\ k.op # "statement" /\ k.of \in Named
  BY <1>1, CallType DEF SchemaInv, Counted
<1>4. k.op = "create" => k.made > 0 /\ k.op \in Changes
  <2>1. "create" \in Changes
    BY DEF Changes
  <2>2. k.op = "create" => k.made # 0
    BY <2>1, <1>1, <1>2 DEF Waits
  <2>3. k.made \in Nat
    BY <1>1, CallType
  <2> QED
    BY <2>1, <2>2, <2>3
<1>5. CASE Unknown(c)
  BY <1>1, <1>2, <1>5, LegacySettled DEF Continue, Outcomes
<1>6. CASE ~Unknown(c) /\ k.todo # <<>>
  <2>1. Sends(c, k)
    BY <1>6 DEF Continue
  <2>2. Ready(changes, k)
    BY <1>1, <1>2, <1>4, <1>6 DEF Ready, Waits
  <2> HIDE DEF k
  <2>3. call[c].sent = 0
    BY <1>1 DEF k
  <2> QED
    BY <1>1, <1>2, <1>6, <2>1, <2>2, <2>3, LegacySends
<1>7. CASE ~Unknown(c) /\ k.todo = <<>>
  <2>1. /\ UNCHANGED flight
        /\ IF k.of[1] = "property" THEN FinishProperty(c, k) ELSE FinishThing(c, k)
    BY <1>7 DEF Continue
  <2> HIDE DEF k
  <2>2. (k.of \in Whole /\ FinishThing(c, k)) \/ (k.of \in Parts /\ FinishProperty(c, k))
    <3>1. CASE k.of \in Whole
      BY <3>1, KindOf, <2>1
    <3>2. CASE k.of \in Parts
      BY <3>2, KindOf, <2>1
    <3> QED
      BY <3>1, <3>2, <1>3 DEF Named
  <2>3. k.made > 0 => cached[dbOf[c]][ListOf(k.of)] >= k.made
    BY <1>1, <1>2, <1>7 DEF Knows
  <2> QED
    BY <1>1, <1>2, <1>4, <2>1, <2>2, <2>3, LegacyFinishes
<1> QED
  BY <1>5, <1>6, <1>7

LEMMA LegacyStart ==
    ASSUME SchemaInv, SchemaInv', Legacy, role' = role, NEW c \in Callers, NEW op, NEW t, NEW stages,
           Plan(op, t, stages), Start(c, op, t, stages)
    PROVE  Legacy'
<1> DEFINE k == Fresh(op, t, stages)
<1>0. Begins(op, t, stages)
  BY DEF Begins
<1>1. /\ k \in CallRecord /\ k.op = op /\ k.of = t /\ k.todo = stages /\ k.outcome = "pending"
      /\ k.sent = 0 /\ k.made = 0 /\ (t \in Whole \/ stages # <<>>)
  BY <1>0, NewCall
<1>2. /\ call[c].outcome # "pending"
      /\ IF stages = <<>> /\ HasCached(c, t[1]) THEN FinishThing(c, k) /\ UNCHANGED <<flight, opened>>
         ELSE Sends(c, k) /\ UNCHANGED instance
      /\ UNCHANGED <<api, dbOf, changes, cached, losses>>
  BY DEF Start, Fresh
<1>3. call[c].sent = 0
  BY <1>2 DEF SchemaInv, Counted
<1>4. /\ op \in Changes => stages # <<>> /\ stages[Len(stages)] = Listing(t)
      /\ op = "create" => op \in Changes /\ Len(stages) > 1 /\ stages[1] # <<>> /\ Makes(stages[1][1], t)
  BY DEF Plan, Changes
<1> HIDE DEF k
<1>5. Made(changes, k)
  BY LegacyType, <1>1 DEF Made
<1>6. CASE stages = <<>> /\ HasCached(c, t[1])
  <2>1. k.of \in Whole /\ FinishThing(c, k)
    BY <1>1, <1>2, <1>6
  <2>2. k.op = "create" => k.made > 0
    BY <1>1, <1>4, <1>6
  <2>3. k.made > 0 => cached[dbOf[c]][ListOf(k.of)] >= k.made
    BY <1>1
  <2>4. UNCHANGED <<changes, cached, dbOf, flight, role>> /\ k \in CallRecord /\ Made(changes, k)
    BY <1>1, <1>2, <1>5, <1>6
  <2> QED
    BY <2>1, <2>2, <2>3, <2>4, LegacyFinishes
<1>7. CASE ~(stages = <<>> /\ HasCached(c, t[1]))
  <2>1. Sends(c, k)
    BY <1>2, <1>7
  <2>2. k.todo # <<>> => Ready(changes, k)
    BY <1>1, <1>4, <1>5 DEF Ready
  <2>3. k.todo = <<>> => k.op \notin Changes
    BY <1>1, <1>4
  <2> QED
    BY <1>1, <1>2, <1>3, <1>5, <2>1, <2>2, <2>3, LegacySends
<1> QED
  BY <1>6, <1>7

\* What the server answers is true.
LEMMA LegacyServed ==
    ASSUME SchemaInv, SchemaInv', Legacy, api = "legacy", NEW d \in Dbs, NEW i, NEW reply,
           Served(d, i, reply), reply \in Replies, reply # <<>>, Truth(changes', flight[d][i].what, reply),
           changes' \in Seq(Change), Grew(changes, changes'), Thorough(changes'),
           UNCHANGED <<dbOf, cached, call, role>>
    PROVE  Legacy'
<1> DEFINE f == flight[d]
           r == f[i].what
           g == Answer(f, i, reply)
<1>0. /\ flight \in [Dbs -> Seq(Entry)] /\ f \in Seq(Entry) /\ Len(f) \in Nat
      /\ changes \in Seq(Change) /\ Len(changes) \in Nat /\ Len(changes') \in Nat /\ Len(changes) <= Len(changes')
      /\ \A x \in Dbs : cached[x] \in Caches /\ flight[x] \in Seq(Entry) /\ Line(changes, cached[x], flight[x])
  BY LegacyType DEF Legacy, Grew
<1>1. /\ i \in 1..Len(f) /\ f[i].reply = <<>> /\ \A j \in 1..(i - 1) : f[j].reply # <<>>
      /\ flight' = [flight EXCEPT ![d][i].reply = reply]
  BY DEF Served
<1>2. r \in SchemaRequests => reply \in {<<>>, Refused} \cup ({"ok"} \X Nat)
  BY <1>0 DEF Truth
<1>3. /\ g \in Seq(Entry) /\ Len(g) = Len(f)
      /\ \A j \in 1..Len(f) : /\ g[j].who = f[j].who /\ g[j].what = f[j].what
                              /\ g[j].reply = IF j = i THEN reply ELSE f[j].reply
      /\ \A c : OwnIn(g, c) = OwnIn(f, c)
  BY <1>0, <1>1, <1>2, AnsweredType
<1>4. Line(changes', cached[d], g)
  BY <1>0, <1>1, LineServed
<1>5. flight' = [flight EXCEPT ![d] = g]
  BY <1>0, <1>1 DEF Answer
<1> HIDE DEF g
<1>6. flight'[d] = g /\ \A x \in Dbs : x # d => flight'[x] = flight[x]
  BY <1>0, <1>5
<1>7. ASSUME NEW x \in Dbs PROVE Line(changes', cached[x], flight'[x])
  <2>1. CASE x = d
    BY <2>1, <1>4, <1>6
  <2>2. CASE x # d
    BY <1>0, LineStill, <2>2, <1>6
  <2> QED
    BY <2>1, <2>2
<1>8. Ok(g[i]) => g[i].reply[2] >= Len(changes)
  <2>1. SUFFICES ASSUME Ok(g[i]) PROVE g[i].reply[2] >= Len(changes)
    OBVIOUS
  <2>2. g[i].what = r /\ g[i].reply = reply
    BY <1>1, <1>3
  <2>3. r \in SchemaRequests /\ reply # Refused
    BY <2>1, <2>2 DEF Ok, Answered
  <2>4. reply = <<"ok", Len(changes')>>
    BY <2>3 DEF Truth
  <2> QED
    BY <2>2, <2>4, <1>0
<1>9. ASSUME NEW c \in Callers
      PROVE  Awaits(changes', cached[dbOf[c]], c, call[c], flight'[dbOf[c]])
  <2> DEFINE h == flight[dbOf[c]]
             h2 == flight'[dbOf[c]]
  <2>1. /\ dbOf[c] \in Dbs /\ call[c] \in CallRecord /\ Awaits(changes, cached[dbOf[c]], c, call[c], h)
        /\ \A x \in Kinds : cached[dbOf[c]][x] <= cached[dbOf[c]][x]
    BY LegacyType DEF Legacy
  <2>2. /\ h \in Seq(Entry) /\ h2 \in Seq(Entry) /\ OwnIn(h2, c) = OwnIn(h, c)
        /\ \A j \in OwnIn(h, c) : h2[j].what = h[j].what
                                  /\ (h2[j].reply = h[j].reply \/ (Ok(h2[j]) => h2[j].reply[2] >= Len(changes)))
    <3>1. CASE dbOf[c] = d
      <4>1. h = f /\ h2 = g
        BY <3>1, <1>6
      <4>2. \A j \in OwnIn(f, c) : j \in 1..Len(f)
        BY DEF OwnIn
      <4> HIDE DEF f, h, h2
      <4> QED
        BY <4>1, <4>2, <1>0, <1>3, <1>8
    <3>2. CASE dbOf[c] # d
      BY <3>2, <2>1, <1>0, <1>6
    <3> QED
      BY <3>1, <3>2
  <2>3. \A j \in OwnIn(h2, c) : j + 0 = j /\ j - 0 = j
    BY DEF OwnIn
  <2> HIDE DEF h, h2
  <2>4. \A j \in OwnIn(h2, c) : /\ j + 0 \in OwnIn(h, c) /\ h2[j].what = h[j + 0].what
                                /\ \/ h2[j].reply = h[j + 0].reply
                                   \/ Ok(h2[j]) => h2[j].reply[2] >= Len(changes)
    BY <2>2, <2>3
  <2>5. \A j \in OwnIn(h, c) : j - 0 \in OwnIn(h2, c)
    BY <2>2, <2>3
  <2>6. cached[dbOf[c]] \in Caches /\ 0 \in Nat
    BY <1>0, <2>1
  <2>7. Awaits(changes', cached[dbOf[c]], c, call[c], h2)
    <3> DEFINE ca == cached[dbOf[c]]
               k == call[c]
               s == changes
               s2 == changes'
    <3>1. /\ s \in Seq(Change) /\ s2 \in Seq(Change) /\ Grew(s, s2) /\ ca \in Caches /\ 0 \in Nat
          /\ k \in CallRecord /\ h \in Seq(Entry) /\ h2 \in Seq(Entry) /\ Awaits(s, ca, c, k, h)
          /\ \A x \in Kinds : ca[x] <= ca[x]
      BY <1>0, <2>1, <2>2, <2>6
    <3>2. \A j \in OwnIn(h2, c) : /\ j + 0 \in OwnIn(h, c) /\ h2[j].what = h[j + 0].what
                                  /\ \/ h2[j].reply = h[j + 0].reply
                                     \/ Ok(h2[j]) => h2[j].reply[2] >= Len(s)
      BY <2>4
    <3> HIDE DEF ca, k, s, s2
    <3>3. Awaits(s2, ca, c, k, h2)
      BY <3>1, <3>2, <2>5, AwaitsStill
    <3> QED
      BY <3>3 DEF ca, k, s2
  <2> QED
    BY <2>7 DEF h2
<1> QED
  BY <1>7, <1>9 DEF Legacy

LEMMA LegacyServe ==
    ASSUME SchemaInv, SchemaInv', Legacy, api = "legacy", role' = role,
           NEW d \in Dbs, NEW i, Serve(d, i)
    PROVE  Legacy'
<1> DEFINE r == flight[d][i].what
           v == Len(changes)
<1>1. i \in 1..Len(flight[d]) /\ r.op \in SchemaOps /\ UNCHANGED <<dbOf, cached, call, role>>
  BY DEF Serve
<1>2. /\ changes \in Seq(Change) /\ v \in Nat /\ Contents = History(changes) /\ Grew(changes, changes)
      /\ Thorough(changes)
  BY LegacyType DEF Legacy
<1>3. r \in SchemaRequests
  BY <1>1, InFlight, StatementType
<1>4. /\ Refused \in Replies /\ <<"ok", v>> \in Replies /\ <<"ok", v + 1>> \in Replies
      /\ Refused # <<>> /\ <<"ok", v>> # <<>> /\ <<"ok", v + 1>> # <<>>
  BY <1>2 DEF Replies, Answers, Refused
<1> HIDE DEF r
<1>5. CASE ~Possible(r)
  <2>1. Served(d, i, Refused) /\ changes' = changes
    BY <1>5 DEF Serve, Refused, r
  <2>2. Truth(changes', flight[d][i].what, Refused)
    BY DEF Truth
  <2>3. changes' \in Seq(Change) /\ Grew(changes, changes') /\ Thorough(changes')
    BY <2>1, <1>2
  <2> QED
    BY <2>1, <2>2, <2>3, <1>1, <1>4, LegacyServed
<1>6. CASE Possible(r) /\ r.op \in Changing
  <2>1. changes' = Append(changes, Effect(r)) /\ Served(d, i, <<"ok", v + 1>>)
    BY <1>6 DEF Serve, Effect, Changing, r, v
  <2>2. r.of[1] = "property" => ClassOf(r.of) \in History(changes)[Len(changes)]
    BY <1>2, <1>6 DEF Possible, Now
  <2>3. /\ Effect(r) \in Change /\ Thorough(Append(changes, Effect(r)))
        /\ \A t \in Named : Makes(r, t) => Shows(Append(changes, Effect(r)), t, Len(changes) + 1)
    BY <1>2, <1>3, <1>6, <2>2, EffectShows
  <2>4. /\ Grew(changes, Append(changes, Effect(r))) /\ Append(changes, Effect(r)) \in Seq(Change)
        /\ Len(Append(changes, Effect(r))) = v + 1
    BY <1>2, <2>3, GrowsBy
  <2>5. Len(changes') > 0 /\ Len(changes') = v + 1
    BY <2>1, <2>4, <1>2
  <2>6. Truth(changes', flight[d][i].what, <<"ok", v + 1>>)
    BY <2>1, <2>3, <2>5 DEF Truth, r
  <2>7. changes' \in Seq(Change) /\ Grew(changes, changes') /\ Thorough(changes')
    BY <2>1, <2>3, <2>4
  <2> HIDE DEF v
  <2> QED
    BY <2>1, <2>6, <2>7, <1>1, <1>4, LegacyServed
<1>7. CASE Possible(r) /\ r.op \notin Changing
  <2>1. Served(d, i, <<"ok", v>>) /\ changes' = changes
    BY <1>7 DEF Serve, Changing, r, v
  <2>2. \A t \in Named : ~Makes(r, t)
    BY <1>7 DEF Makes, Changing
  <2>3. Truth(changes', flight[d][i].what, <<"ok", v>>)
    BY <2>1, <2>2, <1>7 DEF Truth, r
  <2>4. changes' \in Seq(Change) /\ Grew(changes, changes') /\ Thorough(changes')
    BY <2>1, <1>2
  <2> HIDE DEF v
  <2> QED
    BY <2>1, <2>3, <2>4, <1>1, <1>4, LegacyServed
<1> QED
  BY <1>5, <1>6, <1>7

LEMMA LegacyServesStatement ==
    ASSUME SchemaInv, SchemaInv', Legacy, api = "legacy", role' = role, records \in [Known -> Nat],
           NEW d \in Dbs, NEW i, ServeStatement(d, i)
    PROVE  Legacy'
<1>1. /\ i \in 1..Len(flight[d]) /\ flight[d][i].what.op \notin SchemaOps
      /\ UNCHANGED <<dbOf, changes, cached, call, role>>
  BY DEF ServeStatement
<1>2. flight[d][i].what \notin SchemaRequests
  BY <1>1, StatementType
<1>3. PICK reply \in Replies : reply # <<>> /\ Served(d, i, reply)
  <2>1. {Refused, <<"ok", records>>, <<"ok", <<>> >>} \subseteq Replies
    BY DEF Replies, Answers
  <2>2. Served(d, i, Refused) \/ Served(d, i, <<"ok", IF flight[d][i].what.op = "select" THEN records ELSE <<>> >>)
    BY DEF ServeStatement, Refused
  <2>3. Refused # <<>> /\ <<"ok", records>> # <<>> /\ <<"ok", <<>> >> # <<>>
    BY DEF Refused
  <2> QED
    BY <2>1, <2>2, <2>3
<1>4. Truth(changes', flight[d][i].what, reply)
  BY <1>2 DEF Truth
<1>5. changes' \in Seq(Change) /\ Grew(changes, changes') /\ Thorough(changes')
  BY <1>1, LegacyType DEF Legacy
<1> QED
  BY <1>1, <1>3, <1>4, <1>5, LegacyServed

\* The answer that is first comes back.
LEMMA LegacyReplies ==
    ASSUME SchemaInv, SchemaInv', Legacy, api = "legacy", role' = role,
           NEW d \in Dbs, NEW i, Reply(d, i)
    PROVE  Legacy'
<1> DEFINE f == flight[d]
           e == f[1]
           rest == RemoveAt(f, 1)
           failed == e.reply = Refused
           g == IF failed THEN Disowned(rest, {e.who}) ELSE rest
           ca == cached[d]
           ca2 == Cached(ca, e)
<1>1. /\ i = 1 /\ 1 \in 1..Len(f) /\ e.reply # <<>>
      /\ flight' = [flight EXCEPT ![d] = g]
      /\ cached' = IF failed \/ e.what.op # "list" THEN cached
                   ELSE [cached EXCEPT ![d][e.what.of[1]] = e.reply[2]]
      /\ call' = IF e.who = Nobody THEN call
                 ELSE [call EXCEPT ![e.who] = IF failed THEN Failed(call[e.who]) ELSE Heard(call[e.who], e)]
      /\ UNCHANGED <<dbOf, changes>>
  BY DEF Reply, Refused
<1>2. /\ flight \in [Dbs -> Seq(Entry)] /\ f \in Seq(Entry) /\ Len(f) \in Nat
      /\ changes \in Seq(Change) /\ Grew(changes, changes) /\ Thorough(changes)
      /\ cached \in [Dbs -> Caches] /\ ca \in Caches /\ Line(changes, ca, f)
      /\ call \in [Callers -> CallRecord]
  BY LegacyType DEF Legacy, Caches
<1>3. /\ e \in Entry /\ e.who \in Callers \cup {Nobody}
      /\ e.who # Nobody => /\ e.who \in Callers /\ dbOf[e.who] = d /\ e.what \in AskedBy(call[e.who].op)
                           /\ call[e.who].sent > 0 /\ call[e.who].outcome = "pending"
  BY <1>1, InFlight
<1>4. rest \in Seq(Entry) /\ g \in Seq(Entry)
  BY <1>1, <1>2, Removal, DisownedType
<1>5. g = rest \/ \E W : g = Disowned(rest, W)
  OBVIOUS
<1>6. flight'[d] = g /\ \A x \in Dbs : x # d => flight'[x] = flight[x]
  BY <1>1, <1>2
<1>7. cached'[d] = ca2 /\ \A x \in Dbs : x # d => cached'[x] = cached[x]
  BY <1>1, <1>2 DEF Cached, Caches
<1>8. ca2 \in Caches
  BY <1>7 DEF SchemaInv, SchemaType, Caches
<1> HIDE DEF g, ca, ca2
<1>9. /\ Line(changes, ca2, g)
      /\ \A k \in Kinds : ca[k] <= ca2[k]
      /\ Len(g) = Len(f) - 1
      /\ \A j \in 1..Len(g) : g[j].what = f[j + 1].what /\ g[j].reply = f[j + 1].reply
  BY <1>1, <1>2, <1>5, LineTaken DEF ca2
<1>10. ASSUME NEW x \in Dbs PROVE Line(changes, cached'[x], flight'[x])
  <2>1. CASE x = d
    BY <2>1, <1>6, <1>7, <1>9
  <2>2. CASE x # d
    BY <2>2, <1>6, <1>7 DEF Legacy
  <2> QED
    BY <2>1, <2>2
<1>11. ASSUME NEW c \in Callers, c # e.who, dbOf[c] = d
       PROVE  /\ \A j \in OwnIn(g, c) : j + 1 \in OwnIn(f, c) /\ g[j].what = f[j + 1].what /\ g[j].reply = f[j + 1].reply
              /\ \A j \in OwnIn(f, c) : j - 1 \in OwnIn(g, c)
  <2>1. OwnIn(g, c) = OwnIn(rest, c)
    BY <1>4, <1>11, DisownedType DEF g
  <2>2. /\ Len(rest) = Len(f) - 1
        /\ \A j \in 1..(Len(f) - 1) : rest[j] = f[j + 1]
    BY <1>1, <1>2, Removal
  <2> HIDE DEF f, rest, e
  <2>3. \A j \in OwnIn(rest, c) : j + 1 \in OwnIn(f, c) /\ j \in 1..Len(g)
    BY <2>2, <1>2, <1>9 DEF OwnIn
  <2>4. \A j \in OwnIn(f, c) : j - 1 \in OwnIn(rest, c)
    <3> SUFFICES ASSUME NEW j \in OwnIn(f, c) PROVE j - 1 \in OwnIn(rest, c)
      OBVIOUS
    <3>1. j \in 1..Len(f) /\ f[j].who = c /\ j # 1
      BY <1>11 DEF OwnIn, e
    <3>2. j - 1 \in 1..(Len(f) - 1) /\ (j - 1) + 1 = j
      BY <3>1, <1>2
    <3> QED
      BY <3>1, <3>2, <2>2 DEF OwnIn
  <2> QED
    BY <2>1, <2>3, <2>4, <1>9
<1>12. ASSUME NEW c \in Callers
       PROVE  Awaits(changes, cached'[dbOf[c]], c, call'[c], flight'[dbOf[c]])
  <2>0. dbOf[c] \in Dbs /\ call[c] \in CallRecord /\ Awaits(changes, cached[dbOf[c]], c, call[c], flight[dbOf[c]])
    BY LegacyType DEF Legacy
  <2>1. CASE c # e.who
    <3>1. call'[c] = call[c]
      BY <2>1, <1>1, <1>2, <1>3
    <3>2. CASE dbOf[c] # d
      BY <2>0, <3>1, <3>2, <1>6, <1>7
    <3>3. CASE dbOf[c] = d
      <4> DEFINE k == call[c]
                 s == changes
      <4>1. /\ s \in Seq(Change) /\ Grew(s, s) /\ ca \in Caches /\ ca2 \in Caches /\ 1 \in Nat
            /\ \A x \in Kinds : ca[x] <= ca2[x]
            /\ k \in CallRecord /\ f \in Seq(Entry) /\ g \in Seq(Entry) /\ Awaits(s, ca, c, k, f)
        BY <2>0, <3>3, <1>2, <1>4, <1>8, <1>9 DEF ca
      <4>2. \A j \in OwnIn(g, c) : /\ j + 1 \in OwnIn(f, c) /\ g[j].what = f[j + 1].what
                                   /\ \/ g[j].reply = f[j + 1].reply
                                      \/ Ok(g[j]) => g[j].reply[2] >= Len(s)
        BY <2>1, <3>3, <1>11
      <4>3. \A j \in OwnIn(f, c) : j - 1 \in OwnIn(g, c)
        BY <2>1, <3>3, <1>11
      <4> HIDE DEF k, s, f, e
      <4>4. Awaits(s, ca2, c, k, g)
        BY <4>1, <4>2, <4>3, AwaitsStill
      <4> QED
        BY <4>4, <3>1, <3>3, <1>6, <1>7 DEF k, s
    <3> QED
      BY <3>2, <3>3
  <2>2. CASE c = e.who
    <3>1. /\ dbOf[c] = d /\ e.what \in AskedBy(call[c].op)
          /\ call[c].sent > 0 /\ call[c].outcome = "pending" /\ c # Nobody
      BY <2>2, <1>3, SchemaAssumption
    <3>2. Awaits(changes, ca, c, call[c], f)
      BY <2>0, <3>1 DEF ca
    <3>3. CASE failed
      <4>1. call'[c] = Failed(call[c])
        BY <2>2, <3>1, <3>3, <1>1, <1>2
      <4> DEFINE x == Failed(call[c])
      <4>2. x.op = call[c].op /\ x.of = call[c].of /\ x.made = call[c].made /\ x.outcome = "failed"
        BY <2>0, FailedType
      <4>3. Made(changes, call[c])
        BY <3>2 DEF Awaits
      <4> HIDE DEF x
      <4>4. Awaits(changes, ca2, c, x, g)
        BY <4>2, <4>3, AwaitsEnd
      <4> QED
        BY <4>1, <4>4, <3>1, <1>6, <1>7 DEF x
    <3>4. CASE ~failed
      <4>1. call'[c] = Heard(call[c], e) /\ g = rest /\ Answered(e)
        BY <2>2, <3>1, <3>4, <1>1, <1>2 DEF g, Answered
      <4> DEFINE k == call[c]
      <4>2. k \in CallRecord /\ k.sent > 0 /\ k.outcome = "pending" /\ e.what \in AskedBy(k.op)
            /\ Awaits(changes, ca, c, k, f) /\ f[1].who = c
        BY <2>0, <2>2, <3>1, <3>2
      <4> HIDE DEF k
      <4>3. Awaits(changes, Cached(ca, f[1]), c, Heard(k, f[1]), RemoveAt(f, 1))
        BY <4>1, <4>2, <1>1, <1>2, AwaitsHeard
      <4> QED
        BY <4>1, <4>3, <3>1, <1>6, <1>7 DEF k, ca2
    <3> QED
      BY <3>3, <3>4
  <2> QED
    BY <2>1, <2>2
<1> QED
  BY <1>1, <1>2, <1>10, <1>12 DEF Legacy

\* A connection is lost: whoever waits for something on it is rejected.
LEMMA LegacyLoses ==
    ASSUME SchemaInv, SchemaInv', Legacy, api = "legacy", role' = role, NEW d \in Dbs, Lose(d)
    PROVE  Legacy'
<1> DEFINE f == flight[d]
           W == {f[i].who : i \in 1..Len(f)}
<1>1. /\ flight' = [flight EXCEPT ![d] = <<>>]
      /\ call' = [c \in Callers |-> IF c \in W THEN Failed(call[c]) ELSE call[c]]
      /\ UNCHANGED <<dbOf, changes, cached>>
  BY DEF Lose, Cut
<1>2. /\ flight \in [Dbs -> Seq(Entry)] /\ changes \in Seq(Change) /\ Grew(changes, changes) /\ Thorough(changes)
      /\ \A x \in Dbs : cached[x] \in Caches /\ Line(changes, cached[x], flight[x])
  BY LegacyType DEF Legacy
<1>3. flight'[d] = <<>> /\ \A x \in Dbs : x # d => flight'[x] = flight[x]
  BY <1>1, <1>2
<1>4. ASSUME NEW x \in Dbs PROVE Line(changes, cached[x], flight'[x])
  <2>1. CASE x = d
    BY <2>1, <1>2, <1>3, LineEmpty DEF Line
  <2>2. CASE x # d
    BY <2>2, <1>2, <1>3
  <2> QED
    BY <2>1, <2>2
<1>5. ASSUME NEW c \in Callers
      PROVE  Awaits(changes, cached[dbOf[c]], c, call'[c], flight'[dbOf[c]])
  <2>0. dbOf[c] \in Dbs /\ call[c] \in CallRecord /\ Awaits(changes, cached[dbOf[c]], c, call[c], flight[dbOf[c]])
    BY LegacyType DEF Legacy
  <2>1. CASE c \in W
    <3>1. call'[c] = Failed(call[c])
      BY <2>1, <1>1
    <3> DEFINE x == Failed(call[c])
    <3>2. x.op = call[c].op /\ x.of = call[c].of /\ x.made = call[c].made /\ x.outcome = "failed"
      BY <2>0, FailedType
    <3>3. Made(changes, call[c])
      BY <2>0 DEF Awaits
    <3> HIDE DEF x
    <3>4. Awaits(changes, cached[dbOf[c]], c, x, flight'[dbOf[c]])
      BY <3>2, <3>3, AwaitsEnd
    <3> QED
      BY <3>1, <3>4 DEF x
  <2>2. CASE c \notin W /\ dbOf[c] = d
    <3>1. call'[c] = call[c]
      BY <2>2, <1>1
    <3>2. OwnIn(f, c) = {} /\ OwnIn(<<>>, c) = {}
      BY <2>2 DEF OwnIn
    <3> DEFINE k == call[c]
               s == changes
               ca == cached[dbOf[c]]
    <3>3. /\ s \in Seq(Change) /\ Grew(s, s) /\ ca \in Caches /\ 0 \in Nat
          /\ k \in CallRecord /\ f \in Seq(Entry) /\ <<>> \in Seq(Entry) /\ Awaits(s, ca, c, k, f)
          /\ \A x \in Kinds : ca[x] <= ca[x]
      BY <2>0, <2>2, <1>2, LegacyType
    <3> HIDE DEF k, s, ca, f
    <3>4. \A j \in OwnIn(<<>>, c) : /\ j + 0 \in OwnIn(f, c) /\ <<>>[j].what = f[j + 0].what
                                    /\ \/ <<>>[j].reply = f[j + 0].reply
                                       \/ Ok(<<>>[j]) => <<>>[j].reply[2] >= Len(s)
      BY <3>2
    <3>5. \A j \in OwnIn(f, c) : j - 0 \in OwnIn(<<>>, c)
      BY <3>2
    <3>6. Awaits(s, ca, c, k, <<>>)
      BY <3>3, <3>4, <3>5, AwaitsStill
    <3> QED
      BY <3>1, <3>6, <2>2, <1>3 DEF k, s, ca
  <2>3. CASE c \notin W /\ dbOf[c] # d
    BY <2>0, <2>3, <1>1, <1>3
  <2> QED
    BY <2>1, <2>2, <2>3
<1> QED
  BY <1>1, <1>2, <1>4, <1>5 DEF Legacy

LEMMA LegacyInit ==
    ASSUME Init
    PROVE  LegacyInv
<1> SUFFICES ASSUME api = "legacy" PROVE Legacy
  BY DEF LegacyInv
<1>1. SchemaInit /\ SchemaInv /\ role # "managers"
  BY SchemaInitInv DEF Init
<1>2. /\ changes \in Seq(Change) /\ Len(changes) \in Nat
      /\ \A d \in Dbs : cached[d] \in Caches /\ flight[d] = <<>> /\ dbOf \in [Callers -> Dbs]
      /\ \A c \in Callers : call[c] = NoCall /\ dbOf[c] \in Dbs
  BY <1>1, LegacyType DEF SchemaInit
<1>3. \A v \in 1..Len(changes) : changes[v].removed = {}
  <2> DEFINE A == Added({Thing("class", n) : n \in Names})
  <2>1. changes = <<>> \/ changes = <<A>>
    BY <1>1 DEF SchemaInit
  <2>2. A.removed = {}
    BY DEF Added
  <2> HIDE DEF A
  <2> QED
    BY <2>1, <2>2
<1>4. Thorough(changes)
  BY <1>3 DEF Thorough
<1>5. ASSUME NEW d \in Dbs PROVE Line(changes, cached[d], flight[d])
  <2>1. PICK held \in {Never, Len(changes)} :
          cached = [x \in Dbs |-> [k \in Kinds |->
                        IF k = "class" THEN held
                        ELSE IF k = "cluster" /\ api = "legacy" THEN Len(changes) ELSE Never]]
    BY <1>1 DEF SchemaInit
  <2>2. \A k \in Kinds : cached[d][k] \in {Never, Len(changes)}
    BY <2>1
  <2>3. \A k \in Kinds : cached[d][k] <= Len(changes)
    BY <2>2, <1>2 DEF Never
  <2> QED
    BY <2>3, <1>2, LineEmpty
<1>6. ASSUME NEW c \in Callers PROVE Awaits(changes, cached[dbOf[c]], c, call[c], flight[dbOf[c]])
  <2>1. NoCall.op = "none" /\ NoCall.made = 0 /\ NoCall.outcome = "none"
    BY DEF NoCall
  <2>2. "none" \notin Changes
    BY DEF Changes
  <2> QED
    BY <1>2, <2>1, <2>2 DEF Awaits, Made, Waits, Knows
<1> QED
  BY <1>1, <1>4, <1>5, <1>6 DEF Legacy

LEMMA LegacyStep ==
    ASSUME MigrationsInv, LegacyInv, [Next]_vars
    PROVE  LegacyInv'
<1>1. MigrationsInv' /\ SchemaInv /\ SchemaInv' /\ records \in [Known -> Nat]
  BY MigrationsStep DEF MigrationsInv, MigrationType
<1>2. api' = api
  <2>1. ASSUME SchemaNext PROVE api' = api
    BY <2>1 DEF SchemaNext, Serve, Reply, Lose, Continue
  <2>2. ASSUME CallNext(role) PROVE api' = api
    BY <1>1, <2>2, CallsBegin DEF MigrationsInv, MigrationType, Start
  <2>3. ASSUME NEW d \in Dbs, NEW i \in 1..Len(flight[d]), ServeStatement(d, i) PROVE api' = api
    BY <2>3 DEF ServeStatement
  <2>4. ASSUME NEW m \in Callers, Up(m) \/ Down(m) \/ Manage(m) PROVE api' = api
    BY <2>4 DEF Up, Down, Begin, Start, Manage, EnsureStructure, ListMigrations, ListApplied, GetsClass, Statement,
       Step, Selected, ApplyMigration, RevertMigration, NextMigration, Finished, Rejected, Rests, schemaVars
  <2>5. ASSUME UNCHANGED vars PROVE api' = api
    BY <2>5 DEF vars, schemaVars
  <2> QED
    BY <2>1, <2>2, <2>3, <2>4, <2>5 DEF Next
<1> SUFFICES ASSUME api = "legacy" PROVE Legacy'
  BY <1>2 DEF LegacyInv
<1>3. Legacy /\ role # "managers"
  BY DEF LegacyInv, Legacy
<1>4. CASE SchemaNext /\ UNCHANGED migrationVars
  <2>1. role' = role
    BY <1>4 DEF migrationVars
  <2>2. ASSUME NEW d \in Dbs, NEW i, Serve(d, i) PROVE Legacy'
    BY <1>1, <1>3, <2>1, <2>2, LegacyServe
  <2>3. ASSUME NEW d \in Dbs, NEW i, Reply(d, i) PROVE Legacy'
    BY <1>1, <1>3, <2>1, <2>3, LegacyReplies
  <2>4. ASSUME NEW d \in Dbs, Lose(d) PROVE Legacy'
    BY <1>1, <1>3, <2>1, <2>4, LegacyLoses
  <2>5. ASSUME NEW c \in Callers, Continue(c) PROVE Legacy'
    BY <1>1, <1>3, <2>1, <2>5, LegacyContinue
  <2> QED
    BY <1>4, <2>2, <2>3, <2>4, <2>5 DEF SchemaNext
<1>5. CASE CallNext(role) /\ UNCHANGED migrationVars
  <2>1. role' = role /\ role \in Kinds \cup {"managers"}
    BY <1>5 DEF migrationVars, MigrationsInv, MigrationType
  <2>2. PICK c \in Callers : \E op, t, stages :
          /\ op # "statement" /\ Plan(op, t, stages) /\ (t \in Parts => instance[c] # <<>>)
          /\ Start(c, op, t, stages)
    BY <1>1, <1>5, <2>1, CallsBegin
  <2> QED
    BY <1>1, <1>3, <2>1, <2>2, LegacyStart
<1>6. CASE \E d \in Dbs : \E i \in 1..Len(flight[d]) : ServeStatement(d, i)
  <2>1. PICK d \in Dbs : \E i \in 1..Len(flight[d]) : ServeStatement(d, i)
    BY <1>6
  <2>2. role' = role
    BY <2>1 DEF ServeStatement
  <2> QED
    BY <1>1, <1>3, <2>1, <2>2, LegacyServesStatement
<1>7. CASE \E m \in Callers : Up(m) \/ Down(m) \/ Manage(m)
  <2>1. PICK m \in Callers : Up(m) \/ Down(m) \/ Manage(m)
    BY <1>7
  <2>2. ~Working(m)
    BY <1>3 DEF MigrationsInv
  <2>3. ~Up(m) /\ ~Down(m)
    BY <1>3 DEF Up, Down, Begin
  <2>4. ~Manage(m)
    <3>1. ~EnsureStructure(m) /\ ~ListMigrations(m) /\ ~ListApplied(m) /\ ~Selected(m) /\ ~NextMigration(m)
      BY <2>2 DEF EnsureStructure, ListMigrations, ListApplied, Ensured, Selected, NextMigration, After
    <3>2. ~ApplyMigration(m) /\ ~RevertMigration(m)
      BY <2>2 DEF ApplyMigration, RevertMigration, Working
    <3>3. ~Finished(m) /\ ~Rejected(m)
      BY <2>2 DEF Finished, Rejected
    <3> QED
      BY <3>1, <3>2, <3>3 DEF Manage
  <2> QED
    BY <2>1, <2>3, <2>4
<1>8. CASE UNCHANGED vars
  BY <1>8, <1>3 DEF vars, schemaVars, migrationVars, Legacy
<1> QED
  BY <1>4, <1>5, <1>6, <1>7, <1>8 DEF Next

LEMMA LegacyStays ==
    ASSUME SchemaInv, LegacyInv
    PROVE  OwnChangesStay
<1> SUFFICES ASSUME api = "legacy", NEW c \in Callers
             PROVE  /\ call[c].made > 0 /\ call[c].outcome \in {"found", "missing", "gone", "done"} =>
                          cached[dbOf[c]][ListOf(call[c].of)] >= call[c].made
                    /\ call[c].op = "create" /\ call[c].outcome \in {"missing", "gone"} =>
                          \E v \in (call[c].made + 1)..Len(changes) : call[c].of \in changes[v].removed
  BY DEF OwnChangesStay
<1>1. Knows(changes, cached[dbOf[c]], c, call[c], flight[dbOf[c]])
  BY DEF LegacyInv, Legacy, Awaits
<1>2. ASSUME call[c].outcome \in {"found", "missing", "gone", "done"}
      PROVE  call[c].todo = <<>> /\ OwnIn(flight[dbOf[c]], c) = {} /\ call[c].outcome # "failed"
  BY <1>2, Unsent DEF SchemaInv, Counted, Own
<1> QED
  BY <1>1, <1>2 DEF Knows

--------------------------------------------------------------------------------
(* What is recorded, and what is applied.                                        *)

\* What is summed up step by step.
Sums(p, N, g) == g = [i \in 0..N |-> IF i = 0 THEN 0 ELSE g[i - 1] + p[i]]

LEMMA SumsExist ==
    ASSUME NEW N \in Nat, NEW p
    PROVE  \E g : Sums(p, N, g)
<1> DEFINE P == {n \in Nat : \E g : Sums(p, n, g)}
<1>1. 0 \in P
  <2> DEFINE g == [i \in 0..0 |-> 0]
  <2>1. Sums(p, 0, g)
    BY DEF Sums
  <2> QED
    BY <2>1
<1>2. ASSUME NEW n \in 0..(N - 1), n \in P PROVE n + 1 \in P
  <2>0. n \in Nat /\ n + 1 \in Nat
    OBVIOUS
  <2>1. PICK g : Sums(p, n, g)
    BY <1>2
  <2> DEFINE h == [i \in 0..(n + 1) |-> IF i <= n THEN g[i] ELSE g[n] + p[n + 1]]
             f == [i \in 0..(n + 1) |-> IF i = 0 THEN 0 ELSE h[i - 1] + p[i]]
  <2>2. \A i \in 0..n : g[i] = IF i = 0 THEN 0 ELSE g[i - 1] + p[i]
    BY <2>1 DEF Sums
  <2>3. ASSUME NEW i \in 0..(n + 1) PROVE h[i] = f[i]
    <3>1. CASE i = 0
      BY <3>1, <2>0, <2>2
    <3>2. CASE i # 0 /\ i <= n
      BY <3>2, <2>0, <2>2
    <3>3. CASE i = n + 1
      BY <3>3, <2>0
    <3> QED
      BY <3>1, <3>2, <3>3, <2>0
  <2>4. h = f
    BY <2>3
  <2>5. Sums(p, n + 1, h)
    BY <2>4 DEF Sums
  <2> QED
    BY <2>0, <2>5
<1> HIDE DEF P
<1>3. \A n \in 0..N : n \in P
  BY <1>1, <1>2, Induction
<1>4. N \in P
  BY <1>3
<1> QED
  BY <1>4 DEF P

\* If one summand is greater by one at most, so is the sum.
Close(p, q, N, k) ==
    \A i \in 1..N : p[i] \in Nat /\ q[i] \in Nat /\ q[i] <= p[i] + 1 /\ (i # k => q[i] <= p[i])

LEMMA SumsCompare ==
    ASSUME NEW N \in Nat, NEW p, NEW q, NEW a, NEW b, Sums(p, N, a), Sums(q, N, b), NEW k \in Nat,
           Close(p, q, N, k)
    PROVE  a[N] \in Nat /\ b[N] \in Nat /\ b[N] <= a[N] + 1 /\ (k = 0 => b[N] <= a[N])
<1> DEFINE P == {i \in 0..N : a[i] \in Nat /\ b[i] \in Nat /\ b[i] <= a[i] + (IF k # 0 /\ k <= i THEN 1 ELSE 0)}
<1>1. /\ \A i \in 0..N : a[i] = IF i = 0 THEN 0 ELSE a[i - 1] + p[i]
      /\ \A i \in 0..N : b[i] = IF i = 0 THEN 0 ELSE b[i - 1] + q[i]
  BY DEF Sums
<1>2. 0 \in P
  BY <1>1
<1>3. ASSUME NEW n \in 0..(N - 1), n \in P PROVE n + 1 \in P
  <2>1. n + 1 \in 0..N /\ n + 1 \in 1..N /\ n + 1 # 0 /\ (n + 1) - 1 = n /\ n \in Nat
    OBVIOUS
  <2>2. a[n + 1] = a[n] + p[n + 1] /\ b[n + 1] = b[n] + q[n + 1]
    BY <2>1, <1>1
  <2>3. /\ p[n + 1] \in Nat /\ q[n + 1] \in Nat
        /\ q[n + 1] <= p[n + 1] + 1 /\ (n + 1 # k => q[n + 1] <= p[n + 1])
    BY <2>1 DEF Close
  <2>4. a[n] \in Nat /\ b[n] \in Nat /\ b[n] <= a[n] + (IF k # 0 /\ k <= n THEN 1 ELSE 0)
    BY <1>3
  <2>5. a[n + 1] \in Nat /\ b[n + 1] \in Nat
    BY <2>2, <2>3, <2>4
  <2>6. b[n + 1] <= a[n + 1] + (IF k # 0 /\ k <= n + 1 THEN 1 ELSE 0)
    BY <2>1, <2>2, <2>3, <2>4
  <2> QED
    BY <2>1, <2>5, <2>6
<1> HIDE DEF P
<1>4. N \in P
  BY <1>2, <1>3, Induction
<1> QED
  BY <1>4 DEF P

\* The sum over the names.
NamesOf(w) == [i \in 1..Len(Ascending(Known)) |-> w[Ascending(Known)[i]]]

LEMMA NamesType ==
    LET names == Ascending(Known) IN
    /\ names \in Seq(Known) /\ Len(names) \in Nat
    /\ \A i \in 1..Len(names) : names[i] \in Known
    /\ \A i, j \in 1..Len(names) : names[i] = names[j] => i = j
    /\ \A x \in Known : \E i \in 1..Len(names) : names[i] = x
<1> DEFINE names == Ascending(Known)
<1>1. Known \subseteq Nat /\ IsFiniteSet(Known)
  BY KnownType
<1>2. /\ names \in Seq(Known)
      /\ \A i, j \in 1..Len(names) : i < j => names[i] < names[j]
      /\ \A x \in Known : \E i \in 1..Len(names) : names[i] = x
  BY <1>1, AscendingType
<1> HIDE DEF names
<1>3. Len(names) \in Nat /\ \A i \in 1..Len(names) : names[i] \in Known
  BY <1>2
<1>4. ASSUME NEW i \in 1..Len(names), NEW j \in 1..Len(names), i # j PROVE names[i] # names[j]
  <2>1. i < j \/ j < i
    BY <1>3, <1>4
  <2>2. names[i] \in Nat /\ names[j] \in Nat
    BY <1>1, <1>3
  <2>3. names[i] < names[j] \/ names[j] < names[i]
    BY <1>2, <2>1
  <2> QED
    BY <2>2, <2>3
<1> QED
  BY <1>2, <1>3, <1>4 DEF names

LEMMA TotalIs ==
    ASSUME NEW w
    PROVE  \E g : Sums(NamesOf(w), Len(Ascending(Known)), g) /\ Total(w) = g[Len(Ascending(Known))]
<1> DEFINE names == Ascending(Known)
           N == Len(names)
<1>1. N \in Nat
  BY NamesType
<1> HIDE DEF names
<1> DEFINE p == [i \in 1..N |-> w[names[i]]]
           h == CHOOSE x : x = [i \in 0..Len(names) |-> IF i = 0 THEN 0 ELSE x[i - 1] + w[names[i]]]
<1>2. PICK g : Sums(p, N, g)
  BY <1>1, SumsExist
<1>3. \A x : Sums(p, N, x) <=> x = [i \in 0..Len(names) |-> IF i = 0 THEN 0 ELSE x[i - 1] + w[names[i]]]
  <2> TAKE x
  <2> DEFINE f == [i \in 0..N |-> IF i = 0 THEN 0 ELSE x[i - 1] + p[i]]
             f2 == [i \in 0..Len(names) |-> IF i = 0 THEN 0 ELSE x[i - 1] + w[names[i]]]
  <2>1. ASSUME NEW i \in 0..N, i # 0 PROVE p[i] = w[names[i]]
    BY <1>1, <2>1
  <2>2. f = f2
    BY <2>1
  <2> QED
    BY <2>2 DEF Sums
<1>4. Sums(p, N, h)
  BY <1>2, <1>3
<1>5. Total(w) = h[Len(names)]
  BY DEF Total, names
<1>6. p = NamesOf(w)
  BY DEF NamesOf, names
<1> QED
  BY <1>4, <1>5, <1>6 DEF names

LEMMA TotalGrows ==
    ASSUME NEW w \in [Known -> Nat], NEW v \in [Known -> Nat], NEW n,
           \A x \in Known : v[x] <= w[x] + 1 /\ (x # n => v[x] <= w[x])
    PROVE  Total(w) \in Nat /\ Total(v) \in Nat /\ Total(v) <= Total(w) + 1
<1> DEFINE names == Ascending(Known)
           N == Len(names)
           p == NamesOf(w)
           q == NamesOf(v)
<1>1. PICK a : Sums(p, N, a) /\ Total(w) = a[N]
  BY TotalIs
<1>2. PICK b : Sums(q, N, b) /\ Total(v) = b[N]
  BY TotalIs
<1>3. /\ N \in Nat /\ \A i \in 1..N : names[i] \in Known
      /\ \A i, j \in 1..N : names[i] = names[j] => i = j
  BY NamesType
<1>4. PICK k \in Nat : \A i \in 1..N : i # k => names[i] # n
  <2> HIDE DEF names, N
  <2>1. CASE \E k \in 1..N : names[k] = n
    <3>1. PICK k \in 1..N : names[k] = n
      BY <2>1
    <3>2. k \in Nat /\ \A i \in 1..N : i # k => names[i] # n
      BY <3>1, <1>3
    <3> QED
      BY <3>2
  <2>2. CASE ~\E k \in 1..N : names[k] = n
    BY <2>2
  <2> QED
    BY <2>1, <2>2
<1>5. \A i \in 1..N : p[i] = w[names[i]] /\ q[i] = v[names[i]]
  BY DEF NamesOf
<1>6. Sums(p, N, a) /\ Sums(q, N, b)
  BY <1>1, <1>2
<1> HIDE DEF names, p, q, N
<1>7. Close(p, q, N, k)
  BY <1>3, <1>4, <1>5 DEF Close
<1>8. a[N] \in Nat /\ b[N] \in Nat /\ b[N] <= a[N] + 1
  <2> HIDE <1>1, <1>2
  <2>1. N \in Nat
    BY <1>3
  <2> QED
    BY <2>1, <1>6, <1>7, SumsCompare
<1> QED
  BY <1>1, <1>2, <1>8

\* What AsRecorded adds up.
LEMMA UnmatchedIs ==
    ASSUME MigrationType
    PROVE  Unmatched = Total(Off(Resting, <<>>))
<1> DEFINE names == Ascending(Known)
           N == Len(names)
           w == Off(Resting, <<>>)
           h == CHOOSE x : x = [i \in 0..Len(names) |->
                    IF i = 0 THEN 0 ELSE x[i - 1] + Unrecorded(names[i])]
           g == CHOOSE x : x = [i \in 0..Len(names) |->
                    IF i = 0 THEN 0 ELSE x[i - 1] + w[names[i]]]
<1>1. N \in Nat /\ \A i \in 1..N : names[i] \in Known
  BY NamesType
<1>2. \A n \in Known : w[n] = Unrecorded(n)
  <2> TAKE n \in Known
  <2>1. Due(Resting, <<>>, n) = 0
    BY DEF Due, Ran, Resting
  <2>2. records[n] \in Nat /\ ups[n] \in Nat /\ downs[n] \in Nat
    BY DEF MigrationType
  <2> QED
    BY <2>1, <2>2 DEF Off, Gaps, Size, Unrecorded
<1>3. Unmatched = h[Len(names)] /\ Total(w) = g[Len(names)]
  BY DEF Unmatched, Total
<1> HIDE DEF names, w
<1>4. ASSUME NEW x
      PROVE  [i \in 0..Len(names) |-> IF i = 0 THEN 0 ELSE x[i - 1] + Unrecorded(names[i])]
             = [i \in 0..Len(names) |-> IF i = 0 THEN 0 ELSE x[i - 1] + w[names[i]]]
  <2>1. ASSUME NEW i \in 0..N, i # 0 PROVE Unrecorded(names[i]) = w[names[i]]
    BY <1>1, <2>1, <1>2
  <2> QED
    BY <2>1
<1>5. h = g
  BY <1>4
<1> QED
  BY <1>3, <1>5 DEF w

\* A name is there as often as its count says.
LEMMA PieceEnough ==
    ASSUME NEW names \in Seq(Known), \A i, j \in 1..Len(names) : i < j => names[i] < names[j],
           NEW times \in [Known -> Nat], NEW i \in 0..(Len(names) - 1), NEW s,
           Ascends(names, times, i, s), Enough(times, s)
    PROVE  Enough(times, s \o [j \in 1..times[names[i + 1]] |-> names[i + 1]])
<1> DEFINE n == names[i + 1]
           k == times[n]
           t == [j \in 1..k |-> n]
           u == s \o t
<1>0. Known \subseteq Nat
  BY KnownType
<1>1. i + 1 \in 1..Len(names) /\ i \in Nat /\ n \in Known /\ n \in Nat /\ k \in Nat
  <2>1. i + 1 \in 1..Len(names) /\ i \in Nat /\ n \in Known /\ k \in Nat
    OBVIOUS
  <2> QED
    BY <2>1, <1>0
<1>2. \A j \in 1..i : names[j] # n
  <2> TAKE j \in 1..i
  <2>1. j \in 1..Len(names) /\ j < i + 1 /\ names[j] \in Known
    BY <1>1
  <2>2. names[j] < n /\ names[j] \in Nat
    BY <2>1, <1>0, <1>1
  <2> HIDE DEF n
  <2> QED
    BY <2>2, <1>1
<1> HIDE DEF n, k
<1>3. t \in Seq(Known) /\ Len(t) = k /\ \A j \in 1..k : t[j] = n
  BY <1>1
<1>4. s \in Seq(Known) /\ Len(s) \in Nat /\ (\A a \in 1..Len(s) : s[a] # n)
  <2>1. ASSUME NEW a \in 1..Len(s) PROVE s[a] # n
    <3>1. PICK j \in 1..i : s[a] = names[j]
      BY DEF Ascends
    <3> QED
      BY <3>1, <1>2
  <2> QED
    BY <2>1 DEF Ascends
<1> HIDE DEF t
<1>5. u \in Seq(Known) /\ Len(u) = Len(s) + k
      /\ \A a \in 1..(Len(s) + k) : u[a] = IF a <= Len(s) THEN s[a] ELSE t[a - Len(s)]
  BY <1>3, <1>4, ConcatProperties
<1> HIDE DEF u
<1>6. \A a \in 1..(Len(s) + k) : a <= Len(s) => a \in 1..Len(s) /\ u[a] = s[a] /\ u[a] # n
  BY <1>4, <1>5
<1>7. \A a \in 1..(Len(s) + k) : ~(a <= Len(s)) => u[a] = n
  <2> TAKE a \in 1..(Len(s) + k)
  <2> HAVE ~(a <= Len(s))
  <2>1. a - Len(s) \in 1..k
    BY <1>1, <1>4
  <2> QED
    BY <2>1, <1>3, <1>5
<1>8. ASSUME NEW a \in 1..(Len(s) + k), NEW b \in 1..(Len(s) + k), a <= b, u[a] = u[b]
      PROVE  b - a < times[u[a]]
  <2>1. CASE b <= Len(s)
    <3>1. a <= Len(s)
      BY <2>1, <1>1, <1>4, <1>8
    <3> QED
      BY <2>1, <3>1, <1>6, <1>8 DEF Enough
  <2>2. CASE ~(b <= Len(s)) /\ a <= Len(s)
    BY <2>2, <1>6, <1>7, <1>8
  <2>3. CASE ~(b <= Len(s)) /\ ~(a <= Len(s))
    BY <2>3, <1>7, <1>1, <1>4 DEF k
  <2> QED
    BY <2>1, <2>2, <2>3
<1>9. Enough(times, u)
  BY <1>5, <1>8 DEF Enough
<1> QED
  BY <1>9 DEF u, t, k, n

LEMMA InOrderEnough ==
    ASSUME NEW times \in [Known -> Nat]
    PROVE  Enough(times, InOrder(times))
<1> DEFINE names == Ascending(Known)
           N == Len(names)
<1>0. Known \subseteq Nat /\ IsFiniteSet(Known)
  BY KnownType
<1>1. names \in Seq(Known) /\ \A i, j \in 1..Len(names) : i < j => names[i] < names[j]
  BY <1>0, AscendingType
<1>2. PICK g : Joined(names, times, g) /\ InOrder(times) = g[N]
  BY JoinedExists
<1> HIDE DEF names
<1>3. N \in Nat
  BY <1>1
<1> DEFINE P == {i \in 0..N : Ascends(names, times, i, g[i]) /\ Enough(times, g[i])}
<1>4. \A i \in 0..N : g[i] = IF i = 0 THEN <<>> ELSE g[i - 1] \o [j \in 1..times[names[i]] |-> names[i]]
  BY <1>2 DEF Joined
<1>5. 0 \in P
  <2>0. 0 \in 0..N
    BY <1>3
  <2>1. g[0] = <<>>
    BY <2>0, <1>4
  <2>2. Ascends(names, times, 0, <<>>) /\ Enough(times, <<>>)
    BY DEF Ascends, Enough
  <2> QED
    BY <2>0, <2>1, <2>2
<1>6. ASSUME NEW n \in 0..(N - 1), n \in P PROVE n + 1 \in P
  <2>1. n + 1 \in 0..N /\ n + 1 # 0 /\ (n + 1) - 1 = n
    BY <1>3
  <2>2. g[n + 1] = g[n] \o [j \in 1..times[names[n + 1]] |-> names[n + 1]]
    BY <2>1, <1>4
  <2>3. Ascends(names, times, n, g[n]) /\ Enough(times, g[n])
    BY <1>6
  <2>4. Ascends(names, times, n + 1, g[n] \o [j \in 1..times[names[n + 1]] |-> names[n + 1]])
    BY <2>3, <1>1, PieceAscends
  <2>5. Enough(times, g[n] \o [j \in 1..times[names[n + 1]] |-> names[n + 1]])
    BY <2>3, <1>1, PieceEnough
  <2> QED
    BY <2>1, <2>2, <2>4, <2>5
<1> HIDE DEF P
<1>7. \A i \in 0..N : i \in P
  BY <1>3, <1>5, <1>6, Induction
<1>8. Enough(times, g[N])
  BY <1>3, <1>7 DEF P
<1> QED
  BY <1>2, <1>8

\* What down() selects has its records, ...
LEMMA AppliedEnough ==
    ASSUME NEW found \in [Known -> Nat], NEW limit \in {0, 1}
    PROVE  Enough(found, Limited(Applied(found), limit))
<1> DEFINE s == InOrder(found)
           r == Applied(found)
           t == Limited(r, limit)
<1>1. s \in Seq(Known)
  BY InOrderAscends
<1>2. Enough(found, s)
  BY InOrderEnough
<1>3. r = [i \in 1..Len(s) |-> s[(Len(s) - i) + 1]]
  BY DEF Applied, Reverse
<1> HIDE DEF s
<1>4. Len(s) \in Nat /\ (\A i \in 1..Len(s) : (Len(s) - i) + 1 \in 1..Len(s))
  BY <1>1
<1>5. r \in Seq(Known) /\ Len(r) = Len(s) /\ \A i \in 1..Len(s) : r[i] = s[(Len(s) - i) + 1]
  BY <1>1, <1>3, <1>4
<1> HIDE DEF r
<1>6. ASSUME NEW i \in 1..Len(s), NEW j \in 1..Len(s), i <= j, r[i] = r[j] PROVE j - i < found[r[i]]
  <2> DEFINE a == (Len(s) - j) + 1
             b == (Len(s) - i) + 1
  <2>1. a \in 1..Len(s) /\ b \in 1..Len(s) /\ a <= b /\ b - a = j - i
    BY <1>4, <1>6
  <2>2. s[a] = r[j] /\ s[b] = r[i]
    BY <1>5
  <2> HIDE DEF a, b
  <2>3. b - a < found[s[a]]
    BY <2>1, <2>2, <1>2, <1>6 DEF Enough
  <2> QED
    BY <2>1, <2>2, <2>3, <1>6
<1>7. t \in Seq(Known) /\ Len(t) <= Len(r) /\ \A i \in 1..Len(t) : t[i] = r[i]
  BY <1>5, LimitedType
<1> HIDE DEF t
<1>8. Len(t) \in Nat /\ \A i \in 1..Len(t) : i \in 1..Len(s) /\ t[i] = r[i]
  BY <1>4, <1>5, <1>7
<1>9. Enough(found, t)
  BY <1>6, <1>8 DEF Enough
<1> QED
  BY <1>9 DEF t, r

\* ... and keeps them while the first of them is erased.
LEMMA EnoughNext ==
    ASSUME NEW found \in [Known -> Nat], NEW left \in Seq(Known), left # <<>>, Enough(found, left)
    PROVE  /\ found[Head(left)] > 0
           /\ Enough([found EXCEPT ![Head(left)] = @ - 1], Tail(left))
<1> DEFINE n == Head(left)
           t == Tail(left)
           rest == [found EXCEPT ![n] = @ - 1]
<1>1. Len(left) \in Nat /\ 1 \in 1..Len(left) /\ n = left[1] /\ n \in Known
  BY HeadTailProperties
<1>2. Len(t) = Len(left) - 1 /\ \A i \in 1..(Len(left) - 1) : t[i] = left[i + 1]
  BY HeadTailProperties
<1>3. \A x \in Known : rest[x] = (IF x = n THEN found[x] - 1 ELSE found[x]) /\ found[x] \in Nat
  BY <1>1
<1>4. \A i \in 1..Len(left) : left[i] \in Known
  OBVIOUS
<1> HIDE DEF n, t, rest
<1>5. found[n] > 0
  BY <1>1, <1>3 DEF Enough
<1>6. ASSUME NEW i \in 1..Len(t), NEW j \in 1..Len(t), i <= j, t[i] = t[j] PROVE j - i < rest[t[i]]
  <2>1. /\ i + 1 \in 1..Len(left) /\ j + 1 \in 1..Len(left) /\ t[i] = left[i + 1] /\ t[j] = left[j + 1]
        /\ i + 1 <= j + 1 /\ i \in Nat /\ j \in Nat /\ i >= 1
    BY <1>1, <1>2, <1>6
  <2>2. t[i] \in Known
    BY <2>1, <1>4
  <2>3. (j + 1) - (i + 1) < found[t[i]]
    BY <2>1, <1>6 DEF Enough
  <2>4. ASSUME t[i] = n PROVE (j + 1) - 1 < found[n]
    BY <2>1, <2>4, <1>1, <1>6 DEF Enough
  <2>5. CASE t[i] = n
    BY <2>1, <2>2, <2>4, <2>5, <1>3
  <2>6. CASE t[i] # n
    BY <2>1, <2>2, <2>3, <2>6, <1>3
  <2> QED
    BY <2>5, <2>6
<1>7. Enough(rest, t)
  BY <1>6 DEF Enough
<1> QED
  BY <1>5, <1>7 DEF rest, t, n

\* What an up() without a limit selects is all that has no record, ...
LEMMA PendingCovers ==
    ASSUME NEW found \in [Known -> Nat]
    PROVE  Covers(found, Limited(Pending(found), 0))
<1> DEFINE times == [n \in Known |-> IF found[n] = 0 THEN Listed(n) ELSE 0]
<1>1. \A n \in Known : Listed(n) \in Nat /\ Listed(n) > 0
  BY KnownType
<1>2. times \in [Known -> Nat]
  BY <1>1
<1>3. Limited(Pending(found), 0) = InOrder(times)
  BY DEF Limited, Pending
<1>4. \A n \in Known : found[n] > 0 \/ times[n] > 0
  <2> TAKE n \in Known
  <2>1. found[n] \in Nat
    OBVIOUS
  <2> QED
    BY <2>1, <1>1
<1> HIDE DEF times
<1> DEFINE s == InOrder(times)
<1>5. \A n \in Known : times[n] > 0 => \E a \in 1..Len(s) : s[a] = n
  BY <1>2, InOrderAscends
<1> HIDE DEF s
<1>6. Covers(found, s)
  BY <1>4, <1>5 DEF Covers
<1> QED
  BY <1>3, <1>6 DEF s

\* ... and what is left goes on to be.
LEMMA CoversNext ==
    ASSUME NEW found \in [Known -> Nat], NEW left \in Seq(Known), left # <<>>,
           Covers(found, left), found[Head(left)] > 0
    PROVE  Covers(found, Tail(left))
<1> DEFINE t == Tail(left)
<1>1. Len(left) \in Nat /\ Head(left) = left[1]
  BY HeadTailProperties
<1>2. Len(t) = Len(left) - 1 /\ \A i \in 1..(Len(left) - 1) : t[i] = left[i + 1]
  BY HeadTailProperties
<1> HIDE DEF t
<1>3. ASSUME NEW n \in Known, ~(found[n] > 0) PROVE \E i \in 1..Len(t) : t[i] = n
  <2>1. PICK i \in 1..Len(left) : left[i] = n
    BY <1>3 DEF Covers
  <2>2. i # 1
    BY <2>1, <1>1, <1>3
  <2>3. i - 1 \in 1..Len(t) /\ (i - 1) + 1 = i /\ i - 1 \in 1..(Len(left) - 1)
    BY <2>2, <1>1, <1>2
  <2>4. t[i - 1] = n
    BY <2>1, <2>3, <1>2
  <2> QED
    BY <2>3, <2>4
<1>4. Covers(found, t)
  BY <1>3 DEF Covers
<1> QED
  BY <1>4 DEF t

LEMMA CoversMore ==
    ASSUME NEW found, NEW more, NEW left, Covers(found, left),
           \A n \in Known : found[n] > 0 => more[n] > 0
    PROVE  Covers(more, left)
BY DEF Covers

--------------------------------------------------------------------------------
(* What has come of a statement.                                                *)

\* The one request of a call.
LEMMA Lone ==
    ASSUME NEW s \in Seq(Entry), NEW c, Cardinality(OwnIn(s, c)) = 1
    PROVE  \E i \in 1..Len(s) : OwnIn(s, c) = {i} /\ (CHOOSE x \in OwnIn(s, c) : TRUE) = i
<1>1. IsFiniteSet(OwnIn(s, c))
  BY OwnType
<1>2. PICK i : OwnIn(s, c) = {i}
  <2> HIDE DEF OwnIn
  <2> QED
    BY <1>1, FS_Singleton
<1>3. i \in 1..Len(s)
  BY <1>2 DEF OwnIn
<1> QED
  BY <1>2, <1>3

LEMMA Words ==
    /\ \A x : <<"ok", x>> # <<>> /\ <<"ok", x>> # Refused /\ <<"ok", x>>[2] = x
    /\ Refused # <<>>
    /\ \A e \in Entry : Answered(e) => e.reply = <<"ok", e.reply[2]>>
<1>1. \A x : Len(<<"ok", x>>) = 2 /\ <<"ok", x>>[2] = x
  OBVIOUS
<1>2. Len(Refused) = 1 /\ Len(<<>>) = 0
  BY DEF Refused
<1>3. ASSUME NEW e \in Entry, Answered(e) PROVE e.reply = <<"ok", e.reply[2]>>
  BY <1>3 DEF Entry, Replies, Answered
<1> QED
  BY <1>1, <1>2, <1>3

\* Where a pending statement is.
LEMMA WordThere ==
    ASSUME SchemaInv, NEW c \in Callers, call[c].op = "statement", call[c].outcome = "pending"
    PROVE  \E i \in 1..Len(flight[dbOf[c]]) : Own(c) = {i} /\ Word(c) = flight[dbOf[c]][i].reply
<1>1. flight[dbOf[c]] \in Seq(Entry)
  BY DEF SchemaInv, SchemaType
<1>2. Cardinality(OwnIn(flight[dbOf[c]], c)) = 1
  BY DEF SchemaInv, Counted, Own
<1>3. PICK i \in 1..Len(flight[dbOf[c]]) : /\ OwnIn(flight[dbOf[c]], c) = {i}
                                           /\ (CHOOSE x \in OwnIn(flight[dbOf[c]], c) : TRUE) = i
  BY <1>1, <1>2, Lone
<1> QED
  BY <1>3 DEF Own, Word, WordIn

LEMMA WordThereAfter ==
    ASSUME SchemaInv', NEW c \in Callers, call'[c].op = "statement", call'[c].outcome = "pending"
    PROVE  \E i \in 1..Len(flight'[dbOf'[c]]) :
              Own(c)' = {i} /\ flight'[dbOf'[c]][i].who = c /\ Word(c)' = flight'[dbOf'[c]][i].reply
<1> DEFINE s == flight'[dbOf'[c]]
<1>1. s \in Seq(Entry)
  BY DEF SchemaInv, SchemaType
<1>2. Cardinality(OwnIn(s, c)) = 1
  BY DEF SchemaInv, Counted, Own
<1> HIDE DEF s
<1>3. PICK i \in 1..Len(s) : OwnIn(s, c) = {i} /\ (CHOOSE x \in OwnIn(s, c) : TRUE) = i
  BY <1>1, <1>2, Lone
<1>4. s[i].who = c
  BY <1>3 DEF OwnIn
<1>5. Own(c)' = OwnIn(s, c) /\ Word(c)' = WordIn(call'[c], s, c)
  BY DEF Own, Word, s
<1>6. Word(c)' = s[i].reply
  BY <1>3, <1>5 DEF WordIn
<1> QED
  BY <1>3, <1>4, <1>5, <1>6 DEF s

\* What a step on the schema does to a call.
Heeds(c) ==
    /\ call'[c].op = call[c].op /\ call'[c].of = call[c].of
    /\ call[c].outcome # "pending" => call'[c] = call[c]
    /\ call[c].op = "statement" =>
          \/ call'[c] = call[c]
          \/ /\ call'[c].outcome = "failed"
             /\ losses' = losses + 1 \/ \E i \in Own(c) : flight[dbOf[c]][i].reply = Refused
          \/ /\ call'[c].outcome = "done"
             /\ \E i \in Own(c) : LET e == flight[dbOf[c]][i] IN Answered(e) /\ call'[c].got = e.reply[2]
    /\ call[c].op = "get" /\ call[c].of = MigrationClass =>
          \/ call'[c].outcome = call[c].outcome
          \/ call'[c].outcome \in {"failed", "missing"}
          \/ call'[c].outcome = "found" /\ Finds(c, MigrationClass)'

\* A statement is what it was, or lost with its connection.
LEMMA WordStays ==
    ASSUME SchemaInv, SchemaInv', UNCHANGED dbOf, NEW R, Flows(R),
           NEW c \in Callers, \A e \in R : e.who # c,
           call[c].op = "statement", call'[c] = call[c]
    PROVE  Word(c)' = Word(c)
<1> DEFINE d == dbOf[c]
<1>1. CASE call[c].outcome # "pending"
  BY <1>1 DEF Word, WordIn
<1>2. CASE call[c].outcome = "pending"
  <2>1. PICK i \in 1..Len(flight[d]) : Own(c) = {i} /\ Word(c) = flight[d][i].reply
    BY <1>2, WordThere
  <2>2. PICK j \in 1..Len(flight'[d]) :
            Own(c)' = {j} /\ flight'[d][j].who = c /\ Word(c)' = flight'[d][j].reply
    BY <1>2, WordThereAfter
  <2>3. flight'[d][j].what \in Statements /\ c # Nobody /\ d \in Dbs
    <3>1. d \in Dbs /\ c # Nobody
      BY HeldType, SchemaAssumption
    <3>2. Traced(d)'
      BY <3>1 DEF SchemaInv
    <3>3. flight'[d][j].what \in AskedBy(call'[c].op)
      BY <2>2, <3>1, <3>2 DEF Traced
    <3> QED
      BY <3>1, <3>3, AskedType
  <2>4. flight'[d][j].what \notin SchemaRequests
    BY <2>3, StatementType
  <2>5. Carried(d, flight'[d][j])
    BY <2>2, <2>3, <2>4 DEF Flows
  <2>6. PICK x \in 1..Len(flight[d]) : /\ flight'[d][j].reply = flight[d][x].reply
                                       /\ flight'[d][j].who \in {flight[d][x].who, Nobody}
    BY <2>5 DEF Carried
  <2>7. x \in Own(c)
    BY <2>2, <2>3, <2>6 DEF Own, OwnIn
  <2> QED
    BY <2>1, <2>2, <2>6, <2>7
<1> QED
  BY <1>1, <1>2

LEMMA WordMoves ==
    ASSUME SchemaInv, SchemaInv', UNCHANGED dbOf, Flows({}), NEW c \in Callers, Heeds(c),
           call[c].op = "statement"
    PROVE  Word(c)' = Word(c) \/ (Word(c)' = Refused /\ losses' = losses + 1)
<1> DEFINE d == dbOf[c]
<1>1. CASE call'[c] = call[c]
  BY <1>1, WordStays
<1>2. ASSUME NEW i \in Own(c) PROVE Word(c) = flight[d][i].reply /\ flight[d][i] \in Entry
  <2>1. i \in 1..Len(flight[d]) /\ flight[d][i].who = c /\ d \in Dbs /\ c # Nobody
    BY <1>2, HeldType, SchemaAssumption DEF Own, OwnIn
  <2>2. call[c].outcome = "pending" /\ flight[d][i] \in Entry
    BY <2>1, InFlight
  <2> QED
    BY <1>2, <2>2, WordThere
<1>3. CASE /\ call'[c].outcome = "failed"
           /\ losses' = losses + 1 \/ \E i \in Own(c) : flight[d][i].reply = Refused
  BY <1>3, <1>2 DEF Word, WordIn
<1>4. CASE /\ call'[c].outcome = "done"
           /\ \E i \in Own(c) : Answered(flight[d][i]) /\ call'[c].got = flight[d][i].reply[2]
  <2>1. PICK i \in Own(c) : Answered(flight[d][i]) /\ call'[c].got = flight[d][i].reply[2]
    BY <1>4
  <2>2. Word(c)' = <<"ok", call'[c].got>>
    BY <1>4 DEF Word, WordIn
  <2> QED
    BY <2>1, <2>2, <1>2, Words
<1> QED
  BY <1>1, <1>3, <1>4 DEF Heeds

--------------------------------------------------------------------------------
(* The steps on the schema.                                                     *)

LEMMA HeedsStill ==
    ASSUME NEW c \in Callers, call'[c] = call[c]
    PROVE  Heeds(c)
BY DEF Heeds

LEMMA ContinueHeeds ==
    ASSUME SchemaInv, NEW x \in Callers, Continue(x), NEW c \in Callers
    PROVE  Heeds(c)
<1> DEFINE k == call[x]
<1>1. k \in CallRecord /\ call \in [Callers -> CallRecord]
  BY DEF SchemaInv, SchemaType
<1>2. k.outcome = "pending" /\ k.sent = 0 /\ UNCHANGED <<api, dbOf, changes, cached, losses>>
  BY DEF Continue
<1>3. k.op # "statement"
  BY <1>2 DEF SchemaInv, Counted
<1>4. \A t : Finds(x, t)' <=> Finds(x, t)
  BY <1>2 DEF Finds, HasCached, Contents
<1> HIDE DEF k
<1>5. ASSUME NEW outcome, Settled(x, k, outcome),
             k.op = "get" /\ k.of = MigrationClass =>
                outcome \in {"failed", "missing"} \/ (outcome = "found" /\ Finds(x, MigrationClass))
      PROVE  Heeds(c)
  <2>1. call' = [call EXCEPT ![x] = [k EXCEPT !.outcome = outcome, !.todo = <<>>]]
    BY <1>5 DEF Settled
  <2>2. /\ \A y \in Callers : y # x => call'[y] = call[y]
        /\ call'[x].op = k.op /\ call'[x].of = k.of /\ call'[x].outcome = outcome
    BY <2>1, <1>1 DEF CallRecord
  <2>3. CASE c # x
    BY <2>2, <2>3, HeedsStill
  <2>4. CASE c = x
    <3>1. call'[c].op = call[c].op /\ call'[c].of = call[c].of
      BY <2>2, <2>4 DEF k
    <3>2. call[c].outcome = "pending" /\ call[c].op # "statement"
      BY <1>2, <1>3, <2>4 DEF k
    <3>3. call[c].op = "get" /\ call[c].of = MigrationClass =>
              call'[c].outcome \in {"failed", "missing"} \/ (call'[c].outcome = "found" /\ Finds(c, MigrationClass)')
      BY <1>4, <1>5, <2>2, <2>4 DEF k
    <3> QED
      BY <3>1, <3>2, <3>3 DEF Heeds
  <2> QED
    BY <2>3, <2>4
<1>6. CASE Unknown(x)
  BY <1>6, <1>5 DEF Continue, k
<1>7. CASE ~Unknown(x) /\ k.todo # <<>>
  <2>1. Sends(x, k)
    BY <1>7 DEF Continue, k
  <2>2. /\ \A y \in Callers : y # x => call'[y] = call[y]
        /\ call'[x].op = k.op /\ call'[x].of = k.of /\ call'[x].outcome = k.outcome
    BY <2>1, <1>1, SendsMoves
  <2> QED
    BY <2>2, <1>2, <1>3 DEF Heeds, k
<1>8. CASE ~Unknown(x) /\ k.todo = <<>>
  <2>1. IF k.of[1] = "property" THEN FinishProperty(x, k) ELSE FinishThing(x, k)
    BY <1>8 DEF Continue, k
  <2>2. CASE k.op = "get" /\ k.of = MigrationClass
    <3>1. k.of[1] = "class"
      BY <2>2, ClassBegins
    <3>2. FinishThing(x, k)
      BY <2>1, <3>1
    <3>3. Settled(x, k, IF Finds(x, k.of) THEN "found" ELSE "missing")
      BY <3>1, <3>2, <2>2 DEF FinishThing
    <3> QED
      BY <3>3, <2>2, <1>5
  <2>3. CASE ~(k.op = "get" /\ k.of = MigrationClass)
    BY <2>1, <1>1, ThingSettles, PropertySettles, <2>3, <1>5
  <2> QED
    BY <2>2, <2>3
<1> QED
  BY <1>6, <1>7, <1>8

LEMMA ReplyHeeds ==
    ASSUME SchemaInv, NEW d \in Dbs, NEW i, Reply(d, i), NEW c \in Callers
    PROVE  Heeds(c)
<1> DEFINE e == flight[d][i]
           failed == e.reply = Refused
           k == call[c]
<1>1. /\ i \in 1..Len(flight[d]) /\ e.reply # <<>> /\ UNCHANGED dbOf
      /\ IF e.who = Nobody THEN UNCHANGED call
         ELSE call' = [call EXCEPT ![e.who] = IF failed THEN Failed(call[e.who]) ELSE Heard(call[e.who], e)]
  BY DEF Reply, Refused
<1>2. /\ e \in Entry
      /\ e.who # Nobody => /\ e.who \in Callers /\ i \in Own(e.who) /\ dbOf[e.who] = d
                           /\ e.what \in AskedBy(call[e.who].op) /\ call[e.who].sent > 0
                           /\ call[e.who].outcome = "pending"
  BY <1>1, InFlight
<1>0. call \in [Callers -> CallRecord]
  BY DEF SchemaInv, SchemaType
<1>3. CASE e.who # c
  BY <1>0, <1>1, <1>2, <1>3, HeedsStill
<1>4. CASE e.who = c /\ failed
  <2>1. c # Nobody
    BY SchemaAssumption
  <2>2. call'[c] = Failed(k)
    BY <1>0, <1>1, <1>2, <1>4, <2>1
  <2>3. call'[c].op = k.op /\ call'[c].of = k.of /\ call'[c].outcome = "failed"
    BY <2>2, <1>0, FailedType
  <2>4. i \in Own(c) /\ flight[dbOf[c]][i].reply = Refused /\ call[c].outcome = "pending"
    BY <1>2, <1>4, <2>1
  <2> QED
    BY <2>3, <2>4 DEF Heeds
<1>5. CASE e.who = c /\ ~failed
  <2>1. c # Nobody
    BY SchemaAssumption
  <2>2. call'[c] = Heard(k, e)
    BY <1>0, <1>1, <1>2, <1>5, <2>1
  <2>3. k \in CallRecord /\ k.sent > 0 /\ Answered(e) /\ e.what \in AskedBy(k.op) /\ e \in Entry
        /\ i \in Own(c) /\ e = flight[dbOf[c]][i] /\ k.outcome = "pending"
    BY <1>0, <1>1, <1>2, <1>5, <2>1 DEF Answered
  <2>4. e.what \in SchemaRequests <=> k.op # "statement"
    BY StatementType, RequestType, <2>3, AskedType
  <2> HIDE DEF e, failed
  <2>5. /\ call'[c].op = k.op /\ call'[c].of = k.of
        /\ call'[c].got = IF e.what \in SchemaRequests THEN k.got ELSE e.reply[2]
        /\ call'[c].outcome = IF e.what \in SchemaRequests THEN k.outcome ELSE "done"
    <3> HIDE DEF k
    <3> QED
      BY <2>2, <2>3, HeardType
  <2>6. k.op = "statement" =>
            /\ call'[c].outcome = "done"
            /\ \E j \in Own(c) : LET y == flight[dbOf[c]][j] IN Answered(y) /\ call'[c].got = y.reply[2]
    BY <2>3, <2>4, <2>5
  <2> QED
    BY <2>3, <2>4, <2>5, <2>6 DEF Heeds
<1> QED
  BY <1>3, <1>4, <1>5

LEMMA LoseHeeds ==
    ASSUME SchemaInv, NEW d \in Dbs, Lose(d), NEW c \in Callers
    PROVE  Heeds(c)
<1> DEFINE Known2(W) == \A x \in W : x = Nobody \/ \E i \in 1..Len(flight[d]) : flight[d][i].who = x
<1>1. losses' = losses + 1 /\ \E W : Cut(W) /\ Known2(W)
  <2>0. losses' = losses + 1
    BY DEF Lose
  <2>1. CASE Cut({flight[d][i].who : i \in 1..Len(flight[d])})
    <3> DEFINE W == {flight[d][i].who : i \in 1..Len(flight[d])}
    <3>1. Known2(W)
      OBVIOUS
    <3> HIDE DEF W, Known2
    <3>2. Cut(W)
      BY <2>1 DEF W
    <3> QED
      BY <2>0, <3>1, <3>2
  <2>2. ASSUME NEW i \in 1..Len(flight[d]), Cut({flight[d][i].who} \ {Nobody})
        PROVE  \E W : Cut(W) /\ Known2(W)
    <3> DEFINE W == {flight[d][i].who} \ {Nobody}
    <3>1. Known2(W)
      OBVIOUS
    <3> HIDE DEF W, Known2
    <3>2. Cut(W)
      BY <2>2 DEF W
    <3> QED
      BY <3>1, <3>2
  <2> HIDE DEF Known2
  <2>3. \/ Cut({flight[d][i].who : i \in 1..Len(flight[d])})
        \/ \E i \in 1..Len(flight[d]) : Cut({flight[d][i].who} \ {Nobody})
    BY DEF Lose
  <2> QED
    BY <2>0, <2>1, <2>2, <2>3
<1>2. PICK W : Cut(W) /\ \A x \in W : x = Nobody \/ \E i \in 1..Len(flight[d]) : flight[d][i].who = x
  BY <1>1
<1>3. CASE c \notin W
  BY <1>2, <1>3, HeedsStill DEF Cut
<1>4. CASE c \in W
  <2>1. c # Nobody /\ call[c] \in CallRecord
    BY SchemaAssumption, HeldType
  <2>2. call[c].outcome = "pending"
    BY <2>1, <1>2, <1>4, InFlight
  <2>3. call'[c] = Failed(call[c])
    BY <1>2, <1>4 DEF Cut
  <2>4. call'[c].op = call[c].op /\ call'[c].of = call[c].of /\ call'[c].outcome = "failed"
    BY <2>1, <2>3, FailedType
  <2> QED
    BY <2>2, <2>4, <1>1 DEF Heeds
<1> QED
  BY <1>3, <1>4

--------------------------------------------------------------------------------
(* Over a pool no list is on its way but to a manager that waits for it.        *)

\* A request in flight that was in flight, and whose it was, or nobody's.
Comes(d, e) == \E i \in 1..Len(flight[d]) :
    e.what = flight[d][i].what /\ e.who \in {flight[d][i].who, Nobody}
Clear(v, d, e) == DatedBy(v, e) /\ Passed(e) /\ Comes(d, e)
Fewer(c) == call'[c].sent <= call[c].sent /\ call'[c].todo \in {call[c].todo, <<>>}

LEMMA AloneStill ==
    ASSUME SchemaInv, SchemaInv', UNCHANGED dbOf, NEW c \in Callers, Alone(c), Fewer(c),
           \A j \in 1..Len(flight'[dbOf[c]]) : Comes(dbOf[c], flight'[dbOf[c]][j])
    PROVE  Alone(c)'
<1> DEFINE d == dbOf[c]
<1>0. d \in Dbs /\ c # Nobody /\ call[c] \in CallRecord /\ dbOf'[c] = d
  BY HeldType, SchemaAssumption
<1>1. \A i \in 1..Len(call'[c].todo) : Solo(call'[c].todo[i])
  <2>1. CASE call'[c].todo = call[c].todo
    BY <2>1 DEF Alone
  <2>2. CASE call'[c].todo = <<>>
    BY <2>2
  <2> QED
    BY <2>1, <2>2 DEF Fewer
<1>2. ASSUME NEW i \in Own(c)', flight'[d][i].what.op = "list" PROVE call'[c].sent = 1
  <2>1. i \in 1..Len(flight'[d]) /\ flight'[d][i].who = c
    BY <1>0, <1>2 DEF Own, OwnIn
  <2>2. PICK x \in 1..Len(flight[d]) : flight[d][x].what = flight'[d][i].what /\ flight[d][x].who = c
    BY <2>1, <1>0 DEF Comes
  <2>3. x \in Own(c) /\ flight[d][x].what.op = "list"
    BY <2>2, <1>2 DEF Own, OwnIn
  <2>4. call[c].sent = 1
    BY <2>3 DEF Alone
  <2>5. call'[c] \in CallRecord /\ flight'[d] \in Seq(Entry) /\ Counted(c)'
    BY <1>0 DEF SchemaInv, SchemaType
  <2>6. call'[c].sent = Cardinality(OwnIn(flight'[d], c)) /\ i \in OwnIn(flight'[d], c)
    BY <2>5, <1>0, <1>2 DEF Counted, Own
  <2>7. call'[c].sent # 0 /\ call'[c].sent \in Nat
    BY <2>5, <2>6, OwnType
  <2> QED
    BY <2>4, <2>7 DEF Fewer
<1> QED
  BY <1>0, <1>1, <1>2 DEF Alone

LEMMA TidyStill ==
    ASSUME SchemaInv, SchemaInv', Tidy, UNCHANGED <<api, dbOf>>,
           \A d \in Dbs : opened'[d],
           \A d \in Dbs, k \in Kinds : cached'[d][k] <= Len(changes'),
           \A d \in Dbs : \A j \in 1..Len(flight'[d]) : Clear(Len(changes'), d, flight'[d][j]),
           \A c \in Callers : Fewer(c)
    PROVE  Tidy'
<1>1. \A c \in Callers : dbOf[c] \in Dbs /\ Alone(c)
  BY HeldType DEF Tidy
<1>2. \A c \in Callers : Alone(c)'
  BY <1>1, AloneStill DEF Clear
<1>3. /\ api' = "client" /\ \A a, b \in Callers : dbOf'[a] = dbOf'[b] => a = b
  BY DEF Tidy
<1>4. \A d \in Dbs : /\ opened'[d]
                     /\ \A k \in Kinds : cached'[d][k] <= Len(changes')
                     /\ \A i \in 1..Len(flight'[d]) : DatedBy(Len(changes'), flight'[d][i]) /\ Passed(flight'[d][i])
  BY DEF Clear
<1> QED
  BY <1>2, <1>3, <1>4 DEF Tidy

\* What a failed call leaves behind.
LEMMA LeftBehind ==
    ASSUME SchemaInv, NEW c \in Callers, Alone(c), NEW i \in Own(c), NEW x \in Own(c), i # x
    PROVE  flight[dbOf[c]][x].what \in SchemaRequests /\ flight[dbOf[c]][x].what.op # "list"
<1> DEFINE d == dbOf[c]
           e == flight[d][x]
<1>0. d \in Dbs /\ c # Nobody /\ flight[d] \in Seq(Entry) /\ x \in 1..Len(flight[d]) /\ e.who = c
  BY HeldType, SchemaAssumption DEF SchemaInv, SchemaType, Own, OwnIn
<1>1. e.what \in AskedBy(call[c].op) /\ call[c].outcome = "pending"
  BY <1>0, InFlight
<1>2. call[c].sent # 1
  <2>1. IsFiniteSet(Own(c))
    BY <1>0, OwnType DEF Own
  <2>2. ~\E y : Own(c) = {y}
    OBVIOUS
  <2>3. Cardinality(Own(c)) # 1
    <3> HIDE DEF Own
    <3> QED
      BY <2>1, <2>2, FS_Singleton
  <2> QED
    BY <2>3 DEF SchemaInv, Counted
<1>3. call[c].op # "statement"
  BY <1>1, <1>2 DEF SchemaInv, Counted
<1>4. e.what \in SchemaRequests
  BY <1>1, <1>3, AskedType
<1>5. e.what.op # "list"
  BY <1>2 DEF Alone
<1> QED
  BY <1>4, <1>5

\* What is left when the request i is taken out and W wait no more.
Leaves(d, i, W, s) == s \in {RemoveAt(flight[d], i), Disowned(RemoveAt(flight[d], i), W)}
Others(d, i, W, s) == \A j \in 1..Len(s) : \E x \in 1..Len(flight[d]) :
    /\ x # i /\ s[j].what = flight[d][x].what /\ s[j].reply = flight[d][x].reply
    /\ s[j].who = flight[d][x].who \/ (s[j].who = Nobody /\ flight[d][x].who \in W)

LEMMA RestOthers ==
    ASSUME SchemaInv, NEW d \in Dbs, NEW i \in 1..Len(flight[d]), NEW W, NEW s, Leaves(d, i, W, s)
    PROVE  Others(d, i, W, s)
<1> DEFINE f == flight[d]
           r == RemoveAt(f, i)
<1>0. f \in Seq(Entry) /\ Len(f) \in Nat
  BY DEF SchemaInv, SchemaType
<1>1. /\ r \in Seq(Entry) /\ Len(r) = Len(f) - 1
      /\ \A j \in 1..(Len(f) - 1) : r[j] = IF j < i THEN f[j] ELSE f[j + 1]
  BY <1>0, Removal
<1> HIDE DEF r
<1>2. ASSUME NEW j \in 1..Len(r) PROVE \E x \in 1..Len(f) : x # i /\ r[j] = f[x]
  <2>1. j \in 1..Len(f) /\ j + 1 \in 1..Len(f) /\ j \in 1..(Len(f) - 1)
    BY <1>0, <1>1
  <2>2. CASE j < i
    BY <2>1, <2>2, <1>1
  <2>3. CASE ~(j < i)
    BY <2>1, <2>3, <1>1
  <2> QED
    BY <2>2, <2>3
<1>3. CASE s = r
  <2> HIDE DEF f
  <2> QED
    BY <1>2, <1>3 DEF f, Others
<1>4. CASE s = Disowned(r, W)
  <2>2. /\ Len(s) = Len(r)
        /\ \A j \in 1..Len(r) : /\ s[j].who = IF r[j].who \in W THEN Nobody ELSE r[j].who
                                /\ s[j].what = r[j].what /\ s[j].reply = r[j].reply
    BY <1>1, <1>4, DisownedType, SMTT(30)
  <2> HIDE DEF f
  <2>3. ASSUME NEW j \in 1..Len(s)
        PROVE  \E x \in 1..Len(f) : /\ x # i /\ s[j].what = f[x].what /\ s[j].reply = f[x].reply
                                    /\ s[j].who = f[x].who \/ (s[j].who = Nobody /\ f[x].who \in W)
    <3>1. PICK x \in 1..Len(f) : x # i /\ r[j] = f[x]
      BY <2>2, <1>2
    <3> QED
      BY <3>1, <2>2
  <2> QED
    BY <2>3 DEF f, Others
<1> QED
  BY <1>3, <1>4 DEF r, Leaves

LEMMA RestClear ==
    ASSUME SchemaInv, Tidy, NEW d \in Dbs, NEW i \in 1..Len(flight[d]), NEW W,
           W \subseteq {flight[d][i].who}, NEW s, Leaves(d, i, W, s)
    PROVE  \A j \in 1..Len(s) : Clear(Len(changes), d, s[j])
<1>0. \A j \in 1..Len(s) : \E x \in 1..Len(flight[d]) :
          /\ x # i /\ s[j].what = flight[d][x].what /\ s[j].reply = flight[d][x].reply
          /\ s[j].who = flight[d][x].who \/ (s[j].who = Nobody /\ flight[d][x].who \in W)
  BY RestOthers DEF Others
<1> TAKE j \in 1..Len(s)
<1> DEFINE f == flight[d]
           e == s[j]
<1>1. PICK x \in 1..Len(f) : /\ x # i /\ e.what = f[x].what /\ e.reply = f[x].reply
                             /\ e.who = f[x].who \/ (e.who = Nobody /\ f[x].who \in W)
  BY <1>0
<1>2. DatedBy(Len(changes), f[x]) /\ Passed(f[x])
  BY DEF Tidy
<1> HIDE DEF e
<1>3. DatedBy(Len(changes), e)
  BY <1>1, <1>2 DEF DatedBy, Ok, Answered
<1>4. Comes(d, e)
  BY <1>1 DEF Comes
<1>5. Passed(e)
  <2>1. CASE e.who = f[x].who
    BY <2>1, <1>1, <1>2 DEF Passed
  <2>2. CASE f[x].who \in W /\ f[x].who # Nobody
    <3>1. f[x].who = f[i].who
      BY <2>2
    <3> DEFINE c == f[x].who
    <3>2. c \in Callers /\ dbOf[c] = d /\ x \in Own(c)
      BY <2>2, InFlight
    <3>3. i \in Own(c)
      BY <2>2, <3>1, InFlight
    <3>4. Alone(c)
      BY <3>2 DEF Tidy
    <3> HIDE DEF c
    <3>5. f[x].what \in SchemaRequests /\ f[x].what.op # "list"
      BY <3>2, <3>3, <3>4, <1>1, LeftBehind
    <3> QED
      BY <3>5, <1>1 DEF Passed
  <2>3. CASE f[x].who = Nobody
    BY <2>3, <1>1, <1>2 DEF Passed
  <2> QED
    BY <2>1, <2>2, <2>3, <1>1
<1> QED
  BY <1>3, <1>4, <1>5 DEF Clear, e

\* Who waits for no list keeps what is cached.
Listless(m) == call[m].outcome # "pending" \/ call[m].op = "statement"
Retains(m) == Listless(m) => cached'[dbOf[m]] = cached[dbOf[m]]
TidyStep == Tidy' /\ Grew(changes, changes') /\ \A m \in Callers : Retains(m)

LEMMA TidyFacts ==
    ASSUME SchemaInv, Tidy
    PROVE  /\ \A c \in Callers : /\ dbOf[c] \in Dbs /\ c # Nobody /\ call[c] \in CallRecord
                                 /\ call[c].sent \in Nat /\ call[c].sent <= call[c].sent /\ 0 <= call[c].sent
           /\ \A d \in Dbs, k \in Kinds : cached[d][k] <= Len(changes) /\ cached[d][k] \in Int
           /\ \A d \in Dbs : opened[d]
           /\ \A d \in Dbs : \A i \in 1..Len(flight[d]) : Clear(Len(changes), d, flight[d][i])
           /\ Len(changes) \in Nat /\ changes \in Seq(Change) /\ Contents = History(changes)
           /\ Grew(changes, changes)
<1>1. \A c \in Callers : /\ dbOf[c] \in Dbs /\ c # Nobody /\ call[c] \in CallRecord
                         /\ call[c].sent \in Nat
  BY HeldType, SchemaAssumption, CallType
<1>2. \A c \in Callers : call[c].sent <= call[c].sent /\ 0 <= call[c].sent
  BY <1>1
<1>3. \A d \in Dbs, k \in Kinds : cached[d][k] <= Len(changes) /\ cached[d][k] \in Int
  BY LegacyType DEF Tidy
<1>4. \A d \in Dbs : \A i \in 1..Len(flight[d]) : Clear(Len(changes), d, flight[d][i])
  BY DEF Tidy, Clear, Comes
<1>5. \A d \in Dbs : opened[d]
  BY DEF Tidy
<1> QED
  BY <1>1, <1>2, <1>3, <1>4, <1>5, LegacyType

\* A later version of the schema does no harm.
LEMMA ClearLater ==
    ASSUME SchemaInv, NEW d \in Dbs, NEW i \in 1..Len(flight[d]), NEW v \in Nat, NEW w \in Nat, v <= w,
           Clear(v, d, flight[d][i])
    PROVE  Clear(w, d, flight[d][i])
<1> DEFINE e == flight[d][i]
<1>1. Ok(e) => e.reply[2] \in Nat
  BY InFlight, EntryType
<1> HIDE DEF e
<1>2. DatedBy(v, e) => DatedBy(w, e)
  BY <1>1 DEF DatedBy
<1> QED
  BY <1>2 DEF Clear, e

LEMMA TidyServed ==
    ASSUME SchemaInv, SchemaInv', Tidy, NEW d \in Dbs, NEW i, NEW reply, Served(d, i, reply),
           flight[d][i].what \in SchemaRequests => reply = Refused \/ reply = <<"ok", Len(changes')>>,
           Grew(changes, changes'), UNCHANGED <<api, dbOf, cached, call, opened>>
    PROVE  TidyStep
<1> DEFINE v == Len(changes)
           w == Len(changes')
<1>0. v \in Nat /\ w \in Nat /\ v <= w
  BY TidyFacts DEF SchemaInv, SchemaType, Grew
<1> HIDE DEF v, w
<1>1. /\ i \in 1..Len(flight[d]) /\ Len(flight'[d]) = Len(flight[d])
      /\ \A x \in Dbs : x # d => flight'[x] = flight[x]
      /\ \A j \in 1..Len(flight[d]) : j # i => flight'[d][j] = flight[d][j]
      /\ flight'[d][i].who = flight[d][i].who /\ flight'[d][i].what = flight[d][i].what
      /\ flight'[d][i].reply = reply
  BY ServedFlight
<1>2. \A x \in Dbs : \A j \in 1..Len(flight[x]) : Clear(w, x, flight[x][j])
  BY <1>0, TidyFacts, ClearLater DEF v
<1>3. Clear(w, d, flight'[d][i])
  <2> DEFINE e == flight[d][i]
             e2 == flight'[d][i]
  <2>1. Clear(w, d, e) /\ e2.who = e.who /\ e2.what = e.what /\ e2.reply = reply
    BY <1>1, <1>2
  <2>2. e.what \in SchemaRequests => reply = Refused \/ reply = <<"ok", w>>
    BY DEF w
  <2>3. <<"ok", w>>[2] = w
    OBVIOUS
  <2> HIDE DEF e, e2
  <2>4. DatedBy(w, e2)
    BY <2>1, <2>2, <2>3, <1>0 DEF DatedBy, Ok, Answered
  <2>5. Passed(e2) /\ Comes(d, e2)
    BY <2>1 DEF Clear, Passed, Comes
  <2> QED
    BY <2>4, <2>5 DEF Clear, e2
<1>4. \A x \in Dbs : \A j \in 1..Len(flight'[x]) : Clear(w, x, flight'[x][j])
  BY <1>1, <1>2, <1>3
<1>5. \A x \in Dbs, k \in Kinds : cached'[x][k] <= w
  BY TidyFacts, <1>0 DEF v
<1>6. \A c \in Callers : Fewer(c)
  BY TidyFacts DEF Fewer
<1>7. \A x \in Dbs : opened'[x]
  BY TidyFacts
<1>8. Tidy'
  BY <1>4, <1>5, <1>6, <1>7, TidyStill DEF w
<1> QED
  BY <1>8 DEF TidyStep, Retains

LEMMA TidyServe ==
    ASSUME SchemaInv, SchemaInv', Tidy, NEW d \in Dbs, NEW i, Serve(d, i)
    PROVE  TidyStep
<1> DEFINE r == flight[d][i].what
           v == Len(changes)
<1>1. i \in 1..Len(flight[d]) /\ r.op \in SchemaOps /\ UNCHANGED <<api, dbOf, cached, call, opened>>
  BY DEF Serve
<1>2. changes \in Seq(Change) /\ v \in Nat /\ Grew(changes, changes)
  BY TidyFacts
<1>3. r \in SchemaRequests
  BY <1>1, InFlight, StatementType
<1> HIDE DEF r
<1>5. CASE ~Possible(r)
  <2>1. Served(d, i, Refused) /\ changes' = changes
    BY <1>5 DEF Serve, Refused, r
  <2> QED
    BY <2>1, <1>1, <1>2, TidyServed
<1>6. CASE Possible(r) /\ r.op \in {"create", "drop", "rename"}
  <2> DEFINE x == [removed |-> IF r.op = "create" THEN {} ELSE PartsOf(r.of),
                   added |-> IF r.op = "drop" THEN {} ELSE {r.to}]
  <2>1. changes' = Append(changes, x) /\ Served(d, i, <<"ok", v + 1>>)
    BY <1>6 DEF Serve, r, v
  <2>2. x \in Change
    BY <1>3, <1>6, StatementType, PartsType DEF Change
  <2> HIDE DEF x
  <2>3. Grew(changes, changes') /\ Len(changes') = v + 1
    BY <2>1, <2>2, <1>2, GrowsBy
  <2>4. <<"ok", v + 1>> = <<"ok", Len(changes')>>
    BY <2>3
  <2> QED
    BY <2>1, <2>3, <2>4, <1>1, TidyServed
<1>7. CASE Possible(r) /\ r.op \notin {"create", "drop", "rename"}
  <2>1. Served(d, i, <<"ok", v>>) /\ changes' = changes
    BY <1>7 DEF Serve, r, v
  <2> QED
    BY <2>1, <1>1, <1>2, TidyServed
<1> QED
  BY <1>5, <1>6, <1>7

LEMMA TidyServesStatement ==
    ASSUME SchemaInv, SchemaInv', Tidy, NEW d \in Dbs, NEW i, ServeStatement(d, i)
    PROVE  TidyStep
<1>1. /\ i \in 1..Len(flight[d]) /\ flight[d][i].what.op \notin SchemaOps
      /\ UNCHANGED <<api, dbOf, changes, cached, call, opened>>
      /\ \E reply : Served(d, i, reply)
  BY DEF ServeStatement
<1>2. PICK reply : Served(d, i, reply)
  BY <1>1
<1>3. flight[d][i].what \notin SchemaRequests
  BY <1>1, StatementType
<1> QED
  BY <1>1, <1>2, <1>3, TidyFacts, TidyServed

LEMMA TidyReply ==
    ASSUME SchemaInv, SchemaInv', Tidy, NEW d \in Dbs, NEW i, Reply(d, i)
    PROVE  TidyStep
<1> DEFINE e == flight[d][i]
           rest == RemoveAt(flight[d], i)
           failed == e.reply = Refused
           s == IF failed THEN Disowned(rest, {e.who}) ELSE rest
<1>1. /\ i \in 1..Len(flight[d]) /\ e.reply # <<>> /\ UNCHANGED <<api, dbOf, changes, opened>>
      /\ flight' = [flight EXCEPT ![d] = s]
      /\ cached' = IF failed \/ e.what.op # "list" THEN cached
                   ELSE [cached EXCEPT ![d][e.what.of[1]] = e.reply[2]]
      /\ IF e.who = Nobody THEN UNCHANGED call
         ELSE call' = [call EXCEPT ![e.who] = IF failed THEN Failed(call[e.who]) ELSE Heard(call[e.who], e)]
  BY DEF Reply, Refused
<1>0. /\ flight \in [Dbs -> Seq(Entry)] /\ call \in [Callers -> CallRecord]
      /\ cached \in [Dbs -> [Kinds -> Nat \cup {Never}]]
  BY DEF SchemaInv, SchemaType
<1>2. /\ e \in Entry /\ e.who \in Callers \cup {Nobody} /\ DatedBy(Len(changes), e) /\ Passed(e)
      /\ e.who # Nobody => /\ e.who \in Callers /\ dbOf[e.who] = d
                           /\ e.what \in AskedBy(call[e.who].op) /\ call[e.who].sent > 0
                           /\ call[e.who].outcome = "pending"
  BY <1>1, InFlight DEF Tidy
<1>3. \A x \in Dbs : \A j \in 1..Len(flight'[x]) : Clear(Len(changes), x, flight'[x][j])
  <2>1. Leaves(d, i, {e.who}, s)
    BY DEF Leaves
  <2> HIDE DEF s
  <2>2. \A j \in 1..Len(s) : Clear(Len(changes), d, s[j])
    BY <2>1, <1>1, RestClear
  <2>3. flight'[d] = s /\ \A x \in Dbs : x # d => flight'[x] = flight[x]
    BY <1>0, <1>1
  <2> QED
    BY <2>2, <2>3, TidyFacts
<1> HIDE DEF s, e, failed
<1>4. \A c \in Callers : Fewer(c)
  <2> TAKE c \in Callers
  <2>1. CASE e.who # c
    BY <2>1, <1>0, <1>1, <1>2, TidyFacts DEF Fewer
  <2>2. CASE e.who = c /\ failed
    <3>1. call'[c] = Failed(call[c]) /\ call[c] \in CallRecord /\ 0 <= call[c].sent
      BY <2>2, <1>0, <1>1, <1>2, TidyFacts
    <3> QED
      BY <3>1, FailedType DEF Fewer
  <2>3. CASE e.who = c /\ ~failed
    <3>1. call'[c] = Heard(call[c], e) /\ call[c] \in CallRecord /\ call[c].sent > 0 /\ call[c].sent \in Nat
          /\ e \in Entry /\ e.what \in AskedBy(call[c].op) /\ Answered(e)
      BY <2>3, <1>0, <1>1, <1>2, TidyFacts DEF Answered, failed
    <3>2. call'[c].sent = call[c].sent - 1 /\ call'[c].todo = call[c].todo
      BY <3>1, HeardType
    <3> QED
      BY <3>1, <3>2 DEF Fewer
  <2> QED
    BY <2>1, <2>2, <2>3
<1>5. \A x \in Dbs : opened'[x]
  BY <1>1, TidyFacts
<1>6. CASE failed \/ e.what.op # "list"
  <2>1. cached' = cached
    BY <1>1, <1>6
  <2>2. \A x \in Dbs, k \in Kinds : cached'[x][k] <= Len(changes')
    BY <2>1, <1>1, TidyFacts
  <2>3. Tidy'
    BY <2>2, <1>1, <1>3, <1>4, <1>5, TidyStill
  <2> QED
    BY <2>1, <2>3, <1>1, TidyFacts DEF TidyStep, Retains
<1>7. CASE ~failed /\ e.what.op = "list"
  <2>1. e.what \in SchemaRequests /\ Ok(e)
    <3>1. e.what.op \in SchemaOps /\ e.what \in Requests
      BY <1>2, <1>7 DEF SchemaOps, Entry
    <3>2. e.what \in SchemaRequests
      BY <3>1, StatementType
    <3> QED
      BY <3>2, <1>1, <1>7 DEF Ok, Answered, failed, e
  <2>2. e.reply[2] <= Len(changes) /\ e.what.of[1] \in Kinds
    BY <2>1, <1>2, <1>7, StatementType DEF DatedBy
  <2>3. cached' = [cached EXCEPT ![d][e.what.of[1]] = e.reply[2]]
    BY <1>1, <1>7
  <2>4. \A x \in Dbs, k \in Kinds : cached'[x][k] <= Len(changes')
    BY <2>3, <1>0, <2>2, <1>1, TidyFacts
  <2>5. Tidy'
    BY <2>4, <1>1, <1>3, <1>4, <1>5, TidyStill
  <2>6. ASSUME NEW m \in Callers, Listless(m) PROVE cached'[dbOf[m]] = cached[dbOf[m]]
    <3>1. e.who # Nobody
      BY <1>2, <1>7 DEF Passed
    <3>2. call[e.who].op # "statement" /\ call[e.who].outcome = "pending"
      BY <2>1, StatementType, <3>1, <1>2, AskedType
    <3>3. m # e.who
      BY <3>2, <2>6 DEF Listless
    <3>4. dbOf[m] # d /\ dbOf[m] \in Dbs
      BY <3>1, <3>3, <1>2, TidyFacts DEF Tidy
    <3> QED
      BY <3>4, <2>3, <1>0
  <2> QED
    BY <2>5, <2>6, <1>1, TidyFacts DEF TidyStep, Retains
<1> QED
  BY <1>6, <1>7

LEMMA TidyLose ==
    ASSUME SchemaInv, SchemaInv', Tidy, NEW d \in Dbs, Lose(d)
    PROVE  TidyStep
<1>0. flight \in [Dbs -> Seq(Entry)] /\ opened \in [Dbs -> BOOLEAN]
  BY DEF SchemaInv, SchemaType
<1>1. api = "client"
  BY DEF Tidy
<1>2. /\ UNCHANGED <<api, dbOf, changes, cached>> /\ opened' = [opened EXCEPT ![d] = TRUE]
      /\ \E i \in 1..Len(flight[d]) : LET W == {flight[d][i].who} \ {Nobody} IN
            /\ flight' = [flight EXCEPT ![d] = Disowned(RemoveAt(flight[d], i), W)]
            /\ Cut(W)
  BY <1>1 DEF Lose
<1>3. PICK i \in 1..Len(flight[d]) : LET W == {flight[d][i].who} \ {Nobody} IN
            /\ flight' = [flight EXCEPT ![d] = Disowned(RemoveAt(flight[d], i), W)]
            /\ Cut(W)
  BY <1>2
<1> DEFINE W == {flight[d][i].who} \ {Nobody}
           s == Disowned(RemoveAt(flight[d], i), W)
<1>4. \A x \in Dbs : \A j \in 1..Len(flight'[x]) : Clear(Len(changes), x, flight'[x][j])
  <2>1. Leaves(d, i, W, s) /\ W \subseteq {flight[d][i].who}
    BY DEF Leaves
  <2>2. flight' = [flight EXCEPT ![d] = s]
    BY <1>3
  <2> HIDE DEF s, W
  <2>3. \A j \in 1..Len(s) : Clear(Len(changes), d, s[j])
    BY <2>1, RestClear
  <2>4. flight'[d] = s /\ \A x \in Dbs : x # d => flight'[x] = flight[x]
    BY <2>2, <1>0
  <2> QED
    BY <2>3, <2>4, TidyFacts
<1>5. \A c \in Callers : Fewer(c)
  <2> TAKE c \in Callers
  <2>1. Cut(W)
    BY <1>3
  <2> HIDE DEF W
  <2>2. CASE c \notin W
    BY <2>1, <2>2, TidyFacts DEF Cut, Fewer
  <2>3. CASE c \in W
    BY <2>1, <2>3, TidyFacts, FailedType DEF Cut, Fewer
  <2> QED
    BY <2>2, <2>3
<1>6. \A x \in Dbs : opened'[x]
  BY <1>0, <1>2, TidyFacts
<1>7. \A x \in Dbs, k \in Kinds : cached'[x][k] <= Len(changes')
  BY <1>2, TidyFacts
<1>8. Tidy'
  BY <1>2, <1>4, <1>5, <1>6, <1>7, TidyStill
<1> QED
  BY <1>2, <1>8, TidyFacts DEF TidyStep, Retains

\* A call sends its next requests, when nothing else of it is on its way.
LEMMA TidySends ==
    ASSUME SchemaInv, SchemaInv', Tidy, NEW c \in Callers, NEW k \in CallRecord, call[c].sent = 0,
           \A i \in 1..Len(k.todo) : Solo(k.todo[i]), Sends(c, k),
           UNCHANGED <<api, dbOf, changes, cached>>
    PROVE  TidyStep
<1> DEFINE D == dbOf[c]
<1>0. /\ call \in [Callers -> CallRecord] /\ flight \in [Dbs -> Seq(Entry)] /\ D \in Dbs
      /\ flight[D] \in Seq(Entry) /\ opened \in [Dbs -> BOOLEAN] /\ opened[D] /\ c # Nobody
  BY TidyFacts DEF SchemaInv, SchemaType
<1>1. \A x \in Dbs : \A i \in 1..Len(flight[x]) : flight[x][i].who # c
  BY UnsentNowhere
<1>2. CASE k.todo = <<>>
  <2>1. call' = [call EXCEPT ![c] = k] /\ UNCHANGED <<flight, opened>>
    BY <1>2 DEF Sends
  <2>2. \A x \in Callers : Alone(x)'
    <3> TAKE x \in Callers
    <3>1. CASE x # c
      BY <2>1, <3>1, <1>0 DEF Tidy, Alone, Own
    <3>2. CASE x = c
      <4>1. call'[c].todo = <<>> /\ Own(c)' = {}
        BY <2>1, <1>0, <1>1, <1>2 DEF Own, OwnIn
      <4>2. Len(<<>>) = 0 /\ 1..0 = {}
        OBVIOUS
      <4> QED
        BY <3>2, <4>1, <4>2 DEF Alone
    <3> QED
      BY <3>1, <3>2
  <2>3. Tidy'
    BY <2>1, <2>2 DEF Tidy, DatedBy, Passed
  <2> QED
    BY <2>3, TidyFacts DEF TidyStep, Retains
<1>3. CASE k.todo # <<>>
  <2> DEFINE k2 == [k EXCEPT !.todo = Tail(k.todo), !.sent = Len(Head(k.todo))]
             rs == Head(k.todo)
             b == Tagged(c, rs)
             t == flight[D] \o b
  <2>1. call' = [call EXCEPT ![c] = k2] /\ flight' = [flight EXCEPT ![D] = t]
        /\ opened' = [opened EXCEPT ![D] = TRUE]
    <3>1. Reopening(c) = <<>>
      BY <1>0 DEF Reopening
    <3>2. flight[D] \o <<>> = flight[D]
      BY <1>0
    <3> QED
      BY <3>1, <3>2, <1>3 DEF Sends
  <2>2. k2.todo = Tail(k.todo) /\ k2.sent = Len(rs)
    BY DEF CallRecord
  <2> HIDE DEF k2
  <2>3. /\ rs \in Seq(Requests) /\ rs = k.todo[1] /\ 1 \in 1..Len(k.todo)
        /\ \A i \in 1..Len(Tail(k.todo)) : i + 1 \in 1..Len(k.todo) /\ Tail(k.todo)[i] = k.todo[i + 1]
    BY <1>3, CallType, HeadTailProperties
  <2> HIDE DEF rs
  <2>4. /\ b \in Seq(Entry) /\ Len(b) = Len(rs)
        /\ \A i \in 1..Len(rs) : b[i].who = c /\ b[i].what = rs[i] /\ b[i].reply = <<>>
    BY <2>3, TaggedType
  <2> HIDE DEF b
  <2>5. ASSUME NEW j \in 1..Len(t)
        PROVE  \/ j \in 1..Len(flight[D]) /\ t[j] = flight[D][j]
               \/ \E x \in 1..Len(rs) : t[j].who = c /\ t[j].what = rs[x] /\ t[j].reply = <<>>
    <3> DEFINE f == flight[D]
    <3>0. f \in Seq(Entry) /\ b \in Seq(Entry) /\ j \in 1..Len(f \o b)
      BY <1>0, <2>4
    <3> HIDE DEF f
    <3>1. (j \in 1..Len(f) /\ (f \o b)[j] = f[j]) \/ \E x \in 1..Len(b) : (f \o b)[j] = b[x]
      BY <3>0, Joined2
    <3> USE DEF f
    <3> QED
      BY <3>1, <2>4
  <2> HIDE DEF t
  <2>6. flight'[D] = t /\ \A d \in Dbs : d # D => flight'[d] = flight[d]
    BY <1>0, <2>1
  <2>7. ASSUME NEW d \in Dbs, NEW j \in 1..Len(flight'[d])
        PROVE  \/ j \in 1..Len(flight[d]) /\ flight'[d][j] = flight[d][j]
               \/ d = D /\ \E x \in 1..Len(rs) : /\ flight'[d][j].who = c /\ flight'[d][j].what = rs[x]
                                                 /\ flight'[d][j].reply = <<>>
    BY <2>5, <2>6
  <2>8. \A d \in Dbs : \A j \in 1..Len(flight'[d]) :
            DatedBy(Len(changes'), flight'[d][j]) /\ Passed(flight'[d][j])
    <3> TAKE d \in Dbs
    <3> TAKE j \in 1..Len(flight'[d])
    <3>1. CASE j \in 1..Len(flight[d]) /\ flight'[d][j] = flight[d][j]
      BY <3>1 DEF Tidy
    <3>2. CASE flight'[d][j].who = c /\ flight'[d][j].reply = <<>>
      BY <3>2, <1>0 DEF DatedBy, Passed, Ok, Answered
    <3> QED
      BY <3>1, <3>2, <2>7
  <2>9. \A x \in Callers : Alone(x)'
    <3> TAKE x \in Callers
    <3>0. dbOf[x] \in Dbs /\ x # Nobody /\ dbOf'[x] = dbOf[x]
      BY TidyFacts
    <3>1. CASE x # c
      <4>1. call'[x] = call[x] /\ Alone(x) /\ dbOf[x] # D
        BY <2>1, <3>1, <1>0 DEF Tidy
      <4>2. flight'[dbOf[x]] = flight[dbOf[x]]
        BY <4>1, <3>0, <2>6
      <4> QED
        BY <4>1, <4>2, <3>0 DEF Alone, Own
    <3>2. CASE x = c
      <4>1. call'[c] = k2
        BY <2>1, <1>0
      <4>2. \A i \in 1..Len(call'[c].todo) : Solo(call'[c].todo[i])
        BY <4>1, <2>2, <2>3
      <4>3. ASSUME NEW i \in Own(c)', flight'[D][i].what.op = "list" PROVE call'[c].sent = 1
        <5>1. i \in 1..Len(flight'[D]) /\ flight'[D][i].who = c
          BY <3>0, <3>2, <4>3 DEF Own, OwnIn
        <5>2. PICK y \in 1..Len(rs) : flight'[D][i].what = rs[y]
          <6>1. ~(i \in 1..Len(flight[D]) /\ flight'[D][i] = flight[D][i])
            BY <5>1, <1>0, <1>1
          <6>2. \E y \in 1..Len(rs) : flight'[D][i].what = rs[y]
            BY <5>1, <6>1, <2>7, <1>0
          <6> QED
            BY <6>2
        <5>3. Solo(rs) /\ rs[y].op = "list"
          BY <5>2, <4>3, <2>3
        <5>4. Len(rs) = 1
          BY <5>3 DEF Solo
        <5> QED
          BY <5>4, <4>1, <2>2
      <4> QED
        BY <3>0, <3>2, <4>2, <4>3 DEF Alone
    <3> QED
      BY <3>1, <3>2
  <2>10. \A d \in Dbs : opened'[d]
    BY <1>0, <2>1, TidyFacts
  <2>11. \A d \in Dbs, x \in Kinds : cached'[d][x] <= Len(changes')
    BY TidyFacts
  <2>12. api' = "client" /\ \A x, y \in Callers : dbOf'[x] = dbOf'[y] => x = y
    BY DEF Tidy
  <2>13. Tidy'
    BY <2>8, <2>9, <2>10, <2>11, <2>12 DEF Tidy
  <2> QED
    BY <2>13, TidyFacts DEF TidyStep, Retains
<1> QED
  BY <1>2, <1>3

LEMMA TidySame ==
    ASSUME SchemaInv, SchemaInv', Tidy, UNCHANGED <<api, dbOf, changes, cached, flight, opened>>,
           \A c \in Callers : Fewer(c)
    PROVE  TidyStep
<1>1. /\ \A d \in Dbs : opened'[d]
      /\ \A d \in Dbs, k \in Kinds : cached'[d][k] <= Len(changes')
      /\ \A d \in Dbs : \A j \in 1..Len(flight'[d]) : Clear(Len(changes'), d, flight'[d][j])
  BY TidyFacts
<1>2. Tidy'
  BY <1>1, TidyStill
<1> QED
  BY <1>2, TidyFacts DEF TidyStep, Retains

LEMMA TidySettled ==
    ASSUME SchemaInv, SchemaInv', Tidy, NEW c \in Callers, NEW k \in CallRecord, k.sent = 0,
           NEW outcome, Settled(c, k, outcome),
           UNCHANGED <<api, dbOf, changes, cached, flight, opened>>
    PROVE  TidyStep
<1>0. call \in [Callers -> CallRecord]
  BY DEF SchemaInv, SchemaType
<1>1. call' = [call EXCEPT ![c] = [k EXCEPT !.outcome = outcome, !.todo = <<>>]]
  BY DEF Settled
<1>2. call'[c].sent = 0 /\ call'[c].todo = <<>>
  BY <1>0, <1>1 DEF CallRecord
<1>3. ASSUME NEW x \in Callers PROVE Fewer(x)
  BY <1>0, <1>1, <1>2, TidyFacts DEF Fewer
<1> QED
  BY <1>3, TidySame

LEMMA TidyContinue ==
    ASSUME SchemaInv, SchemaInv', Tidy, NEW c \in Callers, Continue(c)
    PROVE  TidyStep
<1> DEFINE k == call[c]
<1>1. k \in CallRecord /\ k.sent = 0 /\ UNCHANGED <<api, dbOf, changes, cached>>
  BY TidyFacts DEF Continue
<1>2. \A i \in 1..Len(k.todo) : Solo(k.todo[i])
  BY DEF Tidy, Alone
<1>3. CASE Unknown(c)
  <2>1. Settled(c, k, "failed") /\ UNCHANGED <<flight, opened>>
    BY <1>3 DEF Continue
  <2> HIDE DEF k
  <2> QED
    BY <2>1, <1>1, TidySettled
<1>4. CASE ~Unknown(c) /\ k.todo # <<>>
  <2>1. Sends(c, k) /\ call[c].sent = 0
    BY <1>4 DEF Continue
  <2> HIDE DEF k
  <2> QED
    BY <2>1, <1>1, <1>2, TidySends
<1>5. CASE ~Unknown(c) /\ k.todo = <<>>
  <2>1. /\ UNCHANGED <<flight, opened>>
        /\ IF k.of[1] = "property" THEN FinishProperty(c, k) ELSE FinishThing(c, k)
    BY <1>5 DEF Continue
  <2> HIDE DEF k
  <2>2. \E outcome : Settled(c, k, outcome)
    BY <2>1, <1>1, ThingSettles, PropertySettles
  <2> QED
    BY <2>1, <2>2, <1>1, TidySettled
<1> QED
  BY <1>3, <1>4, <1>5

LEMMA TidyStart ==
    ASSUME SchemaInv, SchemaInv', Tidy, NEW c \in Callers, NEW op, NEW t, NEW stages,
           Begins(op, t, stages), \A i \in 1..Len(stages) : Solo(stages[i]), Start(c, op, t, stages)
    PROVE  TidyStep
<1> DEFINE k == Fresh(op, t, stages)
<1>1. k \in CallRecord /\ k.todo = stages /\ k.sent = 0
  BY NewCall
<1>2. /\ IF stages = <<>> /\ HasCached(c, t[1]) THEN FinishThing(c, k) /\ UNCHANGED <<flight, opened>>
         ELSE Sends(c, k) /\ UNCHANGED instance
      /\ UNCHANGED <<api, dbOf, changes, cached, losses>> /\ call[c].outcome # "pending"
  BY DEF Start, Fresh
<1> HIDE DEF k
<1>3. call[c].sent = 0
  BY <1>2 DEF SchemaInv, Counted
<1>4. CASE stages = <<>> /\ HasCached(c, t[1])
  BY <1>1, <1>2, <1>4, ThingSettles, TidySettled
<1>5. CASE ~(stages = <<>> /\ HasCached(c, t[1]))
  BY <1>2, <1>5, <1>1, <1>3, TidySends
<1> QED
  BY <1>4, <1>5

\* What managers ask for.
LEMMA SolosJoin ==
    ASSUME NEW S, \A x \in S : Solo(x), NEW s \in Seq(S), NEW t \in Seq(S), NEW i \in 1..Len(s \o t)
    PROVE  Solo((s \o t)[i])
<1>1. (i \in 1..Len(s) /\ (s \o t)[i] = s[i]) \/ \E j \in 1..Len(t) : (s \o t)[i] = t[j]
  BY Joined2
<1>2. (\A j \in 1..Len(s) : s[j] \in S) /\ (\A j \in 1..Len(t) : t[j] \in S)
  OBVIOUS
<1>3. (s \o t)[i] \in S
  BY <1>1, <1>2
<1> QED
  BY <1>3

LEMMA Solos ==
    /\ \A r : Solo(One(r)) /\ \A i \in 1..Len(<<One(r)>>) : Solo(<<One(r)>>[i])
    /\ \A m : \A i \in 1..Len(ClassGet(m, FALSE)) : Solo(ClassGet(m, FALSE)[i])
    /\ \A m, t : \A i \in 1..Len(ClassCreate(m, t)) : Solo(ClassCreate(m, t)[i])
    /\ \A m : \A i \in 1..Len(PropertyCreateAll(m, Fields)) : Solo(PropertyCreateAll(m, Fields)[i])
<1>1. \A r : Solo(One(r)) /\ \A i \in 1..Len(<<One(r)>>) : Solo(<<One(r)>>[i])
  BY DEF Solo, One
<1>2. Len(<<>>) = 0 /\ 1..0 = {}
  OBVIOUS
<1>3. \A m : \A i \in 1..Len(ClassGet(m, FALSE)) : Solo(ClassGet(m, FALSE)[i])
  BY <1>1, <1>2, ClassPlan
<1>4. ASSUME NEW m, NEW t, NEW i \in 1..Len(ClassCreate(m, t)) PROVE Solo(ClassCreate(m, t)[i])
  <2> DEFINE a == One(Create(t))
             b == One(List("cluster"))
             l == One(List("class"))
  <2>1. ClassCreate(m, t) = <<a, b>> \o <<l>>
    BY ClassPlan DEF ClassCreate
  <2>2. Solo(a) /\ Solo(b) /\ Solo(l)
    BY <1>1
  <2> HIDE DEF a, b, l
  <2>3. <<a, b>> \in Seq({a, b, l}) /\ <<l>> \in Seq({a, b, l}) /\ \A x \in {a, b, l} : Solo(x)
    BY <2>2
  <2>4. i \in 1..Len(<<a, b>> \o <<l>>)
    BY <2>1
  <2>5. Solo((<<a, b>> \o <<l>>)[i])
    BY <2>3, <2>4, SolosJoin
  <2> QED
    BY <2>1, <2>5
<1>5. ASSUME NEW m, NEW i \in 1..Len(PropertyCreateAll(m, Fields)) PROVE Solo(PropertyCreateAll(m, Fields)[i])
  <2> DEFINE a == [j \in 1..Len(Fields) |-> Create(Fields[j])]
             l == One(List("class"))
  <2>1. PropertyCreateAll(m, Fields) = <<a>> \o <<l>>
    BY ClassPlan DEF PropertyCreateAll
  <2>2. Solo(a)
    <3>1. Len(Fields) \in Nat
      BY FieldsType
    <3>2. Len(a) = Len(Fields) /\ \A j \in 1..Len(Fields) : a[j] = Create(Fields[j])
      BY <3>1
    <3>3. \A x : Create(x).op = "create"
      BY DEF Create, Request
    <3> QED
      BY <3>2, <3>3 DEF Solo
  <2>3. Solo(l)
    BY <1>1
  <2> HIDE DEF a, l
  <2>4. <<a>> \in Seq({a, l}) /\ <<l>> \in Seq({a, l}) /\ \A x \in {a, l} : Solo(x)
    BY <2>2, <2>3
  <2>5. i \in 1..Len(<<a>> \o <<l>>)
    BY <2>1
  <2>6. Solo((<<a>> \o <<l>>)[i])
    BY <2>4, <2>5, SolosJoin
  <2> QED
    BY <2>1, <2>6
<1> QED
  BY <1>1, <1>3, <1>4, <1>5

LEMMA TidyStands ==
    ASSUME SchemaInv, SchemaInv', Tidy, UNCHANGED <<api, dbOf, changes, cached, flight, opened, call>>
    PROVE  TidyStep
<1>1. \A c \in Callers : Fewer(c)
  BY TidyFacts DEF Fewer
<1> QED
  BY <1>1, TidySame

LEMMA TidySchema ==
    ASSUME SchemaInv, SchemaInv', Tidy, SchemaNext
    PROVE  /\ TidyStep /\ UNCHANGED dbOf /\ Flows({}) /\ \A c \in Callers : Heeds(c)
           /\ losses' \in {losses, losses + 1}
<1>1. ASSUME NEW d \in Dbs, NEW i, Serve(d, i)
      PROVE  TidyStep /\ Moves /\ (\A c \in Callers : Heeds(c)) /\ losses' \in {losses, losses + 1}
  BY <1>1, TidyServe, ServeMoves, HeedsStill DEF Serve
<1>2. ASSUME NEW d \in Dbs, NEW i, Reply(d, i)
      PROVE  TidyStep /\ Moves /\ (\A c \in Callers : Heeds(c)) /\ losses' \in {losses, losses + 1}
  BY <1>2, TidyReply, ReplyMoves, ReplyHeeds DEF Reply
<1>3. ASSUME NEW d \in Dbs, Lose(d)
      PROVE  TidyStep /\ Moves /\ (\A c \in Callers : Heeds(c)) /\ losses' \in {losses, losses + 1}
  BY <1>3, TidyLose, LoseMoves, LoseHeeds DEF Lose
<1>4. ASSUME NEW c \in Callers, Continue(c)
      PROVE  TidyStep /\ Moves /\ (\A x \in Callers : Heeds(x)) /\ losses' \in {losses, losses + 1}
  BY <1>4, TidyContinue, ContinueMoves, ContinueHeeds DEF Continue
<1>5. TidyStep /\ Moves /\ (\A c \in Callers : Heeds(c)) /\ losses' \in {losses, losses + 1}
  BY <1>1, <1>2, <1>3, <1>4 DEF SchemaNext
<1> QED
  BY <1>5 DEF Moves

\* A class that a manager has found is found.
LEMMA FindsStill ==
    ASSUME SchemaInv, SchemaInv', Tidy, TidyStep, UNCHANGED dbOf, NEW m \in Callers, Listless(m),
           Finds(m, MigrationClass)
    PROVE  Finds(m, MigrationClass)'
<1> DEFINE v == cached[dbOf[m]]["class"]
<1>1. cached'[dbOf'[m]]["class"] = v
  BY DEF TidyStep, Retains
<1>2. ListOf(MigrationClass) = "class" /\ "class" \in Kinds
  BY ClassBegins DEF ListOf, Kinds
<1>3. v # Never /\ MigrationClass \in Contents[v]
  BY <1>2 DEF Finds, HasCached
<1>4. v \in Nat \cup {Never} /\ v <= Len(changes) /\ Len(changes) \in Nat
  BY <1>2, HeldType, TidyFacts
<1>5. v \in 0..Len(changes)
  BY <1>3, <1>4
<1>6. Contents = History(changes) /\ Contents' = History(changes') /\ Grew(changes, changes')
  BY DEF Contents, History, TidyStep
<1>7. Contents'[v] = Contents[v]
  BY <1>5, <1>6 DEF Grew
<1> HIDE DEF v
<1> QED
  BY <1>1, <1>2, <1>3, <1>7 DEF Finds, HasCached

--------------------------------------------------------------------------------
(* What a manager has found, and what it has asked for.                         *)

LEMMA SteadyStill ==
    ASSUME SchemaInv, SchemaInv', Tidy, TidyStep, UNCHANGED dbOf, NEW m \in Callers, Steady(m), Heeds(m),
           \A r : Asks(m, r) => Asks(m, r)',
           manager'[m].doing = manager[m].doing, manager'[m].step = manager[m].step,
           manager'[m].left = manager[m].left
    PROVE  Steady(m)'
<1>1. \A S : Reached(m, S)' <=> Reached(m, S)
  BY DEF Reached, Working
<1>2. AskedFor(manager'[m]) = AskedFor(manager[m])
  BY DEF AskedFor
<1>3. /\ call'[m].op = call[m].op /\ call'[m].of = call[m].of
      /\ call[m].outcome # "pending" => call'[m] = call[m]
  BY DEF Heeds
<1>4. Listless(m) /\ Finds(m, MigrationClass) => Finds(m, MigrationClass)'
  BY FindsStill
<1>5. ASSUME Reached(m, {"class", "class again"})
      PROVE  /\ call'[m].op = "get" /\ call'[m].of = MigrationClass
             /\ call'[m].outcome \in {"pending", "found", "missing", "failed"}
             /\ call'[m].outcome = "found" => Finds(m, MigrationClass)'
  <2>1. /\ call[m].op = "get" /\ call[m].of = MigrationClass
        /\ call[m].outcome \in {"pending", "found", "missing", "failed"}
        /\ call[m].outcome = "found" => Finds(m, MigrationClass)
    BY <1>5 DEF Steady
  <2>2. call[m].outcome = "found" => Finds(m, MigrationClass)'
    BY <2>1, <1>4 DEF Listless
  <2>3. \/ call'[m].outcome = call[m].outcome
        \/ call'[m].outcome \in {"failed", "missing"}
        \/ call'[m].outcome = "found" /\ Finds(m, MigrationClass)'
    BY <2>1 DEF Heeds
  <2> QED
    BY <2>1, <2>2, <2>3, <1>3
<1>6. ASSUME Reached(m, ByStatement)
      PROVE  /\ Asks(m, AskedFor(manager[m]))'
             /\ call'[m].outcome \in {"pending", "done", "failed"}
  <2>1. Asks(m, AskedFor(manager[m])) /\ call[m].outcome \in {"pending", "done", "failed"}
    BY <1>6 DEF Steady
  <2>2. \A r : r = AskedFor(manager[m]) => Asks(m, r)'
    BY <2>1
  <2>3. Asks(m, AskedFor(manager[m]))'
    BY <2>2, <1>2 DEF Asks
  <2>4. call[m].op = "statement"
    BY <2>1 DEF Asks
  <2> QED
    BY <2>1, <2>3, <2>4 DEF Heeds
<1>7. ASSUME Reached(m, Inside) PROVE Finds(m, MigrationClass)'
  <2>1. Finds(m, MigrationClass)
    BY <1>7 DEF Steady
  <2>2. Reached(m, ByStatement) \/ Reached(m, {"next"}) \/ Reached(m, {"class again"})
    BY <1>7 DEF Reached, Inside
  <2>3. Listless(m)
    BY <2>2 DEF Steady, Asks, Listless
  <2> QED
    BY <2>1, <2>3, <1>4
<1>8. call'[m].outcome = "pending" /\ call'[m].op = "statement" => Reached(m, ByStatement)
  BY <1>3 DEF Steady
<1>9. /\ Reached(m, {"class again"}) => call'[m].outcome = "found"
      /\ Reached(m, {"next"}) => call'[m].outcome = "done"
  BY <1>3 DEF Steady
<1> QED
  BY <1>1, <1>5, <1>6, <1>7, <1>8, <1>9 DEF Steady

--------------------------------------------------------------------------------
(* By how much the records are off.                                             *)

LEMMA DueType ==
    ASSUME NEW y, NEW w, NEW n
    PROVE  Due(y, w, n) \in {0, 1, 0 - 1} /\ (n # Head(y.left) => Due(y, w, n) = 0)
BY DEF Due

LEMMA OffType ==
    ASSUME MigrationType, NEW y, NEW w
    PROVE  Off(y, w) \in [Known -> Nat]
<1>1. ASSUME NEW n \in Known PROVE Size((records[n] - (ups[n] - downs[n])) + Due(y, w, n)) \in Nat
  BY DueType DEF MigrationType, Size
<1> QED
  BY <1>1 DEF Off, Gaps

LEMMA TotalType ==
    ASSUME MigrationType, NEW y, NEW w
    PROVE  Total(Off(y, w)) \in Nat
<1> DEFINE o == Off(y, w)
<1>1. o \in [Known -> Nat]
  BY OffType
<1> HIDE DEF o
<1>2. \A x \in Known : o[x] <= o[x] + 1 /\ (x # 0 => o[x] <= o[x])
  BY <1>1
<1>3. Total(o) \in Nat
  BY <1>1, <1>2, TotalGrows
<1> QED
  BY <1>3 DEF o

\* Whatever comes of what it has asked for, it is about one migration.
LEMMA OffGrows ==
    ASSUME MigrationType, NEW y, NEW w, NEW v
    PROVE  Total(Off(y, v)) <= Total(Off(y, w)) + 1
<1> DEFINE o == Off(y, w)
           p == Off(y, v)
           n == Head(y.left)
<1>1. o \in [Known -> Nat] /\ p \in [Known -> Nat]
  BY OffType
<1>2. ASSUME NEW x \in Known PROVE p[x] <= o[x] + 1 /\ (x # n => p[x] <= o[x])
  <2> DEFINE b == records[x] - (ups[x] - downs[x])
             i == Due(y, w, x)
             j == Due(y, v, x)
  <2>1. o[x] = Size(b + i) /\ p[x] = Size(b + j)
    BY DEF Off, Gaps
  <2>2. b \in Int
    BY DEF MigrationType
  <2>3. /\ i \in {0, 1, 0 - 1} /\ j \in {0, 1, 0 - 1}
        /\ x # n => i = 0 /\ j = 0
    BY DueType
  <2>4. (i = 0 \/ j = 0 \/ i = j)
    BY DEF Due
  <2> HIDE DEF b, i, j, o, p
  <2> QED
    BY <2>1, <2>2, <2>3, <2>4 DEF Size
<1> HIDE DEF o, p, n
<1>3. Total(p) <= Total(o) + 1
  BY <1>1, <1>2, TotalGrows
<1> QED
  BY <1>3 DEF o, p

\* Only what comes of a statement matters.
LEMMA WordMatters ==
    ASSUME NEW found, NEW y, NEW w, NEW v, y.step \notin ByStatement
    PROVE  /\ Careful(found, y, w) <=> Careful(found, y, v)
           /\ \A n : Due(y, w, n) = Due(y, v, n)
<1>1. y.step \notin {"select", "run", "find", "record"}
  BY DEF ByStatement
<1>2. \A n : Due(y, w, n) = Due(y, v, n)
  BY <1>1 DEF Due, Ran
<1>3. Careful(found, y, w) <=> Careful(found, y, v)
  BY <1>1 DEF Careful, Reverting, Covering
<1> QED
  BY <1>2, <1>3

\* What is refused asks for no care.
LEMMA RefusedCareful ==
    ASSUME NEW found, NEW y, NEW w, Careful(found, y, w)
    PROVE  Careful(found, y, Refused)
BY Words DEF Careful, Reverting, Covering

LEMMA GapsSame ==
    ASSUME NEW r, NEW u, NEW d, NEW y, NEW w, NEW q, NEW v, NEW e, NEW z, NEW x,
           \A n \in Known : (q[n] - (v[n] - e[n])) + Due(z, x, n) = (r[n] - (u[n] - d[n])) + Due(y, w, n)
    PROVE  Gaps(q, v, e, z, x) = Gaps(r, u, d, y, w)
BY DEF Gaps

\* What is nowhere off.
LEMMA TotalZero == Total([n \in Known |-> 0]) = 0
<1> DEFINE w == [n \in Known |-> 0]
           N == Len(Ascending(Known))
           p == NamesOf(w)
<1>1. PICK g : Sums(p, N, g) /\ Total(w) = g[N]
  BY TotalIs
<1>2. N \in Nat /\ \A i \in 1..N : p[i] = 0
  BY NamesType DEF NamesOf
<1> HIDE DEF N, p, w
<1>3. \A i \in 0..N : g[i] = IF i = 0 THEN 0 ELSE g[i - 1] + p[i]
  BY <1>1 DEF Sums
<1> DEFINE S == {i \in 0..N : g[i] = 0}
<1>4. 0 \in S
  BY <1>2, <1>3
<1>5. ASSUME NEW n \in 0..(N - 1), n \in S PROVE n + 1 \in S
  BY <1>2, <1>3, <1>5
<1> HIDE DEF S
<1>6. \A n \in 0..N : n \in S
  BY <1>2, <1>4, <1>5, Induction
<1>7. N \in S
  BY <1>2, <1>6
<1> QED
  BY <1>1, <1>7 DEF S, w

LEMMA NothingOff ==
    ASSUME \A n \in Known : records[n] = 0 /\ ups[n] = 0 /\ downs[n] = 0
    PROVE  Total(Off(Resting, <<>>)) = 0
<1>1. \A n \in Known : Size((records[n] - (ups[n] - downs[n])) + Due(Resting, <<>>, n)) = 0
  BY DEF Due, Ran, Resting, Size
<1>2. Off(Resting, <<>>) = [n \in Known |-> 0]
  BY <1>1 DEF Off, Gaps
<1> QED
  BY <1>2, TotalZero

\* The one that works goes on.
Kept(x) == manager'[x].doing = manager[x].doing /\ manager'[x].done = manager[x].done
Cares(m) == /\ Careful(records', manager'[m], Word(m)')
            /\ Total(Gaps(records', ups', downs', manager'[m], Word(m)')) <= losses'

LEMMA CalmGoesOn ==
    ASSUME Calm, NEW m \in Callers, Working(m), \A x \in Callers : Kept(x), Cares(m)
    PROVE  Calm'
<1>1. \A x \in Callers : Working(x)' <=> Working(x)
  BY DEF Kept, Working
<1>2. \A x \in Callers : Working(x) => x = m
  BY DEF Calm
<1>3. \A x \in Callers : ~manager'[x].done
  BY DEF Calm, Kept
<1>4. /\ Careful(records, manager[m], Word(m))'
      /\ (Total(Off(manager[m], Word(m))) <= losses)'
  BY DEF Cares, Off
<1> QED
  BY <1>1, <1>2, <1>3, <1>4 DEF Calm

\* It rests, and nothing is due.
LEMMA CalmRests ==
    ASSUME Calm, NEW m \in Callers, Working(m), UNCHANGED <<records, ups, downs, losses>>,
           \A x \in Callers : x # m => Kept(x), manager'[m].doing = "nothing",
           \A n \in Known : Due(manager[m], Word(m), n) = 0,
           manager'[m].done => \A n \in Known : records[n] > 0
    PROVE  Calm'
<1>1. \A x \in Callers : ~Working(x)'
  BY DEF Kept, Working, Calm
<1>2. \A x \in Callers : x # m => ~manager'[x].done
  BY DEF Calm, Kept
<1>3. Gaps(records, ups, downs, Resting, <<>>) = Gaps(records, ups, downs, manager[m], Word(m))
  <2>1. \A n : Due(Resting, <<>>, n) = 0
    BY DEF Due, Ran, Resting
  <2> QED
    BY <2>1, GapsSame
<1>4. Total(Gaps(records, ups, downs, Resting, <<>>)) <= losses
  BY <1>3 DEF Calm, Off
<1>5. (Total(Off(Resting, <<>>)) <= losses)'
  BY <1>4 DEF Off, Resting
<1> QED
  BY <1>1, <1>2, <1>5 DEF Calm

\* Nothing that matters has changed.
LEMMA CalmStill ==
    ASSUME Calm, MigrationType, losses \in Nat, losses' \in {losses, losses + 1},
           UNCHANGED <<records, ups, downs, manager>>,
           \A m \in Callers : Working(m) => Cares(m)
    PROVE  Calm'
<1>1. \A x \in Callers : Working(x)' <=> Working(x)
  BY DEF Working
<1>2. ASSUME NEW m \in Callers, Working(m)
      PROVE  /\ Careful(records, manager[m], Word(m))'
             /\ (Total(Off(manager[m], Word(m))) <= losses)'
  BY <1>2 DEF Cares, Off
<1>3. Total(Off(Resting, <<>>)) \in Nat
  BY TotalType
<1>4. Total(Off(Resting, <<>>)) <= losses => (Total(Off(Resting, <<>>)) <= losses)'
  BY <1>3 DEF Off, Resting
<1> QED
  BY <1>1, <1>2, <1>4 DEF Calm

--------------------------------------------------------------------------------
(* The steps on the schema, under managers.                                     *)

LEMMA SchemaManaged ==
    ASSUME MigrationsInv, SchemaInv', Managed, SchemaNext, UNCHANGED migrationVars
    PROVE  Managed'
<1>1. /\ UNCHANGED <<role, manager, ups, downs, records, runs, overlapped>>
      /\ SchemaInv /\ MigrationType /\ losses \in Nat
  BY DEF migrationVars, MigrationsInv, SchemaInv, SchemaType
<1>2. Tidy /\ (\A m \in Callers : Steady(m)) /\ (~overlapped => Calm)
  BY DEF Managed
<1>3. /\ TidyStep /\ UNCHANGED dbOf /\ Flows({}) /\ (\A c \in Callers : Heeds(c))
      /\ losses' \in {losses, losses + 1}
  BY <1>1, <1>2, TidySchema
<1>4. ASSUME NEW m \in Callers PROVE Steady(m)'
  <2>1. \A r : Asks(m, r) => Asks(m, r)'
    BY <1>3, <1>1, AsksStill DEF Heeds, Asks
  <2> QED
    BY <2>1, <1>1, <1>2, <1>3, SteadyStill
<1>5. ASSUME ~overlapped, NEW m \in Callers, Working(m) PROVE Cares(m)
  <2> DEFINE y == manager[m]
             w == Word(m)
             x == Word(m)'
  <2>1. Careful(records, y, w) /\ Total(Off(y, w)) <= losses
    BY <1>2, <1>5 DEF Calm
  <2>2. x = w \/ y.step \notin ByStatement \/ (x = Refused /\ losses' = losses + 1)
    <3>1. CASE y.step \in ByStatement
      <4>1. Reached(m, ByStatement)
        BY <3>1, <1>5 DEF Reached
      <4>2. call[m].op = "statement"
        BY <4>1, <1>2 DEF Steady, Asks
      <4> QED
        BY <4>2, <1>1, <1>3, WordMoves
    <3> QED
      BY <3>1
  <2>3. Total(Off(y, w)) \in Nat
    BY <1>1, TotalType
  <2> HIDE DEF y, w, x
  <2>4. Careful(records, y, x) /\ Total(Gaps(records, ups, downs, y, x)) <= losses'
    <3>1. CASE x = w
      BY <3>1, <2>1, <2>3, <1>1, <1>3 DEF Off
    <3>2. CASE y.step \notin ByStatement
      <4>1. Careful(records, y, x) /\ \A n : Due(y, x, n) = Due(y, w, n)
        BY <3>2, <2>1, WordMatters
      <4>2. Gaps(records, ups, downs, y, x) = Gaps(records, ups, downs, y, w)
        BY <4>1, GapsSame
      <4> QED
        BY <4>1, <4>2, <2>1, <2>3, <1>1, <1>3 DEF Off
    <3>3. CASE x = Refused /\ losses' = losses + 1
      <4>1. Careful(records, y, x)
        BY <3>3, <2>1, RefusedCareful
      <4>2. Total(Off(y, x)) <= Total(Off(y, w)) + 1 /\ Total(Off(y, x)) \in Nat
        BY <1>1, OffGrows, TotalType
      <4>3. Total(Off(y, x)) <= losses'
        BY <4>2, <2>1, <2>3, <3>3, <1>1
      <4> QED
        BY <4>1, <4>3 DEF Off
    <3> QED
      BY <2>2, <3>1, <3>2, <3>3
  <2> QED
    BY <2>4, <1>1 DEF Cares, y, x
<1>6. ~overlapped => Calm'
  BY <1>1, <1>2, <1>3, <1>5, CalmStill
<1> QED
  BY <1>1, <1>3, <1>4, <1>6 DEF Managed, TidyStep

--------------------------------------------------------------------------------
(* A statement is served.                                                       *)

\* What a statement comes to, and what becomes of the counts: r of the records, u
\* of the runs, d of the reverts.
Outcome(y, w, r, u, d, r2, u2, d2) ==
    LET q == AskedFor(y)
        n == q.of[1] IN
    \/ /\ q.op \in {"up", "down"} \/ (q.op = "erase" /\ r[n] = 0)
       /\ w = Refused /\ r2 = r /\ u2 = u /\ d2 = d
    \/ /\ q.op = "erase" => r[n] > 0
       /\ w = <<"ok", IF q.op = "select" THEN r ELSE <<>> >>
       /\ u2 = IF q.op = "up" THEN [u EXCEPT ![n] = @ + 1] ELSE u
       /\ d2 = IF q.op = "down" THEN [d EXCEPT ![n] = @ + 1] ELSE d
       /\ r2 = CASE q.op = "record" -> [r EXCEPT ![n] = @ + 1]
                 [] q.op = "erase" -> [r EXCEPT ![n] = @ - 1]
                 [] OTHER -> r

\* Whose it is, and that nothing had come of it.
LEMMA Serving ==
    ASSUME SchemaInv, SchemaInv', Managed, NEW d \in Dbs, NEW i, ServeStatement(d, i)
    PROVE  \E c \in Callers :
              /\ Reached(c, ByStatement) /\ Word(c) = <<>>
              /\ Outcome(manager[c], Word(c)', records, ups, downs, records', ups', downs')
<1> DEFINE e == flight[d][i]
           op == e.what.op
           n == e.what.of[1]
<1>1. /\ i \in 1..Len(flight[d]) /\ op \notin SchemaOps /\ UNCHANGED <<dbOf, call>>
  BY DEF ServeStatement
<1>2. PICK reply :
        /\ Served(d, i, reply)
        /\ \/ /\ op \in {"up", "down"} \/ (op = "erase" /\ records[n] = 0)
              /\ reply = Refused /\ records' = records /\ ups' = ups /\ downs' = downs
           \/ /\ op = "erase" => records[n] > 0
              /\ reply = <<"ok", IF op = "select" THEN records ELSE <<>> >>
              /\ ups' = IF op = "up" THEN [ups EXCEPT ![n] = @ + 1] ELSE ups
              /\ downs' = IF op = "down" THEN [downs EXCEPT ![n] = @ + 1] ELSE downs
              /\ records' = CASE op = "record" -> [records EXCEPT ![n] = @ + 1]
                              [] op = "erase" -> [records EXCEPT ![n] = @ - 1]
                              [] OTHER -> records
  BY Zenon DEF ServeStatement, Refused
<1>20. Served(d, i, reply)
  BY <1>2
<1>3. e.what \notin SchemaRequests
  BY <1>1, StatementType
<1>4. e.who # Nobody
  BY <1>1, <1>3 DEF Managed, Tidy, Passed
<1>5. PICK c \in Callers : /\ c = e.who /\ dbOf[c] = d /\ i \in Own(c) /\ e.what \in AskedBy(call[c].op)
                            /\ call[c].outcome = "pending"
  BY <1>1, <1>4, InFlight
<1>6. call[c].op = "statement"
  BY <1>3, <1>5, AskedType
<1>7. Reached(c, ByStatement) /\ e.what = AskedFor(manager[c])
  <2>1. Steady(c)
    BY <1>5 DEF Managed
  <2>2. Reached(c, ByStatement)
    BY <2>1, <1>5, <1>6 DEF Steady
  <2>3. Asks(c, AskedFor(manager[c]))
    BY <2>1, <2>2 DEF Steady
  <2> QED
    BY <2>2, <2>3, <1>5 DEF Asks
<1>8. Word(c) = <<>>
  <2>1. e.reply = <<>>
    BY <1>20 DEF Served
  <2>2. PICK j \in 1..Len(flight[dbOf[c]]) : Own(c) = {j} /\ Word(c) = flight[dbOf[c]][j].reply
    BY <1>5, <1>6, WordThere
  <2>3. j = i
    BY <2>2, <1>5
  <2> QED
    BY <2>1, <2>2, <2>3, <1>5
<1>9. Word(c)' = reply
  <2>0. /\ Len(flight'[d]) = Len(flight[d]) /\ flight'[d][i].reply = reply
        /\ \A j \in 1..Len(flight[d]) : j # i => flight'[d][j] = flight[d][j]
    BY <1>20, ServedFlight
  <2>1. call'[c].op = "statement" /\ call'[c].outcome = "pending" /\ dbOf'[c] = d
    BY <1>1, <1>5, <1>6
  <2>2. PICK j \in 1..Len(flight'[dbOf'[c]]) :
            Own(c)' = {j} /\ flight'[dbOf'[c]][j].who = c /\ Word(c)' = flight'[dbOf'[c]][j].reply
    BY <2>1, <1>5, WordThereAfter
  <2>3. PICK k \in 1..Len(flight[dbOf[c]]) : Own(c) = {k}
    BY <1>5, <1>6, WordThere
  <2>4. j = i
    <3>1. CASE j # i
      <4>1. flight[d][j].who = c /\ j \in 1..Len(flight[d])
        BY <3>1, <2>0, <2>1, <2>2
      <4>2. j \in Own(c)
        BY <4>1, <1>5 DEF Own, OwnIn
      <4> QED
        BY <3>1, <4>2, <2>3, <1>5
    <3> QED
      BY <3>1
  <2> QED
    BY <2>0, <2>1, <2>2, <2>4
<1>10. Outcome(manager[c], reply, records, ups, downs, records', ups', downs')
  <2>1. op = AskedFor(manager[c]).op /\ n = AskedFor(manager[c]).of[1]
    BY <1>7
  <2> HIDE DEF e, op, n
  <2> QED
    BY <2>1, <1>2, Zenon DEF Outcome
<1> QED
  BY <1>5, <1>7, <1>8, <1>9, <1>10

\* Whatever comes of a statement, the sum of what is off stays as it is.
LEMMA OutcomeCares ==
    ASSUME NEW y \in Manager, y.step \in ByStatement, y.doing \in {"up", "down"},
           y.step # "select" => y.left # <<>>,
           NEW r \in [Known -> Nat], NEW u \in [Known -> Nat], NEW d \in [Known -> Nat],
           Careful(r, y, <<>>), NEW w, NEW r2, NEW u2, NEW d2, Outcome(y, w, r, u, d, r2, u2, d2)
    PROVE  /\ Careful(r2, y, w)
           /\ \A k \in Known : (r2[k] - (u2[k] - d2[k])) + Due(y, w, k) = (r[k] - (u[k] - d[k])) + Due(y, <<>>, k)
<1> DEFINE q == AskedFor(y)
           n == q.of[1]
           h == Head(y.left)
           Same == r2 = r /\ u2 = u /\ d2 = d
<1>1. \/ (q.op \in {"up", "down"} \/ (q.op = "erase" /\ r[n] = 0)) /\ w = Refused /\ Same
      \/ /\ q.op = "erase" => r[n] > 0
         /\ w = <<"ok", IF q.op = "select" THEN r ELSE <<>> >>
         /\ u2 = IF q.op = "up" THEN [u EXCEPT ![n] = @ + 1] ELSE u
         /\ d2 = IF q.op = "down" THEN [d EXCEPT ![n] = @ + 1] ELSE d
         /\ q.op = "record" => r2 = [r EXCEPT ![n] = @ + 1]
         /\ q.op = "erase" => r2 = [r EXCEPT ![n] = @ - 1]
         /\ q.op \notin {"record", "erase"} => r2 = r
  <2> HIDE DEF q
  <2> QED
    BY Zenon DEF Outcome, q
<1>2. /\ y.step = "select" => q.op = "select"
      /\ y.step = "find" => q.op = "select" /\ n = h
      /\ y.step = "run" => q.op = (IF y.doing = "up" THEN "up" ELSE "down") /\ n = h
      /\ y.step = "record" => q.op = (IF y.doing = "up" THEN "record" ELSE "erase") /\ n = h
  BY StatementType DEF AskedFor
<1>3. y.step \in {"select", "run", "find", "record"} /\ y.left \in Seq(Known)
  BY DEF ByStatement, Manager
<1>4. y.step # "select" => h \in Known
  BY <1>3, HeadTailProperties
<1>5. \A x : <<"ok", x>> # <<>> /\ <<"ok", x>> # Refused
  BY Words
<1>0. Refused # <<>>
  BY Words
<1> HIDE DEF q, n, h
<1>6. CASE y.step = "select"
  <2>1. Same /\ w = <<"ok", r>>
    BY <1>1, <1>2, <1>6
  <2>2. Careful(r, y, w)
    BY <2>1, <1>6 DEF Careful, Reverting, Covering
  <2>3. \A k : Due(y, w, k) = 0 /\ Due(y, <<>>, k) = 0
    BY <1>6 DEF Due, Ran
  <2> QED
    BY <2>1, <2>2, <2>3
<1>7. CASE y.step = "find"
  <2>1. Same /\ w = <<"ok", r>>
    BY <1>1, <1>2, <1>7
  <2>2. Careful(r, y, w)
    BY <2>1, <1>7 DEF Careful, Reverting, Covering
  <2>3. \A k : Due(y, w, k) = Due(y, <<>>, k)
    BY <2>1, <1>0, <1>5, <1>7 DEF Due, Ran
  <2> QED
    BY <2>1, <2>2, <2>3
<1>8. CASE y.step = "run" /\ w = Refused
  <2>1. Same
    BY <1>1, <1>5, <1>8
  <2>2. Careful(r, y, w)
    BY <1>8, RefusedCareful
  <2>3. \A k : Due(y, w, k) = Due(y, <<>>, k)
    BY <1>8 DEF Due, Ran
  <2> QED
    BY <2>1, <2>2, <2>3
<1>9. CASE y.step = "run" /\ w # Refused
  <2>1. /\ w # <<>> /\ r2 = r
        /\ u2 = IF y.doing = "up" THEN [u EXCEPT ![h] = @ + 1] ELSE u
        /\ d2 = IF y.doing = "down" THEN [d EXCEPT ![h] = @ + 1] ELSE d
    BY <1>2, <1>9, <1>1, <1>5
  <2>2. Careful(r, y, w)
    BY <1>9 DEF Careful, Reverting, Covering
  <2>3. \A k : /\ Due(y, <<>>, k) = 0
               /\ Due(y, w, k) = IF k # h THEN 0 ELSE IF y.doing = "up" THEN 1 ELSE 0 - 1
    BY <2>1, <1>9 DEF Due, Ran, h
  <2>4. ASSUME NEW k \in Known
        PROVE  (r2[k] - (u2[k] - d2[k])) + Due(y, w, k) = (r[k] - (u[k] - d[k])) + Due(y, <<>>, k)
    <3>1. r[k] \in Nat /\ u[k] \in Nat /\ d[k] \in Nat /\ r2[k] = r[k] /\ h \in Known
      BY <2>1, <1>4, <1>9
    <3>2. CASE y.doing = "up"
      BY <2>1, <3>1, <3>2, <2>3
    <3>3. CASE y.doing = "down"
      BY <2>1, <3>1, <3>3, <2>3
    <3> QED
      BY <3>2, <3>3
  <2> QED
    BY <2>1, <2>2, <2>4
<1>10. CASE y.step = "record"
  <2>0. /\ q.op = (IF y.doing = "up" THEN "record" ELSE "erase") /\ n = h /\ h \in Known
    BY <1>2, <1>4, <1>10
  <2>1. y.doing = "down" => Enough(r, y.left) /\ r[h] > 0 /\ Enough([r EXCEPT ![h] = @ - 1], Tail(y.left))
    BY <1>10, <1>3, EnoughNext DEF Careful, Reverting, h
  <2>2. /\ w # <<>> /\ w # Refused /\ u2 = u /\ d2 = d
        /\ r2 = IF y.doing = "up" THEN [r EXCEPT ![h] = @ + 1] ELSE [r EXCEPT ![h] = @ - 1]
    <3>1. ~((q.op \in {"up", "down"} \/ (q.op = "erase" /\ r[n] = 0)) /\ w = Refused /\ Same)
      BY <2>0, <2>1
    <3>2. /\ w = <<"ok", <<>> >> /\ u2 = u /\ d2 = d
          /\ r2 = IF y.doing = "up" THEN [r EXCEPT ![h] = @ + 1] ELSE [r EXCEPT ![h] = @ - 1]
      BY <3>1, <2>0, <1>1
    <3> QED
      BY <3>2, <1>5
  <2>3. \A k : /\ Due(y, w, k) = 0
               /\ Due(y, <<>>, k) = IF k # h THEN 0 ELSE IF y.doing = "up" THEN 1 ELSE 0 - 1
    BY <2>2, <1>10 DEF Due, Ran, h
  <2>4. ASSUME NEW k \in Known
        PROVE  (r2[k] - (u2[k] - d2[k])) + Due(y, w, k) = (r[k] - (u[k] - d[k])) + Due(y, <<>>, k)
    BY <2>0, <2>2, <2>3
  <2>5. y.doing = "down" => Reverting(r2, y, w)
    BY <2>1, <2>2, <1>10 DEF Reverting
  <2>6. y.doing = "up" /\ y.limit = 0 => Covering(r2, y, w)
    <3>1. y.doing = "up" /\ y.limit = 0 => Covers(r, y.left)
      BY <1>10 DEF Careful, Covering
    <3>2. y.doing = "up" => r2[h] > 0 /\ \A k \in Known : r[k] > 0 => r2[k] > 0
      BY <2>0, <2>2
    <3>3. y.doing = "up" /\ y.limit = 0 => Covers(r2, y.left)
      BY <3>1, <3>2, CoversMore
    <3> QED
      BY <3>2, <3>3, <1>10 DEF Covering, h
  <2> QED
    BY <2>4, <2>5, <2>6, <1>10 DEF Careful
<1> QED
  BY <1>3, <1>6, <1>7, <1>8, <1>9, <1>10

LEMMA ServeManaged ==
    ASSUME MigrationsInv, SchemaInv', Managed, NEW d \in Dbs, NEW i, ServeStatement(d, i)
    PROVE  Managed'
<1>1. /\ SchemaInv /\ MigrationType /\ i \in 1..Len(flight[d])
      /\ UNCHANGED <<api, dbOf, changes, cached, call, instance, opened, losses, role, manager, overlapped>>
  BY DEF MigrationsInv, ServeStatement
<1>2. Tidy /\ (\A m \in Callers : Steady(m)) /\ (~overlapped => Calm)
  BY DEF Managed
<1>3. TidyStep
  BY <1>1, <1>2, TidyServesStatement
<1>4. ASSUME NEW m \in Callers PROVE Steady(m)'
  <2>1. \A r : Asks(m, r) => Asks(m, r)'
    <3>0. PICK reply : Served(d, i, reply)
      BY DEF ServeStatement
    <3>1. /\ Len(flight'[d]) = Len(flight[d])
          /\ \A x \in Dbs : x # d => flight'[x] = flight[x]
          /\ \A j \in 1..Len(flight[d]) : /\ flight'[d][j].who = flight[d][j].who
                                          /\ flight'[d][j].what = flight[d][j].what
      BY <1>1, <3>0, ServedFlight
    <3>2. dbOf[m] \in Dbs
      BY <1>1, HeldType
    <3>3. Own(m)' = Own(m) /\ \A j \in Own(m) : flight'[dbOf[m]][j].what = flight[dbOf[m]][j].what
      <4>1. CASE dbOf[m] = d
        BY <4>1, <3>1, <1>1 DEF Own, OwnIn
      <4>2. CASE dbOf[m] # d
        BY <4>2, <3>1, <3>2, <1>1 DEF Own, OwnIn
      <4> QED
        BY <4>1, <4>2
    <3> QED
      BY <3>3, <1>1 DEF Asks
  <2> QED
    BY <2>1, <1>1, <1>2, <1>3, HeedsStill, SteadyStill
<1>5. ASSUME ~overlapped PROVE Calm'
  <2>1. PICK c \in Callers :
            /\ Reached(c, ByStatement) /\ Word(c) = <<>>
            /\ Outcome(manager[c], Word(c)', records, ups, downs, records', ups', downs')
    BY <1>1, Serving
  <2>2. Working(c) /\ manager[c].step \in ByStatement
    BY <2>1 DEF Reached
  <2>3. Careful(records, manager[c], <<>>) /\ Total(Gaps(records, ups, downs, manager[c], <<>>)) <= losses
    BY <1>2, <1>5, <2>1, <2>2 DEF Calm, Off
  <2>4. manager[c] \in Manager /\ manager[c].doing \in {"up", "down"}
    BY <2>2, Managing
  <2>5. manager[c].step # "select" => manager[c].left # <<>>
    BY <2>2, Standing DEF ByStatement
  <2>6. records \in [Known -> Nat] /\ ups \in [Known -> Nat] /\ downs \in [Known -> Nat]
    BY <1>1 DEF MigrationType
  <2> DEFINE y == manager[c]
             w == Word(c)'
  <2>7. /\ Careful(records', y, w)
        /\ \A k \in Known : (records'[k] - (ups'[k] - downs'[k])) + Due(y, w, k)
                            = (records[k] - (ups[k] - downs[k])) + Due(y, <<>>, k)
    <3>1. /\ Outcome(y, w, records, ups, downs, records', ups', downs')
          /\ Careful(records, y, <<>>) /\ y \in Manager /\ y.step \in ByStatement
          /\ y.doing \in {"up", "down"} /\ (y.step # "select" => y.left # <<>>)
      BY <2>1, <2>2, <2>3, <2>4, <2>5
    <3> HIDE DEF y, w
    <3> QED
      BY <3>1, <2>6, OutcomeCares, SMTT(40)
  <2>8. Gaps(records', ups', downs', y, w) = Gaps(records, ups, downs, y, <<>>)
    <3> HIDE DEF y, w
    <3> QED
      BY <2>7, GapsSame
  <2>9. Cares(c)
    BY <2>3, <2>7, <2>8, <1>1 DEF Cares
  <2> QED
    BY <2>2, <2>9, <1>1, <1>2, <1>5, CalmGoesOn DEF Kept
<1> QED
  BY <1>1, <1>3, <1>4, <1>5 DEF Managed, TidyStep

--------------------------------------------------------------------------------
(* The steps of a manager that ask for something.                               *)

\* From one step to the next: y has asked for what has come to w, z asks for what
\* is to come to v.
Prelude == {"list", "create to list", "properties to list", "structure", "create", "properties", "class"}
Onward(y, w, z, v) ==
    /\ z.doing = y.doing /\ z.limit = y.limit /\ z.left = y.left
    /\ \/ y.step \in Prelude /\ z.step \in Prelude
       \/ y.step \in Prelude /\ z.step = "select" /\ v = <<>>
       \/ y.step = "next" /\ z.step = "run" /\ v = <<>>
       \/ y.step = "run" /\ w # <<>> /\ w # Refused /\ z.step = "class again"
       \/ y.step = "class again" /\ z.step = "record" /\ v = <<>>
       \/ y.step = "class again" /\ z.step = "find" /\ y.doing = "down" /\ v = <<>>
       \/ y.step = "find" /\ w # Refused /\ z.step = "record" /\ v = <<>>

LEMMA OnwardCares ==
    ASSUME NEW found, NEW y, NEW w, NEW z, NEW v, Careful(found, y, w), Onward(y, w, z, v),
           y.doing \in {"up", "down"}
    PROVE  Careful(found, z, v) /\ \A n : Due(z, v, n) = Due(y, w, n)
<1>0. <<>> # Refused
  BY Words
<1>1. z.doing = y.doing /\ z.limit = y.limit /\ z.left = y.left
  BY DEF Onward
<1>2. CASE y.step \in Prelude /\ (z.step \in Prelude \/ (z.step = "select" /\ v = <<>>))
  <2>1. Careful(found, z, v)
    BY <1>2 DEF Careful, Reverting, Covering, Prelude
  <2>2. \A n : Due(z, v, n) = 0 /\ Due(y, w, n) = 0
    BY <1>2 DEF Due, Ran, Prelude
  <2> QED
    BY <2>1, <2>2
<1>3. CASE y.step = "next" /\ z.step = "run" /\ v = <<>>
  <2>1. Careful(found, z, v)
    BY <1>1, <1>3 DEF Careful, Reverting, Covering
  <2>2. \A n : Due(z, v, n) = 0 /\ Due(y, w, n) = 0
    BY <1>3 DEF Due, Ran
  <2> QED
    BY <2>1, <2>2
<1>4. CASE y.step = "run" /\ w # <<>> /\ w # Refused /\ z.step = "class again"
  <2>1. Careful(found, z, v)
    BY <1>1, <1>4 DEF Careful, Reverting, Covering
  <2>2. \A n : Due(z, v, n) = Due(y, w, n)
    BY <1>1, <1>4 DEF Due, Ran
  <2> QED
    BY <2>1, <2>2
<1>5. CASE y.step = "class again" /\ (z.step = "record" \/ (z.step = "find" /\ y.doing = "down")) /\ v = <<>>
  <2>1. Careful(found, z, v)
    BY <1>1, <1>5 DEF Careful, Reverting, Covering
  <2>2. \A n : Due(z, v, n) = Due(y, w, n)
    BY <1>0, <1>1, <1>5 DEF Due, Ran
  <2> QED
    BY <2>1, <2>2
<1>6. CASE y.step = "find" /\ w # Refused /\ z.step = "record" /\ v = <<>>
  <2>1. Careful(found, z, v)
    BY <1>1, <1>6 DEF Careful, Reverting, Covering
  <2>2. \A n : Due(z, v, n) = Due(y, w, n)
    BY <1>1, <1>6 DEF Due, Ran
  <2> QED
    BY <2>1, <2>2
<1> QED
  BY <1>2, <1>3, <1>4, <1>5, <1>6 DEF Onward

\* The manager m has gone on to a step, and everybody else stands as before.
Goes(m, step) ==
    /\ TidyStep /\ UNCHANGED <<role, dbOf, records, ups, downs, losses, overlapped>>
    /\ manager'[m].step = step /\ manager'[m].doing = manager[m].doing
    /\ manager'[m].limit = manager[m].limit /\ manager'[m].left = manager[m].left
    /\ \A x \in Callers : Kept(x)
    /\ \A x \in Callers : x # m => Steady(x)'

LEMMA StepGoes ==
    ASSUME MigrationsInv, SchemaInv', Managed, NEW m \in Callers, Working(m),
           NEW step, NEW op, NEW t, NEW stages, Begins(op, t, stages),
           \A i \in 1..Len(stages) : Solo(stages[i]), Step(m, step, op, t, stages)
    PROVE  Goes(m, step)
<1>1. /\ Start(m, op, t, stages) /\ manager' = [manager EXCEPT ![m].step = step]
      /\ UNCHANGED <<role, ups, downs, records, overlapped>>
  BY DEF Step
<1>2. SchemaInv /\ manager[m] \in Manager /\ manager \in [Callers -> Manager]
  BY Managing DEF MigrationType
<1>3. Tidy /\ \A x \in Callers : Steady(x)
  BY DEF Managed
<1>4. TidyStep /\ UNCHANGED <<dbOf, losses>>
  BY <1>1, <1>2, <1>3, TidyStart DEF Start
<1>5. /\ \A x \in Callers : x # m => manager'[x] = manager[x]
      /\ manager'[m].step = step /\ manager'[m].doing = manager[m].doing
      /\ manager'[m].limit = manager[m].limit /\ manager'[m].left = manager[m].left
      /\ manager'[m].done = manager[m].done
  BY <1>1, <1>2 DEF Manager
<1>6. \A x \in Callers : x # m => call'[x] = call[x]
  BY <1>1, <1>2, StartMoves
<1>7. ASSUME NEW x \in Callers, x # m PROVE Steady(x)'
  <2>1. ASSUME NEW r, Asks(x, r) PROVE Asks(x, r)'
    <3>1. call'[x].op = "statement"
      BY <2>1, <1>6, <1>7 DEF Asks
    <3>2. CASE op # "statement"
      <4>1. Flows({})
        BY <3>2, <1>1, <1>2, StartMoves
      <4> QED
        BY <4>1, <3>1, <2>1, <1>2, <1>4, AsksStill
    <3>3. CASE op = "statement"
      <4>1. PICK q \in Statements : stages = <<One(q)>>
        BY <3>3 DEF Plan, Ops, Begins
      <4>2. Flows({Sent(m, q)})
        BY <4>1, <1>1, <1>2, StartMoves
      <4>3. \A e \in {Sent(m, q)} : e.who # x
        BY <1>7 DEF Sent
      <4> QED
        BY <4>2, <4>3, <3>1, <2>1, <1>2, <1>4, AsksStill
    <3> QED
      BY <3>2, <3>3
  <2> QED
    BY <2>1, <1>2, <1>3, <1>4, <1>5, <1>6, <1>7, HeedsStill, SteadyStill
<1> QED
  BY <1>1, <1>4, <1>5, <1>7 DEF Goes, Kept

LEMMA GoesManaged ==
    ASSUME MigrationsInv, Managed, NEW m \in Callers, Working(m), NEW step, Goes(m, step), Steady(m)',
           ~overlapped => Onward(manager[m], Word(m), manager'[m], Word(m)')
    PROVE  Managed'
<1>1. \A x \in Callers : Steady(x)'
  BY DEF Goes
<1>2. ASSUME ~overlapped PROVE Calm'
  <2> DEFINE y == manager[m]
             w == Word(m)
             z == manager'[m]
             v == Word(m)'
  <2>1. /\ Careful(records, y, w) /\ Total(Gaps(records, ups, downs, y, w)) <= losses
        /\ Onward(y, w, z, v) /\ Calm
    BY <1>2 DEF Managed, Calm, Off
  <2>2. y.doing \in {"up", "down"}
    BY Managing
  <2>3. UNCHANGED <<records, ups, downs, losses>> /\ \A x \in Callers : Kept(x)
    BY DEF Goes
  <2> HIDE DEF y, w, z, v
  <2>4. Careful(records, z, v) /\ \A n : Due(z, v, n) = Due(y, w, n)
    BY <2>1, <2>2, OnwardCares
  <2>5. Gaps(records, ups, downs, z, v) = Gaps(records, ups, downs, y, w)
    BY <2>4, GapsSame
  <2>6. Cares(m)
    BY <2>1, <2>3, <2>4, <2>5 DEF Cares, z, v
  <2> QED
    BY <2>1, <2>3, <2>6, CalmGoesOn
<1> QED
  BY <1>1, <1>2 DEF Goes, Managed, TidyStep

\* Of a statement that has just been asked for nothing has come.
LEMMA AskedWord ==
    ASSUME SchemaInv, SchemaInv', NEW m \in Callers, NEW r \in Statements,
           Start(m, "statement", <<>>, <<One(r)>>)
    PROVE  Word(m)' = <<>>
<1>1. Begins("statement", <<>>, <<One(r)>>)
  BY DEF Begins
<1>2. UNCHANGED dbOf /\ call'[m].op = "statement" /\ call'[m].outcome = "pending" /\ Flows({Sent(m, r)})
  BY <1>1, StartMoves
<1>3. call[m].sent = 0 /\ dbOf[m] \in Dbs /\ m # Nobody
  BY HeldType, SchemaAssumption DEF SchemaInv, Counted, Start
<1> DEFINE d == dbOf[m]
<1>4. PICK j \in 1..Len(flight'[d]) :
          Own(m)' = {j} /\ flight'[d][j].who = m /\ Word(m)' = flight'[d][j].reply
  BY <1>2, WordThereAfter
<1>5. flight'[d][j].what \notin SchemaRequests
  <2>1. Traced(d)'
    BY <1>2, <1>3 DEF SchemaInv
  <2>2. flight'[d][j].what \in AskedBy(call'[m].op)
    BY <1>2, <1>3, <1>4, <2>1 DEF Traced
  <2> QED
    BY <2>2, <1>2, AskedType, StatementType
<1>6. ~Carried(d, flight'[d][j])
  BY <1>3, UnsentNowhere, <1>4 DEF Carried
<1>7. flight'[d][j] = Sent(m, r)
  BY <1>2, <1>3, <1>5, <1>6 DEF Flows
<1> QED
  BY <1>4, <1>7 DEF Sent

\* A class that is cached is found at once, and only what is cached is found.
LEMMA StartsGet ==
    ASSUME SchemaInv, NEW m \in Callers, NEW op, NEW t, NEW stages, Begins(op, t, stages),
           Start(m, op, t, stages), op = "get", t[1] = "class"
    PROVE  /\ call'[m].op = op /\ call'[m].of = t /\ UNCHANGED <<dbOf, changes, cached>>
           /\ call'[m].outcome = IF stages = <<>> /\ HasCached(m, "class")
                                 THEN IF Finds(m, t) THEN "found" ELSE "missing"
                                 ELSE "pending"
<1> DEFINE k == Fresh(op, t, stages)
<1>1. k \in CallRecord /\ k.op = op /\ k.of = t /\ k.outcome = "pending"
  BY NewCall
<1>2. /\ IF stages = <<>> /\ HasCached(m, t[1])
         THEN FinishThing(m, k) /\ UNCHANGED <<flight, opened>>
         ELSE Sends(m, k) /\ UNCHANGED instance
      /\ UNCHANGED <<dbOf, changes, cached>>
  BY DEF Start, Fresh
<1>3. call'[m].op = op /\ call'[m].of = t
  BY StartMoves
<1>4. call \in [Callers -> CallRecord]
  BY DEF SchemaInv, SchemaType
<1> HIDE DEF k
<1>5. CASE stages = <<>> /\ HasCached(m, t[1])
  <2> DEFINE outcome == IF Finds(m, t) THEN "found" ELSE "missing"
             x == [k EXCEPT !.outcome = outcome, !.todo = <<>>]
  <2>1. Settled(m, k, outcome) /\ outcome \in Outcomes
    BY <1>1, <1>2, <1>5 DEF FinishThing, Outcomes
  <2> HIDE DEF outcome
  <2>2. x.outcome = outcome
    BY <1>1, <2>1, CallEnds
  <2>3. call'[m] = x
    BY <2>1, <1>4 DEF Settled
  <2> HIDE DEF x
  <2> QED
    BY <2>2, <2>3, <1>2, <1>3, <1>5 DEF outcome
<1>6. CASE ~(stages = <<>> /\ HasCached(m, t[1]))
  BY <1>2, <1>6, <1>1, SendsMoves, <1>3
<1> QED
  BY <1>5, <1>6

LEMMA GetBegins ==
    ASSUME SchemaInv, NEW m \in Callers, Start(m, "get", MigrationClass, ClassGet(m, FALSE))
    PROVE  /\ call'[m].op = "get" /\ call'[m].of = MigrationClass
           /\ call'[m].outcome \in {"pending", "found", "missing"}
           /\ call'[m].outcome = "found" => Finds(m, MigrationClass)'
           /\ Finds(m, MigrationClass) => call'[m].outcome = "found"
<1>1. /\ Begins("get", MigrationClass, ClassGet(m, FALSE))
      /\ MigrationClass[1] = "class" /\ ListOf(MigrationClass) = "class"
  BY ClassBegins DEF ListOf
<1>2. /\ call'[m].op = "get" /\ call'[m].of = MigrationClass /\ UNCHANGED <<dbOf, changes, cached>>
      /\ call'[m].outcome = IF ClassGet(m, FALSE) = <<>> /\ HasCached(m, "class")
                            THEN IF Finds(m, MigrationClass) THEN "found" ELSE "missing"
                            ELSE "pending"
  BY <1>1, StartsGet
<1>3. Finds(m, MigrationClass)' <=> Finds(m, MigrationClass)
  BY <1>2 DEF Finds, HasCached, Contents, MigrationClass, ClassName
<1>4. Finds(m, MigrationClass) => ClassGet(m, FALSE) = <<>> /\ HasCached(m, "class")
  BY <1>1 DEF Finds, ClassGet, HasCached
<1> QED
  BY <1>2, <1>3, <1>4

\* What has come of a statement that has ended well.
LEMMA WentWord ==
    ASSUME NEW m \in Callers, Steady(m), Reached(m, ByStatement), Went(m)
    PROVE  call[m].outcome = "done" /\ Word(m) = <<"ok", call[m].got>> /\ Word(m) # <<>> /\ Word(m) # Refused
<1>1. call[m].outcome = "done"
  BY DEF Steady, Went
<1>2. Word(m) = <<"ok", call[m].got>>
  BY <1>1 DEF Word, WordIn
<1> QED
  BY <1>1, <1>2, Words

\* The class is got, ...
LEMMA GetsClassManaged ==
    ASSUME MigrationsInv, SchemaInv', Managed, NEW m \in Callers, Working(m),
           NEW step \in {"structure", "class"}, manager[m].step \in Prelude, GetsClass(m, step)
    PROVE  Managed'
<1>1. Step(m, step, "get", MigrationClass, ClassGet(m, FALSE))
  BY DEF GetsClass
<1>2. Start(m, "get", MigrationClass, ClassGet(m, FALSE)) /\ SchemaInv
  BY <1>1 DEF Step, MigrationsInv
<1>3. Goes(m, step)
  BY <1>1, ClassBegins, Solos, StepGoes
<1>4. Steady(m)'
  BY <1>2, <1>3, GetBegins DEF Goes, Steady, Reached, ByStatement, Inside
<1>5. Onward(manager[m], Word(m), manager'[m], Word(m)')
  BY <1>3 DEF Goes, Onward, Prelude
<1> QED
  BY <1>3, <1>4, <1>5, GoesManaged

\* ... and after a migration has run it is there.
LEMMA GetsAgainManaged ==
    ASSUME MigrationsInv, SchemaInv', Managed, NEW m \in Callers, Working(m),
           manager[m].step = "run", Went(m), GetsClass(m, "class again")
    PROVE  Managed'
<1>1. Step(m, "class again", "get", MigrationClass, ClassGet(m, FALSE))
  BY DEF GetsClass
<1>2. Start(m, "get", MigrationClass, ClassGet(m, FALSE)) /\ SchemaInv
  BY <1>1 DEF Step, MigrationsInv
<1>3. Goes(m, "class again")
  BY <1>1, ClassBegins, Solos, StepGoes
<1>4. Steady(m) /\ Reached(m, ByStatement) /\ Reached(m, Inside)
  BY DEF Managed, Reached, ByStatement, Inside
<1>5. Finds(m, MigrationClass)
  BY <1>4 DEF Steady
<1>6. /\ call'[m].op = "get" /\ call'[m].of = MigrationClass /\ call'[m].outcome = "found"
      /\ Finds(m, MigrationClass)'
  BY <1>2, <1>5, GetBegins
<1>7. Steady(m)'
  BY <1>3, <1>6 DEF Goes, Steady, Reached, ByStatement, MigrationClass, ClassName
<1>8. Onward(manager[m], Word(m), manager'[m], Word(m)')
  BY <1>3, <1>4, WentWord DEF Goes, Onward
<1> QED
  BY <1>3, <1>7, <1>8, GoesManaged

\* It is created when it is not there.
LEMMA CreatesManaged ==
    ASSUME MigrationsInv, SchemaInv', Managed, NEW m \in Callers, EnsureStructure(m)
    PROVE  Managed'
<1>0. PICK step \in {"list", "structure"} :
        \/ /\ After(m, step)
           /\ Step(m, Creating(step), "create", MigrationClass, ClassCreate(m, MigrationClass))
        \/ /\ After(m, Creating(step))
           /\ Step(m, Completing(step), "create", Fields[1], PropertyCreateAll(m, Fields))
  BY DEF EnsureStructure
<1>1. /\ Creating(step) \in {"create to list", "create"}
      /\ Completing(step) \in {"properties to list", "properties"}
  BY DEF Creating, Completing
<1>2. Working(m) /\ manager[m].step \in Prelude
  BY <1>0, <1>1 DEF After, Prelude
<1>3. ASSUME NEW next \in {"create to list", "create", "properties to list", "properties"},
             NEW t, NEW stages, Begins("create", t, stages), \A i \in 1..Len(stages) : Solo(stages[i]),
             Step(m, next, "create", t, stages)
      PROVE  Managed'
  <2>1. Goes(m, next)
    BY <1>2, <1>3, StepGoes
  <2>2. call'[m].op = "create"
    BY <1>3, StartMoves DEF Step, MigrationsInv
  <2>3. Steady(m)'
    BY <2>1, <2>2 DEF Goes, Steady, Reached, ByStatement, Inside
  <2>4. Onward(manager[m], Word(m), manager'[m], Word(m)')
    BY <2>1, <1>2 DEF Goes, Onward, Prelude
  <2> QED
    BY <2>1, <2>3, <2>4, <1>2, GoesManaged
<1>4. CASE Step(m, Creating(step), "create", MigrationClass, ClassCreate(m, MigrationClass))
  BY <1>1, <1>3, <1>4, ClassBegins, Solos
<1>5. CASE Step(m, Completing(step), "create", Fields[1], PropertyCreateAll(m, Fields))
  BY <1>1, <1>3, <1>5, ClassBegins, Solos
<1> QED
  BY <1>0, <1>4, <1>5

\* A step whose request is the statement r.
Suits(y, w, step, r) == \A z :
    z.step = step /\ z.doing = y.doing /\ z.limit = y.limit /\ z.left = y.left =>
       AskedFor(z) = r /\ Onward(y, w, z, <<>>)

LEMMA StatementManaged ==
    ASSUME MigrationsInv, SchemaInv', Managed, NEW m \in Callers, Working(m), Finds(m, MigrationClass),
           NEW step \in ByStatement, NEW op, NEW n, StatementOf(op, n) \in Statements,
           Statement(m, step, op, n), Suits(manager[m], Word(m), step, StatementOf(op, n))
    PROVE  Managed'
<1> DEFINE r == StatementOf(op, n)
<1>1. Step(m, step, "statement", <<>>, <<One(r)>>)
  BY DEF Statement, StatementOf
<1>2. Start(m, "statement", <<>>, <<One(r)>>) /\ SchemaInv /\ call[m].outcome # "pending" /\ Tidy
  BY <1>1 DEF Step, MigrationsInv, Start, Managed
<1> HIDE DEF r
<1>3. r \in Statements
  BY DEF r
<1>4. Goes(m, step)
  BY <1>3, Solos, <1>1, StepGoes DEF Begins
<1>5. Asks(m, r)' /\ call'[m].outcome = "pending" /\ Word(m)' = <<>>
  BY <1>2, <1>3, Asking, AskedWord
<1>6. AskedFor(manager'[m]) = r /\ Onward(manager[m], Word(m), manager'[m], <<>>)
  BY <1>4 DEF Goes, Suits, r
<1>7. Finds(m, MigrationClass)'
  BY <1>2, <1>4, FindsStill DEF Goes, Listless
<1>8. manager'[m].step = step /\ Working(m)'
  BY <1>4 DEF Goes, Working
<1>9. Steady(m)'
  <2>1. Reached(m, ByStatement)'
    BY <1>8 DEF Reached
  <2>2. Asks(m, AskedFor(manager[m]))'
    BY <1>5, <1>6 DEF Asks
  <2>3. ~Reached(m, {"class", "class again"})' /\ ~Reached(m, {"class again"})' /\ ~Reached(m, {"next"})'
    BY <1>8 DEF Reached, ByStatement
  <2> QED
    BY <2>1, <2>2, <2>3, <1>5, <1>7 DEF Steady
<1>10. Onward(manager[m], Word(m), manager'[m], Word(m)')
  BY <1>5, <1>6
<1> QED
  BY <1>4, <1>9, <1>10, GoesManaged

LEMMA ListManaged ==
    ASSUME MigrationsInv, SchemaInv', Managed, NEW m \in Callers, ListMigrations(m) \/ ListApplied(m)
    PROVE  Managed'
<1>1. CASE ListMigrations(m)
  <2>1. Working(m) /\ manager[m].step \in Prelude /\ GetsClass(m, "structure")
    BY <1>1 DEF ListMigrations, Ensured, After, Completing, Prelude
  <2> QED
    BY <2>1, GetsClassManaged
<1>2. CASE Ensured(m, "structure") /\ GetsClass(m, "class")
  BY <1>2, GetsClassManaged DEF Ensured, After, Completing, Prelude
<1>3. CASE After(m, "class") /\ Went(m) /\ Statement(m, "select", "select", 0)
  <2>1. Working(m) /\ manager[m].step = "class"
    BY <1>3 DEF After
  <2>2. Finds(m, MigrationClass)
    BY <2>1, <1>3 DEF Managed, Reached, Steady, Went
  <2>3. Suits(manager[m], Word(m), "select", StatementOf("select", 0))
    BY <2>1 DEF Suits, AskedFor, Onward, Prelude
  <2>4. "select" \in ByStatement /\ StatementOf("select", 0) \in Statements
    BY StatementType DEF ByStatement
  <2> QED
    BY <2>1, <2>2, <2>3, <2>4, <1>3, StatementManaged
<1> QED
  BY <1>1, <1>2, <1>3 DEF ListApplied

\* Inside a run the class is there.
LEMMA FoundInside ==
    ASSUME Managed, NEW m \in Callers, Working(m), manager[m].step \in Inside
    PROVE  Finds(m, MigrationClass) /\ Steady(m) /\ Reached(m, Inside)
BY DEF Managed, Steady, Reached

LEMMA ApplyManaged ==
    ASSUME MigrationsInv, SchemaInv', Managed, NEW m \in Callers, ApplyMigration(m)
    PROVE  Managed'
<1> DEFINE y == manager[m]
           n == Head(y.left)
<1>1. y.doing = "up" /\ y.left # <<>> /\ Working(m)
  BY DEF ApplyMigration, Working
<1>2. \/ y.step = "next" /\ Statement(m, "run", "up", n)
      \/ y.step = "run" /\ Went(m) /\ GetsClass(m, "class again")
      \/ y.step = "class again" /\ Statement(m, "record", "record", n)
  BY DEF ApplyMigration, After
<1>3. Finds(m, MigrationClass)
  BY <1>1, <1>2, FoundInside DEF Inside, ByStatement
<1>4. StatementOf("up", n) \in Statements /\ StatementOf("record", n) \in Statements
  BY <1>1, Managing, HeadTailProperties, StatementType DEF StatementOps
<1>5. "run" \in ByStatement /\ "record" \in ByStatement
  BY DEF ByStatement
<1>6. CASE y.step = "next" /\ Statement(m, "run", "up", n)
  <2>1. Suits(y, Word(m), "run", StatementOf("up", n))
    BY <1>1, <1>6 DEF Suits, AskedFor, Onward
  <2> QED
    BY <2>1, <1>1, <1>3, <1>4, <1>5, <1>6, StatementManaged
<1>7. CASE y.step = "run" /\ Went(m) /\ GetsClass(m, "class again")
  BY <1>1, <1>7, GetsAgainManaged
<1>8. CASE y.step = "class again" /\ Statement(m, "record", "record", n)
  <2>1. Suits(y, Word(m), "record", StatementOf("record", n))
    BY <1>1, <1>8 DEF Suits, AskedFor, Onward
  <2> QED
    BY <2>1, <1>1, <1>3, <1>4, <1>5, <1>8, StatementManaged
<1> QED
  BY <1>2, <1>6, <1>7, <1>8

LEMMA RevertManaged ==
    ASSUME MigrationsInv, SchemaInv', Managed, NEW m \in Callers, RevertMigration(m)
    PROVE  Managed'
<1> DEFINE y == manager[m]
           n == Head(y.left)
<1>1. y.doing = "down" /\ y.left # <<>> /\ Working(m)
  BY DEF RevertMigration, Working
<1>2. \/ y.step = "next" /\ Statement(m, "run", "down", n)
      \/ y.step = "run" /\ Went(m) /\ GetsClass(m, "class again")
      \/ y.step = "class again" /\ Statement(m, "find", "select", n)
      \/ y.step = "find" /\ Went(m) /\ Statement(m, "record", "erase", n)
  BY DEF RevertMigration, After
<1>3. Finds(m, MigrationClass) /\ Steady(m)
  BY <1>1, <1>2, FoundInside DEF Inside, ByStatement
<1>4. /\ StatementOf("down", n) \in Statements /\ StatementOf("select", n) \in Statements
      /\ StatementOf("erase", n) \in Statements
  BY <1>1, Managing, HeadTailProperties, StatementType DEF StatementOps
<1>5. "run" \in ByStatement /\ "find" \in ByStatement /\ "record" \in ByStatement
  BY DEF ByStatement
<1>6. CASE y.step = "next" /\ Statement(m, "run", "down", n)
  <2>1. Suits(y, Word(m), "run", StatementOf("down", n))
    BY <1>1, <1>6 DEF Suits, AskedFor, Onward
  <2> QED
    BY <2>1, <1>1, <1>3, <1>4, <1>5, <1>6, StatementManaged
<1>7. CASE y.step = "run" /\ Went(m) /\ GetsClass(m, "class again")
  BY <1>1, <1>7, GetsAgainManaged
<1>8. CASE y.step = "class again" /\ Statement(m, "find", "select", n)
  <2>1. Suits(y, Word(m), "find", StatementOf("select", n))
    BY <1>1, <1>8 DEF Suits, AskedFor, Onward
  <2> QED
    BY <2>1, <1>1, <1>3, <1>4, <1>5, <1>8, StatementManaged
<1>9. CASE y.step = "find" /\ Went(m) /\ Statement(m, "record", "erase", n)
  <2>1. Word(m) # Refused
    BY <1>1, <1>3, <1>5, <1>9, WentWord DEF Reached
  <2>2. Suits(y, Word(m), "record", StatementOf("erase", n))
    BY <2>1, <1>1, <1>9 DEF Suits, AskedFor, Onward
  <2> QED
    BY <2>2, <1>1, <1>3, <1>4, <1>5, <1>9, StatementManaged
<1> QED
  BY <1>2, <1>6, <1>7, <1>8, <1>9

--------------------------------------------------------------------------------
(* The steps of a manager that ask for nothing.                                 *)

\* The manager m is z now, and all else is as before.
Becomes(m, z) == /\ manager' = [manager EXCEPT ![m] = z] /\ z \in Manager
                 /\ UNCHANGED <<schemaVars, role, ups, downs, records, overlapped>>

LEMMA LocalManaged ==
    ASSUME MigrationsInv, SchemaInv', Managed, NEW m \in Callers, Working(m), NEW z, Becomes(m, z)
    PROVE  /\ manager'[m] = z /\ Word(m)' = Word(m) /\ call' = call
           /\ UNCHANGED <<records, ups, downs, losses, overlapped>>
           /\ Finds(m, MigrationClass) => Finds(m, MigrationClass)'
           /\ \A x \in Callers : x # m => manager'[x] = manager[x]
           /\ Steady(m)' /\ (~overlapped => Calm') => Managed'
<1>1. /\ UNCHANGED <<api, dbOf, changes, cached, flight, opened, call, losses>>
      /\ UNCHANGED <<records, ups, downs, overlapped>>
      /\ manager' = [manager EXCEPT ![m] = z]
  BY DEF Becomes, schemaVars
<1>2. SchemaInv /\ manager \in [Callers -> Manager]
  BY Managing DEF MigrationType
<1>3. Tidy /\ \A x \in Callers : Steady(x)
  BY DEF Managed
<1>4. TidyStep
  BY <1>1, <1>2, <1>3, TidyStands
<1>5. manager'[m] = z /\ \A x \in Callers : x # m => manager'[x] = manager[x]
  BY <1>1, <1>2
<1>6. Word(m)' = Word(m)
  BY <1>1 DEF Word, WordIn
<1>7. Finds(m, MigrationClass) => Finds(m, MigrationClass)'
  BY <1>1 DEF Finds, HasCached, Contents, MigrationClass, ClassName
<1>8. ASSUME NEW x \in Callers, x # m PROVE Steady(x)'
  <2>1. \A r : Asks(x, r) => Asks(x, r)'
    BY <1>1 DEF Asks, Own
  <2> QED
    BY <2>1, <1>1, <1>2, <1>3, <1>4, <1>5, <1>8, HeedsStill, SteadyStill
<1>9. Steady(m)' /\ (~overlapped => Calm') => Managed'
  BY <1>1, <1>4, <1>8 DEF Managed, TidyStep
<1> QED
  BY <1>1, <1>5, <1>6, <1>7, <1>9

\* After what it selected, and after what it recorded, a manager comes to the next.
LEMMA ComesNext ==
    ASSUME MigrationsInv, SchemaInv', Managed, NEW m \in Callers, Working(m),
           Reached(m, ByStatement), Went(m), NEW z, Becomes(m, z),
           z.step = "next", z.doing = manager[m].doing, z.limit = manager[m].limit,
           z.done = manager[m].done,
           ~overlapped => /\ Careful(records, z, Word(m))
                          /\ \A n : Due(manager[m], Word(m), n) = 0
    PROVE  Managed'
<1>1. /\ manager'[m] = z /\ Word(m)' = Word(m) /\ call' = call
      /\ UNCHANGED <<records, ups, downs, losses, overlapped>>
      /\ Finds(m, MigrationClass) => Finds(m, MigrationClass)'
      /\ \A x \in Callers : x # m => manager'[x] = manager[x]
      /\ Steady(m)' /\ (~overlapped => Calm') => Managed'
  BY LocalManaged
<1>2. Steady(m) /\ Finds(m, MigrationClass)
  BY DEF Managed, Steady, Reached, Inside
<1>3. call'[m].outcome = "done"
  BY <1>1, <1>2, WentWord
<1>4. Steady(m)'
  BY <1>1, <1>2, <1>3 DEF Steady, Reached, ByStatement
<1>5. ASSUME ~overlapped PROVE Calm'
  <2>1. \A x \in Callers : Kept(x)
    BY <1>1 DEF Kept
  <2>2. Calm /\ Total(Gaps(records, ups, downs, manager[m], Word(m))) <= losses
    BY <1>5 DEF Managed, Calm, Off
  <2>3. \A n : Due(z, Word(m), n) = Due(manager[m], Word(m), n)
    BY <1>5 DEF Due, Ran
  <2>4. Gaps(records, ups, downs, z, Word(m)) = Gaps(records, ups, downs, manager[m], Word(m))
    BY <2>3, GapsSame
  <2>5. Cares(m)
    BY <1>1, <1>5, <2>2, <2>4 DEF Cares
  <2> QED
    BY <2>1, <2>2, <2>5, CalmGoesOn
<1> QED
  BY <1>1, <1>4, <1>5

LEMMA SelectedManaged ==
    ASSUME MigrationsInv, SchemaInv', Managed, NEW m \in Callers, Selected(m)
    PROVE  Managed'
<1> DEFINE got == call[m].got
           y == manager[m]
           left == Limited(IF y.doing = "up" THEN Pending(got) ELSE Applied(got), y.limit)
           z == [y EXCEPT !.step = "next", !.left = left]
<1>1. /\ Working(m) /\ y.step = "select" /\ Went(m)
      /\ manager' = [manager EXCEPT ![m].step = "next", ![m].left = left]
      /\ UNCHANGED <<schemaVars, role, ups, downs, records, overlapped>>
  BY DEF Selected, After
<1>2. manager \in [Callers -> Manager] /\ y \in Manager /\ y.limit \in {0, 1} /\ y.doing \in {"up", "down"}
      /\ records \in [Known -> Nat]
  BY <1>1, Managing, ManagerType DEF MigrationType
<1>3. left \in Seq(Known)
  <2>1. Shown(got)
    BY <1>1, Standing
  <2>2. CASE y.doing = "up"
    BY <2>1, <2>2, <1>2, PendingOrdered
  <2>3. CASE y.doing # "up"
    <3>1. got \in [Known -> Nat]
      BY <2>1 DEF Shown
    <3> HIDE DEF got
    <3> QED
      BY <2>3, <3>1, <1>2, AppliedType
  <2> QED
    BY <2>2, <2>3
<1>4. Reached(m, ByStatement) /\ Steady(m)
  BY <1>1 DEF Managed, Reached, ByStatement
<1>5. Word(m) = <<"ok", got>> /\ Word(m) # <<>> /\ Word(m) # Refused
  BY <1>1, <1>4, WentWord
<1>6. ASSUME ~overlapped PROVE got = records
  <2>1. Word(m) \in {<<>>, Refused, <<"ok", records>>}
    BY <1>1, <1>6 DEF Managed, Calm, Careful
  <2>2. <<"ok", got>> = <<"ok", records>>
    BY <2>1, <1>5
  <2> HIDE DEF got
  <2> QED
    BY <2>2, Words
<1>7. ASSUME ~overlapped PROVE /\ y.doing = "down" => Enough(records, left)
                               /\ y.doing = "up" /\ y.limit = 0 => Covers(records, left)
  <2>1. left = Limited(IF y.doing = "up" THEN Pending(records) ELSE Applied(records), y.limit)
    BY <1>6, <1>7
  <2>2. Enough(records, Limited(Applied(records), y.limit)) /\ Covers(records, Limited(Pending(records), 0))
    BY <1>2, AppliedEnough, PendingCovers
  <2> HIDE DEF left
  <2> QED
    BY <2>1, <2>2
<1> HIDE DEF left, got
<1>8. z \in Manager /\ z.step = "next" /\ z.left = left /\ z.doing = y.doing /\ z.limit = y.limit /\ z.done = y.done
  BY <1>2, <1>3 DEF Manager, Steps
<1>9. Becomes(m, z)
  BY <1>1, <1>2, <1>8 DEF Becomes
<1> HIDE DEF z
<1>10. ~overlapped => Careful(records, z, Word(m))
  BY <1>7, <1>8 DEF Careful, Reverting, Covering
<1>11. \A n : Due(y, Word(m), n) = 0
  BY <1>1 DEF Due, Ran
<1> QED
  BY <1>1, <1>4, <1>8, <1>9, <1>10, <1>11, ComesNext

LEMMA NextMigrationManaged ==
    ASSUME MigrationsInv, SchemaInv', Managed, NEW m \in Callers, NextMigration(m)
    PROVE  Managed'
<1> DEFINE y == manager[m]
           left == y.left
           z == [y EXCEPT !.step = "next", !.left = Tail(left)]
<1>1. /\ Working(m) /\ y.step = "record" /\ Went(m)
      /\ manager' = [manager EXCEPT ![m].step = "next", ![m].left = Tail(@)]
      /\ UNCHANGED <<schemaVars, role, ups, downs, records, overlapped>>
  BY DEF NextMigration, After
<1>2. manager \in [Callers -> Manager] /\ y \in Manager /\ left \in Seq(Known) /\ records \in [Known -> Nat]
  BY <1>1, Managing DEF MigrationType
<1>3. left # <<>>
  BY <1>1, Standing
<1>4. Reached(m, ByStatement) /\ Steady(m)
  BY <1>1 DEF Managed, Reached, ByStatement
<1>5. Word(m) # <<>> /\ Word(m) # Refused
  BY <1>1, <1>4, WentWord
<1>6. Tail(left) \in Seq(Known)
  BY <1>2, <1>3, HeadTailProperties
<1>7. z \in Manager /\ z.step = "next" /\ z.left = Tail(left) /\ z.doing = y.doing /\ z.limit = y.limit
      /\ z.done = y.done
  BY <1>2, <1>6 DEF Manager, Steps
<1>8. Becomes(m, z)
  BY <1>1, <1>2, <1>7 DEF Becomes
<1> HIDE DEF z
<1>9. ASSUME ~overlapped PROVE Careful(records, z, Word(m))
  <2>1. Careful(records, y, Word(m))
    BY <1>1, <1>9 DEF Managed, Calm
  <2>2. y.doing = "down" => Enough(records, Tail(left))
    BY <2>1, <1>1, <1>5 DEF Careful, Reverting
  <2>3. y.doing = "up" /\ y.limit = 0 => Covers(records, Tail(left))
    <3>1. SUFFICES ASSUME y.doing = "up", y.limit = 0 PROVE Covers(records, Tail(left))
      OBVIOUS
    <3>2. Covers(records, left) /\ records[Head(left)] > 0
      BY <2>1, <3>1, <1>1, <1>5 DEF Careful, Covering
    <3> QED
      BY <3>2, <1>2, <1>3, CoversNext
  <2> QED
    BY <2>2, <2>3, <1>7 DEF Careful, Reverting, Covering
<1>10. \A n : Due(y, Word(m), n) = 0
  BY <1>1, <1>5 DEF Due, Ran
<1> QED
  BY <1>1, <1>4, <1>7, <1>8, <1>9, <1>10, ComesNext

LEMMA RestsManaged ==
    ASSUME MigrationsInv, SchemaInv', Managed, NEW m \in Callers, Working(m), call[m].outcome # "pending",
           NEW done \in BOOLEAN, Rests(m, done),
           ~overlapped => /\ \A n \in Known : Due(manager[m], Word(m), n) = 0
                          /\ done => \A n \in Known : records[n] > 0
    PROVE  Managed'
<1> DEFINE z == [Resting EXCEPT !.done = done]
<1>1. /\ manager' = [manager EXCEPT ![m] = z]
      /\ UNCHANGED <<schemaVars, role, ups, downs, records, overlapped>>
  BY DEF Rests
<1>2. z \in Manager /\ z.doing = "nothing" /\ z.done = done
  <2>1. Resting \in Manager
    BY DEF Resting, Manager, Steps
  <2>2. z \in Manager
    BY <2>1 DEF Manager
  <2> QED
    BY <2>2 DEF Resting
<1> HIDE DEF z
<1>3. Becomes(m, z)
  BY <1>1, <1>2 DEF Becomes
<1>4. /\ manager'[m] = z /\ call' = call /\ UNCHANGED <<records, ups, downs, losses, overlapped>>
      /\ \A x \in Callers : x # m => manager'[x] = manager[x]
      /\ Steady(m)' /\ (~overlapped => Calm') => Managed'
  BY <1>3, LocalManaged
<1>5. Steady(m)'
  BY <1>2, <1>4 DEF Steady, Reached, Working
<1>6. ASSUME ~overlapped PROVE Calm'
  BY <1>4, <1>6, <1>2, CalmRests DEF Managed, Kept
<1> QED
  BY <1>4, <1>5, <1>6

LEMMA FinishedManaged ==
    ASSUME MigrationsInv, SchemaInv', Managed, NEW m \in Callers, Finished(m)
    PROVE  Managed'
<1> DEFINE y == manager[m]
           done == y.doing = "up" /\ y.limit = 0
<1>1. Working(m) /\ y.step = "next" /\ y.left = <<>> /\ Rests(m, done)
  BY DEF Finished
<1>2. done \in BOOLEAN
  OBVIOUS
<1>3. call[m].outcome # "pending"
  BY <1>1 DEF Managed, Reached, Steady
<1>4. \A n : Due(y, Word(m), n) = 0
  BY <1>1 DEF Due, Ran
<1>5. ASSUME ~overlapped, done PROVE \A n \in Known : records[n] > 0
  <2>1. Careful(records, y, Word(m))
    BY <1>1, <1>5 DEF Managed, Calm
  <2>2. Covers(records, <<>>)
    BY <2>1, <1>1, <1>5 DEF Careful, Covering
  <2>3. 1..Len(<<>>) = {}
    OBVIOUS
  <2> QED
    BY <2>2, <2>3 DEF Covers
<1> HIDE DEF done
<1> QED
  BY <1>1, <1>2, <1>3, <1>4, <1>5, RestsManaged

\* What has run is recorded before anything rejects the rest, unless its record is refused.
LEMMA RejectedManaged ==
    ASSUME MigrationsInv, SchemaInv', Managed, NEW m \in Callers, Rejected(m)
    PROVE  Managed'
<1> DEFINE y == manager[m]
           w == Word(m)
<1>1. /\ Working(m) /\ call[m].outcome # "pending" /\ Rests(m, FALSE)
      /\ \/ call[m].outcome \in {"failed", "gone"}
         \/ call[m].outcome = "missing"
         \/ y.step = "find" /\ Went(m) /\ call[m].got[Head(y.left)] = 0
  BY DEF Rejected
<1>2. Steady(m) /\ y \in Manager /\ y.left \in Seq(Known) /\ records \in [Known -> Nat]
  BY <1>1, Managing DEF Managed, MigrationType
<1>3. ASSUME ~overlapped, y.step \in ByStatement PROVE w = Refused
  <2>1. Reached(m, ByStatement)
    BY <1>1, <1>3 DEF Reached
  <2>2. call[m].outcome \in {"done", "failed"}
    BY <2>1, <1>1, <1>2 DEF Steady
  <2>3. CASE call[m].outcome = "failed"
    BY <2>3 DEF Word, WordIn
  <2>4. CASE call[m].outcome = "done"
    <3> DEFINE got == call[m].got
    <3>1. y.step = "find" /\ Went(m) /\ got[Head(y.left)] = 0
      BY <2>4, <1>1
    <3>2. w = <<"ok", got>> /\ w # <<>> /\ w # Refused
      BY <3>1, <2>1, <1>2, WentWord
    <3>3. Careful(records, y, w)
      BY <1>1, <1>3 DEF Managed, Calm
    <3>4. w = <<"ok", records>> /\ Enough(records, y.left)
      BY <3>1, <3>2, <3>3 DEF Careful, Reverting
    <3>5. y.left # <<>>
      BY <1>1, <3>1, Standing
    <3>6. records[Head(y.left)] > 0
      BY <3>4, <3>5, <1>2, EnoughNext
    <3>7. got = records
      <4>1. <<"ok", got>> = <<"ok", records>>
        BY <3>2, <3>4
      <4> HIDE DEF got
      <4> QED
        BY <4>1, Words
    <3>8. Head(y.left) \in Known
      BY <1>2, <3>5, HeadTailProperties
    <3> QED
      BY <3>1, <3>6, <3>7, <3>8, <1>2
  <2> QED
    BY <2>2, <2>3, <2>4
<1>4. y.step # "class again"
  BY <1>2, <1>1 DEF Steady, Reached
<1>5. ASSUME ~overlapped PROVE \A n : Due(y, w, n) = 0
  <2>1. y.step \notin ByStatement \/ w = Refused
    BY <1>3, <1>5
  <2>2. Refused # <<>>
    BY Words
  <2> HIDE DEF y, w
  <2> QED
    BY <2>1, <2>2, <1>4 DEF Due, Ran, ByStatement
<1>6. FALSE \in BOOLEAN
  OBVIOUS
<1> QED
  BY <1>1, <1>5, <1>6, RestsManaged

--------------------------------------------------------------------------------
(* A run begins.                                                                *)

LEMMA BeginManaged ==
    ASSUME MigrationsInv, SchemaInv', Managed, NEW m \in Callers, NEW doing \in {"up", "down"},
           NEW limit \in {0, 1}, Begin(m, doing, limit)
    PROVE  Managed'
<1> DEFINE step == IF doing = "up" THEN "list" ELSE "structure"
           z == [Resting EXCEPT !.doing = doing, !.limit = limit, !.step = step]
<1>1. /\ ~Working(m) /\ Start(m, "get", MigrationClass, ClassGet(m, FALSE))
      /\ overlapped' = (overlapped \/ \E x \in Callers : Working(x))
      /\ manager' = [x \in Callers |-> IF x = m THEN z ELSE [manager[x] EXCEPT !.done = FALSE]]
      /\ UNCHANGED <<role, ups, downs, records>>
  BY DEF Begin
<1>2. SchemaInv /\ manager \in [Callers -> Manager] /\ overlapped \in BOOLEAN
  BY DEF MigrationsInv, MigrationType
<1>3. Tidy /\ (\A x \in Callers : Steady(x)) /\ (~overlapped => Calm)
  BY DEF Managed
<1>4. /\ z.step \in {"list", "structure"} /\ z.doing # "nothing" /\ z.done = FALSE
      /\ z.doing = doing /\ z.step = step
  BY DEF Resting
<1> HIDE DEF z, step
<1>5. \A x \in Callers : /\ [manager[x] EXCEPT !.done = FALSE].doing = manager[x].doing
                         /\ [manager[x] EXCEPT !.done = FALSE].step = manager[x].step
                         /\ [manager[x] EXCEPT !.done = FALSE].left = manager[x].left
                         /\ [manager[x] EXCEPT !.done = FALSE].done = FALSE
  BY <1>2 DEF Manager
<1>6. /\ manager'[m] = z
      /\ \A x \in Callers : ~manager'[x].done
      /\ \A x \in Callers : x # m => /\ manager'[x].doing = manager[x].doing
                                     /\ manager'[x].step = manager[x].step
                                     /\ manager'[x].left = manager[x].left
  BY <1>1, <1>4, <1>5
<1>7. Begins("get", MigrationClass, ClassGet(m, FALSE))
  BY ClassBegins
<1>8. TidyStep /\ UNCHANGED <<dbOf, losses>>
  BY <1>1, <1>2, <1>3, <1>7, Solos, TidyStart DEF Start
<1>9. /\ \A x \in Callers : x # m => call'[x] = call[x]
      /\ call'[m].op = "get" /\ Flows({})
  BY <1>1, <1>2, <1>7, StartMoves
<1>10. ASSUME NEW x \in Callers, x # m PROVE Steady(x)'
  <2>1. ASSUME NEW r, Asks(x, r) PROVE Asks(x, r)'
    <3>1. call'[x].op = "statement"
      BY <2>1, <1>9, <1>10 DEF Asks
    <3> QED
      BY <3>1, <2>1, <1>2, <1>8, <1>9, AsksStill
  <2> QED
    BY <2>1, <1>2, <1>3, <1>6, <1>8, <1>9, <1>10, HeedsStill, SteadyStill
<1>11. Steady(m)'
  BY <1>4, <1>6, <1>9 DEF Steady, Reached, ByStatement, Inside
<1>12. ASSUME ~overlapped' PROVE Calm'
  <2>1. ~overlapped /\ \A x \in Callers : ~Working(x)
    BY <1>1, <1>2, <1>12
  <2>2. Total(Gaps(records, ups, downs, Resting, <<>>)) <= losses
    BY <2>1, <1>3 DEF Calm, Off
  <2>3. \A x \in Callers : Working(x)' <=> x = m
    BY <2>1, <1>4, <1>6 DEF Working
  <2>4. Careful(records, z, Word(m)')
    BY <1>4 DEF Careful, Reverting, Covering
  <2>5. Gaps(records, ups, downs, z, Word(m)') = Gaps(records, ups, downs, Resting, <<>>)
    <3>1. \A n : Due(Resting, <<>>, n) = 0
      BY DEF Due, Ran, Resting
    <3>2. ASSUME NEW v PROVE \A n : Due(z, v, n) = 0
      BY <1>4 DEF Due, Ran
    <3> QED
      BY <3>1, <3>2, GapsSame
  <2>6. Careful(records', manager'[m], Word(m)')
        /\ Total(Gaps(records', ups', downs', manager'[m], Word(m)')) <= losses'
    BY <2>2, <2>4, <2>5, <1>1, <1>6, <1>8
  <2>7. /\ Careful(records, manager[m], Word(m))'
        /\ (Total(Off(manager[m], Word(m))) <= losses)'
    BY <2>6 DEF Off
  <2> QED
    BY <2>3, <2>7, <1>6 DEF Calm
<1>13. ~overlapped' => Calm'
  BY <1>12
<1> QED
  BY <1>8, <1>10, <1>11, <1>13 DEF Managed, TidyStep

LEMMA ManageManaged ==
    ASSUME MigrationsInv, SchemaInv', Managed, NEW m \in Callers, Up(m) \/ Down(m) \/ Manage(m)
    PROVE  Managed'
<1>1. CASE Up(m) \/ Down(m)
  BY <1>1, BeginManaged DEF Up, Down
<1>2. CASE EnsureStructure(m)
  BY <1>2, CreatesManaged
<1>3. CASE ListMigrations(m) \/ ListApplied(m)
  BY <1>3, ListManaged
<1>4. CASE ApplyMigration(m)
  BY <1>4, ApplyManaged
<1>5. CASE RevertMigration(m)
  BY <1>5, RevertManaged
<1>6. CASE Selected(m)
  BY <1>6, SelectedManaged
<1>7. CASE NextMigration(m)
  BY <1>7, NextMigrationManaged
<1>8. CASE Finished(m)
  BY <1>8, FinishedManaged
<1>9. CASE Rejected(m)
  BY <1>9, RejectedManaged
<1> QED
  BY <1>1, <1>2, <1>3, <1>4, <1>5, <1>6, <1>7, <1>8, <1>9 DEF Manage

LEMMA StutterManaged ==
    ASSUME MigrationsInv, SchemaInv', Managed, UNCHANGED vars
    PROVE  Managed'
<1>1. /\ UNCHANGED <<api, dbOf, changes, cached, flight, opened, call, losses>>
      /\ UNCHANGED <<manager, ups, downs, records, overlapped>>
  BY DEF vars, schemaVars, migrationVars
<1>2. SchemaInv /\ MigrationType /\ losses \in Nat
  BY DEF MigrationsInv, SchemaInv, SchemaType
<1>3. Tidy /\ (\A m \in Callers : Steady(m)) /\ (~overlapped => Calm)
  BY DEF Managed
<1>4. TidyStep
  BY <1>1, <1>2, <1>3, TidyStands
<1>5. ASSUME NEW m \in Callers PROVE Steady(m)'
  <2>1. \A r : Asks(m, r) => Asks(m, r)'
    BY <1>1 DEF Asks, Own
  <2> QED
    BY <2>1, <1>1, <1>2, <1>3, <1>4, HeedsStill, SteadyStill
<1>6. ASSUME ~overlapped, NEW m \in Callers, Working(m) PROVE Cares(m)
  <2>1. Word(m)' = Word(m)
    BY <1>1 DEF Word, WordIn
  <2>2. Careful(records, manager[m], Word(m)) /\ Total(Gaps(records, ups, downs, manager[m], Word(m))) <= losses
    BY <1>3, <1>6 DEF Calm, Off
  <2> QED
    BY <2>1, <2>2, <1>1 DEF Cares
<1>7. ~overlapped => Calm'
  BY <1>1, <1>2, <1>3, <1>6, CalmStill
<1> QED
  BY <1>1, <1>4, <1>5, <1>7 DEF Managed, TidyStep

--------------------------------------------------------------------------------
(* Programs that run no managers.                                               *)

\* What is in flight is about the schema, and stays so.
LEMMA ProgramsStill ==
    ASSUME SchemaInv, Programs, Flows({}), UNCHANGED <<manager, ups, downs, records>>
    PROVE  Programs'
<1>1. ASSUME NEW d \in Dbs, NEW j \in 1..Len(flight'[d]) PROVE flight'[d][j].what \in SchemaRequests
  <2>1. Carried(d, flight'[d][j]) \/ flight'[d][j].what \in SchemaRequests
    BY DEF Flows
  <2>2. CASE Carried(d, flight'[d][j])
    <3>1. PICK i \in 1..Len(flight[d]) : flight'[d][j].what = flight[d][i].what
      BY <2>2 DEF Carried
    <3> QED
      BY <3>1 DEF Programs
  <2> QED
    BY <2>1, <2>2
<1> QED
  BY <1>1 DEF Programs

LEMMA ProgramsStep ==
    ASSUME MigrationsInv, role # "managers", Programs, [Next]_vars
    PROVE  Programs'
<1>1. SchemaInv /\ role \in Kinds \cup {"managers"}
  BY DEF MigrationsInv, MigrationType
<1>2. CASE SchemaNext /\ UNCHANGED migrationVars
  <2>1. Flows({})
    BY <1>1, <1>2, ServeMoves, ReplyMoves, LoseMoves, ContinueMoves DEF SchemaNext, Moves
  <2> QED
    BY <1>1, <1>2, <2>1, ProgramsStill DEF migrationVars
<1>3. CASE CallNext(role) /\ UNCHANGED migrationVars
  <2>1. PICK c \in Callers : \E op, t, stages :
          /\ op # "statement" /\ Plan(op, t, stages) /\ (t \in Parts => instance[c] # <<>>)
          /\ Start(c, op, t, stages)
    BY <1>1, <1>3, CallsBegin
  <2>2. PICK op, t, stages : op # "statement" /\ Plan(op, t, stages) /\ Start(c, op, t, stages)
    BY <2>1
  <2>3. Flows({})
    BY <1>1, <2>2, StartMoves DEF Begins
  <2> QED
    BY <1>1, <1>3, <2>3, ProgramsStill DEF migrationVars
<1>4. ASSUME NEW d \in Dbs, NEW i \in 1..Len(flight[d]), ServeStatement(d, i) PROVE FALSE
  BY <1>4, StatementType DEF Programs, ServeStatement
<1>5. ASSUME NEW m \in Callers, Up(m) \/ Down(m) \/ Manage(m) PROVE FALSE
  <2>1. ~Working(m)
    BY DEF MigrationsInv
  <2>2. ~Up(m) /\ ~Down(m)
    BY DEF Up, Down, Begin
  <2>3. ~EnsureStructure(m) /\ ~ListMigrations(m) /\ ~ListApplied(m) /\ ~Selected(m) /\ ~NextMigration(m)
    BY <2>1 DEF EnsureStructure, ListMigrations, ListApplied, Ensured, Selected, NextMigration, After
  <2>4. ~ApplyMigration(m) /\ ~RevertMigration(m)
    BY <2>1 DEF ApplyMigration, RevertMigration, Working
  <2>5. ~Finished(m) /\ ~Rejected(m)
    BY <2>1 DEF Finished, Rejected
  <2> QED
    BY <1>5, <2>2, <2>3, <2>4, <2>5 DEF Manage
<1>6. CASE UNCHANGED vars
  <2>1. UNCHANGED <<flight, manager, ups, downs, records>>
    BY <1>6 DEF vars, schemaVars, migrationVars
  <2> QED
    BY <1>1, <2>1, StillThere, ProgramsStill
<1> QED
  BY <1>2, <1>3, <1>4, <1>5, <1>6 DEF Next

--------------------------------------------------------------------------------
(* The inductive invariant.                                                     *)

LEMMA RecordsStep ==
    ASSUME RecordsInv, [Next]_vars
    PROVE  RecordsInv'
<1>1. MigrationsInv /\ MigrationsInv' /\ SchemaInv'
  BY MigrationsStep DEF RecordsInv, MigrationsInv
<1>2. role' = role
  <2>1. ASSUME NEW m \in Callers, Up(m) \/ Down(m) \/ Manage(m) PROVE role' = role
    BY <2>1 DEF Up, Down, Begin, Manage, EnsureStructure, ListMigrations, ListApplied, GetsClass,
       Statement, Step, Selected, ApplyMigration, RevertMigration, NextMigration, Finished, Rejected, Rests
  <2>2. ASSUME NEW d \in Dbs, NEW i \in 1..Len(flight[d]), ServeStatement(d, i) PROVE role' = role
    BY <2>2 DEF ServeStatement
  <2> QED
    BY <2>1, <2>2 DEF Next, vars, migrationVars
<1>3. CASE role # "managers"
  BY <1>1, <1>3, ProgramsStep, <1>2 DEF RecordsInv
<1>4. CASE role = "managers"
  <2>1. Managed
    BY <1>4 DEF RecordsInv
  <2> SUFFICES Managed'
    BY <1>1, <1>2, <1>4 DEF RecordsInv
  <2>2. CASE SchemaNext /\ UNCHANGED migrationVars
    BY <1>1, <2>1, <2>2, SchemaManaged
  <2>3. ~CallNext(role)
    BY <1>4 DEF CallNext
  <2>4. ASSUME NEW d \in Dbs, NEW i \in 1..Len(flight[d]), ServeStatement(d, i) PROVE Managed'
    BY <1>1, <2>1, <2>4, ServeManaged
  <2>5. ASSUME NEW m \in Callers, Up(m) \/ Down(m) \/ Manage(m) PROVE Managed'
    BY <1>1, <2>1, <2>5, ManageManaged
  <2>6. CASE UNCHANGED vars
    BY <1>1, <2>1, <2>6, StutterManaged
  <2> QED
    BY <2>2, <2>3, <2>4, <2>5, <2>6 DEF Next
<1> QED
  BY <1>3, <1>4

LEMMA RecordsInit ==
    ASSUME Init
    PROVE  RecordsInv
<1>1. MigrationsInv
  BY MigrationsInit
<1>2. /\ manager = [m \in Callers |-> Resting] /\ losses = 0
      /\ ups = [n \in Known |-> 0] /\ downs = [n \in Known |-> 0] /\ records = [n \in Known |-> 0]
      /\ call = [c \in Callers |-> NoCall] /\ flight = [d \in Dbs |-> <<>>] /\ opened = [d \in Dbs |-> TRUE]
  BY DEF Init, SchemaInit
<1>3. \A d \in Dbs : 1..Len(flight[d]) = {}
  BY <1>2
<1>4. \A m \in Callers : ~Working(m) /\ ~manager[m].done /\ call[m] = NoCall
  BY <1>2 DEF Working, Resting
<1>5. Programs
  BY <1>2, <1>3, <1>4 DEF Programs
<1>6. ASSUME role = "managers" PROVE Managed
  <2>1. api = "client" /\ \A a, b \in Callers : dbOf[a] = dbOf[b] => a = b
    BY <1>6 DEF Init
  <2>2. ASSUME NEW d \in Dbs, NEW k \in Kinds PROVE cached[d][k] <= Len(changes)
    <3>1. PICK held \in IF changes = <<>> THEN {Never} ELSE {Never, Len(changes)} :
             cached = [x \in Dbs |-> [y \in Kinds |->
                 IF y = "class" THEN held
                 ELSE IF y = "cluster" /\ api = "legacy" THEN Len(changes) ELSE Never]]
      BY DEF Init, SchemaInit
    <3>2. Len(changes) \in Nat /\ Never <= Len(changes)
      BY <1>1 DEF MigrationsInv, SchemaInv, SchemaType, Never
    <3>3. held \in {Never, Len(changes)}
      BY <3>1
    <3>4. cached[d][k] \in {Never, Len(changes)}
      BY <3>1, <3>3
    <3> QED
      BY <3>2, <3>4
  <2>3. ASSUME NEW c \in Callers PROVE Alone(c)
    <3>1. dbOf[c] \in Dbs
      BY <1>1, HeldType DEF MigrationsInv
    <3>2. Own(c) = {}
      BY <3>1, <1>3 DEF Own, OwnIn
    <3>3. Len(call[c].todo) = 0
      BY <1>4 DEF NoCall
    <3> QED
      BY <3>2, <3>3 DEF Alone
  <2>4. Tidy
    BY <2>1, <2>2, <2>3, <1>2, <1>3 DEF Tidy
  <2>5. ASSUME NEW m \in Callers PROVE Steady(m)
    <3>1. call[m].outcome # "pending"
      BY <1>4 DEF NoCall
    <3>2. \A S : ~Reached(m, S)
      BY <1>4 DEF Reached
    <3> QED
      BY <3>1, <3>2 DEF Steady
  <2>6. Calm
    BY <1>2, NothingOff, <1>4 DEF Calm
  <2> QED
    BY <2>4, <2>5, <2>6 DEF Managed
<1> QED
  BY <1>1, <1>5, <1>6 DEF RecordsInv

LEMMA RecordsRight ==
    ASSUME RecordsInv
    PROVE  AsRecorded
<1>1. MigrationType /\ losses \in Nat
  BY DEF RecordsInv, MigrationsInv, SchemaInv, SchemaType
<1>2. Unmatched = Total(Off(Resting, <<>>))
  BY <1>1, UnmatchedIs
<1>3. CASE role = "managers"
  BY <1>3, <1>2 DEF RecordsInv, Managed, Calm, AsRecorded
<1>4. CASE role # "managers"
  <2>1. Programs
    BY <1>4 DEF RecordsInv
  <2>2. Total(Off(Resting, <<>>)) = 0
    BY <2>1, NothingOff DEF Programs
  <2> QED
    BY <2>1, <2>2, <1>1, <1>2 DEF Programs, AsRecorded
<1> QED
  BY <1>3, <1>4

--------------------------------------------------------------------------------
(* What follows for every behaviour.                                            *)

\* The inductive invariant: every request of a manager is in flight for what the
\* manager does, and what is left for it are the lowest names not yet applied.
THEOREM MigrationsInvariant == Spec => []MigrationsInv
<1>1. Init => MigrationsInv
  BY MigrationsInit
<1>2. MigrationsInv /\ [Next]_vars => MigrationsInv'
  BY MigrationsStep
<1> QED
  BY <1>1, <1>2, PTL DEF Spec

\* The calls of a program and of the managers are well-typed, whatever the classes,
\* the properties, the callers and the directory: each keeps the plan of its kind.
THEOREM MigrationTypeCorrect == Spec => []TypeOK
<1>1. MigrationsInv => TypeOK
  BY DEF MigrationsInv, SchemaInv, TypeOK
<1> QED
  BY <1>1, MigrationsInvariant, PTL

\* up() applies a migration only when all those before it have been applied, whatever
\* the directory lists, however many managers run at a time and whatever is lost.
THEOREM AppliedInOrderCorrect == Spec => AppliedInOrder
<1>1. MigrationsInv /\ [Next]_vars =>
        [\A n \in Known : ups'[n] # ups[n] => \A k \in Known : k < n => ups[k] > 0]_vars
  BY AppliedStep
<1> QED
  BY <1>1, MigrationsInvariant, PTL DEF Spec, AppliedInOrder

\* On the legacy database what a call has created, dropped or renamed is in the cache
\* once the call has ended, and for ever: its one connection answers in order, so that
\* the list a call ends with is newer than the change, and no list that arrives
\* later is older.  What create() does not find then, somebody else has removed.
THEOREM OwnChangesStayCorrect == Spec => []OwnChangesStay
<1>1. Init => LegacyInv
  BY LegacyInit
<1>2. MigrationsInv /\ LegacyInv /\ [Next]_vars => LegacyInv'
  BY LegacyStep
<1>3. MigrationsInv /\ LegacyInv => OwnChangesStay
  BY LegacyStays DEF MigrationsInv
<1> QED
  BY <1>1, <1>2, <1>3, MigrationsInvariant, PTL DEF Spec

\* applyMigration() and revertMigration() ask for a migration and for its record one
\* after the other.  Where no two runs overlap, records and migrations differ by no
\* more than the connections that were lost in between, and an up() without a limit
\* that has resolved leaves no migration without a record, whatever is refused or lost.
THEOREM AsRecordedCorrect == Spec => []AsRecorded
<1>1. Init => RecordsInv
  BY RecordsInit
<1>2. RecordsInv /\ [Next]_vars => RecordsInv'
  BY RecordsStep
<1>3. RecordsInv => AsRecorded
  BY RecordsRight
<1> QED
  BY <1>1, <1>2, <1>3, PTL DEF Spec
=================================================================================
