------------------------ MODULE BinaryTransportProofs ------------------------
(* Proofs about BinaryTransport, for every list of servers, every number of      *)
(* calls, every size of the pool and every bound.                                *)
EXTENDS BinaryTransport, SequenceTheorems, WellFoundedInduction, TLAPS

--------------------------------------------------------------------------------
(* The types.                                                                    *)

Kinds  == {"none", "server", "db", "close"}
Whats  == {"none", "op", "db-open", "db-close"}
AtRest == {"idle", "resolved", "rejected", "stranded"}
AtWork == {"begin", "ready", "login", "auto", "opening", "sent", "failed"}
Errors == {"none", "thrown", "cancelled", "refused", "lost", "broken", "ended", "closed"}
Flags  == Errors \cup {"answered"}
Stages == {"idle", "connecting", "open", "broken"}
FaultKinds == {"refused", "lost", "error", "redirect", "login", "broken", "ended", "closed",
               "timeout", "config", "several"}

\* The login is of the transport, and only operations are sent to other servers.
SomeRequest ==
    {r \in [who : Calls \cup {Login}, what : {"connect", "op", "db-open", "db-close"},
            session : Nat, reply : {"none", "ok", "error", "redirect"}] :
        /\ r.what = "connect" <=> r.who = Login
        /\ r.reply = "redirect" => r.what = "op"}
Requests == Seq(SomeRequest)

SomeConn == [host : STRING, stage : Stages, heard : BOOLEAN, waiting : Requests,
             queue : Requests, ending : BOOLEAN, timedOut : BOOLEAN, ghosts : BOOLEAN,
             login : Flags]

\* A call that is under way knows what it asks for.
SomeCall ==
    {k \in [kind : Kinds, what : Whats, session : Nat, at : AtRest \cup AtWork, on : Nat,
            err : Errors] :
        /\ k.at \in AtWork => k.what # "none"
        /\ k.what = "db-close" => k.kind = "close"}
SomeCalls == [Calls -> SomeCall]

Net       == [conns : Seq(SomeConn), current : Seq(Nat), turn : Nat, host : STRING]
Transport == [session : Nat, connecting : {"none", "pending", "resolved", "rejected"},
              login : Nat, auto : Nat, retries : Nat]
Servers   == [1..Len(Hosts) -> [host : STRING, active : BOOLEAN]]
Databases == [session : Nat, opening : {"none", "pending", "rejected"}]

TypeOK ==
    /\ mode \in [pool : BOOLEAN, skip : BOOLEAN]
    /\ servers \in Servers
    /\ net \in Net
    /\ transport \in Transport
    /\ db \in Databases
    /\ call \in SomeCalls
    /\ owed \in [Calls -> Int]
    /\ crashed \in BOOLEAN /\ faults \in Seq(FaultKinds)

--------------------------------------------------------------------------------
(* Numbers.                                                                      *)

LEMMA Least ==
    ASSUME NEW T, T \subseteq Nat, T # {}
    PROVE  \E m \in T : \A n \in T : m <= n
<1> DEFINE R == OpToRel(<, Nat)
<1>1. IsWellFoundedOn(R, Nat)
  BY NatLessThanWellFounded
<1>2. \A y \in Nat, x \in Nat : y < x => <<y, x>> \in R
  BY DEF OpToRel
<1> HIDE DEF R
<1>3. PICK x \in T : \A y \in T : ~ (<<y, x>> \in R)
  BY <1>1, WFMin
<1> QED
  <2>1. \A y \in T : ~(y < x)
    BY <1>2, <1>3
  <2>2. \A y \in T : y \in Nat /\ x \in Nat
    OBVIOUS
  <2> QED
    BY <2>1, <2>2

LEMMA Induction ==
    ASSUME NEW S, NEW N \in Nat, 0 \in S, \A n \in 0..(N - 1) : n \in S => n + 1 \in S
    PROVE  \A n \in 0..N : n \in S
<1> SUFFICES ASSUME ~(\A n \in 0..N : n \in S) PROVE FALSE
  OBVIOUS
<1> DEFINE T == {n \in 0..N : n \notin S}
<1>1. T \subseteq Nat /\ T # {}
  OBVIOUS
<1>2. PICK m \in T : \A n \in T : m <= n
  BY <1>1, Least
<1>3. m \in 0..N /\ m \notin S /\ m # 0
  BY <1>2
<1>4. m - 1 \in 0..(N - 1) /\ m - 1 \in 0..N /\ ~(m <= m - 1) /\ (m - 1) + 1 = m
  BY <1>3
<1>5. m - 1 \in S
  BY <1>2, <1>4
<1> QED
  BY <1>3, <1>4, <1>5

Pieces(p, N, g) == g = [i \in 0..N |-> IF i = 0 THEN <<>> ELSE g[i - 1] \o p[i]]

LEMMA PiecesExist ==
    ASSUME NEW N \in Nat, NEW p
    PROVE  \E g : Pieces(p, N, g)
<1> DEFINE P == {n \in Nat : \E g : Pieces(p, n, g)}
<1>1. 0 \in P
  <2> DEFINE g == [i \in 0..0 |-> <<>>]
  <2>1. Pieces(p, 0, g)
    BY DEF Pieces
  <2> QED
    BY <2>1
<1>2. ASSUME NEW n \in 0..(N - 1), n \in P PROVE n + 1 \in P
  <2>0. n \in Nat /\ n + 1 \in Nat
    OBVIOUS
  <2>1. PICK g : Pieces(p, n, g)
    BY <1>2
  <2> DEFINE h == [i \in 0..(n + 1) |-> IF i <= n THEN g[i] ELSE g[n] \o p[n + 1]]
             f == [i \in 0..(n + 1) |-> IF i = 0 THEN <<>> ELSE h[i - 1] \o p[i]]
  <2>2. \A i \in 0..n : g[i] = IF i = 0 THEN <<>> ELSE g[i - 1] \o p[i]
    BY <2>1 DEF Pieces
  <2>3. ASSUME NEW i \in 0..(n + 1) PROVE h[i] = f[i]
    <3>1. CASE i = 0
      BY <3>1, <2>0, <2>2
    <3>2. CASE i # 0 /\ i <= n
      <4>1. i \in 0..n /\ i - 1 \in 0..(n + 1) /\ i - 1 <= n
        BY <3>2, <2>0
      <4> QED
        BY <4>1, <3>2, <2>2
    <3>3. CASE i = n + 1
      <4>1. i # 0 /\ ~(i <= n) /\ i - 1 = n /\ n \in 0..(n + 1) /\ n <= n
        BY <3>3, <2>0
      <4> QED
        BY <4>1, <3>3
    <3> QED
      BY <3>1, <3>2, <3>3, <2>0
  <2>4. h = f
    BY <2>3
  <2>5. Pieces(p, n + 1, h)
    BY <2>4 DEF Pieces
  <2> QED
    BY <2>0, <2>5
<1> HIDE DEF P
<1>3. \A n \in 0..N : n \in P
  BY <1>1, <1>2, Induction
<1>4. N \in P
  BY <1>3
<1> QED
  BY <1>4 DEF P

--------------------------------------------------------------------------------
(* Requests in a sequence.                                                       *)

Members(s) == {s[i] : i \in 1..Len(s)}
Once(s)    == \A i, j \in 1..Len(s) : s[i].who = s[j].who /\ s[i].who # Login => i = j

LEMMA RequestType ==
    ASSUME NEW r \in SomeRequest
    PROVE  /\ r.who \in Calls \/ r.who = Login
           /\ r.what \in {"connect", "op", "db-open", "db-close"}
           /\ r.what = "connect" <=> r.who = Login
           /\ r.session \in Nat /\ r.reply \in {"none", "ok", "error", "redirect"}
           /\ r.reply = "redirect" => r.what = "op"
BY DEF SomeRequest

LEMMA LoginIsNoCall == Login \notin Calls /\ Login = 0 /\ Calls \subseteq Nat /\ MaxCalls \in Nat
BY TransportAssumption DEF Login, Calls

LEMMA CallersOf ==
    ASSUME NEW s \in Requests
    PROVE  /\ Members(s) \subseteq SomeRequest
           /\ Callers(s) \subseteq Calls
           /\ \A e \in Members(s) : e.who # Login => e.who \in Callers(s)
           /\ \A c \in Callers(s) : \E e \in Members(s) : e.who = c
           /\ HasLogin(s) <=> \E e \in Members(s) : e.who = Login
           /\ Operations(s) \subseteq Callers(s)
           /\ \A c \in Callers(s) : c \notin Operations(s) => \E e \in Members(s) : e.who = c /\ e.what # "op"
           /\ Len(s) \in Nat /\ (s = <<>> <=> Len(s) = 0)
<1>1. Len(s) \in Nat /\ \A i \in 1..Len(s) : s[i] \in SomeRequest
  BY DEF Requests
<1>2. Members(s) \subseteq SomeRequest
  BY <1>1 DEF Members
<1>3. \A c : c \in Callers(s) <=> c # Login /\ \E i \in 1..Len(s) : s[i].who = c
  BY DEF Callers
<1>4. \A e : e \in Members(s) <=> \E i \in 1..Len(s) : s[i] = e
  BY DEF Members
<1>5. \A e \in Members(s) : e.who # Login => e.who \in Callers(s)
  BY <1>3, <1>4
<1>6. \A c \in Callers(s) : \E e \in Members(s) : e.who = c
  BY <1>3, <1>4
<1>7. Callers(s) \subseteq Calls
  BY <1>2, <1>3, <1>6, RequestType
<1>8. HasLogin(s) <=> \E e \in Members(s) : e.who = Login
  BY <1>4 DEF HasLogin
<1>9. \A c : c \in Operations(s) <=> \E i \in 1..Len(s) : s[i].what = "op" /\ s[i].who = c
  BY DEF Operations
<1>10. Operations(s) \subseteq Callers(s)
  BY <1>1, <1>3, <1>9, RequestType
<1>11. \A c \in Callers(s) : c \notin Operations(s) => \E e \in Members(s) : e.who = c /\ e.what # "op"
  BY <1>3, <1>4, <1>9
<1>12. s = <<>> <=> Len(s) = 0
  BY DEF Requests
<1> QED
  BY <1>1, <1>2, <1>5, <1>6, <1>7, <1>8, <1>10, <1>11, <1>12

LEMMA NoRequests ==
    /\ <<>> \in Requests /\ Members(<<>>) = {} /\ Callers(<<>>) = {} /\ ~HasLogin(<<>>)
    /\ Once(<<>>)
<1>1. <<>> \in Requests /\ Len(<<>>) = 0 /\ 1..Len(<<>>) = {}
  BY DEF Requests
<1> QED
  BY <1>1 DEF Members, Callers, HasLogin, Once

\* One more.
LEMMA OneMore ==
    ASSUME NEW s \in Requests, NEW r \in SomeRequest
    PROVE  LET t == Append(s, r) IN
           /\ t \in Requests /\ Members(t) = Members(s) \cup {r}
           /\ Len(t) = Len(s) + 1
           /\ Once(s) /\ (\A e \in Members(s) : e.who # r.who \/ e.who = Login) => Once(t)
<1> DEFINE t == Append(s, r)
<1>1. /\ t \in Requests /\ Len(s) \in Nat /\ Len(t) = Len(s) + 1 /\ t[Len(s) + 1] = r
      /\ \A i \in 1..Len(s) : t[i] = s[i]
  BY AppendProperties DEF Requests
<1> HIDE DEF t
<1>2. 1..Len(t) = (1..Len(s)) \cup {Len(s) + 1}
  BY <1>1
<1>3. Members(t) = Members(s) \cup {r}
  BY <1>1, <1>2 DEF Members
<1>4. ASSUME Once(s), \A e \in Members(s) : e.who # r.who \/ e.who = Login PROVE Once(t)
  <2> SUFFICES ASSUME NEW i \in 1..Len(t), NEW j \in 1..Len(t), t[i].who = t[j].who, t[i].who # Login
               PROVE  i = j
    BY DEF Once
  <2>1. CASE i \in 1..Len(s) /\ j \in 1..Len(s)
    BY <2>1, <1>1, <1>4 DEF Once
  <2>2. \A x \in 1..Len(s) : s[x] \in Members(s)
    BY DEF Members
  <2> QED
    BY <2>1, <2>2, <1>1, <1>2, <1>4
<1> QED
  BY <1>1, <1>3, <1>4 DEF t

LEMMA OneLess ==
    ASSUME NEW s \in Requests, s # <<>>
    PROVE  /\ Tail(s) \in Requests /\ s[1] \in Members(s) /\ s[1] \in SomeRequest
           /\ Members(Tail(s)) \subseteq Members(s)
           /\ Len(Tail(s)) = Len(s) - 1
           /\ Once(s) => /\ Once(Tail(s))
                         /\ \A e \in Members(Tail(s)) : e.who # s[1].who \/ e.who = Login
<1> DEFINE t == Tail(s)
<1>1. /\ t \in Requests /\ Len(s) \in Nat /\ Len(s) >= 1 /\ Len(t) = Len(s) - 1
      /\ \A i \in 1..Len(t) : t[i] = s[i + 1]
  BY HeadTailProperties DEF Requests
<1> HIDE DEF t
<1>2. 1 \in 1..Len(s) /\ \A i \in 1..Len(t) : i \in Nat /\ i + 1 \in 1..Len(s) /\ i + 1 # 1
  BY <1>1
<1>3. s[1] \in Members(s) /\ Members(t) \subseteq Members(s) /\ s[1] \in SomeRequest
  <2>1. s[1] \in SomeRequest
    BY <1>1, <1>2 DEF Requests
  <2> QED
    BY <2>1, <1>1, <1>2 DEF Members
<1>4. ASSUME Once(s) PROVE Once(t) /\ \A e \in Members(t) : e.who # s[1].who \/ e.who = Login
  <2>1. ASSUME NEW i \in 1..Len(t), NEW j \in 1..Len(t), t[i].who = t[j].who, t[i].who # Login
        PROVE  i = j
    <3>1. i + 1 = j + 1
      BY <1>1, <1>2, <1>4, <2>1 DEF Once
    <3> QED
      BY <1>2, <3>1
  <2>2. \A i \in 1..Len(t) : t[i].who # s[1].who \/ t[i].who = Login
    BY <1>1, <1>2, <1>4 DEF Once
  <2> QED
    BY <2>1, <2>2 DEF Once, Members
<1> QED
  BY <1>1, <1>3, <1>4 DEF t

\* What is left of the first i requests.
Waits(s, i, t) ==
    /\ t \in Requests /\ Len(t) <= i
    /\ \A e : e \in Members(t) <=> \E j \in 1..i : s[j] = e /\ e.what # "db-close"
    /\ Once(s) => Once(t)

LEMMA AwaitedType ==
    ASSUME NEW s \in Requests
    PROVE  Waits(s, Len(s), Awaited(s))
<1> DEFINE N == Len(s)
           p == [i \in 0..N |-> IF s[i].what = "db-close" THEN <<>> ELSE <<s[i]>>]
           F(x) == x = [i \in 0..N |-> IF i = 0 THEN <<>>
                          ELSE x[i - 1] \o (IF s[i].what = "db-close" THEN <<>> ELSE <<s[i]>>)]
           h == CHOOSE x : F(x)
<1>1. N \in Nat /\ \A i \in 1..N : s[i] \in SomeRequest
  BY DEF Requests
<1>2. Awaited(s) = h[N]
  BY DEF Awaited
<1>3. F(h)
  <2>1. PICK g : Pieces(p, N, g)
    BY <1>1, PiecesExist
  <2>2. \A i \in 0..N : p[i] = IF s[i].what = "db-close" THEN <<>> ELSE <<s[i]>>
    OBVIOUS
  <2> HIDE DEF p
  <2>3. g = [i \in 0..N |-> IF i = 0 THEN <<>> ELSE g[i - 1] \o p[i]]
    BY <2>1 DEF Pieces
  <2>4. F(g)
    BY <2>2, <2>3
  <2> HIDE DEF F
  <2> QED
    BY <2>4
<1> HIDE DEF h
<1>4. \A i \in 0..N : h[i] = IF i = 0 THEN <<>>
                          ELSE h[i - 1] \o (IF s[i].what = "db-close" THEN <<>> ELSE <<s[i]>>)
  BY <1>3
<1> HIDE DEF F, p
<1> DEFINE S == {n \in Nat : Waits(s, n, h[n])}
<1>5. 0 \in S
  <2>0. 0 \in 0..N
    BY <1>1
  <2>1. h[0] = <<>>
    BY <2>0, <1>4
  <2>2. Waits(s, 0, h[0])
    <3>1. \A j : ~(j \in 1..0)
      OBVIOUS
    <3> QED
      BY <2>1, <3>1, NoRequests DEF Waits
  <2> QED
    BY <2>2
<1>6. ASSUME NEW n \in 0..(N - 1), n \in S PROVE n + 1 \in S
  <2> DEFINE t == h[n]
             r == s[n + 1]
  <2>1. n + 1 \in 1..N /\ n + 1 \in 0..N /\ n + 1 # 0 /\ (n + 1) - 1 = n /\ n \in Nat /\ n + 1 \in Nat
    BY <1>1
  <2>2. Waits(s, n, t) /\ r \in SomeRequest
    BY <1>1, <1>6, <2>1
  <2>3. h[n + 1] = t \o (IF r.what = "db-close" THEN <<>> ELSE <<r>>)
    BY <1>4, <2>1
  <2>4. 1..(n + 1) = (1..n) \cup {n + 1}
    BY <2>1
  <2> HIDE DEF t
  <2>5. CASE r.what = "db-close"
    <3>1. h[n + 1] = t
      BY <2>2, <2>3, <2>5, ConcatEmptySeq DEF Waits, Requests
    <3>2. Len(t) <= n + 1
      BY <2>1, <2>2 DEF Waits, Requests
    <3>3. Waits(s, n + 1, t)
      BY <2>2, <2>4, <2>5, <3>2 DEF Waits
    <3> QED
      BY <2>1, <3>1, <3>3
  <2>6. CASE r.what # "db-close"
    <3>1. h[n + 1] = Append(t, r) /\ t \in Requests
      BY <2>2, <2>3, <2>6, AppendIsConcat DEF Waits, Requests
    <3>2. /\ Append(t, r) \in Requests /\ Members(Append(t, r)) = Members(t) \cup {r}
          /\ Len(Append(t, r)) = Len(t) + 1
          /\ Once(t) /\ (\A e \in Members(t) : e.who # r.who \/ e.who = Login) => Once(Append(t, r))
      BY <2>2, <3>1, OneMore
    <3>3. \A e : e \in Members(Append(t, r)) <=> \E j \in 1..(n + 1) : s[j] = e /\ e.what # "db-close"
      BY <2>2, <2>4, <2>6, <3>2 DEF Waits
    <3>4. Once(s) => \A e \in Members(t) : e.who # r.who \/ e.who = Login
      <4> SUFFICES ASSUME Once(s), NEW e \in Members(t), e.who = r.who, e.who # Login PROVE FALSE
        OBVIOUS
      <4>1. PICK j \in 1..n : s[j] = e
        BY <2>2 DEF Waits
      <4>2. j \in 1..N /\ j # n + 1
        BY <1>1, <2>1
      <4> QED
        BY <2>1, <4>1, <4>2 DEF Once
    <3>5. Len(Append(t, r)) <= n + 1
      BY <2>1, <2>2, <3>2 DEF Waits, Requests
    <3>6. Waits(s, n + 1, Append(t, r))
      BY <2>2, <3>2, <3>3, <3>4, <3>5 DEF Waits
    <3> QED
      BY <2>1, <3>1, <3>6
  <2> QED
    BY <2>5, <2>6
<1> HIDE DEF S
<1>7. \A n \in 0..N : n \in S
  BY <1>1, <1>5, <1>6, Induction
<1>8. N \in S
  BY <1>1, <1>7
<1> QED
  BY <1>2, <1>8 DEF S

LEMMA AwaitedOf ==
    ASSUME NEW s \in Requests
    PROVE  /\ Awaited(s) \in Requests
           /\ Members(Awaited(s)) = {e \in Members(s) : e.what # "db-close"}
           /\ Len(Awaited(s)) <= Len(s)
           /\ Once(s) => Once(Awaited(s))
<1>1. Waits(s, Len(s), Awaited(s))
  BY AwaitedType
<1>2. \A e : e \in Members(s) <=> \E j \in 1..Len(s) : s[j] = e
  BY DEF Members
<1>3. \A e : e \in Members(Awaited(s)) <=> (e \in Members(s) /\ e.what # "db-close")
  BY <1>1, <1>2 DEF Waits
<1> QED
  BY <1>1, <1>3 DEF Waits

--------------------------------------------------------------------------------
(* The requests of a connection.                                                 *)

Entries(conn) == Members(conn.queue) \cup Members(conn.waiting)
Bound(conn)   == Callers(conn.queue) \cup Callers(conn.waiting)

\* A call has one request on it, and what is not written is not answered.
Neat(conn) ==
    /\ Once(conn.queue) /\ Once(conn.waiting)
    /\ Callers(conn.queue) \cap Callers(conn.waiting) = {}
    /\ \A e \in Members(conn.waiting) : e.reply = "none"

LEMMA ConnType ==
    ASSUME NEW conn \in SomeConn
    PROVE  /\ conn.host \in STRING /\ conn.stage \in Stages /\ conn.heard \in BOOLEAN
           /\ conn.waiting \in Requests /\ conn.queue \in Requests /\ conn.ending \in BOOLEAN
           /\ conn.timedOut \in BOOLEAN /\ conn.ghosts \in BOOLEAN /\ conn.login \in Flags
BY DEF SomeConn

\* Whoever has two requests in a sequence is the login.
LEMMA OnceMembers ==
    ASSUME NEW s, Once(s), NEW e \in Members(s), NEW f \in Members(s), e.who = f.who, e.who # Login
    PROVE  e = f
BY DEF Once, Members

LEMMA EntriesOf ==
    ASSUME NEW conn \in SomeConn
    PROVE  /\ Entries(conn) \subseteq SomeRequest /\ Bound(conn) \subseteq Calls
           /\ \A e \in Entries(conn) : e.who # Login => e.who \in Bound(conn)
           /\ \A c \in Bound(conn) : \E e \in Entries(conn) : e.who = c
           /\ Neat(conn) => \A e, f \in Entries(conn) : e.who = f.who /\ e.who # Login => e = f
<1>1. conn.queue \in Requests /\ conn.waiting \in Requests
  BY ConnType
<1>2. /\ Entries(conn) \subseteq SomeRequest /\ Bound(conn) \subseteq Calls
      /\ \A e \in Entries(conn) : e.who # Login => e.who \in Bound(conn)
      /\ \A c \in Bound(conn) : \E e \in Entries(conn) : e.who = c
  BY <1>1, CallersOf DEF Entries, Bound
<1>3. ASSUME Neat(conn), NEW e \in Entries(conn), NEW f \in Entries(conn), e.who = f.who, e.who # Login
      PROVE  e = f
  <2>1. CASE e \in Members(conn.queue) /\ f \in Members(conn.queue)
    BY <1>3, <2>1, OnceMembers DEF Neat
  <2>2. CASE e \in Members(conn.waiting) /\ f \in Members(conn.waiting)
    BY <1>3, <2>2, OnceMembers DEF Neat
  <2>3. CASE e \in Members(conn.queue) /\ f \in Members(conn.waiting)
    BY <1>1, <1>3, <2>3, CallersOf DEF Neat
  <2>4. CASE e \in Members(conn.waiting) /\ f \in Members(conn.queue)
    BY <1>1, <1>3, <2>4, CallersOf DEF Neat
  <2> QED
    BY <2>1, <2>2, <2>3, <2>4 DEF Entries
<1> QED
  BY <1>2, <1>3

LEMMA NewConnectionType ==
    ASSUME NEW host \in STRING
    PROVE  LET conn == NewConnection(host) IN
           /\ conn \in SomeConn /\ Neat(conn) /\ Entries(conn) = {}
           /\ conn.stage = "idle" /\ conn.heard /\ conn.login = "none" /\ ~conn.ending /\ ~conn.ghosts
           /\ conn.queue = <<>> /\ conn.waiting = <<>>
<1> DEFINE conn == NewConnection(host)
<1>1. /\ conn.stage = "idle" /\ conn.heard /\ conn.login = "none" /\ ~conn.ending /\ ~conn.ghosts
      /\ conn.queue = <<>> /\ conn.waiting = <<>>
  BY DEF NewConnection
<1>2. conn \in SomeConn
  BY NoRequests DEF NewConnection, SomeConn, Stages, Flags, Errors
<1> HIDE DEF conn
<1>3. Neat(conn) /\ Entries(conn) = {}
  BY <1>1, NoRequests DEF Neat, Entries
<1> QED
  BY <1>1, <1>2, <1>3 DEF conn

LEMMA HostsType == Hosts[1] \in STRING /\ Len(Hosts) \in Nat \ {0} /\ PoolMax \in Nat \ {0}
<1>1. Hosts \in Seq(STRING) /\ Hosts # <<>> /\ PoolMax \in Nat \ {0}
  BY TransportAssumption
<1>2. Len(Hosts) \in Nat \ {0}
  BY <1>1, EmptySeq
<1>3. 1 \in 1..Len(Hosts)
  BY <1>2
<1>4. Hosts[1] \in STRING
  BY <1>1, <1>3, ElementOfSeq
<1> QED
  BY <1>1, <1>2, <1>4

\* What a change of a connection keeps: some of its requests.
Less(o, conn) ==
    /\ o \in SomeConn /\ Entries(o) \subseteq Entries(conn)
    /\ Neat(conn) => Neat(o)

LEMMA NeatOf ==
    ASSUME NEW conn, NEW o, o.queue = conn.queue, o.waiting = conn.waiting
    PROVE  Entries(o) = Entries(conn) /\ Bound(o) = Bound(conn) /\ (Neat(conn) => Neat(o))
BY DEF Entries, Bound, Neat

LEMMA NeatBy ==
    ASSUME NEW o, o.queue \in Requests, o.waiting \in Requests, Once(o.queue), Once(o.waiting),
           \A e \in Members(o.queue), f \in Members(o.waiting) : e.who = f.who => e.who = Login,
           \A f \in Members(o.waiting) : f.reply = "none"
    PROVE  Neat(o)
<1>1. ASSUME NEW c \in Callers(o.queue), c \in Callers(o.waiting) PROVE FALSE
  <2>1. PICK e \in Members(o.queue) : e.who = c
    BY CallersOf
  <2>2. PICK f \in Members(o.waiting) : f.who = c
    BY <1>1, CallersOf
  <2>3. c # Login
    BY CallersOf, LoginIsNoCall
  <2> QED
    BY <2>1, <2>2, <2>3
<1> QED
  BY <1>1 DEF Neat

LEMMA WrittenOf ==
    ASSUME NEW conn \in SomeConn, NEW rs \in Requests
    PROVE  LET o == Written(conn, rs) IN
           /\ o \in SomeConn /\ o.queue = conn.queue \o Awaited(rs)
           /\ o.waiting = conn.waiting /\ o.stage = conn.stage /\ o.login = conn.login
           /\ o.heard = conn.heard /\ o.ghosts = conn.ghosts
           /\ o.ending <=> (conn.ending \/ \E e \in Members(rs) : e.what = "db-close")
           /\ Members(o.queue) = Members(conn.queue) \cup {e \in Members(rs) : e.what # "db-close"}
           /\ Once(conn.queue) /\ Once(rs) /\ Callers(conn.queue) \cap Callers(rs) = {}
                 => Once(o.queue)
<1> DEFINE o == Written(conn, rs)
           a == Awaited(rs)
           q == conn.queue \o a
           close == \E i \in 1..Len(rs) : rs[i].what = "db-close"
           ending == conn.ending \/ close
<1>1. /\ a \in Requests /\ Members(a) = {e \in Members(rs) : e.what # "db-close"}
      /\ Once(rs) => Once(a)
  BY AwaitedOf
<1>2. conn.queue \in Requests /\ conn.ending \in BOOLEAN
  BY ConnType
<1>3. close <=> \E e \in Members(rs) : e.what = "db-close"
  BY DEF Members
<1>4. o = [conn EXCEPT !.queue = q, !.ending = ending]
  BY DEF Written
<1> HIDE DEF a, close, o
<1>5. /\ q \in Requests /\ Len(q) = Len(conn.queue) + Len(a) /\ Len(conn.queue) \in Nat /\ Len(a) \in Nat
      /\ \A i \in 1..(Len(conn.queue) + Len(a)) :
            q[i] = IF i <= Len(conn.queue) THEN conn.queue[i] ELSE a[i - Len(conn.queue)]
  BY <1>1, <1>2, ConcatProperties, LenProperties DEF Requests
<1> HIDE DEF q
<1> DEFINE n == Len(conn.queue)
<1>6. \A i \in 1..Len(q) : \/ i \in 1..n /\ q[i] = conn.queue[i]
                           \/ ~(i <= n) /\ i - n \in 1..Len(a) /\ q[i] = a[i - n]
  BY <1>5
<1>7. \A i \in 1..n : i \in 1..Len(q) /\ q[i] = conn.queue[i]
  BY <1>5
<1>8. \A i \in 1..Len(a) : i + n \in 1..Len(q) /\ q[i + n] = a[i]
  <2> TAKE i \in 1..Len(a)
  <2>1. i + n \in 1..(n + Len(a)) /\ ~(i + n <= n) /\ (i + n) - n = i
    BY <1>5
  <2> QED
    BY <2>1, <1>5
<1>9. Members(q) = Members(conn.queue) \cup Members(a)
  <2>1. Members(q) \subseteq Members(conn.queue) \cup Members(a)
    BY <1>6 DEF Members
  <2>2. Members(conn.queue) \subseteq Members(q)
    BY <1>7 DEF Members
  <2>3. Members(a) \subseteq Members(q)
    BY <1>8 DEF Members
  <2> QED
    BY <2>1, <2>2, <2>3
<1>10. ASSUME Once(conn.queue), Once(rs), Callers(conn.queue) \cap Callers(rs) = {} PROVE Once(q)
  <2> SUFFICES ASSUME NEW i \in 1..Len(q), NEW j \in 1..Len(q), q[i].who = q[j].who, q[i].who # Login
               PROVE  i = j
    BY DEF Once
  <2>1. \A x \in 1..n, y \in 1..Len(a) : conn.queue[x].who = a[y].who => a[y].who = Login
    <3> TAKE x \in 1..n, y \in 1..Len(a)
    <3>1. conn.queue[x] \in Members(conn.queue) /\ a[y] \in Members(a)
      BY DEF Members
    <3>2. a[y] \in Members(rs)
      BY <3>1, <1>1
    <3> QED
      BY <1>2, <1>10, <3>1, <3>2, CallersOf
  <2>2. CASE i \in 1..n /\ j \in 1..n
    BY <2>2, <1>7, <1>10 DEF Once
  <2>3. CASE ~(i <= n) /\ ~(j <= n)
    <3>1. i - n \in 1..Len(a) /\ j - n \in 1..Len(a) /\ q[i] = a[i - n] /\ q[j] = a[j - n]
      BY <2>3, <1>6, SMTT(30)
    <3>2. i - n = j - n
      BY <3>1, <1>1, <1>10 DEF Once
    <3> QED
      BY <3>2, <1>5
  <2>4. CASE i \in 1..n /\ ~(j <= n)
    <3>1. q[i] = conn.queue[i] /\ j - n \in 1..Len(a) /\ q[j] = a[j - n]
      BY <2>4, <1>6, <1>7
    <3> QED
      BY <2>1, <2>4, <3>1
  <2>5. CASE ~(i <= n) /\ j \in 1..n
    <3>1. q[j] = conn.queue[j] /\ i - n \in 1..Len(a) /\ q[i] = a[i - n]
      BY <2>5, <1>6, <1>7
    <3> QED
      BY <2>1, <2>5, <3>1
  <2> QED
    BY <2>2, <2>3, <2>4, <2>5, <1>6
<1>11. ending \in BOOLEAN
  BY <1>2 DEF close
<1> HIDE DEF ending
<1>12. /\ o \in SomeConn /\ o.queue = q /\ o.ending = ending
       /\ o.waiting = conn.waiting /\ o.stage = conn.stage /\ o.login = conn.login
       /\ o.heard = conn.heard /\ o.ghosts = conn.ghosts
  BY <1>4, <1>5, <1>11 DEF SomeConn
<1>13. o.ending <=> (conn.ending \/ \E e \in Members(rs) : e.what = "db-close")
  BY <1>3, <1>12 DEF ending
<1>14. Members(o.queue) = Members(conn.queue) \cup {e \in Members(rs) : e.what # "db-close"}
  BY <1>1, <1>9, <1>12
<1> QED
  BY <1>10, <1>12, <1>13, <1>14 DEF o, q, a

LEMMA OneRequest ==
    ASSUME NEW r \in SomeRequest
    PROVE  <<r>> \in Requests /\ Members(<<r>>) = {r} /\ Len(<<r>>) = 1 /\ Once(<<r>>)
           /\ Callers(<<r>>) = {r.who} \ {Login} /\ (HasLogin(<<r>>) <=> r.who = Login)
<1>1. Len(<<r>>) = 1 /\ <<r>>[1] = r /\ <<r>> \in Requests /\ 1..1 = {1}
  BY DEF Requests
<1> DEFINE s == <<r>>
<1> HIDE DEF s
<1>2. Len(s) = 1 /\ s[1] = r /\ s \in Requests /\ 1..Len(s) = {1}
  BY <1>1 DEF s
<1>3. Members(s) = {r} /\ Once(s) /\ Callers(s) = {r.who} \ {Login} /\ (HasLogin(s) <=> r.who = Login)
  BY <1>2 DEF Members, Once, Callers, HasLogin
<1> QED
  BY <1>2, <1>3 DEF s

LEMMA OfferedStages ==
    ASSUME NEW conn \in SomeConn, NEW r \in SomeRequest
    PROVE  LET o == Offered(conn, r) IN
           /\ conn.stage = "open" => o = Written(conn, <<r>>)
           /\ conn.stage = "connecting" => o = [conn EXCEPT !.waiting = Append(conn.waiting, r)]
           /\ conn.stage = "idle" => o = [conn EXCEPT !.stage = "connecting", !.waiting = <<r>>]
           /\ conn.stage = "broken" =>
                 o = [conn EXCEPT !.login = IF r.who = Login THEN "thrown" ELSE conn.login]
<1>1. conn.stage = "open" => Offered(conn, r) = Written(conn, <<r>>)
  BY Zenon DEF Offered
<1>2. ASSUME conn.stage = "connecting"
      PROVE  Offered(conn, r) = [conn EXCEPT !.waiting = Append(conn.waiting, r)]
  <2>1. conn.stage # "open"
    BY <1>2
  <2> QED
    BY <1>2, <2>1, Zenon DEF Offered
<1>3. ASSUME conn.stage = "idle"
      PROVE  Offered(conn, r) = [conn EXCEPT !.stage = "connecting", !.waiting = <<r>>]
  <2>1. conn.stage # "open" /\ conn.stage # "connecting"
    BY <1>3
  <2> QED
    BY <1>3, <2>1, Zenon DEF Offered
<1>4. ASSUME conn.stage = "broken"
      PROVE  Offered(conn, r) = [conn EXCEPT !.login = IF r.who = Login THEN "thrown" ELSE conn.login]
  <2>1. conn.stage # "open" /\ conn.stage # "connecting" /\ conn.stage # "idle"
    BY <1>4
  <2> QED
    BY <1>4, <2>1, Zenon DEF Offered
<1> QED
  BY <1>1, <1>2, <1>3, <1>4

LEMMA OfferedTo ==
    ASSUME NEW conn \in SomeConn, NEW r \in SomeRequest, r.reply = "none"
    PROVE  LET o == Offered(conn, r) IN
           /\ o \in SomeConn /\ o.heard = conn.heard
           /\ Entries(o) \subseteq Entries(conn) \cup {r}
           /\ Neat(conn) /\ (\A e \in Entries(conn) : e.who # r.who \/ e.who = Login) => Neat(o)
           /\ conn.stage = "broken" => Entries(o) = Entries(conn)
           /\ conn.stage = "open" /\ r.what = "db-close" => Entries(o) = Entries(conn)
<1> DEFINE o == Offered(conn, r)
           Free == \A e \in Entries(conn) : e.who # r.who \/ e.who = Login
<1>1. conn.queue \in Requests /\ conn.waiting \in Requests /\ conn.stage \in Stages
  BY ConnType
<1>2. /\ <<r>> \in Requests /\ Members(<<r>>) = {r} /\ Once(<<r>>)
  BY OneRequest
<1>3. ASSUME Neat(conn)
      PROVE  /\ Once(conn.queue) /\ Once(conn.waiting) /\ \A f \in Members(conn.waiting) : f.reply = "none"
             /\ \A e \in Members(conn.queue), f \in Members(conn.waiting) : e.who = f.who => e.who = Login
  BY <1>1, <1>3, CallersOf DEF Neat
<1>4. CASE conn.stage = "open"
  <2>1. o = Written(conn, <<r>>)
    BY <1>4, OfferedStages
  <2> DEFINE rs == <<r>>
  <2>2. rs \in Requests /\ Members(rs) = {r} /\ Once(rs) /\ Callers(rs) = {r.who} \ {Login}
    BY OneRequest
  <2> HIDE DEF rs, o
  <2>3. /\ o \in SomeConn /\ o.waiting = conn.waiting /\ o.heard = conn.heard
        /\ Members(o.queue) = Members(conn.queue) \cup {e \in Members(rs) : e.what # "db-close"}
        /\ Once(conn.queue) /\ Once(rs) /\ Callers(conn.queue) \cap Callers(rs) = {} => Once(o.queue)
    <3>1. o = Written(conn, rs)
      BY <2>1 DEF rs
    <3> QED
      BY <2>2, <3>1, WrittenOf
  <2>4. Entries(o) \subseteq Entries(conn) \cup {r} /\ (r.what = "db-close" => Entries(o) = Entries(conn))
    BY <2>2, <2>3 DEF Entries
  <2>5. ASSUME Neat(conn), Free PROVE Neat(o)
    <3>1. Callers(conn.queue) \cap Callers(rs) = {}
      <4>1. \A c \in Callers(conn.queue) : \E e \in Entries(conn) : e.who = c /\ c # Login
        BY <1>1, CallersOf, LoginIsNoCall DEF Entries
      <4> QED
        BY <4>1, <2>2, <2>5
    <3>2. Once(o.queue)
      BY <1>3, <2>2, <2>3, <2>5, <3>1
    <3>3. o.queue \in Requests /\ o.waiting \in Requests
      BY <2>3, ConnType
    <3>4. \A e \in Members(o.queue), f \in Members(o.waiting) : e.who = f.who => e.who = Login
      <4> TAKE e \in Members(o.queue), f \in Members(o.waiting)
      <4>1. f \in Members(conn.waiting) /\ f \in Entries(conn)
        BY <2>3 DEF Entries
      <4>2. CASE e \in Members(conn.queue)
        BY <4>1, <4>2, <1>3, <2>5
      <4>3. CASE e = r
        BY <4>1, <4>3, <2>5
      <4> QED
        BY <4>2, <4>3, <2>2, <2>3
    <3> QED
      BY <1>3, <2>3, <2>5, <3>2, <3>3, <3>4, NeatBy
  <2> QED
    BY <1>4, <2>3, <2>4, <2>5 DEF o
<1>5. CASE conn.stage = "connecting"
  <2> DEFINE w == Append(conn.waiting, r)
  <2>1. /\ w \in Requests /\ Members(w) = Members(conn.waiting) \cup {r}
        /\ Once(conn.waiting) /\ (\A e \in Members(conn.waiting) : e.who # r.who \/ e.who = Login) => Once(w)
    BY <1>1, OneMore
  <2>2. o = [conn EXCEPT !.waiting = w]
    BY <1>5, OfferedStages
  <2> HIDE DEF w, o
  <2>3. o \in SomeConn /\ o.queue = conn.queue /\ o.waiting = w /\ o.heard = conn.heard
    BY <2>1, <2>2 DEF SomeConn
  <2>4. Entries(o) \subseteq Entries(conn) \cup {r}
    BY <2>1, <2>3 DEF Entries
  <2>5. ASSUME Neat(conn), Free PROVE Neat(o)
    <3>1. Once(w)
      BY <1>3, <2>1, <2>5 DEF Entries
    <3>2. \A e \in Members(o.queue), f \in Members(o.waiting) : e.who = f.who => e.who = Login
      BY <1>3, <2>1, <2>3, <2>5 DEF Entries
    <3>3. \A f \in Members(o.waiting) : f.reply = "none"
      BY <1>3, <2>1, <2>3, <2>5
    <3> QED
      BY <1>1, <1>3, <2>1, <2>3, <2>5, <3>1, <3>2, <3>3, NeatBy
  <2> QED
    BY <1>5, <2>3, <2>4, <2>5 DEF o
<1>6. CASE conn.stage = "idle"
  <2> DEFINE w == <<r>>
  <2>1. w \in Requests /\ Members(w) = {r} /\ Once(w)
    BY <1>2
  <2>2. o = [conn EXCEPT !.stage = "connecting", !.waiting = w]
    BY <1>6, OfferedStages
  <2> HIDE DEF w, o
  <2>3. o \in SomeConn /\ o.queue = conn.queue /\ o.waiting = w /\ o.heard = conn.heard
    BY <2>1, <2>2 DEF SomeConn, Stages
  <2>4. Entries(o) \subseteq Entries(conn) \cup {r}
    BY <2>1, <2>3 DEF Entries
  <2>5. ASSUME Neat(conn), Free PROVE Neat(o)
    <3>2. \A e \in Members(o.queue), f \in Members(o.waiting) : e.who = f.who => e.who = Login
      BY <2>1, <2>3, <2>5 DEF Entries
    <3>3. \A f \in Members(o.waiting) : f.reply = "none"
      BY <2>1, <2>3
    <3> QED
      BY <1>1, <1>3, <2>1, <2>3, <2>5, <3>2, <3>3, NeatBy
  <2> QED
    BY <1>6, <2>3, <2>4, <2>5 DEF o
<1>7. CASE conn.stage = "broken"
  <2> DEFINE l == IF r.who = Login THEN "thrown" ELSE conn.login
  <2>1. o = [conn EXCEPT !.login = l]
    BY <1>7, OfferedStages
  <2>2. l \in Flags
    BY ConnType DEF Flags, Errors
  <2> HIDE DEF l, o
  <2>3. o \in SomeConn /\ o.queue = conn.queue /\ o.waiting = conn.waiting /\ o.heard = conn.heard
    BY <2>1, <2>2 DEF SomeConn
  <2>4. Entries(o) = Entries(conn) /\ (Neat(conn) => Neat(o))
    BY <2>3, NeatOf
  <2> QED
    BY <1>7, <2>3, <2>4 DEF o
<1> QED
  BY <1>1, <1>4, <1>5, <1>6, <1>7 DEF Stages

LEMMA LessOf ==
    ASSUME NEW conn \in SomeConn, NEW o \in SomeConn,
           o.queue = conn.queue \/ o.queue = <<>>, o.waiting = conn.waiting \/ o.waiting = <<>>
    PROVE  Less(o, conn)
<1>1. Entries(o) \subseteq Entries(conn)
  BY NoRequests DEF Entries
<1>2. Neat(conn) => Neat(o)
  BY NoRequests DEF Neat
<1> QED
  BY <1>1, <1>2 DEF Less

LEMMA LeftOf ==
    ASSUME NEW conn \in SomeConn, mode.pool \in BOOLEAN
    PROVE  LET o == Left(conn) IN
           /\ Less(o, conn) /\ ~o.heard
           /\ mode.pool => o.waiting = <<>>
           /\ ~mode.pool => o.queue = <<>>
           /\ o.waiting \in {conn.waiting, <<>>}
           /\ o.queue \in {conn.queue, <<>>}
           /\ ~mode.pool => o.login = IF HasLogin(conn.queue) THEN "cancelled" ELSE conn.login
           /\ o.stage \in {conn.stage, "idle"} /\ (o.ending => conn.ending)
           /\ ~mode.pool /\ conn.stage # "idle" => o.waiting = conn.waiting /\ o.stage = conn.stage
<1> DEFINE o == Left(conn)
           l == IF HasLogin(conn.queue) THEN "cancelled" ELSE conn.login
<1>0. conn.login \in Flags /\ l \in Flags /\ conn.stage \in Stages /\ conn.ending \in BOOLEAN
  BY ConnType DEF Flags, Errors
<1>1. CASE conn.queue = <<>> /\ (mode.pool \/ conn.stage = "idle")
  <2> DEFINE fresh == NewConnection(Hosts[1])
  <2>1. /\ fresh \in SomeConn /\ fresh.stage = "idle" /\ fresh.queue = <<>> /\ fresh.waiting = <<>>
        /\ ~fresh.ending
    BY HostsType, NewConnectionType
  <2>2. o = [fresh EXCEPT !.heard = FALSE, !.login = conn.login]
    BY <1>1 DEF Left
  <2> HIDE DEF fresh, o
  <2>3. /\ o \in SomeConn /\ ~o.heard /\ o.queue = <<>> /\ o.waiting = <<>> /\ o.stage = "idle"
        /\ o.login = conn.login /\ ~o.ending
    BY <1>0, <2>1, <2>2 DEF SomeConn
  <2>4. ~HasLogin(conn.queue)
    BY <1>1, NoRequests
  <2>5. Less(o, conn)
    BY <2>3, LessOf
  <2> QED
    BY <1>1, <2>3, <2>4, <2>5 DEF o
<1>2. CASE ~(conn.queue = <<>> /\ (mode.pool \/ conn.stage = "idle")) /\ mode.pool
  <2>1. o = [conn EXCEPT !.heard = FALSE, !.stage = "idle", !.waiting = <<>>]
    BY <1>2 DEF Left
  <2> HIDE DEF o
  <2>2. /\ o \in SomeConn /\ ~o.heard /\ o.queue = conn.queue /\ o.waiting = <<>> /\ o.stage = "idle"
        /\ o.ending = conn.ending
    BY <2>1, NoRequests DEF SomeConn, Stages
  <2>3. Less(o, conn)
    BY <2>2, LessOf
  <2> QED
    BY <1>2, <2>2, <2>3 DEF o
<1>3. CASE ~(conn.queue = <<>> /\ (mode.pool \/ conn.stage = "idle")) /\ ~mode.pool
  <2>1. o = [conn EXCEPT !.heard = FALSE, !.queue = <<>>, !.login = l]
    BY <1>3 DEF Left
  <2> HIDE DEF o, l
  <2>2. /\ o \in SomeConn /\ ~o.heard /\ o.queue = <<>> /\ o.waiting = conn.waiting /\ o.stage = conn.stage
        /\ o.ending = conn.ending /\ o.login = l
    BY <1>0, <2>1, NoRequests DEF SomeConn
  <2>3. Less(o, conn)
    BY <2>2, LessOf
  <2> QED
    BY <1>3, <2>2, <2>3 DEF o, l
<1> QED
  BY <1>1, <1>2, <1>3

LEMMA DestroyedOf ==
    ASSUME NEW conn \in SomeConn, NEW err \in Errors
    PROVE  LET o == Destroyed(conn, err) IN
           /\ o \in SomeConn /\ Less(o, conn)
           /\ o.queue = <<>> /\ o.waiting = conn.waiting /\ o.stage = "idle"
           /\ o.heard = conn.heard /\ o.ending = conn.ending /\ o.host = conn.host
           /\ o.login = IF HasLogin(conn.queue) THEN err ELSE conn.login
<1> DEFINE o == Destroyed(conn, err)
           l == IF HasLogin(conn.queue) THEN err ELSE conn.login
           g == conn.ghosts \/ conn.queue # <<>>
<1>1. l \in Flags /\ g \in BOOLEAN
  BY ConnType DEF Flags
<1>2. o = [conn EXCEPT !.stage = "idle", !.queue = <<>>, !.ghosts = g, !.login = l]
  BY DEF Destroyed
<1> HIDE DEF o, l, g
<1>3. /\ o \in SomeConn /\ o.queue = <<>> /\ o.waiting = conn.waiting /\ o.stage = "idle"
      /\ o.heard = conn.heard /\ o.ending = conn.ending /\ o.host = conn.host /\ o.login = l
  BY <1>1, <1>2, NoRequests DEF SomeConn, Stages
<1>4. Less(o, conn)
  BY <1>3, LessOf
<1> QED
  BY <1>3, <1>4 DEF o, l

--------------------------------------------------------------------------------
(* The connections of the transport.                                             *)

Limit == IF mode.pool THEN PoolMax ELSE 1

\* Those in use are different connections, no more than the pool has places.
InLine(n) ==
    /\ \A i \in 1..Len(n.current) : n.current[i] \in 1..Len(n.conns)
    /\ \A i, j \in 1..Len(n.current) : n.current[i] = n.current[j] => i = j
    /\ n.turn <= Len(n.current) /\ Len(n.current) <= Limit
Nets == {n \in Net : InLine(n)}

Lent(n)     == {n.current[i] : i \in 1..Len(n.current)}
Place(n, k) == IF k \in 1..Len(n.conns) THEN n.conns[k] ELSE NewConnection(n.host)

LEMMA NetType ==
    ASSUME NEW n \in Nets
    PROVE  /\ n.conns \in Seq(SomeConn) /\ n.current \in Seq(Nat) /\ n.turn \in Nat /\ n.host \in STRING
           /\ Len(n.conns) \in Nat /\ Len(n.current) \in Nat
           /\ \A k \in 1..Len(n.conns) : n.conns[k] \in SomeConn
           /\ \A k : Place(n, k) \in SomeConn
           /\ Lent(n) \subseteq 1..Len(n.conns)
           /\ InLine(n)
<1>1. /\ n.conns \in Seq(SomeConn) /\ n.current \in Seq(Nat) /\ n.turn \in Nat /\ n.host \in STRING
      /\ InLine(n)
  BY DEF Nets, Net
<1>2. Len(n.conns) \in Nat /\ Len(n.current) \in Nat /\ \A k \in 1..Len(n.conns) : n.conns[k] \in SomeConn
  BY <1>1, LenProperties, ElementOfSeq
<1>3. \A k : Place(n, k) \in SomeConn
  BY <1>1, <1>2, NewConnectionType DEF Place
<1>4. Lent(n) \subseteq 1..Len(n.conns)
  BY <1>1 DEF InLine, Lent
<1> QED
  BY <1>1, <1>2, <1>3, <1>4

LEMMA DipType ==
    ASSUME NEW n \in Nets, mode.pool \in BOOLEAN
    PROVE  LET m == Dip(n)
               p == Picked(m) IN
           /\ m \in Nets /\ p \in 1..Len(m.conns) /\ p \in Lent(m)
           /\ m.conns[p] = Place(n, p) /\ m.host = n.host
           /\ \A k \in 1..Len(n.conns) : m.conns[k] = n.conns[k]
           /\ \/ p \in Lent(n) /\ m.conns = n.conns /\ m.current = n.current
              \/ /\ p = Len(n.conns) + 1 /\ Len(m.conns) = p
                 /\ Len(n.current) < Limit /\ m.current = Append(n.current, p)
           /\ Lent(m) = Lent(n) \cup {p}
           /\ Limit = 1 => Lent(m) = {p}
<1> DEFINE m == Dip(n)
           p == Picked(m)
           L == Limit
           t == IF n.turn >= L THEN 1 ELSE n.turn + 1
<1>1. /\ n \in Net /\ n.conns \in Seq(SomeConn) /\ n.current \in Seq(Nat) /\ n.turn \in Nat /\ n.host \in STRING
      /\ Len(n.conns) \in Nat /\ Len(n.current) \in Nat
      /\ \A k \in 1..Len(n.conns) : n.conns[k] \in SomeConn
      /\ InLine(n)
  BY NetType DEF Nets
<1>2. L \in Nat /\ L >= 1
  BY HostsType DEF Limit
<1>3. m = IF t <= Len(n.current) THEN [n EXCEPT !.turn = t]
          ELSE [n EXCEPT !.turn = t, !.current = Append(n.current, Len(n.conns) + 1),
                         !.conns = Append(n.conns, NewConnection(n.host))]
  BY DEF Dip, Limit
<1>4. /\ Len(n.current) <= L /\ n.turn <= Len(n.current)
      /\ \A i \in 1..Len(n.current) : n.current[i] \in 1..Len(n.conns)
      /\ \A i, j \in 1..Len(n.current) : n.current[i] = n.current[j] => i = j
  BY <1>1 DEF InLine
<1>5. p = m.current[m.turn]
  BY DEF Picked
<1> HIDE DEF m, p, L
<1>6. t \in Nat /\ t >= 1 /\ t <= L
  BY <1>1, <1>2
<1>7. CASE t <= Len(n.current)
  <2>1. m = [n EXCEPT !.turn = t]
    BY <1>3, <1>7
  <2> HIDE DEF t
  <2>2. m \in Net /\ m.turn = t /\ m.conns = n.conns /\ m.current = n.current /\ m.host = n.host
    BY <1>1, <1>6, <2>1 DEF Net
  <2>3. InLine(m)
    BY <1>4, <1>7, <2>2 DEF InLine, L
  <2>4. t \in 1..Len(n.current) /\ p = n.current[t]
    BY <1>5, <1>6, <1>7, <2>2
  <2>5. p \in 1..Len(m.conns) /\ p \in Lent(m) /\ Lent(m) = Lent(n) /\ p \in Lent(n)
    BY <1>4, <2>2, <2>4 DEF Lent
  <2>6. m.conns[p] = Place(n, p)
    BY <2>2, <2>5 DEF Place
  <2>7. ASSUME L = 1 PROVE Lent(m) = {p}
    <3>1. Len(n.current) = 1 /\ t = 1
      <4> DEFINE len == Len(n.current)
      <4>1. len \in Nat
        BY <1>1
      <4>2. len <= L
        BY <1>4
      <4> HIDE DEF len
      <4>3. t <= len
        BY <1>7 DEF len
      <4>4. t = 1
        BY <1>6, <2>7
      <4>5. len <= 1 /\ 1 <= len
        BY <2>7, <4>2, <4>3, <4>4
      <4>6. len = 1
        BY <4>1, <4>5
      <4> QED
        BY <4>4, <4>6 DEF len
    <3>2. 1..1 = {1}
      OBVIOUS
    <3> QED
      BY <3>1, <3>2, <2>2, <2>4 DEF Lent
  <2>8. m \in Nets /\ Lent(m) = Lent(n) \cup {p}
    BY <2>2, <2>3, <2>5 DEF Nets
  <2> QED
    BY <2>2, <2>5, <2>6, <2>7, <2>8 DEF m, p, L
<1>8. CASE ~(t <= Len(n.current))
  <2> DEFINE q == Len(n.conns) + 1
             fresh == NewConnection(n.host)
             cur == Append(n.current, q)
             cs == Append(n.conns, fresh)
  <2>1. m = [n EXCEPT !.turn = t, !.current = cur, !.conns = cs]
    BY <1>3, <1>8
  <2>2. t = Len(n.current) + 1 /\ Len(n.current) < L
    BY <1>1, <1>2, <1>4, <1>6, <1>8
  <2> HIDE DEF t
  <2>3. q \in Nat /\ fresh \in SomeConn
    <3>1. q \in Nat
      BY <1>1
    <3>2. n.host \in STRING
      BY <1>1
    <3>3. fresh \in SomeConn
      BY <3>2, NewConnectionType
    <3> QED
      BY <3>1, <3>3
  <2>4. /\ cur \in Seq(Nat) /\ Len(cur) = Len(n.current) + 1 /\ cur[Len(n.current) + 1] = q
        /\ \A i \in 1..Len(n.current) : cur[i] = n.current[i]
    BY <1>1, <2>3, AppendProperties
  <2>5. /\ cs \in Seq(SomeConn) /\ Len(cs) = q /\ cs[q] = fresh
        /\ \A k \in 1..Len(n.conns) : cs[k] = n.conns[k]
    BY <1>1, <2>3, AppendProperties
  <2> HIDE DEF cur, cs, fresh
  <2>6. m \in Net /\ m.turn = t /\ m.conns = cs /\ m.current = cur /\ m.host = n.host
    BY <1>1, <1>6, <2>1, <2>4, <2>5 DEF Net
  <2>7. p = q
    BY <1>5, <2>2, <2>4, <2>6
  <2>8. 1..Len(cur) = (1..Len(n.current)) \cup {Len(n.current) + 1} /\ q \notin 1..Len(n.conns)
        /\ q \in 1..Len(cs) /\ 1..Len(n.conns) \subseteq 1..Len(cs)
    BY <1>1, <2>4, <2>5
  <2> HIDE DEF q
  <2>9. InLine(m)
    <3>1. \A i \in 1..Len(cur) : cur[i] \in 1..Len(cs)
      BY <1>4, <2>4, <2>8
    <3>2. \A i, j \in 1..Len(cur) : cur[i] = cur[j] => i = j
      BY <1>4, <2>4, <2>8
    <3>3. t <= Len(cur) /\ Len(cur) <= L
      BY <1>1, <1>2, <2>2, <2>4
    <3> QED
      BY <2>6, <3>1, <3>2, <3>3 DEF InLine, L
  <2>10. Lent(m) = Lent(n) \cup {q}
    <3>1. \A x : x \in Lent(m) <=> \E i \in 1..Len(cur) : cur[i] = x
      BY <2>6 DEF Lent
    <3>2. \A x : x \in Lent(n) <=> \E i \in 1..Len(n.current) : n.current[i] = x
      BY DEF Lent
    <3>3. \A x : x \in Lent(m) <=> (x \in Lent(n) \/ x = q)
      BY <3>1, <3>2, <2>4, <2>8
    <3> QED
      BY <3>3
  <2>11. m.conns[p] = Place(n, p) /\ \A k \in 1..Len(n.conns) : m.conns[k] = n.conns[k]
    BY <2>5, <2>6, <2>7, <2>8 DEF Place, fresh
  <2>12. ASSUME L = 1 PROVE Lent(m) = {p}
    <3>1. Len(n.current) = 0
      BY <1>1, <2>2, <2>12
    <3>2. Lent(n) = {}
      BY <3>1 DEF Lent
    <3> QED
      BY <3>2, <2>7, <2>10
  <2>13. m \in Nets
    BY <2>6, <2>9 DEF Nets
  <2>14. p = Len(n.conns) + 1 /\ Len(m.conns) = p /\ Len(n.current) < L /\ m.current = Append(n.current, p)
    BY <2>2, <2>5, <2>6, <2>7 DEF cur, q
  <2>15. p \in 1..Len(m.conns) /\ p \in Lent(m) /\ Lent(m) = Lent(n) \cup {p}
    BY <2>6, <2>7, <2>8, <2>10
  <2> QED
    BY <2>6, <2>11, <2>12, <2>13, <2>14, <2>15 DEF m, p, L
<1> QED
  BY <1>7, <1>8

LEMMA ChangedNet ==
    ASSUME NEW n \in Nets, NEW k \in 1..Len(n.conns), NEW o \in SomeConn
    PROVE  LET m == [n EXCEPT !.conns[k] = o] IN
           /\ m \in Nets /\ Len(m.conns) = Len(n.conns) /\ m.conns[k] = o
           /\ \A j \in 1..Len(n.conns) : j # k => m.conns[j] = n.conns[j]
           /\ m.current = n.current /\ m.turn = n.turn /\ m.host = n.host /\ Lent(m) = Lent(n)
<1> DEFINE cs == [n.conns EXCEPT ![k] = o]
           m == [n EXCEPT !.conns[k] = o]
<1>1. n \in Net /\ InLine(n) /\ n.conns \in Seq(SomeConn)
  BY NetType DEF Nets
<1>2. /\ cs \in Seq(SomeConn) /\ Len(cs) = Len(n.conns)
      /\ \A j \in 1..Len(n.conns) : cs[j] = IF j = k THEN o ELSE n.conns[j]
  BY <1>1, ExceptSeq
<1>3. m = [n EXCEPT !.conns = cs]
  OBVIOUS
<1> HIDE DEF m, cs
<1>4. m \in Net /\ m.conns = cs /\ m.current = n.current /\ m.turn = n.turn /\ m.host = n.host
  BY <1>1, <1>2, <1>3 DEF Net
<1>5. m \in Nets
  BY <1>1, <1>2, <1>4 DEF Nets, InLine
<1>6. Lent(m) = Lent(n)
  BY <1>4 DEF Lent
<1> QED
  BY <1>2, <1>4, <1>5, <1>6 DEF m

LEMMA SentOf ==
    ASSUME NEW n \in Nets, NEW r \in SomeRequest, r.reply = "none", mode.pool \in BOOLEAN
    PROVE  LET m == Sent(n, r)
               p == Attempt(n) IN
           /\ m \in Nets /\ p \in 1..Len(m.conns) /\ Len(n.conns) <= Len(m.conns)
           /\ m.conns[p] = Offered(Place(n, p), r)
           /\ \A k \in 1..Len(m.conns) : k # p => k \in 1..Len(n.conns) /\ m.conns[k] = n.conns[k]
           /\ Picked(m) = p /\ Lent(m) = Lent(n) \cup {p}
           /\ p \in Lent(n) \/ p = Len(n.conns) + 1
           /\ Limit = 1 => Lent(m) = {p}
           /\ Dip(n).conns[Picked(Dip(n))] = Place(n, p)
<1> DEFINE d == Dip(n)
           p == Picked(d)
           o == Offered(Place(n, p), r)
           m == Sent(n, r)
<1>1. /\ d \in Nets /\ p \in 1..Len(d.conns) /\ d.conns[p] = Place(n, p)
      /\ \A k \in 1..Len(n.conns) : d.conns[k] = n.conns[k]
      /\ \/ p \in Lent(n) /\ d.conns = n.conns
         \/ p = Len(n.conns) + 1 /\ Len(d.conns) = p
      /\ Lent(d) = Lent(n) \cup {p}
      /\ Limit = 1 => Lent(d) = {p}
  BY DipType
<1>2. Attempt(n) = p
  BY DEF Attempt
<1>3. Len(n.conns) \in Nat /\ Place(n, p) \in SomeConn
  BY NetType
<1>4. m = [d EXCEPT !.conns[p] = o]
  <2>1. m = [d EXCEPT !.conns[p] = Offered(d.conns[p], r)]
    BY DEF Sent
  <2> HIDE DEF m, d, p
  <2> QED
    BY <1>1, <2>1
<1> HIDE DEF m, d, p
<1>5. o \in SomeConn
  BY <1>3, OfferedTo
<1> HIDE DEF o
<1>6. /\ m \in Nets /\ Len(m.conns) = Len(d.conns) /\ m.conns[p] = o
      /\ \A j \in 1..Len(d.conns) : j # p => m.conns[j] = d.conns[j]
      /\ m.current = d.current /\ m.turn = d.turn /\ Lent(m) = Lent(d)
  <2>1. d \in Nets /\ p \in 1..Len(d.conns)
    BY <1>1
  <2> DEFINE w == [d EXCEPT !.conns[p] = o]
  <2>2. /\ w \in Nets /\ Len(w.conns) = Len(d.conns) /\ w.conns[p] = o
        /\ \A j \in 1..Len(d.conns) : j # p => w.conns[j] = d.conns[j]
        /\ w.current = d.current /\ w.turn = d.turn /\ Lent(w) = Lent(d)
    BY <2>1, <1>5, ChangedNet
  <2>3. m = w
    BY <1>4
  <2> HIDE DEF w
  <2> QED
    BY <2>2, <2>3
<1>7. Picked(m) = p
  BY <1>6 DEF Picked, p
<1>8. Len(n.conns) <= Len(m.conns)
      /\ \A k \in 1..Len(m.conns) : k # p => k \in 1..Len(n.conns) /\ m.conns[k] = n.conns[k]
  <2>1. CASE d.conns = n.conns
    BY <1>1, <1>3, <1>6, <2>1
  <2>2. CASE p = Len(n.conns) + 1 /\ Len(d.conns) = p
    <3>1. \A k \in 1..p : k # p => k \in 1..Len(n.conns)
      BY <1>3, <2>2
    <3> QED
      BY <1>1, <1>3, <1>6, <2>2, <3>1
  <2> QED
    BY <1>1, <2>1, <2>2
<1>9. p \in Lent(n) \/ p = Len(n.conns) + 1
  BY <1>1
<1> QED
  BY <1>1, <1>2, <1>6, <1>7, <1>8, <1>9 DEF m, d, p, o

LEMMA ResetOf ==
    ASSUME NEW n \in Nets, NEW svs, svs[1].host \in STRING, mode.pool \in BOOLEAN
    PROVE  LET m == Reset(n, svs) IN
           /\ m \in Nets /\ Len(m.conns) = Len(n.conns) /\ Lent(m) = {} /\ m.current = <<>>
           /\ \A k \in 1..Len(n.conns) :
                 m.conns[k] = IF k \in Lent(n) THEN Left(n.conns[k]) ELSE n.conns[k]
<1> DEFINE m == Reset(n, svs)
           N == Len(n.conns)
           cs == [k \in 1..Len(n.conns) |-> IF \E i \in 1..Len(n.current) : n.current[i] = k
                                           THEN Left(n.conns[k]) ELSE n.conns[k]]
<1>1. m = [conns |-> cs, current |-> <<>>, turn |-> 0, host |-> svs[1].host]
  BY DEF Reset
<1>2. N \in Nat /\ \A k \in 1..N : n.conns[k] \in SomeConn /\ Left(n.conns[k]) \in SomeConn
  BY NetType, LeftOf DEF Less
<1>3. \A k \in 1..N : cs[k] = IF k \in Lent(n) THEN Left(n.conns[k]) ELSE n.conns[k]
  BY DEF Lent
<1>4. cs \in [1..N -> SomeConn]
  BY <1>2
<1>5. cs \in Seq(SomeConn) /\ Len(cs) = N
  <2> HIDE DEF cs, N
  <2>1. cs \in Seq(SomeConn)
    BY <1>2, <1>4, SeqDef
  <2>2. DOMAIN cs = 1..N /\ DOMAIN cs = 1..Len(cs) /\ Len(cs) \in Nat
    BY <1>4, <2>1, LenProperties
  <2> QED
    BY <1>2, <2>1, <2>2
<1> HIDE DEF cs, m
<1>6. m \in Net /\ m.conns = cs /\ m.current = <<>> /\ m.turn = 0 /\ Len(m.current) = 0
  <2>1. <<>> \in Seq(Nat) /\ Len(<<>>) = 0
    BY EmptySeq
  <2> QED
    BY <1>1, <1>5, <2>1 DEF Net
<1>7. Limit \in Nat
  BY HostsType DEF Limit
<1>8. m \in Nets /\ Lent(m) = {}
  <2>1. \A i : ~(i \in 1..Len(m.current))
    BY <1>6
  <2>2. Lent(m) = {}
    BY <2>1 DEF Lent
  <2>3. InLine(m)
    BY <1>6, <1>7, <2>1 DEF InLine
  <2> QED
    BY <1>6, <2>2, <2>3 DEF Nets
<1> QED
  BY <1>3, <1>5, <1>6, <1>8 DEF m

--------------------------------------------------------------------------------
(* The calls.                                                                    *)

LEMMA CallType ==
    ASSUME NEW k \in SomeCall
    PROVE  /\ k.kind \in Kinds /\ k.what \in Whats /\ k.session \in Nat /\ k.at \in AtRest \cup AtWork
           /\ k.on \in Nat /\ k.err \in Errors
           /\ k.at \in AtWork => k.what # "none"
           /\ k.what = "db-close" => k.kind = "close"
BY DEF SomeCall

LEMMA CallChange ==
    ASSUME NEW k \in SomeCall, NEW at \in AtRest \cup AtWork, at \in AtWork => k.what # "none",
           NEW session \in Nat, NEW on \in Nat, NEW err \in Errors
    PROVE  [k EXCEPT !.at = at, !.session = session, !.on = on, !.err = err] \in SomeCall
<1> DEFINE y == [k EXCEPT !.at = at, !.session = session, !.on = on, !.err = err]
<1>1. k \in [kind : Kinds, what : Whats, session : Nat, at : AtRest \cup AtWork, on : Nat, err : Errors]
      /\ (k.what = "db-close" => k.kind = "close")
  BY DEF SomeCall
<1>2. y \in [kind : Kinds, what : Whats, session : Nat, at : AtRest \cup AtWork, on : Nat, err : Errors]
  BY <1>1
<1>3. y.at = at /\ y.what = k.what /\ y.kind = k.kind
  BY <1>1
<1> HIDE DEF y
<1>4. y \in SomeCall
  BY <1>1, <1>2, <1>3 DEF SomeCall
<1> QED
  BY <1>4 DEF y

Same(x, k) == x.kind = k.kind /\ x.what = k.what /\ x.session = k.session /\ x.err = k.err /\ x.on = k.on

LEMMA NoCallType == NoCall \in SomeCall /\ NoCall.what = "none" /\ NoCall.kind = "none" /\ NoCall.at = "idle"
                    /\ NoCall.session = 0 /\ NoCall.err = "none" /\ NoCall.on = 0
<1>1. NoCall.what = "none" /\ NoCall.kind = "none" /\ NoCall.at = "idle"
      /\ NoCall.session = 0 /\ NoCall.err = "none" /\ NoCall.on = 0
  BY DEF NoCall
<1>2. NoCall \in [kind : Kinds, what : Whats, session : Nat, at : AtRest \cup AtWork, on : Nat, err : Errors]
  BY DEF NoCall, Kinds, Whats, AtRest, Errors
<1>3. "idle" \notin AtWork
  BY DEF AtWork
<1> QED
  BY <1>1, <1>2, <1>3 DEF SomeCall

LEMMA MovedOf ==
    ASSUME NEW cs \in SomeCalls, NEW who, NEW place \in AtRest \cup AtWork,
           place \in AtWork => \A c \in who \cap Calls : cs[c].what # "none"
    PROVE  LET x == Moved(cs, who, place) IN
           /\ x \in SomeCalls
           /\ \A c \in Calls : c \notin who => x[c] = cs[c]
           /\ \A c \in Calls : c \in who => /\ x[c].at = place
                                            /\ x[c].kind # cs[c].kind => x[c].kind = "none"
                                            /\ place \notin {"resolved", "rejected"} => Same(x[c], cs[c])
<1> DEFINE x == Moved(cs, who, place)
           kd(c) == IF cs[c].kind = "close" THEN "close" ELSE "none"
<1>1. x = [c \in Calls |-> IF c \notin who THEN cs[c]
              ELSE IF place \in {"resolved", "rejected"}
              THEN [NoCall EXCEPT !.kind = kd(c), !.at = place]
              ELSE [cs[c] EXCEPT !.at = place]]
  BY DEF Moved
<1>2. \A c \in Calls : cs[c] \in SomeCall
  BY DEF SomeCalls
<1> HIDE DEF x
<1>3. \A c \in Calls : c \notin who => x[c] = cs[c]
  BY <1>1
<1>4. ASSUME NEW c \in Calls, c \in who
      PROVE  /\ x[c] \in SomeCall /\ x[c].at = place
             /\ x[c].kind # cs[c].kind => x[c].kind = "none"
             /\ place \notin {"resolved", "rejected"} => Same(x[c], cs[c])
  <2>1. CASE place \in {"resolved", "rejected"}
    <3> DEFINE k == kd(c)
               y == [NoCall EXCEPT !.kind = k, !.at = place]
    <3>1. x[c] = y
      BY <1>1, <1>4, <2>1
    <3>2. k \in Kinds /\ (k # cs[c].kind => k = "none")
      BY DEF Kinds
    <3> HIDE DEF k
    <3>3. NoCall \in [kind : Kinds, what : Whats, session : Nat, at : AtRest \cup AtWork, on : Nat, err : Errors]
      BY NoCallType DEF SomeCall
    <3>4. y \in [kind : Kinds, what : Whats, session : Nat, at : AtRest \cup AtWork, on : Nat, err : Errors]
      BY <3>2, <3>3
    <3>5. y.at = place /\ y.kind = k /\ y.what = "none"
      BY <3>3, NoCallType
    <3>6. place \notin AtWork
      BY <2>1 DEF AtWork
    <3> HIDE DEF y
    <3>7. y \in SomeCall
      BY <3>4, <3>5, <3>6 DEF SomeCall
    <3> QED
      BY <2>1, <3>1, <3>2, <3>5, <3>7
  <2>2. CASE place \notin {"resolved", "rejected"}
    <3> DEFINE k == cs[c]
               y == [k EXCEPT !.at = place]
    <3>1. x[c] = y
      BY <1>1, <1>4, <2>2
    <3>2. k \in SomeCall /\ (place \in AtWork => k.what # "none")
      BY <1>2, <1>4
    <3> HIDE DEF k
    <3>3. y = [k EXCEPT !.at = place, !.session = k.session, !.on = k.on, !.err = k.err]
      BY <3>2 DEF SomeCall
    <3>4. k.session \in Nat /\ k.on \in Nat /\ k.err \in Errors
      BY <3>2, CallType
    <3>5. y.at = place /\ Same(y, k)
      BY <3>2 DEF SomeCall, Same
    <3> HIDE DEF y
    <3>6. [k EXCEPT !.at = place, !.session = k.session, !.on = k.on, !.err = k.err] \in SomeCall
      BY <3>2, <3>4, CallChange
    <3>7. y \in SomeCall
      BY <3>3, <3>6
    <3>8. y.kind = k.kind
      BY <3>5 DEF Same
    <3> QED
      BY <3>1, <3>5, <3>7, <3>8 DEF k
  <2> QED
    BY <2>1, <2>2
<1>5. x \in SomeCalls
  <2>1. \A c \in Calls : x[c] \in SomeCall
    BY <1>2, <1>3, <1>4
  <2>2. x = [c \in Calls |-> x[c]]
    BY <1>1
  <2> QED
    BY <2>1, <2>2 DEF SomeCalls
<1> QED
  BY <1>3, <1>4, <1>5 DEF x

LEMMA FailingOf ==
    ASSUME NEW cs \in SomeCalls, NEW who, NEW err \in Errors, \A c \in who \cap Calls : cs[c].what # "none"
    PROVE  LET x == Failing(cs, who, err) IN
           /\ x \in SomeCalls
           /\ \A c \in Calls : c \notin who => x[c] = cs[c]
           /\ \A c \in Calls : c \in who => /\ x[c].at = "failed" /\ x[c].err = err
                                            /\ x[c].kind = cs[c].kind /\ x[c].what = cs[c].what
<1> DEFINE x == Failing(cs, who, err)
<1>1. x = [c \in Calls |-> IF c \in who THEN [cs[c] EXCEPT !.at = "failed", !.err = err] ELSE cs[c]]
  BY DEF Failing
<1>2. \A c \in Calls : cs[c] \in SomeCall
  BY DEF SomeCalls
<1> HIDE DEF x
<1>3. \A c \in Calls : c \notin who => x[c] = cs[c]
  BY <1>1
<1>4. ASSUME NEW c \in Calls, c \in who
      PROVE  /\ x[c] \in SomeCall /\ x[c].at = "failed" /\ x[c].err = err
             /\ x[c].kind = cs[c].kind /\ x[c].what = cs[c].what
  <2> DEFINE k == cs[c]
             y == [k EXCEPT !.at = "failed", !.err = err]
  <2>1. x[c] = y
    BY <1>1, <1>4
  <2>2. k \in SomeCall /\ k.what # "none" /\ "failed" \in AtRest \cup AtWork
    BY <1>2, <1>4 DEF AtWork
  <2> HIDE DEF k
  <2>3. y = [k EXCEPT !.at = "failed", !.session = k.session, !.on = k.on, !.err = err]
    BY <2>2 DEF SomeCall
  <2>4. k.session \in Nat /\ k.on \in Nat
    BY <2>2, CallType
  <2>5. y.at = "failed" /\ y.err = err /\ y.kind = k.kind /\ y.what = k.what
    BY <2>2 DEF SomeCall
  <2> HIDE DEF y
  <2>6. [k EXCEPT !.at = "failed", !.session = k.session, !.on = k.on, !.err = err] \in SomeCall
    BY <2>2, <2>4, CallChange
  <2> QED
    BY <2>1, <2>3, <2>5, <2>6 DEF k
<1>5. x \in SomeCalls
  <2>1. \A c \in Calls : x[c] \in SomeCall
    BY <1>2, <1>3, <1>4
  <2>2. x = [c \in Calls |-> x[c]]
    BY <1>1
  <2> QED
    BY <2>1, <2>2 DEF SomeCalls
<1> QED
  BY <1>3, <1>4, <1>5 DEF x

LEMMA ResentOf ==
    ASSUME NEW cs \in SomeCalls, NEW who, \A c \in who \cap Calls : cs[c].what # "none"
    PROVE  LET x == Resent(cs, who) IN
           /\ x \in SomeCalls
           /\ \A c \in Calls : c \notin who => x[c] = cs[c]
           /\ \A c \in Calls : c \in who =>
                 /\ x[c].at = IF cs[c].kind = "db" /\ cs[c].what = "op" THEN "begin" ELSE "ready"
                 /\ x[c].session = 0 /\ x[c].kind = cs[c].kind /\ x[c].what = cs[c].what
<1> DEFINE x == Resent(cs, who)
           at(c) == IF cs[c].kind = "db" /\ cs[c].what = "op" THEN "begin" ELSE "ready"
<1>1. x = [c \in Calls |-> IF c \notin who THEN cs[c]
               ELSE IF cs[c].kind = "db" /\ cs[c].what = "op"
               THEN [cs[c] EXCEPT !.at = "begin", !.session = 0, !.on = 0, !.err = "none"]
               ELSE [cs[c] EXCEPT !.at = "ready", !.session = 0, !.on = 0, !.err = "none"]]
  BY DEF Resent
<1>2. \A c \in Calls : c \notin who => x[c] = cs[c] /\ x[c] \in SomeCall
  BY <1>1 DEF SomeCalls
<1>3. ASSUME NEW c \in Calls, c \in who
      PROVE  /\ x[c] \in SomeCall /\ x[c].at = at(c)
             /\ x[c].session = 0 /\ x[c].kind = cs[c].kind /\ x[c].what = cs[c].what
  <2> HIDE DEF x
  <2> DEFINE k == cs[c]
             a == at(c)
             y == [k EXCEPT !.at = a, !.session = 0, !.on = 0, !.err = "none"]
  <2>1. x[c] = y
    BY <1>1, <1>3
  <2>2. k \in [kind : Kinds, what : Whats, session : Nat, at : AtRest \cup AtWork, on : Nat, err : Errors]
        /\ (k.what = "db-close" => k.kind = "close") /\ k.what # "none"
    BY <1>3 DEF SomeCalls, SomeCall
  <2>3. a \in AtWork /\ 0 \in Nat /\ "none" \in Errors
    BY DEF AtWork, Errors
  <2> HIDE DEF k, a
  <2>4. y \in [kind : Kinds, what : Whats, session : Nat, at : AtRest \cup AtWork, on : Nat, err : Errors]
    BY <2>2, <2>3
  <2>5. y.at = a /\ y.session = 0 /\ y.kind = k.kind /\ y.what = k.what
    BY <2>2
  <2> HIDE DEF y
  <2>6. y \in SomeCall
    BY <2>2, <2>4, <2>5 DEF SomeCall
  <2> QED
    BY <2>1, <2>5, <2>6 DEF k, a
<1>4. x \in SomeCalls
  <2>1. \A c \in Calls : x[c] \in SomeCall
    BY <1>2, <1>3
  <2>2. x = [c \in Calls |-> x[c]]
    BY <1>1
  <2> HIDE DEF x
  <2> QED
    BY <2>1, <2>2 DEF SomeCalls
<1> HIDE DEF x
<1> QED
  BY <1>2, <1>3, <1>4 DEF x

\* Those whose fate a call shares.
LEMMA SettledOf ==
    ASSUME NEW cs, NEW c, NEW outcome
    PROVE  \E W : /\ Settled(cs, c, outcome) = Moved(cs, W, outcome)
                  /\ c \in W /\ W \subseteq {c} \cup {x \in Calls : At(x, {"opening"})}
                  /\ W # {c} => mode.skip /\ W = {c} \cup {x \in Calls : At(x, {"opening"})}
<1>1. CASE mode.skip /\ cs[c].what = "db-open"
  <2> DEFINE W == {c} \cup {x \in Calls : At(x, {"opening"})}
  <2>1. Settled(cs, c, outcome) = Moved(cs, W, outcome)
    BY <1>1 DEF Settled
  <2> HIDE DEF W
  <2> QED
    BY <2>1, <1>1 DEF W
<1>2. CASE ~(mode.skip /\ cs[c].what = "db-open")
  <2>1. Settled(cs, c, outcome) = Moved(cs, {c}, outcome)
    BY <1>2 DEF Settled
  <2> QED
    BY <2>1
<1> QED
  BY <1>1, <1>2

\* Those who are told when the network is reset.
Told(n, c) == \E k \in Lent(n) :
    c \in IF mode.pool THEN Callers(n.conns[k].waiting) ELSE Callers(n.conns[k].queue)

LEMMA DroppedOf ==
    ASSUME NEW cs \in SomeCalls, NEW n \in Nets, mode.pool \in BOOLEAN,
           \A c \in Calls : Told(n, c) => cs[c].what # "none"
    PROVE  LET x == Dropped(cs, n) IN
           /\ x \in SomeCalls
           /\ \A c \in Calls : ~Told(n, c) => x[c] = cs[c]
           /\ \A c \in Calls : Told(n, c) =>
                 /\ x[c].at = IF mode.pool THEN "stranded" ELSE "failed"
                 /\ ~mode.pool => x[c].err = "cancelled"
                 /\ x[c].kind = cs[c].kind
<1> DEFINE Wait == UNION {Callers(conn.waiting) : conn \in InUse(n)}
           Queued == UNION {Callers(conn.queue) : conn \in InUse(n)}
<1>1. \A c : c \in Wait <=> \E k \in Lent(n) : c \in Callers(n.conns[k].waiting)
  BY DEF InUse, Lent
<1>2. \A c : c \in Queued <=> \E k \in Lent(n) : c \in Callers(n.conns[k].queue)
  BY DEF InUse, Lent
<1>3. CASE mode.pool
  <2>1. Dropped(cs, n) = Moved(cs, Wait, "stranded")
    BY <1>3 DEF Dropped
  <2>2. \A c \in Calls : c \in Wait <=> Told(n, c)
    BY <1>1, <1>3 DEF Told
  <2>3. "stranded" \in AtRest \cup AtWork /\ "stranded" \notin AtWork
    BY DEF AtRest, AtWork
  <2> HIDE DEF Wait
  <2>4. /\ Moved(cs, Wait, "stranded") \in SomeCalls
        /\ \A c \in Calls : c \notin Wait => Moved(cs, Wait, "stranded")[c] = cs[c]
        /\ \A c \in Calls : c \in Wait => /\ Moved(cs, Wait, "stranded")[c].at = "stranded"
                                          /\ Same(Moved(cs, Wait, "stranded")[c], cs[c])
    BY <2>3, MovedOf
  <2> QED
    BY <2>1, <2>2, <2>4, <1>3 DEF Same
<1>4. CASE ~mode.pool
  <2>1. Dropped(cs, n) = Failing(cs, Queued, "cancelled")
    BY <1>4 DEF Dropped
  <2>2. \A c \in Calls : c \in Queued <=> Told(n, c)
    BY <1>2, <1>4 DEF Told
  <2>3. "cancelled" \in Errors
    BY DEF Errors
  <2> HIDE DEF Queued
  <2>4. \A c \in Queued \cap Calls : cs[c].what # "none"
    BY <2>2
  <2>5. /\ Failing(cs, Queued, "cancelled") \in SomeCalls
        /\ \A c \in Calls : c \notin Queued => Failing(cs, Queued, "cancelled")[c] = cs[c]
        /\ \A c \in Calls : c \in Queued =>
              /\ Failing(cs, Queued, "cancelled")[c].at = "failed"
              /\ Failing(cs, Queued, "cancelled")[c].err = "cancelled"
              /\ Failing(cs, Queued, "cancelled")[c].kind = cs[c].kind
    BY <2>3, <2>4, FailingOf
  <2> QED
    BY <2>1, <2>2, <2>5, <1>4
<1> QED
  BY <1>3, <1>4

--------------------------------------------------------------------------------
(* Where the request of a call is, and what it may still be executed.            *)

Neatly(n) ==
    /\ \A k \in 1..Len(n.conns) : Neat(n.conns[k])
    /\ \A k, j \in 1..Len(n.conns) : k # j => Bound(n.conns[k]) \cap Bound(n.conns[j]) = {}

Placed(n, cs) == \A k \in 1..Len(n.conns) : \A e \in Entries(n.conns[k]) :
    e.who # Login => cs[e.who].at = "sent" /\ cs[e.who].what = e.what

\* A request that the server may execute, now or after a redirect.
StillOwed(e) == e.what # "op" \/ e.reply \in {"none", "redirect"}

\* A call that will send its request, or has one that may be executed.
Active(k) == \/ k.at \in {"idle", "begin", "ready", "login", "auto", "opening"}
             \/ k.at = "failed" /\ k.err \in Reconnectable
Pending(n, cs, c) ==
    \/ Active(cs[c])
    \/ \E k \in 1..Len(n.conns) : \E e \in Entries(n.conns[k]) : e.who = c /\ StillOwed(e)
Owing(n, cs, ow) == \A c \in Calls : ow[c] >= 0 /\ (Pending(n, cs, c) => ow[c] >= 1)

Orderly(n, cs, ow) == Neatly(n) /\ Placed(n, cs) /\ Owing(n, cs, ow)
Basic == TypeOK /\ net \in Nets /\ Orderly(net, call, owed)

\* All requests but logins, and the request r to connection p, are those of before.
Adds(m, p, r) == \A k \in 1..Len(m.conns) : \A e \in Entries(m.conns[k]) :
    \/ e.who = Login
    \/ k = p /\ e = r
    \/ k \in Conns /\ e \in Entries(net.conns[k])

\* A step that loses requests, or sends one more, r of a call that has none.
LEMMA Keeps ==
    ASSUME Basic, NEW m \in Nets, NEW cs \in SomeCalls, NEW ow \in [Calls -> Int],
           NEW p, NEW r \in SomeRequest, r.who # Login => call[r.who].at = "ready",
           \A k \in 1..Len(m.conns) : Neat(m.conns[k]),
           Adds(m, p, r),
           Placed(m, cs),
           \A c \in Calls : /\ ow[c] >= owed[c]
                            /\ Active(cs[c]) => Pending(net, call, c) \/ ow[c] > owed[c]
    PROVE  Orderly(m, cs, ow)
<1>0. /\ net \in Nets /\ Neatly(net) /\ Placed(net, call) /\ Owing(net, call, owed)
      /\ \A k \in Conns : net.conns[k] \in SomeConn
      /\ \A k \in 1..Len(m.conns) : m.conns[k] \in SomeConn
      /\ call \in SomeCalls /\ owed \in [Calls -> Int]
  BY NetType DEF Basic, Orderly, TypeOK, Conns
<1>1. ASSUME NEW k \in Conns, NEW e \in Entries(net.conns[k])
      PROVE  e.who \in Calls \/ e.who = Login
  BY <1>0, <1>1, EntriesOf, RequestType
<1>2. \A k \in Conns : \A e \in Entries(net.conns[k]) : e.who = r.who => e.who = Login
  BY <1>0 DEF Placed, Conns
<1>3. ASSUME NEW k \in 1..Len(m.conns), NEW j \in 1..Len(m.conns), k # j,
             NEW c, c \in Bound(m.conns[k]), c \in Bound(m.conns[j])
      PROVE  FALSE
  <2>1. PICK e \in Entries(m.conns[k]) : e.who = c
    BY <1>0, <1>3, EntriesOf
  <2>2. PICK f \in Entries(m.conns[j]) : f.who = c
    BY <1>0, <1>3, EntriesOf
  <2>3. c # Login
    BY <1>0, <1>3, EntriesOf, LoginIsNoCall
  <2>4. (k = p /\ e = r) \/ (k \in Conns /\ e \in Entries(net.conns[k]))
    BY <2>1, <2>3 DEF Adds
  <2>5. (j = p /\ f = r) \/ (j \in Conns /\ f \in Entries(net.conns[j]))
    BY <2>2, <2>3 DEF Adds
  <2>6. CASE k \in Conns /\ e \in Entries(net.conns[k]) /\ j \in Conns /\ f \in Entries(net.conns[j])
    <3>1. c \in Bound(net.conns[k]) /\ c \in Bound(net.conns[j])
      BY <2>1, <2>2, <2>3, <2>6, <1>0, EntriesOf
    <3> QED
      BY <3>1, <1>0, <1>3, <2>6 DEF Neatly, Conns
  <2>7. CASE k = p /\ e = r
    BY <2>1, <2>2, <2>3, <2>5, <2>7, <1>2, <1>3
  <2>8. CASE j = p /\ f = r
    BY <2>1, <2>2, <2>3, <2>4, <2>8, <1>2, <1>3
  <2> QED
    BY <2>4, <2>5, <2>6, <2>7, <2>8
<1>4. Neatly(m)
  BY <1>3 DEF Neatly
<1>5. ASSUME NEW c \in Calls PROVE ow[c] >= 0 /\ (Pending(m, cs, c) => ow[c] >= 1)
  <2>1. owed[c] \in Int /\ ow[c] \in Int /\ ow[c] >= owed[c] /\ owed[c] >= 0
        /\ (Pending(net, call, c) => owed[c] >= 1)
    BY <1>0 DEF Owing
  <2>2. Active(cs[c]) => Pending(net, call, c) \/ ow[c] > owed[c]
    OBVIOUS
  <2>3. ASSUME NEW k \in 1..Len(m.conns), NEW e \in Entries(m.conns[k]), e.who = c, StillOwed(e)
        PROVE  Pending(net, call, c)
    <3>1. c # Login
      BY LoginIsNoCall
    <3>2. CASE k = p /\ e = r
      <4>1. Active(call[c])
        BY <2>3, <3>1, <3>2 DEF Active
      <4> QED
        BY <4>1 DEF Pending
    <3>3. CASE k \in Conns /\ e \in Entries(net.conns[k])
      BY <2>3, <3>3 DEF Pending, Conns
    <3> QED
      BY <2>3, <3>1, <3>2, <3>3 DEF Adds
  <2> QED
    BY <2>1, <2>2, <2>3 DEF Pending
<1>6. Owing(m, cs, ow)
  BY <1>5 DEF Owing
<1> QED
  BY <1>4, <1>6 DEF Orderly

LoginRequest == [who |-> Login, what |-> "connect", session |-> 0, reply |-> "none"]

LEMMA LoginRequestType ==
    LoginRequest \in SomeRequest /\ LoginRequest.who = Login /\ LoginRequest.reply = "none"
    /\ LoginRequest.session = 0 /\ LoginRequest.what = "connect"
BY DEF LoginRequest, SomeRequest

\* All requests but logins are requests of before.
Sheds(m, n) == \A k \in 1..Len(m.conns) :
    /\ Neat(m.conns[k])
    /\ \A e \in Entries(m.conns[k]) : e.who = Login \/ (k \in 1..Len(n.conns) /\ e \in Entries(n.conns[k]))

LEMMA ShedsAgain ==
    ASSUME NEW m, NEW n, NEW o, Sheds(m, n), Sheds(n, o)
    PROVE  Sheds(m, o)
BY DEF Sheds

LEMMA ShedsPlaced ==
    ASSUME NEW m, NEW n, NEW cs, Sheds(m, n), Placed(n, cs)
    PROVE  Placed(m, cs)
BY DEF Sheds, Placed

LEMMA LoginSheds ==
    ASSUME NEW n \in Nets, \A k \in 1..Len(n.conns) : Neat(n.conns[k]), mode.pool \in BOOLEAN
    PROVE  Sheds(Sent(n, LoginRequest), n)
<1> DEFINE m == Sent(n, LoginRequest)
           p == Attempt(n)
           o == Place(n, p)
<1>1. /\ p \in 1..Len(m.conns) /\ m.conns[p] = Offered(o, LoginRequest)
      /\ \A k \in 1..Len(m.conns) : k # p => k \in 1..Len(n.conns) /\ m.conns[k] = n.conns[k]
  BY LoginRequestType, SentOf
<1>2. /\ o \in SomeConn /\ Neat(o)
      /\ \A e \in Entries(o) : p \in 1..Len(n.conns) /\ e \in Entries(n.conns[p])
  <2>1. CASE p \in 1..Len(n.conns)
    BY <2>1, NetType DEF Place
  <2>2. CASE p \notin 1..Len(n.conns)
    BY <2>2, NetType, NewConnectionType DEF Place
  <2> QED
    BY <2>1, <2>2
<1> HIDE DEF m, p, o
<1>3. Neat(m.conns[p]) /\ Entries(m.conns[p]) \subseteq Entries(o) \cup {LoginRequest}
  BY <1>1, <1>2, LoginRequestType, OfferedTo
<1>4. \A k \in 1..Len(m.conns) : Neat(m.conns[k])
  BY <1>1, <1>3
<1>5. \A k \in 1..Len(m.conns) : \A e \in Entries(m.conns[k]) :
         e.who = Login \/ (k \in 1..Len(n.conns) /\ e \in Entries(n.conns[k]))
  BY <1>1, <1>2, <1>3, LoginRequestType
<1>6. Sheds(m, n)
  BY <1>4, <1>5 DEF Sheds
<1> QED
  BY <1>6 DEF m

LEMMA ResetSheds ==
    ASSUME NEW n \in Nets, NEW svs, svs[1].host \in STRING, mode.pool \in BOOLEAN,
           \A k \in 1..Len(n.conns) : Neat(n.conns[k])
    PROVE  Sheds(Reset(n, svs), n)
<1> DEFINE m == Reset(n, svs)
<1>1. Len(m.conns) = Len(n.conns)
      /\ \A k \in 1..Len(n.conns) : m.conns[k] = IF k \in Lent(n) THEN Left(n.conns[k]) ELSE n.conns[k]
  BY ResetOf
<1>2. \A k \in 1..Len(n.conns) : Less(Left(n.conns[k]), n.conns[k])
  BY NetType, LeftOf
<1> HIDE DEF m
<1>3. Sheds(m, n)
  BY <1>1, <1>2 DEF Sheds, Less
<1> QED
  BY <1>3 DEF m

\* Nobody is told whose request stays.
LEMMA DroppedPlaced ==
    ASSUME NEW n \in Nets, NEW svs, svs[1].host \in STRING, mode.pool \in BOOLEAN,
           Neatly(n), NEW cs \in SomeCalls, Placed(n, cs)
    PROVE  LET x == Dropped(cs, n) IN
           /\ x \in SomeCalls /\ Placed(Reset(n, svs), x)
           /\ \A c \in Calls : x[c] = cs[c] \/ (Told(n, c) /\ cs[c].at = "sent" /\ ~Active(x[c]))
           /\ \A c \in Calls : Told(n, c) => /\ x[c].at = IF mode.pool THEN "stranded" ELSE "failed"
                                             /\ ~mode.pool => x[c].err = "cancelled"
           /\ \A c \in Calls : ~Told(n, c) => x[c] = cs[c]
           /\ \A c \in Calls : x[c].kind = cs[c].kind
<1> DEFINE m == Reset(n, svs)
           x == Dropped(cs, n)
<1>1. Len(m.conns) = Len(n.conns)
      /\ \A k \in 1..Len(n.conns) : m.conns[k] = IF k \in Lent(n) THEN Left(n.conns[k]) ELSE n.conns[k]
  BY ResetOf
<1>2. \A k \in 1..Len(n.conns) : n.conns[k] \in SomeConn /\ Neat(n.conns[k])
  BY NetType DEF Neatly
<1>3. \A k \in 1..Len(n.conns) : /\ Less(Left(n.conns[k]), n.conns[k])
                                 /\ mode.pool => Left(n.conns[k]).waiting = <<>>
                                 /\ ~mode.pool => Left(n.conns[k]).queue = <<>>
                                 /\ Left(n.conns[k]).waiting \in {n.conns[k].waiting, <<>>}
                                 /\ Left(n.conns[k]).queue \in {n.conns[k].queue, <<>>}
  BY <1>2, LeftOf
<1>4. Lent(n) \subseteq 1..Len(n.conns)
  BY NetType
<1>5. \A c \in Calls : Told(n, c) => cs[c].at = "sent" /\ cs[c].what # "none"
  <2> TAKE c \in Calls
  <2> HAVE Told(n, c)
  <2>1. PICK k \in Lent(n) : c \in Bound(n.conns[k])
    BY DEF Told, Bound
  <2>2. PICK e \in Entries(n.conns[k]) : e.who = c
    BY <2>1, <1>2, <1>4, EntriesOf
  <2>3. e \in SomeRequest /\ c # Login
    BY <2>2, <1>2, <1>4, EntriesOf, LoginIsNoCall
  <2> QED
    BY <2>2, <2>3, <1>4, RequestType DEF Placed
<1>6. /\ x \in SomeCalls
      /\ \A c \in Calls : ~Told(n, c) => x[c] = cs[c]
      /\ \A c \in Calls : Told(n, c) => /\ x[c].at = IF mode.pool THEN "stranded" ELSE "failed"
                                        /\ ~mode.pool => x[c].err = "cancelled"
                                        /\ x[c].kind = cs[c].kind
  BY <1>5, DroppedOf
<1> HIDE DEF x, m
<1>7. \A c \in Calls : Told(n, c) => ~Active(x[c])
  BY <1>6 DEF Active, Reconnectable
<1>8. ASSUME NEW j \in 1..Len(m.conns), NEW e \in Entries(m.conns[j]), e.who # Login
      PROVE  x[e.who].at = "sent" /\ x[e.who].what = e.what
  <2>1. j \in 1..Len(n.conns) /\ e \in Entries(n.conns[j])
    BY <1>1, <1>3, <1>8 DEF Less
  <2>2. cs[e.who].at = "sent" /\ cs[e.who].what = e.what
    BY <2>1, <1>8 DEF Placed
  <2>3. e.who \in Calls /\ e.who \in Bound(n.conns[j])
    BY <2>1, <1>2, <1>8, EntriesOf
  <2>4. ASSUME Told(n, e.who) PROVE FALSE
    <3>1. PICK k \in Lent(n) :
              e.who \in IF mode.pool THEN Callers(n.conns[k].waiting) ELSE Callers(n.conns[k].queue)
      BY <2>4 DEF Told
    <3>2. k \in 1..Len(n.conns) /\ e.who \in Bound(n.conns[k])
      BY <3>1, <1>4 DEF Bound
    <3>3. k = j
      BY <3>2, <2>1, <2>3 DEF Neatly
    <3> DEFINE conn == n.conns[j]
    <3>4. conn.queue \in Requests /\ conn.waiting \in Requests /\ Callers(conn.queue) \cap Callers(conn.waiting) = {}
      BY <2>1, <1>2, ConnType DEF Neat
    <3>5. m.conns[j] = Left(conn)
      BY <3>1, <3>3, <1>1, <2>1
    <3>6. CASE mode.pool
      <4>1. e \in Members(conn.queue)
        BY <3>5, <3>6, <1>3, <1>8, <2>1, NoRequests DEF Entries
      <4>2. e.who \in Callers(conn.queue)
        BY <4>1, <3>4, <1>8, CallersOf
      <4> QED
        BY <4>2, <3>1, <3>3, <3>4, <3>6
    <3>7. CASE ~mode.pool
      <4>1. e \in Members(conn.waiting)
        BY <3>5, <3>7, <1>3, <1>8, <2>1, NoRequests DEF Entries
      <4>2. e.who \in Callers(conn.waiting)
        BY <4>1, <3>4, <1>8, CallersOf
      <4> QED
        BY <4>2, <3>1, <3>3, <3>4, <3>7
    <3> QED
      BY <3>6, <3>7
  <2> QED
    BY <2>2, <2>3, <2>4, <1>6
<1>9. Placed(m, x)
  BY <1>8 DEF Placed
<1>10. \A c \in Calls : x[c] = cs[c] \/ (Told(n, c) /\ cs[c].at = "sent" /\ ~Active(x[c]))
  BY <1>5, <1>6, <1>7
<1>11. \A c \in Calls : x[c].kind = cs[c].kind
  BY <1>6
<1> QED
  BY <1>6, <1>9, <1>10, <1>11 DEF x, m

--------------------------------------------------------------------------------
(* Steps that send nothing for a call.                                           *)

LEMMA KeepsLess ==
    ASSUME Basic, NEW m \in Nets, NEW cs \in SomeCalls, NEW ow \in [Calls -> Int],
           Sheds(m, net), Placed(m, cs),
           \A c \in Calls : /\ ow[c] >= owed[c]
                            /\ Active(cs[c]) => Pending(net, call, c) \/ ow[c] > owed[c]
    PROVE  Orderly(m, cs, ow)
<1>1. \A k \in 1..Len(m.conns) : Neat(m.conns[k])
  BY DEF Sheds
<1>2. Adds(m, 0, LoginRequest)
  BY DEF Sheds, Conns, Adds
<1>3. LoginRequest \in SomeRequest /\ LoginRequest.who = Login
  BY LoginRequestType
<1> QED
  BY <1>1, <1>2, <1>3, Keeps

LEMMA BasicFacts ==
    ASSUME Basic
    PROVE  /\ mode.pool \in BOOLEAN /\ mode.skip \in BOOLEAN
           /\ net \in Nets /\ call \in SomeCalls /\ owed \in [Calls -> Int]
           /\ Neatly(net) /\ Placed(net, call) /\ Owing(net, call, owed)
           /\ \A k \in Conns : net.conns[k] \in SomeConn /\ Neat(net.conns[k])
           /\ \A c \in Calls : call[c] \in SomeCall /\ owed[c] \in Int
           /\ Lent(net) \subseteq Conns
           /\ transport \in Transport /\ servers[1].host \in STRING /\ Len(servers) = Len(Hosts)
           /\ Sheds(net, net)
<1>1. net \in Nets /\ Neatly(net) /\ Placed(net, call) /\ Owing(net, call, owed) /\ TypeOK
  BY DEF Basic, Orderly
<1>2. Lent(net) \subseteq Conns /\ \A k \in Conns : net.conns[k] \in SomeConn
  BY <1>1, NetType DEF Conns
<1>3. \A k \in Conns : Neat(net.conns[k])
  BY <1>1 DEF Neatly, Conns
<1>4. servers[1].host \in STRING /\ Len(servers) = Len(Hosts)
  <2>1. 1 \in 1..Len(Hosts)
    BY HostsType
  <2>2. servers \in [1..Len(Hosts) -> [host : STRING, active : BOOLEAN]]
    BY <1>1 DEF TypeOK, Servers
  <2>3. Len(Hosts) \in Nat
    BY HostsType
  <2> QED
    BY <2>1, <2>2, <2>3
<1>5. Sheds(net, net)
  BY <1>3 DEF Sheds, Conns
<1> QED
  BY <1>1, <1>2, <1>3, <1>4, <1>5 DEF TypeOK, SomeCalls

\* Those who wait for a reply.
LEMMA Waiting ==
    ASSUME Basic, NEW k \in Conns
    PROVE  /\ \A e \in Entries(net.conns[k]) : e.who # Login =>
                 /\ e.who \in Calls /\ call[e.who].at = "sent" /\ call[e.who].what = e.what /\ e.what # "none"
           /\ \A c \in Bound(net.conns[k]) : c \in Calls /\ call[c].at = "sent" /\ call[c].what # "none"
<1>1. ASSUME NEW e \in Entries(net.conns[k]), e.who # Login
      PROVE  /\ e.who \in Calls /\ call[e.who].at = "sent" /\ call[e.who].what = e.what /\ e.what # "none"
  <2>1. e \in SomeRequest
    BY BasicFacts, EntriesOf
  <2> QED
    BY <2>1, <1>1, BasicFacts, RequestType DEF Placed, Conns
<1>2. \A c \in Bound(net.conns[k]) : c \in Calls /\ c # Login /\ \E e \in Entries(net.conns[k]) : e.who = c
  BY BasicFacts, EntriesOf, LoginIsNoCall
<1> QED
  BY <1>1, <1>2

\* A step of calls that wait for no reply.
LEMMA KeepsCalls ==
    ASSUME Basic, NEW cs \in SomeCalls,
           \A c \in Calls : \/ cs[c] = call[c]
                            \/ call[c].at # "sent" /\ (Active(cs[c]) => Active(call[c]))
    PROVE  Orderly(net, cs, owed)
<1>1. Placed(net, cs)
  <2>1. ASSUME NEW k \in Conns, NEW e \in Entries(net.conns[k]), e.who # Login
        PROVE  cs[e.who].at = "sent" /\ cs[e.who].what = e.what
    BY <2>1, Waiting
  <2> QED
    BY <2>1 DEF Placed, Conns
<1>2. \A c \in Calls : owed[c] >= owed[c] /\ (Active(cs[c]) => Pending(net, call, c))
  BY BasicFacts DEF Pending
<1> QED
  BY <1>1, <1>2, BasicFacts, KeepsLess

LEMMA ServersType == ASSUME NEW svs \in Servers PROVE svs[1].host \in STRING /\ Len(svs) = Len(Hosts)
<1>1. Len(Hosts) \in Nat /\ 1 \in 1..Len(Hosts)
  BY HostsType
<1> QED
  BY <1>1 DEF Servers

\* Where the rotation begins.
LEMMA ShiftServerType ==
    ASSUME servers \in Servers
    PROVE  ShiftServer \in Servers
<1> DEFINE n == Len(servers)
           next(i) == servers[i].active /\ \A j \in 2..(i - 1) : ~servers[j].active
           gone == IF ~ServerLeft THEN n ELSE (CHOOSE i \in 2..n : next(i)) - 1
<1>1. n \in Nat \ {0} /\ n = Len(Hosts)
  BY HostsType, ServersType
<1>2. gone \in 1..n
  <2>1. CASE ~ServerLeft
    BY <2>1, <1>1
  <2>2. CASE ServerLeft
    <3> DEFINE T == {i \in 2..n : servers[i].active}
    <3>1. T \subseteq Nat /\ T # {}
      BY <2>2, <1>1 DEF ServerLeft
    <3>2. PICK i \in T : \A j \in T : i <= j
      BY <3>1, Least
    <3>3. i \in 2..n /\ servers[i].active
      BY <3>2
    <3>4. \A j \in 2..(i - 1) : ~servers[j].active
      <4> TAKE j \in 2..(i - 1)
      <4>1. j \in 2..n /\ ~(i <= j)
        BY <3>3, <1>1
      <4> QED
        BY <4>1, <3>2
    <3> DEFINE g == CHOOSE x \in 2..n : next(x)
    <3>5. g \in 2..n
      BY <3>3, <3>4
    <3>6. gone = g - 1
      BY <2>2
    <3> HIDE DEF g, gone
    <3> QED
      BY <3>5, <3>6, <1>1
  <2> QED
    BY <2>1, <2>2
<1>3. ShiftServer = [i \in 1..n |-> IF i + gone <= n THEN servers[i + gone]
                        ELSE [servers[i + gone - n] EXCEPT !.active = FALSE]]
  BY DEF ShiftServer
<1> HIDE DEF gone
<1>4. ASSUME NEW i \in 1..n
      PROVE  (IF i + gone <= n THEN servers[i + gone]
              ELSE [servers[i + gone - n] EXCEPT !.active = FALSE]) \in [host : STRING, active : BOOLEAN]
  <2>1. CASE i + gone <= n
    <3>1. i + gone \in 1..n
      BY <2>1, <1>1, <1>2
    <3>2. servers[i + gone] \in [host : STRING, active : BOOLEAN]
      BY <3>1, <1>1 DEF Servers
    <3> QED
      BY <3>2, <2>1
  <2>2. CASE ~(i + gone <= n)
    <3>1. i + gone - n \in 1..n
      BY <2>2, <1>1, <1>2
    <3>2. servers[i + gone - n] \in [host : STRING, active : BOOLEAN]
      BY <3>1, <1>1 DEF Servers
    <3>3. [servers[i + gone - n] EXCEPT !.active = FALSE] \in [host : STRING, active : BOOLEAN]
      BY <3>2
    <3> QED
      BY <3>3, <2>2
  <2> QED
    BY <2>1, <2>2
<1> HIDE DEF n
<1>5. ShiftServer \in [1..n -> [host : STRING, active : BOOLEAN]]
  BY <1>3, <1>4
<1> QED
  BY <1>5, <1>1 DEF Servers

LEMMA UpdateConfigType ==
    ASSUME servers \in Servers, UpdateConfig
    PROVE  servers' \in Servers
<1>1. Len(servers) = Len(Hosts)
  BY ServersType
<1>2. \A i \in 1..Len(servers) : [servers[i] EXCEPT !.active = TRUE] \in [host : STRING, active : BOOLEAN]
  BY <1>1 DEF Servers
<1>3. servers' = [i \in 1..Len(servers) |-> [servers[i] EXCEPT !.active = TRUE]]
  BY DEF UpdateConfig
<1> QED
  BY <1>1, <1>2, <1>3 DEF Servers

LEMMA FaultType ==
    ASSUME faults \in Seq(FaultKinds), NEW kind \in FaultKinds, Fault(kind)
    PROVE  faults' \in Seq(FaultKinds)
<1>1. Len(faults) \in Nat
  BY LenProperties
<1>2. faults' = IF faults = <<>> THEN <<kind>> ELSE [i \in 1..(Len(faults) + 1) |-> "several"]
  BY DEF Fault
<1>3. <<kind>> \in Seq(FaultKinds)
  OBVIOUS
<1>4. [i \in 1..(Len(faults) + 1) |-> "several"] \in Seq(FaultKinds)
  <2>1. Len(faults) + 1 \in Nat
    BY <1>1
  <2>2. [i \in 1..(Len(faults) + 1) |-> "several"] \in [1..(Len(faults) + 1) -> FaultKinds]
    BY DEF FaultKinds
  <2> QED
    BY <2>1, <2>2, SeqDef
<1> QED
  BY <1>2, <1>3, <1>4

\* What is left to show of a step.
LEMMA Onward ==
    ASSUME Basic, UNCHANGED mode, servers' \in Servers, net' \in Nets, transport' \in Transport,
           db' \in Databases, call' \in SomeCalls, owed' \in [Calls -> Int], crashed' \in BOOLEAN,
           faults' \in Seq(FaultKinds), Orderly(net', call', owed')
    PROVE  Basic'
<1>1. mode' \in [pool : BOOLEAN, skip : BOOLEAN]
  BY DEF Basic, TypeOK
<1>2. net' \in Net
  BY DEF Nets
<1>3. TypeOK'
  BY <1>1, <1>2 DEF TypeOK, Servers, Databases
<1>4. (net \in Nets)'
  BY DEF Nets, InLine, Limit
<1> QED
  BY <1>3, <1>4 DEF Basic

LEMMA Before ==
    ASSUME Basic
    PROVE  /\ servers \in Servers /\ net \in Nets /\ transport \in Transport /\ db \in Databases
           /\ call \in SomeCalls /\ owed \in [Calls -> Int] /\ crashed \in BOOLEAN
           /\ faults \in Seq(FaultKinds) /\ mode.pool \in BOOLEAN /\ mode.skip \in BOOLEAN
           /\ Orderly(net, call, owed)
BY DEF Basic, TypeOK, Servers, Databases

LEMMA DatabasesType ==
    ASSUME NEW d \in Databases
    PROVE  /\ d.session \in Nat
           /\ [d EXCEPT !.session = 0] \in Databases
           /\ \A o \in {"none", "pending", "rejected"} : [d EXCEPT !.opening = o] \in Databases
BY DEF Databases

LEMMA OpeningFailsType == ASSUME Basic, NEW c PROVE OpeningFails(c) \in Databases
BY Before, DatabasesType DEF OpeningFails

\* A step of calls only.
LEMMA OnlyCalls ==
    ASSUME Basic, UNCHANGED <<mode, net, owed, crashed, faults>>, servers' \in Servers,
           transport' \in Transport, db' \in Databases, call' \in SomeCalls,
           \A c \in Calls : \/ call'[c] = call[c]
                            \/ call[c].at # "sent" /\ (Active(call'[c]) => Active(call[c]))
    PROVE  Basic'
<1>1. Orderly(net, call', owed)
  BY KeepsCalls
<1> QED
  BY <1>1, Before, Onward

--------------------------------------------------------------------------------
(* The program.                                                                  *)

LEMMA StartKeeps ==
    ASSUME Basic, NEW c \in Calls, Start(c)
    PROVE  Basic'
<1>1. /\ call[c].at = "idle" /\ call[c] \in SomeCall /\ call \in SomeCalls /\ db \in Databases /\ db.session \in Nat
      /\ UNCHANGED <<mode, servers, net, transport, db, owed, crashed, faults>>
  BY BasicFacts, Before, DatabasesType DEF Start, At
<1>2. PICK kd \in Kinds, wh \in Whats, se \in Nat, pl \in {"begin", "ready"} :
         /\ wh # "none" /\ (wh = "db-close" => kd = "close")
         /\ call' = [call EXCEPT ![c] = [call[c] EXCEPT !.kind = kd, !.what = wh, !.session = se, !.at = pl]]
  <2>0. call[c].session \in Nat
    BY <1>1, CallType
  <2>1. \/ call' = [call EXCEPT ![c].kind = "server", ![c].what = "op", ![c].at = "ready"]
        \/ call' = [call EXCEPT ![c].kind = "db", ![c].what = "op", ![c].at = "begin"]
        \/ call' = [call EXCEPT ![c].kind = "close", ![c].what = "db-close",
                                  ![c].session = db.session, ![c].at = "ready"]
    BY DEF Start
  <2> DEFINE k == call[c]
  <2>2. [k EXCEPT !.kind = "server", !.what = "op", !.at = "ready"]
        = [k EXCEPT !.kind = "server", !.what = "op", !.session = k.session, !.at = "ready"]
        /\ [k EXCEPT !.kind = "db", !.what = "op", !.at = "begin"]
        = [k EXCEPT !.kind = "db", !.what = "op", !.session = k.session, !.at = "begin"]
    BY <1>1 DEF SomeCall
  <2>3. {"server", "db", "close"} \subseteq Kinds /\ {"op", "db-close"} \subseteq Whats
    BY DEF Kinds, Whats
  <2>4. CASE call' = [call EXCEPT ![c].kind = "server", ![c].what = "op", ![c].at = "ready"]
    <3>1. call' = [call EXCEPT ![c] = [k EXCEPT !.kind = "server", !.what = "op", !.at = "ready"]]
      BY <2>4
    <3> HIDE DEF k
    <3>2. call' = [call EXCEPT ![c] = [k EXCEPT !.kind = "server", !.what = "op", !.session = k.session, !.at = "ready"]]
      BY <3>1, <2>2
    <3> QED
      BY <3>2, <2>0, <2>3 DEF k
  <2>5. CASE call' = [call EXCEPT ![c].kind = "db", ![c].what = "op", ![c].at = "begin"]
    <3>1. call' = [call EXCEPT ![c] = [k EXCEPT !.kind = "db", !.what = "op", !.at = "begin"]]
      BY <2>5
    <3> HIDE DEF k
    <3>2. call' = [call EXCEPT ![c] = [k EXCEPT !.kind = "db", !.what = "op", !.session = k.session, !.at = "begin"]]
      BY <3>1, <2>2
    <3> QED
      BY <3>2, <2>0, <2>3 DEF k
  <2>6. CASE call' = [call EXCEPT ![c].kind = "close", ![c].what = "db-close",
                                  ![c].session = db.session, ![c].at = "ready"]
    <3>1. call' = [call EXCEPT ![c] = [k EXCEPT !.kind = "close", !.what = "db-close",
                                                !.session = db.session, !.at = "ready"]]
      BY <2>6
    <3> HIDE DEF k
    <3>2. db.session \in Nat /\ "close" \in Kinds /\ "db-close" \in Whats
      BY <1>1, <2>3
    <3> QED
      BY <3>1, <3>2 DEF k
  <2> QED
    BY <2>1, <2>4, <2>5, <2>6
<1> DEFINE k == call[c]
           y == [k EXCEPT !.kind = kd, !.what = wh, !.session = se, !.at = pl]
<1>3. y \in SomeCall
  <2>1. k \in [kind : Kinds, what : Whats, session : Nat, at : AtRest \cup AtWork, on : Nat, err : Errors]
    BY <1>1 DEF SomeCall
  <2>2. pl \in AtWork
    BY DEF AtWork
  <2> HIDE DEF k
  <2>3. y \in [kind : Kinds, what : Whats, session : Nat, at : AtRest \cup AtWork, on : Nat, err : Errors]
    BY <2>1, <2>2
  <2>4. y.what = wh /\ y.kind = kd
    BY <2>1
  <2> HIDE DEF y
  <2> QED
    BY <1>2, <2>3, <2>4 DEF SomeCall
<1> HIDE DEF y
<1>4. call' = [call EXCEPT ![c] = y]
  BY <1>2 DEF y
<1>5. call' \in SomeCalls /\ \A x \in Calls : x # c => call'[x] = call[x]
  BY <1>1, <1>3, <1>4 DEF SomeCalls
<1>6. \A x \in Calls : call'[x] = call[x] \/ (call[x].at # "sent" /\ Active(call[x]))
  BY <1>1, <1>5 DEF Active
<1> QED
  BY <1>1, <1>5, <1>6, Before, OnlyCalls

LEMMA OpenKeeps ==
    ASSUME Basic, NEW c \in Calls, Open(c)
    PROVE  Basic'
<1>1. /\ call[c].at = "begin" /\ call[c] \in SomeCall /\ call \in SomeCalls /\ db \in Databases /\ db.session \in Nat
      /\ UNCHANGED <<mode, servers, net, transport, owed, crashed, faults>>
  BY BasicFacts, Before, DatabasesType DEF Open, At
<1>2. call[c].what # "none" /\ Active(call[c])
  BY <1>1, CallType DEF AtWork, Active
<1>3. db' \in Databases
  <2>1. db' = db \/ db' = [db EXCEPT !.opening = IF mode.skip THEN "pending" ELSE db.opening]
    BY DEF Open
  <2>2. (IF mode.skip THEN "pending" ELSE db.opening) \in {"none", "pending", "rejected"}
    BY <1>1 DEF Databases
  <2> QED
    BY <1>1, <2>1, <2>2, DatabasesType
<1>4. ASSUME NEW wh \in {"op", "db-open"}, NEW se \in Nat,
             call' = [call EXCEPT ![c] = [call[c] EXCEPT !.what = wh, !.session = se, !.at = "ready"]]
      PROVE  Basic'
  <2> DEFINE k == call[c]
             y == [k EXCEPT !.what = wh, !.session = se, !.at = "ready"]
  <2>1. k \in [kind : Kinds, what : Whats, session : Nat, at : AtRest \cup AtWork, on : Nat, err : Errors]
    BY <1>1 DEF SomeCall
  <2>2. "ready" \in AtWork /\ wh \in Whats /\ wh # "none" /\ wh # "db-close"
    BY DEF AtWork, Whats
  <2> HIDE DEF k
  <2>3. y \in [kind : Kinds, what : Whats, session : Nat, at : AtRest \cup AtWork, on : Nat, err : Errors]
    BY <2>1, <2>2
  <2>4. y.what = wh
    BY <2>1
  <2> HIDE DEF y
  <2>5. y \in SomeCall
    BY <2>2, <2>3, <2>4 DEF SomeCall
  <2>6. call' = [call EXCEPT ![c] = y]
    BY <1>4 DEF y, k
  <2>7. call' \in SomeCalls /\ \A x \in Calls : x # c => call'[x] = call[x]
    BY <1>1, <2>5, <2>6 DEF SomeCalls
  <2>8. \A x \in Calls : call'[x] = call[x] \/ (call[x].at # "sent" /\ Active(call[x]))
    BY <1>1, <1>2, <2>7
  <2> QED
    BY <1>1, <1>3, <2>7, <2>8, Before, OnlyCalls
<1>5. CASE db.session # 0
  BY <1>1, <1>4, <1>5 DEF Open
<1>6. CASE db.session = 0 /\ mode.skip /\ db.opening # "none"
  <2>1. PICK pl \in {"opening", "rejected"} : call' = Moved(call, {c}, pl)
    BY <1>6 DEF Open
  <2>2. pl \in AtRest \cup AtWork
    BY DEF AtRest, AtWork
  <2>3. call' \in SomeCalls /\ \A x \in Calls : x \notin {c} => call'[x] = call[x]
    BY <1>1, <1>2, <2>1, <2>2, MovedOf
  <2>4. \A x \in Calls : call'[x] = call[x] \/ (call[x].at # "sent" /\ Active(call[x]))
    BY <1>1, <1>2, <2>3
  <2> QED
    BY <1>1, <1>3, <2>3, <2>4, Before, OnlyCalls
<1>7. CASE db.session = 0 /\ ~(mode.skip /\ db.opening # "none")
  BY <1>1, <1>4, <1>7, ZenonT(30) DEF Open
<1> QED
  BY <1>5, <1>6, <1>7

LEMMA AutoReconnectedKeeps ==
    ASSUME Basic, AutoReconnected
    PROVE  Basic'
<1> DEFINE W == {c \in Calls : At(c, {"auto"})}
<1>1. call \in SomeCalls /\ call' = Resent(call, W)
      /\ UNCHANGED <<mode, servers, net, db, owed, crashed, faults>>
  BY Before DEF AutoReconnected
<1>2. \A c \in W : call[c].at = "auto" /\ call[c].what # "none" /\ Active(call[c])
  BY BasicFacts, CallType DEF At, AtWork, Active
<1>3. transport' \in Transport
  BY Before DEF AutoReconnected, Transport
<1> HIDE DEF W
<1>4. call' \in SomeCalls /\ \A c \in Calls : c \notin W => call'[c] = call[c]
  BY <1>1, <1>2, ResentOf
<1>5. \A x \in Calls : call'[x] = call[x] \/ (call[x].at # "sent" /\ Active(call[x]))
  BY <1>2, <1>4
<1> QED
  BY <1>1, <1>3, <1>4, <1>5, Before, OnlyCalls

LEMMA ConfigPushedKeeps ==
    ASSUME Basic, NEW k, ConfigPushed(k)
    PROVE  Basic'
<1>1. Fault("config") /\ UpdateConfig /\ UNCHANGED <<mode, net, transport, db, call, owed, crashed>>
  BY DEF ConfigPushed
<1>2. servers' \in Servers /\ faults' \in Seq(FaultKinds)
  <2>1. faults \in Seq(FaultKinds) /\ servers \in Servers /\ "config" \in FaultKinds
    BY Before DEF FaultKinds
  <2> QED
    BY <1>1, <2>1, UpdateConfigType, FaultType
<1> QED
  BY <1>1, <1>2, Before, Onward

LEMMA ConnectingOf ==
    ASSUME NEW n \in Nets, \A k \in 1..Len(n.conns) : Neat(n.conns[k]), mode.pool \in BOOLEAN,
           NEW t \in Transport, Connecting(n, t)
    PROVE  /\ net' = Sent(n, LoginRequest) /\ net' \in Nets /\ Sheds(net', n)
           /\ transport' \in Transport /\ transport'.connecting = "pending" /\ transport'.login = Attempt(n)
           /\ transport'.session = t.session /\ transport'.auto = t.auto /\ transport'.retries = t.retries
<1>1. net' = Sent(n, LoginRequest)
  BY DEF Connecting, LoginRequest
<1>2. net' \in Nets /\ Picked(net') = Attempt(n) /\ Attempt(n) \in 1..Len(net'.conns)
  BY <1>1, SentOf, LoginRequestType
<1>3. Sheds(net', n)
  BY <1>1, LoginSheds
<1>4. transport' = [t EXCEPT !.connecting = "pending", !.login = Picked(net')]
  BY <1>1 DEF Connecting, LoginRequest
<1>5. Attempt(n) \in Nat
  BY <1>2, NetType
<1> QED
  BY <1>1, <1>2, <1>3, <1>4, <1>5 DEF Transport

LEMMA NoSessionType ==
    ASSUME Basic
    PROVE  NoSession \in Transport /\ NoSession.session = 0 /\ NoSession.connecting = "none"
           /\ NoSession.login = 0 /\ NoSession.auto = transport.auto /\ NoSession.retries = transport.retries
BY Before DEF NoSession, Transport

\* The network is reset, and there may be a login.
LEMMA ResetOrderly ==
    ASSUME Basic, NEW n \in Nets, Neatly(n), Sheds(n, net), NEW svs \in Servers,
           NEW cs \in SomeCalls, Placed(n, cs)
    PROVE  LET m == Reset(n, svs)
               o == Sent(m, LoginRequest)
               x == Dropped(cs, n) IN
           /\ m \in Nets /\ Sheds(m, net) /\ Placed(m, x) /\ \A k \in 1..Len(m.conns) : Neat(m.conns[k])
           /\ o \in Nets /\ Sheds(o, m) /\ Sheds(o, net) /\ Placed(o, x)
           /\ x \in SomeCalls
           /\ \A c \in Calls : x[c] = cs[c] \/ (Told(n, c) /\ cs[c].at = "sent" /\ ~Active(x[c]))
           /\ \A c \in Calls : Told(n, c) => /\ x[c].at = IF mode.pool THEN "stranded" ELSE "failed"
                                             /\ ~mode.pool => x[c].err = "cancelled"
           /\ \A c \in Calls : ~Told(n, c) => x[c] = cs[c]
           /\ \A c \in Calls : x[c].kind = cs[c].kind
<1> DEFINE m == Reset(n, svs)
           o == Sent(m, LoginRequest)
           x == Dropped(cs, n)
<1>1. mode.pool \in BOOLEAN /\ svs[1].host \in STRING
  BY Before, ServersType
<1>2. m \in Nets
  BY <1>1, ResetOf
<1>3. Sheds(m, n)
  BY <1>1, ResetSheds DEF Neatly
<1>4. /\ x \in SomeCalls /\ Placed(m, x)
      /\ \A c \in Calls : x[c] = cs[c] \/ (Told(n, c) /\ cs[c].at = "sent" /\ ~Active(x[c]))
      /\ \A c \in Calls : Told(n, c) => /\ x[c].at = IF mode.pool THEN "stranded" ELSE "failed"
                                        /\ ~mode.pool => x[c].err = "cancelled"
      /\ \A c \in Calls : ~Told(n, c) => x[c] = cs[c]
      /\ \A c \in Calls : x[c].kind = cs[c].kind
  BY <1>1, DroppedPlaced
<1> HIDE DEF m, x
<1>5. Sheds(m, net) /\ \A k \in 1..Len(m.conns) : Neat(m.conns[k])
  BY <1>3, ShedsAgain DEF Sheds
<1>6. o \in Nets /\ Sheds(o, m)
  BY <1>1, <1>2, <1>5, LoginSheds, SentOf, LoginRequestType
<1> HIDE DEF o
<1>7. Sheds(o, net) /\ Placed(o, x)
  BY <1>4, <1>5, <1>6, ShedsAgain, ShedsPlaced
<1> QED
  BY <1>2, <1>4, <1>5, <1>6, <1>7 DEF m, o, x

\* A call that changes its place among those that wait for nothing on a connection.
Put(cs, c, at, on) == [cs EXCEPT ![c].at = at, ![c].on = on]

LEMMA OneCall ==
    ASSUME NEW cs \in SomeCalls, NEW c \in Calls, NEW at \in AtRest \cup AtWork, cs[c].what # "none",
           NEW on \in Nat
    PROVE  LET x == Put(cs, c, at, on) IN
           /\ x \in SomeCalls /\ x[c].at = at /\ x[c].on = on /\ x[c].session = cs[c].session
           /\ x[c].kind = cs[c].kind /\ x[c].err = cs[c].err /\ x[c].what = cs[c].what
           /\ \A d \in Calls : d # c => x[d] = cs[d]
<1> DEFINE k == cs[c]
           y == [k EXCEPT !.at = at, !.on = on]
           x == [cs EXCEPT ![c].at = at, ![c].on = on]
<1>1. k \in SomeCall
  BY DEF SomeCalls
<1>2. y = [k EXCEPT !.at = at, !.session = k.session, !.on = on, !.err = k.err]
  BY <1>1 DEF SomeCall
<1>3. y \in SomeCall
  <2>1. k.session \in Nat /\ k.err \in Errors /\ (at \in AtWork => k.what # "none")
    BY <1>1, CallType
  <2> HIDE DEF y, k
  <2>2. [k EXCEPT !.at = at, !.session = k.session, !.on = on, !.err = k.err] \in SomeCall
    BY <1>1, <2>1, CallChange
  <2> QED
    BY <1>2, <2>2
<1>4. y.at = at /\ y.on = on /\ y.session = k.session /\ y.kind = k.kind /\ y.err = k.err /\ y.what = k.what
  BY <1>1 DEF SomeCall
<1>5. x = [cs EXCEPT ![c] = y] /\ x = Put(cs, c, at, on)
  BY DEF Put
<1> HIDE DEF y
<1>6. x \in SomeCalls /\ x[c] = y /\ \A d \in Calls : d # c => x[d] = cs[d]
  BY <1>3, <1>5 DEF SomeCalls
<1> HIDE DEF x
<1> QED
  BY <1>4, <1>5, <1>6

--------------------------------------------------------------------------------
(* The transport.                                                                *)

LEMMA RequestOfType ==
    ASSUME Basic, NEW c \in Calls, call[c].at = "ready", NEW s \in Nat
    PROVE  LET r == RequestOf(c, s) IN
           /\ r \in SomeRequest /\ r.who = c /\ r.what = call[c].what /\ r.session = s /\ r.reply = "none"
           /\ r.who # Login
<1>1. call[c].what \in {"op", "db-open", "db-close"} /\ c # Login
  BY BasicFacts, CallType, LoginIsNoCall DEF AtWork, Whats
<1> QED
  BY <1>1 DEF RequestOf, SomeRequest

\* What is sent for a call, and what becomes of the call.
LEMMA HandOf ==
    ASSUME Basic, NEW c \in Calls, call[c].at = "ready", NEW s \in Nat
    PROVE  LET r == RequestOf(c, s)
               x == Hand(call, net, r)
               b == Place(net, Attempt(net)).stage IN
           /\ x \in SomeCalls /\ \A d \in Calls : d # c => x[d] = call[d]
           /\ b = "broken" => x[c].at = "failed" /\ x[c].err = "thrown" /\ x[c].kind = call[c].kind
           /\ b = "open" /\ r.what = "db-close" => x[c].at = "resolved"
           /\ b # "broken" /\ ~(b = "open" /\ r.what = "db-close") =>
                 x[c].at = "sent" /\ x[c].what = call[c].what /\ x[c].session = call[c].session
                 /\ x[c].kind = call[c].kind
<1> DEFINE r == RequestOf(c, s)
           x == Hand(call, net, r)
           b == Place(net, Attempt(net)).stage
<1>1. r \in SomeRequest /\ r.who = c /\ r.what = call[c].what /\ r.reply = "none"
  BY RequestOfType
<1>2. call \in SomeCalls /\ call[c] \in SomeCall /\ call[c].what # "none"
  BY BasicFacts, CallType DEF AtWork
<1>3. Dip(net).conns[Picked(Dip(net))] = Place(net, Attempt(net))
  BY <1>1, BasicFacts, SentOf
<1>4. x = IF b = "broken" THEN Failing(call, {r.who}, "thrown")
          ELSE IF b = "open" /\ r.what = "db-close" THEN Moved(call, {r.who}, "resolved")
          ELSE [call EXCEPT ![r.who].at = "sent"]
  BY <1>3 DEF Hand
<1> HIDE DEF r, x, b
<1>5. CASE b = "broken"
  <2>1. x = Failing(call, {c}, "thrown") /\ "thrown" \in Errors
    BY <1>1, <1>4, <1>5 DEF Errors
  <2> QED
    BY <2>1, <1>2, <1>5, FailingOf DEF r, x, b
<1>6. CASE b = "open" /\ r.what = "db-close"
  <2>1. x = Moved(call, {c}, "resolved") /\ "resolved" \in AtRest \cup AtWork /\ "resolved" \notin AtWork
    BY <1>1, <1>4, <1>6 DEF AtRest, AtWork
  <2> QED
    BY <2>1, <1>2, <1>6, MovedOf DEF r, x, b
<1>7. CASE b # "broken" /\ ~(b = "open" /\ r.what = "db-close")
  <2>1. x = [call EXCEPT ![c].at = "sent"]
    BY <1>1, <1>4, <1>7
  <2>2. x = [call EXCEPT ![c].at = "sent", ![c].on = call[c].on]
    BY <2>1, <1>2 DEF SomeCall, SomeCalls
  <2>3. "sent" \in AtRest \cup AtWork /\ call[c].on \in Nat
    BY <1>2, CallType DEF AtWork
  <2> DEFINE on == call[c].on
             y == Put(call, c, "sent", on)
  <2>4. y \in SomeCalls /\ y[c].at = "sent" /\ y[c].session = call[c].session
        /\ y[c].kind = call[c].kind /\ y[c].what = call[c].what
        /\ \A d \in Calls : d # c => y[d] = call[d]
    <3> HIDE DEF on
    <3> QED
      BY <2>3, <1>2, OneCall DEF on
  <2>5. x = y
    BY <2>2 DEF Put
  <2> HIDE DEF y
  <2> QED
    BY <2>4, <2>5, <1>7 DEF r, x, b
<1> QED
  BY <1>5, <1>6, <1>7

LEMMA SentKeeps ==
    ASSUME Basic, NEW c \in Calls, call[c].at = "ready", NEW s \in Nat
    PROVE  LET r == RequestOf(c, s) IN Sent(net, r) \in Nets /\ Orderly(Sent(net, r), Hand(call, net, r), owed)
<1> DEFINE r == RequestOf(c, s)
           x == Hand(call, net, r)
           m == Sent(net, r)
           p == Attempt(net)
           o == Place(net, p)
<1>1. r \in SomeRequest /\ r.who = c /\ r.what = call[c].what /\ r.reply = "none" /\ r.who # Login
  BY RequestOfType
<1>2. /\ m \in Nets /\ p \in 1..Len(m.conns) /\ m.conns[p] = Offered(o, r)
      /\ \A k \in 1..Len(m.conns) : k # p => k \in Conns /\ m.conns[k] = net.conns[k]
  BY <1>1, BasicFacts, SentOf DEF Conns
<1>3. /\ o \in SomeConn /\ Neat(o)
      /\ \A e \in Entries(o) : p \in Conns /\ e \in Entries(net.conns[p])
  <2>1. CASE p \in Conns
    BY <2>1, BasicFacts DEF Place, Conns
  <2>2. CASE p \notin Conns
    BY <2>2, BasicFacts, NetType, NewConnectionType DEF Place, Conns
  <2> QED
    BY <2>1, <2>2
<1>4. \A e \in Entries(o) : e.who # r.who \/ e.who = Login
  BY <1>1, <1>3, Waiting
<1>5. /\ x \in SomeCalls /\ \A d \in Calls : d # c => x[d] = call[d]
      /\ o.stage = "broken" => x[c].at = "failed" /\ x[c].err = "thrown"
      /\ o.stage = "open" /\ r.what = "db-close" => x[c].at = "resolved"
      /\ o.stage # "broken" /\ ~(o.stage = "open" /\ r.what = "db-close") =>
            x[c].at = "sent" /\ x[c].what = call[c].what
  BY HandOf
<1> HIDE DEF r, x, m, p, o
<1>6. /\ Neat(m.conns[p]) /\ Entries(m.conns[p]) \subseteq Entries(o) \cup {r}
      /\ o.stage = "broken" => Entries(m.conns[p]) = Entries(o)
      /\ o.stage = "open" /\ r.what = "db-close" => Entries(m.conns[p]) = Entries(o)
  BY <1>1, <1>2, <1>3, <1>4, OfferedTo
<1>7. \A k \in 1..Len(m.conns) : Neat(m.conns[k])
  BY <1>2, <1>6, BasicFacts
<1>8. ASSUME NEW k \in 1..Len(m.conns), NEW e \in Entries(m.conns[k]), e.who # Login
      PROVE  \/ k = p /\ e = r /\ x[c].at = "sent"
             \/ k \in Conns /\ e \in Entries(net.conns[k])
  <2>1. CASE k # p
    BY <2>1, <1>2, <1>8
  <2>2. CASE k = p /\ e \in Entries(o)
    BY <2>2, <1>3
  <2>3. CASE k = p /\ e \notin Entries(o)
    BY <2>3, <1>5, <1>6, <1>8
  <2> QED
    BY <2>1, <2>2, <2>3
<1>9. Placed(m, x)
  <2>1. ASSUME NEW k \in 1..Len(m.conns), NEW e \in Entries(m.conns[k]), e.who # Login
        PROVE  x[e.who].at = "sent" /\ x[e.who].what = e.what
    <3>1. CASE k = p /\ e = r /\ x[c].at = "sent"
      BY <3>1, <1>1, <1>5
    <3>2. CASE k \in Conns /\ e \in Entries(net.conns[k])
      <4>1. e.who \in Calls /\ call[e.who].at = "sent" /\ call[e.who].what = e.what
        BY <3>2, <2>1, Waiting
      <4> QED
        BY <4>1, <1>5
    <3> QED
      BY <3>1, <3>2, <2>1, <1>8
  <2> QED
    BY <2>1 DEF Placed
<1>10. \A d \in Calls : owed[d] >= owed[d] /\ (Active(x[d]) => Pending(net, call, d))
  <2>1. ~Active(x[c])
    BY <1>5 DEF Active, Reconnectable
  <2> QED
    BY <2>1, <1>5, BasicFacts DEF Pending
<1>11. Orderly(m, x, owed)
  <2>1. Adds(m, p, r)
    BY <1>8 DEF Adds
  <2> QED
    <3>1. owed \in [Calls -> Int] /\ (r.who # Login => call[r.who].at = "ready")
      BY <1>1, BasicFacts
    <3> QED
      BY <1>1, <1>2, <1>5, <1>7, <1>9, <1>10, <2>1, <3>1, Keeps
<1> QED
  BY <1>2, <1>11 DEF m, r, x

LEMMA SendKeeps ==
    ASSUME Basic, NEW c \in Calls, Send(c)
    PROVE  Basic'
<1> DEFINE s == IF call[c].session # 0 THEN call[c].session ELSE transport.session
           r == RequestOf(c, s)
           again == transport.connecting = "rejected"
           n == IF again THEN Reset(net, servers) ELSE net
           cs == IF again THEN Dropped(call, net) ELSE call
<1>1. /\ call[c].at = "ready" /\ call[c] \in SomeCall /\ call \in SomeCalls /\ transport \in Transport /\ db \in Databases
      /\ UNCHANGED <<mode, servers, owed, crashed, faults>>
  BY BasicFacts, Before DEF Send, At
<1>2. s \in Nat /\ call[c].what # "none" /\ Active(call[c])
  BY <1>1, CallType DEF Transport, AtWork, Active
<1>3. db' \in Databases
  BY <1>1, DatabasesType DEF Send
<1>4. CASE s # 0 \/ mode.skip
  <2>1. net' = Sent(net, r) /\ call' = Hand(call, net, r) /\ UNCHANGED transport
    BY <1>4 DEF Send
  <2>2. net' \in Nets /\ Orderly(net', call', owed) /\ call' \in SomeCalls
    BY <1>1, <1>2, <2>1, SentKeeps, HandOf
  <2> QED
    BY <1>1, <1>3, <2>1, <2>2, Before, Onward
<1>5. CASE s = 0 /\ ~mode.skip /\ transport.connecting = "pending"
  <2>1. call' = Put(call, c, "login", transport.login) /\ UNCHANGED <<net, transport>>
    BY <1>5 DEF Send, Put
  <2>2. "login" \in AtRest \cup AtWork /\ transport.login \in Nat
    BY <1>1 DEF AtWork, Transport
  <2>3. call' \in SomeCalls /\ \A d \in Calls : d # c => call'[d] = call[d]
    BY <1>1, <1>2, <2>1, <2>2, OneCall
  <2>4. \A x \in Calls : call'[x] = call[x] \/ (call[x].at # "sent" /\ Active(call[x]))
    BY <1>1, <1>2, <2>3
  <2> QED
    BY <1>1, <1>3, <2>1, <2>3, <2>4, Before, OnlyCalls
<1>6. CASE s = 0 /\ ~mode.skip /\ transport.connecting # "pending"
  <2>1. /\ Connecting(n, IF again THEN NoSession ELSE transport)
        /\ call' = Put(cs, c, "login", Attempt(n))
    BY <1>6 DEF Send, Put
  <2>2. /\ n \in Nets /\ Sheds(n, net) /\ \A k \in 1..Len(n.conns) : Neat(n.conns[k])
        /\ Placed(n, cs) /\ cs \in SomeCalls
        /\ \A d \in Calls : cs[d] = call[d] \/ (call[d].at = "sent" /\ ~Active(cs[d]))
    <3>1. CASE again
      BY <3>1, BasicFacts, Before, ResetOrderly
    <3>2. CASE ~again
      BY <3>2, BasicFacts DEF Conns
    <3> QED
      BY <3>1, <3>2
  <2>3. (IF again THEN NoSession ELSE transport) \in Transport /\ mode.pool \in BOOLEAN
    BY <1>1, NoSessionType, Before
  <2> HIDE DEF n, cs, again
  <2>4. net' \in Nets /\ Sheds(net', n) /\ transport' \in Transport /\ transport'.login = Attempt(n)
    BY <2>1, <2>2, <2>3, ConnectingOf
  <2>5. cs[c] = call[c] /\ Attempt(n) \in Nat /\ "login" \in AtRest \cup AtWork
    BY <1>1, <2>2, <2>4 DEF AtWork, Transport
  <2>6. call' \in SomeCalls /\ call'[c].at = "login" /\ \A d \in Calls : d # c => call'[d] = cs[d]
    BY <1>2, <2>1, <2>2, <2>5, OneCall
  <2>7. Sheds(net', net)
    BY <2>2, <2>4, ShedsAgain
  <2>8. ASSUME NEW k \in 1..Len(net'.conns), NEW e \in Entries(net'.conns[k]), e.who # Login
        PROVE  call'[e.who].at = "sent" /\ call'[e.who].what = e.what
    <3>1. k \in 1..Len(n.conns) /\ e \in Entries(n.conns[k]) /\ k \in Conns /\ e \in Entries(net.conns[k])
      BY <2>4, <2>7, <2>8 DEF Sheds, Conns
    <3>2. e.who \in Calls /\ call[e.who].at = "sent" /\ cs[e.who].at = "sent" /\ cs[e.who].what = e.what
      BY <3>1, <2>2, <2>8, Waiting DEF Placed
    <3> QED
      BY <3>2, <1>1, <2>6
  <2>9. Placed(net', call')
    BY <2>8 DEF Placed
  <2>10. \A d \in Calls : owed[d] >= owed[d] /\ (Active(call'[d]) => Pending(net, call, d))
    <3>1. ASSUME NEW d \in Calls, Active(call'[d]) PROVE Active(call[d])
      BY <3>1, <1>1, <1>2, <2>2, <2>6
    <3> QED
      BY <3>1, BasicFacts DEF Pending
  <2>11. Orderly(net', call', owed)
    BY <2>4, <2>6, <2>7, <2>9, <2>10, BasicFacts, KeepsLess
  <2> QED
    BY <1>1, <1>3, <2>4, <2>6, <2>11, Before, Onward
<1> QED
  BY <1>4, <1>5, <1>6

LEMMA PlacedSame ==
    ASSUME NEW m \in Nets, NEW x, NEW y, Placed(m, x),
           \A c \in Calls : x[c].at = "sent" => y[c].at = "sent" /\ y[c].what = x[c].what
    PROVE  Placed(m, y)
<1>1. ASSUME NEW k \in 1..Len(m.conns), NEW e \in Entries(m.conns[k]), e.who # Login
      PROVE  y[e.who].at = "sent" /\ y[e.who].what = e.what
  <2>1. e \in SomeRequest
    BY NetType, EntriesOf
  <2>2. e.who \in Calls
    BY <2>1, <1>1, RequestType
  <2> QED
    BY <2>2, <1>1 DEF Placed
<1> QED
  BY <1>1 DEF Placed

\* The net loses requests only, and no call is revived.
LEMMA Losing ==
    ASSUME Basic, UNCHANGED <<mode, owed>>, servers' \in Servers, net' \in Nets, transport' \in Transport,
           db' \in Databases, call' \in SomeCalls, crashed' \in BOOLEAN, faults' \in Seq(FaultKinds),
           Sheds(net', net), Placed(net', call'),
           \A c \in Calls : Active(call'[c]) => Active(call[c])
    PROVE  Basic'
<1>1. \A c \in Calls : owed[c] >= owed[c] /\ (Active(call'[c]) => Pending(net, call, c) \/ owed[c] > owed[c])
  BY BasicFacts DEF Pending
<1>2. owed \in [Calls -> Int]
  BY Before
<1>3. Orderly(net', call', owed)
  BY <1>1, <1>2, KeepsLess
<1> QED
  BY <1>2, <1>3, Onward

\* A call that is cut off with those that share its fate.
LEMMA SettledKeeps ==
    ASSUME Basic, NEW c \in Calls, call[c].at = "failed", NEW at \in {"rejected", "stranded"}
    PROVE  /\ Settled(call, c, at) \in SomeCalls
           /\ \A d \in Calls : \/ Settled(call, c, at)[d] = call[d]
                               \/ call[d].at # "sent" /\ ~Active(Settled(call, c, at)[d])
<1>1. PICK W : /\ Settled(call, c, at) = Moved(call, W, at)
               /\ W \subseteq {c} \cup {x \in Calls : At(x, {"opening"})}
  BY SettledOf
<1>2. at \in AtRest \cup AtWork /\ at \notin AtWork /\ call \in SomeCalls
  BY Before DEF AtRest, AtWork
<1> DEFINE x == Moved(call, W, at)
<1>3. x \in SomeCalls /\ \A d \in Calls : /\ d \notin W => x[d] = call[d]
                                          /\ d \in W => x[d].at = at
  BY <1>2, MovedOf
<1> HIDE DEF x
<1>4. \A d \in W : call[d].at # "sent"
  BY <1>1 DEF At
<1> QED
  BY <1>1, <1>3, <1>4 DEF x, Active

LEMMA AutoReconnectAndSendKeeps ==
    ASSUME Basic, NEW c \in Calls, AutoReconnectAndSend(c)
    PROVE  Basic'
<1>1. /\ call[c].at = "failed" /\ call[c] \in SomeCall /\ call \in SomeCalls /\ transport \in Transport
      /\ db \in Databases /\ servers \in Servers /\ call[c].what # "none"
      /\ UNCHANGED <<mode, owed, crashed, faults>>
  BY BasicFacts, Before, CallType DEF AutoReconnectAndSend, At, AtWork
<1>2. ASSUME NEW at \in {"rejected", "stranded"}, call' = Settled(call, c, at),
             db' \in {db, OpeningFails(c)}, servers' \in Servers, UNCHANGED <<net, transport>>
      PROVE  Basic'
  <2>1. call' \in SomeCalls
        /\ \A d \in Calls : call'[d] = call[d] \/ (call[d].at # "sent" /\ ~Active(call'[d]))
    BY <1>1, <1>2, SettledKeeps
  <2>2. db' \in Databases
    BY <1>1, <1>2, OpeningFailsType
  <2> QED
    BY <1>1, <1>2, <2>1, <2>2, OnlyCalls
<1>3. CASE call[c].err \notin Reconnectable
  BY <1>1, <1>2, <1>3 DEF AutoReconnectAndSend
<1>4. CASE call[c].err \in Reconnectable /\ transport.auto # 0
  <2>1. UNCHANGED <<servers, net, transport>> /\ Active(call[c])
    BY <1>1, <1>4 DEF AutoReconnectAndSend, Active
  <2>2. \/ call' = Put(call, c, "auto", transport.login) /\ db' = db
        \/ call' = Resent(call, {c}) /\ db' = db
        \/ call' = Settled(call, c, "rejected") /\ db' = OpeningFails(c)
        \/ call' = Settled(call, c, "stranded") /\ db' = db
    BY <1>4 DEF AutoReconnectAndSend, Put
  <2>3. ASSUME call' \in SomeCalls, \A d \in Calls : d # c => call'[d] = call[d], db' = db PROVE Basic'
    <3>1. \A d \in Calls : call'[d] = call[d] \/ (call[d].at # "sent" /\ Active(call[d]))
      BY <1>1, <2>1, <2>3
    <3> QED
      BY <1>1, <2>1, <2>3, <3>1, OnlyCalls
  <2>4. CASE call' = Put(call, c, "auto", transport.login) /\ db' = db
    <3>1. "auto" \in AtRest \cup AtWork /\ transport.login \in Nat
      BY <1>1 DEF AtWork, Transport
    <3>2. call' \in SomeCalls /\ \A d \in Calls : d # c => call'[d] = call[d]
      BY <1>1, <2>4, <3>1, OneCall
    <3> QED
      BY <2>3, <2>4, <3>2
  <2>5. CASE call' = Resent(call, {c}) /\ db' = db
    <3>1. call' \in SomeCalls /\ \A d \in Calls : d \notin {c} => call'[d] = call[d]
      BY <1>1, <2>5, ResentOf
    <3> QED
      BY <2>3, <2>5, <3>1
  <2> QED
    BY <1>1, <1>2, <2>1, <2>2, <2>4, <2>5
<1>5. CASE call[c].err \in Reconnectable /\ transport.auto = 0
  <2>1. servers' = ShiftServer /\ servers' \in Servers
    BY <1>1, <1>5, ShiftServerType DEF AutoReconnectAndSend
  <2>2. CASE ~ServerLeft
    <3>1. call' = Settled(call, c, "rejected") /\ db' = OpeningFails(c) /\ UNCHANGED <<net, transport>>
      BY <1>5, <2>2 DEF AutoReconnectAndSend
    <3> QED
      BY <1>2, <2>1, <3>1
  <2>3. CASE ServerLeft
    <3> DEFINE n == Reset(net, servers')
               x == Dropped(call, net)
               on == IF mode.skip THEN 0 ELSE Attempt(n)
    <3>1. /\ call' = Put(x, c, "auto", on) /\ db' = [db EXCEPT !.session = 0]
          /\ IF mode.skip
             THEN net' = n /\ transport' = [NoSession EXCEPT !.auto = 1]
             ELSE Connecting(n, [NoSession EXCEPT !.auto = on])
      BY <1>5, <2>3 DEF AutoReconnectAndSend, Put
    <3>2. /\ n \in Nets /\ Sheds(n, net) /\ Placed(n, x) /\ x \in SomeCalls
          /\ \A k \in 1..Len(n.conns) : Neat(n.conns[k])
          /\ \A d \in Calls : x[d] = call[d] \/ (call[d].at = "sent" /\ ~Active(x[d]))
      BY <2>1, BasicFacts, ResetOrderly
    <3> HIDE DEF n, x
    <3>3. on \in Nat
      <4>1. CASE mode.skip
        BY <4>1
      <4>2. CASE ~mode.skip
        <5>1. Attempt(n) \in 1..Len(Sent(n, LoginRequest).conns)
          BY <3>2, Before, SentOf, LoginRequestType
        <5> QED
          BY <4>2, <5>1
      <4> QED
        BY <4>1, <4>2
    <3>4. net' \in Nets /\ Sheds(net', n) /\ transport' \in Transport
      <4>1. NoSession \in Transport /\ [NoSession EXCEPT !.auto = on] \in Transport
            /\ [NoSession EXCEPT !.auto = 1] \in Transport /\ mode.pool \in BOOLEAN
        BY <3>3, NoSessionType, Before DEF Transport
      <4>2. CASE mode.skip
        BY <3>1, <3>2, <4>1, <4>2 DEF Sheds
      <4>3. CASE ~mode.skip
        BY <3>1, <3>2, <4>1, <4>3, ConnectingOf
      <4> QED
        BY <4>2, <4>3
    <3>5. x[c] = call[c] /\ "auto" \in AtRest \cup AtWork
      BY <1>1, <3>2 DEF AtWork
    <3> HIDE DEF on
    <3>6. call' \in SomeCalls /\ \A d \in Calls : d # c => call'[d] = x[d]
      BY <1>1, <3>1, <3>2, <3>3, <3>5, OneCall
    <3>7. Placed(net', x) /\ Sheds(net', net)
      BY <3>2, <3>4, ShedsPlaced, ShedsAgain
    <3>8. Placed(net', call')
      <4>1. \A d \in Calls : x[d].at = "sent" => call'[d] = x[d]
        BY <1>1, <3>5, <3>6
      <4> QED
        BY <3>4, <3>7, <4>1, PlacedSame
    <3>9. Active(call[c])
      BY <1>1, <1>5 DEF Active
    <3>10. \A d \in Calls : Active(call'[d]) => Active(call[d])
      BY <3>2, <3>6, <3>9
    <3>11. db' \in Databases
      BY <1>1, <3>1, DatabasesType
    <3> QED
      BY <1>1, <2>1, <3>4, <3>6, <3>7, <3>8, <3>10, <3>11, Before, Losing
  <2> QED
    BY <2>2, <2>3
<1> QED
  BY <1>3, <1>4, <1>5

\* The flag of a login is lowered.
LEMMA Lowered ==
    ASSUME Basic, NEW k \in Conns
    PROVE  LET n == [net EXCEPT !.conns[k].login = "none"] IN
           /\ n \in Nets /\ Neatly(n) /\ Sheds(n, net) /\ Lent(n) = Lent(net) /\ Len(n.conns) = Len(net.conns)
           /\ \A j \in Conns : j # k => n.conns[j] = net.conns[j]
           /\ n.conns[k] = [net.conns[k] EXCEPT !.login = "none"]
           /\ \A j \in Conns : n.conns[j].queue = net.conns[j].queue /\ n.conns[j].waiting = net.conns[j].waiting
           /\ \A cs : Placed(net, cs) => Placed(n, cs)
<1> DEFINE conn == net.conns[k]
           o == [conn EXCEPT !.login = "none"]
           n == [net EXCEPT !.conns[k] = o]
<1>1. conn \in SomeConn /\ net \in Nets /\ k \in 1..Len(net.conns)
  BY BasicFacts DEF Conns
<1>2. "none" \in Flags
  BY DEF Flags, Errors
<1>3. o \in SomeConn /\ o.queue = conn.queue /\ o.waiting = conn.waiting
  BY <1>1, <1>2 DEF SomeConn
<1> HIDE DEF o
<1>4. /\ n \in Nets /\ Len(n.conns) = Len(net.conns) /\ n.conns[k] = o
      /\ \A j \in 1..Len(net.conns) : j # k => n.conns[j] = net.conns[j]
      /\ Lent(n) = Lent(net)
  BY <1>1, <1>3, ChangedNet
<1>5. [net EXCEPT !.conns[k].login = "none"] = n
  BY <1>1 DEF o, Nets, Net
<1> HIDE DEF n
<1>6. /\ Entries(o) = Entries(conn) /\ Bound(o) = Bound(conn) /\ (Neat(conn) => Neat(o))
  BY <1>3, NeatOf
<1>7. \A j \in Conns : /\ Entries(n.conns[j]) = Entries(net.conns[j]) /\ Bound(n.conns[j]) = Bound(net.conns[j])
                       /\ Neat(n.conns[j])
                       /\ n.conns[j].queue = net.conns[j].queue /\ n.conns[j].waiting = net.conns[j].waiting
  BY <1>3, <1>4, <1>6, BasicFacts DEF Conns
<1>8. Neatly(n) /\ Sheds(n, net)
  BY <1>4, <1>7, BasicFacts DEF Neatly, Sheds, Conns
<1>9. \A cs : Placed(net, cs) => Placed(n, cs)
  BY <1>8, ShedsPlaced
<1> HIDE DEF conn
<1> QED
  BY <1>4, <1>5, <1>7, <1>8, <1>9 DEF o, conn, Conns

LEMMA LoginFailsKeeps ==
    ASSUME Basic, NEW k \in Conns, LoginFails(k)
    PROVE  Basic'
<1> DEFINE n0 == [net EXCEPT !.conns[k].login = "none"]
           err == net.conns[k].login
           W == Waiters(k)
<1>1. /\ call \in SomeCalls /\ transport \in Transport /\ db \in Databases /\ servers \in Servers
      /\ UNCHANGED <<mode, owed, crashed, faults>> /\ servers' \in Servers
  BY Before, ShiftServerType DEF LoginFails
<1>2. n0 \in Nets /\ Neatly(n0) /\ Sheds(n0, net) /\ Placed(n0, call)
  BY BasicFacts, Lowered
<1>3. \A c \in W : c \in Calls /\ call[c].at \in {"login", "auto"} /\ call[c].what # "none" /\ Active(call[c])
  BY BasicFacts, CallType DEF Waiters, At, AtWork, Active
<1>4. CASE err = "refused" /\ ServerLeft
  <2> DEFINE n == Reset(n0, servers')
             x == Dropped(call, net)
             x0 == Dropped(call, n0)
             on == Attempt(n)
             t == [NoSession EXCEPT !.auto = IF NoSession.auto = k THEN on ELSE NoSession.auto]
  <2>1. /\ Connecting(n, t) /\ db' = [db EXCEPT !.session = 0]
        /\ call' = [c \in Calls |-> IF c \in W THEN [call[c] EXCEPT !.on = on] ELSE x[c]]
    BY <1>4 DEF LoginFails
  <2>2. /\ n \in Nets /\ Sheds(n, net) /\ Placed(n, x0) /\ x0 \in SomeCalls
        /\ \A j \in 1..Len(n.conns) : Neat(n.conns[j])
        /\ \A d \in Calls : x0[d] = call[d] \/ (call[d].at = "sent" /\ ~Active(x0[d]))
    BY <1>1, <1>2, ResetOrderly
  <2>3. x = x0
    <3>1. \A j \in Lent(net) : /\ n0.conns[j].queue = net.conns[j].queue
                               /\ n0.conns[j].waiting = net.conns[j].waiting
      BY BasicFacts, Lowered
    <3>2. n0.current = net.current
      BY Before DEF Nets, Net
    <3>3. \A i \in 1..Len(net.current) : net.current[i] \in Lent(net)
      BY DEF Lent
    <3> DEFINE I == 1..Len(net.current)
               wait(m) == UNION {Callers(conn.waiting) : conn \in InUse(m)}
               queued(m) == UNION {Callers(conn.queue) : conn \in InUse(m)}
    <3>4. \A i \in I : /\ n0.conns[n0.current[i]].waiting = net.conns[net.current[i]].waiting
                       /\ n0.conns[n0.current[i]].queue = net.conns[net.current[i]].queue
      BY <3>1, <3>2, <3>3
    <3>5. InUse(n0) = {n0.conns[n0.current[i]] : i \in I} /\ InUse(net) = {net.conns[net.current[i]] : i \in I}
      BY <3>2 DEF InUse
    <3> HIDE DEF I, n0
    <3>6. \A c : (c \in wait(n0) <=> \E i \in I : c \in Callers(n0.conns[n0.current[i]].waiting))
              /\ (c \in queued(n0) <=> \E i \in I : c \in Callers(n0.conns[n0.current[i]].queue))
      BY <3>5
    <3>7. \A c : (c \in wait(net) <=> \E i \in I : c \in Callers(net.conns[net.current[i]].waiting))
              /\ (c \in queued(net) <=> \E i \in I : c \in Callers(net.conns[net.current[i]].queue))
      BY <3>5
    <3>8. wait(n0) = wait(net) /\ queued(n0) = queued(net)
      <4>1. \A c : (c \in wait(n0) <=> c \in wait(net)) /\ (c \in queued(n0) <=> c \in queued(net))
        BY <3>4, <3>6, <3>7
      <4> HIDE DEF wait, queued
      <4> QED
        BY <4>1
    <3> QED
      BY <3>8 DEF Dropped
  <2> HIDE DEF n, x, x0
  <2>4. on \in Nat /\ mode.pool \in BOOLEAN
    <3>1. on \in 1..Len(Sent(n, LoginRequest).conns)
      BY <2>2, Before, SentOf, LoginRequestType
    <3> QED
      BY <3>1, Before
  <2>5. t \in Transport
    BY <2>4, NoSessionType DEF Transport
  <2> HIDE DEF on, t
  <2>6. net' \in Nets /\ Sheds(net', n) /\ transport' \in Transport
    BY <2>1, <2>2, <2>4, <2>5, ConnectingOf
  <2>7. ASSUME NEW c \in Calls
        PROVE  /\ call'[c] \in SomeCall
               /\ x[c].at = "sent" => call'[c] = x[c]
               /\ Active(call'[c]) => Active(call[c])
    <3>1. CASE c \in W
      <4>1. call'[c] = [call[c] EXCEPT !.on = on] /\ call[c] \in SomeCall
        BY <2>1, <3>1, BasicFacts
      <4>2. call'[c] = [call[c] EXCEPT !.at = call[c].at, !.session = call[c].session, !.on = on, !.err = call[c].err]
        BY <4>1 DEF SomeCall
      <4>3. call[c].session \in Nat /\ call[c].err \in Errors /\ call[c].at \in AtRest \cup AtWork
        BY <4>1, CallType
      <4>4. [call[c] EXCEPT !.at = call[c].at, !.session = call[c].session, !.on = on, !.err = call[c].err] \in SomeCall
        BY <1>3, <2>4, <3>1, <4>1, <4>3, CallChange
      <4> QED
        BY <1>3, <2>2, <2>3, <3>1, <4>2, <4>4
    <3>2. CASE c \notin W
      <4>1. call'[c] = x[c] /\ x[c] \in SomeCall
        BY <2>1, <2>2, <2>3, <3>2 DEF SomeCalls
      <4> QED
        BY <4>1, <2>2, <2>3
    <3> QED
      BY <3>1, <3>2
  <2>8. call' \in SomeCalls
    <3>1. call' = [c \in Calls |-> call'[c]]
      BY <2>1
    <3> QED
      BY <3>1, <2>7 DEF SomeCalls
  <2>9. Placed(net', call') /\ Sheds(net', net)
    <3>1. Placed(net', x) /\ Sheds(net', net)
      BY <2>2, <2>3, <2>6, ShedsPlaced, ShedsAgain
    <3> QED
      BY <2>6, <2>7, <3>1, PlacedSame
  <2>10. db' \in Databases
    BY <1>1, <2>1, DatabasesType
  <2> QED
    BY <1>1, <2>6, <2>7, <2>8, <2>9, <2>10, Before, Losing
<1>5. CASE ~(err = "refused" /\ ServerLeft)
  <2>1. /\ net' = n0 /\ call' = Moved(call, W, "rejected") /\ db' = db
        /\ transport' = IF transport.login = k THEN [transport EXCEPT !.connecting = "rejected"] ELSE transport
    BY <1>5 DEF LoginFails
  <2>2. transport' \in Transport /\ "rejected" \in AtRest \cup AtWork /\ "rejected" \notin AtWork
    BY <1>1, <2>1 DEF Transport, AtRest, AtWork
  <2> HIDE DEF W, n0
  <2>3. call' \in SomeCalls /\ \A d \in Calls : /\ d \notin W => call'[d] = call[d]
                                                /\ d \in W => call'[d].at = "rejected"
    BY <1>1, <2>1, <2>2, MovedOf
  <2>4. Placed(net', call')
    <3>1. \A d \in Calls : call[d].at = "sent" => call'[d] = call[d]
      BY <1>3, <2>3
    <3> QED
      BY <1>2, <2>1, <3>1, PlacedSame
  <2>5. \A d \in Calls : Active(call'[d]) => Active(call[d])
    BY <2>3 DEF Active
  <2> QED
    BY <1>1, <1>2, <2>1, <2>2, <2>3, <2>4, <2>5, Before, Losing
<1> QED
  BY <1>4, <1>5

--------------------------------------------------------------------------------
(* Sockets and servers.                                                          *)

\* A connection loses requests, and only their callers are told.
LEMMA Removing ==
    ASSUME Basic, NEW k \in Conns, NEW o, Less(o, net.conns[k]), NEW cs,
           \A c \in Calls : \/ cs[c] = call[c]
                            \/ call[c].at # "sent"
                            \/ c \in Bound(net.conns[k]) /\ c \notin Bound(o)
    PROVE  LET n == [net EXCEPT !.conns[k] = o] IN
           /\ n \in Nets /\ Sheds(n, net) /\ Neatly(n) /\ Placed(n, cs) /\ Lent(n) = Lent(net)
           /\ Len(n.conns) = Len(net.conns) /\ n.conns[k] = o
           /\ \A j \in Conns : j # k => n.conns[j] = net.conns[j]
<1> DEFINE conn == net.conns[k]
           n == [net EXCEPT !.conns[k] = o]
<1>1. conn \in SomeConn /\ Neat(conn) /\ net \in Nets /\ k \in 1..Len(net.conns) /\ Neatly(net)
  BY BasicFacts DEF Conns
<1>2. o \in SomeConn /\ Entries(o) \subseteq Entries(conn) /\ Neat(o)
  BY <1>1 DEF Less
<1>3. /\ n \in Nets /\ Len(n.conns) = Len(net.conns) /\ n.conns[k] = o
      /\ \A j \in 1..Len(net.conns) : j # k => n.conns[j] = net.conns[j]
      /\ Lent(n) = Lent(net)
  BY <1>1, <1>2, ChangedNet
<1> HIDE DEF n
<1>4. Bound(o) \subseteq Bound(conn)
  <2>1. \A c \in Bound(o) : \E e \in Entries(o) : e.who = c
    BY <1>2, EntriesOf
  <2>2. \A c \in Bound(o) : c # Login
    BY <1>2, EntriesOf, LoginIsNoCall
  <2>3. \A e \in Entries(conn) : e.who # Login => e.who \in Bound(conn)
    BY <1>1, EntriesOf
  <2> QED
    BY <1>2, <2>1, <2>2, <2>3
<1>5. \A j \in 1..Len(net.conns) : /\ Entries(n.conns[j]) \subseteq Entries(net.conns[j])
                                   /\ Bound(n.conns[j]) \subseteq Bound(net.conns[j])
                                   /\ Neat(n.conns[j])
  BY <1>1, <1>2, <1>3, <1>4 DEF Neatly
<1>6. Neatly(n) /\ Sheds(n, net)
  <2>1. \A i, j \in 1..Len(n.conns) : i # j => Bound(n.conns[i]) \cap Bound(n.conns[j]) = {}
    BY <1>1, <1>3, <1>5 DEF Neatly
  <2> QED
    BY <1>3, <1>5, <2>1 DEF Neatly, Sheds
<1>7. ASSUME NEW j \in 1..Len(n.conns), NEW e \in Entries(n.conns[j]), e.who # Login
      PROVE  cs[e.who].at = "sent" /\ cs[e.who].what = e.what
  <2>1. j \in Conns /\ e \in Entries(net.conns[j])
    BY <1>3, <1>5 DEF Conns
  <2>2. e.who \in Calls /\ call[e.who].at = "sent" /\ call[e.who].what = e.what
    BY <1>7, <2>1, Waiting
  <2>3. e.who \in Bound(n.conns[j]) /\ e.who \in Bound(net.conns[j])
    BY <1>3, <1>5, <1>7, EntriesOf, NetType
  <2>4. ~(e.who \in Bound(conn) /\ e.who \notin Bound(o))
    <3>1. CASE j = k
      BY <2>3, <1>3, <3>1
    <3>2. CASE j # k
      BY <2>1, <2>3, <1>1, <3>2 DEF Neatly, Conns
    <3> QED
      BY <3>1, <3>2
  <2> QED
    BY <2>2, <2>4
<1>8. Placed(n, cs)
  BY <1>7 DEF Placed
<1> HIDE DEF conn
<1> QED
  BY <1>3, <1>6, <1>8 DEF n, Conns

LEMMA ConnectedKeeps ==
    ASSUME Basic, NEW k \in Conns, Connected(k)
    PROVE  Basic'
<1> DEFINE conn == net.conns[k]
           open == [conn EXCEPT !.stage = "open", !.waiting = <<>>]
           o == Written(open, conn.waiting)
           closers == {conn.waiting[i].who : i \in {j \in 1..Len(conn.waiting) : conn.waiting[j].what = "db-close"}}
<1>1. /\ net' = [net EXCEPT !.conns[k] = o] /\ call' = Moved(call, closers, "resolved")
      /\ db' = IF closers = {} THEN db ELSE [db EXCEPT !.session = 0]
      /\ UNCHANGED <<mode, servers, transport, owed, crashed, faults>>
  BY DEF Connected
<1>2. conn \in SomeConn /\ Neat(conn) /\ conn.waiting \in Requests /\ conn.queue \in Requests
  BY BasicFacts, ConnType
<1>3. open \in SomeConn /\ open.queue = conn.queue /\ open.waiting = <<>>
  BY <1>2, NoRequests DEF SomeConn, Stages
<1>4. \A c : c \in closers <=> \E e \in Members(conn.waiting) : e.what = "db-close" /\ e.who = c
  BY DEF Members
<1> HIDE DEF open, closers
<1>5. /\ o \in SomeConn /\ o.waiting = <<>>
      /\ Members(o.queue) = Members(conn.queue) \cup {e \in Members(conn.waiting) : e.what # "db-close"}
      /\ Once(o.queue)
  <2>1. Once(open.queue) /\ Once(conn.waiting) /\ Callers(open.queue) \cap Callers(conn.waiting) = {}
    BY <1>2, <1>3 DEF Neat
  <2> HIDE DEF conn
  <2> DEFINE ws == conn.waiting
  <2>2. ws \in Requests
    BY <1>2
  <2> HIDE DEF ws
  <2>3. /\ Written(open, ws) \in SomeConn /\ Written(open, ws).waiting = open.waiting
        /\ Members(Written(open, ws).queue) = Members(open.queue) \cup {e \in Members(ws) : e.what # "db-close"}
        /\ Once(open.queue) /\ Once(ws) /\ Callers(open.queue) \cap Callers(ws) = {} => Once(Written(open, ws).queue)
    BY <1>3, <2>2, WrittenOf
  <2> QED
    BY <1>3, <2>1, <2>3 DEF ws
<1> HIDE DEF o
<1>6. Entries(o) \subseteq Entries(conn) /\ Neat(o)
  BY <1>5, NoRequests DEF Entries, Neat
<1>7. Less(o, conn)
  BY <1>5, <1>6 DEF Less
<1>8. ASSUME NEW c \in closers PROVE c \in Calls /\ c \in Bound(conn) /\ c \notin Bound(o)
  <2>1. PICK f \in Members(conn.waiting) : f.what = "db-close" /\ f.who = c
    BY <1>4
  <2>2. f \in Entries(conn) /\ f.who # Login
    <3>1. f \in SomeRequest
      BY <1>2, CallersOf
    <3> QED
      BY <2>1, <3>1, RequestType DEF Entries
  <2>3. c \in Calls /\ c \in Bound(conn) /\ c \in Callers(conn.waiting)
    <3>1. c \in Callers(conn.waiting)
      BY <1>2, <2>1, <2>2, CallersOf
    <3> QED
      BY <3>1, <1>2, CallersOf DEF Bound
  <2>4. ASSUME c \in Bound(o) PROVE FALSE
    <3>1. c \in Callers(o.queue)
      BY <2>4, <1>5, NoRequests DEF Bound
    <3>2. o.queue \in Requests
      BY <1>5, ConnType
    <3>3. PICK e \in Members(o.queue) : e.who = c
      BY <3>1, <3>2, CallersOf
    <3>4. e \in Entries(conn)
      BY <1>6 DEF Entries
    <3>5. e = f
      BY <2>1, <2>2, <3>3, <3>4, <1>2, EntriesOf
    <3>6. e \in Members(conn.queue)
      BY <1>5, <2>1, <3>5
    <3>7. c \in Callers(conn.queue)
      BY <1>2, <2>1, <2>2, <3>5, <3>6, CallersOf
    <3> QED
      BY <2>3, <3>7, <1>2 DEF Neat
  <2> QED
    BY <2>3, <2>4
<1>9. "resolved" \in AtRest \cup AtWork /\ "resolved" \notin AtWork
  BY DEF AtRest, AtWork
<1>10. /\ call' \in SomeCalls
       /\ \A c \in Calls : c \notin closers => call'[c] = call[c]
       /\ \A c \in Calls : c \in closers => call'[c].at = "resolved"
  BY <1>1, <1>9, Before, MovedOf
<1>11. net' \in Nets /\ Sheds(net', net) /\ Placed(net', call')
  <2> DEFINE cs == call'
  <2>1. \A c \in Calls : cs[c] = call[c] \/ (c \in Bound(conn) /\ c \notin Bound(o))
    BY <1>8, <1>10
  <2> HIDE DEF cs
  <2>2. [net EXCEPT !.conns[k] = o] \in Nets /\ Sheds([net EXCEPT !.conns[k] = o], net)
        /\ Placed([net EXCEPT !.conns[k] = o], cs)
    BY <1>7, <2>1, Removing
  <2> QED
    BY <1>1, <2>2 DEF cs
<1>12. db' \in Databases
  <2>1. db \in Databases
    BY Before
  <2> QED
    BY <1>1, <2>1, DatabasesType
<1>13. \A c \in Calls : Active(call'[c]) => Active(call[c])
  BY <1>10 DEF Active
<1> QED
  BY <1>1, <1>10, <1>11, <1>12, <1>13, Before, Losing

\* Those whose requests are lost may still be executed, or were written.
LEMMA Lost ==
    ASSUME Basic, NEW k \in Conns
    PROVE  /\ \A c \in Callers(net.conns[k].waiting) : Pending(net, call, c)
           /\ \A c \in Callers(net.conns[k].queue) :
                 Pending(net, call, c) \/ c \in Operations(net.conns[k].queue)
<1> DEFINE conn == net.conns[k]
<1>1. conn \in SomeConn /\ Neat(conn) /\ conn.queue \in Requests /\ conn.waiting \in Requests
      /\ k \in 1..Len(net.conns)
  BY BasicFacts, ConnType DEF Conns
<1>2. ASSUME NEW c \in Callers(conn.waiting) PROVE Pending(net, call, c)
  <2>1. PICK e \in Members(conn.waiting) : e.who = c
    BY <1>1, CallersOf
  <2>2. e \in Entries(conn) /\ StillOwed(e)
    BY <1>1 DEF Entries, Neat, StillOwed
  <2> QED
    BY <1>1, <2>1, <2>2 DEF Pending
<1>3. ASSUME NEW c \in Callers(conn.queue), c \notin Operations(conn.queue) PROVE Pending(net, call, c)
  <2>1. PICK e \in Members(conn.queue) : e.who = c /\ e.what # "op"
    BY <1>1, <1>3, CallersOf
  <2>2. e \in Entries(conn) /\ StillOwed(e)
    BY <2>1 DEF Entries, StillOwed
  <2> QED
    BY <1>1, <2>1, <2>2 DEF Pending
<1> QED
  BY <1>2, <1>3

LEMMA NotConnectedKeeps ==
    ASSUME Basic, NEW k \in Conns, NotConnected(k)
    PROVE  Basic'
<1> DEFINE conn == net.conns[k]
<1>1. PICK err \in {"refused", "lost"} :
        /\ Fault(err)
        /\ net' = [net EXCEPT !.conns[k] = [conn EXCEPT !.stage = "broken", !.waiting = <<>>,
                      !.login = IF HasLogin(conn.waiting) THEN err ELSE "none"]]
        /\ call' = Failing(call, Callers(conn.waiting), err)
        /\ UNCHANGED <<mode, servers, transport, db, owed, crashed>>
  BY DEF NotConnected
<1> DEFINE o == [conn EXCEPT !.stage = "broken", !.waiting = <<>>,
                     !.login = IF HasLogin(conn.waiting) THEN err ELSE "none"]
<1>2. conn \in SomeConn /\ Neat(conn) /\ conn.queue \in Requests /\ conn.waiting \in Requests
  BY BasicFacts, ConnType
<1>3. o \in SomeConn /\ o.queue = conn.queue /\ o.waiting = <<>>
  BY <1>2, NoRequests DEF SomeConn, Stages, Flags, Errors
<1> HIDE DEF o
<1>4. Less(o, conn)
  BY <1>2, <1>3, LessOf
<1>5. \A c \in Callers(conn.waiting) : c \in Bound(conn) /\ c \notin Bound(o)
  BY <1>2, <1>3, NoRequests DEF Bound, Neat
<1>6. \A c \in Callers(conn.waiting) : call[c].what # "none"
  BY <1>5, Waiting
<1>7. call' \in SomeCalls /\ \A c \in Calls : c \notin Callers(conn.waiting) => call'[c] = call[c]
  BY <1>1, <1>6, Before, FailingOf DEF Errors
<1>8. net' \in Nets /\ Sheds(net', net) /\ Placed(net', call')
  <2> HIDE DEF conn
  <2>1. net' = [net EXCEPT !.conns[k] = o]
    BY <1>1 DEF o
  <2> QED
    BY <2>1, <1>4, <1>5, <1>7, Removing DEF conn
<1>9. \A c \in Calls : /\ owed[c] >= owed[c]
                       /\ Active(call'[c]) => Pending(net, call, c) \/ owed[c] > owed[c]
  <2>1. \A c \in Calls : owed[c] \in Int
    BY BasicFacts
  <2>2. \A c \in Calls : Active(call[c]) => Pending(net, call, c)
    BY DEF Pending
  <2> QED
    BY <1>7, <2>1, <2>2, Lost
<1>10. Orderly(net', call', owed)
  BY <1>7, <1>8, <1>9, Before, KeepsLess
<1>11. faults' \in Seq(FaultKinds)
  BY <1>1, Before, FaultType DEF FaultKinds
<1> QED
  BY <1>1, <1>7, <1>8, <1>10, <1>11, Before, Onward

LEMMA SocketEndsKeeps ==
    ASSUME Basic, NEW k \in Conns, SocketEnds(k)
    PROVE  Basic'
<1> DEFINE conn == net.conns[k]
           o == [conn EXCEPT !.stage = "idle", !.ending = FALSE]
           n == [net EXCEPT !.conns[k] = o]
<1>1. /\ \/ net' = Reset(n, servers) /\ call' = Dropped(call, n)
            /\ transport' = NoSession /\ db' = [db EXCEPT !.session = 0]
         \/ net' = n /\ UNCHANGED <<call, transport, db>>
      /\ UNCHANGED <<mode, servers, owed, crashed, faults>>
  BY DEF SocketEnds
<1>2. conn \in SomeConn /\ Neat(conn)
  BY BasicFacts
<1>3. o \in SomeConn /\ o.queue = conn.queue /\ o.waiting = conn.waiting
  BY <1>2 DEF SomeConn, Stages
<1> HIDE DEF o
<1>4. Less(o, conn)
  BY <1>2, <1>3, LessOf
<1>5. n \in Nets /\ Sheds(n, net) /\ Neatly(n) /\ Placed(n, call)
  BY <1>4, Removing
<1> HIDE DEF n
<1>6. CASE net' = Reset(n, servers) /\ call' = Dropped(call, n)
           /\ transport' = NoSession /\ db' = [db EXCEPT !.session = 0]
  <2>1. /\ net' \in Nets /\ Sheds(net', net) /\ Placed(net', call') /\ call' \in SomeCalls
        /\ \A d \in Calls : call'[d] = call[d] \/ (call[d].at = "sent" /\ ~Active(call'[d]))
    BY <1>5, <1>6, Before, ResetOrderly
  <2>2. transport' \in Transport /\ db' \in Databases
    BY <1>6, NoSessionType, Before, DatabasesType
  <2>3. \A d \in Calls : Active(call'[d]) => Active(call[d])
    BY <2>1
  <2> QED
    BY <1>1, <2>1, <2>2, <2>3, Before, Losing
<1>7. CASE net' = n /\ UNCHANGED <<call, transport, db>>
  BY <1>1, <1>5, <1>7, Before, Losing
<1> QED
  BY <1>1, <1>6, <1>7

\* One more execution of each operation that was written.
LEMMA OwedMore ==
    ASSUME Basic, NEW s
    PROVE  LET more == [c \in Calls |-> IF c \in Operations(s) THEN owed[c] + 1 ELSE owed[c]] IN
           /\ more \in [Calls -> Int]
           /\ \A c \in Calls : more[c] >= owed[c] /\ (c \in Operations(s) => more[c] > owed[c])
BY BasicFacts

LEMMA SocketFailsKeeps ==
    ASSUME Basic, NEW k \in Conns, SocketFails(k)
    PROVE  Basic'
<1> DEFINE conn == net.conns[k]
           more == [c \in Calls |-> IF c \in Operations(conn.queue) THEN owed[c] + 1 ELSE owed[c]]
<1>1. PICK err \in {"broken", "ended", "closed"} :
        LET n == [net EXCEPT !.conns[k] = Destroyed(conn, err)]
            cancelled == Failing(call, Callers(conn.queue), err)
        IN
        /\ Fault(IF HasLogin(conn.queue) THEN "login" ELSE err)
        /\ owed' = more
        /\ IF err = "closed"
           THEN net' = n /\ call' = cancelled /\ UNCHANGED <<transport, db, crashed>>
           ELSE IF ~conn.heard \/ transport.retries > MaxRetries
           THEN crashed' = TRUE /\ UNCHANGED <<net, call, transport, db>>
           ELSE /\ net' = Reset(n, servers)
                /\ call' = Dropped(cancelled, n)
                /\ transport' = [NoSession EXCEPT !.retries = @ + 1]
                /\ db' = [db EXCEPT !.session = 0]
                /\ UNCHANGED crashed
        /\ UNCHANGED <<mode, servers>>
  BY DEF SocketFails
<1> DEFINE o == Destroyed(conn, err)
           n == [net EXCEPT !.conns[k] = o]
           cancelled == Failing(call, Callers(conn.queue), err)
<1>2. /\ conn \in SomeConn /\ Neat(conn) /\ err \in Errors /\ more \in [Calls -> Int]
      /\ \A c \in Calls : more[c] >= owed[c] /\ (c \in Operations(conn.queue) => more[c] > owed[c])
      /\ conn.queue \in Requests /\ conn.waiting \in Requests
  BY BasicFacts, ConnType, OwedMore DEF Errors
<1>3. faults' \in Seq(FaultKinds)
  <2>1. (IF HasLogin(conn.queue) THEN "login" ELSE err) \in FaultKinds
    BY DEF FaultKinds
  <2> QED
    BY <1>1, <2>1, Before, FaultType
<1>4. o \in SomeConn /\ Less(o, conn) /\ o.queue = <<>> /\ o.waiting = conn.waiting
  BY <1>2, DestroyedOf
<1> HIDE DEF o, more
<1>5. \A c \in Callers(conn.queue) : c \in Bound(conn) /\ c \notin Bound(o)
  BY <1>2, <1>4, NoRequests DEF Bound, Neat
<1>6. /\ cancelled \in SomeCalls /\ \A c \in Calls : c \notin Callers(conn.queue) => cancelled[c] = call[c]
  <2>1. \A c \in Callers(conn.queue) \cap Calls : call[c].what # "none"
    BY <1>5, Waiting
  <2> QED
    BY <1>2, <2>1, Before, FailingOf
<1> HIDE DEF cancelled
<1>7. n \in Nets /\ Sheds(n, net) /\ Neatly(n) /\ Placed(n, cancelled)
  BY <1>4, <1>5, <1>6, Removing
<1>8. ASSUME NEW cs, \A c \in Calls : Active(cs[c]) => Active(call[c]) \/ c \in Callers(conn.queue)
      PROVE  \A c \in Calls : /\ more[c] >= owed[c]
                              /\ Active(cs[c]) => Pending(net, call, c) \/ more[c] > owed[c]
  <2>1. \A c \in Calls : Active(call[c]) => Pending(net, call, c)
    BY DEF Pending
  <2> QED
    BY <1>2, <1>8, <2>1, Lost
<1>9. CASE err = "closed"
  <2>1. net' = n /\ call' = cancelled /\ owed' = more /\ UNCHANGED <<mode, servers, transport, db, crashed>>
    BY <1>1, <1>9 DEF o, cancelled
  <2>2. \A c \in Calls : Active(cancelled[c]) => Active(call[c]) \/ c \in Callers(conn.queue)
    BY <1>6
  <2>3. Orderly(n, cancelled, more)
    <3>1. \A c \in Calls : /\ more[c] >= owed[c]
                           /\ Active(cancelled[c]) => Pending(net, call, c) \/ more[c] > owed[c]
      BY <1>8, <2>2
    <3> HIDE DEF n
    <3> QED
      BY <1>2, <1>6, <1>7, <3>1, KeepsLess
  <2> QED
    BY <1>2, <1>3, <1>6, <1>7, <2>1, <2>3, Before, Onward
<1>10. CASE err # "closed" /\ (~conn.heard \/ transport.retries > MaxRetries)
  <2>1. crashed' = TRUE /\ owed' = more /\ UNCHANGED <<mode, servers, net, call, transport, db>>
    BY <1>1, <1>10
  <2>2. \A c \in Calls : /\ more[c] >= owed[c]
                         /\ Active(call[c]) => Pending(net, call, c) \/ more[c] > owed[c]
    BY <1>8
  <2>3. Orderly(net, call, more)
    BY <1>2, <2>2, BasicFacts, KeepsLess
  <2> QED
    BY <1>2, <1>3, <2>1, <2>3, Before, Onward
<1>11. CASE err # "closed" /\ ~(~conn.heard \/ transport.retries > MaxRetries)
  <2>1. /\ net' = Reset(n, servers) /\ call' = Dropped(cancelled, n) /\ owed' = more
        /\ transport' = [NoSession EXCEPT !.retries = NoSession.retries + 1]
        /\ db' = [db EXCEPT !.session = 0] /\ UNCHANGED <<mode, servers, crashed>>
    BY <1>1, <1>11 DEF o, cancelled
  <2> HIDE DEF n
  <2>2. /\ net' \in Nets /\ Sheds(net', net) /\ Placed(net', call') /\ call' \in SomeCalls
        /\ \A d \in Calls : call'[d] = cancelled[d] \/ (cancelled[d].at = "sent" /\ ~Active(call'[d]))
    BY <1>6, <1>7, <2>1, Before, ResetOrderly
  <2>3. transport' \in Transport /\ db' \in Databases
    <3>1. NoSession \in Transport /\ db \in Databases
      BY NoSessionType, Before
    <3>2. NoSession.retries + 1 \in Nat
      BY <3>1 DEF Transport
    <3>3. transport' \in Transport
      BY <2>1, <3>1, <3>2 DEF Transport
    <3> QED
      BY <2>1, <3>1, <3>3, DatabasesType
  <2>4. \A c \in Calls : Active(call'[c]) => Active(call[c]) \/ c \in Callers(conn.queue)
    BY <1>6, <2>2
  <2>5. \A c \in Calls : /\ more[c] >= owed[c]
                         /\ Active(call'[c]) => Pending(net, call, c) \/ more[c] > owed[c]
    BY <1>8, <2>4
  <2>6. Orderly(net', call', more)
    BY <1>2, <2>2, <2>5, KeepsLess
  <2> QED
    BY <1>2, <1>3, <2>1, <2>2, <2>3, <2>6, Before, Onward
<1> QED
  BY <1>9, <1>10, <1>11

\* The reply of a request.
Replying(r, reply)    == [r EXCEPT !.reply = reply]
Answered(s, i, reply) == [s EXCEPT ![i] = Replying(s[i], reply)]

LEMMA Replied ==
    ASSUME NEW s \in Requests, NEW i \in 1..Len(s), NEW reply \in {"ok", "error", "redirect"},
           reply = "redirect" => s[i].what = "op"
    PROVE  LET r == Replying(s[i], reply)
               t == Answered(s, i, reply) IN
           /\ t \in Requests /\ Len(t) = Len(s)
           /\ r \in SomeRequest /\ r.who = s[i].who /\ r.what = s[i].what /\ r.session = s[i].session
           /\ r.reply = reply
           /\ Members(t) \subseteq Members(s) \cup {r}
           /\ Callers(t) = Callers(s)
           /\ Once(s) => /\ Once(t)
                         /\ \A e \in Members(t) : e.who = r.who /\ e.who # Login => e = r
<1> DEFINE r == Replying(s[i], reply)
           t == Answered(s, i, reply)
<1>1. s \in Seq(SomeRequest) /\ s[i] \in SomeRequest /\ Len(s) \in Nat
  BY LenProperties DEF Requests
<1>2. r \in SomeRequest /\ r.who = s[i].who /\ r.what = s[i].what /\ r.session = s[i].session
      /\ r.reply = reply
  BY <1>1 DEF SomeRequest, Replying
<1>7. t = [s EXCEPT ![i] = r]
  BY DEF Answered
<1> HIDE DEF r, t
<1>3. t \in Seq(SomeRequest) /\ Len(t) = Len(s)
      /\ \A j \in 1..Len(s) : t[j] = IF j = i THEN r ELSE s[j]
  BY <1>1, <1>2, <1>7, ExceptSeq
<1>4. \A j \in 1..Len(t) : t[j] = (IF j = i THEN r ELSE s[j]) /\ t[j].who = s[j].who
  BY <1>2, <1>3
<1>5. Callers(t) = Callers(s)
  <2>1. {t[j].who : j \in 1..Len(t)} = {s[j].who : j \in 1..Len(s)}
    BY <1>3, <1>4
  <2> QED
    BY <2>1 DEF Callers
<1>6. ASSUME Once(s)
      PROVE  Once(t) /\ \A e \in Members(t) : e.who = r.who /\ e.who # Login => e = r
  <2>1. Once(t)
    BY <1>3, <1>4, <1>6 DEF Once
  <2>2. ASSUME NEW j \in 1..Len(t), t[j].who = r.who, t[j].who # Login PROVE t[j] = r
    <3>1. i = j
      BY <1>2, <1>3, <1>4, <1>6, <2>2 DEF Once
    <3> QED
      BY <3>1, <1>3
  <2> QED
    BY <2>1, <2>2 DEF Members
<1>8. Members(t) \subseteq Members(s) \cup {r}
  BY <1>3, <1>4 DEF Members
<1> QED
  BY <1>2, <1>3, <1>5, <1>6, <1>8 DEF t, r, Requests

LEMMA ServeKeeps ==
    ASSUME Basic, NEW k \in Conns, Serve(k)
    PROVE  Basic'
<1> DEFINE conn == net.conns[k]
<1>1. PICK i \in 1..Len(conn.queue), reply \in {"ok", "error", "redirect"} :
        /\ conn.queue[i].reply = "none"
        /\ IF reply = "ok" THEN UNCHANGED faults ELSE Fault(reply)
        /\ reply = "redirect" => conn.queue[i].what = "op"
        /\ net' = [net EXCEPT !.conns[k].queue[i].reply = reply]
        /\ owed' = IF conn.queue[i].what = "op" /\ reply # "redirect"
                   THEN [owed EXCEPT ![conn.queue[i].who] = owed[conn.queue[i].who] - 1] ELSE owed
        /\ UNCHANGED <<mode, servers, transport, db, call, crashed>>
  BY DEF Serve
<1> DEFINE q == conn.queue
           r == Replying(q[i], reply)
           t == Answered(q, i, reply)
           o == [conn EXCEPT !.queue = t]
<1>2. conn \in SomeConn /\ Neat(conn) /\ q \in Requests /\ conn.waiting \in Requests /\ k \in 1..Len(net.conns)
  BY BasicFacts, ConnType DEF Conns
<1>3. net \in Nets /\ Neatly(net) /\ Placed(net, call) /\ Owing(net, call, owed)
      /\ owed \in [Calls -> Int] /\ call \in SomeCalls
  BY BasicFacts
<1>4. net' = [net EXCEPT !.conns[k] = o]
  <2>1. net' = [net EXCEPT !.conns[k].queue[i].reply = reply]
    BY <1>1
  <2> QED
    BY <2>1 DEF Answered, Replying
<1>5. /\ t \in Requests /\ r \in SomeRequest /\ r.who = q[i].who /\ r.what = q[i].what /\ r.reply = reply
      /\ Members(t) \subseteq Members(q) \cup {r}
      /\ Len(t) = Len(q) /\ Callers(t) = Callers(q) /\ Once(t)
      /\ \A e \in Members(t) : e.who = r.who /\ e.who # Login => e = r
  <2>1. Once(q) /\ i \in 1..Len(q) /\ (reply = "redirect" => q[i].what = "op")
    BY <1>1, <1>2 DEF Neat
  <2>2. q \in Requests /\ reply \in {"ok", "error", "redirect"}
    BY <1>2
  <2> HIDE DEF q
  <2>3. t \in Requests /\ Len(t) = Len(q) /\ Callers(t) = Callers(q)
    BY <2>1, <2>2, Replied
  <2>4. r \in SomeRequest /\ r.who = q[i].who /\ r.what = q[i].what /\ r.reply = reply
    BY <2>1, <2>2, Replied
  <2>5. Members(t) \subseteq Members(q) \cup {r}
    BY <2>1, <2>2, Replied
  <2>6. Once(t) /\ \A e \in Members(t) : e.who = r.who /\ e.who # Login => e = r
    BY <2>1, <2>2, Replied
  <2> HIDE DEF t, r
  <2> QED
    BY <2>3, <2>4, <2>5, <2>6
<1> HIDE DEF t, r
<1>6. o \in SomeConn /\ o.queue = t /\ o.waiting = conn.waiting
  BY <1>2, <1>5 DEF SomeConn
<1> HIDE DEF o
<1>7. /\ net' \in Nets /\ Len(net'.conns) = Len(net.conns) /\ net'.conns[k] = o
      /\ \A j \in 1..Len(net.conns) : j # k => net'.conns[j] = net.conns[j]
  BY <1>2, <1>3, <1>4, <1>6, ChangedNet, SMTT(30)
<1>8. \A e \in Entries(o) : e = r \/ e \in Entries(conn)
  BY <1>5, <1>6 DEF Entries
<1>9. q[i] \in Entries(conn) /\ Bound(o) = Bound(conn)
  BY <1>5, <1>6 DEF Entries, Members, Bound
<1>10. \A e \in Entries(o) : e.who = r.who /\ e.who # Login => e = r
  <2>1. ASSUME NEW e \in Members(conn.waiting), e.who = r.who, e.who # Login PROVE FALSE
    <3>1. e.who \in Callers(conn.waiting)
      BY <1>2, <2>1, CallersOf
    <3>2. q[i] \in Members(q)
      BY DEF Members
    <3>3. e.who \in Callers(q)
      BY <1>2, <1>5, <2>1, <3>2, CallersOf
    <3> QED
      BY <3>1, <3>3, <1>2 DEF Neat
  <2> QED
    BY <2>1, <1>5, <1>6 DEF Entries
<1>11. Neat(o)
  BY <1>2, <1>5, <1>6 DEF Neat
<1>12. Neatly(net')
  BY <1>3, <1>7, <1>9, <1>11 DEF Neatly
<1>13. Placed(net', call')
  <2>1. ASSUME NEW j \in 1..Len(net'.conns), NEW e \in Entries(net'.conns[j]), e.who # Login
        PROVE  call[e.who].at = "sent" /\ call[e.who].what = e.what
    <3>1. CASE j = k /\ e = r
      BY <2>1, <3>1, <1>2, <1>3, <1>5, <1>9 DEF Placed
    <3>2. CASE ~(j = k /\ e = r)
      <4>1. e \in Entries(net.conns[j]) /\ j \in 1..Len(net.conns)
        BY <2>1, <3>2, <1>7, <1>8
      <4> QED
        BY <2>1, <4>1, <1>3 DEF Placed
    <3> QED
      BY <3>1, <3>2
  <2>2. call' = call
    BY <1>1
  <2> QED
    BY <2>1, <2>2 DEF Placed
<1>14. q[i].reply = "none" /\ q[i].who = r.who /\ q[i].what = r.what /\ StillOwed(q[i])
       /\ (r.who = Login => r.what # "op")
  BY <1>1, <1>5, RequestType DEF StillOwed
<1>15. ASSUME NEW c \in Calls, Pending(net', call, c) PROVE Pending(net, call, c)
  <2>1. CASE Active(call[c])
    BY <2>1 DEF Pending
  <2>2. CASE ~Active(call[c])
    <3>0. PICK j \in 1..Len(net'.conns) : \E e \in Entries(net'.conns[j]) : e.who = c /\ StillOwed(e)
      BY <1>15, <2>2 DEF Pending
    <3>1. PICK e \in Entries(net'.conns[j]) : e.who = c /\ StillOwed(e)
      BY <3>0
    <3>2. CASE j = k /\ e = r
      BY <3>1, <3>2, <1>2, <1>9, <1>14 DEF Pending
    <3>3. CASE ~(j = k /\ e = r)
      <4>1. e \in Entries(net.conns[j]) /\ j \in 1..Len(net.conns)
        BY <3>1, <3>3, <1>7, <1>8
      <4> QED
        BY <3>1, <4>1 DEF Pending
    <3> QED
      BY <3>2, <3>3
  <2> QED
    BY <2>1, <2>2
<1>16. owed' \in [Calls -> Int] /\ Owing(net', call', owed')
  <2>1. CASE r.what = "op" /\ reply # "redirect"
    <3> DEFINE c == r.who
    <3>1. c \in Calls /\ c # Login /\ c \in Bound(conn) /\ call[c].at = "sent"
      BY <2>1, <1>2, <1>3, <1>9, <1>14, EntriesOf DEF Placed
    <3>2. owed[c] >= 1 /\ owed[c] \in Int
      <4>1. Pending(net, call, c)
        BY <1>2, <1>9, <1>14 DEF Pending
      <4> QED
        BY <3>1, <4>1, <1>3 DEF Owing
    <3>3. owed' = [owed EXCEPT ![c] = owed[c] - 1]
      BY <1>1, <1>14, <2>1
    <3>4. ~Pending(net', call, c)
      <4>1. ~Active(call[c])
        BY <3>1 DEF Active
      <4>2. ASSUME NEW j \in 1..Len(net'.conns), NEW e \in Entries(net'.conns[j]), e.who = c, StillOwed(e)
            PROVE  FALSE
        <5>1. CASE j = k
          <6>1. e = r
            BY <4>2, <5>1, <3>1, <1>7, <1>10
          <6> QED
            BY <6>1, <4>2, <2>1, <1>5 DEF StillOwed
        <5>2. CASE j # k
          <6>1. net'.conns[j] = net.conns[j] /\ j \in 1..Len(net.conns)
            BY <5>2, <1>7
          <6>2. net.conns[j] \in SomeConn
            BY <6>1, <1>3, NetType
          <6>3. c \in Bound(net.conns[j])
            BY <4>2, <6>1, <6>2, <3>1, EntriesOf
          <6> QED
            BY <5>2, <6>1, <6>3, <3>1, <1>2, <1>3 DEF Neatly
        <5> QED
          BY <5>1, <5>2
      <4> HIDE DEF c
      <4> QED
        BY <4>1, <4>2 DEF Pending
    <3> HIDE DEF c
    <3>5. owed' \in [Calls -> Int]
      BY <3>1, <3>2, <3>3, <1>3
    <3>6. \A d \in Calls : owed'[d] >= 0 /\ (Pending(net', call, d) => owed'[d] >= 1)
      <4> TAKE d \in Calls
      <4>1. CASE d = c
        <5>1. owed'[d] = owed[c] - 1
          BY <3>3, <4>1, <3>1, <1>3
        <5> QED
          BY <5>1, <4>1, <3>2, <3>4
      <4>2. CASE d # c
        <5>1. owed'[d] = owed[d]
          BY <3>3, <4>2, <1>3
        <5>2. owed[d] >= 0 /\ (Pending(net, call, d) => owed[d] >= 1)
          BY <1>3 DEF Owing
        <5> QED
          BY <5>1, <5>2, <1>15
      <4> QED
        BY <4>1, <4>2
    <3> QED
      BY <3>5, <3>6, <1>1 DEF Owing
  <2>2. CASE ~(r.what = "op" /\ reply # "redirect")
    <3>1. owed' = owed /\ call' = call
      BY <1>1, <1>14, <2>2
    <3> QED
      BY <3>1, <1>3, <1>15 DEF Owing
  <2> QED
    BY <2>1, <2>2
<1>17. faults' \in Seq(FaultKinds)
  <2>1. reply \in FaultKinds \/ reply = "ok"
    BY DEF FaultKinds
  <2> QED
    BY <1>1, <2>1, Before, FaultType
<1>18. Orderly(net', call', owed')
  BY <1>12, <1>13, <1>16 DEF Orderly
<1> QED
  BY <1>1, <1>7, <1>16, <1>17, <1>18, Before, Onward

\* The answer of a login: those that wait for it go on.
LEMMA ReplyToLoginKeeps ==
    ASSUME Basic, NEW k, NEW reply, ReplyToLogin(k, reply), k \in Nat
    PROVE  /\ transport' \in Transport /\ db' \in Databases /\ servers' \in Servers /\ call' \in SomeCalls
           /\ \A c \in Calls : \/ call'[c] = call[c]
                               \/ call[c].at \in {"login", "auto"} /\ Active(call[c])
<1>1. CASE reply # "ok"
  BY <1>1, Before DEF ReplyToLogin
<1>2. CASE reply = "ok"
  <2> DEFINE again(c) == Resent(call, {c})[c]
             ready(c) == [call[c] EXCEPT !.at = "ready", !.on = 0]
  <2>1. /\ transport' = [transport EXCEPT !.session = k, !.retries = 0,
                             !.auto = IF transport.auto = k THEN 0 ELSE transport.auto,
                             !.connecting = IF transport.login = k THEN "resolved" ELSE transport.connecting]
        /\ call' = [c \in Calls |-> IF c \notin Waiters(k) THEN call[c]
                        ELSE IF At(c, {"auto"}) THEN again(c) ELSE ready(c)]
        /\ UNCHANGED <<db, servers>>
    BY <1>2 DEF ReplyToLogin
  <2>2. transport' \in Transport
    <3>1. transport \in Transport
      BY Before
    <3> QED
      BY <2>1, <3>1 DEF Transport
  <2>3. \A c \in Waiters(k) : c \in Calls /\ call[c].at \in {"login", "auto"} /\ Active(call[c]) /\ call[c].what # "none"
    BY BasicFacts, CallType DEF Waiters, At, AtWork, Active
  <2>4. \A c \in Waiters(k) : again(c) \in SomeCall
    <3> TAKE c \in Waiters(k)
    <3>1. call \in SomeCalls /\ \A d \in {c} \cap Calls : call[d].what # "none"
      BY <2>3, Before
    <3>2. Resent(call, {c}) \in SomeCalls
      BY <3>1, ResentOf
    <3> QED
      BY <2>3, <3>2 DEF SomeCalls
  <2>5. \A c \in Waiters(k) : ready(c) \in SomeCall
    <3> TAKE c \in Waiters(k)
    <3> DEFINE z == call[c]
    <3>1. z \in SomeCall /\ z.what # "none"
      BY <2>3, BasicFacts
    <3>2. ready(c) = [z EXCEPT !.at = "ready", !.session = z.session, !.on = 0, !.err = z.err]
      BY <3>1 DEF SomeCall
    <3>3. "ready" \in AtRest \cup AtWork /\ z.session \in Nat /\ z.err \in Errors
      BY <3>1, CallType DEF AtWork
    <3> HIDE DEF z
    <3>4. [z EXCEPT !.at = "ready", !.session = z.session, !.on = 0, !.err = z.err] \in SomeCall
      BY <3>1, <3>3, CallChange
    <3> QED
      BY <3>2, <3>4
  <2> HIDE DEF again, ready
  <2>6. \A c \in Calls : call'[c] \in SomeCall /\ (c \notin Waiters(k) => call'[c] = call[c])
    BY <2>1, <2>4, <2>5, BasicFacts
  <2>7. call' \in SomeCalls
    <3>1. call' = [c \in Calls |-> call'[c]]
      BY <2>1
    <3> QED
      BY <2>6, <3>1 DEF SomeCalls
  <2> QED
    BY <2>1, <2>2, <2>3, <2>6, <2>7, Before
<1> QED
  BY <1>1, <1>2

\* The answer of a call, whose request was r.
LEMMA ReplyToCallKeeps ==
    ASSUME Basic, NEW k \in Conns, NEW r \in Entries(net.conns[k]), r.who # Login, r.reply # "none",
           ReplyToCall(k, r.who, r.reply)
    PROVE  /\ transport' \in Transport /\ db' \in Databases /\ servers' \in Servers /\ call' \in SomeCalls
           /\ \A c \in Calls : \/ call'[c] = call[c]
                               \/ c = r.who
                               \/ call[c].at = "opening"
           /\ Active(call'[r.who]) => StillOwed(r)
<1> DEFINE c == r.who
<1>1. /\ c \in Calls /\ call[c].at = "sent" /\ call[c].what = r.what /\ r.what # "none"
      /\ r \in SomeRequest /\ r.reply \in {"ok", "error", "redirect"}
  <2>1. r \in SomeRequest
    BY BasicFacts, EntriesOf
  <2> QED
    BY <2>1, Waiting, RequestType
<1>2. /\ call \in SomeCalls /\ transport' = transport /\ transport \in Transport /\ db \in Databases
      /\ servers \in Servers /\ call[c] \in SomeCall
  BY <1>1, Before, BasicFacts DEF ReplyToCall
<1>3. CASE r.reply = "redirect"
  <2>1. call' = Moved(call, {c}, "ready") /\ UNCHANGED <<db, servers>>
    BY <1>3 DEF ReplyToCall
  <2>2. "ready" \in AtRest \cup AtWork /\ \A d \in {c} \cap Calls : call[d].what # "none"
    BY <1>1 DEF AtWork
  <2>3. call' \in SomeCalls /\ \A d \in Calls : d \notin {c} => call'[d] = call[d]
    BY <1>2, <2>1, <2>2, MovedOf
  <2> QED
    BY <1>2, <1>3, <2>1, <2>3 DEF StillOwed
<1>4. ASSUME NEW at \in {"rejected", "resolved", "begin"}, call' = Settled(call, c, at),
             db' \in Databases, servers' \in Servers,
             at = "begin" => r.what # "op" /\ \A d \in Calls : call[d].at = "opening" => call[d].what # "none"
      PROVE  /\ transport' \in Transport /\ db' \in Databases /\ servers' \in Servers /\ call' \in SomeCalls
             /\ \A d \in Calls : \/ call'[d] = call[d]
                                 \/ d = r.who
                                 \/ call[d].at = "opening"
             /\ Active(call'[r.who]) => StillOwed(r)
  <2>1. PICK W : /\ Settled(call, c, at) = Moved(call, W, at) /\ c \in W
                 /\ W \subseteq {c} \cup {x \in Calls : At(x, {"opening"})}
    BY SettledOf
  <2>2. at \in AtRest \cup AtWork /\ (at \in AtWork => at = "begin")
    BY DEF AtRest, AtWork
  <2>3. at = "begin" => \A d \in W \cap Calls : call[d].what # "none"
    BY <1>1, <1>4, <2>1 DEF At
  <2>4. call' \in SomeCalls /\ \A d \in Calls : /\ d \notin W => call'[d] = call[d]
                                                /\ d \in W => call'[d].at = at
    BY <1>2, <1>4, <2>1, <2>2, <2>3, MovedOf
  <2>5. Active(call'[c]) => StillOwed(r)
    BY <1>1, <1>4, <2>1, <2>4 DEF Active, StillOwed
  <2> QED
    BY <1>2, <1>4, <2>1, <2>4, <2>5 DEF At
<1>5. CASE r.reply = "error"
  <2>1. call' = Settled(call, c, "rejected") /\ db' = OpeningFails(c) /\ UNCHANGED servers
    BY <1>5 DEF ReplyToCall
  <2> QED
    BY <1>2, <1>4, <2>1, OpeningFailsType
<1>6. CASE r.reply = "ok" /\ call[c].what = "db-open"
  <2>1. /\ db' = [session |-> k, opening |-> "none"] /\ call' = Settled(call, c, "begin")
        /\ UNCHANGED servers \/ UpdateConfig
    BY <1>6 DEF ReplyToCall
  <2>2. db' \in Databases
    BY <2>1 DEF Databases, Conns
  <2>3. servers' \in Servers
    BY <1>2, <2>1, UpdateConfigType
  <2>4. \A d \in Calls : call[d].at = "opening" => call[d].what # "none"
    BY BasicFacts, CallType DEF AtWork
  <2> QED
    BY <1>1, <1>4, <1>6, <2>1, <2>2, <2>3, <2>4
<1>7. CASE r.reply = "ok" /\ call[c].what # "db-open"
  <2>1. call' = Settled(call, c, "resolved") /\ UNCHANGED <<db, servers>>
    BY <1>7 DEF ReplyToCall
  <2> QED
    BY <1>2, <1>4, <2>1
<1> QED
  BY <1>1, <1>3, <1>5, <1>6, <1>7

LEMMA ReplyKeeps ==
    ASSUME Basic, NEW k \in Conns, Reply(k)
    PROVE  Basic'
<1> DEFINE conn == net.conns[k]
           q == conn.queue
           r == q[1]
           flag == IF r.who = Login /\ r.reply # "ok" THEN "answered" ELSE conn.login
           o == [conn EXCEPT !.queue = Tail(q), !.login = flag]
<1>1. /\ q # <<>> /\ r.reply # "none"
      /\ net' = [net EXCEPT !.conns[k] = o]
      /\ IF r.who = Login THEN ReplyToLogin(k, r.reply) ELSE ReplyToCall(k, r.who, r.reply)
      /\ UNCHANGED <<mode, owed, crashed, faults>>
  <2>1. net' = [net EXCEPT !.conns[k].queue = Tail(q), !.conns[k].login = flag]
    BY DEF Reply
  <2>2. net' = [net EXCEPT !.conns[k] = o]
    BY <2>1
  <2> QED
    BY <2>2 DEF Reply
<1>2. conn \in SomeConn /\ Neat(conn) /\ q \in Requests /\ conn.waiting \in Requests
  BY BasicFacts, ConnType
<1>3. /\ Tail(q) \in Requests /\ r \in Members(q) /\ r \in SomeRequest
      /\ Members(Tail(q)) \subseteq Members(q) /\ Once(q) /\ Once(Tail(q))
      /\ \A e \in Members(Tail(q)) : e.who # r.who \/ e.who = Login
  <2>1. q \in Requests /\ q # <<>> /\ Once(q)
    BY <1>1, <1>2 DEF Neat
  <2> HIDE DEF q
  <2> QED
    BY <2>1, OneLess
<1>4. o \in SomeConn /\ o.queue = Tail(q) /\ o.waiting = conn.waiting
  <2>1. flag \in Flags
    BY <1>2, ConnType DEF Flags
  <2> HIDE DEF flag
  <2> QED
    BY <1>2, <1>3, <2>1 DEF SomeConn
<1>5. r \in Entries(conn)
  BY <1>3 DEF Entries
<1> HIDE DEF o, r
<1>6. /\ \A e \in Members(conn.waiting) : e.who = r.who => e.who = Login
      /\ \A e \in Members(q), f \in Members(conn.waiting) : e.who = f.who => e.who = Login
  <2>1. ASSUME NEW e \in Members(q), NEW f \in Members(conn.waiting), e.who = f.who, e.who # Login PROVE FALSE
    <3>1. e.who \in Callers(q) /\ f.who \in Callers(conn.waiting)
      BY <1>2, <2>1, CallersOf
    <3> QED
      BY <3>1, <2>1, <1>2 DEF Neat
  <2> QED
    BY <2>1, <1>3
<1>7. Neat(o)
  <2>1. o.queue \in Requests /\ o.waiting \in Requests /\ Once(o.queue) /\ Once(o.waiting)
    BY <1>2, <1>3, <1>4 DEF Neat
  <2>2. \A e \in Members(o.queue), f \in Members(o.waiting) : e.who = f.who => e.who = Login
    BY <1>3, <1>4, <1>6
  <2>3. \A f \in Members(o.waiting) : f.reply = "none"
    BY <1>2, <1>4 DEF Neat
  <2> QED
    BY <2>1, <2>2, <2>3, NeatBy
<1>8. Less(o, conn)
  BY <1>3, <1>4, <1>7 DEF Less, Entries
<1>9. r.who # Login => r.who \in Bound(conn) /\ r.who \notin Bound(o)
  <2> HAVE r.who # Login
  <2>1. r.who \in Bound(conn)
    BY <1>2, <1>5, EntriesOf
  <2>2. ASSUME r.who \in Bound(o) PROVE FALSE
    <3>1. PICK e \in Entries(o) : e.who = r.who
      BY <2>2, <1>4, EntriesOf
    <3>2. e \in Members(Tail(q)) \/ e \in Members(conn.waiting)
      BY <1>4 DEF Entries
    <3> QED
      BY <3>1, <3>2, <1>3, <1>6
  <2> QED
    BY <2>1, <2>2
<1>10. /\ transport' \in Transport /\ db' \in Databases /\ servers' \in Servers /\ call' \in SomeCalls
       /\ \A c \in Calls : /\ \/ call'[c] = call[c]
                              \/ call[c].at # "sent"
                              \/ c \in Bound(conn) /\ c \notin Bound(o)
                           /\ Active(call'[c]) => Pending(net, call, c)
  <2>1. CASE r.who = Login
    <3>1. ReplyToLogin(k, r.reply) /\ k \in Nat
      BY <1>1, <2>1 DEF r, Conns
    <3>2. /\ transport' \in Transport /\ db' \in Databases /\ servers' \in Servers /\ call' \in SomeCalls
          /\ \A c \in Calls : \/ call'[c] = call[c]
                              \/ call[c].at \in {"login", "auto"} /\ Active(call[c])
      BY <3>1, ReplyToLoginKeeps
    <3> QED
      BY <3>2 DEF Pending
  <2>2. CASE r.who # Login
    <3>1. ReplyToCall(k, r.who, r.reply) /\ r.reply # "none"
      BY <1>1, <2>2 DEF r
    <3>2. /\ transport' \in Transport /\ db' \in Databases /\ servers' \in Servers /\ call' \in SomeCalls
          /\ \A c \in Calls : \/ call'[c] = call[c]
                              \/ c = r.who
                              \/ call[c].at = "opening"
          /\ Active(call'[r.who]) => StillOwed(r)
      BY <3>1, <1>5, <2>2, ReplyToCallKeeps
    <3>3. Active(call'[r.who]) => Pending(net, call, r.who)
      BY <3>2, <1>5 DEF Pending, Conns
    <3>4. \A c \in Calls : call[c].at = "opening" => Pending(net, call, c)
      BY DEF Pending, Active
    <3> QED
      BY <3>2, <3>3, <3>4, <1>9, <2>2 DEF Pending
  <2> QED
    BY <2>1, <2>2
<1>11. net' \in Nets /\ Sheds(net', net) /\ Placed(net', call')
  <2> DEFINE cs == call'
  <2>1. \A c \in Calls : cs[c] = call[c] \/ call[c].at # "sent" \/ (c \in Bound(conn) /\ c \notin Bound(o))
    BY <1>10
  <2> HIDE DEF cs
  <2>2. [net EXCEPT !.conns[k] = o] \in Nets /\ Sheds([net EXCEPT !.conns[k] = o], net)
        /\ Placed([net EXCEPT !.conns[k] = o], cs)
    BY <1>8, <2>1, Removing
  <2> QED
    BY <1>1, <2>2 DEF cs, o, r
<1>12. Orderly(net', call', owed)
  <2>1. \A c \in Calls : owed[c] >= owed[c] /\ (Active(call'[c]) => Pending(net, call, c) \/ owed[c] > owed[c])
    BY <1>10, BasicFacts
  <2> QED
    BY <2>1, <1>10, <1>11, Before, KeepsLess
<1> QED
  BY <1>1, <1>10, <1>11, <1>12, Before, Onward

LEMMA OperationTimeoutKeeps ==
    ASSUME Basic, NEW k \in Conns, OperationTimeout(k)
    PROVE  Basic'
<1> DEFINE conn == net.conns[k]
           more == [c \in Calls |-> IF c \in Operations(conn.queue) THEN owed[c] + 1 ELSE owed[c]]
           d == Destroyed(conn, "ended")
           o == [d EXCEPT !.timedOut = TRUE, !.waiting = <<>>]
           cancelled == Failing(call, Callers(conn.queue), "ended")
<1>1. /\ Fault(IF HasLogin(conn.queue) THEN "login" ELSE "timeout")
      /\ net' = [net EXCEPT !.conns[k] = o]
      /\ call' = Moved(cancelled, Callers(conn.waiting), "stranded")
      /\ owed' = more
      /\ UNCHANGED <<mode, servers, transport, db, crashed>>
  BY DEF OperationTimeout
<1>2. /\ conn \in SomeConn /\ Neat(conn) /\ "ended" \in Errors /\ more \in [Calls -> Int]
      /\ \A c \in Calls : more[c] >= owed[c] /\ (c \in Operations(conn.queue) => more[c] > owed[c])
      /\ conn.queue \in Requests /\ conn.waiting \in Requests
  BY BasicFacts, ConnType, OwedMore DEF Errors
<1>3. faults' \in Seq(FaultKinds)
  <2>1. (IF HasLogin(conn.queue) THEN "login" ELSE "timeout") \in FaultKinds
    BY DEF FaultKinds
  <2> QED
    BY <1>1, <2>1, Before, FaultType
<1>4. d \in SomeConn /\ d.queue = <<>>
  BY <1>2, DestroyedOf
<1> HIDE DEF d, more
<1>5. o \in SomeConn /\ o.queue = <<>> /\ o.waiting = <<>>
  BY <1>4, NoRequests DEF SomeConn
<1>6. Less(o, conn)
  BY <1>2, <1>5, LessOf
<1>7. Bound(o) = {}
  BY <1>5, NoRequests DEF Bound
<1> HIDE DEF o
<1>8. cancelled \in SomeCalls /\ \A c \in Calls : c \notin Callers(conn.queue) => cancelled[c] = call[c]
  <2>1. \A c \in Callers(conn.queue) \cap Calls : call[c].what # "none"
    BY Waiting DEF Bound
  <2> QED
    BY <1>2, <2>1, Before, FailingOf
<1> HIDE DEF cancelled
<1>9. /\ call' \in SomeCalls
      /\ \A c \in Calls : c \notin Callers(conn.waiting) => call'[c] = cancelled[c]
      /\ \A c \in Calls : c \in Callers(conn.waiting) => call'[c].at = "stranded"
  <2>1. "stranded" \in AtRest \cup AtWork /\ "stranded" \notin AtWork
    BY DEF AtRest, AtWork
  <2> QED
    BY <1>1, <1>8, <2>1, MovedOf
<1>10. net' \in Nets /\ Sheds(net', net) /\ Placed(net', call')
  <2> DEFINE cs == call'
  <2>1. \A c \in Calls : cs[c] = call[c] \/ (c \in Bound(conn) /\ c \notin Bound(o))
    BY <1>7, <1>8, <1>9 DEF Bound
  <2> HIDE DEF cs
  <2>2. [net EXCEPT !.conns[k] = o] \in Nets /\ Sheds([net EXCEPT !.conns[k] = o], net)
        /\ Placed([net EXCEPT !.conns[k] = o], cs)
    BY <1>6, <2>1, Removing
  <2> QED
    BY <1>1, <2>2 DEF cs
<1>11. \A c \in Calls : /\ more[c] >= owed[c]
                        /\ Active(call'[c]) => Pending(net, call, c) \/ more[c] > owed[c]
  <2>1. \A c \in Calls : Active(call[c]) => Pending(net, call, c)
    BY DEF Pending
  <2>2. \A c \in Calls : Active(call'[c]) => Active(call[c]) \/ c \in Callers(conn.queue)
    BY <1>8, <1>9 DEF Active
  <2> QED
    BY <1>2, <2>1, <2>2, Lost
<1>12. Orderly(net', call', more)
  BY <1>2, <1>9, <1>10, <1>11, KeepsLess
<1> QED
  BY <1>1, <1>2, <1>3, <1>9, <1>10, <1>12, Before, Onward

--------------------------------------------------------------------------------
(* Every step.                                                                   *)

LEMMA InitBasic == Init => Basic
<1> SUFFICES ASSUME Init PROVE Basic
  OBVIOUS
<1>1. Len(Hosts) \in Nat \ {0} /\ Hosts[1] \in STRING /\ PoolMax \in Nat \ {0}
  BY HostsType
<1>2. \A i \in 1..Len(Hosts) : Hosts[i] \in STRING
  BY TransportAssumption
<1>3. servers \in Servers
  BY <1>2 DEF Init, Servers
<1>4. net \in Net /\ Len(net.conns) = 0 /\ Len(net.current) = 0 /\ net.turn = 0
  <2>1. <<>> \in Seq(SomeConn) /\ <<>> \in Seq(Nat)
    OBVIOUS
  <2> QED
    BY <1>1, <2>1 DEF Init, Net
<1>5. net \in Nets
  BY <1>1, <1>4 DEF Nets, InLine, Limit
<1>6. call \in SomeCalls /\ \A c \in Calls : call[c] = NoCall
  BY NoCallType DEF Init, SomeCalls
<1>7. owed \in [Calls -> Int] /\ \A c \in Calls : owed[c] = 1
  BY DEF Init
<1>8. Orderly(net, call, owed)
  BY <1>4, <1>7 DEF Orderly, Neatly, Placed, Owing
<1>9. faults \in Seq(FaultKinds)
  BY DEF Init
<1>10. transport \in Transport /\ db \in Databases /\ crashed \in BOOLEAN /\ mode \in [pool : BOOLEAN, skip : BOOLEAN]
  BY DEF Init, Transport, Databases
<1> QED
  BY <1>3, <1>4, <1>5, <1>6, <1>7, <1>8, <1>9, <1>10 DEF Basic, TypeOK

LEMMA BasicStays == Basic /\ [Next]_vars => Basic'
<1> SUFFICES ASSUME Basic, [Next]_vars PROVE Basic'
  OBVIOUS
<1>1. CASE UNCHANGED vars
  <2>1. UNCHANGED <<mode, servers, net, transport, db, call, owed, crashed, faults>>
    BY <1>1 DEF vars
  <2>2. Orderly(net', call', owed')
    BY <2>1, Before
  <2> QED
    BY <2>1, <2>2, Before, Onward
<1>2. ASSUME NEW c \in Calls, Start(c) \/ Open(c) \/ Send(c) \/ AutoReconnectAndSend(c)
      PROVE  Basic'
  BY <1>2, StartKeeps, OpenKeeps, SendKeeps, AutoReconnectAndSendKeeps
<1>3. CASE AutoReconnected
  BY <1>3, AutoReconnectedKeeps
<1>4. ASSUME NEW k \in Conns,
             \/ LoginFails(k) \/ Connected(k) \/ NotConnected(k) \/ Serve(k) \/ Reply(k)
             \/ SocketFails(k) \/ SocketEnds(k) \/ OperationTimeout(k) \/ ConfigPushed(k)
      PROVE  Basic'
  BY <1>4, LoginFailsKeeps, ConnectedKeeps, NotConnectedKeeps, ServeKeeps, ReplyKeeps,
     SocketFailsKeeps, SocketEndsKeeps, OperationTimeoutKeeps, ConfigPushedKeeps
<1> QED
  BY <1>1, <1>2, <1>3, <1>4 DEF Next

\* The types of the transport, of its connections and of its calls.
THEOREM TransportTypeCorrect == Spec => []TypeOK
<1>1. Basic => TypeOK
  BY DEF Basic
<1> QED
  BY <1>1, InitBasic, BasicStays, PTL DEF Spec

\* An operation is executed once more only when its connection was lost after it
\* had been written, however often it is sent again or to another server.
THEOREM ExecutedOncePerLoss == Spec => []ExecutedAgain
<1>1. Basic => ExecutedAgain
  BY DEF Basic, Orderly, Owing, ExecutedAgain
<1> QED
  BY <1>1, InitBasic, BasicStays, PTL DEF Spec

--------------------------------------------------------------------------------
(* The sessions of one connection at a time.                                     *)

\* A login is under way on connection k, and there is no session.
LoggingIn(t, k) == ~mode.skip /\ t.connecting = "pending" /\ t.session = 0 /\ t.login = k
HasSession(t)   == mode.skip \/ t.session # 0

\* A request e on connection k.  A login is alone there.
Carries(e, conn, k, t, cs) ==
    /\ e.session \in {0, k}
    /\ e.who = Login => /\ LoggingIn(t, k) /\ conn.login = "none"
                        /\ Len(conn.queue) + Len(conn.waiting) <= 1
    /\ e.who # Login => cs[e.who].session \in {0, k} /\ HasSession(t)

\* A connection that was replaced has no requests; a login that has failed was
\* that of connect(), unless it was cut off.
Failed(conn, k, t) ==
    conn.login # "none" =>
        /\ ~mode.skip /\ t.session = 0
        /\ conn.heard => LoggingIn(t, k)
        /\ ~conn.heard => conn.login # "refused"
Fine(conn, k, t, cs) ==
    /\ conn.heard \/ Entries(conn) = {}
    /\ conn.queue # <<>> => conn.stage = "open"
    /\ conn.waiting # <<>> => conn.stage = "connecting"
    /\ Failed(conn, k, t)
    /\ \A e \in Entries(conn) : Carries(e, conn, k, t, cs)

Hears(n)     == \A k \in 1..Len(n.conns) : n.conns[k].heard <=> k \in Lent(n)
AllFine(n, t, cs) == \A k \in 1..Len(n.conns) : Fine(n.conns[k], k, t, cs)

\* A session is one of the connection in use.
Known(n, t, d) ==
    /\ t.session \in {0} \cup Lent(n)
    /\ d.session \in {0} \cup Lent(n)
    /\ d.session # 0 => HasSession(t)
    /\ mode.skip => t.session = 0 /\ t.connecting = "none"
Asks(n, t, k) ==
    /\ k.at \in {"idle", "login"} => k.session = 0
    /\ k.at = "ready" => k.session \in {0} \cup Lent(n) /\ (k.session # 0 => HasSession(t))
Asked(n, t, cs) == \A c \in Calls : Asks(n, t, cs[c])

\* A call is about to reconnect the transport: nothing is left that could be sent.
CutOff(k) == k.at = "failed" /\ k.err \in Reconnectable
Cut(t, cs) == t.auto = 0 /\ \E c \in Calls : CutOff(cs[c])
Cleared(n, t, cs) == Cut(t, cs) =>
    /\ \A c \in Calls : cs[c].at \notin {"ready", "begin"}
    /\ \A k \in 1..Len(n.conns) : Entries(n.conns[k]) = {} /\ n.conns[k].login = "none"

Sound(n, t, d, cs) ==
    Hears(n) /\ AllFine(n, t, cs) /\ Known(n, t, d) /\ Asked(n, t, cs) /\ Cleared(n, t, cs)

\* Nothing is asked of the connection, and no login of it has failed.
Blank(conn) ==
    /\ Entries(conn) = {}
    /\ conn.login # "none" => ~mode.skip /\ ~conn.heard /\ conn.login # "refused"

LEMMA Nothing ==
    ASSUME NEW s \in Requests
    PROVE  Members(s) = {} <=> s = <<>>
<1>1. CASE s = <<>>
  BY <1>1, NoRequests
<1>2. CASE s # <<>>
  BY <1>2, OneLess
<1> QED
  BY <1>1, <1>2

LEMMA NoEntries ==
    ASSUME NEW conn \in SomeConn
    PROVE  /\ Entries(conn) = {} <=> (conn.queue = <<>> /\ conn.waiting = <<>>)
           /\ Entries(conn) = {} => ~HasLogin(conn.queue) /\ ~HasLogin(conn.waiting) /\ Callers(conn.queue) = {} /\ Callers(conn.waiting) = {}
<1>1. conn.queue \in Requests /\ conn.waiting \in Requests
  BY ConnType
<1>2. /\ Members(conn.queue) = {} <=> conn.queue = <<>>
      /\ Members(conn.waiting) = {} <=> conn.waiting = <<>>
  BY <1>1, Nothing
<1>3. Entries(conn) = {} <=> (conn.queue = <<>> /\ conn.waiting = <<>>)
  BY <1>2 DEF Entries
<1> QED
  BY <1>3, NoRequests

LEMMA LoginEntry ==
    ASSUME NEW s \in Requests
    PROVE  HasLogin(s) <=> \E e \in Members(s) : e.who = Login
BY DEF HasLogin, Members

\* Only one connection is in use.
LEMMA OneInUse ==
    ASSUME NEW n \in Nets, mode.pool = FALSE, NEW j \in Lent(n), NEW k \in Lent(n)
    PROVE  j = k
<1>1. Len(n.current) \in Nat /\ Len(n.current) <= 1
  BY NetType DEF InLine, Limit
<1>2. PICK i \in 1..Len(n.current) : n.current[i] = j
  BY DEF Lent
<1>3. PICK h \in 1..Len(n.current) : n.current[h] = k
  BY DEF Lent
<1>4. i = h
  BY <1>1
<1> QED
  BY <1>2, <1>3, <1>4

LEMMA BlankIsFine ==
    ASSUME NEW conn \in SomeConn, Blank(conn), NEW k, NEW t, NEW cs, t.session = 0
    PROVE  Fine(conn, k, t, cs)
BY NoEntries DEF Blank, Fine, Failed

\* A connection that stays as it is.
LEMMA StaysFine ==
    ASSUME NEW conn, NEW k, NEW t, NEW cs, Fine(conn, k, t, cs), NEW u, NEW x,
           u.session = t.session, u.connecting = t.connecting, u.login = t.login,
           \A e \in Entries(conn) : e.who # Login => x[e.who].session \in {cs[e.who].session, 0}
    PROVE  Fine(conn, k, u, x)
<1>1. ASSUME NEW e \in Entries(conn) PROVE Carries(e, conn, k, u, x)
  BY <1>1 DEF Fine, Carries, LoggingIn, HasSession
<1>2. Failed(conn, k, u)
  BY DEF Fine, Failed, LoggingIn
<1> QED
  BY <1>1, <1>2 DEF Fine

LEMMA ChangedConn ==
    ASSUME NEW conn \in SomeConn, NEW w \in Requests, NEW st \in Stages, NEW lg \in Flags
    PROVE  /\ LET o == [conn EXCEPT !.waiting = w] IN
              o.waiting = w /\ o.queue = conn.queue /\ o.stage = conn.stage /\ o.heard = conn.heard /\ o.login = conn.login
           /\ LET o == [conn EXCEPT !.stage = st, !.waiting = w] IN
              o.waiting = w /\ o.queue = conn.queue /\ o.stage = st /\ o.heard = conn.heard /\ o.login = conn.login
           /\ LET o == [conn EXCEPT !.login = lg] IN
              o.waiting = conn.waiting /\ o.queue = conn.queue /\ o.stage = conn.stage /\ o.heard = conn.heard /\ o.login = lg
BY DEF SomeConn

\* The places of a request that is sent.
LEMMA OfferedPlaces ==
    ASSUME NEW conn \in SomeConn, NEW r \in SomeRequest, r.reply = "none",
           conn.queue # <<>> => conn.stage = "open", conn.waiting # <<>> => conn.stage = "connecting"
    PROVE  LET o == Offered(conn, r) IN
           /\ o \in SomeConn /\ o.heard = conn.heard
           /\ o.queue # <<>> => o.stage = "open"
           /\ o.waiting # <<>> => o.stage = "connecting"
           /\ Entries(o) \subseteq Entries(conn) \cup {r}
           /\ conn.stage = "broken" => Entries(o) = {}
           /\ o.login = IF conn.stage = "broken" /\ r.who = Login THEN "thrown" ELSE conn.login
           /\ Entries(conn) = {} => Len(o.queue) + Len(o.waiting) <= 1
<1> DEFINE o == Offered(conn, r)
<1>1. /\ conn.stage \in Stages /\ conn.queue \in Requests /\ conn.waiting \in Requests /\ conn.login \in Flags
      /\ <<r>> \in Requests /\ Len(<<r>>) = 1 /\ Append(conn.waiting, r) \in Requests
      /\ <<>> \in Requests /\ Len(<<>>) = 0 /\ "thrown" \in Flags /\ "connecting" \in Stages
  <2>1. conn.queue \in Requests /\ conn.waiting \in Requests
    BY ConnType
  <2>2. Append(conn.waiting, r) \in Requests
    BY <2>1, OneMore
  <2> QED
    BY <2>1, <2>2, ConnType, OneRequest, NoRequests DEF Flags, Errors, Stages
<1>2. o \in SomeConn /\ o.heard = conn.heard /\ Entries(o) \subseteq Entries(conn) \cup {r}
  BY OfferedTo
<1>3. conn.stage = "broken" => Entries(o) = Entries(conn)
  BY OfferedTo
<1>4. /\ conn.stage = "open" => o = Written(conn, <<r>>)
      /\ conn.stage = "connecting" => o = [conn EXCEPT !.waiting = Append(conn.waiting, r)]
      /\ conn.stage = "idle" => o = [conn EXCEPT !.stage = "connecting", !.waiting = <<r>>]
      /\ conn.stage = "broken" =>
            o = [conn EXCEPT !.login = IF r.who = Login THEN "thrown" ELSE conn.login]
  BY OfferedStages
<1>5. Entries(conn) = {} <=> (conn.queue = <<>> /\ conn.waiting = <<>>)
  BY NoEntries
<1> HIDE DEF o
<1>6. CASE conn.stage = "open"
  <2>1. /\ o.queue = conn.queue \o Awaited(<<r>>) /\ o.waiting = conn.waiting /\ o.stage = conn.stage
        /\ o.login = conn.login
    <3> DEFINE rs == <<r>>
    <3>1. rs \in Requests /\ o = Written(conn, rs)
      BY <1>1, <1>4, <1>6
    <3> HIDE DEF rs
    <3>2. /\ Written(conn, rs).queue = conn.queue \o Awaited(rs)
          /\ Written(conn, rs).waiting = conn.waiting /\ Written(conn, rs).stage = conn.stage
          /\ Written(conn, rs).login = conn.login
      BY <3>1, WrittenOf
    <3> QED
      BY <3>1, <3>2 DEF rs
  <2>2. conn.waiting = <<>>
    BY <1>6
  <2>3. Awaited(<<r>>) \in Requests /\ Len(Awaited(<<r>>)) <= 1
    BY <1>1, AwaitedOf
  <2> DEFINE a == Awaited(<<r>>)
  <2> HIDE DEF a
  <2>4. ASSUME Entries(conn) = {} PROVE Len(o.queue) + Len(o.waiting) <= 1
    <3>1. conn.queue = <<>> /\ a \in Requests /\ Len(a) <= 1
      BY <1>5, <2>3, <2>4 DEF a
    <3>2. <<>> \o a = a
      BY <3>1, ConcatEmptySeq DEF Requests
    <3>3. o.queue = a /\ o.waiting = <<>> /\ Len(a) \in Nat
      BY <2>1, <2>2, <3>1, <3>2 DEF a, Requests
    <3> QED
      BY <1>1, <3>1, <3>3
  <2> QED
    BY <1>2, <1>6, <2>1, <2>2, <2>4 DEF o
<1>7. CASE conn.stage = "connecting"
  <2> DEFINE w == Append(conn.waiting, r)
  <2>0. w \in Requests
    BY <1>1
  <2>1. o = [conn EXCEPT !.waiting = w]
    BY <1>4, <1>7
  <2>2. conn.queue = <<>>
    BY <1>7
  <2>3. Len(w) = Len(conn.waiting) + 1 
    BY <1>1, OneMore
  <2> HIDE DEF w
  <2>4. o.waiting = w /\ o.queue = conn.queue /\ o.stage = conn.stage /\ o.heard = conn.heard /\ o.login = conn.login
    BY <1>1, <2>0, <2>1, ChangedConn
  <2>5. ASSUME Entries(conn) = {} PROVE Len(o.queue) + Len(o.waiting) <= 1
    BY <1>1, <1>5, <2>2, <2>3, <2>4, <2>5
  <2> QED
    BY <1>2, <1>7, <2>2, <2>4, <2>5 DEF o
<1>8. CASE conn.stage = "idle"
  <2>1. conn.queue = <<>> /\ conn.waiting = <<>>
    BY <1>8
  <2> DEFINE w == <<r>>
  <2>2. w \in Requests /\ Len(w) = 1 /\ o = [conn EXCEPT !.stage = "connecting", !.waiting = w]
    BY <1>1, <1>4, <1>8
  <2> HIDE DEF w
  <2>3. o.waiting = w /\ o.queue = conn.queue /\ o.stage = "connecting" /\ o.heard = conn.heard /\ o.login = conn.login
    BY <1>1, <2>2, ChangedConn
  <2>4. Len(o.queue) + Len(o.waiting) <= 1
    <3>1. Len(o.queue) = 0 /\ Len(o.waiting) = 1
      BY <1>1, <2>1, <2>2, <2>3
    <3> QED
      BY <3>1
  <2> QED
    BY <1>2, <1>8, <2>1, <2>3, <2>4 DEF o
<1>9. CASE conn.stage = "broken"
  <2> DEFINE lg == IF r.who = Login THEN "thrown" ELSE conn.login
  <2>1. lg \in Flags /\ o = [conn EXCEPT !.login = lg] 
    BY <1>1, <1>4, <1>9
  <2>2. conn.queue = <<>> /\ conn.waiting = <<>>
    BY <1>9
  <2> HIDE DEF lg
  <2>3. o.waiting = conn.waiting /\ o.queue = conn.queue /\ o.stage = conn.stage /\ o.heard = conn.heard /\ o.login = lg
    BY <1>1, <2>1, ChangedConn
  <2>4. Entries(o) = {}
    BY <1>3, <1>5, <1>9, <2>2
  <2>5. Len(o.queue) + Len(o.waiting) <= 1
    BY <1>1, <2>2, <2>3
  <2> QED
    BY <1>2, <1>9, <2>2, <2>3, <2>4, <2>5 DEF o, lg
<1> QED
  BY <1>1, <1>6, <1>7, <1>8, <1>9 DEF Stages

\* A request is sent on a session of its connection.
LEMMA OfferedFine ==
    ASSUME NEW conn \in SomeConn, NEW k, NEW t, NEW cs, Fine(conn, k, t, cs), conn.heard,
           NEW r \in SomeRequest, r.reply = "none", r.who # Login, r.session \in {0, k}, HasSession(t),
           NEW x, r \in Entries(Offered(conn, r)) => x[r.who].session \in {0, k},
           \A e \in Entries(conn) : e.who # Login => x[e.who].session \in {cs[e.who].session, 0}
    PROVE  Fine(Offered(conn, r), k, t, x)
<1> DEFINE o == Offered(conn, r)
<1>1. \A e \in Entries(conn) : e.who # Login
  BY DEF Fine, Carries, LoggingIn, HasSession
<1>2. /\ o.heard = conn.heard
      /\ o.queue # <<>> => o.stage = "open"
      /\ o.waiting # <<>> => o.stage = "connecting"
      /\ Entries(o) \subseteq Entries(conn) \cup {r}
      /\ o.login = IF conn.stage = "broken" /\ r.who = Login THEN "thrown" ELSE conn.login
  BY OfferedPlaces DEF Fine
<1>3. o.login = conn.login
  BY <1>2
<1> HIDE DEF o
<1>4. ASSUME NEW e \in Entries(o) PROVE Carries(e, o, k, t, x)
  <2>1. CASE e = r
    <3>1. x[r.who].session \in {0, k}
      BY <1>4, <2>1 DEF o
    <3> QED
      BY <2>1, <3>1 DEF Carries
  <2>2. CASE e \in Entries(conn)
    BY <1>1, <2>2 DEF Carries, Fine
  <2> QED
    BY <1>2, <2>1, <2>2
<1>5. Failed(o, k, t)
  BY <1>2, <1>3 DEF Fine, Failed
<1> QED
  BY <1>2, <1>4, <1>5 DEF Fine, o

\* A login is sent on a connection that nobody uses.
LEMMA OfferedLogin ==
    ASSUME NEW conn \in SomeConn, conn.heard, Blank(conn), NEW k, NEW t, LoggingIn(t, k), NEW cs
    PROVE  Fine(Offered(conn, LoginRequest), k, t, cs)
<1> DEFINE r == LoginRequest
           o == Offered(conn, r)
<1>1. r \in SomeRequest /\ r.reply = "none" /\ r.who = Login /\ r.session = 0
  BY LoginRequestType
<1>2. conn.queue = <<>> /\ conn.waiting = <<>> /\ Entries(conn) = {} /\ conn.login = "none"
  BY NoEntries DEF Blank
<1>3. /\ o.heard = conn.heard
      /\ o.queue # <<>> => o.stage = "open"
      /\ o.waiting # <<>> => o.stage = "connecting"
      /\ Entries(o) \subseteq Entries(conn) \cup {r}
      /\ conn.stage = "broken" => Entries(o) = {}
      /\ o.login = IF conn.stage = "broken" /\ r.who = Login THEN "thrown" ELSE conn.login
      /\ Entries(conn) = {} => Len(o.queue) + Len(o.waiting) <= 1
  BY <1>1, <1>2, OfferedPlaces
<1> HIDE DEF o, r
<1>4. ASSUME NEW e \in Entries(o) PROVE Carries(e, o, k, t, cs)
  BY <1>1, <1>2, <1>3, <1>4 DEF Carries
<1>5. Failed(o, k, t)
  BY <1>3 DEF Failed, LoggingIn
<1> QED
  BY <1>3, <1>4, <1>5 DEF Fine, o, r

--------------------------------------------------------------------------------
(* The sessions of the transport.                                                *)

\* What is sent goes to the connection in use, or to a new one.
LEMMA SentFine ==
    ASSUME NEW n \in Nets, mode.pool = FALSE, Hears(n), NEW r \in SomeRequest, r.reply = "none",
           NEW t, NEW x,
           \A k \in 1..Len(n.conns) : k # Attempt(n) => Fine(n.conns[k], k, t, x),
           Fine(Offered(Place(n, Attempt(n)), r), Attempt(n), t, x)
    PROVE  LET m == Sent(n, r) IN
           /\ m \in Nets /\ Hears(m) /\ AllFine(m, t, x)
           /\ Lent(n) \subseteq Lent(m) /\ Lent(m) = {Attempt(n)}
<1> DEFINE m == Sent(n, r)
           p == Attempt(n)
           o == Offered(Place(n, p), r)
<1>1. /\ m \in Nets /\ p \in 1..Len(m.conns) /\ Len(n.conns) <= Len(m.conns)
      /\ m.conns[p] = o
      /\ \A k \in 1..Len(m.conns) : k # p => k \in 1..Len(n.conns) /\ m.conns[k] = n.conns[k]
      /\ Lent(m) = Lent(n) \cup {p}
      /\ Limit = 1 => Lent(m) = {p}
  BY SentOf
<1>2. Limit = 1
  BY DEF Limit
<1>3. p \in Lent(n) \/ p = Len(n.conns) + 1
  BY SentOf
<1>4. Place(n, p).heard
  <2>1. Lent(n) \subseteq 1..Len(n.conns) /\ n.host \in STRING /\ Len(n.conns) \in Nat
    BY NetType
  <2>2. CASE p \in Lent(n)
    BY <2>1, <2>2 DEF Place, Hears
  <2>3. CASE p = Len(n.conns) + 1
    <3>1. p \notin 1..Len(n.conns)
      BY <2>1, <2>3
    <3> QED
      BY <2>1, <3>1, NewConnectionType DEF Place
  <2> QED
    BY <1>3, <2>2, <2>3
<1>5. o.heard
  <2>1. Place(n, p) \in SomeConn
    BY NetType
  <2>2. o.heard = Place(n, p).heard
    BY <2>1, OfferedTo
  <2> QED
    BY <1>4, <2>2
<1> HIDE DEF m, p, o
<1>6. Hears(m)
  BY <1>1, <1>5 DEF Hears
<1>7. AllFine(m, t, x)
  BY <1>1 DEF AllFine, m, p, o
<1> QED
  BY <1>1, <1>2, <1>6, <1>7 DEF m, p

LEMMA PlaceOf ==
    ASSUME NEW n \in Nets, mode.pool = FALSE, Hears(n)
    PROVE  LET p == Attempt(n) IN
           /\ Place(n, p) \in SomeConn /\ Place(n, p).heard
           /\ p \in 1..Len(n.conns) => Place(n, p) = n.conns[p]
           /\ p \notin 1..Len(n.conns) => Entries(Place(n, p)) = {} /\ Place(n, p).login = "none"
           /\ p \in Nat \ {0}
<1> DEFINE p == Attempt(n)
<1>1. Lent(n) \subseteq 1..Len(n.conns) /\ n.host \in STRING /\ Len(n.conns) \in Nat /\ Place(n, p) \in SomeConn
  BY NetType
<1>2. p \in Lent(n) \/ p = Len(n.conns) + 1
  BY SentOf, LoginRequestType
<1>3. p \in Nat \ {0}
  BY <1>1, <1>2
<1>4. CASE p \in Lent(n)
  BY <1>1, <1>3, <1>4 DEF Place, Hears
<1>5. CASE p = Len(n.conns) + 1
  <2>1. p \notin 1..Len(n.conns)
    BY <1>1, <1>5
  <2>2. Place(n, p) = NewConnection(n.host)
    BY <2>1 DEF Place
  <2> QED
    BY <1>1, <1>3, <2>1, <2>2, NewConnectionType
<1> QED
  BY <1>2, <1>4, <1>5

\* connect() on a network that is blank.
LEMMA LoginFine ==
    ASSUME NEW n \in Nets, mode.pool = FALSE, Hears(n), \A k \in 1..Len(n.conns) : Blank(n.conns[k]),
           NEW t, LoggingIn(t, Attempt(n)), NEW x
    PROVE  LET m == Sent(n, LoginRequest) IN
           /\ m \in Nets /\ Hears(m) /\ AllFine(m, t, x)
           /\ Lent(n) \subseteq Lent(m) /\ Lent(m) = {Attempt(n)}
<1> DEFINE p == Attempt(n)
<1>1. Blank(Place(n, p)) /\ Place(n, p) \in SomeConn /\ Place(n, p).heard
  BY PlaceOf DEF Blank
<1>2. Fine(Offered(Place(n, p), LoginRequest), p, t, x)
  BY <1>1, OfferedLogin
<1>3. ASSUME NEW k \in 1..Len(n.conns) PROVE Fine(n.conns[k], k, t, x)
  <2>1. n.conns[k] \in SomeConn /\ t.session = 0
    BY NetType DEF LoggingIn
  <2> QED
    BY <2>1, BlankIsFine
<1> QED
  BY <1>2, <1>3, SentFine, LoginRequestType

\* A connection that the reset leaves behind without requests.
Leaves(conn) ==
    /\ conn.heard => conn.waiting = <<>> /\ (HasLogin(conn.queue) => ~mode.skip)
    /\ conn.login # "none" => ~mode.skip /\ conn.login # "refused"
    /\ ~conn.heard => Entries(conn) = {}

LEMMA ResetBlank ==
    ASSUME NEW n \in Nets, mode.pool = FALSE, Hears(n), NEW svs, svs[1].host \in STRING,
           \A k \in 1..Len(n.conns) : Leaves(n.conns[k])
    PROVE  LET m == Reset(n, svs) IN
           /\ m \in Nets /\ Hears(m) /\ Lent(m) = {} /\ Len(m.conns) = Len(n.conns)
           /\ \A k \in 1..Len(m.conns) : Blank(m.conns[k])
<1> DEFINE m == Reset(n, svs)
<1>1. /\ m \in Nets /\ Len(m.conns) = Len(n.conns) /\ Lent(m) = {}
      /\ \A k \in 1..Len(n.conns) :
            m.conns[k] = IF k \in Lent(n) THEN Left(n.conns[k]) ELSE n.conns[k]
  BY ResetOf
<1> HIDE DEF m
<1>2. ASSUME NEW k \in 1..Len(n.conns) PROVE Blank(m.conns[k]) /\ ~m.conns[k].heard
  <2> DEFINE conn == n.conns[k]
             o == Left(conn)
  <2>1. conn \in SomeConn /\ Leaves(conn) /\ (conn.heard <=> k \in Lent(n)) /\ conn.waiting \in Requests
    BY NetType, ConnType DEF Hears
  <2>2. /\ o \in SomeConn /\ ~o.heard /\ o.queue = <<>>
        /\ o.waiting \in {conn.waiting, <<>>}
        /\ o.login = IF HasLogin(conn.queue) THEN "cancelled" ELSE conn.login
    BY <2>1, LeftOf DEF Less
  <2> HIDE DEF conn, o
  <2>3. CASE k \in Lent(n)
    <3>1. m.conns[k] = o
      BY <1>1, <2>3 DEF o, conn
    <3>2. Entries(o) = {}
      BY <2>1, <2>2, <2>3, NoEntries DEF Leaves
    <3> QED
      BY <2>1, <2>2, <2>3, <3>1, <3>2 DEF Leaves, Blank
  <2>4. CASE k \notin Lent(n)
    <3>1. m.conns[k] = conn
      BY <1>1, <2>4 DEF conn
    <3> QED
      BY <2>1, <2>4, <3>1 DEF Leaves, Blank
  <2> QED
    BY <2>3, <2>4
<1>3. Hears(m)
  BY <1>1, <1>2 DEF Hears
<1> QED
  BY <1>1, <1>2, <1>3 DEF m

Secure == Basic /\ mode.pool = FALSE /\ Sound(net, transport, db, call)

LEMMA SecureFacts ==
    ASSUME Secure
    PROVE  /\ Basic /\ mode.pool = FALSE /\ mode.skip \in BOOLEAN
           /\ net \in Nets /\ call \in SomeCalls /\ transport \in Transport /\ db \in Databases
           /\ Hears(net) /\ AllFine(net, transport, call) /\ Known(net, transport, db)
           /\ Asked(net, transport, call) /\ Cleared(net, transport, call)
           /\ Lent(net) \subseteq Conns /\ Len(net.conns) \in Nat /\ Conns = 1..Len(net.conns)
           /\ \A k \in Conns : /\ net.conns[k] \in SomeConn /\ Fine(net.conns[k], k, transport, call)
                               /\ net.conns[k].heard <=> k \in Lent(net)
           /\ \A c \in Calls : call[c] \in SomeCall /\ Asks(net, transport, call[c])
           /\ \A k \in Conns : \A e \in Entries(net.conns[k]) : e.who # Login =>
                 e.who \in Calls /\ call[e.who].at = "sent"
<1>1. Basic /\ mode.pool = FALSE /\ Sound(net, transport, db, call)
  BY DEF Secure
<1>2. /\ mode.skip \in BOOLEAN /\ net \in Nets /\ call \in SomeCalls /\ transport \in Transport /\ db \in Databases
      /\ Lent(net) \subseteq Conns /\ \A k \in Conns : net.conns[k] \in SomeConn
      /\ \A c \in Calls : call[c] \in SomeCall
  BY <1>1, BasicFacts, Before
<1>3. Len(net.conns) \in Nat /\ Conns = 1..Len(net.conns)
  BY <1>2, NetType DEF Conns
<1>4. /\ Hears(net) /\ AllFine(net, transport, call) /\ Known(net, transport, db)
      /\ Asked(net, transport, call) /\ Cleared(net, transport, call)
  BY <1>1 DEF Sound
<1>5. \A k \in Conns : \A e \in Entries(net.conns[k]) : e.who # Login =>
                 e.who \in Calls /\ call[e.who].at = "sent"
  BY <1>1, Waiting
<1> QED
  BY <1>1, <1>2, <1>3, <1>4, <1>5 DEF Hears, AllFine, Asked

\* A step that leaves the connections and the login alone.
LEMMA CallsSound ==
    ASSUME Secure, NEW t, t.session = transport.session, t.connecting = transport.connecting, t.login = transport.login,
           NEW d, d.session = db.session, NEW x,
           \A c \in Calls : call[c].at = "sent" => x[c].session \in {call[c].session, 0},
           \A c \in Calls : Asks(net, transport, x[c]),
           Cut(t, x) => Cut(transport, call) /\ \A c \in Calls : x[c].at \notin {"ready", "begin"}
    PROVE  Sound(net, t, d, x)
<1>1. Hears(net)
  BY SecureFacts
<1>2. ASSUME NEW k \in Conns PROVE Fine(net.conns[k], k, t, x)
  <2>1. Fine(net.conns[k], k, transport, call)
    BY SecureFacts
  <2>2. \A e \in Entries(net.conns[k]) : e.who # Login => x[e.who].session \in {call[e.who].session, 0}
    BY SecureFacts
  <2> QED
    BY <2>1, <2>2, StaysFine
<1>3. AllFine(net, t, x)
  BY <1>2 DEF AllFine, Conns
<1>4. Known(net, t, d)
  BY SecureFacts DEF Known, HasSession
<1>5. Asked(net, t, x)
  BY DEF Asked, Asks, HasSession
<1>6. Cleared(net, t, x)
  BY SecureFacts DEF Cleared
<1> QED
  BY <1>1, <1>3, <1>4, <1>5, <1>6 DEF Sound

LEMMA StartSound ==
    ASSUME Secure, NEW c \in Calls, Start(c)
    PROVE  Sound(net', transport', db', call')
<1> DEFINE k == call[c]
<1>1. /\ k.at = "idle" /\ call[c] \in SomeCall /\ call \in SomeCalls
      /\ \A x \in Calls : call[x].at # "failed"
      /\ UNCHANGED <<mode, net, transport, db>>
  BY SecureFacts DEF Start, At
<1>2. k.session = 0 /\ Asked(net, transport, call) /\ Known(net, transport, db)
  BY <1>1, SecureFacts DEF Asks
<1>3. /\ call' \in [Calls -> SomeCall] /\ \A x \in Calls : x # c => call'[x] = call[x]
      /\ call'[c].at \in {"ready", "begin"}
      /\ call'[c].session \in {0, db.session}
  <2>0. call' \in SomeCalls
    BY SecureFacts, StartKeeps DEF Basic, TypeOK
  <2>1. \/ call' = [call EXCEPT ![c].kind = "server", ![c].what = "op", ![c].at = "ready"]
        \/ call' = [call EXCEPT ![c].kind = "db", ![c].what = "op", ![c].at = "begin"]
        \/ call' = [call EXCEPT ![c].kind = "close", ![c].what = "db-close",
                                  ![c].session = db.session, ![c].at = "ready"]
    BY DEF Start
  <2>2. \/ call' = [call EXCEPT ![c] = [k EXCEPT !.kind = "server", !.what = "op", !.at = "ready"]]
        \/ call' = [call EXCEPT ![c] = [k EXCEPT !.kind = "db", !.what = "op", !.at = "begin"]]
        \/ call' = [call EXCEPT ![c] = [k EXCEPT !.kind = "close", !.what = "db-close",
                                  !.session = db.session, !.at = "ready"]]
    BY <2>1
  <2>3. k \in [kind : Kinds, what : Whats, session : Nat, at : AtRest \cup AtWork, on : Nat, err : Errors]
    BY <1>1 DEF SomeCall
  <2> HIDE DEF k
  <2> QED
    BY <1>1, <1>2, <2>0, <2>2, <2>3, ZenonT(60) DEF SomeCalls
<1>4. Asks(net, transport, call'[c])
  BY <1>2, <1>3 DEF Asks, Known
<1>5. \A x \in Calls : Asks(net, transport, call'[x])
  BY <1>2, <1>3, <1>4 DEF Asked
<1>6. ~Cut(transport, call')
  BY <1>1, <1>3 DEF Cut, CutOff
<1>7. \A x \in Calls : call[x].at = "sent" => call'[x].session \in {call[x].session, 0}
  BY <1>1, <1>3
<1>8. Sound(net, transport, db, call')
  BY <1>5, <1>6, <1>7, CallsSound
<1> QED
  BY <1>1, <1>8

LEMMA OpenSound ==
    ASSUME Secure, NEW c \in Calls, Open(c)
    PROVE  Sound(net', transport', db', call')
<1> DEFINE k == call[c]
<1>1. /\ k.at = "begin" /\ call[c] \in SomeCall /\ call \in SomeCalls
      /\ UNCHANGED <<mode, net, transport>>
  BY SecureFacts DEF Open, At
<1>2. /\ Asked(net, transport, call) /\ Known(net, transport, db) /\ Cleared(net, transport, call)
      /\ db \in Databases
  BY SecureFacts
<1>3. /\ call' \in [Calls -> SomeCall] /\ \A x \in Calls : x # c => call'[x] = call[x]
      /\ call'[c].at \in {"ready", "opening", "rejected"}
      /\ call'[c].at = "ready" => call'[c].session \in {0, db.session}
      /\ db'.session = db.session
  <2>0. call' \in SomeCalls
    BY SecureFacts, OpenKeeps DEF Basic, TypeOK
  <2>1. k \in [kind : Kinds, what : Whats, session : Nat, at : AtRest \cup AtWork, on : Nat, err : Errors]
    BY <1>1 DEF SomeCall
  <2>2. CASE db.session # 0
    <3>1. call' = [call EXCEPT ![c] = [k EXCEPT !.what = "op", !.session = db.session, !.at = "ready"]] /\ db' = db
      BY <2>2 DEF Open
    <3> HIDE DEF k
    <3> QED
      BY <1>1, <2>0, <2>1, <3>1 DEF SomeCalls
  <2>3. CASE db.session = 0 /\ mode.skip /\ db.opening # "none"
    <3>1. call' = Moved(call, {c}, IF db.opening = "pending" THEN "opening" ELSE "rejected") /\ db' = db
      BY <2>3 DEF Open
    <3> DEFINE at == IF db.opening = "pending" THEN "opening" ELSE "rejected"
    <3>2. at \in AtRest \cup AtWork /\ call[c].what # "none" /\ at \in {"opening", "rejected"}
      BY <1>1 DEF AtRest, AtWork, SomeCall
    <3> HIDE DEF at
    <3>3. /\ \A x \in Calls : x \notin {c} => Moved(call, {c}, at)[x] = call[x]
          /\ \A x \in Calls : x \in {c} => Moved(call, {c}, at)[x].at = at
      BY <1>1, <3>2, MovedOf
    <3>4. call' = Moved(call, {c}, at)
      BY <3>1 DEF at
    <3> QED
      BY <2>0, <3>1, <3>2, <3>3, <3>4 DEF SomeCalls
  <2>4. CASE db.session = 0 /\ ~(mode.skip /\ db.opening # "none")
    <3>1. call' = [call EXCEPT ![c] = [k EXCEPT !.what = "db-open", !.session = 0, !.at = "ready"]]
          /\ db' = [db EXCEPT !.opening = IF mode.skip THEN "pending" ELSE db.opening]
      <4>1. /\ call' = [call EXCEPT ![c].what = "db-open", ![c].session = 0, ![c].at = "ready"]
            /\ db' = [db EXCEPT !.opening = IF mode.skip THEN "pending" ELSE @]
        BY <2>4, ZenonT(30) DEF Open
      <4> QED
        BY <4>1
    <3>2. db'.session = db.session
      BY <1>2, <3>1 DEF Databases
    <3> HIDE DEF k
    <3> QED
      BY <1>1, <2>0, <2>1, <3>1, <3>2 DEF SomeCalls
  <2> QED
    BY <2>2, <2>3, <2>4
<1>4. Asks(net, transport, call'[c])
  BY <1>2, <1>3 DEF Asks, Known
<1>5. \A x \in Calls : Asks(net, transport, call'[x])
  BY <1>2, <1>3, <1>4 DEF Asked
<1>6. ~Cut(transport, call')
  <2>1. ~Cut(transport, call)
    BY <1>1, <1>2 DEF Cleared
  <2> QED
    BY <1>3, <2>1 DEF Cut, CutOff
<1>7. \A x \in Calls : call[x].at = "sent" => call'[x].session \in {call[x].session, 0}
  BY <1>1, <1>3
<1>8. Sound(net, transport, db', call')
  BY <1>3, <1>5, <1>6, <1>7, CallsSound
<1> QED
  BY <1>1, <1>8

\* No call has a session.
Unknown(x) == \A c \in Calls : x[c].at \in {"idle", "login", "ready"} => x[c].session = 0

LEMMA BlankSound ==
    ASSUME NEW n \in Nets, Hears(n), \A k \in 1..Len(n.conns) : Blank(n.conns[k]),
           NEW t, t.session = 0, mode.skip => t.connecting = "none", NEW d, d.session = 0,
           NEW x, Unknown(x), Cleared(n, t, x)
    PROVE  Sound(n, t, d, x)
<1>1. AllFine(n, t, x)
  BY NetType, BlankIsFine DEF AllFine
<1>2. Known(n, t, d) /\ Asked(n, t, x)
  BY DEF Known, Asked, Asks, Unknown
<1> QED
  BY <1>1, <1>2 DEF Sound

LEMMA ConnectingSound ==
    ASSUME NEW n \in Nets, mode.pool = FALSE, ~mode.skip, Hears(n), \A k \in 1..Len(n.conns) : Blank(n.conns[k]) /\ Neat(n.conns[k]),
           NEW t \in Transport, t.session = 0, Connecting(n, t), NEW d, d.session = 0,
           NEW x, Unknown(x), ~Cut(transport', x)
    PROVE  Sound(net', transport', d, x)
<1>1. /\ net' = Sent(n, LoginRequest) 
      /\ transport'.connecting = "pending" /\ transport'.login = Attempt(n)
      /\ transport'.session = 0
  BY ConnectingOf
<1>2. LoggingIn(transport', Attempt(n))
  BY <1>1 DEF LoggingIn
<1>3. Hears(net') /\ AllFine(net', transport', x)
  BY <1>1, <1>2, LoginFine
<1>4. Known(net', transport', d) /\ Asked(net', transport', x)
  BY <1>1 DEF Known, Asked, Asks, Unknown
<1>5. Cleared(net', transport', x)
  BY DEF Cleared
<1> QED
  BY <1>3, <1>4, <1>5 DEF Sound

\* The transport has no session, so that nobody has one.
LEMMA NobodyKnows ==
    ASSUME Secure, transport.session = 0, ~mode.skip
    PROVE  /\ Unknown(call) /\ db.session = 0
           /\ \A k \in Conns : \A e \in Entries(net.conns[k]) : e.who = Login /\ LoggingIn(transport, k) /\ net.conns[k].login = "none"
<1>1. Unknown(call)
  BY SecureFacts DEF Unknown, Asks, HasSession
<1>2. db.session = 0
  BY SecureFacts DEF Known, HasSession
<1>3. \A k \in Conns : \A e \in Entries(net.conns[k]) : e.who = Login /\ LoggingIn(transport, k) /\ net.conns[k].login = "none"
  BY SecureFacts DEF Fine, Carries, HasSession
<1> QED
  BY <1>1, <1>2, <1>3

LEMMA BlankLeaves ==
    ASSUME NEW conn \in SomeConn, Blank(conn)
    PROVE  Leaves(conn)
BY NoEntries DEF Blank, Leaves

\* Nobody is told of the reset of a network without requests.
LEMMA NobodyTold ==
    ASSUME NEW n \in Nets, mode.pool = FALSE, \A k \in 1..Len(n.conns) : Entries(n.conns[k]) = {}, NEW cs \in SomeCalls
    PROVE  \A c \in Calls : Dropped(cs, n)[c] = cs[c]
<1>1. \A c \in Calls : ~Told(n, c)
  BY NetType, NoEntries DEF Told
<1> QED
  BY <1>1, DroppedOf

LEMMA SettledAt ==
    ASSUME call \in SomeCalls, NEW c \in Calls, NEW outcome \in AtRest \cup AtWork, call[c].what # "none"
    PROVE  LET x == Settled(call, c, outcome) IN
           /\ x \in SomeCalls /\ x[c].at = outcome
           /\ \A d \in Calls : \/ x[d] = call[d]
                               \/ x[d].at = outcome /\ (d = c \/ call[d].at = "opening")
<1>1. PICK W : /\ Settled(call, c, outcome) = Moved(call, W, outcome)
               /\ c \in W /\ W \subseteq {c} \cup {x \in Calls : At(x, {"opening"})}
  BY SettledOf
<1>2. \A d \in W \cap Calls : call[d].what # "none" /\ (d = c \/ call[d].at = "opening")
  <2>1. \A d \in Calls : call[d] \in SomeCall
    BY DEF SomeCalls
  <2> QED
    BY <1>1, <2>1 DEF At, SomeCall, AtWork
<1> DEFINE x == Moved(call, W, outcome)
<1>3. /\ x \in SomeCalls
      /\ \A d \in Calls : d \notin W => x[d] = call[d]
      /\ \A d \in Calls : d \in W => x[d].at = outcome
  BY <1>2, MovedOf
<1> HIDE DEF x
<1> QED
  BY <1>1, <1>2, <1>3 DEF x

LEMMA AutoReconnectedSound ==
    ASSUME Secure, AutoReconnected
    PROVE  Sound(net', transport', db', call')
<1>1. /\ mode.skip /\ UNCHANGED <<net, db>> /\ \A c \in Calls : call[c].at # "failed"
      /\ transport' = [transport EXCEPT !.auto = 0] /\ transport \in Transport /\ call \in SomeCalls
      /\ \A c \in Calls : call[c] \in SomeCall
  BY SecureFacts DEF AutoReconnected, At
<1> DEFINE who == {c \in Calls : At(c, {"auto"})}
<1>2. call' = Resent(call, who) /\ \A c \in who \cap Calls : call[c].what # "none" /\ call[c].at = "auto"
  BY <1>1, CallType DEF AutoReconnected, At, AtWork
<1>3. who \subseteq Calls
  OBVIOUS
<1> HIDE DEF who
<1>4. /\ \A c \in Calls : c \notin who => call'[c] = call[c]
      /\ \A c \in Calls : c \in who => call'[c].at \in {"begin", "ready"} /\ call'[c].session = 0
  BY <1>1, <1>2, ResentOf
<1>5. transport'.session = transport.session /\ transport'.connecting = transport.connecting /\ transport'.login = transport.login
  BY <1>1 DEF Transport
<1>6. \A c \in Calls : call[c].at = "sent" => call'[c].session \in {call[c].session, 0}
  BY <1>4
<1>7. \A c \in Calls : Asks(net, transport, call'[c])
  BY <1>4, SecureFacts DEF Asks
<1>8. ~Cut(transport', call')
  BY <1>1, <1>4 DEF Cut, CutOff
<1> DEFINE t == transport'
           y == call'
<1> HIDE DEF t, y
<1>9. Sound(net, t, db, y)
  BY <1>5, <1>6, <1>7, <1>8, CallsSound DEF t, y
<1> QED
  BY <1>1, <1>9 DEF t, y

LEMMA AutoReconnectAndSendSound ==
    ASSUME Secure, NEW c \in Calls, AutoReconnectAndSend(c)
    PROVE  Sound(net', transport', db', call')
<1>1. /\ call[c].at = "failed" /\ call[c] \in SomeCall /\ call \in SomeCalls /\ transport \in Transport
      /\ db \in Databases /\ call[c].what # "none" /\ Basic
      /\ mode.pool = FALSE /\ mode.skip \in BOOLEAN /\ net \in Nets /\ Hears(net)
      /\ \A d \in Calls : Asks(net, transport, call[d])
  BY SecureFacts, CallType DEF AutoReconnectAndSend, At, AtWork
<1>2. ASSUME NEW x, NEW d, d.session = db.session, 
             \A i \in Calls : \/ x[i] = call[i]
                              \/ /\ call[i].at # "sent" /\ x[i].at # "failed"
                                 /\ x[i].at \in {"idle", "login", "ready"} => x[i].session = 0
                                 /\ transport.auto = 0 => x[i].at \notin {"ready", "begin"}
      PROVE  Sound(net, transport, d, x)
  <2>1. \A i \in Calls : call[i].at = "sent" => x[i].session \in {call[i].session, 0}
    BY <1>2
  <2>2. \A i \in Calls : Asks(net, transport, x[i])
    BY <1>1, <1>2 DEF Asks
  <2>3. Cut(transport, x) => Cut(transport, call) /\ \A i \in Calls : x[i].at \notin {"ready", "begin"}
    BY <1>2, SecureFacts DEF Cut, CutOff, Cleared
  <2> QED
    BY <1>2, <2>1, <2>2, <2>3, CallsSound
<1>3. ASSUME NEW at \in {"rejected", "stranded"}, call' = Settled(call, c, at),
             db' \in {db, OpeningFails(c)}, UNCHANGED <<net, transport>>
      PROVE  Sound(net', transport', db', call')
  <2>1. at \in AtRest \cup AtWork
    BY DEF AtRest
  <2>2. \A d \in Calls : \/ call'[d] = call[d]
                         \/ call'[d].at = at /\ (d = c \/ call[d].at = "opening")
    BY <1>1, <1>3, <2>1, SettledAt
  <2>3. db'.session = db.session
    BY <1>1, <1>3 DEF OpeningFails, Databases
  <2> DEFINE x == call'
             d == db'
  <2> HIDE DEF x, d
  <2>4. Sound(net, transport, d, x)
    BY <1>1, <1>2, <2>2, <2>3 DEF x, d
  <2> QED
    BY <1>3, <2>4 DEF x, d
<1>4. CASE call[c].err \notin Reconnectable
  BY <1>1, <1>3, <1>4 DEF AutoReconnectAndSend
<1>5. CASE call[c].err \in Reconnectable /\ transport.auto # 0
  <2>1. UNCHANGED <<net, transport>>
    BY <1>1, <1>5 DEF AutoReconnectAndSend
  <2>2. \/ call' = Put(call, c, "auto", transport.login) /\ db' = db
        \/ call' = Resent(call, {c}) /\ db' = db
        \/ call' = Settled(call, c, "rejected") /\ db' = OpeningFails(c)
        \/ call' = Settled(call, c, "stranded") /\ db' = db
    BY <1>5 DEF AutoReconnectAndSend, Put
  <2>3. ASSUME \A d \in Calls : d # c => call'[d] = call[d], db' = db,
               call'[c].at \in {"auto", "ready", "begin"}, call'[c].at = "ready" => call'[c].session = 0
        PROVE  Sound(net', transport', db', call')
    <3> DEFINE x == call'
    <3> HIDE DEF x
    <3>1. Sound(net, transport, db, x)
      BY <1>1, <1>2, <1>5, <2>3 DEF x
    <3> QED
      BY <2>1, <2>3, <3>1 DEF x
  <2>4. CASE call' = Put(call, c, "auto", transport.login) /\ db' = db
    <3>1. "auto" \in AtRest \cup AtWork /\ transport.login \in Nat
      BY <1>1 DEF AtWork, Transport
    <3>2. call'[c].at = "auto" /\ \A d \in Calls : d # c => call'[d] = call[d]
      BY <1>1, <2>4, <3>1, OneCall
    <3> QED
      BY <2>3, <2>4, <3>2
  <2>5. CASE call' = Resent(call, {c}) /\ db' = db
    <3>1. /\ \A d \in Calls : d \notin {c} => call'[d] = call[d]
          /\ \A d \in Calls : d \in {c} => call'[d].session = 0 /\ call'[d].at \in {"begin", "ready"}
      BY <1>1, <2>5, ResentOf
    <3> QED
      BY <2>3, <2>5, <3>1
  <2> QED
    BY <1>3, <2>1, <2>2, <2>4, <2>5
<1>6. CASE call[c].err \in Reconnectable /\ transport.auto = 0
  <2>0. Cut(transport, call)
    BY <1>1, <1>6 DEF Cut, CutOff
  <2>1. servers' = ShiftServer /\ servers'[1].host \in STRING
    BY <1>1, <1>6, Before, ShiftServerType, ServersType DEF AutoReconnectAndSend
  <2>2. CASE ~ServerLeft
    <3>1. call' = Settled(call, c, "rejected") /\ db' = OpeningFails(c) /\ UNCHANGED <<net, transport>>
      BY <1>6, <2>2 DEF AutoReconnectAndSend
    <3> QED
      BY <1>3, <3>1
  <2>3. CASE ServerLeft
    <3> DEFINE n == Reset(net, servers')
               x == Dropped(call, net)
               on == IF mode.skip THEN 0 ELSE Attempt(n)
    <3>1. /\ call' = Put(x, c, "auto", on) /\ db' = [db EXCEPT !.session = 0]
          /\ IF mode.skip
             THEN net' = n /\ transport' = [NoSession EXCEPT !.auto = 1]
             ELSE Connecting(n, [NoSession EXCEPT !.auto = on])
      BY <1>6, <2>3 DEF AutoReconnectAndSend, Put
    <3>2. /\ \A d \in Calls : call[d].at \notin {"ready", "begin"}
          /\ \A k \in Conns : Entries(net.conns[k]) = {} /\ net.conns[k].login = "none"
      BY <2>0, SecureFacts DEF Cleared
    <3>3. \A k \in 1..Len(net.conns) : Leaves(net.conns[k])
      BY <3>2, SecureFacts, BlankLeaves DEF Blank
    <3>4. /\ n \in Nets /\ Hears(n) /\ \A k \in 1..Len(n.conns) : Blank(n.conns[k])
      BY <1>1, <2>1, <3>3, ResetBlank
    <3>5. \A d \in Calls : x[d] = call[d]
      BY <1>1, <3>2, NobodyTold DEF Conns
    <3>6. x \in SomeCalls /\ \A k \in 1..Len(n.conns) : Neat(n.conns[k])
      BY <1>1, <1>6, <2>1, BasicFacts, Before, ShiftServerType, ResetOrderly
    <3> HIDE DEF n, x
    <3>7. on \in Nat /\ (~mode.skip => on # 0)
      BY <1>1, <3>4, PlaceOf
    <3> HIDE DEF on
    <3>8. "auto" \in AtRest \cup AtWork
      BY DEF AtWork
    <3>9. call'[c].at = "auto" /\ \A d \in Calls : d # c => call'[d] = call[d]
      BY <1>1, <3>1, <3>5, <3>6, <3>7, <3>8, OneCall
    <3>10. \A d \in Calls : call[d].at = "login" \/ call[d].at = "idle" => call[d].session = 0
      BY <1>1 DEF Asks
    <3>11. Unknown(call')
      BY <1>1, <3>2, <3>9, <3>10 DEF Unknown
    <3>12. db'.session = 0
      BY <1>1, <3>1 DEF Databases
    <3>13. NoSession \in Transport /\ NoSession.session = 0 /\ NoSession.connecting = "none"
      BY <1>1, NoSessionType
    <3>14. CASE mode.skip
      <4>1. net' = n /\ transport'.session = 0 /\ transport'.connecting = "none" /\ transport'.auto = 1
        BY <3>1, <3>13, <3>14 DEF Transport
      <4> DEFINE t == transport'
                 y == call'
                 d == db'
      <4>2. Cleared(n, t, y)
        BY <4>1 DEF Cleared, Cut
      <4> HIDE DEF t, y, d
      <4>3. Sound(n, t, d, y)
        BY <3>4, <3>11, <3>12, <4>1, <4>2, BlankSound DEF t, y, d
      <4> QED
        BY <4>1, <4>3 DEF t, y, d
    <3>15. CASE ~mode.skip
      <4> DEFINE t == [NoSession EXCEPT !.auto = on]
                 y == call'
                 d == db'
      <4>1. t \in Transport /\ t.session = 0 /\ t.auto = on
        BY <3>7, <3>13 DEF Transport
      <4>2. Connecting(n, t)
        BY <3>1, <3>15
      <4> HIDE DEF t
      <4>3. transport'.auto = on
        BY <1>1, <3>4, <3>6, <4>1, <4>2, ConnectingOf
      <4>4. ~Cut(transport', y)
        BY <3>7, <3>15, <4>3 DEF Cut
      <4> HIDE DEF y, d
      <4>5. Unknown(y) /\ d.session = 0
        BY <3>11, <3>12 DEF y, d
      <4>6. Sound(net', transport', d, y)
        BY <1>1, <3>4, <3>6, <3>15, <4>1, <4>2, <4>4, <4>5, ConnectingSound
      <4> QED
        BY <4>6 DEF y, d
    <3> QED
      BY <1>1, <3>14, <3>15
  <2> QED
    BY <2>2, <2>3
<1> QED
  BY <1>4, <1>5, <1>6

LEMMA SendSound ==
    ASSUME Secure, NEW c \in Calls, Send(c)
    PROVE  Sound(net', transport', db', call')
<1> DEFINE s == IF call[c].session # 0 THEN call[c].session ELSE transport.session
           r == RequestOf(c, s)
           again == transport.connecting = "rejected"
           n == IF again THEN Reset(net, servers) ELSE net
           cs == IF again THEN Dropped(call, net) ELSE call
<1>1. /\ call[c].at = "ready" /\ call[c] \in SomeCall /\ call \in SomeCalls /\ transport \in Transport /\ db \in Databases
      /\ call[c].what # "none" /\ Basic /\ call[c].session \in Nat /\ transport.session \in Nat
      /\ mode.pool = FALSE /\ mode.skip \in BOOLEAN /\ net \in Nets /\ Hears(net) /\ servers[1].host \in STRING
      /\ Asked(net, transport, call) /\ Known(net, transport, db)
      /\ \A d \in Calls : Asks(net, transport, call[d])
      /\ UNCHANGED <<mode, servers>>
  BY SecureFacts, CallType, BasicFacts DEF Send, At, AtWork, Transport
<1>2. ~Cut(transport, call)
  BY <1>1, SecureFacts DEF Cleared
<1>3. s \in {0} \cup Lent(net) /\ (s # 0 => HasSession(transport)) /\ s \in Nat
  BY <1>1 DEF Asks, Known, HasSession
<1>4. CASE s # 0 \/ mode.skip
  <2> DEFINE p == Attempt(net)
             conn == Place(net, p)
             x == Hand(call, net, r)
             o == Offered(conn, r)
  <2>1. net' = Sent(net, r) /\ call' = x /\ UNCHANGED transport
        /\ db' = IF call'[c].at = "resolved" THEN [db EXCEPT !.session = 0] ELSE db
    BY <1>4 DEF Send
  <2>2. r \in SomeRequest /\ r.who = c /\ r.session = s /\ r.reply = "none" /\ r.who # Login
    BY <1>1, <1>3, RequestOfType
  <2>3. /\ \A d \in Calls : d # c => x[d] = call[d]
        /\ conn.stage = "broken" => x[c].at = "failed" /\ x[c].err = "thrown"
        /\ conn.stage = "open" /\ r.what = "db-close" => x[c].at = "resolved"
        /\ conn.stage # "broken" /\ ~(conn.stage = "open" /\ r.what = "db-close") =>
              x[c].at = "sent" /\ x[c].session = call[c].session
    BY <1>1, <1>3, HandOf
  <2>4. /\ conn \in SomeConn /\ conn.heard
        /\ p \in 1..Len(net.conns) => conn = net.conns[p]
        /\ p \notin 1..Len(net.conns) => Entries(conn) = {} /\ conn.login = "none"
    BY <1>1, PlaceOf
  <2>5. Lent(Sent(net, r)) = Lent(net) \cup {p} /\ Lent(Sent(net, r)) = {p}
    BY <1>1, <2>2, SentOf DEF Limit
  <2>6. s \in {0, p}
    BY <1>3, <2>5
  <2>7. HasSession(transport)
    BY <1>3, <1>4 DEF HasSession
  <2>8. Fine(conn, p, transport, call)
    <3>1. CASE p \in Conns
      BY <2>4, <3>1, SecureFacts
    <3>2. CASE p \notin Conns
      BY <2>4, <3>2, NoEntries DEF Conns, Fine, Failed
    <3> QED
      BY <3>1, <3>2
  <2>9. \A e \in Entries(conn) : e.who # Login => e.who \in Calls /\ call[e.who].at = "sent" /\ e.who # c
    <3>1. CASE p \in Conns
      BY <1>1, <2>4, <3>1, SecureFacts
    <3>2. CASE p \notin Conns
      BY <2>4, <3>2 DEF Conns
    <3> QED
      BY <3>1, <3>2
  <2> HIDE DEF conn, p, x, r, s
  <2>10. ASSUME r \in Entries(o) PROVE x[r.who].session \in {0, p}
    <3>1. conn.stage # "broken" /\ ~(conn.stage = "open" /\ r.what = "db-close")
      BY <2>2, <2>4, <2>9, <2>10, OfferedTo, OfferedPlaces, <2>8 DEF Fine
    <3>2. x[c].session = call[c].session
      BY <2>3, <3>1
    <3>3. call[c].session \in {0, p}
      BY <2>6 DEF s
    <3> QED
      BY <2>2, <3>2, <3>3
  <2>11. Fine(o, p, transport, x)
    <3>1. \A e \in Entries(conn) : e.who # Login => x[e.who].session \in {call[e.who].session, 0}
      BY <2>3, <2>9
    <3> HIDE DEF o
    <3>2. r.session \in {0, p}
      BY <2>2, <2>6
    <3>3. r \in Entries(Offered(conn, r)) => x[r.who].session \in {0, p}
      BY <2>10 DEF o
    <3> QED
      BY <2>2, <2>4, <2>7, <2>8, <3>1, <3>2, <3>3, OfferedFine DEF o
  <2>12. ASSUME NEW k \in 1..Len(net.conns) PROVE Fine(net.conns[k], k, transport, x)
    <3>1. \A e \in Entries(net.conns[k]) : e.who # Login => x[e.who].session \in {call[e.who].session, 0}
      BY <1>1, <2>3, SecureFacts
    <3>2. Fine(net.conns[k], k, transport, call)
      BY SecureFacts
    <3> QED
      BY <3>1, <3>2, StaysFine
  <2> HIDE DEF o
  <2>13. Sent(net, r) \in Nets /\ Hears(Sent(net, r)) /\ AllFine(Sent(net, r), transport, x)
    BY <1>1, <2>2, <2>11, <2>12, SentFine DEF o, conn, p
  <2>14. Known(Sent(net, r), transport, db')
    <3>1. db'.session \in {db.session, 0}
      BY <1>1, <2>1 DEF Databases
    <3> QED
      BY <1>1, <2>5, <3>1 DEF Known
  <2>15. x[c].at \in {"failed", "resolved", "sent"} /\ (x[c].at = "failed" => x[c].err = "thrown")
    BY <2>3
  <2>16. Asked(Sent(net, r), transport, x)
    BY <1>1, <2>3, <2>5, <2>15 DEF Asked, Asks
  <2>17. ~Cut(transport, x)
    BY <1>2, <2>3, <2>15 DEF Cut, CutOff, Reconnectable
  <2> DEFINE d == db'
             m == Sent(net, r)
  <2> HIDE DEF d, m
  <2>18. Sound(m, transport, d, x)
    BY <2>13, <2>14, <2>16, <2>17 DEF Sound, Cleared, m, d
  <2> QED
    BY <2>1, <2>18 DEF m, d
<1>5. CASE s = 0 /\ ~mode.skip /\ transport.connecting = "pending"
  <2>1. call' = Put(call, c, "login", transport.login) /\ UNCHANGED <<net, transport, db>>
    BY <1>5 DEF Send, Put
  <2>2. "login" \in AtRest \cup AtWork /\ transport.login \in Nat
    BY <1>1 DEF AtWork, Transport
  <2> DEFINE x == Put(call, c, "login", transport.login)
  <2>3. x[c].at = "login" /\ x[c].session = call[c].session /\ \A d \in Calls : d # c => x[d] = call[d]
    BY <1>1, <2>2, OneCall
  <2>4. call[c].session = 0
    BY <1>5
  <2> HIDE DEF x
  <2>5. \A d \in Calls : Asks(net, transport, x[d])
    BY <1>1, <2>3, <2>4 DEF Asks
  <2>6. ~Cut(transport, x)
    BY <1>2, <2>3 DEF Cut, CutOff
  <2>7. Sound(net, transport, db, x)
    BY <1>1, <2>3, <2>5, <2>6, CallsSound
  <2> QED
    BY <2>1, <2>7 DEF x
<1>6. CASE s = 0 /\ ~mode.skip /\ transport.connecting # "pending"
  <2>1. /\ Connecting(n, IF again THEN NoSession ELSE transport)
        /\ call' = Put(cs, c, "login", Attempt(n))
        /\ db' = IF again THEN [db EXCEPT !.session = 0] ELSE db
    BY <1>6 DEF Send, Put
  <2>2. transport.session = 0 /\ Unknown(call) /\ db.session = 0
    BY <1>6, NobodyKnows
  <2>3. \A k \in 1..Len(net.conns) : Entries(net.conns[k]) = {}
    BY <1>6, <2>2, NobodyKnows DEF LoggingIn, Conns
  <2>4. \A k \in 1..Len(net.conns) : Blank(net.conns[k])
    BY <1>6, <2>3, SecureFacts DEF Blank, Fine, Failed, LoggingIn
  <2>5. n \in Nets /\ Hears(n) /\ \A k \in 1..Len(n.conns) : Blank(n.conns[k])
    <3>1. CASE again
      <4>1. \A k \in 1..Len(net.conns) : Leaves(net.conns[k])
        BY <1>1, <2>4, BlankLeaves, NetType
      <4> DEFINE m == Reset(net, servers)
      <4>2. m \in Nets /\ Hears(m) /\ \A k \in 1..Len(m.conns) : Blank(m.conns[k])
        BY <1>1, <4>1, ResetBlank
      <4> QED
        BY <3>1, <4>2
    <3>2. CASE ~again
      BY <1>1, <2>4, <3>2
    <3> QED
      BY <3>1, <3>2
  <2>6. cs \in SomeCalls /\ \A k \in 1..Len(n.conns) : Neat(n.conns[k])
    <3>1. CASE again
      BY <1>1, <3>1, BasicFacts, Before, ResetOrderly
    <3>2. CASE ~again
      BY <1>1, <3>2, BasicFacts DEF Conns
    <3> QED
      BY <3>1, <3>2
  <2>7. \A d \in Calls : cs[d] = call[d]
    BY <1>1, <2>3, NobodyTold
  <2> DEFINE t == IF again THEN NoSession ELSE transport
  <2>8. t \in Transport /\ t.session = 0 /\ t.auto = transport.auto
    BY <1>1, <2>2, NoSessionType
  <2>9. db'.session = 0
    BY <1>1, <2>1, <2>2 DEF Databases
  <2>10. Connecting(n, t)
    BY <2>1
  <2> HIDE DEF t, n, cs
  <2>11. transport'.auto = transport.auto
    BY <1>1, <2>5, <2>6, <2>8, <2>10, ConnectingOf
  <2>12. Attempt(n) \in Nat /\ "login" \in AtRest \cup AtWork
    BY <1>1, <2>5, PlaceOf DEF AtWork
  <2> DEFINE x == Put(cs, c, "login", Attempt(n))
             d == db'
  <2>13. /\ x[c].at = "login" /\ x[c].session = call[c].session /\ \A i \in Calls : i # c => x[i] = call[i]
    BY <1>1, <2>6, <2>7, <2>12, OneCall
  <2> HIDE DEF x, d
  <2>14. Unknown(x)
    BY <1>1, <2>2, <2>13 DEF Unknown
  <2>15. ~Cut(transport', x)
    BY <1>2, <2>11, <2>13 DEF Cut, CutOff
  <2>16. d.session = 0
    BY <2>9 DEF d
  <2>17. Sound(net', transport', d, x)
    BY <1>1, <1>6, <2>5, <2>6, <2>8, <2>10, <2>14, <2>15, <2>16, ConnectingSound
  <2> QED
    BY <2>1, <2>17 DEF x, d
<1> QED
  BY <1>4, <1>5, <1>6

LEMMA ConfigPushedSound ==
    ASSUME Secure, NEW k, ConfigPushed(k)
    PROVE  Sound(net', transport', db', call')
<1>1. UNCHANGED <<net, transport, db, call>>
  BY DEF ConfigPushed
<1> QED
  BY <1>1 DEF Secure

LEMMA LoginFailsSound ==
    ASSUME Secure, NEW k \in Conns, LoginFails(k)
    PROVE  Sound(net', transport', db', call')
<1> DEFINE err == net.conns[k].login
           n0 == [net EXCEPT !.conns[k].login = "none"]
<1>1. /\ err # "none" /\ Basic /\ mode.pool = FALSE /\ mode.skip \in BOOLEAN /\ net \in Nets /\ Hears(net) /\ call \in SomeCalls
      /\ transport \in Transport /\ db \in Databases /\ UNCHANGED mode
      /\ servers' = IF err = "refused" THEN ShiftServer ELSE servers
      /\ k \in 1..Len(net.conns) /\ k # 0
      /\ Known(net, transport, db)
      /\ \A d \in Calls : call[d] \in SomeCall /\ Asks(net, transport, call[d])
  <2>1. /\ err # "none" /\ UNCHANGED mode
        /\ servers' = IF err = "refused" THEN ShiftServer ELSE servers
    BY DEF LoginFails
  <2>2. k \in 1..Len(net.conns) /\ k # 0
    BY SecureFacts
  <2> HIDE DEF err
  <2> QED
    BY <2>1, <2>2, SecureFacts
<1>2. /\ ~mode.skip /\ transport.session = 0
      /\ net.conns[k].heard => LoggingIn(transport, k)
      /\ ~net.conns[k].heard => err # "refused"
  BY <1>1, SecureFacts DEF Fine, Failed
<1>3. Unknown(call) /\ db.session = 0 /\ ~Cut(transport, call)
  BY <1>1, <1>2, NobodyKnows, SecureFacts DEF Cleared
<1>4. /\ n0 \in Nets /\ Neatly(n0) /\ Sheds(n0, net) /\ Lent(n0) = Lent(net) /\ Len(n0.conns) = Len(net.conns)
      /\ \A j \in Conns : j # k => n0.conns[j] = net.conns[j]
      /\ n0.conns[k] = [net.conns[k] EXCEPT !.login = "none"]
      /\ Placed(n0, call)
  BY <1>1, Lowered, BasicFacts
<1>5. /\ n0.conns[k].login = "none" /\ n0.conns[k].heard = net.conns[k].heard
      /\ n0.conns[k].queue = net.conns[k].queue /\ n0.conns[k].waiting = net.conns[k].waiting
      /\ n0.conns[k].stage = net.conns[k].stage
  <2>1. net.conns[k] \in SomeConn
    BY SecureFacts
  <2> QED
    BY <1>4, <2>1 DEF SomeConn
<1> HIDE DEF n0
<1>6. Hears(n0)
  BY <1>1, <1>4, <1>5 DEF Hears, Conns
<1>7. CASE err = "refused" /\ ServerLeft
  <2> DEFINE n == Reset(n0, servers')
             on == Attempt(n)
             t == [NoSession EXCEPT !.auto = IF NoSession.auto = k THEN on ELSE NoSession.auto]
  <2>1. /\ Connecting(n, t)
        /\ call' = [c \in Calls |-> IF c \in Waiters(k) THEN [call[c] EXCEPT !.on = on]
                                            ELSE Dropped(call, net)[c]]
        /\ db' = [db EXCEPT !.session = 0]
    BY <1>7 DEF LoginFails, n0
  <2>2. servers' \in Servers /\ servers'[1].host \in STRING
    BY <1>1, <1>7, Before, ShiftServerType, ServersType
  <2>3. LoggingIn(transport, k) /\ k \in Lent(net)
    BY <1>1, <1>2, <1>7, SecureFacts
  <2>4. ASSUME NEW j \in Conns PROVE Entries(net.conns[j]) = {}
    <3> SUFFICES ASSUME NEW e \in Entries(net.conns[j]) PROVE FALSE
      OBVIOUS
    <3>1. LoggingIn(transport, j) /\ net.conns[j].login = "none"
      BY <1>2, NobodyKnows
    <3> QED
      BY <1>1, <2>3, <3>1 DEF LoggingIn
  <2>5. ASSUME NEW j \in 1..Len(n0.conns) PROVE Leaves(n0.conns[j])
    <3>0. j \in Conns
      BY <1>4 DEF Conns
    <3>1. Entries(n0.conns[j]) = {}
      BY <1>4, <1>5, <2>4, <3>0 DEF Entries
    <3>2. n0.conns[j] \in SomeConn
      BY <1>4, NetType
    <3>3. Blank(n0.conns[j])
      <4>1. CASE j = k
        BY <1>5, <3>1, <4>1 DEF Blank
      <4>2. CASE j # k
        <5>1. n0.conns[j] = net.conns[j] /\ Failed(net.conns[j], j, transport)
          BY <1>4, <3>0, <4>2, SecureFacts DEF Fine
        <5>2. ~net.conns[j].heard
          <6> SUFFICES ASSUME net.conns[j].heard PROVE FALSE
            OBVIOUS
          <6>1. j \in Lent(net)
            BY <3>0, SecureFacts
          <6> QED
            BY <1>1, <2>3, <4>2, <6>1, OneInUse
        <5> QED
          BY <1>2, <3>1, <5>1, <5>2 DEF Blank, Failed
      <4> QED
        BY <4>1, <4>2
    <3> QED
      BY <3>2, <3>3, BlankLeaves
  <2>6. /\ n \in Nets /\ Hears(n) /\ \A j \in 1..Len(n.conns) : Blank(n.conns[j])
    BY <1>1, <1>4, <1>6, <2>2, <2>5, ResetBlank
  <2>7. \A j \in 1..Len(n.conns) : Neat(n.conns[j])
    BY <1>1, <1>4, <2>2, ResetOrderly
  <2>8. \A c \in Calls : Dropped(call, net)[c] = call[c]
    BY <1>1, <2>4, NobodyTold DEF Conns
  <2> HIDE DEF n
  <2>9. on \in Nat \ {0}
    BY <1>1, <2>6, PlaceOf
  <2>10. NoSession \in Transport /\ NoSession.session = 0 /\ NoSession.auto = transport.auto
    BY <1>1, NoSessionType
  <2> HIDE DEF on
  <2>11. t \in Transport /\ t.session = 0 /\ (t.auto = 0 => transport.auto = 0)
    BY <2>9, <2>10 DEF Transport
  <2>12. db'.session = 0
    BY <1>1, <2>1 DEF Databases
  <2> HIDE DEF t
  <2>13. transport'.auto = t.auto
    BY <1>1, <2>1, <2>6, <2>7, <2>11, ConnectingOf
  <2> DEFINE x == call'
             d == db'
  <2>14. \A c \in Calls : x[c] = call[c] \/ x[c] = [call[c] EXCEPT !.on = on]
    BY <2>1, <2>8
  <2>15. \A c \in Calls : x[c].at = call[c].at /\ x[c].session = call[c].session /\ x[c].err = call[c].err
    BY <1>1, <2>14 DEF SomeCall
  <2> HIDE DEF x, d
  <2>16. Unknown(x)
    BY <1>3, <2>15 DEF Unknown
  <2>17. ~Cut(transport', x)
    BY <1>3, <2>11, <2>13, <2>15 DEF Cut, CutOff
  <2>18. d.session = 0
    BY <2>12 DEF d
  <2>19. Sound(net', transport', d, x)
    BY <1>1, <1>2, <2>1, <2>6, <2>7, <2>11, <2>16, <2>17, <2>18, ConnectingSound
  <2> QED
    BY <2>19 DEF x, d
<1>8. CASE ~(err = "refused" /\ ServerLeft)
  <2>1. /\ net' = n0
        /\ transport' = IF transport.login = k THEN [transport EXCEPT !.connecting = "rejected"]
                            ELSE transport
        /\ call' = Moved(call, Waiters(k), "rejected") /\ db' = db
    BY <1>8 DEF LoginFails, n0
  <2>2. /\ transport'.session = 0 /\ transport'.login = transport.login /\ transport'.auto = transport.auto
        /\ transport.login # k => transport' = transport
    BY <1>1, <1>2, <2>1 DEF Transport
  <2>3. \A c \in Calls : call'[c] = call[c] \/ (call'[c].at = "rejected" /\ call[c].at # "sent")
    <3>1. "rejected" \in AtRest \cup AtWork /\ "rejected" \notin AtWork
      BY DEF AtRest, AtWork
    <3>2. \A c \in Calls : c \notin Waiters(k) => call'[c] = call[c]
      BY <1>1, <2>1, <3>1, MovedOf
    <3>3. \A c \in Calls : c \in Waiters(k) => call'[c].at = "rejected"
      BY <1>1, <2>1, <3>1, MovedOf
    <3>4. \A c \in Waiters(k) : call[c].at # "sent"
      BY DEF Waiters, At
    <3> QED
      BY <3>2, <3>3, <3>4
  <2>4. Unknown(call') /\ ~Cut(transport', call')
    BY <1>3, <2>2, <2>3 DEF Unknown, Cut, CutOff
  <2> DEFINE x == call'
             t == transport'
  <2> HIDE DEF x, t
  <2>5. ASSUME NEW j \in 1..Len(n0.conns) PROVE Fine(n0.conns[j], j, t, x)
    <3>0. j \in Conns /\ Fine(net.conns[j], j, transport, call)
      BY <1>4, SecureFacts DEF Conns
    <3>1. \A e \in Entries(net.conns[j]) : e.who = Login /\ LoggingIn(transport, j) /\ net.conns[j].login = "none"
      BY <1>2, <3>0, NobodyKnows
    <3>2. CASE j = k
      <4>1. Entries(net.conns[k]) = {}
        BY <1>1, <3>1, <3>2
      <4>2. Entries(n0.conns[k]) = {}
        BY <1>5, <4>1 DEF Entries
      <4>3. Blank(n0.conns[k]) /\ n0.conns[k] \in SomeConn /\ t.session = 0
        BY <1>1, <1>4, <1>5, <2>2, <4>2, NetType DEF Blank, t
      <4> QED
        BY <3>2, <4>3, BlankIsFine
    <3>3. CASE j # k
      <4>1. n0.conns[j] = net.conns[j]
        BY <1>4, <3>0, <3>3
      <4>2. CASE transport.login # k
        <5>1. t = transport
          BY <2>2, <4>2 DEF t
        <5> QED
          BY <3>0, <3>1, <4>1, <5>1, StaysFine
      <4>3. CASE transport.login = k
        <5>1. ~LoggingIn(transport, j)
          BY <3>3, <4>3 DEF LoggingIn
        <5>2. Entries(net.conns[j]) = {}
          BY <3>1, <5>1
        <5>3. Blank(net.conns[j]) /\ net.conns[j] \in SomeConn /\ t.session = 0
          BY <1>2, <2>2, <3>0, <5>1, <5>2, SecureFacts DEF Fine, Failed, Blank, t
        <5> QED
          BY <4>1, <5>3, BlankIsFine
      <4> QED
        BY <4>2, <4>3
    <3> QED
      BY <3>2, <3>3
  <2>6. AllFine(n0, t, x)
    BY <2>5 DEF AllFine
  <2>7. Known(n0, t, db)
    BY <1>2, <1>3, <2>2 DEF Known, t
  <2>8. Asked(n0, t, x) /\ Cleared(n0, t, x)
    BY <2>4 DEF Asked, Asks, Unknown, Cleared, t, x
  <2>9. Sound(n0, t, db, x)
    BY <1>6, <2>6, <2>7, <2>8 DEF Sound
  <2> QED
    BY <2>1, <2>9 DEF t, x
<1> QED
  BY <1>7, <1>8

--------------------------------------------------------------------------------
(* The sessions of the sockets.                                                  *)

LEMMA CalmFacts ==
    ASSUME Calm
    PROVE  /\ \A c \in Calls : call[c].at \notin {"begin", "ready", "failed"}
           /\ \A k \in Conns : net.conns[k].login = "none"
           /\ mode.skip => transport.auto = 0
BY DEF Calm, At

LEMMA FailingSession ==
    ASSUME NEW cs \in SomeCalls, NEW who, NEW err
    PROVE  \A c \in Calls : Failing(cs, who, err)[c].session = cs[c].session
<1> TAKE c \in Calls
<1>1. cs[c] \in SomeCall
  BY DEF SomeCalls
<1> DEFINE z == cs[c]
<1>2. [z EXCEPT !.at = "failed", !.err = err].session = z.session
  BY <1>1 DEF SomeCall
<1>3. Failing(cs, who, err)[c] = IF c \in who THEN [z EXCEPT !.at = "failed", !.err = err] ELSE z
  BY DEF Failing
<1> HIDE DEF z
<1>4. Failing(cs, who, err)[c].session = z.session
  BY <1>2, <1>3
<1> QED
  BY <1>4 DEF z

LEMMA MovedSession ==
    ASSUME NEW cs \in SomeCalls, NEW who, NEW place
    PROVE  \A c \in Calls : Moved(cs, who, place)[c].session \in {cs[c].session, 0}
<1> TAKE c \in Calls
<1>1. cs[c] \in SomeCall
  BY DEF SomeCalls
<1> DEFINE z == cs[c]
           kind == IF z.kind = "close" THEN "close" ELSE "none"
           y == [NoCall EXCEPT !.kind = kind, !.at = place]
           w == [z EXCEPT !.at = place]
<1>2. y.session = 0
  BY DEF NoCall
<1>3. w.session = z.session
  BY <1>1 DEF SomeCall
<1>4. Moved(cs, who, place)[c] \in {z, y, w}
  BY DEF Moved
<1> HIDE DEF z, y, w
<1>5. Moved(cs, who, place)[c].session \in {z.session, 0}
  BY <1>2, <1>3, <1>4
<1> QED
  BY <1>5 DEF z

LEMMA SettledSession ==
    ASSUME call \in SomeCalls, NEW c, NEW outcome
    PROVE  \A d \in Calls : Settled(call, c, outcome)[d].session \in {call[d].session, 0}
<1>1. PICK W : Settled(call, c, outcome) = Moved(call, W, outcome)
  BY SettledOf
<1> QED
  BY <1>1, MovedSession

LEMMA EmptyFine ==
    ASSUME NEW conn \in SomeConn, Entries(conn) = {}, conn.login = "none", NEW k, NEW t, NEW cs
    PROVE  Fine(conn, k, t, cs)
BY NoEntries DEF Fine, Failed

\* Where a call waits for its answer there is no login, and nobody waits elsewhere.
LEMMA CallerAlone ==
    ASSUME Secure, NEW k \in Conns, NEW e \in Entries(net.conns[k]), e.who # Login
    PROVE  /\ HasSession(transport) /\ k \in Lent(net) /\ net.conns[k].heard
           /\ \A f \in Entries(net.conns[k]) : f.who # Login
           /\ ~HasLogin(net.conns[k].queue) /\ ~HasLogin(net.conns[k].waiting)
           /\ \A j \in Conns : j # k => Entries(net.conns[j]) = {} /\ ~net.conns[j].heard
           /\ call[e.who].session \in {0, k}
<1>1. /\ Fine(net.conns[k], k, transport, call) /\ net.conns[k] \in SomeConn
      /\ net.conns[k].heard <=> k \in Lent(net)
  BY SecureFacts
<1>2. HasSession(transport) /\ net.conns[k].heard /\ k \in Lent(net) /\ call[e.who].session \in {0, k}
  BY <1>1 DEF Fine, Carries
<1>3. \A f \in Entries(net.conns[k]) : f.who # Login
  BY <1>1, <1>2 DEF Fine, Carries, LoggingIn, HasSession
<1>4. ~HasLogin(net.conns[k].queue) /\ ~HasLogin(net.conns[k].waiting)
  <2>1. net.conns[k].queue \in Requests /\ net.conns[k].waiting \in Requests
    BY <1>1, ConnType
  <2> QED
    BY <1>3, <2>1, CallersOf DEF Entries
<1>5. ASSUME NEW j \in Conns, j # k PROVE Entries(net.conns[j]) = {} /\ ~net.conns[j].heard
  <2>1. net \in Nets /\ mode.pool = FALSE /\ Fine(net.conns[j], j, transport, call)
        /\ (net.conns[j].heard <=> j \in Lent(net))
    BY SecureFacts
  <2>2. j \notin Lent(net)
    BY <1>2, <1>5, <2>1, OneInUse
  <2> QED
    BY <2>1, <2>2 DEF Fine
<1> QED
  BY <1>2, <1>3, <1>4, <1>5

\* A login is alone on its connection.
LEMMA LoginAlone ==
    ASSUME Secure, NEW k \in Conns, NEW e \in Entries(net.conns[k]), e.who = Login
    PROVE  /\ LoggingIn(transport, k) /\ k \in Lent(net) /\ net.conns[k].heard
           /\ Len(net.conns[k].queue) + Len(net.conns[k].waiting) <= 1
           /\ \A j \in Conns : j # k => Entries(net.conns[j]) = {} /\ ~net.conns[j].heard
<1>1. /\ Fine(net.conns[k], k, transport, call) /\ net.conns[k] \in SomeConn
      /\ net.conns[k].heard <=> k \in Lent(net)
  BY SecureFacts
<1>2. LoggingIn(transport, k) /\ net.conns[k].heard /\ k \in Lent(net)
      /\ Len(net.conns[k].queue) + Len(net.conns[k].waiting) <= 1
  BY <1>1 DEF Fine, Carries
<1>3. ASSUME NEW j \in Conns, j # k PROVE Entries(net.conns[j]) = {} /\ ~net.conns[j].heard
  <2>1. net \in Nets /\ mode.pool = FALSE /\ Fine(net.conns[j], j, transport, call)
        /\ (net.conns[j].heard <=> j \in Lent(net))
    BY SecureFacts
  <2>2. j \notin Lent(net)
    BY <1>2, <1>3, <2>1, OneInUse
  <2> QED
    BY <2>1, <2>2 DEF Fine
<1> QED
  BY <1>2, <1>3

\* A step of one connection.
LEMMA ConnSound ==
    ASSUME Secure, NEW k \in Conns, NEW o \in SomeConn, o.heard = net.conns[k].heard,
           NEW x, Fine(o, k, transport, x), NEW d, Known(net, transport, d),
           \A c \in Calls : call[c].at = "sent" => x[c].session \in {call[c].session, 0},
           \A c \in Calls : Asks(net, transport, x[c]),
           Cut(transport, x) =>
              /\ \A c \in Calls : x[c].at \notin {"ready", "begin"}
              /\ Entries(o) = {} /\ o.login = "none"
              /\ \A j \in Conns : j # k => Entries(net.conns[j]) = {} /\ net.conns[j].login = "none"
    PROVE  Sound([net EXCEPT !.conns[k] = o], transport, d, x)
<1> DEFINE m == [net EXCEPT !.conns[k] = o]
<1>1. net \in Nets /\ k \in 1..Len(net.conns) /\ Conns = 1..Len(net.conns) /\ Hears(net)
  BY SecureFacts
<1>2. /\ Len(m.conns) = Len(net.conns) /\ m.conns[k] = o /\ Lent(m) = Lent(net)
      /\ \A j \in 1..Len(net.conns) : j # k => m.conns[j] = net.conns[j]
  BY <1>1, ChangedNet
<1> HIDE DEF m
<1>3. Hears(m)
  BY <1>1, <1>2 DEF Hears
<1>4. ASSUME NEW j \in 1..Len(m.conns) PROVE Fine(m.conns[j], j, transport, x)
  <2>1. CASE j = k
    BY <1>2, <2>1
  <2>2. CASE j # k
    <3>0. j \in Conns
      BY <1>1, <1>2
    <3>1. Fine(net.conns[j], j, transport, call) /\ m.conns[j] = net.conns[j]
      BY <1>1, <1>2, <2>2, <3>0, SecureFacts
    <3>2. \A e \in Entries(net.conns[j]) : e.who # Login => x[e.who].session \in {call[e.who].session, 0}
      BY <3>0, SecureFacts
    <3> QED
      BY <3>1, <3>2, StaysFine
  <2> QED
    BY <2>1, <2>2
<1>5. Known(m, transport, d) /\ Asked(m, transport, x)
  BY <1>2 DEF Known, Asked, Asks
<1>6. Cleared(m, transport, x)
  BY <1>1, <1>2 DEF Cleared
<1> QED
  BY <1>3, <1>4, <1>5, <1>6 DEF Sound, AllFine, m

LEMMA ConnectedSound ==
    ASSUME Secure, NEW k \in Conns, Connected(k)
    PROVE  Sound(net', transport', db', call')
<1> DEFINE conn == net.conns[k]
           ws == conn.waiting
           open == [conn EXCEPT !.stage = "open", !.waiting = <<>>]
           o == Written(open, ws)
           closers == {conn.waiting[i].who : i \in {j \in 1..Len(conn.waiting) : conn.waiting[j].what = "db-close"}}
           x == Moved(call, closers, "resolved")
<1>1. /\ net' = [net EXCEPT !.conns[k] = o] /\ call' = x
      /\ db' = IF closers = {} THEN db ELSE [db EXCEPT !.session = 0]
      /\ UNCHANGED transport /\ Calm /\ conn.stage = "connecting"
  BY DEF Connected
<1>2. /\ conn \in SomeConn /\ ws \in Requests /\ conn.queue \in Requests /\ Fine(conn, k, transport, call)
      /\ call \in SomeCalls /\ db \in Databases /\ Known(net, transport, db)
      /\ \A c \in Calls : Asks(net, transport, call[c])
  BY SecureFacts, ConnType
<1>3. conn.queue = <<>> /\ conn.login = "none"
  BY <1>1, <1>2, CalmFacts DEF Fine
<1>4. open \in SomeConn /\ open.queue = <<>> /\ open.waiting = <<>> /\ open.stage = "open"
      /\ open.heard = conn.heard /\ open.login = "none"
  BY <1>2, <1>3, NoRequests DEF SomeConn, Stages
<1>5. Awaited(ws) \in Requests /\ Len(Awaited(ws)) <= Len(ws)
      /\ Members(Awaited(ws)) \subseteq Members(ws)
  <2> HIDE DEF ws
  <2> QED
    BY <1>2, AwaitedOf
<1> HIDE DEF conn, open, closers, ws
<1>6. /\ o \in SomeConn /\ o.queue = open.queue \o Awaited(ws) /\ o.waiting = <<>> /\ o.stage = "open"
      /\ o.heard = conn.heard /\ o.login = "none"
  <2>1. /\ o \in SomeConn /\ o.queue = open.queue \o Awaited(ws) /\ o.waiting = open.waiting
        /\ o.stage = open.stage /\ o.heard = open.heard /\ o.login = open.login
    BY <1>2, <1>4, WrittenOf
  <2> QED
    BY <1>4, <2>1
<1>7. o.queue = Awaited(ws)
  <2> DEFINE a == Awaited(ws)
  <2> HIDE DEF a
  <2>1. a \in Requests
    BY <1>5 DEF a
  <2>2. <<>> \o a = a
    BY <2>1, ConcatEmptySeq DEF Requests
  <2>3. o.queue = <<>> \o a
    BY <1>4, <1>6 DEF a
  <2> QED
    BY <2>2, <2>3 DEF a
<1> HIDE DEF o, x
<1>8. Entries(o) \subseteq Entries(conn)
  BY <1>5, <1>6, <1>7, NoRequests DEF Entries, ws
<1>9. Len(o.queue) + Len(o.waiting) <= Len(conn.queue) + Len(conn.waiting)
  <2>1. Len(o.queue) \in Nat /\ Len(o.waiting) = 0 /\ Len(conn.queue) = 0 /\ Len(ws) \in Nat
    BY <1>2, <1>3, <1>5, <1>6, <1>7, CallersOf
  <2> QED
    BY <1>5, <1>7, <2>1 DEF ws
<1>10. \A c \in Calls : x[c].session \in {call[c].session, 0}
  BY <1>2, MovedSession DEF x
<1>11. \A c \in Calls : x[c] = call[c] \/ x[c].at = "resolved"
  <2>1. "resolved" \in AtRest \cup AtWork /\ "resolved" \notin AtWork
    BY DEF AtRest, AtWork
  <2> QED
    BY <1>2, <2>1, MovedOf DEF x
<1>12. \A e \in Entries(conn) : e.who # Login => e.who \in Calls
  BY SecureFacts DEF conn
<1>13. Fine(o, k, transport, x)
  <2>1. ASSUME NEW e \in Entries(o) PROVE Carries(e, o, k, transport, x)
    <3>1. e \in Entries(conn) /\ Carries(e, conn, k, transport, call)
      BY <1>2, <1>8, <2>1 DEF Fine
    <3>2. Len(conn.queue) + Len(conn.waiting) <= 1 => Len(o.queue) + Len(o.waiting) <= 1
      <4>1. \A a, b, c, f \in Nat : a + b <= c + f /\ c + f <= 1 => a + b <= 1
        OBVIOUS
      <4>2. Len(conn.queue) \in Nat /\ Len(conn.waiting) \in Nat /\ Len(o.queue) \in Nat /\ Len(o.waiting) \in Nat
        BY <1>2, <1>6, ConnType, CallersOf
      <4> QED
        BY <1>9, <4>1, <4>2
    <3>3. e.who # Login => x[e.who].session \in {call[e.who].session, 0}
      BY <1>10, <1>12, <3>1
    <3> QED
      BY <1>6, <3>1, <3>2, <3>3 DEF Carries
  <2>2. o.heard \/ Entries(o) = {}
    BY <1>2, <1>6, <1>8 DEF Fine
  <2> QED
    BY <1>6, <2>1, <2>2 DEF Fine, Failed
<1>14. \A c \in Calls : Asks(net, transport, x[c])
  BY <1>2, <1>11 DEF Asks
<1>15. ~Cut(transport, x)
  BY <1>1, <1>11, CalmFacts DEF Cut, CutOff
<1>16. Known(net, transport, db')
  <2>1. db'.session \in {db.session, 0}
    BY <1>1, <1>2 DEF Databases
  <2> QED
    BY <1>2, <2>1 DEF Known
<1> DEFINE d == db'
<1> HIDE DEF d
<1>17. Sound([net EXCEPT !.conns[k] = o], transport, d, x)
  BY <1>6, <1>10, <1>13, <1>14, <1>15, <1>16, ConnSound DEF d, conn
<1> QED
  BY <1>1, <1>17 DEF d

LEMMA NotConnectedSound ==
    ASSUME Secure, NEW k \in Conns, NotConnected(k)
    PROVE  Sound(net', transport', db', call')
<1> DEFINE conn == net.conns[k]
<1>1. PICK err \in {"refused", "lost"} :
        /\ net' = [net EXCEPT !.conns[k] = [conn EXCEPT !.stage = "broken", !.waiting = <<>>,
                      !.login = IF HasLogin(conn.waiting) THEN err ELSE "none"]]
        /\ call' = Failing(call, Callers(conn.waiting), err)
        /\ Calm /\ conn.stage = "connecting"
        /\ UNCHANGED <<transport, db>>
  BY DEF NotConnected
<1> DEFINE flag == IF HasLogin(conn.waiting) THEN err ELSE "none"
           o == [conn EXCEPT !.stage = "broken", !.waiting = <<>>, !.login = flag]
           x == Failing(call, Callers(conn.waiting), err)
<1>2. /\ conn \in SomeConn /\ conn.waiting \in Requests /\ conn.queue \in Requests /\ Fine(conn, k, transport, call)
      /\ call \in SomeCalls /\ db \in Databases /\ Known(net, transport, db) /\ Basic
      /\ \A c \in Calls : Asks(net, transport, call[c])
  BY SecureFacts, ConnType
<1>3. conn.queue = <<>>
  BY <1>1, <1>2 DEF Fine
<1>4. flag \in Flags
  BY DEF Flags, Errors
<1>5. net' = [net EXCEPT !.conns[k] = o] /\ call' = x
  BY <1>1
<1> HIDE DEF flag
<1>6. o \in SomeConn /\ o.queue = <<>> /\ o.waiting = <<>> /\ o.heard = conn.heard /\ o.login = flag
  BY <1>2, <1>3, <1>4, NoRequests DEF SomeConn, Stages
<1> HIDE DEF o
<1>7. Entries(o) = {}
  BY <1>6, NoEntries
<1>8. \A c \in Callers(conn.waiting) : \E e \in Entries(conn) : e.who = c /\ e.who # Login
  <2>1. \A c \in Callers(conn.waiting) : c # Login
    BY DEF Callers
  <2>2. \A c \in Callers(conn.waiting) : \E e \in Members(conn.waiting) : e.who = c
    BY <1>2, CallersOf
  <2> QED
    BY <2>1, <2>2 DEF Entries
<1>9. \A c \in Calls : x[c].session = call[c].session
  BY <1>2, FailingSession
<1>10. /\ \A c \in Calls : c \notin Callers(conn.waiting) => x[c] = call[c]
       /\ \A c \in Calls : c \in Callers(conn.waiting) => x[c].at = "failed"
  <2>1. \A c \in Callers(conn.waiting) : call[c].what # "none"
    BY <1>2, Waiting DEF Bound
  <2> QED
    BY <1>2, <2>1, FailingOf DEF Errors
<1>11. HasLogin(conn.waiting) => LoggingIn(transport, k) /\ conn.heard
  <2> HAVE HasLogin(conn.waiting)
  <2>1. PICK e \in Entries(conn) : e.who = Login
    BY <1>2, LoginEntry DEF Entries
  <2> QED
    BY <2>1, LoginAlone
<1>12. Fine(o, k, transport, x)
  <2>1. Failed(o, k, transport)
    BY <1>6, <1>11 DEF Failed, flag, LoggingIn
  <2> QED
    BY <1>6, <1>7, <2>1 DEF Fine
<1>13. \A c \in Calls : Asks(net, transport, x[c])
  BY <1>2, <1>10 DEF Asks
<1>14. ASSUME Cut(transport, x)
       PROVE  /\ \A c \in Calls : x[c].at \notin {"ready", "begin"}
              /\ Entries(o) = {} /\ o.login = "none"
              /\ \A j \in Conns : j # k => Entries(net.conns[j]) = {} /\ net.conns[j].login = "none"
  <2>1. PICK c \in Calls : c \in Callers(conn.waiting)
    BY <1>1, <1>10, <1>14, CalmFacts DEF Cut, CutOff
  <2>2. PICK e \in Entries(conn) : e.who = c /\ e.who # Login
    BY <1>8, <2>1
  <2>3. ~HasLogin(conn.waiting) /\ \A j \in Conns : j # k => Entries(net.conns[j]) = {}
    BY <2>2, CallerAlone
  <2> QED
    BY <1>1, <1>6, <1>7, <1>10, <2>3, CalmFacts DEF flag
<1> HIDE DEF x
<1>15. Sound([net EXCEPT !.conns[k] = o], transport, db, x)
  BY <1>2, <1>6, <1>9, <1>12, <1>13, <1>14, ConnSound DEF conn
<1> QED
  BY <1>1, <1>5, <1>15

LEMMA ServeSound ==
    ASSUME Secure, NEW k \in Conns, Serve(k)
    PROVE  Sound(net', transport', db', call')
<1> DEFINE conn == net.conns[k]
<1>1. PICK i \in 1..Len(conn.queue), reply \in {"ok", "error", "redirect"} :
        /\ reply = "redirect" => conn.queue[i].what = "op"
        /\ net' = [net EXCEPT !.conns[k].queue[i].reply = reply]
        /\ UNCHANGED <<transport, db, call>> /\ Calm
  BY DEF Serve
<1> DEFINE q == conn.queue
           r == Replying(q[i], reply)
           t == Answered(q, i, reply)
           o == [conn EXCEPT !.queue = t]
<1>2. /\ conn \in SomeConn /\ q \in Requests /\ conn.waiting \in Requests /\ Fine(conn, k, transport, call)
      /\ Known(net, transport, db) /\ \A c \in Calls : Asks(net, transport, call[c])
  BY SecureFacts, ConnType
<1>3. net' = [net EXCEPT !.conns[k] = o]
  <2>1. net' = [net EXCEPT !.conns[k].queue[i].reply = reply]
    BY <1>1
  <2> QED
    BY <2>1 DEF Answered, Replying
<1>4. /\ t \in Requests /\ Len(t) = Len(q) /\ r.who = q[i].who /\ r.session = q[i].session
      /\ Members(t) \subseteq Members(q) \cup {r}
  <2>1. i \in 1..Len(q) /\ (reply = "redirect" => q[i].what = "op")
    BY <1>1
  <2>2. q \in Requests /\ reply \in {"ok", "error", "redirect"}
    BY <1>2
  <2> HIDE DEF q
  <2>3. t \in Requests /\ Len(t) = Len(q)
    BY <2>1, <2>2, Replied
  <2>4. r.who = q[i].who /\ r.session = q[i].session
    BY <2>1, <2>2, Replied
  <2>5. Members(t) \subseteq Members(q) \cup {r}
    BY <2>1, <2>2, Replied
  <2> HIDE DEF t, r
  <2> QED
    BY <2>3, <2>4, <2>5
<1>5. q[i] \in Entries(conn)
  BY <1>1 DEF Entries, Members
<1> HIDE DEF t, r
<1>6. /\ o \in SomeConn /\ o.queue = t /\ o.waiting = conn.waiting /\ o.heard = conn.heard
      /\ o.stage = conn.stage /\ o.login = conn.login
  BY <1>2, <1>4 DEF SomeConn
<1> HIDE DEF o
<1>7. t # <<>> => q # <<>>
  BY <1>2, <1>4, CallersOf
<1>8. ASSUME NEW e \in Entries(o)
      PROVE  \E f \in Entries(conn) : e.who = f.who /\ e.session = f.session
  BY <1>4, <1>5, <1>6, <1>8 DEF Entries
<1>9. ASSUME NEW e \in Entries(o) PROVE Carries(e, o, k, transport, call)
  <2>1. PICK f \in Entries(conn) : e.who = f.who /\ e.session = f.session
    BY <1>8, <1>9
  <2>2. Carries(f, conn, k, transport, call)
    BY <1>2, <2>1 DEF Fine
  <2> QED
    BY <1>4, <1>6, <2>1, <2>2 DEF Carries
<1>10. Fine(o, k, transport, call)
  <2>1. o.heard \/ Entries(o) = {}
    BY <1>2, <1>6, <1>8 DEF Fine
  <2> QED
    BY <1>2, <1>6, <1>7, <1>9, <2>1 DEF Fine, Failed
<1>11. ~Cut(transport, call)
  BY <1>1, CalmFacts DEF Cut, CutOff
<1>12. Sound([net EXCEPT !.conns[k] = o], transport, db, call)
  BY <1>2, <1>6, <1>10, <1>11, ConnSound DEF conn
<1> QED
  BY <1>1, <1>3, <1>12

\* The reset of connections whose logins have not failed.
LEMMA ResetUnflagged ==
    ASSUME NEW n \in Nets, mode.pool = FALSE, NEW svs, svs[1].host \in STRING,
           \A k \in 1..Len(n.conns) : n.conns[k].login = "none" /\ ~HasLogin(n.conns[k].queue)
    PROVE  \A k \in 1..Len(n.conns) : Reset(n, svs).conns[k].login = "none"
<1> TAKE k \in 1..Len(n.conns)
<1>1. Reset(n, svs).conns[k] = IF k \in Lent(n) THEN Left(n.conns[k]) ELSE n.conns[k]
  BY ResetOf
<1>2. n.conns[k] \in SomeConn
  BY NetType
<1>3. Left(n.conns[k]).login = IF HasLogin(n.conns[k].queue) THEN "cancelled" ELSE n.conns[k].login
  BY <1>2, LeftOf
<1> QED
  BY <1>1, <1>3

\* Connection k is lost and the network is reset.
LEMMA LosingSound ==
    ASSUME Secure, Calm, NEW k \in Conns, net.conns[k].heard, NEW o \in SomeConn, Leaves(o), o.heard,
           NEW svs, svs[1].host \in STRING, NEW t, t.session = 0, t.connecting = "none",
           NEW d, d.session = 0, NEW x, Unknown(x),
           Cut(t, x) => /\ \A c \in Calls : x[c].at \notin {"ready", "begin"}
                        /\ o.login = "none" /\ ~HasLogin(o.queue)
    PROVE  Sound(Reset([net EXCEPT !.conns[k] = o], svs), t, d, x)
<1> DEFINE n == [net EXCEPT !.conns[k] = o]
           m == Reset(n, svs)
<1>1. net \in Nets /\ k \in 1..Len(net.conns) /\ Conns = 1..Len(net.conns) /\ Hears(net) /\ mode.pool = FALSE
      /\ k \in Lent(net)
  BY SecureFacts
<1>2. /\ n \in Nets /\ Len(n.conns) = Len(net.conns) /\ n.conns[k] = o /\ Lent(n) = Lent(net)
      /\ \A j \in 1..Len(net.conns) : j # k => n.conns[j] = net.conns[j]
  BY <1>1, ChangedNet
<1> HIDE DEF n
<1>3. Hears(n)
  BY <1>1, <1>2 DEF Hears
<1>4. ASSUME NEW j \in Conns, j # k PROVE Blank(net.conns[j]) /\ net.conns[j].login = "none" /\ net.conns[j] \in SomeConn
  <2>1. j \notin Lent(net)
    BY <1>1, <1>4, OneInUse
  <2>2. Fine(net.conns[j], j, transport, call) /\ ~net.conns[j].heard /\ net.conns[j] \in SomeConn
    BY <2>1, SecureFacts
  <2> QED
    BY <2>2, <1>4, CalmFacts DEF Fine, Blank
<1>5. \A j \in 1..Len(n.conns) : Leaves(n.conns[j])
  BY <1>1, <1>2, <1>4, BlankLeaves
<1>6. m \in Nets /\ Hears(m) /\ Len(m.conns) = Len(n.conns) /\ \A j \in 1..Len(m.conns) : Blank(m.conns[j])
  BY <1>1, <1>2, <1>3, <1>5, ResetBlank
<1>7. ASSUME o.login = "none" /\ ~HasLogin(o.queue) PROVE \A j \in 1..Len(m.conns) : m.conns[j].login = "none"
  <2>1. \A j \in 1..Len(n.conns) : n.conns[j].login = "none" /\ ~HasLogin(n.conns[j].queue)
    BY <1>1, <1>2, <1>4, <1>7, NoEntries DEF Blank
  <2>2. \A j \in 1..Len(n.conns) : m.conns[j].login = "none"
    BY <1>1, <1>2, <2>1, ResetUnflagged
  <2> QED
    BY <1>6, <2>2
<1> HIDE DEF m
<1>8. Cleared(m, t, x)
  BY <1>6, <1>7 DEF Cleared, Blank
<1>9. Sound(m, t, d, x)
  BY <1>6, <1>8, BlankSound
<1> QED
  BY <1>9 DEF m, n

\* Calls that fail, and those of them whose requests were on k.
LEMMA LostCalls ==
    ASSUME Secure, NEW k \in Conns, NEW err \in Errors
    PROVE  LET q == net.conns[k].queue
               x == Failing(call, Callers(q), err) IN
           /\ x \in SomeCalls
           /\ \A c \in Calls : c \notin Callers(q) => x[c] = call[c]
           /\ \A c \in Calls : c \in Callers(q) => x[c].at = "failed"
           /\ \A c \in Calls : x[c].session = call[c].session
           /\ \A c \in Callers(q) : c \in Calls /\ call[c].at = "sent"
           /\ Callers(q) # {} => /\ ~HasLogin(q) /\ \A j \in Conns : j # k => Entries(net.conns[j]) = {}
<1> DEFINE q == net.conns[k].queue
           x == Failing(call, Callers(q), err)
<1>1. net.conns[k] \in SomeConn /\ q \in Requests /\ Basic /\ call \in SomeCalls
  BY SecureFacts, ConnType
<1>2. \A c \in Callers(q) : c \in Calls /\ call[c].at = "sent" /\ call[c].what # "none"
  BY <1>1, Waiting DEF Bound
<1>3. /\ x \in SomeCalls
      /\ \A c \in Calls : c \notin Callers(q) => x[c] = call[c]
      /\ \A c \in Calls : c \in Callers(q) => x[c].at = "failed"
  <2> DEFINE who == Callers(q)
  <2>1. \A c \in who \cap Calls : call[c].what # "none"
    BY <1>2
  <2> HIDE DEF who
  <2> QED
    BY <1>1, <2>1, FailingOf DEF who
<1>4. \A c \in Calls : x[c].session = call[c].session
  BY <1>1, FailingSession
<1>5. ASSUME NEW c \in Callers(q)
      PROVE  ~HasLogin(q) /\ \A j \in Conns : j # k => Entries(net.conns[j]) = {}
  <2>1. PICK e \in Members(q) : e.who = c
    BY <1>1, <1>5, CallersOf
  <2>2. e \in Entries(net.conns[k]) /\ e.who # Login
    BY <1>5, <2>1 DEF Entries, Callers
  <2> QED
    BY <2>2, CallerAlone
<1> QED
  BY <1>2, <1>3, <1>4, <1>5

LEMMA SocketFailsSound ==
    ASSUME Secure, NEW k \in Conns, SocketFails(k)
    PROVE  Sound(net', transport', db', call')
<1> DEFINE conn == net.conns[k]
<1>1. PICK err \in {"broken", "ended", "closed"} :
        LET n == [net EXCEPT !.conns[k] = Destroyed(conn, err)]
            cancelled == Failing(call, Callers(conn.queue), err)
        IN
        /\ Calm /\ conn.stage = "open"
        /\ IF err = "closed"
           THEN net' = n /\ call' = cancelled /\ UNCHANGED <<transport, db, crashed>>
           ELSE IF ~conn.heard \/ transport.retries > MaxRetries
           THEN crashed' = TRUE /\ UNCHANGED <<net, call, transport, db>>
           ELSE /\ net' = Reset(n, servers)
                /\ call' = Dropped(cancelled, n)
                /\ transport' = [NoSession EXCEPT !.retries = @ + 1]
                /\ db' = [db EXCEPT !.session = 0]
                /\ UNCHANGED crashed
  BY DEF SocketFails
<1> DEFINE o == Destroyed(conn, err)
           n == [net EXCEPT !.conns[k] = o]
           x == Failing(call, Callers(conn.queue), err)
<1>2. /\ conn \in SomeConn /\ conn.waiting \in Requests /\ conn.queue \in Requests /\ Fine(conn, k, transport, call)
      /\ call \in SomeCalls /\ db \in Databases /\ Known(net, transport, db) /\ Basic /\ err \in Errors
      /\ \A c \in Calls : Asks(net, transport, call[c])
      /\ servers[1].host \in STRING /\ mode.pool = FALSE /\ net \in Nets /\ k \in 1..Len(net.conns)
  BY SecureFacts, ConnType, BasicFacts DEF Errors
<1>3. conn.waiting = <<>> /\ conn.login = "none"
  BY <1>1, <1>2, CalmFacts DEF Fine
<1>4. /\ x \in SomeCalls
      /\ \A c \in Calls : c \notin Callers(conn.queue) => x[c] = call[c]
      /\ \A c \in Calls : c \in Callers(conn.queue) => x[c].at = "failed"
      /\ \A c \in Calls : x[c].session = call[c].session
      /\ Callers(conn.queue) # {} => ~HasLogin(conn.queue) /\ \A j \in Conns : j # k => Entries(net.conns[j]) = {}
  BY <1>2, LostCalls
<1>5. /\ o \in SomeConn /\ o.queue = <<>> /\ o.waiting = <<>> /\ o.stage = "idle" /\ o.heard = conn.heard
      /\ o.login = IF HasLogin(conn.queue) THEN err ELSE "none"
  BY <1>2, <1>3, DestroyedOf
<1>6. HasLogin(conn.queue) => LoggingIn(transport, k) /\ conn.heard
  <2> HAVE HasLogin(conn.queue)
  <2>1. PICK e \in Entries(conn) : e.who = Login
    BY <1>2, LoginEntry DEF Entries
  <2> QED
    BY <2>1, LoginAlone
<1> HIDE DEF o, x
<1>7. Entries(o) = {}
  BY <1>5, NoEntries
<1>8. ASSUME NEW t, Cut(t, x) PROVE Callers(conn.queue) # {}
  BY <1>1, <1>4, <1>8, CalmFacts DEF Cut, CutOff
<1>9. /\ \A c \in Calls : Asks(net, transport, x[c]) /\ x[c].at \notin {"ready", "begin"}
      /\ Unknown(x)
  BY <1>1, <1>2, <1>4, CalmFacts DEF Asks, Unknown
<1>10. CASE err = "closed"
  <2>1. net' = [net EXCEPT !.conns[k] = o] /\ call' = x /\ UNCHANGED <<transport, db>>
    BY <1>1, <1>10 DEF o, x
  <2>2. Fine(o, k, transport, x)
    <3>1. Failed(o, k, transport)
      BY <1>5, <1>6, <1>10 DEF Failed, LoggingIn
    <3> QED
      BY <1>5, <1>7, <3>1 DEF Fine
  <2>3. Cut(transport, x) =>
              /\ \A c \in Calls : x[c].at \notin {"ready", "begin"}
              /\ Entries(o) = {} /\ o.login = "none"
              /\ \A j \in Conns : j # k => Entries(net.conns[j]) = {} /\ net.conns[j].login = "none"
    BY <1>1, <1>4, <1>5, <1>7, <1>8, <1>9, CalmFacts
  <2>4. Sound([net EXCEPT !.conns[k] = o], transport, db, x)
    BY <1>2, <1>4, <1>5, <1>9, <2>2, <2>3, ConnSound DEF conn
  <2> QED
    BY <2>1, <2>4
<1>11. CASE err # "closed" /\ (~conn.heard \/ transport.retries > MaxRetries)
  BY <1>1, <1>11 DEF Secure
<1>12. CASE err # "closed" /\ conn.heard /\ ~(transport.retries > MaxRetries)
  <2>1. /\ net' = Reset(n, servers) /\ call' = Dropped(x, n)
        /\ transport' = [NoSession EXCEPT !.retries = NoSession.retries + 1]
        /\ db' = [db EXCEPT !.session = 0]
    BY <1>1, <1>12 DEF o, x
  <2>2. Leaves(o)
    BY <1>5, <1>6, <1>7, <1>12, NoEntries, NoRequests DEF Leaves, LoggingIn
  <2>3. transport'.session = 0 /\ transport'.connecting = "none"
    <3>1. NoSession \in Transport /\ NoSession.session = 0 /\ NoSession.connecting = "none"
      BY <1>2, NoSessionType
    <3> QED
      BY <2>1, <3>1 DEF Transport
  <2>4. db'.session = 0
    BY <1>2, <2>1 DEF Databases
  <2>5. /\ n \in Nets
        /\ \A j \in 1..Len(n.conns) : j \in Conns /\ n.conns[j] = IF j = k THEN o ELSE net.conns[j]
        /\ Lent(n) = Lent(net)
    <3>1. /\ n \in Nets /\ Len(n.conns) = Len(net.conns) /\ n.conns[k] = o /\ Lent(n) = Lent(net)
          /\ \A j \in 1..Len(net.conns) : j # k => n.conns[j] = net.conns[j]
      BY <1>2, <1>5, ChangedNet
    <3> HIDE DEF n, o
    <3>2. \A j \in 1..Len(n.conns) : j \in Conns /\ n.conns[j] = IF j = k THEN o ELSE net.conns[j]
      <4> TAKE j \in 1..Len(n.conns)
      <4>1. j \in 1..Len(net.conns)
        BY <3>1
      <4>2. j # k => n.conns[j] = net.conns[j]
        BY <3>1, <4>1
      <4> QED
        BY <3>1, <4>1, <4>2 DEF Conns
    <3> QED
      BY <3>1, <3>2
  <2> HIDE DEF n
  <2>6. \A c \in Calls : ~Told(n, c)
    <3>1. \A j \in Lent(n) : j = k
      <4>1. k \in Lent(net)
        BY <1>12, SecureFacts
      <4> TAKE j \in Lent(n)
      <4>2. j \in Lent(net)
        BY <2>5
      <4>3. net \in Nets /\ mode.pool = FALSE
        BY <1>2
      <4> QED
        BY <4>1, <4>2, <4>3, OneInUse
    <3>2. \A j \in Lent(n) : n.conns[j].queue = <<>>
      BY <1>2, <1>5, <2>5, <3>1, NetType
    <3> QED
      BY <1>2, <3>2, NoRequests DEF Told
  <2>7. \A c \in Calls : Dropped(x, n)[c] = x[c]
    BY <1>2, <1>4, <2>5, <2>6, DroppedOf
  <2> DEFINE y == Dropped(x, n)
             t == transport'
             d == db'
  <2>8. Unknown(y) /\ (Cut(t, y) => Cut(t, x)) /\ \A c \in Calls : y[c].at \notin {"ready", "begin"}
    BY <1>9, <2>7 DEF Unknown, Cut
  <2>9. o.heard
    BY <1>5, <1>12
  <2> HIDE DEF y, t, d
  <2>10. Cut(t, y) => \A c \in Calls : y[c].at \notin {"ready", "begin"}
    BY <2>8
  <2>11. Cut(t, y) => o.login = "none" /\ ~HasLogin(o.queue)
    BY <1>4, <1>5, <1>8, <2>8, NoRequests
  <2>12. t.session = 0 /\ t.connecting = "none" /\ d.session = 0
    BY <2>3, <2>4 DEF t, d
  <2>13. Sound(Reset([net EXCEPT !.conns[k] = o], servers), t, d, y)
    BY <1>1, <1>2, <1>5, <1>12, <2>2, <2>8, <2>9, <2>10, <2>11, <2>12, LosingSound
  <2> QED
    BY <2>1, <2>13 DEF y, t, d, n
<1> QED
  BY <1>10, <1>11, <1>12

LEMMA SocketEndsSound ==
    ASSUME Secure, NEW k \in Conns, SocketEnds(k)
    PROVE  Sound(net', transport', db', call')
<1> DEFINE conn == net.conns[k]
           o == [conn EXCEPT !.stage = "idle", !.ending = FALSE]
           n == [net EXCEPT !.conns[k] = o]
<1>1. /\ Calm /\ conn.stage = "open"
      /\ IF conn.heard
         THEN /\ net' = Reset(n, servers) /\ call' = Dropped(call, n)
              /\ transport' = NoSession /\ db' = [db EXCEPT !.session = 0]
         ELSE net' = n /\ UNCHANGED <<call, transport, db>>
  BY DEF SocketEnds
<1>2. /\ conn \in SomeConn /\ conn.waiting \in Requests /\ conn.queue \in Requests /\ Fine(conn, k, transport, call)
      /\ call \in SomeCalls /\ db \in Databases /\ Known(net, transport, db) /\ Basic
      /\ \A c \in Calls : Asks(net, transport, call[c])
      /\ servers[1].host \in STRING /\ mode.pool = FALSE /\ net \in Nets /\ k \in 1..Len(net.conns)
  BY SecureFacts, ConnType, BasicFacts
<1>3. conn.waiting = <<>> /\ conn.login = "none"
  BY <1>1, <1>2, CalmFacts DEF Fine
<1>4. /\ o \in SomeConn /\ o.queue = conn.queue /\ o.waiting = <<>> /\ o.stage = "idle" /\ o.heard = conn.heard
      /\ o.login = "none"
  BY <1>2, <1>3 DEF SomeConn, Stages
<1> HIDE DEF o
<1>5. Entries(o) = Entries(conn)
  BY <1>3, <1>4 DEF Entries
<1>6. \A c \in Calls : call[c].at \notin {"ready", "begin", "failed"}
  BY <1>1, CalmFacts
<1>7. CASE ~conn.heard
  <2>1. Entries(o) = {}
    BY <1>2, <1>5, <1>7 DEF Fine
  <2>2. Fine(o, k, transport, call)
    BY <1>4, <2>1, EmptyFine
  <2>3. ~Cut(transport, call)
    BY <1>6 DEF Cut, CutOff
  <2>4. net' = [net EXCEPT !.conns[k] = o] /\ UNCHANGED <<call, transport, db>>
    BY <1>1, <1>7
  <2>5. Sound([net EXCEPT !.conns[k] = o], transport, db, call)
    BY <1>2, <1>4, <2>2, <2>3, ConnSound DEF conn
  <2> QED
    BY <2>4, <2>5
<1>8. CASE conn.heard
  <2> DEFINE y == Dropped(call, n)
             t == transport'
             d == db'
  <2>1. net' = Reset(n, servers) /\ call' = y /\ transport' = NoSession /\ db' = [db EXCEPT !.session = 0]
    BY <1>1, <1>8
  <2>2. Leaves(o)
    <3>1. HasLogin(conn.queue) => ~mode.skip
      <4> HAVE HasLogin(conn.queue)
      <4>1. PICK e \in Entries(conn) : e.who = Login
        BY <1>2, LoginEntry DEF Entries
      <4> QED
        BY <4>1, LoginAlone DEF LoggingIn
    <3> QED
      BY <1>4, <1>8, <3>1 DEF Leaves
  <2>3. t.session = 0 /\ t.connecting = "none" /\ d.session = 0
    <3>1. NoSession.session = 0 /\ NoSession.connecting = "none"
      BY <1>2, NoSessionType
    <3> QED
      BY <1>2, <2>1, <3>1 DEF Databases
  <2>4. /\ n \in Nets /\ Len(n.conns) = Len(net.conns) /\ n.conns[k] = o /\ Lent(n) = Lent(net)
        /\ \A j \in 1..Len(net.conns) : j # k => n.conns[j] = net.conns[j]
    BY <1>2, <1>4, ChangedNet
  <2> HIDE DEF n
  <2>5. ASSUME NEW c \in Calls, Told(n, c) PROVE call[c].what # "none"
    <3>1. PICK j \in Lent(n) : c \in Callers(n.conns[j].queue)
      BY <1>2, <2>5 DEF Told
    <3>2. j \in Conns /\ n.conns[j].queue = net.conns[j].queue
      <4>1. j \in 1..Len(net.conns)
        BY <1>2, <2>4, NetType
      <4>2. CASE j = k
        BY <1>4, <2>4, <4>1, <4>2 DEF Conns
      <4>3. CASE j # k
        BY <2>4, <4>1, <4>3 DEF Conns
      <4> QED
        BY <4>2, <4>3
    <3> QED
      BY <1>2, <3>1, <3>2, Waiting DEF Bound
  <2>6. \A c \in Calls : y[c] = call[c] \/ (y[c].at = "failed" /\ y[c].err = "cancelled")
    BY <1>2, <2>4, <2>5, DroppedOf
  <2> HIDE DEF y, t, d
  <2>7. Unknown(y)
    BY <1>2, <1>6, <2>6 DEF Unknown, Asks
  <2>8. ~Cut(t, y)
    BY <1>6, <2>6 DEF Cut, CutOff, Reconnectable
  <2>9. o.heard
    BY <1>4, <1>8
  <2>10. Sound(Reset([net EXCEPT !.conns[k] = o], servers), t, d, y)
    BY <1>1, <1>2, <1>4, <1>8, <2>2, <2>3, <2>7, <2>8, <2>9, LosingSound
  <2> QED
    BY <2>1, <2>10 DEF y, t, d, n
<1> QED
  BY <1>7, <1>8

LEMMA OperationTimeoutSound ==
    ASSUME Secure, NEW k \in Conns, OperationTimeout(k)
    PROVE  Sound(net', transport', db', call')
<1> DEFINE conn == net.conns[k]
           b == Destroyed(conn, "ended")
           o == [b EXCEPT !.timedOut = TRUE, !.waiting = <<>>]
           x == Failing(call, Callers(conn.queue), "ended")
           y == Moved(x, Callers(conn.waiting), "stranded")
<1>1. Calm /\ net' = [net EXCEPT !.conns[k] = o] /\ call' = y /\ UNCHANGED <<transport, db>>
  BY DEF OperationTimeout
<1>2. /\ conn \in SomeConn /\ conn.waiting \in Requests /\ conn.queue \in Requests /\ Fine(conn, k, transport, call)
      /\ call \in SomeCalls /\ Known(net, transport, db) /\ Basic /\ "ended" \in Errors
      /\ \A c \in Calls : Asks(net, transport, call[c])
  BY SecureFacts, ConnType DEF Errors
<1>3. /\ x \in SomeCalls
      /\ \A c \in Calls : c \notin Callers(conn.queue) => x[c] = call[c]
      /\ \A c \in Calls : c \in Callers(conn.queue) => x[c].at = "failed"
      /\ \A c \in Calls : x[c].session = call[c].session
      /\ Callers(conn.queue) # {} => ~HasLogin(conn.queue) /\ \A j \in Conns : j # k => Entries(net.conns[j]) = {}
  BY <1>2, LostCalls
<1>4. conn.login = "none" /\ \A c \in Calls : call[c].at \notin {"ready", "begin", "failed"}
  BY <1>1, CalmFacts
<1>5. /\ o \in SomeConn /\ o.queue = <<>> /\ o.waiting = <<>> /\ o.stage = "idle" /\ o.heard = conn.heard
      /\ o.login = IF HasLogin(conn.queue) THEN "ended" ELSE "none"
  <2>1. /\ b \in SomeConn /\ b.queue = <<>> /\ b.stage = "idle" /\ b.heard = conn.heard
        /\ b.login = IF HasLogin(conn.queue) THEN "ended" ELSE conn.login
    BY <1>2, DestroyedOf
  <2> HIDE DEF b
  <2> QED
    BY <1>4, <2>1, NoRequests DEF SomeConn
<1> HIDE DEF o, x
<1>6. Entries(o) = {}
  BY <1>5, NoEntries
<1>7. HasLogin(conn.queue) => LoggingIn(transport, k) /\ conn.heard
  <2> HAVE HasLogin(conn.queue)
  <2>1. PICK e \in Entries(conn) : e.who = Login
    BY <1>2, LoginEntry DEF Entries
  <2> QED
    BY <2>1, LoginAlone
<1>8. Fine(o, k, transport, y)
  <2>1. Failed(o, k, transport)
    BY <1>5, <1>7 DEF Failed, LoggingIn
  <2> QED
    BY <1>5, <1>6, <2>1 DEF Fine
<1>9. \A c \in Calls : y[c].session \in {call[c].session, 0}
  BY <1>3, MovedSession
<1>10. \A c \in Calls : y[c] = x[c] \/ y[c].at = "stranded"
  <2>1. "stranded" \in AtRest \cup AtWork /\ "stranded" \notin AtWork
    BY DEF AtRest, AtWork
  <2> QED
    BY <1>3, <2>1, MovedOf
<1> HIDE DEF y
<1>11. \A c \in Calls : Asks(net, transport, y[c]) /\ y[c].at \notin {"ready", "begin"}
  BY <1>2, <1>3, <1>4, <1>10 DEF Asks
<1>12. Cut(transport, y) =>
              /\ \A c \in Calls : y[c].at \notin {"ready", "begin"}
              /\ Entries(o) = {} /\ o.login = "none"
              /\ \A j \in Conns : j # k => Entries(net.conns[j]) = {} /\ net.conns[j].login = "none"
  <2> HAVE Cut(transport, y)
  <2>1. Callers(conn.queue) # {}
    BY <1>3, <1>4, <1>10 DEF Cut, CutOff
  <2> QED
    BY <1>1, <1>3, <1>5, <1>6, <1>11, <2>1, CalmFacts
<1>13. Sound([net EXCEPT !.conns[k] = o], transport, db, y)
  BY <1>2, <1>5, <1>8, <1>9, <1>11, <1>12, ConnSound DEF conn
<1> QED
  BY <1>1, <1>13

\* A login is answered with a session.
LEMMA LoggedInSound ==
    ASSUME Secure, Calm, NEW k \in Conns, NEW e \in Entries(net.conns[k]), e.who = Login,
           NEW o \in SomeConn, o.heard, Entries(o) = {}, o.login = "none",
           ReplyToLogin(k, "ok")
    PROVE  Sound([net EXCEPT !.conns[k] = o], transport', db', call')
<1> DEFINE m == [net EXCEPT !.conns[k] = o]
           t == transport'
           x == call'
<1>1. /\ net \in Nets /\ k \in 1..Len(net.conns) /\ Conns = 1..Len(net.conns) /\ Hears(net) /\ mode.pool = FALSE
      /\ transport \in Transport /\ call \in SomeCalls /\ k \in Nat /\ Known(net, transport, db)
      /\ \A c \in Calls : call[c] \in SomeCall /\ Asks(net, transport, call[c])
  <2>1. Conns = 1..Len(net.conns) /\ Len(net.conns) \in Nat
    BY SecureFacts
  <2>2. k \in Nat /\ k \in 1..Len(net.conns)
    BY <2>1
  <2> QED
    BY <2>1, <2>2, SecureFacts
<1>2. /\ LoggingIn(transport, k) /\ k \in Lent(net) /\ net.conns[k].heard
      /\ \A j \in Conns : j # k => Entries(net.conns[j]) = {}
  BY LoginAlone
<1>3. /\ transport' = [transport EXCEPT !.session = k, !.retries = 0,
                             !.auto = IF transport.auto = k THEN 0 ELSE transport.auto,
                             !.connecting = IF transport.login = k THEN "resolved" ELSE transport.connecting]
      /\ call' = [c \in Calls |-> IF c \notin Waiters(k) THEN call[c]
                        ELSE IF At(c, {"auto"}) THEN Resent(call, {c})[c]
                        ELSE [call[c] EXCEPT !.at = "ready", !.on = 0]]
      /\ UNCHANGED <<db, servers>>
  BY DEF ReplyToLogin
<1>4. t.session = k /\ ~mode.skip
  BY <1>1, <1>2, <1>3 DEF Transport, LoggingIn
<1>5. \A c \in Calls : call[c].at \notin {"begin", "ready", "failed"}
  BY CalmFacts
<1>6. ASSUME NEW c \in Calls
      PROVE  x[c] = call[c] \/ (x[c].at \in {"ready", "begin"} /\ x[c].session = 0)
  <2>1. CASE c \notin Waiters(k)
    BY <1>3, <2>1
  <2>2. CASE c \in Waiters(k) /\ At(c, {"auto"})
    <3>1. x[c] = Resent(call, {c})[c]
      BY <1>3, <2>2
    <3>2. \A d \in {c} \cap Calls : call[d].what # "none"
      BY <1>1, <2>2, CallType DEF At, AtWork
    <3>3. \A d \in Calls : d \in {c} =>
              Resent(call, {c})[d].at \in {"begin", "ready"} /\ Resent(call, {c})[d].session = 0
      BY <1>1, <3>2, ResentOf
    <3> QED
      BY <3>1, <3>3
  <2>3. CASE c \in Waiters(k) /\ ~At(c, {"auto"})
    <3> DEFINE z == call[c]
    <3>1. z.at = "login" /\ z \in SomeCall /\ z.session = 0
      BY <1>1, <2>3 DEF Waiters, At, Asks
    <3>2. x[c] = [z EXCEPT !.at = "ready", !.on = 0]
      BY <1>3, <2>3
    <3> HIDE DEF z
    <3> QED
      BY <3>1, <3>2 DEF SomeCall
  <2> QED
    BY <2>1, <2>2, <2>3
<1>7. /\ m \in Nets /\ Len(m.conns) = Len(net.conns) /\ m.conns[k] = o /\ Lent(m) = Lent(net)
      /\ \A j \in 1..Len(net.conns) : j # k => m.conns[j] = net.conns[j]
  BY <1>1, ChangedNet
<1> HIDE DEF m, t, x
<1>8. Hears(m)
  BY <1>1, <1>2, <1>7 DEF Hears
<1>9. ASSUME NEW j \in 1..Len(m.conns) PROVE Fine(m.conns[j], j, t, x)
  <2>1. m.conns[j] \in SomeConn
    BY <1>7, NetType
  <2>2. Entries(m.conns[j]) = {} /\ m.conns[j].login = "none"
    <3>1. CASE j = k
      BY <1>7, <3>1
    <3>2. CASE j # k
      BY <1>1, <1>2, <1>7, <3>2, CalmFacts, ZenonT(60)
    <3> QED
      BY <3>1, <3>2
  <2> QED
    BY <2>1, <2>2, EmptyFine
<1>10. k # 0 /\ HasSession(t)
  <2>1. k # 0
    BY <1>1
  <2> QED
    BY <1>4, <2>1 DEF HasSession
<1>11. Known(m, t, db)
  BY <1>1, <1>2, <1>4, <1>7, <1>10 DEF Known
<1>12. Asked(m, t, x)
  BY <1>1, <1>5, <1>6, <1>7 DEF Asked, Asks
<1>13. Cleared(m, t, x)
  BY <1>5, <1>6 DEF Cleared, Cut, CutOff
<1>14. Sound(m, t, db, x)
  BY <1>8, <1>9, <1>11, <1>12, <1>13 DEF Sound, AllFine
<1> QED
  BY <1>3, <1>14 DEF m, t, x

\* A call is answered.
LEMMA AnsweredSound ==
    ASSUME Secure, Calm, NEW k \in Conns, NEW e \in Entries(net.conns[k]), e.who # Login,
           NEW o \in SomeConn, o.heard = net.conns[k].heard, o.login = "none", o.stage = "open", o.waiting = <<>>,
           Entries(o) \subseteq Entries(net.conns[k]), ReplyToCall(k, e.who, e.reply)
    PROVE  Sound([net EXCEPT !.conns[k] = o], transport', db', call')
<1> DEFINE c == e.who
           x == call'
           d == db'
<1>1. /\ HasSession(transport) /\ k \in Lent(net) /\ net.conns[k].heard
      /\ \A f \in Entries(net.conns[k]) : f.who # Login
      /\ call[c].session \in {0, k}
  BY CallerAlone
<1>2. /\ call \in SomeCalls /\ db \in Databases /\ Known(net, transport, db) /\ k \in Nat /\ Basic
      /\ \A i \in Calls : call[i] \in SomeCall /\ Asks(net, transport, call[i])
      /\ Fine(net.conns[k], k, transport, call)
      /\ \A f \in Entries(net.conns[k]) : f.who # Login => f.who \in Calls
  BY SecureFacts
<1>3. /\ c \in Calls /\ call[c].what # "none"
      /\ \A i \in Calls : call[i].at \notin {"begin", "ready", "failed"}
  BY <1>2, Waiting, CalmFacts
<1>4. UNCHANGED transport
  BY DEF ReplyToCall
<1>5. ASSUME \A i \in Calls : x[i].session \in {call[i].session, 0},
             \A i \in Calls : x[i] = call[i] \/ x[i].at \in {"begin", "resolved", "rejected"} \/ (i = c /\ x[i].at = "ready"),
             Known(net, transport, d)
      PROVE  Sound([net EXCEPT !.conns[k] = o], transport', db', call')
  <2> HIDE DEF x, d, c
  <2>1. ASSUME NEW f \in Entries(o) PROVE Carries(f, o, k, transport, x)
    <3>1. f \in Entries(net.conns[k]) /\ f.who # Login /\ f.who \in Calls
      BY <1>1, <1>2, <2>1
    <3>2. f.session \in {0, k} /\ call[f.who].session \in {0, k}
      BY <1>2, <3>1 DEF Fine, Carries
    <3> QED
      BY <1>1, <1>5, <3>1, <3>2 DEF Carries
  <2>2. Fine(o, k, transport, x)
    BY <1>1, <2>1 DEF Fine, Failed
  <2>3. \A i \in Calls : Asks(net, transport, x[i])
    <3> TAKE i \in Calls
    <3>1. CASE x[i] = call[i]
      BY <1>2, <3>1
    <3>2. CASE i = c /\ x[i].at = "ready"
      <4>1. x[i].session \in {0, k}
        BY <1>1, <1>5, <3>2 DEF c
      <4> QED
        BY <1>1, <3>2, <4>1 DEF Asks
    <3>3. CASE x[i].at \in {"begin", "resolved", "rejected"}
      BY <3>3 DEF Asks
    <3> QED
      BY <1>5, <3>1, <3>2, <3>3
  <2>4. ~Cut(transport, x)
    BY <1>3, <1>5 DEF Cut, CutOff
  <2>5. Sound([net EXCEPT !.conns[k] = o], transport, d, x)
    BY <1>5, <2>2, <2>3, <2>4, ConnSound
  <2> QED
    BY <1>4, <2>5 DEF x, d
<1>6. ASSUME NEW at \in {"rejected", "resolved", "begin"}, call' = Settled(call, c, at)
      PROVE  /\ \A i \in Calls : x[i].session \in {call[i].session, 0}
             /\ \A i \in Calls : x[i] = call[i] \/ x[i].at \in {"begin", "resolved", "rejected"} \/ (i = c /\ x[i].at = "ready")
  <2>1. at \in AtRest \cup AtWork
    BY DEF AtRest, AtWork
  <2>2. \A i \in Calls : \/ x[i] = call[i]
                         \/ x[i].at = at
    BY <1>2, <1>3, <1>6, <2>1, SettledAt
  <2> QED
    BY <1>2, <1>6, <2>2, SettledSession
<1>7. CASE e.reply = "redirect"
  <2>1. call' = Moved(call, {c}, "ready") /\ db' = db
    BY <1>7 DEF ReplyToCall
  <2>2. "ready" \in AtRest \cup AtWork /\ \A i \in {c} \cap Calls : call[i].what # "none"
    BY <1>3 DEF AtWork
  <2>3. \A i \in Calls : (i \notin {c} => x[i] = call[i]) /\ (i \in {c} => x[i].at = "ready")
    BY <1>2, <2>1, <2>2, MovedOf
  <2>4. \A i \in Calls : x[i].session \in {call[i].session, 0}
    BY <1>2, <2>1, MovedSession
  <2>5. Known(net, transport, d)
    BY <1>2, <2>1
  <2> QED
    BY <1>5, <2>3, <2>4, <2>5
<1>8. CASE e.reply = "error"
  <2>1. call' = Settled(call, c, "rejected") /\ db' = OpeningFails(c)
    BY <1>8 DEF ReplyToCall
  <2>2. d.session = db.session
    BY <1>2, <2>1 DEF OpeningFails, Databases
  <2>3. Known(net, transport, d)
    BY <1>2, <2>2 DEF Known
  <2> QED
    BY <1>5, <1>6, <2>1, <2>3
<1>9. CASE e.reply \notin {"redirect", "error"} /\ call[c].what = "db-open"
  <2>1. db' = [session |-> k, opening |-> "none"] /\ call' = Settled(call, c, "begin")
    BY <1>9 DEF ReplyToCall
  <2>2. d.session = k
    BY <2>1
  <2>3. Known(net, transport, d)
    BY <1>1, <1>2, <2>2 DEF Known
  <2> QED
    BY <1>5, <1>6, <2>1, <2>3
<1>10. CASE e.reply \notin {"redirect", "error"} /\ call[c].what # "db-open"
  <2>1. call' = Settled(call, c, "resolved") /\ db' = db
    BY <1>10 DEF ReplyToCall
  <2>2. Known(net, transport, d)
    BY <1>2, <2>1
  <2> QED
    BY <1>5, <1>6, <2>1, <2>2
<1> QED
  BY <1>7, <1>8, <1>9, <1>10

LEMMA ReplySound ==
    ASSUME Secure, NEW k \in Conns, Reply(k)
    PROVE  Sound(net', transport', db', call')
<1> DEFINE conn == net.conns[k]
           q == conn.queue
           r == q[1]
           flag == IF r.who = Login /\ r.reply # "ok" THEN "answered" ELSE conn.login
           o == [conn EXCEPT !.queue = Tail(q), !.login = flag]
<1>1. /\ q # <<>> /\ Calm /\ conn.stage = "open"
      /\ net' = [net EXCEPT !.conns[k] = o]
      /\ IF r.who = Login THEN ReplyToLogin(k, r.reply) ELSE ReplyToCall(k, r.who, r.reply)
  <2>1. net' = [net EXCEPT !.conns[k].queue = Tail(q), !.conns[k].login = flag]
    BY DEF Reply
  <2>2. net' = [net EXCEPT !.conns[k] = o]
    BY <2>1
  <2> QED
    BY <2>2 DEF Reply
<1>2. /\ conn \in SomeConn /\ q \in Requests /\ conn.waiting \in Requests /\ Fine(conn, k, transport, call)
      /\ Known(net, transport, db) /\ \A c \in Calls : Asks(net, transport, call[c])
  BY SecureFacts, ConnType
<1>3. conn.login = "none" /\ conn.waiting = <<>> /\ \A c \in Calls : call[c].at # "failed"
  BY <1>1, <1>2, CalmFacts DEF Fine
<1>4. /\ Tail(q) \in Requests /\ r \in Members(q) /\ Members(Tail(q)) \subseteq Members(q) /\ Len(Tail(q)) = Len(q) - 1
  <2>1. q \in Requests /\ q # <<>>
    BY <1>1, <1>2
  <2> HIDE DEF q
  <2> QED
    BY <2>1, OneLess
<1>5. /\ o \in SomeConn /\ o.queue = Tail(q) /\ o.waiting = <<>> /\ o.heard = conn.heard /\ o.stage = "open" /\ o.login = flag
  <2>1. flag \in Flags
    BY <1>2, ConnType DEF Flags
  <2> HIDE DEF flag
  <2> QED
    BY <1>1, <1>2, <1>3, <1>4, <2>1 DEF SomeConn
<1>6. r \in Entries(conn)
  BY <1>4 DEF Entries
<1> HIDE DEF o, r
<1>7. Entries(o) \subseteq Entries(conn)
  BY <1>4, <1>5, NoRequests DEF Entries
<1>8. CASE r.who = Login
  <2>1. LoggingIn(transport, k) /\ conn.heard /\ Len(conn.queue) + Len(conn.waiting) <= 1
    BY <1>6, <1>8, LoginAlone
  <2>2. Entries(o) = {}
    <3>1. Len(q) \in Nat /\ Len(conn.waiting) = 0 /\ Len(Tail(q)) \in Nat /\ (Tail(q) = <<>> <=> Len(Tail(q)) = 0)
      BY <1>2, <1>3, <1>4, CallersOf
    <3>2. Len(q) + Len(conn.waiting) <= 1
      BY <2>1
    <3> HIDE DEF q, conn
    <3>3. Tail(q) = <<>>
      BY <1>4, <3>1, <3>2
    <3> QED
      BY <1>5, <3>3, NoEntries
  <2>3. CASE r.reply = "ok"
    <3>1. o.login = "none" /\ o.heard
      BY <1>3, <1>5, <2>1, <2>3
    <3>2. ReplyToLogin(k, "ok")
      BY <1>1, <1>8, <2>3 DEF r
    <3>3. Sound([net EXCEPT !.conns[k] = o], transport', db', call')
      BY <1>1, <1>5, <1>6, <1>8, <2>2, <3>1, <3>2, LoggedInSound
    <3> QED
      BY <1>1, <3>3 DEF o, r
  <2>4. CASE r.reply # "ok"
    <3>1. UNCHANGED <<transport, call, db>>
      BY <1>1, <1>8, <2>4 DEF ReplyToLogin, r
    <3>2. Failed(o, k, transport)
      BY <1>5, <2>1 DEF Failed, LoggingIn
    <3>3. Fine(o, k, transport, call)
      BY <1>5, <2>1, <2>2, <3>2 DEF Fine
    <3>4. ~Cut(transport, call)
      BY <1>3 DEF Cut, CutOff
    <3>5. Sound([net EXCEPT !.conns[k] = o], transport, db, call)
      BY <1>2, <1>5, <3>3, <3>4, ConnSound
    <3> QED
      BY <1>1, <3>1, <3>5 DEF o, r
  <2> QED
    BY <2>3, <2>4
<1>9. CASE r.who # Login
  <2>1. o.login = "none"
    BY <1>3, <1>5, <1>9
  <2>2. ReplyToCall(k, r.who, r.reply)
    BY <1>1, <1>9 DEF r
  <2>3. Sound([net EXCEPT !.conns[k] = o], transport', db', call')
    BY <1>1, <1>5, <1>6, <1>7, <1>9, <2>1, <2>2, AnsweredSound
  <2> QED
    BY <1>1, <2>3 DEF o, r
<1> QED
  BY <1>8, <1>9

--------------------------------------------------------------------------------
(* Every step keeps the sessions apart.                                          *)

LEMMA InitSound == Init => Sound(net, transport, db, call)
<1> HAVE Init
<1>1. Len(net.conns) = 0 /\ transport.session = 0 /\ transport.connecting = "none" /\ db.session = 0
  BY DEF Init
<1>2. \A c \in Calls : call[c].at = "idle" /\ call[c].session = 0
  BY NoCallType DEF Init
<1>3. Hears(net) /\ AllFine(net, transport, call)
  BY <1>1 DEF Hears, AllFine
<1>4. Known(net, transport, db) /\ Asked(net, transport, call)
  BY <1>1, <1>2 DEF Known, Asked, Asks
<1>5. Cleared(net, transport, call)
  BY <1>2 DEF Cleared, Cut, CutOff
<1> QED
  BY <1>3, <1>4, <1>5 DEF Sound

Secured == Basic /\ (~mode.pool => Sound(net, transport, db, call))

LEMMA SoundStays == Secured /\ [Next]_vars => Secured'
<1> SUFFICES ASSUME Secured, [Next]_vars PROVE Secured'
  OBVIOUS
<1>1. Basic' /\ UNCHANGED mode
  <2>1. Basic'
    BY BasicStays DEF Secured
  <2>2. UNCHANGED mode
    BY ZenonT(60) DEF Next, vars, Start, Open, Send, AutoReconnectAndSend, AutoReconnected, LoginFails, Connected,
       NotConnected, Serve, Reply, SocketFails, SocketEnds, OperationTimeout, ConfigPushed
  <2> QED
    BY <2>1, <2>2
<1>2. CASE mode.pool
  BY <1>1, <1>2 DEF Secured
<1>3. CASE ~mode.pool
  <2>1. Secure
    <3>1. mode.pool \in BOOLEAN /\ Basic /\ Sound(net, transport, db, call)
      BY <1>3, BasicFacts DEF Secured
    <3> QED
      BY <1>3, <3>1 DEF Secure
  <2>2. Sound(net', transport', db', call')
    <3>1. CASE UNCHANGED vars
      BY <2>1, <3>1 DEF vars, Secure
    <3>2. ASSUME NEW c \in Calls, Start(c) \/ Open(c) \/ Send(c) \/ AutoReconnectAndSend(c)
          PROVE  Sound(net', transport', db', call')
      BY <2>1, <3>2, StartSound, OpenSound, SendSound, AutoReconnectAndSendSound
    <3>3. CASE AutoReconnected
      BY <2>1, <3>3, AutoReconnectedSound
    <3>4. ASSUME NEW k \in Conns,
                 \/ LoginFails(k) \/ Connected(k) \/ NotConnected(k) \/ Serve(k) \/ Reply(k)
                 \/ SocketFails(k) \/ SocketEnds(k) \/ OperationTimeout(k) \/ ConfigPushed(k)
          PROVE  Sound(net', transport', db', call')
      BY <2>1, <3>4, LoginFailsSound, ConnectedSound, NotConnectedSound, ServeSound, ReplySound,
         SocketFailsSound, SocketEndsSound, OperationTimeoutSound, ConfigPushedSound
    <3> QED
      BY <3>1, <3>2, <3>3, <3>4 DEF Next
  <2>3. Sound(net, transport, db, call)'
    BY <1>1, <2>2, ZenonT(60) DEF Sound, Hears, AllFine, Known, Asked, Cleared, Fine, Failed, Carries, LoggingIn, HasSession,
       Asks, Cut, CutOff, Lent
  <2> QED
    BY <1>1, <2>3 DEF Secured
<1> QED
  BY <1>2, <1>3

LEMMA SoundIsOfTheConnection == Secured => SessionOfTheConnection
<1> SUFFICES ASSUME Secured, ~mode.pool, NEW k \in Conns, NEW i \in 1..Len(net.conns[k].queue)
             PROVE  net.conns[k].queue[i].session \in {0, k}
  BY DEF SessionOfTheConnection
<1>1. Secure
  <2>1. mode.pool \in BOOLEAN /\ Basic /\ Sound(net, transport, db, call)
    BY BasicFacts DEF Secured
  <2> QED
    BY <2>1 DEF Secure
<1>2. Fine(net.conns[k], k, transport, call)
  BY <1>1, SecureFacts
<1>3. net.conns[k].queue[i] \in Entries(net.conns[k])
  BY DEF Entries, Members
<1> QED
  BY <1>2, <1>3 DEF Fine, Carries

\* Without a pool, what is written to a connection carries no session or that of
\* the connection itself: the sessions of the transport, of the database and of the
\* calls that are sent again are forgotten before anything is sent to the next
\* server (reconnectTransport, autoReconnectTransportAndSend).
THEOREM SessionOfTheConnectionCorrect == Spec => []SessionOfTheConnection
<1>1. Init => Secured
  BY InitBasic, InitSound DEF Secured
<1> QED
  BY <1>1, SoundStays, SoundIsOfTheConnection, PTL DEF Spec

--------------------------------------------------------------------------------
(* One fault, and what becomes of it.                                            *)

Overcome == {"refused", "broken", "ended", "timeout"}

\* What FailsOver speaks of: no fault, or one that may be made good.
Smoothly(fs, cs) ==
    /\ mode.pool = FALSE /\ \A c \in Calls : cs[c].kind # "close"
    /\ Len(fs) <= 1 /\ \A i \in 1..Len(fs) : fs[i] \in Overcome

AllActive(svs) == \A i \in 1..Len(svs) : svs[i].active

\* No call has been told, nor will one be told by what is kept.
Fair(t, d, cs) ==
    /\ t.connecting # "rejected" /\ d.opening # "rejected"
    /\ mode.skip => t.login = 0
    /\ \A c \in Calls : cs[c].at \notin {"rejected", "stranded"}

\* No server has refused, and none ends its connection.
Clean(n) == \A k \in 1..Len(n.conns) :
    ~n.conns[k].ending /\ \A e \in Entries(n.conns[k]) : e.reply \in {"none", "ok"}

\* The connection in use takes requests, or will.
Upright(n) == \A k \in 1..Len(n.conns) :
    /\ n.conns[k].login = "none"
    /\ n.conns[k].heard => n.conns[k].stage \in {"connecting", "open"}

\* It is the first one, ...
Sole(n) == Len(n.conns) <= 1 /\ \A k \in 1..Len(n.conns) :
    /\ n.conns[k].heard /\ ~n.conns[k].ghosts
    /\ n.conns[k].stage = "connecting" => Entries(n.conns[k]) # {}

\* A call waits for a login that is under way, and one that was cut off will
\* find it.
Serving(n, t, cs) ==
    /\ Upright(n)
    /\ t.connecting = "pending" =>
          t.login \in 1..Len(n.conns) /\ \E e \in Entries(n.conns[t.login]) : e.who = Login
    /\ \A c \in Calls : cs[c].at = "failed" =>
          CutOff(cs[c]) /\ t.auto # 0 /\ (mode.skip \/ t.connecting = "pending")
    /\ \A c \in Calls : cs[c].at \in {"login", "auto"} =>
          IF mode.skip THEN cs[c].on = 0 ELSE t.connecting = "pending" /\ cs[c].on = t.login

\* ... as long as nothing has gone wrong.
Whole(n, t, svs) ==
    /\ AllActive(svs) /\ t.retries = 0 /\ t.auto = 0 /\ Sole(n)
    /\ t.session # 0 => \A k \in 1..Len(n.conns) : n.conns[k].stage = "open"

\* Calls have been cut off, and none of them has turned to the next server yet.
Severed(t, svs, cs) ==
    /\ AllActive(svs) /\ t.auto = 0
    /\ \E c \in Calls : cs[c].at = "failed"
    /\ \A c \in Calls : /\ cs[c].at = "failed" => CutOff(cs[c])
                        /\ cs[c].at \in {"login", "auto"} => mode.skip /\ cs[c].on = 0

\* The connection of the login has been refused, and nobody knows yet.
Refused(n, t, svs, cs) ==
    /\ AllActive(svs) /\ t.auto = 0 /\ ~mode.skip
    /\ t.connecting = "pending" /\ t.login \in 1..Len(n.conns)
    /\ n.conns[t.login].login = "refused" /\ n.conns[t.login].heard /\ n.conns[t.login].stage = "broken"
    /\ \A k \in 1..Len(n.conns) : k # t.login => n.conns[k].login = "none"
    /\ \A c \in Calls : /\ cs[c].at # "failed"
                        /\ cs[c].at \in {"login", "auto"} => cs[c].on = t.login

Mending(n, t, svs, cs, fs) ==
    \/ Serving(n, t, cs) /\ (fs = <<>> => Whole(n, t, svs))
    \/ fs # <<>> /\ (Severed(t, svs, cs) \/ Refused(n, t, svs, cs))

Mended(n, t, d, svs, cs, fs) ==
    Fair(t, d, cs) /\ Clean(n) /\ Mending(n, t, svs, cs, fs)

Idles == \A c \in Calls : call[c].at = "idle" => call[c].kind = "none"

MendInv == Smoothly(faults, call) => ~crashed /\ Mended(net, transport, db, servers, call, faults)

Ease == /\ Secure /\ Smoothly(faults, call) /\ ~crashed
        /\ Mended(net, transport, db, servers, call, faults)

LEMMA EaseFacts ==
    ASSUME Ease
    PROVE  /\ Secure /\ Basic /\ mode.pool = FALSE /\ mode.skip \in BOOLEAN
           /\ net \in Nets /\ call \in SomeCalls /\ transport \in Transport /\ db \in Databases
           /\ servers \in Servers /\ Len(servers) = Len(Hosts) /\ faults \in Seq(FaultKinds)
           /\ Hears(net) /\ Conns = 1..Len(net.conns) /\ Len(net.conns) \in Nat
           /\ Fair(transport, db, call) /\ Clean(net) /\ Mending(net, transport, servers, call, faults)
           /\ \A c \in Calls : call[c].kind # "close" /\ call[c].what # "db-close"
           /\ \A k \in Conns : /\ net.conns[k] \in SomeConn /\ Fine(net.conns[k], k, transport, call)
                               /\ net.conns[k].heard <=> k \in Lent(net)
           /\ \A k \in Conns : \A e \in Entries(net.conns[k]) : e.what # "db-close"
<1>1. Secure /\ Mended(net, transport, db, servers, call, faults) /\ \A c \in Calls : call[c].kind # "close"
  BY DEF Ease, Smoothly
<1>2. /\ Basic /\ mode.pool = FALSE /\ mode.skip \in BOOLEAN
      /\ net \in Nets /\ call \in SomeCalls /\ transport \in Transport /\ db \in Databases
      /\ servers \in Servers /\ Len(servers) = Len(Hosts) /\ faults \in Seq(FaultKinds)
  BY <1>1, SecureFacts, BasicFacts, Before
<1>3. /\ Hears(net) /\ Conns = 1..Len(net.conns) /\ Len(net.conns) \in Nat
      /\ \A k \in Conns : /\ net.conns[k] \in SomeConn /\ Fine(net.conns[k], k, transport, call)
                          /\ net.conns[k].heard <=> k \in Lent(net)
      /\ \A c \in Calls : call[c] \in SomeCall
  BY <1>1, SecureFacts
<1>4. \A c \in Calls : call[c].what # "db-close"
  BY <1>1, <1>3, CallType
<1>5. ASSUME NEW k \in Conns, NEW e \in Entries(net.conns[k]) PROVE e.what # "db-close"
  <2>1. CASE e.who = Login
    <3>1. e \in SomeRequest
      BY <1>3, EntriesOf
    <3> QED
      BY <2>1, <3>1, RequestType
  <2>2. CASE e.who # Login
    <3>1. e.who \in Calls /\ call[e.who].what = e.what
      BY <1>2, <2>2, Waiting
    <3> QED
      BY <1>4, <3>1
  <2> QED
    BY <2>1, <2>2
<1>6. Fair(transport, db, call) /\ Clean(net) /\ Mending(net, transport, servers, call, faults)
  BY <1>1 DEF Mended
<1> QED
  BY <1>1, <1>2, <1>3, <1>4, <1>5, <1>6

\* When calls are cut off nothing else is under way.
LEMMA SeveredFacts ==
    ASSUME Ease, Severed(transport, servers, call)
    PROVE  /\ \A c \in Calls : call[c].at \notin {"ready", "begin"}
           /\ \A k \in Conns : Entries(net.conns[k]) = {} /\ net.conns[k].login = "none"
<1>1. Cut(transport, call)
  BY DEF Severed, Cut
<1>2. Secure
  BY EaseFacts
<1> QED
  BY <1>1, <1>2, SecureFacts DEF Cleared

LEMMA RefusedFacts ==
    ASSUME Ease, Refused(net, transport, servers, call)
    PROVE  /\ transport.session = 0 /\ db.session = 0 /\ Unknown(call)
           /\ \A k \in Conns : Entries(net.conns[k]) = {}
<1>1. Secure /\ transport.login \in Conns /\ ~mode.skip /\ net.conns[transport.login].login = "refused"
      /\ Fine(net.conns[transport.login], transport.login, transport, call)
  BY EaseFacts DEF Refused
<1>2. transport.session = 0
  BY <1>1 DEF Fine, Failed
<1>3. \A k \in Conns : \A e \in Entries(net.conns[k]) : LoggingIn(transport, k) /\ net.conns[k].login = "none"
  BY <1>1, <1>2, NobodyKnows
<1> QED
  BY <1>1, <1>2, <1>3, NobodyKnows DEF LoggingIn

\* A fault that may be made good is the first.
LEMMA FirstFault ==
    ASSUME faults \in Seq(FaultKinds), NEW kind \in FaultKinds, Fault(kind), NEW cs, Smoothly(faults', cs)
    PROVE  faults = <<>> /\ faults' # <<>> /\ kind \in Overcome
<1>1. Len(faults) \in Nat /\ faults' \in Seq(FaultKinds)
  BY FaultType
<1>2. CASE faults # <<>>
  <2>1. faults' = [i \in 1..(Len(faults) + 1) |-> "several"] /\ Len(faults) # 0
    BY <1>2 DEF Fault
  <2>2. Len(faults') = Len(faults) + 1
    BY <1>1, <2>1
  <2> QED
    BY <1>1, <2>1, <2>2 DEF Smoothly
<1>3. CASE faults = <<>>
  <2>1. faults' = <<kind>>
    BY <1>3 DEF Fault
  <2> QED
    BY <1>3, <2>1 DEF Smoothly
<1> QED
  BY <1>2, <1>3

LEMMA SomeServerLeft ==
    ASSUME servers \in Servers, Len(servers) = Len(Hosts), Len(Hosts) > 1, AllActive(servers)
    PROVE  ServerLeft
<1>1. Len(Hosts) \in Nat
  BY HostsType
<1>2. 2 \in 2..Len(servers) /\ 2 \in 1..Len(servers)
  BY <1>1
<1> QED
  BY <1>2 DEF ServerLeft, AllActive

\* A step of calls that wait for nothing.
LEMMA CallsMend ==
    ASSUME NEW n, NEW t, NEW d, NEW svs, NEW cs, NEW fs, Mended(n, t, d, svs, cs, fs), NEW x, NEW e, e.opening # "rejected",
           \A c \in Calls : \/ x[c] = cs[c]
                            \/ /\ x[c].at \notin {"rejected", "stranded", "failed", "login", "auto"}
                               /\ cs[c].at # "failed"
    PROVE  Mended(n, t, e, svs, x, fs)
<1>1. Fair(t, e, x)
  BY DEF Mended, Fair
<1>2. Serving(n, t, cs) => Serving(n, t, x)
  BY DEF Serving
<1>3. Severed(t, svs, cs) => Severed(t, svs, x)
  BY DEF Severed
<1>4. Refused(n, t, svs, cs) => Refused(n, t, svs, x)
  BY DEF Refused
<1> QED
  BY <1>1, <1>2, <1>3, <1>4 DEF Mended, Mending

LEMMA StartMend ==
    ASSUME Ease, NEW c \in Calls, Start(c)
    PROVE  Mended(net', transport', db', servers', call', faults')
<1>1. UNCHANGED <<net, transport, db, servers, faults>> /\ call[c].at = "idle" /\ call \in SomeCalls
  BY EaseFacts DEF Start, At
<1>2. /\ \A x \in Calls : x # c => call'[x] = call[x]
      /\ call'[c].at \in {"ready", "begin"}
  <2>1. \/ call' = [call EXCEPT ![c].kind = "server", ![c].what = "op", ![c].at = "ready"]
        \/ call' = [call EXCEPT ![c].kind = "db", ![c].what = "op", ![c].at = "begin"]
        \/ call' = [call EXCEPT ![c].kind = "close", ![c].what = "db-close",
                                ![c].session = db.session, ![c].at = "ready"]
    BY DEF Start
  <2>2. call[c] \in [kind : Kinds, what : Whats, session : Nat, at : AtRest \cup AtWork, on : Nat, err : Errors]
    BY <1>1 DEF SomeCalls, SomeCall
  <2> QED
    BY <1>1, <2>1, <2>2 DEF SomeCalls
<1>3. db.opening # "rejected" /\ Mended(net, transport, db, servers, call, faults)
  BY DEF Ease, Mended, Fair
<1> DEFINE x == call'
<1> HIDE DEF x
<1>4. Mended(net, transport, db, servers, x, faults)
  <2>1. \A i \in Calls : \/ x[i] = call[i]
                         \/ /\ x[i].at \notin {"rejected", "stranded", "failed", "login", "auto"}
                            /\ call[i].at # "failed"
    BY <1>1, <1>2 DEF x
  <2> QED
    BY <1>3, <2>1, CallsMend
<1> QED
  BY <1>1, <1>4 DEF x

LEMMA OpenMend ==
    ASSUME Ease, NEW c \in Calls, Open(c)
    PROVE  Mended(net', transport', db', servers', call', faults')
<1> DEFINE k == call[c]
<1>1. /\ UNCHANGED <<net, transport, servers, faults>> /\ k.at = "begin" /\ call \in SomeCalls /\ db \in Databases
      /\ call[c] \in SomeCall /\ db.opening \in {"none", "pending"}
  BY EaseFacts DEF Open, At, Fair, SomeCalls, Databases
<1>2. /\ \A x \in Calls : x # c => call'[x] = call[x]
      /\ call'[c].at \in {"ready", "opening"}
      /\ db'.opening # "rejected"
  <2>1. k \in [kind : Kinds, what : Whats, session : Nat, at : AtRest \cup AtWork, on : Nat, err : Errors]
    BY <1>1 DEF SomeCall
  <2>2. CASE db.session # 0
    <3>1. call' = [call EXCEPT ![c] = [k EXCEPT !.what = "op", !.session = db.session, !.at = "ready"]] /\ db' = db
      BY <2>2 DEF Open
    <3> HIDE DEF k
    <3> QED
      BY <1>1, <2>1, <3>1 DEF SomeCalls
  <2>3. CASE db.session = 0 /\ mode.skip /\ db.opening # "none"
    <3>1. call' = Moved(call, {c}, "opening") /\ db' = db
      BY <1>1, <2>3 DEF Open
    <3>2. "opening" \in AtRest \cup AtWork /\ call[c].what # "none"
      BY <1>1 DEF AtRest, AtWork, SomeCall
    <3>3. /\ \A x \in Calls : x \notin {c} => Moved(call, {c}, "opening")[x] = call[x]
          /\ \A x \in Calls : x \in {c} => Moved(call, {c}, "opening")[x].at = "opening"
      BY <1>1, <3>2, MovedOf
    <3> QED
      BY <1>1, <3>1, <3>3
  <2>4. CASE db.session = 0 /\ ~(mode.skip /\ db.opening # "none")
    <3>1. call' = [call EXCEPT ![c] = [k EXCEPT !.what = "db-open", !.session = 0, !.at = "ready"]]
          /\ db' = [db EXCEPT !.opening = IF mode.skip THEN "pending" ELSE db.opening]
      <4>1. /\ call' = [call EXCEPT ![c].what = "db-open", ![c].session = 0, ![c].at = "ready"]
            /\ db' = [db EXCEPT !.opening = IF mode.skip THEN "pending" ELSE @]
        BY <2>4, ZenonT(30) DEF Open
      <4> QED
        BY <4>1
    <3>2. db'.opening \in {db.opening, "pending"}
      BY <1>1, <3>1 DEF Databases
    <3> HIDE DEF k
    <3> QED
      BY <1>1, <2>1, <3>1, <3>2 DEF SomeCalls
  <2> QED
    BY <2>2, <2>3, <2>4
<1>3. Mended(net, transport, db, servers, call, faults)
  BY DEF Ease
<1> DEFINE x == call'
           d == db'
<1> HIDE DEF x, d
<1>4. Mended(net, transport, d, servers, x, faults)
  <2>1. \A i \in Calls : \/ x[i] = call[i]
                         \/ /\ x[i].at \notin {"rejected", "stranded", "failed", "login", "auto"}
                            /\ call[i].at # "failed"
    BY <1>1, <1>2 DEF x
  <2>2. d.opening # "rejected"
    BY <1>2 DEF d
  <2> QED
    BY <1>3, <2>1, <2>2, CallsMend
<1> QED
  BY <1>1, <1>4 DEF x, d

\* A request that is sent to a connection that takes it.
LEMMA OfferedServes ==
    ASSUME NEW conn \in SomeConn, conn.stage \in {"idle", "connecting", "open"},
           conn.stage = "idle" => Entries(conn) = {},
           NEW r \in SomeRequest, r.what # "db-close"
    PROVE  LET o == Offered(conn, r) IN
           /\ Entries(o) = Entries(conn) \cup {r}
           /\ o.stage = IF conn.stage = "open" THEN "open" ELSE "connecting"
           /\ o.login = conn.login /\ o.heard = conn.heard /\ o.ghosts = conn.ghosts
           /\ o.ending = conn.ending
<1> DEFINE o == Offered(conn, r)
<1>1. /\ conn.queue \in Requests /\ conn.waiting \in Requests /\ conn.ending \in BOOLEAN
      /\ <<r>> \in Requests /\ Members(<<r>>) = {r}
  BY ConnType, OneRequest
<1>2. CASE conn.stage = "open"
  <2>1. o = Written(conn, <<r>>)
    BY <1>2, OfferedStages
  <2> DEFINE q == Written(conn, <<r>>)
  <2>2. /\ q.waiting = conn.waiting /\ q.stage = conn.stage /\ q.login = conn.login
        /\ q.heard = conn.heard /\ q.ghosts = conn.ghosts
        /\ q.ending <=> (conn.ending \/ \E e \in Members(<<r>>) : e.what = "db-close")
        /\ Members(q.queue) = Members(conn.queue) \cup {e \in Members(<<r>>) : e.what # "db-close"}
        /\ q \in SomeConn
    BY <1>1, WrittenOf
  <2> HIDE DEF q
  <2>3. q.ending = conn.ending
    <3>1. q.ending \in BOOLEAN
      BY <2>2, ConnType
    <3> QED
      BY <1>1, <2>2, <3>1
  <2>4. Entries(q) = Entries(conn) \cup {r}
    BY <1>1, <2>2 DEF Entries
  <2> QED
    BY <1>2, <2>1, <2>2, <2>3, <2>4 DEF q
<1>3. CASE conn.stage = "connecting"
  <2> DEFINE w == Append(conn.waiting, r)
             q == [conn EXCEPT !.waiting = w]
  <2>1. o = q
    BY <1>3, OfferedStages
  <2>2. Members(w) = Members(conn.waiting) \cup {r}
    BY <1>1, OneMore
  <2> HIDE DEF w
  <2>3. /\ q.waiting = w /\ q.queue = conn.queue /\ q.stage = conn.stage /\ q.heard = conn.heard
        /\ q.login = conn.login /\ q.ghosts = conn.ghosts /\ q.ending = conn.ending
    BY DEF SomeConn
  <2> QED
    BY <1>3, <2>1, <2>2, <2>3 DEF Entries
<1>4. CASE conn.stage = "idle"
  <2> DEFINE w == <<r>>
             q == [conn EXCEPT !.stage = "connecting", !.waiting = w]
  <2>1. o = q
    BY <1>4, OfferedStages
  <2>2. Members(w) = {r}
    BY <1>1
  <2>3. conn.queue = <<>> /\ Members(conn.queue) = {}
    BY <1>1, <1>4, NoEntries, NoRequests
  <2> HIDE DEF w
  <2>4. /\ q.waiting = w /\ q.queue = conn.queue /\ q.stage = "connecting" /\ q.heard = conn.heard
        /\ q.login = conn.login /\ q.ghosts = conn.ghosts /\ q.ending = conn.ending
    BY DEF SomeConn
  <2> QED
    BY <1>4, <2>1, <2>2, <2>3, <2>4 DEF Entries
<1> QED
  BY <1>2, <1>3, <1>4

LEMMA SentServes ==
    ASSUME NEW n \in Nets, mode.pool = FALSE, Hears(n), Upright(n), Clean(n),
           NEW r \in SomeRequest, r.reply = "none", r.what # "db-close"
    PROVE  LET m == Sent(n, r)
               p == Attempt(n) IN
           /\ m \in Nets /\ p \in 1..Len(m.conns) /\ p \in Nat \ {0} /\ Upright(m) /\ Clean(m)
           /\ Place(n, p).stage \in {"idle", "connecting", "open"}
           /\ r \in Entries(m.conns[p])
           /\ Lent(n) \subseteq {p}
           /\ \A k \in 1..Len(n.conns) : /\ k \in 1..Len(m.conns) /\ Entries(n.conns[k]) \subseteq Entries(m.conns[k])
                                         /\ n.conns[k].stage = "open" => m.conns[k].stage = "open"
           /\ \A k \in 1..Len(m.conns) : k \in 1..Len(n.conns) \/ k = p
           /\ Sole(n) => Sole(m)
<1> DEFINE m == Sent(n, r)
           p == Attempt(n)
           b == Place(n, p)
           o == Offered(b, r)
<1>1. /\ m \in Nets /\ p \in 1..Len(m.conns) /\ Len(n.conns) <= Len(m.conns)
      /\ m.conns[p] = o
      /\ \A k \in 1..Len(m.conns) : k # p => k \in 1..Len(n.conns) /\ m.conns[k] = n.conns[k]
      /\ Lent(m) = Lent(n) \cup {p} /\ Lent(m) = {p}
      /\ p \in Lent(n) \/ p = Len(n.conns) + 1
  BY SentOf DEF Limit
<1>2. /\ Len(n.conns) \in Nat /\ Len(m.conns) \in Nat /\ Lent(n) \subseteq 1..Len(n.conns) /\ n.host \in STRING
      /\ b \in SomeConn
  BY <1>1, NetType
<1>3. b.heard /\ (p \in 1..Len(n.conns) => b = n.conns[p]) /\ p \in Nat \ {0}
  BY PlaceOf
<1>4. ASSUME p \notin 1..Len(n.conns)
      PROVE  b.stage = "idle" /\ b.login = "none" /\ ~b.ending /\ ~b.ghosts /\ Entries(b) = {}
  BY <1>2, <1>4, NewConnectionType DEF Place
<1>5. ASSUME p \in 1..Len(n.conns)
      PROVE  /\ b.stage \in {"connecting", "open"} /\ b.login = "none" /\ ~b.ending
             /\ \A e \in Entries(b) : e.reply \in {"none", "ok"}
  BY <1>3, <1>5 DEF Upright, Clean
<1> HIDE DEF m, p, b, o
<1>6. /\ Entries(o) = Entries(b) \cup {r}
      /\ o.stage = IF b.stage = "open" THEN "open" ELSE "connecting"
      /\ o.login = b.login /\ o.heard = b.heard /\ o.ghosts = b.ghosts
      /\ o.ending = b.ending
  BY <1>2, <1>4, <1>5, OfferedServes DEF o
<1>7. Upright(m) /\ Clean(m)
  <2>1. ASSUME NEW k \in 1..Len(m.conns)
        PROVE  /\ m.conns[k].login = "none"
               /\ m.conns[k].heard => m.conns[k].stage \in {"connecting", "open"}
               /\ ~m.conns[k].ending
               /\ \A e \in Entries(m.conns[k]) : e.reply \in {"none", "ok"}
    <3>1. CASE k = p
      BY <1>1, <1>4, <1>5, <1>6, <3>1
    <3>2. CASE k # p
      BY <1>1, <3>2 DEF Upright, Clean
    <3> QED
      BY <3>1, <3>2
  <2> QED
    BY <2>1 DEF Upright, Clean
<1>8. ASSUME NEW k \in 1..Len(n.conns)
      PROVE  /\ k \in 1..Len(m.conns) /\ Entries(n.conns[k]) \subseteq Entries(m.conns[k])
             /\ n.conns[k].stage = "open" => m.conns[k].stage = "open"
  <2>1. k \in 1..Len(m.conns)
    BY <1>1, <1>2
  <2> QED
    BY <1>1, <1>3, <1>6, <2>1
<1>9. ASSUME Sole(n) PROVE Sole(m)
  <2>1. p = 1 /\ Len(m.conns) <= 1
    <3>1. CASE Len(n.conns) = 0
      <4>1. p = 1
        BY <1>1, <1>2, <3>1
      <4>2. \A k \in 1..Len(m.conns) : k = p
        BY <1>1, <3>1
      <4>3. ~(Len(m.conns) >= 2)
        <5>1. Len(m.conns) >= 2 => 2 \in 1..Len(m.conns)
          BY <1>2
        <5> QED
          BY <4>1, <4>2, <5>1
      <4> QED
        BY <1>2, <4>1, <4>3
    <3>2. CASE Len(n.conns) = 1
      <4>1. 1 \in 1..Len(n.conns)
        BY <3>2
      <4>2. 1 \in Lent(n)
        BY <4>1, <1>9 DEF Sole, Hears
      <4>3. p = 1
        BY <1>1, <4>2
      <4>4. \A k \in 1..Len(m.conns) : k = 1
        BY <1>1, <3>2, <4>3
      <4>5. Len(m.conns) >= 2 => 2 \in 1..Len(m.conns)
        BY <1>2
      <4> QED
        BY <1>2, <4>3, <4>4, <4>5
    <3>3. Len(n.conns) <= 1
      BY <1>9 DEF Sole
    <3>4. Len(n.conns) = 0 \/ Len(n.conns) = 1
      <4>1. \A q \in Nat : q <= 1 => q = 0 \/ q = 1
        OBVIOUS
      <4>2. Len(n.conns) \in Nat
        BY <1>2
      <4> QED
        BY <3>3, <4>1, <4>2
    <3> QED
      BY <3>1, <3>2, <3>4
  <2>2. ASSUME NEW k \in 1..Len(m.conns) PROVE k = p
    BY <1>2, <2>1
  <2>3. o.heard /\ ~o.ghosts /\ Entries(o) # {}
    BY <1>3, <1>4, <1>6, <1>9 DEF Sole
  <2> QED
    BY <1>1, <2>1, <2>2, <2>3 DEF Sole
<1>10. b.stage \in {"idle", "connecting", "open"} /\ r \in Entries(m.conns[p])
  BY <1>1, <1>4, <1>5, <1>6
<1> QED
  BY <1>1, <1>3, <1>7, <1>8, <1>9, <1>10 DEF m, p, b

\* connect(), for a call and those that wait with it, of which x tells.
Connects(n, t, x) ==
    /\ n \in Nets /\ mode.pool = FALSE /\ ~mode.skip /\ Hears(n) /\ Upright(n) /\ Clean(n)
    /\ \A k \in 1..Len(n.conns) : Neat(n.conns[k])
    /\ t \in Transport /\ Connecting(n, t)
    /\ \A c \in Calls : x[c].at = "failed" => CutOff(x[c]) /\ t.auto # 0
    /\ \A c \in Calls : x[c].at \in {"login", "auto"} => x[c].on = Attempt(n)

LEMMA ConnectingServes ==
    ASSUME NEW n, NEW t, NEW x, Connects(n, t, x)
    PROVE  /\ Serving(net', transport', x) /\ Clean(net')
           /\ transport'.session = t.session /\ transport'.auto = t.auto /\ transport'.retries = t.retries
           /\ transport'.connecting = "pending" /\ transport'.login = Attempt(n)
           /\ Sole(n) => Sole(net')
<1>0. /\ n \in Nets /\ mode.pool = FALSE /\ ~mode.skip /\ Hears(n) /\ Upright(n) /\ Clean(n)
      /\ \A k \in 1..Len(n.conns) : Neat(n.conns[k])
      /\ t \in Transport /\ Connecting(n, t)
      /\ \A c \in Calls : x[c].at = "failed" => CutOff(x[c]) /\ t.auto # 0
      /\ \A c \in Calls : x[c].at \in {"login", "auto"} => x[c].on = Attempt(n)
  BY DEF Connects
<1>1. /\ net' = Sent(n, LoginRequest)
      /\ transport' \in Transport /\ transport'.connecting = "pending" /\ transport'.login = Attempt(n)
      /\ transport'.session = t.session /\ transport'.auto = t.auto /\ transport'.retries = t.retries
  BY <1>0, ConnectingOf
<1> DEFINE m == Sent(n, LoginRequest)
           p == Attempt(n)
<1>2. LoginRequest \in SomeRequest /\ LoginRequest.reply = "none" /\ LoginRequest.what # "db-close"
      /\ LoginRequest.who = Login
  BY LoginRequestType
<1>3. /\ p \in 1..Len(m.conns) /\ Upright(m) /\ Clean(m) /\ LoginRequest \in Entries(m.conns[p])
      /\ Sole(n) => Sole(m)
  BY <1>0, <1>2, SentServes
<1> HIDE DEF m, p
<1>4. net' = m /\ transport'.login = p
  BY <1>1 DEF m, p
<1> DEFINE u == transport'
           y == net'
<1> HIDE DEF u, y
<1>5. Serving(y, u, x)
  BY <1>0, <1>1, <1>2, <1>3, <1>4 DEF Serving, u, y, p
<1> QED
  BY <1>1, <1>3, <1>4, <1>5 DEF u, y

LEMMA SendMend ==
    ASSUME Ease, NEW c \in Calls, Send(c)
    PROVE  Mended(net', transport', db', servers', call', faults')
<1> DEFINE s == IF call[c].session # 0 THEN call[c].session ELSE transport.session
           r == RequestOf(c, s)
<1>1. /\ call[c].at = "ready" /\ call[c] \in SomeCall /\ call \in SomeCalls /\ transport \in Transport /\ db \in Databases
      /\ call[c].what # "none" /\ Basic /\ Secure /\ call[c].session \in Nat /\ transport.session \in Nat
      /\ mode.pool = FALSE /\ mode.skip \in BOOLEAN /\ net \in Nets /\ Hears(net) /\ Clean(net)
      /\ call[c].what # "db-close" /\ Fair(transport, db, call) /\ Conns = 1..Len(net.conns)
      /\ Asks(net, transport, call[c]) /\ Known(net, transport, db)
      /\ Mending(net, transport, servers, call, faults)
      /\ UNCHANGED <<mode, servers, faults>>
  BY EaseFacts, SecureFacts, CallType DEF Send, At, AtWork, Transport
<1>2. /\ ~Severed(transport, servers, call)
      /\ Serving(net, transport, call) => (faults = <<>> => Whole(net, transport, servers))
      /\ ~Serving(net, transport, call) => faults # <<>> /\ Refused(net, transport, servers, call)
  BY <1>1, SeveredFacts DEF Mending
<1>3. s \in {0} \cup Lent(net) /\ s \in Nat
  BY <1>1 DEF Asks, Known
<1>4. CASE s # 0 \/ mode.skip
  <2> DEFINE m == Sent(net, r)
             p == Attempt(net)
             x == Hand(call, net, r)
             d == db'
  <2>1. net' = m /\ call' = x /\ UNCHANGED transport
        /\ db' = IF call'[c].at = "resolved" THEN [db EXCEPT !.session = 0] ELSE db
    BY <1>4 DEF Send
  <2>2. r \in SomeRequest /\ r.who = c /\ r.what = call[c].what /\ r.session = s /\ r.reply = "none"
    BY <1>1, <1>3, RequestOfType
  <2>3. Serving(net, transport, call)
    <3> SUFFICES ASSUME Refused(net, transport, servers, call) PROVE FALSE
      BY <1>2
    <3>1. transport.session = 0 /\ call[c].session = 0 /\ ~mode.skip
      BY <1>1, RefusedFacts DEF Unknown, Refused
    <3> QED
      BY <1>4, <3>1
  <2>4. Upright(net)
    BY <2>3 DEF Serving
  <2> HIDE DEF r
  <2>5. /\ p \in 1..Len(m.conns) /\ Upright(m) /\ Clean(m)
        /\ Place(net, p).stage \in {"idle", "connecting", "open"}
        /\ Lent(net) \subseteq {p}
        /\ \A k \in 1..Len(net.conns) : /\ k \in 1..Len(m.conns) /\ Entries(net.conns[k]) \subseteq Entries(m.conns[k])
                                        /\ net.conns[k].stage = "open" => m.conns[k].stage = "open"
        /\ \A k \in 1..Len(m.conns) : k \in 1..Len(net.conns) \/ k = p
        /\ Sole(net) => Sole(m)
    <3>1. /\ net \in Nets /\ mode.pool = FALSE /\ Hears(net) /\ Clean(net)
          /\ r \in SomeRequest /\ r.reply = "none" /\ r.what # "db-close"
      BY <1>1, <2>2
    <3>2. /\ m \in Nets /\ p \in 1..Len(m.conns) /\ p \in Nat \ {0} /\ Upright(m) /\ Clean(m)
          /\ Place(net, p).stage \in {"idle", "connecting", "open"}
          /\ r \in Entries(m.conns[p])
          /\ Lent(net) \subseteq {p}
          /\ \A k \in 1..Len(net.conns) : /\ k \in 1..Len(m.conns) /\ Entries(net.conns[k]) \subseteq Entries(m.conns[k])
                                          /\ net.conns[k].stage = "open" => m.conns[k].stage = "open"
          /\ \A k \in 1..Len(m.conns) : k \in 1..Len(net.conns) \/ k = p
          /\ Sole(net) => Sole(m)
      BY <2>4, <3>1, SentServes, Zenon
    <3> QED
      BY <3>2
  <2>6. /\ \A i \in Calls : i # c => x[i] = call[i]
        /\ x[c].at = "sent"
    BY <1>1, <1>3, <2>2, <2>5, HandOf DEF r
  <2>7. d.opening # "rejected"
    <3>1. d = db \/ d = [db EXCEPT !.session = 0]
      BY <2>1
    <3>2. db.opening # "rejected"
      BY <1>1 DEF Fair
    <3>3. [db EXCEPT !.session = 0].opening = db.opening
      BY <1>1 DEF Databases
    <3> HIDE DEF d
    <3> QED
      BY <3>1, <3>2, <3>3
  <2> HIDE DEF m, p, x, d
  <2>8. Fair(transport, d, x)
    BY <1>1, <2>6, <2>7 DEF Fair
  <2>9. Serving(m, transport, x)
    BY <2>3, <2>5, <2>6 DEF Serving
  <2>10. ASSUME faults = <<>> PROVE Whole(m, transport, servers)
    <3>1. Whole(net, transport, servers)
      BY <1>2, <2>3, <2>10
    <3>2. ASSUME transport.session # 0, NEW k \in 1..Len(m.conns) PROVE m.conns[k].stage = "open"
      <4>1. transport.session \in Lent(net) /\ Lent(net) \subseteq 1..Len(net.conns)
        BY <1>1, <3>2, NetType DEF Known
      <4>2. k \in 1..Len(net.conns)
        BY <2>5, <4>1
      <4> QED
        BY <2>5, <3>1, <3>2, <4>2 DEF Whole
    <3> QED
      BY <2>5, <3>1, <3>2 DEF Whole
  <2>11. Mended(m, transport, d, servers, x, faults)
    BY <2>5, <2>8, <2>9, <2>10 DEF Mended, Mending
  <2> QED
    BY <1>1, <2>1, <2>11 DEF d
<1>5. CASE s = 0 /\ ~mode.skip /\ transport.connecting = "pending"
  <2>1. call' = Put(call, c, "login", transport.login) /\ UNCHANGED <<net, transport, db>>
    BY <1>5 DEF Send, Put
  <2>2. "login" \in AtRest \cup AtWork /\ transport.login \in Nat
    BY <1>1 DEF AtWork, Transport
  <2> DEFINE x == Put(call, c, "login", transport.login)
  <2>3. x[c].at = "login" /\ x[c].on = transport.login /\ \A d \in Calls : d # c => x[d] = call[d]
    BY <1>1, <2>2, OneCall
  <2> HIDE DEF x
  <2>4. Fair(transport, db, x)
    BY <1>1, <2>3 DEF Fair
  <2>5. Serving(net, transport, call) => Serving(net, transport, x)
    BY <1>5, <2>3 DEF Serving
  <2>6. Refused(net, transport, servers, call) => Refused(net, transport, servers, x)
    BY <2>3 DEF Refused
  <2>7. Mended(net, transport, db, servers, x, faults)
    BY <1>1, <1>2, <2>4, <2>5, <2>6 DEF Mended, Mending
  <2> QED
    BY <1>1, <2>1, <2>7 DEF x
<1>6. CASE s = 0 /\ ~mode.skip /\ transport.connecting # "pending"
  <2> DEFINE x == Put(call, c, "login", Attempt(net))
  <2>1. Connecting(net, transport) /\ call' = x /\ db' = db
    <3>1. transport.connecting # "rejected"
      BY <1>1 DEF Fair
    <3> QED
      BY <1>6, <3>1, ZenonT(30) DEF Send, Put
  <2>2. Serving(net, transport, call) /\ Upright(net)
    BY <1>2, <1>6 DEF Refused, Serving
  <2>3. transport.session = 0
    BY <1>6
  <2>4. Attempt(net) \in Nat /\ "login" \in AtRest \cup AtWork
    BY <1>1, PlaceOf DEF AtWork
  <2>5. /\ x[c].at = "login" /\ x[c].on = Attempt(net) /\ \A i \in Calls : i # c => x[i] = call[i]
    BY <1>1, <2>4, OneCall
  <2>6. \A k \in 1..Len(net.conns) : Neat(net.conns[k])
    BY <1>1, BasicFacts
  <2> HIDE DEF x
  <2>7. \A i \in Calls : x[i].at # "failed" /\ (x[i].at \in {"login", "auto"} => x[i].on = Attempt(net))
    BY <1>6, <2>2, <2>5 DEF Serving
  <2>8. /\ Serving(net', transport', x) /\ Clean(net')
        /\ transport'.session = 0 /\ transport'.auto = transport.auto /\ transport'.retries = transport.retries
        /\ transport'.connecting = "pending"
        /\ Sole(net) => Sole(net')
    <3>1. \A i \in Calls : x[i].at = "failed" => CutOff(x[i]) /\ transport.auto # 0
      BY <2>7
    <3>2. \A i \in Calls : x[i].at \in {"login", "auto"} => x[i].on = Attempt(net)
      BY <2>7
    <3>3. Connects(net, transport, x)
      BY <1>1, <1>6, <2>1, <2>2, <2>6, <3>1, <3>2 DEF Connects
    <3> QED
      BY <2>3, <3>3, ConnectingServes
  <2> DEFINE m == net'
             t == transport'
  <2> HIDE DEF m, t
  <2>9. Fair(t, db, x)
    <3>1. t.connecting = "pending"
      BY <2>8 DEF t
    <3> QED
      BY <1>1, <1>6, <2>5, <3>1 DEF Fair
  <2>10. faults = <<>> => Whole(m, t, servers)
    BY <1>2, <2>2, <2>8 DEF Whole, m, t
  <2>11. Mended(m, t, db, servers, x, faults)
    BY <2>8, <2>9, <2>10 DEF Mended, Mending, m, t
  <2> QED
    BY <1>1, <2>1, <2>11 DEF m, t
<1> QED
  BY <1>4, <1>5, <1>6

LEMMA AutoReconnectedMend ==
    ASSUME Ease, AutoReconnected
    PROVE  Mended(net', transport', db', servers', call', faults')
<1> DEFINE W == {c \in Calls : At(c, {"auto"})}
           x == Resent(call, W)
           t == [transport EXCEPT !.auto = 0]
<1>1. /\ UNCHANGED <<net, db, servers, faults>> /\ transport' = t /\ call' = x
      /\ mode.skip /\ transport.auto # 0 /\ \A c \in Calls : call[c].at # "failed"
  BY DEF AutoReconnected, At
<1>2. /\ Serving(net, transport, call) /\ faults # <<>> /\ Clean(net) /\ Fair(transport, db, call)
      /\ call \in SomeCalls /\ transport \in Transport
  BY <1>1, EaseFacts DEF Mending, Severed, Refused, Whole
<1>3. \A c \in W \cap Calls : call[c].what # "none"
  <2>1. \A c \in Calls : call[c] \in SomeCall
    BY <1>2 DEF SomeCalls
  <2> QED
    BY <2>1, CallType DEF At, AtWork
<1>4. /\ \A c \in Calls : c \notin W => x[c] = call[c]
      /\ \A c \in Calls : c \in W => x[c].at \in {"begin", "ready"}
  BY <1>2, <1>3, ResentOf
<1>5. t.connecting = transport.connecting /\ t.login = transport.login
  BY <1>2 DEF Transport
<1>6. \A c \in Calls : c \notin W => call[c].at # "auto"
  BY DEF At
<1> HIDE DEF x, t, W
<1>7. Fair(t, db, x)
  BY <1>2, <1>4, <1>5 DEF Fair
<1>8. Serving(net, t, x)
  <2>1. \A c \in Calls : x[c].at # "failed"
    BY <1>1, <1>4
  <2>2. \A c \in Calls : x[c].at \in {"login", "auto"} => x[c].on = 0
    BY <1>1, <1>2, <1>4 DEF Serving
  <2> QED
    BY <1>1, <1>2, <1>5, <2>1, <2>2 DEF Serving
<1>9. Mended(net, t, db, servers, x, faults)
  BY <1>2, <1>7, <1>8 DEF Mended, Mending
<1> QED
  BY <1>1, <1>9

\* A reset of connections that have no requests.
LEMMA ResetServes ==
    ASSUME NEW n \in Nets, mode.pool = FALSE, Hears(n), NEW svs, svs[1].host \in STRING,
           \A k \in 1..Len(n.conns) : Entries(n.conns[k]) = {} /\ n.conns[k].login = "none" /\ ~n.conns[k].ending
    PROVE  LET m == Reset(n, svs) IN
           /\ m \in Nets /\ Hears(m) /\ Upright(m) /\ Clean(m)
           /\ \A k \in 1..Len(m.conns) : ~m.conns[k].heard /\ Neat(m.conns[k])
<1> DEFINE m == Reset(n, svs)
<1>1. /\ m \in Nets /\ Len(m.conns) = Len(n.conns) /\ Lent(m) = {}
      /\ \A k \in 1..Len(n.conns) :
            m.conns[k] = IF k \in Lent(n) THEN Left(n.conns[k]) ELSE n.conns[k]
  BY ResetOf
<1>2. \A k \in 1..Len(n.conns) : /\ n.conns[k] \in SomeConn
                                 /\ ~HasLogin(n.conns[k].queue)
  BY NetType, NoEntries
<1>3. \A k \in 1..Len(n.conns) : m.conns[k].login = "none"
  BY <1>2, ResetUnflagged
<1>4. \A k \in 1..Len(n.conns) : Leaves(n.conns[k])
  BY <1>2, BlankLeaves DEF Blank
<1>5. Hears(m) /\ \A k \in 1..Len(m.conns) : Blank(m.conns[k])
  BY <1>4, ResetBlank
<1>6. \A k \in 1..Len(m.conns) : Entries(m.conns[k]) = {} /\ ~m.conns[k].heard
  BY <1>1, <1>5 DEF Hears, Blank
<1>7. ASSUME NEW k \in 1..Len(n.conns) PROVE ~m.conns[k].ending
  <2>1. Left(n.conns[k]).ending => n.conns[k].ending
    BY <1>2, LeftOf
  <2> QED
    BY <1>1, <2>1
<1>8. ASSUME NEW k \in 1..Len(m.conns) PROVE Neat(m.conns[k])
  <2>1. m.conns[k] \in SomeConn
    BY <1>1, NetType
  <2>2. m.conns[k].queue = <<>> /\ m.conns[k].waiting = <<>>
    BY <1>6, <2>1, NoEntries
  <2> QED
    BY <2>2, NoRequests DEF Neat
<1>9. Upright(m)
  BY <1>1, <1>3, <1>6 DEF Upright
<1>10. Clean(m)
  BY <1>1, <1>6, <1>7 DEF Clean
<1> QED
  BY <1>1, <1>5, <1>6, <1>8, <1>9, <1>10

LEMMA AutoReconnectAndSendMend ==
    ASSUME Ease, NEW c \in Calls, AutoReconnectAndSend(c), Len(Hosts) > 1
    PROVE  Mended(net', transport', db', servers', call', faults')
<1>1. /\ call[c].at = "failed" /\ call[c] \in SomeCall /\ call \in SomeCalls /\ transport \in Transport
      /\ db \in Databases /\ call[c].what # "none" /\ Basic
      /\ mode.pool = FALSE /\ mode.skip \in BOOLEAN /\ net \in Nets /\ Hears(net) /\ Clean(net)
      /\ Fair(transport, db, call) /\ Mending(net, transport, servers, call, faults)
      /\ servers \in Servers /\ Len(servers) = Len(Hosts) /\ UNCHANGED <<mode, faults>>
  BY EaseFacts, SecureFacts, CallType DEF AutoReconnectAndSend, At, AtWork
<1>2. CASE Serving(net, transport, call)
  <2>1. /\ call[c].err \in Reconnectable /\ transport.auto # 0
        /\ mode.skip \/ transport.connecting = "pending"
    BY <1>1, <1>2 DEF Serving, CutOff
  <2>2. call' = Put(call, c, "auto", transport.login) /\ UNCHANGED <<servers, net, transport, db>>
    BY <1>1, <2>1 DEF AutoReconnectAndSend, Put
  <2>3. "auto" \in AtRest \cup AtWork /\ transport.login \in Nat
    BY <1>1 DEF AtWork, Transport
  <2> DEFINE x == Put(call, c, "auto", transport.login)
  <2>4. x[c].at = "auto" /\ x[c].on = transport.login /\ \A d \in Calls : d # c => x[d] = call[d]
    BY <1>1, <2>3, OneCall
  <2> HIDE DEF x
  <2>5. Fair(transport, db, x)
    BY <1>1, <2>4 DEF Fair
  <2>6. Serving(net, transport, x)
    <3>1. mode.skip => transport.login = 0
      BY <1>1 DEF Fair
    <3> QED
      BY <1>2, <2>1, <2>4, <3>1 DEF Serving
  <2>7. faults # <<>>
    <3>1. faults = <<>> => transport.auto = 0
      BY <1>1, <1>2 DEF Mending, Whole
    <3> QED
      BY <2>1, <3>1
  <2>8. Mended(net, transport, db, servers, x, faults)
    BY <1>1, <2>5, <2>6, <2>7 DEF Mended, Mending
  <2> QED
    BY <1>1, <2>2, <2>8 DEF x
<1>3. CASE Severed(transport, servers, call) /\ faults # <<>>
  <2>1. /\ call[c].err \in Reconnectable /\ transport.auto = 0 /\ ServerLeft
    BY <1>1, <1>3, SomeServerLeft DEF Severed, CutOff
  <2>2. servers' = ShiftServer /\ servers'[1].host \in STRING
    BY <1>1, <2>1, ShiftServerType, ServersType DEF AutoReconnectAndSend
  <2> DEFINE n == Reset(net, servers')
             x == Dropped(call, net)
             on == IF mode.skip THEN 0 ELSE Attempt(n)
  <2>3. /\ call' = Put(x, c, "auto", on) /\ db' = [db EXCEPT !.session = 0]
        /\ IF mode.skip
           THEN net' = n /\ transport' = [NoSession EXCEPT !.auto = 1]
           ELSE Connecting(n, [NoSession EXCEPT !.auto = on])
    BY <2>1 DEF AutoReconnectAndSend, Put
  <2>4. \A k \in 1..Len(net.conns) : Entries(net.conns[k]) = {} /\ net.conns[k].login = "none" /\ ~net.conns[k].ending
    BY <1>1, <1>3, SeveredFacts DEF Conns, Clean
  <2>5. /\ n \in Nets /\ Hears(n) /\ Upright(n) /\ Clean(n)
        /\ \A k \in 1..Len(n.conns) : Neat(n.conns[k])
    BY <1>1, <2>2, <2>4, ResetServes
  <2>6. \A d \in Calls : x[d] = call[d]
    BY <1>1, <2>4, NobodyTold
  <2>7. x \in SomeCalls
    BY <1>1, <2>1, <2>2, BasicFacts, Before, ShiftServerType, ResetOrderly
  <2> HIDE DEF n, x
  <2>8. on \in Nat /\ (~mode.skip => on # 0)
    BY <1>1, <2>5, PlaceOf
  <2> HIDE DEF on
  <2>9. "auto" \in AtRest \cup AtWork
    BY DEF AtWork
  <2> DEFINE y == call'
             e == db'
             u == transport'
             m == net'
  <2>10. y[c].at = "auto" /\ y[c].on = on /\ \A d \in Calls : d # c => y[d] = call[d]
    BY <1>1, <2>3, <2>6, <2>7, <2>8, <2>9, OneCall
  <2>11. e.opening # "rejected"
    BY <1>1, <2>3 DEF Databases, Fair
  <2>12. /\ NoSession \in Transport /\ NoSession.session = 0 /\ NoSession.connecting = "none"
         /\ NoSession.login = 0
    BY <1>1, NoSessionType
  <2> HIDE DEF y, e
  <2>13. \A d \in Calls : y[d].at = "failed" => CutOff(y[d])
    BY <1>3, <2>10 DEF Severed
  <2>14. \A d \in Calls : d # c /\ y[d].at \in {"login", "auto"} => mode.skip /\ y[d].on = 0
    BY <1>3, <2>10 DEF Severed
  <2>15. CASE mode.skip
    <3>1. m = n /\ u.connecting = "none" /\ u.auto = 1 /\ u.login = 0
      BY <2>3, <2>12, <2>15 DEF Transport
    <3>2. on = 0
      BY <2>15 DEF on
    <3> HIDE DEF u, m
    <3>3. Serving(m, u, y)
      BY <2>5, <2>10, <2>13, <2>14, <2>15, <3>1, <3>2 DEF Serving
    <3>4. Fair(u, e, y)
      BY <1>1, <2>10, <2>11, <3>1 DEF Fair
    <3>5. Mended(m, u, e, servers', y, faults)
      BY <1>3, <2>5, <3>1, <3>3, <3>4 DEF Mended, Mending
    <3> QED
      BY <1>1, <3>5 DEF m, u, e, y
  <2>16. CASE ~mode.skip
    <3> DEFINE t == [NoSession EXCEPT !.auto = on]
    <3>1. t \in Transport /\ t.session = 0 /\ t.auto = on
      BY <2>8, <2>12 DEF Transport
    <3>2. Connecting(n, t)
      BY <2>3, <2>16
    <3>3. on = Attempt(n)
      BY <2>16 DEF on
    <3> HIDE DEF t
    <3>4. \A d \in Calls : y[d].at = "failed" => CutOff(y[d]) /\ t.auto # 0
      BY <2>8, <2>13, <2>16, <3>1
    <3>5. \A d \in Calls : y[d].at \in {"login", "auto"} => y[d].on = Attempt(n)
      BY <2>10, <2>14, <2>16, <3>3
    <3>6. Serving(net', transport', y) /\ Clean(net') /\ transport'.connecting = "pending"
      <4>1. Connects(n, t, y)
        BY <1>1, <2>5, <2>16, <3>1, <3>2, <3>4, <3>5 DEF Connects
      <4> QED
        BY <4>1, ConnectingServes
    <3> HIDE DEF u, m
    <3>7. Fair(u, e, y)
      BY <1>1, <2>10, <2>11, <2>16, <3>6 DEF Fair, u
    <3>8. Mended(m, u, e, servers', y, faults)
      BY <1>3, <3>6, <3>7 DEF Mended, Mending, m, u
    <3> QED
      BY <1>1, <3>8 DEF m, u, e, y
  <2> QED
    BY <1>1, <2>15, <2>16
<1>4. ~Refused(net, transport, servers, call)
  BY <1>1 DEF Refused
<1> QED
  BY <1>1, <1>2, <1>3, <1>4 DEF Mending

LEMMA LoginFailsMend ==
    ASSUME Ease, NEW k \in Conns, LoginFails(k), Len(Hosts) > 1
    PROVE  Mended(net', transport', db', servers', call', faults')
<1> DEFINE n0 == [net EXCEPT !.conns[k].login = "none"]
<1>1. /\ net.conns[k].login # "none" /\ Basic /\ Secure
      /\ mode.pool = FALSE /\ mode.skip \in BOOLEAN /\ net \in Nets /\ Hears(net) /\ call \in SomeCalls
      /\ transport \in Transport /\ db \in Databases /\ UNCHANGED <<mode, faults>>
      /\ k \in 1..Len(net.conns) /\ Conns = 1..Len(net.conns) /\ net.conns[k] \in SomeConn /\ Clean(net)
      /\ Fair(transport, db, call) /\ Mending(net, transport, servers, call, faults)
      /\ servers \in Servers /\ Len(servers) = Len(Hosts)
      /\ \A d \in Calls : call[d] \in SomeCall
  BY EaseFacts, SecureFacts DEF LoginFails
<1>2. /\ Refused(net, transport, servers, call) /\ faults # <<>>
  BY <1>1, SeveredFacts DEF Mending, Serving, Upright
<1>3. /\ k = transport.login /\ net.conns[k].login = "refused" /\ transport.auto = 0 /\ ~mode.skip
      /\ \A j \in 1..Len(net.conns) : j # k => net.conns[j].login = "none"
      /\ \A c \in Calls : call[c].at # "failed" /\ (call[c].at \in {"login", "auto"} => call[c].on = k)
      /\ ServerLeft
  BY <1>1, <1>2, SomeServerLeft DEF Refused
<1>4. \A j \in Conns : Entries(net.conns[j]) = {}
  BY <1>2, RefusedFacts
<1> DEFINE n == Reset(n0, servers')
           on == Attempt(n)
           t == [NoSession EXCEPT !.auto = IF NoSession.auto = k THEN on ELSE NoSession.auto]
<1>5. /\ Connecting(n, t)
      /\ call' = [c \in Calls |-> IF c \in Waiters(k) THEN [call[c] EXCEPT !.on = on]
                                          ELSE Dropped(call, net)[c]]
      /\ db' = [db EXCEPT !.session = 0]
      /\ servers' = ShiftServer
  BY <1>3 DEF LoginFails
<1>6. servers'[1].host \in STRING
  BY <1>1, <1>5, ShiftServerType, ServersType
<1>7. /\ n0 \in Nets /\ Lent(n0) = Lent(net) /\ Len(n0.conns) = Len(net.conns)
      /\ \A j \in Conns : j # k => n0.conns[j] = net.conns[j]
      /\ n0.conns[k] = [net.conns[k] EXCEPT !.login = "none"]
      /\ \A j \in Conns : n0.conns[j].queue = net.conns[j].queue /\ n0.conns[j].waiting = net.conns[j].waiting
  BY <1>1, Lowered
<1>8. n0.conns[k].login = "none" /\ n0.conns[k].heard = net.conns[k].heard /\ n0.conns[k].ending = net.conns[k].ending
  BY <1>1, <1>7 DEF SomeConn
<1> HIDE DEF n0
<1>9. Hears(n0)
  BY <1>1, <1>7, <1>8 DEF Hears
<1>10. \A j \in 1..Len(n0.conns) : Entries(n0.conns[j]) = {} /\ n0.conns[j].login = "none" /\ ~n0.conns[j].ending
  <2> TAKE j \in 1..Len(n0.conns)
  <2>1. j \in Conns /\ Entries(net.conns[j]) = {} /\ ~net.conns[j].ending
    BY <1>1, <1>4, <1>7 DEF Clean
  <2>2. Entries(n0.conns[j]) = {}
    BY <1>7, <2>1 DEF Entries
  <2>3. CASE j = k
    BY <1>8, <2>1, <2>2, <2>3
  <2>4. CASE j # k
    BY <1>1, <1>3, <1>7, <2>1, <2>2, <2>4
  <2> QED
    BY <2>3, <2>4
<1>11. /\ n \in Nets /\ Hears(n) /\ Upright(n) /\ Clean(n)
       /\ \A j \in 1..Len(n.conns) : Neat(n.conns[j])
  BY <1>1, <1>6, <1>7, <1>9, <1>10, ResetServes
<1>12. \A c \in Calls : Dropped(call, net)[c] = call[c]
  BY <1>1, <1>4, NobodyTold
<1>13. /\ NoSession \in Transport /\ NoSession.session = 0 /\ NoSession.auto = transport.auto
  BY <1>1, NoSessionType
<1> HIDE DEF n
<1>14. on \in Nat \ {0} /\ k # 0
  <2>1. k # 0
    BY <1>1
  <2>2. on \in Nat \ {0}
    BY <1>1, <1>11, PlaceOf
  <2> QED
    BY <2>1, <2>2
<1>15. t = [NoSession EXCEPT !.auto = 0]
  BY <1>3, <1>13, <1>14
<1>16. t \in Transport
  BY <1>13, <1>15 DEF Transport
<1> HIDE DEF t
<1> DEFINE y == call'
           e == db'
<1>17. e.opening # "rejected"
  BY <1>1, <1>5 DEF Databases, Fair
<1>18. \A c \in Calls : c \in Waiters(k) <=> call[c].at \in {"login", "auto"}
  BY <1>3 DEF Waiters, At
<1>19. \A c \in Calls : /\ y[c].at = call[c].at
                        /\ y[c].at \in {"login", "auto"} => y[c].on = on
  <2> HIDE DEF on
  <2> TAKE c \in Calls
  <2>1. CASE c \in Waiters(k)
    <3>1. y[c] = [call[c] EXCEPT !.on = on]
      BY <1>5, <2>1 DEF on
    <3>2. call[c] \in SomeCall
      BY <1>1
    <3> HIDE DEF y
    <3> QED
      BY <3>1, <3>2 DEF SomeCall
  <2>2. CASE c \notin Waiters(k)
    <3>1. y[c] = call[c]
      BY <1>5, <1>12, <2>2
    <3> QED
      BY <1>18, <2>2, <3>1
  <2> QED
    BY <2>1, <2>2
<1> HIDE DEF y, e
<1>20. \A c \in Calls : y[c].at = "failed" => CutOff(y[c]) /\ t.auto # 0
  BY <1>3, <1>19
<1>21. \A c \in Calls : y[c].at \in {"login", "auto"} => y[c].on = Attempt(n)
  BY <1>19
<1>22. Serving(net', transport', y) /\ Clean(net') /\ transport'.connecting = "pending"
  <2>1. mode.pool = FALSE /\ ~mode.skip /\ Connecting(n, t) /\ t \in Transport
    BY <1>1, <1>3, <1>5, <1>16
  <2>2. Connects(n, t, y)
    BY <1>11, <1>20, <1>21, <2>1 DEF Connects
  <2> QED
    BY <2>2, ConnectingServes
<1> DEFINE u == transport'
           m == net'
<1> HIDE DEF u, m
<1>23. Fair(u, e, y)
  BY <1>1, <1>3, <1>17, <1>19, <1>22 DEF Fair, u
<1>24. Mended(m, u, e, servers', y, faults)
  BY <1>2, <1>22, <1>23 DEF Mended, Mending, m, u
<1> QED
  BY <1>1, <1>24 DEF m, u, e, y

\* Before an event of a socket no call has been cut off, and no login has failed.
LEMMA CalmServes ==
    ASSUME Ease, Calm
    PROVE  /\ Serving(net, transport, call) /\ Clean(net) /\ Fair(transport, db, call) /\ Upright(net)
           /\ faults = <<>> => Whole(net, transport, servers)
           /\ \A c \in Calls : call[c].at \notin {"begin", "ready", "failed"}
           /\ \A k \in Conns : net.conns[k].login = "none"
<1>1. /\ Clean(net) /\ Fair(transport, db, call) /\ Mending(net, transport, servers, call, faults)
      /\ Conns = 1..Len(net.conns)
  BY EaseFacts
<1>2. /\ \A c \in Calls : call[c].at \notin {"begin", "ready", "failed"}
      /\ \A k \in Conns : net.conns[k].login = "none"
  BY CalmFacts
<1>3. ~Severed(transport, servers, call)
  BY <1>2 DEF Severed
<1>4. ~Refused(net, transport, servers, call)
  BY <1>1, <1>2 DEF Refused
<1>5. Serving(net, transport, call) /\ (faults = <<>> => Whole(net, transport, servers))
  BY <1>1, <1>3, <1>4 DEF Mending
<1> QED
  BY <1>1, <1>2, <1>5 DEF Serving

\* A connection that is open, and keeps its login.
LEMMA ChangedServes ==
    ASSUME Ease, Calm, NEW k \in Conns, NEW o \in SomeConn,
           o.heard = net.conns[k].heard, o.ghosts = net.conns[k].ghosts, o.ending = net.conns[k].ending,
           o.login = "none", o.stage = "open",
           \A e \in Entries(o) : e.reply \in {"none", "ok"},
           \A e \in Entries(net.conns[k]) : e.who = Login => \E f \in Entries(o) : f.who = Login
    PROVE  Mended([net EXCEPT !.conns[k] = o], transport, db, servers, call, faults)
<1> DEFINE m == [net EXCEPT !.conns[k] = o]
<1>1. /\ net \in Nets /\ k \in 1..Len(net.conns) /\ Serving(net, transport, call) /\ Clean(net) /\ Fair(transport, db, call)
      /\ faults = <<>> => Whole(net, transport, servers)
  BY EaseFacts, CalmServes
<1>2. /\ Len(m.conns) = Len(net.conns) /\ m.conns[k] = o
      /\ \A j \in 1..Len(net.conns) : j # k => m.conns[j] = net.conns[j]
  BY <1>1, ChangedNet
<1> HIDE DEF m
<1>3. Clean(m)
  BY <1>1, <1>2 DEF Clean
<1>4. Upright(m)
  BY <1>1, <1>2 DEF Upright, Serving
<1>5. Serving(m, transport, call)
  <2>1. transport.connecting = "pending" =>
           transport.login \in 1..Len(m.conns) /\ \E e \in Entries(m.conns[transport.login]) : e.who = Login
    BY <1>1, <1>2 DEF Serving
  <2> QED
    BY <1>1, <1>4, <2>1 DEF Serving
<1>6. Whole(net, transport, servers) => Whole(m, transport, servers)
  BY <1>1, <1>2 DEF Whole, Sole
<1> QED
  BY <1>1, <1>3, <1>5, <1>6 DEF Mended, Mending, m

LEMMA ConnectedMend ==
    ASSUME Ease, NEW k \in Conns, Connected(k)
    PROVE  Mended(net', transport', db', servers', call', faults')
<1> DEFINE conn == net.conns[k]
           ws == conn.waiting
           open == [conn EXCEPT !.stage = "open", !.waiting = <<>>]
           o == Written(open, ws)
           closers == {conn.waiting[i].who : i \in {j \in 1..Len(conn.waiting) : conn.waiting[j].what = "db-close"}}
           x == Moved(call, closers, "resolved")
<1>1. /\ net' = [net EXCEPT !.conns[k] = o] /\ call' = x
      /\ db' = IF closers = {} THEN db ELSE [db EXCEPT !.session = 0]
      /\ UNCHANGED <<transport, servers, faults>> /\ Calm /\ conn.stage = "connecting"
  BY DEF Connected
<1>2. /\ conn \in SomeConn /\ ws \in Requests /\ conn.queue \in Requests /\ Fine(conn, k, transport, call)
      /\ call \in SomeCalls /\ Clean(net) /\ k \in 1..Len(net.conns)
      /\ \A e \in Entries(conn) : e.what # "db-close"
  BY EaseFacts, ConnType
<1>3. conn.queue = <<>> /\ conn.login = "none"
  BY <1>1, <1>2, CalmFacts DEF Fine
<1>4. \A e \in Members(ws) : e \in Entries(conn)
  BY DEF Entries
<1>5. closers = {}
  <2>1. \A i \in 1..Len(conn.waiting) : conn.waiting[i] \in Members(ws)
    BY DEF Members
  <2>2. \A i \in 1..Len(conn.waiting) : conn.waiting[i].what # "db-close"
    BY <1>2, <1>4, <2>1
  <2> QED
    BY <2>2
<1>6. open \in SomeConn /\ open.queue = <<>> /\ open.waiting = <<>> /\ open.stage = "open"
      /\ open.heard = conn.heard /\ open.login = "none" /\ open.ghosts = conn.ghosts /\ open.ending = conn.ending
  BY <1>2, <1>3, NoRequests DEF SomeConn, Stages
<1> HIDE DEF open, closers
<1>7. /\ o \in SomeConn /\ o.waiting = <<>> /\ o.stage = "open" /\ o.login = "none"
      /\ o.heard = conn.heard /\ o.ghosts = conn.ghosts
      /\ o.ending <=> (conn.ending \/ \E e \in Members(ws) : e.what = "db-close")
      /\ Members(o.queue) = {e \in Members(ws) : e.what # "db-close"}
  <2> HIDE DEF conn, ws
  <2>1. /\ o \in SomeConn /\ o.waiting = open.waiting /\ o.stage = open.stage /\ o.login = open.login
        /\ o.heard = open.heard /\ o.ghosts = open.ghosts
        /\ o.ending <=> (open.ending \/ \E e \in Members(ws) : e.what = "db-close")
        /\ Members(o.queue) = Members(open.queue) \cup {e \in Members(ws) : e.what # "db-close"}
    BY <1>2, <1>6, WrittenOf
  <2>2. Members(open.queue) = {}
    BY <1>6, NoRequests
  <2> HIDE DEF o
  <2> QED
    BY <1>6, <2>1, <2>2
<1> HIDE DEF o
<1>8. Entries(o) = Entries(conn)
  <2>1. Members(o.waiting) = {} /\ Members(conn.queue) = {}
    BY <1>3, <1>7, NoRequests
  <2> QED
    BY <1>2, <1>4, <1>7, <2>1 DEF Entries
<1>9. o.ending = conn.ending
  <2>1. o.ending \in BOOLEAN /\ conn.ending \in BOOLEAN
    BY <1>2, <1>7, ConnType
  <2> QED
    BY <1>2, <1>4, <1>7, <2>1
<1>10. Mended([net EXCEPT !.conns[k] = o], transport, db, servers, call, faults)
  <2>1. \A e \in Entries(o) : e.reply \in {"none", "ok"}
    BY <1>2, <1>8 DEF Clean
  <2>2. \A e \in Entries(conn) : e.who = Login => \E f \in Entries(o) : f.who = Login
    BY <1>8
  <2> QED
    BY <1>1, <1>7, <1>9, <2>1, <2>2, ChangedServes
<1>11. \A c \in Calls : x[c] = call[c]
  <2>1. "resolved" \in AtRest \cup AtWork /\ ~("resolved" \in AtWork)
    BY DEF AtRest, AtWork
  <2> QED
    BY <1>2, <1>5, <2>1, MovedOf
<1> DEFINE m == [net EXCEPT !.conns[k] = o]
<1> HIDE DEF x, m
<1>12. Mended(m, transport, db, servers, x, faults)
  <2>1. db.opening # "rejected"
    BY <1>10 DEF Mended, Fair
  <2> QED
    BY <1>10, <1>11, <2>1, CallsMend DEF m
<1> QED
  BY <1>1, <1>5, <1>12 DEF m

LEMMA ServeMend ==
    ASSUME Ease, NEW k \in Conns, Serve(k), Smoothly(faults', call')
    PROVE  Mended(net', transport', db', servers', call', faults')
<1> DEFINE conn == net.conns[k]
           q == conn.queue
<1>1. PICK i \in 1..Len(conn.queue), reply \in {"ok", "error", "redirect"} :
        /\ reply = "redirect" => conn.queue[i].what = "op"
        /\ net' = [net EXCEPT !.conns[k].queue[i].reply = reply]
        /\ IF reply = "ok" THEN UNCHANGED faults ELSE Fault(reply)
        /\ conn.stage = "open"
        /\ UNCHANGED <<transport, db, call, servers>> /\ Calm
  BY DEF Serve
<1>2. reply = "ok"
  <2> SUFFICES ASSUME reply # "ok" PROVE FALSE
    OBVIOUS
  <2>1. Fault(reply) /\ reply \in FaultKinds
    BY <1>1 DEF FaultKinds
  <2>2. reply \in Overcome
    BY <2>1, EaseFacts, FirstFault
  <2> QED
    BY <1>1, <2>2 DEF Overcome
<1> DEFINE r == Replying(q[i], "ok")
           t == Answered(q, i, "ok")
           o == [conn EXCEPT !.queue = t]
<1>3. /\ conn \in SomeConn /\ q \in Requests /\ conn.waiting \in Requests /\ Clean(net) /\ k \in 1..Len(net.conns)
      /\ conn.login = "none"
  BY <1>1, EaseFacts, ConnType, CalmFacts
<1>4. net' = [net EXCEPT !.conns[k] = o]
  <2>1. net' = [net EXCEPT !.conns[k].queue[i].reply = "ok"]
    BY <1>1, <1>2
  <2> QED
    BY <2>1 DEF Answered, Replying
<1>5. /\ t \in Requests /\ Len(t) = Len(q) /\ r.who = q[i].who /\ r.reply = "ok"
      /\ Members(t) \subseteq Members(q) \cup {r}
      /\ \A j \in 1..Len(q) : t[j].who = q[j].who
  <2>1. i \in 1..Len(q) /\ ("ok" = "redirect" => q[i].what = "op")
    BY <1>1
  <2>2. q \in Requests /\ "ok" \in {"ok", "error", "redirect"}
    BY <1>3
  <2> HIDE DEF q
  <2>3. t \in Requests /\ Len(t) = Len(q)
    BY <2>1, <2>2, Replied
  <2>4. r.who = q[i].who /\ r.reply = "ok"
    BY <2>1, <2>2, Replied
  <2>5. Members(t) \subseteq Members(q) \cup {r}
    BY <2>1, <2>2, Replied
  <2>6. \A j \in 1..Len(q) : t[j].who = q[j].who
    <3>1. r \in SomeRequest /\ r.who = q[i].who
      BY <2>1, <2>2, Replied
    <3>2. q \in Seq(SomeRequest) /\ t = [q EXCEPT ![i] = r]
      BY <2>2 DEF Requests, Answered
    <3> HIDE DEF t, r
    <3>3. \A j \in 1..Len(q) : t[j] = IF j = i THEN r ELSE q[j]
      BY <2>1, <3>1, <3>2, ExceptSeq
    <3> QED
      BY <3>1, <3>3
  <2> HIDE DEF t, r
  <2> QED
    BY <2>3, <2>4, <2>5, <2>6
<1> HIDE DEF t, r
<1>6. /\ o \in SomeConn /\ o.queue = t /\ o.waiting = conn.waiting /\ o.heard = conn.heard
      /\ o.stage = conn.stage /\ o.login = conn.login /\ o.ghosts = conn.ghosts /\ o.ending = conn.ending
  BY <1>3, <1>5 DEF SomeConn
<1> HIDE DEF o
<1>7. \A e \in Entries(o) : e.reply \in {"none", "ok"}
  <2>1. \A e \in Entries(conn) : e.reply \in {"none", "ok"}
    BY <1>3 DEF Clean
  <2> QED
    BY <1>5, <1>6, <2>1 DEF Entries
<1>8. ASSUME NEW e \in Entries(conn), e.who = Login PROVE \E f \in Entries(o) : f.who = Login
  <2>1. CASE e \in Members(conn.waiting)
    BY <1>6, <1>8, <2>1 DEF Entries
  <2>2. CASE e \in Members(q)
    <3>1. PICK j \in 1..Len(q) : q[j] = e
      BY <2>2 DEF Members
    <3>2. t[j] \in Members(t) /\ t[j].who = Login
      BY <1>5, <1>8, <3>1 DEF Members
    <3> QED
      BY <1>6, <3>2 DEF Entries
  <2> QED
    BY <1>8, <2>1, <2>2 DEF Entries
<1>9. Mended([net EXCEPT !.conns[k] = o], transport, db, servers, call, faults)
  BY <1>1, <1>3, <1>6, <1>7, <1>8, ChangedServes
<1> QED
  BY <1>1, <1>2, <1>4, <1>9

LEMMA NotConnectedMend ==
    ASSUME Ease, NEW k \in Conns, NotConnected(k), Smoothly(faults', call')
    PROVE  Mended(net', transport', db', servers', call', faults')
<1> DEFINE conn == net.conns[k]
<1>1. PICK err \in {"refused", "lost"} :
        /\ net' = [net EXCEPT !.conns[k] = [conn EXCEPT !.stage = "broken", !.waiting = <<>>,
                      !.login = IF HasLogin(conn.waiting) THEN err ELSE "none"]]
        /\ call' = Failing(call, Callers(conn.waiting), err)
        /\ Calm /\ Fault(err) /\ conn.stage = "connecting"
        /\ UNCHANGED <<transport, db, servers>>
  BY DEF NotConnected
<1>2. err = "refused" /\ faults = <<>> /\ faults' # <<>>
  <2>1. err \in FaultKinds
    BY DEF FaultKinds
  <2>2. faults = <<>> /\ faults' # <<>> /\ err \in Overcome
    BY <1>1, <2>1, EaseFacts, FirstFault
  <2> QED
    BY <2>2 DEF Overcome
<1> DEFINE flag == IF HasLogin(conn.waiting) THEN "refused" ELSE "none"
           o == [conn EXCEPT !.stage = "broken", !.waiting = <<>>, !.login = flag]
           m == [net EXCEPT !.conns[k] = o]
           x == Failing(call, Callers(conn.waiting), "refused")
<1>3. /\ conn \in SomeConn /\ conn.waiting \in Requests /\ conn.queue \in Requests /\ Fine(conn, k, transport, call)
      /\ call \in SomeCalls /\ Basic /\ Secure /\ net \in Nets /\ k \in 1..Len(net.conns) /\ Conns = 1..Len(net.conns)
      /\ mode.skip \in BOOLEAN
  BY EaseFacts, ConnType
<1>4. /\ Serving(net, transport, call) /\ Clean(net) /\ Fair(transport, db, call) /\ Whole(net, transport, servers)
      /\ \A c \in Calls : call[c].at # "failed"
      /\ \A j \in Conns : net.conns[j].login = "none"
  BY <1>1, <1>2, CalmServes
<1>5. conn.queue = <<>> /\ conn.heard /\ Entries(conn) # {}
  BY <1>1, <1>3, <1>4 DEF Fine, Whole, Sole
<1>6. Entries(conn) = Members(conn.waiting)
  <2>1. Members(conn.queue) = {}
    BY <1>5, NoRequests
  <2> QED
    BY <2>1 DEF Entries
<1>7. net' = m /\ call' = x
  BY <1>1, <1>2
<1>8. flag \in Flags
  BY DEF Flags, Errors
<1> HIDE DEF flag
<1>9. /\ o \in SomeConn /\ o.queue = <<>> /\ o.waiting = <<>> /\ o.heard = conn.heard /\ o.login = flag
      /\ o.stage = "broken" /\ o.ending = conn.ending
  BY <1>3, <1>5, <1>8, NoRequests DEF SomeConn, Stages
<1> HIDE DEF o
<1>10. Entries(o) = {}
  BY <1>9, NoEntries
<1>11. /\ Len(m.conns) = Len(net.conns) /\ m.conns[k] = o
       /\ \A j \in 1..Len(net.conns) : j # k => m.conns[j] = net.conns[j]
  BY <1>3, <1>9, ChangedNet
<1> HIDE DEF m
<1>12. Clean(m)
  BY <1>3, <1>4, <1>9, <1>10, <1>11 DEF Clean
<1>13. /\ \A c \in Calls : c \notin Callers(conn.waiting) => x[c] = call[c]
       /\ \A c \in Calls : c \in Callers(conn.waiting) => x[c].at = "failed" /\ x[c].err = "refused"
  <2>1. \A c \in Callers(conn.waiting) : call[c].what # "none"
    BY <1>3, Waiting DEF Bound
  <2> QED
    BY <1>3, <2>1, FailingOf DEF Errors
<1> HIDE DEF x
<1>14. Fair(transport, db, x)
  BY <1>4, <1>13 DEF Fair
<1>15. PICK e \in Entries(conn) : TRUE
  BY <1>5
<1>16. CASE e.who = Login
  <2>1. LoggingIn(transport, k)
    BY <1>3, <1>16, LoginAlone
  <2>2. Callers(conn.waiting) = {}
    <3> SUFFICES ASSUME NEW c \in Callers(conn.waiting) PROVE FALSE
      OBVIOUS
    <3>1. PICK f \in Members(conn.waiting) : f.who = c
      BY <1>3, CallersOf
    <3>2. f \in Entries(conn) /\ f.who # Login
      BY <1>6, <3>1 DEF Callers
    <3>3. HasSession(transport)
      BY <1>3, <3>2, CallerAlone
    <3> QED
      BY <2>1, <3>3 DEF LoggingIn, HasSession
  <2>3. flag = "refused"
    BY <1>3, <1>6, <1>15, <1>16, LoginEntry DEF flag
  <2>4. \A c \in Calls : x[c] = call[c]
    BY <1>13, <2>2
  <2>5. /\ AllActive(servers) /\ transport.auto = 0
        /\ ~mode.skip /\ transport.connecting = "pending" /\ transport.login = k
    BY <1>4, <2>1 DEF Whole, LoggingIn
  <2>6. \A c \in Calls : x[c].at # "failed" /\ (x[c].at \in {"login", "auto"} => x[c].on = transport.login)
    BY <1>4, <2>4, <2>5 DEF Serving
  <2>7. \A j \in 1..Len(m.conns) : j # transport.login => m.conns[j].login = "none"
    BY <1>3, <1>4, <1>11, <2>5
  <2>8. Refused(m, transport, servers, x)
    BY <1>3, <1>5, <1>9, <1>11, <2>3, <2>5, <2>6, <2>7 DEF Refused
  <2> QED
    BY <1>1, <1>2, <1>7, <1>12, <1>14, <2>8 DEF Mended, Mending
<1>17. CASE e.who # Login
  <2>1. HasSession(transport) /\ e.who \in Calls /\ e.who \in Callers(conn.waiting)
    <3>1. HasSession(transport)
      BY <1>3, <1>17, CallerAlone
    <3>2. e.who \in Callers(conn.waiting)
      BY <1>3, <1>6, <1>15, <1>17, CallersOf
    <3> QED
      BY <1>3, <3>1, <3>2, CallersOf
  <2>2. mode.skip
    BY <1>1, <1>3, <1>4, <2>1 DEF HasSession, Whole
  <2>3. Severed(transport, servers, x)
    <3>1. AllActive(servers) /\ transport.auto = 0
      BY <1>4 DEF Whole
    <3>2. \E c \in Calls : x[c].at = "failed"
      BY <1>13, <2>1
    <3>3. \A c \in Calls : x[c].at = "failed" => CutOff(x[c])
      BY <1>4, <1>13 DEF CutOff, Reconnectable
    <3>4. \A c \in Calls : x[c].at \in {"login", "auto"} => mode.skip /\ x[c].on = 0
      BY <1>4, <1>13, <2>2 DEF Serving
    <3> QED
      BY <3>1, <3>2, <3>3, <3>4 DEF Severed
  <2> QED
    BY <1>1, <1>2, <1>7, <1>12, <1>14, <2>3 DEF Mended, Mending
<1> QED
  BY <1>16, <1>17

\* The first connection is given up while it is not the login that waits on it.
LEMMA GivenUp ==
    ASSUME Ease, Calm, faults = <<>>, NEW k \in Conns, net.conns[k].stage = "open", ~HasLogin(net.conns[k].queue),
           NEW err \in Reconnectable
    PROVE  LET x == Failing(call, Callers(net.conns[k].queue), err) IN
           /\ x \in SomeCalls /\ net.conns[k].heard /\ ~net.conns[k].ghosts /\ net.conns[k].waiting = <<>>
           /\ Len(net.conns) = 1 /\ k = 1
           /\ AllActive(servers) /\ transport.auto = 0 /\ transport.retries = 0
           /\ \A c \in Calls : /\ x[c].at \notin {"rejected", "stranded"}
                               /\ x[c].at = "failed" => CutOff(x[c])
                               /\ x[c].at \in {"login", "auto"} => mode.skip /\ x[c].on = 0
           /\ \A c \in Callers(net.conns[k].queue) : c \in Calls /\ x[c].at = "failed"
<1> DEFINE conn == net.conns[k]
           q == conn.queue
           x == Failing(call, Callers(q), err)
<1>1. /\ conn \in SomeConn /\ conn.waiting \in Requests /\ q \in Requests /\ Fine(conn, k, transport, call)
      /\ call \in SomeCalls /\ Secure /\ Conns = 1..Len(net.conns) /\ Len(net.conns) \in Nat /\ mode.skip \in BOOLEAN
      /\ err \in Errors
  BY EaseFacts, ConnType DEF Errors, Reconnectable
<1>2. /\ Serving(net, transport, call) /\ Fair(transport, db, call) /\ Whole(net, transport, servers)
      /\ \A c \in Calls : call[c].at # "failed"
  BY CalmServes
<1>3. /\ conn.heard /\ ~conn.ghosts /\ conn.waiting = <<>>
      /\ AllActive(servers) /\ transport.auto = 0 /\ transport.retries = 0 /\ Len(net.conns) <= 1
  BY <1>1, <1>2 DEF Fine, Whole, Sole
<1>4. Len(net.conns) = 1 /\ k = 1
  <2>1. \A n \in Nat : n <= 1 /\ k \in 1..n => n = 1 /\ k = 1
    OBVIOUS
  <2> QED
    BY <1>1, <1>3, <2>1
<1>5. transport.connecting # "pending"
  <2> SUFFICES ASSUME transport.connecting = "pending" PROVE FALSE
    OBVIOUS
  <2>1. transport.login = k /\ \E e \in Entries(conn) : e.who = Login
    <3>1. transport.login \in 1..Len(net.conns) /\ \E e \in Entries(net.conns[transport.login]) : e.who = Login
      BY <1>2 DEF Serving
    <3>2. transport.login = k
      BY <1>4, <3>1
    <3> QED
      BY <3>1, <3>2
  <2>2. PICK e \in Members(q) : e.who = Login
    BY <1>3, <2>1, NoRequests DEF Entries
  <2> QED
    BY <1>1, <2>2, LoginEntry
<1>6. /\ x \in SomeCalls
      /\ \A c \in Calls : c \notin Callers(q) => x[c] = call[c]
      /\ \A c \in Calls : c \in Callers(q) => x[c].at = "failed"
      /\ \A c \in Callers(q) : c \in Calls /\ call[c].at = "sent"
  BY <1>1, LostCalls
<1>7. \A c \in Calls : c \in Callers(q) => x[c].err = err
  <2>1. \A c \in Callers(q) \cap Calls : call[c].what # "none"
    BY <1>1, <1>6, CallType DEF SomeCalls, AtWork
  <2> QED
    BY <1>1, <2>1, FailingOf
<1> HIDE DEF x
<1>8. ASSUME NEW c \in Calls
      PROVE  /\ x[c].at \notin {"rejected", "stranded"}
             /\ x[c].at = "failed" => CutOff(x[c])
             /\ x[c].at \in {"login", "auto"} => mode.skip /\ x[c].on = 0
  <2>1. CASE c \in Callers(q)
    BY <1>6, <1>7, <2>1 DEF CutOff
  <2>2. CASE c \notin Callers(q)
    BY <1>2, <1>5, <1>6, <2>2 DEF Serving, Fair
  <2> QED
    BY <2>1, <2>2
<1>9. \A c \in Callers(q) : c \in Calls /\ x[c].at = "failed"
  BY <1>6
<1> QED
  BY <1>3, <1>4, <1>6, <1>8, <1>9 DEF x

LEMMA SocketFailsMend ==
    ASSUME Ease, NEW k \in Conns, SocketFails(k), Smoothly(faults', call')
    PROVE  ~crashed' /\ Mended(net', transport', db', servers', call', faults')
<1> DEFINE conn == net.conns[k]
<1>1. PICK err \in {"broken", "ended", "closed"} :
        LET n == [net EXCEPT !.conns[k] = Destroyed(conn, err)]
            cancelled == Failing(call, Callers(conn.queue), err)
        IN
        /\ Calm /\ conn.stage = "open" /\ Fault(IF HasLogin(conn.queue) THEN "login" ELSE err)
        /\ UNCHANGED servers
        /\ IF err = "closed"
           THEN net' = n /\ call' = cancelled /\ UNCHANGED <<transport, db, crashed>>
           ELSE IF ~conn.heard \/ transport.retries > MaxRetries
           THEN crashed' = TRUE /\ UNCHANGED <<net, call, transport, db>>
           ELSE /\ net' = Reset(n, servers)
                /\ call' = Dropped(cancelled, n)
                /\ transport' = [NoSession EXCEPT !.retries = @ + 1]
                /\ db' = [db EXCEPT !.session = 0]
                /\ UNCHANGED crashed
  BY DEF SocketFails
<1>2. err \in Reconnectable /\ err # "closed" /\ ~HasLogin(conn.queue) /\ faults = <<>> /\ faults' # <<>>
  <2> DEFINE kind == IF HasLogin(conn.queue) THEN "login" ELSE err
  <2>1. kind \in FaultKinds /\ Fault(kind)
    BY <1>1 DEF FaultKinds
  <2> HIDE DEF kind
  <2>2. faults = <<>> /\ faults' # <<>> /\ kind \in Overcome
    BY <2>1, EaseFacts, FirstFault
  <2> QED
    BY <2>2 DEF kind, Overcome, Reconnectable
<1> DEFINE o == Destroyed(conn, err)
           n == [net EXCEPT !.conns[k] = o]
           x == Failing(call, Callers(conn.queue), err)
<1>3. /\ x \in SomeCalls /\ conn.heard /\ conn.waiting = <<>>
      /\ Len(net.conns) = 1 /\ k = 1
      /\ AllActive(servers) /\ transport.auto = 0 /\ transport.retries = 0
      /\ \A c \in Calls : /\ x[c].at \notin {"rejected", "stranded"}
                          /\ x[c].at = "failed" => CutOff(x[c])
                          /\ x[c].at \in {"login", "auto"} => mode.skip /\ x[c].on = 0
  <2>1. Ease /\ Calm /\ faults = <<>> /\ net.conns[k].stage = "open" /\ ~HasLogin(net.conns[k].queue)
        /\ err \in Reconnectable
    BY <1>1, <1>2
  <2> HIDE DEF x
  <2> QED
    BY <2>1, GivenUp DEF x
<1> HIDE DEF x
<1>4. ~(transport.retries > MaxRetries)
  <2>1. \A q \in Nat : ~(0 > q)
    OBVIOUS
  <2> QED
    BY <1>3, <2>1, TransportAssumption
<1>5. /\ net' = Reset(n, servers) /\ call' = Dropped(x, n)
      /\ transport' = [NoSession EXCEPT !.retries = NoSession.retries + 1]
      /\ db' = [db EXCEPT !.session = 0] /\ UNCHANGED <<crashed, servers>>
  BY <1>1, <1>2, <1>3, <1>4 DEF x
<1>6. /\ conn \in SomeConn /\ err \in Errors /\ servers[1].host \in STRING /\ mode.pool = FALSE /\ mode.skip \in BOOLEAN
      /\ net \in Nets /\ Hears(net) /\ Clean(net) /\ transport \in Transport /\ db \in Databases
      /\ Fair(transport, db, call) /\ Conns = 1..Len(net.conns) /\ ~crashed /\ Basic
      /\ conn.login = "none"
  BY <1>1, EaseFacts, CalmFacts, ServersType DEF Errors, Ease
<1>7. /\ o \in SomeConn /\ o.queue = <<>> /\ o.waiting = <<>> /\ o.heard = conn.heard
      /\ o.login = "none" /\ o.ending = conn.ending
  BY <1>2, <1>3, <1>6, DestroyedOf
<1> HIDE DEF o
<1>8. Entries(o) = {} /\ ~o.ending
  BY <1>6, <1>7, NoEntries DEF Clean
<1>9. n \in Nets /\ Len(n.conns) = 1 /\ n.conns[1] = o /\ Lent(n) = Lent(net)
  BY <1>3, <1>6, <1>7, ChangedNet
<1> HIDE DEF n
<1>10. \A j \in 1..Len(n.conns) : j = 1
  BY <1>9
<1>11. Hears(n)
  BY <1>3, <1>6, <1>7, <1>9, <1>10 DEF Hears
<1>12. Upright(net') /\ Clean(net')
  <2>1. \A j \in 1..Len(n.conns) : Entries(n.conns[j]) = {} /\ n.conns[j].login = "none" /\ ~n.conns[j].ending
    BY <1>7, <1>8, <1>9, <1>10
  <2> QED
    BY <1>5, <1>6, <1>9, <1>11, <2>1, ResetServes
<1> DEFINE y == call'
           t == transport'
           d == db'
           m == net'
<1>13. \A c \in Calls : y[c] = x[c]
  <2>1. \A j \in 1..Len(n.conns) : Entries(n.conns[j]) = {}
    BY <1>8, <1>9, <1>10
  <2> QED
    BY <1>3, <1>5, <1>6, <1>9, <2>1, NobodyTold
<1>14. d.opening # "rejected"
  BY <1>5, <1>6 DEF Databases, Fair
<1>15. t.session = 0 /\ t.connecting = "none" /\ t.login = 0 /\ t.auto = 0
  <2>1. NoSession \in Transport /\ NoSession.connecting = "none" /\ NoSession.session = 0 /\ NoSession.login = 0
        /\ NoSession.auto = transport.auto
    BY <1>6, NoSessionType
  <2> QED
    BY <1>3, <1>5, <2>1 DEF Transport
<1> HIDE DEF y, t, d, m
<1>16. Fair(t, d, y)
  BY <1>3, <1>13, <1>14, <1>15 DEF Fair
<1>17. CASE \E c \in Calls : y[c].at = "failed"
  <2>1. Severed(t, servers, y)
    BY <1>3, <1>13, <1>15, <1>17 DEF Severed
  <2>2. Mended(m, t, d, servers, y, faults')
    BY <1>2, <1>12, <1>16, <2>1 DEF Mended, Mending, m
  <2> QED
    BY <1>5, <1>6, <2>2 DEF y, t, d, m
<1>18. CASE \A c \in Calls : y[c].at # "failed"
  <2>1. Serving(m, t, y)
    BY <1>3, <1>12, <1>13, <1>15, <1>18 DEF Serving, m
  <2>2. Mended(m, t, d, servers, y, faults')
    BY <1>2, <1>12, <1>16, <2>1 DEF Mended, Mending, m
  <2> QED
    BY <1>5, <1>6, <2>2 DEF y, t, d, m
<1> QED
  BY <1>17, <1>18

LEMMA OperationTimeoutMend ==
    ASSUME Ease, NEW k \in Conns, OperationTimeout(k), Smoothly(faults', call')
    PROVE  Mended(net', transport', db', servers', call', faults')
<1> DEFINE conn == net.conns[k]
           b == Destroyed(conn, "ended")
           o == [b EXCEPT !.timedOut = TRUE, !.waiting = <<>>]
           n == [net EXCEPT !.conns[k] = o]
           x == Failing(call, Callers(conn.queue), "ended")
           y == Moved(x, Callers(conn.waiting), "stranded")
<1>1. /\ Calm /\ net' = n /\ call' = y /\ UNCHANGED <<transport, db, servers>>
      /\ Fault(IF HasLogin(conn.queue) THEN "login" ELSE "timeout")
      /\ conn.queue # <<>> \/ conn.ghosts
  BY DEF OperationTimeout
<1>2. ~HasLogin(conn.queue) /\ faults = <<>> /\ faults' # <<>>
  <2> DEFINE kind == IF HasLogin(conn.queue) THEN "login" ELSE "timeout"
  <2>1. kind \in FaultKinds /\ Fault(kind)
    BY <1>1 DEF FaultKinds
  <2> HIDE DEF kind
  <2>2. faults = <<>> /\ faults' # <<>> /\ kind \in Overcome
    BY <2>1, EaseFacts, FirstFault
  <2> QED
    BY <2>2 DEF kind, Overcome
<1>3. /\ conn \in SomeConn /\ conn.queue \in Requests /\ Fine(conn, k, transport, call)
      /\ Whole(net, transport, servers) /\ k \in 1..Len(net.conns) /\ net \in Nets /\ Clean(net)
      /\ Fair(transport, db, call) /\ "ended" \in Errors /\ conn.login = "none"
  BY <1>1, <1>2, EaseFacts, CalmServes, ConnType DEF Errors
<1>4. conn.queue # <<>> /\ conn.stage = "open"
  BY <1>1, <1>3 DEF Whole, Sole, Fine
<1>5. /\ x \in SomeCalls /\ conn.waiting = <<>>
      /\ Len(net.conns) = 1 /\ k = 1
      /\ AllActive(servers) /\ transport.auto = 0
      /\ \A c \in Calls : /\ x[c].at \notin {"rejected", "stranded"}
                          /\ x[c].at = "failed" => CutOff(x[c])
                          /\ x[c].at \in {"login", "auto"} => mode.skip /\ x[c].on = 0
      /\ \A c \in Callers(conn.queue) : c \in Calls /\ x[c].at = "failed"
  <2>1. Ease /\ Calm /\ faults = <<>> /\ net.conns[k].stage = "open" /\ ~HasLogin(net.conns[k].queue)
        /\ "ended" \in Reconnectable
    BY <1>1, <1>2, <1>4 DEF Reconnectable
  <2> HIDE DEF x
  <2> QED
    BY <2>1, GivenUp DEF x
<1> HIDE DEF x
<1>6. \A c \in Calls : y[c] = x[c]
  <2>1. Callers(conn.waiting) = {}
    BY <1>5, NoRequests
  <2>2. "stranded" \in AtRest \cup AtWork /\ ~("stranded" \in AtWork)
    BY DEF AtRest, AtWork
  <2> QED
    BY <1>5, <2>1, <2>2, MovedOf
<1> HIDE DEF y
<1>7. \E c \in Calls : y[c].at = "failed"
  <2>1. PICK e \in Members(conn.queue) : TRUE
    BY <1>3, <1>4, Nothing
  <2>2. e.who # Login
    BY <1>2, <1>3, <2>1, LoginEntry
  <2>3. e.who \in Callers(conn.queue)
    BY <1>3, <2>1, <2>2, CallersOf
  <2> QED
    BY <1>5, <1>6, <2>3
<1>8. /\ o \in SomeConn /\ o.queue = <<>> /\ o.waiting = <<>> /\ o.ending = conn.ending
  <2>1. /\ b \in SomeConn /\ b.queue = <<>> /\ b.ending = conn.ending
    BY <1>3, DestroyedOf
  <2> HIDE DEF b
  <2> QED
    BY <2>1, NoRequests DEF SomeConn
<1> HIDE DEF o
<1>9. n.conns[1] = o /\ Len(n.conns) = 1
  BY <1>3, <1>5, <1>8, ChangedNet
<1> HIDE DEF n
<1>10. Clean(n)
  <2>1. Entries(o) = {} /\ ~o.ending
    BY <1>3, <1>8, NoEntries DEF Clean
  <2>2. \A j \in 1..Len(n.conns) : n.conns[j] = o
    BY <1>9
  <2> QED
    BY <2>1, <2>2 DEF Clean
<1>11. Fair(transport, db, y)
  BY <1>3, <1>5, <1>6 DEF Fair
<1>12. Severed(transport, servers, y)
  BY <1>5, <1>6, <1>7 DEF Severed
<1>13. Mended(n, transport, db, servers, y, faults')
  BY <1>2, <1>10, <1>11, <1>12 DEF Mended, Mending
<1> QED
  BY <1>1, <1>13

\* A login is answered.
LEMMA LoggedInMend ==
    ASSUME Ease, Calm, NEW k \in Conns, NEW e \in Entries(net.conns[k]), e.who = Login,
           NEW o \in SomeConn, o.heard = net.conns[k].heard, o.ghosts = net.conns[k].ghosts, o.ending = net.conns[k].ending,
           o.login = "none", o.stage = "open", Entries(o) = {}, ReplyToLogin(k, "ok"), UNCHANGED faults
    PROVE  Mended([net EXCEPT !.conns[k] = o], transport', db', servers', call', faults')
<1> DEFINE m == [net EXCEPT !.conns[k] = o]
           t == transport'
           x == call'
<1>1. /\ net \in Nets /\ k \in 1..Len(net.conns) /\ Conns = 1..Len(net.conns) /\ Secure /\ Len(net.conns) \in Nat
      /\ transport \in Transport /\ call \in SomeCalls /\ \A c \in Calls : call[c] \in SomeCall
  BY EaseFacts, SecureFacts
<1>2. /\ Serving(net, transport, call) /\ Clean(net) /\ Fair(transport, db, call)
      /\ faults = <<>> => Whole(net, transport, servers)
      /\ \A c \in Calls : call[c].at # "failed"
  BY CalmServes
<1>3. LoggingIn(transport, k)
  BY <1>1, LoginAlone
<1>4. /\ transport' = [transport EXCEPT !.session = k, !.retries = 0,
                             !.auto = IF transport.auto = k THEN 0 ELSE transport.auto,
                             !.connecting = IF transport.login = k THEN "resolved" ELSE transport.connecting]
      /\ call' = [c \in Calls |-> IF c \notin Waiters(k) THEN call[c]
                        ELSE IF At(c, {"auto"}) THEN Resent(call, {c})[c]
                        ELSE [call[c] EXCEPT !.at = "ready", !.on = 0]]
      /\ UNCHANGED <<db, servers>>
  BY DEF ReplyToLogin
<1>5. t.retries = 0 /\ t.connecting = "resolved" /\ (transport.auto = 0 => t.auto = 0) /\ ~mode.skip
  BY <1>1, <1>3, <1>4 DEF Transport, LoggingIn
<1>6. \A c \in Calls : call[c].at \in {"login", "auto"} => c \in Waiters(k)
  BY <1>2, <1>3 DEF Serving, LoggingIn, Waiters, At
<1>7. ASSUME NEW c \in Calls
      PROVE  \/ x[c] = call[c] /\ call[c].at \notin {"login", "auto"}
             \/ x[c].at \in {"ready", "begin"}
  <2>1. CASE c \notin Waiters(k)
    BY <1>4, <1>6, <2>1
  <2>2. CASE c \in Waiters(k) /\ At(c, {"auto"})
    <3>1. x[c] = Resent(call, {c})[c]
      BY <1>4, <2>2
    <3>2. \A d \in {c} \cap Calls : call[d].what # "none"
      BY <1>1, <2>2, CallType DEF At, AtWork
    <3>3. \A d \in Calls : d \in {c} => Resent(call, {c})[d].at \in {"begin", "ready"}
      BY <1>1, <3>2, ResentOf
    <3> QED
      BY <3>1, <3>3
  <2>3. CASE c \in Waiters(k) /\ ~At(c, {"auto"})
    <3> DEFINE z == call[c]
    <3>1. z \in SomeCall /\ x[c] = [z EXCEPT !.at = "ready", !.on = 0]
      BY <1>1, <1>4, <2>3
    <3> HIDE DEF z
    <3> QED
      BY <3>1 DEF SomeCall
  <2> QED
    BY <2>1, <2>2, <2>3
<1>8. /\ Len(m.conns) = Len(net.conns) /\ m.conns[k] = o
      /\ \A j \in 1..Len(net.conns) : j # k => m.conns[j] = net.conns[j]
  BY <1>1, ChangedNet
<1> HIDE DEF m, t, x
<1>9. Clean(m)
  BY <1>1, <1>2, <1>8 DEF Clean
<1>10. Upright(m)
  BY <1>1, <1>2, <1>8 DEF Upright, Serving
<1>11. Fair(t, db, x)
  BY <1>2, <1>5, <1>7 DEF Fair
<1>12. Serving(m, t, x)
  BY <1>2, <1>5, <1>7, <1>10 DEF Serving
<1>13. ASSUME Whole(net, transport, servers) PROVE Whole(m, t, servers)
  <2>1. Sole(m)
    BY <1>1, <1>8, <1>13 DEF Whole, Sole
  <2>2. \A j \in 1..Len(m.conns) : j = k
    <3>1. Len(net.conns) <= 1
      BY <1>13 DEF Whole, Sole
    <3>2. \A n \in Nat : n <= 1 /\ k \in 1..n => \A j \in 1..n : j = k
      OBVIOUS
    <3> QED
      BY <1>1, <1>8, <3>1, <3>2
  <2> QED
    BY <1>5, <1>8, <1>13, <2>1, <2>2 DEF Whole
<1> QED
  BY <1>2, <1>4, <1>9, <1>11, <1>12, <1>13 DEF Mended, Mending, m, t, x

LEMMA ServersMend ==
    ASSUME NEW n, NEW t, NEW d, NEW svs, NEW cs, NEW fs, Mended(n, t, d, svs, cs, fs),
           NEW others, AllActive(svs) => AllActive(others)
    PROVE  Mended(n, t, d, others, cs, fs)
BY DEF Mended, Mending, Whole, Severed, Refused

\* A call is answered.
LEMMA AnsweredMend ==
    ASSUME Ease, Calm, NEW k \in Conns, NEW e \in Entries(net.conns[k]), e.who # Login,
           NEW o \in SomeConn, o.heard = net.conns[k].heard, o.ghosts = net.conns[k].ghosts, o.ending = net.conns[k].ending,
           o.login = "none", o.stage = "open", Entries(o) \subseteq Entries(net.conns[k]),
           ReplyToCall(k, e.who, "ok"), UNCHANGED faults
    PROVE  Mended([net EXCEPT !.conns[k] = o], transport', db', servers', call', faults')
<1> DEFINE m == [net EXCEPT !.conns[k] = o]
           x == call'
           d == db'
           c == e.who
<1>1. /\ Clean(net) /\ Secure /\ k \in 1..Len(net.conns) /\ call \in SomeCalls /\ Basic /\ servers \in Servers
      /\ Fair(transport, db, call)
  BY EaseFacts
<1>2. \A f \in Entries(net.conns[k]) : f.who # Login
  BY <1>1, CallerAlone
<1>3. Mended(m, transport, db, servers, call, faults)
  <2>1. \A f \in Entries(o) : f.reply \in {"none", "ok"}
    BY <1>1 DEF Clean
  <2> QED
    BY <1>2, <2>1, ChangedServes
<1>4. c \in Calls /\ call[c].what # "none" /\ \A i \in Calls : call[i].at # "failed"
  BY <1>1, Waiting, CalmFacts
<1>5. /\ \A i \in Calls : x[i] = call[i] \/ x[i].at \in {"begin", "resolved"}
      /\ d.opening # "rejected" /\ transport' = transport
      /\ servers' = servers \/ UpdateConfig
  <2>1. CASE call[c].what = "db-open"
    <3>1. /\ db' = [session |-> k, opening |-> "none"] /\ call' = Settled(call, c, "begin")
          /\ servers' = servers \/ UpdateConfig
          /\ transport' = transport
      BY <2>1 DEF ReplyToCall
    <3>2. "begin" \in AtRest \cup AtWork
      BY DEF AtWork
    <3> HIDE DEF c
    <3> QED
      BY <1>1, <1>4, <3>1, <3>2, SettledAt
  <2>2. CASE call[c].what # "db-open"
    <3>1. db' = db /\ call' = Settled(call, c, "resolved") /\ servers' = servers /\ transport' = transport
      BY <2>2 DEF ReplyToCall
    <3>2. "resolved" \in AtRest \cup AtWork
      BY DEF AtRest
    <3> HIDE DEF c
    <3> QED
      BY <1>1, <1>4, <3>1, <3>2, SettledAt DEF Fair
  <2> QED
    BY <2>1, <2>2
<1>6. AllActive(servers) => AllActive(servers')
  <2>1. CASE UpdateConfig
    <3>1. servers' \in Servers /\ servers' = [i \in 1..Len(servers) |-> [servers[i] EXCEPT !.active = TRUE]]
      BY <1>1, <2>1, UpdateConfigType DEF UpdateConfig
    <3>2. \A i \in 1..Len(servers) : servers'[i].active = TRUE
      <4> TAKE i \in 1..Len(servers)
      <4>1. servers[i] \in [host : STRING, active : BOOLEAN]
        BY <1>1 DEF Servers
      <4> DEFINE s == servers[i]
      <4>2. servers'[i] = [s EXCEPT !.active = TRUE] /\ s \in [host : STRING, active : BOOLEAN]
        BY <3>1, <4>1
      <4> HIDE DEF s
      <4> QED
        BY <4>2
    <3>3. Len(servers') = Len(servers)
      BY <1>1, <3>1, ServersType
    <3> QED
      BY <3>2, <3>3 DEF AllActive
  <2> QED
    BY <1>5, <2>1
<1> HIDE DEF m, x, d, c
<1>7. Mended(m, transport, d, servers, x, faults)
  <2>1. \A i \in Calls : \/ x[i] = call[i]
                         \/ /\ x[i].at \notin {"rejected", "stranded", "failed", "login", "auto"}
                            /\ call[i].at # "failed"
    BY <1>4, <1>5
  <2> QED
    BY <1>3, <1>5, <2>1, CallsMend
<1>8. Mended(m, transport, d, servers', x, faults)
  BY <1>6, <1>7, ServersMend
<1> QED
  BY <1>5, <1>8 DEF m, x, d

LEMMA ReplyMend ==
    ASSUME Ease, NEW k \in Conns, Reply(k)
    PROVE  Mended(net', transport', db', servers', call', faults')
<1> DEFINE conn == net.conns[k]
           q == conn.queue
           r == q[1]
           flag == IF r.who = Login /\ r.reply # "ok" THEN "answered" ELSE conn.login
           o == [conn EXCEPT !.queue = Tail(q), !.login = flag]
<1>1. /\ q # <<>> /\ Calm /\ conn.stage = "open" /\ r.reply # "none" /\ UNCHANGED faults
      /\ net' = [net EXCEPT !.conns[k] = o]
      /\ IF r.who = Login THEN ReplyToLogin(k, r.reply) ELSE ReplyToCall(k, r.who, r.reply)
  <2>1. net' = [net EXCEPT !.conns[k].queue = Tail(q), !.conns[k].login = flag]
    BY DEF Reply
  <2>2. net' = [net EXCEPT !.conns[k] = o]
    BY <2>1
  <2> QED
    BY <2>2 DEF Reply
<1>2. /\ conn \in SomeConn /\ q \in Requests /\ conn.waiting \in Requests /\ Fine(conn, k, transport, call)
      /\ Secure /\ Clean(net) /\ k \in 1..Len(net.conns)
  BY EaseFacts, ConnType
<1>3. conn.login = "none" /\ conn.waiting = <<>>
  BY <1>1, <1>2, CalmFacts DEF Fine
<1>4. /\ Tail(q) \in Requests /\ r \in Members(q) /\ Members(Tail(q)) \subseteq Members(q) /\ Len(Tail(q)) = Len(q) - 1
  <2>1. q \in Requests /\ q # <<>>
    BY <1>1, <1>2
  <2> HIDE DEF q
  <2> QED
    BY <2>1, OneLess
<1>5. r \in Entries(conn) /\ r.reply = "ok"
  <2>1. r \in Entries(conn)
    BY <1>4 DEF Entries
  <2>2. r.reply \in {"none", "ok"}
    BY <1>2, <2>1 DEF Clean
  <2> QED
    BY <1>1, <2>1, <2>2
<1>6. flag = "none"
  BY <1>3, <1>5
<1>7. /\ o \in SomeConn /\ o.queue = Tail(q) /\ o.waiting = <<>> /\ o.heard = conn.heard /\ o.stage = "open"
      /\ o.login = "none" /\ o.ghosts = conn.ghosts /\ o.ending = conn.ending
  <2>1. "none" \in Flags
    BY DEF Flags, Errors
  <2> HIDE DEF flag
  <2> QED
    BY <1>1, <1>2, <1>3, <1>4, <1>6, <2>1 DEF SomeConn
<1> HIDE DEF o, r
<1>8. Entries(o) \subseteq Entries(conn)
  BY <1>4, <1>7, NoRequests DEF Entries
<1>9. CASE r.who = Login
  <2>1. Len(conn.queue) + Len(conn.waiting) <= 1
    BY <1>2, <1>5, <1>9, LoginAlone
  <2>2. Entries(o) = {}
    <3>1. Len(q) \in Nat /\ Len(conn.waiting) = 0 /\ Len(Tail(q)) \in Nat /\ (Tail(q) = <<>> <=> Len(Tail(q)) = 0)
      BY <1>2, <1>3, <1>4, CallersOf
    <3>2. Len(q) + Len(conn.waiting) <= 1
      BY <2>1
    <3> HIDE DEF q, conn
    <3>3. Tail(q) = <<>>
      BY <1>4, <3>1, <3>2
    <3> QED
      BY <1>7, <3>3, NoEntries
  <2>3. ReplyToLogin(k, "ok")
    BY <1>1, <1>5, <1>9 DEF r
  <2>4. Mended([net EXCEPT !.conns[k] = o], transport', db', servers', call', faults')
    BY <1>1, <1>5, <1>7, <1>9, <2>2, <2>3, LoggedInMend
  <2> QED
    BY <1>1, <2>4 DEF o, r
<1>10. CASE r.who # Login
  <2>1. ReplyToCall(k, r.who, "ok")
    BY <1>1, <1>5, <1>10 DEF r
  <2>2. Mended([net EXCEPT !.conns[k] = o], transport', db', servers', call', faults')
    BY <1>1, <1>5, <1>7, <1>8, <1>10, <2>1, AnsweredMend
  <2> QED
    BY <1>1, <2>2 DEF o, r
<1> QED
  BY <1>9, <1>10

LEMMA SocketEndsMend ==
    ASSUME Ease, NEW k \in Conns, SocketEnds(k)
    PROVE  FALSE
<1>1. net.conns[k].ending /\ Clean(net) /\ k \in 1..Len(net.conns)
  BY EaseFacts DEF SocketEnds
<1> QED
  BY <1>1 DEF Clean

LEMMA ConfigPushedMend ==
    ASSUME Ease, NEW k \in Conns, ConfigPushed(k), Smoothly(faults', call')
    PROVE  FALSE
<1>1. Fault("config") /\ "config" \in FaultKinds
  BY DEF ConfigPushed, FaultKinds
<1>2. "config" \in Overcome
  BY <1>1, EaseFacts, FirstFault
<1> QED
  BY <1>2 DEF Overcome

\* What a call was started for: a step never takes back that it was, nor that it
\* was to close the database.
CallRecord == [kind : Kinds, what : Whats, session : Nat, at : AtRest \cup AtWork, on : Nat, err : Errors]
Records == [Calls -> CallRecord]
Kept(k, j) ==
    /\ j.at = "idle" => k.at = "idle" /\ j.kind = k.kind
    /\ k.kind = "close" => j.kind = "close"
Follows(cs, x) == \A c \in Calls : Kept(cs[c], x[c])

LEMMA CallsAreRecords == SomeCalls \subseteq Records
BY DEF SomeCalls, SomeCall, Records, CallRecord

LEMMA FollowsOn ==
    ASSUME NEW cs, NEW x, NEW y, Follows(cs, x), Follows(x, y)
    PROVE  Follows(cs, y)
BY DEF Follows, Kept

LEMMA MovedFollows ==
    ASSUME NEW cs \in Records, NEW who, NEW place, place # "idle"
    PROVE  Follows(cs, Moved(cs, who, place))
<1> SUFFICES ASSUME NEW c \in Calls PROVE Kept(cs[c], Moved(cs, who, place)[c])
  BY DEF Follows
<1> DEFINE k == cs[c]
           kind == IF k.kind = "close" THEN "close" ELSE "none"
           y == [NoCall EXCEPT !.kind = kind, !.at = place]
<1>1. k \in CallRecord
  BY DEF Records
<1>2. Moved(cs, who, place)[c] \in {k, y, [k EXCEPT !.at = place]}
  BY DEF Moved
<1>3. y.at = place /\ y.kind = kind
  BY DEF NoCall
<1>4. Kept(k, y)
  <2> HIDE DEF y, k
  <2> QED
    BY <1>3 DEF Kept
<1> HIDE DEF k, y
<1>5. Kept(k, k) /\ Kept(k, [k EXCEPT !.at = place])
  BY <1>1 DEF Kept, CallRecord
<1>6. Kept(k, Moved(cs, who, place)[c])
  BY <1>2, <1>4, <1>5
<1> QED
  BY <1>6 DEF k

LEMMA FailingFollows ==
    ASSUME NEW cs \in Records, NEW who, NEW err
    PROVE  Follows(cs, Failing(cs, who, err)) /\ (err \in Errors => Failing(cs, who, err) \in Records)
<1>1. ASSUME NEW c \in Calls
      PROVE  Kept(cs[c], Failing(cs, who, err)[c]) /\ (err \in Errors => Failing(cs, who, err)[c] \in CallRecord)
  <2> DEFINE k == cs[c]
             y == [k EXCEPT !.at = "failed", !.err = err]
  <2>1. k \in CallRecord
    BY DEF Records
  <2>2. Failing(cs, who, err)[c] \in {k, y}
    BY DEF Failing
  <2> HIDE DEF k
  <2>3. err \in Errors => y \in CallRecord
    <3>1. "failed" \in AtRest \cup AtWork
      BY DEF AtWork
    <3> QED
      BY <2>1, <3>1 DEF CallRecord
  <2>4. Kept(k, k) /\ Kept(k, y)
    BY <2>1 DEF Kept, CallRecord
  <2> HIDE DEF y
  <2>5. Kept(k, Failing(cs, who, err)[c]) /\ (err \in Errors => Failing(cs, who, err)[c] \in CallRecord)
    BY <2>1, <2>2, <2>3, <2>4
  <2> QED
    BY <2>5 DEF k
<1>2. Failing(cs, who, err) = [c \in Calls |-> Failing(cs, who, err)[c]]
  BY DEF Failing
<1> QED
  BY <1>1, <1>2 DEF Follows, Records

LEMMA ResentFollows ==
    ASSUME NEW cs \in Records, NEW who
    PROVE  Follows(cs, Resent(cs, who))
<1> SUFFICES ASSUME NEW c \in Calls PROVE Kept(cs[c], Resent(cs, who)[c])
  BY DEF Follows
<1> DEFINE k == cs[c]
<1>1. k \in CallRecord
  BY DEF Records
<1>2. Resent(cs, who)[c] \in {k, [k EXCEPT !.at = "begin", !.session = 0, !.on = 0, !.err = "none"],
                              [k EXCEPT !.at = "ready", !.session = 0, !.on = 0, !.err = "none"]}
  BY DEF Resent
<1> HIDE DEF k
<1>3. /\ Kept(k, k) /\ Kept(k, [k EXCEPT !.at = "begin", !.session = 0, !.on = 0, !.err = "none"])
      /\ Kept(k, [k EXCEPT !.at = "ready", !.session = 0, !.on = 0, !.err = "none"])
  BY <1>1 DEF Kept, CallRecord
<1>4. Kept(k, Resent(cs, who)[c])
  BY <1>2, <1>3
<1> QED
  BY <1>4 DEF k

LEMMA PutFollows ==
    ASSUME NEW cs \in Records, NEW c \in Calls, NEW at, at # "idle", NEW on
    PROVE  Follows(cs, Put(cs, c, at, on)) /\ Follows(cs, [cs EXCEPT ![c].at = at])
<1> SUFFICES ASSUME NEW d \in Calls PROVE Kept(cs[d], Put(cs, c, at, on)[d]) /\ Kept(cs[d], [cs EXCEPT ![c].at = at][d])
  BY DEF Follows
<1> DEFINE k == cs[d]
<1>1. k \in CallRecord
  BY DEF Records
<1>2. /\ Put(cs, c, at, on)[d] \in {k, [k EXCEPT !.at = at, !.on = on]}
      /\ [cs EXCEPT ![c].at = at][d] \in {k, [k EXCEPT !.at = at]}
  BY DEF Put, Records
<1> HIDE DEF k
<1>3. Kept(k, k) /\ Kept(k, [k EXCEPT !.at = at, !.on = on]) /\ Kept(k, [k EXCEPT !.at = at])
  BY <1>1 DEF Kept, CallRecord
<1>4. Kept(k, Put(cs, c, at, on)[d]) /\ Kept(k, [cs EXCEPT ![c].at = at][d])
  BY <1>2, <1>3
<1> QED
  BY <1>4 DEF k

LEMMA DroppedFollows ==
    ASSUME NEW cs \in Records, NEW n, mode.pool = FALSE
    PROVE  Follows(cs, Dropped(cs, n)) /\ Dropped(cs, n) \in Records
<1>1. Dropped(cs, n) = Failing(cs, UNION {Callers(conn.queue) : conn \in InUse(n)}, "cancelled")
  BY DEF Dropped
<1>2. "cancelled" \in Errors
  BY DEF Errors
<1> QED
  BY <1>1, <1>2, FailingFollows

LEMMA SettledFollows ==
    ASSUME NEW cs \in Records, NEW c, NEW outcome, outcome # "idle"
    PROVE  Follows(cs, Settled(cs, c, outcome))
<1>1. PICK W : Settled(cs, c, outcome) = Moved(cs, W, outcome)
  BY SettledOf
<1> QED
  BY <1>1, MovedFollows

LEMMA SameFollows ==
    ASSUME NEW cs
    PROVE  Follows(cs, cs)
BY DEF Follows, Kept

LEMMA CallsFollow ==
    ASSUME Basic, Idles, mode.pool = FALSE, NEW c \in Calls,
           Start(c) \/ Open(c) \/ Send(c) \/ AutoReconnectAndSend(c)
    PROVE  Follows(call, call')
<1>1. call \in Records /\ call[c] \in CallRecord
  BY Before, CallsAreRecords DEF Records
<1>2. CASE Start(c)
  <2>1. /\ call[c].at = "idle"
        /\ \/ call' = [call EXCEPT ![c].kind = "server", ![c].what = "op", ![c].at = "ready"]
           \/ call' = [call EXCEPT ![c].kind = "db", ![c].what = "op", ![c].at = "begin"]
           \/ call' = [call EXCEPT ![c].kind = "close", ![c].what = "db-close",
                                ![c].session = db.session, ![c].at = "ready"]
    BY <1>2 DEF Start, At
  <2>2. call[c].kind # "close"
    BY <2>1 DEF Idles
  <2>3. /\ call'[c].at # "idle" /\ \A d \in Calls : d # c => call'[d] = call[d]
    BY <1>1, <2>1 DEF Records, CallRecord
  <2> DEFINE x == call'
  <2> HIDE DEF x
  <2>4. \A d \in Calls : Kept(call[d], x[d])
    BY <2>2, <2>3 DEF Kept, x
  <2> QED
    BY <2>4 DEF Follows, x
<1>3. CASE Open(c)
  <2>1. call[c].at = "begin"
    BY <1>3 DEF Open, At
  <2>2. CASE db.session # 0
    <3>1. call' = [call EXCEPT ![c].what = "op", ![c].session = db.session, ![c].at = "ready"]
      BY <1>3, <2>2 DEF Open
    <3> DEFINE x == call'
    <3>2. /\ \A d \in Calls : d # c => x[d] = call[d]
          /\ x[c].at = "ready" /\ x[c].kind = call[c].kind
      BY <1>1, <3>1 DEF Records, CallRecord
    <3> HIDE DEF x
    <3> QED
      BY <3>2 DEF Follows, Kept, x
  <2>3. CASE db.session = 0 /\ mode.skip /\ db.opening # "none"
    <3> DEFINE place == IF db.opening = "pending" THEN "opening" ELSE "rejected"
    <3>1. call' = Moved(call, {c}, place) /\ place # "idle"
      BY <1>3, <2>3 DEF Open
    <3> HIDE DEF place
    <3> QED
      BY <1>1, <3>1, MovedFollows
  <2>4. CASE db.session = 0 /\ ~(mode.skip /\ db.opening # "none")
    <3>1. call' = [call EXCEPT ![c].what = "db-open", ![c].session = 0, ![c].at = "ready"]
      BY <1>3, <2>4 DEF Open
    <3> DEFINE x == call'
    <3>2. /\ \A d \in Calls : d # c => x[d] = call[d]
          /\ x[c].at = "ready" /\ x[c].kind = call[c].kind
      BY <1>1, <3>1 DEF Records, CallRecord
    <3> HIDE DEF x
    <3> QED
      BY <3>2 DEF Follows, Kept, x
  <2> QED
    BY <2>2, <2>3, <2>4
<1>4. CASE Send(c)
  <2> DEFINE s == IF call[c].session # 0 THEN call[c].session ELSE transport.session
             r == RequestOf(c, s)
  <2>1. r.who = c
    BY DEF RequestOf
  <2> HIDE DEF r
  <2>2. Follows(call, Hand(call, net, r))
    <3>1. \/ Hand(call, net, r) = Failing(call, {c}, "thrown")
          \/ Hand(call, net, r) = Moved(call, {c}, "resolved")
          \/ Hand(call, net, r) = [call EXCEPT ![c].at = "sent"]
      BY <2>1 DEF Hand
    <3> QED
      BY <1>1, <3>1, FailingFollows, MovedFollows, PutFollows
  <2> DEFINE again == transport.connecting = "rejected"
             n == IF again THEN Reset(net, servers) ELSE net
             y == IF again THEN Dropped(call, net) ELSE call
  <2>3. \/ call' = Hand(call, net, r)
        \/ call' = Put(call, c, "login", transport.login)
        \/ call' = Put(y, c, "login", Attempt(n))
    <3>1. CASE s # 0 \/ mode.skip
      BY <1>4, <3>1 DEF Send, r
    <3>2. CASE s = 0 /\ ~mode.skip /\ transport.connecting = "pending"
      BY <1>4, <3>2 DEF Send, Put
    <3>3. CASE s = 0 /\ ~mode.skip /\ transport.connecting # "pending"
      <4>1. call' = [y EXCEPT ![c].at = "login", ![c].on = Attempt(n)]
        BY <1>4, <3>3, ZenonT(60) DEF Send
      <4> HIDE DEF y, n
      <4> QED
        BY <4>1 DEF Put
    <3> QED
      BY <3>1, <3>2, <3>3
  <2>4. y \in Records /\ Follows(call, y)
    BY <1>1, DroppedFollows, SameFollows
  <2> HIDE DEF y, n
  <2>5. Follows(call, Put(call, c, "login", transport.login))
    BY <1>1, PutFollows
  <2>6. Follows(call, Put(y, c, "login", Attempt(n)))
    <3>1. Follows(y, Put(y, c, "login", Attempt(n)))
      BY <2>4, PutFollows
    <3> QED
      BY <2>4, <3>1, FollowsOn
  <2> QED
    BY <2>2, <2>3, <2>5, <2>6
<1>5. CASE AutoReconnectAndSend(c)
  <2> DEFINE y == Dropped(call, net)
             on == IF mode.skip THEN 0 ELSE Attempt(Reset(net, servers'))
  <2>1. \/ call' = Settled(call, c, "rejected") \/ call' = Settled(call, c, "stranded")
        \/ call' = Put(call, c, "auto", transport.login)
        \/ call' = Resent(call, {c})
        \/ call' = Put(y, c, "auto", on)
    <3>1. CASE call[c].err \notin Reconnectable
      BY <1>5, <3>1 DEF AutoReconnectAndSend
    <3>2. CASE call[c].err \in Reconnectable /\ transport.auto # 0
      BY <1>5, <3>2 DEF AutoReconnectAndSend, Put
    <3>3. CASE call[c].err \in Reconnectable /\ transport.auto = 0
      BY <1>5, <3>3 DEF AutoReconnectAndSend, Put
    <3> QED
      BY <3>1, <3>2, <3>3
  <2>2. y \in Records /\ Follows(call, y)
    BY <1>1, DroppedFollows
  <2> HIDE DEF y, on
  <2>3. Follows(call, Put(call, c, "auto", transport.login))
    BY <1>1, PutFollows
  <2>4. Follows(call, Put(y, c, "auto", on))
    <3>1. Follows(y, Put(y, c, "auto", on))
      BY <2>2, PutFollows
    <3> QED
      BY <2>2, <3>1, FollowsOn
  <2>5. /\ Follows(call, Settled(call, c, "rejected")) /\ Follows(call, Settled(call, c, "stranded"))
        /\ Follows(call, Resent(call, {c}))
    BY <1>1, SettledFollows, ResentFollows
  <2> QED
    BY <2>1, <2>3, <2>4, <2>5
<1> QED
  BY <1>2, <1>3, <1>4, <1>5

LEMMA SocketsFollow ==
    ASSUME Basic, mode.pool = FALSE, NEW k \in Conns,
           \/ LoginFails(k) \/ Connected(k) \/ NotConnected(k) \/ Serve(k) \/ Reply(k)
           \/ SocketFails(k) \/ SocketEnds(k) \/ OperationTimeout(k) \/ ConfigPushed(k)
    PROVE  Follows(call, call')
<1>1. call \in Records
  BY Before, CallsAreRecords
<1>2. CASE LoginFails(k)
  <2>1. \/ \E on : call' = [c \in Calls |-> IF c \in Waiters(k) THEN [call[c] EXCEPT !.on = on]
                                            ELSE Dropped(call, net)[c]]
        \/ call' = Moved(call, Waiters(k), "rejected")
    <3>1. CASE net.conns[k].login = "refused" /\ ServerLeft
      BY <1>2, <3>1 DEF LoginFails
    <3>2. CASE ~(net.conns[k].login = "refused" /\ ServerLeft)
      BY <1>2, <3>2 DEF LoginFails
    <3> QED
      BY <3>1, <3>2
  <2>2. ASSUME NEW on, call' = [c \in Calls |-> IF c \in Waiters(k) THEN [call[c] EXCEPT !.on = on]
                                            ELSE Dropped(call, net)[c]]
        PROVE  Follows(call, call')
    <3> DEFINE x == call'
    <3>1. Follows(call, Dropped(call, net))
      BY <1>1, DroppedFollows
    <3>2. \A c \in Calls : IF c \in Waiters(k) THEN x[c] = [call[c] EXCEPT !.on = on]
                           ELSE x[c] = Dropped(call, net)[c]
      BY <2>2
    <3> HIDE DEF x
    <3>3. ASSUME NEW c \in Calls, c \in Waiters(k) PROVE Kept(call[c], x[c])
      <4>1. call[c] \in CallRecord /\ x[c] = [call[c] EXCEPT !.on = on]
        BY <1>1, <3>2, <3>3 DEF Records
      <4>2. x[c].at = call[c].at /\ x[c].kind = call[c].kind
        BY <4>1 DEF CallRecord
      <4> QED
        BY <4>2 DEF Kept
    <3>4. ASSUME NEW c \in Calls, c \notin Waiters(k) PROVE Kept(call[c], x[c])
      BY <3>1, <3>2, <3>4 DEF Follows
    <3> QED
      BY <3>3, <3>4 DEF Follows, x
  <2> QED
    BY <1>1, <2>1, <2>2, MovedFollows
<1>3. CASE Connected(k)
  <2>1. \E closers : call' = Moved(call, closers, "resolved")
    BY <1>3 DEF Connected
  <2> QED
    BY <1>1, <2>1, MovedFollows
<1>4. CASE NotConnected(k)
  <2>1. \E err : call' = Failing(call, Callers(net.conns[k].waiting), err)
    BY <1>4 DEF NotConnected
  <2> QED
    BY <1>1, <2>1, FailingFollows
<1>5. CASE Serve(k) \/ ConfigPushed(k)
  <2>1. call' = call
    BY <1>5 DEF Serve, ConfigPushed
  <2> QED
    BY <2>1, SameFollows
<1>6. CASE Reply(k)
  <2> DEFINE r == net.conns[k].queue[1]
  <2>1. IF r.who = Login THEN ReplyToLogin(k, r.reply) ELSE ReplyToCall(k, r.who, r.reply)
    BY <1>6 DEF Reply
  <2> HIDE DEF r
  <2>2. CASE r.who = Login
    <3>1. CASE r.reply = "ok"
      <4> DEFINE x == call'
      <4>1. x = [c \in Calls |-> IF c \notin Waiters(k) THEN call[c]
                        ELSE IF At(c, {"auto"}) THEN Resent(call, {c})[c]
                        ELSE [call[c] EXCEPT !.at = "ready", !.on = 0]]
        BY <2>1, <2>2, <3>1 DEF ReplyToLogin
      <4> HIDE DEF x
      <4>2. ASSUME NEW c \in Calls PROVE Kept(call[c], x[c])
        <5>1. CASE c \in Waiters(k) /\ At(c, {"auto"})
          <6>1. x[c] = Resent(call, {c})[c] /\ Follows(call, Resent(call, {c}))
            BY <1>1, <4>1, <5>1, ResentFollows
          <6> QED
            BY <6>1 DEF Follows
        <5>2. CASE c \in Waiters(k) /\ ~At(c, {"auto"})
          <6>1. x[c] = [call[c] EXCEPT !.at = "ready", !.on = 0] /\ call[c] \in CallRecord
            BY <1>1, <4>1, <5>2 DEF Records
          <6> QED
            BY <6>1 DEF Kept, CallRecord
        <5>3. CASE c \notin Waiters(k)
          BY <4>1, <5>3 DEF Kept
        <5> QED
          BY <5>1, <5>2, <5>3
      <4> QED
        BY <4>2 DEF Follows, x
    <3>2. CASE r.reply # "ok"
      <4>1. call' = call
        BY <2>1, <2>2, <3>2 DEF ReplyToLogin
      <4> QED
        BY <4>1, SameFollows
    <3> QED
      BY <3>1, <3>2
  <2>3. CASE r.who # Login
    <3>1. \/ call' = Moved(call, {r.who}, "ready") \/ call' = Settled(call, r.who, "rejected")
          \/ call' = Settled(call, r.who, "begin") \/ call' = Settled(call, r.who, "resolved")
      BY <2>1, <2>3 DEF ReplyToCall
    <3> QED
      BY <1>1, <3>1, MovedFollows, SettledFollows
  <2> QED
    BY <2>2, <2>3
<1>7. CASE SocketFails(k)
  <2>1. \E err \in Errors : \E n : LET x == Failing(call, Callers(net.conns[k].queue), err) IN
           call' = x \/ call' = call \/ call' = Dropped(x, n)
    <3>1. PICK err \in {"broken", "ended", "closed"} :
            LET x == Failing(call, Callers(net.conns[k].queue), err)
                n == [net EXCEPT !.conns[k] = Destroyed(net.conns[k], err)] IN
            call' = x \/ call' = call \/ call' = Dropped(x, n)
      BY <1>7 DEF SocketFails
    <3>2. err \in Errors
      BY DEF Errors
    <3> QED
      BY <3>1, <3>2
  <2>2. PICK err \in Errors : \E n : LET x == Failing(call, Callers(net.conns[k].queue), err) IN
           call' = x \/ call' = call \/ call' = Dropped(x, n)
    BY <2>1
  <2> DEFINE x == Failing(call, Callers(net.conns[k].queue), err)
  <2>3. x \in Records /\ Follows(call, x)
    BY <1>1, FailingFollows
  <2>4. PICK n : call' = x \/ call' = call \/ call' = Dropped(x, n)
    BY <2>2
  <2> HIDE DEF x
  <2>5. Follows(call, Dropped(x, n))
    <3>1. Follows(x, Dropped(x, n))
      BY <2>3, DroppedFollows
    <3> QED
      BY <2>3, <3>1, FollowsOn
  <2> QED
    BY <2>3, <2>4, <2>5, SameFollows
<1>8. CASE SocketEnds(k)
  <2>1. call' = call \/ \E n : call' = Dropped(call, n)
    BY <1>8 DEF SocketEnds
  <2> QED
    BY <1>1, <2>1, DroppedFollows, SameFollows
<1>9. CASE OperationTimeout(k)
  <2> DEFINE x == Failing(call, Callers(net.conns[k].queue), "ended")
  <2>1. call' = Moved(x, Callers(net.conns[k].waiting), "stranded")
    BY <1>9 DEF OperationTimeout
  <2>2. x \in Records /\ Follows(call, x)
    BY <1>1, FailingFollows DEF Errors
  <2> HIDE DEF x
  <2> QED
    BY <2>1, <2>2, MovedFollows, FollowsOn
<1> QED
  BY <1>2, <1>3, <1>4, <1>5, <1>6, <1>7, <1>8, <1>9

Makes == mode.pool = FALSE => Idles /\ MendInv

LEMMA InitMends == Init => Makes
<1> SUFFICES ASSUME Init PROVE Makes
  OBVIOUS
<1>1. \A c \in Calls : call[c].at = "idle" /\ call[c].kind = "none"
  BY NoCallType DEF Init
<1>2. /\ net.conns = <<>> /\ Len(net.conns) = 0 /\ transport.session = 0 /\ transport.connecting = "none"
      /\ transport.login = 0 /\ transport.auto = 0 /\ transport.retries = 0 /\ db.opening = "none"
      /\ crashed = FALSE
  BY DEF Init
<1>3. AllActive(servers)
  <2>1. servers = [i \in 1..Len(Hosts) |-> [host |-> Hosts[i], active |-> TRUE]]
    BY DEF Init
  <2>2. servers \in Servers
    BY InitBasic, Before
  <2>3. Len(servers) = Len(Hosts)
    BY <2>2, ServersType
  <2> QED
    BY <2>1, <2>3 DEF AllActive
<1>4. \A k \in 1..Len(net.conns) : FALSE
  BY <1>2
<1>5. Fair(transport, db, call) /\ Clean(net)
  BY <1>1, <1>2, <1>4 DEF Fair, Clean
<1>6. Serving(net, transport, call)
  BY <1>1, <1>2, <1>4 DEF Serving, Upright
<1>7. Whole(net, transport, servers)
  <2>1. Len(net.conns) <= 1
    BY <1>2
  <2> QED
    BY <1>2, <1>3, <1>4, <2>1 DEF Whole, Sole
<1> QED
  BY <1>1, <1>2, <1>5, <1>6, <1>7 DEF Makes, Idles, MendInv, Mended, Mending

LEMMA MoreFaults ==
    ASSUME Basic, Next
    PROVE  /\ UNCHANGED mode
           /\ faults' = faults \/ \E kind \in FaultKinds : Fault(kind)
<1>1. ASSUME NEW c \in Calls, Start(c) \/ Open(c) \/ Send(c) \/ AutoReconnectAndSend(c)
      PROVE  faults' = faults /\ UNCHANGED mode
  BY <1>1 DEF Start, Open, Send, AutoReconnectAndSend
<1>2. CASE AutoReconnected
  BY <1>2 DEF AutoReconnected
<1>3. ASSUME NEW k \in Conns, LoginFails(k) \/ Connected(k) \/ Reply(k) \/ SocketEnds(k)
      PROVE  faults' = faults /\ UNCHANGED mode
  BY <1>3 DEF LoginFails, Connected, Reply, SocketEnds
<1>4. ASSUME NEW k \in Conns, NotConnected(k)
      PROVE  (\E kind \in FaultKinds : Fault(kind)) /\ UNCHANGED mode
  BY <1>4 DEF NotConnected, FaultKinds
<1>5. ASSUME NEW k \in Conns, Serve(k)
      PROVE  (faults' = faults \/ \E kind \in FaultKinds : Fault(kind)) /\ UNCHANGED mode
  BY <1>5 DEF Serve, FaultKinds
<1>6. ASSUME NEW k \in Conns, SocketFails(k)
      PROVE  (\E kind \in FaultKinds : Fault(kind)) /\ UNCHANGED mode
  <2>1. PICK err \in {"broken", "ended", "closed"} : Fault(IF HasLogin(net.conns[k].queue) THEN "login" ELSE err)
    BY <1>6 DEF SocketFails
  <2>2. (IF HasLogin(net.conns[k].queue) THEN "login" ELSE err) \in FaultKinds
    BY DEF FaultKinds
  <2>3. UNCHANGED mode
    BY <1>6 DEF SocketFails
  <2> QED
    BY <2>1, <2>2, <2>3
<1>7. ASSUME NEW k \in Conns, OperationTimeout(k)
      PROVE  (\E kind \in FaultKinds : Fault(kind)) /\ UNCHANGED mode
  <2>1. Fault(IF HasLogin(net.conns[k].queue) THEN "login" ELSE "timeout") /\ UNCHANGED mode
    BY <1>7 DEF OperationTimeout
  <2>2. (IF HasLogin(net.conns[k].queue) THEN "login" ELSE "timeout") \in FaultKinds
    BY DEF FaultKinds
  <2> QED
    BY <2>1, <2>2
<1>8. ASSUME NEW k \in Conns, ConfigPushed(k)
      PROVE  (\E kind \in FaultKinds : Fault(kind)) /\ UNCHANGED mode
  BY <1>8 DEF ConfigPushed, FaultKinds
<1> QED
  BY <1>1, <1>2, <1>3, <1>4, <1>5, <1>6, <1>7, <1>8 DEF Next

\* What a step does not make worse.
LEMMA StepMends ==
    ASSUME Len(Hosts) > 1, Ease, Next, Smoothly(faults', call')
    PROVE  ~crashed' /\ Mended(net', transport', db', servers', call', faults')
<1>0. ~crashed
  BY DEF Ease
<1>1. ASSUME NEW c \in Calls, Start(c) \/ Open(c) \/ Send(c) \/ AutoReconnectAndSend(c)
      PROVE  ~crashed' /\ Mended(net', transport', db', servers', call', faults')
  <2>1. UNCHANGED crashed
    BY <1>1 DEF Start, Open, Send, AutoReconnectAndSend
  <2> QED
    BY <1>0, <1>1, <2>1, StartMend, OpenMend, SendMend, AutoReconnectAndSendMend
<1>2. ASSUME AutoReconnected
      PROVE  ~crashed' /\ Mended(net', transport', db', servers', call', faults')
  <2>1. UNCHANGED crashed
    BY <1>2 DEF AutoReconnected
  <2> QED
    BY <1>0, <1>2, <2>1, AutoReconnectedMend
<1>3. ASSUME NEW k \in Conns, \/ LoginFails(k) \/ Connected(k) \/ NotConnected(k) \/ Serve(k) \/ Reply(k)
                              \/ OperationTimeout(k)
      PROVE  ~crashed' /\ Mended(net', transport', db', servers', call', faults')
  <2>1. UNCHANGED crashed
    BY <1>3 DEF LoginFails, Connected, NotConnected, Serve, Reply, OperationTimeout
  <2> QED
    BY <1>0, <1>3, <2>1, LoginFailsMend, ConnectedMend, NotConnectedMend, ServeMend, ReplyMend, OperationTimeoutMend
<1>4. ASSUME NEW k \in Conns, SocketFails(k) \/ SocketEnds(k) \/ ConfigPushed(k)
      PROVE  ~crashed' /\ Mended(net', transport', db', servers', call', faults')
  BY <1>4, SocketFailsMend, SocketEndsMend, ConfigPushedMend
<1> QED
  BY <1>1, <1>2, <1>3, <1>4 DEF Next

LEMMA MendsStay ==
    ASSUME Len(Hosts) > 1
    PROVE  Secured /\ Makes /\ [Next]_vars => Makes'
<1> SUFFICES ASSUME Secured, Makes, [Next]_vars, (mode.pool = FALSE)'
             PROVE  (Idles /\ MendInv)'
  BY DEF Makes
<1>1. /\ UNCHANGED mode /\ mode.pool = FALSE /\ Idles /\ MendInv
      /\ faults' = faults \/ \E kind \in FaultKinds : Fault(kind)
  <2>1. /\ UNCHANGED mode
        /\ faults' = faults \/ \E kind \in FaultKinds : Fault(kind)
    BY MoreFaults DEF vars, Secured
  <2> QED
    BY <2>1 DEF Makes
<1>2. Secure
  BY <1>1 DEF Secured, Secure
<1>3. Basic
  BY DEF Secured
<1>4. Follows(call, call')
  <2>1. CASE UNCHANGED vars
    BY <2>1, SameFollows DEF vars
  <2>2. CASE AutoReconnected
    <3>1. \E who : call' = Resent(call, who)
      BY <2>2 DEF AutoReconnected
    <3>2. call \in Records
      BY <1>3, Before, CallsAreRecords
    <3> QED
      BY <3>1, <3>2, ResentFollows
  <2> QED
    BY <1>1, <1>3, <2>1, <2>2, CallsFollow, SocketsFollow DEF Next
<1>5. Idles'
  BY <1>1, <1>4 DEF Idles, Follows, Kept
<1>6. ASSUME Smoothly(faults', call')
      PROVE  ~crashed' /\ Mended(net', transport', db', servers', call', faults')
  <2>1. Smoothly(faults, call)
    <3>1. \A c \in Calls : call[c].kind # "close"
      BY <1>4, <1>6 DEF Smoothly, Follows, Kept
    <3>2. CASE faults' = faults
      BY <1>1, <1>6, <3>1, <3>2 DEF Smoothly
    <3>3. ASSUME NEW kind \in FaultKinds, Fault(kind)
          PROVE  Smoothly(faults, call)
      <4>1. faults \in Seq(FaultKinds)
        BY <1>3, Before
      <4>2. faults = <<>>
        BY <1>6, <3>3, <4>1, FirstFault
      <4>3. Len(faults) = 0
        BY <4>2
      <4> QED
        BY <1>1, <3>1, <4>3 DEF Smoothly
    <3> QED
      BY <1>1, <3>2, <3>3
  <2>2. Ease
    BY <1>1, <1>2, <2>1 DEF Ease, MendInv
  <2>3. CASE UNCHANGED vars
    BY <2>2, <2>3 DEF Ease, vars
  <2>4. CASE Next
    BY <1>6, <2>2, <2>4, StepMends
  <2> QED
    BY <2>3, <2>4
<1>7. MendInv'
  <2> SUFFICES ASSUME Smoothly(faults, call)'
               PROVE  (~crashed /\ Mended(net, transport, db, servers, call, faults))'
    BY DEF MendInv
  <2>1. Smoothly(faults', call')
    BY <1>1 DEF Smoothly
  <2>2. ~crashed' /\ Mended(net', transport', db', servers', call', faults')
    BY <1>6, <2>1
  <2> QED
    BY <1>1, <2>2, ZenonT(60) DEF Mended, Fair, Clean, Mending, Serving, Upright, Whole, Sole, Severed, Refused, AllActive, CutOff
<1> QED
  BY <1>5, <1>7

LEMMA MendingFailsOver == Secured /\ Makes => FailsOver
<1> SUFFICES ASSUME Secured, Makes, ~mode.pool, \A c \in Calls : call[c].kind # "close",
                    Len(faults) <= 1,
                    \A i \in 1..Len(faults) : faults[i] \in {"refused", "broken", "ended", "timeout"}
             PROVE  ~crashed /\ \A c \in Calls : ~At(c, {"rejected", "stranded"}) /\ ~Abandoned(c)
  BY DEF FailsOver
<1>1. Ease
  <2>1. mode.pool = FALSE /\ Secure
    <3>1. mode.pool \in BOOLEAN /\ Basic /\ Sound(net, transport, db, call)
      BY Before DEF Secured
    <3> QED
      BY <3>1 DEF Secure
  <2>2. Smoothly(faults, call)
    BY <2>1 DEF Smoothly, Overcome
  <2> QED
    BY <2>1, <2>2 DEF Makes, MendInv, Ease
<1>2. /\ Fair(transport, db, call) /\ Mending(net, transport, servers, call, faults)
      /\ Conns = 1..Len(net.conns) /\ mode.skip \in BOOLEAN
      /\ \A k \in Conns : net.conns[k] \in SomeConn /\ Fine(net.conns[k], k, transport, call)
  BY <1>1, EaseFacts
<1>3. ~crashed /\ \A c \in Calls : ~At(c, {"rejected", "stranded"})
  BY <1>1, <1>2 DEF Ease, Fair, At
<1>4. ASSUME NEW c \in Calls, NEW k \in Conns, net.conns[k].stage = "idle",
             c \in Callers(net.conns[k].queue) \cup Waiters(k)
      PROVE  FALSE
  <2>1. net.conns[k].queue = <<>> /\ net.conns[k].waiting = <<>> /\ k # 0
    BY <1>2, <1>4 DEF Fine
  <2>2. Entries(net.conns[k]) = {}
    BY <1>2, <2>1, NoEntries
  <2>3. call[c].at \in {"login", "auto"} /\ call[c].on = k
    BY <1>4, <2>1, NoRequests DEF Waiters, At
  <2>4. CASE Serving(net, transport, call)
    <3>1. CASE mode.skip
      BY <2>1, <2>3, <2>4, <3>1 DEF Serving
    <3>2. CASE ~mode.skip
      BY <2>2, <2>3, <2>4, <3>2 DEF Serving
    <3> QED
      BY <3>1, <3>2
  <2>5. CASE Severed(transport, servers, call)
    BY <2>1, <2>3, <2>5 DEF Severed
  <2>6. CASE Refused(net, transport, servers, call)
    BY <1>4, <2>3, <2>6 DEF Refused
  <2> QED
    BY <1>2, <2>4, <2>5, <2>6 DEF Mending
<1>5. \A c \in Calls : ~LeftBehind(c)
  BY <1>3, <1>4 DEF LeftBehind, At
<1> QED
  BY <1>3, <1>5 DEF Abandoned

\* Where there is another server, one connection that is refused, breaks, ends or
\* is given up for a timeout is made good: no call is rejected or left without an
\* answer, and the process does not die of it (autoReconnectTransportAndSend and
\* shiftServer of transport/binary/index.js; see FailsOver for what is excepted).
THEOREM FailsOverCorrect ==
    ASSUME Len(Hosts) > 1
    PROVE  Spec => []FailsOver
<1>1. Init => Secured /\ Makes
  BY InitBasic, InitSound, InitMends DEF Secured
<1>2. Secured /\ Makes /\ [Next]_vars => Secured' /\ Makes'
  BY SoundStays, MendsStay
<1> QED
  BY <1>1, <1>2, MendingFailsOver, PTL DEF Spec

==============================================================================
