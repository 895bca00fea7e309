----------------------------- MODULE ClusterProofs -----------------------------
(* Proofs about Cluster, for every set of servers, rounds and administrative   *)
(* calls and every number of faults.                                           *)
EXTENDS Cluster, TLAPS

--------------------------------------------------------------------------------
(* The inductive invariant.                                                    *)

\* Whether the server has a session of a call follows from where the call is.
AdminsInOrder ==
    \A a \in Admins :
        /\ admins[a].lent = IF admins[a].pc \in {"login", "work", "logout", "release",
                                                 "failing"} THEN 1 ELSE 0
        /\ admins[a].pc \in {"idle", "client", "login", "release"} => a \notin sessions
        /\ admins[a].pc \in {"work", "logout"} => admins[a].session
        /\ admins[a].pc = "failing" /\ a \in sessions => admins[a].session \/ admins[a].lost
        /\ admins[a].pc \in {"resolved", "rejected"} /\ a \in sessions => admins[a].lost

\* Nobody waits in a round that is not used.
UnusedIsEmpty == \A r \in Rounds : rounds[r].kind = "none" => rounds[r].waits = {}

\* A round waits for servers it has joined; and one round at most is the connect()
\* of the client, before which the cluster listens to no server.
RoundsInOrder ==
    /\ \A r \in Rounds : \A a \in rounds[r].waits : a[1] \in rounds[r].joined
    /\ \A r \in Rounds : rounds[r].kind = "connect" => client = "pending"
    /\ \A r, s \in Rounds :
          rounds[r].kind = "connect" /\ rounds[s].kind = "connect" => r = s
    /\ client \in {"no", "pending"} => listening = {}

\* What is true of the promises of the servers and of the rounds that wait for them.
Promises ==
    /\ connecting \in [Hosts -> 0..2]
    /\ attempts \in [Attempts -> {"free", "dialing", "half", "failed"}]
    /\ rounds \in [Rounds -> Round]
    /\ UnusedIsEmpty
    /\ NobodyForgotten

\* The types of the cluster and its servers.
ClusterType ==
    /\ client \in {"no", "pending", "connected", "rejected"}
    /\ listed \subseteq Hosts /\ listening \subseteq listed
    /\ connected \in [Hosts -> BOOLEAN] /\ connecting \in [Hosts -> 0..2]
    /\ attempts \in [Attempts -> {"free", "dialing", "half", "failed"}]
    /\ rounds \in [Rounds -> Round]
    /\ announced \in [Hosts -> {"unknown", "on", "off"}]
    /\ \A r \in Rounds : rounds[r].joined \subseteq listed

ClusterInv ==
    /\ ClusterType
    /\ UnusedIsEmpty
    /\ RoundsInOrder
    /\ NobodyForgotten
    /\ OfflineIsAnnounced

Inv ==
    /\ TypeOK
    /\ AdminsInOrder
    /\ ClusterInv

--------------------------------------------------------------------------------
(* The administrative calls.                                                   *)

\* The record of a call that moves on, with lent connections.
Moved(x, pc, lent) == [x EXCEPT !.pc = pc, !.lent = lent]
Lost(x, pc, lent)  == [x EXCEPT !.pc = pc, !.lent = lent, !.lost = TRUE]

LEMMA AdminType ==
    ASSUME NEW x \in Admin,
           NEW pc \in {"idle", "client", "login", "work", "logout", "release", "failing",
                       "resolved", "rejected", "stranded"},
           NEW lent \in 0..1
    PROVE  /\ Moved(x, pc, lent) \in Admin
           /\ Moved(x, pc, lent).pc = pc
           /\ Moved(x, pc, lent).lent = lent
           /\ Moved(x, pc, lent).session = x.session
           /\ Moved(x, pc, lent).lost = x.lost
           /\ Lost(x, pc, lent) \in Admin
           /\ Lost(x, pc, lent).pc = pc
           /\ Lost(x, pc, lent).lent = lent
           /\ Lost(x, pc, lent).lost
BY DEF Admin, Moved, Lost

LEMMA NextAdmins ==
    ASSUME TypeOK, AdminsInOrder, [Next]_vars
    PROVE  /\ AdminsInOrder'
           /\ admins' \in [Admins -> Admin]
           /\ sessions' \subseteq Admins
<1>1. /\ admins \in [Admins -> Admin] /\ sessions \subseteq Admins
  BY DEF TypeOK
<1>2. CASE UNCHANGED <<admins, sessions>>
  BY <1>1, <1>2 DEF AdminsInOrder
<1>3. ASSUME NEW a \in Admins, NEW x \in Admin,
             admins' = [admins EXCEPT ![a] = x], sessions' \subseteq Admins,
             \A b \in Admins : b # a => (b \in sessions' <=> b \in sessions),
             /\ x.lent = IF x.pc \in {"login", "work", "logout", "release", "failing"}
                         THEN 1 ELSE 0
             /\ x.pc \in {"idle", "client", "login", "release"} => a \notin sessions'
             /\ x.pc \in {"work", "logout"} => x.session
             /\ x.pc = "failing" /\ a \in sessions' => x.session \/ x.lost
             /\ x.pc \in {"resolved", "rejected"} /\ a \in sessions' => x.lost
      PROVE  /\ AdminsInOrder'
             /\ admins' \in [Admins -> Admin]
             /\ sessions' \subseteq Admins
  <2>1. admins' \in [Admins -> Admin]
    BY <1>1, <1>3
  <2>2. admins'[a] = x /\ \A b \in Admins : b # a => admins'[b] = admins[b]
    BY <1>1, <1>3
  <2> QED
    BY <1>3, <2>1, <2>2 DEF AdminsInOrder
<1>4. ASSUME NEW a \in Admins, AdminStart(a) \/ AdminStep(a)
      PROVE  /\ AdminsInOrder'
             /\ admins' \in [Admins -> Admin]
             /\ sessions' \subseteq Admins
  <2> DEFINE x == admins[a]
  <2>1. x \in Admin
    BY <1>1
  <2>2. /\ x.lent = IF x.pc \in {"login", "work", "logout", "release", "failing"}
                    THEN 1 ELSE 0
        /\ x.pc \in {"idle", "client", "login", "release"} => a \notin sessions
        /\ x.pc \in {"work", "logout"} => x.session
        /\ x.pc = "failing" /\ a \in sessions => x.session \/ x.lost
    BY DEF AdminsInOrder
  <2>3. CASE AdminStart(a) \/ AdminWork(a) \/ AdminNoConnection(a) \/ AdminLogout(a)
    <3> DEFINE y(pc) == [x EXCEPT !.pc = pc]
    <3>1. PICK pc \in {"client", "logout", "stranded", "release"} :
             /\ admins' = [admins EXCEPT ![a] = y(pc)]
             /\ pc = "client" => x.pc = "idle" /\ sessions' = sessions
             /\ pc = "logout" => x.pc = "work" /\ sessions' = sessions
             /\ pc = "stranded" => x.pc = "client" /\ sessions' = sessions
             /\ pc = "release" => x.pc = "logout" /\ sessions' = sessions \ {a}
      BY <2>3, <1>1 DEF AdminStart, AdminWork, AdminNoConnection, AdminLogout, AdminAt
    <3>2. /\ y(pc) \in Admin /\ y(pc).pc = pc /\ y(pc).lent = x.lent
          /\ y(pc).session = x.session /\ y(pc).lost = x.lost
      BY <2>1 DEF Admin
    <3>3. sessions' \subseteq Admins /\ \A b \in Admins : b # a => (b \in sessions' <=> b \in sessions)
      BY <1>1, <3>1
    <3> HIDE DEF y, x
    <3> QED
      BY <1>3, <2>2, <3>1, <3>2, <3>3
  <2>4. CASE AdminAcquire(a)
    <3> DEFINE y == Moved(x, "login", 1)
    <3>1. x.pc = "client" /\ x.lent + 1 = 1
      BY <2>2, <2>4 DEF AdminAcquire
    <3>2. admins' = [admins EXCEPT ![a] = y] /\ sessions' = sessions
      BY <1>1, <2>1, <2>4, <3>1 DEF AdminAcquire, Admin, Moved
    <3>3. y \in Admin /\ y.pc = "login" /\ y.lent = 1
      <4>1. 1 \in 0..1
        OBVIOUS
      <4> QED
        BY <2>1, <4>1, AdminType
    <3> HIDE DEF y, x
    <3> QED
      BY <1>1, <1>3, <2>2, <3>1, <3>2, <3>3
  <2>5. CASE AdminLogin(a)
    <3> DEFINE y == [x EXCEPT !.pc = "work", !.session = TRUE]
    <3>1. admins' = [admins EXCEPT ![a] = y] /\ sessions' = sessions \cup {a} /\ x.pc = "login"
      BY <1>1, <2>1, <2>5 DEF AdminLogin, Admin
    <3>2. y \in Admin /\ y.pc = "work" /\ y.lent = x.lent /\ y.session
      BY <2>1 DEF Admin
    <3> HIDE DEF y, x
    <3> QED
      BY <1>1, <1>3, <2>2, <3>1, <3>2
  <2>6. CASE AdminRelease(a)
    <3> DEFINE y == Moved(x, "resolved", 0)
    <3>1. x.pc = "release" /\ x.lent - 1 = 0
      BY <2>2, <2>6 DEF AdminRelease
    <3>2. admins' = [admins EXCEPT ![a] = y] /\ sessions' = sessions
      BY <1>1, <2>1, <2>6, <3>1 DEF AdminRelease, Admin, Moved
    <3>3. y \in Admin /\ y.pc = "resolved" /\ y.lent = 0
      <4>1. 0 \in 0..1
        OBVIOUS
      <4> QED
        BY <2>1, <4>1, AdminType
    <3> HIDE DEF y, x
    <3> QED
      BY <1>1, <1>3, <2>2, <3>1, <3>2, <3>3
  <2>7. CASE AdminFails(a)
    <3>1. x.pc \in {"login", "work", "logout"}
      BY <2>7 DEF AdminFails
    <3>2. CASE admins' = [admins EXCEPT ![a].pc = "failing"] /\ UNCHANGED sessions
      <4> DEFINE y == [x EXCEPT !.pc = "failing"]
      <4>1. admins' = [admins EXCEPT ![a] = y] /\ sessions' = sessions
        BY <3>2
      <4>2. y \in Admin /\ y.pc = "failing" /\ y.lent = x.lent /\ y.session = x.session
        BY <2>1 DEF Admin
      <4> HIDE DEF y, x
      <4> QED
        BY <1>1, <1>3, <2>2, <3>1, <4>1, <4>2
    <3>3. CASE /\ admins' = [admins EXCEPT ![a].pc = "failing", ![a].lost = TRUE]
               /\ sessions' = sessions \cup {a}
      <4> DEFINE y == [x EXCEPT !.pc = "failing", !.lost = TRUE]
      <4>1. admins' = [admins EXCEPT ![a] = y] /\ sessions' = sessions \cup {a}
        BY <1>1, <2>1, <3>3 DEF Admin
      <4>2. y \in Admin /\ y.pc = "failing" /\ y.lent = x.lent /\ y.lost
        BY <2>1 DEF Admin
      <4> HIDE DEF y, x
      <4> QED
        BY <1>1, <1>3, <2>2, <3>1, <4>1, <4>2
    <3> QED
      BY <2>7, <3>2, <3>3 DEF AdminFails
  <2>8. CASE AdminCleanUp(a)
    <3>1. x.pc = "failing" /\ x.lent - 1 = 0
      BY <2>2, <2>8 DEF AdminCleanUp
    <3>2. CASE /\ admins' = [admins EXCEPT ![a].pc = "rejected", ![a].lent = @ - 1]
               /\ sessions' = IF admins[a].session THEN sessions \ {a} ELSE sessions
      <4> DEFINE y == Moved(x, "rejected", 0)
      <4>1. /\ admins' = [admins EXCEPT ![a] = y]
            /\ sessions' = IF x.session THEN sessions \ {a} ELSE sessions
        BY <1>1, <2>1, <3>1, <3>2 DEF Admin, Moved
      <4>2. y \in Admin /\ y.pc = "rejected" /\ y.lent = 0 /\ y.lost = x.lost
        <5>1. 0 \in 0..1
          OBVIOUS
        <5> QED
          BY <2>1, <5>1, AdminType
      <4> HIDE DEF y, x
      <4> QED
        BY <1>1, <1>3, <2>2, <3>1, <4>1, <4>2
    <3>3. CASE /\ admins' = [admins EXCEPT ![a].pc = "rejected", ![a].lent = @ - 1,
                                            ![a].lost = TRUE]
               /\ sessions' = sessions
      <4> DEFINE y == Lost(x, "rejected", 0)
      <4>1. admins' = [admins EXCEPT ![a] = y] /\ sessions' = sessions
        BY <1>1, <2>1, <3>1, <3>3 DEF Admin, Lost
      <4>2. y \in Admin /\ y.pc = "rejected" /\ y.lent = 0 /\ y.lost
        <5>1. 0 \in 0..1
          OBVIOUS
        <5> QED
          BY <2>1, <5>1, AdminType
      <4> HIDE DEF y, x
      <4> QED
        BY <1>1, <1>3, <2>2, <3>1, <4>1, <4>2
    <3> QED
      BY <2>8, <3>2, <3>3 DEF AdminCleanUp
  <2> QED
    BY <1>4, <2>3, <2>4, <2>5, <2>6, <2>7, <2>8 DEF AdminStep
<1>5. CASE Announcing
  BY <1>2, <1>5 DEF Announcing, Reconfigure, adminVars
<1>6. CASE Connect \/ \E a \in Attempts : AttemptStep(a)
  BY <1>2, <1>6 DEF Connect, AttemptStep, NetworkConnects, AttemptSucceeds, AttemptFails,
                    StaleRejection, adminVars
<1>7. CASE \/ \E r \in Rounds : NothingToConnect(r)
           \/ \E h \in Hosts : NetworkFails(h) \/ NetworkFailsUncaught(h)
  BY <1>2, <1>7 DEF NothingToConnect, NetworkFails, NetworkFailsUncaught, adminVars
<1>8. CASE UNCHANGED vars
  BY <1>2, <1>8 DEF vars, adminVars
<1> QED
  BY <1>4, <1>5, <1>6, <1>7, <1>8 DEF Next, Running

--------------------------------------------------------------------------------
(* The promises of the servers, and the rounds that wait for them.             *)

LEMMA AttemptParts ==
    ASSUME NEW a \in Attempts
    PROVE  /\ a[1] \in Hosts /\ a[2] \in Slots /\ a[2] \in 0..2 /\ a[2] # 0
           /\ a = <<a[1], a[2]>>
BY DEF Attempts, Slots

\* connect() of a server takes a slot that is free.
LEMMA FreeSlotType ==
    ASSUME NEW h, \E n \in Slots : attempts[<<h, n>>] = "free"
    PROVE  FreeSlot(h) \in Slots /\ attempts[<<h, FreeSlot(h)>>] = "free"
BY DEF FreeSlot

\* What StartRound does: each server is given a slot, which is new or that of the
\* promise there is, and one round waits for all of them.
LEMMA StartRoundEffect ==
    ASSUME connecting \in [Hosts -> 0..2], NEW kind, NEW hs \in SUBSET Hosts, 
           StartRound(kind, hs)
    PROVE  \E slot \in [hs -> Slots], r \in Rounds :
              /\ rounds[r].kind = "none"
              /\ rounds' = [rounds EXCEPT ![r] =
                    [kind |-> kind, waits |-> {<<h, slot[h]>> : h \in hs}, joined |-> hs]]
              /\ \A h \in hs : connecting[h] = 0 => attempts[<<h, slot[h]>>] = "free"
              /\ \A h \in hs : connecting[h] # 0 => slot[h] = connecting[h]
              /\ connecting' = [h \in Hosts |-> IF h \in hs THEN slot[h] ELSE connecting[h]]
              /\ attempts' = [a \in Attempts |->
                    IF a[1] \in hs /\ connecting[a[1]] = 0 /\ a[2] = slot[a[1]]
                    THEN "dialing" ELSE attempts[a]]
<1> DEFINE fresh == {h \in hs : connecting[h] = 0}
           slot  == [h \in hs |-> IF h \in fresh THEN FreeSlot(h) ELSE connecting[h]]
<1>1. /\ \A h \in fresh : \E n \in Slots : attempts[<<h, n>>] = "free"
      /\ connecting' = [h \in Hosts |-> IF h \in hs THEN slot[h] ELSE connecting[h]]
      /\ attempts' = [a \in Attempts |->
             IF a[1] \in fresh /\ a[2] = slot[a[1]] THEN "dialing" ELSE attempts[a]]
      /\ \E r \in Rounds :
             /\ rounds[r].kind = "none"
             /\ rounds' = [rounds EXCEPT ![r] =
                   [kind |-> kind, waits |-> {<<h, slot[h]>> : h \in hs}, joined |-> hs]]
  BY Zenon DEF StartRound
<1>2. \A h \in fresh : FreeSlot(h) \in Slots /\ attempts[<<h, FreeSlot(h)>>] = "free"
  BY <1>1, FreeSlotType
<1>3. \A h \in hs : connecting[h] # 0 => connecting[h] \in Slots
  BY DEF Slots
<1>4. slot \in [hs -> Slots]
  BY <1>2, <1>3
<1>5. \A h \in hs : /\ connecting[h] = 0 => attempts[<<h, slot[h]>>] = "free"
                    /\ connecting[h] # 0 => slot[h] = connecting[h]
  BY <1>2
<1>6. attempts' = [a \in Attempts |->
             IF a[1] \in hs /\ connecting[a[1]] = 0 /\ a[2] = slot[a[1]]
             THEN "dialing" ELSE attempts[a]]
  BY <1>1
<1> HIDE DEF slot, fresh
<1> QED
  BY <1>1, <1>4, <1>5, <1>6

LEMMA StartRoundKeeps ==
    ASSUME Promises, NEW kind \in {"connect", "reconfigure"}, NEW hs \in SUBSET Hosts,
           StartRound(kind, hs)
    PROVE  /\ Promises'
           /\ \E r \in Rounds :
                 /\ rounds[r].kind = "none"
                 /\ rounds'[r].kind = kind
                 /\ rounds'[r].joined = hs
                 /\ \A a \in rounds'[r].waits : a[1] \in hs
                 /\ \A q \in Rounds : q # r => rounds'[q] = rounds[q]
<1>1. /\ connecting \in [Hosts -> 0..2]
      /\ attempts \in [Attempts -> {"free", "dialing", "half", "failed"}]
      /\ rounds \in [Rounds -> Round]
      /\ \A r \in Rounds : rounds[r].kind = "none" => rounds[r].waits = {}
      /\ NobodyForgotten
  BY DEF Promises, UnusedIsEmpty
<1>2. PICK slot \in [hs -> Slots], r \in Rounds :
              /\ rounds[r].kind = "none"
              /\ rounds' = [rounds EXCEPT ![r] =
                    [kind |-> kind, waits |-> {<<h, slot[h]>> : h \in hs}, joined |-> hs]]
              /\ \A h \in hs : connecting[h] = 0 => attempts[<<h, slot[h]>>] = "free"
              /\ \A h \in hs : connecting[h] # 0 => slot[h] = connecting[h]
              /\ connecting' = [h \in Hosts |-> IF h \in hs THEN slot[h] ELSE connecting[h]]
              /\ attempts' = [a \in Attempts |->
                    IF a[1] \in hs /\ connecting[a[1]] = 0 /\ a[2] = slot[a[1]]
                    THEN "dialing" ELSE attempts[a]]
  BY <1>1, StartRoundEffect
<1> DEFINE W == {<<h, slot[h]>> : h \in hs}
           R == [kind |-> kind, waits |-> W, joined |-> hs]
<1>3. \A a \in Attempts : a \in W <=> a[1] \in hs /\ a[2] = slot[a[1]]
  BY DEF Attempts
<1>4. W \subseteq Attempts /\ \A a \in W : a[1] \in hs
  BY DEF Attempts
<1>5. R \in Round /\ R.kind = kind /\ R.waits = W /\ R.joined = hs
  BY <1>4 DEF Round
<1>6. rounds' = [rounds EXCEPT ![r] = R]
  BY <1>2
<1> HIDE DEF R, W
<1>7. /\ rounds' \in [Rounds -> Round]
      /\ rounds'[r] = R
      /\ \A q \in Rounds : q # r => rounds'[q] = rounds[q]
  BY <1>1, <1>5, <1>6
<1>8. connecting' \in [Hosts -> 0..2]
  BY <1>1, <1>2 DEF Slots
<1>9. attempts' \in [Attempts -> {"free", "dialing", "half", "failed"}]
  BY <1>1, <1>2
<1>10. \A q \in Rounds : rounds'[q].kind = "none" => rounds'[q].waits = {}
  BY <1>1, <1>2, <1>5, <1>7
<1>11. ASSUME NEW a \in Attempts
       PROVE  /\ Waiting(a)' # {} => attempts'[a] # "free"
              /\ attempts'[a] \in {"dialing", "half"} => Waiting(a)' # {}
              /\ connecting'[a[1]] = a[2] => attempts'[a] # "free"
  <2>1. /\ Waiting(a) # {} => attempts[a] # "free"
        /\ attempts[a] \in {"dialing", "half"} => Waiting(a) # {}
        /\ connecting[a[1]] = a[2] => attempts[a] # "free"
    BY <1>1 DEF NobodyForgotten
  <2>2. Waiting(a)' = {q \in Rounds : a \in rounds'[q].waits}
    BY DEF Waiting
  <2>3. \A q \in Rounds : q \in Waiting(a)' <=> (q \in Waiting(a)) \/ (q = r /\ a \in W)
    <3>1. rounds[r].waits = {} /\ rounds'[r].waits = W
      BY <1>1, <1>2, <1>5, <1>7
    <3>2. \A q \in Rounds : a \in rounds'[q].waits <=> a \in rounds[q].waits \/ (q = r /\ a \in W)
      BY <1>7, <3>1
    <3> QED
      BY <2>2, <3>2 DEF Waiting
  <2>4. Waiting(a)' \subseteq Rounds /\ Waiting(a) \subseteq Rounds
    BY <2>2 DEF Waiting
  <2>5. attempts'[a] = IF a[1] \in hs /\ connecting[a[1]] = 0 /\ a[2] = slot[a[1]]
                       THEN "dialing" ELSE attempts[a]
    BY <1>2
  <2>6. a \in W => attempts'[a] # "free"
    BY <1>2, <1>3, <2>1, <2>5
  <2>7. Waiting(a)' # {} => attempts'[a] # "free"
    BY <2>1, <2>3, <2>4, <2>5, <2>6
  <2>8. attempts'[a] \in {"dialing", "half"} => Waiting(a)' # {}
    <3>1. a \in W => r \in Waiting(a)'
      BY <2>3
    <3>2. a \notin W => attempts'[a] = attempts[a]
      BY <1>3, <2>5
    <3> QED
      <4>1. Waiting(a) # {} => Waiting(a)' # {}
        BY <2>3, <2>4, Zenon
      <4> QED
        BY <2>1, <3>1, <3>2, <4>1
  <2>9. connecting'[a[1]] = a[2] => attempts'[a] # "free"
    <3>1. CASE a[1] \in hs
      BY <1>2, <1>3, <2>6, <3>1, AttemptParts
    <3>2. CASE a[1] \notin hs
      BY <1>2, <2>1, <2>5, <3>2, AttemptParts
    <3> QED
      BY <3>1, <3>2
  <2> QED
    BY <2>7, <2>8, <2>9
<1>12. NobodyForgotten'
  BY <1>11 DEF NobodyForgotten
<1>13. Promises'
  BY <1>7, <1>8, <1>9, <1>10, <1>12 DEF Promises, UnusedIsEmpty
<1> QED
  BY <1>2, <1>4, <1>5, <1>7, <1>13

\* What RoundsGoOn does: nobody waits for attempt a any more; the rounds that have waited
\* for nothing else come to their end; and the promises that are let go are those that
\* were rejected, that nobody waits for and that their server does not hold.
LEMMA RoundsGoOnEffect ==
    ASSUME Promises, NEW a \in Attempts, NEW on, NEW conn, NEW at, RoundsGoOn(a, on, conn, at)
    PROVE  /\ rounds' \in [Rounds -> Round]
           /\ \A r \in Rounds :
                 /\ rounds'[r].waits = rounds[r].waits \ {a}
                 /\ \/ rounds'[r].kind = rounds[r].kind /\ rounds'[r].joined = rounds[r].joined
                    \/ /\ rounds'[r] = NoRound
                       /\ rounds[r].waits = {a}
           /\ \A b \in Attempts :
                 \/ b = a /\ conn[a[1]] = a[2] /\ attempts'[b] = at
                 \/ b = a /\ conn[a[1]] # a[2] /\ attempts'[b] = "free"
                 \/ b # a /\ attempts'[b] = attempts[b]
                 \/ /\ b # a /\ attempts[b] = "failed" /\ conn[b[1]] # b[2]
                    /\ \A r \in Rounds : b \notin rounds'[r].waits
                    /\ attempts'[b] = "free"
           /\ connected' = on
           /\ connecting' = conn
           /\ DOMAIN attempts' = Attempts /\ attempts' = [b \in Attempts |-> attempts'[b]]
           /\ listed' = listed
           /\ \/ /\ \E r \in Rounds : rounds[r].kind = "connect" /\ rounds'[r] = NoRound
                 /\ listening' = {h \in listed : on[h]}
                 /\ client' = Decided(on)
              \/ /\ \A r \in Rounds : rounds[r].kind = "connect" => rounds'[r].kind = "connect"
                 /\ listening' = listening /\ client' = client
           /\ \/ announced' = Topology(on)
              \/ /\ \A r \in Rounds : rounds[r].kind = "reconfigure" =>
                       /\ rounds'[r].kind = "reconfigure"
                       /\ rounds'[r].joined = rounds[r].joined
                 /\ announced' = announced
<1> DEFINE done == {r \in Waiting(a) : rounds[r].waits = {a}}
           rnds == [r \in Rounds |-> CASE r \in done -> NoRound
                                       [] OTHER -> [rounds[r] EXCEPT !.waits = @ \ {a}]]
           Ended(kind) == \E r \in done : rounds[r].kind = kind
           Left(b) == CASE b = a                  -> IF conn[a[1]] = a[2] THEN at ELSE "free"
                        [] Dropped(b, conn, rnds) -> "free"
                        [] OTHER                  -> attempts[b]
           Going(r) == CASE r \in done -> NoRound
                         [] OTHER -> [rounds[r] EXCEPT !.waits = @ \ {a}]
<1>1. /\ rounds' = rnds
      /\ connected' = on
      /\ connecting' = conn
      /\ attempts' = [b \in Attempts |-> Left(b)]
      /\ IF Ended("connect")
           THEN /\ listening' = {h \in listed : on[h]}
                /\ client' = Decided(on)
           ELSE UNCHANGED <<listening, client>>
      /\ announced' = IF Ended("reconfigure") THEN Topology(on) ELSE announced
      /\ UNCHANGED listed
  BY Zenon DEF RoundsGoOn
<1>2. rounds \in [Rounds -> Round]
  BY DEF Promises
<1>3. \A r \in Rounds : r \in done <=> rounds[r].waits = {a}
  BY DEF Waiting
<1>4. \A r \in Rounds : rnds[r] = IF r \in done THEN NoRound
                                  ELSE [rounds[r] EXCEPT !.waits = @ \ {a}]
  BY Zenon
<1>5. \A b \in Attempts :
          attempts'[b] = IF b = a THEN IF conn[a[1]] = a[2] THEN at ELSE "free"
                         ELSE IF Dropped(b, conn, rnds) THEN "free" ELSE attempts[b]
  <2> HIDE DEF rnds
  <2>1. ASSUME NEW b \in Attempts, b = a
        PROVE  Left(b) = IF conn[a[1]] = a[2] THEN at ELSE "free"
    <3>1. CASE Dropped(b, conn, rnds)
      <4>1. conn[a[1]] # a[2]
        BY <2>1, <3>1 DEF Dropped
      <4> QED
        BY <2>1, <4>1, Zenon
    <3>2. CASE ~Dropped(b, conn, rnds)
      BY <2>1, <3>2, Zenon
    <3> QED
      BY <3>1, <3>2
  <2>2. ASSUME NEW b \in Attempts, b # a, Dropped(b, conn, rnds)
        PROVE  Left(b) = "free"
    BY <2>2, Zenon
  <2>3. ASSUME NEW b \in Attempts, b # a, ~Dropped(b, conn, rnds)
        PROVE  Left(b) = attempts[b]
    BY <2>3, Zenon
  <2> HIDE DEF Left
  <2> QED
    BY <1>1, <2>1, <2>2, <2>3
<1>6. DOMAIN attempts' = Attempts /\ attempts' = [b \in Attempts |-> attempts'[b]]
  <2> HIDE DEF Left
  <2> QED
    BY <1>1
<1>7. DOMAIN rounds' = Rounds /\ rounds' = [r \in Rounds |-> rounds'[r]]
  <2>1. rounds' = [r \in Rounds |-> Going(r)]
    BY <1>1, Zenon
  <2> HIDE DEF Going, rnds
  <2> QED
    BY <2>1
<1>8. \A r \in Rounds : r \in done =>
             rounds'[r] = NoRound /\ rounds[r].waits = {a} /\ rounds'[r].waits = {}
  BY <1>1, <1>3, <1>4 DEF NoRound
<1>9. \A r \in Rounds : r \notin done =>
             /\ rounds'[r] = [rounds[r] EXCEPT !.waits = @ \ {a}]
             /\ rounds'[r].waits = rounds[r].waits \ {a}
             /\ rounds'[r].kind = rounds[r].kind
             /\ rounds'[r].joined = rounds[r].joined
             /\ rounds'[r] \in Round
  <2> SUFFICES ASSUME NEW r \in Rounds, r \notin done
               PROVE  /\ rounds'[r] = [rounds[r] EXCEPT !.waits = @ \ {a}]
                      /\ rounds'[r].waits = rounds[r].waits \ {a}
                      /\ rounds'[r].kind = rounds[r].kind
                      /\ rounds'[r].joined = rounds[r].joined
                      /\ rounds'[r] \in Round
    OBVIOUS
  <2>1. rounds'[r] = [rounds[r] EXCEPT !.waits = @ \ {a}]
    BY <1>1, <1>4
  <2>2. rounds[r] \in Round
    BY <1>2
  <2> HIDE DEF rnds
  <2> QED
    BY <2>1, <2>2 DEF Round
<1>10. NoRound \in Round
  BY DEF NoRound, Round
<1> HIDE DEF rnds
<1>11. rounds' \in [Rounds -> Round]
  BY <1>7, <1>8, <1>9, <1>10
<1>12. \A r \in Rounds :
          /\ rounds'[r].waits = rounds[r].waits \ {a}
          /\ \/ rounds'[r].kind = rounds[r].kind /\ rounds'[r].joined = rounds[r].joined
             \/ /\ rounds'[r] = NoRound
                /\ rounds[r].waits = {a}
  BY <1>8, <1>9
<1>13. \A b \in Attempts :
          \/ b = a /\ conn[a[1]] = a[2] /\ attempts'[b] = at
          \/ b = a /\ conn[a[1]] # a[2] /\ attempts'[b] = "free"
          \/ b # a /\ attempts'[b] = attempts[b]
          \/ /\ b # a /\ attempts[b] = "failed" /\ conn[b[1]] # b[2]
             /\ \A r \in Rounds : b \notin rounds'[r].waits
             /\ attempts'[b] = "free"
  BY <1>1, <1>5 DEF Dropped
<1>14. \/ /\ \E r \in Rounds : rounds[r].kind = "connect" /\ rounds'[r] = NoRound
          /\ listening' = {h \in listed : on[h]}
          /\ client' = Decided(on)
       \/ /\ \A r \in Rounds : rounds[r].kind = "connect" => rounds'[r].kind = "connect"
          /\ listening' = listening /\ client' = client
  <2>1. CASE Ended("connect")
    <3>1. \E r \in Rounds : rounds[r].kind = "connect" /\ rounds'[r] = NoRound
      BY <2>1, <1>8 DEF Waiting
    <3> QED
      BY <1>1, <2>1, <3>1
  <2>2. CASE ~Ended("connect")
    BY <1>1, <2>2, <1>9
  <2> QED
    BY <2>1, <2>2
<1>15. \/ announced' = Topology(on)
       \/ /\ \A r \in Rounds : rounds[r].kind = "reconfigure" =>
                /\ rounds'[r].kind = "reconfigure"
                /\ rounds'[r].joined = rounds[r].joined
          /\ announced' = announced
  BY <1>1, <1>9
<1> HIDE DEF done
<1> QED
  BY <1>1, <1>6, <1>11, <1>12, <1>13, <1>14, <1>15

--------------------------------------------------------------------------------
(* The cluster.                                                                *)

LEMMA ClusterPromises == ASSUME ClusterInv PROVE Promises
BY DEF ClusterInv, ClusterType, Promises

\* What the application is told is what is true.
LEMMA TopologyType ==
    ASSUME NEW on \in [Hosts -> BOOLEAN]
    PROVE  /\ Topology(on) \in [Hosts -> {"unknown", "on", "off"}]
           /\ \A h \in Hosts : Topology(on)[h] = "on" => on[h]
<1> DEFINE T(h) == CASE h \notin listed -> "unknown" [] on[h] -> "on" [] OTHER -> "off"
<1>1. Topology(on) = [h \in Hosts |-> T(h)]
  BY Zenon DEF Topology
<1>2. ASSUME NEW h \in Hosts
      PROVE  T(h) \in {"unknown", "on", "off"} /\ (T(h) = "on" => on[h])
  <2>1. CASE h \notin listed /\ on[h]
    <3>1. T(h) \in {"unknown", "on"}
      BY <2>1, Zenon
    <3> HIDE DEF T
    <3> QED
      BY <2>1, <3>1
  <2>2. CASE h \notin listed /\ ~on[h]
    <3>1. T(h) = "unknown"
      BY <2>2, Zenon
    <3> HIDE DEF T
    <3> QED
      BY <3>1
  <2>3. CASE h \in listed /\ on[h]
    <3>1. T(h) = "on"
      BY <2>3, Zenon
    <3> HIDE DEF T
    <3> QED
      BY <2>3, <3>1
  <2>4. CASE h \in listed /\ ~on[h]
    <3>1. T(h) = "off"
      BY <2>4, Zenon
    <3> HIDE DEF T
    <3> QED
      BY <3>1
  <2> QED
    BY <2>1, <2>2, <2>3, <2>4
<1> HIDE DEF T
<1> QED
  BY <1>1, <1>2

\* A promise is settled: all who wait for it go on.
LEMMA RoundsGoOnKeeps ==
    ASSUME ClusterInv, NEW a \in Attempts, Waiting(a) # {},
           NEW on \in [Hosts -> BOOLEAN], NEW conn \in [Hosts -> 0..2],
           NEW at \in {"free", "failed"},
           \A h \in Hosts : h # a[1] => on[h] = connected[h],
           \A h \in Hosts : conn[h] \in {0, connecting[h]},
           at = "free" => conn[a[1]] = 0,
           RoundsGoOn(a, on, conn, at)
    PROVE  ClusterInv'
<1>1. /\ client \in {"no", "pending", "connected", "rejected"}
      /\ listed \subseteq Hosts /\ listening \subseteq listed
      /\ connected \in [Hosts -> BOOLEAN] /\ connecting \in [Hosts -> 0..2]
      /\ attempts \in [Attempts -> {"free", "dialing", "half", "failed"}]
      /\ rounds \in [Rounds -> Round]
      /\ announced \in [Hosts -> {"unknown", "on", "off"}]
      /\ \A r \in Rounds : rounds[r].joined \subseteq listed
  BY DEF ClusterInv, ClusterType
<1>2. /\ UnusedIsEmpty /\ RoundsInOrder /\ NobodyForgotten /\ OfflineIsAnnounced
      /\ Promises
  BY ClusterPromises DEF ClusterInv
<1>3. /\ rounds' \in [Rounds -> Round]
      /\ \A r \in Rounds :
            /\ rounds'[r].waits = rounds[r].waits \ {a}
            /\ \/ rounds'[r].kind = rounds[r].kind /\ rounds'[r].joined = rounds[r].joined
               \/ /\ rounds'[r] = NoRound
                  /\ rounds[r].waits = {a}
      /\ \A b \in Attempts :
            \/ b = a /\ conn[a[1]] = a[2] /\ attempts'[b] = at
            \/ b = a /\ conn[a[1]] # a[2] /\ attempts'[b] = "free"
            \/ b # a /\ attempts'[b] = attempts[b]
            \/ /\ b # a /\ attempts[b] = "failed" /\ conn[b[1]] # b[2]
               /\ \A r \in Rounds : b \notin rounds'[r].waits
               /\ attempts'[b] = "free"
      /\ connected' = on
      /\ connecting' = conn
      /\ DOMAIN attempts' = Attempts /\ attempts' = [b \in Attempts |-> attempts'[b]]
      /\ listed' = listed
      /\ \/ /\ \E r \in Rounds : rounds[r].kind = "connect" /\ rounds'[r] = NoRound
            /\ listening' = {h \in listed : on[h]}
            /\ client' = Decided(on)
         \/ /\ \A r \in Rounds : rounds[r].kind = "connect" => rounds'[r].kind = "connect"
            /\ listening' = listening /\ client' = client
      /\ \/ announced' = Topology(on)
         \/ /\ \A r \in Rounds : rounds[r].kind = "reconfigure" =>
                  /\ rounds'[r].kind = "reconfigure"
                  /\ rounds'[r].joined = rounds[r].joined
            /\ announced' = announced
  BY <1>2, RoundsGoOnEffect
<1>4. NoRound.kind = "none" /\ NoRound.waits = {} /\ NoRound.joined = {}
  BY DEF NoRound
<1>5. Decided(on) \in {"connected", "rejected"}
  BY DEF Decided
<1>6. ClusterType'
  <2>1. attempts' \in [Attempts -> {"free", "dialing", "half", "failed"}]
    <3>1. \A b \in Attempts : attempts'[b] \in {"free", "dialing", "half", "failed"}
      BY <1>1, <1>3
    <3> QED
      BY <1>3, <3>1
  <2>2. announced' \in [Hosts -> {"unknown", "on", "off"}]
    BY <1>1, <1>3, TopologyType
  <2>3. \A r \in Rounds : rounds'[r].joined \subseteq listed'
    BY <1>1, <1>3, <1>4
  <2>4. client' \in {"no", "pending", "connected", "rejected"} /\ listening' \subseteq listed'
    BY <1>1, <1>3, <1>5
  <2> QED
    BY <1>1, <1>3, <2>1, <2>2, <2>3, <2>4 DEF ClusterType
<1>7. UnusedIsEmpty'
  <2>1. \A r \in Rounds : rounds'[r].kind = "none" => rounds'[r].waits = {}
    BY <1>2, <1>3, <1>4 DEF UnusedIsEmpty
  <2> QED
    BY <2>1 DEF UnusedIsEmpty
<1>8. RoundsInOrder'
  <2>1. \A r \in Rounds : \A b \in rounds'[r].waits : b[1] \in rounds'[r].joined
    <3>1. \A r \in Rounds : \A b \in rounds[r].waits : b[1] \in rounds[r].joined
      BY <1>2 DEF RoundsInOrder
    <3> QED
      BY <1>3, <1>4, <3>1
  <2>2. /\ \A r \in Rounds : rounds[r].kind = "connect" => client = "pending"
        /\ \A r, s \in Rounds :
              rounds[r].kind = "connect" /\ rounds[s].kind = "connect" => r = s
        /\ client \in {"no", "pending"} => listening = {}
    BY <1>2 DEF RoundsInOrder
  <2>3. \A r \in Rounds : rounds'[r].kind = "connect" => rounds[r].kind = "connect"
    BY <1>3, <1>4
  <2>4. \A r \in Rounds : rounds'[r].kind = "connect" => client' = "pending"
    BY <1>3, <1>4, <2>2, <2>3
  <2>5. client' \in {"no", "pending"} => listening' = {}
    BY <1>3, <1>5, <2>2
  <2> QED
    BY <2>1, <2>2, <2>3, <2>4, <2>5 DEF RoundsInOrder
<1>9. NobodyForgotten'
  <2> SUFFICES ASSUME NEW b \in Attempts
               PROVE  /\ Waiting(b)' # {} => attempts'[b] # "free"
                      /\ attempts'[b] \in {"dialing", "half"} => Waiting(b)' # {}
                      /\ connecting'[b[1]] = b[2] => attempts'[b] # "free"
    BY DEF NobodyForgotten
  <2>1. /\ Waiting(b) # {} => attempts[b] # "free"
        /\ attempts[b] \in {"dialing", "half"} => Waiting(b) # {}
        /\ connecting[b[1]] = b[2] => attempts[b] # "free"
    BY <1>2 DEF NobodyForgotten
  <2>2. Waiting(b)' = {r \in Rounds : b \in rounds'[r].waits}
    BY DEF Waiting
  <2>3. /\ b[1] \in Hosts /\ b[2] # 0
        /\ conn[b[1]] \in {0, connecting[b[1]]}
    BY AttemptParts
  <2>4. CASE b = a
    <3>1. Waiting(b)' = {}
      BY <1>3, <2>2, <2>4
    <3>2. attempts'[b] \in {"free", "failed"}
      BY <1>3, <2>4
    <3>3. conn[b[1]] = b[2] => attempts'[b] # "free"
      BY <1>3, <2>3, <2>4
    <3> QED
      BY <1>3, <3>1, <3>2, <3>3
  <2>5. CASE b # a
    <3>1. Waiting(b)' = Waiting(b)
      <4>1. \A r \in Rounds : b \in rounds'[r].waits <=> b \in rounds[r].waits
        BY <1>3, <2>5
      <4> QED
        BY <2>2, <4>1 DEF Waiting
    <3>2. CASE attempts'[b] = attempts[b]
      BY <1>3, <2>1, <2>3, <3>1, <3>2
    <3>3. CASE /\ attempts[b] = "failed" /\ conn[b[1]] # b[2]
               /\ \A r \in Rounds : b \notin rounds'[r].waits
               /\ attempts'[b] = "free"
      <4>1. Waiting(b)' = {}
        BY <2>2, <3>3
      <4> QED
        BY <1>3, <3>3, <4>1
    <3> QED
      BY <1>3, <2>5, <3>2, <3>3
  <2> QED
    BY <2>4, <2>5
<1>10. OfflineIsAnnounced'
  <2> SUFFICES ASSUME NEW h \in listening', announced'[h] = "on", ~connected'[h]
               PROVE  \E r \in Rounds : rounds'[r].kind = "reconfigure" /\ h \in rounds'[r].joined
    BY DEF OfflineIsAnnounced
  <2>1. ~on[h] /\ h \in Hosts
    BY <1>1, <1>3
  <2>2. h \in listening /\ listening' = listening
    BY <1>3, <2>1
  <2>3. client \notin {"no", "pending"}
    BY <1>2, <2>2 DEF RoundsInOrder
  <2>4. /\ \A r \in Rounds : rounds[r].kind = "reconfigure" =>
               /\ rounds'[r].kind = "reconfigure"
               /\ rounds'[r].joined = rounds[r].joined
        /\ announced' = announced
    BY <1>3, <2>1, TopologyType
  <2>5. CASE ~connected[h]
    <3>1. \E r \in Rounds : rounds[r].kind = "reconfigure" /\ h \in rounds[r].joined
      BY <1>2, <2>2, <2>4, <2>5 DEF OfflineIsAnnounced
    <3> QED
      BY <2>4, <3>1
  <2>6. CASE connected[h]
    <3>1. h = a[1]
      BY <1>1, <2>1, <2>6
    <3>2. PICK r \in Rounds : a \in rounds[r].waits
      BY DEF Waiting
    <3>3. h \in rounds[r].joined
      BY <1>2, <3>1, <3>2 DEF RoundsInOrder
    <3>4. rounds[r].kind \in {"none", "connect", "reconfigure"}
      BY <1>1 DEF Round
    <3>5. rounds[r].kind = "reconfigure"
      BY <1>2, <2>3, <3>2, <3>4 DEF RoundsInOrder, UnusedIsEmpty
    <3> QED
      BY <2>4, <3>3, <3>5
  <2> QED
    BY <2>5, <2>6
<1> QED
  BY <1>6, <1>7, <1>8, <1>9, <1>10 DEF ClusterInv

\* Whoever calls connect() of the cluster: the first call connects its servers.
LEMMA ClusterConnectsKeeps ==
    ASSUME ClusterInv, ClusterConnects, UNCHANGED <<listed, listening, announced, connected>>
    PROVE  ClusterInv'
<1>1. CASE UNCHANGED <<client, connecting, attempts, rounds>>
  BY <1>1 DEF ClusterInv, ClusterType, UnusedIsEmpty, RoundsInOrder, NobodyForgotten, Waiting,
              OfflineIsAnnounced
<1>2. CASE client = "no" /\ client' = "pending" /\ StartRound("connect", listed)
  <2>1. ClusterType /\ UnusedIsEmpty /\ RoundsInOrder /\ OfflineIsAnnounced /\ Promises
    BY ClusterPromises DEF ClusterInv
  <2>2. listed \in SUBSET Hosts
    BY <2>1 DEF ClusterType
  <2>3. Promises'
    BY <1>2, <2>1, <2>2, StartRoundKeeps
  <2>4. PICK r \in Rounds :
           /\ rounds[r].kind = "none"
           /\ rounds'[r].kind = "connect"
           /\ rounds'[r].joined = listed
           /\ \A a \in rounds'[r].waits : a[1] \in listed
           /\ \A q \in Rounds : q # r => rounds'[q] = rounds[q]
    BY <1>2, <2>1, <2>2, StartRoundKeeps
  <2>5. listening = {} /\ \A q \in Rounds : rounds[q].kind # "connect"
    BY <1>2, <2>1 DEF RoundsInOrder
  <2>6. ClusterType'
    BY <1>2, <2>1, <2>3, <2>4 DEF ClusterType, Promises
  <2>7. RoundsInOrder'
    BY <1>2, <2>1, <2>4, <2>5 DEF RoundsInOrder
  <2>8. OfflineIsAnnounced'
    BY <2>5 DEF OfflineIsAnnounced
  <2> QED
    BY <2>3, <2>6, <2>7, <2>8 DEF ClusterInv, Promises
<1> QED
  BY <1>1, <1>2 DEF ClusterConnects

LEMMA ReconfigureKeeps ==
    ASSUME ClusterInv, NEW h \in Hosts, NEW addresses \in SUBSET Hosts,
           Reconfigure(h, addresses)
    PROVE  ClusterInv'
<1> DEFINE all == listed \cup addresses
           hs  == {s \in all : ~connected[s]}
<1>1. ClusterType /\ UnusedIsEmpty /\ RoundsInOrder /\ OfflineIsAnnounced /\ Promises
  BY ClusterPromises DEF ClusterInv
<1>2. /\ listed' = all /\ StartRound("reconfigure", hs)
      /\ UNCHANGED <<client, listening, announced, connected>>
  BY DEF Reconfigure
<1>3. all \in SUBSET Hosts /\ hs \in SUBSET Hosts /\ hs \subseteq all /\ listed \subseteq all
  BY <1>1 DEF ClusterType
<1> HIDE DEF hs, all
<1>4. Promises'
  BY <1>1, <1>2, <1>3, StartRoundKeeps
<1>5. PICK r \in Rounds :
         /\ rounds[r].kind = "none"
         /\ rounds'[r].kind = "reconfigure"
         /\ rounds'[r].joined = hs
         /\ \A a \in rounds'[r].waits : a[1] \in hs
         /\ \A q \in Rounds : q # r => rounds'[q] = rounds[q]
  BY <1>1, <1>2, <1>3, StartRoundKeeps
<1>6. ClusterType'
  BY <1>1, <1>2, <1>3, <1>4, <1>5 DEF ClusterType, Promises
<1>7. RoundsInOrder'
  BY <1>1, <1>2, <1>5 DEF RoundsInOrder
<1>8. OfflineIsAnnounced'
  BY <1>1, <1>2, <1>5 DEF OfflineIsAnnounced
<1> QED
  BY <1>4, <1>6, <1>7, <1>8 DEF ClusterInv, Promises

LEMMA NothingToConnectKeeps ==
    ASSUME ClusterInv, NEW r \in Rounds, NothingToConnect(r)
    PROVE  ClusterInv'
<1>1. /\ ClusterType /\ UnusedIsEmpty /\ RoundsInOrder /\ NobodyForgotten
      /\ rounds \in [Rounds -> Round] /\ connected \in [Hosts -> BOOLEAN]
  BY DEF ClusterInv, ClusterType
<1>2. /\ rounds[r].waits = {}
      /\ rounds' = [rounds EXCEPT ![r] = NoRound]
      /\ announced' = Topology(connected)
      /\ UNCHANGED <<client, listed, listening, connected, connecting, attempts>>
  BY DEF NothingToConnect, serverVars
<1>3. /\ NoRound \in Round /\ NoRound.kind = "none" /\ NoRound.waits = {}
      /\ NoRound.joined = {}
  BY DEF NoRound, Round
<1>4. /\ rounds' \in [Rounds -> Round]
      /\ rounds'[r] = NoRound
      /\ \A q \in Rounds : q # r => rounds'[q] = rounds[q]
      /\ \A q \in Rounds : rounds'[q].waits = rounds[q].waits
  BY <1>1, <1>2, <1>3
<1>5. ClusterType'
  BY <1>1, <1>2, <1>3, <1>4, TopologyType DEF ClusterType
<1>6. UnusedIsEmpty'
  BY <1>1, <1>3, <1>4 DEF UnusedIsEmpty
<1>7. RoundsInOrder'
  BY <1>1, <1>2, <1>3, <1>4 DEF RoundsInOrder
<1>8. NobodyForgotten'
  <2>1. \A a \in Attempts : Waiting(a)' = Waiting(a)
    BY <1>4 DEF Waiting
  <2> QED
    BY <1>1, <1>2, <2>1 DEF NobodyForgotten
<1>9. OfflineIsAnnounced'
  BY <1>1, <1>2, TopologyType DEF OfflineIsAnnounced, ClusterType
<1> QED
  BY <1>5, <1>6, <1>7, <1>8, <1>9 DEF ClusterInv

LEMMA NetworkFailsKeeps ==
    ASSUME ClusterInv, NEW h \in Hosts, NetworkFails(h)
    PROVE  ClusterInv'
<1>1. /\ ClusterType /\ UnusedIsEmpty /\ RoundsInOrder /\ NobodyForgotten /\ OfflineIsAnnounced
      /\ connected \in [Hosts -> BOOLEAN] /\ connecting \in [Hosts -> 0..2]
      /\ attempts \in [Attempts -> {"free", "dialing", "half", "failed"}]
      /\ listed \subseteq Hosts /\ listening \subseteq listed
  BY DEF ClusterInv, ClusterType
<1>2. /\ connected' = [connected EXCEPT ![h] = FALSE]
      /\ connecting' = [connecting EXCEPT ![h] = 0]
      /\ attempts' = [a \in Attempts |->
             IF Dropped(a, connecting', rounds) THEN "free" ELSE attempts[a]]
      /\ announced' = IF h \in listening THEN Topology(connected') ELSE announced
      /\ UNCHANGED <<client, listed, listening, rounds>>
  BY DEF NetworkFails
<1>3. /\ connected' \in [Hosts -> BOOLEAN] /\ ~connected'[h]
      /\ \A g \in Hosts : g # h => connected'[g] = connected[g]
  BY <1>1, <1>2
<1>4. /\ connecting' \in [Hosts -> 0..2] /\ connecting'[h] = 0
      /\ \A g \in Hosts : g # h => connecting'[g] = connecting[g]
  BY <1>1, <1>2
<1>5. attempts' \in [Attempts -> {"free", "dialing", "half", "failed"}]
  BY <1>1, <1>2
<1>6. /\ Topology(connected') \in [Hosts -> {"unknown", "on", "off"}]
      /\ \A g \in Hosts : Topology(connected')[g] = "on" => connected'[g]
  <2>1. ASSUME NEW on \in [Hosts -> BOOLEAN], on = connected'
        PROVE  /\ Topology(on) \in [Hosts -> {"unknown", "on", "off"}]
               /\ \A g \in Hosts : Topology(on)[g] = "on" => on[g]
    BY TopologyType
  <2> QED
    BY <1>3, <2>1
<1>7. ClusterType'
  BY <1>1, <1>2, <1>3, <1>4, <1>5, <1>6 DEF ClusterType
<1>8. UnusedIsEmpty' /\ RoundsInOrder'
  BY <1>1, <1>2 DEF UnusedIsEmpty, RoundsInOrder
<1>9. NobodyForgotten'
  <2> SUFFICES ASSUME NEW a \in Attempts
               PROVE  /\ Waiting(a)' # {} => attempts'[a] # "free"
                      /\ attempts'[a] \in {"dialing", "half"} => Waiting(a)' # {}
                      /\ connecting'[a[1]] = a[2] => attempts'[a] # "free"
    BY DEF NobodyForgotten
  <2>1. /\ Waiting(a) # {} => attempts[a] # "free"
        /\ attempts[a] \in {"dialing", "half"} => Waiting(a) # {}
        /\ connecting[a[1]] = a[2] => attempts[a] # "free"
    BY <1>1 DEF NobodyForgotten
  <2>2. Waiting(a)' = Waiting(a)
    BY <1>2 DEF Waiting
  <2>3. connecting'[a[1]] = a[2] => connecting[a[1]] = a[2]
    BY <1>4, AttemptParts
  <2>4. CASE Dropped(a, connecting', rounds)
    <3>1. /\ attempts'[a] = "free" /\ connecting'[a[1]] # a[2]
          /\ \A r \in Rounds : a \notin rounds[r].waits
      BY <1>2, <2>4 DEF Dropped
    <3>2. Waiting(a) = {}
      BY <3>1 DEF Waiting
    <3> QED
      BY <2>2, <3>1, <3>2
  <2>5. CASE ~Dropped(a, connecting', rounds)
    <3>1. attempts'[a] = attempts[a]
      BY <1>2, <2>5
    <3> QED
      BY <2>1, <2>2, <2>3, <3>1
  <2> QED
    BY <2>4, <2>5
<1>10. OfflineIsAnnounced'
  <2> SUFFICES ASSUME NEW g \in listening', announced'[g] = "on", ~connected'[g]
               PROVE  \E r \in Rounds : rounds'[r].kind = "reconfigure" /\ g \in rounds'[r].joined
    BY DEF OfflineIsAnnounced
  <2>1. g \in listening /\ g \in Hosts
    BY <1>1, <1>2
  <2>2. h \notin listening
    BY <1>2, <1>6, <2>1
  <2>3. announced[g] = "on" /\ ~connected[g]
    BY <1>2, <1>3, <2>1, <2>2
  <2> QED
    BY <1>1, <1>2, <2>1, <2>3 DEF OfflineIsAnnounced
<1> QED
  BY <1>7, <1>8, <1>9, <1>10 DEF ClusterInv

\* One of the two networks of a server is there, both are, or one fails.
LEMMA AttemptStepKeeps ==
    ASSUME ClusterInv, NEW a \in Attempts, AttemptStep(a)
    PROVE  ClusterInv'
<1>1. /\ ClusterType /\ UnusedIsEmpty /\ RoundsInOrder /\ NobodyForgotten /\ OfflineIsAnnounced
      /\ connected \in [Hosts -> BOOLEAN] /\ connecting \in [Hosts -> 0..2]
      /\ attempts \in [Attempts -> {"free", "dialing", "half", "failed"}]
  BY DEF ClusterInv, ClusterType
<1>2. a[1] \in Hosts
  BY AttemptParts
<1>3. CASE NetworkConnects(a)
  <2>1. /\ attempts[a] = "dialing"
        /\ attempts' = [attempts EXCEPT ![a] = "half"]
        /\ UNCHANGED <<client, listed, listening, rounds, announced, connected, connecting>>
    BY <1>3 DEF NetworkConnects, clusterVars
  <2>2. attempts' \in [Attempts -> {"free", "dialing", "half", "failed"}]
    BY <1>1, <2>1
  <2>3. \A b \in Attempts :
           /\ Waiting(b)' = Waiting(b)
           /\ attempts'[b] = IF b = a THEN "half" ELSE attempts[b]
    BY <1>1, <2>1 DEF Waiting
  <2>4. NobodyForgotten'
    BY <1>1, <2>1, <2>3 DEF NobodyForgotten
  <2> QED
    BY <1>1, <2>1, <2>2, <2>4 DEF ClusterInv, ClusterType, UnusedIsEmpty, RoundsInOrder,
                                  OfflineIsAnnounced
<1>4. CASE AttemptSucceeds(a)
  <2> DEFINE on   == [connected EXCEPT ![a[1]] = TRUE]
             conn == [connecting EXCEPT ![a[1]] = 0]
  <2>1. attempts[a] = "half" /\ RoundsGoOn(a, on, conn, "free")
    BY <1>4 DEF AttemptSucceeds
  <2>2. Waiting(a) # {}
    BY <1>1, <2>1 DEF NobodyForgotten
  <2>3. on \in [Hosts -> BOOLEAN] /\ conn \in [Hosts -> 0..2] /\ conn[a[1]] = 0
    BY <1>1, <1>2
  <2>4. /\ \A h \in Hosts : h # a[1] => on[h] = connected[h]
        /\ \A h \in Hosts : conn[h] \in {0, connecting[h]}
    BY <1>1
  <2> HIDE DEF on, conn
  <2> QED
    BY <2>1, <2>2, <2>3, <2>4, RoundsGoOnKeeps
<1>5. CASE AttemptFails(a) \/ StaleRejection(a)
  <2> DEFINE on   == [connected EXCEPT ![a[1]] = FALSE]
             conn == IF ForgetsRejected(a) THEN [connecting EXCEPT ![a[1]] = 0] ELSE connecting
  <2>1. Waiting(a) # {}
    BY <1>1, <1>5 DEF NobodyForgotten, AttemptFails, StaleRejection
  <2>2. RoundsGoOn(a, on, conn, "failed")
    BY <1>5 DEF AttemptFails, StaleRejection, Rejected
  <2>3. on \in [Hosts -> BOOLEAN] /\ conn \in [Hosts -> 0..2]
    BY <1>1, <1>2
  <2>4. /\ \A h \in Hosts : h # a[1] => on[h] = connected[h]
        /\ \A h \in Hosts : conn[h] \in {0, connecting[h]}
    BY <1>1
  <2> HIDE DEF on, conn
  <2> QED
    BY <2>1, <2>2, <2>3, <2>4, RoundsGoOnKeeps
<1> QED
  BY <1>3, <1>4, <1>5 DEF AttemptStep

LEMMA NextCluster ==
    ASSUME ClusterInv, [Next]_vars
    PROVE  ClusterInv'
<1>1. ASSUME UNCHANGED <<client, listed, listening, connected, connecting, attempts, rounds,
                         announced>>
      PROVE  ClusterInv'
  BY <1>1 DEF ClusterInv, ClusterType, UnusedIsEmpty, RoundsInOrder, NobodyForgotten, Waiting,
              OfflineIsAnnounced
<1>2. CASE Announcing
  BY <1>2, ReconfigureKeeps DEF Announcing
<1>3. CASE Connect
  BY <1>3, ClusterConnectsKeeps DEF Connect
<1>4. CASE \E a \in Attempts : AttemptStep(a)
  BY <1>4, AttemptStepKeeps
<1>5. CASE \E r \in Rounds : NothingToConnect(r)
  BY <1>5, NothingToConnectKeeps
<1>6. CASE \E h \in Hosts : NetworkFails(h)
  BY <1>6, NetworkFailsKeeps
<1>7. CASE \E h \in Hosts : NetworkFailsUncaught(h)
  BY <1>1, <1>7 DEF NetworkFailsUncaught, clusterVars, serverVars
<1>8. CASE \E a \in Admins : AdminStart(a)
  BY <1>8, ClusterConnectsKeeps DEF AdminStart
<1>9. CASE \E a \in Admins : AdminStep(a)
  BY <1>1, <1>9 DEF AdminStep, AdminAcquire, AdminNoConnection, AdminLogin, AdminWork,
                    AdminLogout, AdminRelease, AdminFails, AdminCleanUp, clusterVars, serverVars
<1>10. CASE UNCHANGED vars
  BY <1>1, <1>10 DEF vars, clusterVars, serverVars
<1> QED
  BY <1>2, <1>3, <1>4, <1>5, <1>6, <1>7, <1>8, <1>9, <1>10 DEF Next, Running

--------------------------------------------------------------------------------
(* The rest of the types, and the theorems.                                    *)

LEMMA NextRest ==
    ASSUME TypeOK, [Next]_vars
    PROVE  /\ wired' \in [Hosts -> BOOLEAN] /\ pooled' \in [Hosts -> BOOLEAN]
           /\ crashed' \in BOOLEAN /\ faults' \in 0..MaxFaults
<1>1. /\ wired \in [Hosts -> BOOLEAN] /\ pooled \in [Hosts -> BOOLEAN]
      /\ crashed \in BOOLEAN /\ faults \in 0..MaxFaults
  BY DEF TypeOK
<1>2. \A h \in Hosts : /\ [wired EXCEPT ![h] = TRUE] \in [Hosts -> BOOLEAN]
                       /\ [pooled EXCEPT ![h] = TRUE] \in [Hosts -> BOOLEAN]
  BY <1>1
<1>3. Fault => faults' \in 0..MaxFaults
  BY <1>1, ClusterAssumption DEF Fault
<1>4. CASE Announcing \/ Connect \/ \E r \in Rounds : NothingToConnect(r)
  BY <1>1, <1>4 DEF Announcing, Reconfigure, Connect, NothingToConnect, serverVars
<1>5. CASE \E a \in Attempts : AttemptStep(a)
  <2> PICK a \in Attempts : AttemptStep(a)
    BY <1>5
  <2>1. a[1] \in Hosts
    BY AttemptParts
  <2> QED
    BY <1>1, <1>2, <1>3, <2>1 DEF AttemptStep, NetworkConnects, AttemptSucceeds, AttemptFails,
                                  StaleRejection
<1>6. CASE \E h \in Hosts : NetworkFails(h) \/ NetworkFailsUncaught(h)
  BY <1>1, <1>3, <1>6 DEF NetworkFails, NetworkFailsUncaught, serverVars
<1>7. CASE \E a \in Admins : AdminStart(a)
  BY <1>1, <1>7 DEF AdminStart
<1>8. CASE \E a \in Admins : AdminStep(a)
  BY <1>1, <1>3, <1>8 DEF AdminStep, AdminAcquire, AdminNoConnection, AdminLogin, AdminWork,
                    AdminLogout, AdminRelease, AdminFails, AdminCleanUp, serverVars
<1>9. CASE UNCHANGED vars
  BY <1>1, <1>9 DEF vars, serverVars
<1> QED
  BY <1>4, <1>5, <1>6, <1>7, <1>8, <1>9 DEF Next, Running

LEMMA InitInv == Init => Inv
<1> SUFFICES ASSUME Init PROVE Inv
  OBVIOUS
<1>1. NoRound \in Round /\ NoRound.kind = "none" /\ NoRound.waits = {} /\ NoRound.joined = {}
  BY DEF NoRound, Round
<1>2. TypeOK
  <2>1. admins \in [Admins -> Admin]
    <3>1. 0 \in 0..1
      OBVIOUS
    <3>2. [pc |-> "idle", session |-> FALSE, lent |-> 0, lost |-> FALSE] \in Admin
      BY <3>1, Zenon DEF Admin
    <3> QED
      BY <3>2 DEF Init
  <2>2. connecting \in [Hosts -> 0..2] /\ faults \in 0..MaxFaults
    BY ClusterAssumption DEF Init
  <2>3. /\ connected \in [Hosts -> BOOLEAN] /\ wired \in [Hosts -> BOOLEAN]
        /\ pooled \in [Hosts -> BOOLEAN] /\ crashed \in BOOLEAN
    BY Zenon DEF Init
  <2>4. /\ client = "no" /\ listed \subseteq Hosts /\ listening = {} /\ sessions = {}
        /\ attempts \in [Attempts -> {"free", "dialing", "half", "failed"}]
        /\ announced \in [Hosts -> {"unknown", "on", "off"}]
        /\ rounds = [r \in Rounds |-> NoRound]
    BY DEF Init
  <2>5. /\ rounds \in [Rounds -> Round]
        /\ \A r \in Rounds : rounds[r].joined \subseteq listed
    BY <1>1, <2>4
  <2> QED
    BY <2>1, <2>2, <2>3, <2>4, <2>5 DEF TypeOK
<1>3. AdminsInOrder
  BY DEF Init, AdminsInOrder
<1>4. UnusedIsEmpty /\ RoundsInOrder /\ OfflineIsAnnounced
  BY <1>1 DEF Init, UnusedIsEmpty, RoundsInOrder, OfflineIsAnnounced
<1>5. NobodyForgotten
  <2>1. \A a \in Attempts : Waiting(a) = {} /\ attempts[a] = "free" /\ connecting[a[1]] # a[2]
    BY <1>1, AttemptParts DEF Init, Waiting
  <2> QED
    BY <2>1 DEF NobodyForgotten
<1> QED
  BY <1>2, <1>3, <1>4, <1>5 DEF Inv, ClusterInv, ClusterType, TypeOK

LEMMA NextInv == Inv /\ [Next]_vars => Inv'
<1> SUFFICES ASSUME Inv, [Next]_vars PROVE Inv'
  OBVIOUS
<1>1. TypeOK /\ AdminsInOrder /\ ClusterInv
  BY DEF Inv
<1>2. ClusterInv'
  BY <1>1, NextCluster
<1>3. /\ AdminsInOrder'
      /\ admins' \in [Admins -> Admin]
      /\ sessions' \subseteq Admins
  BY <1>1, NextAdmins
<1>4. /\ wired' \in [Hosts -> BOOLEAN] /\ pooled' \in [Hosts -> BOOLEAN]
      /\ crashed' \in BOOLEAN /\ faults' \in 0..MaxFaults
  BY <1>1, NextRest
<1>5. TypeOK'
  BY <1>2, <1>3, <1>4 DEF ClusterInv, ClusterType, TypeOK
<1> QED
  BY <1>2, <1>3, <1>5 DEF Inv

\* In every reachable state the cluster, its servers and the calls are in order.
THEOREM InvCorrect == Spec => []Inv
BY InitInv, NextInv, PTL DEF Spec

\* The types, and that a server waited for is listed.
THEOREM ClusterTypeCorrect == Spec => []TypeOK
<1>1. Inv => TypeOK
  BY DEF Inv
<1> QED
  BY <1>1, InvCorrect, PTL

\* Whoever waits for a server waits for a promise that will be settled or has been
\* rejected, although an error of the server makes it forget the promise it has given.
THEOREM NobodyForgottenCorrect == Spec => []NobodyForgotten
<1>1. Inv => NobodyForgotten
  BY DEF Inv, ClusterInv
<1> QED
  BY <1>1, InvCorrect, PTL

\* A server that the application believes connected and the cluster listens to is
\* connected, or a round is under way that will announce that it is not.
THEOREM OfflineIsAnnouncedCorrect == Spec => []OfflineIsAnnounced
<1>1. Inv => OfflineIsAnnounced
  BY DEF Inv, ClusterInv
<1> QED
  BY <1>1, InvCorrect, PTL

\* An administrative call gives its connection back once, and leaves a session on the
\* server only when a reply of the server was lost.
THEOREM AdminCleansUpCorrect == Spec => []AdminCleansUp
<1>1. Inv => AdminCleansUp
  BY DEF Inv, AdminsInOrder, AdminCleansUp
<1> QED
  BY <1>1, InvCorrect, PTL
================================================================================
