-------------------------------- MODULE Cluster --------------------------------
(***************************************************************************)
(* Which servers a client uses: OCluster and OServer (client/topology/),   *)
(* and connect and the administrative calls of OrientDBClient              *)
(* (client/client.js).                                                     *)
(*                                                                         *)
(* connect() of a server is a promise, kept in server.connecting, on which *)
(* any number of callers may wait.  A round is one such caller:            *)
(* OCluster.connect or _reconfigureServers, which wait for the promises of *)
(* several servers and then announce the topology.  The promises are       *)
(* settled and their handlers run in one turn of the event loop.  The      *)
(* pools of a server are external: a connection is had or not, and one     *)
(* that is idle may raise an error.  The strategy that selects a server    *)
(* may be any that takes a connected one.                                  *)
(***************************************************************************)
EXTENDS Naturals, FiniteSets

CONSTANTS
    Hosts,        \* the addresses servers may have
    Admins,       \* the administrative calls that may be made
    Rounds,       \* the rounds that may be pending at once
    MaxFaults     \* bound on the things that go wrong

ASSUME ClusterAssumption ==
    /\ Hosts \cap Admins = {}
    /\ MaxFaults \in Nat

VARIABLES
    client,       \* client.connecting and client.connected
    listed,       \* cluster.servers
    listening,    \* the servers whose events the cluster listens to
    connected,    \* server.connected
    connecting,   \* server.connecting: one of its attempts, 0 for null
    wired,        \* the server listens to its two networks
    pooled,       \* one of these has had a connection
    attempts,     \* the promises made by connect() of a server
    rounds,       \* who waits for them, see Round
    announced,    \* the last topology the application was told of
    admins,       \* the administrative calls, see Admin
    sessions,     \* the server: the administrative calls with an open session
    crashed,      \* an error event without a listener: the process has died
    faults

clusterVars == <<client, listed, listening, rounds, announced>>
serverVars  == <<connected, connecting, wired, pooled, attempts>>
adminVars   == <<admins, sessions>>
vars == <<clusterVars, serverVars, adminVars, crashed, faults>>

\* Two attempts of one server: the current one, and one that was forgotten.
Slots    == 1..2
Attempts == Hosts \X Slots
Round == [kind : {"none", "connect", "reconfigure"}, waits : SUBSET Attempts,
          joined : SUBSET Hosts]
NoRound == [kind |-> "none", waits |-> {}, joined |-> {}]
\* lent: connections held; lost: its session could not be closed
Admin == [pc : {"idle", "client", "login", "work", "logout", "release", "failing",
                "resolved", "rejected", "stranded"},
          session : BOOLEAN, lent : 0..1, lost : BOOLEAN]

\* The servers of the configuration: the host, and any others.
Init ==
    /\ client = "no"
    /\ listed \in SUBSET Hosts \ {{}} /\ listening = {}
    /\ connected = [h \in Hosts |-> FALSE]
    /\ connecting = [h \in Hosts |-> 0]
    /\ wired = [h \in Hosts |-> FALSE]
    /\ pooled = [h \in Hosts |-> FALSE]
    /\ attempts = [a \in Attempts |-> "free"]
    /\ rounds = [r \in Rounds |-> NoRound]
    /\ announced = [h \in Hosts |-> "unknown"]
    /\ admins = [a \in Admins |-> [pc |-> "idle", session |-> FALSE, lent |-> 0,
                                   lost |-> FALSE]]
    /\ sessions = {}
    /\ crashed = FALSE /\ faults = 0

Fault == faults < MaxFaults /\ faults' = faults + 1

-----------------------------------------------------------------------------
(* connect() of the servers *)

FreeSlot(h) == CHOOSE n \in Slots : attempts[<<h, n>>] = "free"

\* connect() of each of the servers hs: the promise there is, or a new attempt.
StartRound(kind, hs) ==
    LET fresh == {h \in hs : connecting[h] = 0}
        slot  == [h \in hs |-> IF h \in fresh THEN FreeSlot(h) ELSE connecting[h]]
    IN  /\ \A h \in fresh : \E n \in Slots : attempts[<<h, n>>] = "free"
        /\ connecting' = [h \in Hosts |-> IF h \in hs THEN slot[h] ELSE connecting[h]]
        /\ attempts' = [a \in Attempts |->
               IF a[1] \in fresh /\ a[2] = slot[a[1]] THEN "dialing" ELSE attempts[a]]
        /\ \E r \in Rounds :
               /\ rounds[r].kind = "none"
               /\ rounds' = [rounds EXCEPT ![r] =
                     [kind |-> kind, waits |-> {<<h, slot[h]>> : h \in hs}, joined |-> hs]]

\* _notifyClusterTopology, with the servers that are connected.
Topology(on) == [h \in Hosts |-> CASE h \notin listed -> "unknown"
                                   [] on[h]          -> "on"
                                   [] OTHER          -> "off"]

\* A promise that nobody can reach any more.
Dropped(a, conn, rnds) ==
    /\ attempts[a] = "failed"
    /\ conn[a[1]] # a[2]
    /\ \A r \in Rounds : a \notin rnds[r].waits

\* A mutant: connect() is not rejected when no server could be connected.
DecidedUnlessNone(on) == IF \E h \in listed : on[h] THEN "connected" ELSE "pending"

\* What becomes of connect() of the client: one server is enough.
Decided(on) == IF \E h \in listed : on[h] THEN "connected" ELSE "rejected"

Waiting(a) == {r \in Rounds : a \in rounds[r].waits}

\* The rounds that wait for attempt a, which leaves the servers' flags on and
\* conn, go on; those that have waited for nothing else come to their end.
RoundsGoOn(a, on, conn, at) ==
    LET done == {r \in Waiting(a) : rounds[r].waits = {a}}
        rnds == [r \in Rounds |-> CASE r \in done -> NoRound
                                    [] OTHER -> [rounds[r] EXCEPT !.waits = @ \ {a}]]
        Ended(kind) == \E r \in done : rounds[r].kind = kind
    IN  /\ rounds' = rnds
        /\ connected' = on
        /\ connecting' = conn
        /\ attempts' = [b \in Attempts |->
               CASE b = a                -> IF conn[a[1]] = a[2] THEN at ELSE "free"
                 [] Dropped(b, conn, rnds) -> "free"
                 [] OTHER                -> attempts[b]]
        /\ IF Ended("connect")
             THEN /\ listening' = {h \in listed : on[h]}
                  /\ client' = Decided(on)
             ELSE UNCHANGED <<listening, client>>
        /\ announced' = IF Ended("reconfigure") THEN Topology(on) ELSE announced
        /\ UNCHANGED listed

\* The network or the push network has a connection, the other not yet.
NetworkConnects(a) ==
    /\ attempts[a] = "dialing"
    /\ attempts' = [attempts EXCEPT ![a] = "half"]
    /\ pooled' = [pooled EXCEPT ![a[1]] = TRUE]
    /\ UNCHANGED <<clusterVars, connected, connecting, wired, adminVars, crashed, faults>>

\* A mutant: server.connecting keeps the promise that was fulfilled.
AttemptSucceedsKeeping(a) ==
    LET h == a[1]
    IN  /\ attempts[a] = "half"
        /\ wired' = [wired EXCEPT ![h] = TRUE]
        /\ RoundsGoOn(a, [connected EXCEPT ![h] = TRUE], connecting, "free")
        /\ UNCHANGED <<pooled, adminVars, crashed, faults>>

\* Both have a connection: connecting = null, whichever attempt it holds.
AttemptSucceeds(a) ==
    LET h == a[1]
    IN  /\ attempts[a] = "half"
        /\ wired' = [wired EXCEPT ![h] = TRUE]
        /\ RoundsGoOn(a, [connected EXCEPT ![h] = TRUE], [connecting EXCEPT ![h] = 0], "free")
        /\ UNCHANGED <<pooled, adminVars, crashed, faults>>

\* A mutant: no caller resets server.connecting.
ForgetsNothing(a) == FALSE

\* Of the callers, only _reconfigureServers resets server.connecting.
ForgetsRejected(a) == \E r \in Waiting(a) : rounds[r].kind = "reconfigure"

Rejected(a) ==
    LET h == a[1]
    IN  RoundsGoOn(a, [connected EXCEPT ![h] = FALSE],
                   IF ForgetsRejected(a) THEN [connecting EXCEPT ![h] = 0] ELSE connecting,
                   "failed")

\* One of the two fails; the network may yet have its connection.
AttemptFails(a) ==
    /\ attempts[a] \in {"dialing", "half"} /\ Fault
    /\ Rejected(a)
    /\ pooled' \in {pooled, [pooled EXCEPT ![a[1]] = TRUE]}
    /\ UNCHANGED <<wired, adminVars, crashed>>

\* connect() had returned a promise that was rejected long ago.
StaleRejection(a) ==
    /\ attempts[a] = "failed" /\ Waiting(a) # {}
    /\ Rejected(a)
    /\ UNCHANGED <<wired, pooled, adminVars, crashed, faults>>

-----------------------------------------------------------------------------
(* The cluster *)

\* OCluster.connect, once for a client.
ClusterConnects ==
    IF client = "no" THEN client' = "pending" /\ StartRound("connect", listed)
    ELSE UNCHANGED <<client, connecting, attempts, rounds>>

Connect ==
    /\ client = "no"
    /\ ClusterConnects
    /\ UNCHANGED <<listed, listening, announced, connected, wired, pooled, adminVars,
                   crashed, faults>>

\* _reconfigureServers, on a cluster-config of a server listened to: its new
\* servers are listed, and all that are not connected are connected.  (A server
\* connected n times emits the event several times over; the repetitions join
\* the same promises and change nothing.)
Reconfigure(h, addresses) ==
    LET all == listed \cup addresses
    IN  /\ h \in listening
        /\ listed' = all
        /\ StartRound("reconfigure", {s \in all : ~connected[s]})
        /\ UNCHANGED <<client, listening, announced, connected, wired, pooled, adminVars,
                       crashed, faults>>

\* There was no server to connect.
NothingToConnect(r) ==
    /\ rounds[r].kind # "none" /\ rounds[r].waits = {}
    /\ rounds' = [rounds EXCEPT ![r] = NoRound]
    /\ announced' = Topology(connected)
    /\ UNCHANGED <<client, listed, listening, serverVars, adminVars, crashed, faults>>

\* A mutant: the cluster does not listen to server-offline.
NetworkFailsUnheard(h) ==
    /\ pooled[h] /\ wired[h] /\ Fault
    /\ connected' = [connected EXCEPT ![h] = FALSE]
    /\ connecting' = [connecting EXCEPT ![h] = 0]
    /\ attempts' = [a \in Attempts |->
           IF Dropped(a, connecting', rounds) THEN "free" ELSE attempts[a]]
    /\ UNCHANGED <<client, listed, listening, rounds, announced, wired, pooled, adminVars,
                   crashed>>

\* A pooled connection raises an error, and the server is offline: until then
\* and from then on server.connecting is null, also when an attempt is pending.
NetworkFails(h) ==
    /\ pooled[h] /\ wired[h] /\ Fault
    /\ connected' = [connected EXCEPT ![h] = FALSE]
    /\ connecting' = [connecting EXCEPT ![h] = 0]
    /\ attempts' = [a \in Attempts |->
           IF Dropped(a, connecting', rounds) THEN "free" ELSE attempts[a]]
    /\ announced' = IF h \in listening THEN Topology(connected') ELSE announced
    /\ UNCHANGED <<client, listed, listening, rounds, wired, pooled, adminVars, crashed>>

\* An error of either network before the server has set up its listeners.
NetworkFailsUncaught(h) ==
    /\ pooled[h] /\ ~wired[h] /\ Fault
    /\ crashed' = TRUE
    /\ UNCHANGED <<clusterVars, serverVars, adminVars>>

-----------------------------------------------------------------------------
(* _runAsAdmin *)

AdminAt(a, pc) == admins' = [admins EXCEPT ![a].pc = pc]

AdminStart(a) ==
    /\ admins[a].pc = "idle"
    /\ AdminAt(a, "client")
    /\ ClusterConnects
    /\ UNCHANGED <<listed, listening, announced, connected, wired, pooled, sessions,
                   crashed, faults>>

\* acquireFrom(): a connection of a connected server.
AdminAcquire(a) ==
    /\ admins[a].pc = "client" /\ client = "connected"
    /\ \E h \in listed : connected[h]
    /\ admins' = [admins EXCEPT ![a].pc = "login", ![a].lent = @ + 1]
    /\ UNCHANGED <<clusterVars, serverVars, sessions, crashed, faults>>

\* No client, no server, no connection: nobody handles it.
AdminNoConnection(a) ==
    /\ admins[a].pc = "client"
    /\ \/ client = "rejected" /\ UNCHANGED faults
       \/ client = "connected" /\ (\A h \in listed : ~connected[h]) /\ UNCHANGED faults
       \/ client = "connected" /\ Fault
    /\ AdminAt(a, "stranded")
    /\ UNCHANGED <<clusterVars, serverVars, sessions, crashed>>

AdminLogin(a) ==
    /\ admins[a].pc = "login"
    /\ admins' = [admins EXCEPT ![a].pc = "work", ![a].session = TRUE]
    /\ sessions' = sessions \cup {a}
    /\ UNCHANGED <<clusterVars, serverVars, crashed, faults>>

AdminWork(a) ==
    /\ admins[a].pc = "work"
    /\ AdminAt(a, "logout")
    /\ UNCHANGED <<clusterVars, serverVars, sessions, crashed, faults>>

AdminLogout(a) ==
    /\ admins[a].pc = "logout"
    /\ AdminAt(a, "release")
    /\ sessions' = sessions \ {a}
    /\ UNCHANGED <<clusterVars, serverVars, crashed, faults>>

AdminRelease(a) ==
    /\ admins[a].pc = "release"
    /\ admins' = [admins EXCEPT ![a].pc = "resolved", ![a].lent = @ - 1]
    /\ UNCHANGED <<clusterVars, serverVars, sessions, crashed, faults>>

\* A request is refused or its connection breaks, maybe after it was executed.
AdminFails(a) ==
    /\ admins[a].pc \in {"login", "work", "logout"} /\ Fault
    /\ \/ /\ admins' = [admins EXCEPT ![a].pc = "failing"]
          /\ UNCHANGED sessions
       \/ /\ admins[a].pc = "login"
          /\ admins' = [admins EXCEPT ![a].pc = "failing", ![a].lost = TRUE]
          /\ sessions' = sessions \cup {a}
    /\ UNCHANGED <<clusterVars, serverVars, crashed>>

\* A mutant: the session is not closed.
AdminCleanUpOpen(a) ==
    /\ admins[a].pc = "failing"
    /\ admins' = [admins EXCEPT ![a].pc = "rejected", ![a].lent = @ - 1]
    /\ UNCHANGED <<sessions, faults, clusterVars, serverVars, crashed>>

\* The catch: db-close when there is a session, and the connection goes back;
\* whether or not these succeed, the call is rejected.
AdminCleanUp(a) ==
    /\ admins[a].pc = "failing"
    /\ \/ /\ admins' = [admins EXCEPT ![a].pc = "rejected", ![a].lent = @ - 1]
          /\ sessions' = IF admins[a].session THEN sessions \ {a} ELSE sessions
          /\ UNCHANGED faults
       \/ /\ admins[a].session /\ Fault
          /\ admins' = [admins EXCEPT ![a].pc = "rejected", ![a].lent = @ - 1,
                                      ![a].lost = TRUE]
          /\ UNCHANGED sessions
    /\ UNCHANGED <<clusterVars, serverVars, crashed>>

-----------------------------------------------------------------------------

AttemptStep(a) == NetworkConnects(a) \/ AttemptSucceeds(a) \/ AttemptFails(a) \/ StaleRejection(a)
AdminStep(a) ==
    \/ AdminAcquire(a) \/ AdminNoConnection(a) \/ AdminLogin(a) \/ AdminWork(a)
    \/ AdminLogout(a) \/ AdminRelease(a) \/ AdminFails(a) \/ AdminCleanUp(a)

Announcing == \E h \in Hosts, addresses \in SUBSET Hosts : ~crashed /\ Reconfigure(h, addresses)

Running ==
    \/ Connect
    \/ \E a \in Attempts : AttemptStep(a)
    \/ \E r \in Rounds : NothingToConnect(r)
    \/ \E h \in Hosts : NetworkFails(h) \/ NetworkFailsUncaught(h)
    \/ \E a \in Admins : AdminStart(a) \/ AdminStep(a)

Next == Announcing \/ (~crashed /\ Running)

Spec == Init /\ [][Next]_vars

\* The network answers and callbacks run.
FairSpec ==
    /\ Spec
    /\ \A a \in Attempts : WF_vars(~crashed /\ AttemptStep(a))
    /\ \A r \in Rounds : WF_vars(~crashed /\ NothingToConnect(r))
    /\ \A a \in Admins : WF_vars(~crashed /\ AdminStep(a))

-----------------------------------------------------------------------------
(* Properties *)

\* Types; a server waited for is one that is listed.
TypeOK ==
    /\ client \in {"no", "pending", "connected", "rejected"}
    /\ listed \subseteq Hosts /\ listening \subseteq listed
    /\ connected \in [Hosts -> BOOLEAN] /\ wired \in [Hosts -> BOOLEAN]
    /\ pooled \in [Hosts -> BOOLEAN] /\ connecting \in [Hosts -> 0..2]
    /\ attempts \in [Attempts -> {"free", "dialing", "half", "failed"}]
    /\ rounds \in [Rounds -> Round]
    /\ announced \in [Hosts -> {"unknown", "on", "off"}]
    /\ admins \in [Admins -> Admin] /\ sessions \subseteq Admins
    /\ crashed \in BOOLEAN /\ faults \in 0..MaxFaults
    /\ \A r \in Rounds : rounds[r].joined \subseteq listed

\* Everything that waits for a server is told: a promise somebody waits for is
\* pending or rejected, never one that has been let go (also when an error of the
\* server has made it forget the promise).
NobodyForgotten ==
    \A a \in Attempts : /\ Waiting(a) # {} => attempts[a] # "free"
                        /\ attempts[a] \in {"dialing", "half"} => Waiting(a) # {}
                        /\ connecting[a[1]] = a[2] => attempts[a] # "free"

\* The application is told of a server going offline ("cluster-topology"), if the
\* cluster listens to it: what it believes connected is, or a round that will
\* announce it is under way.
OfflineIsAnnounced ==
    \A h \in listening : announced[h] = "on" /\ ~connected[h] =>
        \E r \in Rounds : rounds[r].kind = "reconfigure" /\ h \in rounds[r].joined

\* A server that was lost or is new comes back: as long as changes of the cluster
\* are announced, every server of the cluster is connected in the end, although a
\* failed connect() leaves a rejected promise behind and errors forget pending ones.
EventuallyOnline == ([]<><<Announcing>>_vars) => <>[](\A h \in listed : connected[h])

\* _runAsAdmin gives its connection back once, and closes its session, whatever
\* fails on the way (unless the server opened it and the reply was lost, or the
\* db-close is lost too).
AdminCleansUp ==
    \A a \in Admins :
        /\ admins[a].lent = IF admins[a].pc \in {"login", "work", "logout", "release",
                                                 "failing"} THEN 1 ELSE 0
        /\ admins[a].pc \in {"resolved", "rejected"} /\ a \in sessions => admins[a].lost

\* Every call of the client is decided: connect() settles, and an administrative
\* call does, or is one whose connection could not be acquired.
EventuallyDecided ==
    /\ client = "pending" ~> client # "pending" \/ crashed
    /\ \A a \in Admins : admins[a].pc # "idle" ~>
          admins[a].pc \in {"resolved", "rejected", "stranded"} \/ crashed
================================================================================
