-------------------------------- MODULE Pool --------------------------------
(***************************************************************************)
(* The pools of client/pool/index.js: the deprecated Pool of databases and *)
(* BasePool, the pool of connections (network/pool.js) and of sessions     *)
(* (database/database-pool.js), which is a generic-pool with a handler for *)
(* failed creations.  A program has the one or the other, kind says which; *)
(* what they promise to those who acquire is the same.                     *)
(*                                                                         *)
(* The callers are trusted: what is acquired is released once, and close() *)
(* is called again only when it has failed.  Handlers of promises that are *)
(* already settled are part of the step that settles them.                 *)
(***************************************************************************)
EXTENDS Integers, Sequences

CONSTANTS
    Clients,      \* who acquires
    MaxSize,      \* config.max
    MinSize       \* config.min

ASSUME PoolAssumption ==
    /\ MaxSize \in Nat \ {0}
    /\ MinSize \in 0..MaxSize

VARIABLES
    kind,         \* "Pool" or "BasePool"
    made,         \* 1..made exist: this.count; of generic-pool, its objects
    creating,     \* creations of generic-pool that are pending
    session,      \* of each database: does it have one, or is it opening
    available,    \* availableDBs; of generic-pool, the objects not on loan
    waiting,      \* the requests that wait, by who made them
    pc,           \* what a client is at
    holds,        \* what it has, or opens, or is about to be given; 0: nothing
    closer,       \* "no", "draining", "clearing", "closed" or "failed"
    reachable     \* the server can be reached

vars == <<kind, made, creating, session, available, waiting, pc, holds, closer, reachable>>

Resources == 1..MaxSize
Elements(s) == {s[i] : i \in 1..Len(s)}

TypeOK ==
    /\ kind \in {"Pool", "BasePool"}
    /\ made \in 0..MaxSize /\ creating \in 0..MaxSize
    /\ session \in [Resources -> {"none", "opening", "open", "rejected"}]
    /\ available \in Seq(Resources)
    /\ waiting \in Seq(Clients)
    /\ pc \in [Clients -> {"idle", "opening", "waiting", "handed", "using"}]
    /\ holds \in [Clients -> 0..MaxSize]
    /\ closer \in {"no", "draining", "clearing", "closed", "failed"}
    /\ reachable \in BOOLEAN

\* A generic-pool starts with the least it may have.
Init ==
    /\ kind \in {"Pool", "BasePool"}
    /\ made = 0
    /\ creating = IF kind = "BasePool" THEN MinSize ELSE 0
    /\ session = [r \in Resources |-> "none"]
    /\ available = <<>> /\ waiting = <<>>
    /\ pc = [c \in Clients |-> "idle"]
    /\ holds = [c \in Clients |-> 0]
    /\ closer = "no"
    /\ reachable \in BOOLEAN

-----------------------------------------------------------------------------
(* The deprecated Pool *)

\* db.open(): of a database with a session, that database; else db-open.
Opens(c, r) ==
    /\ holds' = [holds EXCEPT ![c] = r]
    /\ pc' = [pc EXCEPT ![c] = IF session[r] = "open" THEN "using" ELSE "opening"]
    /\ session' = [session EXCEPT ![r] = IF @ = "none" THEN "opening" ELSE @]

AcquireAvailable(c) ==
    /\ kind = "Pool" /\ closer = "no" /\ pc[c] = "idle"
    /\ available # <<>>
    /\ available' = Tail(available)
    /\ Opens(c, Head(available))
    /\ UNCHANGED <<kind, made, creating, waiting, closer, reachable>>

AcquireNew(c) ==
    /\ kind = "Pool" /\ closer = "no" /\ pc[c] = "idle"
    /\ available = <<>> /\ made < MaxSize
    /\ made' = made + 1
    /\ Opens(c, made + 1)
    /\ UNCHANGED <<kind, creating, available, waiting, closer, reachable>>

AcquireWaits(c) ==
    /\ kind = "Pool" /\ closer = "no" /\ pc[c] = "idle"
    /\ available = <<>> /\ made >= MaxSize
    /\ waiting' = Append(waiting, c)
    /\ pc' = [pc EXCEPT ![c] = "waiting"]
    /\ UNCHANGED <<kind, made, creating, session, available, holds, closer, reachable>>

OpenReply(c) ==
    /\ kind = "Pool" /\ pc[c] = "opening" /\ reachable
    /\ session' = [session EXCEPT ![holds[c]] = "open"]
    /\ pc' = [pc EXCEPT ![c] = "using"]
    /\ UNCHANGED <<kind, made, creating, available, waiting, holds, closer, reachable>>

\* Nobody takes the database back, and count stays as it is; opening is
\* never reset.
OpenFails(c) ==
    /\ kind = "Pool" /\ pc[c] = "opening"
    /\ session' = [session EXCEPT ![holds[c]] = "rejected"]
    /\ pc' = [pc EXCEPT ![c] = "idle"]
    /\ holds' = [holds EXCEPT ![c] = 0]
    /\ UNCHANGED <<kind, made, creating, available, waiting, closer, reachable>>

\* A mutant: what is released is available, whoever waits.
ReleaseToAll(c) ==
    /\ kind = "Pool" /\ pc[c] = "using"
    /\ available' = Append(available, holds[c])
    /\ pc' = [pc EXCEPT ![c] = "idle"] /\ holds' = [holds EXCEPT ![c] = 0]
    /\ UNCHANGED <<kind, made, creating, session, waiting, closer, reachable>>

\* A mutant: a database that is handed over becomes available as well.
ReleaseToBoth(c) ==
    /\ kind = "Pool" /\ pc[c] = "using"
    /\ available' = Append(available, holds[c])
    /\ IF waiting = <<>>
         THEN /\ pc' = [pc EXCEPT ![c] = "idle"] /\ holds' = [holds EXCEPT ![c] = 0]
              /\ UNCHANGED waiting
         ELSE /\ waiting' = Tail(waiting)
              /\ pc' = [pc EXCEPT ![c] = "idle", ![Head(waiting)] = "handed"]
              /\ holds' = [holds EXCEPT ![c] = 0, ![Head(waiting)] = holds[c]]
    /\ UNCHANGED <<kind, made, creating, session, closer, reachable>>

\* release(db), or db.close(): to the first that waits, on the next tick, and
\* as it is: it may have lost its session.
Release(c) ==
    /\ kind = "Pool" /\ pc[c] = "using"
    /\ IF waiting = <<>>
         THEN /\ available' = Append(available, holds[c])
              /\ pc' = [pc EXCEPT ![c] = "idle"]
              /\ holds' = [holds EXCEPT ![c] = 0]
              /\ UNCHANGED waiting
         ELSE /\ waiting' = Tail(waiting)
              /\ pc' = [pc EXCEPT ![c] = "idle", ![Head(waiting)] = "handed"]
              /\ holds' = [holds EXCEPT ![c] = 0, ![Head(waiting)] = holds[c]]
              /\ UNCHANGED available
    /\ UNCHANGED <<kind, made, creating, session, closer, reachable>>

NextTick(c) ==
    /\ pc[c] = "handed"
    /\ pc' = [pc EXCEPT ![c] = "using"]
    /\ UNCHANGED <<kind, made, creating, session, available, waiting, holds, closer, reachable>>

\* _checkWaiting: timers run when no tick is due.  The timer of a request
\* that has been served is cleared with it.
Timeout(c) ==
    /\ kind = "Pool" /\ \A d \in Clients : pc[d] # "handed"
    /\ \E i \in 1..Len(waiting) :
          /\ waiting[i] = c
          /\ waiting' = SubSeq(waiting, 1, i - 1) \o SubSeq(waiting, i + 1, Len(waiting))
    /\ pc' = [pc EXCEPT ![c] = "idle"]
    /\ UNCHANGED <<kind, made, creating, session, available, holds, closer, reachable>>

\* The transport of a database is reset: the session is gone, whoever has it.
Reset(r) ==
    /\ kind = "Pool" /\ session[r] = "open"
    /\ session' = [session EXCEPT ![r] = "none"]
    /\ UNCHANGED <<kind, made, creating, available, waiting, pc, holds, closer, reachable>>

Close ==
    /\ kind = "Pool" /\ closer \in {"no", "failed"}
    /\ closer' = "draining"
    /\ UNCHANGED <<kind, made, creating, session, available, waiting, pc, holds, reachable>>

\* A mutant: the databases that wait on their tick are taken for returned.
DrainPoolIdle ==
    /\ kind = "Pool" /\ closer = "draining"
    /\ \A c \in Clients : pc[c] \notin {"using", "opening"}
    /\ closer' = "clearing"
    /\ UNCHANGED <<kind, made, creating, session, available, waiting, pc, holds, reachable>>

\* _drainPool, every 100 ms until all are back: close(true) of each.
DrainPool ==
    /\ kind = "Pool" /\ closer = "draining"
    /\ made = Len(available)
    /\ closer' = "clearing"
    /\ UNCHANGED <<kind, made, creating, session, available, waiting, pc, holds, reachable>>

DrainPoolReply ==
    /\ kind = "Pool" /\ closer = "clearing"
    /\ made' = 0 /\ available' = <<>>
    /\ session' = [r \in Resources |-> "none"]
    /\ closer' = "closed"
    /\ UNCHANGED <<kind, creating, waiting, pc, holds, reachable>>

\* Some of the sessions are closed, others are not; count stays.
DrainPoolFails ==
    /\ kind = "Pool" /\ closer = "clearing"
    /\ \E lost \in SUBSET Elements(available) :
          session' = [r \in Resources |-> IF r \in lost THEN "none" ELSE session[r]]
    /\ closer' = "failed"
    /\ UNCHANGED <<kind, made, creating, available, waiting, pc, holds, reachable>>

-----------------------------------------------------------------------------
(* BasePool, on generic-pool *)

Least(a, b) == IF a < b THEN a ELSE b

\* _dispense() of generic-pool: a creation for each request that neither an
\* object nor a pending creation can serve, as long as there is room, and
\* what is available to those who have waited longest.
\* Those in out are rejected, or have given back what they had.
Dispense(objects, pending, free, queue, out) ==
    LET served  == Least(Len(free), Len(queue))
        short   == Len(queue) - Least(Len(queue), Len(free) + pending)
        Turn(c) == {i \in 1..served : queue[i] = c}
    IN  /\ made' = objects
        /\ creating' = pending + Least(short, MaxSize - (objects + pending))
        /\ available' = SubSeq(free, served + 1, Len(free))
        /\ waiting' = SubSeq(queue, served + 1, Len(queue))
        /\ pc' = [c \in Clients |-> IF Turn(c) # {} THEN "using"
                                     ELSE IF c \in out THEN "idle"
                                     ELSE IF c \in Elements(queue) THEN "waiting"
                                     ELSE pc[c]]
        /\ holds' = [c \in Clients |-> IF Turn(c) # {} THEN free[CHOOSE i \in Turn(c) : TRUE]
                                        ELSE IF c \in out THEN 0
                                        ELSE holds[c]]
        /\ UNCHANGED <<kind, session, closer, reachable>>

Acquire(c) ==
    /\ kind = "BasePool" /\ closer = "no" /\ pc[c] = "idle"
    /\ Dispense(made, creating, available, Append(waiting, c), {})

\* create() of the factory: a connection, or a session.
Created ==
    /\ kind = "BasePool" /\ creating > 0 /\ reachable
    /\ Dispense(made + 1, creating - 1, Append(available, made + 1), waiting, {})

\* A mutant: the handler of factoryCreateError rejects nobody.
CreateFailsUnseen ==
    /\ kind = "BasePool" /\ creating > 0
    /\ Dispense(made, creating - 1, available, waiting, {})

\* The handler of factoryCreateError rejects the first request that waits.
\* Without it generic-pool would try again for ever.
CreateFails ==
    /\ kind = "BasePool" /\ creating > 0
    /\ IF waiting = <<>>
         THEN Dispense(made, creating - 1, available, <<>>, {})
         ELSE Dispense(made, creating - 1, available, Tail(waiting), {Head(waiting)})

GiveBack(c) ==
    /\ kind = "BasePool" /\ pc[c] = "using"
    /\ Dispense(made, creating, Append(available, holds[c]), waiting, {c})

\* close(): drain() refuses new requests and waits for those there are.
Drain ==
    /\ kind = "BasePool" /\ closer = "no"
    /\ closer' = "draining"
    /\ UNCHANGED <<kind, made, creating, session, available, waiting, pc, holds, reachable>>

Drained ==
    /\ kind = "BasePool" /\ closer = "draining"
    /\ \A c \in Clients : pc[c] = "idle"
    /\ closer' = "clearing"
    /\ UNCHANGED <<kind, made, creating, session, available, waiting, pc, holds, reachable>>

\* clear(): when nothing is being created any more, all are destroyed.
Clear ==
    /\ kind = "BasePool" /\ closer = "clearing" /\ creating = 0
    /\ made' = 0 /\ available' = <<>>
    /\ closer' = "closed"
    /\ UNCHANGED <<kind, creating, session, waiting, pc, holds, reachable>>

-----------------------------------------------------------------------------
PoolNext ==
    \/ \E c \in Clients : AcquireAvailable(c)
    \/ \E c \in Clients : AcquireNew(c)
    \/ \E c \in Clients : AcquireWaits(c)
    \/ \E c \in Clients : OpenReply(c)
    \/ \E c \in Clients : OpenFails(c)
    \/ \E c \in Clients : Release(c)
    \/ \E c \in Clients : NextTick(c)
    \/ \E c \in Clients : Timeout(c)
    \/ \E r \in Resources : Reset(r)
    \/ Close
    \/ DrainPool
    \/ DrainPoolReply
    \/ DrainPoolFails

BasePoolNext ==
    \/ \E c \in Clients : Acquire(c)
    \/ Created
    \/ CreateFails
    \/ \E c \in Clients : GiveBack(c)
    \/ Drain
    \/ Drained
    \/ Clear

\* The server comes and goes.
ServerChanges ==
    /\ reachable' = ~reachable
    /\ UNCHANGED <<kind, made, creating, session, available, waiting, pc, holds, closer>>

Next == PoolNext \/ BasePoolNext \/ ServerChanges

\* The server answers, timers run, and who has acquired releases.
Fairness ==
    /\ \A c \in Clients :
          /\ WF_vars(OpenReply(c) \/ OpenFails(c))
          /\ WF_vars(Release(c)) /\ WF_vars(GiveBack(c))
          /\ WF_vars(NextTick(c)) /\ WF_vars(Timeout(c))
    /\ WF_vars(Created \/ CreateFails)
    /\ WF_vars(DrainPool) /\ WF_vars(DrainPoolReply \/ DrainPoolFails)
    /\ WF_vars(Drained) /\ WF_vars(Clear)

Spec == Init /\ [][Next]_vars /\ Fairness

-----------------------------------------------------------------------------
(* Properties *)

Free == Elements(available)
Held == {holds[c] : c \in Clients} \ {0}
\* What the deprecated Pool counts and nobody has.
Lost == (1..made) \ (Free \cup Held)

\* Nothing is lent twice, or lent and available at once, over any sequence of
\* acquire, release, timeout and failure; there are never more than max.
LentOnce ==
    /\ made + creating <= MaxSize
    /\ Free \cup Held \subseteq 1..made
    /\ Free \cap Held = {}
    /\ \A i, j \in 1..Len(available) : available[i] = available[j] => i = j
    /\ \A c, d \in Clients : holds[c] = holds[d] /\ holds[c] # 0 => c = d

\* Who waits has something to wait for: nothing is available, and either all
\* there may be are made or a creation is pending for each that waits, however
\* many creations have failed (index.js:24).
WaitsForSomething ==
    waiting # <<>> =>
        /\ available = <<>>
        /\ made + creating = MaxSize \/ creating >= Len(waiting)

\* close() resolves when nobody has, opens, awaits or is about to be given
\* anything.
ClosedWhenIdle ==
    closer \in {"clearing", "closed"} =>
        \A c \in Clients : pc[c] = "idle" /\ holds[c] = 0

\* Every request is settled: it is served, or it times out, or the creation
\* that was to serve it, or one before it, fails.  And close() comes to an end,
\* unless the pool has lost a database, which only a failed open() of the
\* deprecated Pool does (index.js:149): then it waits for ever.
EventuallyDone ==
    /\ \A c \in Clients : pc[c] \in {"waiting", "opening", "handed"} ~> pc[c] \in {"using", "idle"}
    /\ closer = "draining" ~>
          \/ closer \in {"closed", "failed"}
          \/ kind = "Pool" /\ \E r \in Lost : session[r] = "rejected"
=============================================================================
