-------------------------- MODULE DatabaseTransaction --------------------------
(***************************************************************************)
(* The transactions of one database session: ODatabaseTransaction          *)
(* (client/database/database-tx.js, over db/transaction.js) and begin,     *)
(* execStream, _retry and runInTransaction of ODatabaseSession             *)
(* (client/database/database.js).                                          *)
(*                                                                         *)
(* Every request of a session travels on a pooled connection of its own,   *)
(* so two requests that are not awaited one after the other reach the      *)
(* server in any order.  A call is one promise chain: the flush of the     *)
(* records kept by the transaction, if one is due, and then its operation. *)
(* The server is external: it keeps the transactions it was told to begin, *)
(* and it may refuse any request.                                          *)
(***************************************************************************)
EXTENDS Integers, FiniteSets

CONSTANTS
    Units,        \* uses of runInTransaction on the session
    Manual,       \* uses of begin() with commit() or rollback()
    NoTask,       \* the owner of no call
    Calls,        \* promise chains that may be pending at once
    Writes,       \* records to create or to update
    Deletes,      \* records to delete
    Times,        \* the retries runInTransaction is given, 10 by default
    MaxTx,        \* bound on the transactions the session begins
    MaxExecs,     \* bound on the commands executed in transactions
    MaxFailures   \* bound on the requests the server refuses

ASSUME TransactionAssumption ==
    /\ Units \cap Manual = {}
    /\ NoTask \notin Units \cup Manual
    /\ Writes \cap Deletes = {}
    /\ Times \in Nat \ {0}
    /\ MaxTx \in Nat
    /\ MaxExecs \in Nat
    /\ MaxFailures \in Nat

VARIABLES
    currentTx,    \* session.currentTx: the id of the transaction, 0 for none
    transactionId,\* session.transactionId
    begun,        \* tx.begin of each transaction object
    kept,         \* tx._creates and tx._updates
    deletes,      \* tx._deletes
    final,        \* tx._finalCreated, _finalUpdated and _finalDeleted
    tasks,        \* the uses of the session, see Task
    calls,        \* the promise chains, see Call
    server,       \* the transactions on the server, see Server
    execs, failures,
    added,        \* history: the records given to each transaction
    disturbed     \* history: the transactions whose calls were not awaited

clientVars == <<currentTx, transactionId, begun, kept, deletes, final>>
vars == <<clientVars, tasks, calls, server, execs, failures, added, disturbed>>

Tasks   == Units \cup Manual
Records == Writes \cup Deletes
TxIds   == 1..MaxTx
Flushes == {"tx-begin", "record-batch"}
Ops     == {"query", "tx-commit", "tx-rollback"}
Refusals == {"mvcc", "error"}

Task == [pc : {"idle", "work", "ending", "retry", "resolved", "rejected"},
         tx : 0..MaxTx, times : Nat, failure : {"none"} \cup Refusals]
\* at: waiting for cluster.list(), for a connection, for the server; the reply
\* live: the captured array is still the one tx._creates holds, else frozen holds it
Call == [at : {"unused", "list", "acquire", "wire", "ok"} \cup Refusals,
         msg : Flushes \cup Ops, op : Ops, tx : 0..MaxTx, task : Tasks \cup {NoTask},
         live : BOOLEAN, frozen : SUBSET Writes, batch : SUBSET Records,
         seen : SUBSET Records]
Server == [open : SUBSET TxIds, ended : SUBSET TxIds, committed : SUBSET TxIds,
           applied : [TxIds -> [Records -> Nat]]]

Pending(t)  == {c \in Calls : calls[c].at # "unused" /\ calls[c].tx = t}
Settled(k)  == tasks[k].pc \in {"resolved", "rejected"}
Applied(t)  == {r \in Records : server.applied[t][r] > 0}

NoCall == [at |-> "unused", msg |-> "query", op |-> "query", tx |-> 0, task |-> NoTask,
           live |-> FALSE, frozen |-> {}, batch |-> {}, seen |-> {}]

Init ==
    /\ currentTx = 0 /\ transactionId = 0
    /\ begun = [t \in TxIds |-> FALSE]
    /\ kept = [t \in TxIds |-> {}]
    /\ deletes = [t \in TxIds |-> {}]
    /\ final = [t \in TxIds |-> {}]
    /\ tasks = [k \in Tasks |-> [pc |-> "idle", tx |-> 0, times |-> Times,
                                 failure |-> "none"]]
    /\ calls = [c \in Calls |-> NoCall]
    /\ server = [open |-> {}, ended |-> {}, committed |-> {},
                 applied |-> [t \in TxIds |-> [r \in Records |-> 0]]]
    /\ execs = 0 /\ failures = 0
    /\ added = [t \in TxIds |-> {}]
    /\ disturbed = {}

-----------------------------------------------------------------------------
(* The calls *)

\* What _flush() sends first, if anything.
Flush(t) ==
    CASE ~begun[t]                              -> "tx-begin"
      [] begun[t] /\ kept[t] \cup deletes[t] # {} -> "record-batch"
      [] OTHER                                  -> "none"

\* MUTANT: a command does not flush the transaction first.
NewCallUnflushed(k, op, t) ==
    LET flush == IF t = 0 \/ op # "tx-commit" THEN "none" ELSE Flush(t)
    IN  [NoCall EXCEPT !.at   = IF flush = "none" THEN "acquire" ELSE "list",
                       !.msg  = IF flush = "none" THEN op ELSE flush,
                       !.op   = op, !.tx = t, !.task = k,
                       !.seen = IF t = 0 THEN {} ELSE added[t]]

NewCall(k, op, t) ==
    LET flush == IF t = 0 \/ op = "tx-rollback" THEN "none" ELSE Flush(t)
    IN  [NoCall EXCEPT !.at   = IF flush = "none" THEN "acquire" ELSE "list",
                       !.msg  = IF flush = "none" THEN op ELSE flush,
                       !.op   = op, !.tx = t, !.task = k,
                       !.seen = IF t = 0 THEN {} ELSE added[t]]

\* History: a call made, or a record added, before the last call has settled,
\* or by a task the transaction is not of.
Use(t, own) == disturbed' = disturbed \cup
                  (IF t # 0 /\ (Pending(t) # {} \/ t # own) THEN {t} ELSE {})

StartCall(c, k, op, t, own) ==
    /\ calls[c].at = "unused"
    /\ calls' = [calls EXCEPT ![c] = NewCall(k, op, t)]
    /\ Use(t, own)

\* _prepare().spread: the arrays are captured, by reference.
Capture(c) ==
    /\ calls[c].at = "list"
    /\ calls' = [calls EXCEPT ![c] = [@ EXCEPT !.at = "acquire", !.live = TRUE]]
    /\ UNCHANGED <<clientVars, tasks, server, execs, failures, added, disturbed>>

Captured(c) == IF calls[c].live THEN kept[calls[c].tx] ELSE calls[c].frozen

\* send has a connection: the writer reads the captured arrays.
Write(c) ==
    LET t == calls[c].tx
    IN  /\ calls[c].at = "acquire"
        /\ calls' = [calls EXCEPT ![c].at = "wire",
                         ![c].batch = IF calls[c].msg \in Flushes
                                      THEN deletes[t] \cup Captured(c) ELSE {}]
        /\ UNCHANGED <<clientVars, tasks, server, execs, failures, added, disturbed>>

-----------------------------------------------------------------------------
(* The server *)

\* It has what the request needs: a transaction is begun once, and continued
\* or committed only while it is open.
Accepts(msg, t) ==
    CASE msg = "tx-begin"                      -> t \notin server.open
      [] msg \in {"record-batch", "tx-commit"} -> t \in server.open
      [] OTHER                                 -> TRUE

Serve(c) ==
    LET msg == calls[c].msg
        t   == calls[c].tx
    IN  /\ calls[c].at = "wire"
        /\ Accepts(msg, t)
        /\ calls' = [calls EXCEPT ![c].at = "ok", ![c].batch = {}]
        /\ server' =
             [open |-> CASE msg = "tx-begin" -> server.open \cup {t}
                         [] msg \in {"tx-commit", "tx-rollback"} -> server.open \ {t}
                         [] OTHER -> server.open,
              ended |-> IF msg \in {"tx-commit", "tx-rollback"}
                          THEN server.ended \cup ({t} \cap server.open) ELSE server.ended,
              committed |-> IF msg = "tx-commit" THEN server.committed \cup {t}
                            ELSE server.committed,
              applied |-> [u \in TxIds |-> [r \in Records |->
                             server.applied[u][r] +
                               (IF u = t /\ r \in calls[c].batch THEN 1 ELSE 0)]]]
        /\ UNCHANGED <<clientVars, tasks, execs, failures, added, disturbed>>

\* A refused commit ends the transaction; nothing of a refused batch is applied.
Refuse(c, e) ==
    /\ calls[c].at = "wire"
    /\ IF Accepts(calls[c].msg, calls[c].tx)
          THEN failures < MaxFailures /\ failures' = failures + 1
          ELSE e = "error" /\ UNCHANGED failures
    /\ calls' = [calls EXCEPT ![c].at = e, ![c].batch = {}]
    /\ server' = IF calls[c].msg = "tx-commit" /\ calls[c].tx \in server.open
                    THEN [server EXCEPT !.open = @ \ {calls[c].tx},
                                        !.ended = @ \cup {calls[c].tx}]
                    ELSE server
    /\ UNCHANGED <<clientVars, tasks, execs, added, disturbed>>

-----------------------------------------------------------------------------
(* The replies *)

\* MUTANT: the deletes of a flush are not kept for the result.
RecordedWritesOnly(c) == Captured(c)

\* The captured records, pushed to the final lists.
Recorded(c) == Captured(c) \cup deletes[calls[c].tx]

\* A flush was applied: tx._creates and tx._updates become new arrays (the
\* other calls keep the old ones), this.deletes is set and tx._deletes is not,
\* and the captured records join the final ones.  The call goes on.
FlushReply(c) ==
    LET t == calls[c].tx
        KeepsOld(d) == calls[d].at # "unused" /\ calls[d].tx = t /\ calls[d].live
    IN  /\ calls[c].at = "ok" /\ calls[c].msg \in Flushes
        /\ begun' = [begun EXCEPT ![t] = @ \/ calls[c].msg = "tx-begin"]
        /\ kept' = [kept EXCEPT ![t] = {}]
        /\ deletes' = deletes
        /\ final' = [final EXCEPT ![t] = @ \cup Recorded(c)]
        /\ calls' = [d \in Calls |->
               IF d = c
                 THEN [calls[c] EXCEPT !.at = "acquire", !.msg = calls[c].op,
                                       !.live = FALSE, !.frozen = {}]
               ELSE IF KeepsOld(d)
                 THEN [calls[d] EXCEPT !.live = FALSE, !.frozen = kept[t]]
               ELSE calls[d]]
        /\ UNCHANGED <<currentTx, transactionId, tasks, server, execs, failures,
                       added, disturbed>>

\* The command's stream ends.
QueryReply(c) ==
    /\ calls[c].at = "ok" /\ calls[c].msg = "query"
    /\ calls' = [calls EXCEPT ![c] = NoCall]
    /\ UNCHANGED <<clientVars, tasks, server, execs, failures, added, disturbed>>

\* History: the current transaction is forgotten by the end of another one.
Forgets(t) == disturbed' = disturbed \cup ({currentTx} \ {0, t})

\* commit() or rollback() succeeded: session.currentTx = null, whichever it is.
EndReply(c) ==
    LET k == calls[c].task
    IN  /\ calls[c].at = "ok" /\ calls[c].msg \in {"tx-commit", "tx-rollback"}
        /\ currentTx' = 0
        /\ calls' = [calls EXCEPT ![c] = NoCall]
        /\ tasks' = [tasks EXCEPT ![k].pc = IF @ = "ending" THEN "resolved" ELSE @]
        /\ Forgets(calls[c].tx)
        /\ UNCHANGED <<transactionId, begun, kept, deletes, final, server, execs,
                       failures, added>>

\* MUTANT: an error that is not a conflict resolves the caller's promise.
FailedSilently(k, e) ==
    /\ currentTx' = 0
    /\ tasks' = [tasks EXCEPT ![k].pc = IF e = "mvcc" THEN "retry" ELSE "resolved"]

\* MUTANT: an error that is not a conflict is dropped.
FailedUnsettled(k, e) ==
    /\ currentTx' = 0
    /\ tasks' = [tasks EXCEPT ![k].pc = IF e = "mvcc" THEN "retry" ELSE @]

\* The handler of a failed unit of work: session.currentTx = null, and _retry.
Failed(k, e) ==
    /\ currentTx' = 0
    /\ tasks' = [tasks EXCEPT ![k].pc = IF e = "mvcc" THEN "retry" ELSE "rejected"]

\* A refusal rejects the call.  A failed command makes its unit of work fail
\* when the work next looks; a failed commit of runInTransaction makes it fail
\* now, and one of commit() is left to its caller, the transaction still current.
RefusedReply(c) ==
    LET k == calls[c].task
        e == calls[c].at
    IN  /\ e \in Refusals
        /\ calls' = [calls EXCEPT ![c] = NoCall]
        /\ IF calls[c].op = "tx-commit" /\ tasks[k].pc = "ending" /\ k \in Units
              THEN Failed(k, e) /\ Forgets(tasks[k].tx)
              ELSE /\ tasks' = [tasks EXCEPT ![k] =
                         IF calls[c].op # "query"
                           THEN [@ EXCEPT !.pc = IF tasks[k].pc = "ending" THEN "work"
                                                 ELSE tasks[k].pc]
                         ELSE IF calls[c].tx \in {0, tasks[k].tx}
                           THEN [@ EXCEPT !.failure = e]
                         ELSE @]
                   /\ UNCHANGED <<currentTx, disturbed>>
        /\ UNCHANGED <<transactionId, begun, kept, deletes, final, server, execs,
                       failures, added>>

-----------------------------------------------------------------------------
(* The application, with one transaction object at hand in each task *)

\* begin(): a new transaction object, the current one.
NewTx(k) ==
    /\ currentTx = 0 /\ transactionId < MaxTx
    /\ transactionId' = transactionId + 1
    /\ currentTx' = transactionId + 1
    /\ UNCHANGED <<begun, kept, deletes, final>>

BeginManual(k) ==
    /\ k \in Manual /\ tasks[k].pc = "idle"
    /\ NewTx(k)
    /\ tasks' = [tasks EXCEPT ![k].pc = "work", ![k].tx = transactionId + 1]
    /\ UNCHANGED <<calls, server, execs, failures, added, disturbed>>

\* retryWork of runInTransaction is entered: at first, and again by _retry,
\* which is handed times--, the value before the decrement, and whose test for
\* no times left does not return.
Entered(k) ==
    /\ k \in Units /\ tasks[k].pc \in {"idle", "retry"}
TimesLeft(n) == n
Attempt(k, pc, tx) ==
    tasks' = [tasks EXCEPT ![k] =
        [pc |-> pc, tx |-> tx, failure |-> "none",
         times |-> IF @.pc = "retry" THEN TimesLeft(@.times) ELSE @.times]]

\* begin() succeeds and txWork returns a promise.
Work(k) ==
    /\ Entered(k)
    /\ NewTx(k)
    /\ Attempt(k, "work", transactionId + 1)
    /\ UNCHANGED <<calls, server, execs, failures, added, disturbed>>

\* begin() succeeds and txWork throws: the transaction is rolled back.
WorkThrows(k, c) ==
    /\ Entered(k)
    /\ NewTx(k)
    /\ Attempt(k, "rejected", transactionId + 1)
    /\ StartCall(c, k, "tx-rollback", transactionId + 1, transactionId + 1)
    /\ UNCHANGED <<server, execs, failures, added>>

\* begin() throws: the same handler rolls back the transaction there is.
BeginThrows(k, c) ==
    /\ Entered(k) /\ currentTx # 0
    /\ Attempt(k, "rejected", tasks[k].tx)
    /\ StartCall(c, k, "tx-rollback", currentTx, tasks[k].tx)
    /\ UNCHANGED <<clientVars, server, execs, failures, added>>

\* tx.create, tx.update, tx.delete: the record is kept.
Add(k, r) ==
    LET t == tasks[k].tx
    IN  /\ tasks[k].pc = "work" /\ r \notin added[t]
        /\ kept' = [kept EXCEPT ![t] = @ \cup ({r} \cap Writes)]
        /\ deletes' = [deletes EXCEPT ![t] = @ \cup ({r} \cap Deletes)]
        /\ added' = [added EXCEPT ![t] = @ \cup {r}]
        /\ Use(t, t)
        /\ UNCHANGED <<currentTx, transactionId, begun, final, tasks, calls, server,
                       execs, failures>>

\* tx.query, tx.command, record.create and the like go to session.currentTx.
Exec(k, c) ==
    /\ tasks[k].pc = "work" /\ execs < MaxExecs
    /\ execs' = execs + 1
    /\ StartCall(c, k, "query", currentTx, tasks[k].tx)
    /\ UNCHANGED <<clientVars, tasks, server, failures, added>>

\* The work resolves, and the current transaction, if any, is committed.
WorkResolves(k, c) ==
    /\ k \in Units /\ tasks[k].pc = "work"
    /\ IF currentTx # 0
          THEN /\ StartCall(c, k, "tx-commit", currentTx, tasks[k].tx)
               /\ tasks' = [tasks EXCEPT ![k].pc = "ending"]
          ELSE /\ tasks' = [tasks EXCEPT ![k].pc = "resolved"]
               /\ UNCHANGED <<calls, disturbed>>
    /\ UNCHANGED <<clientVars, server, execs, failures, added>>

\* The work rejects, with the error of a command or one of its own.
WorkRejects(k, e) ==
    /\ k \in Units /\ tasks[k].pc = "work"
    /\ e \in {"error", tasks[k].failure} \cap Refusals
    /\ Failed(k, e) /\ Forgets(tasks[k].tx)
    /\ UNCHANGED <<transactionId, begun, kept, deletes, final, calls, server, execs,
                   failures, added>>

\* commit() and rollback() of the transaction object.
End(k, c, op) ==
    /\ k \in Manual /\ tasks[k].pc = "work"
    /\ op \in {"tx-commit", "tx-rollback"}
    /\ StartCall(c, k, op, tasks[k].tx, tasks[k].tx)
    /\ tasks' = [tasks EXCEPT ![k].pc = "ending"]
    /\ UNCHANGED <<clientVars, server, execs, failures, added>>

-----------------------------------------------------------------------------

CallStep(c) ==
    \/ Capture(c) \/ Write(c) \/ Serve(c)
    \/ FlushReply(c) \/ QueryReply(c) \/ EndReply(c) \/ RefusedReply(c)

TaskStep(k) ==
    \/ BeginManual(k) \/ Work(k)
    \/ \E r \in Records : Add(k, r)
    \/ \E e \in Refusals : WorkRejects(k, e)
    \/ \E c \in Calls :
          \/ WorkThrows(k, c) \/ BeginThrows(k, c) \/ Exec(k, c) \/ WorkResolves(k, c)
          \/ \E op \in Ops : End(k, c, op)

Next ==
    \/ \E c \in Calls : CallStep(c) \/ \E e \in Refusals : Refuse(c, e)
    \/ \E k \in Tasks : TaskStep(k)

Spec == Init /\ [][Next]_vars

\* The code's callbacks all run, the server answers, and a unit of work ends.
FairSpec ==
    /\ Spec
    /\ \A c \in Calls : WF_vars(CallStep(c) \/ Refuse(c, "error"))
    /\ \A k \in Units :
          WF_vars(\/ Work(k) /\ tasks[k].pc = "retry"
                  \/ \E c \in Calls : \/ BeginThrows(k, c) /\ tasks[k].pc = "retry"
                                      \/ WorkResolves(k, c))

-----------------------------------------------------------------------------
(* Properties *)

\* The types, and what holds the numbering of transactions together: the
\* current one has been begun by this session.
TypeOK ==
    /\ currentTx \in 0..transactionId /\ transactionId \in 0..MaxTx
    /\ begun \in [TxIds -> BOOLEAN]
    /\ kept \in [TxIds -> SUBSET Writes] /\ deletes \in [TxIds -> SUBSET Deletes]
    /\ final \in [TxIds -> SUBSET Records] /\ added \in [TxIds -> SUBSET Records]
    /\ tasks \in [Tasks -> Task] /\ calls \in [Calls -> Call]
    /\ server \in Server
    /\ execs \in Nat /\ failures \in Nat /\ disturbed \subseteq TxIds

Replied(c, msg) == calls[c].at = "ok" /\ calls[c].msg = msg

\* A committed transaction is what the application built: when commit() (tx-commit
\* after _flush) succeeds, every record given to the transaction has been applied
\* by the server, and the final lists, from which the result is computed, hold
\* exactly these records; refused flushes in between lose nothing, and no create
\* or update is applied twice, however often a refused flush is sent again.
CommitComplete ==
    /\ \A t \in TxIds \ disturbed : \A r \in Writes : server.applied[t][r] <= 1
    /\ \A c \in Calls : LET t == calls[c].tx IN
          Replied(c, "tx-commit") /\ t \notin disturbed =>
              added[t] = Applied(t) /\ Applied(t) = final[t]

\* The requests of a transaction reach the server in an order it can follow, one
\* tx-begin before everything else, and a command executed in the transaction
\* (execStream, record.create) sees it: when the server runs it, it has begun the
\* transaction and applied every record given to it before the command was made.
ReadYourWrites ==
    \A c \in Calls : LET t == calls[c].tx known == server.open \cup server.ended IN
        calls[c].at = "wire" /\ t \notin disturbed =>
            /\ calls[c].msg = "tx-begin" => t \notin known
            /\ calls[c].msg \in {"record-batch", "tx-commit"} => t \in known
            /\ calls[c].msg = "query" /\ t # 0 => t \in known /\ calls[c].seen \subseteq Applied(t)

\* runInTransaction resolves only when the transaction of its last attempt has
\* been committed, and leaves the session free for the next transaction: once it
\* has settled its transaction is not the current one, unless the rollback of a
\* work that threw is still on its way or was refused.
WorkIsCommitted ==
    \A k \in Units :
        /\ tasks[k].pc = "resolved" /\ tasks[k].tx \notin disturbed =>
              tasks[k].tx \in server.committed
        /\ Settled(k) /\ tasks[k].tx # 0 /\ currentTx = tasks[k].tx =>
              \/ failures > 0
              \/ \E c \in Calls : calls[c].op = "tx-rollback" /\ calls[c].tx = currentTx

\* Every use of runInTransaction is settled, after however many retries (it may
\* wait in a retry only for want of a transaction within the bound).
EventuallySettled ==
    \A k \in Units : tasks[k].pc # "idle" ~>
        Settled(k) \/ (tasks[k].pc = "retry" /\ transactionId = MaxTx)

================================================================================
