------------------------ MODULE DatabaseTransactionProofs ------------------------
(* Proofs about DatabaseTransaction, for every number of uses of the session, of  *)
(* requests, records, transactions and refusals.                                  *)
EXTENDS DatabaseTransaction, TLAPS

--------------------------------------------------------------------------------
(* The inductive invariant.                                                    *)

\* A transaction is of one use of the session.
TxInOrder ==
    /\ \A k \in Tasks : tasks[k].tx <= transactionId
    /\ \A k, j \in Tasks : tasks[k].tx = tasks[j].tx /\ tasks[k].tx # 0 => k = j
    /\ \A k \in Tasks : tasks[k].pc \in {"work", "ending"} => tasks[k].tx # 0

Used(c)       == calls[c].at # "unused"
UsedAs(c, op) == Used(c) /\ calls[c].op = op

\* What a pending call is: a flush or its operation, which for a rollback and for a
\* command outside of a transaction is all there is.
CallInOrder(c) ==
    /\ calls[c].task \in Tasks
    /\ calls[c].tx <= transactionId
    /\ calls[c].msg \in Flushes \/ calls[c].msg = calls[c].op
    /\ calls[c].op = "tx-rollback" => calls[c].msg = "tx-rollback"
    /\ calls[c].tx = 0 => calls[c].msg = "query"
    /\ calls[c].at \in Refusals /\ calls[c].op = "tx-rollback" => failures > 0
    /\ calls[c].at = "ok" /\ calls[c].msg = "tx-commit" =>
          calls[c].tx \in server.committed

CallsInOrder == \A c \in Calls : Used(c) => CallInOrder(c)

\* The calls of runInTransaction: it commits while it ends, and what it commits is its
\* own transaction; it rolls back when it has failed.
Ending ==
    /\ \A c \in Calls : UsedAs(c, "tx-rollback") /\ calls[c].task \in Units =>
          tasks[calls[c].task].pc = "rejected"
    /\ \A c \in Calls : UsedAs(c, "tx-commit") /\ calls[c].task \in Units =>
          /\ tasks[calls[c].task].pc = "ending"
          /\ \/ tasks[calls[c].task].tx \in disturbed
             \/ calls[c].tx = tasks[calls[c].task].tx
    /\ \A c, d \in Calls :
          UsedAs(c, "tx-commit") /\ UsedAs(d, "tx-commit") /\ calls[c].task \in Units =>
             (calls[c].task = calls[d].task => c = d)

\* A unit of work has the current transaction, which nobody is ending.
Owned ==
    \A k \in Units : tasks[k].pc = "work" /\ tasks[k].tx \notin disturbed =>
        /\ currentTx = tasks[k].tx
        /\ \A c \in Calls : Used(c) /\ calls[c].op # "query" => calls[c].tx # tasks[k].tx

Known(t)   == t \in server.open \cup server.ended
Flushed(c) == calls[c].at = "ok" /\ calls[c].msg \in Flushes

\* What a call of an undisturbed transaction has seen, captured and written, and that
\* its operation is sent after all the records.
CallOf(c, t) ==
    /\ calls[c].seen \subseteq added[t]
    /\ calls[c].msg \in Flushes /\ calls[c].at \in {"acquire", "wire", "ok"} => calls[c].live
    /\ calls[c].at = "wire" =>
          calls[c].batch = IF calls[c].msg \in Flushes THEN deletes[t] \cup kept[t] ELSE {}
    /\ calls[c].msg = "tx-begin" => ~begun[t]
    /\ calls[c].msg = "record-batch" => begun[t]
    /\ calls[c].msg \in {"query", "tx-commit"} =>
          begun[t] /\ kept[t] = {} /\ deletes[t] \subseteq final[t]
    /\ Flushed(c) => Applied(t) = added[t] /\ Known(t)

\* An undisturbed transaction has one call at a time; the records given to it are those
\* it keeps and those it has flushed, and between its calls what it has flushed is what
\* the server has applied.
Consistent(t) ==
    /\ \A c, d \in Pending(t) : c = d
    /\ added[t] = final[t] \cup kept[t] \cup deletes[t]
    /\ kept[t] \cap final[t] = {}
    /\ \A r \in Writes : server.applied[t][r] <= 1
    /\ \A c \in Pending(t) : CallOf(c, t)
    /\ (\A c \in Pending(t) : ~Flushed(c)) =>
          Applied(t) = final[t] /\ (begun[t] <=> Known(t))

Undisturbed == \A t \in TxIds \ disturbed : Consistent(t)

\* The transaction of a unit of work that has settled is not the current one.
Released ==
    \A k \in Units : Settled(k) /\ tasks[k].tx # 0 /\ currentTx = tasks[k].tx =>
        \/ failures > 0
        \/ \E c \in Calls : UsedAs(c, "tx-rollback") /\ calls[c].tx = currentTx

Resolved ==
    \A k \in Units : tasks[k].pc = "resolved" /\ tasks[k].tx \notin disturbed =>
        tasks[k].tx \in server.committed

SessionInv == TxInOrder /\ Ending /\ Owned /\ Released /\ Resolved

Inv ==
    /\ TypeOK
    /\ CallsInOrder
    /\ SessionInv
    /\ Undisturbed

--------------------------------------------------------------------------------
(* The calls.                                                                  *)

Places == {"unused", "list", "acquire", "wire", "ok"} \cup Refusals

\* A call that has captured the records, is written, answered, and goes on.
Capturing(x)      == [x EXCEPT !.at = "acquire", !.live = TRUE]
Written(x, b)     == [x EXCEPT !.at = "wire", !.batch = b]
Answered(x, at)   == [x EXCEPT !.at = at, !.batch = {}]
Resumed(x)        == [x EXCEPT !.at = "acquire", !.msg = x.op, !.live = FALSE, !.frozen = {}]
Freezing(x, s)    == [x EXCEPT !.live = FALSE, !.frozen = s]

LEMMA CallFields ==
    ASSUME NEW x \in Call
    PROVE  /\ x.at \in Places /\ x.msg \in Flushes \cup Ops /\ x.op \in Ops
           /\ x.tx \in 0..MaxTx /\ x.task \in Tasks \cup {NoTask} /\ x.live \in BOOLEAN
           /\ x.frozen \subseteq Writes /\ x.batch \subseteq Records /\ x.seen \subseteq Records
BY DEF Call, Places

LEMMA CapturingType ==
    ASSUME NEW x \in Call
    PROVE  /\ Capturing(x) \in Call
           /\ Capturing(x).at = "acquire" /\ Capturing(x).live
           /\ Capturing(x).msg = x.msg /\ Capturing(x).op = x.op /\ Capturing(x).tx = x.tx
           /\ Capturing(x).task = x.task /\ Capturing(x).seen = x.seen
BY DEF Call, Capturing

LEMMA WrittenType ==
    ASSUME NEW x \in Call, NEW b \in SUBSET Records
    PROVE  /\ Written(x, b) \in Call
           /\ Written(x, b).at = "wire" /\ Written(x, b).batch = b
           /\ Written(x, b).live = x.live
           /\ Written(x, b).msg = x.msg /\ Written(x, b).op = x.op /\ Written(x, b).tx = x.tx
           /\ Written(x, b).task = x.task /\ Written(x, b).seen = x.seen
BY DEF Call, Written

LEMMA AnsweredType ==
    ASSUME NEW x \in Call, NEW at \in Places
    PROVE  /\ Answered(x, at) \in Call
           /\ Answered(x, at).at = at /\ Answered(x, at).batch = {}
           /\ Answered(x, at).live = x.live
           /\ Answered(x, at).msg = x.msg /\ Answered(x, at).op = x.op
           /\ Answered(x, at).tx = x.tx
           /\ Answered(x, at).task = x.task /\ Answered(x, at).seen = x.seen
BY DEF Call, Answered, Places

LEMMA ResumedType ==
    ASSUME NEW x \in Call
    PROVE  /\ Resumed(x) \in Call
           /\ Resumed(x).at = "acquire" /\ Resumed(x).msg = x.op
           /\ Resumed(x).op = x.op /\ Resumed(x).tx = x.tx
           /\ Resumed(x).task = x.task /\ Resumed(x).seen = x.seen
BY DEF Call, Resumed

LEMMA FreezingType ==
    ASSUME NEW x \in Call, NEW s \in SUBSET Writes
    PROVE  /\ Freezing(x, s) \in Call
           /\ Freezing(x, s).at = x.at /\ Freezing(x, s).msg = x.msg
           /\ Freezing(x, s).op = x.op /\ Freezing(x, s).tx = x.tx
           /\ Freezing(x, s).task = x.task /\ Freezing(x, s).seen = x.seen
BY DEF Call, Freezing

LEMMA NoCallType ==
    /\ NoCall \in Call
    /\ NoCall.at = "unused" /\ NoCall.op = "query" /\ NoCall.tx = 0
<1>1. 0 \in 0..MaxTx
  BY TransactionAssumption
<1> QED
  BY <1>1 DEF NoCall, Call, Ops, Flushes

\* What a call sends first.
LEMMA FlushCases ==
    ASSUME NEW t
    PROVE  /\ Flush(t) \in {"tx-begin", "record-batch", "none"}
           /\ Flush(t) = "tx-begin" => ~begun[t]
           /\ Flush(t) = "record-batch" => begun[t]
           /\ Flush(t) = "none" => begun[t] /\ kept[t] \cup deletes[t] = {}
<1>1. CASE ~begun[t]
  <2>1. Flush(t) = "tx-begin"
    BY <1>1, Zenon DEF Flush
  <2> QED
    BY <1>1, <2>1
<1>2. CASE begun[t] /\ kept[t] \cup deletes[t] # {}
  <2>1. Flush(t) = "record-batch"
    BY <1>2, Zenon DEF Flush
  <2> QED
    BY <1>2, <2>1
<1>3. CASE begun[t] /\ kept[t] \cup deletes[t] = {}
  <2>1. Flush(t) = "none"
    BY <1>3, Zenon DEF Flush
  <2> QED
    BY <1>3, <2>1
<1> QED
  BY <1>1, <1>2, <1>3

\* What a new call is.
LEMMA NewCallType ==
    ASSUME NEW k \in Tasks, NEW op \in Ops, NEW t \in 0..MaxTx,
           t # 0 => added[t] \subseteq Records
    PROVE  /\ NewCall(k, op, t) \in Call
           /\ NewCall(k, op, t).op = op
           /\ NewCall(k, op, t).tx = t
           /\ NewCall(k, op, t).task = k
           /\ NewCall(k, op, t).at \in {"acquire", "list"}
           /\ NewCall(k, op, t).seen = IF t = 0 THEN {} ELSE added[t]
           /\ NewCall(k, op, t).at = "acquire" =>
                 /\ NewCall(k, op, t).msg = op
                 /\ t # 0 /\ op # "tx-rollback" => Flush(t) = "none"
           /\ NewCall(k, op, t).at = "list" =>
                 /\ t # 0
                 /\ op # "tx-rollback"
                 /\ NewCall(k, op, t).msg = Flush(t)
                 /\ NewCall(k, op, t).msg \in Flushes
<1> DEFINE f == IF t = 0 \/ op = "tx-rollback" THEN "none" ELSE Flush(t)
           at == IF f = "none" THEN "acquire" ELSE "list"
           msg == IF f = "none" THEN op ELSE f
           seen == IF t = 0 THEN {} ELSE added[t]
<1>1. /\ f \in {"tx-begin", "record-batch", "none"}
      /\ f # "none" => (t # 0 /\ op # "tx-rollback" /\ f = Flush(t))
      /\ (f = "none" /\ t # 0 /\ op # "tx-rollback") => Flush(t) = "none"
  BY FlushCases
<1>2. NewCall(k, op, t) =
        [NoCall EXCEPT !.at = at, !.msg = msg, !.op = op, !.tx = t, !.task = k,
                       !.seen = seen]
  BY DEF NewCall
<1>3. /\ at \in {"acquire", "list"}
      /\ at = "acquire" => f = "none" /\ msg = op
      /\ at = "list" => f # "none" /\ msg = f
      /\ msg \in Flushes \cup Ops
      /\ f # "none" => f \in Flushes
  BY <1>1 DEF Flushes
<1>4. seen \subseteq Records
  OBVIOUS
<1> HIDE DEF f, at, msg, seen
<1>5. /\ NewCall(k, op, t).at = at /\ NewCall(k, op, t).msg = msg
      /\ NewCall(k, op, t).op = op /\ NewCall(k, op, t).tx = t
      /\ NewCall(k, op, t).task = k /\ NewCall(k, op, t).seen = seen
  BY <1>2 DEF NoCall
<1>6. NewCall(k, op, t) \in Call
  BY <1>2, <1>3, <1>4 DEF NoCall, Call
<1>7. seen = IF t = 0 THEN {} ELSE added[t]
  BY DEF seen
<1> QED
  BY <1>1, <1>3, <1>5, <1>6, <1>7

--------------------------------------------------------------------------------
(* The frames: what a step that concerns one call leaves as it is.             *)

\* A step of the calls alone: each goes on or is gone.
CallsGoOn ==
    /\ UNCHANGED <<tasks, currentTx, transactionId, disturbed>>
    /\ failures > 0 => failures' > 0
    /\ server.committed \subseteq server'.committed
    /\ \A d \in Calls : Used(d)' =>
          /\ Used(d)
          /\ calls'[d].op = calls[d].op
          /\ calls'[d].tx = calls[d].tx
          /\ calls'[d].task = calls[d].task
    /\ \A d \in Calls : UsedAs(d, "tx-rollback") =>
          UsedAs(d, "tx-rollback")' /\ calls'[d].tx = calls[d].tx

LEMMA GoOn ==
    ASSUME CallsGoOn, TxInOrder, Ending, Owned, Released, Resolved
    PROVE  TxInOrder' /\ Ending' /\ Owned' /\ Released' /\ Resolved'
<1> USE DEF CallsGoOn
<1>1. TxInOrder'
  BY DEF TxInOrder
<1>2. Ending'
  BY DEF Ending, UsedAs
<1>3. Owned'
  BY DEF Owned
<1>4. Released'
  <2> SUFFICES ASSUME NEW k \in Units, Settled(k)', tasks'[k].tx # 0, currentTx' = tasks'[k].tx,
                      ~(failures' > 0)
               PROVE  \E c \in Calls : UsedAs(c, "tx-rollback")' /\ calls'[c].tx = currentTx'
    BY DEF Released
  <2>1. PICK c \in Calls : UsedAs(c, "tx-rollback") /\ calls[c].tx = currentTx
    BY DEF Released, Settled
  <2> QED
    BY <2>1
<1>5. Resolved'
  BY DEF Resolved
<1> QED
  BY <1>1, <1>2, <1>3, <1>4, <1>5

LEMMA StayInOrder ==
    ASSUME TypeOK, CallsInOrder, NEW c \in Calls,
           transactionId' \in Nat, transactionId <= transactionId',
           failures > 0 => failures' > 0,
           server.committed \subseteq server'.committed,
           \A d \in Calls \ {c} : Used(d)' =>
              /\ Used(d)
              /\ calls'[d].at = calls[d].at
              /\ calls'[d].msg = calls[d].msg
              /\ calls'[d].op = calls[d].op
              /\ calls'[d].tx = calls[d].tx
              /\ calls'[d].task = calls[d].task,
           Used(c)' => CallInOrder(c)'
    PROVE  CallsInOrder'
<1> SUFFICES ASSUME NEW d \in Calls, Used(d)', d # c
             PROVE  CallInOrder(d)'
  BY DEF CallsInOrder
<1>1. CallInOrder(d)
  BY DEF CallsInOrder
<1>2. calls[d].tx \in Int /\ transactionId \in Int
  BY TransactionAssumption DEF TypeOK, Call
<1>3. calls'[d].tx <= transactionId'
  BY <1>1, <1>2 DEF CallInOrder
<1> QED
  BY <1>1, <1>3 DEF CallInOrder

\* A transaction that the step does not concern.
LEMMA Untouched ==
    ASSUME NEW t \in TxIds, Consistent(t),
           kept'[t] = kept[t], deletes'[t] = deletes[t], final'[t] = final[t],
           begun'[t] = begun[t], added'[t] = added[t],
           server'.applied[t] = server.applied[t],
           Known(t)' <=> Known(t),
           \A d \in Calls : calls'[d] = calls[d] \/ (d \notin Pending(t) /\ d \notin Pending(t)')
    PROVE  Consistent(t)'
<1>1. Pending(t)' = Pending(t)
  BY DEF Pending
<1>2. \A d \in Pending(t) : calls'[d] = calls[d]
  BY <1>1 DEF Pending
<1>3. Applied(t)' = Applied(t)
  BY DEF Applied
<1>4. \A d \in Pending(t) : Flushed(d)' <=> Flushed(d)
  BY <1>2 DEF Flushed
<1>5. \A d \in Pending(t)' : CallOf(d, t)'
  <2> SUFFICES ASSUME NEW d \in Pending(t) PROVE CallOf(d, t)'
    BY <1>1
  <2>1. CallOf(d, t)
    BY DEF Consistent
  <2> QED
    BY <2>1, <1>2, <1>3, <1>4 DEF CallOf
<1>6. (\A d \in Pending(t)' : ~Flushed(d)') =>
         Applied(t)' = final'[t] /\ (begun'[t] <=> Known(t)')
  BY <1>1, <1>3, <1>4 DEF Consistent
<1> QED
  BY <1>1, <1>5, <1>6 DEF Consistent

\* A transaction that has one call at most.
LEMMA OneCall ==
    ASSUME NEW t \in TxIds, NEW c \in Calls,
           \A d \in Calls \ {c} : d \notin Pending(t)',
           added'[t] = final'[t] \cup kept'[t] \cup deletes'[t],
           kept'[t] \cap final'[t] = {},
           \A r \in Writes : server'.applied[t][r] <= 1,
           c \in Pending(t)' => CallOf(c, t)',
           (c \in Pending(t)' /\ Flushed(c)')
              \/ (Applied(t)' = final'[t] /\ (begun'[t] <=> Known(t)'))
    PROVE  Consistent(t)'
<1>1. \A d \in Pending(t)' : d = c
  BY DEF Pending
<1> QED
  BY <1>1 DEF Consistent

--------------------------------------------------------------------------------
(* The steps of a call.                                                        *)

LEMMA CallTypes ==
    ASSUME TypeOK, NEW c \in Calls
    PROVE  /\ calls[c] \in Call
           /\ calls[c].tx \in 0..MaxTx /\ calls[c].tx \in Nat
           /\ transactionId \in Nat /\ transactionId <= transactionId
<1>1. calls[c] \in Call /\ transactionId \in 0..MaxTx
  BY DEF TypeOK
<1>2. MaxTx \in Nat
  BY TransactionAssumption
<1> QED
  BY <1>1, <1>2, CallFields

LEMMA FlushHasTx ==
    ASSUME TypeOK, CallsInOrder, NEW c \in Calls, Used(c), calls[c].msg # "query"
    PROVE  calls[c].tx \in TxIds
<1>1. calls[c].tx # 0
  BY DEF CallsInOrder, CallInOrder
<1> QED
  BY <1>1, CallTypes, TransactionAssumption DEF TxIds

\* The transaction of a call, and the others.
LEMMA OthersUntouched ==
    ASSUME NEW c \in Calls, NEW t \in TxIds, Consistent(t), t # calls[c].tx,
           \A d \in Calls \ {c} : calls'[d] = calls[d],
           Used(c)' => calls'[c].tx # t,
           kept'[t] = kept[t], deletes'[t] = deletes[t], final'[t] = final[t],
           begun'[t] = begun[t], added'[t] = added[t],
           server'.applied[t] = server.applied[t],
           Known(t)' <=> Known(t)
    PROVE  Consistent(t)'
<1>1. c \notin Pending(t) /\ c \notin Pending(t)'
  BY DEF Pending, Used
<1> QED
  BY <1>1, Untouched

LEMMA Alone ==
    ASSUME NEW c \in Calls, NEW t \in TxIds, Consistent(t), t = calls[c].tx, Used(c),
           \A d \in Calls \ {c} : Used(d)' => Used(d) /\ calls'[d].tx = calls[d].tx
    PROVE  /\ c \in Pending(t)
           /\ CallOf(c, t)
           /\ \A d \in Calls \ {c} : d \notin Pending(t)'
           /\ ~Flushed(c) => Applied(t) = final[t] /\ (begun[t] <=> Known(t))
<1>1. c \in Pending(t)
  BY DEF Pending, Used
<1>2. \A d \in Pending(t) : d = c
  BY <1>1 DEF Consistent
<1>3. ASSUME NEW d \in Calls \ {c} PROVE d \notin Pending(t)'
  <2>1. d \notin Pending(t)
    BY <1>2
  <2> QED
    BY <2>1 DEF Pending, Used
<1> QED
  BY <1>1, <1>2, <1>3 DEF Consistent

\* A call is settled.
LEMMA Gone ==
    ASSUME NEW c \in Calls, Used(c), TypeOK, ~Flushed(c),
           calls' = [calls EXCEPT ![c] = NoCall],
           UNCHANGED <<begun, kept, deletes, final, server, added>>
    PROVE  \A t \in TxIds : Consistent(t) => Consistent(t)'
<1> SUFFICES ASSUME NEW t \in TxIds, Consistent(t) PROVE Consistent(t)'
  OBVIOUS
<1>1. /\ calls'[c] = NoCall
      /\ \A d \in Calls \ {c} : calls'[d] = calls[d]
  BY DEF TypeOK
<1>2. ~Used(c)' /\ c \notin Pending(t)'
  BY <1>1, NoCallType DEF Used, Pending
<1>3. (Known(t)' <=> Known(t)) /\ Applied(t)' = Applied(t)
  BY DEF Known, Applied
<1>4. CASE t # calls[c].tx
  BY <1>1, <1>2, <1>3, <1>4, OthersUntouched
<1>5. CASE t = calls[c].tx
  <2>1. /\ \A d \in Calls \ {c} : d \notin Pending(t)'
        /\ Applied(t) = final[t] /\ (begun[t] <=> Known(t))
    BY <1>1, <1>5, Alone DEF Used
  <2> QED
    BY <1>2, <1>3, <2>1, OneCall DEF Consistent
<1> QED
  BY <1>4, <1>5

LEMMA CaptureStep ==
    ASSUME TypeOK, CallsInOrder, NEW c \in Calls, Capture(c)
    PROVE  /\ TypeOK' /\ CallsInOrder' /\ CallsGoOn
           /\ \A t \in TxIds : Consistent(t) => Consistent(t)'
<1> DEFINE x == calls[c]
<1>1. /\ x \in Call /\ x.at = "list" /\ Used(c)
      /\ calls' = [calls EXCEPT ![c] = Capturing(x)]
      /\ UNCHANGED <<clientVars, tasks, server, execs, failures, added, disturbed>>
  BY CallTypes DEF Capture, Capturing, Used
<1>2. /\ calls'[c] = Capturing(x)
      /\ \A d \in Calls \ {c} : calls'[d] = calls[d]
      /\ calls' \in [Calls -> Call]
  BY <1>1, CapturingType DEF TypeOK
<1>3. TypeOK'
  BY <1>1, <1>2 DEF TypeOK, clientVars
<1>4. CallInOrder(c) /\ Used(c)'
  BY <1>1, <1>2, CapturingType DEF CallsInOrder, Used
<1>5. CallsInOrder'
  <2>1. CallInOrder(c)'
    BY <1>1, <1>2, <1>4, CapturingType DEF CallInOrder, clientVars, Refusals
  <2> QED
    BY <1>1, <1>2, <2>1, StayInOrder, CallTypes DEF clientVars, Used
<1>6. CallsGoOn
  BY <1>1, <1>2, CapturingType DEF CallsGoOn, clientVars, Used, UsedAs
<1>7. ASSUME NEW t \in TxIds, Consistent(t) PROVE Consistent(t)'
  <2>1. (Known(t)' <=> Known(t)) /\ Applied(t)' = Applied(t)
    BY <1>1 DEF Known, Applied
  <2>2. CASE t # calls[c].tx
    BY <1>1, <1>2, <2>1, <2>2, <1>7, OthersUntouched, CapturingType DEF clientVars
  <2>3. CASE t = calls[c].tx
    <3>1. /\ CallOf(c, t)
          /\ \A d \in Calls \ {c} : d \notin Pending(t)'
          /\ Applied(t) = final[t] /\ (begun[t] <=> Known(t))
      BY <1>1, <1>2, <1>7, <2>3, Alone DEF Used, Flushed
    <3>2. CallOf(c, t)'
      BY <1>1, <1>2, <2>1, <3>1, CapturingType DEF CallOf, Flushed, clientVars
    <3> QED
      BY <1>1, <1>7, <2>1, <3>1, <3>2, OneCall DEF Consistent, clientVars
  <2> QED
    BY <2>2, <2>3
<1> QED
  BY <1>3, <1>5, <1>6, <1>7

LEMMA WriteStep ==
    ASSUME TypeOK, CallsInOrder, NEW c \in Calls, Write(c)
    PROVE  /\ TypeOK' /\ CallsInOrder' /\ CallsGoOn
           /\ \A t \in TxIds : Consistent(t) => Consistent(t)'
<1> DEFINE x == calls[c]
           b == IF calls[c].msg \in Flushes
                  THEN deletes[calls[c].tx] \cup Captured(c) ELSE {}
<1>0. /\ x \in Call /\ x.at = "acquire" /\ Used(c)
      /\ calls' = [calls EXCEPT ![c].at = "wire", ![c].batch = b]
      /\ UNCHANGED <<clientVars, tasks, server, execs, failures, added, disturbed>>
  BY CallTypes DEF Write, Used
<1>1. calls' = [calls EXCEPT ![c] = Written(x, b)]
  BY <1>0 DEF TypeOK, Written
<1>b. b \in SUBSET Records
  <2>1. CASE calls[c].msg \in Flushes
    <3>1. calls[c].tx \in TxIds
      BY <1>0, <2>1, FlushHasTx DEF Flushes
    <3>2. Captured(c) \subseteq Writes
      BY <1>0, <3>1, CallFields DEF Captured, TypeOK
    <3> QED
      BY <2>1, <3>1, <3>2 DEF TypeOK, Records
  <2> QED
    BY <2>1
<1>bb. b = IF calls[c].msg \in Flushes THEN deletes[calls[c].tx] \cup Captured(c) ELSE {}
  OBVIOUS
<1> HIDE DEF b
<1>2. /\ calls'[c] = Written(x, b)
      /\ \A d \in Calls \ {c} : calls'[d] = calls[d]
      /\ calls' \in [Calls -> Call]
  <2>1. calls \in [Calls -> Call]
    BY DEF TypeOK
  <2>2. Written(x, b) \in Call
    BY <1>0, <1>b, WrittenType
  <2> QED
    BY <1>1, <2>1, <2>2
<1>3. TypeOK'
  BY <1>0, <1>2 DEF TypeOK, clientVars
<1>w. /\ calls'[c].at = "wire" /\ calls'[c].batch = b
      /\ calls'[c].live = x.live
      /\ calls'[c].msg = x.msg /\ calls'[c].op = x.op /\ calls'[c].tx = x.tx
      /\ calls'[c].task = x.task /\ calls'[c].seen = x.seen
  BY <1>0, <1>2, <1>b, WrittenType
<1>4. CallInOrder(c) /\ Used(c)'
  BY <1>0, <1>w DEF CallsInOrder, Used
<1>5. CallsInOrder'
  <2>1. CallInOrder(c)'
    BY <1>0, <1>w, <1>4 DEF CallInOrder, clientVars, Refusals
  <2> QED
    BY <1>0, <1>2, <2>1, StayInOrder, CallTypes DEF clientVars, Used
<1>6. CallsGoOn
  BY <1>0, <1>2, <1>w DEF CallsGoOn, clientVars, Used, UsedAs
<1>7. ASSUME NEW t \in TxIds, Consistent(t) PROVE Consistent(t)'
  <2>1. (Known(t)' <=> Known(t)) /\ Applied(t)' = Applied(t)
    BY <1>0 DEF Known, Applied
  <2>2. CASE t # calls[c].tx
    BY <1>0, <1>2, <1>w, <2>1, <2>2, <1>7, OthersUntouched DEF clientVars
  <2>3. CASE t = calls[c].tx
    <3>1. /\ CallOf(c, t)
          /\ \A d \in Calls \ {c} : d \notin Pending(t)'
          /\ Applied(t) = final[t] /\ (begun[t] <=> Known(t))
      BY <1>0, <1>2, <1>7, <2>3, Alone DEF Used, Flushed
    <3>2. b = IF x.msg \in Flushes THEN deletes[t] \cup kept[t] ELSE {}
      BY <1>0, <1>bb, <2>3, <3>1 DEF CallOf, Captured
    <3>3. CallOf(c, t)'
      BY <1>0, <1>w, <2>1, <3>1, <3>2 DEF CallOf, Flushed, clientVars
    <3> QED
      BY <1>0, <1>7, <2>1, <3>1, <3>3, OneCall DEF Consistent, clientVars
  <2> QED
    BY <2>2, <2>3
<1> QED
  BY <1>3, <1>5, <1>6, <1>7

--------------------------------------------------------------------------------
(* The server.                                                                 *)

\* The server after it has served a request.
Batched(c, t) == [u \in TxIds |-> [r \in Records |->
                    server.applied[u][r] +
                       (IF u = t /\ r \in calls[c].batch THEN 1 ELSE 0)]]

LEMMA BatchedValue ==
    ASSUME TypeOK, NEW c \in Calls, NEW t, NEW u \in TxIds, NEW r \in Records
    PROVE  /\ server.applied[u][r] \in Nat
           /\ Batched(c, t)[u][r] \in Nat
           /\ Batched(c, t)[u][r] =
                 IF u = t /\ r \in calls[c].batch THEN server.applied[u][r] + 1
                                                  ELSE server.applied[u][r]
<1>1. server.applied[u][r] \in Nat
  BY DEF TypeOK, Server
<1> QED
  BY <1>1 DEF Batched

LEMMA SameBatch ==
    ASSUME TypeOK, NEW c \in Calls, NEW t, NEW u \in TxIds, u # t \/ calls[c].batch = {}
    PROVE  Batched(c, t)[u] = server.applied[u]
<1>1. \A r \in Records : Batched(c, t)[u][r] = server.applied[u][r]
  BY BatchedValue
<1>2. Batched(c, t)[u] = [r \in Records |-> Batched(c, t)[u][r]]
  BY DEF Batched
<1>3. server.applied[u] = [r \in Records |-> server.applied[u][r]]
  BY DEF TypeOK, Server
<1> QED
  BY <1>1, <1>2, <1>3

LEMMA BatchedType ==
    ASSUME TypeOK, NEW c \in Calls, NEW t
    PROVE  Batched(c, t) \in [TxIds -> [Records -> Nat]]
<1>1. ASSUME NEW u \in TxIds PROVE Batched(c, t)[u] \in [Records -> Nat]
  <2>1. Batched(c, t)[u] = [r \in Records |-> Batched(c, t)[u][r]]
    BY DEF Batched
  <2> QED
    BY <2>1, BatchedValue
<1> QED
  BY <1>1 DEF Batched

\* The transactions that are open after a request.
Open(msg, t) == CASE msg = "tx-begin" -> server.open \cup {t}
                  [] msg \in {"tx-commit", "tx-rollback"} -> server.open \ {t}
                  [] OTHER -> server.open

LEMMA OpenCases ==
    ASSUME NEW msg, NEW t
    PROVE  /\ msg = "tx-begin" => Open(msg, t) = server.open \cup {t}
           /\ msg \in {"tx-commit", "tx-rollback"} => Open(msg, t) = server.open \ {t}
           /\ msg \notin {"tx-begin", "tx-commit", "tx-rollback"} =>
                 Open(msg, t) = server.open
<1>1. CASE msg = "tx-begin"
  <2>1. Open(msg, t) = server.open \cup {t}
    BY <1>1, Zenon DEF Open
  <2> QED
    BY <1>1, <2>1
<1>2. CASE msg \in {"tx-commit", "tx-rollback"}
  <2>0. msg # "tx-begin"
    BY <1>2
  <2>1. Open(msg, t) = server.open \ {t}
    BY <1>2, <2>0, Zenon DEF Open
  <2> QED
    BY <1>2, <2>0, <2>1
<1>3. CASE msg \notin {"tx-begin", "tx-commit", "tx-rollback"}
  <2>0. msg # "tx-begin" /\ msg \notin {"tx-commit", "tx-rollback"}
    BY <1>3
  <2>1. Open(msg, t) = server.open
    BY <2>0, Zenon DEF Open
  <2> QED
    BY <2>0, <2>1
<1> QED
  BY <1>1, <1>2, <1>3

LEMMA AcceptsCases ==
    ASSUME NEW msg, NEW t, Accepts(msg, t)
    PROVE  /\ msg = "tx-begin" => t \notin server.open
           /\ msg \in {"record-batch", "tx-commit"} => t \in server.open
<1>1. CASE msg = "tx-begin"
  <2>1. t \notin server.open
    BY <1>1, Zenon DEF Accepts
  <2> QED
    BY <1>1, <2>1
<1>2. CASE msg \in {"record-batch", "tx-commit"}
  <2>0. msg # "tx-begin"
    BY <1>2
  <2>1. t \in server.open
    BY <1>2, <2>0, Zenon DEF Accepts
  <2> QED
    BY <2>0, <2>1
<1> QED
  BY <1>1, <1>2

Served(c, msg, t) ==
    [open |-> Open(msg, t),
     ended |-> IF msg \in {"tx-commit", "tx-rollback"}
                 THEN server.ended \cup ({t} \cap server.open) ELSE server.ended,
     committed |-> IF msg = "tx-commit" THEN server.committed \cup {t}
                   ELSE server.committed,
     applied |-> Batched(c, t)]

LEMMA ServedType ==
    ASSUME TypeOK, NEW c \in Calls, NEW msg, NEW t, msg # "query" => t \in TxIds
    PROVE  Served(c, msg, t) \in Server
<1>1. server.open \subseteq TxIds /\ server.ended \subseteq TxIds /\ server.committed \subseteq TxIds
  BY DEF TypeOK, Server
<1>2. Open(msg, t) \subseteq TxIds
  BY <1>1, OpenCases
<1>3. Batched(c, t) \in [TxIds -> [Records -> Nat]]
  BY BatchedType
<1> QED
  BY <1>1, <1>2, <1>3 DEF Served, Server

LEMMA ServeStep ==
    ASSUME TypeOK, CallsInOrder, NEW c \in Calls, Serve(c)
    PROVE  /\ TypeOK' /\ CallsInOrder' /\ CallsGoOn
           /\ \A t \in TxIds : Consistent(t) => Consistent(t)'
<1> DEFINE x == calls[c]
<1>0. /\ x \in Call /\ x.at = "wire" /\ Used(c)
      /\ Accepts(x.msg, x.tx)
      /\ calls' = [calls EXCEPT ![c].at = "ok", ![c].batch = {}]
      /\ UNCHANGED <<clientVars, tasks, execs, failures, added, disturbed>>
  BY CallTypes DEF Serve, Used
<1>s. server' = Served(c, x.msg, x.tx)
  BY DEF Serve, Served, Open, Batched
<1>a. server'.applied = Batched(c, x.tx)
  BY <1>s DEF Served
<1>1. calls' = [calls EXCEPT ![c] = Answered(x, "ok")]
  BY <1>0 DEF TypeOK, Answered
<1>2. /\ calls'[c] = Answered(x, "ok")
      /\ \A d \in Calls \ {c} : calls'[d] = calls[d]
      /\ calls' \in [Calls -> Call]
  <2>1. calls \in [Calls -> Call]
    BY DEF TypeOK
  <2>2. Answered(x, "ok") \in Call
    BY <1>0, AnsweredType DEF Places
  <2> QED
    BY <1>1, <2>1, <2>2
<1>w. /\ calls'[c].at = "ok" /\ calls'[c].batch = {}
      /\ calls'[c].live = x.live
      /\ calls'[c].msg = x.msg /\ calls'[c].op = x.op /\ calls'[c].tx = x.tx
      /\ calls'[c].task = x.task /\ calls'[c].seen = x.seen
  BY <1>0, <1>2, AnsweredType DEF Places
<1>t. x.msg # "query" => x.tx \in TxIds
  BY <1>0, FlushHasTx
<1>3. TypeOK'
  <2>1. server' \in Server
    BY <1>s, <1>t, ServedType
  <2> QED
    BY <1>0, <1>2, <2>1 DEF TypeOK, clientVars
<1>4. CallInOrder(c) /\ Used(c)'
  BY <1>0, <1>w DEF CallsInOrder, Used
<1>c. /\ server.committed \subseteq server'.committed
      /\ x.msg = "tx-commit" => x.tx \in server'.committed
  BY <1>s DEF Served
<1>5. CallsInOrder'
  <2>1. CallInOrder(c)'
    BY <1>0, <1>w, <1>4, <1>c DEF CallInOrder, clientVars, Refusals
  <2> QED
    BY <1>0, <1>2, <1>c, <2>1, StayInOrder, CallTypes DEF clientVars, Used
<1>6. CallsGoOn
  BY <1>0, <1>2, <1>w, <1>c DEF CallsGoOn, clientVars, Used, UsedAs
<1>7. ASSUME NEW t \in TxIds, Consistent(t) PROVE Consistent(t)'
  <2>1. CASE t # calls[c].tx
    <3>1. server'.applied[t] = server.applied[t]
      BY <1>a, <2>1, SameBatch
    <3>2. Known(t)' <=> Known(t)
      BY <1>s, <2>1, OpenCases DEF Served, Known
    <3> QED
      BY <1>0, <1>2, <1>w, <2>1, <3>1, <3>2, <1>7, OthersUntouched DEF clientVars
  <2>2. CASE t = calls[c].tx
    <3>1. /\ CallOf(c, t)
          /\ \A d \in Calls \ {c} : d \notin Pending(t)'
          /\ Applied(t) = final[t] /\ (begun[t] <=> Known(t))
          /\ c \in Pending(t)
      BY <1>0, <1>2, <1>7, <2>2, Alone DEF Used, Flushed
    <3>2. c \in Pending(t)'
      BY <1>w, <2>2 DEF Pending
    <3>3. server.applied[t] \in [Records -> Nat] /\ deletes[t] \subseteq Deletes
          /\ kept[t] \subseteq Writes
      BY DEF TypeOK, Server
    <3>4. CASE x.msg \in Flushes
      <4>1. x.batch = deletes[t] \cup kept[t]
        BY <1>0, <3>1, <3>4 DEF CallOf
      <4>2. \A r \in Records : server'.applied[t][r] =
               IF r \in deletes[t] \cup kept[t] THEN server.applied[t][r] + 1
                                                ELSE server.applied[t][r]
        <5> SUFFICES ASSUME NEW r \in Records
                     PROVE  server'.applied[t][r] =
                               IF r \in deletes[t] \cup kept[t] THEN server.applied[t][r] + 1
                                                                ELSE server.applied[t][r]
          OBVIOUS
        <5> QED
          BY <1>a, <2>2, <4>1, BatchedValue
      <4>3. Applied(t)' = added[t]
        <5>1. deletes[t] \cup kept[t] \subseteq Records
          BY <3>3 DEF Records
        <5>2. ASSUME NEW r \in Records
              PROVE  server'.applied[t][r] > 0 <=>
                        r \in deletes[t] \cup kept[t] \/ server.applied[t][r] > 0
          BY <3>3, <4>2
        <5>3. Applied(t)' = Applied(t) \cup deletes[t] \cup kept[t]
          BY <5>1, <5>2 DEF Applied
        <5> QED
          BY <3>1, <5>3, <1>7 DEF Consistent
      <4>4. ASSUME NEW r \in Writes PROVE server'.applied[t][r] <= 1
        <5>1. r \in Records /\ server.applied[t][r] \in Nat
          BY <3>3 DEF Records
        <5>2. CASE r \in kept[t]
          <6>1. r \notin final[t] /\ r \in deletes[t] \cup kept[t]
            BY <1>7, <5>2 DEF Consistent
          <6>2. ~(server.applied[t][r] > 0)
            BY <3>1, <5>1, <6>1 DEF Applied
          <6> QED
            BY <4>2, <5>1, <6>1, <6>2
        <5>3. CASE r \notin kept[t]
          <6>1. r \notin deletes[t] \cup kept[t]
            BY <3>3, <5>3, TransactionAssumption
          <6>2. server.applied[t][r] <= 1
            BY <1>7 DEF Consistent
          <6> QED
            BY <4>2, <5>1, <6>1, <6>2
        <5> QED
          BY <5>2, <5>3
      <4>5. Known(t)'
        <5>1. x.msg = "tx-begin" \/ x.msg = "record-batch"
          BY <3>4 DEF Flushes
        <5>2. CASE x.msg = "tx-begin"
          BY <1>s, <2>2, <5>2, OpenCases DEF Served, Known
        <5>3. CASE x.msg = "record-batch"
          <6>1. t \in server.open
            BY <1>0, <2>2, <5>3, AcceptsCases
          <6> QED
            BY <1>s, <5>3, <6>1, OpenCases DEF Served, Known
        <5> QED
          BY <5>1, <5>2, <5>3
      <4>6. Flushed(c)'
        BY <1>w, <3>4 DEF Flushed
      <4>7. CallOf(c, t)'
        BY <1>0, <1>w, <3>1, <3>4, <4>3, <4>5 DEF CallOf, clientVars
      <4> QED
        BY <1>0, <1>7, <3>1, <3>2, <4>4, <4>6, <4>7, OneCall DEF Consistent, clientVars
    <3>5. CASE x.msg \notin Flushes
      <4>1. x.batch = {}
        BY <1>0, <3>1, <3>5 DEF CallOf
      <4>2. server'.applied[t] = server.applied[t]
        BY <1>a, <4>1, SameBatch
      <4>3. Applied(t)' = Applied(t)
        BY <4>2 DEF Applied
      <4>4. Known(t)' <=> Known(t)
        <5>1. x.msg \notin {"tx-begin", "record-batch"}
          BY <3>5 DEF Flushes
        <5>2. CASE x.msg \in {"tx-commit", "tx-rollback"}
          BY <1>s, <2>2, <5>2, OpenCases DEF Served, Known
        <5>3. CASE x.msg \notin {"tx-commit", "tx-rollback"}
          BY <1>s, <5>1, <5>3, OpenCases DEF Served, Known
        <5> QED
          BY <5>2, <5>3
      <4>5. CallOf(c, t)'
        BY <1>0, <1>w, <3>1, <3>5 DEF CallOf, Flushed, clientVars
      <4> QED
        BY <1>0, <1>7, <3>1, <4>2, <4>3, <4>4, <4>5, OneCall DEF Consistent, clientVars
    <3> QED
      BY <3>4, <3>5
  <2> QED
    BY <2>1, <2>2
<1> QED
  BY <1>3, <1>5, <1>6, <1>7

LEMMA RefuseStep ==
    ASSUME TypeOK, CallsInOrder, NEW c \in Calls, NEW e \in Refusals, Refuse(c, e)
    PROVE  /\ TypeOK' /\ CallsInOrder' /\ CallsGoOn
           /\ \A t \in TxIds : Consistent(t) => Consistent(t)'
<1> DEFINE x == calls[c]
<1>0. /\ x \in Call /\ x.at = "wire" /\ Used(c)
      /\ calls' = [calls EXCEPT ![c].at = e, ![c].batch = {}]
      /\ UNCHANGED <<clientVars, tasks, execs, added, disturbed>>
  BY CallTypes DEF Refuse, Used
<1>1. calls' = [calls EXCEPT ![c] = Answered(x, e)]
  BY <1>0 DEF TypeOK, Answered
<1>2. /\ calls'[c] = Answered(x, e)
      /\ \A d \in Calls \ {c} : calls'[d] = calls[d]
      /\ calls' \in [Calls -> Call]
  <2>1. calls \in [Calls -> Call]
    BY DEF TypeOK
  <2>2. Answered(x, e) \in Call
    BY <1>0, AnsweredType DEF Places
  <2> QED
    BY <1>1, <2>1, <2>2
<1>w. /\ calls'[c].at = e /\ calls'[c].batch = {}
      /\ calls'[c].live = x.live
      /\ calls'[c].msg = x.msg /\ calls'[c].op = x.op /\ calls'[c].tx = x.tx
      /\ calls'[c].task = x.task /\ calls'[c].seen = x.seen
  BY <1>0, <1>2, AnsweredType DEF Places
<1>t. x.msg # "query" => x.tx \in TxIds
  BY <1>0, FlushHasTx
<1>s. \/ server' = server
      \/ /\ x.tx \in server.open /\ x.tx \in TxIds
         /\ server' = [server EXCEPT !.open = @ \ {x.tx}, !.ended = @ \cup {x.tx}]
  BY <1>t DEF Refuse
<1>r. /\ server' \in Server
      /\ server'.committed = server.committed
      /\ server'.applied = server.applied
      /\ \A t \in TxIds : Known(t)' <=> Known(t)
  <2>1. server \in Server
    BY DEF TypeOK
  <2>2. CASE server' = server
    BY <2>1, <2>2 DEF Known
  <2>3. CASE server' # server
    <3>1. server' = [server EXCEPT !.open = @ \ {x.tx}, !.ended = @ \cup {x.tx}]
          /\ x.tx \in server.open /\ x.tx \in TxIds
      BY <1>s, <2>3
    <3>2. /\ server'.open = server.open \ {x.tx}
          /\ server'.ended = server.ended \cup {x.tx}
          /\ server'.committed = server.committed
          /\ server'.applied = server.applied
      BY <2>1, <3>1 DEF Server
    <3>3. server' \in Server
      BY <2>1, <3>1 DEF Server
    <3> QED
      BY <3>1, <3>2, <3>3 DEF Known
  <2> QED
    BY <2>2, <2>3
<1>f. /\ failures' \in Nat
      /\ failures > 0 => failures' > 0
      /\ x.op = "tx-rollback" => failures' > 0
  <2>1. failures \in Nat
    BY DEF TypeOK
  <2>2. CASE Accepts(x.msg, x.tx)
    BY <2>1, <2>2 DEF Refuse
  <2>3. CASE ~Accepts(x.msg, x.tx)
    <3>1. failures' = failures
      BY <2>3 DEF Refuse
    <3>2. x.op = "tx-rollback" => x.msg = "tx-rollback"
      BY <1>0 DEF CallsInOrder, CallInOrder
    <3>3. x.msg # "tx-rollback"
      <4>1. SUFFICES ASSUME x.msg = "tx-rollback" PROVE FALSE
        OBVIOUS
      <4>2. x.msg # "tx-begin" /\ x.msg \notin {"record-batch", "tx-commit"}
        BY <4>1
      <4>3. Accepts(x.msg, x.tx)
        BY <4>2, Zenon DEF Accepts
      <4> QED
        BY <4>3, <2>3
    <3> QED
      BY <2>1, <3>1, <3>2, <3>3
  <2> QED
    BY <2>2, <2>3
<1>3. TypeOK'
  BY <1>0, <1>2, <1>r, <1>f DEF TypeOK, clientVars
<1>4. CallInOrder(c) /\ Used(c)'
  BY <1>0, <1>w DEF CallsInOrder, Used, Refusals
<1>5. CallsInOrder'
  <2>1. CallInOrder(c)'
    BY <1>0, <1>w, <1>4, <1>r, <1>f DEF CallInOrder, clientVars, Refusals
  <2> QED
    BY <1>0, <1>2, <1>r, <1>f, <2>1, StayInOrder, CallTypes DEF clientVars, Used
<1>6. CallsGoOn
  BY <1>0, <1>2, <1>w, <1>4, <1>r, <1>f DEF CallsGoOn, clientVars, Used, UsedAs
<1>7. ASSUME NEW t \in TxIds, Consistent(t) PROVE Consistent(t)'
  <2>1. (Known(t)' <=> Known(t)) /\ Applied(t)' = Applied(t)
    BY <1>r DEF Applied
  <2>2. CASE t # calls[c].tx
    BY <1>0, <1>2, <1>w, <1>r, <2>1, <2>2, <1>7, OthersUntouched DEF clientVars
  <2>3. CASE t = calls[c].tx
    <3>1. /\ CallOf(c, t)
          /\ \A d \in Calls \ {c} : d \notin Pending(t)'
          /\ Applied(t) = final[t] /\ (begun[t] <=> Known(t))
      BY <1>0, <1>2, <1>7, <2>3, Alone DEF Used, Flushed
    <3>2. CallOf(c, t)'
      BY <1>0, <1>w, <2>1, <3>1 DEF CallOf, Flushed, clientVars, Refusals
    <3> QED
      BY <1>0, <1>7, <1>r, <2>1, <3>1, <3>2, OneCall DEF Consistent, clientVars
  <2> QED
    BY <2>2, <2>3
<1> QED
  BY <1>3, <1>5, <1>6, <1>7

--------------------------------------------------------------------------------
(* The replies.                                                                *)

LEMMA QueryReplyStep ==
    ASSUME TypeOK, CallsInOrder, NEW c \in Calls, QueryReply(c)
    PROVE  /\ TypeOK' /\ CallsInOrder' /\ CallsGoOn
           /\ \A t \in TxIds : Consistent(t) => Consistent(t)'
<1>0. /\ calls[c].at = "ok" /\ calls[c].msg = "query" /\ Used(c)
      /\ calls' = [calls EXCEPT ![c] = NoCall]
      /\ UNCHANGED <<clientVars, tasks, server, execs, failures, added, disturbed>>
  BY DEF QueryReply, Used
<1>1. /\ ~Used(c)'
      /\ \A d \in Calls \ {c} : calls'[d] = calls[d]
      /\ calls' \in [Calls -> Call]
  BY <1>0, NoCallType DEF TypeOK, Used
<1>2. TypeOK'
  BY <1>0, <1>1 DEF TypeOK, clientVars
<1>3. CallsInOrder'
  BY <1>0, <1>1, StayInOrder, CallTypes DEF clientVars, Used
<1>4. calls[c].op # "tx-rollback"
  BY <1>0 DEF CallsInOrder, CallInOrder
<1>5. CallsGoOn
  BY <1>0, <1>1, <1>4 DEF CallsGoOn, clientVars, Used, UsedAs
<1>6. \A t \in TxIds : Consistent(t) => Consistent(t)'
  <2>1. ~Flushed(c)
    BY <1>0 DEF Flushed, Flushes
  <2> QED
    BY <1>0, <2>1, Gone DEF clientVars
<1> QED
  BY <1>2, <1>3, <1>5, <1>6

KeepsOld(d, t) == calls[d].at # "unused" /\ calls[d].tx = t /\ calls[d].live

LEMMA FlushReplyStep ==
    ASSUME TypeOK, CallsInOrder, NEW c \in Calls, FlushReply(c)
    PROVE  /\ TypeOK' /\ CallsInOrder' /\ CallsGoOn
           /\ \A t \in TxIds : Consistent(t) => Consistent(t)'
<1> DEFINE x == calls[c]
           tx == calls[c].tx
<1>0. /\ x \in Call /\ x.at = "ok" /\ x.msg \in Flushes /\ Used(c)
      /\ begun' = [begun EXCEPT ![tx] = @ \/ calls[c].msg = "tx-begin"]
      /\ kept' = [kept EXCEPT ![tx] = {}]
      /\ deletes' = deletes
      /\ final' = [final EXCEPT ![tx] = @ \cup Recorded(c)]
      /\ UNCHANGED <<currentTx, transactionId, tasks, server, execs, failures,
                     added, disturbed>>
  BY CallTypes DEF FlushReply, Used
<1>c. calls' = [d \in Calls |-> IF d = c THEN Resumed(x)
                                ELSE IF KeepsOld(d, tx) THEN Freezing(calls[d], kept[tx])
                                ELSE calls[d]]
  BY DEF FlushReply, KeepsOld, Resumed, Freezing
<1>t. tx \in TxIds
  BY <1>0, FlushHasTx DEF Flushes
<1>k. kept[tx] \subseteq Writes /\ deletes[tx] \subseteq Deletes
  BY <1>t DEF TypeOK
<1>x. /\ Resumed(x) \in Call /\ calls'[c] = Resumed(x)
      /\ calls'[c].at = "acquire" /\ calls'[c].msg = x.op
      /\ calls'[c].op = x.op /\ calls'[c].tx = x.tx
      /\ calls'[c].task = x.task /\ calls'[c].seen = x.seen
  BY <1>0, <1>c, ResumedType
<1>d. ASSUME NEW d \in Calls \ {c}
      PROVE  /\ calls'[d] \in Call
             /\ calls'[d].at = calls[d].at /\ calls'[d].msg = calls[d].msg
             /\ calls'[d].op = calls[d].op /\ calls'[d].tx = calls[d].tx
             /\ calls'[d].task = calls[d].task /\ calls'[d].seen = calls[d].seen
             /\ ~KeepsOld(d, tx) => calls'[d] = calls[d]
  <2>1. calls[d] \in Call
    BY CallTypes
  <2>2. CASE KeepsOld(d, tx)
    <3>1. calls'[d] = Freezing(calls[d], kept[tx])
      BY <1>c, <2>2
    <3> QED
      BY <1>k, <2>1, <2>2, <3>1, FreezingType
  <2>3. CASE ~KeepsOld(d, tx)
    <3>1. calls'[d] = calls[d]
      BY <1>c, <2>3
    <3> QED
      BY <2>1, <3>1
  <2> QED
    BY <2>2, <2>3
<1>1. /\ calls' \in [Calls -> Call]
      /\ Used(c)'
      /\ \A d \in Calls \ {c} : Used(d)' => Used(d)
  <2>1. \A d \in Calls : calls'[d] \in Call
    BY <1>d, <1>x
  <2>2. calls' \in [Calls -> Call]
    BY <1>c, <2>1
  <2> QED
    BY <1>x, <1>d, <2>2 DEF Used
<1>2. TypeOK'
  <2>1. begun' \in [TxIds -> BOOLEAN]
    <3>1. begun \in [TxIds -> BOOLEAN]
      BY DEF TypeOK
    <3> QED
      BY <1>0, <3>1, Zenon
  <2>2. kept' \in [TxIds -> SUBSET Writes]
    BY <1>0 DEF TypeOK
  <2>3. final' \in [TxIds -> SUBSET Records]
    <3>1. Captured(c) \subseteq Writes
      BY <1>0, <1>k, CallFields DEF Captured
    <3>2. Recorded(c) \subseteq Records
      BY <1>k, <3>1 DEF Recorded, Records
    <3>3. final \in [TxIds -> SUBSET Records]
      BY DEF TypeOK
    <3> QED
      BY <1>0, <3>2, <3>3
  <2> QED
    BY <1>0, <1>1, <2>1, <2>2, <2>3 DEF TypeOK
<1>3. CallInOrder(c)
  BY <1>0 DEF CallsInOrder
<1>4. CallsInOrder'
  <2>1. CallInOrder(c)'
    BY <1>0, <1>x, <1>3, <1>t DEF CallInOrder, Refusals, TxIds, Flushes
  <2> QED
    BY <1>0, <1>1, <1>d, <2>1, StayInOrder, CallTypes
<1>5. CallsGoOn
  BY <1>0, <1>x, <1>d, <1>1 DEF CallsGoOn, Used, UsedAs
<1>6. ASSUME NEW t \in TxIds, Consistent(t) PROVE Consistent(t)'
  <2>1. (Known(t)' <=> Known(t)) /\ Applied(t)' = Applied(t)
    BY <1>0 DEF Known, Applied
  <2>2. CASE t # tx
    <3>1. /\ kept'[t] = kept[t] /\ final'[t] = final[t] /\ begun'[t] = begun[t]
      BY <1>0, <2>2 DEF TypeOK
    <3>2. ASSUME NEW d \in Calls
          PROVE  calls'[d] = calls[d] \/ (d \notin Pending(t) /\ d \notin Pending(t)')
      <4>1. CASE d = c
        BY <1>x, <2>2, <4>1 DEF Pending
      <4>2. CASE d # c
        <5>1. calls'[d].tx = calls[d].tx
          BY <1>d, <4>2
        <5>2. KeepsOld(d, tx) => d \notin Pending(t) /\ d \notin Pending(t)'
          BY <2>2, <5>1 DEF KeepsOld, Pending
        <5> QED
          BY <1>d, <4>2, <5>2
      <4> QED
        BY <4>1, <4>2
    <3> QED
      BY <1>0, <1>6, <2>1, <3>1, <3>2, Untouched
  <2>3. CASE t = tx
    <3>1. /\ CallOf(c, t)
          /\ \A d \in Calls \ {c} : d \notin Pending(t)'
      BY <1>0, <1>1, <1>d, <1>6, <2>3, Alone
    <3>2. /\ Applied(t) = added[t] /\ Known(t)
          /\ Recorded(c) = kept[t] \cup deletes[t]
      BY <1>0, <2>3, <3>1 DEF CallOf, Flushed, Captured, Recorded
    <3>3. kept'[t] = {} /\ deletes'[t] = deletes[t]
      BY <1>0, <2>3 DEF TypeOK
    <3>4. final'[t] = final[t] \cup kept[t] \cup deletes[t]
      BY <1>0, <2>3, <3>2 DEF TypeOK
    <3>5. begun'[t]
      <4>1. begun'[t] = (begun[t] \/ calls[c].msg = "tx-begin")
        <5>1. begun \in [TxIds -> BOOLEAN]
          BY DEF TypeOK
        <5> QED
          BY <1>0, <2>3, <5>1, Zenon
      <4>2. calls[c].msg = "record-batch" => begun[t]
        BY <3>1 DEF CallOf
      <4>3. calls[c].msg = "record-batch" \/ calls[c].msg = "tx-begin"
        BY <1>0 DEF Flushes
      <4> QED
        BY <4>1, <4>2, <4>3
    <3>6. /\ added'[t] = final'[t] \cup kept'[t] \cup deletes'[t]
          /\ Applied(t)' = final'[t]
          /\ kept'[t] \cap final'[t] = {}
      BY <1>0, <1>6, <2>1, <3>2, <3>3, <3>4 DEF Consistent
    <3>7. CallOf(c, t)'
      <4>1. calls'[c].msg \notin Flushes /\ calls'[c].msg # "tx-begin"
            /\ calls'[c].msg # "record-batch" /\ calls'[c].at = "acquire"
            /\ ~Flushed(c)'
        BY <1>0, <1>x, CallFields DEF Ops, Flushes, Flushed
      <4>2. calls'[c].seen \subseteq added'[t]
        BY <1>0, <1>x, <3>1 DEF CallOf
      <4>3. begun'[t] /\ kept'[t] = {} /\ deletes'[t] \subseteq final'[t]
        BY <3>3, <3>4, <3>5
      <4> QED
        BY <4>1, <4>2, <4>3 DEF CallOf
    <3>8. \A r \in Writes : server'.applied[t][r] <= 1
      BY <1>0, <1>6 DEF Consistent
    <3>9. begun'[t] <=> Known(t)'
      BY <2>1, <3>2, <3>5
    <3> QED
      BY <3>1, <3>6, <3>7, <3>8, <3>9, OneCall
  <2> QED
    BY <2>2, <2>3
<1> QED
  BY <1>2, <1>4, <1>5, <1>6

--------------------------------------------------------------------------------
(* The end of a transaction.                                                   *)

Pcs == {"idle", "work", "ending", "retry", "resolved", "rejected"}

LEMMA TaskTypes ==
    ASSUME TypeOK, NEW k \in Tasks
    PROVE  /\ tasks[k] \in Task /\ tasks[k].pc \in Pcs
           /\ tasks[k].tx \in 0..MaxTx /\ tasks[k].tx \in Nat
<1>1. tasks[k] \in Task
  BY DEF TypeOK
<1>2. MaxTx \in Nat
  BY TransactionAssumption
<1> QED
  BY <1>1, <1>2 DEF Task, Pcs

\* A task at another place, and with another failure.
AtPc(y, pc)   == [y EXCEPT !.pc = pc]
FailedWith(y, e) == [y EXCEPT !.failure = e]

LEMMA AtPcType ==
    ASSUME NEW y \in Task, NEW pc \in Pcs
    PROVE  AtPc(y, pc) \in Task /\ AtPc(y, pc).pc = pc /\ AtPc(y, pc).tx = y.tx
BY DEF Task, AtPc, Pcs

LEMMA FailedWithType ==
    ASSUME NEW y \in Task, NEW e \in Refusals
    PROVE  /\ FailedWith(y, e) \in Task
           /\ FailedWith(y, e).pc = y.pc /\ FailedWith(y, e).tx = y.tx
BY DEF Task, FailedWith

LEMMA ForgetsType ==
    ASSUME TypeOK, NEW t, Forgets(t)
    PROVE  /\ disturbed' \subseteq TxIds
           /\ disturbed \subseteq disturbed'
           /\ currentTx # 0 /\ currentTx # t => currentTx \in disturbed'
<1>1. currentTx # 0 => currentTx \in TxIds
  BY TransactionAssumption DEF TypeOK, TxIds
<1> QED
  BY <1>1 DEF Forgets, TypeOK

LEMMA EndReplyStep ==
    ASSUME TypeOK, CallsInOrder, SessionInv, NEW c \in Calls, EndReply(c)
    PROVE  /\ TypeOK' /\ CallsInOrder' /\ SessionInv'
           /\ disturbed \subseteq disturbed'
           /\ \A t \in TxIds : Consistent(t) => Consistent(t)'
<1> DEFINE k == calls[c].task
           pc == IF tasks[k].pc = "ending" THEN "resolved" ELSE tasks[k].pc
<1>0. /\ calls[c].at = "ok" /\ calls[c].msg \in {"tx-commit", "tx-rollback"} /\ Used(c)
      /\ currentTx' = 0
      /\ calls' = [calls EXCEPT ![c] = NoCall]
      /\ Forgets(calls[c].tx)
      /\ UNCHANGED <<transactionId, begun, kept, deletes, final, server, execs,
                     failures, added>>
  BY DEF EndReply, Used
<1>t. tasks' = [tasks EXCEPT ![k].pc = pc]
  BY DEF EndReply
<1>c. /\ k \in Tasks
      /\ calls[c].op = calls[c].msg
      /\ calls[c].op \in {"tx-commit", "tx-rollback"}
      /\ calls[c].msg = "tx-commit" => calls[c].tx \in server.committed
  BY <1>0 DEF CallsInOrder, CallInOrder, Flushes
<1>p. pc \in Pcs /\ (pc = tasks[k].pc \/ (tasks[k].pc = "ending" /\ pc = "resolved"))
  BY <1>c, TaskTypes DEF Pcs
<1> HIDE DEF pc
<1>k. /\ tasks' \in [Tasks -> Task]
      /\ tasks'[k].pc = pc /\ tasks'[k].tx = tasks[k].tx
      /\ \A j \in Tasks \ {k} : tasks'[j] = tasks[j]
  <2>1. tasks \in [Tasks -> Task]
    BY DEF TypeOK
  <2>2. tasks' = [tasks EXCEPT ![k] = AtPc(tasks[k], pc)]
    BY <1>t, <2>1 DEF AtPc
  <2>3. AtPc(tasks[k], pc) \in Task /\ AtPc(tasks[k], pc).pc = pc
        /\ AtPc(tasks[k], pc).tx = tasks[k].tx
    BY <1>c, <1>p, <2>1, AtPcType
  <2> HIDE DEF k
  <2> QED
    BY <1>c, <2>1, <2>2, <2>3
<1>1. /\ ~Used(c)'
      /\ \A d \in Calls \ {c} : calls'[d] = calls[d]
      /\ calls' \in [Calls -> Call]
  BY <1>0, NoCallType DEF TypeOK, Used
<1>2. disturbed' \subseteq TxIds /\ disturbed \subseteq disturbed'
  BY <1>0, ForgetsType
<1>3. TypeOK'
  <2>1. currentTx' \in 0..transactionId'
    BY <1>0, CallTypes
  <2> QED
    BY <1>0, <1>1, <1>2, <1>k, <2>1 DEF TypeOK
<1>4. CallsInOrder'
  BY <1>0, <1>1, StayInOrder, CallTypes DEF Used
<1>j. \A j \in Tasks : tasks'[j].tx = tasks[j].tx
  BY <1>k
<1>5. TxInOrder'
  BY <1>0, <1>j, <1>k, <1>p DEF SessionInv, TxInOrder
<1>6. Ending'
  <2>1. ASSUME NEW d \in Calls, UsedAs(d, "tx-rollback")', calls'[d].task \in Units
        PROVE  tasks'[calls'[d].task].pc = "rejected"
    <3>1. d # c /\ calls'[d] = calls[d]
      BY <1>1, <2>1 DEF UsedAs
    <3>2. tasks[calls[d].task].pc = "rejected"
      BY <2>1, <3>1 DEF SessionInv, Ending, UsedAs, Used
    <3> QED
      BY <1>k, <1>p, <2>1, <3>1, <3>2 DEF Tasks
  <2>2. ASSUME NEW d \in Calls, UsedAs(d, "tx-commit")', calls'[d].task \in Units
        PROVE  /\ calls'[d].task # k
               /\ d # c /\ calls'[d] = calls[d]
    <3>1. d # c /\ calls'[d] = calls[d]
      BY <1>1, <2>2 DEF UsedAs
    <3>2. SUFFICES ASSUME calls[d].task = k PROVE FALSE
      BY <3>1
    <3>3. UsedAs(d, "tx-commit")
      BY <2>2, <3>1 DEF UsedAs, Used
    <3>4. tasks[k].pc = "ending" /\ k \in Units
      BY <2>2, <3>1, <3>2, <3>3 DEF SessionInv, Ending
    <3>5. calls[c].op # "tx-rollback"
      BY <1>0, <3>4 DEF SessionInv, Ending, UsedAs
    <3>6. UsedAs(c, "tx-commit")
      BY <1>0, <1>c, <3>5 DEF UsedAs
    <3> QED
      BY <3>1, <3>2, <3>3, <3>4, <3>6 DEF SessionInv, Ending
  <2>3. ASSUME NEW d \in Calls, UsedAs(d, "tx-commit")', calls'[d].task \in Units
        PROVE  /\ tasks'[calls'[d].task].pc = "ending"
               /\ \/ tasks'[calls'[d].task].tx \in disturbed'
                  \/ calls'[d].tx = tasks'[calls'[d].task].tx
    <3>1. calls'[d].task # k /\ calls'[d] = calls[d]
      BY <2>2, <2>3
    <3>2. UsedAs(d, "tx-commit")
      BY <2>3, <3>1 DEF UsedAs, Used
    <3>3. tasks'[calls[d].task] = tasks[calls[d].task]
      BY <1>k, <2>3, <3>1 DEF Tasks
    <3> QED
      BY <1>2, <2>3, <3>1, <3>2, <3>3 DEF SessionInv, Ending
  <2>4. ASSUME NEW d \in Calls, NEW b \in Calls,
               UsedAs(d, "tx-commit")', UsedAs(b, "tx-commit")', calls'[d].task \in Units,
               calls'[d].task = calls'[b].task
        PROVE  d = b
    <3>1. calls'[d] = calls[d] /\ calls'[b] = calls[b]
      BY <1>1, <2>4 DEF UsedAs
    <3> QED
      BY <2>4, <3>1 DEF SessionInv, Ending, UsedAs, Used
  <2> QED
    BY <2>1, <2>3, <2>4 DEF Ending
<1>7. Owned'
  <2> SUFFICES ASSUME NEW j \in Units, tasks'[j].pc = "work", tasks'[j].tx \notin disturbed'
               PROVE  FALSE
    BY DEF Owned
  <2>1. j \in Tasks /\ tasks[j].pc = "work" /\ tasks[j].tx = tasks'[j].tx
    BY <1>k, <1>p DEF Tasks
  <2>2. /\ currentTx = tasks[j].tx
        /\ calls[c].tx # tasks[j].tx
    BY <1>0, <1>c, <1>2, <2>1 DEF SessionInv, Owned
  <2>3. tasks[j].tx # 0
    BY <2>1 DEF SessionInv, TxInOrder
  <2> QED
    BY <1>0, <2>1, <2>2, <2>3, ForgetsType
<1>8. Released'
  BY <1>0 DEF Released
<1>9. Resolved'
  <2> SUFFICES ASSUME NEW j \in Units, tasks'[j].pc = "resolved", tasks'[j].tx \notin disturbed'
               PROVE  tasks'[j].tx \in server'.committed
    BY DEF Resolved
  <2>0. j \in Tasks /\ tasks'[j].tx = tasks[j].tx /\ tasks[j].tx \notin disturbed
    BY <1>2, <1>j DEF Tasks
  <2>1. CASE tasks[j].pc = "resolved"
    BY <1>0, <2>0, <2>1 DEF SessionInv, Resolved
  <2>2. CASE tasks[j].pc # "resolved"
    <3>1. j = k /\ tasks[k].pc = "ending"
      BY <1>k, <1>p, <2>0, <2>2
    <3>2. UsedAs(c, "tx-commit")
      BY <1>0, <1>c, <3>1 DEF SessionInv, Ending, UsedAs
    <3>3. calls[c].tx = tasks[k].tx
      BY <2>0, <3>1, <3>2 DEF SessionInv, Ending
    <3> QED
      BY <1>0, <1>c, <2>0, <3>1, <3>2, <3>3 DEF UsedAs
  <2> QED
    BY <2>1, <2>2
<1>10. \A t \in TxIds : Consistent(t) => Consistent(t)'
  <2>1. ~Flushed(c)
    BY <1>0 DEF Flushed, Flushes
  <2> QED
    BY <1>0, <2>1, Gone
<1> QED
  BY <1>2, <1>3, <1>4, <1>5, <1>6, <1>7, <1>8, <1>9, <1>10 DEF SessionInv

\* The calls of runInTransaction, after a step of the task k that makes the call c
\* or settles it.
LEMMA EndingAfter ==
    ASSUME Ending, NEW c, NEW k \in Tasks,
           disturbed \subseteq disturbed',
           \A j \in Tasks \ {k} : tasks'[j] = tasks[j],
           \A d \in Calls : calls'[d] = calls[d] \/ d = c,
           \A d \in Calls : calls'[d] # calls[d] /\ Used(d)' => calls'[d].task = k,
           \A d \in Calls : UsedAs(d, "tx-rollback")' /\ calls'[d].task = k /\ k \in Units =>
              tasks'[k].pc = "rejected",
           \A d \in Calls : UsedAs(d, "tx-commit")' /\ calls'[d].task = k /\ k \in Units =>
              /\ tasks'[k].pc = "ending"
              /\ \/ tasks'[k].tx \in disturbed'
                 \/ calls'[d].tx = tasks'[k].tx,
           \A d, b \in Calls :
              UsedAs(d, "tx-commit")' /\ UsedAs(b, "tx-commit")' /\ k \in Units =>
                 (calls'[d].task = k /\ calls'[b].task = k => d = b)
    PROVE  Ending'
<1>1. ASSUME NEW d \in Calls, Used(d)', calls'[d].task # k
      PROVE  calls'[d] = calls[d] /\ Used(d)
  BY <1>1 DEF Used
<1>2. ASSUME NEW d \in Calls, UsedAs(d, "tx-rollback")', calls'[d].task \in Units
      PROVE  tasks'[calls'[d].task].pc = "rejected"
  <2>1. CASE calls'[d].task = k
    BY <1>2, <2>1
  <2>2. CASE calls'[d].task # k
    <3>1. calls'[d] = calls[d] /\ UsedAs(d, "tx-rollback")
      BY <1>1, <1>2, <2>2 DEF UsedAs
    <3>2. tasks'[calls[d].task] = tasks[calls[d].task]
      BY <1>2, <2>2, <3>1 DEF Tasks
    <3> QED
      BY <1>2, <3>1, <3>2 DEF Ending
  <2> QED
    BY <2>1, <2>2
<1>3. ASSUME NEW d \in Calls, UsedAs(d, "tx-commit")', calls'[d].task \in Units
      PROVE  /\ tasks'[calls'[d].task].pc = "ending"
             /\ \/ tasks'[calls'[d].task].tx \in disturbed'
                \/ calls'[d].tx = tasks'[calls'[d].task].tx
  <2>1. CASE calls'[d].task = k
    BY <1>3, <2>1
  <2>2. CASE calls'[d].task # k
    <3>1. calls'[d] = calls[d] /\ UsedAs(d, "tx-commit")
      BY <1>1, <1>3, <2>2 DEF UsedAs
    <3>2. tasks'[calls[d].task] = tasks[calls[d].task]
      BY <1>3, <2>2, <3>1 DEF Tasks
    <3> QED
      BY <1>3, <3>1, <3>2 DEF Ending
  <2> QED
    BY <2>1, <2>2
<1>4. ASSUME NEW d \in Calls, NEW b \in Calls,
             UsedAs(d, "tx-commit")', UsedAs(b, "tx-commit")', calls'[d].task \in Units,
             calls'[d].task = calls'[b].task
      PROVE  d = b
  <2>1. CASE calls'[d].task = k
    BY <1>4, <2>1
  <2>2. CASE calls'[d].task # k
    <3>1. /\ calls'[d] = calls[d] /\ UsedAs(d, "tx-commit")
          /\ calls'[b] = calls[b] /\ UsedAs(b, "tx-commit")
      BY <1>1, <1>4, <2>2 DEF UsedAs
    <3> QED
      BY <1>4, <3>1 DEF Ending
  <2> QED
    BY <2>1, <2>2
<1> QED
  BY <1>2, <1>3, <1>4 DEF Ending

LEMMA RefusedReplyStep ==
    ASSUME TypeOK, CallsInOrder, SessionInv, NEW c \in Calls, RefusedReply(c)
    PROVE  /\ TypeOK' /\ CallsInOrder' /\ SessionInv'
           /\ disturbed \subseteq disturbed'
           /\ \A t \in TxIds : Consistent(t) => Consistent(t)'
<1> DEFINE k == calls[c].task
           e == calls[c].at
           fails == calls[c].op = "tx-commit" /\ tasks[k].pc = "ending" /\ k \in Units
<1>0. /\ calls[c].at \in Refusals /\ Used(c)
      /\ calls' = [calls EXCEPT ![c] = NoCall]
      /\ UNCHANGED <<transactionId, begun, kept, deletes, final, server, execs,
                     failures, added>>
  BY DEF RefusedReply, Used, Refusals
<1>c. /\ k \in Tasks
      /\ calls[c].op = "tx-rollback" => failures > 0
  BY <1>0 DEF CallsInOrder, CallInOrder
<1>k. /\ tasks' \in [Tasks -> Task]
      /\ \A j \in Tasks : tasks'[j].tx = tasks[j].tx
      /\ \A j \in Tasks \ {k} : tasks'[j] = tasks[j]
      /\ fails => tasks'[k].pc \in {"retry", "rejected"}
      /\ ~fails /\ k \in Units => tasks'[k].pc = tasks[k].pc
      /\ ~fails /\ tasks'[k].pc # tasks[k].pc => tasks[k].pc = "ending"
  <2>1. tasks \in [Tasks -> Task] /\ tasks[k] \in Task /\ tasks[k].pc \in Pcs
    BY <1>c, TaskTypes DEF TypeOK
  <2>2. SUFFICES ASSUME NEW y \in Task, tasks' = [tasks EXCEPT ![k] = y],
                        y.tx = tasks[k].tx,
                        fails => y.pc \in {"retry", "rejected"},
                        ~fails /\ k \in Units => y.pc = tasks[k].pc,
                        ~fails /\ y.pc # tasks[k].pc => tasks[k].pc = "ending"
                 PROVE  /\ tasks' \in [Tasks -> Task]
                        /\ \A j \in Tasks : tasks'[j].tx = tasks[j].tx
                        /\ \A j \in Tasks \ {k} : tasks'[j] = tasks[j]
                        /\ tasks'[k].pc = y.pc
    <3>1. CASE fails
      <4>1. tasks' = [tasks EXCEPT ![k].pc = IF e = "mvcc" THEN "retry" ELSE "rejected"]
        BY <3>1 DEF RefusedReply, Failed
      <4>2. CASE e = "mvcc"
        <5>1. tasks' = [tasks EXCEPT ![k] = AtPc(tasks[k], "retry")]
          BY <2>1, <4>1, <4>2 DEF AtPc
        <5>2. /\ AtPc(tasks[k], "retry") \in Task
              /\ AtPc(tasks[k], "retry").pc = "retry"
              /\ AtPc(tasks[k], "retry").tx = tasks[k].tx
          BY <2>1, AtPcType DEF Pcs
        <5> QED
          BY <2>2, <3>1, <5>1, <5>2
      <4>3. CASE e # "mvcc"
        <5>1. tasks' = [tasks EXCEPT ![k] = AtPc(tasks[k], "rejected")]
          BY <2>1, <4>1, <4>3 DEF AtPc
        <5>2. /\ AtPc(tasks[k], "rejected") \in Task
              /\ AtPc(tasks[k], "rejected").pc = "rejected"
              /\ AtPc(tasks[k], "rejected").tx = tasks[k].tx
          BY <2>1, AtPcType DEF Pcs
        <5> QED
          BY <2>2, <3>1, <5>1, <5>2
      <4> QED
        BY <4>2, <4>3
    <3>2. CASE ~fails
      <4>0. tasks' = [tasks EXCEPT ![k] =
                         IF calls[c].op # "query"
                           THEN [@ EXCEPT !.pc = IF tasks[k].pc = "ending" THEN "work"
                                                 ELSE tasks[k].pc]
                         ELSE IF calls[c].tx \in {0, tasks[k].tx}
                           THEN [@ EXCEPT !.failure = e]
                         ELSE @]
        BY <3>2 DEF RefusedReply
      <4>b. ASSUME calls[c].op # "query"
            PROVE  tasks' = [tasks EXCEPT ![k] = AtPc(tasks[k],
                               IF tasks[k].pc = "ending" THEN "work" ELSE tasks[k].pc)]
        BY <4>0, <4>b DEF AtPc
      <4>1. CASE calls[c].op # "query" /\ tasks[k].pc = "ending"
        <5>1. tasks' = [tasks EXCEPT ![k] = AtPc(tasks[k], "work")]
          BY <4>1, <4>b
        <5>2. /\ AtPc(tasks[k], "work") \in Task
              /\ AtPc(tasks[k], "work").pc = "work"
              /\ AtPc(tasks[k], "work").tx = tasks[k].tx
          BY <2>1, AtPcType DEF Pcs
        <5>3. k \notin Units
          <6>1. calls[c].op \in {"tx-rollback", "tx-commit"}
            BY <4>1, CallTypes, CallFields DEF Ops
          <6>2. k \in Units => calls[c].op # "tx-rollback"
            BY <1>0, <4>1 DEF SessionInv, Ending, UsedAs
          <6> QED
            BY <3>2, <4>1, <6>1, <6>2
        <5> QED
          BY <2>2, <3>2, <4>1, <5>1, <5>2, <5>3
      <4>2. CASE calls[c].op # "query" /\ tasks[k].pc # "ending"
        <5>1. tasks' = [tasks EXCEPT ![k] = AtPc(tasks[k], tasks[k].pc)]
          BY <4>2, <4>b
        <5>2. /\ AtPc(tasks[k], tasks[k].pc) \in Task
              /\ AtPc(tasks[k], tasks[k].pc).pc = tasks[k].pc
              /\ AtPc(tasks[k], tasks[k].pc).tx = tasks[k].tx
          BY <2>1, AtPcType
        <5> QED
          BY <2>2, <3>2, <5>1, <5>2
      <4>3. CASE calls[c].op = "query" /\ calls[c].tx \in {0, tasks[k].tx}
        <5>1. tasks' = [tasks EXCEPT ![k] = FailedWith(tasks[k], e)]
          BY <2>1, <4>0, <4>3 DEF FailedWith
        <5>2. /\ FailedWith(tasks[k], e) \in Task
              /\ FailedWith(tasks[k], e).pc = tasks[k].pc
              /\ FailedWith(tasks[k], e).tx = tasks[k].tx
          BY <1>0, <2>1, FailedWithType
        <5> QED
          BY <2>2, <3>2, <5>1, <5>2
      <4>4. CASE calls[c].op = "query" /\ calls[c].tx \notin {0, tasks[k].tx}
        <5>1. tasks' = [tasks EXCEPT ![k] = tasks[k]]
          BY <4>0, <4>4
        <5> QED
          BY <2>1, <2>2, <3>2, <5>1
      <4> QED
        BY <4>1, <4>2, <4>3, <4>4
    <3> QED
      BY <3>1, <3>2
  <2> HIDE DEF k
  <2> QED
    BY <1>c, <2>1, <2>2
<1>f. /\ fails => currentTx' = 0 /\ Forgets(tasks[k].tx)
      /\ ~fails => UNCHANGED <<currentTx, disturbed>>
  BY DEF RefusedReply, Failed
<1> HIDE DEF fails
<1>ff. /\ fails => calls[c].op = "tx-commit" /\ tasks[k].pc = "ending" /\ k \in Units
  BY DEF fails
<1>1. /\ ~Used(c)'
      /\ \A d \in Calls \ {c} : calls'[d] = calls[d]
      /\ calls' \in [Calls -> Call]
  BY <1>0, NoCallType DEF TypeOK, Used
<1>2. disturbed' \subseteq TxIds /\ disturbed \subseteq disturbed'
  BY <1>f, ForgetsType DEF TypeOK
<1>3. TypeOK'
  <2>1. currentTx' \in 0..transactionId'
    BY <1>0, <1>f, CallTypes DEF TypeOK
  <2> QED
    BY <1>0, <1>1, <1>2, <1>k, <2>1 DEF TypeOK
<1>4. CallsInOrder'
  BY <1>0, <1>1, StayInOrder, CallTypes DEF Used
<1>5. TxInOrder'
  <2>1. ASSUME NEW j \in Tasks, tasks'[j].pc \in {"work", "ending"} PROVE tasks[j].tx # 0
    <3>1. tasks[j].pc \in {"work", "ending"}
      BY <1>k, <1>ff, <2>1
    <3> QED
      BY <3>1 DEF SessionInv, TxInOrder
  <2> QED
    BY <1>0, <1>k, <2>1 DEF SessionInv, TxInOrder
<1>6. Ending'
  <2>1. ASSUME NEW d \in Calls, Used(d)'
        PROVE  d # c /\ calls'[d] = calls[d] /\ Used(d)
    BY <1>1, <2>1 DEF Used
  <2>2. ASSUME NEW d \in Calls, UsedAs(d, "tx-rollback")', calls'[d].task = k, k \in Units
        PROVE  tasks'[k].pc = "rejected"
    <3>1. calls'[d] = calls[d] /\ UsedAs(d, "tx-rollback")
      BY <2>1, <2>2 DEF UsedAs
    <3>2. tasks[k].pc = "rejected"
      BY <2>2, <3>1 DEF SessionInv, Ending
    <3> QED
      BY <1>k, <1>ff, <2>2, <3>2
  <2>3. ASSUME NEW d \in Calls, UsedAs(d, "tx-commit")', calls'[d].task = k, k \in Units
        PROVE  /\ tasks'[k].pc = "ending"
               /\ tasks'[k].tx \in disturbed' \/ calls'[d].tx = tasks'[k].tx
    <3>1. d # c /\ calls'[d] = calls[d] /\ UsedAs(d, "tx-commit")
      BY <2>1, <2>3 DEF UsedAs
    <3>2. ~fails
      <4>1. SUFFICES ASSUME fails PROVE FALSE
        OBVIOUS
      <4>2. UsedAs(c, "tx-commit")
        BY <1>0, <1>ff, <4>1 DEF UsedAs
      <4> QED
        BY <2>3, <3>1, <4>2 DEF SessionInv, Ending
    <3>3. tasks[k].pc = "ending" /\ (tasks[k].tx \in disturbed \/ calls[d].tx = tasks[k].tx)
      BY <2>3, <3>1 DEF SessionInv, Ending
    <3> QED
      BY <1>2, <1>c, <1>k, <2>3, <3>1, <3>2, <3>3
  <2>4. ASSUME NEW d \in Calls, NEW b \in Calls, UsedAs(d, "tx-commit")',
               UsedAs(b, "tx-commit")', k \in Units, calls'[d].task = k, calls'[b].task = k
        PROVE  d = b
    <3>1. /\ calls'[d] = calls[d] /\ UsedAs(d, "tx-commit")
          /\ calls'[b] = calls[b] /\ UsedAs(b, "tx-commit")
      BY <2>1, <2>4 DEF UsedAs
    <3> QED
      BY <2>4, <3>1 DEF SessionInv, Ending
  <2> HIDE DEF k
  <2>5. \A d \in Calls : calls'[d] = calls[d] \/ d = c
    BY <1>1
  <2>6. Ending
    BY DEF SessionInv
  <2>7. \A d \in Calls : UsedAs(d, "tx-rollback")' /\ calls'[d].task = k /\ k \in Units =>
           tasks'[k].pc = "rejected"
    BY <2>2
  <2>8. \A d \in Calls : UsedAs(d, "tx-commit")' /\ calls'[d].task = k /\ k \in Units =>
              /\ tasks'[k].pc = "ending"
              /\ \/ tasks'[k].tx \in disturbed'
                 \/ calls'[d].tx = tasks'[k].tx
    BY <2>3
  <2>9. \A d, b \in Calls :
              UsedAs(d, "tx-commit")' /\ UsedAs(b, "tx-commit")' /\ k \in Units =>
                 (calls'[d].task = k /\ calls'[b].task = k => d = b)
    BY <2>4
  <2>10. \A d \in Calls : calls'[d] # calls[d] /\ Used(d)' => calls'[d].task = k
    BY <2>1
  <2> QED
    BY <1>2, <1>c, <1>k, <2>5, <2>6, <2>7, <2>8, <2>9, <2>10, EndingAfter
<1>7. Owned'
  <2> SUFFICES ASSUME NEW j \in Units, tasks'[j].pc = "work", tasks'[j].tx \notin disturbed'
               PROVE  /\ currentTx' = tasks'[j].tx
                      /\ \A d \in Calls : Used(d)' /\ calls'[d].op # "query" =>
                            calls'[d].tx # tasks'[j].tx
    BY DEF Owned
  <2>1. j \in Tasks /\ tasks[j].pc = "work" /\ tasks[j].tx = tasks'[j].tx
        /\ tasks[j].tx \notin disturbed
    BY <1>2, <1>k, <1>ff DEF Tasks
  <2>2. /\ currentTx = tasks[j].tx
        /\ \A d \in Calls : Used(d) /\ calls[d].op # "query" => calls[d].tx # tasks[j].tx
    BY <2>1 DEF SessionInv, Owned
  <2>3. ~fails
    <3>1. SUFFICES ASSUME fails PROVE FALSE
      OBVIOUS
    <3>2. j # k
      BY <1>ff, <2>1, <3>1
    <3>3. tasks[j].tx # 0 /\ tasks[j].tx # tasks[k].tx
      BY <1>c, <2>1, <3>2 DEF SessionInv, TxInOrder
    <3> QED
      BY <1>f, <2>1, <2>2, <3>1, <3>3, ForgetsType
  <2> QED
    BY <1>1, <1>f, <2>1, <2>2, <2>3 DEF Used
<1>8. Released'
  <2> SUFFICES ASSUME NEW j \in Units, Settled(j)', tasks'[j].tx # 0,
                      currentTx' = tasks'[j].tx, ~(failures' > 0)
               PROVE  \E d \in Calls : UsedAs(d, "tx-rollback")' /\ calls'[d].tx = currentTx'
    BY DEF Released
  <2>1. ~fails
    BY <1>f
  <2>2. j \in Tasks /\ Settled(j) /\ tasks[j].tx # 0 /\ currentTx = tasks[j].tx
    BY <1>f, <1>k, <2>1 DEF Tasks, Settled
  <2>3. PICK d \in Calls : UsedAs(d, "tx-rollback") /\ calls[d].tx = currentTx
    BY <1>0, <2>2 DEF SessionInv, Released
  <2>4. d # c
    BY <1>0, <1>c, <2>3 DEF UsedAs
  <2> QED
    BY <1>1, <1>f, <2>1, <2>3, <2>4 DEF UsedAs, Used
<1>9. Resolved'
  <2> SUFFICES ASSUME NEW j \in Units, tasks'[j].pc = "resolved", tasks'[j].tx \notin disturbed'
               PROVE  tasks'[j].tx \in server'.committed
    BY DEF Resolved
  <2>1. j \in Tasks /\ tasks[j].pc = "resolved" /\ tasks[j].tx = tasks'[j].tx
    BY <1>k, <1>ff DEF Tasks
  <2> QED
    BY <1>0, <1>2, <2>1 DEF SessionInv, Resolved
<1>10. \A t \in TxIds : Consistent(t) => Consistent(t)'
  <2>1. ~Flushed(c)
    BY <1>0 DEF Flushed, Refusals
  <2> QED
    BY <1>0, <2>1, Gone
<1> QED
  BY <1>2, <1>3, <1>4, <1>5, <1>6, <1>7, <1>8, <1>9, <1>10 DEF SessionInv

--------------------------------------------------------------------------------
(* The calls of the tasks.                                                     *)

LEMMA UseType ==
    ASSUME TypeOK, NEW t \in 0..MaxTx, NEW own, Use(t, own)
    PROVE  /\ disturbed' \subseteq TxIds
           /\ disturbed \subseteq disturbed'
           /\ t # 0 /\ (Pending(t) # {} \/ t # own) => t \in disturbed'
<1>1. t # 0 => t \in TxIds
  BY TransactionAssumption DEF TxIds
<1> QED
  BY <1>1 DEF Use, TypeOK

LEMMA StartCallStep ==
    ASSUME TypeOK, CallsInOrder,
           NEW c \in Calls, NEW k \in Tasks, NEW op \in Ops, NEW t \in 0..MaxTx, NEW own,
           StartCall(c, k, op, t, own),
           t = 0 => op = "query", t <= transactionId',
           transactionId' \in Nat, transactionId <= transactionId',
           UNCHANGED <<begun, kept, deletes, final, server, failures, added>>
    PROVE  /\ ~Used(c) /\ Used(c)'
           /\ calls' \in [Calls -> Call]
           /\ \A d \in Calls \ {c} : calls'[d] = calls[d]
           /\ calls'[c].op = op /\ calls'[c].tx = t /\ calls'[c].task = k
           /\ disturbed' \subseteq TxIds
           /\ disturbed \subseteq disturbed'
           /\ t # 0 /\ t # own => t \in disturbed'
           /\ CallsInOrder'
           /\ \A u \in TxIds \ disturbed' : Consistent(u) => Consistent(u)'
<1> DEFINE x == NewCall(k, op, t)
<1>0. ~Used(c) /\ calls' = [calls EXCEPT ![c] = x] /\ Use(t, own)
  BY DEF StartCall, Used
<1>t. t # 0 => t \in TxIds
  BY TransactionAssumption DEF TxIds
<1>a. t # 0 => added[t] \subseteq Records
  BY <1>t DEF TypeOK
<1>x. /\ x \in Call
      /\ x.op = op /\ x.tx = t /\ x.task = k
      /\ x.at \in {"acquire", "list"}
      /\ x.seen = IF t = 0 THEN {} ELSE added[t]
      /\ x.at = "acquire" =>
            /\ x.msg = op
            /\ t # 0 /\ op # "tx-rollback" => Flush(t) = "none"
      /\ x.at = "list" =>
            /\ t # 0
            /\ op # "tx-rollback"
            /\ x.msg = Flush(t)
            /\ x.msg \in Flushes
  BY <1>a, NewCallType
<1> HIDE DEF x
<1>1. /\ calls' \in [Calls -> Call]
      /\ calls'[c] = x
      /\ \A d \in Calls \ {c} : calls'[d] = calls[d]
  <2>1. calls \in [Calls -> Call]
    BY DEF TypeOK
  <2> QED
    BY <1>0, <1>x, <2>1
<1>2. Used(c)' /\ calls'[c].op = op /\ calls'[c].tx = t /\ calls'[c].task = k
  BY <1>1, <1>x DEF Used
<1>3. /\ disturbed' \subseteq TxIds
      /\ disturbed \subseteq disturbed'
      /\ t # 0 /\ (Pending(t) # {} \/ t # own) => t \in disturbed'
  BY <1>0, UseType
<1>4. CallsInOrder'
  <2>1. /\ x.msg \in Flushes \/ x.msg = op
        /\ op = "tx-rollback" => x.msg = "tx-rollback"
        /\ t = 0 => x.msg = "query"
        /\ x.at \notin Refusals /\ x.at # "ok"
    BY <1>x DEF Refusals
  <2>2. CallInOrder(c)'
    BY <1>1, <1>x, <2>1 DEF CallInOrder
  <2> QED
    BY <1>1, <2>2, StayInOrder, CallTypes DEF Used
<1>5. ASSUME NEW u \in TxIds \ disturbed', Consistent(u) PROVE Consistent(u)'
  <2>1. (Known(u)' <=> Known(u)) /\ Applied(u)' = Applied(u)
    BY DEF Known, Applied
  <2>2. CASE u # t
    <3>1. c \notin Pending(u) /\ c \notin Pending(u)'
      BY <1>0, <1>2, <2>2 DEF Pending, Used
    <3> QED
      BY <1>1, <1>5, <2>1, <3>1, Untouched
  <2>3. CASE u = t
    <3>0. t # 0
      BY <2>3, TransactionAssumption DEF TxIds
    <3>1. Pending(u) = {}
      BY <1>3, <1>5, <2>3, <3>0
    <3>2. \A d \in Calls \ {c} : d \notin Pending(u)'
      BY <1>1, <3>1 DEF Pending
    <3>3. Applied(u) = final[u] /\ (begun[u] <=> Known(u))
      BY <1>5, <3>1 DEF Consistent
    <3>4. CallOf(c, u)'
      <4>1. calls'[c].seen \subseteq added'[u]
        BY <1>1, <1>x, <2>3, <3>0
      <4>2. ~Flushed(c)'
        BY <1>1, <1>x DEF Flushed
      <4>3. CASE x.at = "acquire"
        <5>1. x.msg = op /\ x.msg \notin Flushes /\ x.msg # "tx-begin" /\ x.msg # "record-batch"
          BY <1>x, <4>3 DEF Ops, Flushes
        <5>2. x.msg \in {"query", "tx-commit"} =>
                 begun[u] /\ kept[u] = {} /\ deletes[u] \subseteq final[u]
          <6>1. SUFFICES ASSUME op # "tx-rollback"
                         PROVE begun[u] /\ kept[u] = {} /\ deletes[u] \subseteq final[u]
            BY <5>1
          <6>2. Flush(t) = "none"
            BY <1>x, <3>0, <4>3, <6>1
          <6> QED
            BY <2>3, <6>2, FlushCases
        <5> QED
          BY <1>1, <4>1, <4>2, <4>3, <5>1, <5>2 DEF CallOf
      <4>4. CASE x.at = "list"
        <5>1. x.msg = Flush(u) /\ x.msg \in Flushes
          BY <1>x, <2>3, <4>4
        <5>2. x.msg \notin {"query", "tx-commit"}
          BY <5>1 DEF Flushes
        <5>3. /\ x.msg = "tx-begin" => ~begun[u]
              /\ x.msg = "record-batch" => begun[u]
          BY <5>1, FlushCases
        <5> QED
          BY <1>1, <4>1, <4>2, <4>4, <5>2, <5>3 DEF CallOf
      <4> QED
        BY <1>x, <4>3, <4>4
    <3> QED
      BY <1>5, <2>1, <3>2, <3>3, <3>4, OneCall DEF Consistent
  <2> QED
    BY <2>2, <2>3
<1> QED
  BY <1>0, <1>1, <1>2, <1>3, <1>4, <1>5

\* The steps that make no call.
LEMMA NoCallStep ==
    ASSUME TypeOK, CallsInOrder, UNCHANGED <<calls, server, failures>>,
           transactionId' \in Nat, transactionId <= transactionId'
    PROVE  CallsInOrder'
<1> SUFFICES ASSUME NEW d \in Calls, Used(d) PROVE CallInOrder(d)'
  BY DEF CallsInOrder, Used
<1>1. CallInOrder(d)
  BY DEF CallsInOrder
<1>2. calls'[d].tx <= transactionId'
  BY <1>1, CallTypes DEF CallInOrder
<1> QED
  BY <1>1, <1>2 DEF CallInOrder

LEMMA NothingTouched ==
    ASSUME UNCHANGED <<calls, begun, kept, deletes, final, server, added>>
    PROVE  \A t \in TxIds : Consistent(t) => Consistent(t)'
<1> SUFFICES ASSUME NEW t \in TxIds, Consistent(t) PROVE Consistent(t)'
  OBVIOUS
<1>1. (Known(t)' <=> Known(t))
  BY DEF Known
<1> QED
  BY <1>1, Untouched

LEMMA TaskUpdate ==
    ASSUME TypeOK, NEW k \in Tasks, NEW y \in Task, tasks' = [tasks EXCEPT ![k] = y]
    PROVE  /\ tasks' \in [Tasks -> Task]
           /\ tasks'[k] = y
           /\ \A j \in Tasks \ {k} : tasks'[j] = tasks[j]
BY DEF TypeOK

\* A task that begins an attempt, and a use of begin().
Attempted(y, pc, tx) ==
    [pc |-> pc, tx |-> tx, failure |-> "none",
     times |-> IF y.pc = "retry" THEN TimesLeft(y.times) ELSE y.times]
Opened(y, tx) == [y EXCEPT !.pc = "work", !.tx = tx]

LEMMA AttemptedType ==
    ASSUME NEW y \in Task, NEW pc \in Pcs, NEW tx \in 0..MaxTx
    PROVE  /\ Attempted(y, pc, tx) \in Task
           /\ Attempted(y, pc, tx).pc = pc /\ Attempted(y, pc, tx).tx = tx
BY DEF Attempted, Task, Pcs, TimesLeft

LEMMA OpenedType ==
    ASSUME NEW y \in Task, NEW tx \in 0..MaxTx
    PROVE  /\ Opened(y, tx) \in Task /\ Opened(y, tx).pc = "work" /\ Opened(y, tx).tx = tx
BY DEF Opened, Task

LEMMA NewTxFacts ==
    ASSUME TypeOK, NEW k, NewTx(k)
    PROVE  /\ currentTx = 0
           /\ transactionId \in Nat
           /\ transactionId + 1 \in 0..MaxTx /\ transactionId + 1 # 0
           /\ transactionId + 1 \in Nat
           /\ transactionId < transactionId + 1
           /\ transactionId' = transactionId + 1 /\ currentTx' = transactionId + 1
           /\ UNCHANGED <<begun, kept, deletes, final>>
BY TransactionAssumption DEF NewTx, TypeOK

LEMMA NewOwner ==
    ASSUME TypeOK, TxInOrder, NEW k \in Tasks,
           transactionId \in Nat, transactionId' = transactionId + 1,
           tasks'[k].tx = transactionId + 1,
           \A j \in Tasks \ {k} : tasks'[j] = tasks[j]
    PROVE  TxInOrder'
<1>1. \A j \in Tasks \ {k} : tasks'[j].tx \in Nat /\ tasks'[j].tx <= transactionId
  BY TaskTypes DEF TxInOrder
<1>2. \A j \in Tasks : tasks'[j].tx <= transactionId'
  BY <1>1
<1>3. ASSUME NEW j \in Tasks, NEW i \in Tasks, tasks'[j].tx = tasks'[i].tx, tasks'[j].tx # 0
      PROVE  j = i
  BY <1>1, <1>3 DEF TxInOrder
<1>4. \A j \in Tasks : tasks'[j].pc \in {"work", "ending"} => tasks'[j].tx # 0
  BY DEF TxInOrder
<1> QED
  BY <1>2, <1>3, <1>4 DEF TxInOrder

LEMMA SameOwners ==
    ASSUME TxInOrder, transactionId' = transactionId,
           \A j \in Tasks : /\ tasks'[j].tx = tasks[j].tx
                            /\ tasks'[j].pc \in {"work", "ending"} =>
                                  tasks[j].pc \in {"work", "ending"}
    PROVE  TxInOrder'
BY DEF TxInOrder

\* Begin() finds no current transaction: no unit of work has one that is undisturbed.
LEMMA NobodyWorks ==
    ASSUME TxInOrder, Owned, currentTx = 0, NEW j \in Units, tasks[j].pc = "work"
    PROVE  tasks[j].tx \in disturbed
BY DEF TxInOrder, Owned, Tasks

LEMMA BeginManualStep ==
    ASSUME TypeOK, CallsInOrder, SessionInv, NEW k \in Tasks, BeginManual(k)
    PROVE  /\ TypeOK' /\ CallsInOrder' /\ SessionInv'
           /\ disturbed \subseteq disturbed'
           /\ \A t \in TxIds : Consistent(t) => Consistent(t)'
<1> DEFINE n == transactionId + 1
<1>0. /\ k \in Manual /\ NewTx(k)
      /\ UNCHANGED <<calls, server, execs, failures, added, disturbed>>
  BY DEF BeginManual
<1>n. /\ currentTx = 0
      /\ transactionId \in Nat /\ n \in 0..MaxTx /\ n # 0 /\ n \in Nat /\ transactionId < n
      /\ transactionId' = n /\ currentTx' = n
      /\ UNCHANGED <<begun, kept, deletes, final>>
  BY <1>0, NewTxFacts
<1>nn. n = transactionId + 1 /\ transactionId <= n
  BY <1>n
<1> HIDE DEF n
<1>t. tasks' = [tasks EXCEPT ![k] = Opened(tasks[k], n)]
  BY DEF BeginManual, TypeOK, Opened, n
<1>k. /\ tasks' \in [Tasks -> Task]
      /\ tasks'[k].pc = "work" /\ tasks'[k].tx = n
      /\ \A j \in Tasks \ {k} : tasks'[j] = tasks[j]
  <2>1. /\ Opened(tasks[k], n) \in Task
        /\ Opened(tasks[k], n).pc = "work" /\ Opened(tasks[k], n).tx = n
    BY <1>n, TaskTypes, OpenedType
  <2> QED
    BY <1>t, <2>1, TaskUpdate
<1>u. k \notin Units /\ \A j \in Units : j \in Tasks \ {k} /\ tasks'[j] = tasks[j]
  BY <1>0, <1>k, TransactionAssumption DEF Tasks
<1>1. TypeOK'
  <2>1. currentTx' \in 0..transactionId' /\ transactionId' \in 0..MaxTx
    BY <1>n
  <2> QED
    BY <1>0, <1>n, <1>k, <2>1 DEF TypeOK
<1>2. CallsInOrder'
  BY <1>0, <1>n, <1>nn, NoCallStep
<1>3. TxInOrder'
  BY <1>n, <1>nn, <1>k, NewOwner DEF SessionInv
<1>4. Ending'
  BY <1>0, <1>u DEF SessionInv, Ending, UsedAs, Used
<1>5. Owned'
  BY <1>0, <1>n, <1>u, NobodyWorks DEF SessionInv, Owned
<1>6. Released'
  <2> SUFFICES ASSUME NEW j \in Units PROVE tasks'[j].tx # n
    BY <1>n DEF Released
  <2>1. tasks[j].tx <= transactionId /\ tasks[j].tx \in Nat
    BY <1>u, TaskTypes DEF SessionInv, TxInOrder
  <2> QED
    BY <1>n, <1>u, <2>1
<1>7. Resolved'
  BY <1>0, <1>u DEF SessionInv, Resolved
<1>8. \A t \in TxIds : Consistent(t) => Consistent(t)'
  BY <1>0, <1>n, NothingTouched
<1> QED
  BY <1>0, <1>1, <1>2, <1>3, <1>4, <1>5, <1>6, <1>7, <1>8 DEF SessionInv

LEMMA WorkStep ==
    ASSUME TypeOK, CallsInOrder, SessionInv, NEW k \in Tasks, Work(k)
    PROVE  /\ TypeOK' /\ CallsInOrder' /\ SessionInv'
           /\ disturbed \subseteq disturbed'
           /\ \A t \in TxIds : Consistent(t) => Consistent(t)'
<1> DEFINE n == transactionId + 1
<1>0. /\ k \in Units /\ tasks[k].pc \in {"idle", "retry"} /\ NewTx(k)
      /\ Attempt(k, "work", n)
      /\ UNCHANGED <<calls, server, execs, failures, added, disturbed>>
  BY DEF Work, Entered
<1>n. /\ currentTx = 0
      /\ transactionId \in Nat /\ n \in 0..MaxTx /\ n # 0 /\ n \in Nat /\ transactionId < n
      /\ transactionId' = n /\ currentTx' = n
      /\ UNCHANGED <<begun, kept, deletes, final>>
  BY <1>0, NewTxFacts
<1>nn. n = transactionId + 1 /\ transactionId <= n
  BY <1>n
<1> HIDE DEF n
<1>t. tasks' = [tasks EXCEPT ![k] = Attempted(tasks[k], "work", n)]
  BY <1>0 DEF Attempt, Attempted
<1>k. /\ tasks' \in [Tasks -> Task]
      /\ tasks'[k].pc = "work" /\ tasks'[k].tx = n
      /\ \A j \in Tasks \ {k} : tasks'[j] = tasks[j]
  <2>1. /\ Attempted(tasks[k], "work", n) \in Task
        /\ Attempted(tasks[k], "work", n).pc = "work"
        /\ Attempted(tasks[k], "work", n).tx = n
    <3>1. tasks[k] \in Task /\ "work" \in Pcs /\ n \in 0..MaxTx
      BY <1>n, TaskTypes DEF Pcs
    <3> QED
      BY <3>1, AttemptedType
  <2> QED
    BY <1>t, <2>1, TaskUpdate
<1>1. TypeOK'
  <2>1. currentTx' \in 0..transactionId' /\ transactionId' \in 0..MaxTx
    BY <1>n
  <2> QED
    BY <1>0, <1>n, <1>k, <2>1 DEF TypeOK
<1>2. CallsInOrder'
  BY <1>0, <1>n, <1>nn, NoCallStep
<1>3. TxInOrder'
  BY <1>n, <1>nn, <1>k, NewOwner DEF SessionInv
<1>4. Ending'
  <2>1. ASSUME NEW d \in Calls, UsedAs(d, "tx-rollback") \/ UsedAs(d, "tx-commit"),
               calls[d].task = k
        PROVE  FALSE
    BY <1>0, <2>1 DEF SessionInv, Ending
  <2>2. \A d \in Calls : UsedAs(d, "tx-rollback") \/ UsedAs(d, "tx-commit") =>
           calls[d].task # k
    BY <2>1
  <2>3. \A j \in Units \ {k} : tasks'[j] = tasks[j]
    BY <1>k DEF Tasks
  <2> QED
    BY <1>0, <2>2, <2>3 DEF SessionInv, Ending, UsedAs, Used
<1>5. Owned'
  <2> SUFFICES ASSUME NEW j \in Units, tasks'[j].pc = "work", tasks'[j].tx \notin disturbed'
               PROVE  /\ currentTx' = tasks'[j].tx
                      /\ \A d \in Calls : Used(d)' /\ calls'[d].op # "query" =>
                            calls'[d].tx # tasks'[j].tx
    BY DEF Owned
  <2>1. j = k
    <3>1. SUFFICES ASSUME j # k PROVE FALSE
      OBVIOUS
    <3>2. tasks'[j] = tasks[j]
      BY <1>k, <3>1 DEF Tasks
    <3> QED
      BY <1>0, <1>n, <3>2, NobodyWorks DEF SessionInv
  <2>2. ASSUME NEW d \in Calls, Used(d) PROVE calls[d].tx # n
    <3>1. calls[d].tx <= transactionId /\ calls[d].tx \in Nat
      BY <2>2, CallTypes DEF CallsInOrder, CallInOrder
    <3> QED
      BY <1>n, <3>1
  <2> QED
    BY <1>0, <1>n, <1>k, <2>1, <2>2 DEF Used
<1>6. Released'
  <2> SUFFICES ASSUME NEW j \in Units, Settled(j)' PROVE tasks'[j].tx # n
    BY <1>n DEF Released
  <2>0. j \in Tasks \ {k}
    BY <1>k DEF Tasks, Settled
  <2>1. tasks[j].tx <= transactionId /\ tasks[j].tx \in Nat
    BY <2>0, TaskTypes DEF SessionInv, TxInOrder
  <2> QED
    BY <1>n, <1>k, <2>0, <2>1
<1>7. Resolved'
  <2> SUFFICES ASSUME NEW j \in Units, tasks'[j].pc = "resolved", tasks'[j].tx \notin disturbed'
               PROVE  tasks'[j].tx \in server'.committed
    BY DEF Resolved
  <2>1. j \in Tasks \ {k}
    BY <1>k DEF Tasks
  <2> QED
    BY <1>0, <1>k, <2>1 DEF SessionInv, Resolved
<1>8. \A t \in TxIds : Consistent(t) => Consistent(t)'
  BY <1>0, <1>n, NothingTouched
<1> QED
  BY <1>0, <1>1, <1>2, <1>3, <1>4, <1>5, <1>6, <1>7, <1>8 DEF SessionInv

LEMMA AddStep ==
    ASSUME TypeOK, CallsInOrder, SessionInv, NEW k \in Tasks, NEW r \in Records, Add(k, r)
    PROVE  /\ TypeOK' /\ CallsInOrder' /\ SessionInv'
           /\ disturbed \subseteq disturbed'
           /\ \A t \in TxIds \ disturbed' : Consistent(t) => Consistent(t)'
<1> DEFINE t == tasks[k].tx
<1>0. /\ tasks[k].pc = "work" /\ r \notin added[t]
      /\ kept' = [kept EXCEPT ![t] = @ \cup ({r} \cap Writes)]
      /\ deletes' = [deletes EXCEPT ![t] = @ \cup ({r} \cap Deletes)]
      /\ added' = [added EXCEPT ![t] = @ \cup {r}]
      /\ Use(t, t)
      /\ UNCHANGED <<currentTx, transactionId, begun, final, tasks, calls, server,
                     execs, failures>>
  BY DEF Add
<1>t. t \in 0..MaxTx /\ t # 0 /\ t \in TxIds
  <2>1. t \in 0..MaxTx
    BY TaskTypes
  <2>2. t # 0
    BY <1>0 DEF SessionInv, TxInOrder
  <2> QED
    BY <2>1, <2>2, TransactionAssumption DEF TxIds
<1> HIDE DEF t
<1>d. /\ disturbed' \subseteq TxIds /\ disturbed \subseteq disturbed'
      /\ t \notin disturbed' => Pending(t) = {}
  BY <1>0, <1>t, UseType
<1>1. TypeOK'
  <2>1. kept' \in [TxIds -> SUBSET Writes]
    BY <1>0 DEF TypeOK
  <2>2. deletes' \in [TxIds -> SUBSET Deletes]
    BY <1>0 DEF TypeOK
  <2>3. added' \in [TxIds -> SUBSET Records]
    BY <1>0 DEF TypeOK
  <2> QED
    BY <1>0, <1>d, <2>1, <2>2, <2>3 DEF TypeOK
<1>2. CallsInOrder'
  BY <1>0, NoCallStep, CallTypes DEF TypeOK, CallsInOrder, CallInOrder, Used
<1>3. SessionInv'
  <2>1. TxInOrder'
    BY <1>0 DEF SessionInv, TxInOrder
  <2>2. Ending'
    BY <1>0, <1>d DEF SessionInv, Ending, UsedAs, Used
  <2>3. Owned'
    BY <1>0, <1>d DEF SessionInv, Owned, Used
  <2>4. Released'
    BY <1>0 DEF SessionInv, Released, UsedAs, Used, Settled
  <2>5. Resolved'
    BY <1>0, <1>d DEF SessionInv, Resolved
  <2> QED
    BY <2>1, <2>2, <2>3, <2>4, <2>5 DEF SessionInv
<1>4. ASSUME NEW u \in TxIds \ disturbed', Consistent(u) PROVE Consistent(u)'
  <2>1. (Known(u)' <=> Known(u)) /\ Applied(u)' = Applied(u)
    BY <1>0 DEF Known, Applied
  <2>2. CASE u # t
    <3>1. kept'[u] = kept[u] /\ deletes'[u] = deletes[u] /\ added'[u] = added[u]
      BY <1>0, <2>2 DEF TypeOK
    <3> QED
      BY <1>0, <1>4, <2>1, <3>1, Untouched
  <2>3. CASE u = t
    <3>1. Pending(u) = {} /\ Pending(u)' = {}
      BY <1>0, <1>d, <1>4, <2>3 DEF Pending
    <3>2. /\ kept'[u] = kept[u] \cup ({r} \cap Writes)
          /\ deletes'[u] = deletes[u] \cup ({r} \cap Deletes)
          /\ added'[u] = added[u] \cup {r}
      BY <1>0, <2>3 DEF TypeOK
    <3>3. added[u] = final[u] \cup kept[u] \cup deletes[u] /\ r \notin added[u]
      BY <1>0, <1>4, <2>3 DEF Consistent
    <3>4. Applied(u) = final[u] /\ (begun[u] <=> Known(u))
      BY <1>4, <3>1 DEF Consistent
    <3>5. /\ added'[u] = final'[u] \cup kept'[u] \cup deletes'[u]
          /\ kept'[u] \cap final'[u] = {}
      BY <1>0, <1>4, <3>2, <3>3 DEF Consistent, Records
    <3>6. (\A d \in Pending(u)' : ~Flushed(d)') =>
             Applied(u)' = final'[u] /\ (begun'[u] <=> Known(u)')
      BY <1>0, <2>1, <3>4
    <3>7. \A w \in Writes : server'.applied[u][w] <= 1
      BY <1>0, <1>4 DEF Consistent
    <3> QED
      BY <3>1, <3>5, <3>6, <3>7 DEF Consistent
  <2> QED
    BY <2>2, <2>3
<1> QED
  BY <1>1, <1>2, <1>3, <1>4, <1>d

\* The transactions of the tasks, as numbers; no task has the transaction of another.
LEMMA Owners ==
    ASSUME TypeOK, TxInOrder, NEW k \in Tasks
    PROVE  /\ tasks[k].tx \in Nat /\ tasks[k].tx <= transactionId
           /\ \A j \in Tasks \ {k} : tasks[k].tx # 0 => tasks[j].tx # tasks[k].tx
BY TaskTypes DEF TxInOrder

\* No call ends a unit of work that has not called commit() and has not failed.
LEMMA NoEnding ==
    ASSUME Ending, NEW k \in Units, tasks[k].pc \notin {"ending", "rejected"}
    PROVE  \A d \in Calls : UsedAs(d, "tx-rollback") \/ UsedAs(d, "tx-commit") =>
              calls[d].task # k
<1> SUFFICES ASSUME NEW d \in Calls, UsedAs(d, "tx-rollback") \/ UsedAs(d, "tx-commit"),
                    calls[d].task = k
             PROVE  FALSE
  OBVIOUS
<1> QED
  BY DEF Ending

LEMMA WorkThrowsStep ==
    ASSUME TypeOK, CallsInOrder, SessionInv, NEW k \in Tasks, NEW c \in Calls,
           WorkThrows(k, c)
    PROVE  /\ TypeOK' /\ CallsInOrder' /\ SessionInv'
           /\ disturbed \subseteq disturbed'
           /\ \A t \in TxIds \ disturbed' : Consistent(t) => Consistent(t)'
<1> DEFINE n == transactionId + 1
<1>0. /\ k \in Units /\ tasks[k].pc \in {"idle", "retry"} /\ NewTx(k)
      /\ Attempt(k, "rejected", n)
      /\ StartCall(c, k, "tx-rollback", n, n)
      /\ UNCHANGED <<server, execs, failures, added>>
  BY DEF WorkThrows, Entered
<1>n. /\ currentTx = 0
      /\ transactionId \in Nat /\ n \in 0..MaxTx /\ n # 0 /\ n \in Nat /\ transactionId < n
      /\ transactionId' = n /\ currentTx' = n
      /\ UNCHANGED <<begun, kept, deletes, final>>
  BY <1>0, NewTxFacts
<1>nn. n = transactionId + 1 /\ transactionId <= n /\ n <= n
  BY <1>n
<1> HIDE DEF n
<1>t. tasks' = [tasks EXCEPT ![k] = Attempted(tasks[k], "rejected", n)]
  BY <1>0 DEF Attempt, Attempted
<1>k. /\ tasks' \in [Tasks -> Task]
      /\ tasks'[k].pc = "rejected" /\ tasks'[k].tx = n
      /\ \A j \in Tasks \ {k} : tasks'[j] = tasks[j]
  <2>1. /\ Attempted(tasks[k], "rejected", n) \in Task
        /\ Attempted(tasks[k], "rejected", n).pc = "rejected"
        /\ Attempted(tasks[k], "rejected", n).tx = n
    <3>1. tasks[k] \in Task /\ "rejected" \in Pcs /\ n \in 0..MaxTx
      BY <1>n, TaskTypes DEF Pcs
    <3> QED
      BY <3>1, AttemptedType
  <2> QED
    BY <1>t, <2>1, TaskUpdate
<1>c. /\ ~Used(c) /\ Used(c)'
      /\ calls' \in [Calls -> Call]
      /\ \A d \in Calls \ {c} : calls'[d] = calls[d]
      /\ calls'[c].op = "tx-rollback" /\ calls'[c].tx = n /\ calls'[c].task = k
      /\ disturbed' \subseteq TxIds
      /\ disturbed \subseteq disturbed'
      /\ CallsInOrder'
      /\ \A u \in TxIds \ disturbed' : Consistent(u) => Consistent(u)'
  <2>1. "tx-rollback" \in Ops
    BY DEF Ops
  <2> QED
    BY <1>0, <1>n, <1>nn, <2>1, StartCallStep
<1>1. TypeOK'
  <2>1. currentTx' \in 0..transactionId' /\ transactionId' \in 0..MaxTx
    BY <1>n
  <2> QED
    BY <1>0, <1>n, <1>k, <1>c, <2>1 DEF TypeOK
<1>3. TxInOrder'
  BY <1>n, <1>nn, <1>k, NewOwner DEF SessionInv
<1>4. Ending'
  <2>1. \A d \in Calls : UsedAs(d, "tx-rollback") \/ UsedAs(d, "tx-commit") =>
           calls[d].task # k
    BY <1>0, NoEnding DEF SessionInv
  <2>2. \A d \in Calls : calls'[d] = calls[d] \/ d = c
    BY <1>c
  <2>3. \A d \in Calls : calls'[d] # calls[d] /\ Used(d)' => calls'[d].task = k
    BY <1>c
  <2>4. \A d \in Calls : ~(UsedAs(d, "tx-commit")' /\ calls'[d].task = k)
    BY <1>c, <2>1 DEF UsedAs, Used
  <2>5. Ending
    BY DEF SessionInv
  <2> QED
    BY <1>k, <1>c, <2>2, <2>3, <2>4, <2>5, EndingAfter
<1>5. Owned'
  <2> SUFFICES ASSUME NEW j \in Units, tasks'[j].pc = "work", tasks'[j].tx \notin disturbed'
               PROVE  FALSE
    BY DEF Owned
  <2>1. tasks'[j] = tasks[j]
    BY <1>k DEF Tasks
  <2> QED
    BY <1>n, <1>c, <2>1, NobodyWorks DEF SessionInv
<1>6. Released'
  <2> SUFFICES ASSUME NEW j \in Units
               PROVE  \E d \in Calls : UsedAs(d, "tx-rollback")' /\ calls'[d].tx = currentTx'
    BY DEF Released
  <2> QED
    BY <1>n, <1>c DEF UsedAs
<1>7. Resolved'
  <2> SUFFICES ASSUME NEW j \in Units, tasks'[j].pc = "resolved", tasks'[j].tx \notin disturbed'
               PROVE  tasks'[j].tx \in server'.committed
    BY DEF Resolved
  <2>1. tasks'[j] = tasks[j]
    BY <1>k DEF Tasks
  <2> QED
    BY <1>0, <1>c, <2>1 DEF SessionInv, Resolved
<1> QED
  BY <1>1, <1>c, <1>3, <1>4, <1>5, <1>6, <1>7 DEF SessionInv

LEMMA BeginThrowsStep ==
    ASSUME TypeOK, CallsInOrder, SessionInv, NEW k \in Tasks, NEW c \in Calls,
           BeginThrows(k, c)
    PROVE  /\ TypeOK' /\ CallsInOrder' /\ SessionInv'
           /\ disturbed \subseteq disturbed'
           /\ \A t \in TxIds \ disturbed' : Consistent(t) => Consistent(t)'
<1> DEFINE tx == tasks[k].tx
<1>0. /\ k \in Units /\ tasks[k].pc \in {"idle", "retry"} /\ currentTx # 0
      /\ Attempt(k, "rejected", tx)
      /\ StartCall(c, k, "tx-rollback", currentTx, tx)
      /\ UNCHANGED <<currentTx, transactionId, begun, kept, deletes, final>>
      /\ UNCHANGED <<server, execs, failures, added>>
  BY DEF BeginThrows, Entered, clientVars
<1>n. /\ currentTx \in 0..MaxTx /\ currentTx <= transactionId
      /\ transactionId \in Nat /\ transactionId <= transactionId
  BY TransactionAssumption DEF TypeOK
<1>x. tx \in 0..MaxTx /\ tx = tasks[k].tx
  BY TaskTypes
<1> HIDE DEF tx
<1>t. tasks' = [tasks EXCEPT ![k] = Attempted(tasks[k], "rejected", tx)]
  BY <1>0 DEF Attempt, Attempted
<1>k. /\ tasks' \in [Tasks -> Task]
      /\ tasks'[k].pc = "rejected" /\ tasks'[k].tx = tasks[k].tx
      /\ \A j \in Tasks \ {k} : tasks'[j] = tasks[j]
  <2>1. /\ Attempted(tasks[k], "rejected", tx) \in Task
        /\ Attempted(tasks[k], "rejected", tx).pc = "rejected"
        /\ Attempted(tasks[k], "rejected", tx).tx = tx
    <3>1. tasks[k] \in Task /\ "rejected" \in Pcs /\ tx \in 0..MaxTx
      BY <1>x, TaskTypes DEF Pcs
    <3> QED
      BY <3>1, AttemptedType
  <2> QED
    BY <1>t, <1>x, <2>1, TaskUpdate
<1>c. /\ ~Used(c) /\ Used(c)'
      /\ calls' \in [Calls -> Call]
      /\ \A d \in Calls \ {c} : calls'[d] = calls[d]
      /\ calls'[c].op = "tx-rollback" /\ calls'[c].tx = currentTx /\ calls'[c].task = k
      /\ disturbed' \subseteq TxIds
      /\ disturbed \subseteq disturbed'
      /\ currentTx # 0 /\ currentTx # tx => currentTx \in disturbed'
      /\ CallsInOrder'
      /\ \A u \in TxIds \ disturbed' : Consistent(u) => Consistent(u)'
  <2>1. "tx-rollback" \in Ops
    BY DEF Ops
  <2> QED
    BY <1>0, <1>n, <2>1, StartCallStep
<1>1. TypeOK'
  BY <1>0, <1>k, <1>c DEF TypeOK
<1>3. TxInOrder'
  BY <1>0, <1>k, SameOwners DEF SessionInv
<1>4. Ending'
  <2>1. \A d \in Calls : UsedAs(d, "tx-rollback") \/ UsedAs(d, "tx-commit") =>
           calls[d].task # k
    BY <1>0, NoEnding DEF SessionInv
  <2>2. \A d \in Calls : calls'[d] = calls[d] \/ d = c
    BY <1>c
  <2>3. \A d \in Calls : calls'[d] # calls[d] /\ Used(d)' => calls'[d].task = k
    BY <1>c
  <2>4. \A d \in Calls : ~(UsedAs(d, "tx-commit")' /\ calls'[d].task = k)
    BY <1>c, <2>1 DEF UsedAs, Used
  <2>5. Ending
    BY DEF SessionInv
  <2> QED
    BY <1>k, <1>c, <2>2, <2>3, <2>4, <2>5, EndingAfter
<1>5. Owned'
  <2> SUFFICES ASSUME NEW j \in Units, tasks'[j].pc = "work", tasks'[j].tx \notin disturbed'
               PROVE  FALSE
    BY DEF Owned
  <2>1. j # k /\ j \in Tasks \ {k} /\ tasks'[j] = tasks[j]
    BY <1>k DEF Tasks
  <2>2. currentTx = tasks[j].tx
    BY <1>c, <2>1 DEF SessionInv, Owned
  <2>3. tasks[j].tx # tasks[k].tx
    BY <1>0, <2>1, <2>2, Owners DEF SessionInv
  <2> QED
    BY <1>0, <1>c, <1>x, <2>1, <2>2, <2>3
<1>6. Released'
  <2> SUFFICES ASSUME NEW j \in Units
               PROVE  \E d \in Calls : UsedAs(d, "tx-rollback")' /\ calls'[d].tx = currentTx'
    BY DEF Released
  <2> QED
    BY <1>0, <1>c DEF UsedAs
<1>7. Resolved'
  <2> SUFFICES ASSUME NEW j \in Units, tasks'[j].pc = "resolved", tasks'[j].tx \notin disturbed'
               PROVE  tasks'[j].tx \in server'.committed
    BY DEF Resolved
  <2>1. tasks'[j] = tasks[j]
    BY <1>k DEF Tasks
  <2> QED
    BY <1>0, <1>c, <2>1 DEF SessionInv, Resolved
<1> QED
  BY <1>1, <1>c, <1>3, <1>4, <1>5, <1>6, <1>7 DEF SessionInv

LEMMA ExecStep ==
    ASSUME TypeOK, CallsInOrder, SessionInv, NEW k \in Tasks, NEW c \in Calls, Exec(k, c)
    PROVE  /\ TypeOK' /\ CallsInOrder' /\ SessionInv'
           /\ disturbed \subseteq disturbed'
           /\ \A t \in TxIds \ disturbed' : Consistent(t) => Consistent(t)'
<1>0. /\ execs' = execs + 1
      /\ StartCall(c, k, "query", currentTx, tasks[k].tx)
      /\ UNCHANGED <<currentTx, transactionId, begun, kept, deletes, final>>
      /\ UNCHANGED <<tasks, server, failures, added>>
  BY DEF Exec, clientVars
<1>n. /\ currentTx \in 0..MaxTx /\ currentTx <= transactionId
      /\ transactionId \in Nat /\ transactionId <= transactionId
  BY TransactionAssumption DEF TypeOK
<1>c. /\ ~Used(c) /\ Used(c)'
      /\ calls' \in [Calls -> Call]
      /\ \A d \in Calls \ {c} : calls'[d] = calls[d]
      /\ calls'[c].op = "query"
      /\ disturbed' \subseteq TxIds
      /\ disturbed \subseteq disturbed'
      /\ CallsInOrder'
      /\ \A u \in TxIds \ disturbed' : Consistent(u) => Consistent(u)'
  <2>1. "query" \in Ops
    BY DEF Ops
  <2> QED
    BY <1>0, <1>n, <2>1, StartCallStep
<1>d. ASSUME NEW d \in Calls, NEW op, op # "query"
      PROVE  /\ UsedAs(d, op)' => calls'[d] = calls[d] /\ UsedAs(d, op)
             /\ UsedAs(d, op) => UsedAs(d, op)' /\ calls'[d] = calls[d]
  BY <1>c, <1>d DEF UsedAs, Used
<1>1. TypeOK'
  <2>1. execs' \in Nat
    BY <1>0 DEF TypeOK
  <2> QED
    BY <1>0, <1>c, <2>1 DEF TypeOK
<1>2. TxInOrder'
  BY <1>0 DEF SessionInv, TxInOrder
<1>3. Ending'
  <2>1. /\ \A d \in Calls : UsedAs(d, "tx-rollback")' =>
              calls'[d] = calls[d] /\ UsedAs(d, "tx-rollback")
        /\ \A d \in Calls : UsedAs(d, "tx-commit")' =>
              calls'[d] = calls[d] /\ UsedAs(d, "tx-commit")
    BY <1>d
  <2> QED
    BY <1>0, <1>c, <2>1 DEF SessionInv, Ending
<1>4. Owned'
  BY <1>0, <1>c DEF SessionInv, Owned, Used
<1>5. Released'
  <2>1. \A d \in Calls : UsedAs(d, "tx-rollback") =>
           calls'[d] = calls[d] /\ UsedAs(d, "tx-rollback")'
    BY <1>d
  <2> QED
    BY <1>0, <2>1 DEF SessionInv, Released, Settled
<1>6. Resolved'
  BY <1>0, <1>c DEF SessionInv, Resolved
<1> QED
  BY <1>1, <1>2, <1>3, <1>4, <1>5, <1>6, <1>c DEF SessionInv

LEMMA WorkResolvesStep ==
    ASSUME TypeOK, CallsInOrder, SessionInv, NEW k \in Tasks, NEW c \in Calls,
           WorkResolves(k, c)
    PROVE  /\ TypeOK' /\ CallsInOrder' /\ SessionInv'
           /\ disturbed \subseteq disturbed'
           /\ \A t \in TxIds \ disturbed' : Consistent(t) => Consistent(t)'
<1>0. /\ k \in Units /\ tasks[k].pc = "work"
      /\ UNCHANGED <<currentTx, transactionId, begun, kept, deletes, final>>
      /\ UNCHANGED <<server, execs, failures, added>>
  BY DEF WorkResolves, clientVars
<1>n. /\ currentTx \in 0..MaxTx /\ currentTx <= transactionId
      /\ transactionId \in Nat /\ transactionId <= transactionId
  BY TransactionAssumption DEF TypeOK
<1>y. tasks[k] \in Task /\ tasks[k].tx # 0
  BY <1>0, TaskTypes DEF SessionInv, TxInOrder
<1>e. \A d \in Calls : UsedAs(d, "tx-rollback") \/ UsedAs(d, "tx-commit") =>
         calls[d].task # k
  BY <1>0, NoEnding DEF SessionInv
<1>1. CASE currentTx # 0
  <2>t. tasks' = [tasks EXCEPT ![k] = AtPc(tasks[k], "ending")]
    BY <1>1 DEF WorkResolves, TypeOK, AtPc
  <2>s. StartCall(c, k, "tx-commit", currentTx, tasks[k].tx)
    BY <1>1 DEF WorkResolves
  <2>k. /\ tasks' \in [Tasks -> Task]
        /\ tasks'[k].pc = "ending" /\ tasks'[k].tx = tasks[k].tx
        /\ \A j \in Tasks \ {k} : tasks'[j] = tasks[j]
    <3>1. /\ AtPc(tasks[k], "ending") \in Task
          /\ AtPc(tasks[k], "ending").pc = "ending"
          /\ AtPc(tasks[k], "ending").tx = tasks[k].tx
      BY <1>y, AtPcType DEF Pcs
    <3> QED
      BY <2>t, <3>1, TaskUpdate
  <2>c. /\ ~Used(c) /\ Used(c)'
        /\ calls' \in [Calls -> Call]
        /\ \A d \in Calls \ {c} : calls'[d] = calls[d]
        /\ calls'[c].op = "tx-commit" /\ calls'[c].tx = currentTx /\ calls'[c].task = k
        /\ disturbed' \subseteq TxIds
        /\ disturbed \subseteq disturbed'
        /\ currentTx # 0 /\ currentTx # tasks[k].tx => currentTx \in disturbed'
        /\ CallsInOrder'
        /\ \A u \in TxIds \ disturbed' : Consistent(u) => Consistent(u)'
    <3>1. "tx-commit" \in Ops
      BY DEF Ops
    <3> QED
      BY <1>0, <1>1, <1>n, <2>s, <3>1, StartCallStep
  <2>1. TypeOK'
    BY <1>0, <2>k, <2>c DEF TypeOK
  <2>2. TxInOrder'
    BY <1>0, <2>k, SameOwners DEF SessionInv
  <2>3. Ending'
    <3>1. tasks'[k].tx \in disturbed' \/ currentTx = tasks'[k].tx
      BY <1>0, <2>c, <2>k DEF SessionInv, Owned
    <3>2. \A d \in Calls : calls'[d] = calls[d] \/ d = c
      BY <2>c
    <3>3. \A d \in Calls : calls'[d] # calls[d] /\ Used(d)' => calls'[d].task = k
      BY <2>c
    <3>4. \A d \in Calls : ~(UsedAs(d, "tx-rollback")' /\ calls'[d].task = k)
      BY <1>e, <2>c DEF UsedAs, Used
    <3>5. \A d \in Calls : UsedAs(d, "tx-commit")' /\ calls'[d].task = k => d = c
      BY <1>e, <2>c DEF UsedAs, Used
    <3>6. Ending
      BY DEF SessionInv
    <3> QED
      BY <2>k, <2>c, <3>1, <3>2, <3>3, <3>4, <3>5, <3>6, EndingAfter
  <2>4. Owned'
    <3> SUFFICES ASSUME NEW j \in Units, tasks'[j].pc = "work", tasks'[j].tx \notin disturbed'
                 PROVE  FALSE
      BY DEF Owned
    <3>1. j # k /\ j \in Tasks \ {k} /\ tasks'[j] = tasks[j]
      BY <2>k DEF Tasks
    <3>2. currentTx = tasks[j].tx
      BY <2>c, <3>1 DEF SessionInv, Owned
    <3>3. tasks[j].tx # tasks[k].tx
      BY <1>y, <3>1, Owners DEF SessionInv
    <3> QED
      BY <1>1, <2>c, <3>1, <3>2, <3>3
  <2>5. Released'
    <3> SUFFICES ASSUME NEW j \in Units, Settled(j)', tasks'[j].tx # 0,
                        currentTx' = tasks'[j].tx, ~(failures' > 0)
                 PROVE  \E d \in Calls : UsedAs(d, "tx-rollback")' /\ calls'[d].tx = currentTx'
      BY DEF Released
    <3>1. tasks'[j] = tasks[j] /\ Settled(j)
      BY <2>k DEF Tasks, Settled
    <3>2. PICK d \in Calls : UsedAs(d, "tx-rollback") /\ calls[d].tx = currentTx
      BY <1>0, <3>1 DEF SessionInv, Released
    <3>3. d # c
      BY <2>c, <3>2 DEF UsedAs
    <3> QED
      BY <1>0, <2>c, <3>2, <3>3 DEF UsedAs, Used
  <2>6. Resolved'
    <3> SUFFICES ASSUME NEW j \in Units, tasks'[j].pc = "resolved",
                        tasks'[j].tx \notin disturbed'
                 PROVE  tasks'[j].tx \in server'.committed
      BY DEF Resolved
    <3>1. tasks'[j] = tasks[j]
      BY <2>k DEF Tasks
    <3> QED
      BY <1>0, <2>c, <3>1 DEF SessionInv, Resolved
  <2> QED
    BY <2>1, <2>c, <2>2, <2>3, <2>4, <2>5, <2>6 DEF SessionInv
<1>2. CASE currentTx = 0
  <2>t. tasks' = [tasks EXCEPT ![k] = AtPc(tasks[k], "resolved")]
    BY <1>2 DEF WorkResolves, TypeOK, AtPc
  <2>s. UNCHANGED <<calls, disturbed>>
    BY <1>2 DEF WorkResolves
  <2>k. /\ tasks' \in [Tasks -> Task]
        /\ tasks'[k].pc = "resolved" /\ tasks'[k].tx = tasks[k].tx
        /\ \A j \in Tasks \ {k} : tasks'[j] = tasks[j]
    <3>1. /\ AtPc(tasks[k], "resolved") \in Task
          /\ AtPc(tasks[k], "resolved").pc = "resolved"
          /\ AtPc(tasks[k], "resolved").tx = tasks[k].tx
      BY <1>y, AtPcType DEF Pcs
    <3> QED
      BY <2>t, <3>1, TaskUpdate
  <2>1. TypeOK'
    BY <1>0, <2>k, <2>s DEF TypeOK
  <2>2. TxInOrder'
    BY <1>0, <2>k, SameOwners DEF SessionInv
  <2>3. Ending'
    <3>1. \A d \in Calls : UsedAs(d, "tx-rollback")' \/ UsedAs(d, "tx-commit")' =>
             calls'[d].task # k
      BY <1>e, <2>s DEF UsedAs, Used
    <3>2. Ending
      BY DEF SessionInv
    <3> QED
      BY <2>k, <2>s, <3>1, <3>2, EndingAfter
  <2>4. Owned'
    <3> SUFFICES ASSUME NEW j \in Units, tasks'[j].pc = "work", tasks'[j].tx \notin disturbed'
                 PROVE  FALSE
      BY DEF Owned
    <3>1. tasks'[j] = tasks[j]
      BY <2>k DEF Tasks
    <3> QED
      BY <1>2, <2>s, <3>1, NobodyWorks DEF SessionInv
  <2>5. Released'
    BY <1>0, <1>2 DEF Released
  <2>6. Resolved'
    <3> SUFFICES ASSUME NEW j \in Units, tasks'[j].pc = "resolved",
                        tasks'[j].tx \notin disturbed'
                 PROVE  tasks'[j].tx \in server'.committed
      BY DEF Resolved
    <3>1. j # k
      BY <1>0, <1>2, <2>k, <2>s, NobodyWorks DEF SessionInv
    <3>2. tasks'[j] = tasks[j]
      BY <2>k, <3>1 DEF Tasks
    <3> QED
      BY <1>0, <2>s, <3>2 DEF SessionInv, Resolved
  <2>7. CallsInOrder'
    BY <1>0, <1>n, <2>s, NoCallStep
  <2>8. \A t \in TxIds : Consistent(t) => Consistent(t)'
    BY <1>0, <2>s, NothingTouched
  <2> QED
    BY <2>1, <2>2, <2>3, <2>4, <2>5, <2>6, <2>7, <2>8, <2>s DEF SessionInv
<1> QED
  BY <1>1, <1>2

LEMMA WorkRejectsStep ==
    ASSUME TypeOK, CallsInOrder, SessionInv, NEW k \in Tasks, NEW e \in Refusals,
           WorkRejects(k, e)
    PROVE  /\ TypeOK' /\ CallsInOrder' /\ SessionInv'
           /\ disturbed \subseteq disturbed'
           /\ \A t \in TxIds : Consistent(t) => Consistent(t)'
<1> DEFINE pc == IF e = "mvcc" THEN "retry" ELSE "rejected"
<1>0. /\ k \in Units /\ tasks[k].pc = "work"
      /\ currentTx' = 0 /\ Forgets(tasks[k].tx)
      /\ UNCHANGED <<transactionId, begun, kept, deletes, final, calls, server, execs,
                     failures, added>>
  BY DEF WorkRejects, Failed
<1>t. tasks' = [tasks EXCEPT ![k] = AtPc(tasks[k], pc)]
  BY DEF WorkRejects, Failed, TypeOK, AtPc
<1>p. pc \in {"retry", "rejected"}
  OBVIOUS
<1> HIDE DEF pc
<1>n. /\ currentTx \in 0..MaxTx /\ transactionId \in Nat /\ transactionId <= transactionId
      /\ 0 \in 0..transactionId
  BY TransactionAssumption DEF TypeOK
<1>y. tasks[k] \in Task /\ tasks[k].tx # 0
  BY <1>0, TaskTypes DEF SessionInv, TxInOrder
<1>e. \A d \in Calls : UsedAs(d, "tx-rollback") \/ UsedAs(d, "tx-commit") =>
         calls[d].task # k
  BY <1>0, NoEnding DEF SessionInv
<1>k. /\ tasks' \in [Tasks -> Task]
      /\ tasks'[k].pc = pc /\ tasks'[k].tx = tasks[k].tx
      /\ \A j \in Tasks \ {k} : tasks'[j] = tasks[j]
  <2>0. pc \in Pcs
    BY <1>p DEF Pcs
  <2>1. AtPc(tasks[k], pc) \in Task /\ AtPc(tasks[k], pc).pc = pc
        /\ AtPc(tasks[k], pc).tx = tasks[k].tx
    BY <1>y, <2>0, AtPcType
  <2> QED
    BY <1>t, <2>1, TaskUpdate
<1>d. /\ disturbed' \subseteq TxIds
      /\ disturbed \subseteq disturbed'
      /\ currentTx # 0 /\ currentTx # tasks[k].tx => currentTx \in disturbed'
  BY <1>0, ForgetsType
<1>1. TypeOK'
  BY <1>0, <1>n, <1>k, <1>d DEF TypeOK
<1>2. TxInOrder'
  BY <1>0, <1>k, <1>p, SameOwners DEF SessionInv
<1>3. Ending'
  <2>1. \A d \in Calls : UsedAs(d, "tx-rollback")' \/ UsedAs(d, "tx-commit")' =>
           calls'[d].task # k
    BY <1>0, <1>e DEF UsedAs, Used
  <2>2. Ending
    BY DEF SessionInv
  <2> QED
    BY <1>0, <1>k, <1>d, <2>1, <2>2, EndingAfter
<1>4. Owned'
  <2> SUFFICES ASSUME NEW j \in Units, tasks'[j].pc = "work", tasks'[j].tx \notin disturbed'
               PROVE  FALSE
    BY DEF Owned
  <2>1. j # k /\ j \in Tasks \ {k} /\ tasks'[j] = tasks[j]
    BY <1>k, <1>p DEF Tasks
  <2>2. currentTx = tasks[j].tx
    BY <1>d, <2>1 DEF SessionInv, Owned
  <2>3. tasks[j].tx # tasks[k].tx
    BY <1>y, <2>1, Owners DEF SessionInv
  <2>4. tasks[j].tx # 0
    BY <2>1 DEF SessionInv, TxInOrder
  <2> QED
    BY <1>d, <2>1, <2>2, <2>3, <2>4
<1>5. Released'
  BY <1>0 DEF Released
<1>6. Resolved'
  <2> SUFFICES ASSUME NEW j \in Units, tasks'[j].pc = "resolved",
                      tasks'[j].tx \notin disturbed'
               PROVE  tasks'[j].tx \in server'.committed
    BY DEF Resolved
  <2>1. tasks'[j] = tasks[j]
    BY <1>k, <1>p DEF Tasks
  <2> QED
    BY <1>0, <1>d, <2>1 DEF SessionInv, Resolved
<1>7. CallsInOrder'
  BY <1>0, <1>n, NoCallStep
<1>8. \A t \in TxIds : Consistent(t) => Consistent(t)'
  BY <1>0, NothingTouched
<1> QED
  BY <1>1, <1>2, <1>3, <1>4, <1>5, <1>6, <1>7, <1>8, <1>d DEF SessionInv

LEMMA EndStep ==
    ASSUME TypeOK, CallsInOrder, SessionInv, NEW k \in Tasks, NEW c \in Calls, NEW op \in Ops,
           End(k, c, op)
    PROVE  /\ TypeOK' /\ CallsInOrder' /\ SessionInv'
           /\ disturbed \subseteq disturbed'
           /\ \A t \in TxIds \ disturbed' : Consistent(t) => Consistent(t)'
<1>0. /\ k \in Manual /\ tasks[k].pc = "work"
      /\ op \in {"tx-commit", "tx-rollback"}
      /\ StartCall(c, k, op, tasks[k].tx, tasks[k].tx)
      /\ UNCHANGED <<currentTx, transactionId, begun, kept, deletes, final>>
      /\ UNCHANGED <<server, execs, failures, added>>
  BY DEF End, clientVars
<1>t. tasks' = [tasks EXCEPT ![k] = AtPc(tasks[k], "ending")]
  BY DEF End, TypeOK, AtPc
<1>n. transactionId \in Nat /\ transactionId <= transactionId
  BY TransactionAssumption DEF TypeOK
<1>y. /\ tasks[k] \in Task /\ tasks[k].tx # 0 /\ tasks[k].tx \in 0..MaxTx
      /\ tasks[k].tx <= transactionId
  BY <1>0, TaskTypes DEF SessionInv, TxInOrder
<1>k. /\ tasks' \in [Tasks -> Task]
      /\ tasks'[k].pc = "ending" /\ tasks'[k].tx = tasks[k].tx
      /\ \A j \in Tasks \ {k} : tasks'[j] = tasks[j]
  <2>1. /\ AtPc(tasks[k], "ending") \in Task
        /\ AtPc(tasks[k], "ending").pc = "ending"
        /\ AtPc(tasks[k], "ending").tx = tasks[k].tx
    BY <1>y, AtPcType DEF Pcs
  <2> QED
    BY <1>t, <2>1, TaskUpdate
<1>u. k \notin Units /\ (\A j \in Units : j \in Tasks \ {k} /\ tasks'[j] = tasks[j])
  BY <1>0, <1>k, TransactionAssumption DEF Tasks
<1>c. /\ ~Used(c) /\ Used(c)'
      /\ calls' \in [Calls -> Call]
      /\ \A d \in Calls \ {c} : calls'[d] = calls[d]
      /\ calls'[c].op = op /\ calls'[c].tx = tasks[k].tx /\ calls'[c].task = k
      /\ disturbed' \subseteq TxIds
      /\ disturbed \subseteq disturbed'
      /\ CallsInOrder'
      /\ \A v \in TxIds \ disturbed' : Consistent(v) => Consistent(v)'
  BY <1>0, <1>n, <1>y, StartCallStep
<1>1. TypeOK'
  BY <1>0, <1>k, <1>c DEF TypeOK
<1>2. TxInOrder'
  BY <1>0, <1>k, SameOwners DEF SessionInv
<1>3. Ending'
  <2>1. \A d \in Calls : calls'[d] = calls[d] \/ d = c
    BY <1>c
  <2>2. \A d \in Calls : calls'[d] # calls[d] /\ Used(d)' => calls'[d].task = k
    BY <1>c
  <2>3. Ending
    BY DEF SessionInv
  <2> QED
    BY <1>k, <1>u, <1>c, <2>1, <2>2, <2>3, EndingAfter
<1>4. Owned'
  <2> SUFFICES ASSUME NEW j \in Units, tasks'[j].pc = "work", tasks'[j].tx \notin disturbed'
               PROVE  /\ currentTx' = tasks'[j].tx
                      /\ \A d \in Calls : Used(d)' /\ calls'[d].op # "query" =>
                            calls'[d].tx # tasks'[j].tx
    BY DEF Owned
  <2>1. tasks'[j] = tasks[j] /\ j \in Tasks \ {k}
    BY <1>u
  <2>2. /\ currentTx = tasks[j].tx
        /\ \A d \in Calls : Used(d) /\ calls[d].op # "query" => calls[d].tx # tasks[j].tx
    BY <1>c, <2>1 DEF SessionInv, Owned
  <2>3. tasks[j].tx # tasks[k].tx
    BY <1>y, <2>1, Owners DEF SessionInv
  <2> QED
    BY <1>0, <1>c, <2>1, <2>2, <2>3 DEF Used
<1>5. Released'
  <2> SUFFICES ASSUME NEW j \in Units, Settled(j)', tasks'[j].tx # 0,
                      currentTx' = tasks'[j].tx, ~(failures' > 0)
               PROVE  \E d \in Calls : UsedAs(d, "tx-rollback")' /\ calls'[d].tx = currentTx'
    BY DEF Released
  <2>1. tasks'[j] = tasks[j] /\ Settled(j)
    BY <1>u DEF Settled
  <2>2. PICK d \in Calls : UsedAs(d, "tx-rollback") /\ calls[d].tx = currentTx
    BY <1>0, <2>1 DEF SessionInv, Released
  <2>3. d # c
    BY <1>c, <2>2 DEF UsedAs
  <2> QED
    BY <1>0, <1>c, <2>2, <2>3 DEF UsedAs, Used
<1>6. Resolved'
  BY <1>0, <1>c, <1>u DEF SessionInv, Resolved
<1> QED
  BY <1>1, <1>2, <1>3, <1>4, <1>5, <1>6, <1>c DEF SessionInv

--------------------------------------------------------------------------------
(* The invariant.                                                              *)

LEMMA InitInv == Init => Inv
<1> SUFFICES ASSUME Init PROVE Inv
  OBVIOUS
<1> USE TransactionAssumption DEF Init
<1>1. \A c \in Calls : ~Used(c) /\ calls[c] = NoCall
  BY NoCallType DEF Used
<1>2. TypeOK
  <2>1. tasks \in [Tasks -> Task]
    BY DEF Task
  <2>2. calls \in [Calls -> Call]
    BY NoCallType
  <2>3. server \in Server
    BY DEF Server
  <2>4. 0 \in 0..0 /\ 0 \in 0..MaxTx
    OBVIOUS
  <2> QED
    BY <2>1, <2>2, <2>3, <2>4 DEF TypeOK
<1>3. \A k \in Tasks : tasks[k].tx = 0 /\ tasks[k].pc = "idle"
  OBVIOUS
<1>4. TxInOrder
  BY <1>3 DEF TxInOrder
<1>5. CallsInOrder
  BY <1>1 DEF CallsInOrder
<1>6. Ending
  BY <1>1 DEF Ending, UsedAs
<1>7. Owned /\ Released /\ Resolved
  BY <1>3 DEF Owned, Released, Resolved, Settled, Tasks
<1>8. Undisturbed
  <2> SUFFICES ASSUME NEW t \in TxIds PROVE Consistent(t)
    BY DEF Undisturbed
  <2>1. Pending(t) = {}
    BY <1>1 DEF Pending, Used
  <2>2. /\ added[t] = {} /\ kept[t] = {} /\ final[t] = {} /\ deletes[t] = {}
        /\ \A r \in Records : server.applied[t][r] = 0
        /\ ~Known(t)
    BY DEF Known
  <2>3. begun[t] = FALSE
    BY Zenon
  <2>4. Applied(t) = {}
    BY <2>2 DEF Applied
  <2>5. \A r \in Writes : server.applied[t][r] <= 1
    BY <2>2 DEF Records
  <2> QED
    BY <2>1, <2>2, <2>3, <2>4, <2>5 DEF Consistent
<1> QED
  BY <1>2, <1>4, <1>5, <1>6, <1>7, <1>8 DEF Inv, SessionInv

LEMMA StepInv ==
    ASSUME TypeOK', CallsInOrder', SessionInv', Undisturbed,
           disturbed \subseteq disturbed',
           \A t \in TxIds \ disturbed' : Consistent(t) => Consistent(t)'
    PROVE  Inv'
<1>1. Undisturbed'
  BY DEF Undisturbed
<1> QED
  BY <1>1 DEF Inv, SessionInv

LEMMA CallsInv ==
    ASSUME TypeOK', CallsInOrder', CallsGoOn, SessionInv, Undisturbed,
           \A t \in TxIds : Consistent(t) => Consistent(t)'
    PROVE  Inv'
<1>1. SessionInv'
  BY GoOn DEF SessionInv
<1> QED
  BY <1>1, StepInv DEF CallsGoOn

LEMMA NextInv == Inv /\ [Next]_vars => Inv'
<1> SUFFICES ASSUME Inv, [Next]_vars PROVE Inv'
  OBVIOUS
<1>i. TypeOK /\ CallsInOrder /\ SessionInv /\ Undisturbed
  BY DEF Inv, SessionInv
<1>1. ASSUME NEW c \in Calls, Capture(c) PROVE Inv'
  BY <1>i, <1>1, CaptureStep, CallsInv
<1>2. ASSUME NEW c \in Calls, Write(c) PROVE Inv'
  BY <1>i, <1>2, WriteStep, CallsInv
<1>3. ASSUME NEW c \in Calls, Serve(c) PROVE Inv'
  BY <1>i, <1>3, ServeStep, CallsInv
<1>4. ASSUME NEW c \in Calls, NEW e \in Refusals, Refuse(c, e) PROVE Inv'
  BY <1>i, <1>4, RefuseStep, CallsInv
<1>5. ASSUME NEW c \in Calls, FlushReply(c) PROVE Inv'
  BY <1>i, <1>5, FlushReplyStep, CallsInv
<1>6. ASSUME NEW c \in Calls, QueryReply(c) PROVE Inv'
  BY <1>i, <1>6, QueryReplyStep, CallsInv
<1>7. ASSUME NEW c \in Calls, EndReply(c) PROVE Inv'
  BY <1>i, <1>7, EndReplyStep, StepInv
<1>8. ASSUME NEW c \in Calls, RefusedReply(c) PROVE Inv'
  BY <1>i, <1>8, RefusedReplyStep, StepInv
<1>9. ASSUME NEW k \in Tasks, BeginManual(k) PROVE Inv'
  BY <1>i, <1>9, BeginManualStep, StepInv
<1>10. ASSUME NEW k \in Tasks, Work(k) PROVE Inv'
  BY <1>i, <1>10, WorkStep, StepInv
<1>11. ASSUME NEW k \in Tasks, NEW r \in Records, Add(k, r) PROVE Inv'
  BY <1>i, <1>11, AddStep, StepInv
<1>12. ASSUME NEW k \in Tasks, NEW e \in Refusals, WorkRejects(k, e) PROVE Inv'
  BY <1>i, <1>12, WorkRejectsStep, StepInv
<1>13. ASSUME NEW k \in Tasks, NEW c \in Calls, WorkThrows(k, c) PROVE Inv'
  BY <1>i, <1>13, WorkThrowsStep, StepInv
<1>14. ASSUME NEW k \in Tasks, NEW c \in Calls, BeginThrows(k, c) PROVE Inv'
  BY <1>i, <1>14, BeginThrowsStep, StepInv
<1>15. ASSUME NEW k \in Tasks, NEW c \in Calls, Exec(k, c) PROVE Inv'
  BY <1>i, <1>15, ExecStep, StepInv
<1>16. ASSUME NEW k \in Tasks, NEW c \in Calls, WorkResolves(k, c) PROVE Inv'
  BY <1>i, <1>16, WorkResolvesStep, StepInv
<1>17. ASSUME NEW k \in Tasks, NEW c \in Calls, NEW op \in Ops, End(k, c, op) PROVE Inv'
  BY <1>i, <1>17, EndStep, StepInv
<1>18. CASE UNCHANGED vars
  <2>1. TypeOK' /\ CallsInOrder' /\ SessionInv'
    BY <1>i, <1>18 DEF vars, clientVars, TypeOK, CallsInOrder, CallInOrder, Used, UsedAs,
       SessionInv, TxInOrder, Ending, Owned, Released, Resolved, Settled
  <2>2. \A t \in TxIds : Consistent(t) => Consistent(t)'
    BY <1>18, NothingTouched DEF vars, clientVars
  <2>3. disturbed' = disturbed
    BY <1>18 DEF vars
  <2> QED
    BY <1>i, <2>1, <2>2, <2>3, StepInv
<1> QED
  <2>1. CASE \E c \in Calls : CallStep(c) \/ \E e \in Refusals : Refuse(c, e)
    BY <2>1, <1>1, <1>2, <1>3, <1>4, <1>5, <1>6, <1>7, <1>8 DEF CallStep
  <2>2. CASE \E k \in Tasks : TaskStep(k)
    BY <2>2, <1>9, <1>10, <1>11, <1>12, <1>13, <1>14, <1>15, <1>16, <1>17 DEF TaskStep
  <2> QED
    BY <1>18, <2>1, <2>2 DEF Next

\* Every state of a session: the transactions are each of one use, the calls are in
\* order, and a transaction whose calls are awaited is kept by the client as the
\* server has it.
THEOREM InvCorrect == Spec => []Inv
<1> QED
  BY InitInv, NextInv, PTL DEF Spec

\* The types of the session, and the numbering of its transactions.
THEOREM TransactionTypeCorrect == Spec => []TypeOK
<1>1. Inv => TypeOK
  BY DEF Inv
<1> QED
  BY <1>1, InvCorrect, PTL

\* The transaction of a pending call that is not disturbed.
LEMMA PendingFacts ==
    ASSUME Inv, NEW c \in Calls, Used(c), calls[c].tx # 0, calls[c].tx \notin disturbed
    PROVE  /\ Consistent(calls[c].tx)
           /\ CallOf(c, calls[c].tx)
           /\ ~Flushed(c) => /\ Applied(calls[c].tx) = final[calls[c].tx]
                             /\ begun[calls[c].tx] <=> Known(calls[c].tx)
<1> DEFINE t == calls[c].tx
<1>1. t \in TxIds
  BY CallTypes, TransactionAssumption DEF Inv, TxIds
<1>2. Consistent(t) /\ c \in Pending(t)
  BY <1>1 DEF Inv, Undisturbed, Pending, Used
<1>3. \A d \in Pending(t) : d = c
  BY <1>2 DEF Consistent
<1> QED
  BY <1>2, <1>3 DEF Consistent

\* Whatever is refused and sent again in between, a transaction whose calls are
\* awaited is committed with every record given to it, each create and update applied
\* once, and its result holds exactly these records.
THEOREM CommitCompleteCorrect == Spec => []CommitComplete
<1>1. Inv => CommitComplete
  <2> SUFFICES ASSUME Inv PROVE CommitComplete
    OBVIOUS
  <2>1. \A t \in TxIds \ disturbed : \A r \in Writes : server.applied[t][r] <= 1
    BY DEF Inv, Undisturbed, Consistent
  <2>2. ASSUME NEW c \in Calls, Replied(c, "tx-commit"), calls[c].tx \notin disturbed
        PROVE  /\ added[calls[c].tx] = Applied(calls[c].tx)
               /\ Applied(calls[c].tx) = final[calls[c].tx]
    <3>1. Used(c) /\ calls[c].at = "ok" /\ calls[c].msg = "tx-commit" /\ ~Flushed(c)
      BY <2>2 DEF Replied, Used, Flushed, Flushes
    <3>2. calls[c].tx # 0
      BY <3>1 DEF Inv, CallsInOrder, CallInOrder
    <3>3. /\ Consistent(calls[c].tx) /\ CallOf(c, calls[c].tx)
          /\ Applied(calls[c].tx) = final[calls[c].tx]
      BY <2>2, <3>1, <3>2, PendingFacts
    <3>4. kept[calls[c].tx] = {} /\ deletes[calls[c].tx] \subseteq final[calls[c].tx]
      BY <3>1, <3>3 DEF CallOf
    <3> QED
      BY <3>3, <3>4 DEF Consistent
  <2> QED
    BY <2>1, <2>2 DEF CommitComplete
<1> QED
  BY <1>1, InvCorrect, PTL

\* The requests of a transaction whose calls are awaited reach the server in an order
\* it can follow, and a command sees every record given to the transaction before it.
THEOREM ReadYourWritesCorrect == Spec => []ReadYourWrites
<1>1. Inv => ReadYourWrites
  <2> SUFFICES ASSUME Inv, NEW c \in Calls, calls[c].at = "wire",
                      calls[c].tx \notin disturbed
               PROVE  /\ calls[c].msg = "tx-begin" => ~Known(calls[c].tx)
                      /\ calls[c].msg \in {"record-batch", "tx-commit"} =>
                            Known(calls[c].tx)
                      /\ calls[c].msg = "query" /\ calls[c].tx # 0 =>
                            /\ Known(calls[c].tx)
                            /\ calls[c].seen \subseteq Applied(calls[c].tx)
    BY DEF ReadYourWrites, Known
  <2>1. Used(c) /\ ~Flushed(c)
    BY DEF Used, Flushed
  <2>2. CASE calls[c].tx = 0
    <3>1. calls[c].msg = "query"
      BY <2>1, <2>2 DEF Inv, CallsInOrder, CallInOrder
    <3> QED
      BY <2>2, <3>1
  <2>3. CASE calls[c].tx # 0
    <3>1. /\ Consistent(calls[c].tx) /\ CallOf(c, calls[c].tx)
          /\ Applied(calls[c].tx) = final[calls[c].tx]
          /\ begun[calls[c].tx] <=> Known(calls[c].tx)
      BY <2>1, <2>3, PendingFacts
    <3>2. calls[c].msg = "tx-begin" => ~Known(calls[c].tx)
      BY <3>1 DEF CallOf
    <3>3. calls[c].msg \in {"record-batch", "tx-commit", "query"} => Known(calls[c].tx)
      BY <3>1 DEF CallOf
    <3>4. calls[c].msg = "query" => calls[c].seen \subseteq Applied(calls[c].tx)
      BY <3>1 DEF CallOf, Consistent
    <3> QED
      BY <3>2, <3>3, <3>4
  <2> QED
    BY <2>2, <2>3
<1> QED
  BY <1>1, InvCorrect, PTL

\* runInTransaction resolves only when the transaction of its last attempt has been
\* committed, and what has settled does not hold the session.
THEOREM WorkIsCommittedCorrect == Spec => []WorkIsCommitted
<1>1. Inv => WorkIsCommitted
  BY DEF Inv, SessionInv, Released, Resolved, WorkIsCommitted, UsedAs
<1> QED
  BY <1>1, InvCorrect, PTL
=================================================================================
