----------------------------- MODULE ResultStream -----------------------------
(***************************************************************************)
(* The result set of a query, read page by page: OResult of                *)
(* client/database/result.js with the operations query, query-next and     *)
(* query-close of protocol37, which push the rows into it.                 *)
(*                                                                         *)
(* Every request borrows a connection of the pool, so two requests of one  *)
(* result set reach the server, and are answered, in any order.  A reply   *)
(* is read row by row, as its chunks come in.  The server is external: it  *)
(* keeps a cursor for the query until the last page is read or the query   *)
(* is closed.  The stream is Node's Readable, of which the model keeps     *)
(* what the code relies on: push, pause, resume and the events data, end   *)
(* and resume.                                                             *)
(***************************************************************************)
EXTENDS Integers, Sequences, FiniteSets

CONSTANTS
    Rows,         \* the rows of the result are 1..Rows
    PageSize,
    Calls,        \* the requests that may be pending at once
    MaxPauses,    \* bound on the calls of pause()
    MaxFailures   \* bound on the requests that fail for reasons of their own

ASSUME StreamAssumption ==
    /\ Rows \in Nat /\ PageSize \in Nat \ {0}
    /\ MaxPauses \in Nat /\ MaxFailures \in Nat

VARIABLES
    calls,        \* the requests, see Call
    query,        \* the server: the query is "none", "open" or "gone"
    sent,         \* the server: the last row it has sent
    queryId,      \* the stream knows the id of the query
    requestedNext, queryClosed,
    flowing,      \* Readable: "null", "yes" or "no"
    resuming,     \* Readable: the resume event is scheduled
    pushed,       \* the rows pushed into the stream
    emitted,      \* how many of them the data listener has had
    ended,        \* Readable: null was pushed; over: the end event was emitted
    over,
    errors,       \* error events
    pauses, failures,
    closedBy,     \* history: "nobody", "close", or "early": before any reply
    midPage,      \* history: a resume has asked for a page while one was coming
    prefetched    \* history: a page was asked for before a listener was attached

readable == <<flowing, resuming, pushed, emitted, ended, over>>
history  == <<closedBy, midPage, prefetched>>
vars == <<calls, query, sent, queryId, requestedNext, queryClosed, readable, history,
          errors, pauses, failures>>

Least(a, b) == IF a < b THEN a ELSE b

\* left rows of the reply from row next on are still to be read
Call == [op : {"query", "query-next", "query-close"},
         at : {"unused", "wire", "reply", "rows", "failed"}, id : BOOLEAN,
         next : 1..Rows + 1, left : 0..PageSize, hasNext : BOOLEAN]
NoCall == [op |-> "query", at |-> "unused", id |-> FALSE,
           next |-> 1, left |-> 0, hasNext |-> FALSE]
Request(op) == [NoCall EXCEPT !.op = op, !.at = "wire", !.id = queryId]

\* A page is on its way: asked for, and not read to its end.
PageComing == \E c \in Calls : calls[c].at # "unused" /\ calls[c].op # "query-close"

Init ==
    /\ queryId = FALSE /\ requestedNext = FALSE /\ queryClosed = FALSE
    /\ \E c \in Calls : calls = [d \in Calls |-> IF d = c THEN Request("query") ELSE NoCall]
    /\ query = "none" /\ sent = 0
    /\ flowing = "null" /\ resuming = FALSE
    /\ pushed = <<>> /\ emitted = 0 /\ ended = FALSE /\ over = FALSE
    /\ errors = 0 /\ pauses = 0 /\ failures = 0
    /\ closedBy = "nobody" /\ midPage = FALSE /\ prefetched = FALSE

Send(base, op) ==
    \E d \in Calls : /\ base[d].at = "unused"
                     /\ calls' = [base EXCEPT ![d] = Request(op)]

-----------------------------------------------------------------------------
(* The server *)

\* The rows after the last one sent; with the last page the query goes.
ServePage(c) ==
    LET last == Least(sent + PageSize, Rows)
    IN  /\ calls[c].at = "wire"
        /\ \/ calls[c].op = "query" /\ query = "none"
           \/ calls[c].op = "query-next" /\ query = "open"
        /\ calls' = [calls EXCEPT ![c] = [@ EXCEPT !.at = "reply", !.next = sent + 1,
                        !.left = last - sent, !.hasNext = last < Rows]]
        /\ sent' = last
        /\ query' = IF last < Rows THEN "open" ELSE "gone"
        /\ UNCHANGED <<queryId, requestedNext, queryClosed, readable, history, errors,
                       pauses, failures>>

\* A close with the id of the query releases it; one without it is refused.
ServeClose(c) ==
    /\ calls[c].at = "wire" /\ calls[c].op = "query-close"
    /\ calls' = [calls EXCEPT ![c].at = IF calls[c].id THEN "reply" ELSE "failed"]
    /\ query' = IF calls[c].id THEN "gone" ELSE query
    /\ UNCHANGED <<sent, queryId, requestedNext, queryClosed, readable, history, errors,
                   pauses, failures>>

\* No such query: the next page of a query that is gone.
ServeUnknown(c) ==
    /\ calls[c].at = "wire" /\ calls[c].op = "query-next" /\ query = "gone"
    /\ calls' = [calls EXCEPT ![c].at = "failed"]
    /\ UNCHANGED <<query, sent, queryId, requestedNext, queryClosed, readable, closedBy,
                   midPage, prefetched, errors, pauses, failures>>

Fail(c) ==
    /\ calls[c].at = "wire" /\ failures < MaxFailures
    /\ failures' = failures + 1
    /\ calls' = [calls EXCEPT ![c].at = "failed"]
    /\ UNCHANGED <<query, sent, queryId, requestedNext, queryClosed, readable, history,
                   errors, pauses>>

-----------------------------------------------------------------------------
(* Reading the replies *)

\* The resume event and the rows a flowing stream holds back come before the
\* next chunk (process.nextTick), so nothing is read while they are due.
Due == resuming \/ (flowing = "yes" /\ emitted < Len(pushed))

\* The head of the page gives the stream the id of the query.
ReadHead(c) ==
    /\ ~Due
    /\ calls[c].at = "reply" /\ calls[c].op # "query-close"
    /\ calls' = [calls EXCEPT ![c].at = "rows"]
    /\ queryId' = TRUE
    /\ UNCHANGED <<query, sent, requestedNext, queryClosed, readable, history, errors,
                   pauses, failures>>

\* push(row): emitted at once when the stream flows.
ReadRow(c) ==
    /\ ~Due
    /\ calls[c].at = "rows" /\ calls[c].left > 0
    /\ calls' = [calls EXCEPT ![c].next = @ + 1, ![c].left = @ - 1]
    /\ IF queryClosed
         THEN UNCHANGED <<pushed, emitted>>
         ELSE /\ pushed' = Append(pushed, calls[c].next)
              /\ emitted' = IF flowing = "yes" THEN emitted + 1 ELSE emitted
    /\ UNCHANGED <<query, sent, queryId, requestedNext, queryClosed, flowing, resuming,
                   ended, over, history, errors, pauses, failures>>

\* MUTANT: a paused stream keeps fetching.
FetchesWhilePaused == ~queryClosed

\* The test of _fetchNext, once requestedNext is set.
FetchesNext == flowing # "no" /\ ~queryClosed

\* readHasNext: another page is asked for, unless the stream is paused or
\* closed, or the stream ends.
ReadHasNext(c) ==
    LET base == [calls EXCEPT ![c] = NoCall]
    IN  /\ ~Due
        /\ calls[c].at = "rows" /\ calls[c].left = 0
        /\ IF calls[c].hasNext
             THEN /\ requestedNext' = TRUE
                  /\ IF FetchesNext THEN Send(base, "query-next") ELSE calls' = base
                  /\ prefetched' = (prefetched \/ (FetchesNext /\ flowing = "null"))
                  /\ UNCHANGED <<queryClosed, ended>>
             ELSE /\ queryClosed' = TRUE /\ ended' = TRUE
                  /\ calls' = base
                  /\ UNCHANGED <<requestedNext, prefetched>>
        /\ UNCHANGED <<query, sent, queryId, flowing, resuming, pushed, emitted, over,
                       closedBy, midPage, errors, pauses, failures>>

\* The reply of query-close: push(null).
CloseReply(c) ==
    /\ ~Due
    /\ calls[c].at = "reply" /\ calls[c].op = "query-close"
    /\ calls' = [calls EXCEPT ![c] = NoCall]
    /\ ended' = TRUE
    /\ UNCHANGED <<query, sent, queryId, requestedNext, queryClosed, flowing, resuming,
                   pushed, emitted, over, history, errors, pauses, failures>>

\* A request is rejected: the stream emits error, and nothing else changes.
ErrorReply(c) ==
    /\ ~Due
    /\ calls[c].at = "failed"
    /\ calls' = [calls EXCEPT ![c] = NoCall]
    /\ errors' = errors + 1
    /\ UNCHANGED <<query, sent, queryId, requestedNext, queryClosed, readable, history,
                   pauses, failures>>

-----------------------------------------------------------------------------
(* The application and the Readable *)

\* on("data"), all(), and resume(): the stream flows, and the event is scheduled.
Resume ==
    /\ flowing # "yes" /\ ~over
    /\ flowing' = "yes" /\ resuming' = TRUE
    /\ UNCHANGED <<calls, query, sent, queryId, requestedNext, queryClosed, pushed,
                   emitted, ended, over, history, errors, pauses, failures>>

Pause ==
    /\ flowing = "yes" /\ pauses < MaxPauses /\ ~over
    /\ flowing' = "no"
    /\ pauses' = pauses + 1
    /\ UNCHANGED <<calls, query, sent, queryId, requestedNext, queryClosed, resuming,
                   pushed, emitted, ended, over, history, errors, failures>>

\* MUTANT: the listener does not look at requestedNext.
ResumeEventAlways ==
    LET fetch == FetchesNext
    IN  /\ resuming
        /\ resuming' = FALSE
        /\ IF fetch THEN Send(calls, "query-next") ELSE UNCHANGED calls
        /\ midPage' = (midPage \/ (fetch /\ requestedNext /\ PageComing))
        /\ UNCHANGED <<query, sent, queryId, requestedNext, queryClosed, flowing, pushed,
                       emitted, ended, over, closedBy, prefetched, errors,
                       pauses, failures>>

\* MUTANT: no listener for the event.
ResumeEventIgnored ==
    /\ resuming
    /\ resuming' = FALSE
    /\ UNCHANGED <<calls, query, sent, queryId, requestedNext, queryClosed, flowing,
                   pushed, emitted, ended, over, history, errors, pauses, failures>>

\* The event, and its listener set up by the constructor: _fetchNext().
ResumeEvent ==
    LET fetch == FetchesNext /\ requestedNext
    IN  /\ resuming
        /\ resuming' = FALSE
        /\ IF fetch THEN Send(calls, "query-next") ELSE UNCHANGED calls
        /\ midPage' = (midPage \/ (fetch /\ PageComing))
        /\ UNCHANGED <<query, sent, queryId, requestedNext, queryClosed, flowing, pushed,
                       emitted, ended, over, closedBy, prefetched, errors,
                       pauses, failures>>

\* A flowing stream hands over what it holds back, then its end.
Emit ==
    /\ flowing = "yes" /\ ~resuming /\ ~over
    /\ \/ emitted < Len(pushed) /\ emitted' = emitted + 1 /\ UNCHANGED over
       \/ emitted = Len(pushed) /\ ended /\ over' = TRUE /\ UNCHANGED emitted
    /\ UNCHANGED <<calls, query, sent, queryId, requestedNext, queryClosed, flowing,
                   resuming, pushed, ended, history, errors, pauses, failures>>

\* MUTANT: close() only marks the stream.
CloseLocally ==
    /\ ~queryClosed
    /\ queryClosed' = TRUE /\ ended' = TRUE
    /\ closedBy' = IF queryId THEN "close" ELSE "early"
    /\ UNCHANGED <<calls, query, sent, queryId, requestedNext, flowing, resuming, pushed,
                   emitted, over, midPage, prefetched, errors, pauses, failures>>

\* close(): once, and only while the query is not known to be over.
Close ==
    /\ ~queryClosed
    /\ queryClosed' = TRUE
    /\ Send(calls, "query-close")
    /\ closedBy' = IF queryId THEN "close" ELSE "early"
    /\ UNCHANGED <<query, sent, queryId, requestedNext, readable, midPage, prefetched,
                   errors, pauses, failures>>

-----------------------------------------------------------------------------

ServerStep(c) == ServePage(c) \/ ServeClose(c) \/ ServeUnknown(c)
ReadStep(c) == ReadHead(c) \/ ReadRow(c) \/ ReadHasNext(c) \/ CloseReply(c) \/ ErrorReply(c)

Next ==
    \/ \E c \in Calls : ServerStep(c) \/ Fail(c) \/ ReadStep(c)
    \/ Resume \/ Pause \/ ResumeEvent \/ Emit \/ Close

Spec == Init /\ [][Next]_vars

\* The server answers, callbacks run, and a reader that has paused resumes.
FairSpec ==
    /\ Spec
    /\ \A c \in Calls : WF_vars(ServerStep(c)) /\ WF_vars(ReadStep(c))
    /\ WF_vars(Resume) /\ WF_vars(ResumeEvent) /\ WF_vars(Emit)

-----------------------------------------------------------------------------
(* Properties *)

IsPrefixOfRows(s) == \A i \in 1..Len(s) : s[i] = i

\* Types, and the reader is never ahead of the stream.
TypeOK ==
    /\ calls \in [Calls -> Call]
    /\ query \in {"none", "open", "gone"} /\ sent \in 0..Rows
    /\ {queryId, requestedNext, queryClosed, resuming, ended, over, midPage,
        prefetched} \subseteq BOOLEAN
    /\ flowing \in {"null", "yes", "no"}
    /\ pushed \in Seq(1..Rows) /\ emitted \in 0..Len(pushed)
    /\ closedBy \in {"nobody", "close", "early"}
    /\ errors \in Nat /\ pauses \in 0..MaxPauses /\ failures \in 0..MaxFailures

\* The rows come in their order, each once, although every page is fetched on a
\* connection of its own and the reader may pause anywhere, and the stream ends
\* by itself only when the reader has had the whole result; the case left out is
\* a resume in the middle of a page.
RowsInOrder ==
    ~midPage => /\ IsPrefixOfRows(pushed)
                /\ ended /\ closedBy = "nobody" => Len(pushed) = Rows

\* A paused reader holds up the fetching: a listener there from the start never
\* has more than one page waiting for it, and one more for each of its pauses
\* (every resume asks for a page, even when rows are still held back).
Backpressure ==
    ~prefetched /\ ~midPage => Len(pushed) - emitted <= PageSize * (1 + pauses)

\* A reader that always resumes has the end of the stream or an error, wherever it
\* paused: no wakeup is lost between readHasNext and the resume event.
EventuallyEnds == <>(over \/ errors > 0)

\* The server's cursor is released, even when close() races with a page.
CursorReleased == queryClosed ~> (query = "gone" \/ closedBy = "early" \/ errors > 0)
===============================================================================
