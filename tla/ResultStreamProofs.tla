--------------------------- MODULE ResultStreamProofs ---------------------------
(* Proofs about ResultStream, for every number of rows, every size of a page and *)
(* every number of requests, pauses and failures.                                *)
EXTENDS ResultStream, TLAPS, SequenceTheorems

--------------------------------------------------------------------------------
(* The inductive invariant.                                                    *)

\* A page that is on its way, and one of which the server has sent the rows.
Page(c)   == calls[c].at # "unused" /\ calls[c].op # "query-close"
Served(c) == Page(c) /\ calls[c].at \in {"reply", "rows"}

\* The rows that are left of a page are rows of the result.
RowsLeft == \A c \in Calls : calls[c].next + calls[c].left <= Rows + 1

\* The stream ends when it is closed, and query-close is sent by close() only and has
\* no rows to read.
Closing ==
    /\ ended => queryClosed
    /\ closedBy # "nobody" => queryClosed
    /\ \A c \in Calls :
          calls[c].at # "unused" /\ calls[c].op = "query-close" =>
             closedBy # "nobody" /\ calls[c].at # "rows"

\* At most one page is on its way; its rows follow those pushed, and are the last ones
\* the server has sent; and without one everything that was sent has been pushed.
OnePage ==
    /\ \A c, d \in Calls : Page(c) /\ Page(d) => c = d
    /\ \A c \in Calls : Served(c) =>
          /\ calls[c].next + calls[c].left = sent + 1
          /\ calls[c].hasNext <=> sent < Rows
          /\ ~queryClosed => calls[c].next = Len(pushed) + 1
    /\ ~queryClosed /\ (\A c \in Calls : ~Served(c)) => Len(pushed) = sent

InOrder ==
    /\ OnePage
    /\ IsPrefixOfRows(pushed)
    /\ queryClosed /\ closedBy = "nobody" => Len(pushed) = Rows

\* How many rows n pages have.
Pages(n) == PageSize * n

\* How many rows may be held back, or be on their way: the page that a resume asks for
\* is one that the pause before it has allowed for.
Allowed ==
    IF flowing = "no" \/ (resuming /\ requestedNext /\ ~queryClosed)
    THEN Pages(pauses) ELSE Pages(1 + pauses)

\* The rows a page may yet bring.
Coming(c) == IF calls[c].at = "wire" THEN PageSize
             ELSE IF Served(c) THEN calls[c].left ELSE 0

HeldBack ==
    /\ Len(pushed) - emitted <= Allowed
    /\ \A c \in Calls : Page(c) => Len(pushed) - emitted + Coming(c) <= Allowed
    /\ flowing = "null" => ~resuming /\ (requestedNext => queryClosed)

Inv ==
    /\ TypeOK
    /\ RowsLeft
    /\ Closing
    /\ ~midPage => InOrder
    /\ ~midPage /\ ~prefetched => HeldBack

--------------------------------------------------------------------------------
(* The requests.                                                               *)

\* A request that is answered, has a row read and is settled.
Answered(x, n, l, b) == [x EXCEPT !.at = "reply", !.next = n, !.left = l, !.hasNext = b]
WithRow(x) == [x EXCEPT !.next = @ + 1, !.left = @ - 1]
Moved(x, at) == [x EXCEPT !.at = at]

LEMMA CallType ==
    ASSUME NEW x \in Call
    PROVE  /\ x.op \in {"query", "query-next", "query-close"}
           /\ x.at \in {"unused", "wire", "reply", "rows", "failed"}
           /\ x.id \in BOOLEAN /\ x.hasNext \in BOOLEAN
           /\ x.next \in 1..Rows + 1 /\ x.left \in 0..PageSize
           /\ x.next \in Int /\ x.left \in Int
<1>1. Rows \in Nat /\ PageSize \in Nat
  BY StreamAssumption
<1> QED
  BY <1>1 DEF Call

LEMMA AnsweredType ==
    ASSUME NEW x \in Call, NEW n \in 1..Rows + 1, NEW l \in 0..PageSize, NEW b \in BOOLEAN
    PROVE  /\ Answered(x, n, l, b) \in Call
           /\ Answered(x, n, l, b).at = "reply"
           /\ Answered(x, n, l, b).op = x.op
           /\ Answered(x, n, l, b).next = n
           /\ Answered(x, n, l, b).left = l
           /\ Answered(x, n, l, b).hasNext = b
BY DEF Answered, Call

LEMMA WithRowType ==
    ASSUME NEW x \in Call, x.left > 0, x.next + x.left <= Rows + 1
    PROVE  /\ WithRow(x) \in Call
           /\ WithRow(x).at = x.at
           /\ WithRow(x).op = x.op
           /\ WithRow(x).next = x.next + 1
           /\ WithRow(x).left = x.left - 1
           /\ WithRow(x).hasNext = x.hasNext
<1>1. Rows \in Nat /\ PageSize \in Nat
  BY StreamAssumption
<1>2. x.next + 1 \in 1..Rows + 1 /\ x.left - 1 \in 0..PageSize
  BY <1>1, CallType
<1> HIDE <1>1
<1> QED
  BY <1>2 DEF WithRow, Call

LEMMA MovedType ==
    ASSUME NEW x \in Call, NEW at \in {"unused", "wire", "reply", "rows", "failed"}
    PROVE  /\ Moved(x, at) \in Call
           /\ Moved(x, at).at = at
           /\ Moved(x, at).op = x.op
           /\ Moved(x, at).next = x.next
           /\ Moved(x, at).left = x.left
           /\ Moved(x, at).hasNext = x.hasNext
BY DEF Moved, Call

LEMMA RequestType ==
    ASSUME NEW op \in {"query", "query-next", "query-close"}, queryId \in BOOLEAN
    PROVE  /\ Request(op) \in Call
           /\ Request(op).op = op /\ Request(op).at = "wire"
           /\ Request(op).next = 1 /\ Request(op).left = 0
           /\ NoCall \in Call
           /\ NoCall.at = "unused" /\ NoCall.next = 1 /\ NoCall.left = 0
<1>1. 1 \in 1..Rows + 1 /\ 0 \in 0..PageSize
  BY StreamAssumption
<1>2. NoCall \in Call
  BY <1>1 DEF NoCall, Call
<1>3. /\ NoCall.at = "unused" /\ NoCall.next = 1 /\ NoCall.left = 0
  BY DEF NoCall
<1>4. Request(op) \in Call
  BY <1>2 DEF Request, Call
<1>5. /\ Request(op).op = op /\ Request(op).at = "wire"
      /\ Request(op).next = 1 /\ Request(op).left = 0
  BY <1>2, <1>3 DEF Request, Call
<1> QED
  BY <1>2, <1>3, <1>4, <1>5

\* One request changes.
LEMMA OneCall ==
    ASSUME calls \in [Calls -> Call], RowsLeft, NEW c \in Calls, NEW x \in Call,
           x.next + x.left <= Rows + 1, calls' = [calls EXCEPT ![c] = x]
    PROVE  /\ calls' \in [Calls -> Call] /\ RowsLeft'
           /\ calls'[c] = x
           /\ \A d \in Calls : d # c => calls'[d] = calls[d]
<1>1. /\ calls' \in [Calls -> Call]
      /\ calls'[c] = x
      /\ \A d \in Calls : d # c => calls'[d] = calls[d]
  OBVIOUS
<1>2. RowsLeft'
  BY <1>1 DEF RowsLeft
<1> QED
  BY <1>1, <1>2

\* A request is sent in an unused slot.
LEMMA SendEffect ==
    ASSUME NEW base \in [Calls -> Call], \A c \in Calls : base[c].next + base[c].left <= Rows + 1,
           NEW op \in {"query", "query-next", "query-close"}, queryId \in BOOLEAN,
           Send(base, op)
    PROVE  /\ calls' \in [Calls -> Call] /\ RowsLeft'
           /\ \E d \in Calls :
                 /\ base[d].at = "unused"
                 /\ calls'[d].op = op /\ calls'[d].at = "wire"
                 /\ \A e \in Calls : e # d => calls'[e] = base[e]
<1>1. PICK d \in Calls : base[d].at = "unused" /\ calls' = [base EXCEPT ![d] = Request(op)]
  BY DEF Send
<1>2. /\ Request(op) \in Call /\ Request(op).next + Request(op).left <= Rows + 1
      /\ Request(op).op = op /\ Request(op).at = "wire"
  BY RequestType, StreamAssumption
<1>3. /\ calls' \in [Calls -> Call]
      /\ calls'[d] = Request(op)
      /\ \A e \in Calls : e # d => calls'[e] = base[e]
  BY <1>1, <1>2
<1>4. RowsLeft'
  BY <1>2, <1>3 DEF RowsLeft
<1> QED
  BY <1>1, <1>2, <1>3, <1>4

--------------------------------------------------------------------------------
(* What each step does to the requests.                                        *)

\* What a step leaves of the requests: it changes c to x.
Changed(c, x) ==
    /\ calls' \in [Calls -> Call] /\ RowsLeft'
    /\ calls'[c] = x
    /\ \A d \in Calls : d # c => calls'[d] = calls[d]

\* The last row that the server sends with the next page.
Last == Least(sent + PageSize, Rows)

LEMMA LastType ==
    ASSUME sent \in 0..Rows
    PROVE  /\ Last \in 0..Rows /\ sent <= Last
           /\ sent + 1 \in 1..Rows + 1 /\ Last - sent \in 0..PageSize
           /\ (sent + 1) + (Last - sent) = Last + 1
           /\ (sent + 1) + (Last - sent) <= Rows + 1
           /\ Last < Rows \/ Last = Rows
BY StreamAssumption DEF Last, Least

LEMMA ServePageEffect ==
    ASSUME TypeOK, RowsLeft, NEW c \in Calls, ServePage(c)
    PROVE  /\ Changed(c, Answered(calls[c], sent + 1, Last - sent, Last < Rows))
           /\ sent' = Last
<1>1. calls \in [Calls -> Call] /\ sent \in 0..Rows
  BY DEF TypeOK
<1>2. /\ calls' = [calls EXCEPT ![c] = Answered(calls[c], sent + 1, Last - sent, Last < Rows)]
      /\ sent' = Last
  BY <1>1, Zenon DEF ServePage, Answered, Last
<1>3. (Last < Rows) \in BOOLEAN
  BY <1>1, LastType, StreamAssumption
<1>4. /\ Answered(calls[c], sent + 1, Last - sent, Last < Rows) \in Call
      /\ Answered(calls[c], sent + 1, Last - sent, Last < Rows).next = sent + 1
      /\ Answered(calls[c], sent + 1, Last - sent, Last < Rows).left = Last - sent
  <2>1. calls[c] \in Call
    BY <1>1
  <2>2. sent + 1 \in 1..Rows + 1 /\ Last - sent \in 0..PageSize
    BY <1>1, LastType
  <2> QED
    BY <1>3, <2>1, <2>2, AnsweredType, Zenon
<1>5. (sent + 1) + (Last - sent) <= Rows + 1
  BY <1>1, LastType
<1> DEFINE x == Answered(calls[c], sent + 1, Last - sent, Last < Rows)
<1>6. x \in Call /\ x.next + x.left <= Rows + 1 /\ calls' = [calls EXCEPT ![c] = x]
  BY <1>2, <1>4, <1>5
<1> HIDE DEF x
<1>7. Changed(c, x)
  BY <1>1, <1>6, OneCall DEF Changed
<1> QED
  BY <1>2, <1>7 DEF x

LEMMA ReadRowEffect ==
    ASSUME TypeOK, RowsLeft, NEW c \in Calls, ReadRow(c)
    PROVE  /\ calls[c].at = "rows" /\ calls[c].left > 0 /\ calls[c].next \in 1..Rows
           /\ Changed(c, WithRow(calls[c]))
<1>1. calls \in [Calls -> Call] /\ calls[c] \in Call
  BY DEF TypeOK
<1>2. /\ calls[c].at = "rows" /\ calls[c].left > 0
      /\ calls' = [calls EXCEPT ![c].next = @ + 1, ![c].left = @ - 1]
  BY DEF ReadRow
<1>3. calls' = [calls EXCEPT ![c] = WithRow(calls[c])]
  BY <1>1, <1>2 DEF WithRow, Call
<1>4. calls[c].next + calls[c].left <= Rows + 1
  BY DEF RowsLeft
<1>5. calls[c].next \in 1..Rows
  BY <1>1, <1>2, <1>4, CallType, StreamAssumption
<1>6. /\ WithRow(calls[c]) \in Call
      /\ WithRow(calls[c]).next + WithRow(calls[c]).left <= Rows + 1
  <2>1. /\ WithRow(calls[c]) \in Call
        /\ WithRow(calls[c]).next = calls[c].next + 1
        /\ WithRow(calls[c]).left = calls[c].left - 1
    BY <1>1, <1>2, <1>4, WithRowType
  <2> QED
    BY <1>1, <1>4, <2>1, CallType, StreamAssumption
<1> DEFINE x == WithRow(calls[c])
<1>7. x \in Call /\ x.next + x.left <= Rows + 1 /\ calls' = [calls EXCEPT ![c] = x]
  BY <1>3, <1>6
<1> HIDE DEF x
<1>8. Changed(c, x)
  BY <1>1, <1>7, OneCall DEF Changed
<1> QED
  BY <1>2, <1>5, <1>8 DEF x

\* The steps that only move a request on.
LEMMA MoveEffect ==
    ASSUME TypeOK, RowsLeft, NEW c \in Calls,
           NEW at \in {"unused", "wire", "reply", "rows", "failed"},
           calls' = [calls EXCEPT ![c].at = at]
    PROVE  Changed(c, Moved(calls[c], at))
<1>1. calls \in [Calls -> Call] /\ calls[c] \in Call
  BY DEF TypeOK
<1> DEFINE x == Moved(calls[c], at)
<1>2. calls' = [calls EXCEPT ![c] = x]
  BY DEF Moved
<1>3. x \in Call /\ x.next + x.left <= Rows + 1
  BY <1>1, MovedType DEF RowsLeft
<1> HIDE DEF x
<1>4. Changed(c, x)
  BY <1>1, <1>2, <1>3, OneCall DEF Changed
<1> QED
  BY <1>4 DEF x

LEMMA FreeEffect ==
    ASSUME TypeOK, RowsLeft, NEW c \in Calls, calls' = [calls EXCEPT ![c] = NoCall]
    PROVE  Changed(c, NoCall)
<1>1. calls \in [Calls -> Call] /\ queryId \in BOOLEAN
  BY DEF TypeOK
<1>2. NoCall \in Call /\ NoCall.next + NoCall.left <= Rows + 1
  BY <1>1, RequestType, StreamAssumption
<1> QED
  BY <1>1, <1>2, OneCall DEF Changed

\* A page has been read to its end.
LEMMA ReadHasNextEffect ==
    ASSUME TypeOK, RowsLeft, NEW c \in Calls, ReadHasNext(c)
    PROVE  /\ calls' \in [Calls -> Call] /\ RowsLeft'
           /\ calls[c].at = "rows" /\ calls[c].left = 0 /\ ~Due
           /\ \/ /\ calls[c].hasNext /\ FetchesNext
                 /\ \E d \in Calls :
                       /\ d = c \/ calls[d].at = "unused"
                       /\ calls'[d].op = "query-next" /\ calls'[d].at = "wire"
                       /\ d # c => calls'[c].at = "unused"
                       /\ \A e \in Calls : e # d /\ e # c => calls'[e] = calls[e]
              \/ /\ ~(calls[c].hasNext /\ FetchesNext)
                 /\ Changed(c, NoCall)
<1> DEFINE base == [calls EXCEPT ![c] = NoCall]
<1>1. calls \in [Calls -> Call] /\ queryId \in BOOLEAN
  BY DEF TypeOK
<1>2. /\ NoCall \in Call /\ NoCall.at = "unused"
      /\ NoCall.next + NoCall.left <= Rows + 1
  BY <1>1, RequestType, StreamAssumption
<1>3. /\ base \in [Calls -> Call] /\ base[c] = NoCall
      /\ \A d \in Calls : d # c => base[d] = calls[d]
  BY <1>1, <1>2
<1>4. \A d \in Calls : base[d].next + base[d].left <= Rows + 1
  BY <1>2, <1>3 DEF RowsLeft
<1>5. /\ calls[c].at = "rows" /\ calls[c].left = 0 /\ ~Due
      /\ IF calls[c].hasNext
           THEN IF FetchesNext THEN Send(base, "query-next") ELSE calls' = base
           ELSE calls' = base
  BY DEF ReadHasNext
<1>6. CASE calls[c].hasNext /\ FetchesNext
  <2> HIDE DEF base
  <2>1. /\ calls' \in [Calls -> Call] /\ RowsLeft'
        /\ \E d \in Calls :
              /\ base[d].at = "unused"
              /\ calls'[d].op = "query-next" /\ calls'[d].at = "wire"
              /\ \A e \in Calls : e # d => calls'[e] = base[e]
    BY <1>1, <1>3, <1>4, <1>5, <1>6, SendEffect
  <2> QED
    BY <1>2, <1>3, <1>5, <1>6, <2>1
<1>7. CASE ~(calls[c].hasNext /\ FetchesNext)
  <2>1. calls' = base
    BY <1>5, <1>7
  <2>2. Changed(c, NoCall)
    BY <2>1, FreeEffect
  <2> QED
    BY <1>5, <1>7, <2>2 DEF Changed
<1> QED
  BY <1>6, <1>7

\* A resume asks for a page, and close() closes the query, in an unused slot.
LEMMA SendCallEffect ==
    ASSUME TypeOK, RowsLeft, NEW op \in {"query", "query-next", "query-close"},
           Send(calls, op)
    PROVE  /\ calls' \in [Calls -> Call] /\ RowsLeft'
           /\ \E d \in Calls :
                 /\ calls[d].at = "unused"
                 /\ calls'[d].op = op /\ calls'[d].at = "wire"
                 /\ \A e \in Calls : e # d => calls'[e] = calls[e]
<1>1. calls \in [Calls -> Call] /\ queryId \in BOOLEAN
  BY DEF TypeOK
<1>2. \A c \in Calls : calls[c].next + calls[c].left <= Rows + 1
  BY DEF RowsLeft
<1> QED
  BY <1>1, <1>2, SendEffect

\* The requests keep their types in every step.
LEMMA NextCalls ==
    ASSUME TypeOK, RowsLeft, [Next]_vars
    PROVE  calls' \in [Calls -> Call] /\ RowsLeft'
<1>1. calls \in [Calls -> Call] /\ queryId \in BOOLEAN
  BY DEF TypeOK
<1>2. UNCHANGED calls => calls' \in [Calls -> Call] /\ RowsLeft'
  BY <1>1 DEF RowsLeft
<1>3. ASSUME NEW c \in Calls, ServerStep(c) \/ Fail(c) \/ ReadStep(c)
      PROVE  calls' \in [Calls -> Call] /\ RowsLeft'
  <2>1. CASE ServePage(c)
    BY <2>1, ServePageEffect DEF Changed
  <2>2. CASE ServeClose(c) \/ ServeUnknown(c) \/ Fail(c) \/ ReadHead(c)
    <3>1. \E at \in {"reply", "failed", "rows"} : calls' = [calls EXCEPT ![c].at = at]
      BY <2>2 DEF ServeClose, ServeUnknown, Fail, ReadHead
    <3> QED
      BY <3>1, MoveEffect DEF Changed
  <2>3. CASE ReadRow(c)
    BY <2>3, ReadRowEffect DEF Changed
  <2>4. CASE ReadHasNext(c)
    BY <2>4, ReadHasNextEffect
  <2>5. CASE CloseReply(c) \/ ErrorReply(c)
    BY <2>5, FreeEffect DEF CloseReply, ErrorReply, Changed
  <2> QED
    BY <1>3, <2>1, <2>2, <2>3, <2>4, <2>5 DEF ServerStep, ReadStep
<1>4. CASE Resume \/ Pause \/ Emit
  BY <1>2, <1>4 DEF Resume, Pause, Emit
<1>5. CASE ResumeEvent
  BY <1>2, <1>5, SendCallEffect DEF ResumeEvent
<1>6. CASE Close
  BY <1>6, SendCallEffect DEF Close
<1>7. CASE UNCHANGED vars
  BY <1>2, <1>7 DEF vars
<1> QED
  BY <1>3, <1>4, <1>5, <1>6, <1>7 DEF Next

LEMMA NextClosing ==
    ASSUME TypeOK, RowsLeft, Closing, [Next]_vars
    PROVE  Closing'
<1>1. /\ ended => queryClosed
      /\ closedBy # "nobody" => queryClosed
      /\ \A c \in Calls :
            calls[c].at # "unused" /\ calls[c].op = "query-close" =>
               closedBy # "nobody" /\ calls[c].at # "rows"
      /\ calls \in [Calls -> Call]
  BY DEF Closing, TypeOK
<1>2. ASSUME NEW c \in Calls, NEW x, Changed(c, x), 
             x.at # "unused" => calls[c].at # "unused" /\ x.op = calls[c].op,
             x.at = "rows" => x.op # "query-close",
             closedBy' = closedBy, queryClosed' = queryClosed, ended' = ended
      PROVE  Closing'
  BY <1>1, <1>2 DEF Closing, Changed
<1>3. ASSUME NEW c \in Calls, ServerStep(c) \/ Fail(c) \/ ReadStep(c)
      PROVE  Closing'
  <2>1. CASE ServePage(c)
    <3>1. /\ Changed(c, Answered(calls[c], sent + 1, Last - sent, Last < Rows))
          /\ calls[c].at = "wire"
          /\ closedBy' = closedBy /\ queryClosed' = queryClosed /\ ended' = ended
      BY <2>1, ServePageEffect DEF ServePage, history, readable
    <3>2. /\ Answered(calls[c], sent + 1, Last - sent, Last < Rows).op = calls[c].op
          /\ Answered(calls[c], sent + 1, Last - sent, Last < Rows).at = "reply"
      BY <1>1 DEF Answered, Call
    <3> QED
      BY <1>2, <3>1, <3>2
  <2>2. CASE ServeClose(c) \/ ServeUnknown(c) \/ Fail(c) \/ ReadHead(c)
    <3>1. /\ \E at \in {"reply", "failed", "rows"} :
                /\ calls' = [calls EXCEPT ![c].at = at]
                /\ at = "rows" => calls[c].op # "query-close"
          /\ calls[c].at # "unused"
          /\ closedBy' = closedBy /\ queryClosed' = queryClosed /\ ended' = ended
      BY <2>2 DEF ServeClose, ServeUnknown, Fail, ReadHead, history, readable
    <3>2. PICK at \in {"reply", "failed", "rows"} :
             /\ Changed(c, Moved(calls[c], at))
             /\ at = "rows" => calls[c].op # "query-close"
      BY <3>1, MoveEffect
    <3>3. Moved(calls[c], at).op = calls[c].op /\ Moved(calls[c], at).at = at
      BY <1>1, MovedType
    <3> QED
      BY <1>2, <3>1, <3>2, <3>3
  <2>3. CASE ReadRow(c)
    <3>1. /\ Changed(c, WithRow(calls[c])) /\ calls[c].at = "rows"
          /\ closedBy' = closedBy /\ queryClosed' = queryClosed /\ ended' = ended
      BY <2>3, ReadRowEffect DEF ReadRow, history
    <3>2. WithRow(calls[c]).op = calls[c].op
      BY <1>1 DEF WithRow, Call
    <3>3. calls[c].op # "query-close"
      BY <1>1, <3>1
    <3> QED
      BY <1>2, <3>1, <3>2, <3>3
  <2>4. CASE ReadHasNext(c)
    <3>1. /\ queryClosed => queryClosed'
          /\ ended' => ended \/ queryClosed'
          /\ closedBy' = closedBy
      BY <2>4 DEF ReadHasNext
    <3>2. calls[c].at = "rows" /\ NoCall.at = "unused"
      BY <2>4, <1>1, RequestType DEF ReadHasNext, TypeOK
    <3>3. \A d \in Calls : calls'[d].at # "unused" /\ calls'[d].op = "query-close" =>
                              /\ calls[d].at # "unused" /\ calls[d].op = "query-close"
                              /\ calls'[d].at = calls[d].at
      BY <2>4, <3>2, ReadHasNextEffect DEF Changed
    <3> QED
      BY <1>1, <3>1, <3>3 DEF Closing
  <2>5. CASE CloseReply(c) \/ ErrorReply(c)
    <3>1. Changed(c, NoCall) /\ NoCall.at = "unused"
      BY <2>5, <1>1, FreeEffect, RequestType DEF CloseReply, ErrorReply, TypeOK
    <3>2. CASE CloseReply(c)
      <4>1. queryClosed
        BY <1>1, <3>2 DEF CloseReply
      <4>2. queryClosed' = queryClosed /\ closedBy' = closedBy
        BY <3>2 DEF CloseReply, history
      <4> QED
        BY <1>1, <3>1, <4>1, <4>2 DEF Closing, Changed
    <3>3. CASE ErrorReply(c)
      BY <1>2, <3>1, <3>3 DEF ErrorReply, history, readable
    <3> QED
      BY <2>5, <3>2, <3>3
  <2> QED
    BY <1>3, <2>1, <2>2, <2>3, <2>4, <2>5 DEF ServerStep, ReadStep
<1>4. CASE UNCHANGED <<calls, closedBy, queryClosed, ended>>
  BY <1>1, <1>4 DEF Closing
<1>5. CASE ResumeEvent
  <2>1. closedBy' = closedBy /\ queryClosed' = queryClosed /\ ended' = ended
    BY <1>5 DEF ResumeEvent
  <2>2. CASE Send(calls, "query-next")
    BY <1>1, <2>1, <2>2, SendCallEffect DEF Closing
  <2> QED
    BY <1>4, <1>5, <2>1, <2>2 DEF ResumeEvent
<1>6. CASE Close
  <2>1. queryClosed' /\ closedBy' # "nobody" /\ closedBy' \in {"close", "early"}
    BY <1>6 DEF Close
  <2>2. \A d \in Calls :
           \/ calls'[d].at = calls[d].at /\ calls'[d].op = calls[d].op
           \/ calls'[d].at = "wire"
    BY <1>6, SendCallEffect DEF Close
  <2>3. \A d \in Calls : calls'[d].at = "rows" => calls'[d].op # "query-close"
    BY <1>1, <2>2
  <2> QED
    BY <2>1, <2>3 DEF Closing
<1> QED
  BY <1>3, <1>4, <1>5, <1>6 DEF Next, vars, Resume, Pause, Emit, history, readable

\* The types of the rest.
LEMMA NextType ==
    ASSUME TypeOK, RowsLeft, Closing, [Next]_vars
    PROVE  TypeOK'
<1>1. /\ calls \in [Calls -> Call]
      /\ query \in {"none", "open", "gone"} /\ sent \in 0..Rows
      /\ flowing \in {"null", "yes", "no"}
      /\ pushed \in Seq(1..Rows) /\ emitted \in 0..Len(pushed)
      /\ closedBy \in {"nobody", "close", "early"}
      /\ errors \in Nat /\ pauses \in 0..MaxPauses /\ failures \in 0..MaxFailures
  BY DEF TypeOK
<1>2. /\ queryId \in BOOLEAN /\ requestedNext \in BOOLEAN /\ queryClosed \in BOOLEAN
      /\ resuming \in BOOLEAN /\ ended \in BOOLEAN /\ over \in BOOLEAN
      /\ midPage \in BOOLEAN /\ prefetched \in BOOLEAN
  BY DEF TypeOK
<1>3. calls' \in [Calls -> Call]
  BY NextCalls
<1>4. /\ queryId' \in BOOLEAN /\ requestedNext' \in BOOLEAN /\ queryClosed' \in BOOLEAN
      /\ resuming' \in BOOLEAN /\ ended' \in BOOLEAN /\ over' \in BOOLEAN
      /\ midPage' \in BOOLEAN /\ prefetched' \in BOOLEAN
  <2>1. CASE \E c \in Calls : ServePage(c) \/ ServeClose(c) \/ ServeUnknown(c) \/ Fail(c)
    BY <1>2, <2>1 DEF ServePage, ServeClose, ServeUnknown, Fail, readable, history
  <2>2. CASE \E c \in Calls : ReadHead(c) \/ ReadRow(c) \/ CloseReply(c) \/ ErrorReply(c)
    BY <1>2, <2>2 DEF ReadHead, ReadRow, CloseReply, ErrorReply, readable, history
  <2>3. CASE \E c \in Calls : ReadHasNext(c)
    BY <1>2, <2>3, Zenon DEF ReadHasNext
  <2>4. CASE Resume \/ Pause \/ Emit \/ Close
    BY <1>2, <2>4 DEF Resume, Pause, Emit, Close, readable, history
  <2>5. CASE ResumeEvent
    BY <1>2, <2>5, Zenon DEF ResumeEvent
  <2>6. CASE UNCHANGED vars
    BY <1>2, <2>6 DEF vars, readable, history
  <2> QED
    BY <2>1, <2>2, <2>3, <2>4, <2>5, <2>6 DEF Next, ServerStep, ReadStep
<1>5. /\ query' \in {"none", "open", "gone"} /\ sent' \in 0..Rows
      /\ flowing' \in {"null", "yes", "no"}
      /\ closedBy' \in {"nobody", "close", "early"}
      /\ errors' \in Nat /\ pauses' \in 0..MaxPauses /\ failures' \in 0..MaxFailures
  <2>1. CASE \E c \in Calls : ServePage(c)
    <3>1. sent' = Last /\ query' \in {"open", "gone"}
          /\ UNCHANGED <<flowing, closedBy, errors, pauses, failures>>
      BY <2>1, ServePageEffect DEF ServePage, readable, history
    <3> QED
      BY <1>1, <3>1, LastType
  <2>2. CASE \E c \in Calls : ServeClose(c) \/ ServeUnknown(c) \/ Fail(c)
    BY <1>1, <2>2, StreamAssumption DEF ServeClose, ServeUnknown, Fail, readable, history
  <2>3. CASE \E c \in Calls : \/ ReadHead(c) \/ ReadRow(c) \/ CloseReply(c) \/ ErrorReply(c)
                              \/ ReadHasNext(c)
    BY <1>1, <2>3 DEF ReadHead, ReadRow, CloseReply, ErrorReply, ReadHasNext, readable, history
  <2>4. CASE Resume \/ Pause \/ Emit \/ Close \/ ResumeEvent
    BY <1>1, <2>4, StreamAssumption DEF Resume, Pause, Emit, Close, ResumeEvent, readable, history
  <2>5. CASE UNCHANGED vars
    BY <1>1, <2>5 DEF vars, readable, history
  <2> QED
    BY <2>1, <2>2, <2>3, <2>4, <2>5 DEF Next, ServerStep, ReadStep
<1>6. pushed' \in Seq(1..Rows) /\ emitted' \in 0..Len(pushed')
  <2>1. CASE UNCHANGED <<pushed, emitted>>
    BY <1>1, <2>1
  <2>2. CASE \E c \in Calls : ReadRow(c)
    <3> PICK c \in Calls : ReadRow(c)
      BY <2>2
    <3>1. calls[c].next \in 1..Rows
      BY ReadRowEffect
    <3>2. CASE /\ pushed' = Append(pushed, calls[c].next)
               /\ emitted' = IF flowing = "yes" THEN emitted + 1 ELSE emitted
      <4>1. pushed' \in Seq(1..Rows) /\ Len(pushed') = Len(pushed) + 1
        BY <1>1, <3>1, <3>2, AppendProperties
      <4>2. Len(pushed) \in Nat
        BY <1>1
      <4> QED
        BY <1>1, <3>2, <4>1, <4>2
    <3> QED
      BY <2>1, <3>2 DEF ReadRow
  <2>3. CASE Emit
    <3>1. /\ pushed' = pushed
          /\ emitted' = emitted \/ (emitted < Len(pushed) /\ emitted' = emitted + 1)
      BY <2>3 DEF Emit
    <3>2. Len(pushed) \in Nat
      BY <1>1
    <3> QED
      BY <1>1, <3>1, <3>2
  <2>4. CASE \E c \in Calls : \/ ServerStep(c) \/ Fail(c) \/ ReadHead(c) \/ ReadHasNext(c)
                              \/ CloseReply(c) \/ ErrorReply(c)
    BY <2>1, <2>4 DEF ServerStep, ServePage, ServeClose, ServeUnknown, Fail, ReadHead,
                      ReadHasNext, CloseReply, ErrorReply, readable
  <2>5. CASE Resume \/ Pause \/ ResumeEvent \/ Close \/ UNCHANGED vars
    BY <2>1, <2>5 DEF Resume, Pause, ResumeEvent, Close, vars, readable
  <2> QED
    BY <2>2, <2>3, <2>4, <2>5 DEF Next, ReadStep
<1>7. {queryId', requestedNext', queryClosed', resuming', ended', over', midPage',
       prefetched'} \subseteq BOOLEAN
  BY <1>4
<1> QED
  BY <1>3, <1>5, <1>6, <1>7 DEF TypeOK

--------------------------------------------------------------------------------
(* The rows come in their order.                                               *)

LEMMA OrderParts ==
    ASSUME TypeOK, InOrder
    PROVE  /\ calls \in [Calls -> Call] /\ sent \in 0..Rows /\ pushed \in Seq(1..Rows)
           /\ queryId \in BOOLEAN /\ Len(pushed) \in Nat
           /\ \A c, d \in Calls : Page(c) /\ Page(d) => c = d
           /\ \A c \in Calls : Served(c) =>
                 /\ calls[c].next + calls[c].left = sent + 1
                 /\ calls[c].hasNext <=> sent < Rows
                 /\ ~queryClosed => calls[c].next = Len(pushed) + 1
           /\ ~queryClosed /\ (\A c \in Calls : ~Served(c)) => Len(pushed) = sent
           /\ IsPrefixOfRows(pushed)
           /\ queryClosed /\ closedBy = "nobody" => Len(pushed) = Rows
<1>1. pushed \in Seq(1..Rows)
  BY DEF TypeOK
<1> QED
  BY <1>1 DEF TypeOK, InOrder, OnePage

\* A request that the server has not answered changes nothing.
LEMMA NotServed ==
    ASSUME TypeOK, InOrder, NEW c \in Calls, NEW x, Changed(c, x),
           ~Served(c),
           x.at # "unused" => calls[c].at # "unused" /\ x.op = calls[c].op,
           x.at \in {"reply", "rows"} => x.op = "query-close",
           UNCHANGED <<sent, pushed, queryClosed, closedBy>>
    PROVE  InOrder'
<1>1. \A d \in Calls : Page(d)' => Page(d)
  BY DEF Page, Changed
<1>2. \A d \in Calls : Served(d)' <=> Served(d)
  BY DEF Served, Page, Changed
<1>3. \A d \in Calls : Served(d) => calls'[d] = calls[d]
  BY DEF Changed
<1> QED
  BY <1>1, <1>2, <1>3 DEF InOrder, OnePage

LEMMA ServePageOrder ==
    ASSUME TypeOK, RowsLeft, InOrder, NEW c \in Calls, ServePage(c)
    PROVE  InOrder'
<1> DEFINE x == Answered(calls[c], sent + 1, Last - sent, Last < Rows)
<1>1. Changed(c, x) /\ sent' = Last
  BY ServePageEffect
<1>2. /\ calls[c].at = "wire" /\ calls[c].op # "query-close"
      /\ UNCHANGED <<pushed, queryClosed, closedBy>>
  BY DEF ServePage, readable, history
<1>3. /\ x.at = "reply" /\ x.op = calls[c].op /\ x.next = sent + 1 /\ x.left = Last - sent
      /\ x.hasNext = (Last < Rows)
  BY <1>1, OrderParts DEF Answered, Call
<1>4. (sent + 1) + (Last - sent) = Last + 1
  BY OrderParts, LastType
<1> HIDE DEF x
<1>5. \A d \in Calls : Page(d)' <=> Page(d)
  BY <1>1, <1>2, <1>3 DEF Page, Changed
<1>6. \A d \in Calls : Served(d)' <=> d = c
  BY <1>1, <1>2, <1>3, OrderParts DEF Served, Page, Changed
<1>7. Page(c) /\ ~Served(c)
  BY <1>2 DEF Page, Served
<1>8. \A d \in Calls : ~Served(d)
  BY <1>7, OrderParts DEF Served
<1>9. ~queryClosed => Len(pushed) = sent
  BY <1>8, OrderParts
<1>10. \A d, e \in Calls : Page(d)' /\ Page(e)' => d = e
  BY <1>5, OrderParts
<1>11. calls'[c] = x
  BY <1>1 DEF Changed
<1>12. OnePage'
  <2>1. \A d \in Calls : Served(d)' =>
           /\ calls'[d].next + calls'[d].left = sent' + 1
           /\ calls'[d].hasNext <=> sent' < Rows
           /\ ~queryClosed' => calls'[d].next = Len(pushed') + 1
    <3>1. calls'[c].next + calls'[c].left = sent' + 1
      BY <1>1, <1>3, <1>4, <1>11
    <3>2. calls'[c].hasNext <=> sent' < Rows
      BY <1>1, <1>3, <1>11
    <3>3. ~queryClosed' => calls'[c].next = Len(pushed') + 1
      BY <1>2, <1>3, <1>9, <1>11
    <3> QED
      BY <1>6, <3>1, <3>2, <3>3
  <2>2. ~(\A d \in Calls : ~Served(d)')
    BY <1>6
  <2> QED
    BY <1>10, <2>1, <2>2 DEF OnePage
<1> QED
  BY <1>2, <1>12, OrderParts DEF InOrder, IsPrefixOfRows

LEMMA ReadRowOrder ==
    ASSUME TypeOK, RowsLeft, InOrder, NEW c \in Calls, ReadRow(c), calls[c].op # "query-close"
    PROVE  InOrder'
<1> DEFINE x == WithRow(calls[c])
<1>1. Changed(c, x) /\ calls[c].at = "rows" /\ calls[c].left > 0 /\ calls[c].next \in 1..Rows
  BY ReadRowEffect
<1>2. /\ UNCHANGED <<sent, queryClosed, closedBy>>
      /\ IF queryClosed THEN pushed' = pushed ELSE pushed' = Append(pushed, calls[c].next)
  BY DEF ReadRow, history
<1>3. /\ x.at = "rows" /\ x.op = calls[c].op /\ x.next = calls[c].next + 1
      /\ x.left = calls[c].left - 1 /\ x.hasNext = calls[c].hasNext
  BY <1>1, OrderParts DEF WithRow, Call
<1>4. calls[c].next \in Int /\ calls[c].left \in Int
  BY OrderParts, CallType
<1> HIDE DEF x
<1>5. \A d \in Calls : (Page(d)' <=> Page(d)) /\ (Served(d)' <=> Served(d))
  BY <1>1, <1>3 DEF Served, Page, Changed
<1>6. Served(c) /\ \A d \in Calls : Served(d) => d = c
  BY <1>1, OrderParts DEF Served, Page
<1>7. /\ calls[c].next + calls[c].left = sent + 1
      /\ calls[c].hasNext <=> sent < Rows
      /\ ~queryClosed => calls[c].next = Len(pushed) + 1
  BY <1>6, OrderParts
<1>8. calls'[c] = x
  BY <1>1 DEF Changed
<1>9. ~queryClosed => /\ Len(pushed') = Len(pushed) + 1
                      /\ \A i \in 1..Len(pushed) : pushed'[i] = pushed[i]
                      /\ pushed'[Len(pushed) + 1] = calls[c].next
  BY <1>1, <1>2, OrderParts, AppendProperties
<1>10. IsPrefixOfRows(pushed')
  <2>1. CASE queryClosed
    BY <1>2, <2>1, OrderParts
  <2>2. CASE ~queryClosed
    <3>1. \A i \in 1..Len(pushed) + 1 : pushed'[i] = i
      BY <1>7, <1>9, <2>2, OrderParts DEF IsPrefixOfRows
    <3> QED
      BY <1>9, <2>2, <3>1 DEF IsPrefixOfRows
  <2> QED
    BY <2>1, <2>2
<1>11. /\ calls'[c].next + calls'[c].left = sent' + 1
       /\ calls'[c].hasNext <=> sent' < Rows
       /\ ~queryClosed' => calls'[c].next = Len(pushed') + 1
  <2>1. calls'[c].next + calls'[c].left = sent' + 1
    BY <1>2, <1>3, <1>4, <1>7, <1>8
  <2>2. ~queryClosed' => calls'[c].next = Len(pushed') + 1
    BY <1>2, <1>3, <1>7, <1>8, <1>9
  <2> QED
    BY <1>2, <1>3, <1>7, <1>8, <2>1, <2>2
<1>12. OnePage'
  <2>1. \A d, e \in Calls : Page(d)' /\ Page(e)' => d = e
    BY <1>5, OrderParts
  <2>2. ~(\A d \in Calls : ~Served(d)')
    BY <1>5, <1>6
  <2>3. \A d \in Calls : Served(d)' =>
           /\ calls'[d].next + calls'[d].left = sent' + 1
           /\ calls'[d].hasNext <=> sent' < Rows
           /\ ~queryClosed' => calls'[d].next = Len(pushed') + 1
    BY <1>5, <1>6, <1>11
  <2> QED
    BY <2>1, <2>2, <2>3 DEF OnePage
<1>13. queryClosed' /\ closedBy' = "nobody" => Len(pushed') = Rows
  BY <1>2, OrderParts
<1> QED
  BY <1>10, <1>12, <1>13 DEF InOrder, IsPrefixOfRows

\* Pages are read to their end in their order, and the next one is asked for after that.
LEMMA ReadHasNextOrder ==
    ASSUME TypeOK, RowsLeft, InOrder, Closing, NEW c \in Calls, ReadHasNext(c),
           calls[c].op # "query-close"
    PROVE  InOrder'
<1>1. calls[c].at = "rows" /\ calls[c].left = 0
  BY DEF ReadHasNext
<1>2. /\ UNCHANGED <<sent, pushed, closedBy>>
      /\ queryClosed' = (queryClosed \/ ~calls[c].hasNext)
  BY Zenon DEF ReadHasNext, TypeOK
<1>3. Served(c) /\ \A d \in Calls : Page(d) => d = c
  BY <1>1, OrderParts DEF Served, Page
<1>4. /\ calls[c].next \in Int /\ calls[c].next = sent + 1
      /\ calls[c].hasNext <=> sent < Rows
      /\ ~queryClosed => calls[c].next = Len(pushed) + 1
  BY <1>1, <1>3, OrderParts, CallType
<1>5. ~queryClosed => Len(pushed) = sent
  <2>1. calls[c].next = sent + 1 /\ (~queryClosed => calls[c].next = Len(pushed) + 1)
    BY <1>4
  <2>2. Len(pushed) \in Int /\ sent \in Int
    BY OrderParts, StreamAssumption
  <2> QED
    BY <2>1, <2>2
<1>6. /\ \A d, e \in Calls : Page(d)' /\ Page(e)' => d = e
      /\ \A d \in Calls : ~Served(d)'
  <2>1. NoCall.at = "unused"
    BY DEF NoCall
  <2>2. CASE \E d \in Calls :
                /\ d = c \/ calls[d].at = "unused"
                /\ calls'[d].op = "query-next" /\ calls'[d].at = "wire"
                /\ d # c => calls'[c].at = "unused"
                /\ \A e \in Calls : e # d /\ e # c => calls'[e] = calls[e]
    <3> PICK d \in Calls :
                /\ d = c \/ calls[d].at = "unused"
                /\ calls'[d].op = "query-next" /\ calls'[d].at = "wire"
                /\ d # c => calls'[c].at = "unused"
                /\ \A e \in Calls : e # d /\ e # c => calls'[e] = calls[e]
      BY <2>2
    <3>1. \A e \in Calls : Page(e)' => e = d
      BY <1>3 DEF Page
    <3>2. \A e \in Calls : ~Served(e)'
      BY <3>1 DEF Served
    <3> QED
      BY <3>1, <3>2
  <2>3. CASE Changed(c, NoCall)
    BY <1>3, <2>1, <2>3 DEF Page, Served, Changed
  <2> QED
    BY <2>2, <2>3, ReadHasNextEffect
<1>7. OnePage'
  BY <1>2, <1>5, <1>6 DEF OnePage
<1>8. queryClosed' /\ closedBy' = "nobody" => Len(pushed') = Rows
  <2>1. CASE queryClosed
    BY <1>2, <2>1, OrderParts
  <2>2. CASE ~queryClosed
    <3>1. queryClosed' => ~(sent < Rows)
      BY <1>2, <1>4, <2>2
    <3>2. sent \in 0..Rows /\ Rows \in Nat
      BY OrderParts, StreamAssumption
    <3>3. ~(sent < Rows) => sent = Rows
      BY <3>2
    <3> QED
      BY <1>2, <1>5, <2>2, <3>1, <3>3
  <2> QED
    BY <2>1, <2>2
<1> QED
  BY <1>2, <1>7, <1>8, OrderParts DEF InOrder

LEMMA NextOrder ==
    ASSUME TypeOK, RowsLeft, Closing, InOrder, [Next]_vars, ~midPage'
    PROVE  InOrder'
<1>1. calls \in [Calls -> Call] /\ queryId \in BOOLEAN
  BY DEF TypeOK
<1>2. CASE UNCHANGED <<calls, sent, pushed, queryClosed, closedBy>>
  BY <1>2 DEF InOrder, OnePage, Page, Served
<1>3. \A c \in Calls : calls[c].at = "rows" => calls[c].op # "query-close"
  BY DEF Closing
<1>4. ASSUME NEW c \in Calls, ServerStep(c) \/ Fail(c) \/ ReadStep(c)
      PROVE  InOrder'
  <2>1. CASE ServePage(c)
    BY <2>1, ServePageOrder
  <2>2. CASE ServeClose(c) \/ ServeUnknown(c) \/ Fail(c)
    <3>1. /\ \E at \in {"reply", "failed"} :
                /\ calls' = [calls EXCEPT ![c].at = at]
                /\ at = "reply" => calls[c].op = "query-close"
          /\ calls[c].at = "wire"
          /\ UNCHANGED <<sent, pushed, queryClosed, closedBy>>
      BY <2>2 DEF ServeClose, ServeUnknown, Fail, readable, history
    <3>2. PICK at \in {"reply", "failed"} :
             /\ Changed(c, Moved(calls[c], at))
             /\ at = "reply" => calls[c].op = "query-close"
      BY <3>1, MoveEffect
    <3>3. Moved(calls[c], at).op = calls[c].op /\ Moved(calls[c], at).at = at
      BY <1>1, MovedType
    <3>4. ~Served(c)
      BY <3>1 DEF Served
    <3> QED
      BY <3>1, <3>2, <3>3, <3>4, NotServed
  <2>3. CASE ReadHead(c)
    <3> DEFINE x == Moved(calls[c], "rows")
    <3>1. Changed(c, x) /\ calls[c].at = "reply" /\ calls[c].op # "query-close"
      BY <2>3, MoveEffect DEF ReadHead
    <3>2. UNCHANGED <<sent, pushed, queryClosed, closedBy>>
      BY <2>3 DEF ReadHead, readable, history
    <3>3. /\ x.op = calls[c].op /\ x.at = "rows" /\ x.next = calls[c].next
          /\ x.left = calls[c].left /\ x.hasNext = calls[c].hasNext
      BY <1>1, MovedType
    <3> HIDE DEF x
    <3>4. \A d \in Calls : /\ Page(d)' <=> Page(d)
                           /\ Served(d)' <=> Served(d)
                           /\ calls'[d].next = calls[d].next
                           /\ calls'[d].left = calls[d].left
                           /\ calls'[d].hasNext = calls[d].hasNext
      BY <3>1, <3>3 DEF Page, Served, Changed
    <3> QED
      BY <3>2, <3>4 DEF InOrder, OnePage
  <2>4. CASE ReadRow(c)
    BY <1>3, <2>4, ReadRowOrder DEF ReadRow
  <2>5. CASE ReadHasNext(c)
    BY <1>3, <2>5, ReadHasNextOrder DEF ReadHasNext
  <2>6. CASE CloseReply(c) \/ ErrorReply(c)
    <3>1. Changed(c, NoCall) /\ NoCall.at = "unused"
      BY <2>6, <1>1, FreeEffect, RequestType DEF CloseReply, ErrorReply
    <3>2. ~Served(c) /\ UNCHANGED <<sent, pushed, queryClosed, closedBy>>
      BY <2>6 DEF CloseReply, ErrorReply, Served, Page, readable, history
    <3> QED
      BY <3>1, <3>2, NotServed
  <2> QED
    BY <1>4, <2>1, <2>2, <2>3, <2>4, <2>5, <2>6 DEF ServerStep, ReadStep
<1>5. CASE ResumeEvent
  <2>1. UNCHANGED <<sent, pushed, queryClosed, closedBy>>
    BY <1>5 DEF ResumeEvent
  <2>2. CASE Send(calls, "query-next") /\ ~PageComing
    <3>1. \A c \in Calls : ~Page(c)
      BY <2>2 DEF PageComing, Page
    <3>2. PICK d \in Calls :
             /\ calls[d].at = "unused"
             /\ calls'[d].op = "query-next" /\ calls'[d].at = "wire"
             /\ \A e \in Calls : e # d => calls'[e] = calls[e]
      BY <2>2, SendCallEffect
    <3>3. \A e \in Calls : (Page(e)' => e = d) /\ ~Served(e)' /\ ~Served(e)
      BY <3>1, <3>2 DEF Page, Served
    <3> QED
      BY <2>1, <3>3 DEF InOrder, OnePage
  <2>3. CASE UNCHANGED calls
    BY <1>2, <2>1, <2>3
  <2>4. (Send(calls, "query-next") /\ ~PageComing) \/ UNCHANGED calls
    BY <1>5 DEF ResumeEvent
  <2> QED
    BY <2>2, <2>3, <2>4
<1>6. CASE Close
  <2>1. queryClosed' /\ closedBy' \in {"close", "early"} /\ UNCHANGED <<sent, pushed>>
    BY <1>6 DEF Close, readable
  <2>2. PICK d \in Calls :
           /\ calls[d].at = "unused"
           /\ calls'[d].op = "query-close" /\ calls'[d].at = "wire"
           /\ \A e \in Calls : e # d => calls'[e] = calls[e]
    BY <1>6, SendCallEffect DEF Close
  <2>3. \A e \in Calls : (Page(e)' <=> Page(e)) /\ (Served(e)' <=> Served(e))
    BY <2>2 DEF Page, Served
  <2>4. \A e \in Calls : Served(e) => calls'[e] = calls[e]
    BY <2>2 DEF Page, Served
  <2>5. OnePage'
    BY <2>1, <2>3, <2>4 DEF InOrder, OnePage
  <2> QED
    BY <2>1, <2>5 DEF InOrder
<1> QED
  BY <1>2, <1>4, <1>5, <1>6 DEF Next, vars, Resume, Pause, Emit, readable, history

--------------------------------------------------------------------------------
(* A paused reader holds up the fetching.                                      *)

LEMMA PagesType ==
    ASSUME NEW n \in Nat
    PROVE  /\ Pages(n) \in Nat
           /\ Pages(1 + n) = Pages(n) + PageSize
           /\ Pages(n + 1) = Pages(n) + PageSize
           /\ PageSize <= Pages(1 + n)
BY StreamAssumption DEF Pages

\* How many rows are held back.
Backlog == Len(pushed) - emitted

LEMMA HeldParts ==
    ASSUME TypeOK, HeldBack
    PROVE  /\ calls \in [Calls -> Call] /\ queryId \in BOOLEAN
           /\ Len(pushed) \in Nat /\ emitted \in 0..Len(pushed) /\ Backlog \in Nat
           /\ PageSize \in Nat /\ Pages(pauses) \in Nat /\ Allowed \in Nat
           /\ Pages(1 + pauses) = Pages(pauses) + PageSize
           /\ PageSize <= Pages(1 + pauses)
           /\ Allowed \in {Pages(pauses), Pages(1 + pauses)}
           /\ Backlog <= Allowed
           /\ \A c \in Calls : Page(c) => Backlog + Coming(c) <= Allowed
           /\ flowing = "null" => ~resuming /\ (requestedNext => queryClosed)
           /\ \A c \in Calls : Coming(c) \in Nat
<1>1. pushed \in Seq(1..Rows) /\ emitted \in 0..Len(pushed) /\ pauses \in 0..MaxPauses
  BY DEF TypeOK
<1>2. Len(pushed) \in Nat /\ Backlog \in Nat
  BY <1>1 DEF Backlog
<1>3. pauses \in Nat
  BY <1>1, StreamAssumption
<1>4. /\ Pages(pauses) \in Nat /\ Pages(1 + pauses) = Pages(pauses) + PageSize
      /\ PageSize <= Pages(1 + pauses) /\ PageSize \in Nat
  BY <1>3, PagesType, StreamAssumption
<1>5. Pages(1 + pauses) \in Nat
  BY <1>4
<1>6. Allowed \in {Pages(pauses), Pages(1 + pauses)}
  BY Zenon DEF Allowed
<1>7. calls \in [Calls -> Call] /\ queryId \in BOOLEAN
  BY DEF TypeOK
<1>8. \A c \in Calls : Coming(c) \in Nat
  <2> TAKE c \in Calls
  <2>1. calls[c].left \in Nat
    BY <1>4, <1>7, CallType
  <2> QED
    BY <1>4, <2>1 DEF Coming
<1> QED
  BY <1>1, <1>2, <1>4, <1>5, <1>6, <1>7, <1>8 DEF HeldBack, Backlog

LEMMA NextHeldType ==
    ASSUME TypeOK'
    PROVE  /\ Len(pushed)' \in Nat /\ emitted' \in 0..Len(pushed') /\ Backlog' \in Nat
           /\ pauses' \in Nat /\ Pages(pauses') \in Nat /\ Pages(1 + pauses') \in Nat
           /\ Allowed' \in {Pages(pauses'), Pages(1 + pauses')} /\ Allowed' \in Nat
           /\ \A c \in Calls : Coming(c)' \in Nat
<1>1. pushed' \in Seq(1..Rows) /\ emitted' \in 0..Len(pushed') /\ pauses' \in 0..MaxPauses
  BY DEF TypeOK
<1>2. Len(pushed)' \in Nat /\ Backlog' \in Nat
  BY <1>1 DEF Backlog
<1>3. pauses' \in Nat /\ PageSize \in Nat
  BY <1>1, StreamAssumption
<1>4. Pages(pauses') \in Nat /\ Pages(1 + pauses') \in Nat
  BY <1>3, PagesType
<1>5. Allowed' \in {Pages(pauses'), Pages(1 + pauses')}
  BY Zenon DEF Allowed
<1>6. \A c \in Calls : Coming(c)' \in Nat
  <2> TAKE c \in Calls
  <2>1. calls'[c] \in Call
    BY DEF TypeOK
  <2>2. calls'[c].left \in Nat
    BY <1>3, <2>1, CallType
  <2> QED
    BY <1>3, <2>2 DEF Coming
<1> QED
  BY <1>1, <1>2, <1>3, <1>4, <1>5, <1>6

\* Where no more rows are held back or may come than before, and no fewer are allowed.
LEMMA HeldStep ==
    ASSUME TypeOK, TypeOK', HeldBack, Backlog' = Backlog, Allowed <= Allowed',
           \A d \in Calls : Page(d)' => Page(d) /\ Coming(d)' <= Coming(d),
           flowing' = "null" => ~resuming' /\ (requestedNext' => queryClosed')
    PROVE  HeldBack'
<1>1. Backlog' <= Allowed'
  BY HeldParts, NextHeldType
<1>2. ASSUME NEW d \in Calls, Page(d)'
      PROVE  Backlog' + Coming(d)' <= Allowed'
  BY <1>2, HeldParts, NextHeldType
<1> QED
  BY <1>1, <1>2 DEF HeldBack, Backlog

LEMMA ServerHeld ==
    ASSUME TypeOK, TypeOK', RowsLeft, HeldBack, NEW c \in Calls,
           ServerStep(c) \/ Fail(c) \/ ReadHead(c)
    PROVE  HeldBack'
<1>1. /\ UNCHANGED <<pushed, emitted, flowing, resuming, requestedNext, queryClosed, pauses>>
  BY DEF ServerStep, ServePage, ServeClose, ServeUnknown, Fail, ReadHead, readable
<1>2. Backlog' = Backlog /\ Allowed' = Allowed
  BY <1>1 DEF Backlog, Allowed
<1>3. ASSUME NEW x, Changed(c, x), x.op = calls[c].op, calls[c].at # "unused",
             calls[c].op # "query-close" =>
                \/ calls[c].at = "wire" /\ x.left <= PageSize
                \/ calls[c].at = "reply" /\ x.left = calls[c].left,
             x.at \in {"reply", "rows", "failed"}
      PROVE  HeldBack'
  <2>1. \A d \in Calls : Page(d)' => Page(d)
    BY <1>3 DEF Page, Changed
  <2>2. ASSUME NEW d \in Calls, Page(d)', d # c
        PROVE  Coming(d)' = Coming(d)
    BY <1>3, <2>2 DEF Coming, Served, Page, Changed
  <2>3. ASSUME Page(c)'
        PROVE  Coming(c)' <= Coming(c)
    <3>1. Page(c) /\ calls'[c] = x
      BY <1>3, <2>1, <2>3 DEF Changed
    <3>2. Coming(c) \in Nat /\ PageSize \in Nat
      BY HeldParts
    <3>3. CASE x.at = "failed"
      BY <3>1, <3>2, <3>3 DEF Coming, Served
    <3>4. CASE x.at \in {"reply", "rows"}
      <4>1. Coming(c)' = x.left
        BY <2>3, <3>1, <3>4 DEF Coming, Served
      <4>2. CASE calls[c].at = "wire" /\ x.left <= PageSize
        BY <4>1, <4>2 DEF Coming
      <4>3. CASE calls[c].at = "reply" /\ x.left = calls[c].left
        <5>1. Coming(c) = x.left
          BY <3>1, <4>3 DEF Coming, Served
        <5> QED
          BY <3>2, <4>1, <5>1
      <4> QED
        BY <1>3, <3>1, <4>2, <4>3 DEF Page
    <3> QED
      BY <1>3, <3>3, <3>4
  <2>4. \A d \in Calls : Page(d)' => Page(d) /\ Coming(d)' <= Coming(d)
    BY <2>1, <2>2, <2>3, HeldParts
  <2> QED
    BY <1>1, <1>2, <2>4, HeldParts, HeldStep
<1>4. CASE ServePage(c)
  <2> DEFINE x == Answered(calls[c], sent + 1, Last - sent, Last < Rows)
  <2>1. Changed(c, x) /\ calls[c].at = "wire"
    BY <1>4, ServePageEffect DEF ServePage
  <2>2. x.at = "reply" /\ x.op = calls[c].op /\ x.left = Last - sent
    BY HeldParts DEF Answered, Call
  <2>3. Last - sent <= PageSize
    BY LastType, StreamAssumption DEF TypeOK
  <2> HIDE DEF x
  <2> QED
    BY <1>3, <2>1, <2>2, <2>3
<1>5. CASE ServeClose(c) \/ ServeUnknown(c) \/ Fail(c) \/ ReadHead(c)
  <2>1. /\ \E at \in {"reply", "failed", "rows"} :
              /\ calls' = [calls EXCEPT ![c].at = at]
              /\ at # "failed" => calls[c].op = "query-close" \/ calls[c].at = "reply"
        /\ calls[c].at \in {"wire", "reply"}
    BY <1>5 DEF ServeClose, ServeUnknown, Fail, ReadHead
  <2>2. PICK at \in {"reply", "failed", "rows"} :
           /\ Changed(c, Moved(calls[c], at))
           /\ at # "failed" => calls[c].op = "query-close" \/ calls[c].at = "reply"
    BY <2>1, MoveEffect
  <2> DEFINE x == Moved(calls[c], at)
  <2>3. x.op = calls[c].op /\ x.at = at /\ x.left = calls[c].left /\ x.left <= PageSize
    <3>1. calls[c] \in Call
      BY HeldParts
    <3>2. calls[c].left \in 0..PageSize
      BY <3>1, CallType
    <3>3. calls[c].left <= PageSize
      BY <3>2, StreamAssumption
    <3> QED
      BY <3>1, <3>3, MovedType
  <2> HIDE DEF x
  <2>4. Changed(c, x)
    BY <2>2 DEF x
  <2> QED
    BY <1>3, <2>1, <2>2, <2>3, <2>4
<1> QED
  BY <1>4, <1>5 DEF ServerStep

LEMMA ReadRowHeld ==
    ASSUME TypeOK, TypeOK', RowsLeft, OnePage, HeldBack, NEW c \in Calls, ReadRow(c),
           calls[c].op # "query-close"
    PROVE  HeldBack'
<1> DEFINE x == WithRow(calls[c])
<1>1. Changed(c, x) /\ calls[c].at = "rows" /\ calls[c].left > 0 /\ calls[c].next \in 1..Rows
  BY ReadRowEffect
<1>2. /\ UNCHANGED <<flowing, resuming, requestedNext, queryClosed, pauses>>
      /\ ~Due
      /\ \/ UNCHANGED <<pushed, emitted>>
         \/ /\ pushed' = Append(pushed, calls[c].next)
            /\ emitted' = IF flowing = "yes" THEN emitted + 1 ELSE emitted
  BY DEF ReadRow
<1>3. calls[c] \in Call /\ calls[c].left \in Nat
  BY HeldParts, CallType
<1>4. x.at = "rows" /\ x.op = calls[c].op /\ x.left = calls[c].left - 1
  BY <1>1, <1>3 DEF WithRow, Call
<1> HIDE DEF x
<1>5. /\ Page(c) /\ Coming(c) = calls[c].left /\ Coming(c)' = calls[c].left - 1
      /\ \A d \in Calls : Page(d)' => d = c
  BY <1>1, <1>4 DEF Page, Coming, Served, Changed, OnePage
<1>6. Allowed' = Allowed
  BY <1>2 DEF Allowed
<1>7. CASE Backlog' = Backlog
  <2>1. \A d \in Calls : Page(d)' => Page(d) /\ Coming(d)' <= Coming(d)
    BY <1>3, <1>5
  <2> QED
    BY <1>2, <1>6, <1>7, <2>1, HeldParts, HeldStep
<1>8. CASE Backlog' = Backlog + 1
  <2>1. Backlog + calls[c].left <= Allowed
    BY <1>5, HeldParts
  <2>2. /\ Backlog' <= Allowed'
        /\ Backlog' + Coming(c)' <= Allowed'
    BY <1>1, <1>3, <1>5, <1>6, <1>8, <2>1, HeldParts
  <2>3. flowing' = "null" => ~resuming' /\ (requestedNext' => queryClosed')
    BY <1>2, HeldParts
  <2> QED
    BY <1>5, <2>2, <2>3 DEF HeldBack, Backlog
<1> QED
  <2>1. CASE UNCHANGED <<pushed, emitted>>
    BY <1>7, <2>1 DEF Backlog
  <2>2. CASE /\ pushed' = Append(pushed, calls[c].next)
             /\ emitted' = IF flowing = "yes" THEN emitted + 1 ELSE emitted
    <3>1. Len(pushed') = Len(pushed) + 1
      BY <1>1, <2>2, AppendProperties DEF TypeOK
    <3>2. emitted' = emitted \/ emitted' = emitted + 1
      BY <2>2
    <3>3. Backlog' = Backlog \/ Backlog' = Backlog + 1
      BY <3>1, <3>2, HeldParts DEF Backlog
    <3> QED
      BY <1>7, <1>8, <3>3
  <2> QED
    BY <1>2, <2>1, <2>2

\* A page is asked for when nothing is held back by a stream that flows.
LEMMA ReadHasNextHeld ==
    ASSUME TypeOK, TypeOK', RowsLeft, OnePage, HeldBack, NEW c \in Calls, ReadHasNext(c),
           calls[c].op # "query-close", ~prefetched'
    PROVE  HeldBack'
<1>1. /\ UNCHANGED <<pushed, emitted, flowing, resuming, pauses>>
      /\ calls[c].at = "rows" /\ ~Due
      /\ queryClosed => queryClosed'
      /\ calls[c].hasNext => queryClosed' = queryClosed /\ requestedNext'
      /\ ~calls[c].hasNext => queryClosed' /\ requestedNext' = requestedNext
      /\ ~(calls[c].hasNext /\ FetchesNext /\ flowing = "null")
  BY DEF ReadHasNext
<1>2. ~resuming /\ (flowing = "yes" => ~(emitted < Len(pushed)))
  BY <1>1 DEF Due
<1>3. Backlog' = Backlog /\ Allowed' = Allowed
  BY <1>1, <1>2 DEF Backlog, Allowed
<1>4. flowing' = "null" => ~resuming' /\ (requestedNext' => queryClosed')
  BY <1>1, <1>2, HeldParts DEF FetchesNext
<1>5. \A d \in Calls : Page(d) => d = c
  BY <1>1 DEF OnePage, Page
<1>6. CASE Changed(c, NoCall)
  <2>1. \A d \in Calls : ~Page(d)'
    <3>1. NoCall.at = "unused"
      BY DEF NoCall
    <3> QED
      BY <1>5, <1>6, <3>1 DEF Page, Changed
  <2> QED
    BY <1>3, <1>4, <2>1, HeldParts, HeldStep
<1>7. CASE /\ calls[c].hasNext /\ FetchesNext
           /\ \E d \in Calls :
                 /\ d = c \/ calls[d].at = "unused"
                 /\ calls'[d].op = "query-next" /\ calls'[d].at = "wire"
                 /\ d # c => calls'[c].at = "unused"
                 /\ \A e \in Calls : e # d /\ e # c => calls'[e] = calls[e]
  <2> PICK d \in Calls :
                 /\ d = c \/ calls[d].at = "unused"
                 /\ calls'[d].op = "query-next" /\ calls'[d].at = "wire"
                 /\ d # c => calls'[c].at = "unused"
                 /\ \A e \in Calls : e # d /\ e # c => calls'[e] = calls[e]
    BY <1>7
  <2>1. \A e \in Calls : Page(e)' => e = d
    BY <1>5 DEF Page
  <2>2. Coming(d)' = PageSize
    BY DEF Coming
  <2>3. flowing = "yes"
    BY <1>1, <1>7 DEF FetchesNext, TypeOK
  <2>4. Backlog = 0
    BY <1>2, <2>3, HeldParts DEF Backlog
  <2>5. Allowed = Pages(1 + pauses)
    BY <1>2, <2>3 DEF Allowed
  <2>6. Backlog' <= Allowed' /\ Backlog' + Coming(d)' <= Allowed'
    BY <1>3, <2>2, <2>4, <2>5, HeldParts
  <2> QED
    BY <1>4, <2>1, <2>6 DEF HeldBack, Backlog
<1> QED
  BY <1>6, <1>7, ReadHasNextEffect

LEMMA ReaderHeld ==
    ASSUME TypeOK, TypeOK', HeldBack, Resume \/ Pause \/ Emit
    PROVE  HeldBack'
<1>1. \A d \in Calls : Page(d)' => Page(d) /\ Coming(d)' <= Coming(d)
  <2>1. calls' = calls
    BY DEF Resume, Pause, Emit
  <2>2. \A d \in Calls : (Page(d)' <=> Page(d)) /\ Coming(d)' = Coming(d)
    BY <2>1 DEF Page, Coming, Served
  <2> QED
    BY <2>2, HeldParts
<1>2. CASE Resume
  <2>1. /\ flowing # "yes" /\ flowing' = "yes" /\ resuming'
        /\ UNCHANGED <<requestedNext, queryClosed, pauses, pushed, emitted>>
    BY <1>2 DEF Resume
  <2>2. Backlog' = Backlog
    BY <2>1 DEF Backlog
  <2>3. Allowed <= Allowed'
    <3>1. CASE flowing = "no"
      <4>1. Allowed = Pages(pauses) /\ Allowed' \in {Pages(pauses), Pages(1 + pauses)}
        BY <2>1, <3>1 DEF Allowed
      <4> QED
        BY <4>1, HeldParts
    <3>2. CASE flowing = "null"
      <4>1. Allowed' = Pages(1 + pauses)
        BY <2>1, <3>2, HeldParts DEF Allowed
      <4> QED
        BY <4>1, HeldParts
    <3> QED
      BY <2>1, <3>1, <3>2 DEF TypeOK
  <2> QED
    BY <1>1, <2>1, <2>2, <2>3, HeldStep
<1>3. CASE Pause
  <2>1. /\ flowing = "yes" /\ flowing' = "no" /\ pauses' = pauses + 1
        /\ UNCHANGED <<requestedNext, queryClosed, resuming, pushed, emitted>>
    BY <1>3 DEF Pause
  <2>2. Backlog' = Backlog
    BY <2>1 DEF Backlog
  <2>3. Allowed' = Pages(pauses + 1)
    BY <2>1 DEF Allowed
  <2>4. pauses \in Nat
    BY StreamAssumption DEF TypeOK
  <2>5. Pages(pauses + 1) = Pages(pauses) + PageSize
    BY <2>4, PagesType
  <2>6. Allowed <= Allowed'
    BY <2>3, <2>5, HeldParts
  <2> QED
    BY <1>1, <2>1, <2>2, <2>6, HeldStep
<1>4. CASE Emit
  <2>1. /\ UNCHANGED <<flowing, resuming, requestedNext, queryClosed, pauses, pushed>>
        /\ emitted' = emitted + 1 \/ emitted' = emitted
    BY <1>4 DEF Emit
  <2>2. Allowed' = Allowed /\ Backlog' <= Backlog
    BY <2>1, HeldParts DEF Allowed, Backlog
  <2>3. Backlog' <= Allowed'
    BY <2>2, HeldParts, NextHeldType
  <2>4. ASSUME NEW d \in Calls, Page(d)'
        PROVE  Backlog' + Coming(d)' <= Allowed'
    BY <1>1, <2>2, <2>4, HeldParts, NextHeldType, SMTT(30)
  <2>5. flowing' = "null" => ~resuming' /\ (requestedNext' => queryClosed')
    BY <2>1, HeldParts
  <2> QED
    BY <2>3, <2>4, <2>5 DEF HeldBack, Backlog
<1> QED
  BY <1>2, <1>3, <1>4

\* The page that a resume asks for was allowed for by the pause before it.
LEMMA ResumeEventHeld ==
    ASSUME TypeOK, TypeOK', RowsLeft, HeldBack, ResumeEvent, ~midPage'
    PROVE  HeldBack'
<1>1. /\ UNCHANGED <<flowing, requestedNext, queryClosed, pauses, pushed, emitted>>
      /\ resuming /\ ~resuming'
  BY DEF ResumeEvent
<1>2. Backlog' = Backlog
  BY <1>1 DEF Backlog
<1>3. flowing # "null"
  BY <1>1, HeldParts
<1>4. CASE UNCHANGED calls
  <2>1. \A d \in Calls : (Page(d)' <=> Page(d)) /\ Coming(d)' = Coming(d)
    BY <1>4 DEF Page, Coming, Served
  <2>2. Allowed <= Allowed'
    <3>1. CASE flowing = "no"
      <4>1. Allowed' = Allowed
        BY <1>1, <3>1 DEF Allowed
      <4> QED
        BY <4>1, HeldParts
    <3>2. CASE flowing # "no"
      <4>1. Allowed' = Pages(1 + pauses)
        BY <1>1, <3>2 DEF Allowed
      <4> QED
        BY <4>1, HeldParts
    <3> QED
      BY <3>1, <3>2
  <2>3. \A d \in Calls : Page(d)' => Page(d) /\ Coming(d)' <= Coming(d)
    BY <2>1, HeldParts
  <2> QED
    BY <1>1, <1>2, <1>3, <2>2, <2>3, HeldStep
<1>5. CASE FetchesNext /\ requestedNext /\ Send(calls, "query-next") /\ ~PageComing
  <2>1. \A c \in Calls : ~Page(c)
    BY <1>5 DEF PageComing, Page
  <2>2. PICK d \in Calls :
             /\ calls[d].at = "unused"
             /\ calls'[d].op = "query-next" /\ calls'[d].at = "wire"
             /\ \A e \in Calls : e # d => calls'[e] = calls[e]
    BY <1>5, SendCallEffect
  <2>3. \A e \in Calls : Page(e)' => e = d
    BY <2>1, <2>2 DEF Page
  <2>4. Coming(d)' = PageSize
    BY <2>2 DEF Coming
  <2>5. Allowed = Pages(pauses) /\ Allowed' = Pages(1 + pauses)
    BY <1>1, <1>5 DEF Allowed, FetchesNext
  <2>6. Backlog' <= Allowed' /\ Backlog' + Coming(d)' <= Allowed'
    BY <1>2, <2>4, <2>5, HeldParts
  <2> QED
    BY <1>1, <1>3, <2>3, <2>6 DEF HeldBack, Backlog
<1> QED
  <2>1. \/ UNCHANGED calls
        \/ FetchesNext /\ requestedNext /\ Send(calls, "query-next") /\ ~PageComing
    BY DEF ResumeEvent
  <2> QED
    BY <1>4, <1>5, <2>1

LEMMA CloseHeld ==
    ASSUME TypeOK, TypeOK', RowsLeft, HeldBack, Close
    PROVE  HeldBack'
<1>1. /\ UNCHANGED <<flowing, resuming, requestedNext, pauses, pushed, emitted>>
      /\ queryClosed'
  BY DEF Close, readable
<1>2. Backlog' = Backlog
  BY <1>1 DEF Backlog
<1>3. PICK d \in Calls :
         /\ calls[d].at = "unused"
         /\ calls'[d].op = "query-close" /\ calls'[d].at = "wire"
         /\ \A e \in Calls : e # d => calls'[e] = calls[e]
  BY SendCallEffect DEF Close
<1>4. \A e \in Calls : Page(e)' => Page(e) /\ Coming(e)' = Coming(e)
  BY <1>3 DEF Page, Coming, Served
<1>5. Allowed <= Allowed'
  <2>1. CASE flowing = "no"
    <3>1. Allowed' = Allowed
      BY <1>1, <2>1 DEF Allowed
    <3> QED
      BY <3>1, HeldParts
  <2>2. CASE flowing # "no"
    <3>1. Allowed' = Pages(1 + pauses)
      BY <1>1, <2>2 DEF Allowed
    <3> QED
      BY <3>1, HeldParts
  <2> QED
    BY <2>1, <2>2
<1>6. \A e \in Calls : Page(e)' => Page(e) /\ Coming(e)' <= Coming(e)
  BY <1>4, HeldParts
<1> QED
  BY <1>1, <1>2, <1>5, <1>6, HeldParts, HeldStep

LEMMA NextHeld ==
    ASSUME TypeOK, TypeOK', RowsLeft, Closing, OnePage, HeldBack, [Next]_vars,
           ~midPage', ~prefetched'
    PROVE  HeldBack'
<1>1. \A c \in Calls : calls[c].at = "rows" => calls[c].op # "query-close"
  BY DEF Closing
<1>2. ASSUME NEW c \in Calls, CloseReply(c) \/ ErrorReply(c)
      PROVE  HeldBack'
  <2>1. Changed(c, NoCall) /\ NoCall.at = "unused"
    BY <1>2, HeldParts, FreeEffect, RequestType DEF CloseReply, ErrorReply
  <2>2. UNCHANGED <<flowing, resuming, requestedNext, queryClosed, pauses, pushed, emitted>>
    BY <1>2 DEF CloseReply, ErrorReply, readable
  <2>3. \A d \in Calls : Page(d)' => Page(d) /\ Coming(d)' = Coming(d)
    BY <2>1 DEF Page, Coming, Served, Changed
  <2>4. \A d \in Calls : Page(d)' => Page(d) /\ Coming(d)' <= Coming(d)
    BY <2>3, HeldParts
  <2>5. Backlog' = Backlog /\ Allowed' = Allowed
    BY <2>2 DEF Backlog, Allowed
  <2> QED
    BY <2>2, <2>4, <2>5, HeldParts, HeldStep
<1>3. CASE \E c \in Calls : ServerStep(c) \/ Fail(c) \/ ReadStep(c)
  BY <1>1, <1>2, <1>3, ServerHeld, ReadRowHeld, ReadHasNextHeld
     DEF ReadStep, ReadRow, ReadHasNext
<1>4. CASE UNCHANGED vars
  <2>1. UNCHANGED <<calls, flowing, resuming, requestedNext, queryClosed, pauses, pushed, emitted>>
    BY <1>4 DEF vars, readable
  <2> QED
    BY <2>1 DEF HeldBack, Page, Coming, Served, Allowed
<1> QED
  BY <1>3, <1>4, ReaderHeld, ResumeEventHeld, CloseHeld DEF Next

--------------------------------------------------------------------------------
(* The theorems.                                                               *)

LEMMA InitInv == Init => Inv
<1> SUFFICES ASSUME Init PROVE Inv
  OBVIOUS
<1>1. queryId = FALSE /\ queryId \in BOOLEAN
  BY DEF Init
<1>2. PICK c \in Calls : calls = [d \in Calls |-> IF d = c THEN Request("query") ELSE NoCall]
  BY DEF Init
<1>3. /\ Request("query") \in Call
      /\ Request("query").op = "query" /\ Request("query").at = "wire"
      /\ Request("query").next = 1 /\ Request("query").left = 0
      /\ NoCall \in Call
      /\ NoCall.at = "unused" /\ NoCall.next = 1 /\ NoCall.left = 0
  BY <1>1, RequestType
<1>4. /\ calls \in [Calls -> Call]
      /\ \A d \in Calls : calls[d].next = 1 /\ calls[d].left = 0
      /\ calls[c].at = "wire" /\ calls[c].op = "query"
      /\ \A d \in Calls : d # c => calls[d].at = "unused"
  BY <1>2, <1>3
<1>5. /\ query = "none" /\ sent = 0 /\ flowing = "null" /\ pushed = <<>> /\ emitted = 0
      /\ errors = 0 /\ pauses = 0 /\ failures = 0 /\ closedBy = "nobody"
  BY DEF Init
<1>6. /\ queryId \in BOOLEAN /\ requestedNext \in BOOLEAN /\ queryClosed \in BOOLEAN
      /\ resuming \in BOOLEAN /\ ended \in BOOLEAN /\ over \in BOOLEAN
      /\ midPage \in BOOLEAN /\ prefetched \in BOOLEAN
      /\ ~requestedNext /\ ~queryClosed /\ ~resuming /\ ~ended
  BY DEF Init
<1>7. Len(pushed) = 0 /\ pushed \in Seq(1..Rows)
  BY <1>5
<1>8. TypeOK
  <2>1. {queryId, requestedNext, queryClosed, resuming, ended, over, midPage,
         prefetched} \subseteq BOOLEAN
    BY <1>6
  <2>2. /\ sent \in 0..Rows /\ emitted \in 0..Len(pushed) /\ errors \in Nat
        /\ pauses \in 0..MaxPauses /\ failures \in 0..MaxFailures
    BY <1>5, <1>7, StreamAssumption
  <2> QED
    BY <1>4, <1>5, <1>7, <2>1, <2>2 DEF TypeOK
<1>9. RowsLeft
  BY <1>4, StreamAssumption DEF RowsLeft
<1>10. Closing
  BY <1>4, <1>5, <1>6 DEF Closing
<1>11. InOrder
  <2>1. \A d \in Calls : (Page(d) => d = c) /\ ~Served(d)
    BY <1>4 DEF Page, Served
  <2> QED
    BY <1>5, <1>6, <1>7, <2>1 DEF InOrder, OnePage, IsPrefixOfRows
<1>12. HeldBack
  <2>1. \A d \in Calls : (Page(d) => d = c)
    BY <1>4 DEF Page
  <2>2. Coming(c) = PageSize
    BY <1>4 DEF Coming
  <2>3. Allowed = Pages(1)
    BY <1>5, <1>6 DEF Allowed
  <2>4. Pages(1) = PageSize /\ PageSize \in Nat
    BY StreamAssumption DEF Pages
  <2> QED
    BY <1>5, <1>6, <1>7, <2>1, <2>2, <2>3, <2>4 DEF HeldBack
<1> QED
  BY <1>8, <1>9, <1>10, <1>11, <1>12 DEF Inv

LEMMA NextInv == Inv /\ [Next]_vars => Inv'
<1> SUFFICES ASSUME Inv, [Next]_vars PROVE Inv'
  OBVIOUS
<1>1. TypeOK /\ RowsLeft /\ Closing /\ (~midPage => InOrder)
      /\ (~midPage /\ ~prefetched => HeldBack)
  BY DEF Inv
<1>2. TypeOK' /\ RowsLeft' /\ Closing'
  BY <1>1, NextType, NextCalls, NextClosing
<1>3. (midPage => midPage') /\ (prefetched => prefetched')
  <2>1. CASE \E c \in Calls : ServePage(c) \/ ServeClose(c) \/ ServeUnknown(c) \/ Fail(c)
    BY <2>1 DEF ServePage, ServeClose, ServeUnknown, Fail, history
  <2>2. CASE \E c \in Calls : ReadHead(c) \/ ReadRow(c) \/ CloseReply(c) \/ ErrorReply(c)
    BY <2>2 DEF ReadHead, ReadRow, CloseReply, ErrorReply, history
  <2>3. CASE \E c \in Calls : ReadHasNext(c)
    <3> PICK c \in Calls : ReadHasNext(c)
      BY <2>3
    <3>1. /\ midPage' = midPage
          /\ \/ prefetched' = (prefetched \/ (FetchesNext /\ flowing = "null"))
             \/ prefetched' = prefetched
      BY Zenon DEF ReadHasNext
    <3>2. prefetched' = (prefetched \/ (FetchesNext /\ flowing = "null")) =>
             (prefetched => prefetched')
      <4> SUFFICES ASSUME prefetched,
                          prefetched' = (prefetched \/ (FetchesNext /\ flowing = "null"))
                   PROVE  prefetched'
        OBVIOUS
      <4>1. (prefetched \/ (FetchesNext /\ flowing = "null")) = TRUE
        BY Zenon
      <4>2. prefetched' = TRUE
        BY <4>1, Zenon
      <4> QED
        BY <4>2
    <3>3. prefetched' = prefetched => (prefetched => prefetched')
      OBVIOUS
    <3>4. midPage => midPage'
      BY <3>1
    <3> QED
      BY <3>1, <3>2, <3>3, <3>4
  <2>4. CASE Resume \/ Pause \/ Emit \/ Close
    BY <2>4 DEF Resume, Pause, Emit, Close, history
  <2>5. CASE ResumeEvent
    BY <2>5, Zenon DEF ResumeEvent
  <2>6. CASE UNCHANGED vars
    BY <2>6 DEF vars, history
  <2> QED
    BY <2>1, <2>2, <2>3, <2>4, <2>5, <2>6 DEF Next, ServerStep, ReadStep
<1>4. ~midPage' => InOrder'
  BY <1>1, <1>3, NextOrder
<1>5. ~midPage' /\ ~prefetched' => HeldBack'
  BY <1>1, <1>2, <1>3, NextHeld DEF InOrder
<1> QED
  BY <1>2, <1>4, <1>5 DEF Inv

\* In every reachable state the requests, the rows and the stream are in order.
THEOREM InvCorrect == Spec => []Inv
BY InitInv, NextInv, PTL DEF Spec

\* The types: no row is pushed that the result does not have, and the reader is never
\* ahead of the stream.
THEOREM StreamTypeCorrect == Spec => []TypeOK
<1>1. Inv => TypeOK
  BY DEF Inv
<1> QED
  BY <1>1, InvCorrect, PTL

\* Whatever the sizes of the result and of its pages, the rows come in their order and
\* each once, and the stream ends by itself only after the last one.
THEOREM RowsInOrderCorrect == Spec => []RowsInOrder
<1>1. Inv => RowsInOrder
  BY DEF Inv, InOrder, Closing, RowsInOrder
<1> QED
  BY <1>1, InvCorrect, PTL

\* A reader that pauses n times never has more than n + 1 pages held back for it.
THEOREM BackpressureCorrect == Spec => []Backpressure
<1>1. Inv => Backpressure
  <2> SUFFICES ASSUME Inv, ~prefetched, ~midPage
               PROVE  Len(pushed) - emitted <= PageSize * (1 + pauses)
    BY DEF Backpressure
  <2>1. TypeOK /\ HeldBack
    BY DEF Inv
  <2>2. Backlog <= Pages(1 + pauses)
    BY <2>1, HeldParts
  <2> QED
    BY <2>2 DEF Backlog, Pages
<1> QED
  BY <1>1, InvCorrect, PTL
=================================================================================
