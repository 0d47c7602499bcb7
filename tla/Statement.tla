------------------------------ MODULE Statement ------------------------------
(***************************************************************************)
(* One ODBC statement handle (Stmt, handles.h) over one Salesforce         *)
(* connection: prepare, execute, block fetch, SQLGetData, close, cancel,   *)
(* and the cursor that pages through a SOQL result (cursor.cpp).           *)
(*                                                                         *)
(* Every call except SQLCancel holds the connection's mutex from its first *)
(* line to its return, so at most one call is under way.  pc says which    *)
(* one, and a call that waits for Salesforce is split where it waits:      *)
(*   "idle"     no call under way, the mutex is free                       *)
(*   "query"    do_execute waits for the answer to its query               *)
(*   "fetching" do_fetch is inside its loop over Cursor::next              *)
(*   "loading"  do_fetch waits for the answer to query_more                *)
(* SQLCancel takes no lock and may interleave with any of these.           *)
(*                                                                         *)
(* The rows of a result are numbered 1, 2, ... in the order Salesforce     *)
(* returns them.  A page is the rows base + 1 .. base + size, and a        *)
(* nextRecordsUrl stands for the number of rows before the next page.      *)
(***************************************************************************)
EXTENDS Integers, Sequences

CONSTANTS
    Queries,      \* the SQL texts that build_plan accepts
    Kind,         \* the plan each of them compiles to
    ParamCount,   \* how many ? markers each of them has
    NoPlan,       \* the value of an empty Stmt::plan
    NoCursor,     \* the value of a null Stmt::cursor
    Columns,      \* the columns SQLGetData reads
    MaxParam,     \* bound: highest parameter number the application binds
    MaxTotal,     \* bound: rows a query matches
    PageMax,      \* bound: rows Salesforce puts on one page
    ArraySizes,   \* values the application gives SQL_ATTR_ROW_ARRAY_SIZE
    RowLimits     \* values the application gives SQL_ATTR_MAX_ROWS, 0: no limit

Kinds == {"soql", "count", "constant", "empty"}

Origins == Queries \cup {NoPlan}

\* A Cursor: origin is the SQL text it came from (NoPlan for a catalog call).
CursorType ==
    [origin : Origins, base : Nat, size : Nat, pos : Nat, next : Nat, done : BOOLEAN,
     total : Nat, max : Nat, sent : Nat]

ASSUME ConstantsOK ==
    /\ Kind \in [Queries -> Kinds]
    /\ ParamCount \in [Queries -> Nat]
    /\ NoPlan \notin Queries
    /\ NoCursor \notin CursorType
    /\ MaxParam \in Nat /\ MaxTotal \in Nat /\ PageMax \in Nat
    /\ ArraySizes \subseteq Nat /\ RowLimits \subseteq Nat

VARIABLES
    pc,              \* where the call under way waits, see above
    plan,            \* Stmt::plan, as the text it was built from
    cursor,          \* Stmt::cursor
    rowset,          \* Stmt::rowset, rows of the last fetch
    positioned,      \* Stmt::positioned, a row is current for SQLGetData
    row_number,      \* Stmt::row_number
    getdata,         \* Stmt::getdata: the row whose value a column is part way through, 0: none
    cancel,          \* Stmt::cancel
    row_array_size,  \* Stmt::row_array_size
    max_rows,        \* Stmt::max_rows
    params,          \* the parameter numbers that are bound
    ret,             \* what the last call returned: a return code or its SQLSTATE
    failed,          \* history: a fetch on the open cursor ended in an error
    blocked          \* history: a fetch on the open cursor asked for several rows

cursorVars == <<cursor, rowset, positioned, row_number, getdata>>
attrVars == <<row_array_size, max_rows, params>>
historyVars == <<failed, blocked>>
vars == <<pc, plan, cursorVars, cancel, attrVars, ret, historyVars>>

Returns == {"SUCCESS", "INFO", "NO_DATA", "HY010", "07002", "24000", "HY106", "HY024",
            "HY008", "22018", "42000", "08S01"}

Fresh == [c \in Columns |-> 0]

MinOf(a, b) == IF a <= b THEN a ELSE b

\* Rows of the result the cursor has handed to do_fetch or skipped.
Consumed(c) == c.base + c.pos

\* Rows the fetch under way has taken and not yet delivered.
Pending == IF pc \in {"fetching", "loading"} THEN Len(rowset) ELSE 0

------------------------------------------------------------------------------
(* Cursors *)

\* A VectorCursor over n rows: all of them are there, nothing is paged.
VectorCursor(origin, n) ==
    [origin |-> origin, base |-> 0, size |-> n, pos |-> 0, next |-> n, done |-> TRUE,
     total |-> n, max |-> 0, sent |-> 0]

\* (mutant) The position in the old page is kept for the new one.
load_keeps_pos(c, from, k) ==
    [c EXCEPT !.base = from, !.size = k, !.pos = MinOf(@, k), !.next = from + k,
              !.done = (from + k = c.total)]

\* (mutant) A page without nextRecordsUrl is not taken for the last one.
load_never_done(c, from, k) ==
    [c EXCEPT !.base = from, !.size = k, !.pos = 0, !.next = from + k, !.done = FALSE]

\* SoqlCursor::load of a page of k rows that starts after the first `from` rows.  The last
\* page has no nextRecordsUrl.
load(c, from, k) ==
    [c EXCEPT !.base = from, !.size = k, !.pos = 0, !.next = from + k,
              !.done = (from + k = c.total)]

\* A SoqlCursor whose query matched total rows, k of them on the first page.
SoqlCursor(origin, total, k, limit) ==
    load([VectorCursor(origin, 0) EXCEPT !.total = total, !.max = limit], 0, k)

\* The number of rows a query may match under the LIMIT that render_soql writes.
MatchCounts(limit) == 0 .. (IF limit > 0 THEN MinOf(limit, MaxTotal) ELSE MaxTotal)

\* The sizes of the page that starts after `from` rows of total: an empty page may
\* stand before the last row, a result that is exhausted has no other.
PageSizes(from, total) == 0 .. MinOf(PageMax, total - from)

\* (mutant) The limit the application has set since the cursor was opened.
AtEnd_current_limit(c) ==
    \/ max_rows > 0 /\ c.sent >= max_rows
    \/ c.pos >= c.size /\ c.done

\* SoqlCursor::next returns false for the row limit or at the end of the last page.
AtEnd(c) ==
    \/ c.max > 0 /\ c.sent >= c.max
    \/ c.pos >= c.size /\ c.done

HasRow(c) == ~AtEnd(c) /\ c.pos < c.size

\* (mutant) Asks for the next page when one row of this one is still to be delivered.
NeedsPage_early(c) == ~AtEnd(c) /\ c.pos + 1 >= c.size

NeedsPage(c) == ~AtEnd(c) /\ c.pos >= c.size

------------------------------------------------------------------------------
(* Stmt::close_cursor and Stmt::set_cursor, on the state both of them reset *)

set_cursor(c) ==
    /\ cursor' = c
    /\ rowset' = <<>>
    /\ getdata' = Fresh
    /\ positioned' = FALSE
    /\ row_number' = 0
    /\ cancel' = FALSE
    /\ failed' = FALSE
    /\ blocked' = FALSE

close_cursor == set_cursor(NoCursor)

Returning(code) == pc' = "idle" /\ ret' = code

\* A call that stops at one of its checks changes nothing but its return code.
Reject(code) == ret' = code /\ UNCHANGED <<pc, plan, cursorVars, cancel, attrVars, historyVars>>

------------------------------------------------------------------------------
(* Prepare and execute *)

\* The first statements of do_prepare run before build_plan can throw.
Prepare(q) ==
    /\ pc = "idle"
    /\ close_cursor
    /\ plan' = q
    /\ Returning("SUCCESS")
    /\ UNCHANGED attrVars

\* build_plan throws: in SQLPrepare, or in SQLExecDirect before do_execute.
PrepareFails ==
    /\ pc = "idle"
    /\ close_cursor
    /\ plan' = NoPlan
    /\ Returning("42000")
    /\ UNCHANGED attrVars

\* do_execute with the plan of q: a parameter that is not bound or has a value that cannot be
\* used stops it when the old cursor is closed already.
do_execute(q) ==
    \/ /\ ~(1 .. ParamCount[q] \subseteq params)
       /\ close_cursor
       /\ Returning("07002")
    \/ /\ ParamCount[q] > 0 /\ 1 .. ParamCount[q] \subseteq params
       /\ close_cursor
       /\ Returning("22018")
    \/ /\ 1 .. ParamCount[q] \subseteq params
       /\ Kind[q] \in {"constant", "empty"}
       /\ set_cursor(VectorCursor(q, IF Kind[q] = "constant" THEN 1 ELSE 0))
       /\ Returning("SUCCESS")
    \/ /\ 1 .. ParamCount[q] \subseteq params
       /\ Kind[q] \in {"soql", "count"}
       /\ close_cursor
       /\ pc' = "query"
       /\ UNCHANGED ret

Execute ==
    /\ pc = "idle"
    /\ plan # NoPlan
    /\ do_execute(plan)
    /\ UNCHANGED <<plan, attrVars>>

ExecuteUnprepared ==
    /\ pc = "idle"
    /\ plan = NoPlan
    /\ Reject("HY010")

ExecDirect(q) ==
    /\ pc = "idle"
    /\ plan' = q
    /\ do_execute(q)
    /\ UNCHANGED attrVars

\* SalesforceClient::query answers a SELECT of fields: do_execute opens a SoqlCursor
\* with the limit in force and the flag reset.
QueryAnswered(total, k) ==
    /\ pc = "query"
    /\ Kind[plan] = "soql"
    /\ total \in MatchCounts(max_rows)
    /\ k \in PageSizes(0, total)
    /\ set_cursor(SoqlCursor(plan, total, k, max_rows))
    /\ Returning("SUCCESS")
    /\ UNCHANGED <<plan, attrVars>>

\* ... and a SELECT COUNT: one row, the totalSize.
CountAnswered ==
    /\ pc = "query"
    /\ Kind[plan] = "count"
    /\ set_cursor(VectorCursor(plan, 1))
    /\ Returning("SUCCESS")
    /\ UNCHANGED <<plan, attrVars>>

QueryFails ==
    /\ pc = "query"
    /\ Returning("08S01")
    /\ UNCHANGED <<plan, cursorVars, cancel, attrVars, historyVars>>

\* (mutant) Leaves the prepared plan behind the catalog's result set.
Catalog_keeps_plan(n) ==
    /\ pc = "idle"
    /\ set_cursor(VectorCursor(NoPlan, n))
    /\ Returning("SUCCESS")
    /\ UNCHANGED <<plan, attrVars>>

\* A catalog function: its rows are computed first, then open_catalog replaces the cursor.
Catalog(n) ==
    /\ pc = "idle"
    /\ plan' = NoPlan
    /\ set_cursor(VectorCursor(NoPlan, n))
    /\ Returning("SUCCESS")
    /\ UNCHANGED attrVars

CatalogFails == pc = "idle" /\ Reject("08S01")

------------------------------------------------------------------------------
(* Fetch *)

\* (mutant) A cursor that failed once cannot be used again.
Fetch_unless_failed ==
    /\ pc = "idle"
    /\ cursor # NoCursor /\ ~failed
    /\ rowset' = <<>>
    /\ positioned' = FALSE
    /\ pc' = "fetching"
    /\ blocked' = (blocked \/ row_array_size > 1)
    /\ UNCHANGED <<plan, cursor, row_number, getdata, cancel, attrVars, ret, failed>>

\* do_fetch up to its loop.
Fetch ==
    /\ pc = "idle"
    /\ cursor # NoCursor
    /\ rowset' = <<>>
    /\ positioned' = FALSE
    /\ pc' = "fetching"
    /\ blocked' = (blocked \/ row_array_size > 1)
    /\ UNCHANGED <<plan, cursor, row_number, getdata, cancel, attrVars, ret, failed>>

FetchUnopened == pc = "idle" /\ cursor = NoCursor /\ Reject("24000")

\* SQLFetchScroll with an orientation other than SQL_FETCH_NEXT.
FetchScrollOther == pc = "idle" /\ Reject("HY106")

\* Cursor::next delivers a row of the page at hand.
FetchRow ==
    /\ pc = "fetching"
    /\ Len(rowset) < row_array_size
    /\ HasRow(cursor)
    /\ rowset' = Append(rowset, Consumed(cursor) + 1)
    /\ cursor' = [cursor EXCEPT !.pos = @ + 1, !.sent = @ + 1]
    /\ UNCHANGED <<pc, plan, positioned, row_number, getdata, cancel, attrVars, ret, historyVars>>

\* (mutant) Looks at the flag when the statement starts, not before each page.
AskPage_unchecked ==
    /\ pc = "fetching"
    /\ Len(rowset) < row_array_size
    /\ NeedsPage(cursor)
    /\ pc' = "loading"
    /\ UNCHANGED <<plan, cursorVars, cancel, attrVars, ret, historyVars>>

\* Cursor::next finds the page exhausted and, unless it sees the cancel flag, asks for the next.
AskPage ==
    /\ pc = "fetching"
    /\ Len(rowset) < row_array_size
    /\ NeedsPage(cursor)
    /\ ~cancel
    /\ pc' = "loading"
    /\ UNCHANGED <<plan, cursorVars, cancel, attrVars, ret, historyVars>>

\* query_more answers with k rows, the loop in Cursor::next goes on.
LoadPage(k) ==
    /\ pc = "loading"
    /\ k \in PageSizes(cursor.next, cursor.total)
    /\ cursor' = load(cursor, cursor.next, k)
    /\ pc' = "fetching"
    /\ UNCHANGED <<plan, rowset, positioned, row_number, getdata, cancel, attrVars, ret, historyVars>>

\* (mutant) Consumes a row before it asks for the page, so that the failure loses it.
Abandon_advances(code) ==
    /\ Returning(code)
    /\ failed' = TRUE
    /\ cursor' = [cursor EXCEPT !.pos = @ + 1]
    /\ UNCHANGED <<plan, rowset, positioned, row_number, getdata, cancel, attrVars, blocked>>

\* An exception leaves do_fetch: the rows in rowset are gone from the cursor and positioned
\* is still false, so the application cannot reach them.
Abandon(code) ==
    /\ Returning(code)
    /\ failed' = TRUE
    /\ UNCHANGED <<plan, cursorVars, cancel, attrVars, blocked>>

CancelSeen ==
    /\ pc = "fetching"
    /\ Len(rowset) < row_array_size
    /\ NeedsPage(cursor)
    /\ cancel
    /\ Abandon("HY008")

LoadFails == pc = "loading" /\ Abandon("08S01")

\* The loop of do_fetch is over: the rowset is full or Cursor::next returned false.
LoopDone == Len(rowset) = row_array_size \/ AtEnd(cursor)

FetchNoData ==
    /\ pc = "fetching"
    /\ LoopDone
    /\ rowset = <<>>
    /\ Returning("NO_DATA")
    /\ UNCHANGED <<plan, cursorVars, cancel, attrVars, historyVars>>

\* (mutant) Keeps the offsets that SQLGetData reached in the row before.
FetchDone_keeps_getdata(code) ==
    /\ pc = "fetching"
    /\ LoopDone
    /\ rowset # <<>>
    /\ code \in {"SUCCESS", "INFO"} \cup (IF Len(rowset) = 1 THEN {"22018"} ELSE {})
    /\ row_number' = row_number + Len(rowset)
    /\ positioned' = TRUE
    /\ Returning(code)
    /\ UNCHANGED <<plan, cursor, rowset, getdata, cancel, attrVars, historyVars>>

\* The rows are delivered.  A value that cannot be converted makes its row an error row: an
\* error return when it is the only one, a warning otherwise.
FetchDone(code) ==
    /\ pc = "fetching"
    /\ LoopDone
    /\ rowset # <<>>
    /\ code \in {"SUCCESS", "INFO"} \cup (IF Len(rowset) = 1 THEN {"22018"} ELSE {})
    /\ row_number' = row_number + Len(rowset)
    /\ positioned' = TRUE
    /\ getdata' = Fresh
    /\ Returning(code)
    /\ UNCHANGED <<plan, cursor, rowset, cancel, attrVars, historyVars>>

\* SQLGetData reads the first row of the rowset and remembers how far it got: what it
\* remembers it applies to whatever row comes next unless do_fetch forgets it.
GetData(c, code) ==
    /\ pc = "idle"
    /\ cursor # NoCursor /\ positioned /\ rowset # <<>>
    /\ code \in {"SUCCESS", "INFO", "22018"} \cup (IF getdata[c] # 0 THEN {"NO_DATA"} ELSE {})
    /\ getdata' = IF getdata[c] # 0 \/ code = "22018" THEN getdata
                  ELSE [getdata EXCEPT ![c] = rowset[1]]
    /\ ret' = code
    /\ UNCHANGED <<pc, plan, cursor, rowset, positioned, row_number, cancel, attrVars, historyVars>>

GetDataUnpositioned ==
    /\ pc = "idle"
    /\ cursor = NoCursor \/ ~positioned \/ rowset = <<>>
    /\ Reject("24000")

------------------------------------------------------------------------------
(* Close, attributes, cancel *)

CloseCursor ==
    /\ pc = "idle"
    /\ cursor # NoCursor
    /\ close_cursor
    /\ Returning("SUCCESS")
    /\ UNCHANGED <<plan, attrVars>>

CloseUnopened == pc = "idle" /\ cursor = NoCursor /\ Reject("24000")

\* SQLFreeStmt(SQL_CLOSE) needs no open cursor.
FreeStmtClose ==
    /\ pc = "idle"
    /\ close_cursor
    /\ Returning("SUCCESS")
    /\ UNCHANGED <<plan, attrVars>>

\* (mutant) Takes any size.
SetRowArraySize_any(v) ==
    /\ pc = "idle"
    /\ row_array_size' = v
    /\ Returning("SUCCESS")
    /\ UNCHANGED <<plan, cursorVars, cancel, max_rows, params, historyVars>>

SetRowArraySize(v) ==
    /\ pc = "idle"
    /\ v # 0
    /\ row_array_size' = v
    /\ Returning("SUCCESS")
    /\ UNCHANGED <<plan, cursorVars, cancel, max_rows, params, historyVars>>

SetRowArraySizeZero == pc = "idle" /\ 0 \in ArraySizes /\ Reject("HY024")

SetMaxRows(v) ==
    /\ pc = "idle"
    /\ max_rows' = v
    /\ Returning("SUCCESS")
    /\ UNCHANGED <<plan, cursorVars, cancel, row_array_size, params, historyVars>>

BindParameter(i) ==
    /\ pc = "idle"
    /\ params' = params \cup {i}
    /\ Returning("SUCCESS")
    /\ UNCHANGED <<plan, cursorVars, cancel, row_array_size, max_rows, historyVars>>

ResetParams ==
    /\ pc = "idle"
    /\ params' = {}
    /\ Returning("SUCCESS")
    /\ UNCHANGED <<plan, cursorVars, cancel, row_array_size, max_rows, historyVars>>

\* SQLCancel takes no lock: it may run between any two steps of another call.
Cancel ==
    /\ cancel' = TRUE
    /\ UNCHANGED <<pc, plan, cursorVars, attrVars, ret, historyVars>>

------------------------------------------------------------------------------
Init ==
    /\ pc = "idle"
    /\ plan = NoPlan
    /\ cursor = NoCursor
    /\ rowset = <<>>
    /\ positioned = FALSE
    /\ row_number = 0
    /\ getdata = Fresh
    /\ cancel = FALSE
    /\ row_array_size = 1
    /\ max_rows = 0
    /\ params = {}
    /\ ret = "SUCCESS"
    /\ failed = FALSE
    /\ blocked = FALSE

PrepareExecute ==
    \/ \E q \in Queries : Prepare(q) \/ ExecDirect(q)
    \/ PrepareFails \/ Execute \/ ExecuteUnprepared
    \/ \E n \in 0 .. MaxTotal : Catalog(n)
    \/ CatalogFails

Answers ==
    \/ \E total \in 0 .. MaxTotal, k \in 0 .. PageMax : QueryAnswered(total, k)
    \/ CountAnswered \/ QueryFails
    \/ \E k \in 0 .. PageMax : LoadPage(k)
    \/ LoadFails

StartFetch == Fetch \/ FetchUnopened \/ FetchScrollOther

FetchSteps ==
    \/ FetchRow \/ AskPage \/ CancelSeen \/ FetchNoData
    \/ \E code \in Returns : FetchDone(code)

Reads == (\E c \in Columns, code \in Returns : GetData(c, code)) \/ GetDataUnpositioned

Settings ==
    \/ CloseCursor \/ CloseUnopened \/ FreeStmtClose
    \/ \E v \in ArraySizes : SetRowArraySize(v)
    \/ SetRowArraySizeZero
    \/ \E v \in RowLimits : SetMaxRows(v)
    \/ \E i \in 1 .. MaxParam : BindParameter(i)
    \/ ResetParams

Next == PrepareExecute \/ Answers \/ StartFetch \/ FetchSteps \/ Reads \/ Settings \/ Cancel

Spec == Init /\ [][Next]_vars

\* Salesforce answers every request (send has a timeout), the driver's own loop goes on, and
\* pages are not empty for ever.
Fairness ==
    /\ WF_vars(FetchSteps)
    /\ WF_vars(Answers)
    /\ SF_vars(\E k \in 1 .. PageMax : LoadPage(k))

------------------------------------------------------------------------------
(* Properties *)

TypeOK ==
    /\ pc \in {"idle", "query", "fetching", "loading"}
    /\ plan \in Origins
    /\ cursor \in CursorType \cup {NoCursor}
    /\ rowset \in Seq(Nat)
    /\ positioned \in BOOLEAN
    /\ row_number \in Nat
    /\ getdata \in [Columns -> Nat]
    /\ cancel \in BOOLEAN
    /\ row_array_size \in Nat \ {0}
    /\ max_rows \in Nat
    /\ params \in SUBSET Nat
    /\ ret \in Returns
    /\ failed \in BOOLEAN /\ blocked \in BOOLEAN

\* What SQLDescribeCol and SQLNumResultCols report (Stmt::columns) is the result that is
\* fetched: the open cursor came from the plan the statement holds, and a catalog result
\* leaves no plan behind it.  A failed prepare or catalog call in between cannot separate them.
CursorMatchesPlan == cursor # NoCursor => cursor.origin = plan

\* The rows SQLGetData and the bound columns see are the last ones taken from the cursor, in
\* order, none repeated and none skipped, whatever pages they came from; the rows of the loop
\* under way likewise.
RowsetIsLatest ==
    positioned \/ pc \in {"fetching", "loading"} =>
        /\ cursor # NoCursor
        /\ Len(rowset) <= Consumed(cursor)
        /\ \A i \in 1 .. Len(rowset) : rowset[i] = Consumed(cursor) - Len(rowset) + i

\* SQLGetData reads a row only when do_fetch delivered one and no call is in the middle of
\* replacing it.
PositionedHasRow == positioned => pc = "idle" /\ rowset # <<>>

\* Every row taken from the cursor was delivered (row_number counts those) or is in the fetch
\* under way, unless a fetch of several rows failed part of the way: such a failure discards
\* the rows it had taken (do_fetch leaves by the exception), and nothing else ever does.  In
\* particular a fetch of one row that fails can be repeated without loss.
RowsLostOnlyByFailedBlockFetch ==
    cursor # NoCursor /\ Consumed(cursor) # row_number + Pending => failed /\ blocked

\* A column's SQLGetData progress belongs to the row that is current.
GetDataBelongsToRow ==
    positioned => \A c \in Columns : getdata[c] \in {0, rowset[1]}

\* The page at hand is the one that follows what was delivered, and a cursor under a limit has
\* no more rows than the limit.
WellPaged(c) ==
    /\ c.pos <= c.size
    /\ c.next = c.base + c.size
    /\ c.next <= c.total
    /\ c.done = (c.next = c.total)
    /\ c.sent = Consumed(c)
    /\ c.max > 0 => c.total <= c.max

CursorShape == cursor # NoCursor => WellPaged(cursor)

\* What a call under way relies on while it waits.
CallShape ==
    /\ pc = "query" => cursor = NoCursor /\ plan \in Queries
    /\ pc \in {"fetching", "loading"} =>
        /\ cursor # NoCursor /\ ~positioned
        /\ Len(rowset) <= row_array_size
        /\ ~blocked => row_array_size = 1
    /\ pc = "loading" => Len(rowset) < row_array_size /\ cursor.pos = cursor.size /\ ~cursor.done

\* The inductive invariant behind the safety properties: the position of the page and the
\* state of the call under way have to be known to follow the rows from page to page.
IInv ==
    /\ TypeOK
    /\ CursorShape
    /\ CallShape
    /\ CursorMatchesPlan
    /\ RowsetIsLatest
    /\ PositionedHasRow
    /\ RowsLostOnlyByFailedBlockFetch
    /\ GetDataBelongsToRow

\* SQL_NO_DATA is the truth: every row of the result was taken from the cursor before a fetch
\* reports the end, also when pages were empty, when requests failed and were repeated, and
\* when SQL_ATTR_MAX_ROWS was lowered after the statement was executed.
NoDataMeansExhausted ==
    [][pc = "fetching" /\ pc' = "idle" /\ ret' = "NO_DATA" => Consumed(cursor) = cursor.total]_vars

\* A cursor that has delivered nothing yet, or none at all.
NothingDelivered ==
    rowset = <<>> /\ row_number = 0 /\ (cursor = NoCursor \/ Consumed(cursor) = 0)

\* What a step may do with the flag: it stays set, and asks for no page, or it is cleared with a
\* cursor that has delivered nothing; a new cursor starts without it.
CancelStep ==
    /\ cancel => \/ cancel' /\ (pc' = "loading" => pc = "loading")
                 \/ ~cancel' /\ NothingDelivered'
    /\ cursor' # NoCursor /\ (cursor = NoCursor \/ cursor'.origin # cursor.origin) => ~cancel'

\* A cancelled cursor never asks Salesforce for another page: the flag survives every call but
\* the ones that close or replace the cursor, and while it is set no request starts.  A cursor
\* is never opened cancelled: a SQLCancel aimed at an earlier result does not end this one.
CancelEndsOneCursor == [][CancelStep]_vars

\* Every call returns, whatever pages, errors and cancellations it meets.
CallsReturn == pc # "idle" ~> pc = "idle"

\* An application that executes a query and fetches to the end of its result, repeating a
\* fetch that failed, and never cancels.
FetchLoop ==
    \/ cursor = NoCursor /\ \E q \in Queries : ExecDirect(q)
    \/ cursor = NoCursor /\ \E v \in ArraySizes : SetRowArraySize(v)
    \/ cursor = NoCursor /\ \E v \in RowLimits : SetMaxRows(v)
    \/ Answers
    \/ ret # "NO_DATA" /\ Fetch
    \/ FetchSteps
    \/ ret = "NO_DATA" /\ CloseCursor

FetchLoopSpec == Init /\ [][FetchLoop]_vars /\ Fairness /\ WF_vars(ret # "NO_DATA" /\ Fetch)

\* Such an application sees the end of every result it opens: a failed fetch leaves the cursor
\* where the next one can go on, so the loop neither sticks at a page nor starts over.
FetchLoopEnds == cursor # NoCursor ~> ret = "NO_DATA"

------------------------------------------------------------------------------
(* The statement implements the stream of ResultStream: rows taken from the cursor by the
   fetch under way count as taken only when it returns. *)

Stream == INSTANCE ResultStream WITH
    open <- cursor # NoCursor,
    total <- IF cursor = NoCursor THEN 0 ELSE cursor.total,
    taken <- IF cursor = NoCursor THEN 0 ELSE Consumed(cursor) - Pending,
    window <- IF positioned THEN rowset ELSE <<>>,
    broken <- failed

\* Pages, requests, failures, retries and cancellation show the application nothing but the
\* rows of the result, in order, each at most once.
ImplementsStream == Stream!Spec
==============================================================================
