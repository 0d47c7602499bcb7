--------------------------- MODULE Statement_proofs ---------------------------
(* Proofs about Statement: IInv is inductive, the safety properties follow from it, and *)
(* the statement implements ResultStream.                                               *)
EXTENDS Statement, TLAPS

------------------------------------------------------------------------------
(* Cursors *)

\* A page that follows the rows before it leaves the cursor well paged.
LEMMA LoadIsWellPaged ==
    ASSUME NEW c \in CursorType, NEW from \in Nat, NEW k \in PageSizes(from, c.total),
           from <= c.total, c.sent = from, c.max > 0 => c.total <= c.max
    PROVE  /\ load(c, from, k) \in CursorType
           /\ WellPaged(load(c, from, k))
           /\ load(c, from, k).origin = c.origin
           /\ Consumed(load(c, from, k)) = from
  <1>1. k \in Nat /\ k <= c.total - from
    BY ConstantsOK DEF ConstantsOK, PageSizes, MinOf, CursorType
  <1>. DEFINE d == load(c, from, k)
  <1>2. /\ d.origin = c.origin /\ d.base = from /\ d.size = k /\ d.pos = 0 /\ d.next = from + k
        /\ d.done = (from + k = c.total) /\ d.total = c.total /\ d.max = c.max /\ d.sent = c.sent
        /\ d \in CursorType
    <2>. DEFINE last == from + k = c.total
    <2>1. d = [c EXCEPT !.base = from, !.size = k, !.pos = 0, !.next = from + k, !.done = last]
      BY DEF load
    <2>2. last \in BOOLEAN /\ from + k \in Nat
      BY <1>1
    <2>. HIDE DEF last, d
    <2>3. /\ d \in CursorType
          /\ d.origin = c.origin /\ d.base = from /\ d.size = k /\ d.pos = 0 /\ d.next = from + k
          /\ d.done = last /\ d.total = c.total /\ d.max = c.max /\ d.sent = c.sent
      BY <1>1, <2>1, <2>2 DEF CursorType
    <2>. QED
      BY <2>3 DEF last
  <1>. HIDE DEF d
  <1>t. (from + k <= c.total) /\ from \in Int /\ k \in Int /\ c.total \in Int
    BY <1>1 DEF CursorType
  <1>3. WellPaged(d)
    <2>1. d.pos <= d.size /\ d.next = d.base + d.size /\ d.next <= d.total
      BY <1>1, <1>2, <1>t
    <2>2. d.done = (d.next = d.total)
      BY <1>2
    <2>3. d.sent = Consumed(d)
      BY <1>2, <1>t DEF Consumed
    <2>4. d.max > 0 => d.total <= d.max
      BY <1>2
    <2>. QED
      BY <2>1, <2>2, <2>3, <2>4 DEF WellPaged
  <1>. QED
    BY <1>2, <1>3 DEF d, Consumed, CursorType

\* A result that is all there.
LEMMA VectorCursorIsWellPaged ==
    ASSUME NEW origin \in Origins, NEW n \in Nat
    PROVE  /\ VectorCursor(origin, n) \in CursorType
           /\ WellPaged(VectorCursor(origin, n))
           /\ VectorCursor(origin, n).origin = origin
           /\ Consumed(VectorCursor(origin, n)) = 0
  <1>. DEFINE d == VectorCursor(origin, n)
  <1>1. /\ d.origin = origin /\ d.base = 0 /\ d.size = n /\ d.pos = 0 /\ d.next = n
        /\ d.done = TRUE /\ d.total = n /\ d.max = 0 /\ d.sent = 0
        /\ d \in CursorType
    BY DEF VectorCursor, CursorType
  <1>. HIDE DEF d
  <1>2. d.done = (d.next = d.total)
    BY <1>1
  <1>3. WellPaged(d) /\ Consumed(d) = 0
    BY <1>1, <1>2 DEF WellPaged, Consumed
  <1>. QED
    BY <1>1, <1>3 DEF d

\* The cursor of a query that was just answered.
LEMMA SoqlCursorIsWellPaged ==
    ASSUME NEW origin \in Origins, NEW limit \in Nat,
           NEW total \in MatchCounts(limit), NEW k \in PageSizes(0, total)
    PROVE  /\ SoqlCursor(origin, total, k, limit) \in CursorType
           /\ WellPaged(SoqlCursor(origin, total, k, limit))
           /\ SoqlCursor(origin, total, k, limit).origin = origin
           /\ Consumed(SoqlCursor(origin, total, k, limit)) = 0
  <1>. DEFINE c == [VectorCursor(origin, 0) EXCEPT !.total = total, !.max = limit]
  <1>1. total \in Nat /\ (limit > 0 => total <= limit)
    BY ConstantsOK DEF ConstantsOK, MatchCounts, MinOf
  <1>2. /\ c \in CursorType /\ c.total = total /\ c.max = limit /\ c.sent = 0
        /\ c.origin = origin
    BY <1>1 DEF VectorCursor, CursorType
  <1>3. SoqlCursor(origin, total, k, limit) = load(c, 0, k)
    BY DEF SoqlCursor
  <1>. HIDE DEF c
  <1>. QED
    BY <1>1, <1>2, <1>3, LoadIsWellPaged

------------------------------------------------------------------------------
(* Steps that many operations share *)

\* A call that stops at a check, SQLCancel, and the settings that no row depends on.
LEMMA QuietStep ==
    ASSUME IInv, UNCHANGED <<pc, plan, cursorVars, row_array_size, historyVars>>,
           cancel' \in BOOLEAN, max_rows' \in Nat, params' \in SUBSET Nat, ret' \in Returns
    PROVE  IInv'
  <1>. USE DEF IInv, cursorVars, historyVars
  <1>1. TypeOK'
    BY DEF TypeOK
  <1>2. CursorShape' /\ CallShape' /\ CursorMatchesPlan'
    BY DEF CursorShape, CallShape, CursorMatchesPlan
  <1>3. RowsetIsLatest' /\ PositionedHasRow' /\ GetDataBelongsToRow'
    BY DEF RowsetIsLatest, PositionedHasRow, GetDataBelongsToRow
  <1>4. RowsLostOnlyByFailedBlockFetch'
    BY DEF RowsLostOnlyByFailedBlockFetch, Pending
  <1>. QED
    BY <1>1, <1>2, <1>3, <1>4

\* The cursor is closed or replaced by one that stands before its first row.
LEMMA ReplacesCursor ==
    ASSUME IInv, NEW c \in CursorType \cup {NoCursor}, set_cursor(c), UNCHANGED attrVars,
           plan' \in Origins, ret' \in Returns,
           c # NoCursor => WellPaged(c) /\ Consumed(c) = 0 /\ c.origin = plan',
           \/ pc' = "idle"
           \/ pc' = "query" /\ c = NoCursor /\ plan' \in Queries
    PROVE  IInv'
  <1>. USE DEF IInv, set_cursor, attrVars
  <1>1. Fresh \in [Columns -> Nat]
    BY DEF Fresh
  <1>2. TypeOK'
    <2>1. rowset' \in Seq(Nat) /\ row_number' \in Nat /\ getdata' \in [Columns -> Nat]
      BY <1>1
    <2>2. cursor' \in CursorType \cup {NoCursor} /\ cancel' \in BOOLEAN /\ positioned' \in BOOLEAN
      OBVIOUS
    <2>3. /\ row_array_size' \in Nat \ {0} /\ max_rows' \in Nat /\ params' \in SUBSET Nat
          /\ failed' \in BOOLEAN /\ blocked' \in BOOLEAN
      BY DEF TypeOK
    <2>. QED
      BY <2>1, <2>2, <2>3 DEF TypeOK
  <1>3. CursorShape' /\ CallShape' /\ CursorMatchesPlan'
    BY DEF CursorShape, CallShape, CursorMatchesPlan
  <1>4. RowsetIsLatest' /\ PositionedHasRow' /\ GetDataBelongsToRow'
    BY DEF RowsetIsLatest, PositionedHasRow, GetDataBelongsToRow
  <1>5. RowsLostOnlyByFailedBlockFetch'
    BY DEF RowsLostOnlyByFailedBlockFetch, Pending
  <1>. QED
    BY <1>2, <1>3, <1>4, <1>5

\* The statement is idle without a cursor to begin with.
LEMMA InitEstablishesIInv == Init => IInv
  <1>. SUFFICES ASSUME Init PROVE IInv
    OBVIOUS
  <1>. USE DEF Init
  <1>1. TypeOK
    <2>1. getdata \in [Columns -> Nat]
      BY DEF Fresh
    <2>2. plan \in Origins /\ ret \in Returns
      BY DEF Returns, Origins
    <2>3. rowset \in Seq(Nat)
      OBVIOUS
    <2>4. params \in SUBSET Nat /\ row_number \in Nat /\ max_rows \in Nat /\ row_array_size \in Nat \ {0}
      OBVIOUS
    <2>. QED
      BY <2>1, <2>2, <2>3, <2>4 DEF TypeOK
  <1>2. CursorShape /\ CallShape /\ CursorMatchesPlan
    BY DEF CursorShape, CallShape, CursorMatchesPlan
  <1>3. RowsetIsLatest /\ PositionedHasRow /\ GetDataBelongsToRow /\ RowsLostOnlyByFailedBlockFetch
    BY DEF RowsetIsLatest, PositionedHasRow, GetDataBelongsToRow, RowsLostOnlyByFailedBlockFetch
  <1>. QED
    BY <1>1, <1>2, <1>3 DEF IInv

------------------------------------------------------------------------------
(* The steps of a fetch *)

\* A cursor's counters, and the count of the rows taken.
LEMMA CursorNumbers ==
    ASSUME TypeOK, cursor # NoCursor
    PROVE  /\ cursor \in CursorType
           /\ cursor.base \in Nat /\ cursor.size \in Nat /\ cursor.pos \in Nat /\ cursor.next \in Nat
           /\ cursor.total \in Nat /\ cursor.max \in Nat /\ cursor.sent \in Nat
           /\ cursor.done \in BOOLEAN /\ cursor.origin \in Origins
           /\ Consumed(cursor) \in Nat
  <1>1. cursor \in CursorType
    BY DEF TypeOK
  <1>. QED
    BY <1>1 DEF CursorType, Consumed

\* A fetch that starts has no rows yet and gives up the ones before.
LEMMA FetchKeepsIInv ==
    ASSUME IInv, Fetch
    PROVE  IInv'
  <1>1. /\ TypeOK /\ cursor # NoCursor /\ pc' = "fetching" /\ rowset' = <<>> /\ positioned' = FALSE
        /\ UNCHANGED <<plan, cursor, row_number, getdata, cancel, attrVars, ret, failed>>
    BY DEF IInv, Fetch
  <1>2. row_array_size > 1 => blocked'
    BY DEF Fetch
  <1>3. blocked => blocked'
    BY DEF Fetch
  <1>4. blocked' \in BOOLEAN
    BY DEF Fetch
  <1>5. TypeOK'
    <2>1. rowset' \in Seq(Nat)
      BY <1>1
    <2>. QED
      BY <1>1, <1>4, <2>1 DEF TypeOK, attrVars
  <1>6. CursorShape' /\ CursorMatchesPlan' /\ PositionedHasRow' /\ GetDataBelongsToRow'
    BY <1>1 DEF IInv, CursorShape, CursorMatchesPlan, PositionedHasRow, GetDataBelongsToRow
  <1>7. CallShape'
    <2>1. Len(rowset') = 0 /\ row_array_size' = row_array_size /\ row_array_size \in Nat \ {0}
      BY <1>1 DEF TypeOK, attrVars
    <2>2. ~blocked' => row_array_size' = 1
      BY <1>2, <2>1
    <2>. QED
      BY <1>1, <2>1, <2>2 DEF CallShape
  <1>8. RowsetIsLatest'
    BY <1>1, CursorNumbers DEF RowsetIsLatest, Consumed
  <1>9. RowsLostOnlyByFailedBlockFetch'
    <2>1. Pending = 0 /\ Pending' = 0
      BY <1>1 DEF Pending, Fetch
    <2>. QED
      BY <1>1, <1>3, <2>1 DEF IInv, RowsLostOnlyByFailedBlockFetch, Consumed
  <1>. QED
    BY <1>5, <1>6, <1>7, <1>8, <1>9 DEF IInv

\* A row leaves the page.
LEMMA TakesRow ==
    ASSUME NEW c \in CursorType, NEW d, d = [c EXCEPT !.pos = @ + 1, !.sent = @ + 1]
    PROVE  /\ d \in CursorType
           /\ d.origin = c.origin /\ d.base = c.base /\ d.size = c.size /\ d.pos = c.pos + 1
           /\ d.next = c.next /\ d.done = c.done /\ d.total = c.total /\ d.max = c.max
           /\ d.sent = c.sent + 1
  <1>. DEFINE p == c.pos + 1
              t == c.sent + 1
  <1>1. p \in Nat /\ t \in Nat
    BY DEF CursorType
  <1>2. d = [c EXCEPT !.pos = p, !.sent = t]
    OBVIOUS
  <1>. HIDE DEF p, t
  <1>3. /\ d \in CursorType
        /\ d.origin = c.origin /\ d.base = c.base /\ d.size = c.size /\ d.pos = p
        /\ d.next = c.next /\ d.done = c.done /\ d.total = c.total /\ d.max = c.max
        /\ d.sent = t
    BY <1>1, <1>2 DEF CursorType
  <1>. QED
    BY <1>3 DEF p, t

\* The row taken is the one after the last.
LEMMA FetchRowKeepsIInv ==
    ASSUME IInv, FetchRow
    PROVE  IInv'
  <1>1. TypeOK /\ cursor # NoCursor /\ ~positioned /\ pc = "fetching"
    BY DEF IInv, CallShape, FetchRow
  <1>2. /\ cursor \in CursorType
        /\ cursor.base \in Nat /\ cursor.size \in Nat /\ cursor.pos \in Nat /\ cursor.next \in Nat
        /\ cursor.total \in Nat /\ cursor.max \in Nat /\ cursor.sent \in Nat
    BY <1>1, CursorNumbers
  <1>3. /\ cursor' = [cursor EXCEPT !.pos = @ + 1, !.sent = @ + 1]
        /\ rowset' = Append(rowset, Consumed(cursor) + 1)
        /\ Len(rowset) < row_array_size
        /\ UNCHANGED <<pc, plan, positioned, row_number, getdata, cancel, attrVars, ret, historyVars>>
    BY DEF FetchRow
  <1>4. /\ cursor' \in CursorType
        /\ cursor'.origin = cursor.origin /\ cursor'.base = cursor.base /\ cursor'.size = cursor.size
        /\ cursor'.pos = cursor.pos + 1 /\ cursor'.next = cursor.next /\ cursor'.done = cursor.done
        /\ cursor'.total = cursor.total /\ cursor'.max = cursor.max /\ cursor'.sent = cursor.sent + 1
    BY <1>2, <1>3, TakesRow
  <1>5. cursor' # NoCursor
    BY <1>4, ConstantsOK DEF ConstantsOK
  <1>6. Consumed(cursor') = Consumed(cursor) + 1 /\ Consumed(cursor) \in Nat
    BY <1>2, <1>4 DEF Consumed
  <1>7. /\ rowset \in Seq(Nat) /\ rowset' \in Seq(Nat)
        /\ Len(rowset') = Len(rowset) + 1
        /\ \A i \in 1 .. Len(rowset) : rowset'[i] = rowset[i]
        /\ rowset'[Len(rowset) + 1] = Consumed(cursor) + 1
    BY <1>1, <1>3, <1>6 DEF TypeOK
  <1>8. TypeOK'
    BY <1>1, <1>3, <1>4, <1>7 DEF TypeOK, attrVars, historyVars
  <1>9. CursorShape'
    <2>1. cursor.pos < cursor.size /\ WellPaged(cursor)
      BY <1>1 DEF IInv, CursorShape, FetchRow, HasRow
    <2>2. WellPaged(cursor')
      BY <1>2, <1>4, <1>6, <2>1 DEF WellPaged
    <2>. QED
      BY <2>2 DEF CursorShape
  <1>10. CallShape'
    <2>1. row_array_size \in Nat /\ Len(rowset) \in Nat
      BY <1>1, <1>7 DEF TypeOK
    <2>2. Len(rowset') <= row_array_size
      BY <1>3, <1>7, <2>1
    <2>. QED
      BY <1>1, <1>3, <1>5, <2>2 DEF IInv, CallShape, attrVars, historyVars
  <1>11. CursorMatchesPlan' /\ PositionedHasRow' /\ GetDataBelongsToRow'
    BY <1>1, <1>3, <1>4 DEF IInv, CursorMatchesPlan, PositionedHasRow, GetDataBelongsToRow
  <1>12. RowsetIsLatest'
    <2>1. Len(rowset) <= Consumed(cursor)
          /\ \A i \in 1 .. Len(rowset) : rowset[i] = Consumed(cursor) - Len(rowset) + i
      BY <1>1 DEF IInv, RowsetIsLatest
    <2>2. Len(rowset) \in Nat
      BY <1>7
    <2>3. Len(rowset') <= Consumed(cursor')
      BY <1>6, <1>7, <2>1, <2>2
    <2>4. ASSUME NEW i \in 1 .. Len(rowset')
          PROVE  rowset'[i] = Consumed(cursor') - Len(rowset') + i
      <3>1. i \in 1 .. Len(rowset) \/ i = Len(rowset) + 1
        BY <1>7, <2>2
      <3>. QED
        BY <1>6, <1>7, <2>1, <2>2, <3>1
    <2>. QED
      BY <1>5, <2>3, <2>4 DEF RowsetIsLatest
  <1>13. RowsLostOnlyByFailedBlockFetch'
    <2>1. Pending = Len(rowset) /\ Pending' = Len(rowset) + 1 /\ Len(rowset) \in Nat
      BY <1>1, <1>3, <1>7 DEF Pending
    <2>. QED
      BY <1>1, <1>3, <1>6, <2>1 DEF IInv, RowsLostOnlyByFailedBlockFetch, TypeOK, historyVars
  <1>. QED
    BY <1>8, <1>9, <1>10, <1>11, <1>12, <1>13 DEF IInv

\* Asking for a page takes nothing.
LEMMA AskPageKeepsIInv ==
    ASSUME IInv, AskPage
    PROVE  IInv'
  <1>. USE DEF IInv, AskPage, cursorVars, attrVars, historyVars
  <1>1. TypeOK'
    BY DEF TypeOK
  <1>2. CursorShape' /\ CursorMatchesPlan' /\ PositionedHasRow' /\ GetDataBelongsToRow'
    BY DEF CursorShape, CallShape, CursorMatchesPlan, PositionedHasRow, GetDataBelongsToRow
  <1>3. CallShape'
    <2>1. cursor # NoCursor /\ WellPaged(cursor) /\ ~AtEnd(cursor) /\ cursor.pos >= cursor.size
      BY DEF CallShape, CursorShape, NeedsPage
    <2>2. cursor.pos = cursor.size /\ ~cursor.done
      BY <2>1, CursorNumbers DEF WellPaged, AtEnd
    <2>. QED
      BY <2>2 DEF CallShape
  <1>4. RowsetIsLatest' /\ RowsLostOnlyByFailedBlockFetch'
    BY DEF RowsetIsLatest, RowsLostOnlyByFailedBlockFetch, Pending
  <1>. QED
    BY <1>1, <1>2, <1>3, <1>4

\* The new page starts after the last row taken.
LEMMA LoadPageKeepsIInv ==
    ASSUME IInv, NEW k \in Nat, LoadPage(k)
    PROVE  IInv'
  <1>1. /\ TypeOK /\ pc = "loading" /\ pc' = "fetching" /\ cursor # NoCursor /\ ~positioned
        /\ cursor' = load(cursor, cursor.next, k) /\ k \in PageSizes(cursor.next, cursor.total)
        /\ UNCHANGED <<plan, rowset, positioned, row_number, getdata, cancel, attrVars, ret, historyVars>>
    BY DEF IInv, CallShape, LoadPage
  <1>2. /\ cursor \in CursorType /\ cursor.next \in Nat /\ cursor.total \in Nat /\ cursor.base \in Nat
        /\ cursor.pos \in Nat
    BY <1>1, CursorNumbers
  <1>3. /\ cursor.pos = cursor.size /\ cursor.next = cursor.base + cursor.size
        /\ cursor.next <= cursor.total
        /\ cursor.sent = Consumed(cursor) /\ (cursor.max > 0 => cursor.total <= cursor.max)
    BY <1>1 DEF IInv, CallShape, CursorShape, WellPaged
  <1>4. Consumed(cursor) = cursor.next /\ cursor.sent = cursor.next
    BY <1>2, <1>3 DEF Consumed
  <1>5. /\ cursor' \in CursorType /\ WellPaged(cursor') /\ cursor'.origin = cursor.origin
        /\ Consumed(cursor') = Consumed(cursor)
    BY <1>1, <1>2, <1>3, <1>4, LoadIsWellPaged
  <1>6. cursor' # NoCursor
    BY <1>5, ConstantsOK DEF ConstantsOK
  <1>7. TypeOK'
    BY <1>1, <1>5 DEF TypeOK, attrVars, historyVars
  <1>8. CursorShape' /\ CursorMatchesPlan' /\ PositionedHasRow' /\ GetDataBelongsToRow'
    BY <1>1, <1>5 DEF IInv, CursorShape, CursorMatchesPlan, PositionedHasRow, GetDataBelongsToRow
  <1>9. CallShape'
    BY <1>1, <1>6 DEF IInv, CallShape, attrVars, historyVars
  <1>10. RowsetIsLatest'
    BY <1>1, <1>5, <1>6 DEF IInv, RowsetIsLatest
  <1>11. RowsLostOnlyByFailedBlockFetch'
    <2>1. Pending' = Pending
      BY <1>1 DEF Pending
    <2>. QED
      BY <1>1, <1>5, <2>1 DEF IInv, RowsLostOnlyByFailedBlockFetch, historyVars
  <1>. QED
    BY <1>7, <1>8, <1>9, <1>10, <1>11 DEF IInv

\* The rows of a fetch that is given up are lost, if there are any; then it was a block fetch.
LEMMA AbandonKeepsIInv ==
    ASSUME IInv, NEW code \in Returns, Abandon(code), pc \in {"fetching", "loading"},
           Len(rowset) < row_array_size
    PROVE  IInv'
  <1>1. /\ TypeOK /\ cursor # NoCursor /\ ~positioned /\ pc' = "idle" /\ ret' = code /\ failed' = TRUE
        /\ UNCHANGED <<plan, cursorVars, cancel, attrVars, blocked>>
    BY DEF IInv, CallShape, Abandon, Returning
  <1>2. TypeOK'
    BY <1>1 DEF TypeOK, cursorVars, attrVars
  <1>3. /\ CursorShape' /\ CallShape' /\ CursorMatchesPlan' /\ RowsetIsLatest' /\ PositionedHasRow'
        /\ GetDataBelongsToRow'
    BY <1>1 DEF IInv, CursorShape, CallShape, CursorMatchesPlan, RowsetIsLatest, PositionedHasRow,
                GetDataBelongsToRow, cursorVars
  <1>4. RowsLostOnlyByFailedBlockFetch'
    <2>1. Pending = Len(rowset) /\ Pending' = 0 /\ Len(rowset) \in Nat /\ row_array_size \in Nat
      BY <1>1 DEF Pending, TypeOK
    <2>2. blocked \/ Len(rowset) = 0
      BY <2>1 DEF IInv, CallShape
    <2>. QED
      BY <1>1, <2>1, <2>2 DEF IInv, RowsLostOnlyByFailedBlockFetch, TypeOK, cursorVars, Consumed
  <1>. QED
    BY <1>2, <1>3, <1>4 DEF IInv

\* The end of the result moves nothing.
LEMMA FetchNoDataKeepsIInv ==
    ASSUME IInv, FetchNoData
    PROVE  IInv'
  <1>1. /\ TypeOK /\ pc = "fetching" /\ pc' = "idle" /\ ret' = "NO_DATA" /\ rowset = <<>> /\ ~positioned
        /\ UNCHANGED <<plan, cursorVars, cancel, attrVars, historyVars>>
    BY DEF IInv, CallShape, FetchNoData, Returning
  <1>2. TypeOK'
    BY <1>1 DEF TypeOK, Returns, cursorVars, attrVars, historyVars
  <1>3. /\ CursorShape' /\ CallShape' /\ CursorMatchesPlan' /\ RowsetIsLatest' /\ PositionedHasRow'
        /\ GetDataBelongsToRow'
    BY <1>1 DEF IInv, CursorShape, CallShape, CursorMatchesPlan, RowsetIsLatest, PositionedHasRow,
                GetDataBelongsToRow, cursorVars
  <1>4. RowsLostOnlyByFailedBlockFetch'
    <2>1. Pending = 0 /\ Pending' = 0
      BY <1>1 DEF Pending
    <2>. QED
      BY <1>1, <2>1 DEF IInv, RowsLostOnlyByFailedBlockFetch, cursorVars, historyVars
  <1>. QED
    BY <1>2, <1>3, <1>4 DEF IInv

\* The rows delivered are the rows taken.
LEMMA FetchDoneKeepsIInv ==
    ASSUME IInv, NEW code \in Returns, FetchDone(code)
    PROVE  IInv'
  <1>1. /\ TypeOK /\ cursor # NoCursor /\ pc = "fetching" /\ pc' = "idle" /\ ret' = code
        /\ rowset # <<>> /\ positioned' = TRUE /\ getdata' = Fresh
        /\ row_number' = row_number + Len(rowset)
        /\ UNCHANGED <<plan, cursor, rowset, cancel, attrVars, historyVars>>
    BY DEF IInv, CallShape, FetchDone, Returning
  <1>2. Len(rowset) \in Nat /\ row_number \in Nat /\ Consumed(cursor) \in Nat
    BY <1>1, CursorNumbers DEF TypeOK
  <1>3. TypeOK'
    <2>1. getdata' \in [Columns -> Nat]
      BY <1>1 DEF Fresh
    <2>. QED
      BY <1>1, <1>2, <2>1 DEF TypeOK, attrVars, historyVars
  <1>4. CursorShape' /\ CallShape' /\ CursorMatchesPlan' /\ RowsetIsLatest' /\ PositionedHasRow'
    BY <1>1 DEF IInv, CursorShape, CallShape, CursorMatchesPlan, RowsetIsLatest, PositionedHasRow
  <1>5. GetDataBelongsToRow'
    BY <1>1 DEF GetDataBelongsToRow, Fresh
  <1>6. RowsLostOnlyByFailedBlockFetch'
    <2>1. Pending = Len(rowset) /\ Pending' = 0
      BY <1>1 DEF Pending
    <2>. QED
      BY <1>1, <1>2, <2>1 DEF IInv, RowsLostOnlyByFailedBlockFetch, historyVars
  <1>. QED
    BY <1>3, <1>4, <1>5, <1>6 DEF IInv

\* SQLGetData notes its progress for the current row.
LEMMA GetDataKeepsIInv ==
    ASSUME IInv, NEW c \in Columns, NEW code \in Returns, GetData(c, code)
    PROVE  IInv'
  <1>1. /\ TypeOK /\ cursor # NoCursor /\ pc = "idle" /\ ret' = code
        /\ rowset # <<>> /\ positioned
        /\ getdata' = getdata \/ getdata' = [getdata EXCEPT ![c] = rowset[1]]
        /\ UNCHANGED <<pc, plan, cursor, rowset, positioned, row_number, cancel, attrVars, historyVars>>
    BY DEF IInv, GetData
  <1>2. rowset[1] \in Nat
    BY <1>1 DEF TypeOK
  <1>3. TypeOK'
    BY <1>1, <1>2 DEF TypeOK, attrVars, historyVars
  <1>4. CursorShape' /\ CallShape' /\ CursorMatchesPlan' /\ RowsetIsLatest' /\ PositionedHasRow'
    BY <1>1 DEF IInv, CursorShape, CallShape, CursorMatchesPlan, RowsetIsLatest, PositionedHasRow
  <1>5. GetDataBelongsToRow'
    <2>1. getdata \in [Columns -> Nat] /\ \A d \in Columns : getdata[d] \in {0, rowset[1]}
      BY <1>1 DEF IInv, TypeOK, GetDataBelongsToRow
    <2>. QED
      BY <1>1, <2>1 DEF GetDataBelongsToRow
  <1>6. RowsLostOnlyByFailedBlockFetch'
    <2>1. Pending = Pending'
      BY <1>1 DEF Pending
    <2>. QED
      BY <1>1, <2>1 DEF IInv, RowsLostOnlyByFailedBlockFetch, historyVars
  <1>. QED
    BY <1>3, <1>4, <1>5, <1>6 DEF IInv

\* The new size is not that of a fetch under way.
LEMMA SetRowArraySizeKeepsIInv ==
    ASSUME IInv, NEW v \in ArraySizes, SetRowArraySize(v)
    PROVE  IInv'
  <1>1. /\ TypeOK /\ pc = "idle" /\ pc' = "idle" /\ ret' = "SUCCESS" /\ row_array_size' = v /\ v # 0
        /\ UNCHANGED <<plan, cursorVars, cancel, max_rows, params, historyVars>>
    BY DEF IInv, SetRowArraySize, Returning
  <1>2. v \in Nat \ {0}
    BY <1>1, ConstantsOK DEF ConstantsOK
  <1>3. TypeOK'
    BY <1>1, <1>2 DEF TypeOK, Returns, cursorVars, historyVars
  <1>4. /\ CursorShape' /\ CallShape' /\ CursorMatchesPlan' /\ RowsetIsLatest' /\ PositionedHasRow'
        /\ GetDataBelongsToRow'
    BY <1>1 DEF IInv, CursorShape, CallShape, CursorMatchesPlan, RowsetIsLatest, PositionedHasRow,
                GetDataBelongsToRow, cursorVars
  <1>5. RowsLostOnlyByFailedBlockFetch'
    BY <1>1 DEF IInv, RowsLostOnlyByFailedBlockFetch, Pending, cursorVars, historyVars
  <1>. QED
    BY <1>3, <1>4, <1>5 DEF IInv

\* A query that fails leaves no cursor.
LEMMA QueryFailsKeepsIInv ==
    ASSUME IInv, QueryFails
    PROVE  IInv'
  <1>1. /\ TypeOK /\ pc = "query" /\ pc' = "idle" /\ ret' = "08S01" /\ cursor = NoCursor
        /\ UNCHANGED <<plan, cursorVars, cancel, attrVars, historyVars>>
    BY DEF IInv, CallShape, QueryFails, Returning
  <1>2. TypeOK'
    BY <1>1 DEF TypeOK, Returns, cursorVars, attrVars, historyVars
  <1>3. /\ CursorShape' /\ CallShape' /\ CursorMatchesPlan' /\ RowsetIsLatest' /\ PositionedHasRow'
        /\ GetDataBelongsToRow' /\ RowsLostOnlyByFailedBlockFetch'
    BY <1>1 DEF IInv, CursorShape, CallShape, CursorMatchesPlan, RowsetIsLatest, PositionedHasRow,
                GetDataBelongsToRow, RowsLostOnlyByFailedBlockFetch, cursorVars
  <1>. QED
    BY <1>2, <1>3 DEF IInv

------------------------------------------------------------------------------
(* Every step *)

\* What the application may set is a number.
LEMMA SettingTypes ==
    ASSUME TypeOK
    PROVE  /\ cancel \in BOOLEAN /\ max_rows \in Nat /\ params \in SUBSET Nat /\ ret \in Returns
           /\ plan \in Origins
  BY DEF TypeOK

\* A call that stops at a check moves nothing but its return code.
LEMMA RejectKeepsIInv ==
    ASSUME IInv, NEW code \in Returns, Reject(code)
    PROVE  IInv'
  <1>1. TypeOK
    BY DEF IInv
  <1>. QED
    BY <1>1, SettingTypes, QuietStep DEF Reject, attrVars

\* do_execute replaces the cursor by one of the plan, or waits without one.
LEMMA DoExecuteKeepsIInv ==
    ASSUME IInv, NEW q \in Queries, do_execute(q), plan' = q, UNCHANGED attrVars
    PROVE  IInv'
  <1>1. plan' \in Origins /\ ret \in Returns /\ {"07002", "22018", "SUCCESS"} \subseteq Returns
    BY SettingTypes DEF IInv, Origins, Returns
  <1>2. CASE close_cursor /\ (Returning("07002") \/ Returning("22018"))
    BY <1>1, <1>2, ReplacesCursor DEF close_cursor, Returning
  <1>3. CASE set_cursor(VectorCursor(q, IF Kind[q] = "constant" THEN 1 ELSE 0)) /\ Returning("SUCCESS")
    <2>. DEFINE n == IF Kind[q] = "constant" THEN 1 ELSE 0
    <2>1. n \in Nat /\ q \in Origins
      BY DEF Origins
    <2>. HIDE DEF n
    <2>2. set_cursor(VectorCursor(q, n))
      BY <1>3 DEF n
    <2>. QED
      BY <1>1, <1>3, <2>1, <2>2, VectorCursorIsWellPaged, ReplacesCursor DEF Returning
  <1>4. CASE close_cursor /\ pc' = "query" /\ UNCHANGED ret
    BY <1>1, <1>4, ReplacesCursor DEF close_cursor
  <1>. QED
    BY <1>2, <1>3, <1>4 DEF do_execute

\* The calls that prepare and execute keep the invariant.
LEMMA PrepareExecuteKeepsIInv ==
    ASSUME IInv, PrepareExecute
    PROVE  IInv'
  <1>1. /\ {"SUCCESS", "42000", "HY010", "08S01"} \subseteq Returns /\ NoPlan \in Origins
        /\ Queries \subseteq Origins /\ NoCursor \in CursorType \cup {NoCursor} /\ plan \in Origins
    BY SettingTypes DEF IInv, Returns, Origins
  <1>2. ASSUME NEW q \in Queries, Prepare(q) PROVE IInv'
    BY <1>1, <1>2, ReplacesCursor DEF Prepare, close_cursor, Returning
  <1>3. ASSUME NEW q \in Queries, ExecDirect(q) PROVE IInv'
    BY <1>3, DoExecuteKeepsIInv DEF ExecDirect
  <1>4. CASE PrepareFails
    BY <1>1, <1>4, ReplacesCursor DEF PrepareFails, close_cursor, Returning
  <1>5. CASE Execute
    <2>1. plan \in Queries /\ plan' = plan
      BY <1>1, <1>5 DEF Execute, Origins
    <2>. QED
      BY <1>5, <2>1, DoExecuteKeepsIInv DEF Execute
  <1>6. CASE ExecuteUnprepared
    BY <1>1, <1>6, RejectKeepsIInv DEF ExecuteUnprepared
  <1>7. ASSUME NEW n \in 0 .. MaxTotal, Catalog(n) PROVE IInv'
    <2>1. n \in Nat
      OBVIOUS
    <2>. QED
      BY <1>1, <1>7, <2>1, VectorCursorIsWellPaged, ReplacesCursor DEF Catalog, Returning
  <1>8. CASE CatalogFails
    BY <1>1, <1>8, RejectKeepsIInv DEF CatalogFails
  <1>. QED
    BY <1>2, <1>3, <1>4, <1>5, <1>6, <1>7, <1>8 DEF PrepareExecute

\* What Salesforce answers keeps the invariant.
LEMMA AnswersKeepIInv ==
    ASSUME IInv, Answers
    PROVE  IInv'
  <1>1. /\ {"SUCCESS", "08S01"} \subseteq Returns /\ plan \in Origins /\ max_rows \in Nat
        /\ pc = "query" => plan \in Queries
    BY SettingTypes DEF IInv, CallShape, Returns
  <1>2. ASSUME NEW total \in 0 .. MaxTotal, NEW k \in 0 .. PageMax, QueryAnswered(total, k)
        PROVE  IInv'
    <2>1. /\ total \in MatchCounts(max_rows) /\ k \in PageSizes(0, total) /\ pc' = "idle"
          /\ set_cursor(SoqlCursor(plan, total, k, max_rows)) /\ UNCHANGED <<plan, attrVars>>
          /\ ret' = "SUCCESS"
      BY <1>2 DEF QueryAnswered, Returning
    <2>. QED
      BY <1>1, <2>1, SoqlCursorIsWellPaged, ReplacesCursor
  <1>3. CASE CountAnswered
    BY <1>1, <1>3, VectorCursorIsWellPaged, ReplacesCursor DEF CountAnswered, Returning
  <1>4. CASE QueryFails
    BY <1>4, QueryFailsKeepsIInv
  <1>5. ASSUME NEW k \in 0 .. PageMax, LoadPage(k) PROVE IInv'
    BY <1>5, LoadPageKeepsIInv
  <1>6. CASE LoadFails
    <2>1. Len(rowset) < row_array_size
      BY <1>6 DEF IInv, CallShape, LoadFails
    <2>. QED
      BY <1>1, <1>6, <2>1, AbandonKeepsIInv DEF LoadFails
  <1>. QED
    BY <1>2, <1>3, <1>4, <1>5, <1>6 DEF Answers

\* The steps of a fetch keep the invariant.
LEMMA FetchKeepsAll ==
    ASSUME IInv, StartFetch \/ FetchSteps
    PROVE  IInv'
  <1>1. {"24000", "HY106", "HY008"} \subseteq Returns
    BY DEF Returns
  <1>2. CASE Fetch
    BY <1>2, FetchKeepsIInv
  <1>3. CASE FetchUnopened \/ FetchScrollOther
    BY <1>1, <1>3, RejectKeepsIInv DEF FetchUnopened, FetchScrollOther
  <1>4. CASE FetchRow
    BY <1>4, FetchRowKeepsIInv
  <1>5. CASE AskPage
    BY <1>5, AskPageKeepsIInv
  <1>6. CASE CancelSeen
    BY <1>1, <1>6, AbandonKeepsIInv DEF CancelSeen
  <1>7. CASE FetchNoData
    BY <1>7, FetchNoDataKeepsIInv
  <1>8. ASSUME NEW code \in Returns, FetchDone(code) PROVE IInv'
    BY <1>8, FetchDoneKeepsIInv
  <1>. QED
    BY <1>2, <1>3, <1>4, <1>5, <1>6, <1>7, <1>8 DEF StartFetch, FetchSteps

\* Closing and setting keep the invariant.
LEMMA SettingsKeepIInv ==
    ASSUME IInv, Settings
    PROVE  IInv'
  <1>1. /\ {"SUCCESS", "24000", "HY024"} \subseteq Returns /\ plan \in Origins
        /\ cancel \in BOOLEAN /\ max_rows \in Nat /\ params \in SUBSET Nat /\ ret \in Returns
    BY SettingTypes DEF IInv, Returns
  <1>2. CASE CloseCursor \/ FreeStmtClose
    <2>1. close_cursor /\ pc' = "idle" /\ ret' = "SUCCESS" /\ UNCHANGED <<plan, attrVars>>
      BY <1>2 DEF CloseCursor, FreeStmtClose, Returning
    <2>. QED
      BY <1>1, <2>1, ReplacesCursor DEF close_cursor
  <1>3. CASE CloseUnopened \/ SetRowArraySizeZero
    BY <1>1, <1>3, RejectKeepsIInv DEF CloseUnopened, SetRowArraySizeZero
  <1>4. ASSUME NEW v \in ArraySizes, SetRowArraySize(v) PROVE IInv'
    BY <1>4, SetRowArraySizeKeepsIInv
  <1>5. ASSUME NEW v \in RowLimits, SetMaxRows(v) PROVE IInv'
    <2>1. v \in Nat
      BY ConstantsOK DEF ConstantsOK
    <2>. QED
      BY <1>1, <1>5, <2>1, QuietStep DEF SetMaxRows, Returning
  <1>6. ASSUME NEW i \in 1 .. MaxParam, BindParameter(i) PROVE IInv'
    <2>1. params \cup {i} \in SUBSET Nat
      BY <1>1
    <2>. QED
      BY <1>1, <1>6, <2>1, QuietStep DEF BindParameter, Returning
  <1>7. CASE ResetParams
    BY <1>1, <1>7, QuietStep DEF ResetParams, Returning
  <1>. QED
    BY <1>2, <1>3, <1>4, <1>5, <1>6, <1>7 DEF Settings

\* Every step keeps the invariant.
LEMMA NextKeepsIInv ==
    ASSUME IInv, [Next]_vars
    PROVE  IInv'
  <1>1. TypeOK /\ cancel \in BOOLEAN /\ max_rows \in Nat /\ params \in SUBSET Nat /\ ret \in Returns
    BY SettingTypes DEF IInv
  <1>2. CASE PrepareExecute
    BY <1>2, PrepareExecuteKeepsIInv
  <1>3. CASE Answers
    BY <1>3, AnswersKeepIInv
  <1>4. CASE StartFetch \/ FetchSteps
    BY <1>4, FetchKeepsAll
  <1>5. CASE Reads
    <2>1. ASSUME NEW c \in Columns, NEW code \in Returns, GetData(c, code) PROVE IInv'
      BY <2>1, GetDataKeepsIInv
    <2>2. CASE GetDataUnpositioned
      BY <2>2, RejectKeepsIInv DEF GetDataUnpositioned, Returns
    <2>. QED
      BY <1>5, <2>1, <2>2 DEF Reads
  <1>6. CASE Settings
    BY <1>6, SettingsKeepIInv
  <1>7. CASE Cancel
    BY <1>1, <1>7, QuietStep DEF Cancel, attrVars
  <1>8. CASE UNCHANGED vars
    BY <1>1, <1>8, QuietStep DEF vars, attrVars, cursorVars, historyVars
  <1>. QED
    BY <1>2, <1>3, <1>4, <1>5, <1>6, <1>7, <1>8 DEF Next

\* IInv holds in every state of every statement: whatever queries, pages, errors, limits and
\* cancellations there are.
THEOREM StatementInvariant == Spec => []IInv
  <1>1. Init => IInv
    BY InitEstablishesIInv
  <1>2. IInv /\ [Next]_vars => IInv'
    BY NextKeepsIInv
  <1>. QED
    BY <1>1, <1>2, PTL DEF Spec

\* Type correctness of the statement's state (Stmt, handles.h, and its cursor).
THEOREM TypeCorrect == Spec => []TypeOK
  BY StatementInvariant, PTL DEF IInv

\* The columns the statement describes are those of the result it fetches.
THEOREM ColumnsOfTheResult == Spec => []CursorMatchesPlan
  BY StatementInvariant, PTL DEF IInv

\* do_fetch delivers the rows next in order, none skipped and none repeated.
THEOREM RowsInOrder == Spec => []RowsetIsLatest
  BY StatementInvariant, PTL DEF IInv

\* A row is current only behind a fetch that delivered it, and while no call replaces it.
THEOREM CurrentRowIsDelivered == Spec => []PositionedHasRow
  BY StatementInvariant, PTL DEF IInv

\* Rows are lost only by a fetch of several rows that fails part of the way.
THEOREM RowsAccountedFor == Spec => []RowsLostOnlyByFailedBlockFetch
  BY StatementInvariant, PTL DEF IInv

\* SQLGetData never applies the offset it reached in one row to another row.
THEOREM GetDataProgressOfThisRow == Spec => []GetDataBelongsToRow
  BY StatementInvariant, PTL DEF IInv

------------------------------------------------------------------------------
(* The end of the data *)

\* The cursor's conditions for the end of the data are met only behind the last row.
LEMMA AtEndIsExhausted ==
    ASSUME IInv, cursor # NoCursor, AtEnd(cursor)
    PROVE  Consumed(cursor) = cursor.total
  <1>1. /\ cursor.base \in Nat /\ cursor.size \in Nat /\ cursor.pos \in Nat /\ cursor.next \in Nat
        /\ cursor.total \in Nat /\ cursor.max \in Nat /\ cursor.sent \in Nat
    BY CursorNumbers DEF IInv
  <1>2. WellPaged(cursor)
    BY DEF IInv, CursorShape
  <1>3. Consumed(cursor) <= cursor.total
    BY <1>1, <1>2 DEF WellPaged, Consumed
  <1>4. CASE cursor.max > 0 /\ cursor.sent >= cursor.max
    BY <1>1, <1>2, <1>3, <1>4 DEF WellPaged, Consumed
  <1>5. CASE cursor.pos >= cursor.size /\ cursor.done
    <2>1. cursor.done = (cursor.next = cursor.total)
      BY <1>2 DEF WellPaged
    <2>2. cursor.next = cursor.total
      BY <1>5, <2>1
    <2>. QED
      BY <1>1, <1>2, <1>5, <2>2 DEF WellPaged, Consumed
  <1>. QED
    BY <1>4, <1>5 DEF AtEnd

\* SQL_NO_DATA is returned behind the last row only.
THEOREM NoDataIsTheEnd == Spec => NoDataMeansExhausted
  <1>. DEFINE NoData == pc = "fetching" /\ pc' = "idle" /\ ret' = "NO_DATA"
  <1>1. ASSUME IInv, Next, NoData
        PROVE  Consumed(cursor) = cursor.total
    <2>1. FetchNoData
      <3>1. ~PrepareExecute /\ ~StartFetch /\ ~Reads /\ ~Settings /\ ~Cancel /\ ~Answers
        BY <1>1 DEF PrepareExecute, StartFetch, Reads, Settings, Cancel, Answers, Prepare, ExecDirect,
             PrepareFails, Execute, ExecuteUnprepared, Catalog, CatalogFails, Fetch, FetchUnopened,
             FetchScrollOther, GetData, GetDataUnpositioned, CloseCursor, CloseUnopened, FreeStmtClose,
             SetRowArraySize, SetRowArraySizeZero, SetMaxRows, BindParameter, ResetParams,
             QueryAnswered, CountAnswered, QueryFails, LoadPage, LoadFails
      <3>2. FetchSteps
        BY <1>1, <3>1 DEF Next
      <3>3. ~FetchRow /\ ~AskPage /\ ~CancelSeen
        BY <1>1 DEF FetchRow, AskPage, CancelSeen, Abandon, Returning
      <3>4. ASSUME NEW code \in Returns PROVE ~FetchDone(code)
        BY <1>1 DEF FetchDone, Returning
      <3>. QED
        BY <3>2, <3>3, <3>4 DEF FetchSteps
    <2>2. cursor # NoCursor /\ rowset = <<>> /\ row_array_size \in Nat \ {0}
      BY <1>1, <2>1 DEF IInv, CallShape, TypeOK, FetchNoData
    <2>3. AtEnd(cursor)
      BY <2>1, <2>2 DEF FetchNoData, LoopDone
    <2>. QED
      BY <1>1, <2>2, <2>3, AtEndIsExhausted
  <1>2. IInv /\ [Next]_vars => [NoData => Consumed(cursor) = cursor.total]_vars
    BY <1>1
  <1>. QED
    BY <1>2, StatementInvariant, PTL DEF Spec, NoDataMeansExhausted

------------------------------------------------------------------------------
(* The cancel flag *)

\* The flag goes with the cursor that is closed or replaced.
LEMMA CancelClearedWithCursor ==
    ASSUME NEW c, set_cursor(c), c # NoCursor => Consumed(c) = 0
    PROVE  CancelStep
  BY DEF set_cursor, CancelStep, NothingDelivered

\* A step that leaves flag and cursor alone does not ask for a page.
LEMMA CancelKept ==
    ASSUME UNCHANGED <<cursor, cancel>>, pc' # "loading" \/ pc = "loading"
    PROVE  CancelStep
  BY DEF CancelStep

\* Preparing, executing and the catalog calls keep to what a step may do with the flag.
LEMMA CancelPrepareExecute ==
    ASSUME IInv, PrepareExecute
    PROVE  CancelStep
  <1>1. ASSUME NEW origin \in Origins, NEW n \in Nat, set_cursor(VectorCursor(origin, n))
        PROVE  CancelStep
    BY <1>1, VectorCursorIsWellPaged, CancelClearedWithCursor
  <1>2. CASE close_cursor
    BY <1>2, CancelClearedWithCursor DEF close_cursor
  <1>3. ASSUME NEW q \in Queries, do_execute(q) PROVE CancelStep
    <2>. DEFINE n == IF Kind[q] = "constant" THEN 1 ELSE 0
    <2>1. n \in Nat /\ q \in Origins
      BY DEF Origins
    <2>. HIDE DEF n
    <2>2. close_cursor \/ set_cursor(VectorCursor(q, n))
      BY <1>3 DEF do_execute, n
    <2>. QED
      BY <1>1, <1>2, <2>1, <2>2
  <1>4. ASSUME NEW q \in Queries, Prepare(q) \/ ExecDirect(q) PROVE CancelStep
    BY <1>2, <1>3, <1>4 DEF Prepare, ExecDirect
  <1>5. CASE PrepareFails
    BY <1>2, <1>5 DEF PrepareFails
  <1>6. CASE Execute
    <2>1. plan \in Queries
      BY <1>6 DEF IInv, TypeOK, Origins, Execute
    <2>. QED
      BY <1>3, <1>6, <2>1 DEF Execute
  <1>7. CASE ExecuteUnprepared \/ CatalogFails
    BY <1>7, CancelKept DEF ExecuteUnprepared, CatalogFails, Reject, cursorVars
  <1>8. ASSUME NEW n \in 0 .. MaxTotal, Catalog(n) PROVE CancelStep
    BY <1>1, <1>8 DEF Catalog, Origins
  <1>. QED
    BY <1>4, <1>5, <1>6, <1>7, <1>8 DEF PrepareExecute

\* So do the answers of Salesforce.
LEMMA CancelAnswers ==
    ASSUME IInv, Answers
    PROVE  CancelStep
  <1>1. plan \in Origins /\ max_rows \in Nat
    BY DEF IInv, TypeOK
  <1>2. ASSUME NEW total \in 0 .. MaxTotal, NEW k \in 0 .. PageMax, QueryAnswered(total, k)
        PROVE  CancelStep
    <2>1. /\ total \in MatchCounts(max_rows) /\ k \in PageSizes(0, total)
          /\ set_cursor(SoqlCursor(plan, total, k, max_rows))
      BY <1>2 DEF QueryAnswered
    <2>. QED
      BY <1>1, <2>1, SoqlCursorIsWellPaged, CancelClearedWithCursor
  <1>3. CASE CountAnswered
    BY <1>1, <1>3, VectorCursorIsWellPaged, CancelClearedWithCursor DEF CountAnswered
  <1>4. CASE QueryFails \/ LoadFails
    BY <1>4, CancelKept DEF QueryFails, LoadFails, Abandon, Returning, cursorVars
  <1>5. ASSUME NEW k \in 0 .. PageMax, LoadPage(k) PROVE CancelStep
    <2>1. /\ cursor # NoCursor /\ cursor \in CursorType /\ cursor' = load(cursor, cursor.next, k)
          /\ cancel' = cancel /\ pc' = "fetching"
      BY <1>5, CursorNumbers DEF IInv, CallShape, LoadPage
    <2>2. cursor'.origin = cursor.origin
      BY <2>1 DEF load, CursorType
    <2>. QED
      BY <2>1, <2>2 DEF CancelStep
  <1>. QED
    BY <1>2, <1>3, <1>4, <1>5 DEF Answers

\* So do the steps of a fetch: the only one that asks for a page looks at the flag.
LEMMA CancelFetch ==
    ASSUME IInv, StartFetch \/ FetchSteps
    PROVE  CancelStep
  <1>1. CASE StartFetch
    BY <1>1, CancelKept DEF StartFetch, Fetch, FetchUnopened, FetchScrollOther, Reject, cursorVars
  <1>2. CASE FetchRow
    <2>1. /\ cursor # NoCursor /\ cursor \in CursorType
          /\ cursor' = [cursor EXCEPT !.pos = @ + 1, !.sent = @ + 1] /\ cancel' = cancel
          /\ pc' = pc /\ pc = "fetching"
      BY <1>2, CursorNumbers DEF IInv, CallShape, FetchRow
    <2>2. cursor'.origin = cursor.origin
      BY <2>1 DEF CursorType
    <2>. QED
      BY <2>1, <2>2 DEF CancelStep
  <1>3. CASE AskPage
    <2>1. ~cancel /\ cancel' = cancel /\ cursor' = cursor
      BY <1>3 DEF AskPage, cursorVars
    <2>. QED
      BY <2>1 DEF CancelStep
  <1>4. CASE CancelSeen \/ FetchNoData
    BY <1>4, CancelKept DEF CancelSeen, FetchNoData, Abandon, Returning, cursorVars
  <1>5. ASSUME NEW code \in Returns, FetchDone(code) PROVE CancelStep
    BY <1>5, CancelKept DEF FetchDone, Returning
  <1>. QED
    BY <1>1, <1>2, <1>3, <1>4, <1>5 DEF FetchSteps

\* So do reading, setting and SQLCancel itself.
LEMMA CancelReadsSettings ==
    ASSUME Reads \/ Settings \/ Cancel
    PROVE  CancelStep
  <1>1. CASE Reads
    <2>1. ASSUME NEW c \in Columns, NEW code \in Returns, GetData(c, code) PROVE CancelStep
      BY <2>1, CancelKept DEF GetData
    <2>2. CASE GetDataUnpositioned
      BY <2>2, CancelKept DEF GetDataUnpositioned, Reject, cursorVars
    <2>. QED
      BY <1>1, <2>1, <2>2 DEF Reads
  <1>2. CASE close_cursor
    BY <1>2, CancelClearedWithCursor DEF close_cursor
  <1>3. CASE Settings
    <2>1. CASE CloseCursor \/ FreeStmtClose
      BY <1>2, <2>1 DEF CloseCursor, FreeStmtClose
    <2>2. CASE CloseUnopened \/ SetRowArraySizeZero \/ ResetParams
      BY <2>2, CancelKept DEF CloseUnopened, SetRowArraySizeZero, ResetParams, Reject, Returning, cursorVars
    <2>3. ASSUME NEW v, SetRowArraySize(v) \/ SetMaxRows(v) \/ BindParameter(v) PROVE CancelStep
      BY <2>3, CancelKept DEF SetRowArraySize, SetMaxRows, BindParameter, Returning, cursorVars
    <2>. QED
      BY <1>3, <2>1, <2>2, <2>3 DEF Settings
  <1>4. CASE Cancel
    BY <1>4 DEF Cancel, CancelStep, cursorVars
  <1>. QED
    BY <1>1, <1>3, <1>4

\* SQLCancel ends the paging of the cursor that is open, and of no other.
THEOREM CancelIsOfOneCursor == Spec => CancelEndsOneCursor
  <1>1. ASSUME IInv, Next PROVE CancelStep
    BY <1>1, CancelPrepareExecute, CancelAnswers, CancelFetch, CancelReadsSettings DEF Next
  <1>2. IInv /\ [Next]_vars => [CancelStep]_vars
    BY <1>1
  <1>. QED
    BY <1>2, StatementInvariant, PTL DEF Spec, CancelEndsOneCursor

------------------------------------------------------------------------------
(* The statement implements the stream *)

\* A new statement is a closed stream.
LEMMA StreamInit == Init => Stream!Init
  BY DEF Init, Stream!Init, Stream!Closed

\* A step that changes neither the cursor's count nor what is visible.
LEMMA StreamStutter ==
    ASSUME UNCHANGED <<positioned, failed>>,
           (cursor' = NoCursor) = (cursor = NoCursor),
           cursor # NoCursor => cursor'.total = cursor.total
                                /\ Consumed(cursor') - Pending' = Consumed(cursor) - Pending,
           positioned => rowset' = rowset
    PROVE  UNCHANGED Stream!vars
  <1>1. (cursor' # NoCursor) = (cursor # NoCursor)
    OBVIOUS
  <1>. QED
    BY <1>1 DEF Stream!vars

\* Closing or replacing the cursor closes or opens the stream.
LEMMA StreamReplaced ==
    ASSUME NEW c \in CursorType \cup {NoCursor}, set_cursor(c), pc' \in {"idle", "query"},
           c # NoCursor => Consumed(c) = 0
    PROVE  Stream!Next
  <1>1. /\ cursor' = c /\ ~positioned' /\ ~failed' /\ Pending' = 0 /\ positioned' = FALSE
        /\ failed' = FALSE
    BY DEF set_cursor, Pending
  <1>2. CASE c = NoCursor
    BY <1>1, <1>2 DEF Stream!Next, Stream!Close, Stream!Closed
  <1>3. CASE c # NoCursor
    <2>1. c.total \in Nat
      BY <1>3 DEF CursorType
    <2>2. (cursor' # NoCursor) = TRUE
      BY <1>1, <1>3
    <2>. QED
      BY <1>1, <1>3, <2>1, <2>2 DEF Stream!Next, Stream!Open
  <1>. QED
    BY <1>2, <1>3

\* A step that leaves the stream's state alone, as most do.
LEMMA StreamQuiet ==
    ASSUME UNCHANGED <<cursorVars, failed>>,
           \/ pc' = pc
           \/ pc = "query" /\ pc' = "idle"
           \/ pc = "fetching" /\ pc' = "loading"
           \/ rowset = <<>>
    PROVE  UNCHANGED Stream!vars
  <1>1. Pending' = Pending
    BY DEF Pending, cursorVars
  <1>. QED
    BY <1>1 DEF Stream!vars, cursorVars, Consumed

\* The start of a fetch takes the window away.
LEMMA StreamFetch ==
    ASSUME IInv, Fetch
    PROVE  Stream!Next
  <1>1. /\ cursor # NoCursor /\ UNCHANGED <<cursor, failed>> /\ positioned' = FALSE
        /\ Pending = 0 /\ Pending' = 0
    BY DEF Fetch, Pending
  <1>. QED
    BY <1>1 DEF Stream!Next, Stream!Begin, Consumed

\* A row taken by a fetch under way is not taken from the stream yet.
LEMMA StreamFetchRow ==
    ASSUME IInv, FetchRow
    PROVE  UNCHANGED Stream!vars
  <1>1. cursor # NoCursor /\ TypeOK /\ pc = "fetching" /\ pc' = "fetching" /\ ~positioned
        /\ UNCHANGED <<positioned, failed>> /\ rowset' = Append(rowset, Consumed(cursor) + 1)
    BY DEF IInv, CallShape, FetchRow, historyVars
  <1>2. /\ cursor \in CursorType /\ cursor' = [cursor EXCEPT !.pos = @ + 1, !.sent = @ + 1]
        /\ cursor.base \in Nat /\ cursor.pos \in Nat /\ Consumed(cursor) \in Nat
    BY <1>1, CursorNumbers DEF FetchRow
  <1>3. /\ cursor' \in CursorType /\ cursor'.total = cursor.total
        /\ cursor'.base = cursor.base /\ cursor'.pos = cursor.pos + 1
    BY <1>2, TakesRow
  <1>4. cursor' # NoCursor
    BY <1>3, ConstantsOK DEF ConstantsOK
  <1>5. Consumed(cursor') = Consumed(cursor) + 1
    BY <1>2, <1>3 DEF Consumed
  <1>6. Pending = Len(rowset) /\ Pending' = Len(rowset) + 1 /\ Len(rowset) \in Nat
    BY <1>1, <1>2 DEF Pending, TypeOK
  <1>7. Consumed(cursor') - Pending' = Consumed(cursor) - Pending
    BY <1>2, <1>5, <1>6
  <1>. QED
    BY <1>1, <1>3, <1>4, <1>7, StreamStutter

\* A page is not visible in the stream.
LEMMA StreamLoadPage ==
    ASSUME IInv, NEW k \in Nat, LoadPage(k)
    PROVE  UNCHANGED Stream!vars
  <1>1. /\ TypeOK /\ pc = "loading" /\ pc' = "fetching" /\ cursor # NoCursor /\ ~positioned
        /\ cursor' = load(cursor, cursor.next, k) /\ k \in PageSizes(cursor.next, cursor.total)
        /\ UNCHANGED <<rowset, positioned, failed>>
    BY DEF IInv, CallShape, LoadPage, historyVars
  <1>2. /\ cursor \in CursorType /\ cursor.next \in Nat /\ cursor.total \in Nat /\ cursor.base \in Nat
        /\ cursor.pos \in Nat
    BY <1>1, CursorNumbers
  <1>3. /\ cursor.pos = cursor.size /\ cursor.next = cursor.base + cursor.size
        /\ cursor.next <= cursor.total
        /\ cursor.sent = Consumed(cursor) /\ (cursor.max > 0 => cursor.total <= cursor.max)
    BY <1>1 DEF IInv, CallShape, CursorShape, WellPaged
  <1>4. Consumed(cursor) = cursor.next /\ cursor.sent = cursor.next
    BY <1>2, <1>3 DEF Consumed
  <1>5. cursor' \in CursorType /\ Consumed(cursor') = Consumed(cursor)
    BY <1>1, <1>2, <1>3, <1>4, LoadIsWellPaged
  <1>6. cursor' # NoCursor /\ cursor'.total = cursor.total
    BY <1>1, <1>2, <1>5, ConstantsOK DEF ConstantsOK, load, CursorType
  <1>7. Pending' = Pending
    BY <1>1 DEF Pending
  <1>. QED
    BY <1>1, <1>5, <1>6, <1>7, StreamStutter

\* A fetch that fails is a failure of the stream, with the rows it had taken.
LEMMA StreamAbandon ==
    ASSUME IInv, NEW code \in Returns, Abandon(code), pc \in {"fetching", "loading"}
    PROVE  Stream!Next
  <1>1. /\ TypeOK /\ cursor # NoCursor /\ ~positioned /\ pc' = "idle" /\ failed' = TRUE
        /\ UNCHANGED cursorVars
    BY DEF IInv, CallShape, Abandon, Returning
  <1>2. /\ Consumed(cursor) \in Nat /\ cursor.total \in Nat /\ cursor.base \in Nat /\ cursor.pos \in Nat
        /\ cursor.size \in Nat /\ cursor.next \in Nat /\ Len(rowset) \in Nat
    BY <1>1, CursorNumbers DEF TypeOK
  <1>3. Consumed(cursor) <= cursor.total
    BY <1>1, <1>2 DEF IInv, CursorShape, WellPaged, Consumed
  <1>4. Len(rowset) <= Consumed(cursor)
    BY <1>1 DEF IInv, RowsetIsLatest
  <1>5. Pending = Len(rowset) /\ Pending' = 0
    BY <1>1 DEF Pending
  <1>6. Len(rowset) \in 0 .. cursor.total
    BY <1>2, <1>3, <1>4
  <1>7. Stream!Fail(Len(rowset))
    BY <1>1, <1>2, <1>3, <1>5 DEF Stream!Fail, Consumed, cursorVars
  <1>. QED
    BY <1>1, <1>6, <1>7 DEF Stream!Next

\* The rows delivered are the next window.
LEMMA StreamFetchDone ==
    ASSUME IInv, NEW code \in Returns, FetchDone(code)
    PROVE  Stream!Next
  <1>1. /\ TypeOK /\ cursor # NoCursor /\ pc = "fetching" /\ pc' = "idle" /\ rowset # <<>>
        /\ positioned' = TRUE /\ UNCHANGED <<cursor, rowset, failed>>
    BY DEF IInv, CallShape, FetchDone, Returning, historyVars
  <1>2. /\ Consumed(cursor) \in Nat /\ cursor.total \in Nat /\ cursor.base \in Nat /\ cursor.pos \in Nat
        /\ cursor.size \in Nat /\ cursor.next \in Nat /\ rowset \in Seq(Nat) /\ Len(rowset) \in Nat
    BY <1>1, CursorNumbers DEF TypeOK
  <1>3. Consumed(cursor) <= cursor.total
    BY <1>1, <1>2 DEF IInv, CursorShape, WellPaged, Consumed
  <1>4. /\ Len(rowset) <= Consumed(cursor)
        /\ \A i \in 1 .. Len(rowset) : rowset[i] = Consumed(cursor) - Len(rowset) + i
    BY <1>1 DEF IInv, RowsetIsLatest
  <1>5. Pending = Len(rowset) /\ Pending' = 0
    BY <1>1 DEF Pending
  <1>6. Len(rowset) \in 0 .. cursor.total /\ Len(rowset) > 0
    BY <1>1, <1>2, <1>3, <1>4
  <1>7. rowset = [i \in 1 .. Len(rowset) |-> (Consumed(cursor) - Pending) + i]
    BY <1>2, <1>4, <1>5
  <1>8. Stream!Deliver(Len(rowset))
    BY <1>1, <1>2, <1>3, <1>5, <1>6, <1>7 DEF Stream!Deliver, Consumed
  <1>. QED
    BY <1>1, <1>6, <1>8 DEF Stream!Next

\* do_execute closes the stream or opens a new one.
LEMMA StreamDoExecute ==
    ASSUME NEW q \in Queries, do_execute(q), pc = "idle"
    PROVE  Stream!Next
  <1>1. CASE close_cursor /\ pc' \in {"idle", "query"}
    BY <1>1, StreamReplaced DEF close_cursor
  <1>2. CASE set_cursor(VectorCursor(q, IF Kind[q] = "constant" THEN 1 ELSE 0)) /\ pc' = "idle"
    <2>. DEFINE n == IF Kind[q] = "constant" THEN 1 ELSE 0
    <2>1. n \in Nat /\ q \in Origins
      BY DEF Origins
    <2>. HIDE DEF n
    <2>2. set_cursor(VectorCursor(q, n))
      BY <1>2 DEF n
    <2>. QED
      BY <1>2, <2>1, <2>2, VectorCursorIsWellPaged, StreamReplaced
  <1>. QED
    BY <1>1, <1>2 DEF do_execute, Returning

\* The calls that prepare and execute are steps of the stream.
LEMMA StreamPrepareExecute ==
    ASSUME IInv, PrepareExecute
    PROVE  Stream!Next \/ UNCHANGED Stream!vars
  <1>1. plan \in Origins /\ NoPlan \in Origins
    BY SettingTypes DEF IInv, Origins
  <1>2. CASE PrepareFails \/ \E q \in Queries : Prepare(q)
    <2>1. close_cursor /\ pc' = "idle"
      BY <1>2 DEF PrepareFails, Prepare, Returning
    <2>. QED
      BY <2>1, StreamReplaced DEF close_cursor
  <1>3. CASE Execute \/ \E q \in Queries : ExecDirect(q)
    <2>1. PICK q \in Queries : do_execute(q) /\ pc = "idle"
      BY <1>1, <1>3 DEF Execute, ExecDirect, Origins
    <2>. QED
      BY <2>1, StreamDoExecute
  <1>4. CASE ExecuteUnprepared \/ CatalogFails
    BY <1>4, StreamQuiet DEF ExecuteUnprepared, CatalogFails, Reject, historyVars
  <1>5. ASSUME NEW n \in 0 .. MaxTotal, Catalog(n) PROVE Stream!Next
    <2>1. n \in Nat /\ pc' = "idle"
      BY <1>5 DEF Catalog, Returning
    <2>. QED
      BY <1>1, <1>5, <2>1, VectorCursorIsWellPaged, StreamReplaced DEF Catalog
  <1>. QED
    BY <1>2, <1>3, <1>4, <1>5 DEF PrepareExecute

\* The answers of Salesforce are steps of the stream.
LEMMA StreamAnswers ==
    ASSUME IInv, Answers
    PROVE  Stream!Next \/ UNCHANGED Stream!vars
  <1>1. plan \in Origins /\ max_rows \in Nat
    BY SettingTypes DEF IInv
  <1>2. ASSUME NEW total \in 0 .. MaxTotal, NEW k \in 0 .. PageMax, QueryAnswered(total, k)
        PROVE  Stream!Next
    <2>1. /\ total \in MatchCounts(max_rows) /\ k \in PageSizes(0, total) /\ pc' = "idle"
          /\ set_cursor(SoqlCursor(plan, total, k, max_rows))
      BY <1>2 DEF QueryAnswered, Returning
    <2>. QED
      BY <1>1, <2>1, SoqlCursorIsWellPaged, StreamReplaced
  <1>3. ASSUME CountAnswered PROVE Stream!Next
    <2>1. pc' = "idle" /\ set_cursor(VectorCursor(plan, 1))
      BY <1>3 DEF CountAnswered, Returning
    <2>. QED
      BY <1>1, <2>1, VectorCursorIsWellPaged, StreamReplaced
  <1>4. ASSUME QueryFails PROVE UNCHANGED Stream!vars
    BY <1>4, StreamQuiet DEF QueryFails, Returning, historyVars
  <1>5. ASSUME NEW k \in 0 .. PageMax, LoadPage(k) PROVE UNCHANGED Stream!vars
    BY <1>5, StreamLoadPage
  <1>6. ASSUME LoadFails PROVE Stream!Next
    BY <1>6, StreamAbandon DEF LoadFails, Returns
  <1>. QED
    BY <1>2, <1>3, <1>4, <1>5, <1>6 DEF Answers

\* The steps of a fetch are steps of the stream.
LEMMA StreamFetchSteps ==
    ASSUME IInv, StartFetch \/ FetchSteps
    PROVE  Stream!Next \/ UNCHANGED Stream!vars
  <1>1. ASSUME Fetch PROVE Stream!Next
    BY <1>1, StreamFetch
  <1>2. ASSUME FetchUnopened \/ FetchScrollOther PROVE UNCHANGED Stream!vars
    BY <1>2, StreamQuiet DEF FetchUnopened, FetchScrollOther, Reject, historyVars
  <1>3. ASSUME FetchRow PROVE UNCHANGED Stream!vars
    BY <1>3, StreamFetchRow
  <1>4. ASSUME AskPage PROVE UNCHANGED Stream!vars
    BY <1>4, StreamQuiet DEF AskPage, historyVars
  <1>5. ASSUME CancelSeen PROVE Stream!Next
    BY <1>5, StreamAbandon DEF CancelSeen, Returns
  <1>6. ASSUME FetchNoData PROVE UNCHANGED Stream!vars
    BY <1>6, StreamQuiet DEF FetchNoData, historyVars
  <1>7. ASSUME NEW code \in Returns, FetchDone(code) PROVE Stream!Next
    BY <1>7, StreamFetchDone
  <1>. QED
    BY <1>1, <1>2, <1>3, <1>4, <1>5, <1>6, <1>7 DEF StartFetch, FetchSteps

\* Reading and setting are steps of the stream.
LEMMA StreamReadsSettings ==
    ASSUME IInv, Reads \/ Settings \/ Cancel
    PROVE  Stream!Next \/ UNCHANGED Stream!vars
  <1>1. CASE CloseCursor \/ FreeStmtClose
    <2>1. close_cursor /\ pc' = "idle"
      BY <1>1 DEF CloseCursor, FreeStmtClose, Returning
    <2>. QED
      BY <2>1, StreamReplaced DEF close_cursor
  <1>2. CASE GetDataUnpositioned \/ CloseUnopened \/ SetRowArraySizeZero
    BY <1>2, StreamQuiet DEF GetDataUnpositioned, CloseUnopened, SetRowArraySizeZero, Reject, historyVars
  <1>3. ASSUME NEW c \in Columns, NEW code \in Returns, GetData(c, code) PROVE UNCHANGED Stream!vars
    <2>1. UNCHANGED <<pc, cursor, rowset, positioned, failed>>
      BY <1>3 DEF GetData, historyVars
    <2>2. Pending' = Pending
      BY <2>1 DEF Pending
    <2>. QED
      BY <2>1, <2>2 DEF Stream!vars, Consumed
  <1>4. ASSUME NEW v, SetRowArraySize(v) \/ SetMaxRows(v) \/ BindParameter(v)
        PROVE  UNCHANGED Stream!vars
    BY <1>4, StreamQuiet DEF SetRowArraySize, SetMaxRows, BindParameter, Returning, historyVars
  <1>5. CASE ResetParams \/ Cancel
    BY <1>5, StreamQuiet DEF ResetParams, Cancel, Returning, historyVars
  <1>. QED
    BY <1>1, <1>2, <1>3, <1>4, <1>5 DEF Reads, Settings

\* Every step of the statement is a step of the stream.
LEMMA StreamStep ==
    ASSUME IInv, [Next]_vars
    PROVE  [Stream!Next]_(Stream!vars)
  <1>1. CASE UNCHANGED vars
    BY <1>1, StreamQuiet DEF vars, historyVars
  <1>. QED
    BY <1>1, StreamPrepareExecute, StreamAnswers, StreamFetchSteps, StreamReadsSettings DEF Next

\* The refinement: a statement, with its pages, requests, failures, retries and cancellations,
\* is a stream of the rows of its result.
THEOREM StatementImplementsStream == Spec => ImplementsStream
  <1>1. Init => Stream!Init
    BY StreamInit
  <1>2. IInv /\ [Next]_vars => [Stream!Next]_(Stream!vars)
    BY StreamStep
  <1>. QED
    BY <1>1, <1>2, StatementInvariant, PTL DEF Spec, ImplementsStream, Stream!Spec

==============================================================================
