------------------------------ MODULE BlockFetch ------------------------------
(***************************************************************************)
(* Bound columns: SQLBindCol, the attributes of the row array, and the     *)
(* part of do_fetch that writes the rows it has taken from the cursor into *)
(* the application's buffers, with their indicators, the row status array  *)
(* and the number of rows.                                                 *)
(*                                                                         *)
(* The application's memory is a function from addresses, which are        *)
(* numbers, to what each byte belongs to; indicators and data have a       *)
(* memory each.  How rows come from the cursor is in Statement.            *)
(***************************************************************************)
EXTENDS Convert

CONSTANTS
    Null,         \* a null value, and a null pointer
    Results,      \* result sets: [columns, rows], a column being [default, scale]
    BoundTo,      \* what SQLBindCol is called with: <<column, binding>>
    MaxColumn,    \* the highest column number that is bound
    MaxArraySize, \* the largest SQL_ATTR_ROW_ARRAY_SIZE, and the length of the row status array
    RowSettings,  \* the row array's settings: [size, bind_type, offset, reporting]
    Addresses,    \* the application's memory
    NumericSize,  \* sizeof(SQL_NUMERIC_STRUCT)
    IndicatorSize,\* sizeof(SQLLEN)
    Builds        \* [long_double, saturates]: what compilers leave open

BY_COLUMN == 0
Unbound == [bound |-> FALSE]

\* C types, columns, and bindings.
CTypes == DOMAIN IntTypes \cup {"CHAR", "NUMERIC"}
Column == [default : CTypes, scale : Nat]
Binding == [bound : {TRUE}, c_type : CTypes \cup {"DEFAULT"}, target : Nat \cup {Null},
            buffer_len : Nat, ind : Nat \cup {Null}]

ASSUME BlockFetchConstants ==
    /\ MaxArraySize \in Nat \ {0} /\ MaxColumn \in Nat /\ Addresses \subseteq Nat
    /\ NumericSize \in Nat \ {0} /\ IndicatorSize \in Nat \ {0}
    /\ DOMAIN IntTypes \cap {"CHAR", "NUMERIC", "DEFAULT"} = {}
    /\ RowSettings \subseteq [size : 1 .. MaxArraySize, bind_type : Nat, offset : Nat, reporting : BOOLEAN]
    /\ BoundTo \subseteq (1 .. MaxColumn) \X Binding
    /\ \A r \in Results :
          /\ r.columns \in Seq(Column) /\ r.rows \in Seq(Seq(Text \cup {Null}))
          /\ \A i \in DOMAIN r.rows : Len(r.rows[i]) = Len(r.columns)
    /\ \A b \in Builds : b.long_double \in Nat /\ b.long_double >= DoubleMax /\ b.saturates \in BOOLEAN

VARIABLES
    result,          \* the open result
    pos,             \* rows the cursor has given
    build,           \* the build of the driver
    cols,            \* Stmt::cols: the bindings
    row_array_size, row_bind_type, row_bind_offset,
    reporting,       \* whether there are a row status array and a rows-fetched pointer
    data,            \* the application's buffers
    inds,            \* its indicators
    row_status, rows_fetched,
    rowset,          \* Stmt::rowset
    rc               \* what the last SQLFetch returned, or "none" after another call

setup == <<cols, row_array_size, row_bind_type, row_bind_offset, reporting>>
memory == <<data, inds, row_status, rows_fetched>>
vars == <<result, pos, build, setup, memory, rowset, rc>>

------------------------------------------------------------------------------
(* One value into one buffer *)

Size(type) ==
    IF type \in DOMAIN IntTypes THEN IntTypes[type].size ELSE IF type = "NUMERIC" THEN NumericSize ELSE 0

TypeOf(k) == IF cols[k].c_type = "DEFAULT" THEN result.columns[k].default ELSE cols[k].c_type

\* Characters of a text.
Length(t) ==
    IF t.kind # "number" THEN 4
    ELSE Len(t.whole) + Len(t.frac) + (IF t.neg THEN 1 ELSE 0) + (IF t.point THEN 1 ELSE 0)
         + (IF t.exp > 0 THEN 2 ELSE 0)

\* (mutant) Forgets that the null at the end takes room too.
PutText_fills(t, len) ==
    LET n == Min({Length(t), len})
    IN  IF len = 0 THEN [rc |-> "INFO", diag |-> "01004", stored |-> FALSE]
        ELSE Stored(n < Length(t), "01004", <<"text", t, n>>, n + 1)

\* A text into a buffer of len characters, one of them for the null at its end.
PutText(t, len) ==
    LET n == Min({Length(t), len - 1})
    IN  IF len = 0 THEN [rc |-> "INFO", diag |-> "01004", stored |-> FALSE]
        ELSE Stored(n < Length(t), "01004", <<"text", t, n>>, n + 1)

\* get_value for a value that is not null.
Converted(k, t) ==
    LET type == TypeOf(k)
    IN  IF type = "CHAR" THEN PutText(t, cols[k].buffer_len)
        ELSE IF type = "NUMERIC" THEN put_numeric(t, result.columns[k].scale, NumericSize)
        ELSE put_int(t, type, build)

\* get_value without a GetDataState.
get_value(k, v) ==
    IF v = Null
      THEN IF cols[k].ind = Null THEN Failed("22002")
           ELSE [rc |-> "SUCCESS", diag |-> "00000", stored |-> FALSE]
    ELSE Converted(k, v)

\* What the indicator of a value that was converted says.
Indicator(k, v) ==
    IF v = Null THEN <<"null">>
    ELSE IF TypeOf(k) = "CHAR" THEN <<"length", Length(v)>> ELSE <<"length", Size(TypeOf(k))>>

------------------------------------------------------------------------------
(* A rowset into the buffers *)

\* The distance from the value, or the indicator, of one row to that of the next.
elem(k) ==
    IF row_bind_type # BY_COLUMN THEN row_bind_type
    ELSE IF Size(TypeOf(k)) # 0 THEN Size(TypeOf(k)) ELSE cols[k].buffer_len
ind_elem == IF row_bind_type # BY_COLUMN THEN row_bind_type ELSE IndicatorSize

Target(k, i) == cols[k].target + row_bind_offset + (i - 1) * elem(k)
IndTarget(k, i) == cols[k].ind + row_bind_offset + (i - 1) * ind_elem

\* The columns that are bound and exist.
Written == {k \in DOMAIN cols : cols[k].bound /\ k <= Len(result.columns)}

\* The rows go into the buffers one after the other, and the columns of each row: the last of
\* these writes.
LastOf(writes) == CHOOSE w \in writes : \A o \in writes : o.row < w.row \/ (o.row = w.row /\ o.column <= w.column)

\* Memory after these writes, each of the size bytes of a content from an address on.
Overwritten(mem, writes) ==
    [a \in DOMAIN mem |->
        LET here == {w \in writes : a \in w.at .. w.at + w.size - 1}
            last == LastOf(here)
        IN  IF here = {} THEN mem[a] ELSE <<last.content, a - last.at>>]

AWrite(i, k, at, content, size) == [row |-> i, column |-> k, at |-> at, content |-> content, size |-> size]

\* What goes into the buffers: the values, where there is one and a buffer for it.
DataWrites(rows) ==
    LET out(c) == get_value(c[2], rows[c[1]][c[2]])
        put == {c \in (DOMAIN rows) \X Written : cols[c[2]].target # Null /\ out(c).stored}
    IN  {AWrite(c[1], c[2], Target(c[2], c[1]), out(c).content, out(c).size) : c \in put}

\* And the indicators of the values that could be converted.
IndWrites(rows) ==
    LET put == {c \in (DOMAIN rows) \X Written : /\ cols[c[2]].ind # Null
                                               /\ get_value(c[2], rows[c[1]][c[2]]).rc # "ERROR"}
    IN  {AWrite(c[1], c[2], IndTarget(c[2], c[1]), Indicator(c[2], rows[c[1]][c[2]]), IndicatorSize) : c \in put}

\* The worst of a row's columns.
RowStatus(row) ==
    LET rcs == {get_value(k, row[k]).rc : k \in Written}
    IN  IF "ERROR" \in rcs THEN "ERROR" ELSE IF "INFO" \in rcs THEN "INFO" ELSE "SUCCESS"

\* An error of the only row is an error of the call.
Summary(statuses) ==
    IF statuses = <<"ERROR">> THEN "ERROR"
    ELSE IF \E i \in DOMAIN statuses : statuses[i] # "SUCCESS" THEN "INFO" ELSE "SUCCESS"

------------------------------------------------------------------------------
(* The calls *)

\* (mutant) Entries behind the last row keep what the fetch before left in them.
Statuses_kept(rows) ==
    [i \in DOMAIN row_status |->
        IF i \in DOMAIN rows THEN RowStatus(rows[i]) ELSE row_status[i]]

\* The row status array after a fetch.
Statuses(rows) ==
    [i \in DOMAIN row_status |->
        IF i \in DOMAIN rows THEN RowStatus(rows[i])
        ELSE IF i <= row_array_size THEN "NOROW" ELSE row_status[i]]

\* (mutant) A fetch at the end moves on by a full array.
Given_array(rows) == pos + row_array_size

\* The cursor's position after a fetch.
Given(rows) == pos + Len(rows)

\* SQLFetch, SQLFetchScroll.
Fetch ==
    LET rows == SubSeq(result.rows, pos + 1, Min({pos + row_array_size, Len(result.rows)}))
    IN  /\ rowset' = rows
        /\ pos' = Given(rows)
        /\ data' = Overwritten(data, DataWrites(rows))
        /\ inds' = Overwritten(inds, IndWrites(rows))
        /\ rows_fetched' = (IF reporting THEN Len(rows) ELSE rows_fetched)
        /\ row_status' = (IF reporting THEN Statuses(rows) ELSE row_status)
        /\ rc' = (IF rows = <<>> THEN "NO_DATA" ELSE Summary([i \in DOMAIN rows |-> RowStatus(rows[i])]))
        /\ UNCHANGED <<result, build, setup>>

\* Between two fetches the application looks at its buffers and clears them.
Blank == [a \in Addresses |-> <<"free">>]
Cleared ==
    /\ data' = Blank /\ inds' = Blank /\ row_status' = [i \in DOMAIN row_status |-> "unset"]
    /\ rows_fetched' = 0
    /\ rc' = "none"
    /\ UNCHANGED <<result, pos, build, rowset>>

\* SQLBindCol.  Without a buffer and an indicator the column is unbound.
BindCol(k, b) ==
    /\ cols' = [cols EXCEPT ![k] = IF b.target = Null /\ b.ind = Null THEN Unbound ELSE b]
    /\ UNCHANGED <<row_array_size, row_bind_type, row_bind_offset, reporting>>
    /\ Cleared

\* SQLFreeStmt(SQL_UNBIND).
Unbind ==
    /\ cols' = [k \in DOMAIN cols |-> Unbound]
    /\ UNCHANGED <<row_array_size, row_bind_type, row_bind_offset, reporting>>
    /\ Cleared

\* SQLSetStmtAttr of the attributes that say how many rows go where, and of the pointers to
\* the row status array and the number of rows.
SetRows(r) ==
    /\ row_array_size' = r.size
    /\ row_bind_type' = r.bind_type
    /\ row_bind_offset' = r.offset
    /\ reporting' = r.reporting
    /\ UNCHANGED cols
    /\ Cleared

Init ==
    /\ result \in Results
    /\ build \in Builds
    /\ pos = 0
    /\ cols = [k \in 1 .. MaxColumn |-> Unbound]
    /\ row_array_size = 1 /\ row_bind_type = BY_COLUMN /\ row_bind_offset = 0
    /\ reporting = FALSE
    /\ data = Blank /\ inds = Blank
    /\ row_status = [i \in 1 .. MaxArraySize |-> "unset"]
    /\ rows_fetched = 0
    /\ rowset = <<>>
    /\ rc = "none"

Next ==
    \/ Fetch
    \/ \E kb \in BoundTo : BindCol(kb[1], kb[2])
    \/ Unbind
    \/ \E r \in RowSettings : SetRows(r)

Spec == Init /\ [][Next]_vars

------------------------------------------------------------------------------
(* What a fetch should have left in the buffers, from the exact values *)

Fetched == rc # "none"
HasColumn(k) == cols[k].bound /\ k \in DOMAIN result.columns
Read == {k \in DOMAIN cols : HasColumn(k)}

\* Where the application looks for row i of column k, given the size of an element.
Place(base, i, size) ==
    base + row_bind_offset + (IF row_bind_type = BY_COLUMN THEN size ELSE row_bind_type) * (i - 1)
CellSize(k) == IF TypeOf(k) = "CHAR" THEN cols[k].buffer_len ELSE Size(TypeOf(k))
CellPlace(k, i) == Place(cols[k].target, i, CellSize(k))
IndPlace(k, i) == Place(cols[k].ind, i, IndicatorSize)

\* The application has laid out its buffers so that they are in its memory and no two cells
\* that the fetch writes share a byte.
Apart(a, m, b, n) == a + m <= b \/ b + n <= a
CellsAreApart ==
    \A i, j \in DOMAIN rowset, k, l \in Read :
        /\ cols[k].target # Null =>
              CellPlace(k, i) .. CellPlace(k, i) + CellSize(k) - 1 \subseteq Addresses
        /\ cols[k].ind # Null => IndPlace(k, i) .. IndPlace(k, i) + IndicatorSize - 1 \subseteq Addresses
        /\ <<i, k>> # <<j, l>> =>
              /\ cols[k].target # Null /\ cols[l].target # Null =>
                    Apart(CellPlace(k, i), CellSize(k), CellPlace(l, j), CellSize(l))
              /\ cols[k].ind # Null /\ cols[l].ind # Null =>
                    Apart(IndPlace(k, i), IndicatorSize, IndPlace(l, j), IndicatorSize)

\* Values that the floating types of the build carry: all but large ones with a point or an
\* exponent, or on builds whose long double is not wider than a double.
Carried(t) ==
    \/ Magnitude(WholePart(t)) <= DoubleMax
    \/ parse_ll(t) /\ LongLongMax < build.long_double

CanHold(k, t) ==
    CASE TypeOf(k) \in DOMAIN IntTypes ->
           IsNumber(t) /\ WholePart(t) \in IntTypes[TypeOf(k)].lo .. IntTypes[TypeOf(k)].hi
      [] TypeOf(k) = "NUMERIC" ->
           LET scale == result.columns[k].scale
           IN  IsNumber(t) /\ Fits(IF HasExponent(t) THEN Rounded(t, scale) ELSE Scaled(t, scale))
      [] OTHER -> TRUE

\* Whether the type cuts something off, and says so.
Cuts(k, t) ==
    CASE TypeOf(k) \in DOMAIN IntTypes -> HasFraction(t)
      [] TypeOf(k) = "NUMERIC" -> ~HasExponent(t) /\ ~IsScaled(t, result.columns[k].scale)
      [] OTHER -> Length(t) >= cols[k].buffer_len

\* The cell has this content from its first byte to its last.
Holds(k, i, content, size) ==
    \A x \in 0 .. size - 1 : data[CellPlace(k, i) + x] = <<content, x>>

CellIs(k, i, t) ==
    CASE TypeOf(k) \in DOMAIN IntTypes -> Holds(k, i, <<"int", WholePart(t)>>, CellSize(k))
      [] TypeOf(k) = "NUMERIC" ->
           LET content == data[CellPlace(k, i)][1]
           IN  /\ content[1] = "numeric" /\ IsTheNumber(content[2], t, result.columns[k].scale)
               /\ Holds(k, i, content, CellSize(k))
      [] OTHER ->
           \E n \in 0 .. Length(t) :
              /\ n = Length(t) \/ n + 1 = cols[k].buffer_len
              /\ cols[k].buffer_len > 0 => Holds(k, i, <<"text", t, n>>, n + 1)

\* The cell has what its type can hold of the value, and the indicator a null.
CellHolds(k, i, v) ==
    /\ v # Null /\ cols[k].target # Null /\ Carried(v) /\ CanHold(k, v) => CellIs(k, i, v)
    /\ v = Null /\ cols[k].ind # Null =>
         \A x \in 0 .. IndicatorSize - 1 : inds[IndPlace(k, i) + x] = <<<<"null">>, x>>

\* A row's status, from its values.
StatusOf(row) ==
    LET fails(k) == IF row[k] = Null THEN cols[k].ind = Null ELSE ~CanHold(k, row[k])
        cuts(k) == row[k] # Null /\ Cuts(k, row[k])
    IN  IF \E k \in Read : fails(k) THEN "ERROR"
        ELSE IF \E k \in Read : cuts(k) THEN "INFO" ELSE "SUCCESS"
RowIs(i) == StatusOf(rowset[i])

AllCarried == \A i \in DOMAIN rowset : \A k \in DOMAIN rowset[i] : rowset[i][k] # Null => Carried(rowset[i][k])

------------------------------------------------------------------------------
(* Properties *)

TypeOK ==
    /\ result \in Results /\ build \in Builds
    /\ pos \in 0 .. Len(result.rows)
    /\ DOMAIN cols = 1 .. MaxColumn
    /\ \A k \in DOMAIN cols : cols[k] = Unbound \/ <<k, cols[k]>> \in BoundTo
    /\ DOMAIN row_status = 1 .. MaxArraySize
    /\ rowset \in Seq(Seq(Text \cup {Null})) /\ Len(rowset) <= MaxArraySize
    /\ row_array_size \in 1 .. MaxArraySize /\ row_bind_type \in Nat
    /\ row_bind_offset \in Nat /\ reporting \in BOOLEAN
    /\ DOMAIN data = Addresses /\ DOMAIN inds = Addresses
    /\ rows_fetched \in 0 .. MaxArraySize
    /\ rc \in {"none", "SUCCESS", "INFO", "ERROR", "NO_DATA"}

\* Each bound cell of the rows fetched holds its own value, as much of it as the type can hold,
\* also when another cell of the row or another row could not be converted, and its
\* indicator says when it is null.
CellsHoldTheirValues ==
    Fetched /\ CellsAreApart => \A i \in DOMAIN rowset, k \in Read : CellHolds(k, i, rowset[i][k])

\* The row status array tells the rows that failed, the rows that lost something and the rows
\* there are from each other, and the return code sums it up.
StatusTellsTheRows ==
    Fetched /\ AllCarried =>
        /\ reporting =>
             /\ rows_fetched = Len(rowset)
             /\ \A i \in 1 .. row_array_size :
                   row_status[i] = IF i > Len(rowset) THEN "NOROW" ELSE RowIs(i)
        /\ (rc = "NO_DATA") = (rowset = <<>>)
        /\ (rc = "SUCCESS") = (rowset # <<>> /\ \A i \in DOMAIN rowset : RowIs(i) = "SUCCESS")
        /\ (rc = "ERROR") = (Len(rowset) = 1 /\ RowIs(1) = "ERROR")

\* A fetch writes nothing but the cells of the rows it returns: not the rest of the array, not
\* the cells of columns the result does not have.
WritesOnlyItsCells ==
    [][rc' # "none" =>
        \A a \in Addresses : data'[a] # data[a] =>
            \E i \in DOMAIN rowset', k \in Read :
                /\ cols[k].target # Null
                /\ a \in CellPlace(k, i) .. CellPlace(k, i) + CellSize(k) - 1]_vars

\* convert.cpp:49 "Exact 64-bit integer parse where possible (avoids double rounding for large
\* ids/counts)": an integer that parse_ll accepts is stored as it is.
IntegersAreExact ==
    Fetched => \A i \in DOMAIN rowset, k \in Read :
        LET v == rowset[i][k]
        IN  v # Null /\ cols[k].target # Null /\ TypeOf(k) \in DOMAIN IntTypes /\ parse_ll(v) /\ CanHold(k, v)
              => CellIs(k, i, v)
==============================================================================
