SPECIFICATION Spec
CONSTANTS
    rows = rows
    marked = marked
    count = count
    one = one
    none = none
    Queries <- MCQueries
    Kind <- MCKind
    ParamCount <- MCParamCount
    NoPlan = NoPlan
    NoCursor = NoCursor
    Columns = {c1}
    MaxParam = 1
    MaxTotal = 3
    PageMax = 2
    ArraySizes = {0, 1, 2}
    RowLimits = {0, 2}
INVARIANTS
    TypeOK
    CursorMatchesPlan
    RowsetIsLatest
    RowsLostOnlyByFailedBlockFetch
    GetDataBelongsToRow
PROPERTIES
    NoDataMeansExhausted
    CancelEndsOneCursor
    ImplementsStream
