SPECIFICATION FetchLoopSpec
CONSTANTS
    rows = rows
    marked = marked
    count = count
    one = one
    none = none
    Queries <- MCQueries
    Kind <- MCKind
    ParamCount <- MCParamCount
    NoPlan = NoPlan
    NoCursor = NoCursor
    Columns = {c1}
    MaxParam = 0
    MaxTotal = 4
    PageMax = 2
    ArraySizes = {1, 2, 3}
    RowLimits = {0, 3}
PROPERTIES
    
    FetchLoopEnds
