SPECIFICATION Spec
CONSTANTS
    LongLongMax = 2047
    DoubleMax = 1024
    ByteBase = 64
    Bytes = 2
    IntTypes <- MCIntTypes
    Null = Null
    Results <- MCResults
    BoundTo <- MCBoundTo
    MaxColumn = 3
    MaxArraySize = 2
    RowSettings <- MCRowSettings
    Addresses <- MCAddresses
    NumericSize = 5
    IndicatorSize = 2
    Builds <- MCBuilds
INVARIANTS
    TypeOK
    CellsHoldTheirValues
    StatusTellsTheRows
PROPERTIES
    WritesOnlyItsCells
