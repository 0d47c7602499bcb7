SPECIFICATION Spec
CONSTANTS
    Columns = {"Id", "A", "B"}
    Null = Null
    Deepest = 11
    Numerals <- MCNumerals
    Fields <- MCFields
    Table <- MCTable
    Bindings <- MCBindings
    RowLimits = {0, 2}
    Statements <- MCStatements
INVARIANTS
    ParsesWhatIsMeant
    RejectsUnsupported
    EveryMarkerHasSlot
    
