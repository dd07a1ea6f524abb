CONSTANTS
    Fields <- MCFields
    Values <- MCValues
    Null = "null"
    TypeOf <- MCTypeOf
    IntOf <- MCIntOf
    Models <- MCModels
    Schemas <- MCSchemas
    Inserts <- MCInserts
    Updates <- MCUpdates
    Filters <- MCFilters
    Alike <- MCAlike
    MaxRows = 3
    None = None
    Torn = Torn

SPECIFICATION Spec

INVARIANTS
    TypeOK
    RowsValid
    UniqueRows
    FileMatchesMemory
