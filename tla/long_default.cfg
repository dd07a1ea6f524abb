SPECIFICATION Spec
CONSTANTS
    Fields <- MCFields
    Values <- MCValues
    Null = "null"
    TypeOf <- MCTypeOf
    IntOf <- MCIntOf
    MaxRowId = 3
    Torn = Torn
    Corrupt = Corrupt
    None = None
    Unreadable = Unreadable
    Models = {"User"}
    Schemas <- FaultSchemas
    Inserts <- FaultInserts
    Updates <- FaultUpdates
    Filters <- FaultFilters
    Oversized = {}
    Unencodable = {"huge"}
INVARIANTS
    LogReplays
