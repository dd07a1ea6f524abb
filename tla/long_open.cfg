SPECIFICATION Spec
CONSTANTS
    Fields <- MCFields
    Values <- MCValues
    Null = "null"
    TypeOf <- MCTypeOf
    IntOf <- MCIntOf
    MaxRowId = 4
    Torn = Torn
    Corrupt = Corrupt
    None = None
    Unreadable = Unreadable
    Models = {"User"}
    Schemas <- FaultSchemas
    Inserts <- LongInserts
    Updates <- LongUpdates
    Filters <- LongFilters
    Oversized = {"long"}
    Unencodable = {"huge"}
INVARIANTS
    OpenSucceeds
