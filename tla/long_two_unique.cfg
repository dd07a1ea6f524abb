SPECIFICATION Spec
CONSTANTS
    Fields <- MCFields
    Values <- MCValues
    Null = "null"
    TypeOf <- MCTypeOf
    IntOf <- MCIntOf
    MaxRowId = 4
    Torn = Torn
    Corrupt = Corrupt
    None = None
    Unreadable = Unreadable
    Models = {"User", "Order"}
    Schemas <- TwoSchemas
    Inserts <- LongTwoInserts
    Updates <- LongTwoUpdates
    Filters <- LongTwoFilters
    Oversized = {"long"}
    Unencodable = {"huge"}
INVARIANTS
    UniqueInLog
