SPECIFICATION FairSpec
CONSTANTS
    Fields <- MCFields
    Values <- MCValues
    Null = "null"
    TypeOf <- MCTypeOf
    IntOf <- MCIntOf
    MaxRowId = 4
    Torn = Torn
    Corrupt = Corrupt
    None = None
    Unreadable = Unreadable
    Models = {"User"}
    Schemas <- OneSchemas
    Inserts <- OneInserts
    Updates <- OneUpdates
    Filters <- OneFilters
    Oversized = {}
    Unencodable = {}
INVARIANTS
    TypeOK
    CleanImpliesFresh
    FindMatchesLog
    MemoryMatchesLog
    LogReplays
    StoredRowsValid
PROPERTIES
    ImplementsStore
    CallsReturn
