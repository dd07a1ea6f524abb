SPECIFICATION Spec
CONSTANTS
    Fields <- MCFields
    Values <- MCValues
    Null = "null"
    TypeOf <- MCTypeOf
    IntOf <- MCIntOf
    MaxRowId = 3
    Torn = Torn
    Corrupt = Corrupt
    None = None
    Unreadable = Unreadable
    Models = {"User", "Order"}
    Schemas <- TwoSchemas
    Inserts <- TwoInserts
    Updates <- TwoUpdates
    Filters <- TwoFilters
    Oversized = {}
    Unencodable = {}
INVARIANTS
    SafetyInv
    CleanImpliesFresh
    UniqueInLog
    FindMatchesLog
    OpenSucceeds
PROPERTIES
    ImplementsStore
    SchemaLocked
    RegisterOkPersists
