CONSTANTS
    Base = 4
    IntBytes = 2
    LenBytes = 1
    WordBytes = 2
    TextBytes <- MCTextBytes
    TableMagic <- MCTableMagic
    Fields <- MCFields
    Values <- MCValues
    Null <- NullValue
    TypeOf <- MCTypeOf
    IntOf <- MCIntOf
    MaxRowId = 4
    Torn = Torn
    Corrupt = Corrupt
    Records <- MCRecords
    LegacyFiles <- MCLegacyFiles
    MaxLen = 48

SPECIFICATION Spec

INVARIANTS
    TypeOK
    MemoryMatchesFile
PROPERTIES
    ImplementsTable
