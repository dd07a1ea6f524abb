CONSTANTS
    Base = 4
    IntBytes = 2
    LenBytes = 1
    WordBytes = 2
    TextBytes <- MCTextBytes
    SchemaMagic <- MCSchemaMagic
    Fields <- MCFields
    Values <- MCValues
    Null <- NullValue
    TypeOf <- MCTypeOf
    IntOf <- MCIntOf
    Models <- MCModels
    Schemas <- MCSchemas
    None = None
    Unreadable = Unreadable

SPECIFICATION Spec

INVARIANTS
    TypeOK
    MemoryCoversFile
PROPERTIES
    ImplementsContracts
