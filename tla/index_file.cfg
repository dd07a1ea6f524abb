CONSTANTS
    Base = 4
    IntBytes = 1
    Values <- MCValues
    RowIds <- MCRowIds
    NoMap = NoMap
    PageSize = 36
    PageHeader = 13
    HeaderLen = 36
    Saves <- MCSaves

SPECIFICATION Spec

INVARIANTS
    TypeOK
    LookupMatchesLoad
    IntegersInOrder
PROPERTIES
    LevelsShrink
    ImplementsCell
