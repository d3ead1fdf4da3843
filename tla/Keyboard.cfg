\* Every kind of key; any call of the BIOS may fail.
SPECIFICATION Spec
CONSTANTS
    m1 = m1
    m2 = m2
    m3 = m3
    m4 = m4
    m118 = m118
    none = none
    text = text
    ModeList <- MCModeList
    Wanted <- MCWanted
    Mode117 = m2
    Mode118 = m118
    Geometry <- MCGeometry
    NoMode = none
    Text = text
    Keys <- KnownKeys
INVARIANTS
    TypeOK
    ModifiersTrackKeys
    NothingSticks
    FlagMatchesDisplay
    DrawsIntoItsMode
    FillExact
PROPERTY TypedAsHeld
