CONSTANTS
    DefaultPageSize = 3
    MaxPageSize = 4
    MaxItems = 8
    PageAsked <- Asked
    SizeAsked <- Asked
SPECIFICATION Spec
INVARIANTS
    TypeOK
    NeverEmpty
    EveryItemSeen
PROPERTIES
    WindowsMeet
CHECK_DEADLOCK FALSE
