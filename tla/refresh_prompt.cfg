\* Answers and commits within the second, two pages, overlapping polls; fair.
CONSTANTS
    RoomIds = {r1, r2}
    NoRoom = NoRoom
    Writers = {w1}
    Polls = {p1, p2}
    PerSecond = 2
    Prompt = TRUE
    MaxVersion = 2
    MaxActs = 1
    MaxClock = 2
SPECIFICATION FairSpec
INVARIANTS
    TypeOK
    NotModifiedIsTrue
PROPERTIES
    
    ViewConverges
