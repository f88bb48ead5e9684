\* An answer that arrives in a later second than it was computed in.
CONSTANTS
    RoomIds = {r1}
    NoRoom = NoRoom
    Writers = {w1}
    Polls = {p1}
    PerSecond = 2
    Prompt = FALSE
    MaxVersion = 2
    MaxActs = 0
    MaxClock = 6
SPECIFICATION Spec
INVARIANTS
    NotModifiedIsTrue
