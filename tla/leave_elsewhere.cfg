\* Leaving a room one is not in, one request at a time.
CONSTANTS
    Users = {u1, u2, u3}
    RoomIds = {r1, r2}
    SharedKeys = {}
    Values = {v}
    PlayerStates = {e}
    EmptyState = e
    Nobody = Nobody
    Unset = Unset
    NoRow = NoRow
    NoRoom = NoRoom
    MaxClock = 0
    Requests = {q1}
    Patches <- NoPatches
SPECIFICATION Spec
PROPERTIES
    LeavingIsConfined
