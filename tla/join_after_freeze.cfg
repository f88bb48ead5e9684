\* A join passes its frozen test before the freeze commits.
CONSTANTS
    Users = {u1, u2}
    RoomIds = {r1}
    SharedKeys = {}
    Values = {v}
    PlayerStates = {e}
    EmptyState = e
    Nobody = Nobody
    Unset = Unset
    NoRow = NoRow
    NoRoom = NoRoom
    MaxClock = 0
    Requests = {q1, q2}
    Patches <- NoPatches
SPECIFICATION Spec
PROPERTIES
    FrozenRoomClosed
