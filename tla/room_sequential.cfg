\* One request at a time: what the handlers guarantee without interleaving.
CONSTANTS
    Users = {u1, u2, u3}
    RoomIds = {r1, r2}
    SharedKeys = {}
    Values = {v}
    PlayerStates = {e}
    EmptyState = e
    Nobody = Nobody
    Unset = Unset
    NoRow = NoRow
    NoRoom = NoRoom
    MaxClock = 1
    Requests = {q1}
    Patches <- OneKeyPatches
SYMMETRY Symmetry
SPECIFICATION Spec
INVARIANTS
    TypeOK
    TurnPlayerIsMember
PROPERTIES
    FrozenRoomClosed
    FreezeIsPermanent
    NonHostsChangeOwnDataOnly
    ChangesAreStamped
