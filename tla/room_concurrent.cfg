\* Three requests at a time over two rooms, no room state.
CONSTANTS
    Users = {u1, u2, u3}
    RoomIds = {r1, r2}
    SharedKeys = {}
    Values = {v}
    PlayerStates = {e}
    EmptyState = e
    Nobody = Nobody
    Unset = Unset
    NoRow = NoRow
    NoRoom = NoRoom
    MaxClock = 0
    Requests = {q1, q2, q3}
    Patches <- NoPatches
SYMMETRY Symmetry
SPECIFICATION Spec
INVARIANTS
    ReferencesHold
    HostIsMember
    FrozenHasTurn
    SnapshotHost
PROPERTIES
    OnlyLeaversLeave
    HostDecides
    ImplementsMembership
