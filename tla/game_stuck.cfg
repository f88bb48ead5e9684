\* A host and a guest: the game gets to its first stage and stays there.
CONSTANTS
    Users = {u1, u2}
    RoomIds = {r1}
    SharedKeys = {stage}
    Values = {drawing}
    PlayerStates = {e, drawn}
    EmptyState = e
    Nobody = Nobody
    Unset = Unset
    NoRow = NoRow
    NoRoom = NoRoom
    MaxClock = 0
    Requests = {q1}
    Patches <- GamePatches
    Stage = stage
    Drawing = drawing
    Drawn = drawn
    NoView = NoView
    Crashed = Crashed
SPECIFICATION FairGameSpec
PROPERTY DrawingEndsStage
