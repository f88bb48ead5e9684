\* Two players, a room, two calls at a time.
CONSTANTS
    Users = {u1, u2}
    RoomIds = {r1}
    SharedKeys = {stage}
    Values = {drawing}
    PlayerStates = {e, drawn}
    EmptyState = e
    Nobody = Nobody
    Unset = Unset
    NoRow = NoRow
    NoRoom = NoRoom
    MaxClock = 0
    Requests = {q1, q2}
    Patches <- GamePatches
    Stage = stage
    Drawing = drawing
    Drawn = drawn
    NoView = NoView
    Crashed = Crashed
SPECIFICATION GameSpec
SYMMETRY Symmetry
INVARIANTS
    GameTypeOK
    StartedGamesHaveStage
    LeaversAreLetGo
PROPERTIES
    
    GameFreezeIsPermanent
