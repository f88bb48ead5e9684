\* Two transactions at a time on the rows of one room and two users.
CONSTANTS
    Users = {u1, u2}
    RoomIds = {r1}
    SharedKeys = {}
    Values = {v}
    PlayerStates = {e, s}
    EmptyState = e
    Nobody = Nobody
    Unset = Unset
    NoRow = NoRow
    NoRoom = NoRoom
    MaxClock = 0
    Txs = {t1, t2}
SPECIFICATION FairSpec
INVARIANTS
    TypeOK
    OrderlyNeverDeadlock
PROPERTIES
    ImplementsRepository
    EveryTransactionEnds
