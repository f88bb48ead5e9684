\* Failing and overlapping refreshes, with a page that holds the rooms and a guest.
CONSTANTS
    Users = {me, u2}
    Me = me
    Nobody = Nobody
    NoRoom = NoRoom
    RoomIds = {1}
    Refreshes = {q1, q2}
    DefaultPageSize = 2
    MaxPageSize = 2
SPECIFICATION FairSpec
INVARIANTS
    TypeOK
    ShownRoomsHaveOwners
    
PROPERTIES
    ListIsAllOrNothing
    RoomsAreListed
