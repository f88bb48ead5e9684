------------------------- MODULE RoomServiceProofs -------------------------
(***************************************************************************)
(* Proofs about the room service for every set of users, rooms and         *)
(* requests.                                                               *)
(***************************************************************************)
EXTENDS RoomMembership, TLAPS

\* The assumptions of the modules, together.
LEMMA Sentinels ==
    /\ Nobody \notin Users
    /\ Unset \notin Values
    /\ NoRow \notin RoomRows
    /\ NoRow \notin PlayerRows
    /\ NoRoom \notin RoomIds
    /\ EmptyState \in PlayerStates
    /\ MaxClock \in Nat
BY SentinelAssumption, DataAssumption, ServiceAssumption

-----------------------------------------------------------------------------
(* Type correctness.                                                       *)

\* The part of TypeOK that is about the tables.
TablesOK ==
    /\ room \in [RoomIds -> RoomRows \cup {NoRow}]
    /\ player \in [Users -> PlayerRows \cup {NoRow}]

\* A row that is stamped is still a row.
LEMMA StampedType ==
    ASSUME room \in [RoomIds -> RoomRows \cup {NoRow}], clock \in Nat, NEW r \in RoomIds
    PROVE  Stamped(room, r) \in [RoomIds -> RoomRows \cup {NoRow}]
BY DEF Stamped, RoomRows

LEMMA CreateType ==
    ASSUME TablesOK, clock \in Nat, NEW r \in RoomIds, NEW u \in Users, Create(r, u)
    PROVE  TablesOK'
BY Sentinels DEF TablesOK, Create, RoomRows, PlayerRows, EmptyRoomState, RoomStates

LEMMA UpdateType ==
    ASSUME TablesOK, clock \in Nat, NEW r \in RoomIds, NEW row \in RoomRows, Update(r, row)
    PROVE  TablesOK'
BY DEF TablesOK, Update, RoomRows

LEMMA DeleteType ==
    ASSUME TablesOK, NEW r \in RoomIds, Delete(r)
    PROVE  TablesOK'
BY DEF TablesOK, Delete

LEMMA AddPlayerType ==
    ASSUME TablesOK, clock \in Nat, NEW r \in RoomIds, NEW u \in Users, AddPlayer(r, u)
    PROVE  TablesOK'
BY Sentinels, StampedType DEF TablesOK, AddPlayer, PlayerRows

LEMMA RemovePlayerType ==
    ASSUME TablesOK, clock \in Nat, NEW r \in RoomIds, NEW u \in Users, RemovePlayer(r, u)
    PROVE  TablesOK'
BY StampedType DEF TablesOK, RemovePlayer

LEMMA SetPlayerStateType ==
    ASSUME TablesOK, clock \in Nat, NEW r \in RoomIds, NEW u \in Users,
           NEW s \in PlayerStates, SetPlayerState(r, u, s)
    PROVE  TablesOK'
BY StampedType DEF TablesOK, SetPlayerState, PlayerRows, InRoom

\* A request that goes on, and a request that is answered, is a request.
LEMMA GotoType ==
    ASSUME req \in [Requests -> RequestRecords], NEW q \in Requests, NEW u \in Users,
           NEW pc, NEW r, NEW row, Goto(q, pc, u, r, row),
           \/ pc = "CreateInsert" /\ r = NoRoom /\ row = NoRow
           \/ /\ pc \in {"CreateReread", "AddGet", "AddInsert", "LeaveGet",
                         "DeleteGet", "Delete", "Remove"}
              /\ r \in RoomIds /\ row = NoRow
           \/ pc = "Update" /\ r \in RoomIds /\ row \in RoomRows
    PROVE  req' \in [Requests -> RequestRecords]
<1>1. [pc |-> pc, user |-> u, id |-> r, row |-> row] \in RequestRecords
    BY DEF RequestRecords
<1>2. QED BY <1>1 DEF Goto

LEMMA AnswerType ==
    ASSUME req \in [Requests -> RequestRecords], NEW q \in Requests, Answer(q)
    PROVE  req' \in [Requests -> RequestRecords]
BY DEF Answer, RequestRecords

\* An answered request is idle, and no other request is moved.
LEMMA AnswerMoves ==
    ASSUME TypeOK, NEW q \in Requests, Answer(q)
    PROVE  req'[q] = Idle /\ \A p \in Requests \ {q} : req'[p] = req[p]
BY DEF TypeOK, Answer

\* What a request that is not idle holds, by its next call.
LEMMA HeldByRequest ==
    ASSUME req \in [Requests -> RequestRecords], NEW q \in Requests
    PROVE  /\ At(q, "CreateInsert") => req[q].user \in Users
           /\ req[q].pc \in {"CreateReread", "AddGet", "AddInsert", "LeaveGet",
                             "DeleteGet", "Delete", "Remove", "Update"}
              => req[q].user \in Users /\ req[q].id \in RoomIds
           /\ At(q, "Update") => req[q].row \in RoomRows
           /\ req[q].pc \in {"Idle", "CreateInsert", "CreateReread", "AddGet", "AddInsert",
                             "LeaveGet", "DeleteGet", "Delete", "Remove", "Update"}
           /\ req[q] \in RequestRecords
<1>1. req[q] \in RequestRecords
    OBVIOUS
<1>2. QED BY <1>1 DEF RequestRecords, At, Idle

\* Every step of a request keeps the types.
LEMMA RoomStepType ==
    ASSUME TypeOK, NEW q \in Requests, RoomStep(q)
    PROVE  TypeOK'
<1> USE DEF TypeOK
<1>0. TablesOK
    BY DEF TablesOK
<1>1. ASSUME NEW u \in Users, CreateFind(q, u) PROVE TypeOK'
    BY <1>1, GotoType DEF CreateFind
<1>2. ASSUME NEW u \in Users, LeaveAllFind(q, u) PROVE TypeOK'
    <2>1. player[u].room \in RoomIds
        BY <1>2 DEF LeaveAllFind, Placed, PlayerRows
    <2>2. QED BY <1>2, <2>1, GotoType DEF LeaveAllFind
<1>3. ASSUME NEW r \in RoomIds, CreateInsert(q, r) PROVE TypeOK'
    <2>1. req[q].user \in Users
        BY <1>3, HeldByRequest DEF CreateInsert
    <2>2. TablesOK'
        BY <1>0, <1>3, <2>1, CreateType DEF CreateInsert
    <2>3. req' \in [Requests -> RequestRecords]
        BY <1>3, <2>1, GotoType DEF CreateInsert
    <2>4. QED BY <1>3, <2>2, <2>3 DEF CreateInsert, Create, TablesOK
<1>4. ASSUME NEW r \in RoomIds, CreateRefused(q, r) PROVE TypeOK'
    BY <1>4, AnswerType DEF CreateRefused
<1>5. ASSUME NEW u \in Users, NEW r \in RoomIds, JoinGet(q, u, r) PROVE TypeOK'
    BY <1>5, GotoType DEF JoinGet
<1>6. ASSUME NEW u \in Users, NEW r \in RoomIds, FreezeGet(q, u, r) PROVE TypeOK'
    <2>1. [room[r] EXCEPT !.frozen = TRUE, !.turn = u] \in RoomRows
        BY <1>6 DEF FreezeGet, Exists, RoomRows
    <2>2. QED BY <1>6, <2>1, GotoType DEF FreezeGet
<1>7. ASSUME NEW u \in Users, NEW r \in RoomIds, LeaveRoomGet(q, u, r) PROVE TypeOK'
    BY <1>7, GotoType DEF LeaveRoomGet, Leave
<1>8. ASSUME NEW u \in Users, NEW r \in RoomIds, NEW patch \in Patches,
             SetStateGet(q, u, r, patch)
      PROVE  TypeOK'
    <2>1. patch \in RoomStates
        BY ServiceAssumption
    <2>2. room[r] \in RoomRows
        BY <1>8 DEF SetStateGet, Exists
    <2>3. Merge(room[r].state, patch, Settable(u, r)) \in RoomStates
        BY <2>1, <2>2 DEF Merge, RoomStates, RoomRows
    <2>4. [room[r] EXCEPT !.state = Merge(@, patch, Settable(u, r))] \in RoomRows
        BY <2>2, <2>3 DEF RoomRows
    <2>5. QED BY <1>8, <2>4, GotoType DEF SetStateGet
<1>9. ASSUME NEW u \in Users, NEW v \in Users, NEW r \in RoomIds,
             ChangeTurnGet(q, u, r, v)
      PROVE  TypeOK'
    <2>1. [room[r] EXCEPT !.turn = v] \in RoomRows
        BY <1>9 DEF ChangeTurnGet, Exists, RoomRows
    <2>2. QED BY <1>9, <2>1, GotoType DEF ChangeTurnGet
<1>10. ASSUME NEW u \in Users, NEW r \in RoomIds, NEW s \in PlayerStates,
              PutPlayerState(q, u, r, s)
       PROVE  TypeOK'
    <2>1. TablesOK'
        BY <1>0, <1>10, SetPlayerStateType DEF PutPlayerState
    <2>2. QED BY <1>10, <2>1 DEF PutPlayerState, SetPlayerState, TablesOK
<1>11. ASSUME CreateReread(q) PROVE TypeOK'
    BY <1>11, AnswerType DEF CreateReread
<1>12. ASSUME AddGet(q) PROVE TypeOK'
    <2>1. req[q].user \in Users /\ req[q].id \in RoomIds
        BY <1>12, HeldByRequest DEF AddGet, At
    <2>2. req' \in [Requests -> RequestRecords]
        BY <1>12, <2>1, GotoType, AnswerType DEF AddGet
    <2>3. QED BY <1>12, <2>2 DEF AddGet
<1>13. ASSUME AddInsert(q) PROVE TypeOK'
    <2>1. req[q].user \in Users /\ req[q].id \in RoomIds
        BY <1>13, HeldByRequest DEF AddInsert, At
    <2>2. TablesOK' /\ clock' = clock
        BY <1>0, <1>13, <2>1, AddPlayerType DEF AddInsert, AddPlayer, TablesOK
    <2>3. QED BY <1>13, <2>2, AnswerType DEF AddInsert, TablesOK
<1>14. ASSUME WriteRoom(q) PROVE TypeOK'
    <2>1. req[q].row \in RoomRows /\ req[q].id \in RoomIds
        BY <1>14, HeldByRequest DEF WriteRoom, At
    <2>2. TablesOK' /\ clock' = clock
        BY <1>0, <1>14, <2>1, UpdateType DEF WriteRoom, Update, TablesOK
    <2>3. QED BY <1>14, <2>2, AnswerType DEF WriteRoom, TablesOK
<1>15. ASSUME LeaveAllGet(q) PROVE TypeOK'
    <2>1. req[q].user \in Users /\ req[q].id \in RoomIds
        BY <1>15, HeldByRequest DEF LeaveAllGet, At
    <2>2. QED BY <1>15, <2>1, GotoType DEF LeaveAllGet, Leave
<1>16. ASSUME LeaveAllGone(q) PROVE TypeOK'
    BY <1>16, AnswerType DEF LeaveAllGone
<1>17. ASSUME DeleteGet(q) PROVE TypeOK'
    <2>1. req[q].user \in Users /\ req[q].id \in RoomIds
        BY <1>17, HeldByRequest DEF DeleteGet, At
    <2>2. req' \in [Requests -> RequestRecords]
        BY <1>17, <2>1, GotoType, AnswerType DEF DeleteGet
    <2>3. QED BY <1>17, <2>2 DEF DeleteGet
<1>18. ASSUME DeleteRoom(q) PROVE TypeOK'
    <2>1. req[q].id \in RoomIds
        BY <1>18, HeldByRequest DEF DeleteRoom, At
    <2>2. TablesOK' /\ clock' = clock
        BY <1>0, <1>18, <2>1, DeleteType DEF DeleteRoom, Delete, TablesOK
    <2>3. QED BY <1>18, <2>2, AnswerType DEF DeleteRoom, TablesOK
<1>19. ASSUME Remove(q) PROVE TypeOK'
    <2>1. req[q].user \in Users /\ req[q].id \in RoomIds
        BY <1>19, HeldByRequest DEF Remove, At
    <2>2. TablesOK' /\ clock' = clock
        BY <1>0, <1>19, <2>1, RemovePlayerType DEF Remove, RemovePlayer, TablesOK
    <2>3. QED BY <1>19, <2>2, AnswerType DEF Remove, TablesOK
<1>20. ASSUME Cancel(q) PROVE TypeOK'
    BY <1>20, AnswerType DEF Cancel
<1>21. QED
    BY <1>1, <1>2, <1>3, <1>4, <1>5, <1>6, <1>7, <1>8, <1>9, <1>10, <1>11, <1>12,
       <1>13, <1>14, <1>15, <1>16, <1>17, <1>18, <1>19, <1>20
    DEF RoomStep

\* The rows and the requests in progress always have the shape of the
\* tables and of the calls.
THEOREM TypeCorrect == Spec => []TypeOK
<1>1. Init => TypeOK
    BY DEF Init, RepositoryInit, TypeOK, RequestRecords
<1>2. TypeOK /\ [Next]_vars => TypeOK'
    <2> SUFFICES ASSUME TypeOK, [Next]_vars PROVE TypeOK'
        OBVIOUS
    <2>1. CASE PassTime
        BY <2>1 DEF PassTime, Tick, tables, TypeOK
    <2>2. ASSUME NEW q \in Requests, RoomStep(q) PROVE TypeOK'
        BY <2>2, RoomStepType
    <2>3. CASE UNCHANGED vars
        BY <2>3 DEF vars, TypeOK
    <2>4. QED BY <2>1, <2>2, <2>3 DEF Next
<1>3. QED BY <1>1, <1>2, PTL DEF Spec

-----------------------------------------------------------------------------
(* The foreign keys, the host's membership and the snapshots.              *)

\* The inductive invariant.  That the host is a member survives a write of
\* an old snapshot only because the snapshot agrees on the host, and that
\* the snapshots agree survives because a host stays for a room's life.
IInv ==
    /\ TypeOK
    /\ PlayersHaveRooms
    /\ HostIsMember
    /\ TurnPlayerExists
    /\ FrozenHasTurn
    /\ SnapshotHost

\* The conjuncts that only depend on the tables.
TablesInv == PlayersHaveRooms /\ HostIsMember /\ TurnPlayerExists

\* The rows of table room that are frozen have a turn player.
FrozenRows == \A r \in RoomIds : Exists(r) /\ room[r].frozen => room[r].turn # Nobody

\* No room that stays changes hands.
SameHosts == \A r \in RoomIds : Exists(r) /\ Exists(r)' => room'[r].owner = room[r].owner

\* Stamping changes nothing but updated_at.
LEMMA StampedOwner ==
    ASSUME TablesOK, clock \in Nat, NEW r \in RoomIds, NEW s \in RoomIds
    PROVE  /\ Stamped(room, r)[s] = NoRow <=> room[s] = NoRow
           /\ room[s] # NoRow =>
                 /\ Stamped(room, r)[s].owner = room[s].owner
                 /\ Stamped(room, r)[s].turn = room[s].turn
                 /\ Stamped(room, r)[s].frozen = room[s].frozen
BY Sentinels DEF Stamped, RoomRows, TablesOK

LEMMA CreateKeeps ==
    ASSUME TypeOK, TablesInv, FrozenRows, NEW r \in RoomIds, NEW u \in Users,
           CreateAllowed(r, u), Create(r, u)
    PROVE  TablesInv' /\ FrozenRows' /\ SameHosts
<1> USE Sentinels DEF TypeOK, Exists, Placed, InRoom, Create, CreateAllowed
<1>0. /\ room'[r] = [owner |-> u, turn |-> Nobody, frozen |-> FALSE,
                    state |-> EmptyRoomState, updated |-> clock]
      /\ room'[r] # NoRow
      /\ \A s \in RoomIds \ {r} : room'[s] = room[s]
      /\ player'[u] = [room |-> r, state |-> EmptyState]
      /\ player'[u] # NoRow
      /\ \A v \in Users \ {u} : player'[v] = player[v]
    <2>1. [owner |-> u, turn |-> Nobody, frozen |-> FALSE,
           state |-> EmptyRoomState, updated |-> clock] \in RoomRows
        BY DEF RoomRows, RoomStates, EmptyRoomState
    <2>2. [room |-> r, state |-> EmptyState] \in PlayerRows
        BY DEF PlayerRows
    <2>3. QED BY <2>1, <2>2
<1>1. PlayersHaveRooms'
    BY <1>0 DEF TablesInv, PlayersHaveRooms, PlayerRows
<1>2. HostIsMember'
    BY <1>0 DEF TablesInv, HostIsMember, RoomRows
<1>3. TurnPlayerExists'
    BY <1>0 DEF TablesInv, TurnPlayerExists, RoomRows
<1>4. FrozenRows'
    BY <1>0 DEF FrozenRows
<1>5. SameHosts
    BY <1>0 DEF SameHosts
<1>6. QED BY <1>1, <1>2, <1>3, <1>4, <1>5 DEF TablesInv

LEMMA UpdateKeeps ==
    ASSUME TypeOK, TablesInv, FrozenRows, NEW r \in RoomIds, NEW row \in RoomRows,
           Exists(r) => row.owner = room[r].owner,
           row.frozen => row.turn # Nobody,
           UpdateAllowed(r, row), Update(r, row)
    PROVE  TablesInv' /\ FrozenRows' /\ SameHosts
<1> USE Sentinels DEF TypeOK, Exists, Placed, InRoom, Update, UpdateAllowed
<1>0. CASE Exists(r)
    <2>0. /\ room'[r].owner = room[r].owner
          /\ room'[r].turn = row.turn
          /\ room'[r].frozen = row.frozen
          /\ room'[r] # NoRow
          /\ \A s \in RoomIds \ {r} : room'[s] = room[s]
          /\ player' = player
        <3>1. [row EXCEPT !.updated = clock] \in RoomRows
            BY DEF RoomRows
        <3>2. QED BY <1>0, <3>1 DEF RoomRows
    <2>1. PlayersHaveRooms'
        BY <2>0 DEF TablesInv, PlayersHaveRooms
    <2>2. HostIsMember'
        BY <1>0, <2>0 DEF TablesInv, HostIsMember
    <2>3. TurnPlayerExists'
        BY <1>0, <2>0 DEF TablesInv, TurnPlayerExists
    <2>4. FrozenRows'
        BY <2>0 DEF FrozenRows
    <2>5. SameHosts
        BY <2>0 DEF SameHosts
    <2>6. QED BY <2>1, <2>2, <2>3, <2>4, <2>5 DEF TablesInv
<1>1. CASE ~Exists(r)
    <2>1. room' = room /\ player' = player
        BY <1>1
    <2>2. QED BY <2>1 DEF TablesInv, PlayersHaveRooms, HostIsMember, TurnPlayerExists,
                  FrozenRows, SameHosts
<1>2. QED BY <1>0, <1>1

LEMMA DeleteKeeps ==
    ASSUME TypeOK, TablesInv, FrozenRows, NEW r \in RoomIds,
           DeleteAllowed(r), Delete(r)
    PROVE  TablesInv' /\ FrozenRows' /\ SameHosts
<1> USE Sentinels DEF TypeOK, Exists, Placed, InRoom, Delete
<1>0. /\ room'[r] = NoRow
      /\ \A s \in RoomIds \ {r} : room'[s] = room[s]
      /\ \A u \in Users : player'[u] = IF InRoom(u, r) THEN NoRow ELSE player[u]
    OBVIOUS
<1>1. PlayersHaveRooms'
    BY <1>0 DEF TablesInv, PlayersHaveRooms, PlayerRows
<1>2. HostIsMember'
    BY <1>0 DEF TablesInv, HostIsMember, RoomRows
<1>3. TurnPlayerExists'
    BY <1>0 DEF TablesInv, TurnPlayerExists, RoomRows, DeleteAllowed, Members, RefersTo
<1>4. FrozenRows' /\ SameHosts
    BY <1>0 DEF FrozenRows, SameHosts
<1>5. QED BY <1>1, <1>2, <1>3, <1>4 DEF TablesInv

LEMMA AddPlayerKeeps ==
    ASSUME TypeOK, TablesInv, FrozenRows, NEW r \in RoomIds, NEW u \in Users,
           AddPlayerAllowed(r, u), AddPlayer(r, u)
    PROVE  TablesInv' /\ FrozenRows' /\ SameHosts
<1> USE Sentinels DEF TypeOK, Exists, Placed, InRoom
<1>0. /\ \A s \in RoomIds : /\ room'[s] = NoRow <=> room[s] = NoRow
                            /\ room[s] # NoRow =>
                                  /\ room'[s].owner = room[s].owner
                                  /\ room'[s].turn = room[s].turn
                                  /\ room'[s].frozen = room[s].frozen
      /\ player'[u] = [room |-> r, state |-> EmptyState]
      /\ player'[u] # NoRow
      /\ \A v \in Users \ {u} : player'[v] = player[v]
    <2>1. [room |-> r, state |-> EmptyState] \in PlayerRows
        BY DEF PlayerRows
    <2>2. QED BY <2>1, StampedOwner DEF AddPlayer, TablesOK
<1>1. PlayersHaveRooms'
    BY <1>0 DEF TablesInv, PlayersHaveRooms, PlayerRows, AddPlayerAllowed
<1>2. HostIsMember'
    BY <1>0 DEF TablesInv, HostIsMember, RoomRows, AddPlayerAllowed
<1>3. TurnPlayerExists'
    BY <1>0 DEF TablesInv, TurnPlayerExists, RoomRows
<1>4. FrozenRows' /\ SameHosts
    BY <1>0 DEF FrozenRows, SameHosts
<1>5. QED BY <1>1, <1>2, <1>3, <1>4 DEF TablesInv

LEMMA RemovePlayerKeeps ==
    ASSUME TypeOK, TablesInv, FrozenRows, NEW r \in RoomIds, NEW u \in Users,
           RemovePlayerAllowed(u), RemovePlayer(r, u)
    PROVE  TablesInv' /\ FrozenRows' /\ SameHosts
<1> USE Sentinels DEF TypeOK, Exists, Placed, InRoom
<1>0. /\ \A s \in RoomIds : /\ room'[s] = NoRow <=> room[s] = NoRow
                            /\ room[s] # NoRow =>
                                  /\ room'[s].owner = room[s].owner
                                  /\ room'[s].turn = room[s].turn
                                  /\ room'[s].frozen = room[s].frozen
      /\ player'[u] = NoRow
      /\ \A v \in Users \ {u} : player'[v] = player[v]
    BY StampedOwner DEF RemovePlayer, TablesOK
<1>1. PlayersHaveRooms'
    BY <1>0 DEF TablesInv, PlayersHaveRooms, PlayerRows
<1>2. HostIsMember'
    BY <1>0 DEF TablesInv, HostIsMember, RoomRows, RemovePlayerAllowed, RefersTo
<1>3. TurnPlayerExists'
    BY <1>0 DEF TablesInv, TurnPlayerExists, RoomRows, RemovePlayerAllowed, RefersTo
<1>4. FrozenRows' /\ SameHosts
    BY <1>0 DEF FrozenRows, SameHosts
<1>5. QED BY <1>1, <1>2, <1>3, <1>4 DEF TablesInv

LEMMA SetPlayerStateKeeps ==
    ASSUME TypeOK, TablesInv, FrozenRows, NEW r \in RoomIds, NEW u \in Users,
           NEW st \in PlayerStates, SetPlayerState(r, u, st)
    PROVE  TablesInv' /\ FrozenRows' /\ SameHosts
<1> USE Sentinels DEF TypeOK, Exists, Placed, InRoom
<1>0. /\ \A s \in RoomIds : /\ room'[s] = NoRow <=> room[s] = NoRow
                            /\ room[s] # NoRow =>
                                  /\ room'[s].owner = room[s].owner
                                  /\ room'[s].turn = room[s].turn
                                  /\ room'[s].frozen = room[s].frozen
      /\ \A v \in Users : /\ player'[v] = NoRow <=> player[v] = NoRow
                          /\ player[v] # NoRow => player'[v].room = player[v].room
    <2>1. \A v \in Users : player[v] # NoRow => [player[v] EXCEPT !.state = st] \in PlayerRows
        BY DEF PlayerRows
    <2>2. QED BY <2>1, StampedOwner DEF SetPlayerState, TablesOK, PlayerRows
<1>1. PlayersHaveRooms'
    BY <1>0 DEF TablesInv, PlayersHaveRooms, PlayerRows
<1>2. HostIsMember'
    BY <1>0 DEF TablesInv, HostIsMember, RoomRows
<1>3. TurnPlayerExists'
    BY <1>0 DEF TablesInv, TurnPlayerExists, RoomRows
<1>4. FrozenRows' /\ SameHosts
    BY <1>0 DEF FrozenRows, SameHosts
<1>5. QED BY <1>1, <1>2, <1>3, <1>4 DEF TablesInv

\* No snapshot outlives the room it was read from and meets the next room
\* with that id.
OnlyFreshRooms ==
    \A r \in RoomIds : Exists(r)' /\ ~Exists(r) => \A p \in Requests : ~HoldsSnapshot(p, r)

\* What request q holds after the step is right about the host.
RightAbout(q) ==
    /\ \A r \in RoomIds : Exists(r)' /\ HoldsSnapshot(q, r)' =>
          room'[r].owner = IF At(q, "Update")' THEN req'[q].row.owner ELSE req'[q].user
    /\ At(q, "Update")' /\ req'[q].row.frozen => req'[q].row.turn # Nobody

\* A step of one request keeps the invariants about snapshots when rooms
\* keep their hosts and the request itself is right about its own.
LEMMA SnapshotsKeep ==
    ASSUME IInv, NEW q \in Requests, SameHosts, OnlyFreshRooms, RightAbout(q), FrozenRows',
           \A p \in Requests \ {q} : req'[p] = req[p]
    PROVE  SnapshotHost' /\ FrozenHasTurn'
<1>1. SnapshotHost'
    <2> SUFFICES ASSUME NEW p \in Requests, NEW r \in RoomIds, Exists(r)', HoldsSnapshot(p, r)'
                 PROVE  room'[r].owner = IF At(p, "Update")' THEN req'[p].row.owner
                                                           ELSE req'[p].user
        BY DEF SnapshotHost
    <2>1. CASE p = q
        BY <2>1 DEF RightAbout
    <2>2. CASE p # q
        <3>1. req'[p] = req[p] /\ HoldsSnapshot(p, r)
            BY <2>2 DEF HoldsSnapshot
        <3>2. Exists(r)
            BY <3>1 DEF OnlyFreshRooms
        <3>3. room'[r].owner = room[r].owner
            BY <3>2 DEF SameHosts
        <3>4. QED BY <3>1, <3>2, <3>3 DEF IInv, SnapshotHost, At
    <2>3. QED BY <2>1, <2>2
<1>2. FrozenHasTurn'
    BY DEF FrozenHasTurn, FrozenRows, IInv, RightAbout, At
<1>3. QED BY <1>1, <1>2

\* A step that leaves the tables alone.
LEMMA ReadKeeps ==
    ASSUME IInv, UNCHANGED <<room, player, clock>>
    PROVE  TablesInv' /\ FrozenRows' /\ SameHosts /\ OnlyFreshRooms
BY DEF IInv, TablesInv, PlayersHaveRooms, HostIsMember, TurnPlayerExists, FrozenHasTurn,
       FrozenRows, SameHosts, OnlyFreshRooms, Exists, InRoom, Placed

\* A request that is answered, or that goes on to a call without a
\* snapshot, is right about everything.
LEMMA AnswerRight ==
    ASSUME TypeOK, NEW q \in Requests, Answer(q)
    PROVE  RightAbout(q) /\ \A p \in Requests \ {q} : req'[p] = req[p]
BY DEF TypeOK, Answer, RightAbout, HoldsSnapshot, At, Idle

LEMMA GotoRight ==
    ASSUME TypeOK, NEW q \in Requests, NEW pc, NEW u, NEW r \in RoomIds \cup {NoRoom}, NEW row,
           Goto(q, pc, u, r, row),
           pc \in {"DeleteGet", "Delete"} => (r \in RoomIds /\ Exists(r)' => u = room'[r].owner),
           pc = "Update" =>
              /\ r \in RoomIds /\ Exists(r)' => row.owner = room'[r].owner
              /\ row.frozen => row.turn # Nobody
    PROVE  RightAbout(q) /\ \A p \in Requests \ {q} : req'[p] = req[p]
BY DEF TypeOK, Goto, RightAbout, HoldsSnapshot, At

\* Every step of a request keeps the tables consistent, the hosts, and the
\* request's own snapshot right.
LEMMA RoomStepKeeps ==
    ASSUME IInv, NEW q \in Requests, RoomStep(q)
    PROVE  /\ TablesInv' /\ FrozenRows' /\ SameHosts /\ OnlyFreshRooms
           /\ RightAbout(q) /\ \A p \in Requests \ {q} : req'[p] = req[p]
<1> DEFINE Kept == /\ TablesInv' /\ FrozenRows' /\ SameHosts /\ OnlyFreshRooms
                   /\ RightAbout(q) /\ \A p \in Requests \ {q} : req'[p] = req[p]
<1>0. /\ TypeOK /\ TablesInv /\ FrozenRows
      /\ req \in [Requests -> RequestRecords]
    BY DEF IInv, TablesInv, FrozenRows, FrozenHasTurn, TypeOK
<1>1. ASSUME NEW u \in Users, CreateFind(q, u) PROVE Kept
    BY <1>0, <1>1, ReadKeeps, GotoRight DEF CreateFind
<1>2. ASSUME NEW u \in Users, LeaveAllFind(q, u) PROVE Kept
    <2>1. player[u].room \in RoomIds
        BY <1>0, <1>2 DEF LeaveAllFind, Placed, PlayerRows, TypeOK
    <2>2. QED BY <1>0, <1>2, <2>1, ReadKeeps, GotoRight DEF LeaveAllFind
<1>3. ASSUME NEW r \in RoomIds, CreateInsert(q, r) PROVE Kept
    <2>1. req[q].user \in Users
        BY <1>0, <1>3, HeldByRequest DEF CreateInsert
    <2>2. TablesInv' /\ FrozenRows' /\ SameHosts
        BY <1>0, <1>3, <2>1, CreateKeeps DEF CreateInsert
    <2>3. OnlyFreshRooms
        BY <1>0, <1>3 DEF CreateInsert, Create, OnlyFreshRooms, Exists, TypeOK
    <2>4. QED BY <1>0, <1>3, <2>2, <2>3, GotoRight DEF CreateInsert
<1>4. ASSUME NEW r \in RoomIds, CreateRefused(q, r) PROVE Kept
    BY <1>0, <1>4, ReadKeeps, AnswerRight DEF CreateRefused
<1>5. ASSUME NEW u \in Users, NEW r \in RoomIds, JoinGet(q, u, r) PROVE Kept
    BY <1>0, <1>5, ReadKeeps, GotoRight DEF JoinGet
<1>6. ASSUME NEW u \in Users, NEW r \in RoomIds, FreezeGet(q, u, r) PROVE Kept
    <2> DEFINE new == [room[r] EXCEPT !.frozen = TRUE, !.turn = u]
    <2>1. new.owner = room[r].owner /\ new.turn # Nobody
        BY <1>0, <1>6, Sentinels DEF FreezeGet, Exists, RoomRows, TypeOK
    <2>2. Goto(q, "Update", u, r, new) /\ UNCHANGED <<room, player, clock>>
        BY <1>6 DEF FreezeGet
    <2>3. QED BY <1>0, <2>1, <2>2, ReadKeeps, GotoRight
<1>7. ASSUME NEW u \in Users, NEW r \in RoomIds, LeaveRoomGet(q, u, r) PROVE Kept
    BY <1>0, <1>7, ReadKeeps, GotoRight DEF LeaveRoomGet, Leave
<1>8. ASSUME NEW u \in Users, NEW r \in RoomIds, NEW patch \in Patches,
             SetStateGet(q, u, r, patch)
      PROVE  Kept
    <2> DEFINE new == [room[r] EXCEPT !.state = Merge(@, patch, Settable(u, r))]
    <2>1. /\ new.owner = room[r].owner
          /\ new.frozen => new.turn # Nobody
        BY <1>0, <1>8 DEF SetStateGet, Exists, RoomRows, TypeOK, FrozenRows
    <2>2. Goto(q, "Update", u, r, new) /\ UNCHANGED <<room, player, clock>>
        BY <1>8 DEF SetStateGet
    <2>3. QED BY <1>0, <2>1, <2>2, ReadKeeps, GotoRight
<1>9. ASSUME NEW u \in Users, NEW v \in Users, NEW r \in RoomIds,
             ChangeTurnGet(q, u, r, v)
      PROVE  Kept
    <2> DEFINE new == [room[r] EXCEPT !.turn = v]
    <2>1. new.owner = room[r].owner /\ new.turn # Nobody
        BY <1>0, <1>9, Sentinels DEF ChangeTurnGet, Exists, RoomRows, TypeOK
    <2>2. Goto(q, "Update", u, r, new) /\ UNCHANGED <<room, player, clock>>
        BY <1>9 DEF ChangeTurnGet
    <2>3. QED BY <1>0, <2>1, <2>2, ReadKeeps, GotoRight
<1>10. ASSUME NEW u \in Users, NEW r \in RoomIds, NEW st \in PlayerStates,
              PutPlayerState(q, u, r, st)
       PROVE  Kept
    <2>1. TablesInv' /\ FrozenRows' /\ SameHosts
        BY <1>0, <1>10, SetPlayerStateKeeps DEF PutPlayerState
    <2>2. OnlyFreshRooms
        BY <1>0, <1>10, StampedOwner
        DEF PutPlayerState, SetPlayerState, OnlyFreshRooms, Exists, TypeOK, TablesOK
    <2>3. RightAbout(q) /\ \A p \in Requests \ {q} : req'[p] = req[p]
        <3>1. req'[q] = Idle /\ req' = req
            BY <1>10 DEF PutPlayerState, IsIdle
        <3>2. QED BY <3>1 DEF RightAbout, HoldsSnapshot, At, Idle
    <2>4. QED BY <2>1, <2>2, <2>3
<1>11. ASSUME CreateReread(q) PROVE Kept
    BY <1>0, <1>11, ReadKeeps, AnswerRight DEF CreateReread
<1>12. ASSUME AddGet(q) PROVE Kept
    <2>1. req[q].id \in RoomIds
        BY <1>0, <1>12, HeldByRequest DEF AddGet, At
    <2>2. RightAbout(q) /\ \A p \in Requests \ {q} : req'[p] = req[p]
        BY <1>0, <1>12, <2>1, GotoRight, AnswerRight DEF AddGet
    <2>3. QED BY <1>12, <2>2, ReadKeeps DEF AddGet
<1>13. ASSUME AddInsert(q) PROVE Kept
    <2>1. req[q].user \in Users /\ req[q].id \in RoomIds
        BY <1>0, <1>13, HeldByRequest DEF AddInsert, At
    <2>2. CASE AddPlayerAllowed(req[q].id, req[q].user)
        <3>1. AddPlayer(req[q].id, req[q].user)
            BY <1>13, <2>2 DEF AddInsert
        <3>2. TablesInv' /\ FrozenRows' /\ SameHosts
            BY <1>0, <2>1, <2>2, <3>1, AddPlayerKeeps
        <3>3. OnlyFreshRooms
            BY <1>0, <2>1, <3>1, StampedOwner
            DEF AddPlayer, OnlyFreshRooms, Exists, TypeOK, TablesOK
        <3>4. QED BY <1>0, <1>13, <3>2, <3>3, AnswerRight DEF AddInsert
    <2>3. CASE ~AddPlayerAllowed(req[q].id, req[q].user)
        BY <1>0, <1>13, <2>3, ReadKeeps, AnswerRight DEF AddInsert
    <2>4. QED BY <2>2, <2>3
<1>14. ASSUME WriteRoom(q) PROVE Kept
    <2>1. req[q].id \in RoomIds /\ req[q].row \in RoomRows /\ At(q, "Update")
        BY <1>0, <1>14, HeldByRequest DEF WriteRoom, At
    <2>2. CASE UpdateAllowed(req[q].id, req[q].row)
        <3>1. Update(req[q].id, req[q].row)
            BY <1>14, <2>2 DEF WriteRoom
        <3>2. /\ Exists(req[q].id) => req[q].row.owner = room[req[q].id].owner
              /\ req[q].row.frozen => req[q].row.turn # Nobody
            BY <2>1 DEF IInv, SnapshotHost, FrozenHasTurn, HoldsSnapshot, At
        <3>3. TablesInv' /\ FrozenRows' /\ SameHosts
            BY <1>0, <2>1, <2>2, <3>1, <3>2, UpdateKeeps
        <3>4. OnlyFreshRooms
            BY <1>0, <2>1, <3>1 DEF Update, OnlyFreshRooms, Exists, TypeOK
        <3>5. QED BY <1>0, <1>14, <3>3, <3>4, AnswerRight DEF WriteRoom
    <2>3. CASE ~UpdateAllowed(req[q].id, req[q].row)
        BY <1>0, <1>14, <2>3, ReadKeeps, AnswerRight DEF WriteRoom
    <2>4. QED BY <2>2, <2>3
<1>15. ASSUME LeaveAllGet(q) PROVE Kept
    <2>1. req[q].id \in RoomIds
        BY <1>0, <1>15, HeldByRequest DEF LeaveAllGet, At
    <2>2. QED BY <1>0, <1>15, <2>1, ReadKeeps, GotoRight DEF LeaveAllGet, Leave
<1>16. ASSUME LeaveAllGone(q) PROVE Kept
    BY <1>0, <1>16, ReadKeeps, AnswerRight DEF LeaveAllGone
<1>17. ASSUME DeleteGet(q) PROVE Kept
    <2>1. req[q].id \in RoomIds
        BY <1>0, <1>17, HeldByRequest DEF DeleteGet, At
    <2>2. Exists(req[q].id) => req[q].user = room[req[q].id].owner
        BY <1>17, <2>1 DEF DeleteGet, IInv, SnapshotHost, HoldsSnapshot, At
    <2>3. RightAbout(q) /\ \A p \in Requests \ {q} : req'[p] = req[p]
        BY <1>0, <1>17, <2>1, <2>2, GotoRight, AnswerRight DEF DeleteGet, Exists
    <2>4. QED BY <1>17, <2>3, ReadKeeps DEF DeleteGet
<1>18. ASSUME DeleteRoom(q) PROVE Kept
    <2>1. req[q].id \in RoomIds
        BY <1>0, <1>18, HeldByRequest DEF DeleteRoom, At
    <2>2. CASE DeleteAllowed(req[q].id)
        <3>1. Delete(req[q].id)
            BY <1>18, <2>2 DEF DeleteRoom
        <3>2. TablesInv' /\ FrozenRows' /\ SameHosts
            BY <1>0, <2>1, <2>2, <3>1, DeleteKeeps
        <3>3. OnlyFreshRooms
            BY <1>0, <2>1, <3>1 DEF Delete, OnlyFreshRooms, Exists, TypeOK
        <3>4. QED BY <1>0, <1>18, <3>2, <3>3, AnswerRight DEF DeleteRoom
    <2>3. CASE ~DeleteAllowed(req[q].id)
        BY <1>0, <1>18, <2>3, ReadKeeps, AnswerRight DEF DeleteRoom
    <2>4. QED BY <2>2, <2>3
<1>19. ASSUME Remove(q) PROVE Kept
    <2>1. req[q].user \in Users /\ req[q].id \in RoomIds
        BY <1>0, <1>19, HeldByRequest DEF Remove, At
    <2>2. CASE RemovePlayerAllowed(req[q].user)
        <3>1. RemovePlayer(req[q].id, req[q].user)
            BY <1>19, <2>2 DEF Remove
        <3>2. TablesInv' /\ FrozenRows' /\ SameHosts
            BY <1>0, <2>1, <2>2, <3>1, RemovePlayerKeeps
        <3>3. OnlyFreshRooms
            BY <1>0, <2>1, <3>1, StampedOwner
            DEF RemovePlayer, OnlyFreshRooms, Exists, TypeOK, TablesOK
        <3>4. QED BY <1>0, <1>19, <3>2, <3>3, AnswerRight DEF Remove
    <2>3. CASE ~RemovePlayerAllowed(req[q].user)
        BY <1>0, <1>19, <2>3, ReadKeeps, AnswerRight DEF Remove
    <2>4. QED BY <2>2, <2>3
<1>20. ASSUME Cancel(q) PROVE Kept
    BY <1>0, <1>20, ReadKeeps, AnswerRight DEF Cancel
<1>21. QED
    BY <1>1, <1>2, <1>3, <1>4, <1>5, <1>6, <1>7, <1>8, <1>9, <1>10, <1>11, <1>12,
       <1>13, <1>14, <1>15, <1>16, <1>17, <1>18, <1>19, <1>20
    DEF RoomStep

\* The invariant is inductive.
LEMMA NextKeeps ==
    ASSUME IInv, [Next]_vars
    PROVE  IInv'
<1>0. TypeOK'
    <2>1. ASSUME NEW q \in Requests, RoomStep(q) PROVE TypeOK'
        BY <2>1, RoomStepType DEF IInv
    <2>2. CASE PassTime
        BY <2>2 DEF PassTime, Tick, tables, TypeOK, IInv
    <2>3. CASE UNCHANGED vars
        BY <2>3 DEF vars, TypeOK, IInv
    <2>4. QED BY <2>1, <2>2, <2>3 DEF Next
<1>1. ASSUME NEW q \in Requests, RoomStep(q) PROVE IInv'
    BY <1>0, <1>1, RoomStepKeeps, SnapshotsKeep DEF IInv, TablesInv
<1>2. ASSUME UNCHANGED <<room, player, req>> PROVE IInv'
    BY <1>0, <1>2
    DEF IInv, PlayersHaveRooms, HostIsMember, TurnPlayerExists, FrozenHasTurn, SnapshotHost,
        HoldsSnapshot, Exists, InRoom, Placed, At
<1>3. QED
    BY <1>1, <1>2 DEF Next, PassTime, Tick, tables, vars

\* Empty tables and idle requests satisfy the invariant.
LEMMA InitKeeps ==
    ASSUME Init
    PROVE  IInv
<1>1. TypeOK
    BY DEF Init, RepositoryInit, TypeOK, RequestRecords
<1>2. /\ \A r \in RoomIds : ~Exists(r)
      /\ \A u \in Users : ~Placed(u)
      /\ \A q \in Requests : req[q] = Idle
    BY DEF Init, RepositoryInit, Exists, Placed
<1>3. QED BY <1>1, <1>2
    DEF IInv, PlayersHaveRooms, HostIsMember, TurnPlayerExists, FrozenHasTurn,
        SnapshotHost, HoldsSnapshot, At, Idle

\* What the handlers and the schema guarantee together, for every number of
\* requests in progress.
THEOREM Invariance == Spec => []IInv
<1>1. Init => IInv
    BY InitKeeps
<1>2. IInv /\ [Next]_vars => IInv'
    BY NextKeeps
<1>3. QED BY <1>1, <1>2, PTL DEF Spec

\* No row refers to a room or a player that does not exist.
THEOREM ReferencesAlwaysHold == Spec => []ReferencesHold
<1>1. IInv => ReferencesHold
    BY DEF IInv, ReferencesHold
<1>2. QED BY <1>1, Invariance, PTL

\* The host of a room is always one of its members.
THEOREM HostAlwaysMember == Spec => []HostIsMember
<1>1. IInv => HostIsMember
    BY DEF IInv
<1>2. QED BY <1>1, Invariance, PTL

\* A frozen room, and every snapshot of one, has a turn player.
THEOREM FrozenAlwaysHasTurn == Spec => []FrozenHasTurn
<1>1. IInv => FrozenHasTurn
    BY DEF IInv
<1>2. QED BY <1>1, Invariance, PTL

\* Stale snapshots are never wrong about the host.
THEOREM SnapshotsAgreeOnHost == Spec => []SnapshotHost
<1>1. IInv => SnapshotHost
    BY DEF IInv
<1>2. QED BY <1>1, Invariance, PTL

-----------------------------------------------------------------------------
(* What a step may do to a room and to its members.                        *)

\* The step of a request that takes a room away is a Delete of that room.
LEMMA OnlyDeleteEndsRooms ==
    ASSUME IInv, NEW q \in Requests, RoomStep(q), NEW r \in RoomIds, Exists(r), ~Exists(r)'
    PROVE  At(q, "Delete") /\ req[q].id = r /\ DeleteRoom(q)
<1>0. TypeOK /\ TablesOK
    BY DEF IInv, TypeOK, TablesOK
<1>1. ASSUME UNCHANGED room PROVE FALSE
    BY <1>1 DEF Exists
<1>2. ASSUME NEW s \in RoomIds, room' = Stamped(room, s) PROVE FALSE
    BY <1>0, <1>2, StampedOwner DEF Exists, TypeOK
<1>3. ASSUME NEW s \in RoomIds, CreateInsert(q, s) PROVE FALSE
    <2>0. req[q].user \in Users
        BY <1>0, <1>3, HeldByRequest DEF CreateInsert, TypeOK
    <2>1. [owner |-> req[q].user, turn |-> Nobody, frozen |-> FALSE,
           state |-> EmptyRoomState, updated |-> clock] \in RoomRows
        BY <1>0, <2>0 DEF RoomRows, RoomStates, EmptyRoomState, TypeOK
    <2>2. QED BY <1>0, <1>3, <2>1, Sentinels DEF CreateInsert, Create, Exists, TypeOK
<1>4. ASSUME NEW u \in Users, NEW s \in RoomIds, NEW st \in PlayerStates,
             PutPlayerState(q, u, s, st)
      PROVE  FALSE
    BY <1>4, <1>2 DEF PutPlayerState, SetPlayerState
<1>5. ASSUME AddInsert(q) PROVE FALSE
    <2>1. req[q].id \in RoomIds
        BY <1>0, <1>5, HeldByRequest DEF AddInsert, At, TypeOK
    <2>2. QED BY <1>5, <2>1, <1>1, <1>2 DEF AddInsert, AddPlayer
<1>6. ASSUME Remove(q) PROVE FALSE
    <2>1. req[q].id \in RoomIds
        BY <1>0, <1>6, HeldByRequest DEF Remove, At, TypeOK
    <2>2. QED BY <1>6, <2>1, <1>1, <1>2 DEF Remove, RemovePlayer
<1>7. ASSUME WriteRoom(q) PROVE FALSE
    <2>1. req[q].id \in RoomIds /\ req[q].row \in RoomRows
        BY <1>0, <1>7, HeldByRequest DEF WriteRoom, At, TypeOK
    <2>2. [req[q].row EXCEPT !.updated = clock] \in RoomRows
        BY <1>0, <2>1 DEF RoomRows, TypeOK
    <2>3. QED BY <1>0, <1>7, <2>1, <2>2, <1>1, Sentinels DEF WriteRoom, Update, Exists, TypeOK
<1>8. ASSUME DeleteRoom(q) PROVE At(q, "Delete") /\ req[q].id = r
    BY <1>0, <1>8, <1>1 DEF DeleteRoom, Delete, Exists, TypeOK
<1>9. QED
    BY <1>1, <1>3, <1>4, <1>5, <1>6, <1>7, <1>8
    DEF RoomStep, CreateFind, LeaveAllFind, CreateRefused, JoinGet, FreezeGet, LeaveRoomGet,
        Leave, SetStateGet, ChangeTurnGet, CreateReread, AddGet, LeaveAllGet, LeaveAllGone,
        DeleteGet, Cancel

\* The step of a request under which room r ends, or stays, is one its host
\* made, or keeps its host.
LEMMA HostStep ==
    ASSUME IInv, [Next]_vars, NEW r \in RoomIds, Exists(r)
    PROVE  \/ Exists(r)' /\ room'[r].owner = room[r].owner
           \/ /\ ~Exists(r)'
              /\ \E q \in Requests : Steps(q) /\ req[q].user = room[r].owner
<1>1. ASSUME NEW q \in Requests, RoomStep(q), ~Exists(r)'
      PROVE  Steps(q) /\ req[q].user = room[r].owner
    <2>1. At(q, "Delete") /\ req[q].id = r /\ DeleteRoom(q)
        BY <1>1, OnlyDeleteEndsRooms
    <2>2. req[q].user = room[r].owner
        BY <2>1 DEF IInv, SnapshotHost, HoldsSnapshot, At
    <2>3. req'[q] = Idle
        BY <2>1 DEF DeleteRoom, Answer, IInv, TypeOK
    <2>4. QED BY <2>1, <2>2, <2>3 DEF Steps, At, Idle
<1>2. ASSUME NEW q \in Requests, RoomStep(q), Exists(r)'
      PROVE  room'[r].owner = room[r].owner
    BY <1>2, RoomStepKeeps DEF SameHosts
<1>3. ASSUME UNCHANGED room PROVE Exists(r)' /\ room'[r].owner = room[r].owner
    BY <1>3 DEF Exists
<1>4. QED BY <1>1, <1>2, <1>3 DEF Next, PassTime, Tick, tables, vars

\* A room ends only at the request of its host, and its host never changes.
THEOREM HostAlwaysDecides == Spec => HostDecides
<1>1. IInv /\ [Next]_vars =>
        [\A r \in RoomIds : Exists(r) =>
            \/ Exists(r)' /\ room'[r].owner = room[r].owner
            \/ /\ ~Exists(r)'
               /\ \E q \in Requests : Steps(q) /\ req[q].user = room[r].owner]_vars
    BY HostStep
<1>2. QED BY <1>1, Invariance, PTL DEF Spec, HostDecides

\* The step under which a user is in no room any more.
LEMMA LeaverStep ==
    ASSUME IInv, [Next]_vars, NEW u \in Users, Placed(u), ~Placed(u)'
    PROVE  \E q \in Requests : Steps(q) /\
              \/ At(q, "Remove") /\ req[q].user = u
              \/ /\ At(q, "Delete")
                 /\ InRoom(u, req[q].id)
                 /\ req[q].user = room[req[q].id].owner
<1>0. TypeOK /\ TablesOK
    BY DEF IInv, TypeOK, TablesOK
<1>1. ASSUME UNCHANGED player PROVE FALSE
    BY <1>1 DEF Placed
<1>2. ASSUME NEW v \in Users, NEW s \in RoomIds,
             player' = [player EXCEPT ![v] = [room |-> s, state |-> EmptyState]]
      PROVE  FALSE
    <2>1. [room |-> s, state |-> EmptyState] \in PlayerRows
        BY Sentinels DEF PlayerRows
    <2>2. QED BY <1>0, <1>2, <2>1, Sentinels DEF Placed, TypeOK
<1>3. ASSUME NEW q \in Requests, RoomStep(q)
      PROVE  \/ At(q, "Remove") /\ req[q].user = u /\ Steps(q)
             \/ /\ At(q, "Delete")
                /\ InRoom(u, req[q].id)
                /\ req[q].user = room[req[q].id].owner
                /\ Steps(q)
    <2> DEFINE Goal == \/ At(q, "Remove") /\ req[q].user = u /\ Steps(q)
                       \/ /\ At(q, "Delete")
                          /\ InRoom(u, req[q].id)
                          /\ req[q].user = room[req[q].id].owner
                          /\ Steps(q)
    <2>1. ASSUME NEW r \in RoomIds, CreateInsert(q, r) PROVE Goal
        <3>1. req[q].user \in Users
            BY <1>0, <2>1, HeldByRequest DEF CreateInsert, TypeOK
        <3>2. QED BY <2>1, <3>1, <1>2 DEF CreateInsert, Create
    <2>2. ASSUME AddInsert(q) PROVE Goal
        <3>1. req[q].user \in Users /\ req[q].id \in RoomIds
            BY <1>0, <2>2, HeldByRequest DEF AddInsert, At, TypeOK
        <3>2. QED BY <2>2, <3>1, <1>1, <1>2 DEF AddInsert, AddPlayer
    <2>3. ASSUME NEW v \in Users, NEW r \in RoomIds, NEW st \in PlayerStates,
                 PutPlayerState(q, v, r, st)
          PROVE  Goal
        <3>1. player[v] # NoRow => [player[v] EXCEPT !.state = st] \in PlayerRows
            BY <1>0 DEF TypeOK, PlayerRows
        <3>2. QED BY <1>0, <2>3, <3>1, <1>1, Sentinels
              DEF PutPlayerState, SetPlayerState, InRoom, Placed, TypeOK
    <2>4. ASSUME WriteRoom(q) PROVE Goal
        BY <2>4, <1>1 DEF WriteRoom, Update
    <2>5. ASSUME DeleteRoom(q) PROVE Goal
        <3>1. req[q].id \in RoomIds /\ At(q, "Delete")
            BY <1>0, <2>5, HeldByRequest DEF DeleteRoom, At, TypeOK
        <3>2. Delete(req[q].id)
            BY <2>5, <1>1 DEF DeleteRoom
        <3>3. InRoom(u, req[q].id)
            BY <3>2 DEF Delete, Placed
        <3>4. Exists(req[q].id)
            BY <3>3 DEF IInv, PlayersHaveRooms, InRoom, Placed
        <3>5. req[q].user = room[req[q].id].owner
            BY <3>1, <3>4 DEF IInv, SnapshotHost, HoldsSnapshot, At
        <3>6. req'[q] = Idle
            BY <1>0, <2>5 DEF DeleteRoom, Answer, TypeOK
        <3>7. QED BY <3>1, <3>3, <3>5, <3>6 DEF Steps, At, Idle
    <2>6. ASSUME Remove(q) PROVE Goal
        <3>1. At(q, "Remove") /\ req'[q] = Idle
            BY <1>0, <2>6 DEF Remove, Answer, TypeOK
        <3>2. RemovePlayer(req[q].id, req[q].user)
            BY <2>6, <1>1 DEF Remove
        <3>3. req[q].user = u
            BY <1>0, <3>2 DEF RemovePlayer, Placed, TypeOK
        <3>4. QED BY <3>1, <3>3 DEF Steps, At, Idle
    <2>7. QED
        BY <1>1, <1>3, <2>1, <2>2, <2>3, <2>4, <2>5, <2>6
        DEF RoomStep, CreateFind, LeaveAllFind, CreateRefused, JoinGet, FreezeGet, LeaveRoomGet,
            Leave, SetStateGet, ChangeTurnGet, CreateReread, AddGet, LeaveAllGet, LeaveAllGone,
            DeleteGet, Cancel
<1>4. QED BY <1>1, <1>3 DEF Next, PassTime, Tick, tables, vars

\* Nobody is taken out of a room but by asking to leave or by its host.
THEOREM OnlyLeaversEverLeave == Spec => OnlyLeaversLeave
<1>1. IInv /\ [Next]_vars =>
        [\A u \in Users : Placed(u) /\ ~Placed(u)' =>
          \E q \in Requests : Steps(q) /\
              \/ At(q, "Remove") /\ req[q].user = u
              \/ /\ At(q, "Delete")
                 /\ InRoom(u, req[q].id)
                 /\ req[q].user = room[req[q].id].owner]_vars
    BY LeaverStep
<1>2. QED BY <1>1, Invariance, PTL DEF Spec, OnlyLeaversLeave

-----------------------------------------------------------------------------
(* The refinement of Membership.                                           *)

\* Where a user is and who hosts a room, read off the tables.
LEMMA Mapping ==
    /\ \A u \in Users : RoomOf[u] = IF player[u] = NoRow THEN NoRoom ELSE player[u].room
    /\ \A r \in RoomIds : Host[r] = IF room[r] = NoRow THEN Nobody ELSE room[r].owner
BY DEF RoomOf, Host, Placed, Exists

\* The mapping changes only where the tables do.
LEMMA SameMapping ==
    ASSUME \A r \in RoomIds : /\ room'[r] = NoRow <=> room[r] = NoRow
                              /\ room[r] # NoRow => room'[r].owner = room[r].owner
    PROVE  Host' = Host
BY DEF Host, Exists

LEMMA SamePlaces ==
    ASSUME \A u \in Users : /\ player'[u] = NoRow <=> player[u] = NoRow
                            /\ player[u] # NoRow => player'[u].room = player[u].room
    PROVE  RoomOf' = RoomOf
BY DEF RoomOf, Placed

\* A step of a request is a step of Membership or changes nothing there.
LEMMA MembershipStep ==
    ASSUME IInv, NEW q \in Requests, RoomStep(q)
    PROVE  M!MNext \/ UNCHANGED <<RoomOf, Host>>
<1> DEFINE Goal == M!MNext \/ UNCHANGED <<RoomOf, Host>>
<1>0. /\ TypeOK /\ TablesOK
      /\ room \in [RoomIds -> RoomRows \cup {NoRow}]
      /\ player \in [Users -> PlayerRows \cup {NoRow}]
    BY DEF IInv, TypeOK, TablesOK
<1>1. ASSUME UNCHANGED <<room, player>> PROVE Goal
    BY <1>1 DEF RoomOf, Host, Placed, Exists
<1>2. ASSUME NEW s \in RoomIds, room' = Stamped(room, s) PROVE Host' = Host
    BY <1>0, <1>2, StampedOwner, SameMapping DEF TypeOK
<1>3. ASSUME NEW r \in RoomIds, CreateInsert(q, r) PROVE Goal
    <2> DEFINE u == req[q].user
               new == [owner |-> u, turn |-> Nobody, frozen |-> FALSE,
                       state |-> EmptyRoomState, updated |-> clock]
               row == [room |-> r, state |-> EmptyState]
    <2>1. u \in Users
        BY <1>0, <1>3, HeldByRequest DEF CreateInsert, TypeOK
    <2>2. new \in RoomRows /\ row \in PlayerRows
        BY <1>0, <2>1, Sentinels DEF RoomRows, RoomStates, EmptyRoomState, PlayerRows, TypeOK
    <2>3. room' = [room EXCEPT ![r] = new] /\ player' = [player EXCEPT ![u] = row]
        BY <1>3 DEF CreateInsert, Create
    <2>4. room[r] = NoRow /\ player[u] = NoRow
        BY <1>3 DEF CreateInsert, CreateAllowed, Exists, Placed
    <2> HIDE DEF u
    <2>5. RoomOf[u] = NoRoom /\ Host[r] = Nobody
        BY <2>1, <2>4, Mapping
    <2>6. new # NoRow /\ row # NoRow /\ new.owner = u /\ row.room = r
        BY <2>2, Sentinels
    <2> HIDE DEF new, row
    <2>7. RoomOf' = [RoomOf EXCEPT ![u] = r]
        BY <1>0, <2>1, <2>3, <2>6 DEF RoomOf, Placed
    <2>8. Host' = [Host EXCEPT ![r] = u]
        BY <1>0, <2>3, <2>6 DEF Host, Exists
    <2>9. M!Open(u, r)
        BY <2>5, <2>7, <2>8 DEF M!Open
    <2>10. QED BY <2>1, <2>9 DEF M!MNext
<1>4. ASSUME AddInsert(q) PROVE Goal
    <2> DEFINE u == req[q].user
               r == req[q].id
               row == [room |-> r, state |-> EmptyState]
    <2>1. u \in Users /\ r \in RoomIds
        BY <1>0, <1>4, HeldByRequest DEF AddInsert, At, TypeOK
    <2>2. CASE AddPlayerAllowed(r, u)
        <3>1. player' = [player EXCEPT ![u] = row] /\ room' = Stamped(room, r)
            BY <1>4, <2>2 DEF AddInsert, AddPlayer
        <3>2. Host' = Host
            BY <1>2, <2>1, <3>1
        <3>3. room[r] # NoRow /\ player[u] = NoRow
            BY <2>2 DEF AddPlayerAllowed, Exists, Placed
        <3>4. row \in PlayerRows
            BY <2>1, Sentinels DEF PlayerRows
        <3>5. row # NoRow /\ row.room = r
            BY <3>4, Sentinels
        <3> HIDE DEF u, r, row
        <3>6. RoomOf' = [RoomOf EXCEPT ![u] = r]
            BY <1>0, <2>1, <3>1, <3>5 DEF RoomOf, Placed
        <3>7. RoomOf[u] = NoRoom
            BY <2>1, <3>3, Mapping
        <3>8. Host[r] # Nobody
            <4>1. room[r] \in RoomRows
                BY <1>0, <2>1, <3>3
            <4>2. room[r].owner \in Users
                BY <4>1 DEF RoomRows
            <4>3. QED BY <2>1, <3>3, <4>2, Mapping, Sentinels
        <3>9. M!Enter(u, r)
            BY <3>2, <3>6, <3>7, <3>8 DEF M!Enter
        <3>10. QED BY <2>1, <3>9 DEF M!MNext
    <2>3. CASE ~AddPlayerAllowed(r, u)
        BY <1>1, <1>4, <2>3 DEF AddInsert
    <2>4. QED BY <2>2, <2>3
<1>5. ASSUME NEW u \in Users, NEW r \in RoomIds, NEW st \in PlayerStates,
             PutPlayerState(q, u, r, st)
      PROVE  Goal
    <2>1. Host' = Host
        BY <1>2, <1>5 DEF PutPlayerState, SetPlayerState
    <2>2. \A v \in Users : player[v] # NoRow =>
             /\ [player[v] EXCEPT !.state = st] \in PlayerRows
             /\ [player[v] EXCEPT !.state = st].room = player[v].room
        BY <1>0 DEF PlayerRows
    <2>3. RoomOf' = RoomOf
        <3>1. \A v \in Users : /\ player'[v] = NoRow <=> player[v] = NoRow
                               /\ player[v] # NoRow => player'[v].room = player[v].room
            BY <1>0, <1>5, <2>2, Sentinels DEF PutPlayerState, SetPlayerState, InRoom
        <3>2. QED BY <3>1, SamePlaces
    <2>4. QED BY <2>1, <2>3
<1>6. ASSUME WriteRoom(q) PROVE Goal
    <2>1. /\ \A r \in RoomIds : room[r] # NoRow /\ room'[r] # NoRow => room'[r].owner = room[r].owner
        BY <1>6, RoomStepKeeps DEF SameHosts, Exists
    <2>2. req[q].id \in RoomIds /\ req[q].row \in RoomRows
        BY <1>0, <1>6, HeldByRequest DEF WriteRoom, At, TypeOK
    <2>3. [req[q].row EXCEPT !.updated = clock] \in RoomRows
        BY <1>0, <2>2 DEF RoomRows, TypeOK
    <2>4. \A r \in RoomIds : room'[r] = NoRow <=> room[r] = NoRow
        BY <1>0, <1>6, <2>2, <2>3, Sentinels DEF WriteRoom, Update, Exists
    <2>5. Host' = Host
        BY <2>1, <2>4, SameMapping
    <2>6. RoomOf' = RoomOf
        BY <1>6 DEF WriteRoom, Update, RoomOf, Placed
    <2>7. QED BY <2>5, <2>6
<1>7. ASSUME DeleteRoom(q) PROVE Goal
    <2> DEFINE r == req[q].id
    <2>1. r \in RoomIds
        BY <1>0, <1>7, HeldByRequest DEF DeleteRoom, At, TypeOK
    <2>2. CASE DeleteAllowed(r) /\ Exists(r)
        <3>1. Delete(r)
            BY <1>7, <2>2 DEF DeleteRoom
        <3> HIDE DEF r
        <3>2. Host[r] # Nobody
            <4>1. room[r] \in RoomRows /\ room[r] # NoRow
                BY <1>0, <2>1, <2>2 DEF Exists
            <4>2. room[r].owner \in Users
                BY <4>1 DEF RoomRows
            <4>3. QED BY <2>1, <4>1, <4>2, Mapping, Sentinels
        <3>3. RoomOf' = [u \in Users |-> IF RoomOf[u] = r THEN NoRoom ELSE RoomOf[u]]
            BY <2>1, <3>1, Sentinels DEF Delete, RoomOf, Placed, InRoom
        <3>4. Host' = [Host EXCEPT ![r] = Nobody]
            BY <1>0, <2>1, <3>1 DEF Delete, Host, Exists
        <3>5. M!Disband(r)
            BY <3>2, <3>3, <3>4 DEF M!Disband
        <3>6. QED BY <2>1, <3>5 DEF M!MNext
    <2>3. CASE DeleteAllowed(r) /\ ~Exists(r)
        <3>1. Delete(r)
            BY <1>7, <2>3 DEF DeleteRoom
        <3>2. \A u \in Users : ~InRoom(u, r)
            BY <2>3 DEF IInv, PlayersHaveRooms, InRoom, Placed
        <3>3. UNCHANGED <<room, player>>
            BY <1>0, <2>1, <2>3, <3>1, <3>2 DEF Delete, Exists
        <3>4. QED BY <1>1, <3>3
    <2>4. CASE ~DeleteAllowed(r)
        BY <1>1, <1>7, <2>4 DEF DeleteRoom
    <2>5. QED BY <2>2, <2>3, <2>4
<1>8. ASSUME Remove(q) PROVE Goal
    <2> DEFINE u == req[q].user
    <2>1. u \in Users /\ req[q].id \in RoomIds
        BY <1>0, <1>8, HeldByRequest DEF Remove, At, TypeOK
    <2>2. CASE RemovePlayerAllowed(u)
        <3>1. player' = [player EXCEPT ![u] = NoRow] /\ room' = Stamped(room, req[q].id)
            BY <1>8, <2>2 DEF Remove, RemovePlayer
        <3>2. Host' = Host
            BY <1>2, <2>1, <3>1
        <3> HIDE DEF u
        <3>3. RoomOf' = [RoomOf EXCEPT ![u] = NoRoom]
            BY <1>0, <2>1, <3>1 DEF RoomOf, Placed
        <3>4. \A r \in RoomIds : Host[r] # u
            BY <2>1, <2>2, Sentinels DEF RemovePlayerAllowed, RefersTo, Host, Exists
        <3>5. M!Exit(u)
            BY <3>2, <3>3, <3>4 DEF M!Exit
        <3>6. QED BY <2>1, <3>5 DEF M!MNext
    <2>3. CASE ~RemovePlayerAllowed(u)
        BY <1>1, <1>8, <2>3 DEF Remove
    <2>4. QED BY <2>2, <2>3
<1>9. QED
    BY <1>1, <1>3, <1>4, <1>5, <1>6, <1>7, <1>8
    DEF RoomStep, CreateFind, LeaveAllFind, CreateRefused, JoinGet, FreezeGet, LeaveRoomGet,
        Leave, SetStateGet, ChangeTurnGet, CreateReread, AddGet, LeaveAllGet, LeaveAllGone,
        DeleteGet, Cancel

\* The room service implements Membership.
THEOREM Implementation == Spec => ImplementsMembership
<1>1. Init => M!MInit
    BY DEF Init, RepositoryInit, M!MInit, RoomOf, Host, Placed, Exists
<1>2. IInv /\ [Next]_vars => [M!MNext]_<<RoomOf, Host>>
    <2> SUFFICES ASSUME IInv, [Next]_vars
                 PROVE  M!MNext \/ UNCHANGED <<RoomOf, Host>>
        OBVIOUS
    <2>1. ASSUME UNCHANGED <<room, player>> PROVE UNCHANGED <<RoomOf, Host>>
        BY <2>1 DEF RoomOf, Host, Placed, Exists
    <2>2. QED BY <2>1, MembershipStep DEF Next, PassTime, Tick, tables, vars
<1>3. QED BY <1>1, <1>2, Invariance, PTL DEF Spec, ImplementsMembership, M!MSpec, M!mvars

=============================================================================
