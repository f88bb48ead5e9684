-------------------------- MODULE SequentialProofs --------------------------
(***************************************************************************)
(* Proofs about requests that do not overlap in the ways that matter, for  *)
(* every set of users, rooms, keys and bodies, and any number of requests. *)
(* Each of the four rules that the handlers break when they interleave     *)
(* (FreezeIsPermanent, NonHostsChangeOwnDataOnly, FrozenRoomClosed,        *)
(* TurnPlayerIsMember) holds of every behaviour in which one kind of       *)
(* overlap never happens: the overlap is the only cause, and all that a    *)
(* row lock or a transaction would have to exclude.  That nothing overlaps *)
(* is the special case of a single slot.  That changes are stamped needs   *)
(* no such assumption.                                                     *)
(***************************************************************************)
EXTENDS RoomServiceProofs

\* There is no more than one request in progress.
OneAtATime == \A p, q \in Requests : p = q

\* No two requests are between their read of a room and their write of it.
WritersAlone ==
    \A p, q \in Requests :
        At(p, "Update") /\ At(q, "Update") /\ req[p].id = req[q].id => p = q

\* No request is between its read of a room and its write of it while a join
\* of that room has passed its frozen test.
JoinsApart ==
    \A p, q \in Requests : At(p, "AddInsert") /\ At(q, "Update") => req[p].id # req[q].id

\* No user is being removed while a request is about to write it as the turn
\* player.
TurnsApart ==
    \A p, q \in Requests : At(p, "Remove") /\ At(q, "Update") => req[q].row.turn # req[p].user

LEMMA OneAtATimeSuffices ==
    ASSUME OneAtATime
    PROVE  WritersAlone /\ JoinsApart /\ TurnsApart
BY DEF OneAtATime, WritersAlone, JoinsApart, TurnsApart, At

LEMMA SeqTypes ==
    ASSUME IInv
    PROVE  /\ TypeOK /\ TablesOK /\ HostIsMember
           /\ \A r \in RoomIds : Exists(r) => room[r] \in RoomRows
BY DEF IInv, TypeOK, TablesOK, Exists

-----------------------------------------------------------------------------
(* What a step does to the rows and to the members.                        *)

\* What a step may do to the tables, by the call that it makes.
LEMMA TableSteps ==
    ASSUME TypeOK, NEW q \in Requests, RoomStep(q)
    PROVE  \/ UNCHANGED <<room, player, clock>>
           \/ \E r \in RoomIds, u \in Users :
                \/ CreateAllowed(r, u) /\ Create(r, u) /\ At(q, "CreateInsert")
                \/ /\ AddPlayerAllowed(r, u) /\ AddPlayer(r, u)
                   /\ At(q, "AddInsert") /\ req[q].id = r
                \/ \E st \in PlayerStates : SetPlayerState(r, u, st) /\ IsIdle(q) /\ UNCHANGED req
                \/ /\ \E row \in RoomRows : /\ UpdateAllowed(r, row) /\ Update(r, row)
                                            /\ req[q].row = row
                   /\ At(q, "Update") /\ req[q].id = r /\ req[q].user = u
                \/ DeleteAllowed(r) /\ Delete(r) /\ At(q, "Delete")
                \/ /\ RemovePlayerAllowed(u) /\ RemovePlayer(r, u)
                   /\ At(q, "Remove") /\ req[q].id = r /\ req[q].user = u /\ Answer(q)
<1>0. req \in [Requests -> RequestRecords]
    BY DEF TypeOK
<1>1. ASSUME NEW r \in RoomIds, CreateInsert(q, r) PROVE req[q].user \in Users
    BY <1>0, <1>1, HeldByRequest DEF CreateInsert
<1>2. ASSUME AddInsert(q) \/ WriteRoom(q) \/ DeleteRoom(q) \/ Remove(q)
      PROVE  req[q].user \in Users /\ req[q].id \in RoomIds
    BY <1>0, <1>2, HeldByRequest DEF AddInsert, WriteRoom, DeleteRoom, Remove, At
<1>3. At(q, "Update") => req[q].row \in RoomRows
    BY <1>0, HeldByRequest
<1>4. CASE \/ \E u \in Users : CreateFind(q, u) \/ LeaveAllFind(q, u)
           \/ \E r \in RoomIds : CreateRefused(q, r)
           \/ \E u \in Users, r \in RoomIds :
                 JoinGet(q, u, r) \/ FreezeGet(q, u, r) \/ LeaveRoomGet(q, u, r)
           \/ \E u \in Users, r \in RoomIds, patch \in Patches : SetStateGet(q, u, r, patch)
           \/ \E u, v \in Users, r \in RoomIds : ChangeTurnGet(q, u, r, v)
    BY <1>4 DEF CreateFind, LeaveAllFind, CreateRefused, JoinGet, FreezeGet, LeaveRoomGet,
                Leave, SetStateGet, ChangeTurnGet
<1>5. CASE \/ CreateReread(q) \/ AddGet(q) \/ LeaveAllGet(q) \/ LeaveAllGone(q)
           \/ DeleteGet(q) \/ Cancel(q)
    BY <1>5 DEF CreateReread, AddGet, LeaveAllGet, Leave, LeaveAllGone, DeleteGet, Cancel
<1>6. ASSUME NEW r \in RoomIds, CreateInsert(q, r)
      PROVE  \E u \in Users : CreateAllowed(r, u) /\ Create(r, u) /\ At(q, "CreateInsert")
    BY <1>1, <1>6 DEF CreateInsert
<1>7. ASSUME NEW u \in Users, NEW r \in RoomIds, NEW st \in PlayerStates,
             PutPlayerState(q, u, r, st)
      PROVE  SetPlayerState(r, u, st) /\ IsIdle(q) /\ UNCHANGED req
    BY <1>7 DEF PutPlayerState
<1>8. CASE AddInsert(q)
    BY <1>2, <1>8 DEF AddInsert
<1>9. CASE WriteRoom(q)
    BY <1>2, <1>3, <1>9 DEF WriteRoom
<1>10. CASE DeleteRoom(q)
    BY <1>2, <1>10 DEF DeleteRoom
<1>11. CASE Remove(q)
    BY <1>2, <1>11 DEF Remove
<1>12. QED
    BY <1>4, <1>5, <1>6, <1>7, <1>8, <1>9, <1>10, <1>11 DEF RoomStep

\* The row of a room stays but for its stamp, or is written over by a copy.
RowKept(r) ==
    /\ room'[r].turn = room[r].turn
    /\ room'[r].frozen = room[r].frozen
    /\ room'[r].state = room[r].state

RowWritten(q, r) ==
    /\ At(q, "Update") /\ req[q].id = r
    /\ room'[r].turn = req[q].row.turn
    /\ room'[r].frozen = req[q].row.frozen
    /\ room'[r].state = req[q].row.state

\* All that the step of a request may do: write its copy over a room, create
\* a room, add a player, and remove players.
RowEffects(q) ==
    \A r \in RoomIds : Exists(r)' =>
        IF Exists(r) THEN RowKept(r) \/ RowWritten(q, r)
        ELSE ~room'[r].frozen /\ room'[r].turn = Nobody

Joins(q) ==
    \A r \in RoomIds, v \in Users : InRoom(v, r)' /\ ~InRoom(v, r) /\ Exists(r) =>
        At(q, "AddInsert") /\ req[q].id = r

Leaves(q) ==
    \A r \in RoomIds, v \in Users : InRoom(v, r) /\ ~InRoom(v, r)' /\ Exists(r)' =>
        At(q, "Remove") /\ req[q].user = v /\ RemovePlayerAllowed(v)

Effects(q) == RowEffects(q) /\ Joins(q) /\ Leaves(q)

\* A stamp moves nothing else.
LEMMA StampMoves ==
    ASSUME TypeOK, NEW r \in RoomIds, room' = Stamped(room, r)
    PROVE  \A s \in RoomIds : /\ Exists(s)' = Exists(s)
                              /\ Exists(s) => RowKept(s)
<1>1. /\ room \in [RoomIds -> RoomRows \cup {NoRow}]
      /\ \A s \in RoomIds : Exists(s) => room[s] \in RoomRows
      /\ NoRow \notin RoomRows
    BY Sentinels DEF TypeOK, Exists
<1>2. CASE ~Exists(r)
    BY <1>1, <1>2 DEF Stamped, RowKept, Exists
<1>3. CASE Exists(r)
    <2>1. /\ room'[r] = [room[r] EXCEPT !.updated = clock]
          /\ \A s \in RoomIds \ {r} : room'[s] = room[s]
        BY <1>1, <1>3 DEF Stamped, Exists
    <2>2. [room[r] EXCEPT !.updated = clock] \in RoomRows
        BY <1>1, <1>3 DEF TypeOK, RoomRows
    <2>3. RowKept(r)
        BY <1>1, <1>3, <2>1 DEF RowKept, RoomRows
    <2>4. QED BY <1>1, <1>3, <2>1, <2>2, <2>3 DEF Exists, RowKept
<1>4. QED BY <1>2, <1>3

LEMMA StepEffects ==
    ASSUME TypeOK, NEW q \in Requests, RoomStep(q)
    PROVE  Effects(q)
<1>0. /\ room \in [RoomIds -> RoomRows \cup {NoRow}]
      /\ player \in [Users -> PlayerRows \cup {NoRow}]
      /\ NoRow \notin RoomRows /\ NoRow \notin PlayerRows
    BY Sentinels DEF TypeOK
<1>1. CASE UNCHANGED <<room, player, clock>>
    BY <1>1 DEF Effects, RowEffects, Joins, Leaves, RowKept, Exists, InRoom
<1>2. ASSUME NEW r \in RoomIds, NEW u \in Users, CreateAllowed(r, u), Create(r, u)
      PROVE  Effects(q)
    <2>1. /\ ~Exists(r)
          /\ room'[r].turn = Nobody /\ ~room'[r].frozen
          /\ \A s \in RoomIds \ {r} : room'[s] = room[s]
          /\ player[u] = NoRow
          /\ player'[u].room = r
          /\ \A v \in Users \ {u} : player'[v] = player[v]
        BY <1>0, <1>2 DEF Create, CreateAllowed, Placed
    <2>a. RowEffects(q)
        BY <2>1 DEF RowEffects, RowKept, Exists
    <2>b. Joins(q) /\ Leaves(q)
        BY <2>1 DEF Joins, Leaves, Exists, InRoom
    <2>c. QED BY <2>a, <2>b DEF Effects
<1>3. ASSUME NEW r \in RoomIds, NEW u \in Users, AddPlayerAllowed(r, u), AddPlayer(r, u),
             At(q, "AddInsert"), req[q].id = r
      PROVE  Effects(q)
    <2>1. /\ player[u] = NoRow
          /\ player'[u].room = r
          /\ \A v \in Users \ {u} : player'[v] = player[v]
        BY <1>0, <1>3 DEF AddPlayer, AddPlayerAllowed, Placed
    <2>2. \A s \in RoomIds : Exists(s)' = Exists(s) /\ (Exists(s) => RowKept(s))
        BY <1>3, StampMoves DEF AddPlayer
    <2>a. RowEffects(q)
        BY <2>2 DEF RowEffects
    <2>b. Joins(q) /\ Leaves(q)
        BY <1>3, <2>1 DEF Joins, Leaves, InRoom
    <2>c. QED BY <2>a, <2>b DEF Effects
<1>4. ASSUME NEW r \in RoomIds, NEW u \in Users, NEW st \in PlayerStates,
             SetPlayerState(r, u, st)
      PROVE  Effects(q)
    <2>1. \A v \in Users, s \in RoomIds : InRoom(v, s)' = InRoom(v, s)
        BY <1>0, <1>4 DEF SetPlayerState, InRoom, PlayerRows
    <2>2. \A s \in RoomIds : Exists(s)' = Exists(s) /\ (Exists(s) => RowKept(s))
        BY <1>4, StampMoves DEF SetPlayerState
    <2>a. RowEffects(q)
        BY <2>2 DEF RowEffects
    <2>b. Joins(q) /\ Leaves(q)
        BY <2>1 DEF Joins, Leaves
    <2>c. QED BY <2>a, <2>b DEF Effects
<1>5. ASSUME NEW r \in RoomIds, NEW row \in RoomRows, Update(r, row), req[q].row = row,
             At(q, "Update"), req[q].id = r
      PROVE  Effects(q)
    <2>1. \A v \in Users, s \in RoomIds : InRoom(v, s)' = InRoom(v, s)
        BY <1>5 DEF Update, InRoom
    <2>2. CASE ~Exists(r)
        <3>a. RowEffects(q)
            BY <1>5, <2>2 DEF RowEffects, Update, Exists, RowKept
        <3>b. Joins(q) /\ Leaves(q)
            BY <2>1 DEF Joins, Leaves
        <3>c. QED BY <3>a, <3>b DEF Effects
    <2>3. CASE Exists(r)
        <3>1. /\ room'[r].turn = row.turn
              /\ room'[r].frozen = row.frozen
              /\ room'[r].state = row.state
              /\ \A s \in RoomIds \ {r} : room'[s] = room[s]
            BY <1>0, <1>5, <2>3 DEF Update, RoomRows
        <3>a. RowEffects(q)
            BY <1>5, <2>3, <3>1 DEF RowEffects, Exists, RowKept, RowWritten
        <3>b. Joins(q) /\ Leaves(q)
            BY <2>1 DEF Joins, Leaves
        <3>c. QED BY <3>a, <3>b DEF Effects
    <2>4. QED BY <2>2, <2>3
<1>6. ASSUME NEW r \in RoomIds, Delete(r) PROVE Effects(q)
    <2>1. /\ ~Exists(r)'
          /\ \A s \in RoomIds \ {r} : room'[s] = room[s]
          /\ \A v \in Users : player'[v] = IF InRoom(v, r) THEN NoRow ELSE player[v]
        BY <1>0, <1>6 DEF Delete, Exists
    <2>2. /\ \A v \in Users, s \in RoomIds : InRoom(v, s)' => InRoom(v, s)
          /\ \A v \in Users, s \in RoomIds \ {r} : InRoom(v, s) => InRoom(v, s)'
        BY <2>1 DEF InRoom
    <2>a. RowEffects(q)
        BY <2>1 DEF RowEffects, RowKept, Exists
    <2>b. Joins(q) /\ Leaves(q)
        BY <2>1, <2>2 DEF Joins, Leaves, Exists
    <2>c. QED BY <2>a, <2>b DEF Effects
<1>7. ASSUME NEW r \in RoomIds, NEW u \in Users, RemovePlayerAllowed(u), RemovePlayer(r, u),
             At(q, "Remove"), req[q].user = u
      PROVE  Effects(q)
    <2>1. /\ player'[u] = NoRow
          /\ \A v \in Users \ {u} : player'[v] = player[v]
        BY <1>0, <1>7 DEF RemovePlayer
    <2>2. /\ \A v \in Users, s \in RoomIds : InRoom(v, s)' => InRoom(v, s)
          /\ \A v \in Users \ {u}, s \in RoomIds : InRoom(v, s) => InRoom(v, s)'
        BY <2>1 DEF InRoom
    <2>3. \A s \in RoomIds : Exists(s)' = Exists(s) /\ (Exists(s) => RowKept(s))
        BY <1>7, StampMoves DEF RemovePlayer
    <2>a. RowEffects(q)
        BY <2>3 DEF RowEffects
    <2>b. Joins(q) /\ Leaves(q)
        BY <1>7, <2>2 DEF Joins, Leaves
    <2>c. QED BY <2>a, <2>b DEF Effects
<1>8. QED BY <1>1, <1>2, <1>3, <1>4, <1>5, <1>6, <1>7, TableSteps

-----------------------------------------------------------------------------
(* What the handlers hold.                                                 *)

\* The room that q adds a player to is not frozen.
JoinOK(q) == At(q, "AddInsert") /\ Exists(req[q].id) => ~room[req[q].id].frozen

\* The copy that q writes back unfreezes nothing and, if it is a guest's,
\* differs from the row in the guest's own key only.
CopyOK(q) ==
    At(q, "Update") /\ Exists(req[q].id) =>
        /\ room[req[q].id].frozen => req[q].row.frozen
        /\ req[q].user # room[req[q].id].owner =>
              /\ req[q].row.frozen = room[req[q].id].frozen
              /\ req[q].row.turn = room[req[q].id].turn
              /\ \A k \in Keys \ {req[q].user} :
                    req[q].row.state[k] = room[req[q].id].state[k]

\* The copy that q writes back gives the turn to nobody outside the room.
TurnOK(q) ==
    At(q, "Update") /\ Exists(req[q].id) /\ req[q].row.turn # Nobody =>
        InRoom(req[q].row.turn, req[q].id)

\* What q holds after its step is right; of the turn player it is as long as
\* the turn players of the rows are members.
HandlerOK(q) == JoinOK(q)' /\ CopyOK(q)' /\ (TurnPlayerIsMember => TurnOK(q)')

\* A request that is answered, or goes on to a call other than the two.
LEMMA OtherCalls ==
    ASSUME NEW q \in Requests, req'[q].pc \notin {"AddInsert", "Update"}
    PROVE  HandlerOK(q)
BY DEF HandlerOK, JoinOK, CopyOK, TurnOK, At

\* The copies that the handlers of freeze, state and turn make.
LEMMA CopiesOK ==
    ASSUME IInv, NEW q \in Requests, NEW u \in Users, NEW r \in RoomIds,
           \/ FreezeGet(q, u, r)
           \/ \E patch \in Patches : SetStateGet(q, u, r, patch)
           \/ \E v \in Users : ChangeTurnGet(q, u, r, v)
    PROVE  HandlerOK(q)
<1>0. /\ TypeOK /\ HostIsMember
      /\ Exists(r) /\ room[r] \in RoomRows
      /\ UNCHANGED <<room, player>>
    BY SeqTypes DEF FreezeGet, SetStateGet, ChangeTurnGet
<1>1. SUFFICES ASSUME NEW row, Goto(q, "Update", u, r, row),
                      room[r].frozen => row.frozen,
                      TurnPlayerIsMember /\ row.turn # Nobody => InRoom(row.turn, r),
                      u # room[r].owner =>
                         /\ row.frozen = room[r].frozen
                         /\ row.turn = room[r].turn
                         /\ \A k \in Keys \ {u} : row.state[k] = room[r].state[k]
               PROVE  HandlerOK(q)
    <2>1. CASE FreezeGet(q, u, r)
        <3> DEFINE row == [room[r] EXCEPT !.frozen = TRUE, !.turn = u]
        <3>1. Goto(q, "Update", u, r, row) /\ u = room[r].owner
            BY <2>1 DEF FreezeGet
        <3>2. row.frozen /\ row.turn = u
            BY <1>0 DEF RoomRows
        <3>3. InRoom(u, r)
            BY <1>0, <3>1 DEF HostIsMember
        <3> HIDE DEF row
        <3>4. QED BY <1>1, <3>1, <3>2, <3>3
    <2>2. ASSUME NEW patch \in Patches, SetStateGet(q, u, r, patch) PROVE HandlerOK(q)
        <3> DEFINE row == [room[r] EXCEPT !.state = Merge(@, patch, Settable(u, r))]
        <3>1. Goto(q, "Update", u, r, row)
            BY <2>2 DEF SetStateGet
        <3>2. /\ row.frozen = room[r].frozen /\ row.turn = room[r].turn
              /\ row.state = Merge(room[r].state, patch, Settable(u, r))
            BY <1>0 DEF RoomRows
        <3>3. u # room[r].owner => \A k \in Keys \ {u} : row.state[k] = room[r].state[k]
            BY <3>2 DEF Merge, Settable
        <3>4. TurnPlayerIsMember /\ row.turn # Nobody => InRoom(row.turn, r)
            BY <1>0, <3>2 DEF TurnPlayerIsMember
        <3> HIDE DEF row
        <3>5. QED BY <1>1, <3>1, <3>2, <3>3, <3>4
    <2>3. ASSUME NEW v \in Users, ChangeTurnGet(q, u, r, v) PROVE HandlerOK(q)
        <3> DEFINE row == [room[r] EXCEPT !.turn = v]
        <3>1. Goto(q, "Update", u, r, row) /\ u = room[r].owner /\ InRoom(v, r)
            BY <2>3 DEF ChangeTurnGet, Members
        <3>2. row.frozen = room[r].frozen /\ row.turn = v
            BY <1>0 DEF RoomRows
        <3> HIDE DEF row
        <3>3. QED BY <1>1, <3>1, <3>2
    <2>4. QED BY <2>1, <2>2, <2>3
<1>2. /\ req'[q].pc = "Update" /\ req'[q].id = r /\ req'[q].user = u /\ req'[q].row = row
    BY <1>0, <1>1 DEF TypeOK, Goto
<1>3. JoinOK(q)'
    BY <1>2 DEF JoinOK, At
<1>4. CopyOK(q)'
    BY <1>0, <1>1, <1>2 DEF CopyOK, At, Exists
<1>5. TurnPlayerIsMember => TurnOK(q)'
    BY <1>0, <1>1, <1>2 DEF TurnOK, At, Exists, InRoom
<1>6. QED BY <1>3, <1>4, <1>5 DEF HandlerOK

\* What a request that takes a step holds next.
LEMMA HandlerStep ==
    ASSUME IInv, NEW q \in Requests, RoomStep(q)
    PROVE  HandlerOK(q)
<1>0. TypeOK
    BY SeqTypes
<1>1. ASSUME Answer(q) PROVE HandlerOK(q)
    BY <1>0, <1>1, AnswerMoves, OtherCalls DEF Idle
<1>2. ASSUME NEW pc \in {"CreateInsert", "CreateReread", "AddGet", "LeaveGet", "DeleteGet",
                         "Delete", "Remove"},
             NEW u, NEW r, NEW row, Goto(q, pc, u, r, row)
      PROVE  HandlerOK(q)
    <2>1. req'[q].pc = pc
        BY <1>0, <1>2 DEF TypeOK, Goto
    <2>2. QED BY <2>1, OtherCalls
<1>3. ASSUME NEW u \in Users, CreateFind(q, u) \/ LeaveAllFind(q, u) PROVE HandlerOK(q)
    BY <1>2, <1>3 DEF CreateFind, LeaveAllFind
<1>4. ASSUME NEW r \in RoomIds, CreateInsert(q, r) \/ CreateRefused(q, r) PROVE HandlerOK(q)
    BY <1>1, <1>2, <1>4 DEF CreateInsert, CreateRefused
<1>5. ASSUME NEW u \in Users, NEW r \in RoomIds, JoinGet(q, u, r) \/ LeaveRoomGet(q, u, r)
      PROVE  HandlerOK(q)
    BY <1>2, <1>5 DEF JoinGet, LeaveRoomGet, Leave
<1>6. ASSUME NEW u \in Users, NEW r \in RoomIds, NEW st \in PlayerStates,
             PutPlayerState(q, u, r, st)
      PROVE  HandlerOK(q)
    BY <1>6, OtherCalls DEF PutPlayerState, IsIdle, Idle
<1>7. CASE AddGet(q)
    <2>1. CASE Answer(q)
        BY <1>1, <2>1
    <2>2. ASSUME NEW r, r = req[q].id, ~room[r].frozen,
                 Goto(q, "AddInsert", req[q].user, r, NoRow)
          PROVE  HandlerOK(q)
        <3>1. req'[q].pc = "AddInsert" /\ req'[q].id = r
            BY <1>0, <2>2 DEF TypeOK, Goto
        <3>2. UNCHANGED room
            BY <1>7 DEF AddGet
        <3>3. QED BY <2>2, <3>1, <3>2 DEF HandlerOK, JoinOK, CopyOK, TurnOK, At, Exists
    <2>3. QED BY <1>7, <2>1, <2>2 DEF AddGet
<1>8. CASE LeaveAllGet(q)
    BY <1>2, <1>8 DEF LeaveAllGet, Leave
<1>9. CASE DeleteGet(q)
    BY <1>1, <1>2, <1>9 DEF DeleteGet
<1>10. CASE \/ CreateReread(q) \/ AddInsert(q) \/ WriteRoom(q) \/ LeaveAllGone(q)
            \/ DeleteRoom(q) \/ Remove(q) \/ Cancel(q)
    BY <1>1, <1>10
    DEF CreateReread, AddInsert, WriteRoom, LeaveAllGone, DeleteRoom, Remove, Cancel
<1>11. QED
    BY <1>3, <1>4, <1>5, <1>6, <1>7, <1>8, <1>9, <1>10, CopiesOK DEF RoomStep

\* What a step of q leaves of what another request p holds.
LEMMA OthersHold ==
    ASSUME IInv, NEW q \in Requests, RoomStep(q), NEW p \in Requests \ {q}
    PROVE  /\ req'[p] = req[p]
           /\ At(p, "AddInsert") \/ At(p, "Update") => req[p].id \in RoomIds
           /\ At(p, "Update") /\ Exists(req[p].id)' => Exists(req[p].id)
           /\ At(p, "Update") /\ req[p].row.turn # Nobody => req[p].row.turn \in Users
<1>1. req'[p] = req[p] /\ OnlyFreshRooms
    BY RoomStepKeeps
<1>2. /\ At(p, "AddInsert") \/ At(p, "Update") => req[p].id \in RoomIds
      /\ At(p, "Update") => req[p].row \in RoomRows
    BY SeqTypes, HeldByRequest DEF TypeOK, At
<1>3. ASSUME NEW r \in RoomIds, At(p, "Update"), req[p].id = r, Exists(r)'
      PROVE  Exists(r)
    BY <1>1, <1>3 DEF OnlyFreshRooms, HoldsSnapshot, At
<1>4. At(p, "Update") /\ Exists(req[p].id)' => Exists(req[p].id)
    BY <1>1, <1>2, <1>3 DEF Exists
<1>5. QED BY <1>1, <1>2, <1>4 DEF RoomRows

LEMMA OthersJoin ==
    ASSUME IInv, NEW q \in Requests, RoomStep(q), NEW p \in Requests \ {q}, JoinsApart, JoinOK(p)
    PROVE  JoinOK(p)'
<1>1. /\ RowEffects(q) /\ req'[p] = req[p]
      /\ At(p, "AddInsert") => req[p].id \in RoomIds
    BY SeqTypes, StepEffects, OthersHold DEF Effects
<1>2. SUFFICES ASSUME NEW r \in RoomIds, r = req[p].id, At(p, "AddInsert"), Exists(r)'
               PROVE  ~room'[r].frozen
    BY <1>1 DEF JoinOK, At, Exists
<1>3. ~RowWritten(q, r)
    BY <1>2 DEF JoinsApart, RowWritten
<1>4. QED BY <1>1, <1>2, <1>3 DEF RowEffects, RowKept, JoinOK

LEMMA OthersCopy ==
    ASSUME IInv, NEW q \in Requests, RoomStep(q), NEW p \in Requests \ {q}, WritersAlone, CopyOK(p)
    PROVE  CopyOK(p)'
<1>1. /\ RowEffects(q) /\ req'[p] = req[p] /\ SameHosts
      /\ At(p, "Update") => req[p].id \in RoomIds
      /\ At(p, "Update") /\ Exists(req[p].id)' => Exists(req[p].id)
    BY SeqTypes, StepEffects, OthersHold, RoomStepKeeps DEF Effects
<1>2. CASE ~At(p, "Update")
    BY <1>1, <1>2 DEF CopyOK, At
<1>3. ASSUME NEW r \in RoomIds, r = req[p].id, At(p, "Update"), Exists(r)'
      PROVE  Exists(r) /\ RowKept(r) /\ room'[r].owner = room[r].owner
    <2>1. Exists(r)
        BY <1>1, <1>3 DEF Exists
    <2>2. ~RowWritten(q, r)
        BY <1>3 DEF WritersAlone, RowWritten
    <2>3. QED BY <1>1, <1>3, <2>1, <2>2 DEF RowEffects, SameHosts
<1>4. QED BY <1>1, <1>2, <1>3 DEF CopyOK, RowKept, At, Exists

LEMMA OthersTurn ==
    ASSUME IInv, NEW q \in Requests, RoomStep(q), NEW p \in Requests \ {q}, TurnsApart, TurnOK(p)
    PROVE  TurnOK(p)'
<1>1. /\ Leaves(q) /\ req'[p] = req[p]
      /\ At(p, "Update") => req[p].id \in RoomIds
      /\ At(p, "Update") /\ Exists(req[p].id)' => Exists(req[p].id)
      /\ At(p, "Update") /\ req[p].row.turn # Nobody => req[p].row.turn \in Users
    BY SeqTypes, StepEffects, OthersHold DEF Effects
<1>2. SUFFICES ASSUME NEW r \in RoomIds, r = req[p].id, At(p, "Update"), Exists(r)',
                      NEW v \in Users, v = req[p].row.turn, v # Nobody
               PROVE  InRoom(v, r)'
    BY <1>1 DEF TurnOK, At, Exists, InRoom
<1>3. InRoom(v, r)
    BY <1>1, <1>2 DEF TurnOK, Exists
<1>4. ~(At(q, "Remove") /\ req[q].user = v)
    BY <1>2 DEF TurnsApart
<1>5. QED BY <1>1, <1>2, <1>3, <1>4 DEF Leaves

-----------------------------------------------------------------------------
(* The invariants and the theorems.                                        *)

JoinInv == IInv /\ \A q \in Requests : JoinOK(q)

CopyInv == IInv /\ \A q \in Requests : CopyOK(q)

TurnInv == IInv /\ TurnPlayerIsMember /\ \A q \in Requests : TurnOK(q)

ClosedStep ==
    \A r \in RoomIds : Exists(r) /\ room[r].frozen => Members(r)' \subseteq Members(r)

FrozenStep ==
    \A r \in RoomIds : Exists(r) /\ Exists(r)' /\ room[r].frozen => room'[r].frozen

OwnStep(q) ==
    \A r \in RoomIds : Exists(r) /\ Exists(r)' /\ req[q].user # room[r].owner =>
        /\ room'[r].frozen = room[r].frozen
        /\ room'[r].turn = room[r].turn
        /\ \A k \in Keys \ {req[q].user} : room'[r].state[k] = room[r].state[k]

\* A step is a request's, or leaves the tables and the requests alone.
LEMMA StepCases ==
    ASSUME [Next]_vars
    PROVE  UNCHANGED <<room, player, req>> \/ \E q \in Requests : RoomStep(q)
BY DEF Next, PassTime, Tick, tables, vars

LEMMA HandlersInit ==
    ASSUME Init
    PROVE  JoinInv /\ CopyInv /\ TurnInv
BY InitKeeps DEF JoinInv, CopyInv, TurnInv, Init, RepositoryInit, TurnPlayerIsMember,
                 JoinOK, CopyOK, TurnOK, At, Exists, Idle

LEMMA JoinNext ==
    ASSUME JoinInv, JoinsApart, [Next]_vars
    PROVE  JoinInv' /\ ClosedStep
<1>0. IInv /\ IInv'
    BY NextKeeps DEF JoinInv
<1>1. CASE UNCHANGED <<room, player, req>>
    BY <1>0, <1>1 DEF JoinInv, JoinOK, At, Exists, ClosedStep, Members, InRoom
<1>2. ASSUME NEW q \in Requests, RoomStep(q) PROVE JoinInv' /\ ClosedStep
    <2>1. \A p \in Requests : JoinOK(p)'
        BY <1>0, <1>2, HandlerStep, OthersJoin DEF JoinInv, HandlerOK
    <2>2. Joins(q) /\ JoinOK(q)
        BY <1>0, <1>2, SeqTypes, StepEffects DEF Effects, JoinInv
    <2>3. ASSUME NEW r \in RoomIds, NEW v \in Users, Exists(r), room[r].frozen, InRoom(v, r)'
          PROVE  InRoom(v, r)
        BY <2>2, <2>3 DEF Joins, JoinOK
    <2>4. ClosedStep
        BY <2>3 DEF ClosedStep, Members
    <2>5. QED BY <1>0, <2>1, <2>4 DEF JoinInv
<1>3. QED BY <1>1, <1>2, StepCases

LEMMA CopyNext ==
    ASSUME CopyInv, WritersAlone, [Next]_vars
    PROVE  CopyInv' /\ FrozenStep /\ \A q \in Requests : Steps(q) => OwnStep(q)
<1>0. IInv /\ IInv'
    BY NextKeeps DEF CopyInv
<1>1. CASE UNCHANGED <<room, player, req>>
    BY <1>0, <1>1 DEF CopyInv, CopyOK, At, Exists, FrozenStep, Steps
<1>2. ASSUME NEW q \in Requests, RoomStep(q)
      PROVE  CopyInv' /\ FrozenStep /\ \A p \in Requests : Steps(p) => OwnStep(p)
    <2>1. \A p \in Requests : CopyOK(p)'
        BY <1>0, <1>2, HandlerStep, OthersCopy DEF CopyInv, HandlerOK
    <2>2. RowEffects(q) /\ CopyOK(q)
        BY <1>0, <1>2, SeqTypes, StepEffects DEF Effects, CopyInv
    <2>3. FrozenStep
        BY <2>2 DEF FrozenStep, RowEffects, RowKept, RowWritten, CopyOK
    <2>4. OwnStep(q)
        BY <2>2 DEF OwnStep, RowEffects, RowKept, RowWritten, CopyOK
    <2>5. \A p \in Requests : Steps(p) => p = q
        BY <1>0, <1>2, OthersHold DEF Steps
    <2>6. QED BY <1>0, <2>1, <2>3, <2>4, <2>5 DEF CopyInv
<1>3. QED BY <1>1, <1>2, StepCases

LEMMA TurnNext ==
    ASSUME TurnInv, TurnsApart, [Next]_vars
    PROVE  TurnInv'
<1>0. IInv /\ IInv' /\ TurnPlayerIsMember
    BY NextKeeps DEF TurnInv
<1>1. CASE UNCHANGED <<room, player, req>>
    BY <1>0, <1>1 DEF TurnInv, TurnOK, TurnPlayerIsMember, At, Exists, InRoom
<1>2. ASSUME NEW q \in Requests, RoomStep(q) PROVE TurnInv'
    <2>1. \A p \in Requests : TurnOK(p)'
        BY <1>0, <1>2, HandlerStep, OthersTurn DEF TurnInv, HandlerOK
    <2>2. RowEffects(q) /\ Leaves(q) /\ TurnOK(q)
        BY <1>0, <1>2, SeqTypes, StepEffects DEF Effects, TurnInv
    <2>3. ASSUME NEW r \in RoomIds, Exists(r)', NEW v, v = room'[r].turn, v # Nobody
          PROVE  InRoom(v, r)'
        <3>1. Exists(r)
            BY <2>2, <2>3 DEF RowEffects
        <3>2. CASE RowWritten(q, r)
            <4>1. At(q, "Update") /\ req[q].id = r /\ v = req[q].row.turn /\ InRoom(v, r)
                BY <2>2, <2>3, <3>1, <3>2 DEF RowWritten, TurnOK
            <4>2. v \in Users
                BY <1>0, <2>3, <4>1, SeqTypes, HeldByRequest DEF TypeOK, RoomRows
            <4>3. QED BY <2>2, <2>3, <4>1, <4>2 DEF Leaves, At
        <3>3. CASE RowKept(r)
            <4>1. v = room[r].turn
                BY <2>3, <3>3 DEF RowKept
            <4>2. v \in Users
                BY <1>0, <2>3, <3>1, <4>1, SeqTypes DEF RoomRows
            <4>3. InRoom(v, r)
                BY <1>0, <2>3, <3>1, <4>1 DEF TurnPlayerIsMember
            <4>4. ~RemovePlayerAllowed(v)
                BY <3>1, <4>1 DEF RemovePlayerAllowed, RefersTo
            <4>5. QED BY <2>2, <2>3, <4>2, <4>3, <4>4 DEF Leaves
        <3>4. QED BY <2>2, <2>3, <3>1, <3>2, <3>3 DEF RowEffects
    <2>4. TurnPlayerIsMember'
        BY <2>3 DEF TurnPlayerIsMember, Exists, InRoom
    <2>5. QED BY <1>0, <2>1, <2>4 DEF TurnInv
<1>3. QED BY <1>1, <1>2, StepCases

\* As long as no user is removed between the reading and the writing of a
\* room that is to have it as its turn player, the turn player of a room is
\* in it (ChangeTurn's test, RemovePlayer and the deferred foreign key of
\* turn_player_id): that overlap is the only way to break "no such player in
\* room".
THEOREM TurnPlayerStaysMember == Spec /\ []TurnsApart => []TurnPlayerIsMember
<1>1. TurnInv /\ TurnsApart /\ [Next]_vars => TurnInv'
    BY TurnNext
<1>2. Init => TurnInv
    BY HandlersInit
<1>3. TurnInv => TurnPlayerIsMember
    BY DEF TurnInv
<1>4. QED BY <1>1, <1>2, <1>3, PTL DEF Spec

\* As long as no room is written over while a join of it has passed the test
\* of frozen, nobody joins a frozen room (AddPlayer's test and Freeze).
THEOREM FrozenRoomAdmitsNobody == Spec /\ []JoinsApart => FrozenRoomClosed
<1>1. JoinInv /\ JoinsApart /\ [Next]_vars => JoinInv'
    BY JoinNext
<1>2. Init => JoinInv
    BY HandlersInit
<1>3. JoinInv /\ JoinsApart /\ [Next]_vars =>
        [\A r \in RoomIds : Exists(r) /\ room[r].frozen => Members(r)' \subseteq Members(r)]_vars
    BY JoinNext DEF ClosedStep
<1>4. QED BY <1>1, <1>2, <1>3, PTL DEF Spec, FrozenRoomClosed

\* As long as no two requests hold copies of one room to write back, a frozen
\* room stays frozen: not even a guest's SetState of a copy read earlier can
\* take the freeze back.
THEOREM FreezeIsNeverLost == Spec /\ []WritersAlone => FreezeIsPermanent
<1>1. CopyInv /\ WritersAlone /\ [Next]_vars => CopyInv'
    BY CopyNext
<1>2. Init => CopyInv
    BY HandlersInit
<1>3. CopyInv /\ WritersAlone /\ [Next]_vars =>
        [\A r \in RoomIds :
            Exists(r) /\ Exists(r)' /\ room[r].frozen => room'[r].frozen]_vars
    BY CopyNext DEF FrozenStep
<1>4. QED BY <1>1, <1>2, <1>3, PTL DEF Spec, FreezeIsPermanent

\* As long as no two requests hold copies of one room to write back, a guest
\* changes nothing of it but its own key, whatever else is in progress (the
\* rule of service.SetState, which writes the whole row).
THEOREM GuestsWriteOwnKeyOnly == Spec /\ []WritersAlone => NonHostsChangeOwnDataOnly
<1>1. CopyInv /\ WritersAlone /\ [Next]_vars => CopyInv'
    BY CopyNext
<1>2. Init => CopyInv
    BY HandlersInit
<1>3. CopyInv /\ WritersAlone /\ [Next]_vars =>
        [\A q \in Requests, r \in RoomIds :
            Steps(q) /\ Exists(r) /\ Exists(r)' /\ req[q].user # room[r].owner
            => /\ room'[r].frozen = room[r].frozen
               /\ room'[r].turn = room[r].turn
               /\ \A k \in Keys \ {req[q].user} :
                     room'[r].state[k] = room[r].state[k]]_vars
    BY CopyNext DEF OwnStep
<1>4. QED BY <1>1, <1>2, <1>3, PTL DEF Spec, NonHostsChangeOwnDataOnly

\* When requests do not overlap, the turn player of a room is in it
\* (ChangeTurn, RemovePlayer and the deferred key of turn_player_id).
THEOREM TurnPlayerAlwaysMember ==
    ASSUME OneAtATime
    PROVE  Spec => []TurnPlayerIsMember
BY OneAtATimeSuffices, TurnPlayerStaysMember, PTL

\* When requests do not overlap, nobody joins a room that is frozen
\* (AddPlayer's test of frozen and Freeze).
THEOREM FrozenRoomsStayClosed ==
    ASSUME OneAtATime
    PROVE  Spec => FrozenRoomClosed
BY OneAtATimeSuffices, FrozenRoomAdmitsNobody, PTL

\* When requests do not overlap, a frozen room stays frozen (every handler
\* that writes a room writes the copy that it has just read).
THEOREM FrozenRoomsStayFrozen ==
    ASSUME OneAtATime
    PROVE  Spec => FreezeIsPermanent
BY OneAtATimeSuffices, FreezeIsNeverLost, PTL

\* When requests do not overlap, a guest changes nothing of a room but the
\* value of its own key (the rule of service.SetState).
THEOREM GuestsChangeOwnDataOnly ==
    ASSUME OneAtATime
    PROVE  Spec => NonHostsChangeOwnDataOnly
BY OneAtATimeSuffices, GuestsWriteOwnKeyOnly, PTL

-----------------------------------------------------------------------------
(* Changes are stamped, however requests overlap.                          *)

\* What a refresh shows is what the rows of the room and its members hold.
LEMMA SameView ==
    ASSUME NEW r \in RoomIds, Exists(r), room'[r] = room[r],
           \A u \in Users : InRoom(u, r)' = InRoom(u, r),
           \A u \in Users : InRoom(u, r) => player'[u].state = player[u].state
    PROVE  View(r)' = View(r)
<1>1. Members(r)' = Members(r)
    BY DEF Members
<1>2. Exists(r)'
    BY DEF Exists
<1>3. [u \in Members(r) |-> player[u].state]' = [u \in Members(r) |-> player[u].state]
    BY <1>1 DEF Members
<1>4. QED BY <1>2, <1>3 DEF View

\* A call shows no change of a room but the one that it stamps.
StampStep(q) ==
    \A r \in RoomIds : Exists(r) /\ Exists(r)' /\ View(r)' # View(r) =>
        room'[r].updated = clock \/ (At(q, "Remove") /\ req[q].id # r /\ Answer(q))

LEMMA StampedClock ==
    ASSUME TypeOK, NEW r \in RoomIds, Exists(r), room' = Stamped(room, r)
    PROVE  room'[r].updated = clock
BY DEF TypeOK, Stamped, Exists, RoomRows

LEMMA StampedElsewhere ==
    ASSUME TypeOK, NEW r \in RoomIds, NEW s \in RoomIds \ {r}, room' = Stamped(room, s)
    PROVE  room'[r] = room[r]
BY DEF TypeOK, Stamped

LEMMA CallsStamp ==
    ASSUME TypeOK, NEW q \in Requests, RoomStep(q)
    PROVE  StampStep(q)
<1>0. /\ player \in [Users -> PlayerRows \cup {NoRow}]
      /\ room \in [RoomIds -> RoomRows \cup {NoRow}]
    BY DEF TypeOK
<1>1. CASE UNCHANGED <<room, player, clock>>
    BY <1>1, SameView DEF StampStep, InRoom
<1>2. ASSUME NEW s \in RoomIds, NEW u \in Users, CreateAllowed(s, u), Create(s, u)
      PROVE  StampStep(q)
    <2>1. /\ \A r \in RoomIds : Exists(r) => room'[r] = room[r] /\ r # s
          /\ player'[u] = [room |-> s, state |-> EmptyState]
          /\ \A v \in Users \ {u} : player'[v] = player[v]
          /\ player[u] = NoRow
        BY <1>0, <1>2 DEF Create, CreateAllowed, Exists, Placed
    <2>2. QED BY <2>1, SameView DEF StampStep, InRoom
<1>3. ASSUME NEW s \in RoomIds, NEW u \in Users, AddPlayerAllowed(s, u), AddPlayer(s, u)
      PROVE  StampStep(q)
    <2>1. /\ player'[u] = [room |-> s, state |-> EmptyState]
          /\ \A v \in Users \ {u} : player'[v] = player[v]
          /\ player[u] = NoRow
          /\ room' = Stamped(room, s)
        BY <1>0, <1>3 DEF AddPlayer, AddPlayerAllowed, Placed
    <2>2. QED BY <2>1, SameView, StampedClock, StampedElsewhere DEF StampStep, InRoom
<1>4. ASSUME NEW s \in RoomIds, NEW u \in Users, NEW st \in PlayerStates,
             SetPlayerState(s, u, st)
      PROVE  StampStep(q)
    <2>1. room' = Stamped(room, s)
        BY <1>4 DEF SetPlayerState
    <2>2. CASE player' = player
        BY <2>1, <2>2, SameView, StampedClock, StampedElsewhere DEF StampStep, InRoom
    <2>3. CASE InRoom(u, s) /\ player' = [player EXCEPT ![u].state = st]
        <3>1. player[u] \in PlayerRows /\ NoRow \notin PlayerRows
            BY <1>0, <2>3, Sentinels DEF InRoom
        <3>2. /\ player'[u] \in PlayerRows /\ player'[u].room = s /\ player[u].room = s
              /\ \A v \in Users \ {u} : player'[v] = player[v]
            BY <1>0, <2>3, <3>1 DEF PlayerRows, InRoom
        <3>3. \A r \in RoomIds \ {s} : ~InRoom(u, r) /\ ~InRoom(u, r)'
            BY <3>2 DEF InRoom
        <3>4. ASSUME NEW r \in RoomIds \ {s}, Exists(r) PROVE View(r)' = View(r)
            <4>1. \A v \in Users \ {u} : InRoom(v, r)' = InRoom(v, r)
                BY <3>2 DEF InRoom
            <4>2. room'[r] = room[r]
                BY <2>1, StampedElsewhere
            <4>3. \A v \in Users : InRoom(v, r)' = InRoom(v, r)
                BY <3>3, <4>1 DEF InRoom
            <4>4. \A v \in Users : InRoom(v, r) => player'[v].state = player[v].state
                BY <3>2, <3>3
            <4>5. QED BY <3>4, <4>2, <4>3, <4>4, SameView
        <3>5. QED BY <2>1, <3>4, StampedClock DEF StampStep
    <2>4. QED BY <1>4, <2>2, <2>3 DEF SetPlayerState
<1>5. ASSUME NEW s \in RoomIds, NEW row \in RoomRows, Update(s, row) PROVE StampStep(q)
    <2>1. /\ \A r \in RoomIds \ {s} : room'[r] = room[r]
          /\ Exists(s) => room'[s].updated = clock
          /\ UNCHANGED player
        BY <1>0, <1>5 DEF Update, RoomRows
    <2>2. QED BY <2>1, SameView DEF StampStep, InRoom
<1>6. ASSUME NEW s \in RoomIds, Delete(s) PROVE StampStep(q)
    <2>1. /\ ~Exists(s)'
          /\ \A r \in RoomIds \ {s} : room'[r] = room[r]
          /\ \A v \in Users : player'[v] = IF InRoom(v, s) THEN NoRow ELSE player[v]
        BY <1>0, <1>6 DEF Delete, Exists
    <2>2. QED BY <2>1, SameView DEF StampStep, InRoom
<1>7. ASSUME NEW s \in RoomIds, NEW u \in Users, RemovePlayer(s, u),
             At(q, "Remove"), req[q].id = s, Answer(q)
      PROVE  StampStep(q)
    BY <1>7, StampedClock DEF StampStep, RemovePlayer
<1>8. QED BY <1>1, <1>2, <1>3, <1>4, <1>5, <1>6, <1>7, TableSteps

\* Whatever a refresh shows of a room changes only with its stamp, or when a
\* request that names another room takes a member out (the updates of
\* updated_at in repository.go, on which NotModified is decided).
THEOREM ChangesAreAlwaysStamped == Spec => ChangesAreStamped
<1>1. TypeOK /\ [Next]_vars =>
        [\A r \in RoomIds : Exists(r) /\ Exists(r)' /\ View(r)' # View(r) =>
            \/ room'[r].updated = clock
            \/ \E q \in Requests : Steps(q) /\ At(q, "Remove") /\ req[q].id # r]_vars
    <2> SUFFICES ASSUME TypeOK, Next, NEW r \in RoomIds,
                        Exists(r), Exists(r)', View(r)' # View(r)
                 PROVE  \/ room'[r].updated = clock
                        \/ \E q \in Requests : Steps(q) /\ At(q, "Remove") /\ req[q].id # r
        OBVIOUS
    <2>1. ~UNCHANGED <<room, player>>
        BY SameView DEF InRoom
    <2>2. PICK q \in Requests : RoomStep(q)
        BY <2>1 DEF Next, PassTime, Tick, tables
    <2>3. StampStep(q)
        BY <2>2, CallsStamp
    <2>4. At(q, "Remove") /\ Answer(q) => Steps(q)
        BY AnswerMoves DEF At, Steps, Idle
    <2>5. QED BY <2>3, <2>4 DEF StampStep
<1>2. QED BY <1>1, TypeCorrect, PTL DEF Spec, ChangesAreStamped
=============================================================================
