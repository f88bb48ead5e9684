---------------------------- MODULE RoomService ----------------------------
(***************************************************************************)
(* The room service (internal/room/service.go) behind its routes           *)
(* (internal/room/api.go).  The server handles every HTTP request in its   *)
(* own goroutine and takes no lock: a handler is a sequence of repository  *)
(* calls, and the calls of the requests in progress interleave.  A request *)
(* occupies a slot q; req[q] is its next repository call with what the     *)
(* handler still holds in memory, above all the snapshot of the room it is *)
(* about to write back.                                                    *)
(*                                                                         *)
(* The arrival of a request and its first repository call are one action,  *)
(* whose arguments are the request's.  A request that its validation or    *)
(* its first read refuses (400, 401, 404) changes nothing and is left out, *)
(* as are the routes that only read.                                       *)
(***************************************************************************)
EXTENDS RoomRepository

CONSTANTS
    Requests,  \* slots: at most this many requests are in progress at once
    NoRoom,    \* the room of an idle slot
    Patches    \* the bodies of SetState

ASSUME ServiceAssumption ==
    /\ NoRoom \notin RoomIds
    /\ Patches \subseteq RoomStates

VARIABLE req

vars == <<room, player, clock, req>>

Idle == [pc |-> "Idle", user |-> Nobody, id |-> NoRoom, row |-> NoRow]

\* The repository calls a handler may be about to make: what it holds.
RequestRecords ==
    {Idle}
    \cup [pc : {"CreateInsert"}, user : Users, id : {NoRoom}, row : {NoRow}]
    \cup [pc : {"CreateReread", "AddGet", "AddInsert", "LeaveGet",
                "DeleteGet", "Delete", "Remove"},
          user : Users, id : RoomIds, row : {NoRow}]
    \cup [pc : {"Update"}, user : Users, id : RoomIds, row : RoomRows]

Init == RepositoryInit /\ req = [q \in Requests |-> Idle]

\* Request q goes on to repository call pc.
Goto(q, pc, u, r, row) ==
    req' = [req EXCEPT ![q] = [pc |-> pc, user |-> u, id |-> r, row |-> row]]

\* Request q is answered.
Answer(q) == req' = [req EXCEPT ![q] = Idle]

IsIdle(q) == req[q] = Idle

At(q, pc) == req[q].pc = pc

-----------------------------------------------------------------------------
(* POST /rooms.  The id is drawn at random: a collision with a room that   *)
(* exists is refused by the primary key, and an id is assumed not to be    *)
(* drawn again while a handler still holds what it read of its last room.  *)

HoldsSnapshot(q, r) ==
    req[q].pc \in {"Update", "DeleteGet", "Delete"} /\ req[q].id = r

CreateFind(q, u) ==
    /\ IsIdle(q)
    /\ ~Placed(u)
    /\ Goto(q, "CreateInsert", u, NoRoom, NoRow)
    /\ UNCHANGED <<room, player, clock>>

CreateInsert(q, r) ==
    /\ At(q, "CreateInsert")
    /\ CreateAllowed(r, req[q].user)
    /\ \A p \in Requests : ~HoldsSnapshot(p, r)
    /\ Create(r, req[q].user)
    /\ Goto(q, "CreateReread", req[q].user, r, NoRow)

CreateRefused(q, r) ==
    /\ At(q, "CreateInsert")
    /\ ~CreateAllowed(r, req[q].user)
    /\ Answer(q)
    /\ UNCHANGED <<room, player, clock>>

\* Answers 201 with the room, or 404 when it is already gone.
CreateReread(q) ==
    /\ At(q, "CreateReread")
    /\ Answer(q)
    /\ UNCHANGED <<room, player, clock>>

-----------------------------------------------------------------------------
(* PUT /rooms/<id>: join.  The service reads the room for the membership   *)
(* test and the repository reads it again for the frozen test.             *)

JoinGet(q, u, r) ==
    /\ IsIdle(q)
    /\ Exists(r)
    /\ ~InRoom(u, r)
    /\ Goto(q, "AddGet", u, r, NoRow)
    /\ UNCHANGED <<room, player, clock>>

\* Fault: the frozen test is missing.
AddGet_AnyRoom(q) ==
    /\ At(q, "AddGet")
    /\ IF Exists(req[q].id)
       THEN Goto(q, "AddInsert", req[q].user, req[q].id, NoRow)
       ELSE Answer(q)
    /\ UNCHANGED <<room, player, clock>>

AddGet(q) ==
    /\ At(q, "AddGet")
    /\ IF Exists(req[q].id) /\ ~room[req[q].id].frozen
       THEN Goto(q, "AddInsert", req[q].user, req[q].id, NoRow)
       ELSE Answer(q)
    /\ UNCHANGED <<room, player, clock>>

AddInsert(q) ==
    /\ At(q, "AddInsert")
    /\ IF AddPlayerAllowed(req[q].id, req[q].user)
       THEN AddPlayer(req[q].id, req[q].user)
       ELSE UNCHANGED <<room, player, clock>>
    /\ Answer(q)

-----------------------------------------------------------------------------
(* PUT .../freeze, .../state and .../turn: read the room, check, change    *)
(* the copy, write the whole copy back.                                    *)

\* Fault: freezing does not give the turn to the host.
FreezeGet_NoTurn(q, u, r) ==
    /\ IsIdle(q)
    /\ Exists(r)
    /\ u = room[r].owner
    /\ Goto(q, "Update", u, r, [room[r] EXCEPT !.frozen = TRUE])
    /\ UNCHANGED <<room, player, clock>>

\* Fault: the first turn is another member's.
FreezeGet_OtherTurn(q, u, r) ==
    /\ IsIdle(q)
    /\ Exists(r)
    /\ u = room[r].owner
    /\ \E v \in Members(r) :
          Goto(q, "Update", u, r, [room[r] EXCEPT !.frozen = TRUE, !.turn = v])
    /\ UNCHANGED <<room, player, clock>>

FreezeGet(q, u, r) ==
    /\ IsIdle(q)
    /\ Exists(r)
    /\ u = room[r].owner
    /\ Goto(q, "Update", u, r, [room[r] EXCEPT !.frozen = TRUE, !.turn = u])
    /\ UNCHANGED <<room, player, clock>>

\* Fault: everybody may set every key.
Settable_All(u, r) == Keys

\* The keys of a patch that user u may set in room r.
Settable(u, r) == IF u = room[r].owner THEN Keys ELSE {u}

\* Fault: the keys that the user may not set are lost.
Merge_Only(state, patch, keys) ==
    [k \in keys |-> IF patch[k] # Unset THEN patch[k] ELSE state[k]]

Merge(state, patch, keys) ==
    [k \in Keys |-> IF k \in keys /\ patch[k] # Unset THEN patch[k] ELSE state[k]]

SetStateGet(q, u, r, patch) ==
    /\ IsIdle(q)
    /\ Exists(r)
    /\ \E k \in Settable(u, r) : patch[k] # Unset
    /\ Goto(q, "Update", u, r,
            [room[r] EXCEPT !.state = Merge(@, patch, Settable(u, r))])
    /\ UNCHANGED <<room, player, clock>>

\* Fault: the new turn player need not be in the room.
ChangeTurnGet_Anyone(q, u, r, v) ==
    /\ IsIdle(q)
    /\ Exists(r)
    /\ u = room[r].owner
    /\ v # room[r].turn
    /\ Goto(q, "Update", u, r, [room[r] EXCEPT !.turn = v])
    /\ UNCHANGED <<room, player, clock>>

\* Fault: writes a new row with the turn instead of the copy that was read.
ChangeTurnGet_NewRow(q, u, r, v) ==
    /\ IsIdle(q)
    /\ Exists(r)
    /\ u = room[r].owner
    /\ v # room[r].turn
    /\ v \in Members(r)
    /\ Goto(q, "Update", u, r, [room[r] EXCEPT !.turn = v, !.frozen = FALSE])
    /\ UNCHANGED <<room, player, clock>>

ChangeTurnGet(q, u, r, v) ==
    /\ IsIdle(q)
    /\ Exists(r)
    /\ u = room[r].owner
    /\ v # room[r].turn
    /\ v \in Members(r)
    /\ Goto(q, "Update", u, r, [room[r] EXCEPT !.turn = v])
    /\ UNCHANGED <<room, player, clock>>

WriteRoom(q) ==
    /\ At(q, "Update")
    /\ IF UpdateAllowed(req[q].id, req[q].row)
       THEN Update(req[q].id, req[q].row)
       ELSE UNCHANGED <<room, player, clock>>
    /\ Answer(q)

-----------------------------------------------------------------------------
(* PUT .../player/state: one transaction, by anyone, for any room.         *)

PutPlayerState(q, u, r, s) ==
    /\ IsIdle(q)
    /\ SetPlayerState(r, u, s)
    /\ UNCHANGED req

-----------------------------------------------------------------------------
(* DELETE /rooms/<id> and DELETE /rooms: the host disbands the room, any   *)
(* other user leaves it.                                                   *)

\* Fault: anyone's leaving disbands the room.
Leave_NoHostTest(q, u, r) ==
    /\ Goto(q, "DeleteGet", u, r, NoRow)
    /\ UNCHANGED <<room, player, clock>>

Leave(q, u, r) ==
    /\ IF u = room[r].owner
       THEN Goto(q, "DeleteGet", u, r, NoRow)
       ELSE Goto(q, "Remove", u, r, NoRow)
    /\ UNCHANGED <<room, player, clock>>

LeaveRoomGet(q, u, r) == IsIdle(q) /\ Exists(r) /\ Leave(q, u, r)

LeaveAllFind(q, u) ==
    /\ IsIdle(q)
    /\ Placed(u)
    /\ Goto(q, "LeaveGet", u, player[u].room, NoRow)
    /\ UNCHANGED <<room, player, clock>>

LeaveAllGet(q) ==
    /\ At(q, "LeaveGet")
    /\ Exists(req[q].id)
    /\ Leave(q, req[q].user, req[q].id)

LeaveAllGone(q) ==
    /\ At(q, "LeaveGet")
    /\ ~Exists(req[q].id)
    /\ Answer(q)
    /\ UNCHANGED <<room, player, clock>>

DeleteGet(q) ==
    /\ At(q, "DeleteGet")
    /\ IF Exists(req[q].id)
       THEN Goto(q, "Delete", req[q].user, req[q].id, NoRow)
       ELSE Answer(q)
    /\ UNCHANGED <<room, player, clock>>

DeleteRoom(q) ==
    /\ At(q, "Delete")
    /\ IF DeleteAllowed(req[q].id)
       THEN Delete(req[q].id)
       ELSE UNCHANGED <<room, player, clock>>
    /\ Answer(q)

Remove(q) ==
    /\ At(q, "Remove")
    /\ IF RemovePlayerAllowed(req[q].user)
       THEN RemovePlayer(req[q].id, req[q].user)
       ELSE UNCHANGED <<room, player, clock>>
    /\ Answer(q)

-----------------------------------------------------------------------------
(* The client disconnects, the server stops, or the database aborts the    *)
(* statement: the rest of the handler does not run.                        *)
Cancel(q) == ~IsIdle(q) /\ Answer(q) /\ UNCHANGED <<room, player, clock>>

PassTime == Tick /\ UNCHANGED req

RoomStep(q) ==
    \/ \E u \in Users : CreateFind(q, u) \/ LeaveAllFind(q, u)
    \/ \E r \in RoomIds : CreateInsert(q, r) \/ CreateRefused(q, r)
    \/ \E u \in Users, r \in RoomIds :
          JoinGet(q, u, r) \/ FreezeGet(q, u, r) \/ LeaveRoomGet(q, u, r)
    \/ \E u \in Users, r \in RoomIds, patch \in Patches : SetStateGet(q, u, r, patch)
    \/ \E u, v \in Users, r \in RoomIds : ChangeTurnGet(q, u, r, v)
    \/ \E u \in Users, r \in RoomIds, s \in PlayerStates : PutPlayerState(q, u, r, s)
    \/ CreateReread(q) \/ AddGet(q) \/ AddInsert(q) \/ WriteRoom(q)
    \/ LeaveAllGet(q) \/ LeaveAllGone(q)
    \/ DeleteGet(q) \/ DeleteRoom(q) \/ Remove(q) \/ Cancel(q)

Next == PassTime \/ \E q \in Requests : RoomStep(q)

Spec == Init /\ [][Next]_vars

-----------------------------------------------------------------------------
(* Properties.                                                             *)

\* The values of the variables.
TypeOK ==
    /\ room \in [RoomIds -> RoomRows \cup {NoRow}]
    /\ player \in [Users -> PlayerRows \cup {NoRow}]
    /\ clock \in Nat
    /\ req \in [Requests -> RequestRecords]

\* A player row has its room, although one request may delete the room that
\* another has just found open and inserts a player into.
PlayersHaveRooms == \A u \in Users : Placed(u) => Exists(player[u].room)

\* A turn player has a row, although handlers write turn_player_id from
\* snapshots taken before that player left.
TurnPlayerExists ==
    \A r \in RoomIds : Exists(r) /\ room[r].turn # Nobody => Placed(room[r].turn)

\* No interleaving of the handlers, which look at neither, leaves a row that
\* refers to nothing.
ReferencesHold == PlayersHaveRooms /\ TurnPlayerExists

\* The host of a room is one of its members for as long as the room exists,
\* although RemovePlayer never looks at who the host is.
HostIsMember == \A r \in RoomIds : Exists(r) => InRoom(room[r].owner, r)

\* A frozen room always has a turn player, so that the client, which starts
\* the game when there is one and offers to start it only while the room is
\* not frozen, cannot get stuck between the two: true of the rows and of
\* every snapshot that may still be written back over them.
FrozenHasTurn ==
    /\ \A r \in RoomIds : Exists(r) /\ room[r].frozen => room[r].turn # Nobody
    /\ \A q \in Requests :
          At(q, "Update") /\ req[q].row.frozen => req[q].row.turn # Nobody

\* A handler that is about to overwrite or delete a room decided it on a
\* host that still is the host, however much happened since it read the row.
SnapshotHost ==
    \A q \in Requests, r \in RoomIds : Exists(r) /\ HoldsSnapshot(q, r) =>
        room[r].owner = IF At(q, "Update") THEN req[q].row.owner ELSE req[q].user

\* The turn player of a room is in it (ChangeTurn: "no such player in room").
TurnPlayerIsMember ==
    \A r \in RoomIds : Exists(r) /\ room[r].turn # Nobody => InRoom(room[r].turn, r)

\* A member who is not the host and asks to leave is let go.
LeaversAreLetGo ==
    \A q \in Requests :
        At(q, "Remove") /\ InRoom(req[q].user, req[q].id) =>
            RemovePlayerAllowed(req[q].user)

\* Request q takes this step.
Steps(q) == req'[q] # req[q]

\* A player is in no room any more only because it asked to leave, or
\* because the host of its room disbanded it.
OnlyLeaversLeave ==
    [][\A u \in Users : Placed(u) /\ ~Placed(u)' =>
          \E q \in Requests : Steps(q) /\
              \/ At(q, "Remove") /\ req[q].user = u
              \/ /\ At(q, "Delete")
                 /\ InRoom(u, req[q].id)
                 /\ req[q].user = room[req[q].id].owner]_vars

\* A room ends only at the request of its host, and nobody else ever becomes
\* its host, although Update writes owner_id from an old snapshot.
HostDecides ==
    [][\A r \in RoomIds : Exists(r) =>
          \/ Exists(r)' /\ room'[r].owner = room[r].owner
          \/ /\ ~Exists(r)'
             /\ \E q \in Requests : Steps(q) /\ req[q].user = room[r].owner]_vars

\* What a refresh shows of room r.
View(r) == [row |-> IF Exists(r) THEN [room[r] EXCEPT !.updated = 0] ELSE NoRow,
            players |-> [u \in Members(r) |-> player[u].state]]

\* Whatever a refresh shows changes only together with updated_at, on which
\* the answer "Resource has not been modified." is decided, except for a
\* member who is taken out by a request that names another room.
ChangesAreStamped ==
    [][\A r \in RoomIds : Exists(r) /\ Exists(r)' /\ View(r)' # View(r) =>
          \/ room'[r].updated = clock
          \/ \E q \in Requests : Steps(q) /\ At(q, "Remove") /\ req[q].id # r]_vars

\* Nobody joins a frozen room (Freeze: "so that no other players can join").
FrozenRoomClosed ==
    [][\A r \in RoomIds : Exists(r) /\ room[r].frozen =>
          Members(r)' \subseteq Members(r)]_vars

\* A frozen room stays frozen.
FreezeIsPermanent ==
    [][\A r \in RoomIds :
          Exists(r) /\ Exists(r)' /\ room[r].frozen => room'[r].frozen]_vars

\* "Non-hosts can only change their own data.": a step of somebody who is
\* not the host leaves the row of the room as it is, but for its stamp and
\* the value of the user's own key.
NonHostsChangeOwnDataOnly ==
    [][\A q \in Requests, r \in RoomIds :
          Steps(q) /\ Exists(r) /\ Exists(r)' /\ req[q].user # room[r].owner
          => /\ room'[r].frozen = room[r].frozen
             /\ room'[r].turn = room[r].turn
             /\ \A k \in Keys \ {req[q].user} : room'[r].state[k] = room[r].state[k]]_vars

\* A request to leave a room takes nobody out of another one ("Remove the
\* user from the room.").
LeavingIsConfined ==
    [][\A q \in Requests, u \in Users :
          Steps(q) /\ At(q, "Remove") /\ Placed(u) /\ ~Placed(u)' =>
              InRoom(u, req[q].id)]_vars

=============================================================================
