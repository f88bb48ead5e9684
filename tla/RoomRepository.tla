--------------------------- MODULE RoomRepository ---------------------------
(***************************************************************************)
(* The two tables of the game and the operations of the repository on      *)
(* them (internal/room/repository.go and the migration that creates the    *)
(* tables).  Every operator below whose name is a repository method is one *)
(* committed SQL statement or one committed transaction: PostgreSQL makes  *)
(* each of them atomic, and the service composes them without an enclosing *)
(* transaction.  A statement that a constraint of the schema refuses, and  *)
(* a transaction whose deferred constraints fail at commit, change         *)
(* nothing; <Op>Allowed says when they are accepted.                       *)
(*                                                                         *)
(* Abstracted: created_at, which no operation reads, and player names.     *)
(*                                                                         *)
(* An operator whose name ends in _<Fault> is a faulty variant of the      *)
(* operator it precedes; no action uses it.                                *)
(***************************************************************************)
EXTENDS Naturals

CONSTANTS
    Users,        \* user ids, which are also the ids of player rows
    RoomIds,      \* ids that Create can draw
    SharedKeys,   \* keys of the room state that are no player's own
    Values,       \* values of the room state
    PlayerStates, \* the states of a player
    EmptyState,   \* the column default '{}' of player.state
    Nobody,       \* NULL in room.turn_player_id
    Unset,        \* a key that the room state does not have
    NoRow,        \* no row with that primary key
    MaxClock      \* bound on the clock

\* The key "~<id>" of the room state, the own key of user <id>, is
\* represented by the user.
Keys == SharedKeys \cup Users

RoomStates == [Keys -> Values \cup {Unset}]

RoomRows == [owner : Users, turn : Users \cup {Nobody}, frozen : BOOLEAN,
             state : RoomStates, updated : Nat]

PlayerRows == [room : RoomIds, state : PlayerStates]

ASSUME SentinelAssumption ==
    /\ Nobody \notin Users
    /\ Unset \notin Values
    /\ NoRow \notin RoomRows \cup PlayerRows

ASSUME DataAssumption ==
    /\ EmptyState \in PlayerStates
    /\ SharedKeys \cap Users = {}
    /\ MaxClock \in Nat

VARIABLES
    room,    \* room[r]: the row of table room with id r, or NoRow
    player,  \* player[u]: the row of table player with id u, or NoRow
    clock    \* what time.Now() returns

tables == <<room, player>>

EmptyRoomState == [k \in Keys |-> Unset]

RepositoryInit ==
    /\ room = [r \in RoomIds |-> NoRow]
    /\ player = [u \in Users |-> NoRow]
    /\ clock = 0

-----------------------------------------------------------------------------
(* What the SELECT statements return.                                      *)

Exists(r) == room[r] # NoRow

InRoom(u, r) == player[u] # NoRow /\ player[u].room = r

Members(r) == {u \in Users : InRoom(u, r)}

Placed(u) == player[u] # NoRow

\* The rows whose deferred foreign keys to player refer to user u.
RefersTo(r, u) == Exists(r) /\ u \in {room[r].owner, room[r].turn}

-----------------------------------------------------------------------------
(* Writing operations.                                                     *)

\* Fault: the timestamp is not written.
Stamped_Not(table, r) == table

\* UPDATE room SET updated_at = now WHERE id = r, on the given table
Stamped(table, r) ==
    IF table[r] = NoRow THEN table ELSE [table EXCEPT ![r].updated = clock]

\* Fault: the player row of the host is overwritten if there is one.
CreateAllowed_Upsert(r, u) == ~Exists(r)

\* Primary keys of both tables.
CreateAllowed(r, u) == ~Exists(r) /\ ~Placed(u)

Create(r, u) ==
    /\ room' = [room EXCEPT ![r] =
                   [owner |-> u, turn |-> Nobody, frozen |-> FALSE,
                    state |-> EmptyRoomState, updated |-> clock]]
    /\ player' = [player EXCEPT ![u] = [room |-> r, state |-> EmptyState]]
    /\ UNCHANGED clock

\* Deferred foreign keys of owner_id and turn_player_id; an UPDATE that
\* finds no row succeeds.
UpdateAllowed(r, row) ==
    Exists(r) => Placed(row.owner) /\ (row.turn # Nobody => Placed(row.turn))

\* Writes every column of the snapshot the caller holds, not only those it
\* changed.
Update(r, row) ==
    /\ room' = IF Exists(r)
               THEN [room EXCEPT ![r] = [row EXCEPT !.updated = clock]]
               ELSE room
    /\ UNCHANGED <<player, clock>>

\* The rows of the members go with the room (ON DELETE CASCADE); no other
\* room may refer to them at commit.
DeleteAllowed(r) ==
    \A u \in Members(r), s \in RoomIds \ {r} : ~RefersTo(s, u)

Delete(r) ==
    /\ room' = [room EXCEPT ![r] = NoRow]
    /\ player' = [u \in Users |-> IF InRoom(u, r) THEN NoRow ELSE player[u]]
    /\ UNCHANGED clock

\* Primary key of player, foreign key room_id.
AddPlayerAllowed(r, u) == Exists(r) /\ ~Placed(u)

AddPlayer(r, u) ==
    /\ player' = [player EXCEPT ![u] = [room |-> r, state |-> EmptyState]]
    /\ room' = Stamped(room, r)
    /\ UNCHANGED clock

\* Faults: one of the two foreign keys of room is missing.
RemovePlayerAllowed_NoOwnerKey(u) ==
    \A r \in RoomIds : Exists(r) => room[r].turn # u

RemovePlayerAllowed_NoTurnKey(u) ==
    \A r \in RoomIds : Exists(r) => room[r].owner # u

RemovePlayerAllowed(u) == \A r \in RoomIds : ~RefersTo(r, u)

\* Fault: deletes by room instead of by player.
RemovePlayer_ByRoom(r, u) ==
    /\ player' = [v \in Users |-> IF InRoom(v, r) THEN NoRow ELSE player[v]]
    /\ room' = Stamped(room, r)
    /\ UNCHANGED clock

\* DELETE FROM player WHERE id = u, in whatever room u is; the room that is
\* stamped is the one the caller names.
RemovePlayer(r, u) ==
    /\ player' = [player EXCEPT ![u] = NoRow]
    /\ room' = Stamped(room, r)
    /\ UNCHANGED clock

\* Updates the player only in the named room, and stamps that room anyway.
SetPlayerState(r, u, s) ==
    /\ player' = IF InRoom(u, r) THEN [player EXCEPT ![u].state = s] ELSE player
    /\ room' = Stamped(room, r)
    /\ UNCHANGED clock

\* Time passes.
Tick == clock < MaxClock /\ clock' = clock + 1 /\ UNCHANGED tables

=============================================================================
