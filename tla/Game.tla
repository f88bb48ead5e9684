-------------------------------- MODULE Game --------------------------------
(***************************************************************************)
(* The players' pages on top of the room service: what the lobby and the   *)
(* room page ask for (Lobby.js, Room.js, RoomContext.js), when they ask,   *)
(* where they go when the answer comes, and what the room page and the     *)
(* game in it (GameScreen.js) make of the room that they are shown.        *)
(*                                                                         *)
(* A player has one page; a call that it makes occupies a slot of the      *)
(* service from the click until the answer has arrived, and goes on when   *)
(* the page is left, but not when it is loaded again.  Starting a game is  *)
(* two calls, of which the second is sent when the first is answered.      *)
(*                                                                         *)
(* A refresh is one step (RoomRefresh is about late and lost answers), and *)
(* everybody is logged in (Session).  A page is not opened on a room whose *)
(* id is then drawn for another room.                                      *)
(***************************************************************************)
EXTENDS RoomService, FiniteSets

CONSTANTS
    Stage,     \* the key of the room state that holds the stage
    Drawing,   \* the first stage
    Drawn,     \* the state of a player who has submitted an image
    NoView,    \* the page has not been shown its room yet
    Crashed    \* the rendering of the page has thrown

\* What a page shows of its room.
Views == [id : RoomIds, owner : Users, turn : Users \cup {Nobody}, frozen : BOOLEAN,
          stage : Values \cup {Unset}, members : SUBSET Users]

ASSUME GameAssumption ==
    /\ Stage \in SharedKeys
    /\ Drawing \in Values
    /\ Drawn \in PlayerStates
    /\ NoView \notin Views \cup {Crashed}
    /\ Crashed \notin Views

\* getInitialRoomState: of its keys, the stage.
InitialRoomState == [EmptyRoomState EXCEPT ![Stage] = Drawing]

\* It is one of the bodies of SetState.
ASSUME StartAssumption == InitialRoomState \in Patches

VARIABLES
    page,        \* page[u]: the room whose page u is on; NoRoom is the lobby
    view,        \* view[u]: the room as that page shows it
    call,        \* call[q]: the call that the client made in slot q
    lost         \* starts that failed, and leaves that the user did not await

service == <<room, player, clock, req>>
gameVars == <<room, player, clock, req, page, view, call, lost>>

NoCall == [op |-> "none", user |-> Nobody, id |-> NoRoom, ok |-> FALSE]

GameInit ==
    /\ Init
    /\ page = [u \in Users |-> NoRoom]
    /\ view = [u \in Users |-> NoView]
    /\ call = [q \in Requests |-> NoCall]
    /\ lost = {}

-----------------------------------------------------------------------------
(* What a page shows.                                                      *)

\* Fault: the state of the room is left out.
Shown_NoState(r) ==
    [id |-> r, owner |-> room[r].owner, frozen |-> room[r].frozen, members |-> Members(r),
     turn |-> IF room[r].turn \in Members(r) THEN room[r].turn ELSE Nobody]

\* A room as the client reads it (createRoom): the turn player is looked up
\* among the players.
Shown(r) ==
    [id |-> r,
     owner |-> room[r].owner,
     turn |-> IF room[r].turn \in Members(r) THEN room[r].turn ELSE Nobody,
     frozen |-> room[r].frozen,
     stage |-> room[r].state[Stage],
     members |-> Members(r)]

IsShown(u) == view[u] \notin {NoView, Crashed}

\* There is a game as soon as there is a turn player.
HasGame(v) == v.turn # Nobody

\* Fault: the game is rendered before it has a stage, which it needs.
Rendered_NeedsStage(u, v) ==
    IF HasGame(v) /\ (u \notin v.members \/ v.stage = Unset) THEN Crashed ELSE v

\* GameScreen reads the id of the player whose page it is.
Rendered(u, v) == IF HasGame(v) /\ u \notin v.members THEN Crashed ELSE v

\* The page goes to room r, or to the lobby.  A room page that is given
\* another room is not mounted again.
Go(u, r) ==
    /\ page' = [page EXCEPT ![u] = r]
    /\ view' = [view EXCEPT ![u] =
                   IF @ = Crashed \/ (page[u] # NoRoom /\ r # NoRoom) THEN @ ELSE NoView]

\* END_REFRESH, or the alert that there is no such room and the lobby.
Refresh(u) ==
    /\ page[u] # NoRoom
    /\ view[u] # Crashed
    /\ IF Exists(page[u])
       THEN /\ view' = [view EXCEPT ![u] = Rendered(u, Shown(page[u]))]
            /\ UNCHANGED page
       ELSE Go(u, NoRoom)
    /\ UNCHANGED <<service, call, lost>>

\* GameScreen calls doGameTickAsync without arguments whenever the time is
\* up or the state of the room changes; it throws before it does anything,
\* in a promise that nobody looks at.
GameTick(u) == IsShown(u) /\ HasGame(view[u]) /\ UNCHANGED gameVars

\* The Lobby link.
ToLobby(u) ==
    /\ page[u] # NoRoom /\ view[u] # Crashed
    /\ Go(u, NoRoom)
    /\ UNCHANGED <<service, call, lost>>

Starting(q) == call[q].op \in {"freeze", "setState"}

Leaving(q) == call[q].op \in {"leave", "leavePrevious"}

StartOf(q) == [op |-> "start", user |-> Nobody, id |-> call[q].id]

LeaveOf(q) == [op |-> "leave", user |-> call[q].user, id |-> NoRoom]

\* The user loads the page again, or that of a room: the service goes on with
\* the calls under way, but their answers arrive nowhere.
Load(u, r) ==
    LET own == {q \in Requests : call[q].user = u} IN
    /\ page' = [page EXCEPT ![u] = r]
    /\ view' = [view EXCEPT ![u] = NoView]
    /\ call' = [q \in Requests |-> IF q \in own THEN NoCall ELSE call[q]]
    /\ lost' = lost \cup {StartOf(q) : q \in {p \in own : Starting(p)}}
                    \cup {LeaveOf(q) : q \in {p \in own : Leaving(p)}}
    /\ UNCHANGED service

-----------------------------------------------------------------------------
(* Clicks.  A request that the service refuses at its first repository     *)
(* call is answered at once.                                               *)

Ask(q, op, u, r) ==
    /\ IsIdle(q)
    /\ call[q] = NoCall
    /\ call' = [call EXCEPT ![q] = [op |-> op, user |-> u, id |-> r, ok |-> FALSE]]
    /\ UNCHANGED <<page, view, lost>>

ClickCreate(q, u) ==
    /\ page[u] = NoRoom
    /\ Ask(q, "create", u, NoRoom)
    /\ IF Placed(u) THEN UNCHANGED service ELSE CreateFind(q, u)

ClickJoin(q, u, r) ==
    /\ page[u] = NoRoom
    /\ Ask(q, "join", u, r)
    /\ IF Exists(r) /\ ~InRoom(u, r) THEN JoinGet(q, u, r) ELSE UNCHANGED service

ClickLeavePrevious(q, u) ==
    /\ page[u] = NoRoom
    /\ Ask(q, "leavePrevious", u, NoRoom)
    /\ IF Placed(u) THEN LeaveAllFind(q, u) ELSE UNCHANGED service

ClickLeave(q, u) ==
    /\ page[u] # NoRoom /\ view[u] # Crashed
    /\ Ask(q, "leave", u, page[u])
    /\ IF Exists(page[u]) THEN LeaveRoomGet(q, u, page[u]) ELSE UNCHANGED service

Freeze(q, u, r) ==
    IF Exists(r) /\ room[r].owner = u THEN FreezeGet(q, u, r) ELSE UNCHANGED service

\* The modal that waits for players is shown to the host until the room is
\* shown frozen.
StartModal(u) == IsShown(u) /\ view[u].owner = u /\ ~view[u].frozen

\* Its button starts the game, and again when it is clicked again, if there
\* are two or more players.
ClickStart(q, u) ==
    /\ StartModal(u)
    /\ Cardinality(view[u].members) > 1
    /\ Ask(q, "freeze", u, page[u])
    /\ Freeze(q, u, page[u])

\* The first stage is the turn player's.
Draws(u) == IsShown(u) /\ view[u].stage = Drawing /\ view[u].turn = u

\* The turn player is ready: the answer changes nothing but fetching.
SubmitDrawing(q, u) ==
    /\ Draws(u)
    /\ call[q] = NoCall
    /\ PutPlayerState(q, u, page[u], Drawn)
    /\ UNCHANGED <<page, view, call, lost>>

-----------------------------------------------------------------------------
(* The service goes on with a request.                                     *)

\* An id is not drawn again that a page, a call or a request still names.
Unknown(r) ==
    /\ \A u \in Users : page[u] # r
    /\ \A q \in Requests : r \notin {call[q].id, req[q].id}

Serve(q) ==
    /\ \/ \E r \in RoomIds : (Unknown(r) /\ CreateInsert(q, r)) \/ CreateRefused(q, r)
       \/ AddGet(q) \/ AddInsert(q)
       \/ LeaveAllGet(q) \/ LeaveAllGone(q)
       \/ DeleteGet(q) \/ DeleteRoom(q) \/ Remove(q)
    /\ UNCHANGED <<page, view, call, lost>>

\* The client, if it still waits, will be told of the success.
Succeeds(q, r) ==
    call' = IF call[q] = NoCall THEN call
            ELSE [call EXCEPT ![q].ok = TRUE, ![q].id = r]

ServeCreated(q) ==
    /\ CreateReread(q)
    /\ IF Exists(req[q].id) THEN Succeeds(q, req[q].id) ELSE UNCHANGED call
    /\ UNCHANGED <<page, view, lost>>

ServeWrite(q) ==
    /\ WriteRoom(q)
    /\ IF UpdateAllowed(req[q].id, req[q].row) THEN Succeeds(q, req[q].id)
       ELSE UNCHANGED call
    /\ UNCHANGED <<page, view, lost>>

ServeCancelled(q) == Cancel(q) /\ UNCHANGED <<page, view, call, lost>>

-----------------------------------------------------------------------------
(* An answer arrives.                                                      *)

Answered(q, op) == IsIdle(q) /\ call[q].op = op

Over(q) == call' = [call EXCEPT ![q] = NoCall]

\* A room that was created is opened.
CreateArrives(q) ==
    /\ Answered(q, "create")
    /\ IF call[q].ok THEN Go(call[q].user, call[q].id) ELSE UNCHANGED <<page, view>>
    /\ Over(q)
    /\ UNCHANGED <<service, lost>>

\* The lobby opens the room and the room page the lobby, whatever came of it.
JoinArrives(q) ==
    /\ Answered(q, "join")
    /\ Go(call[q].user, call[q].id)
    /\ Over(q)
    /\ UNCHANGED <<service, lost>>

LeaveArrives(q) ==
    /\ Answered(q, "leave")
    /\ Go(call[q].user, NoRoom)
    /\ Over(q)
    /\ UNCHANGED <<service, lost>>

LeavePreviousArrives(q) ==
    /\ Answered(q, "leavePrevious")
    /\ lost' = IF page[call[q].user] # NoRoom THEN lost \cup {LeaveOf(q)} ELSE lost
    /\ Over(q)
    /\ UNCHANGED <<service, page, view>>

\* Fault: the error of the first call is not noticed.
FreezeArrives_AnyAnswer(q) ==
    LET u == call[q].user  r == call[q].id IN
    /\ Answered(q, "freeze")
    /\ call' = [call EXCEPT ![q].op = "setState", ![q].ok = FALSE]
    /\ IF Exists(r) /\ room[r].owner = u
       THEN SetStateGet(q, u, r, InitialRoomState)
       ELSE UNCHANGED service
    /\ UNCHANGED <<page, view, lost>>

\* Fault: the game is taken to be started when the room is frozen.
FreezeArrives_Done(q) ==
    /\ Answered(q, "freeze")
    /\ call[q].ok
    /\ Over(q)
    /\ UNCHANGED <<service, page, view, lost>>

\* startGameAsync: the room is frozen, and the first state of the game sent.
FreezeArrives(q) ==
    LET u == call[q].user  r == call[q].id IN
    /\ Answered(q, "freeze")
    /\ call[q].ok
    /\ call' = [call EXCEPT ![q].op = "setState", ![q].ok = FALSE]
    /\ IF Exists(r) /\ room[r].owner = u
       THEN SetStateGet(q, u, r, InitialRoomState)
       ELSE UNCHANGED service
    /\ UNCHANGED <<page, view, lost>>

SetStateArrives(q) ==
    /\ Answered(q, "setState")
    /\ call[q].ok
    /\ Over(q)
    /\ UNCHANGED <<service, page, view, lost>>

\* FAIL_START_GAME, of a call that was refused or whose answer is lost.
StartFails(q) ==
    /\ IsIdle(q) /\ Starting(q)
    /\ lost' = lost \cup {StartOf(q)}
    /\ Over(q)
    /\ UNCHANGED <<service, page, view>>

\* The answer to a creation is lost.
CreateFails(q) ==
    /\ Answered(q, "create")
    /\ Over(q)
    /\ UNCHANGED <<service, page, view, lost>>

-----------------------------------------------------------------------------
UserStep(u) ==
    \/ Refresh(u) \/ GameTick(u) \/ ToLobby(u)
    \/ \E r \in RoomIds \cup {page[u]} : Load(u, r)
    \/ \E q \in Requests :
          \/ ClickCreate(q, u) \/ ClickLeavePrevious(q, u) \/ ClickLeave(q, u)
          \/ ClickStart(q, u) \/ SubmitDrawing(q, u)
          \/ \E r \in RoomIds : ClickJoin(q, u, r)

ServiceStep(q) == Serve(q) \/ ServeCreated(q) \/ ServeWrite(q)

AnswerStep(q) ==
    \/ CreateArrives(q) \/ JoinArrives(q) \/ LeaveArrives(q) \/ LeavePreviousArrives(q)
    \/ FreezeArrives(q) \/ SetStateArrives(q) \/ StartFails(q) \/ CreateFails(q)

GameNext ==
    \/ \E u \in Users : UserStep(u)
    \/ \E q \in Requests : ServiceStep(q) \/ ServeCancelled(q) \/ AnswerStep(q)

GameSpec == GameInit /\ [][GameNext]_gameVars

\* The service goes on with its requests, calls are answered or fail, and
\* pages are refreshed.
GameFairness ==
    /\ \A q \in Requests : WF_gameVars(ServiceStep(q)) /\ WF_gameVars(AnswerStep(q))
    /\ \A u \in Users : WF_gameVars(Refresh(u))

FairGameSpec == GameSpec /\ GameFairness

-----------------------------------------------------------------------------
(* Properties.                                                             *)

GameTypeOK ==
    /\ page \in [Users -> RoomIds \cup {NoRoom}]
    /\ view \in [Users -> Views \cup {NoView, Crashed}]
    /\ call \in [Requests -> [op : {"none", "create", "join", "leave", "leavePrevious",
                                    "freeze", "setState"},
                              user : Users \cup {Nobody}, id : RoomIds \cup {NoRoom},
                              ok : BOOLEAN]]
    /\ lost \subseteq [op : {"start"}, user : {Nobody}, id : RoomIds]
                      \cup [op : {"leave"}, user : Users, id : {NoRoom}]

StartLost(r) == \E c \in lost : c.op = "start" /\ c.id = r

\* A frozen room has a stage, or a start of its game is under way or did not
\* complete: whatever clicks, leaves, cancelled requests and second starts
\* come in between, no start that went well is undone for good by an older
\* copy of the row.
StartedGamesHaveStage ==
    \A r \in RoomIds :
        Exists(r) /\ room[r].frozen /\ room[r].state[Stage] = Unset =>
            \/ StartLost(r)
            \/ \E q \in Requests : Starting(q) /\ call[q].id = r

\* A page that shows its player in the game is not taken away from a player
\* who does not ask to leave: it throws only if a refresh overtakes the
\* answer to the player's own request, or the player went to the room again
\* without waiting for that answer.
PlayersKeepTheirPage ==
    [][\A u \in Users :
          IsShown(u) /\ u \in view[u].members /\ view[u].id = page[u] /\ view'[u] = Crashed =>
              \/ \E q \in Requests : call[q].user = u /\ Leaving(q)
              \/ \E c \in lost : c.op = "leave" /\ c.user = u
      ]_gameVars

\* As the client uses the service, a room stays frozen, although starts may
\* overlap.
GameFreezeIsPermanent ==
    [][\A r \in RoomIds :
          Exists(r) /\ Exists(r)' /\ room[r].frozen => room'[r].frozen]_gameVars

\* When the turn player has submitted an image the game goes on to the next
\* stage ("Turn player must have submitted the image", "OK, go to next
\* stage").
DrawingEndsStage ==
    \A u \in Users, r \in RoomIds :
        /\ Exists(r) /\ room[r].state[Stage] = Drawing /\ room[r].turn = u
        /\ InRoom(u, r) /\ player[u].state = Drawn
        ~> ~Exists(r) \/ room[r].state[Stage] # Drawing
=============================================================================
