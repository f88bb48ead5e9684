------------------------------- MODULE Lobby -------------------------------
(***************************************************************************)
(* The list of rooms, from the join of the two tables to the lobby of one  *)
(* user, Me.  Who is where is what Membership says of the room service;    *)
(* the other users act on it at any time.                                  *)
(*                                                                         *)
(* The server counts rooms and then pages through the rows of room LEFT    *)
(* JOIN player, ordered by room.  The client asks for the list every five  *)
(* seconds, whether or not the last answer has come, and makes rooms of    *)
(* its items.                                                              *)
(***************************************************************************)
EXTENDS Membership, Pagination, SequencesExt

CONSTANTS
    Me,         \* the user of this lobby
    Refreshes   \* refreshes that may be under way at once

ASSUME LobbyAssumption ==
    /\ RoomIds \subseteq Nat \ {0}  \* ids have an order; 0 is the lobby
    /\ IsFiniteSet(RoomIds) /\ IsFiniteSet(Users)
    /\ Me \in Users
    /\ NoRoom \notin RoomIds /\ Nobody \notin Users

VARIABLES
    page,      \* what is mounted: the lobby, or the page of a room
    rooms,     \* state.rooms: the list of rooms, or Undefined
    fetching,  \* state.fetching
    error,     \* state.error: what failed, or "none"
    refresh,   \* refresh[q]: refresh q
    call       \* what Me asked the server for, its answer, and whether
               \* the lobby has been told of it

lobby == <<page, rooms, fetching, error>>
vars == <<roomOf, host, page, rooms, fetching, error, refresh, call>>

LobbyPage == 0
Undefined == [known |-> FALSE, list |-> {}]
List(set) == [known |-> TRUE, list |-> set]
NoRefresh == [phase |-> "none", count |-> 0, items |-> <<>>, mounted |-> FALSE]
NoCall == [kind |-> "none", id |-> NoRoom, status |-> "none", told |-> FALSE]

\* Fault: rooms that are gone are still selected.
Existing_Gone == RoomIds

Existing == {r \in RoomIds : host[r] # Nobody}

-----------------------------------------------------------------------------
(* The list that the server answers with.                                  *)

\* The rows of the join.  A room without players would have one, of Nobody.
JoinRows ==
    LET players(r) == {u \in Users : roomOf[u] = r} IN
    UNION {{[room |-> r, user |-> u] : u \in IF players(r) = {} THEN {Nobody} ELSE players(r)} :
           r \in Existing}

\* ORDER BY r.id leaves the order of the rows of one room open.
Orders ==
    {s \in SetToSeqs(JoinRows) :
        \A i \in DOMAIN s, j \in DOMAIN s : i < j => s[i].room <= s[j].room}

\* Fault: a row makes a player of whoever is in it.
Item_AnyPlayer(row) == [id |-> row.room, players |-> {row.user} \ {Nobody}, owner |-> host[row.room]]

\* One row makes one item, whose players are the host or, in the row of
\* anybody else, none.
Item(row) ==
    [id |-> row.room, players |-> {row.user} \cap {host[row.room]}, owner |-> host[row.room]]

\* Fault: LIMIT is one short.
Query_OneShort(order, p) ==
    LET last == Offset(p) + Limit(p) - 1
        rows == SubSeq(order, Offset(p) + 1, IF last < Len(order) THEN last ELSE Len(order))
    IN  [i \in DOMAIN rows |-> Item(rows[i])]

\* OFFSET and LIMIT.
Query(order, p) ==
    LET last == Offset(p) + Limit(p)
        rows == SubSeq(order, Offset(p) + 1, IF last < Len(order) THEN last ELSE Len(order))
    IN  [i \in DOMAIN rows |-> Item(rows[i])]

-----------------------------------------------------------------------------
Init ==
    /\ MInit
    /\ page = LobbyPage
    /\ rooms = List({})
    /\ fetching = TRUE
    /\ error = "none"
    /\ refresh = [q \in Refreshes |-> NoRefresh]
    /\ call = NoCall

\* On mount, on the interval, and when the user presses the button.
Refresh(q) ==
    /\ page = LobbyPage
    /\ refresh[q] = NoRefresh
    /\ refresh' = [refresh EXCEPT ![q].phase = "sent", ![q].mounted = TRUE]
    /\ fetching' = TRUE
    /\ error' = "none"
    /\ UNCHANGED <<mvars, page, rooms>>

ServeCount(q) ==
    /\ refresh[q].phase = "sent"
    /\ refresh' = [refresh EXCEPT ![q].phase = "counted", ![q].count = Cardinality(Existing)]
    /\ UNCHANGED <<mvars, lobby, call>>

\* The client names neither a page nor a size.
ServeQuery(q) ==
    /\ refresh[q].phase = "counted"
    /\ \E order \in Orders :
          refresh' = [refresh EXCEPT
              ![q].phase = "answered",
              ![q].count = 0,  \* no longer needed
              ![q].items = Query(order, FromRequest(NoQuery, refresh[q].count))]
    /\ UNCHANGED <<mvars, lobby, call>>

\* createRoom throws on an item whose players are null: an empty slice that
\* was never appended to.
Readable(items) == \A i \in DOMAIN items : items[i].players # {}

\* The rooms that createRoom makes; players.find gives the owner, if any.
Made(items) ==
    {[id |-> items[i].id, owned |-> items[i].owner \in items[i].players] : i \in DOMAIN items}

\* The reducer's case END_REFRESH.  FAIL_REFRESH is the same string, and
\* brings no rooms.  A lobby that is no longer mounted does nothing.
EndRefresh(q, list) ==
    /\ IF refresh[q].mounted
       THEN rooms' = list /\ fetching' = FALSE /\ error' = "none"
       ELSE UNCHANGED <<rooms, fetching, error>>
    /\ refresh' = [refresh EXCEPT ![q] = NoRefresh]
    /\ UNCHANGED <<mvars, page, call>>

ListArrives(q) ==
    /\ refresh[q].phase = "answered"
    /\ EndRefresh(q, IF Readable(refresh[q].items)
                     THEN List(Made(refresh[q].items))
                     ELSE Undefined)

\* No answer, or a status that is not 200.
RefreshFails(q) ==
    /\ refresh[q].phase \in {"sent", "counted", "answered"}
    /\ EndRefresh(q, Undefined)

-----------------------------------------------------------------------------
(* What Me asks for: to create or join a room, to leave all rooms, or, on  *)
(* the page of a room, to leave it.                                        *)

Listed == {m.id : m \in rooms.list}

\* BEGIN_*.  The spinner covers the buttons while fetching is on.
Ask(kind, id) ==
    /\ call = NoCall
    /\ \/ kind \in {"create", "leaveAll"} /\ page = LobbyPage /\ ~fetching /\ id = NoRoom
       \/ kind = "join" /\ page = LobbyPage /\ ~fetching /\ id \in Listed
       \/ kind = "leave" /\ page = id
    /\ call' = [NoCall EXCEPT !.kind = kind, !.id = id, !.status = "asked"]
    /\ IF page = LobbyPage
       THEN fetching' = TRUE /\ error' = "none"
       ELSE UNCHANGED <<fetching, error>>
    /\ UNCHANGED <<mvars, page, rooms, refresh>>

\* The service does what it is asked.
Serve ==
    /\ call.status = "asked"
    /\ \E r \in RoomIds :
          \/ call.kind = "create" /\ Open(Me, r) /\ call' = [call EXCEPT !.status = "ok", !.id = r]
          \/ /\ \/ call.kind = "join" /\ r = call.id /\ Enter(Me, r)
                \/ call.kind \in {"leave", "leaveAll"} /\ Exit(Me)
                \/ call.kind \in {"leave", "leaveAll"} /\ host[r] = Me /\ Disband(r)
             /\ call' = [call EXCEPT !.status = "ok"]
    /\ UNCHANGED <<lobby, refresh>>

\* It refuses, cannot be reached, or its answer is lost.
CallFails ==
    /\ call.status \in {"asked", "ok"} /\ ~call.told
    /\ call' = [call EXCEPT !.status = "failed"]
    /\ UNCHANGED <<mvars, lobby, refresh>>

\* Fault: the status of the answer is not looked at.
Fails_OnlyJoin(kind) == kind = "join"

\* What the answer is taken for: of a join 201 is expected, and the server
\* answers 200.
Fails(kind) == call.status = "failed" \/ kind = "join"

\* END_* or FAIL_*.  A room is opened when it was created, and after a join
\* whatever became of it.  The lobby hears nothing of a leave.
AnswerArrives ==
    /\ call.status \in {"ok", "failed"} /\ ~call.told
    /\ call.kind = "leaveAll" => Fails(call.kind)
    /\ IF call.kind = "leave"
       THEN UNCHANGED <<fetching, error>>
       ELSE /\ fetching' = FALSE
            /\ error' = IF Fails(call.kind) THEN call.kind ELSE "none"
    /\ call' = IF call.kind \in {"join", "leave"} \/ (call.kind = "create" /\ ~Fails(call.kind))
               THEN [call EXCEPT !.told = TRUE]
               ELSE NoCall
    /\ UNCHANGED <<mvars, page, rooms, refresh>>

\* END_LEAVE_PREVIOUS, and a refresh.
LeftAllArrives(q) ==
    /\ call.kind = "leaveAll" /\ ~Fails(call.kind)
    /\ call.status = "ok"
    /\ Refresh(q)
    /\ call' = NoCall

\* Another page is mounted, with a state of its own; the refreshes of the
\* lobby before go on.
Show(p) ==
    /\ page' = p
    /\ IF p # page
       THEN /\ rooms' = List({}) /\ fetching' = TRUE /\ error' = "none"
            /\ refresh' = [q \in Refreshes |-> [refresh[q] EXCEPT !.mounted = FALSE]]
       ELSE UNCHANGED <<rooms, fetching, error, refresh>>
    /\ UNCHANGED mvars

\* history.push after the answer.
Navigate ==
    /\ call.told
    /\ Show(IF call.kind = "leave" THEN LobbyPage ELSE call.id)
    /\ call' = NoCall

\* The link to the lobby.
GoToLobby ==
    /\ page # LobbyPage
    /\ Show(LobbyPage)
    /\ UNCHANGED call

CloseError ==
    /\ error # "none"
    /\ error' = "none"
    /\ UNCHANGED <<mvars, page, rooms, fetching, refresh, call>>

\* What the other users do.
OthersAct ==
    /\ \E u \in Users \ {Me} :
          \/ \E r \in RoomIds : Open(u, r) \/ Enter(u, r) \/ (host[r] = u /\ Disband(r))
          \/ Exit(u)
    /\ UNCHANGED <<lobby, refresh, call>>

Next ==
    \/ \E q \in Refreshes :
          \/ Refresh(q) /\ UNCHANGED call
          \/ ServeCount(q) \/ ServeQuery(q) \/ ListArrives(q) \/ RefreshFails(q)
          \/ LeftAllArrives(q)
    \/ \E kind \in {"create", "join", "leave", "leaveAll"}, id \in RoomIds \cup {NoRoom} :
          Ask(kind, id)
    \/ Serve \/ CallFails \/ AnswerArrives \/ Navigate
    \/ GoToLobby \/ CloseError \/ OthersAct

Spec == Init /\ [][Next]_vars

\* The interval fires, and a list that is asked for again and again arrives.
Fairness ==
    /\ WF_vars(\E q \in Refreshes : Refresh(q) /\ UNCHANGED call)
    /\ \A q \in Refreshes :
          SF_vars(ServeCount(q)) /\ SF_vars(ServeQuery(q)) /\ SF_vars(ListArrives(q))

FairSpec == Spec /\ Fairness

-----------------------------------------------------------------------------
(* Properties.                                                             *)

Kinds == {"create", "join", "leave", "leaveAll"}

Items == [id : RoomIds, players : SUBSET Users, owner : Users]

TypeOK ==
    /\ roomOf \in [Users -> RoomIds \cup {NoRoom}]
    /\ host \in [RoomIds -> Users \cup {Nobody}]
    /\ page \in RoomIds \cup {LobbyPage}
    /\ rooms \in [known : BOOLEAN, list : SUBSET [id : RoomIds, owned : BOOLEAN]]
    /\ fetching \in BOOLEAN
    /\ error \in {"none"} \cup Kinds
    /\ refresh \in [Refreshes -> [phase : {"none", "sent", "counted", "answered"},
                                 count : Nat, items : Seq(Items), mounted : BOOLEAN]]
    /\ call \in [kind : Kinds \cup {"none"}, id : RoomIds \cup {NoRoom},
                 status : {"none", "asked", "ok", "failed"}, told : BOOLEAN]

\* A listed room has its owner among its players, so that RoomItem can show
\* owner.id: whatever rows the page holds, and however refreshes overlap.
ShownRoomsHaveOwners == \A m \in rooms.list : m.owned

\* The page that opens after Create is that of a room of which Me is the
\* host, although others come and go while the answer is on its way.
CreatedRoomIsOwn ==
    call.kind = "create" /\ call.told => call.id \in RoomIds /\ host[call.id] = Me

\* These are the rooms, they fit on a page, and nobody has joined one.
Alone(ids) ==
    /\ Existing = ids
    /\ Cardinality(ids) <= DefaultPageSize
    /\ \A u \in Users : roomOf[u] # NoRoom => host[roomOf[u]] = u

\* A guest, in a room of another user.
SomeGuest == \E u \in Users : roomOf[u] # NoRoom /\ host[roomOf[u]] # u

\* The list that the server computes: while nobody is a guest it reads as
\* exactly the rooms there are, each once and with its owner; a single guest
\* on the page makes all of it unreadable.
ListIsAllOrNothing ==
    [][\A q \in Refreshes : ServeQuery(q) =>
          LET items == refresh'[q].items IN
          /\ Alone(Existing) =>
                /\ Readable(items)
                /\ Made(items) = [id : Existing, owned : {TRUE}]
                /\ Len(items) = Cardinality(Existing)
          /\ SomeGuest /\ Cardinality(JoinRows) <= DefaultPageSize => ~Readable(items)]_vars

\* A lobby that stays open shows the rooms there are, again and again, as
\* long as nobody has joined one and they fit on a page: refreshes that
\* overlap, overtake each other or fail do not keep it from that.
RoomsAreListed ==
    \A ids \in SUBSET RoomIds :
        <>[](page = LobbyPage /\ Alone(ids)) =>
            []<>(rooms = List([id : ids, owned : {TRUE}]))
=============================================================================
