---------------------------- MODULE RoomRefresh ----------------------------
(***************************************************************************)
(* How a player's page follows a room.  The page polls                     *)
(* GET /rooms/<id>?last_refresh_at=<seconds>; the server answers 304 when  *)
(* updated_at is before that time (Get in internal/room/service.go) and    *)
(* the client then shows the copy it keeps in lastRefresh                  *)
(* (client/src/api/rooms.js).  Three readings of time meet here: a writing  *)
(* transaction binds updated_at before it commits, the client stamps its   *)
(* copy when the answer arrives and not when the server read the row, and  *)
(* it stamps it in whole seconds.                                          *)
(*                                                                         *)
(* What the room contains is a version number that every change raises;    *)
(* RoomService says which requests change and stamp a room.  One page is   *)
(* modelled: the pages of different players share nothing but the rows.    *)
(***************************************************************************)
EXTENDS Naturals

CONSTANTS
    RoomIds,
    NoRoom,      \* no page is open; the id of the empty lastRefresh
    Writers,     \* transactions that may be changing rooms at once
    Polls,       \* polls that may be under way at once
    PerSecond,   \* ticks of the clock in a second
    Prompt,      \* TRUE: what begins in a second ends in it (see PassTime)
    MaxVersion,  \* bound on the changes to a room
    MaxActs,     \* bound on the player's own operations
    MaxClock     \* bound on the clock

ASSUME RefreshAssumption ==
    /\ NoRoom \notin RoomIds
    /\ PerSecond \in Nat \ {0}
    /\ Prompt \in BOOLEAN
    /\ MaxVersion \in Nat /\ MaxActs \in Nat /\ MaxClock \in Nat

VARIABLES
    clock,        \* the time, in ticks, on every machine
    row,          \* row[r]: version and updated_at of room r
    write,        \* write[w]: the change transaction w is about to commit
    page,         \* the room whose page is mounted, or NoRoom
    fetching,     \* state.fetching of the page
    acting,       \* the player's operations under way on this page
    acts,         \* the player's operations so far
    view,         \* state.room of the page: a copy, or NoCopy
    lastRefresh,  \* the copy kept by api/rooms.js, across pages
    poll          \* poll[p]: poll p

server == <<row, write>>
client == <<page, fetching, acting, acts, view, lastRefresh, poll>>
vars == <<clock, row, write, page, fetching, acting, acts, view, lastRefresh, poll>>

NoWrite == [id |-> NoRoom, stamp |-> 0]
NoCopy == [id |-> NoRoom, version |-> 0]
NoPoll == [phase |-> "none", id |-> NoRoom, since |-> 0, known |-> 0,
           version |-> 0, modified |-> FALSE, mounted |-> FALSE]

\* Fault: rounded up instead of down.
Second_Up(t) == ((t + PerSecond - 1) \div PerSecond) * PerSecond

\* A time in whole seconds, on the scale of the clock.
Second(t) == (t \div PerSecond) * PerSecond

Init ==
    /\ clock = 0
    /\ row = [r \in RoomIds |-> [version |-> 1, updated |-> 0]]
    /\ write = [w \in Writers |-> NoWrite]
    /\ page = NoRoom
    /\ fetching = TRUE
    /\ acting = 0
    /\ acts = 0
    /\ view = NoCopy
    /\ lastRefresh = [id |-> NoRoom, refreshedAt |-> 0, version |-> 0]
    /\ poll = [p \in Polls |-> NoPoll]

-----------------------------------------------------------------------------
(* Transactions that change a room.                                        *)

\* updated_at is time.Now() when the statement is built.
BeginWrite(w, r) ==
    /\ write[w] = NoWrite
    /\ row[r].version < MaxVersion
    /\ write' = [write EXCEPT ![w] = [id |-> r, stamp |-> clock]]
    /\ UNCHANGED <<clock, row>>
    /\ UNCHANGED client

CommitWrite(w) ==
    /\ write[w] # NoWrite
    /\ row' = [row EXCEPT ![write[w].id] =
                  [version |-> @.version + 1, updated |-> write[w].stamp]]
    /\ write' = [write EXCEPT ![w] = NoWrite]
    /\ UNCHANGED clock
    /\ UNCHANGED client

-----------------------------------------------------------------------------
(* Polls.                                                                  *)

\* getRoomAsync up to the request: the time of the copy of this room, or 0.
\* The version of that copy is recorded with the poll to state properties.
NewPoll(r) ==
    LET same == lastRefresh.id = r IN
    [NoPoll EXCEPT !.phase = "sent", !.id = r, !.mounted = TRUE,
                   !.since = IF same THEN lastRefresh.refreshedAt ELSE 0,
                   !.known = IF same THEN lastRefresh.version ELSE 0]

\* The server reads the row and compares: UpdatedAt.Before(LastRefreshAt).
ReadRow(p) ==
    /\ poll[p].phase = "sent"
    /\ LET r == poll[p].id IN
       poll' = [poll EXCEPT ![p].phase = "read", ![p].version = row[r].version,
                            ![p].modified = row[r].updated >= poll[p].since]
    /\ UNCHANGED <<clock, server, page, fetching, acting, acts, view, lastRefresh>>

\* What the reducer does with a poll of a page that is no longer mounted:
\* nothing.  The copy in lastRefresh is shared by all pages.
Show(p, copy) ==
    IF poll[p].mounted
    THEN view' = copy /\ fetching' = FALSE
    ELSE UNCHANGED <<view, fetching>>

ArriveModified(p) ==
    /\ poll[p].phase = "read"
    /\ poll[p].modified
    /\ lastRefresh' = [id |-> poll[p].id, refreshedAt |-> Second(clock),
                       version |-> poll[p].version]
    /\ Show(p, [id |-> poll[p].id, version |-> poll[p].version])
    /\ poll' = [poll EXCEPT ![p] = NoPoll]
    /\ UNCHANGED <<clock, server, page, acting, acts>>

\* 304: the copy that lastRefresh holds now.
ArriveNotModified(p) ==
    /\ poll[p].phase = "read"
    /\ ~poll[p].modified
    /\ Show(p, [id |-> lastRefresh.id, version |-> lastRefresh.version])
    /\ poll' = [poll EXCEPT ![p] = NoPoll]
    /\ UNCHANGED <<clock, server, page, acting, acts, lastRefresh>>

\* Any other status, or no answer: FAIL_REFRESH.
PollFails(p) ==
    /\ poll[p].phase \in {"sent", "read"}
    /\ IF poll[p].mounted THEN fetching' = FALSE ELSE UNCHANGED fetching
    /\ poll' = [poll EXCEPT ![p] = NoPoll]
    /\ UNCHANGED <<clock, server, page, acting, acts, view, lastRefresh>>

-----------------------------------------------------------------------------
(* The page.                                                               *)

\* The page of room r is mounted with a state of its own, and refreshes;
\* nothing cancels the polls of the page before.
Mount(p, r) ==
    LET orphaned == [o \in Polls |-> [poll[o] EXCEPT !.mounted = FALSE]] IN
    /\ page # r
    /\ poll[p] = NoPoll
    /\ page' = r
    /\ view' = NoCopy
    /\ acting' = 0
    /\ fetching' = TRUE
    /\ poll' = [orphaned EXCEPT ![p] = NewPoll(r)]
    /\ UNCHANGED <<clock, server, acts, lastRefresh>>

\* Fault: the interval does not look at fetching.
IntervalPoll_Always(p) ==
    /\ page # NoRoom
    /\ poll[p] = NoPoll
    /\ poll' = [poll EXCEPT ![p] = NewPoll(page)]
    /\ fetching' = TRUE
    /\ UNCHANGED <<clock, server, page, acting, acts, view, lastRefresh>>

\* The interval of the page, once a second unless something is being fetched.
IntervalPoll(p) ==
    /\ page # NoRoom
    /\ ~fetching
    /\ poll[p] = NoPoll
    /\ poll' = [poll EXCEPT ![p] = NewPoll(page)]
    /\ fetching' = TRUE
    /\ UNCHANGED <<clock, server, page, acting, acts, view, lastRefresh>>

\* The player starts the game, sets a state, gives the turn away, or leaves
\* (BEGIN_*); what it changes is one of the writes above.
BeginAct ==
    /\ page # NoRoom
    /\ acts < MaxActs
    /\ acts' = acts + 1
    /\ acting' = acting + 1
    /\ fetching' = TRUE
    /\ UNCHANGED <<clock, server, page, view, lastRefresh, poll>>

\* Fault: an operation ends that had not begun.
EndAct_Unbegun ==
    /\ acting' = acting - 1
    /\ fetching' = FALSE
    /\ UNCHANGED <<clock, server, page, acts, view, lastRefresh, poll>>

\* Fault: fetching is left on (END_* and FAIL_* without fetching: false).
EndAct_StillFetching ==
    /\ acting > 0
    /\ acting' = acting - 1
    /\ UNCHANGED <<clock, server, page, acts, view, lastRefresh, poll, fetching>>

\* END_* and FAIL_*: fetching is switched off whatever else is under way.
EndAct ==
    /\ acting > 0
    /\ acting' = acting - 1
    /\ fetching' = FALSE
    /\ UNCHANGED <<clock, server, page, acts, view, lastRefresh, poll>>

-----------------------------------------------------------------------------
\* Time passes.  When Prompt, a second does not end before the transactions
\* that bound their time in it have committed and the answers that the
\* server computed in it have arrived.
PassTime ==
    /\ clock < MaxClock
    /\ Prompt /\ Second(clock + 1) > clock =>
          /\ \A w \in Writers : write[w] = NoWrite
          /\ \A p \in Polls : poll[p].phase # "read"
    /\ clock' = clock + 1
    /\ UNCHANGED <<server, client>>

PollStep(p) ==
    ReadRow(p) \/ ArriveModified(p) \/ ArriveNotModified(p) \/ IntervalPoll(p)

Next ==
    \/ PassTime
    \/ \E w \in Writers, r \in RoomIds : BeginWrite(w, r)
    \/ \E w \in Writers : CommitWrite(w)
    \/ \E p \in Polls, r \in RoomIds : Mount(p, r)
    \/ \E p \in Polls : PollStep(p) \/ PollFails(p)
    \/ BeginAct \/ EndAct

Spec == Init /\ [][Next]_vars

\* Statements commit, the interval fires, the player's operations end, and
\* not every poll fails: one that is made again and again is answered.
Fairness ==
    /\ \A w \in Writers : WF_vars(CommitWrite(w))
    /\ \A p \in Polls : SF_vars(ReadRow(p))
    /\ \A p \in Polls : SF_vars(ArriveModified(p) \/ ArriveNotModified(p))
    /\ WF_vars(\E p \in Polls : IntervalPoll(p))
    /\ WF_vars(EndAct)

FairSpec == Spec /\ Fairness

-----------------------------------------------------------------------------
(* Properties.                                                             *)

TypeOK ==
    /\ clock \in Nat
    /\ row \in [RoomIds -> [version : Nat, updated : Nat]]
    /\ write \in [Writers -> [id : RoomIds \cup {NoRoom}, stamp : Nat]]
    /\ page \in RoomIds \cup {NoRoom}
    /\ fetching \in BOOLEAN
    /\ acting \in Nat /\ acts \in Nat
    /\ view \in [id : RoomIds \cup {NoRoom}, version : Nat]
    /\ lastRefresh \in [id : RoomIds \cup {NoRoom}, refreshedAt : Nat, version : Nat]
    /\ poll \in [Polls -> [phase : {"none", "sent", "read"}, id : RoomIds \cup {NoRoom},
                           since : Nat, known : Nat, version : Nat,
                           modified : BOOLEAN, mounted : BOOLEAN]]

\* "Resource has not been modified.": a 304 is computed only if the version
\* of the copy the client had when it asked is the version of the row.
NotModifiedIsTrue ==
    \A p \in Polls :
        poll[p].phase = "read" /\ ~poll[p].modified => poll[p].known = poll[p].version

\* As long as the player has done nothing, what a page shows of its room never
\* goes back: its polls do not overtake each other, and a late poll of an
\* earlier page of the room, which overwrites the copy that 304 stands for,
\* does no harm.  (It may take the page to the copy of another room for a
\* moment, and then back and forth between copies of that.)
ViewNeverGoesBack ==
    [][acts' = 0 /\ view.id = page /\ view'.id = view.id =>
          view'.version >= view.version]_vars

\* A player who stays on a page eventually sees the room as it is, once
\* others stop changing it, however polls failed, overlapped or were
\* answered for another page before.
ViewConverges ==
    \A r \in RoomIds :
        <>[](page = r) => <>[](view = [id |-> r, version |-> row[r].version])

-----------------------------------------------------------------------------
\* The view of a page as RoomView has it.
V == INSTANCE RoomView WITH version <- [r \in RoomIds |-> row[r].version],
                            shown <- view, calm <- Prompt /\ acts = 0

\* However polls overlap, fail and are answered for other pages, a page shows
\* what RoomView lets it show: nothing at first, then copies that rooms really
\* had, even where the answer is "not modified" and the copy came from a page
\* before; and in calm its own room does not go back.
ImplementsRoomView == V!VSpec
=============================================================================
