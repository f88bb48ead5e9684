# Verification of quick-draw

quick-draw is a drawing and guessing game: a Go server keeps rooms and players
in PostgreSQL behind a REST API, and a React client shows a lobby of rooms and,
once a room is frozen, plays a game in it. This directory holds TLA+ models of
it, TLC runs that check them on small instances, and TLAPS proofs that hold for
instances of any size. Paths below are relative to the repository.

## Inventory

| Component | State | Operations | Why it is hard | What makes it correct |
|---|---|---|---|---|
| Room repository (`internal/room/repository.go`, `migrations/`) | tables `room`, `player`, with deferred foreign keys both ways | Get, FindByUser, Create, Update, Delete, AddPlayer, RemovePlayer, SetPlayerState, Count, Query | each is a transaction of several statements; callers combine several | a transaction is one step, ends, and leaves no dangling reference; every visible change is stamped |
| Room service (`service.go`, `api.go`) | nothing but what a handler holds in memory | create, join, freeze, set state, set player state, change turn, leave, leave all, refresh, list | one goroutine per request, no lock, read and write back | host rights, a frozen room is closed, the turn player plays, a user is in one room |
| Room page (`client/src/room`, `client/src/api/rooms.js`) | `state.room`, `state.fetching`; `lastRefresh`, shared by all pages | poll each second, act, mount | overlapping polls, 304 decided by three readings of time | "not modified" is true; the view catches up and does not go back |
| Lobby (`client/src/lobby`) | `rooms`, `fetching`, `error`, the route | refresh each five seconds, create, join, leave all | overlapping refreshes, answers after navigation, lost answers | the list shows the rooms there are; a room that opens is the right one |
| Pagination (`pkg/pagination`) | none | New, Offset, Limit, BuildLinks | boundaries | pages partition the list |
| Game stages (`RoomContext.js`, `GameScreen.js`) | stage, turn, timestamp, scores inside `room.state` | start game, submit, tick, end turn | two calls for one start; driven by pages that look at copies | a started game has a stage, nobody loses the page of the game, stages follow each other |
| Authentication (`internal/auth`, `client/src/auth`) | tokens; the session of a tab; the pair in `localStorage`, shared by tabs | log in with GitHub, verify at the start, expire | codes that are sent twice, answers to pages that are gone, several tabs | a user is never somebody else; a failure costs no session of another tab |
| Errors, logs, configuration, health, canvas, compression | none of the protocol's | | | not modelled |

The parts meet as follows. The client calls the API; a handler calls the
service, which calls the repository once or several times; repository calls of
different requests interleave freely, since nothing spans two of them. Pages
learn of each other's changes only by polling. The client's game stages are
data inside `room.state`, which the server merges and does not understand. All
tabs of a browser share one saved pair of user and token.

`PROJECT.json` lists each hazard of this code at its line with the property
that would catch it, or the reason why none does.

## Modules

| Module | Models | Role |
|---|---|---|
| `RoomRepository` | the two tables, their keys and each repository method as one step | storage, without a Next of its own |
| `RoomTransactions` | the statements of each method, row locks, deferred keys, aborts | shows that `RoomRepository` may take methods to be one step |
| `RoomService` | every handler as a sequence of repository calls, in request slots | the core specification and its properties |
| `Membership` | who is where: Open, Enter, Exit, Disband | abstract specification |
| `RoomMembership` | the refinement mapping | `RoomService` implements `Membership` |
| `Game` | the players' pages, their calls and the game, on top of `RoomService` | composition of client and server |
| `RoomView` | what a page may show of a room: Change, Open, Show, Act | abstract specification |
| `RoomRefresh` | transactions that stamp, polls, `lastRefresh`, `fetching`, pages that are mounted and left | the client's view of one room; implements `RoomView` |
| `Session` | tabs, logins, the saved pair, verification, expiry | authentication |
| `Pagination` | the operators of `pages.go` | used by the next two |
| `PageWalk` | a client that follows links | checks `Pagination` |
| `Lobby` | listing over the join, the reducer, the user's calls, navigation | on top of `Membership` and `Pagination` |
| `MC*` | values and symmetries for TLC | |
| `*Proofs`, `SequentialProofs` | | theorems about the module of that name; `SequentialProofs` about `RoomService` when requests do not overlap |

So three layers stand on each other: `RoomTransactions` implements the
operations of `RoomRepository`; `RoomService` uses these and implements
`Membership`; `Lobby` stands on `Membership` (theorem `LobbyKeepsMembership`),
and every step of `Game` is one of `RoomService` (`PagesDriveService`), whose
theorems it inherits (`GameKeepsMembership`). `RoomRefresh`, which knows a room
only by the number of its last change, implements `RoomView`: a page that is
opened is empty, what it then shows are copies of rooms as they were committed,
and in calm (commits and answers are prompt, and the player has done nothing)
its own room does not go back.

### How the models correspond to the code

*Rows.* `room[r]` holds owner, turn player, frozen, state and `updated_at`;
`player[u]` holds the room and the player's state. `created_at`, names and
passcodes (validated, then unused) are left out. `room.state` is a function
from keys to values; the key `u` stands for `"~" + id` of user `u`, and
`SharedKeys` for all other keys. A deferred foreign key is a guard of the
transaction that would break it (`UpdateAllowed`, `RemovePlayerAllowed`, ...):
an operation whose guard is false is refused and changes nothing.

*Transactions.* `tx[t]` is a method with its arguments and the statement it has
reached; `Statements` gives their order for each method. A statement locks the
rows it writes (`held`, with the mode PostgreSQL takes: `LockMode`) and waits
while a lock of another transaction conflicts; what it writes is kept in `new`
until the commit. The commit checks the deferred keys, for which it may read,
and wait for, the rows of others. `Deadlock` is the database aborting a
transaction of a circle; the repository does not try again, and rolls back on
every error (`Abort`). Arguments are any that a handler, which read the tables
some time before, may pass. The clock stands still here, as `RoomRefresh` is
about stamps.

*Requests.* `req[q].pc` names the repository call the handler of slot `q` is
about to make; `row` is the copy of the row it will write back. The first call
of a handler is one action with its arrival. `Cancel` ends a request between
two calls: a client that disconnects cancels the context, the server may stop,
and the database may abort a statement.

*Pages and calls.* In `Game`, `page[u]` is the address of a player's page and
`view[u]` what it shows of its room: a copy, nothing yet, or a rendering that
threw. `call[q]` is the client's side of the request in the same slot: a click
fills it, the answer empties it and moves the page as the `.then` of the click
does; loading the page again forgets it while the service goes on. Starting a
game is the call `freeze`, then the call `setState`. `lost` remembers starts
that failed and leaves that the player did not wait for, which the properties
speak about. A refresh is one step. `GameTick` is there and changes nothing:
`doGameTickAsync` is called without arguments and throws in its first line.

*Refresh.* The content of a room is a version number. A write binds its stamp
when it begins and becomes visible when it commits (`repository.go:215`); the
client stamps its copy, in whole seconds, when the answer arrives
(`rooms.js:52`); a 304 is answered if the first is before the second.

*Session.* A tab is blank from its loading until the promise that verifies the
saved pair is fulfilled; the pair it then uses is the one it read before. The
callback page sends its code when it is mounted and goes to the lobby without
waiting, so the answer changes the session of whatever the tab then shows.
`FAIL_LOGIN` takes user and token from the tab and leaves the saved pair.
A code is exchanged for at most one token, so tokens are named by codes.

*Lobby.* `RoomService` is proved to implement `Membership`, so the lobby is
checked against `Membership`. A frozen room, a passcode or an error are a
refusal (`CallFails`), which may come at any time, before or after the effect.

*Faults.* Definitions whose name has a suffix after an underscore
(`AddGet_AnyRoom`) are plausible bugs, introduced by a comment "Fault:". No
specification uses them; they are put in the place of the definition they
follow to see that a property would notice.

## Runs

| Run | Question | Properties | Bounds |
|---|---|---|---|
| `room_sequential` | what do the handlers guarantee when requests do not overlap? | `TypeOK`, `TurnPlayerIsMember`, `FrozenRoomClosed`, `FreezeIsPermanent`, `NonHostsChangeOwnDataOnly`, `ChangesAreStamped` | 3 users, 2 rooms, 1 slot, clock to 1 |
| `room_concurrent` | what holds however they interleave? | `ReferencesHold`, `HostIsMember`, `FrozenHasTurn`, `SnapshotHost`, `OnlyLeaversLeave`, `HostDecides`, `ImplementsMembership` | 3 users, 2 rooms, 3 slots |
| `transactions` | is a repository method one step, does it end, and who can deadlock? | `TypeOK`, `OrderlyNeverDeadlock`, `ImplementsRepository`, `EveryTransactionEnds` | 1 room, 2 users, 2 transactions |
| `refresh_prompt` | is 304 true, does a page show nothing but what its rooms were, in calm without going back, and does it catch up, if commits and answers are prompt? | `TypeOK`, `NotModifiedIsTrue`, `ImplementsRoomView`, `ViewConverges` | 2 rooms, 1 writer, 2 polls, 1 operation of the player, 2 versions, clock to 2 |
| `game` | what do the pages guarantee on top of the service? | `GameTypeOK`, `StartedGamesHaveStage`, `LeaversAreLetGo`, `PlayersKeepTheirPage`, `GameFreezeIsPermanent` | 2 users, 1 room, 2 slots |
| `session` | who is logged in where, and what does a failed login break? | `TypeOK`, `IdentityIsOwner`, `SessionsAreSaved`, `OnlyCallbackTabsCrash`, `AppStarts` | 2 tabs, 2 accounts with a code each, 2 logins |
| `lobby_list` | what does the lobby show and open? | `TypeOK`, `ShownRoomsHaveOwners`, `CreatedRoomIsOwn`, `ListIsAllOrNothing`, `RoomsAreListed` | 2 users, 1 room, 2 refreshes |
| `page_walk` | do the pages that links join partition a list? | `TypeOK`, `NeverEmpty`, `EveryItemSeen`, `WindowsMeet` | lists to 8 items, sizes and pages from -1 to 9 |

The bounds are enough for the interesting cases. In the service, three users
are a host, a guest and a stranger; two rooms let a user leave one and enter
another, and let a request name the wrong one; two slots let one handler run
wholly inside another, and three let two of them run inside a third. Two
transactions on two users and their room hold every pair of methods that
conflict and the shortest circle. Two polls or refreshes overlap and overtake
each other, with one of a page that is gone. A clock with two ticks to a second
tells a whole second from its middle, and the run crosses the end of a second.
In `game` a host and a guest are the two players that a start needs, and two
slots hold two starts, or a start and a leave. In `session` two tabs of one
browser have two accounts to mix up, and one code sent twice occupies both
logins. In `lobby_list` a page holds the row of the room and that of a guest,
and one room is enough for it to be opened, joined and disbanded while an answer
travels. `room_concurrent` has no state keys, as none of its properties reads
them. `page_walk` may stop (a list of one page has no links), so deadlock is
not checked there; all other specifications can always go on. The safety
properties of every run are proved for all bounds as well (below).

Four runs refute what the repository says of itself; each is a finding in
`PROJECT.json`, with the line it contradicts.

| Run | What the code does |
|---|---|
| `join_after_freeze` | a join that passed the frozen test enters a room that was frozen meanwhile |
| `leave_elsewhere` | leaving a room one is not in takes one out of the room one is in |
| `refresh_stale` | a change committed while an answer travels is hidden behind 304 |
| `game_stuck` | the turn player submits a drawing, and the game stays in its first stage for ever |

With two slots the properties of `room_sequential` fail, but for
`ChangesAreStamped`: a turn change that read the room before a freeze undoes it
(`FreezeIsPermanent`), the turn can go to a user who has moved to another room
(`TurnPlayerIsMember`), and a guest who sets its own key writes an older copy of
all other columns (`NonHostsChangeOwnDataOnly`, against `service.go:229`).

More disagreements are part of how the modules model the code. The player who
has the turn cannot leave: the key of `turn_player_id` refuses the removal at
commit (`RemovePlayerAllowed`); as the client uses the service only the host
ever has the turn, so `LeaversAreLetGo` holds in `Game`. Query's LIMIT and
OFFSET count the rows of a join, while the page count is of rooms, so with
guests some rooms are on no page, and the row of a guest is listed without
players, which the client's `createRoom` cannot read: one guest in any listed
room makes the whole refresh fail (`Readable`). `ListIsAllOrNothing` says both
halves of this: while nobody is a guest the list reads as exactly the rooms
there are, and one guest on its page makes all of it unreadable;
`RoomsAreListed` is worded around it. `FAIL_REFRESH` is the same string as `END_REFRESH`, so a refresh that
fails empties the list and shows no error (`EndRefresh`). A join that succeeds
is answered with 200, and the client expects 201, so that each one is reported
as failed (`Fails`).

## Fairness and assumptions

Five runs assume fairness; safety is not affected by it.

- `transactions`: a lock that is free again and again is granted (strong
  fairness of `Execute`: PostgreSQL queues those who wait for a row), and the
  database finds deadlocks (weak fairness of `Deadlock`).
- `refresh_prompt`: a statement that began commits, the interval fires, an
  operation of the player ends (weak: `fetch` settles), and an answer that is
  asked for again and again arrives (strong: not every poll fails). The player's
  operations are bounded (`MaxActs`), which also stands for the fact that each
  render restarts the interval in `Room.js:36`: a page that renders for ever
  faster than once a second would never poll.
- `lobby_list`: the interval fires (weak), the list arrives in the end (strong).
  `RoomsAreListed` asks that the list be right again and again, not for ever: a
  refresh that fails empties it.
- `session`: the call that verifies a pair is answered or fails (strong, for the
  user may reload the tab again and again), and so is a login (weak).
- `game_stuck`: the service goes on with requests, calls are answered or fail,
  pages are refreshed (weak). Nothing is assumed of the players.

`Prompt` is the assumption under which 304 is sound: what began in a second
(a write bound its stamp, the server answered a poll) ends in it.
`refresh_stale` shows what happens without it, so it is an environment
assumption that the code makes and does not enforce.

In `Lobby` the user makes one call at a time; `Game` has them overlap. Room ids
are drawn at random. `CreateInsert` excludes that an id is drawn again while a
handler still holds what it read of the last room with that id, and `Game` also
while a page or a call names it; a collision with a room that exists is
modelled, and refused by the primary key. The users of the requests of
`RoomService` are given; `Session` shows that a session names the owner of its
token.

## Proofs

Every safety and action property and every refinement that a passing run checks
is proved for all values of the
constants. All proofs rest on the named assumptions of the modules
only: the sentinels are none of the values they stand beside, the bodies of
SetState are states, bounds are numbers, and in `Lobby` users and rooms are
finite sets.

`RoomServiceProofs` (any users, rooms, keys, values, slots, bodies). The
inductive invariant `IInv` is types, `PlayersHaveRooms`, `TurnPlayerExists`,
`HostIsMember`, `FrozenHasTurn` and `SnapshotHost`. `HostIsMember` is not
inductive by itself: `WriteRoom` writes `owner_id` from an old copy, so one has
to know that the copy agrees with the row, and that is `SnapshotHost`.
`SnapshotHost` in turn is kept because no step changes an owner and because a
room that was deleted does not come back under the same id while somebody holds
its copy. `FrozenHasTurn` must speak of copies for the same reason: any of them
may become the row. The tables are treated first, one lemma per repository
operation, then the handlers, one step per action (`RoomStepKeeps`).
`HostAlwaysDecides`, `OnlyLeaversEverLeave` and `Implementation` follow from it.

`SequentialProofs` (any number of slots). Four rules of the handlers are broken
when requests overlap. Each is proved of every behaviour in which one kind of
overlap never happens, stated as an assumption about the behaviour
(`Spec /\ []A => ...`), so that the overlap is shown to be the only cause, and
is what a row lock or a transaction would have to exclude:

| Rule | Holds as long as | Theorem |
|---|---|---|
| `TurnPlayerIsMember` | no user is about to be removed while a request holds a copy that makes it the turn player (`TurnsApart`) | `TurnPlayerStaysMember` |
| `FrozenRoomClosed` | no request holds a copy of a room while a join of it has passed the test of frozen (`JoinsApart`) | `FrozenRoomAdmitsNobody` |
| `FreezeIsPermanent` | no two requests hold copies of one room to write back (`WritersAlone`) | `FreezeIsNeverLost` |
| `NonHostsChangeOwnDataOnly` | the same | `GuestsWriteOwnKeyOnly` |

The invariants say that what a handler has read is still so as far as the rule
needs it: the room it adds a player to is not frozen, the copy it writes back
unfreezes nothing, gives the turn to a member, and differs from the row, if it
is a guest's, in the guest's key only. That requests do not overlap at all
(`OneAtATime`, a single slot) is a special case of all three assumptions, and
gives the four theorems that `room_sequential` checks on its instance.
`ChangesAreAlwaysStamped` needs no assumption.

`TransactionProofs`. The invariant says that no two transactions hold a lock on a
row (`Exclusive`), that the committed tables hold the references of
`RoomRepository` (`TablesOK`), and, for each method, what it has locked and
written by the statement it has reached (`WrittenOK`). From these, a commit does
to the tables what the operation of `RoomRepository` does, and only if its guard
holds, although the keys were checked against rows that others were changing.
`NeverDeadlock` is about any number of transactions: those that lock a player
first wait only for transactions that have reached the room, which wait for none
of them. Circles need an Update or a Delete. `CommittedReferencesAlwaysHold` adds
that players are in rooms that there are, so that whoever reads the tables, at
whatever moment of other transactions, finds no dangling reference.

`RoomRefreshProofs`. `ViewImplementation` (`Spec => ImplementsRoomView`, prompt or
not) needs that the kept copy, the answers and the view each have a version that
their room had (`CopiesWere`), and, for the calm of `RoomView`, the two
invariants that follow. They assume `Prompt`. For `NotModifiedIsTrue` the invariant
`CopiesInv` says that a change that is about to be committed bears a time of
this second, and that a copy either is up to date or its room was stamped at
the time of the copy or later (`Covers`): of the client's copy, and of what each
poll asked about and found. For `ViewNeverGoesBack` `QuietInv` says that, as
long as the player has done nothing, the mounted page has at most one poll
(`OneLivePoll`), whose answer is not older than what the page shows, nor is any
copy that a "not modified" may come to stand for (`AnswerIsNew`). The property
speaks of the room whose page is mounted (`view.id = page`); it is part of
`ImplementsRoomView`, which is what the run checks.

`SessionProofs`. Every pair, wherever it is kept, is one that the server gave
out together (`Genuine`); the pair of a tab is only there if one is saved
(`SavedFor`); a login that will be answered to a tab finds there a tab that came
through the callback page (`LoginOK`), so that only such a tab can lose its user
under a room page.

`LobbyProofs`. Lists that travel hold no players but the owners of their items
(`ListsOK`), from which the reducer makes only rooms with owners; a creation
that succeeded names a room whose host is the user (`CallsOK`), whatever others
do while the answer travels. `ListIsAlwaysAllOrNothing` counts: while nobody is a
guest there are as many rows in the join as rooms (`PlacesOK`: hosts are in
their rooms), so that the page that the count made is the list, and each row is
the host's. `LobbyKeepsMembership` is the refinement that joins the lobby to the
room service.

`GameProofs`. `PagesDriveService` shows that pages only do what the service
allows (`GameSpec => Spec`), so that `IInv` holds of the game, and with
`Implementation` that the game implements `Membership` (`GameKeepsMembership`). Three invariants
stand on it. `PagesInv`: types, and calls and views name rooms.
`StartInv`: the turn is the host's or nobody's, so that nobody who leaves is
held back; a frozen room has a stage, or a start that is under way or lost
(`RowOK`); every copy that will be written back freezes its room, and has a stage
unless it is that of the first half of a start (`StartCopyOK`), so that an older copy
undoes no start for good. `StayInv`: whose page shows it in a room that it is
not in any more has asked to leave (`PageKept`). Each step is shown to keep
them, first of the service, then of the pages. Two rules that the service alone
breaks hold of the game however its requests overlap: the turn player is a
member (`GameTurnPlayerIsMember`, from `StartInv`), and a guest changes neither
freeze nor turn nor any key but its own (`GameGuestsWriteOwnKeyOnly`), since every request of the
pages that is about to write a row acts for the host (`HostsInv`).

`PageWalkProofs`. `CountOK` is the rounding up of `PageCount`, `PagesOK` what
`New` returns; the invariant `WalkInv` says that a client that came straight
from page 1 has seen the items up to the end of its page.

Only model-checked: the liveness properties (`ViewConverges`, `RoomsAreListed`,
`EveryTransactionEnds`, `AppStarts`). Liveness under fairness and ENABLED are
beyond the provers that are used here and stay with TLC. Nothing in these
modules computes by recursion, so that no proof needs induction over data.

## Not modelled

- Guessing, scores, `endTurn` and the timeouts of stages. `GameScreen.js:26`
  calls `doGameTickAsync` without arguments, which throws before it does
  anything; with arguments it would read `stage` and `turn` of the room and not
  of `room.state`. At this commit no behaviour reaches them, and a model of what
  was meant would not be one of this code.
- The demo account of POST `/login`, which the client does not use, the
  signature of tokens, and who GitHub says a code is of.
- The width of integers (`| 0` in `rooms.js:52` wraps in 2038) and the race of
  goroutines on the random generator in `pkg/rand`.
- The text of errors, links and logs; configuration, server start and health
  check; drawing, compression and rendering, except that a rendering throws.

## Plan

All components that keep state of the protocol are modelled. What could follow:
a `Game` with polls that are late (composing `RoomRefresh` in place of the one
step `Refresh`), and, once `doGameTickAsync` is given its arguments, the stages
after the first with an abstract specification of turns and scores.
