----------------------------- MODULE GameProofs -----------------------------
(***************************************************************************)
(* Proofs about the players' pages on top of the room service, for every   *)
(* set of users, rooms and calls at a time.                                *)
(***************************************************************************)
EXTENDS Game, SequentialProofs

-----------------------------------------------------------------------------
(* The pages drive the service only as RoomService allows, and everything  *)
(* keeps its type.                                                         *)

\* What a call names: a client that waits is a user, and a call that is, or
\* will be, about a room names one.
CallNames(c) ==
    /\ c.op # "none" => c.user \in Users
    /\ c.op \in {"join", "leave", "freeze", "setState"} => c.id \in RoomIds
    /\ c.op = "create" /\ c.ok => c.id \in RoomIds

CallsName == \A q \in Requests : CallNames(call[q])

\* A page that shows a room is the page of a room.
ShownOnPages == \A u \in Users : IsShown(u) => page[u] \in RoomIds

PagesInv == IInv /\ GameTypeOK /\ CallsName /\ ShownOnPages

\* A click starts a request that the service knows, or none.
LEMMA ClickIsService ==
    ASSUME PagesInv, NEW u \in Users, NEW q \in Requests,
           \/ ClickCreate(q, u) \/ ClickLeavePrevious(q, u) \/ ClickLeave(q, u)
           \/ ClickStart(q, u) \/ SubmitDrawing(q, u)
           \/ \E r \in RoomIds : ClickJoin(q, u, r)
    PROVE  RoomStep(q) \/ UNCHANGED vars
<1> USE DEF service, vars
<1>0. /\ page[u] # NoRoom => page[u] \in RoomIds
      /\ IsShown(u) => page[u] \in RoomIds
    BY DEF PagesInv, GameTypeOK, ShownOnPages
<1>1. CASE ClickCreate(q, u)
    BY <1>1 DEF ClickCreate, RoomStep
<1>2. CASE ClickLeavePrevious(q, u)
    BY <1>2 DEF ClickLeavePrevious, RoomStep
<1>3. CASE ClickLeave(q, u)
    BY <1>0, <1>3 DEF ClickLeave, RoomStep
<1>4. CASE ClickStart(q, u)
    BY <1>0, <1>4 DEF ClickStart, StartModal, Freeze, RoomStep
<1>5. CASE SubmitDrawing(q, u)
    BY <1>0, <1>5, GameAssumption DEF SubmitDrawing, Draws, RoomStep
<1>6. ASSUME NEW r \in RoomIds, ClickJoin(q, u, r) PROVE RoomStep(q) \/ UNCHANGED vars
    BY <1>6 DEF ClickJoin, RoomStep
<1>7. QED BY <1>1, <1>2, <1>3, <1>4, <1>5, <1>6

\* So does an answer, of which only that to a freeze starts another request.
LEMMA AnswerIsService ==
    ASSUME PagesInv, NEW q \in Requests, AnswerStep(q)
    PROVE  RoomStep(q) \/ UNCHANGED vars
<1> USE DEF service, vars
<1>1. CASE FreezeArrives(q)
    <2>1. call[q].user \in Users /\ call[q].id \in RoomIds
        BY <1>1 DEF FreezeArrives, Answered, PagesInv, CallsName, CallNames
    <2>2. QED BY <1>1, <2>1, StartAssumption DEF FreezeArrives, RoomStep
<1>2. CASE CreateArrives(q) \/ JoinArrives(q) \/ LeaveArrives(q) \/ LeavePreviousArrives(q)
    BY <1>2 DEF CreateArrives, JoinArrives, LeaveArrives, LeavePreviousArrives
<1>3. CASE SetStateArrives(q) \/ StartFails(q) \/ CreateFails(q)
    BY <1>3 DEF SetStateArrives, StartFails, CreateFails
<1>4. QED BY <1>1, <1>2, <1>3 DEF AnswerStep

\* And what the service does by itself is a step of the service.
LEMMA ServeIsService ==
    ASSUME NEW q \in Requests, ServiceStep(q) \/ ServeCancelled(q)
    PROVE  RoomStep(q)
BY DEF ServiceStep, ServeCancelled, Serve, ServeCreated, ServeWrite, RoomStep

\* A step of the pages is a step of the service or none.
LEMMA GameStepIsService ==
    ASSUME PagesInv, [GameNext]_gameVars
    PROVE  [Next]_vars
<1>1. ASSUME NEW u \in Users, UserStep(u) PROVE [Next]_vars
    <2>1. CASE Refresh(u) \/ ToLobby(u) \/ \E r \in RoomIds \cup {page[u]} : Load(u, r)
        BY <2>1 DEF Refresh, ToLobby, Load, service, vars
    <2>2. CASE GameTick(u)
        BY <2>2 DEF GameTick, gameVars, vars
    <2>3. ASSUME NEW q \in Requests,
                 \/ ClickCreate(q, u) \/ ClickLeavePrevious(q, u) \/ ClickLeave(q, u)
                 \/ ClickStart(q, u) \/ SubmitDrawing(q, u)
                 \/ \E r \in RoomIds : ClickJoin(q, u, r)
          PROVE  [Next]_vars
        BY <2>3, ClickIsService DEF Next
    <2>4. QED BY <1>1, <2>1, <2>2, <2>3 DEF UserStep
<1>2. ASSUME NEW q \in Requests, ServiceStep(q) \/ ServeCancelled(q) \/ AnswerStep(q)
      PROVE  [Next]_vars
    BY <1>2, AnswerIsService, ServeIsService DEF Next
<1>3. CASE UNCHANGED gameVars
    BY <1>3 DEF gameVars, vars
<1>4. QED BY <1>1, <1>2, <1>3 DEF GameNext

\* The types of what the pages and the calls hold.
CallRecords == [op : {"none", "create", "join", "leave", "leavePrevious", "freeze", "setState"},
                user : Users \cup {Nobody}, id : RoomIds \cup {NoRoom}, ok : BOOLEAN]

LostRecords == [op : {"start"}, user : {Nobody}, id : RoomIds]
               \cup [op : {"leave"}, user : Users, id : {NoRoom}]

PagesOK ==
    /\ page \in [Users -> RoomIds \cup {NoRoom}]
    /\ view \in [Users -> Views \cup {NoView, Crashed}]
    /\ ShownOnPages

CallsOK ==
    /\ call \in [Requests -> CallRecords]
    /\ CallsName

LEMMA GameTypes == GameTypeOK /\ CallsName /\ ShownOnPages
                   <=> PagesOK /\ CallsOK /\ lost \subseteq LostRecords
BY DEF GameTypeOK, PagesOK, CallsOK, CallRecords, LostRecords

\* A page that goes somewhere is there, and shows a room only on one.
LEMMA GoType ==
    ASSUME PagesOK, NEW u \in Users, NEW r \in RoomIds \cup {NoRoom}, Go(u, r)
    PROVE  PagesOK'
BY DEF PagesOK, ShownOnPages, IsShown, Go

\* What a page is shown of a room is a view.
LEMMA ShownType ==
    ASSUME TypeOK, NEW r \in RoomIds, Exists(r)
    PROVE  Shown(r) \in Views
<1>1. Stage \in Keys
    BY GameAssumption DEF Keys
<1>2. room[r] \in RoomRows
    BY DEF TypeOK, Exists
<1>3. room[r].state[Stage] \in Values \cup {Unset}
    BY <1>1, <1>2 DEF RoomRows, RoomStates
<1>4. Members(r) \subseteq Users
    BY DEF Members
<1>5. QED BY <1>2, <1>3, <1>4 DEF Shown, Views, RoomRows

LEMMA RefreshType ==
    ASSUME PagesOK, TypeOK, NEW u \in Users, Refresh(u)
    PROVE  PagesOK'
<1>1. CASE Exists(page[u])
    <2>1. page[u] \in RoomIds
        BY <1>1 DEF PagesOK, Refresh
    <2>2. Rendered(u, Shown(page[u])) \in Views \cup {Crashed}
        BY <1>1, <2>1, ShownType DEF Rendered
    <2>3. QED BY <1>1, <2>1, <2>2 DEF PagesOK, ShownOnPages, IsShown, Refresh
<1>2. CASE ~Exists(page[u])
    BY <1>2, GoType DEF Refresh
<1>3. QED BY <1>1, <1>2

LEMMA AskType ==
    ASSUME CallsOK, NEW q \in Requests, NEW u \in Users, NEW r,
           NEW op \in {"create", "join", "leave", "leavePrevious", "freeze"}, Ask(q, op, u, r),
           IF op \in {"create", "leavePrevious"} THEN r = NoRoom ELSE r \in RoomIds
    PROVE  CallsOK'
<1>1. [op |-> op, user |-> u, id |-> r, ok |-> FALSE] \in CallRecords
    BY DEF CallRecords
<1>2. QED BY <1>1 DEF CallsOK, CallsName, CallNames, Ask

LEMMA OverType ==
    ASSUME CallsOK, NEW q \in Requests, Over(q)
    PROVE  CallsOK'
BY DEF CallsOK, CallsName, CallNames, Over, NoCall, CallRecords

LEMMA SucceedsType ==
    ASSUME CallsOK, NEW q \in Requests, NEW r \in RoomIds, Succeeds(q, r)
    PROVE  CallsOK'
BY DEF CallsOK, CallsName, CallNames, Succeeds, CallRecords

\* What is put down as lost.
LEMMA LostType ==
    ASSUME CallsOK, NEW q \in Requests
    PROVE  /\ Starting(q) => StartOf(q) \in LostRecords
           /\ Leaving(q) => LeaveOf(q) \in LostRecords
BY DEF CallsOK, CallsName, CallNames, Starting, Leaving, StartOf, LeaveOf, LostRecords

LEMMA UserStepType ==
    ASSUME PagesInv, NEW u \in Users, UserStep(u)
    PROVE  PagesOK' /\ CallsOK' /\ (lost \subseteq LostRecords)'
<1>0. PagesOK /\ CallsOK /\ lost \subseteq LostRecords /\ TypeOK
    BY GameTypes DEF PagesInv, IInv
<1> USE <1>0
<1>a. ASSUME UNCHANGED <<page, view>> PROVE PagesOK'
    BY <1>a DEF PagesOK, ShownOnPages, IsShown
<1>b. ASSUME UNCHANGED call PROVE CallsOK'
    BY <1>b DEF CallsOK, CallsName, CallNames
<1>1. CASE Refresh(u)
    BY <1>1, <1>b, RefreshType DEF Refresh
<1>2. CASE ToLobby(u)
    BY <1>2, <1>b, GoType DEF ToLobby
<1>3. CASE GameTick(u)
    BY <1>3, <1>a, <1>b DEF GameTick, gameVars
<1>4. ASSUME NEW r \in RoomIds \cup {page[u]}, Load(u, r)
      PROVE  PagesOK' /\ CallsOK' /\ (lost \subseteq LostRecords)'
    <2>1. PagesOK'
        BY <1>4 DEF PagesOK, ShownOnPages, IsShown, Load
    <2>2. CallsOK'
        <3>1. NoCall \in CallRecords /\ CallNames(NoCall)
            BY DEF NoCall, CallRecords, CallNames
        <3>2. QED BY <1>4, <3>1 DEF CallsOK, CallsName, CallNames, Load
    <2>3. (lost \subseteq LostRecords)'
        BY <1>4, LostType DEF Load
    <2>4. QED BY <2>1, <2>2, <2>3
<1>5. ASSUME NEW q \in Requests,
             \/ ClickCreate(q, u) \/ ClickLeavePrevious(q, u) \/ ClickLeave(q, u)
             \/ ClickStart(q, u) \/ SubmitDrawing(q, u)
             \/ \E r \in RoomIds : ClickJoin(q, u, r)
      PROVE  PagesOK' /\ CallsOK' /\ (lost \subseteq LostRecords)'
    <2>1. ASSUME NEW op, NEW r, Ask(q, op, u, r) PROVE UNCHANGED <<page, view, lost>>
        BY <2>1 DEF Ask
    <2>2. CASE ClickCreate(q, u)
        BY <1>a, <2>1, <2>2, AskType DEF ClickCreate
    <2>3. CASE ClickLeavePrevious(q, u)
        BY <1>a, <2>1, <2>3, AskType DEF ClickLeavePrevious
    <2>4. CASE ClickLeave(q, u)
        <3>1. page[u] \in RoomIds
            BY <2>4 DEF PagesOK, ClickLeave
        <3>2. QED BY <1>a, <2>1, <2>4, <3>1, AskType DEF ClickLeave
    <2>5. CASE ClickStart(q, u)
        <3>1. page[u] \in RoomIds
            BY <2>5 DEF PagesOK, ShownOnPages, ClickStart, StartModal
        <3>2. QED BY <1>a, <2>1, <2>5, <3>1, AskType DEF ClickStart
    <2>6. CASE SubmitDrawing(q, u)
        BY <1>a, <1>b, <2>6 DEF SubmitDrawing
    <2>7. ASSUME NEW r \in RoomIds, ClickJoin(q, u, r)
          PROVE  PagesOK' /\ CallsOK' /\ (lost \subseteq LostRecords)'
        BY <1>a, <2>1, <2>7, AskType DEF ClickJoin
    <2>8. QED BY <1>5, <2>2, <2>3, <2>4, <2>5, <2>6, <2>7
<1>6. QED BY <1>1, <1>2, <1>3, <1>4, <1>5 DEF UserStep

LEMMA CallStepType ==
    ASSUME PagesInv, NEW q \in Requests, ServiceStep(q) \/ ServeCancelled(q) \/ AnswerStep(q)
    PROVE  PagesOK' /\ CallsOK' /\ (lost \subseteq LostRecords)'
<1>0. /\ PagesOK /\ CallsOK /\ lost \subseteq LostRecords
      /\ req \in [Requests -> RequestRecords]
      /\ CallNames(call[q])
    BY GameTypes DEF PagesInv, IInv, TypeOK, CallsOK, CallsName
<1> USE <1>0
<1>a. ASSUME UNCHANGED <<page, view>> PROVE PagesOK'
    BY <1>a DEF PagesOK, ShownOnPages, IsShown
<1>b. ASSUME UNCHANGED call PROVE CallsOK'
    BY <1>b DEF CallsOK, CallsName, CallNames
<1>1. CASE Serve(q) \/ ServeCancelled(q)
    BY <1>1, <1>a, <1>b DEF Serve, ServeCancelled
<1>2. CASE ServeCreated(q)
    <2>1. req[q].id \in RoomIds
        BY <1>2, HeldByRequest DEF ServeCreated, CreateReread, At
    <2>2. QED BY <1>2, <1>a, <1>b, <2>1, SucceedsType DEF ServeCreated
<1>3. CASE ServeWrite(q)
    <2>1. req[q].id \in RoomIds
        BY <1>3, HeldByRequest DEF ServeWrite, WriteRoom, At
    <2>2. QED BY <1>3, <1>a, <1>b, <2>1, SucceedsType DEF ServeWrite
<1>4. CASE CreateArrives(q)
    <2>1. call[q].user \in Users /\ (call[q].ok => call[q].id \in RoomIds)
        BY <1>4 DEF CreateArrives, Answered, CallNames
    <2>2. QED BY <1>4, <1>a, <2>1, GoType, OverType DEF CreateArrives
<1>5. CASE JoinArrives(q)
    <2>1. call[q].user \in Users /\ call[q].id \in RoomIds
        BY <1>5 DEF JoinArrives, Answered, CallNames
    <2>2. QED BY <1>5, <2>1, GoType, OverType DEF JoinArrives
<1>6. CASE LeaveArrives(q)
    <2>1. call[q].user \in Users
        BY <1>6 DEF LeaveArrives, Answered, CallNames
    <2>2. QED BY <1>6, <2>1, GoType, OverType DEF LeaveArrives
<1>7. CASE LeavePreviousArrives(q)
    BY <1>7, <1>a, OverType, LostType DEF LeavePreviousArrives, Answered, Leaving
<1>8. CASE FreezeArrives(q)
    <2>1. CallsOK'
        <3>1. call[q].user \in Users /\ call[q].id \in RoomIds
            BY <1>8 DEF FreezeArrives, Answered, CallNames
        <3>2. [call[q] EXCEPT !.op = "setState", !.ok = FALSE] \in CallRecords
            BY DEF CallsOK, CallRecords
        <3>3. call' = [call EXCEPT ![q] = [call[q] EXCEPT !.op = "setState", !.ok = FALSE]]
            BY <1>8 DEF FreezeArrives, CallsOK
        <3>4. QED BY <3>1, <3>2, <3>3 DEF CallsOK, CallsName, CallNames, CallRecords
    <2>2. QED BY <1>8, <1>a, <2>1 DEF FreezeArrives
<1>9. CASE SetStateArrives(q) \/ CreateFails(q)
    BY <1>9, <1>a, OverType DEF SetStateArrives, CreateFails
<1>10. CASE StartFails(q)
    BY <1>10, <1>a, OverType, LostType DEF StartFails
<1>11. QED
    BY <1>1, <1>2, <1>3, <1>4, <1>5, <1>6, <1>7, <1>8, <1>9, <1>10 DEF ServiceStep, AnswerStep

LEMMA PagesStepKeeps ==
    ASSUME PagesInv, [GameNext]_gameVars
    PROVE  PagesInv'
<1>1. IInv'
    BY GameStepIsService, NextKeeps DEF PagesInv
<1>2. (PagesOK /\ CallsOK /\ lost \subseteq LostRecords)'
    <2>1. CASE UNCHANGED gameVars
        BY <2>1, GameTypes
        DEF gameVars, PagesInv, PagesOK, CallsOK, ShownOnPages, IsShown, CallsName, CallNames
    <2>2. QED BY <2>1, UserStepType, CallStepType DEF GameNext
<1>3. (GameTypeOK /\ CallsName /\ ShownOnPages)'
    BY <1>2, GameTypes, PTL
<1>4. QED BY <1>1, <1>3 DEF PagesInv

\* The inductive invariant about types.
LEMMA PagesInvariance == GameSpec => []PagesInv
<1>1. GameInit => PagesInv
    <2> SUFFICES ASSUME GameInit PROVE PagesInv
        OBVIOUS
    <2>1. IInv
        BY InitKeeps DEF GameInit
    <2>2. GameTypeOK /\ CallsName /\ ShownOnPages
        BY DEF GameInit, GameTypeOK, CallsName, CallNames, ShownOnPages, IsShown, NoCall
    <2>3. QED BY <2>1, <2>2 DEF PagesInv
<1>2. PagesInv /\ [GameNext]_gameVars => PagesInv'
    BY PagesStepKeeps
<1>3. QED BY <1>1, <1>2, PTL DEF GameSpec

\* The pages, their calls and the service keep their types.
THEOREM GameTypeCorrect == GameSpec => []GameTypeOK
<1>1. PagesInv => GameTypeOK
    BY DEF PagesInv
<1>2. QED BY <1>1, PagesInvariance, PTL

\* The pages use the service as RoomService describes it: what is proved of
\* it holds of the game.
THEOREM PagesDriveService == GameSpec => Spec
<1>1. GameInit => Init
    BY DEF GameInit
<1>2. PagesInv /\ [GameNext]_gameVars => [Next]_vars
    BY GameStepIsService
<1>3. QED BY <1>1, <1>2, PagesInvariance, PTL DEF GameSpec, Spec

\* What the players' pages make the service do is what Membership promises of
\* who is where, through every layer between them.
THEOREM GameKeepsMembership == GameSpec => ImplementsMembership
<1>1. QED BY PagesDriveService, Implementation, PTL

-----------------------------------------------------------------------------
(* The start of a game.                                                    *)

\* The start of room r's game is under way and has not been done.
Pending(q, r) ==
    /\ Starting(q)
    /\ call[q].id = r
    /\ ~(call[q].op = "setState" /\ call[q].ok)

\* Row r: the turn is the host's, and a frozen room has a stage, or a start
\* that is under way or lost.
RowOK(r) ==
    Exists(r) =>
        /\ room[r].turn \in {Nobody, room[r].owner}
        /\ room[r].frozen /\ room[r].state[Stage] = Unset =>
              StartLost(r) \/ \E q \in Requests : Pending(q, r)

\* A start has no request but its own.
StartOwn(q) ==
    Starting(q) => IsIdle(q) \/ (At(q, "Update") /\ req[q].id = call[q].id)

\* The first half of a start that went well has frozen its room.
StartFroze(q) ==
    call[q].op = "freeze" /\ call[q].ok /\ Exists(call[q].id) => room[call[q].id].frozen

\* A copy that will be written back: it gives the turn to the host and
\* freezes, and has a stage unless it is that of a first half.
StartCopyOK(q) ==
    At(q, "Update") =>
        /\ req[q].row.turn \in {Nobody, req[q].row.owner}
        /\ req[q].row.frozen
        /\ req[q].row.state[Stage] = Unset =>
              StartLost(req[q].id) \/ (call[q].op = "freeze" /\ call[q].id = req[q].id)

\* Nobody leaves a room of its own.
LeaverOK(q) ==
    At(q, "Remove") /\ Exists(req[q].id) => room[req[q].id].owner # req[q].user

SlotOK(q) == StartOwn(q) /\ StartFroze(q) /\ StartCopyOK(q) /\ LeaverOK(q)

StartInv ==
    /\ \A r \in RoomIds : RowOK(r)
    /\ \A q \in Requests : SlotOK(q)

GameInv == PagesInv /\ StartInv

\* A room has the host, the turn, the frozen flag and the state it had.
SameRow(r) ==
    /\ Exists(r)
    /\ room'[r].owner = room[r].owner
    /\ room'[r].turn = room[r].turn
    /\ room'[r].frozen = room[r].frozen
    /\ room'[r].state = room[r].state

\* A room that nobody knew of.
NewRow(r) ==
    /\ ~Exists(r)
    /\ \A q \in Requests : r \notin {call[q].id, req[q].id}
    /\ room'[r].turn = Nobody
    /\ room'[r].frozen = FALSE

\* A step that overwrites no row.
Gentle == \A r \in RoomIds : Exists(r)' => SameRow(r) \/ NewRow(r)

\* A step that takes no room from its host and unfreezes none.
Soft ==
    \A r \in RoomIds : Exists(r)' =>
        \/ /\ Exists(r)
           /\ room'[r].owner = room[r].owner
           /\ room[r].frozen => room'[r].frozen
        \/ NewRow(r)

\* A start of a room that stays is not forgotten.
StartsStay(q) ==
    \A r \in RoomIds : Exists(r)' /\ Pending(q, r) => Pending(q, r)' \/ StartLost(r)'

\* What the slots that a soft step leaves alone keep.
LEMMA OthersKeep ==
    ASSUME GameInv, NEW q \in Requests, req'[q] = req[q], call'[q] = call[q],
           lost \subseteq lost', Soft
    PROVE  SlotOK(q)' /\ StartsStay(q)
<1>0. SlotOK(q) /\ req[q] \in RequestRecords /\ CallNames(call[q])
    BY DEF GameInv, StartInv, PagesInv, CallsName, IInv, TypeOK
<1>1. \A r \in RoomIds : StartLost(r) => StartLost(r)'
    BY DEF StartLost
<1>2. StartOwn(q)'
    BY <1>0 DEF SlotOK, StartOwn, Starting, IsIdle, At
<1>3. StartFroze(q)'
    BY <1>0 DEF SlotOK, StartFroze, CallNames, Soft, NewRow
<1>4. StartCopyOK(q)'
    <2>1. At(q, "Update") => req[q].id \in RoomIds
        BY <1>0, HeldByRequest DEF At, GameInv, PagesInv, IInv, TypeOK
    <2>2. QED BY <1>0, <1>1, <2>1 DEF SlotOK, StartCopyOK, At
<1>5. LeaverOK(q)'
    <2>1. At(q, "Remove") => req[q].id \in RoomIds
        BY <1>0, HeldByRequest DEF At, GameInv, PagesInv, IInv, TypeOK
    <2>2. QED BY <1>0, <2>1 DEF SlotOK, LeaverOK, At, Soft, NewRow
<1>6. StartsStay(q)
    BY DEF StartsStay, Pending, Starting
<1>7. QED BY <1>2, <1>3, <1>4, <1>5, <1>6 DEF SlotOK

\* What a row keeps that is left alone if no start is forgotten.
LEMMA RowKeeps ==
    ASSUME GameInv, NEW r \in RoomIds, Exists(r)' => SameRow(r) \/ NewRow(r),
           lost \subseteq lost', \A q \in Requests : StartsStay(q)
    PROVE  RowOK(r)'
<1> SUFFICES ASSUME Exists(r)' PROVE RowOK(r)'
    BY DEF RowOK
<1>1. CASE NewRow(r)
    BY <1>1 DEF NewRow, RowOK
<1>2. CASE SameRow(r)
    <2>1. RowOK(r)
        BY DEF GameInv, StartInv
    <2>2. StartLost(r) => StartLost(r)'
        BY DEF StartLost
    <2>3. (\E q \in Requests : Pending(q, r)) => StartLost(r)' \/ \E q \in Requests : Pending(q, r)'
        BY DEF StartsStay
    <2>4. QED BY <1>2, <2>1, <2>2, <2>3 DEF RowOK, SameRow
<1>3. QED BY <1>1, <1>2

\* A step of slot q that overwrites no row keeps the invariant if q does.
LEMMA GentleKeeps ==
    ASSUME GameInv, NEW q \in Requests, Gentle, lost \subseteq lost', SlotOK(q)', StartsStay(q),
           \A p \in Requests \ {q} : req'[p] = req[p] /\ call'[p] = call[p]
    PROVE  StartInv' /\ Soft
<1>0. Soft
    BY DEF Gentle, Soft, SameRow
<1>1. \A p \in Requests : SlotOK(p)' /\ StartsStay(p)
    BY <1>0, OthersKeep
<1>2. \A r \in RoomIds : RowOK(r)'
    BY <1>1, RowKeeps DEF Gentle
<1>3. QED BY <1>0, <1>1, <1>2 DEF StartInv

LEMMA ReadIsGentle ==
    ASSUME UNCHANGED room
    PROVE  Gentle
BY DEF Gentle, SameRow, Exists

\* So is a step that stamps a room.
LEMMA StampIsGentle ==
    ASSUME TypeOK, NEW r, room' = Stamped(room, r)
    PROVE  Gentle
<1>1. \A s \in RoomIds : room[s] # NoRow => room[s] \in RoomRows
    BY DEF TypeOK
<1>2. QED BY <1>1 DEF TypeOK, Gentle, SameRow, Exists, Stamped, RoomRows

LEMMA DeleteIsGentle ==
    ASSUME TypeOK, NEW r, Delete(r)
    PROVE  Gentle
BY DEF TypeOK, Gentle, SameRow, Exists, Delete

LEMMA CreateIsGentle ==
    ASSUME TypeOK, NEW r \in RoomIds, NEW u, CreateAllowed(r, u),
           Create(r, u), Unknown(r)
    PROVE  Gentle
BY DEF TypeOK, Gentle, SameRow, NewRow, Exists, Create, CreateAllowed, Unknown

\* A slot that neither starts a game nor holds a copy or a leaver is right.
LEMMA QuietSlot ==
    ASSUME NEW q \in Requests, ~Starting(q)', req'[q].pc \notin {"Update", "Remove"}
    PROVE  SlotOK(q)'
BY DEF SlotOK, StartOwn, StartFroze, StartCopyOK, LeaverOK, Starting, At

\* A handler that is neither done nor about to write is not that of a start.
LEMMA StartsWrite ==
    ASSUME GameInv, NEW q \in Requests, req[q].pc \notin {"Idle", "Update"}
    PROVE  ~Starting(q)
BY DEF GameInv, StartInv, SlotOK, StartOwn, IsIdle, Idle, At

LEMMA ServeKeeps ==
    ASSUME GameInv, NEW q \in Requests, Serve(q)
    PROVE  StartInv' /\ Soft
<1>0. /\ TypeOK
      /\ UNCHANGED <<call, lost>>
      /\ \A pc \in {"CreateInsert", "AddGet", "AddInsert", "LeaveGet", "DeleteGet",
                    "Delete", "Remove"} : At(q, pc) => ~Starting(q)
    BY StartsWrite DEF GameInv, PagesInv, IInv, Serve, At
<1>1. ASSUME Gentle, ~Starting(q), req'[q].pc \notin {"Update", "Remove"},
             \A p \in Requests \ {q} : req'[p] = req[p]
      PROVE  StartInv' /\ Soft
    <2>1. ~Starting(q)'
        BY <1>0, <1>1 DEF Starting
    <2>2. SlotOK(q)'
        BY <1>1, <2>1, QuietSlot
    <2>3. StartsStay(q)
        BY <1>1 DEF StartsStay, Pending
    <2>4. QED BY <1>0, <1>1, <2>2, <2>3, GentleKeeps
<1>2. ASSUME Answer(q) PROVE /\ req'[q].pc \notin {"Update", "Remove"}
                             /\ \A p \in Requests \ {q} : req'[p] = req[p]
    BY <1>0, <1>2, AnswerMoves DEF Idle
<1>3. ASSUME NEW r \in RoomIds, Unknown(r), CreateInsert(q, r) PROVE StartInv' /\ Soft
    <2>1. CreateAllowed(r, req[q].user) /\ Create(r, req[q].user)
          /\ Goto(q, "CreateReread", req[q].user, r, NoRow)
        BY <1>3 DEF CreateInsert
    <2>2. Gentle
        BY <1>0, <1>3, <2>1, CreateIsGentle
    <2>3. ~Starting(q)
        BY <1>0, <1>3 DEF CreateInsert
    <2>4. QED BY <1>0, <1>1, <2>1, <2>2, <2>3 DEF TypeOK, Goto
<1>4. ASSUME NEW r \in RoomIds, CreateRefused(q, r) PROVE StartInv' /\ Soft
    BY <1>0, <1>1, <1>2, <1>4, ReadIsGentle DEF CreateRefused
<1>5. CASE AddGet(q)
    BY <1>0, <1>1, <1>2, <1>5, ReadIsGentle DEF TypeOK, Goto, AddGet
<1>6. CASE AddInsert(q)
    BY <1>0, <1>1, <1>2, <1>6, ReadIsGentle, StampIsGentle DEF AddInsert, AddPlayer
<1>7. CASE LeaveAllGet(q)
    <2>0. /\ UNCHANGED room
          /\ ~Starting(q)
          /\ \/ Goto(q, "DeleteGet", req[q].user, req[q].id, NoRow)
             \/ /\ Goto(q, "Remove", req[q].user, req[q].id, NoRow)
                /\ req[q].user # room[req[q].id].owner
        BY <1>0, <1>7 DEF LeaveAllGet, Leave
    <2>1. /\ Gentle /\ ~Starting(q)'
          /\ \A p \in Requests \ {q} : req'[p] = req[p]
        BY <1>0, <2>0, ReadIsGentle DEF TypeOK, Goto, Starting
    <2>2. \/ req'[q].pc = "DeleteGet"
          \/ /\ req'[q].pc = "Remove" /\ req'[q].id = req[q].id /\ req'[q].user = req[q].user
             /\ req[q].user # room[req[q].id].owner
        BY <1>0, <2>0 DEF TypeOK, Goto
    <2>4. SlotOK(q)'
        BY <2>0, <2>1, <2>2 DEF SlotOK, StartOwn, StartFroze, StartCopyOK, LeaverOK, Starting, At
    <2>5. StartsStay(q)
        BY <2>0 DEF StartsStay, Pending
    <2>6. QED BY <1>0, <2>1, <2>4, <2>5, GentleKeeps
<1>8. CASE LeaveAllGone(q)
    BY <1>0, <1>1, <1>2, <1>8, ReadIsGentle DEF LeaveAllGone
<1>9. CASE DeleteGet(q)
    BY <1>0, <1>1, <1>2, <1>9, ReadIsGentle DEF TypeOK, Goto, DeleteGet
<1>10. CASE DeleteRoom(q)
    BY <1>0, <1>1, <1>2, <1>10, ReadIsGentle, DeleteIsGentle DEF DeleteRoom
<1>11. CASE Remove(q)
    BY <1>0, <1>1, <1>2, <1>11, ReadIsGentle, StampIsGentle DEF Remove, RemovePlayer
<1>12. QED BY <1>3, <1>4, <1>5, <1>6, <1>7, <1>8, <1>9, <1>10, <1>11 DEF Serve

\* A request that ends without a change to the tables or to its call.
LEMMA EndKeeps ==
    ASSUME GameInv, NEW q \in Requests, Answer(q), UNCHANGED <<room, call, lost>>
    PROVE  StartInv' /\ Soft
<1>0. /\ TypeOK /\ SlotOK(q)
      /\ req'[q] = Idle /\ \A p \in Requests \ {q} : req'[p] = req[p]
    BY AnswerMoves DEF GameInv, PagesInv, IInv, StartInv
<1>1. SlotOK(q)'
    BY <1>0 DEF SlotOK, StartOwn, StartFroze, StartCopyOK, LeaverOK, Starting, IsIdle, At, Idle, Exists
<1>2. StartsStay(q)
    BY DEF StartsStay, Pending, Starting
<1>3. QED BY <1>0, <1>1, <1>2, ReadIsGentle, GentleKeeps

LEMMA ServeCreatedKeeps ==
    ASSUME GameInv, NEW q \in Requests, ServeCreated(q)
    PROVE  StartInv' /\ Soft
<1>0. /\ TypeOK /\ call \in [Requests -> CallRecords]
      /\ ~Starting(q)
      /\ UNCHANGED <<room, lost>>
      /\ req'[q] = Idle /\ \A p \in Requests \ {q} : req'[p] = req[p]
    BY AnswerMoves, StartsWrite, GameTypes
    DEF GameInv, PagesInv, IInv, CallsOK, ServeCreated, CreateReread, At
<1>1. /\ call'[q].op = call[q].op
      /\ \A p \in Requests \ {q} : call'[p] = call[p]
    BY <1>0 DEF ServeCreated, Succeeds, CallRecords
<1>2. SlotOK(q)'
    BY <1>0, <1>1, QuietSlot DEF Starting, Idle
<1>3. StartsStay(q)
    BY <1>0 DEF StartsStay, Pending
<1>4. QED BY <1>0, <1>1, <1>2, <1>3, ReadIsGentle, GentleKeeps

\* A copy is written back.  Its room stays frozen and keeps its host, and if
\* it now has no stage that is because its start is at its first half.
LEMMA ServeWriteKeeps ==
    ASSUME GameInv, NEW q \in Requests, ServeWrite(q)
    PROVE  StartInv' /\ Soft
<1>a. req[q].id \in RoomIds /\ req[q].row \in RoomRows
    BY HeldByRequest DEF GameInv, PagesInv, IInv, TypeOK, ServeWrite, WriteRoom, At
<1> SUFFICES ASSUME NEW r \in RoomIds, NEW row \in RoomRows, req[q].id = r, req[q].row = row
             PROVE  StartInv' /\ Soft
    BY <1>a
<1>0. /\ IInv /\ TypeOK /\ call \in [Requests -> CallRecords]
      /\ SlotOK(q) /\ At(q, "Update")
      /\ UNCHANGED lost
      /\ Answer(q) /\ req'[q] = Idle /\ \A p \in Requests \ {q} : req'[p] = req[p]
    BY AnswerMoves, GameTypes
    DEF GameInv, PagesInv, IInv, CallsOK, StartInv, ServeWrite, WriteRoom
<1>1. CASE ~UpdateAllowed(r, row)
    BY <1>0, <1>1, EndKeeps, ReadIsGentle DEF ServeWrite, WriteRoom, Gentle, Soft, SameRow
<1>2. CASE UpdateAllowed(r, row)
    <2>0. Update(r, row) /\ Succeeds(q, r)
        BY <1>2 DEF ServeWrite, WriteRoom
    <2>1. /\ call'[q].op = call[q].op
          /\ call[q] # NoCall => call'[q].id = r /\ call'[q].ok
          /\ call[q] = NoCall => call'[q] = NoCall
          /\ \A p \in Requests \ {q} : call'[p] = call[p]
        BY <1>0, <2>0 DEF Succeeds, CallRecords
    <2>2. /\ \A s \in RoomIds \ {r} : room'[s] = room[s]
          /\ ~Exists(r) => room' = room
          /\ Exists(r) => /\ room'[r] = [row EXCEPT !.updated = clock]
                          /\ Exists(r)'
        <3>1. [row EXCEPT !.updated = clock] # NoRow
            BY <1>0, Sentinels DEF TypeOK, RoomRows
        <3>2. QED BY <1>0, <2>0, <3>1 DEF Update, Exists, TypeOK
    <2>3. Exists(r) => /\ room'[r].owner = room[r].owner
                       /\ room'[r].owner = row.owner
                       /\ room'[r].turn = row.turn
                       /\ room'[r].frozen
                       /\ room'[r].state = row.state
        <3>1. row.frozen /\ (Exists(r) => room[r].owner = row.owner)
            BY <1>0 DEF SlotOK, StartCopyOK, IInv, SnapshotHost, HoldsSnapshot, At
        <3>2. QED BY <1>0, <2>2, <3>1 DEF RoomRows
    <2>4. Soft
        BY <2>2, <2>3 DEF Soft, Exists
    <2>5. SlotOK(q)'
        <3>1. call[q] = NoCall => ~Starting(q)'
            BY <2>1 DEF Starting, NoCall
        <3>2. StartFroze(q)'
            BY <2>1, <2>2, <2>3, <3>1 DEF StartFroze, Starting, Exists
        <3>3. StartOwn(q)' /\ StartCopyOK(q)' /\ LeaverOK(q)'
            BY <1>0 DEF StartOwn, StartCopyOK, LeaverOK, IsIdle, At, Idle
        <3>4. QED BY <3>2, <3>3 DEF SlotOK
    <2>6. Starting(q) => call[q].id = r
        BY <1>0 DEF SlotOK, StartOwn, IsIdle, At, Idle
    <2>7. \A p \in Requests \ {q} : SlotOK(p)' /\ StartsStay(p)
        BY <1>0, <2>1, <2>4, OthersKeep
    <2>8. RowOK(r)'
        <3>1. CASE ~Exists(r)
            BY <2>2, <3>1 DEF RowOK, Exists
        <3>2. CASE Exists(r)
            <4>1. room'[r].turn \in {Nobody, room'[r].owner}
                BY <1>0, <2>3, <3>2 DEF SlotOK, StartCopyOK
            <4>2. ASSUME row.state[Stage] = Unset PROVE StartLost(r)' \/ Pending(q, r)'
                <5>1. StartLost(r) \/ (call[q].op = "freeze" /\ call[q].id = r)
                    BY <1>0, <4>2 DEF SlotOK, StartCopyOK
                <5>2. StartLost(r) => StartLost(r)'
                    BY <1>0 DEF StartLost
                <5>3. call[q].op = "freeze" /\ call[q].id = r => Pending(q, r)'
                    BY <2>1 DEF Pending, Starting, NoCall
                <5>4. QED BY <5>1, <5>2, <5>3
            <4>3. QED BY <2>3, <3>2, <4>1, <4>2 DEF RowOK
        <3>3. QED BY <3>1, <3>2
    <2>9. ASSUME NEW s \in RoomIds \ {r} PROVE RowOK(s)'
        <3>1. \A p \in Requests : Pending(p, s) => Pending(p, s)'  \/ StartLost(s)' \/ ~Exists(s)'
            BY <2>6, <2>7 DEF StartsStay, Pending
        <3>2. RowOK(s)
            BY DEF GameInv, StartInv
        <3>3. StartLost(s) => StartLost(s)'
            BY <1>0 DEF StartLost
        <3>4. room'[s] = room[s]
            BY <2>2
        <3>5. QED BY <3>1, <3>2, <3>3, <3>4 DEF RowOK, Exists
    <2>10. QED BY <2>4, <2>5, <2>7, <2>8, <2>9 DEF StartInv
<1>3. QED BY <1>1, <1>2

LEMMA StillKeeps ==
    ASSUME GameInv, UNCHANGED <<room, req, call, lost>>
    PROVE  StartInv' /\ Soft
<1>1. /\ \A q \in Requests, r \in RoomIds : Pending(q, r)' <=> Pending(q, r)
      /\ \A r \in RoomIds : StartLost(r)' <=> StartLost(r)
    BY DEF Pending, Starting, StartLost
<1>2. \A r \in RoomIds : RowOK(r)'
    BY <1>1 DEF GameInv, StartInv, RowOK, Exists
<1>3. \A q \in Requests : SlotOK(q)'
    BY DEF GameInv, StartInv, SlotOK, StartOwn, StartFroze, StartCopyOK, LeaverOK, Starting,
           IsIdle, At, StartLost, Exists
<1>4. QED BY <1>2, <1>3 DEF StartInv, Soft, Exists

\* Whoever loads the page again loses the starts of its calls.
LEMMA LoadKeeps ==
    ASSUME GameInv, NEW u \in Users, NEW r, Load(u, r)
    PROVE  StartInv' /\ Soft
<1>0. /\ UNCHANGED <<room, req>>
      /\ lost \subseteq lost'
      /\ Gentle /\ Soft
    BY ReadIsGentle DEF Load, service, Gentle, Soft, SameRow
<1>1. ASSUME NEW q \in Requests PROVE SlotOK(q)' /\ StartsStay(q)
    <2>1. CASE call[q].user = u
        <3>0. SlotOK(q) /\ call'[q] = NoCall
            BY <2>1 DEF GameInv, StartInv, Load
        <3>1. Starting(q) => StartOf(q) \in lost'
            BY <2>1 DEF Load
        <3>2. \A s : Starting(q) /\ call[q].id = s => StartLost(s)'
            BY <3>1 DEF StartLost, StartOf
        <3>3. ~Starting(q)'
            BY <3>0 DEF Starting, NoCall
        <3>4. StartCopyOK(q)'
            <4>1. StartLost(req[q].id) => StartLost(req[q].id)'
                BY <1>0 DEF StartLost
            <4>2. call[q].op = "freeze" /\ call[q].id = req[q].id => StartLost(req[q].id)'
                BY <1>0, <3>1 DEF StartLost, Starting, StartOf
            <4>3. QED BY <1>0, <3>0, <4>1, <4>2 DEF SlotOK, StartCopyOK, At
        <3>5. LeaverOK(q)'
            BY <1>0, <3>0 DEF SlotOK, LeaverOK, At, Exists
        <3>6. StartOwn(q)' /\ StartFroze(q)'
            BY <3>3 DEF StartOwn, StartFroze, Starting
        <3>7. StartsStay(q)
            BY <3>2 DEF StartsStay, Pending
        <3>8. QED BY <3>4, <3>5, <3>6, <3>7 DEF SlotOK
    <2>2. CASE call[q].user # u
        BY <1>0, <2>2, OthersKeep DEF Load
    <2>3. QED BY <2>1, <2>2
<1>2. \A s \in RoomIds : RowOK(s)'
    BY <1>0, <1>1, RowKeeps DEF Gentle
<1>3. QED BY <1>0, <1>1, <1>2 DEF StartInv

LEMMA ClickKeeps ==
    ASSUME GameInv, NEW u \in Users, NEW q \in Requests,
           \/ ClickCreate(q, u) \/ ClickLeavePrevious(q, u) \/ ClickLeave(q, u)
           \/ ClickStart(q, u) \/ \E r \in RoomIds : ClickJoin(q, u, r)
    PROVE  StartInv' /\ Soft
<1>0. /\ TypeOK /\ call \in [Requests -> CallRecords]
    BY GameTypes DEF GameInv, PagesInv, IInv, CallsOK
<1>1. ASSUME NEW op \in {"create", "join", "leave", "leavePrevious", "freeze"}, NEW r,
             Ask(q, op, u, r), UNCHANGED room, SlotOK(q)',
             \A p \in Requests \ {q} : req'[p] = req[p]
      PROVE  StartInv' /\ Soft
    <2>1. ~Starting(q) /\ lost' = lost /\ \A p \in Requests \ {q} : call'[p] = call[p]
        BY <1>0, <1>1 DEF Ask, Starting, NoCall
    <2>2. StartsStay(q)
        BY <2>1 DEF StartsStay, Pending
    <2>3. QED BY <1>1, <2>1, <2>2, ReadIsGentle, GentleKeeps
<1>2. ASSUME NEW op \in {"create", "join", "leave", "leavePrevious"}, NEW r, Ask(q, op, u, r),
             req'[q].pc \notin {"Update", "Remove"}, UNCHANGED room,
             \A p \in Requests \ {q} : req'[p] = req[p]
      PROVE  StartInv' /\ Soft
    <2>1. call'[q].op = op
        BY <1>0, <1>2 DEF Ask
    <2>2. ~Starting(q)'
        BY <1>2, <2>1 DEF Starting
    <2>3. QED BY <1>1, <1>2, <2>2, QuietSlot
<1>3. CASE ClickCreate(q, u)
    <2>1. /\ Ask(q, "create", u, NoRoom) /\ UNCHANGED room
          /\ UNCHANGED req \/ Goto(q, "CreateInsert", u, NoRoom, NoRow)
        BY <1>3 DEF ClickCreate, CreateFind, service
    <2>2. /\ req'[q].pc \notin {"Update", "Remove"}
          /\ \A p \in Requests \ {q} : req'[p] = req[p]
        BY <1>0, <2>1 DEF TypeOK, Goto, Ask, IsIdle, Idle
    <2>3. QED BY <1>2, <2>1, <2>2
<1>4. ASSUME NEW r \in RoomIds, ClickJoin(q, u, r) PROVE StartInv' /\ Soft
    <2>1. /\ Ask(q, "join", u, r) /\ UNCHANGED room
          /\ UNCHANGED req \/ Goto(q, "AddGet", u, r, NoRow)
        BY <1>4 DEF ClickJoin, JoinGet, service
    <2>2. /\ req'[q].pc \notin {"Update", "Remove"}
          /\ \A p \in Requests \ {q} : req'[p] = req[p]
        BY <1>0, <2>1 DEF TypeOK, Goto, Ask, IsIdle, Idle
    <2>3. QED BY <1>2, <2>1, <2>2
<1>5. CASE ClickLeavePrevious(q, u)
    <2>1. /\ Ask(q, "leavePrevious", u, NoRoom) /\ UNCHANGED room
          /\ UNCHANGED req \/ Goto(q, "LeaveGet", u, player[u].room, NoRow)
        BY <1>5 DEF ClickLeavePrevious, LeaveAllFind, service
    <2>2. /\ req'[q].pc \notin {"Update", "Remove"}
          /\ \A p \in Requests \ {q} : req'[p] = req[p]
        BY <1>0, <2>1 DEF TypeOK, Goto, Ask, IsIdle, Idle
    <2>3. QED BY <1>2, <2>1, <2>2
<1>6. CASE ClickLeave(q, u)
    <2>1. /\ Ask(q, "leave", u, page[u]) /\ UNCHANGED room
          /\ \/ UNCHANGED req
             \/ Goto(q, "DeleteGet", u, page[u], NoRow)
             \/ Goto(q, "Remove", u, page[u], NoRow) /\ u # room[page[u]].owner
        BY <1>6 DEF ClickLeave, LeaveRoomGet, Leave, service
    <2>2. \A p \in Requests \ {q} : req'[p] = req[p]
        BY <1>0, <2>1 DEF TypeOK, Goto
    <2>3. \/ req'[q].pc \notin {"Update", "Remove"}
          \/ req'[q] = [pc |-> "Remove", user |-> u, id |-> page[u], row |-> NoRow]
             /\ u # room[page[u]].owner
        BY <1>0, <2>1 DEF TypeOK, Goto, Ask, IsIdle, Idle
    <2>4. call'[q].op = "leave"
        BY <1>0, <2>1 DEF Ask
    <2>5. SlotOK(q)'
        BY <2>1, <2>3, <2>4 DEF SlotOK, StartOwn, StartFroze, StartCopyOK, LeaverOK, Starting, At, Exists
    <2>6. QED BY <1>1, <2>1, <2>2, <2>5
<1>7. CASE ClickStart(q, u)
    <2> DEFINE row == [room[page[u]] EXCEPT !.frozen = TRUE, !.turn = u]
    <2>0. page[u] \in RoomIds
        BY <1>7 DEF GameInv, PagesInv, ShownOnPages, ClickStart, StartModal
    <2>1. /\ Ask(q, "freeze", u, page[u]) /\ UNCHANGED <<room, page>>
          /\ \/ UNCHANGED req
             \/ /\ Goto(q, "Update", u, page[u], row)
                /\ Exists(page[u]) /\ u = room[page[u]].owner
        BY <1>7 DEF ClickStart, Freeze, FreezeGet, service, Ask
    <2>2. \A p \in Requests \ {q} : req'[p] = req[p]
        BY <1>0, <2>1 DEF TypeOK, Goto
    <2>3. call'[q] = [op |-> "freeze", user |-> u, id |-> page[u], ok |-> FALSE]
        BY <1>0, <2>1 DEF Ask
    <2>4. \/ req'[q] = Idle
          \/ /\ req'[q] = [pc |-> "Update", user |-> u, id |-> page[u], row |-> row]
             /\ row.frozen /\ row.turn = row.owner
        <3>1. Exists(page[u]) => room[page[u]] \in RoomRows
            BY <1>0, <2>0 DEF TypeOK, Exists
        <3>2. Exists(page[u]) /\ u = room[page[u]].owner => row.frozen /\ row.turn = row.owner
            BY <3>1 DEF RoomRows
        <3>3. QED BY <1>0, <2>1, <3>2 DEF TypeOK, Goto, Ask, IsIdle
    <2>5. SlotOK(q)'
        <3>1. call'[q].op = "freeze" /\ call'[q].id = page[u] /\ ~call'[q].ok
            BY <2>3
        <3>2. CASE req'[q] = Idle
            BY <3>1, <3>2 DEF SlotOK, StartOwn, StartFroze, StartCopyOK, LeaverOK, IsIdle, At, Idle
        <3>3. ASSUME req'[q] = [pc |-> "Update", user |-> u, id |-> page[u], row |-> row],
                     row.frozen, row.turn = row.owner
              PROVE  SlotOK(q)'
            <4>1. req'[q].pc = "Update" /\ req'[q].id = page[u] /\ req'[q].row = row
                BY <3>3
            <4> HIDE DEF row
            <4>2. QED BY <3>1, <3>3, <4>1 DEF SlotOK, StartOwn, StartFroze, StartCopyOK, LeaverOK, At
        <3>4. QED BY <2>4, <3>2, <3>3
    <2>6. QED BY <1>1, <2>1, <2>2, <2>5
<1>8. QED BY <1>3, <1>4, <1>5, <1>6, <1>7

LEMMA UserStepKeeps ==
    ASSUME GameInv, NEW u \in Users, UserStep(u)
    PROVE  StartInv' /\ Soft
<1>0. TypeOK
    BY DEF GameInv, PagesInv, IInv
<1>1. CASE Refresh(u) \/ ToLobby(u) \/ GameTick(u)
    BY <1>1, StillKeeps DEF Refresh, ToLobby, GameTick, service, gameVars
<1>2. ASSUME NEW r, Load(u, r) PROVE StartInv' /\ Soft
    BY <1>2, LoadKeeps
<1>3. ASSUME NEW q \in Requests, SubmitDrawing(q, u) PROVE StartInv' /\ Soft
    <2>1. /\ UNCHANGED <<req, call, lost>>
          /\ Gentle
        BY <1>0, <1>3, StampIsGentle DEF SubmitDrawing, PutPlayerState, SetPlayerState
    <2>2. SlotOK(q)' /\ StartsStay(q)
        BY <2>1, OthersKeep DEF Gentle, Soft, SameRow
    <2>3. QED BY <2>1, <2>2, GentleKeeps
<1>4. QED BY <1>1, <1>2, <1>3, ClickKeeps DEF UserStep

\* The answer that takes no start further, or loses one.
LEMMA OverKeeps ==
    ASSUME GameInv, NEW q \in Requests, IsIdle(q), Over(q), UNCHANGED <<room, req>>,
           lost \subseteq lost',
           \/ ~Starting(q)
           \/ call[q].op = "setState" /\ call[q].ok
           \/ StartOf(q) \in lost'
    PROVE  StartInv' /\ Soft
<1>0. call \in [Requests -> CallRecords]
    BY GameTypes DEF GameInv, PagesInv, CallsOK
<1>1. /\ call'[q] = NoCall
      /\ \A p \in Requests \ {q} : call'[p] = call[p]
      /\ req'[q] = Idle
    BY <1>0 DEF Over, IsIdle
<1>2. SlotOK(q)'
    BY <1>1, QuietSlot DEF Starting, NoCall, Idle
<1>3. StartsStay(q)
    BY DEF StartsStay, Pending, StartLost, StartOf
<1>4. QED BY <1>1, <1>2, <1>3, ReadIsGentle, GentleKeeps

\* The second half of a start reads a frozen room and gives it a stage.
LEMMA FreezeArrivesKeeps ==
    ASSUME GameInv, NEW q \in Requests, FreezeArrives(q)
    PROVE  StartInv' /\ Soft
<1>a. call[q].user \in Users /\ call[q].id \in RoomIds
    BY DEF GameInv, PagesInv, CallsName, CallNames, FreezeArrives, Answered
<1> SUFFICES ASSUME NEW u \in Users, NEW r \in RoomIds, call[q].user = u, call[q].id = r
             PROVE  StartInv' /\ Soft
    BY <1>a
<1> DEFINE row == [room[r] EXCEPT !.state = Merge(@, InitialRoomState, Settable(u, r))]
<1>0. /\ TypeOK /\ call \in [Requests -> CallRecords]
      /\ SlotOK(q) /\ RowOK(r)
      /\ req[q] = Idle
      /\ UNCHANGED <<room, lost>>
    BY GameTypes
    DEF GameInv, PagesInv, IInv, CallsOK, StartInv, FreezeArrives, Answered, IsIdle,
        SetStateGet, service
<1>1. /\ call[q].op = "freeze" /\ call[q].ok
      /\ call' = [call EXCEPT ![q].op = "setState", ![q].ok = FALSE]
      /\ \/ UNCHANGED req
         \/ Exists(r) /\ room[r].owner = u /\ Goto(q, "Update", u, r, row)
    BY DEF FreezeArrives, Answered, SetStateGet, service
<1>2. /\ call'[q].op = "setState" /\ call'[q].id = r /\ ~call'[q].ok
      /\ \A p \in Requests \ {q} : call'[p] = call[p] /\ req'[p] = req[p]
    BY <1>0, <1>1 DEF CallRecords, TypeOK, Goto
<1>3. SlotOK(q)'
    <2>1. CASE UNCHANGED req
        BY <1>0, <1>2, <2>1
        DEF SlotOK, StartOwn, StartFroze, StartCopyOK, LeaverOK, IsIdle, At, Idle
    <2>2. CASE Exists(r) /\ room[r].owner = u /\ Goto(q, "Update", u, r, row)
        <3>1. room[r] \in RoomRows
            BY <1>0, <2>2 DEF TypeOK, Exists
        <3>2. row.turn = room[r].turn /\ row.owner = room[r].owner /\ row.frozen = room[r].frozen
            BY <3>1 DEF RoomRows
        <3>3. row.turn \in {Nobody, row.owner} /\ row.frozen
            BY <1>0, <1>1, <2>2, <3>2 DEF SlotOK, StartFroze, RowOK
        <3>4. row.state[Stage] # Unset
            <4>1. Stage \in Keys /\ Drawing # Unset
                BY GameAssumption, Sentinels DEF Keys
            <4>2. InitialRoomState[Stage] = Drawing
                BY <4>1 DEF InitialRoomState, EmptyRoomState
            <4>3. row.state = Merge(room[r].state, InitialRoomState, Keys)
                BY <2>2, <3>1 DEF Settable, RoomRows
            <4>4. QED BY <4>1, <4>2, <4>3 DEF Merge
        <3>5. req'[q].pc = "Update" /\ req'[q].id = r /\ req'[q].row = row
            BY <1>0, <2>2 DEF TypeOK, Goto
        <3> HIDE DEF row
        <3>6. QED BY <1>2, <3>3, <3>4, <3>5
            DEF SlotOK, StartOwn, StartFroze, StartCopyOK, LeaverOK, At
    <2>3. QED BY <1>1, <2>1, <2>2
<1>4. StartsStay(q)
    BY <1>2 DEF StartsStay, Pending, Starting
<1>5. QED BY <1>0, <1>2, <1>3, <1>4, ReadIsGentle, GentleKeeps

LEMMA CallStepKeeps ==
    ASSUME GameInv, NEW q \in Requests, ServiceStep(q) \/ ServeCancelled(q) \/ AnswerStep(q)
    PROVE  StartInv' /\ Soft
<1>1. CASE Serve(q) \/ ServeCreated(q) \/ ServeWrite(q)
    BY <1>1, ServeKeeps, ServeCreatedKeeps, ServeWriteKeeps
<1>2. CASE ServeCancelled(q)
    BY <1>2, EndKeeps DEF ServeCancelled, Cancel
<1>3. CASE CreateArrives(q) \/ CreateFails(q)
    BY <1>3, OverKeeps DEF CreateArrives, CreateFails, Answered, Starting, service
<1>4. CASE JoinArrives(q)
    BY <1>4, OverKeeps DEF JoinArrives, Answered, Starting, service
<1>5. CASE LeaveArrives(q)
    BY <1>5, OverKeeps DEF LeaveArrives, Answered, Starting, service
<1>6. CASE LeavePreviousArrives(q)
    BY <1>6, OverKeeps DEF LeavePreviousArrives, Answered, Starting, service
<1>7. CASE FreezeArrives(q)
    BY <1>7, FreezeArrivesKeeps
<1>8. CASE SetStateArrives(q)
    BY <1>8, OverKeeps DEF SetStateArrives, Answered, service
<1>9. CASE StartFails(q)
    BY <1>9, OverKeeps DEF StartFails, service
<1>10. QED
    BY <1>1, <1>2, <1>3, <1>4, <1>5, <1>6, <1>7, <1>8, <1>9 DEF ServiceStep, AnswerStep

LEMMA GameStepKeeps ==
    ASSUME GameInv, [GameNext]_gameVars
    PROVE  GameInv' /\ Soft
<1>1. PagesInv'
    BY PagesStepKeeps DEF GameInv
<1>2. StartInv' /\ Soft
    BY UserStepKeeps, CallStepKeeps, StillKeeps DEF GameNext, gameVars
<1>3. QED BY <1>1, <1>2 DEF GameInv

LEMMA GameInvariance == GameSpec => []GameInv
<1>1. GameInit => StartInv
    BY DEF GameInit, Init, RepositoryInit, StartInv, RowOK, SlotOK, StartOwn, StartFroze,
           StartCopyOK, LeaverOK, Starting, At, Idle, NoCall, Exists
<1>2. PagesInv /\ StartInv => GameInv
    BY DEF GameInv
<1>3. GameInv /\ [GameNext]_gameVars => GameInv'
    BY GameStepKeeps
<1>4. QED BY <1>1, <1>2, <1>3, PagesInvariance, PTL DEF GameSpec

\* However clicks, loadings, answers and requests overlap, a frozen room has
\* its stage, or the start of its game is under way or was lost.
THEOREM StartedGamesAlwaysHaveStage == GameSpec => []StartedGamesHaveStage
<1>1. GameInv => StartedGamesHaveStage
    <2> SUFFICES ASSUME GameInv, NEW r \in RoomIds, Exists(r), room[r].frozen,
                        room[r].state[Stage] = Unset
                 PROVE  StartLost(r) \/ \E q \in Requests : Starting(q) /\ call[q].id = r
        BY DEF StartedGamesHaveStage
    <2>1. RowOK(r)
        BY DEF GameInv, StartInv
    <2>2. QED BY <2>1 DEF RowOK, Pending
<1>2. QED BY <1>1, GameInvariance, PTL

\* As the pages use the service, the turn is the host's, and no request to
\* leave is refused by the keys of the room.
THEOREM LeaversAreAlwaysLetGo == GameSpec => []LeaversAreLetGo
<1>1. GameInv => LeaversAreLetGo
    <2> SUFFICES ASSUME GameInv, NEW q \in Requests, At(q, "Remove"),
                        InRoom(req[q].user, req[q].id), NEW r \in RoomIds,
                        RefersTo(r, req[q].user)
                 PROVE  FALSE
        BY DEF LeaversAreLetGo, RemovePlayerAllowed
    <2>1. TypeOK /\ HostIsMember /\ RowOK(r) /\ LeaverOK(q)
        BY DEF GameInv, PagesInv, IInv, StartInv, SlotOK
    <2>2. req[q].user \in Users /\ req[q].id \in RoomIds
        BY <2>1, HeldByRequest DEF TypeOK, At
    <2>3. Exists(r) /\ req[q].user = room[r].owner
        BY <2>1, <2>2, Sentinels DEF RefersTo, RowOK
    <2>4. r = req[q].id
        BY <2>1, <2>3 DEF HostIsMember, InRoom
    <2>5. QED BY <2>1, <2>3, <2>4 DEF LeaverOK
<1>2. QED BY <1>1, GameInvariance, PTL

\* As the pages use the service, which may unfreeze a room by an old copy,
\* no room is unfrozen.
THEOREM GameFreezesForever == GameSpec => GameFreezeIsPermanent
<1>1. GameInv /\ [GameNext]_gameVars =>
        [\A r \in RoomIds :
            Exists(r) /\ Exists(r)' /\ room[r].frozen => room'[r].frozen]_gameVars
    BY GameStepKeeps DEF Soft, NewRow
<1>2. QED BY <1>1, GameInvariance, PTL DEF GameSpec, GameFreezeIsPermanent

\* As the pages use the service, the turn player of a room is in it: the turn
\* is only ever given to the host, and no request takes the host out.
THEOREM GameTurnPlayerIsMember == GameSpec => []TurnPlayerIsMember
<1>1. GameInv => TurnPlayerIsMember
    <2> SUFFICES ASSUME GameInv, NEW r \in RoomIds, Exists(r), room[r].turn # Nobody
                 PROVE  InRoom(room[r].turn, r)
        BY DEF TurnPlayerIsMember
    <2>1. RowOK(r) /\ HostIsMember
        BY DEF GameInv, StartInv, PagesInv, IInv
    <2>2. QED BY <2>1 DEF RowOK, HostIsMember
<1>2. QED BY <1>1, GameInvariance, PTL

-----------------------------------------------------------------------------
(* The rows are the hosts'.                                                *)

\* Whoever is about to write a room is its host.
HostWrites(q) == At(q, "Update") => req[q].user = req[q].row.owner

\* A step leaves a request where it is, or takes it to where it writes
\* nothing, or has a host read the own room.
Reads(q) ==
    \/ req'[q] = req[q]
    \/ req'[q].pc # "Update"
    \/ req'[q].user = req'[q].row.owner

LEMMA GotoReads ==
    ASSUME TypeOK, NEW q \in Requests, NEW pc, NEW u, NEW r, NEW row,
           Goto(q, pc, u, r, row), pc # "Update" \/ u = row.owner
    PROVE  \A p \in Requests : Reads(p)
<1>1. \A p \in Requests \ {q} : req'[p] = req[p]
    BY DEF Goto, TypeOK
<1>2. req'[q] = [pc |-> pc, user |-> u, id |-> r, row |-> row]
    BY DEF Goto, TypeOK
<1>3. req'[q].pc = pc /\ req'[q].user = u /\ req'[q].row = row
    BY <1>2
<1>4. Reads(q)
    BY <1>3 DEF Reads
<1>5. QED BY <1>1, <1>4 DEF Reads

LEMMA AnswerReads ==
    ASSUME TypeOK, NEW q \in Requests, Answer(q)
    PROVE  \A p \in Requests : Reads(p)
<1>1. req'[q] = Idle /\ \A p \in Requests \ {q} : req'[p] = req[p]
    BY AnswerMoves
<1>2. QED BY <1>1 DEF Reads, Idle

LEMMA HostReads ==
    ASSUME TypeOK, NEW q \in Requests, NEW u \in Users, NEW r \in RoomIds, NEW row,
           Exists(r), room[r].owner = u, row.owner = room[r].owner,
           Goto(q, "Update", u, r, row)
    PROVE  \A p \in Requests : Reads(p)
BY GotoReads

LEMMA ClickReads ==
    ASSUME PagesInv, NEW u \in Users, NEW q \in Requests,
           \/ ClickCreate(q, u) \/ ClickLeavePrevious(q, u) \/ ClickLeave(q, u)
           \/ ClickStart(q, u) \/ SubmitDrawing(q, u)
           \/ \E r \in RoomIds : ClickJoin(q, u, r)
    PROVE  \A p \in Requests : Reads(p)
<1>0. TypeOK
    BY DEF PagesInv, IInv
<1>1. ASSUME UNCHANGED req PROVE \A p \in Requests : Reads(p)
    BY <1>1 DEF Reads
<1>2. CASE ClickCreate(q, u) \/ ClickLeavePrevious(q, u)
    BY <1>0, <1>1, <1>2, GotoReads
    DEF ClickCreate, ClickLeavePrevious, CreateFind, LeaveAllFind, service
<1>3. CASE ClickLeave(q, u)
    BY <1>0, <1>1, <1>3, GotoReads DEF ClickLeave, LeaveRoomGet, Leave, service
<1>4. ASSUME NEW r \in RoomIds, ClickJoin(q, u, r) PROVE \A p \in Requests : Reads(p)
    BY <1>0, <1>1, <1>4, GotoReads DEF ClickJoin, JoinGet, service
<1>5. CASE ClickStart(q, u)
    <2>1. PICK r \in RoomIds : r = page[u]
        BY <1>5 DEF PagesInv, ShownOnPages, ClickStart, StartModal
    <2> DEFINE row == [room[r] EXCEPT !.frozen = TRUE, !.turn = u]
    <2>2. \/ UNCHANGED req
          \/ Exists(r) /\ room[r].owner = u /\ Goto(q, "Update", u, r, row)
        BY <1>5, <2>1 DEF ClickStart, Freeze, FreezeGet, service
    <2>3. Exists(r) => row.owner = room[r].owner
        BY <1>0 DEF TypeOK, Exists, RoomRows
    <2> HIDE DEF row
    <2>4. QED BY <1>0, <1>1, <2>2, <2>3, HostReads
<1>6. CASE SubmitDrawing(q, u)
    BY <1>1, <1>6 DEF SubmitDrawing, PutPlayerState
<1>7. QED BY <1>2, <1>3, <1>4, <1>5, <1>6

LEMMA CallReads ==
    ASSUME PagesInv, NEW q \in Requests,
           ServiceStep(q) \/ ServeCancelled(q) \/ AnswerStep(q)
    PROVE  \A p \in Requests : Reads(p)
<1>0. TypeOK
    BY DEF PagesInv, IInv
<1>1. ASSUME UNCHANGED req PROVE \A p \in Requests : Reads(p)
    BY <1>1 DEF Reads
<1>2. CASE ServiceStep(q) \/ ServeCancelled(q)
    <2>1. Answer(q) \/ \E pc \in {"CreateReread", "AddInsert", "DeleteGet", "Remove", "Delete"} :
                          \E u, r, row : Goto(q, pc, u, r, row)
        <3>1. ASSUME NEW r \in RoomIds, CreateInsert(q, r)
              PROVE  Goto(q, "CreateReread", req[q].user, r, NoRow)
            BY <3>1 DEF CreateInsert
        <3>2. CASE AddGet(q)
            BY <3>2 DEF AddGet
        <3>3. CASE LeaveAllGet(q)
            BY <3>3 DEF LeaveAllGet, Leave
        <3>4. CASE DeleteGet(q)
            BY <3>4 DEF DeleteGet
        <3>5. QED BY <1>2, <3>1, <3>2, <3>3, <3>4
            DEF ServiceStep, ServeCancelled, Serve, ServeCreated, ServeWrite, CreateRefused,
                AddInsert, LeaveAllGone, DeleteRoom, Remove, CreateReread, WriteRoom, Cancel
    <2>2. QED BY <1>0, <2>1, AnswerReads, GotoReads
<1>3. CASE FreezeArrives(q)
    <2>1. PICK u \in Users, r \in RoomIds : u = call[q].user /\ r = call[q].id
        BY <1>3 DEF PagesInv, CallsName, CallNames, FreezeArrives, Answered
    <2> DEFINE row == [room[r] EXCEPT !.state = Merge(@, InitialRoomState, Settable(u, r))]
    <2>2. \/ UNCHANGED req
          \/ Exists(r) /\ room[r].owner = u /\ Goto(q, "Update", u, r, row)
        BY <1>3, <2>1 DEF FreezeArrives, SetStateGet, service
    <2>3. Exists(r) => row.owner = room[r].owner
        BY <1>0 DEF TypeOK, Exists, RoomRows
    <2> HIDE DEF row
    <2>4. QED BY <1>0, <1>1, <2>2, <2>3, HostReads
<1>4. CASE AnswerStep(q) /\ ~FreezeArrives(q)
    BY <1>1, <1>4
    DEF AnswerStep, CreateArrives, JoinArrives, LeaveArrives, LeavePreviousArrives,
        SetStateArrives, StartFails, CreateFails, service
<1>5. QED BY <1>2, <1>3, <1>4

LEMMA GameReads ==
    ASSUME PagesInv, [GameNext]_gameVars
    PROVE  \A p \in Requests : Reads(p)
<1>1. ASSUME UNCHANGED req PROVE \A p \in Requests : Reads(p)
    BY <1>1 DEF Reads
<1>2. ASSUME NEW u \in Users, UserStep(u) PROVE \A p \in Requests : Reads(p)
    BY <1>1, <1>2, ClickReads DEF UserStep, Refresh, GameTick, ToLobby, Load, service, gameVars
<1>3. QED BY <1>1, <1>2, CallReads DEF GameNext, gameVars

\* Every request that is about to write a row acts for the host of its room.
AllHostsWrite == \A q \in Requests : HostWrites(q)

HostsInv == PagesInv /\ AllHostsWrite

LEMMA HostsInvariance == GameSpec => []HostsInv
<1>1. GameInit => AllHostsWrite
    BY DEF GameInit, Init, AllHostsWrite, HostWrites, At, Idle
<1>2. PagesInv /\ AllHostsWrite /\ [GameNext]_gameVars => AllHostsWrite'
    BY GameReads DEF AllHostsWrite, HostWrites, Reads, At
<1>3. PagesInv /\ AllHostsWrite => HostsInv
    BY DEF HostsInv
<1>4. QED BY <1>1, <1>2, <1>3, PagesInvariance, PTL DEF GameSpec

\* As the pages use the service, where two starts may write one room at a
\* time, whoever is not the host changes neither freeze nor turn nor any key
\* of a room but its own.
THEOREM GameGuestsWriteOwnKeyOnly == GameSpec => NonHostsChangeOwnDataOnly
<1>1. ASSUME HostsInv, [GameNext]_gameVars, NEW q \in Requests, Steps(q)
      PROVE  OwnStep(q)
    <2>0. PagesInv /\ IInv /\ TypeOK /\ SnapshotHost
        BY <1>1 DEF HostsInv, PagesInv, IInv
    <2>1. \/ UNCHANGED <<room, player, req>>
          \/ \E p \in Requests : RoomStep(p)
        BY <1>1, <2>0, GameStepIsService, StepCases
    <2>2. RoomStep(q)
        BY <1>1, <2>0, <2>1, OthersHold DEF Steps
    <2>3. RowEffects(q)
        BY <2>0, <2>2, StepEffects DEF Effects
    <2>4. ASSUME NEW r \in RoomIds, Exists(r), RowWritten(q, r)
          PROVE  req[q].user = room[r].owner
        BY <1>1, <2>0, <2>4 DEF HostsInv, AllHostsWrite, HostWrites, SnapshotHost, HoldsSnapshot, RowWritten, At
    <2>5. QED BY <2>3, <2>4 DEF OwnStep, RowEffects, RowKept
<1>2. HostsInv /\ [GameNext]_gameVars =>
        [\A q \in Requests, r \in RoomIds :
            Steps(q) /\ Exists(r) /\ Exists(r)' /\ req[q].user # room[r].owner
            => /\ room'[r].frozen = room[r].frozen
               /\ room'[r].turn = room[r].turn
               /\ \A k \in Keys \ {req[q].user} :
                     room'[r].state[k] = room[r].state[k]]_vars
    BY <1>1 DEF OwnStep
<1>3. QED BY <1>2, HostsInvariance, PTL DEF GameSpec, NonHostsChangeOwnDataOnly

-----------------------------------------------------------------------------
(* The pages of players who stay.                                          *)

LostLeave(u) == \E c \in lost : c.op = "leave" /\ c.user = u

\* User u asked to leave, and has not been taken to the lobby for it.
Excused(u) ==
    \/ \E q \in Requests : call[q].user = u /\ Leaving(q)
    \/ LostLeave(u)

\* A request that will take its user out of a room is one that its user
\* waits for or did not wait for.
LeaveAsked(q) ==
    req[q].pc \in {"LeaveGet", "Remove"} =>
        \/ call[q].user = req[q].user /\ Leaving(q)
        \/ LostLeave(req[q].user)

\* A call that waits for a room waits for its own.
CallOwn(q) ==
    call[q] # NoCall =>
        /\ req[q].pc \in {"CreateInsert", "CreateReread"} => call[q].user = req[q].user
        /\ At(q, "Update") => call[q].id = req[q].id

\* User u is on the page of room r, or an answer may take it there.
Near(u, r) ==
    \/ page[u] = r
    \/ \E q \in Requests :
          /\ call[q].user = u
          /\ call[q].id = r \/ (At(q, "CreateReread") /\ req[q].id = r)

\* A page that shows its player in a room that the player is not in any more
\* is that of somebody who asked to leave.
PageKept(u) ==
    /\ IsShown(u) /\ u \in view[u].members
    /\ Near(u, view[u].id) /\ Exists(view[u].id) /\ ~InRoom(u, view[u].id)
    => Excused(u)

StayInv ==
    /\ \A u \in Users : PageKept(u)
    /\ \A q \in Requests : LeaveAsked(q) /\ CallOwn(q)

WholeInv == GameInv /\ StayInv

\* Only slot q moves.
Alone(q) == \A p \in Requests \ {q} : req'[p] = req[p] /\ call'[p] = call[p]

\* Slot q brings user u near room r.
Brings(q, u, r) ==
    /\ call[q].user = u
    /\ call[q].id = r \/ (At(q, "CreateReread") /\ req[q].id = r)

LEMMA NearByCalls ==
    ASSUME NEW u, NEW r
    PROVE  Near(u, r) <=> page[u] = r \/ \E q \in Requests : Brings(q, u, r)
BY DEF Near, Brings

LEMMA WholeTypes ==
    ASSUME WholeInv
    PROVE  /\ TypeOK /\ PagesOK
           /\ call \in [Requests -> CallRecords]
           /\ \A q \in Requests : LeaveAsked(q) /\ CallOwn(q)
           /\ \A u \in Users : PageKept(u)
           /\ \A u \in Users : IsShown(u) => /\ view[u].id \in RoomIds
                                             /\ page[u] # NoRoom
<1>1. TypeOK /\ PagesOK /\ CallsOK
    BY GameTypes DEF WholeInv, GameInv, PagesInv, IInv
<1>2. NoRoom \notin RoomIds
    BY Sentinels
<1>3. \A u \in Users : IsShown(u) => view[u].id \in RoomIds /\ page[u] # NoRoom
    BY <1>1, <1>2 DEF PagesOK, IsShown, ShownOnPages, Views
<1>4. QED BY <1>1, <1>3 DEF CallsOK, WholeInv, StayInv

\* The slots that a step leaves alone stay right.
LEMMA SlotsStay ==
    ASSUME WholeInv, NEW q \in Requests, Alone(q), lost \subseteq lost',
           LeaveAsked(q)', CallOwn(q)'
    PROVE  \A p \in Requests : LeaveAsked(p)' /\ CallOwn(p)'
<1> SUFFICES ASSUME NEW p \in Requests \ {q} PROVE LeaveAsked(p)' /\ CallOwn(p)'
    OBVIOUS
<1>1. LeaveAsked(p) /\ CallOwn(p)
    BY WholeTypes
<1>2. \A u : LostLeave(u) => LostLeave(u)'
    BY DEF LostLeave
<1>3. LeaveAsked(p)'
    BY <1>1, <1>2 DEF Alone, LeaveAsked, Leaving
<1>4. CallOwn(p)'
    BY <1>1 DEF Alone, CallOwn, At
<1>5. QED BY <1>3, <1>4

\* A page that shows what it showed is still right: slot q brings its player
\* nowhere else, no room is new there, nobody is taken out without having
\* asked, and no excuse ends.
LEMMA KeptBySlot ==
    ASSUME WholeInv, NEW q \in Requests, Alone(q), lost \subseteq lost', NEW u \in Users,
           NEW r, IsShown(u), view[u].id = r, view'[u] = view[u],
           page'[u] = r \/ Brings(q, u, r)' => Near(u, r) \/ InRoom(u, r)',
           Near(u, r) /\ Exists(r)' => Exists(r),
           InRoom(u, r) /\ Exists(r)' => InRoom(u, r)' \/ Excused(u)',
           call[q].user = u /\ Leaving(q) => Excused(u)'
    PROVE  PageKept(u)'
<1>1. PageKept(u)
    BY WholeTypes
<1>2. Excused(u) => Excused(u)'
    BY DEF Excused, Leaving, LostLeave, Alone
<1>3. \A p \in Requests \ {q} : Brings(p, u, r)' <=> Brings(p, u, r)
    BY DEF Alone, Brings, At
<1>4. Near(u, r)' => Near(u, r) \/ InRoom(u, r)'
    BY <1>3 DEF Near, Brings
<1>5. QED BY <1>1, <1>2, <1>4 DEF PageKept, IsShown

\* A page that shows nothing is right.
LEMMA NotShown ==
    ASSUME NEW u \in Users, ~IsShown(u)'
    PROVE  PageKept(u)'
BY DEF PageKept

\* A step of slot q that neither pages nor tables take part in.
LEMMA KeptByCall ==
    ASSUME WholeInv, NEW q \in Requests, Alone(q), lost \subseteq lost',
           UNCHANGED <<room, player, page, view>>,
           \A u \in Users : IsShown(u) =>
              /\ Brings(q, u, view[u].id)' => Near(u, view[u].id)
              /\ call[q].user = u /\ Leaving(q) => Excused(u)'
    PROVE  \A u \in Users : PageKept(u)'
<1> SUFFICES ASSUME NEW u \in Users PROVE PageKept(u)'
    OBVIOUS
<1>1. CASE ~IsShown(u)
    BY <1>1, NotShown DEF IsShown
<1>2. ASSUME IsShown(u), NEW r, view[u].id = r PROVE PageKept(u)'
    <2>1. /\ page'[u] = r \/ Brings(q, u, r)' => Near(u, r)
          /\ Near(u, r) /\ Exists(r)' => Exists(r)
          /\ InRoom(u, r) /\ Exists(r)' => InRoom(u, r)'
        BY <1>2 DEF Near, Exists, InRoom
    <2>2. QED BY <1>2, <2>1, KeptBySlot
<1>3. QED BY <1>1, <1>2

\* A step in which no call, request or table takes part, seen by a user whose
\* page it does not touch.
LEMMA KeptByOthers ==
    ASSUME WholeInv, UNCHANGED <<room, player>>, lost \subseteq lost', NEW u \in Users,
           view'[u] = view[u], page'[u] = page[u],
           \A q \in Requests : /\ call[q].user = u => call'[q] = call[q]
                               /\ call'[q].user = u => call'[q] = call[q]
                               /\ req'[q] = req[q]
    PROVE  PageKept(u)'
<1>1. PageKept(u)
    BY WholeTypes
<1>2. Excused(u) => Excused(u)'
    BY DEF Excused, Leaving, LostLeave
<1>3. \A r : Near(u, r)' => Near(u, r)
    BY DEF Near, At
<1>4. QED BY <1>1, <1>2, <1>3 DEF PageKept, IsShown, Exists, InRoom

\* The page of a player who goes somewhere shows nothing, or what it showed,
\* and then it is on its way from a room to a room.
LEMMA WhereItGoes ==
    ASSUME WholeInv, NEW u \in Users, NEW r, Go(u, r)
    PROVE  /\ \A v \in Users \ {u} : view'[v] = view[v] /\ page'[v] = page[v]
           /\ page'[u] = r
           /\ \/ ~IsShown(u)'
              \/ IsShown(u) /\ view'[u] = view[u] /\ r # NoRoom
<1>1. PagesOK
    BY WholeTypes
<1>2. /\ \A v \in Users \ {u} : view'[v] = view[v] /\ page'[v] = page[v]
      /\ page'[u] = r
      /\ view'[u] = IF view[u] = Crashed \/ (page[u] # NoRoom /\ r # NoRoom)
                    THEN view[u] ELSE NoView
    BY <1>1 DEF PagesOK, Go
<1>3. QED BY <1>2 DEF IsShown

\* An answer that may take its user to a room.
LEMMA ArrivalKeeps ==
    ASSUME WholeInv, NEW q \in Requests, IsIdle(q), Over(q), UNCHANGED service,
           lost \subseteq lost',
           \/ UNCHANGED <<page, view>>
           \/ call[q].user \in Users /\ Go(call[q].user, call[q].id)
           \/ call[q].user \in Users /\ Go(call[q].user, NoRoom),
           Leaving(q) => \/ call[q].user \in Users /\ Go(call[q].user, NoRoom)
                         \/ LeaveOf(q) \in lost'
                         \/ page[call[q].user] = NoRoom
    PROVE  StayInv'
<1>0. /\ call \in [Requests -> CallRecords]
      /\ UNCHANGED <<room, player, req>>
      /\ req[q] = Idle
    BY WholeTypes DEF service, IsIdle
<1>1. Alone(q) /\ call'[q] = NoCall
    BY <1>0 DEF Alone, Over
<1>2. \A p \in Requests : LeaveAsked(p)' /\ CallOwn(p)'
    <2>1. LeaveAsked(q)' /\ CallOwn(q)'
        BY <1>0, <1>1 DEF LeaveAsked, CallOwn, At, Idle
    <2>2. QED BY <1>1, <2>1, SlotsStay
<1>3. ASSUME NEW u \in Users PROVE PageKept(u)'
    <2>1. ~Brings(q, u, view[u].id)'
        BY <1>1, Sentinels DEF Brings, NoCall
    <2>2. CASE ~IsShown(u)'
        BY <2>2, NotShown
    <2>3. CASE u # call[q].user /\ view'[u] = view[u] /\ page'[u] = page[u]
        BY <1>0, <1>1, <2>3, KeptByOthers, Sentinels DEF Alone, NoCall
    <2>4. ASSUME u = call[q].user, IsShown(u), view'[u] = view[u],
                 page'[u] = page[u] \/ page'[u] = call[q].id,
                 Leaving(q) => LeaveOf(q) \in lost'
          PROVE  PageKept(u)'
        <3>1. ASSUME NEW r, view[u].id = r PROVE PageKept(u)'
            <4>1. page'[u] = r => Near(u, r)
                BY <2>4 DEF Near
            <4>2. Near(u, r) /\ Exists(r)' => Exists(r)
                BY <1>0 DEF Exists
            <4>3. InRoom(u, r) /\ Exists(r)' => InRoom(u, r)'
                BY <1>0 DEF InRoom
            <4>4. ~Brings(q, u, r)'
                BY <1>1, Sentinels DEF Brings, NoCall
            <4>5. call[q].user = u /\ Leaving(q) => Excused(u)'
                BY <2>4 DEF Excused, LostLeave, LeaveOf
            <4>6. QED BY <1>1, <2>4, <3>1, <4>1, <4>2, <4>3, <4>4, <4>5, KeptBySlot
        <3>2. QED BY <3>1
    <2>5. CASE UNCHANGED <<page, view>>
        <3>1. CASE IsShown(u) /\ u = call[q].user
            <4>1. page[u] # NoRoom /\ ~Go(u, NoRoom)
                BY <2>5, <3>1, WholeTypes DEF Go, PagesOK
            <4>2. QED BY <2>4, <2>5, <3>1, <4>1
        <3>2. CASE ~IsShown(u)
            BY <2>2, <2>5, <3>2 DEF IsShown
        <3>3. QED BY <2>3, <2>5, <3>1, <3>2
    <2>6. ASSUME NEW r, call[q].user \in Users, Go(call[q].user, r), r \in {call[q].id, NoRoom}
          PROVE  PageKept(u)'
        <3>1. CASE u # call[q].user
            BY <2>3, <2>6, <3>1, WhereItGoes
        <3>2. CASE u = call[q].user
            <4>1. \/ ~IsShown(u)'
                  \/ IsShown(u) /\ view'[u] = view[u] /\ r # NoRoom /\ page'[u] = r
                BY <2>6, <3>2, WhereItGoes
            <4>2. CASE IsShown(u) /\ view'[u] = view[u] /\ r # NoRoom /\ page'[u] = r
                <5>1. page[u] # NoRoom
                    BY <4>2, WholeTypes
                <5>2. ~Go(u, NoRoom)
                    BY <4>2, WholeTypes DEF Go, PagesOK
                <5>3. QED BY <2>4, <2>6, <3>2, <4>2, <5>1, <5>2
            <4>3. QED BY <2>2, <4>1, <4>2
        <3>3. QED BY <3>1, <3>2
    <2>7. QED BY <2>5, <2>6
<1>4. QED BY <1>2, <1>3 DEF StayInv

LEMMA AnswerStays ==
    ASSUME WholeInv, NEW q \in Requests, AnswerStep(q)
    PROVE  StayInv'
<1>0. /\ TypeOK /\ call \in [Requests -> CallRecords] /\ CallNames(call[q])
      /\ call[q].op # "none" => call[q].user \in Users
    BY WholeTypes DEF WholeInv, GameInv, PagesInv, CallsName, CallNames
<1>1. CASE CreateArrives(q)
    BY <1>0, <1>1, ArrivalKeeps DEF CreateArrives, Answered, Leaving
<1>2. CASE JoinArrives(q)
    BY <1>0, <1>2, ArrivalKeeps DEF JoinArrives, Answered, Leaving
<1>3. CASE LeaveArrives(q)
    BY <1>0, <1>3, ArrivalKeeps DEF LeaveArrives, Answered
<1>4. CASE LeavePreviousArrives(q)
    <2>1. page[call[q].user] # NoRoom => LeaveOf(q) \in lost'
        BY <1>4 DEF LeavePreviousArrives
    <2>2. QED BY <1>4, <2>1, ArrivalKeeps DEF LeavePreviousArrives, Answered
<1>5. CASE SetStateArrives(q) \/ CreateFails(q)
    BY <1>5, ArrivalKeeps DEF SetStateArrives, CreateFails, Answered, Leaving
<1>6. CASE StartFails(q)
    BY <1>6, ArrivalKeeps DEF StartFails, Starting, Leaving
<1>7. CASE FreezeArrives(q)
    <2>1. /\ call[q].op = "freeze" /\ req[q] = Idle
          /\ call' = [call EXCEPT ![q].op = "setState", ![q].ok = FALSE]
          /\ UNCHANGED <<room, player, page, view, lost>>
          /\ \/ UNCHANGED req
             \/ \E row : Goto(q, "Update", call[q].user, call[q].id, row)
        BY <1>7 DEF FreezeArrives, Answered, IsIdle, SetStateGet, service
    <2>2. /\ Alone(q)
          /\ call'[q].op = "setState" /\ call'[q].id = call[q].id /\ call'[q].user = call[q].user
          /\ req'[q] = Idle \/ (req'[q].pc = "Update" /\ req'[q].id = call[q].id)
        BY <1>0, <2>1 DEF Alone, TypeOK, Goto, CallRecords
    <2>3. LeaveAsked(q)' /\ CallOwn(q)'
        BY <2>2 DEF LeaveAsked, CallOwn, At, Idle
    <2>4. \A u \in Users : /\ Brings(q, u, view[u].id)' => Brings(q, u, view[u].id)
                           /\ ~Leaving(q)
        BY <2>1, <2>2 DEF Brings, At, Idle, Leaving
    <2>5. \A u \in Users : PageKept(u)'
        BY <2>1, <2>2, <2>4, KeptByCall, NearByCalls
    <2>6. QED BY <2>1, <2>2, <2>3, <2>5, SlotsStay DEF StayInv
<1>8. QED BY <1>1, <1>2, <1>3, <1>4, <1>5, <1>6, <1>7 DEF AnswerStep

LEMMA RefreshStays ==
    ASSUME WholeInv, NEW u \in Users, Refresh(u)
    PROVE  StayInv'
<1>0. /\ PagesOK /\ \A q \in Requests : LeaveAsked(q) /\ CallOwn(q)
      /\ UNCHANGED <<room, player, req, call, lost>>
    BY WholeTypes DEF Refresh, service
<1>1. \A q \in Requests : LeaveAsked(q)' /\ CallOwn(q)'
    BY <1>0 DEF LeaveAsked, CallOwn, Leaving, LostLeave, At
<1>2. ASSUME NEW v \in Users \ {u} PROVE PageKept(v)'
    <2>1. view'[v] = view[v] /\ page'[v] = page[v]
        BY <1>0 DEF Refresh, Go, PagesOK
    <2>2. QED BY <1>0, <2>1, KeptByOthers
<1>3. PageKept(u)'
    <2>1. CASE ~Exists(page[u])
        BY <2>1, WhereItGoes, NotShown DEF Refresh
    <2>2. ASSUME NEW r, page[u] = r, Exists(r) PROVE PageKept(u)'
        <3>1. view'[u] = Rendered(u, Shown(r))
            BY <1>0, <2>2 DEF Refresh, PagesOK
        <3>2. CASE view'[u] = Crashed
            BY <3>2, NotShown DEF IsShown
        <3>3. CASE view'[u] = Shown(r)
            <4>1. view'[u].id = r /\ view'[u].members = Members(r)
                BY <3>3 DEF Shown
            <4>2. u \in Members(r) => InRoom(u, r)'
                BY <1>0 DEF Members, InRoom
            <4>3. QED BY <4>1, <4>2 DEF PageKept
        <3>4. QED BY <3>1, <3>2, <3>3 DEF Rendered
    <2>3. QED BY <2>1, <2>2
<1>4. QED BY <1>1, <1>2, <1>3 DEF StayInv

LEMMA ToLobbyStays ==
    ASSUME WholeInv, NEW u \in Users, ToLobby(u)
    PROVE  StayInv'
<1>0. /\ \A q \in Requests : LeaveAsked(q) /\ CallOwn(q)
      /\ UNCHANGED <<room, player, req, call, lost>>
      /\ Go(u, NoRoom)
    BY WholeTypes DEF ToLobby, service
<1>1. \A q \in Requests : LeaveAsked(q)' /\ CallOwn(q)'
    BY <1>0 DEF LeaveAsked, CallOwn, Leaving, LostLeave, At
<1>2. PageKept(u)'
    BY <1>0, WhereItGoes, NotShown
<1>3. ASSUME NEW v \in Users \ {u} PROVE PageKept(v)'
    BY <1>0, WhereItGoes, KeptByOthers
<1>4. QED BY <1>1, <1>2, <1>3 DEF StayInv

LEMMA LoadStays ==
    ASSUME WholeInv, NEW u \in Users, NEW r, Load(u, r)
    PROVE  StayInv'
<1>0. /\ PagesOK
      /\ UNCHANGED <<room, player, req>>
      /\ lost \subseteq lost'
      /\ \A q \in Requests : call'[q] = IF call[q].user = u THEN NoCall ELSE call[q]
    BY WholeTypes DEF Load, service
<1>1. ASSUME NEW q \in Requests PROVE LeaveAsked(q)' /\ CallOwn(q)'
    <2>0. LeaveAsked(q) /\ CallOwn(q)
        BY WholeTypes
    <2>1. LostLeave(req[q].user) => LostLeave(req[q].user)'
        BY <1>0 DEF LostLeave
    <2>2. CASE call[q].user = u
        <3>1. Leaving(q) => LeaveOf(q) \in lost'
            BY <2>2 DEF Load
        <3>2. Leaving(q) /\ call[q].user = req[q].user => LostLeave(req[q].user)'
            BY <1>0, <3>1 DEF LostLeave, LeaveOf
        <3>3. QED BY <1>0, <2>0, <2>1, <2>2, <3>2 DEF LeaveAsked, CallOwn
    <2>3. CASE call[q].user # u
        BY <1>0, <2>0, <2>1, <2>3 DEF LeaveAsked, CallOwn, Leaving, At
    <2>4. QED BY <2>2, <2>3
<1>2. PageKept(u)'
    BY <1>0, NotShown DEF Load, PagesOK, IsShown
<1>3. ASSUME NEW v \in Users \ {u} PROVE PageKept(v)'
    <2>1. view'[v] = view[v] /\ page'[v] = page[v]
        BY <1>0 DEF Load, PagesOK
    <2>2. v # Nobody
        BY Sentinels
    <2>3. QED BY <1>0, <2>1, <2>2, KeptByOthers DEF NoCall
<1>4. QED BY <1>1, <1>2, <1>3 DEF StayInv

\* A click of user u in slot q, which has gone no further than to the
\* service's first read.
LEMMA AskStays ==
    ASSUME WholeInv, NEW u \in Users, NEW q \in Requests, NEW r,
           NEW op \in {"create", "join", "leave", "leavePrevious", "freeze"}, Ask(q, op, u, r),
           page[u] \in {NoRoom, r},
           UNCHANGED <<room, player>>,
           \/ UNCHANGED req
           \/ \E pc, s, row :
                /\ Goto(q, pc, u, s, row)
                /\ pc # "CreateReread"
                /\ pc \in {"LeaveGet", "Remove"} => op \in {"leave", "leavePrevious"}
                /\ pc = "Update" => s = r
    PROVE  StayInv'
<1>0. /\ TypeOK /\ call \in [Requests -> CallRecords]
      /\ call[q] = NoCall /\ req[q] = Idle
      /\ UNCHANGED <<page, view, lost>>
    BY WholeTypes DEF Ask, IsIdle
<1>1. /\ Alone(q)
      /\ call'[q].op = op /\ call'[q].user = u /\ call'[q].id = r
    BY <1>0 DEF Alone, Ask, TypeOK, Goto
<1>2. \/ req'[q] = Idle
      \/ /\ req'[q].user = u
         /\ req'[q].pc # "CreateReread"
         /\ req'[q].pc \in {"LeaveGet", "Remove"} => op \in {"leave", "leavePrevious"}
         /\ req'[q].pc = "Update" => req'[q].id = r
    BY <1>0 DEF TypeOK, Goto
<1>3. LeaveAsked(q)' /\ CallOwn(q)'
    BY <1>1, <1>2 DEF LeaveAsked, CallOwn, Leaving, At, Idle
<1>4. ASSUME NEW v \in Users, IsShown(v)
      PROVE  /\ Brings(q, v, view[v].id)' => Near(v, view[v].id)
             /\ ~Leaving(q)
    <2>1. page[v] # NoRoom
        BY <1>4, WholeTypes
    <2>2. Brings(q, v, view[v].id)' => v = u /\ r = view[v].id
        BY <1>0, <1>1, <1>2 DEF Brings, At, Idle
    <2>3. QED BY <1>0, <2>1, <2>2 DEF Near, Leaving, NoCall
<1>5. \A v \in Users : PageKept(v)'
    BY <1>0, <1>1, <1>4, KeptByCall
<1>6. QED BY <1>0, <1>1, <1>3, <1>5, SlotsStay DEF StayInv

LEMMA ClickStays ==
    ASSUME WholeInv, NEW u \in Users, NEW q \in Requests,
           \/ ClickCreate(q, u) \/ ClickLeavePrevious(q, u) \/ ClickLeave(q, u)
           \/ ClickStart(q, u) \/ \E r \in RoomIds : ClickJoin(q, u, r)
    PROVE  StayInv'
<1>1. CASE ClickCreate(q, u)
    <2>1. \/ UNCHANGED req
          \/ Goto(q, "CreateInsert", u, NoRoom, NoRow)
        BY <1>1 DEF ClickCreate, CreateFind, service
    <2>2. /\ Ask(q, "create", u, NoRoom)
          /\ page[u] = NoRoom /\ UNCHANGED <<room, player>>
        BY <1>1 DEF ClickCreate, CreateFind, service
    <2>3. QED BY <2>1, <2>2, AskStays
<1>2. ASSUME NEW r \in RoomIds, ClickJoin(q, u, r) PROVE StayInv'
    <2>1. \/ UNCHANGED req
          \/ Goto(q, "AddGet", u, r, NoRow)
        BY <1>2 DEF ClickJoin, JoinGet, service
    <2>2. /\ Ask(q, "join", u, r)
          /\ page[u] = NoRoom /\ UNCHANGED <<room, player>>
        BY <1>2 DEF ClickJoin, JoinGet, service
    <2>3. QED BY <2>1, <2>2, AskStays
<1>3. CASE ClickLeavePrevious(q, u)
    <2>1. \/ UNCHANGED req
          \/ Goto(q, "LeaveGet", u, player[u].room, NoRow)
        BY <1>3 DEF ClickLeavePrevious, LeaveAllFind, service
    <2>2. /\ Ask(q, "leavePrevious", u, NoRoom)
          /\ page[u] = NoRoom /\ UNCHANGED <<room, player>>
        BY <1>3 DEF ClickLeavePrevious, LeaveAllFind, service
    <2>3. QED BY <2>1, <2>2, AskStays
<1>4. CASE ClickLeave(q, u)
    <2>1. \/ UNCHANGED req
          \/ Goto(q, "DeleteGet", u, page[u], NoRow)
          \/ Goto(q, "Remove", u, page[u], NoRow)
        BY <1>4 DEF ClickLeave, LeaveRoomGet, Leave, service
    <2>2. /\ Ask(q, "leave", u, page[u])
          /\ UNCHANGED <<room, player>>
        BY <1>4 DEF ClickLeave, LeaveRoomGet, Leave, service
    <2>3. QED BY <2>1, <2>2, AskStays
<1>5. CASE ClickStart(q, u)
    <2>1. \/ UNCHANGED req
          \/ Goto(q, "Update", u, page[u], [room[page[u]] EXCEPT !.frozen = TRUE, !.turn = u])
        BY <1>5 DEF ClickStart, Freeze, FreezeGet, service
    <2>2. /\ Ask(q, "freeze", u, page[u])
          /\ UNCHANGED <<room, player>>
        BY <1>5 DEF ClickStart, Freeze, FreezeGet, service
    <2>3. QED BY <2>1, <2>2, AskStays
<1>6. QED BY <1>1, <1>2, <1>3, <1>4, <1>5

\* A service step of slot q that no page and no call takes part in, seen by
\* a user whose page shows a room.
LEMMA ServedStays ==
    ASSUME WholeInv, NEW q \in Requests, UNCHANGED <<page, view, call, lost>>,
           \A p \in Requests \ {q} : req'[p] = req[p],
           LeaveAsked(q)', CallOwn(q)',
           \A u \in Users, r \in RoomIds :
              /\ Brings(q, u, r)' => Brings(q, u, r) \/ InRoom(u, r)'
              /\ Near(u, r) /\ Exists(r)' => Exists(r)
              /\ InRoom(u, r) /\ Exists(r)' => InRoom(u, r)' \/ Excused(u)'
    PROVE  StayInv'
<1>0. Alone(q)
    BY DEF Alone
<1>1. ASSUME NEW u \in Users PROVE PageKept(u)'
    <2>1. CASE ~IsShown(u)
        BY <2>1, NotShown DEF IsShown
    <2>2. ASSUME IsShown(u), NEW r \in RoomIds, view[u].id = r PROVE PageKept(u)'
        <3>1. page'[u] = r \/ Brings(q, u, r)' => Near(u, r) \/ InRoom(u, r)'
            BY NearByCalls DEF Near
        <3>2. call[q].user = u /\ Leaving(q) => Excused(u)'
            BY DEF Excused, Leaving
        <3>3. QED BY <1>0, <2>2, <3>1, <3>2, KeptBySlot
    <2>3. QED BY <2>1, <2>2, WholeTypes
<1>2. QED BY <1>0, <1>1, SlotsStay DEF StayInv

LEMMA ServeStays ==
    ASSUME WholeInv, NEW q \in Requests, Serve(q)
    PROVE  StayInv'
<1>0. /\ TypeOK /\ LeaveAsked(q) /\ CallOwn(q)
      /\ UNCHANGED <<page, view, call, lost>>
    BY WholeTypes DEF Serve
<1>1. ASSUME req'[q].pc \notin {"LeaveGet", "Remove", "CreateReread", "CreateInsert", "Update"},
             \A p \in Requests \ {q} : req'[p] = req[p],
             \A u \in Users, r \in RoomIds :
                /\ Exists(r)' => Exists(r)
                /\ InRoom(u, r) /\ Exists(r)' => InRoom(u, r)' \/ Excused(u)'
      PROVE  StayInv'
    <2>1. LeaveAsked(q)' /\ CallOwn(q)'
        BY <1>1 DEF LeaveAsked, CallOwn, At
    <2>2. \A u, r : Brings(q, u, r)' => Brings(q, u, r)
        BY <1>0, <1>1 DEF Brings, At
    <2>3. QED BY <1>0, <1>1, <2>1, <2>2, ServedStays
<1>2. ASSUME Answer(q)
      PROVE  /\ req'[q].pc \notin {"LeaveGet", "Remove", "CreateReread", "CreateInsert", "Update"}
             /\ \A p \in Requests \ {q} : req'[p] = req[p]
    BY <1>0, <1>2, AnswerMoves DEF Idle
<1>3. ASSUME UNCHANGED <<room, player>>
      PROVE  \A u \in Users, r \in RoomIds :
                /\ Exists(r)' => Exists(r)
                /\ InRoom(u, r) /\ Exists(r)' => InRoom(u, r)' \/ Excused(u)'
    BY <1>3 DEF Exists, InRoom
<1>4. ASSUME NEW r \in RoomIds, Unknown(r), CreateInsert(q, r) PROVE StayInv'
    <2>1. /\ CreateAllowed(r, req[q].user) /\ Create(r, req[q].user)
          /\ At(q, "CreateInsert") /\ Goto(q, "CreateReread", req[q].user, r, NoRow)
        BY <1>4 DEF CreateInsert
    <2>2. req[q].user \in Users
        BY <1>0, <2>1, HeldByRequest DEF TypeOK
    <2>3. /\ req'[q].pc = "CreateReread" /\ req'[q].id = r /\ req'[q].user = req[q].user
          /\ \A p \in Requests \ {q} : req'[p] = req[p]
        BY <1>0, <2>1 DEF TypeOK, Goto
    <2>4. LeaveAsked(q)' /\ CallOwn(q)'
        BY <1>0, <2>1, <2>3 DEF LeaveAsked, CallOwn, At
    <2>5. /\ \A u \in Users : u = req[q].user => InRoom(u, r)'
          /\ \A u \in Users, s \in RoomIds : InRoom(u, s) => InRoom(u, s)'
          /\ \A s \in RoomIds \ {r} : Exists(s)' => Exists(s)
        <3>1. [room |-> r, state |-> EmptyState] # NoRow
            BY Sentinels DEF PlayerRows
        <3>2. /\ player[req[q].user] = NoRow
              /\ player' = [player EXCEPT ![req[q].user] = [room |-> r, state |-> EmptyState]]
              /\ \A s \in RoomIds \ {r} : room'[s] = room[s]
            BY <1>0, <2>1 DEF TypeOK, Create, CreateAllowed, Placed
        <3>3. QED BY <1>0, <2>2, <3>1, <3>2 DEF TypeOK, InRoom, Exists
    <2>6. \A u \in Users : ~Near(u, r)
        BY <1>4 DEF Near, Unknown
    <2>7. ASSUME NEW u \in Users, NEW s \in RoomIds, Brings(q, u, s)'
          PROVE  Brings(q, u, s) \/ InRoom(u, s)'
        <3>1. call[q].user = u /\ (call[q].id = s \/ s = r)
            BY <1>0, <2>3, <2>7 DEF Brings, At
        <3>2. call[q] # NoCall
            BY <3>1, Sentinels DEF NoCall
        <3>3. u = req[q].user
            BY <1>0, <2>1, <3>1, <3>2 DEF CallOwn, At
        <3>4. QED BY <2>5, <2>7, <3>1, <3>3 DEF Brings
    <2>8. QED BY <1>0, <2>3, <2>4, <2>5, <2>6, <2>7, ServedStays
<1>5. ASSUME NEW r \in RoomIds, CreateRefused(q, r) PROVE StayInv'
    BY <1>1, <1>2, <1>3, <1>5 DEF CreateRefused
<1>6. CASE AddGet(q) \/ DeleteGet(q)
    <2>1. /\ UNCHANGED <<room, player>>
          /\ \/ Answer(q)
             \/ Goto(q, "AddInsert", req[q].user, req[q].id, NoRow)
             \/ Goto(q, "Delete", req[q].user, req[q].id, NoRow)
        BY <1>6 DEF AddGet, DeleteGet
    <2>2. CASE ~Answer(q)
        BY <1>0, <1>1, <1>3, <2>1, <2>2 DEF TypeOK, Goto
    <2>3. QED BY <1>1, <1>2, <1>3, <2>1, <2>2
<1>7. CASE AddInsert(q)
    <2>1. Answer(q) /\ req[q].user \in Users /\ req[q].id \in RoomIds
        BY <1>0, <1>7, HeldByRequest DEF AddInsert, At, TypeOK
    <2>2. \A u \in Users, r \in RoomIds : /\ Exists(r)' => Exists(r)
                                          /\ InRoom(u, r) => InRoom(u, r)'
        <3>1. CASE UNCHANGED <<room, player>>
            BY <3>1 DEF Exists, InRoom
        <3>2. CASE AddPlayerAllowed(req[q].id, req[q].user) /\ AddPlayer(req[q].id, req[q].user)
            BY <1>0, <2>1, <3>2 DEF TypeOK, AddPlayerAllowed, AddPlayer, Stamped, Exists, InRoom, Placed
        <3>3. QED BY <1>7, <3>1, <3>2 DEF AddInsert
    <2>3. QED BY <1>1, <1>2, <2>1, <2>2
<1>8. CASE LeaveAllGet(q)
    <2>1. /\ UNCHANGED <<room, player>> /\ At(q, "LeaveGet")
          /\ \/ Goto(q, "DeleteGet", req[q].user, req[q].id, NoRow)
             \/ Goto(q, "Remove", req[q].user, req[q].id, NoRow)
        BY <1>8 DEF LeaveAllGet, Leave
    <2>2. /\ req'[q].pc \in {"DeleteGet", "Remove"} /\ req'[q].user = req[q].user
          /\ \A p \in Requests \ {q} : req'[p] = req[p]
        BY <1>0, <2>1 DEF TypeOK, Goto
    <2>3. LeaveAsked(q)' /\ CallOwn(q)'
        BY <1>0, <2>1, <2>2 DEF LeaveAsked, CallOwn, At, Leaving, LostLeave
    <2>4. \A u, r : Brings(q, u, r)' => Brings(q, u, r)
        BY <1>0, <2>2 DEF Brings, At
    <2>5. QED BY <1>0, <1>3, <2>1, <2>2, <2>3, <2>4, ServedStays
<1>9. CASE LeaveAllGone(q)
    BY <1>1, <1>2, <1>3, <1>9 DEF LeaveAllGone
<1>10. CASE DeleteRoom(q)
    <2>1. Answer(q) /\ req[q].id \in RoomIds
        BY <1>0, <1>10, HeldByRequest DEF DeleteRoom, At, TypeOK
    <2>2. \A u \in Users, r \in RoomIds : /\ Exists(r)' => Exists(r)
                                          /\ InRoom(u, r) /\ Exists(r)' => InRoom(u, r)'
        <3>1. CASE UNCHANGED <<room, player>>
            BY <3>1 DEF Exists, InRoom
        <3>2. CASE Delete(req[q].id)
            BY <1>0, <2>1, <3>2 DEF TypeOK, Delete, Exists, InRoom
        <3>3. QED BY <1>10, <3>1, <3>2 DEF DeleteRoom
    <2>3. QED BY <1>1, <1>2, <2>1, <2>2
<1>11. CASE Remove(q)
    <2>1. Answer(q) /\ req[q].user \in Users /\ req[q].id \in RoomIds /\ At(q, "Remove")
        BY <1>0, <1>11, HeldByRequest DEF Remove, At, TypeOK
    <2>2. Excused(req[q].user)
        BY <1>0, <2>1 DEF LeaveAsked, Excused, At
    <2>3. \A u : Excused(u) => Excused(u)'
        BY <1>0 DEF Excused, LostLeave, Leaving
    <2>4. \A u \in Users, r \in RoomIds :
             /\ Exists(r)' => Exists(r)
             /\ u # req[q].user => (InRoom(u, r) => InRoom(u, r)')
        <3>1. CASE UNCHANGED <<room, player>>
            BY <3>1 DEF Exists, InRoom
        <3>2. CASE RemovePlayer(req[q].id, req[q].user)
            BY <1>0, <2>1, <3>2 DEF TypeOK, RemovePlayer, Stamped, Exists, InRoom
        <3>3. QED BY <1>11, <3>1, <3>2 DEF Remove
    <2>5. \A u \in Users, r \in RoomIds :
             InRoom(u, r) /\ Exists(r)' => InRoom(u, r)' \/ Excused(u)'
        BY <2>2, <2>3, <2>4
    <2>6. QED BY <1>1, <1>2, <2>1, <2>4, <2>5
<1>12. QED BY <1>4, <1>5, <1>6, <1>7, <1>8, <1>9, <1>10, <1>11 DEF Serve

\* A request that ends and tells its client of the room it was about.
LEMMA EndStays ==
    ASSUME WholeInv, NEW q \in Requests, ServeCreated(q) \/ ServeWrite(q) \/ ServeCancelled(q)
    PROVE  StayInv'
<1>a. ServeCreated(q) \/ ServeWrite(q) => req[q].id \in RoomIds
    BY WholeTypes, HeldByRequest
    DEF ServeCreated, CreateReread, ServeWrite, WriteRoom, At, TypeOK
<1>0. /\ TypeOK /\ call \in [Requests -> CallRecords]
      /\ LeaveAsked(q) /\ CallOwn(q)
      /\ UNCHANGED <<page, view, lost>>
      /\ Answer(q) /\ req'[q] = Idle /\ \A p \in Requests \ {q} : req'[p] = req[p]
    BY WholeTypes, AnswerMoves
    DEF ServeCreated, CreateReread, ServeWrite, WriteRoom, ServeCancelled, Cancel
<1>1. /\ Alone(q)
      /\ call'[q].user = call[q].user /\ call'[q].op = call[q].op
      /\ \/ call'[q] = call[q]
         \/ /\ call[q] # NoCall /\ call'[q].id = req[q].id
            /\ At(q, "CreateReread") \/ At(q, "Update")
    BY <1>0 DEF Alone, ServeCreated, CreateReread, ServeWrite, WriteRoom, ServeCancelled,
                Cancel, Succeeds, CallRecords
<1>2. LeaveAsked(q)' /\ CallOwn(q)'
    BY <1>0 DEF LeaveAsked, CallOwn, At, Idle
<1>3. \A u, r : Brings(q, u, r)' => Brings(q, u, r)
    BY <1>0, <1>1 DEF Brings, CallOwn, At, Idle
<1>4. \A u \in Users, r \in RoomIds : Exists(r)' => Exists(r)
    BY <1>0, <1>a DEF ServeCreated, CreateReread, ServeWrite, WriteRoom, ServeCancelled,
                      Cancel, Update, TypeOK, Exists
<1>5. UNCHANGED player
    BY DEF ServeCreated, CreateReread, ServeWrite, WriteRoom, ServeCancelled, Cancel, Update
<1>6. ASSUME NEW u \in Users PROVE PageKept(u)'
    <2>1. CASE ~IsShown(u)
        BY <1>0, <2>1, NotShown DEF IsShown
    <2>2. ASSUME IsShown(u), NEW r \in RoomIds, view[u].id = r PROVE PageKept(u)'
        <3>1. page'[u] = r \/ Brings(q, u, r)' => Near(u, r)
            BY <1>0, <1>3, NearByCalls
        <3>2. call[q].user = u /\ Leaving(q) => Excused(u)'
            BY <1>1 DEF Excused, Leaving
        <3>3. InRoom(u, r) => InRoom(u, r)'
            BY <1>5 DEF InRoom
        <3>4. QED BY <1>0, <1>1, <1>4, <2>2, <3>1, <3>2, <3>3, KeptBySlot
    <2>3. QED BY <2>1, <2>2, WholeTypes
<1>7. QED BY <1>0, <1>1, <1>2, <1>6, SlotsStay DEF StayInv

LEMMA SubmitStays ==
    ASSUME WholeInv, NEW u \in Users, NEW q \in Requests, SubmitDrawing(q, u)
    PROVE  StayInv'
<1>0. /\ TypeOK /\ LeaveAsked(q) /\ CallOwn(q)
      /\ UNCHANGED <<req, page, view, call, lost>>
      /\ SetPlayerState(page[u], u, Drawn)
    BY WholeTypes DEF SubmitDrawing, PutPlayerState
<1>1. \A v \in Users, r \in RoomIds : /\ Exists(r)' => Exists(r)
                                      /\ InRoom(v, r) => InRoom(v, r)'
    <2>1. \A v \in Users : player[v] # NoRow => [player[v] EXCEPT !.state = Drawn] # NoRow
        BY <1>0, GameAssumption, Sentinels DEF TypeOK, PlayerRows
    <2>2. QED BY <1>0, <2>1 DEF TypeOK, SetPlayerState, Stamped, Exists, InRoom, PlayerRows
<1>2. LeaveAsked(q)' /\ CallOwn(q)'
    BY <1>0 DEF LeaveAsked, CallOwn, At, Leaving, LostLeave
<1>3. \A v, r : Brings(q, v, r)' => Brings(q, v, r)
    BY <1>0 DEF Brings, At
<1>4. QED BY <1>0, <1>1, <1>2, <1>3, ServedStays

LEMMA WholeStepKeeps ==
    ASSUME WholeInv, [GameNext]_gameVars
    PROVE  WholeInv'
<1>1. GameInv'
    BY GameStepKeeps DEF WholeInv
<1>2. CASE UNCHANGED gameVars
    <2>1. \A q \in Requests : LeaveAsked(q)' /\ CallOwn(q)'
        BY <1>2, WholeTypes DEF gameVars, LeaveAsked, CallOwn, Leaving, LostLeave, At
    <2>2. \A u \in Users : PageKept(u)'
        BY <1>2, KeptByOthers DEF gameVars
    <2>3. QED BY <1>1, <2>1, <2>2 DEF WholeInv, StayInv
<1>3. ASSUME NEW u \in Users, UserStep(u) PROVE StayInv'
    <2>1. CASE GameTick(u)
        BY <1>2, <2>1 DEF GameTick, WholeInv
    <2>2. QED BY <1>3, <2>1, RefreshStays, ToLobbyStays, LoadStays, ClickStays, SubmitStays
              DEF UserStep
<1>4. ASSUME NEW q \in Requests, ServiceStep(q) \/ ServeCancelled(q) \/ AnswerStep(q)
      PROVE  StayInv'
    BY <1>4, ServeStays, EndStays, AnswerStays DEF ServiceStep
<1>5. QED BY <1>1, <1>2, <1>3, <1>4 DEF GameNext, WholeInv

LEMMA WholeInvariance == GameSpec => []WholeInv
<1>1. GameInit => StayInv
    BY DEF GameInit, Init, StayInv, PageKept, IsShown, LeaveAsked, CallOwn, Idle
<1>2. GameInv /\ StayInv => WholeInv
    BY DEF WholeInv
<1>3. WholeInv /\ [GameNext]_gameVars => WholeInv'
    BY WholeStepKeeps
<1>4. QED BY <1>1, <1>2, <1>3, GameInvariance, PTL DEF GameSpec

\* A page that showed its player in the game throws at a refresh only.
LEMMA ThrowsAtRefresh ==
    ASSUME WholeInv, [GameNext]_gameVars, NEW u \in Users, IsShown(u), view'[u] = Crashed
    PROVE  Refresh(u) /\ Exists(page[u]) /\ ~InRoom(u, page[u])
<1>0. /\ PagesOK
      /\ view[u] # Crashed /\ view'[u] # view[u] /\ view'[u] # NoView
    BY WholeTypes, GameAssumption DEF IsShown
<1>1. ASSUME NEW v \in Users, NEW r, Go(v, r) PROVE FALSE
    BY <1>0, <1>1 DEF PagesOK, Go
<1>2. ASSUME UNCHANGED view PROVE FALSE
    BY <1>0, <1>2
<1>3. ASSUME NEW v \in Users, Refresh(v)
      PROVE  Refresh(u) /\ Exists(page[u]) /\ ~InRoom(u, page[u])
    <2>1. Exists(page[v]) /\ view' = [view EXCEPT ![v] = Rendered(v, Shown(page[v]))]
        BY <1>1, <1>3 DEF Refresh
    <2>2. v = u /\ Rendered(u, Shown(page[u])) = Crashed
        BY <1>0, <2>1 DEF PagesOK
    <2>3. u \notin Shown(page[u]).members
        <3>1. page[u] \in RoomIds
            BY WholeTypes DEF PagesOK, ShownOnPages
        <3>2. Shown(page[u]) \in Views
            BY <2>1, <2>2, <3>1, ShownType, WholeTypes
        <3>3. QED BY <2>2, <3>2, GameAssumption DEF Rendered
    <2>4. ~InRoom(u, page[u])
        BY <2>3 DEF Shown, Members
    <2>5. QED BY <1>3, <2>1, <2>2, <2>4
<1>4. ASSUME NEW v \in Users, NEW r, Load(v, r) PROVE FALSE
    BY <1>0, <1>4 DEF PagesOK, Load
<1>5. ASSUME NEW v \in Users, UserStep(v), ~Refresh(v) PROVE FALSE
    <2>1. CASE ToLobby(v)
        BY <1>1, <2>1 DEF ToLobby
    <2>2. CASE GameTick(v)
        BY <1>2, <2>2 DEF GameTick, gameVars
    <2>3. ASSUME NEW q \in Requests,
                 \/ ClickCreate(q, v) \/ ClickLeavePrevious(q, v) \/ ClickLeave(q, v)
                 \/ ClickStart(q, v) \/ SubmitDrawing(q, v)
                 \/ \E r \in RoomIds : ClickJoin(q, v, r)
          PROVE  FALSE
        BY <1>2, <2>3 DEF ClickCreate, ClickLeavePrevious, ClickLeave, ClickStart,
                          SubmitDrawing, ClickJoin, Ask
    <2>4. QED BY <1>4, <1>5, <2>1, <2>2, <2>3 DEF UserStep
<1>6. ASSUME NEW q \in Requests, ServiceStep(q) \/ ServeCancelled(q) PROVE FALSE
    BY <1>2, <1>6 DEF ServiceStep, Serve, ServeCreated, ServeWrite, ServeCancelled
<1>7. ASSUME NEW q \in Requests, AnswerStep(q) PROVE FALSE
    <2>1. call[q].op # "none" => call[q].user \in Users
        BY DEF WholeInv, GameInv, PagesInv, CallsName, CallNames
    <2>2. CASE CreateArrives(q) \/ JoinArrives(q) \/ LeaveArrives(q)
        BY <1>1, <1>2, <2>1, <2>2 DEF CreateArrives, JoinArrives, LeaveArrives, Answered
    <2>3. CASE LeavePreviousArrives(q) \/ FreezeArrives(q) \/ SetStateArrives(q)
        BY <1>2, <2>3 DEF LeavePreviousArrives, FreezeArrives, SetStateArrives
    <2>4. CASE StartFails(q) \/ CreateFails(q)
        BY <1>2, <2>4 DEF StartFails, CreateFails
    <2>5. QED BY <1>7, <2>2, <2>3, <2>4 DEF AnswerStep
<1>8. CASE UNCHANGED gameVars
    BY <1>2, <1>8 DEF gameVars
<1>9. QED BY <1>3, <1>5, <1>6, <1>7, <1>8 DEF GameNext

\* A page that shows its player in the game throws only if the player asked
\* to leave, and an answer to that is still awaited or was not waited for.
THEOREM PlayersAlwaysKeepTheirPage == GameSpec => PlayersKeepTheirPage
<1>1. WholeInv /\ [GameNext]_gameVars =>
        [\A u \in Users :
            IsShown(u) /\ u \in view[u].members /\ view[u].id = page[u] /\ view'[u] = Crashed =>
              \/ \E q \in Requests : call[q].user = u /\ Leaving(q)
              \/ \E c \in lost : c.op = "leave" /\ c.user = u]_gameVars
    <2> SUFFICES ASSUME WholeInv, [GameNext]_gameVars, NEW u \in Users,
                        IsShown(u), u \in view[u].members, view[u].id = page[u],
                        view'[u] = Crashed
                 PROVE  Excused(u)
        BY DEF Excused, LostLeave
    <2>1. Exists(page[u]) /\ ~InRoom(u, page[u])
        BY ThrowsAtRefresh
    <2>2. PageKept(u)
        BY WholeTypes
    <2>3. QED BY <2>1, <2>2 DEF PageKept, Near
<1>2. QED BY <1>1, WholeInvariance, PTL DEF GameSpec, PlayersKeepTheirPage
=============================================================================
