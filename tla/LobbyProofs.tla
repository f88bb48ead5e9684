----------------------------- MODULE LobbyProofs -----------------------------
(***************************************************************************)
(* Proofs about the lobby, for any users, rooms and number of overlapping  *)
(* refreshes.                                                              *)
(***************************************************************************)
EXTENDS Lobby, FiniteSetTheorems, TLAPS

-----------------------------------------------------------------------------
(* The list that the server answers with.                                  *)

RowRecords == [room : RoomIds, user : Users \cup {Nobody}]

LEMMA JoinRowsType ==
    JoinRows \subseteq RowRecords /\ \A row \in JoinRows : row.room \in Existing
BY DEF JoinRows, RowRecords, Existing

LEMMA JoinRowsFinite == IsFiniteSet(JoinRows)
<1> DEFINE pairs == RoomIds \X (Users \cup {Nobody})
           f == [row \in JoinRows |-> <<row.room, row.user>>]
<1>1. IsFiniteSet(RoomIds) /\ IsFiniteSet(Users \cup {Nobody})
    BY LobbyAssumption, FS_AddElement
<1>2. IsFiniteSet(pairs)
    BY <1>1, FS_Product
<1>3. f \in [JoinRows -> pairs]
    BY JoinRowsType DEF RowRecords
<1>4. ASSUME NEW a \in JoinRows, NEW b \in JoinRows, f[a] = f[b] PROVE a = b
    <2>1. a \in RowRecords /\ b \in RowRecords
        BY JoinRowsType
    <2>2. a.room = b.room /\ a.user = b.user
        BY <1>4
    <2>3. QED
        BY <2>1, <2>2 DEF RowRecords
<1>5. f \in Injection(JoinRows, pairs)
    BY <1>3, <1>4 DEF Injection, IsInjective
<1>6. QED
    BY <1>2, <1>5, FS_Injection

\* An order is a sequence of rows.
LEMMA OrderType ==
    ASSUME NEW order \in Orders
    PROVE  order \in Seq(JoinRows)
<1>1. Cardinality(JoinRows) \in Nat
    BY JoinRowsFinite, FS_CardinalityType
<1>2. order \in [1..Cardinality(JoinRows) -> JoinRows]
    BY DEF Orders, SetToSeqs
<1>3. QED
    BY <1>1, <1>2

\* A client that names neither page nor size gets the first page.
LEMMA FirstPage ==
    ASSUME NEW total \in Nat
    PROVE  LET p == FromRequest(NoQuery, total) IN Offset(p) = 0 /\ Limit(p) = DefaultPageSize
<1>1. DefaultPageSize \in Nat \ {0} /\ MaxPageSize \in Nat \ {0} /\ DefaultPageSize <= MaxPageSize
    BY PaginationAssumption
<1>2. Param(NoQuery, "page", 1) = 1 /\ Param(NoQuery, "per_page", DefaultPageSize) = DefaultPageSize
    BY DEF Param, NoQuery
<1>3. PageSize(DefaultPageSize) = DefaultPageSize
    BY <1>1 DEF PageSize
<1> DEFINE count == PageCount(DefaultPageSize, total)
<1>4. count \in Int
    BY <1>1 DEF PageCount
<1> HIDE DEF count
<1>5. /\ Pages(1, DefaultPageSize, total).page = 1
      /\ Pages(1, DefaultPageSize, total).perPage = DefaultPageSize
    BY <1>1, <1>3, <1>4 DEF Pages, count
<1>6. QED
    BY <1>1, <1>2, <1>5 DEF FromRequest, Offset, Limit

HostsTyped == host \in [RoomIds -> Users \cup {Nobody}]

\* What a page of the list holds: items whose players are at most the owner.
OwnersOnly(items) == \A i \in DOMAIN items : items[i].players \subseteq {items[i].owner}

LEMMA QueryType ==
    ASSUME HostsTyped, NEW order \in Orders, NEW total \in Nat
    PROVE  LET items == Query(order, FromRequest(NoQuery, total)) IN
           items \in Seq(Items) /\ OwnersOnly(items)
<1> DEFINE p == FromRequest(NoQuery, total)
           last == IF Offset(p) + Limit(p) < Len(order) THEN Offset(p) + Limit(p) ELSE Len(order)
           rows == SubSeq(order, Offset(p) + 1, last)
           items == Query(order, p)
<1>1. Offset(p) = 0 /\ Limit(p) \in Nat
    BY FirstPage, PaginationAssumption
<1>2. order \in Seq(JoinRows) /\ Len(order) \in Nat
    BY OrderType
<1> HIDE DEF p
<1>3. rows \in Seq(JoinRows)
    BY <1>1, <1>2
<1>4. ASSUME NEW row \in JoinRows
      PROVE  Item(row) \in Items /\ Item(row).players \subseteq {Item(row).owner}
    <2>1. row.room \in RoomIds /\ host[row.room] \in Users
        BY JoinRowsType DEF RowRecords, Existing, HostsTyped
    <2>2. QED
        BY <2>1 DEF Item, Items
<1>5. items = [i \in DOMAIN rows |-> Item(rows[i])]
    BY DEF Query
<1> HIDE DEF rows, items
<1>6. DOMAIN rows = 1..Len(rows) /\ Len(rows) \in Nat /\ \A i \in DOMAIN rows : rows[i] \in JoinRows
    BY <1>3
<1>7. items \in [1..Len(rows) -> Items] /\ \A i \in 1..Len(rows) : items[i].players \subseteq {items[i].owner}
    BY <1>4, <1>5, <1>6
<1>8. items \in Seq(Items) /\ OwnersOnly(items)
    BY <1>6, <1>7 DEF OwnersOnly
<1>9. QED
    BY <1>8 DEF items, p

LEMMA CountType == Cardinality(Existing) \in Nat
<1>1. Existing \in SUBSET RoomIds
    BY DEF Existing
<1>2. QED
    BY <1>1, LobbyAssumption, FS_Subset, FS_CardinalityType

-----------------------------------------------------------------------------
(* The invariant: lists hold only what the lobby can show, and a creation  *)
(* that succeeded names a room of Me.                                      *)

ListsOK == \A q \in Refreshes : OwnersOnly(refresh[q].items)

CallsOK ==
    /\ call.kind = "create" /\ (call.status = "ok" \/ call.told) =>
          call.id \in RoomIds /\ host[call.id] = Me
    /\ call.kind = "join" => call.id \in RoomIds
    /\ call.told => call.kind \in {"create", "join", "leave"}

Inv == TypeOK /\ ListsOK /\ ShownRoomsHaveOwners /\ CallsOK

RefreshRecords == [phase : {"none", "sent", "counted", "answered"}, count : Nat,
                   items : Seq(Items), mounted : BOOLEAN]

LEMMA Rooms ==
    /\ LobbyPage \notin RoomIds /\ NoRoom \notin RoomIds
    /\ Me \in Users /\ Nobody \notin Users
BY LobbyAssumption DEF LobbyPage

LEMMA NoRefreshType == NoRefresh \in RefreshRecords /\ OwnersOnly(NoRefresh.items)
<1>1. <<>> \in Seq(Items)
    OBVIOUS
<1>2. QED
    BY <1>1 DEF NoRefresh, RefreshRecords, OwnersOnly

CallRecords == [kind : Kinds \cup {"none"}, id : RoomIds \cup {NoRoom},
                status : {"none", "asked", "ok", "failed"}, told : BOOLEAN]

LEMMA NoCallType == NoCall \in CallRecords
BY DEF NoCall, CallRecords

LEMMA ListType ==
    /\ \A set \in SUBSET [id : RoomIds, owned : BOOLEAN] :
          List(set) \in [known : BOOLEAN, list : SUBSET [id : RoomIds, owned : BOOLEAN]]
    /\ Undefined \in [known : BOOLEAN, list : SUBSET [id : RoomIds, owned : BOOLEAN]]
BY DEF List, Undefined

LEMMA InitInv == Init => Inv
<1> SUFFICES ASSUME Init PROVE Inv
    OBVIOUS
<1>1. TypeOK
    BY NoRefreshType, ListType DEF Init, MInit, TypeOK, RefreshRecords, NoCall
<1>2. ListsOK
    BY NoRefreshType DEF Init, ListsOK
<1>3. ShownRoomsHaveOwners
    BY DEF Init, ShownRoomsHaveOwners, List
<1>4. CallsOK
    BY DEF Init, CallsOK, NoCall
<1>5. QED
    BY <1>1, <1>2, <1>3, <1>4 DEF Inv

\* One refresh goes on; who is where, the page and the call stay.
LEMMA RefreshInv ==
    ASSUME Inv, NEW q \in Refreshes, NEW n \in RefreshRecords, OwnersOnly(n.items),
           refresh' = [refresh EXCEPT ![q] = n], UNCHANGED <<roomOf, host>>
    PROVE  refresh' \in [Refreshes -> RefreshRecords] /\ ListsOK'
BY DEF Inv, TypeOK, ListsOK, RefreshRecords, OwnersOnly

\* The shown list holds what can be shown.
ShownOK ==
    /\ rooms \in [known : BOOLEAN, list : SUBSET [id : RoomIds, owned : BOOLEAN]]
    /\ ShownRoomsHaveOwners

LEMMA MadeShown ==
    ASSUME NEW items \in Seq(Items), OwnersOnly(items), Readable(items)
    PROVE  Made(items) \in SUBSET [id : RoomIds, owned : {TRUE}]
<1> SUFFICES ASSUME NEW i \in DOMAIN items
             PROVE  [id |-> items[i].id, owned |-> items[i].owner \in items[i].players]
                        \in [id : RoomIds, owned : {TRUE}]
    BY DEF Made
<1>1. items[i] \in Items
    OBVIOUS
<1>2. items[i].players # {} /\ items[i].players \subseteq {items[i].owner}
    BY DEF OwnersOnly, Readable
<1>3. items[i].id \in RoomIds
    BY <1>1 DEF Items
<1>4. (items[i].owner \in items[i].players) = TRUE
    BY <1>2
<1>5. QED
    BY <1>3, <1>4

LEMMA EndRefreshInv ==
    ASSUME Inv, NEW q \in Refreshes, NEW list, EndRefresh(q, list),
           list = Undefined \/ (Readable(refresh[q].items) /\ list = List(Made(refresh[q].items)))
    PROVE  Inv'
<1>1. refresh[q] \in RefreshRecords /\ OwnersOnly(refresh[q].items)
    BY DEF Inv, TypeOK, RefreshRecords, ListsOK
<1>2. refresh' \in [Refreshes -> RefreshRecords] /\ ListsOK'
    BY RefreshInv, NoRefreshType DEF EndRefresh, mvars
<1>3. /\ list \in [known : BOOLEAN, list : SUBSET [id : RoomIds, owned : BOOLEAN]]
      /\ \A m \in list.list : m.owned
    <2>1. CASE list = Undefined
        BY <2>1, ListType DEF Undefined
    <2>2. CASE Readable(refresh[q].items) /\ list = List(Made(refresh[q].items))
        <3>1. Made(refresh[q].items) \in SUBSET [id : RoomIds, owned : {TRUE}]
            BY <1>1, <2>2, MadeShown DEF RefreshRecords
        <3>2. Made(refresh[q].items) \in SUBSET [id : RoomIds, owned : BOOLEAN]
            BY <3>1
        <3>3. \A m \in Made(refresh[q].items) : m.owned
            BY <3>1
        <3>4. list.list = Made(refresh[q].items)
            BY <2>2 DEF List
        <3>5. QED
            BY <2>2, <3>2, <3>3, <3>4, ListType
    <2>3. QED
        BY <2>1, <2>2
<1>4. ShownRoomsHaveOwners'
    BY <1>3 DEF EndRefresh, Inv, ShownRoomsHaveOwners
<1>5. TypeOK'
    BY <1>2, <1>3 DEF EndRefresh, Inv, TypeOK, RefreshRecords, mvars, Kinds
<1>6. CallsOK'
    BY DEF EndRefresh, Inv, CallsOK, mvars
<1>7. QED
    BY <1>2, <1>4, <1>5, <1>6 DEF Inv

\* A refresh is sent, whatever becomes of the call.
LEMMA SentInv ==
    ASSUME Inv, NEW q \in Refreshes, Refresh(q), call' = call \/ call' = NoCall
    PROVE  Inv'
<1> DEFINE n == [refresh[q] EXCEPT !.phase = "sent", !.mounted = TRUE]
<1>1. refresh[q] \in RefreshRecords /\ OwnersOnly(refresh[q].items)
    BY DEF Inv, TypeOK, RefreshRecords, ListsOK
<1>2. n \in RefreshRecords /\ n.items = refresh[q].items
    BY <1>1 DEF RefreshRecords
<1>3. refresh' = [refresh EXCEPT ![q] = n] /\ UNCHANGED <<roomOf, host>>
    BY DEF Refresh, mvars
<1>4. refresh' \in [Refreshes -> RefreshRecords] /\ ListsOK'
    BY <1>1, <1>2, <1>3, RefreshInv
<1>5. TypeOK'
    <2>1. call' \in CallRecords
        BY NoCallType DEF Inv, TypeOK, CallRecords
    <2>2. QED
        BY <1>3, <1>4, <2>1 DEF Refresh, Inv, TypeOK, RefreshRecords, CallRecords
<1>6. CallsOK'
    BY <1>3 DEF Inv, CallsOK, NoCall
<1>7. ShownRoomsHaveOwners'
    BY DEF Refresh, Inv, ShownRoomsHaveOwners
<1>8. QED
    BY <1>4, <1>5, <1>6, <1>7 DEF Inv

LEMMA ServeCountInv ==
    ASSUME Inv, NEW q \in Refreshes, ServeCount(q)
    PROVE  Inv'
<1> DEFINE n == [refresh[q] EXCEPT !.phase = "counted", !.count = Cardinality(Existing)]
<1>1. refresh[q] \in RefreshRecords /\ OwnersOnly(refresh[q].items)
    BY DEF Inv, TypeOK, RefreshRecords, ListsOK
<1>2. n \in RefreshRecords /\ n.items = refresh[q].items
    BY <1>1, CountType DEF RefreshRecords
<1>3. refresh' = [refresh EXCEPT ![q] = n] /\ UNCHANGED <<roomOf, host, page, rooms, fetching, error, call>>
    BY DEF ServeCount, mvars, lobby
<1>4. refresh' \in [Refreshes -> RefreshRecords] /\ ListsOK'
    BY <1>1, <1>2, <1>3, RefreshInv
<1>5. QED
    BY <1>3, <1>4 DEF Inv, TypeOK, RefreshRecords, CallsOK, ShownRoomsHaveOwners

LEMMA ServeQueryInv ==
    ASSUME Inv, NEW q \in Refreshes, ServeQuery(q)
    PROVE  Inv'
<1>1. refresh[q] \in RefreshRecords /\ refresh[q].count \in Nat /\ HostsTyped
    BY DEF Inv, TypeOK, RefreshRecords, HostsTyped
<1>2. UNCHANGED <<roomOf, host, page, rooms, fetching, error, call>>
    BY DEF ServeQuery, mvars, lobby
<1>3. PICK order \in Orders :
          refresh' = [refresh EXCEPT
              ![q].phase = "answered", ![q].count = 0,
              ![q].items = Query(order, FromRequest(NoQuery, refresh[q].count))]
    BY DEF ServeQuery
<1> DEFINE items == Query(order, FromRequest(NoQuery, refresh[q].count))
           n == [refresh[q] EXCEPT !.phase = "answered", !.count = 0, !.items = items]
<1>4. items \in Seq(Items) /\ OwnersOnly(items)
    BY <1>1, QueryType
<1> HIDE DEF items
<1>5. n \in RefreshRecords /\ n.items = items
    BY <1>1, <1>4 DEF RefreshRecords
<1>6. refresh' = [refresh EXCEPT ![q] = n]
    BY <1>3 DEF items
<1>7. refresh' \in [Refreshes -> RefreshRecords] /\ ListsOK'
    BY <1>2, <1>4, <1>5, <1>6, RefreshInv
<1>8. QED
    BY <1>2, <1>7 DEF Inv, TypeOK, RefreshRecords, CallsOK, ShownRoomsHaveOwners

\* A step that leaves the list and the refreshes alone.
LEMMA CallInv ==
    ASSUME Inv, UNCHANGED <<rooms, refresh>>,
           roomOf' \in [Users -> RoomIds \cup {NoRoom}],
           host' \in [RoomIds -> Users \cup {Nobody}],
           page' \in RoomIds \cup {LobbyPage}, fetching' \in BOOLEAN,
           error' \in {"none"} \cup Kinds,
           call' \in [kind : Kinds \cup {"none"}, id : RoomIds \cup {NoRoom},
                      status : {"none", "asked", "ok", "failed"}, told : BOOLEAN],
           CallsOK'
    PROVE  Inv'
BY DEF Inv, TypeOK, ListsOK, ShownRoomsHaveOwners

\* What a step of Membership does to who is where.
LEMMA MembershipType ==
    ASSUME roomOf \in [Users -> RoomIds \cup {NoRoom}],
           host \in [RoomIds -> Users \cup {Nobody}],
           NEW u \in Users, NEW r \in RoomIds,
           Open(u, r) \/ Enter(u, r) \/ Exit(u) \/ Disband(r)
    PROVE  /\ roomOf' \in [Users -> RoomIds \cup {NoRoom}]
           /\ host' \in [RoomIds -> Users \cup {Nobody}]
           /\ Open(u, r) => host'[r] = u
           /\ ~Disband(r) => \A s \in RoomIds : host[s] # Nobody => host'[s] = host[s]
           /\ \A s \in RoomIds \ {r} : host'[s] = host[s]
BY DEF Open, Enter, Exit, Disband

LEMMA AskInv ==
    ASSUME Inv, NEW kind \in Kinds, NEW id \in RoomIds \cup {NoRoom}, Ask(kind, id)
    PROVE  Inv'
<1>1. TypeOK /\ UNCHANGED <<roomOf, host, page, rooms, refresh>> /\ call = NoCall
    BY DEF Inv, Ask, mvars
<1>2. call' = [kind |-> kind, id |-> id, status |-> "asked", told |-> FALSE]
    BY <1>1 DEF Ask, NoCall
<1>3. kind = "join" => id \in RoomIds
    BY <1>1 DEF Ask, Listed, TypeOK
<1>4. CallsOK'
    BY <1>2, <1>3 DEF CallsOK
<1>5. fetching' \in BOOLEAN /\ error' \in {"none"} \cup Kinds
    BY <1>1 DEF Ask, TypeOK
<1>6. QED
    BY <1>1, <1>2, <1>4, <1>5, CallInv DEF TypeOK

LEMMA ServeInv == ASSUME Inv, Serve PROVE Inv'
<1>1. TypeOK /\ CallsOK /\ UNCHANGED <<page, rooms, fetching, error, refresh>> /\ Me \in Users
    BY Rooms DEF Inv, Serve, lobby
<1>2. ASSUME NEW r \in RoomIds, call.kind = "create", Open(Me, r),
             call' = [call EXCEPT !.status = "ok", !.id = r]
      PROVE  Inv'
    <2>1. call' \in [kind : {"create"}, id : RoomIds,
                     status : {"ok"}, told : BOOLEAN] /\ call'.id = r
        BY <1>1, <1>2 DEF TypeOK
    <2>2. CallsOK'
        BY <1>1, <1>2, <2>1, MembershipType DEF TypeOK, CallsOK
    <2>3. QED
        BY <1>1, <1>2, <2>1, <2>2, MembershipType, CallInv DEF TypeOK, Kinds
<1>3. ASSUME NEW r \in RoomIds, call.kind \in {"join", "leave", "leaveAll"},
             Enter(Me, r) \/ Exit(Me) \/ Disband(r),
             call' = [call EXCEPT !.status = "ok"]
      PROVE  Inv'
    <2>1. call' \in [kind : Kinds, id : RoomIds \cup {NoRoom}, status : {"ok"}, told : BOOLEAN]
          /\ call'.kind = call.kind /\ call'.id = call.id /\ call'.told = call.told
        BY <1>1, <1>3 DEF TypeOK, Kinds
    <2>2. CallsOK'
        BY <1>1, <1>3, <2>1 DEF CallsOK
    <2>3. QED
        BY <1>1, <1>3, <2>1, <2>2, MembershipType, CallInv DEF TypeOK
<1>4. QED
    BY <1>2, <1>3 DEF Serve

LEMMA CallFailsInv == ASSUME Inv, CallFails PROVE Inv'
<1>1. TypeOK /\ CallsOK /\ UNCHANGED <<roomOf, host, page, rooms, fetching, error, refresh>>
      /\ ~call.told
    BY DEF Inv, CallFails, lobby, mvars
<1>2. /\ call' \in [kind : Kinds \cup {"none"}, id : RoomIds \cup {NoRoom},
                    status : {"failed"}, told : BOOLEAN]
      /\ call'.kind = call.kind /\ call'.id = call.id /\ call'.told = call.told
    BY <1>1 DEF TypeOK, CallFails
<1>3. CallsOK'
    BY <1>1, <1>2 DEF CallsOK
<1>4. QED
    BY <1>1, <1>2, <1>3, CallInv DEF TypeOK

LEMMA AnswerArrivesInv == ASSUME Inv, AnswerArrives PROVE Inv'
<1>1. TypeOK /\ CallsOK /\ UNCHANGED <<roomOf, host, page, rooms, refresh>>
    BY DEF Inv, AnswerArrives, mvars
<1>2. fetching' \in BOOLEAN /\ error' \in {"none"} \cup Kinds
    <2>1. call.kind \in {"none"} \cup Kinds
        BY <1>1 DEF TypeOK
    <2>2. QED
        BY <1>1, <2>1 DEF AnswerArrives, TypeOK
<1>3. CASE call' = NoCall
    <2>1. call' \in [kind : {"none"}, id : {NoRoom}, status : {"none"}, told : {FALSE}]
        BY <1>3 DEF NoCall
    <2>2. CallsOK'
        BY <2>1 DEF CallsOK
    <2>3. QED
        BY <1>1, <1>2, <2>1, <2>2, CallInv DEF TypeOK
<1>4. CASE call' # NoCall
    <2>1. call' = [call EXCEPT !.told = TRUE]
          /\ (call.kind \in {"join", "leave"} \/ (call.kind = "create" /\ ~Fails(call.kind)))
        BY <1>4 DEF AnswerArrives
    <2>2. call.kind = "create" => call.status = "ok"
        BY <2>1 DEF AnswerArrives, Fails
    <2>3. /\ call' \in [kind : Kinds \cup {"none"}, id : RoomIds \cup {NoRoom},
                        status : {"none", "asked", "ok", "failed"}, told : BOOLEAN]
          /\ call'.kind = call.kind /\ call'.id = call.id /\ call'.status = call.status
        BY <1>1, <2>1 DEF TypeOK
    <2>4. CallsOK'
        BY <1>1, <2>1, <2>2, <2>3 DEF CallsOK
    <2>5. QED
        BY <1>1, <1>2, <2>3, <2>4, CallInv DEF TypeOK
<1>5. QED
    BY <1>3, <1>4

\* Another page is mounted.
LEMMA ShowInv ==
    ASSUME Inv, NEW p \in RoomIds \cup {LobbyPage}, Show(p), call' = call \/ call' = NoCall
    PROVE  Inv'
<1>1. TypeOK /\ ListsOK /\ CallsOK /\ ShownRoomsHaveOwners /\ page' = p
      /\ UNCHANGED <<roomOf, host>>
    BY DEF Inv, Show, mvars
<1>2. CallsOK'
    BY <1>1 DEF CallsOK, NoCall
<1>3. call' \in CallRecords
    BY <1>1, NoCallType DEF TypeOK, CallRecords
<1>4. CASE p = page
    <2>1. UNCHANGED <<rooms, fetching, error, refresh>>
        BY <1>4 DEF Show
    <2>2. QED
        BY <1>1, <1>2, <1>3, <2>1, CallInv DEF TypeOK, CallRecords
<1>5. CASE p # page
    <2>1. /\ rooms' = List({}) /\ fetching' = TRUE /\ error' = "none"
          /\ refresh' = [q \in Refreshes |-> [refresh[q] EXCEPT !.mounted = FALSE]]
        BY <1>5 DEF Show
    <2>2. ASSUME NEW q \in Refreshes
          PROVE  /\ refresh'[q] \in RefreshRecords
                 /\ refresh'[q].items = refresh[q].items
        BY <1>1, <2>1 DEF TypeOK, RefreshRecords
    <2>3. refresh' \in [Refreshes -> RefreshRecords]
        BY <2>1, <2>2
    <2>4. ListsOK'
        BY <1>1, <2>2 DEF ListsOK, OwnersOnly
    <2>5. rooms' \in [known : BOOLEAN, list : SUBSET [id : RoomIds, owned : BOOLEAN]]
          /\ ShownRoomsHaveOwners'
        BY <2>1, ListType DEF List, ShownRoomsHaveOwners
    <2>6. TypeOK'
        BY <1>1, <1>3, <2>1, <2>3, <2>5 DEF TypeOK, RefreshRecords, CallRecords
    <2>7. QED
        BY <1>2, <2>4, <2>5, <2>6 DEF Inv
<1>6. QED
    BY <1>4, <1>5

LEMMA NavigateInv == ASSUME Inv, Navigate PROVE Inv'
<1>1. call.told /\ CallsOK /\ call' = NoCall
    BY DEF Inv, Navigate
<1>2. PICK p : p = (IF call.kind = "leave" THEN LobbyPage ELSE call.id) /\ Show(p)
    BY DEF Navigate
<1>3. p \in RoomIds \cup {LobbyPage}
    BY <1>1, <1>2 DEF CallsOK
<1>4. QED
    BY <1>1, <1>2, <1>3, ShowInv

\* No other user ends a room of Me.
LEMMA OthersActInv == ASSUME Inv, OthersAct PROVE Inv'
<1>1. TypeOK /\ CallsOK /\ UNCHANGED <<page, rooms, fetching, error, refresh, call>>
    BY DEF Inv, OthersAct, lobby
<1>2. PICK u \in Users \ {Me} :
          \/ \E r \in RoomIds : Open(u, r) \/ Enter(u, r) \/ (host[r] = u /\ Disband(r))
          \/ Exit(u)
    BY DEF OthersAct
<1>3. CASE Exit(u)
    <2>1. /\ roomOf' \in [Users -> RoomIds \cup {NoRoom}] /\ host' = host
        BY <1>1, <1>3 DEF Exit, TypeOK
    <2>2. CallsOK'
        BY <1>1, <2>1 DEF CallsOK
    <2>3. QED
        BY <1>1, <2>1, <2>2, CallInv DEF TypeOK
<1>4. ASSUME NEW r \in RoomIds, Open(u, r) \/ Enter(u, r) \/ (host[r] = u /\ Disband(r))
      PROVE  Inv'
    <2>1. /\ roomOf' \in [Users -> RoomIds \cup {NoRoom}]
          /\ host' \in [RoomIds -> Users \cup {Nobody}]
        BY <1>1, <1>4, MembershipType DEF TypeOK
    <2>2. ASSUME NEW s \in RoomIds, host[s] = Me PROVE host'[s] = Me
        <3>1. CASE ~Disband(r)
            BY <1>1, <1>4, <2>2, <3>1, MembershipType, Rooms DEF TypeOK
        <3>2. CASE Disband(r) /\ host[r] = u
            BY <1>1, <1>2, <2>2, <3>2 DEF Disband, TypeOK
        <3>3. CASE Disband(r) /\ (Open(u, r) \/ Enter(u, r))
            BY <1>1, <2>2, <3>3, Rooms DEF Disband, Open, Enter, TypeOK
        <3>4. QED
            BY <1>4, <3>1, <3>2, <3>3
    <2>3. CallsOK'
        BY <1>1, <2>2 DEF CallsOK
    <2>4. QED
        BY <1>1, <2>1, <2>3, CallInv DEF TypeOK
<1>5. QED
    BY <1>2, <1>3, <1>4

LEMMA NextInv == Inv /\ [Next]_vars => Inv'
<1> SUFFICES ASSUME Inv, [Next]_vars PROVE Inv'
    OBVIOUS
<1>1. ASSUME NEW q \in Refreshes, Refresh(q) /\ UNCHANGED call PROVE Inv'
    BY <1>1, SentInv
<1>2. ASSUME NEW q \in Refreshes, ServeCount(q) \/ ServeQuery(q) PROVE Inv'
    BY <1>2, ServeCountInv, ServeQueryInv
<1>3. ASSUME NEW q \in Refreshes, ListArrives(q) \/ RefreshFails(q) PROVE Inv'
    BY <1>3, EndRefreshInv DEF ListArrives, RefreshFails
<1>4. ASSUME NEW q \in Refreshes, LeftAllArrives(q) PROVE Inv'
    BY <1>4, SentInv DEF LeftAllArrives
<1>5. ASSUME NEW kind \in Kinds, NEW id \in RoomIds \cup {NoRoom}, Ask(kind, id) PROVE Inv'
    BY <1>5, AskInv
<1>6. CASE GoToLobby
    <2>1. Show(LobbyPage) /\ call' = call
        BY <1>6 DEF GoToLobby
    <2>2. QED
        BY <2>1, ShowInv
<1>7. CASE CloseError
    BY <1>7 DEF CloseError, mvars, Inv, TypeOK, ListsOK, CallsOK, ShownRoomsHaveOwners
<1>8. CASE UNCHANGED vars
    BY <1>8 DEF vars, Inv, TypeOK, ListsOK, CallsOK, ShownRoomsHaveOwners
<1>9. QED
    BY <1>1, <1>2, <1>3, <1>4, <1>5, <1>6, <1>7, <1>8, ServeInv, CallFailsInv,
       AnswerArrivesInv, NavigateInv, OthersActInv DEF Next, Kinds

LEMMA SpecInv == Spec => []Inv
<1>1. QED
    BY InitInv, NextInv, PTL DEF Spec

-----------------------------------------------------------------------------
\* The lobby, its refreshes and the call of Me are such values: no answer,
\* however late, brings anything else.
THEOREM TypeCorrect == Spec => []TypeOK
<1>1. Inv => TypeOK
    BY DEF Inv
<1>2. QED
    BY <1>1, SpecInv, PTL

\* However many refreshes overlap and whatever rows the page holds, a listed
\* room has its owner among its players.
THEOREM OwnersAlwaysShown == Spec => []ShownRoomsHaveOwners
<1>1. Inv => ShownRoomsHaveOwners
    BY DEF Inv
<1>2. QED
    BY <1>1, SpecInv, PTL

\* The page that opens after Create is that of a room whose host is Me,
\* whatever the others do while the answer travels.
THEOREM CreatedRoomIsAlwaysOwn == Spec => []CreatedRoomIsOwn
<1>1. Inv => CreatedRoomIsOwn
    BY DEF Inv, CallsOK, CreatedRoomIsOwn
<1>2. QED
    BY <1>1, SpecInv, PTL

-----------------------------------------------------------------------------
(* The lobby and the room service.                                         *)

\* The lobby stands on Membership: what its user and the others do to users
\* and rooms is what the room service, which implements Membership too,
\* promises, and nothing that the lobby does for itself reaches the server.
THEOREM LobbyKeepsMembership == Spec => MSpec
<1>1. Init => MInit
    BY DEF Init
<1>2. [Next]_vars => [MNext]_mvars
    <2> SUFFICES ASSUME [Next]_vars PROVE MNext \/ UNCHANGED mvars
        OBVIOUS
    <2>1. Me \in Users
        BY LobbyAssumption
    <2>2. CASE Serve
        BY <2>1, <2>2 DEF Serve, MNext
    <2>3. CASE OthersAct
        BY <2>3 DEF OthersAct, MNext
    <2>4. CASE UNCHANGED mvars
        BY <2>4
    <2>5. QED
        BY <2>2, <2>3, <2>4
        DEF Next, Refresh, ServeCount, ServeQuery, ListArrives, RefreshFails, EndRefresh,
            LeftAllArrives, Ask, CallFails, AnswerArrives, Navigate, Show, GoToLobby,
            CloseError, vars, mvars
<1>3. QED
    BY <1>1, <1>2, PTL DEF Spec, MSpec

-----------------------------------------------------------------------------
(* What the list says.                                                     *)

\* A host is in the own room, and who is in a room is in one that exists.
PlacesOK ==
    /\ \A r \in RoomIds : host[r] # Nobody => roomOf[host[r]] = r
    /\ \A u \in Users : roomOf[u] # NoRoom => host[roomOf[u]] # Nobody

Places ==
    /\ roomOf \in [Users -> RoomIds \cup {NoRoom}]
    /\ host \in [RoomIds -> Users \cup {Nobody}]
    /\ PlacesOK

LEMMA PlacesStep ==
    ASSUME Places, NEW u \in Users, NEW r \in RoomIds,
           Open(u, r) \/ Enter(u, r) \/ Exit(u) \/ Disband(r)
    PROVE  PlacesOK'
<1> USE Rooms DEF Places, PlacesOK
<1>1. CASE Open(u, r)
    BY <1>1 DEF Open
<1>2. CASE Enter(u, r)
    BY <1>2 DEF Enter
<1>3. CASE Exit(u)
    BY <1>3 DEF Exit
<1>4. CASE Disband(r)
    BY <1>4 DEF Disband
<1>5. QED
    BY <1>1, <1>2, <1>3, <1>4

LEMMA PlacesNext == Inv /\ PlacesOK /\ [Next]_vars => PlacesOK'
<1> SUFFICES ASSUME Inv, PlacesOK, [Next]_vars PROVE PlacesOK'
    OBVIOUS
<1>1. Places
    BY DEF Inv, TypeOK, Places
<1>2. ASSUME NEW u \in Users, NEW r \in RoomIds,
             Open(u, r) \/ Enter(u, r) \/ Exit(u) \/ Disband(r)
      PROVE  PlacesOK'
    BY <1>1, <1>2, PlacesStep
<1>3. CASE Serve
    BY <1>2, <1>3, Rooms DEF Serve
<1>4. CASE OthersAct
    <2>1. PICK u \in Users \ {Me} :
              \/ \E r \in RoomIds : Open(u, r) \/ Enter(u, r) \/ (host[r] = u /\ Disband(r))
              \/ Exit(u)
        BY <1>4 DEF OthersAct
    <2>2. CASE Exit(u)
        BY <1>1, <2>2 DEF Exit, Places, PlacesOK
    <2>3. QED
        BY <1>2, <2>1, <2>2
<1>5. CASE UNCHANGED mvars
    BY <1>5 DEF PlacesOK, mvars
<1>6. QED
    BY <1>3, <1>4, <1>5
    DEF Next, Refresh, ServeCount, ServeQuery, ListArrives, RefreshFails, EndRefresh,
        LeftAllArrives, Ask, CallFails, AnswerArrives, Navigate, Show, GoToLobby,
        CloseError, vars, mvars

\* The rows are those of the users who are in a room.
LEMMA RowsOfUsers ==
    ASSUME Places
    PROVE  /\ \A row \in JoinRows :
                 /\ row = [room |-> row.room, user |-> row.user]
                 /\ row.room \in Existing /\ row.user \in Users /\ roomOf[row.user] = row.room
           /\ \A u \in Users : roomOf[u] # NoRoom => [room |-> roomOf[u], user |-> u] \in JoinRows
<1>1. ASSUME NEW row \in JoinRows
      PROVE  /\ row = [room |-> row.room, user |-> row.user]
             /\ row.room \in Existing /\ row.user \in Users /\ roomOf[row.user] = row.room
    <2> DEFINE players(r) == {u \in Users : roomOf[u] = r}
    <2>1. PICK r \in Existing :
              row \in {[room |-> r, user |-> u] : u \in IF players(r) = {} THEN {Nobody} ELSE players(r)}
        BY DEF JoinRows
    <2>2. host[r] \in players(r)
        BY DEF Existing, Places, PlacesOK
    <2>3. PICK u \in players(r) : row = [room |-> r, user |-> u]
        BY <2>1, <2>2
    <2>4. QED
        BY <2>3
<1>2. ASSUME NEW u \in Users, roomOf[u] # NoRoom
      PROVE  [room |-> roomOf[u], user |-> u] \in JoinRows
    <2>1. roomOf[u] \in Existing
        BY <1>2 DEF Places, PlacesOK, Existing
    <2>2. u \in {x \in Users : roomOf[x] = roomOf[u]}
        OBVIOUS
    <2>3. QED
        BY <2>1, <2>2 DEF JoinRows
<1>3. QED
    BY <1>1, <1>2

\* Rows that fit on a page are all on it, in their order.
LEMMA WholePage ==
    ASSUME NEW order \in Orders, NEW total \in Nat,
           Cardinality(JoinRows) <= DefaultPageSize
    PROVE  LET items == Query(order, FromRequest(NoQuery, total)) IN
           /\ Len(items) = Cardinality(JoinRows)
           /\ items = [i \in 1 .. Cardinality(JoinRows) |-> Item(order[i])]
           /\ \A i \in 1 .. Cardinality(JoinRows) : order[i] \in JoinRows
           /\ \A row \in JoinRows : \E i \in 1 .. Cardinality(JoinRows) : order[i] = row
<1> DEFINE n == Cardinality(JoinRows)
           p == FromRequest(NoQuery, total)
           rows == SubSeq(order, Offset(p) + 1,
                          IF Offset(p) + Limit(p) < Len(order) THEN Offset(p) + Limit(p)
                          ELSE Len(order))
           items == Query(order, p)
<1>1. n \in Nat
    BY JoinRowsFinite, FS_CardinalityType
<1>2. order \in [1 .. n -> JoinRows] /\ \A i, j \in 1 .. n : i # j => order[i] # order[j]
    BY DEF Orders, SetToSeqs
<1>3. \A row \in JoinRows : \E i \in 1 .. n : order[i] = row
    <2>1. order \in Injection(1 .. n, JoinRows)
        BY <1>2 DEF Injection, IsInjective
    <2>2. Cardinality(1 .. n) = n
        BY <1>1, FS_Interval, SMT
    <2>3. order \in Surjection(1 .. n, JoinRows)
        BY <2>1, <2>2, JoinRowsFinite, FS_Injection
    <2>4. QED
        BY <2>3 DEF Surjection
<1>4. Offset(p) = 0 /\ Limit(p) = DefaultPageSize
    BY FirstPage
<1>5. DefaultPageSize \in Nat
    BY PaginationAssumption
<1> HIDE DEF n, p
<1>6. order \in Seq(JoinRows) /\ Len(order) = n
    BY <1>1, <1>2
<1>7. rows = SubSeq(order, 1, n)
    BY <1>1, <1>4, <1>5, <1>6 DEF n
<1>8. DOMAIN rows = 1 .. n /\ \A i \in 1 .. n : rows[i] = order[i]
    <2> HIDE DEF rows
    <2>1. rows \in Seq(JoinRows) /\ Len(rows) = n
        BY <1>1, <1>6, <1>7
    <2>2. DOMAIN rows = 1 .. n
        BY <2>1
    <2>3. ASSUME NEW i \in 1 .. n PROVE rows[i] = order[i]
        <3>1. rows[i] = order[1 + i - 1]
            BY <1>1, <1>6, <1>7
        <3>2. 1 + i - 1 = i
            BY <1>1
        <3>3. QED
            BY <3>1, <3>2
    <2>4. QED
        BY <2>2, <2>3
<1>9. items = [i \in DOMAIN rows |-> Item(rows[i])]
    BY DEF Query
<1> HIDE DEF rows, items
<1>10. items = [i \in 1 .. n |-> Item(order[i])]
    BY <1>8, <1>9
<1>11. Len(items) = n
    BY <1>1, <1>10
<1>12. QED
    BY <1>2, <1>3, <1>10, <1>11 DEF n, p, items

\* While nobody is a guest there is one row for each room, that of its host.
LEMMA AloneRows ==
    ASSUME Places, Alone(Existing)
    PROVE  /\ Cardinality(JoinRows) = Cardinality(Existing)
           /\ Cardinality(JoinRows) <= DefaultPageSize
           /\ \A row \in JoinRows : row.user = host[row.room]
           /\ \A r \in Existing : \E row \in JoinRows : row.room = r
<1> DEFINE f == [row \in JoinRows |-> row.room]
<1>1. \A row \in JoinRows : row.user = host[row.room]
    BY RowsOfUsers, Rooms DEF Alone, Existing, Places
<1>2. \A r \in Existing : \E row \in JoinRows : row.room = r
    <2>1. SUFFICES ASSUME NEW r \in Existing PROVE \E row \in JoinRows : row.room = r
        OBVIOUS
    <2>2. host[r] \in Users /\ roomOf[host[r]] = r /\ r # NoRoom
        BY Rooms DEF Existing, Places, PlacesOK
    <2>3. [room |-> r, user |-> host[r]] \in JoinRows
        BY <2>2, RowsOfUsers
    <2>4. QED
        BY <2>3
<1>3. f \in [JoinRows -> Existing] /\ \A a, b \in JoinRows : f[a] = f[b] => a = b
    <2>1. \A row \in JoinRows : row = [room |-> row.room, user |-> host[row.room]]
                                /\ row.room \in Existing
        BY <1>1, RowsOfUsers
    <2>2. QED
        BY <2>1
<1>4. f \in Injection(JoinRows, Existing) /\ f \in Surjection(JoinRows, Existing)
    BY <1>2, <1>3 DEF Injection, IsInjective, Surjection
<1>5. ExistsBijection(JoinRows, Existing)
    BY <1>4 DEF ExistsBijection, Bijection
<1>6. Cardinality(JoinRows) = Cardinality(Existing)
    BY <1>5, JoinRowsFinite, FS_Bijection
<1>7. QED
    BY <1>1, <1>2, <1>6 DEF Alone

LEMMA ListSays ==
    ASSUME Places, NEW order \in Orders, NEW total \in Nat
    PROVE  LET items == Query(order, FromRequest(NoQuery, total)) IN
           /\ Alone(Existing) =>
                 /\ Readable(items)
                 /\ Made(items) = [id : Existing, owned : {TRUE}]
                 /\ Len(items) = Cardinality(Existing)
           /\ SomeGuest /\ Cardinality(JoinRows) <= DefaultPageSize => ~Readable(items)
<1> DEFINE items == Query(order, FromRequest(NoQuery, total))
           n == Cardinality(JoinRows)
<1>1. ASSUME Alone(Existing)
      PROVE  /\ Readable(items)
             /\ Made(items) = [id : Existing, owned : {TRUE}]
             /\ Len(items) = Cardinality(Existing)
    <2>1. /\ n = Cardinality(Existing) /\ n <= DefaultPageSize
          /\ \A row \in JoinRows : row.user = host[row.room]
          /\ \A r \in Existing : \E row \in JoinRows : row.room = r
        BY <1>1, AloneRows
    <2>2. /\ Len(items) = n /\ items = [i \in 1 .. n |-> Item(order[i])]
          /\ \A i \in 1 .. n : order[i] \in JoinRows
          /\ \A row \in JoinRows : \E i \in 1 .. n : order[i] = row
        BY <2>1, WholePage
    <2> HIDE DEF items, n
    <2>3. ASSUME NEW i \in 1 .. n
          PROVE  /\ items[i].id = order[i].room /\ items[i].id \in Existing
                 /\ items[i].players = {items[i].owner}
        BY <2>1, <2>2, JoinRowsType DEF Item
    <2>4. DOMAIN items = 1 .. n
        BY <2>2
    <2>5. Readable(items)
        BY <2>3, <2>4 DEF Readable
    <2>6. Made(items) \subseteq [id : Existing, owned : {TRUE}]
        <3>1. SUFFICES ASSUME NEW i \in 1 .. n
                       PROVE  [id |-> items[i].id, owned |-> items[i].owner \in items[i].players]
                                  \in [id : Existing, owned : {TRUE}]
            BY <2>4 DEF Made
        <3>2. (items[i].owner \in items[i].players) = TRUE
            BY <2>3
        <3>3. QED
            BY <2>3, <3>2
    <2>7. ASSUME NEW m \in [id : Existing, owned : {TRUE}] PROVE m \in Made(items)
        <3>1. m = [id |-> m.id, owned |-> TRUE] /\ m.id \in Existing
            OBVIOUS
        <3>2. PICK row \in JoinRows : row.room = m.id
            BY <2>1, <3>1
        <3>3. PICK i \in 1 .. n : order[i] = row
            BY <2>2
        <3>4. items[i].id = m.id /\ (items[i].owner \in items[i].players) = TRUE
            BY <2>3, <3>2, <3>3
        <3>5. QED
            BY <2>4, <3>1, <3>4 DEF Made
    <2>8. QED
        BY <2>1, <2>2, <2>5, <2>6, <2>7
<1>2. ASSUME SomeGuest, n <= DefaultPageSize PROVE ~Readable(items)
    <2>1. /\ items = [i \in 1 .. n |-> Item(order[i])]
          /\ \A row \in JoinRows : \E i \in 1 .. n : order[i] = row
        BY <1>2, WholePage
    <2>2. PICK u \in Users : roomOf[u] # NoRoom /\ host[roomOf[u]] # u
        BY <1>2 DEF SomeGuest
    <2>3. [room |-> roomOf[u], user |-> u] \in JoinRows
        BY <2>2, RowsOfUsers
    <2>4. PICK i \in 1 .. n : order[i] = [room |-> roomOf[u], user |-> u]
        BY <2>1, <2>3
    <2> HIDE DEF items, n
    <2>5. items[i].players = {} /\ i \in DOMAIN items
        BY <2>1, <2>2, <2>4 DEF Item
    <2>6. QED
        BY <2>5 DEF Readable
<1>3. QED
    BY <1>1, <1>2

\* While nobody is a guest the list that the server computes, in whatever
\* order its rows come and however stale the count it was paged by, reads as
\* exactly the rooms there are; one guest on the page makes it unreadable.
THEOREM ListIsAlwaysAllOrNothing == Spec => ListIsAllOrNothing
<1> DEFINE Right(q) ==
        LET items == refresh'[q].items IN
        /\ Alone(Existing) =>
              /\ Readable(items)
              /\ Made(items) = [id : Existing, owned : {TRUE}]
              /\ Len(items) = Cardinality(Existing)
        /\ SomeGuest /\ Cardinality(JoinRows) <= DefaultPageSize => ~Readable(items)
<1>1. Init => PlacesOK
    BY Rooms DEF Init, MInit, PlacesOK
<1>2. ASSUME Inv, PlacesOK, NEW q \in Refreshes, ServeQuery(q) PROVE Right(q)
    <2>1. Places /\ refresh[q].count \in Nat
        BY <1>2 DEF Inv, TypeOK, Places
    <2>2. PICK order \in Orders :
              refresh'[q].items = Query(order, FromRequest(NoQuery, refresh[q].count))
        BY <1>2 DEF ServeQuery, Inv, TypeOK
    <2>3. QED
        BY <2>1, <2>2, ListSays
<1>3. Inv /\ PlacesOK /\ [Next]_vars => [\A q \in Refreshes : ServeQuery(q) => Right(q)]_vars
    BY <1>2
<1>4. QED
    BY <1>1, <1>3, InitInv, NextInv, PlacesNext, PTL DEF Spec, ListIsAllOrNothing
=============================================================================
