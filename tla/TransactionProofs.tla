------------------------- MODULE TransactionProofs -------------------------
(***************************************************************************)
(* Proofs about the transactions of the repository, for any users, rooms   *)
(* and number of open transactions.                                        *)
(*                                                                         *)
(* The invariant (Inv) says of each open transaction what it has written   *)
(* so far and that the rows it holds are still those it found; it is kept  *)
(* because no two transactions hold the same row.  At a commit the written *)
(* rows then are those of the one operation of RoomRepository, and the     *)
(* checks of the deferred keys are the conditions of that operation.       *)
(***************************************************************************)
EXTENDS RoomTransactions, TLAPS

\* The assumptions of the modules, together.
LEMMA Sentinels ==
    /\ Nobody \notin Users
    /\ NoRow \notin RoomRows /\ NoRow \notin PlayerRows
    /\ NoRoom \notin RoomIds
    /\ RoomIds \cap Users = {}
    /\ EmptyState \in PlayerStates
BY SentinelAssumption, DataAssumption, TransactionAssumption

-----------------------------------------------------------------------------
(* The invariant: no two transactions hold a lock on one row; the tables   *)
(* keep their references; and what a transaction has written, and is still *)
(* its own, is what its method makes of the rows as they are.              *)

CreatedRoom(u) == [owner |-> u, turn |-> Nobody, frozen |-> FALSE,
                   state |-> EmptyRoomState, updated |-> clock]

AddedPlayer(r) == [room |-> r, state |-> EmptyState]

\* Transaction t has locked row x only if one of its statements was at it.
OnlyTouched(t, r, fromRoom, u, fromUser) ==
    \A x \in Rows : Touched(t, x) =>
        (x = r /\ tx[t].pc >= fromRoom) \/ (x = u /\ tx[t].pc >= fromUser)

\* A stamp leaves the row as it is, since the clock stands still.
StampOK(t, r) ==
    Touched(t, r) => Exists(r) /\ new[t][r] = room[r] /\ held[t][r] = "NoKeyUpdate"

NoneOK(t) == \A x \in Rows : ~Touched(t, x)

CreateOK(t, r, u) ==
    /\ OnlyTouched(t, r, 2, u, 3)
    /\ tx[t].pc >= 2 => /\ Touched(t, r) /\ ~Exists(r)
                        /\ new[t][r] = CreatedRoom(u)
    /\ tx[t].pc = 3 => /\ Touched(t, u) /\ ~Placed(u)
                       /\ new[t][u] = AddedPlayer(r)

AddPlayerOK(t, r, u) ==
    /\ OnlyTouched(t, r, 3, u, 2)
    /\ tx[t].pc >= 2 => /\ Touched(t, u) /\ ~Placed(u)
                        /\ new[t][u] = AddedPlayer(r)
    /\ StampOK(t, r)

RemovePlayerOK(t, r, u) ==
    /\ OnlyTouched(t, r, 3, u, 2)
    /\ Touched(t, u) => new[t][u] = NoRow
    /\ StampOK(t, r)

SetPlayerStateOK(t, r, u) ==
    /\ OnlyTouched(t, r, 3, u, 2)
    /\ Touched(t, u) => /\ InRoom(u, r)
                        /\ new[t][u] = [player[u] EXCEPT !.state = tx[t].state]
    /\ StampOK(t, r)

UpdateOK(t, r) ==
    /\ \A x \in Rows : Touched(t, x) => x = r /\ tx[t].pc = 2
    /\ Touched(t, r) => /\ Exists(r)
                        /\ new[t][r] = [tx[t].row EXCEPT !.updated = clock]

DeleteOK(t, r) ==
    /\ \A x \in Rows : Touched(t, x) =>
          /\ tx[t].pc >= 2
          /\ new[t][x] = NoRow
          /\ x = r \/ (x \in Users /\ Touched(t, r) /\ InRoom(x, r))
    /\ Touched(t, r) => Exists(r) /\ held[t][r] = "Update"
    /\ tx[t].pc = 3 /\ Touched(t, r) =>
          \A u \in Users : InRoom(u, r) => Touched(t, u)

WrittenOK(t) ==
    LET r == tx[t].id  u == tx[t].user IN
    /\ tx[t].op = "None" => NoneOK(t)
    /\ tx[t].op = "Create" => CreateOK(t, r, u)
    /\ tx[t].op = "AddPlayer" => AddPlayerOK(t, r, u)
    /\ tx[t].op = "RemovePlayer" => RemovePlayerOK(t, r, u)
    /\ tx[t].op = "SetPlayerState" => SetPlayerStateOK(t, r, u)
    /\ tx[t].op = "Update" => UpdateOK(t, r)
    /\ tx[t].op = "Delete" => DeleteOK(t, r)

Exclusive ==
    \A t, o \in Txs, x \in Rows : Touched(t, x) /\ Touched(o, x) => t = o

ReferencesOK ==
    \A r \in RoomIds : Exists(r) =>
        /\ Placed(room[r].owner)
        /\ room[r].turn # Nobody => Placed(room[r].turn)

StampsOK == \A r \in RoomIds : Exists(r) => room[r].updated = clock

TablesOK == ReferencesOK /\ StampsOK

Inv ==
    /\ TypeOK
    /\ Exclusive
    /\ TablesOK
    /\ \A t \in Txs : WrittenOK(t)

-----------------------------------------------------------------------------
(* Where a transaction is, and which locks it wants.                       *)

Orderlies == {"Create", "AddPlayer", "RemovePlayer", "SetPlayerState"}

\* The arguments of each method.
LEMMA Arguments ==
    ASSUME NEW x \in TxRecords
    PROVE  /\ x.op \in Orderlies \cup {"None", "Update", "Delete"}
           /\ x.pc \in 1..3
           /\ x.op = "None" => x = NoTx
           /\ x.op # "None" => x.id \in RoomIds
           /\ x.op \in Orderlies => x.user \in Users /\ x.state \in PlayerStates
           /\ x.op = "Update" => x.row \in RoomRows /\ x.pc \in 1..2
BY DEF TxRecords, NoTx, Orderlies

LEMMA ArgumentsOf ==
    ASSUME TypeOK, NEW t \in Txs
    PROVE  /\ tx[t] \in TxRecords
           /\ tx[t].op \in Orderlies \cup {"None", "Update", "Delete"}
           /\ tx[t].pc \in 1..3
           /\ tx[t].op = "None" => tx[t] = NoTx
           /\ tx[t].op # "None" => tx[t].id \in RoomIds
           /\ tx[t].op \in Orderlies => tx[t].user \in Users /\ tx[t].state \in PlayerStates
           /\ tx[t].op = "Update" => tx[t].row \in RoomRows /\ tx[t].pc \in 1..2
<1>1. tx[t] \in TxRecords
    BY DEF TypeOK
<1>2. QED
    BY <1>1, Arguments

LEMMA StatementIs ==
    ASSUME TypeOK, NEW t \in Txs
    PROVE  /\ At(t, "Idle") <=> tx[t].op = "None"
           /\ At(t, "InsertRoom") <=> tx[t].op = "Create" /\ tx[t].pc = 1
           /\ At(t, "InsertPlayer") <=> \/ tx[t].op = "Create" /\ tx[t].pc = 2
                                        \/ tx[t].op = "AddPlayer" /\ tx[t].pc = 1
           /\ At(t, "DeletePlayer") <=> tx[t].op = "RemovePlayer" /\ tx[t].pc = 1
           /\ At(t, "UpdatePlayer") <=> tx[t].op = "SetPlayerState" /\ tx[t].pc = 1
           /\ At(t, "UpdateRoom") <=> tx[t].op = "Update" /\ tx[t].pc = 1
           /\ At(t, "DeleteRoom") <=> tx[t].op = "Delete" /\ tx[t].pc = 1
           /\ At(t, "Cascade") <=> tx[t].op = "Delete" /\ tx[t].pc = 2
           /\ At(t, "Stamp") <=> /\ tx[t].op \in {"AddPlayer", "RemovePlayer", "SetPlayerState"}
                                 /\ tx[t].pc = 2
           /\ At(t, "Commit") <=> \/ tx[t].op = "Update" /\ tx[t].pc = 2
                                  \/ tx[t].op \in Orderlies \cup {"Delete"} /\ tx[t].pc = 3
           /\ Statement(t) \in {"Idle", "InsertRoom", "InsertPlayer", "DeletePlayer",
                                "UpdatePlayer", "UpdateRoom", "DeleteRoom", "Cascade",
                                "Stamp", "Commit"}
<1> DEFINE o == tx[t].op
           n == tx[t].pc
<1>1. o \in Orderlies \cup {"None", "Update", "Delete"} /\ n \in 1..3
      /\ (o = "Update" => n \in 1..2) /\ (o = "None" => n = 1)
    BY ArgumentsOf DEF NoTx
<1>2. Statement(t) = Statements[o][n]
    BY DEF Statement
<1>3. n = 1 \/ n = 2 \/ n = 3
    BY <1>1
<1>4. CASE o = "None"
    BY <1>1, <1>2, <1>4 DEF Statements, At, Orderlies
<1>5. CASE o = "Create"
    BY <1>2, <1>3, <1>5 DEF Statements, At, Orderlies
<1>6. CASE o = "AddPlayer"
    BY <1>2, <1>3, <1>6 DEF Statements, At, Orderlies
<1>7. CASE o = "RemovePlayer"
    BY <1>2, <1>3, <1>7 DEF Statements, At, Orderlies
<1>8. CASE o = "SetPlayerState"
    BY <1>2, <1>3, <1>8 DEF Statements, At, Orderlies
<1>9. CASE o = "Update"
    <2>1. n = 1 \/ n = 2
        BY <1>1, <1>9
    <2>2. QED
        BY <1>2, <2>1, <1>9 DEF Statements, At, Orderlies
<1>10. CASE o = "Delete"
    BY <1>2, <1>3, <1>10 DEF Statements, At, Orderlies
<1>11. QED
    BY <1>1, <1>4, <1>5, <1>6, <1>7, <1>8, <1>9, <1>10 DEF Orderlies

\* Locks that change a row exclude each other; the check of a foreign key
\* excludes a lock that takes the row away.
LEMMA ConflictsOfLocks ==
    /\ \A m, n \in {"Update", "NoKeyUpdate"} : Conflicts(m, n)
    /\ \A n \in {"None", "Update", "NoKeyUpdate", "KeyShare"} : ~Conflicts("None", n)
    /\ Conflicts("Update", "KeyShare")
    /\ ~Conflicts("NoKeyUpdate", "KeyShare")
BY DEF Conflicts

LEMMA Locks ==
    ASSUME NEW t,
           Statement(t) \in {"InsertRoom", "InsertPlayer", "DeletePlayer", "UpdatePlayer",
                             "UpdateRoom", "DeleteRoom", "Cascade", "Stamp"}
    PROVE  /\ LockMode[Statement(t)] \in {"Update", "NoKeyUpdate"}
           /\ Statement(t) = "Stamp" => LockMode[Statement(t)] = "NoKeyUpdate"
           /\ Statement(t) = "DeleteRoom" => LockMode[Statement(t)] = "Update"
BY DEF LockMode

\* A row that no other transaction blocks is one that no other has touched.
LEMMA Free ==
    ASSUME TypeOK, NEW t \in Txs, NEW x \in Rows, HeldByOthers(t, x) = {},
           LockMode[Statement(t)] \in {"Update", "NoKeyUpdate"}
    PROVE  \A o \in Txs \ {t} : ~Touched(o, x)
<1> SUFFICES ASSUME NEW o \in Txs \ {t}, Touched(o, x) PROVE FALSE
    OBVIOUS
<1>1. held[o][x] \in {"Update", "NoKeyUpdate"}
    BY DEF TypeOK, Touched
<1>2. Conflicts(held[o][x], LockMode[Statement(t)])
    BY <1>1, ConflictsOfLocks
<1>3. QED
    BY <1>2 DEF HeldByOthers

-----------------------------------------------------------------------------
(* Steps that leave the tables alone.                                      *)

\* What others have written is what they wrote, if t changes neither it nor
\* the tables.
LEMMA OthersOK ==
    ASSUME Inv, NEW t \in Txs, UNCHANGED <<room, player, clock>>,
           NEW o \in Txs, tx'[o] = tx[o], held'[o] = held[o], new'[o] = new[o]
    PROVE  WrittenOK(o)'
<1>1. WrittenOK(o)
    BY DEF Inv
<1>2. QED
    BY <1>1 DEF WrittenOK, NoneOK, CreateOK, AddPlayerOK, RemovePlayerOK, SetPlayerStateOK,
                UpdateOK, DeleteOK, OnlyTouched, StampOK, Touched, Exists, Placed, InRoom,
                CreatedRoom, AddedPlayer, EmptyRoomState

\* The tables keep their references as long as nothing is committed.
LEMMA SameTables ==
    ASSUME TablesOK, UNCHANGED <<room, player, clock>>
    PROVE  TablesOK'
BY DEF TablesOK, ReferencesOK, StampsOK, Exists, Placed

\* t goes on, and has not touched anything.
LEMMA ProceedInv ==
    ASSUME Inv, NEW t \in Txs, UNCHANGED <<room, player, clock, held, new>>,
           NEW n, tx' = [tx EXCEPT ![t] = n], n \in TxRecords, WrittenOK(t)'
    PROVE  Inv'
<1>1. TypeOK'
    BY DEF Inv, TypeOK
<1>2. Exclusive'
    BY DEF Inv, Exclusive, Touched
<1>3. TablesOK'
    BY SameTables DEF Inv
<1>4. ASSUME NEW o \in Txs PROVE WrittenOK(o)'
    <2>1. CASE o = t
        BY <2>1
    <2>2. CASE o # t
        <3>1. tx'[o] = tx[o]
            BY <2>2 DEF Inv, TypeOK
        <3>2. QED
            BY <3>1, OthersOK
    <2>3. QED
        BY <2>1, <2>2
<1>5. QED
    BY <1>1, <1>2, <1>3, <1>4 DEF Inv

\* t locks a row that nobody has touched, and writes it.
LEMMA WriteInv ==
    ASSUME Inv, NEW t \in Txs, NEW x \in Rows, NEW row, Write(t, x, row),
           \A o \in Txs \ {t} : ~Touched(o, x),
           LockMode[Statement(t)] \in {"Update", "NoKeyUpdate"},
           x \in RoomIds => row \in RoomRows \cup {NoRow},
           x \in Users => row \in PlayerRows \cup {NoRow},
           NEW n, tx' = [tx EXCEPT ![t] = n], n \in TxRecords, WrittenOK(t)'
    PROVE  Inv'
<1>1. /\ held' = [held EXCEPT ![t][x] = LockMode[Statement(t)]]
      /\ new' = [new EXCEPT ![t][x] = row]
      /\ UNCHANGED <<room, player, clock>>
    BY DEF Write
<1> HIDE DEF Write
<1> DEFINE mode == LockMode[Statement(t)]
<1> HIDE DEF mode
<1>2. held' = [held EXCEPT ![t][x] = mode] /\ mode \in {"Update", "NoKeyUpdate"}
    BY <1>1 DEF mode
<1>3. TypeOK
    BY DEF Inv
<1>4. row \in RoomRows \cup PlayerRows \cup {NoRow}
    BY DEF Rows
<1>5. new' \in [Txs -> [Rows -> RoomRows \cup PlayerRows \cup {NoRow}]]
    BY <1>1, <1>3, <1>4 DEF TypeOK
<1>6. held' \in [Txs -> [Rows -> {"None", "NoKeyUpdate", "Update"}]]
    BY <1>2, <1>3 DEF TypeOK
<1>7. ASSUME NEW o \in Txs
      PROVE  /\ \A r \in RoomIds : new'[o][r] \in RoomRows \cup {NoRow}
             /\ \A u \in Users : new'[o][u] \in PlayerRows \cup {NoRow}
    BY <1>1, <1>3 DEF TypeOK, Rows
<1>8. TypeOK'
    BY <1>1, <1>3, <1>5, <1>6, <1>7 DEF TypeOK
<1>9. ASSUME NEW o \in Txs, NEW y \in Rows, o # t \/ y # x
      PROVE  Touched(o, y)' <=> Touched(o, y)
    BY <1>2, <1>3, <1>9 DEF TypeOK, Touched
<1>10. Exclusive'
    <2> SUFFICES ASSUME NEW a \in Txs, NEW o \in Txs, NEW y \in Rows,
                        Touched(a, y)', Touched(o, y)'
                 PROVE  a = o
        BY DEF Exclusive
    <2>1. CASE y = x
        BY <2>1, <1>9
    <2>2. CASE y # x
        BY <2>2, <1>9 DEF Inv, Exclusive
    <2>3. QED
        BY <2>1, <2>2
<1>11. TablesOK'
    BY <1>1, SameTables DEF Inv
<1>12. ASSUME NEW o \in Txs PROVE WrittenOK(o)'
    <2>1. CASE o = t
        BY <2>1
    <2>2. CASE o # t
        <3>1. tx'[o] = tx[o] /\ held'[o] = held[o] /\ new'[o] = new[o]
            BY <1>1, <1>2, <1>3, <2>2 DEF TypeOK
        <3>2. QED
            BY <1>1, <3>1, OthersOK
    <2>3. QED
        BY <2>1, <2>2
<1>13. QED
    BY <1>8, <1>10, <1>11, <1>12 DEF Inv

\* A transaction that is over holds nothing.
LEMMA OverOK ==
    ASSUME NEW t \in Txs, tx'[t] = NoTx, held'[t] = NoLocks
    PROVE  WrittenOK(t)'
BY DEF WrittenOK, NoneOK, NoTx, NoLocks, Touched

\* What the end of t does to locks.
LEMMA EndTypes ==
    ASSUME TypeOK, Exclusive, NEW t \in Txs, End(t)
    PROVE  /\ tx' \in [Txs -> TxRecords]
           /\ held' \in [Txs -> [Rows -> {"None", "NoKeyUpdate", "Update"}]]
           /\ new' \in [Txs -> [Rows -> RoomRows \cup PlayerRows \cup {NoRow}]]
           /\ \A o \in Txs : /\ \A r \in RoomIds : new'[o][r] \in RoomRows \cup {NoRow}
                             /\ \A u \in Users : new'[o][u] \in PlayerRows \cup {NoRow}
           /\ tx'[t] = NoTx /\ held'[t] = NoLocks
           /\ \A o \in Txs \ {t} : tx'[o] = tx[o] /\ held'[o] = held[o] /\ new'[o] = new[o]
           /\ Exclusive'
<1>1. NoTx \in TxRecords
    BY DEF TxRecords
<1>2. NoLocks \in [Rows -> {"None", "NoKeyUpdate", "Update"}]
    BY DEF NoLocks
<1>3. /\ NoWrites \in [Rows -> RoomRows \cup PlayerRows \cup {NoRow}]
      /\ \A r \in RoomIds : NoWrites[r] \in RoomRows \cup {NoRow}
      /\ \A u \in Users : NoWrites[u] \in PlayerRows \cup {NoRow}
    BY DEF NoWrites, Rows
<1>4. tx' = [tx EXCEPT ![t] = NoTx] /\ held' = [held EXCEPT ![t] = NoLocks]
      /\ new' = [new EXCEPT ![t] = NoWrites]
    BY DEF End
<1>5. /\ tx' \in [Txs -> TxRecords]
      /\ held' \in [Txs -> [Rows -> {"None", "NoKeyUpdate", "Update"}]]
      /\ new' \in [Txs -> [Rows -> RoomRows \cup PlayerRows \cup {NoRow}]]
    BY <1>1, <1>2, <1>3, <1>4 DEF TypeOK
<1>6. \A o \in Txs \ {t} : tx'[o] = tx[o] /\ held'[o] = held[o] /\ new'[o] = new[o]
    BY <1>4 DEF TypeOK
<1>7. tx'[t] = NoTx /\ held'[t] = NoLocks /\ new'[t] = NoWrites
    BY <1>4 DEF TypeOK
<1>8. \A o \in Txs : /\ \A r \in RoomIds : new'[o][r] \in RoomRows \cup {NoRow}
                     /\ \A u \in Users : new'[o][u] \in PlayerRows \cup {NoRow}
    BY <1>3, <1>6, <1>7 DEF TypeOK
<1>9. \A x \in Rows : ~Touched(t, x)'
    BY <1>7 DEF Touched, NoLocks
<1>10. \A o \in Txs \ {t}, x \in Rows : Touched(o, x)' <=> Touched(o, x)
    BY <1>6 DEF Touched
<1>11. Exclusive'
    BY <1>9, <1>10 DEF Exclusive
<1>12. QED
    BY <1>5, <1>6, <1>7, <1>8, <1>11

LEMMA AbortInv ==
    ASSUME Inv, NEW t \in Txs, Abort(t)
    PROVE  Inv'
<1>1. TypeOK /\ Exclusive /\ TablesOK
    BY DEF Inv
<1>2. End(t) /\ UNCHANGED <<room, player, clock>>
    BY DEF Abort
<1>3. TypeOK'
    BY <1>1, <1>2, EndTypes DEF TypeOK
<1>4. \A o \in Txs : WrittenOK(o)'
    BY <1>1, <1>2, EndTypes, OverOK, OthersOK
<1>5. QED
    BY <1>1, <1>2, <1>3, <1>4, EndTypes, SameTables DEF Inv

-----------------------------------------------------------------------------
(* The statements.                                                         *)

\* A method starts with anything but locks.
LEMMA BeginInv ==
    ASSUME Inv, NEW t \in Txs, NEW op, NEW r, NEW u, NEW row, NEW s,
           [op |-> op, pc |-> 1, id |-> r, user |-> u, row |-> row, state |-> s] \in TxRecords,
           op \in Orderlies \cup {"Update", "Delete"},
           Begin(t, op, r, u, row, s)
    PROVE  Inv'
<1> DEFINE n == [op |-> op, pc |-> 1, id |-> r, user |-> u, row |-> row, state |-> s]
<1>1. tx' = [tx EXCEPT ![t] = n] /\ UNCHANGED <<room, player, clock, held, new>>
    BY DEF Begin
<1>2. tx[t].op = "None"
    BY StatementIs DEF Begin, Inv
<1>3. NoneOK(t)
    BY <1>2 DEF Inv, WrittenOK
<1>4. tx'[t] = n
    BY <1>1 DEF Inv, TypeOK
<1>5. \A x \in Rows : ~Touched(t, x)'
    BY <1>1, <1>3 DEF NoneOK, Touched
<1>6. tx'[t].op = op /\ tx'[t].pc = 1
    BY <1>4
<1>7. OnlyTouched(t, r, 2, u, 3)' /\ OnlyTouched(t, r, 3, u, 2)'
    BY <1>5 DEF OnlyTouched
<1>8. tx'[t].id = r /\ tx'[t].user = u
    BY <1>4
<1>9. r \in RoomIds /\ (op \in Orderlies => u \in Users)
    <2>1. tx'[t] \in TxRecords
        BY <1>4
    <2>2. QED
        BY <2>1, <1>6, <1>8, Arguments DEF Orderlies
<1>11. (r \in RoomIds => ~Touched(t, r)') /\ (u \in Users => ~Touched(t, u)')
    BY <1>5 DEF Rows
<1>12. WrittenOK(t)'
    BY <1>5, <1>6, <1>7, <1>8, <1>9, <1>11
       DEF WrittenOK, CreateOK, AddPlayerOK, RemovePlayerOK, SetPlayerStateOK,
           UpdateOK, DeleteOK, StampOK, Orderlies
<1>13. QED
    BY <1>1, <1>12, ProceedInv

LEMMA StartInv ==
    ASSUME Inv, NEW t \in Txs, Start(t)
    PROVE  Inv'
<1>1. ASSUME NEW r \in RoomIds, NEW u \in Users, NEW op \in Orderlies, NEW s \in PlayerStates,
             Begin(t, op, r, u, NoRow, s)
      PROVE  Inv'
    <2>1. [op |-> op, pc |-> 1, id |-> r, user |-> u, row |-> NoRow, state |-> s] \in TxRecords
        BY DEF TxRecords, Orderlies
    <2>2. QED
        BY <1>1, <2>1, BeginInv
<1>2. ASSUME NEW r \in RoomIds, NEW u \in Users,
             \/ BeginCreate(t, r, u) \/ BeginAddPlayer(t, r, u) \/ BeginRemovePlayer(t, r, u)
             \/ \E s \in PlayerStates : BeginSetPlayerState(t, r, u, s)
      PROVE  Inv'
    BY <1>1, <1>2, Sentinels
       DEF BeginCreate, BeginAddPlayer, BeginRemovePlayer, BeginSetPlayerState, Orderlies
<1>3. ASSUME NEW r \in RoomIds, NEW u \in Users, NEW frozen \in BOOLEAN,
             BeginUpdate(t, r, u, frozen)
      PROVE  Inv'
    <2> DEFINE row == [room[r] EXCEPT !.turn = u, !.frozen = frozen \/ @]
    <2>1. room[r] \in RoomRows
        BY <1>3 DEF Inv, TypeOK, BeginUpdate, Exists
    <2>2. room[r].frozen \in BOOLEAN
        BY <2>1 DEF RoomRows
    <2>3. (frozen \/ room[r].frozen) \in BOOLEAN
        BY Zenon
    <2>4. row \in RoomRows
        BY <2>1, <2>3 DEF RoomRows
    <2>5. [op |-> "Update", pc |-> 1, id |-> r, user |-> Nobody, row |-> row,
           state |-> EmptyState] \in TxRecords
        BY <2>4 DEF TxRecords
    <2>6. QED
        BY <1>3, <2>5, BeginInv DEF BeginUpdate
<1>4. ASSUME NEW r \in RoomIds, BeginDelete(t, r) PROVE Inv'
    <2>1. [op |-> "Delete", pc |-> 1, id |-> r, user |-> Nobody, row |-> NoRow,
           state |-> EmptyState] \in TxRecords
        BY DEF TxRecords
    <2>2. QED
        BY <1>4, <2>1, BeginInv DEF BeginDelete
<1>5. QED
    BY <1>2, <1>3, <1>4 DEF Start

\* The next statement of a method.
LEMMA Next1 ==
    ASSUME TypeOK, NEW t \in Txs, Proceed(t),
           \/ tx[t].op \in Orderlies \cup {"Delete"} /\ tx[t].pc \in 1..2
           \/ tx[t].op = "Update" /\ tx[t].pc = 1
    PROVE  \E n \in TxRecords :
              /\ tx' = [tx EXCEPT ![t] = n] /\ tx'[t] = n
              /\ n.op = tx[t].op /\ n.id = tx[t].id /\ n.user = tx[t].user
              /\ n.row = tx[t].row /\ n.state = tx[t].state /\ n.pc = tx[t].pc + 1
<1> DEFINE n == [tx[t] EXCEPT !.pc = @ + 1]
<1>1. tx[t] \in TxRecords
    BY DEF TypeOK
<1>2. tx' = [tx EXCEPT ![t] = n] /\ tx'[t] = n
    BY DEF Proceed, TypeOK
<1>3. n \in TxRecords
    BY <1>1 DEF TxRecords, NoTx, Orderlies
<1>4. n.op = tx[t].op /\ n.id = tx[t].id /\ n.user = tx[t].user
      /\ n.row = tx[t].row /\ n.state = tx[t].state /\ n.pc = tx[t].pc + 1
    BY <1>1 DEF TxRecords, NoTx
<1>5. QED
    BY <1>2, <1>3, <1>4

\* A row that the next statement locks is free when the statement is reached.
LEMMA ReachedFree ==
    ASSUME TypeOK, NEW t \in Txs, NEW x \in Rows, x \in Addressed(t), Blockers(t) = {},
           Statement(t) \in {"InsertRoom", "InsertPlayer", "DeletePlayer", "UpdatePlayer",
                             "UpdateRoom", "DeleteRoom", "Cascade", "Stamp"}
    PROVE  /\ \A o \in Txs \ {t} : ~Touched(o, x)
           /\ LockMode[Statement(t)] \in {"Update", "NoKeyUpdate"}
<1>1. HeldByOthers(t, x) = {}
    BY DEF Blockers
<1>2. QED
    BY <1>1, Locks, Free

\* What t has touched after it has written x.
LEMMA TouchedAfter ==
    ASSUME TypeOK, NEW t \in Txs, NEW x \in Rows, NEW row, Write(t, x, row),
           LockMode[Statement(t)] \in {"Update", "NoKeyUpdate"}
    PROVE  /\ \A y \in Rows : Touched(t, y)' <=> (y = x \/ Touched(t, y))
           /\ held'[t][x] = LockMode[Statement(t)] /\ new'[t][x] = row
           /\ \A y \in Rows : y # x => held'[t][y] = held[t][y] /\ new'[t][y] = new[t][y]
           /\ UNCHANGED <<room, player, clock>>
<1> DEFINE mode == LockMode[Statement(t)]
<1> HIDE DEF mode
<1>1. held' = [held EXCEPT ![t][x] = mode] /\ mode \in {"Update", "NoKeyUpdate"}
      /\ new' = [new EXCEPT ![t][x] = row] /\ UNCHANGED <<room, player, clock>>
    BY DEF Write, mode
<1>2. held'[t][x] = mode /\ new'[t][x] = row
    BY <1>1 DEF TypeOK
<1>3. \A y \in Rows : y # x => held'[t][y] = held[t][y] /\ new'[t][y] = new[t][y]
    BY <1>1 DEF TypeOK
<1>4. \A y \in Rows : Touched(t, y)' <=> (y = x \/ Touched(t, y))
    BY <1>1, <1>2, <1>3 DEF Touched
<1>5. QED
    BY <1>1, <1>2, <1>3, <1>4 DEF mode

LEMMA InsertRoomInv ==
    ASSUME Inv, NEW t \in Txs, InsertRoom(t)
    PROVE  Inv'
<1>1. TypeOK /\ WrittenOK(t) /\ At(t, "InsertRoom") /\ Blockers(t) = {}
    BY DEF Inv, InsertRoom, Reached
<1>2. tx[t].op = "Create" /\ tx[t].pc = 1
    BY <1>1, StatementIs
<1>3. PICK r \in RoomIds, u \in Users : r = tx[t].id /\ u = tx[t].user
    BY <1>1, <1>2, ArgumentsOf DEF Orderlies
<1>4. CASE Exists(r)
    BY <1>3, <1>4, AbortInv DEF InsertRoom
<1>5. CASE ~Exists(r)
    <2>1. Write(t, r, CreatedRoom(u)) /\ Proceed(t)
        BY <1>3, <1>5 DEF InsertRoom, CreatedRoom
    <2>2. r \in Addressed(t) /\ r \in Rows /\ r # u /\ u \in Rows
        BY <1>1, <1>3, Sentinels DEF Addressed, Rows
    <2>3. /\ \A o \in Txs \ {t} : ~Touched(o, r)
          /\ LockMode[Statement(t)] \in {"Update", "NoKeyUpdate"}
        BY <1>1, <2>2, ReachedFree DEF At
    <2>4. PICK n \in TxRecords :
              /\ tx' = [tx EXCEPT ![t] = n] /\ tx'[t] = n /\ n.op = "Create"
              /\ n.id = r /\ n.user = u /\ n.pc = 2
        BY <1>1, <1>2, <1>3, <2>1, Next1 DEF Orderlies
    <2>5. CreatedRoom(u) \in RoomRows
        BY <1>1 DEF CreatedRoom, RoomRows, EmptyRoomState, RoomStates, TypeOK
    <2>6. \A x \in Rows : Touched(t, x)' <=> x = r
        BY <1>1, <1>2, <1>3, <2>1, <2>2, <2>3, TouchedAfter DEF WrittenOK, CreateOK, OnlyTouched
    <2>7. new'[t][r] = CreatedRoom(u) /\ UNCHANGED <<room, player, clock>>
        BY <1>1, <2>1, <2>2, <2>3, TouchedAfter
    <2>8. CreatedRoom(u)' = CreatedRoom(u)
        BY <2>7 DEF CreatedRoom, EmptyRoomState
    <2>9. CreateOK(t, r, u)'
        BY <1>5, <2>2, <2>4, <2>6, <2>7, <2>8 DEF CreateOK, OnlyTouched, Exists
    <2>10. WrittenOK(t)'
        BY <2>4, <2>9 DEF WrittenOK
    <2>11. QED
        BY <2>1, <2>2, <2>3, <2>4, <2>5, <2>10, Sentinels, WriteInv
<1>6. QED
    BY <1>4, <1>5

LEMMA InsertPlayerInv ==
    ASSUME Inv, NEW t \in Txs, InsertPlayer(t)
    PROVE  Inv'
<1>1. TypeOK /\ WrittenOK(t) /\ At(t, "InsertPlayer") /\ Blockers(t) = {}
    BY DEF Inv, InsertPlayer, Reached
<1>2. (tx[t].op = "Create" /\ tx[t].pc = 2) \/ (tx[t].op = "AddPlayer" /\ tx[t].pc = 1)
    BY <1>1, StatementIs
<1>3. PICK r \in RoomIds, u \in Users : r = tx[t].id /\ u = tx[t].user
    BY <1>1, <1>2, ArgumentsOf DEF Orderlies
<1>4. CASE Placed(u)
    BY <1>3, <1>4, AbortInv DEF InsertPlayer
<1>5. CASE ~Placed(u)
    <2>1. Write(t, u, AddedPlayer(r)) /\ Proceed(t)
        BY <1>3, <1>5 DEF InsertPlayer, AddedPlayer
    <2>2. u \in Addressed(t) /\ u \in Rows /\ r # u /\ r \in Rows
        BY <1>1, <1>3, Sentinels DEF Addressed, Rows
    <2>3. /\ \A o \in Txs \ {t} : ~Touched(o, u)
          /\ LockMode[Statement(t)] \in {"Update", "NoKeyUpdate"}
        BY <1>1, <2>2, ReachedFree DEF At
    <2>4. PICK n \in TxRecords :
              /\ tx' = [tx EXCEPT ![t] = n] /\ tx'[t] = n /\ n.op = tx[t].op
              /\ n.id = r /\ n.user = u /\ n.pc = tx[t].pc + 1
        BY <1>1, <1>2, <1>3, <2>1, Next1 DEF Orderlies
    <2>5. AddedPlayer(r) \in PlayerRows
        BY Sentinels DEF AddedPlayer, PlayerRows
    <2>6. /\ \A x \in Rows : Touched(t, x)' <=> (x = u \/ Touched(t, x))
          /\ new'[t][u] = AddedPlayer(r) /\ new'[t][r] = new[t][r]
          /\ UNCHANGED <<room, player, clock>>
        BY <1>1, <2>1, <2>2, <2>3, TouchedAfter
    <2>7. AddedPlayer(r)' = AddedPlayer(r) /\ CreatedRoom(u)' = CreatedRoom(u)
        BY <2>6 DEF AddedPlayer, CreatedRoom, EmptyRoomState
    <2>8. ASSUME tx[t].op = "Create" PROVE WrittenOK(t)'
        <3>1. CreateOK(t, r, u) /\ tx[t].pc = 2 /\ n.pc = 3
            BY <1>1, <1>2, <1>3, <2>4, <2>8 DEF WrittenOK
        <3>2. CreateOK(t, r, u)'
            BY <1>5, <2>2, <2>4, <2>6, <2>7, <3>1 DEF CreateOK, OnlyTouched, Exists, Placed
        <3>3. QED
            BY <2>4, <2>8, <3>2 DEF WrittenOK
    <2>9. ASSUME tx[t].op = "AddPlayer" PROVE WrittenOK(t)'
        <3>1. AddPlayerOK(t, r, u) /\ tx[t].pc = 1 /\ n.pc = 2
            BY <1>1, <1>2, <1>3, <2>4, <2>9 DEF WrittenOK
        <3>2. ~Touched(t, r)'
            BY <2>2, <2>6, <3>1 DEF AddPlayerOK, OnlyTouched
        <3>3. AddPlayerOK(t, r, u)'
            BY <1>5, <2>2, <2>4, <2>6, <2>7, <3>1, <3>2
               DEF AddPlayerOK, OnlyTouched, StampOK, Placed
        <3>4. QED
            BY <2>4, <2>9, <3>3 DEF WrittenOK
    <2>10. QED
        BY <1>2, <2>1, <2>2, <2>3, <2>4, <2>5, <2>8, <2>9, Sentinels, WriteInv
<1>6. QED
    BY <1>4, <1>5

LEMMA DeletePlayerInv ==
    ASSUME Inv, NEW t \in Txs, DeletePlayer(t)
    PROVE  Inv'
<1>1. TypeOK /\ WrittenOK(t) /\ At(t, "DeletePlayer") /\ Blockers(t) = {} /\ Proceed(t)
    BY DEF Inv, DeletePlayer, Reached
<1>2. tx[t].op = "RemovePlayer" /\ tx[t].pc = 1
    BY <1>1, StatementIs
<1>3. PICK r \in RoomIds, u \in Users : r = tx[t].id /\ u = tx[t].user
    BY <1>1, <1>2, ArgumentsOf DEF Orderlies
<1>4. PICK n \in TxRecords :
          /\ tx' = [tx EXCEPT ![t] = n] /\ tx'[t] = n /\ n.op = "RemovePlayer"
          /\ n.id = r /\ n.user = u /\ n.pc = 2
    BY <1>1, <1>2, <1>3, Next1 DEF Orderlies
<1>5. u \in Rows /\ r \in Rows /\ r # u
    BY Sentinels DEF Rows
<1>6. \A x \in Rows : ~Touched(t, x)
    BY <1>1, <1>2, <1>3 DEF WrittenOK, RemovePlayerOK, OnlyTouched
<1>7. CASE Placed(u)
    <2>1. Write(t, u, NoRow)
        BY <1>3, <1>7 DEF DeletePlayer
    <2>2. u \in Addressed(t)
        BY <1>1, <1>3, <1>7 DEF Addressed
    <2>3. /\ \A o \in Txs \ {t} : ~Touched(o, u)
          /\ LockMode[Statement(t)] \in {"Update", "NoKeyUpdate"}
        BY <1>1, <1>5, <2>2, ReachedFree DEF At
    <2>4. (\A x \in Rows : Touched(t, x)' <=> x = u) /\ new'[t][u] = NoRow
        BY <1>1, <1>5, <1>6, <2>1, <2>3, TouchedAfter
    <2>5. RemovePlayerOK(t, r, u)'
        BY <1>4, <1>5, <2>4 DEF RemovePlayerOK, OnlyTouched, StampOK
    <2>6. WrittenOK(t)'
        BY <1>4, <2>5 DEF WrittenOK
    <2>7. QED
        BY <1>4, <1>5, <2>1, <2>3, <2>6, Sentinels, WriteInv
<1>8. CASE ~Placed(u)
    <2>1. UNCHANGED <<room, player, clock, held, new>>
        BY <1>3, <1>8 DEF DeletePlayer, NoRows
    <2>2. \A x \in Rows : ~Touched(t, x)'
        BY <1>6, <2>1 DEF Touched
    <2>3. RemovePlayerOK(t, r, u)'
        BY <1>5, <2>2 DEF RemovePlayerOK, OnlyTouched, StampOK
    <2>4. WrittenOK(t)'
        BY <1>4, <2>3 DEF WrittenOK
    <2>5. QED
        BY <1>4, <2>1, <2>4, ProceedInv
<1>9. QED
    BY <1>7, <1>8

LEMMA UpdatePlayerInv ==
    ASSUME Inv, NEW t \in Txs, UpdatePlayer(t)
    PROVE  Inv'
<1>1. TypeOK /\ WrittenOK(t) /\ At(t, "UpdatePlayer") /\ Blockers(t) = {} /\ Proceed(t)
    BY DEF Inv, UpdatePlayer, Reached
<1>2. tx[t].op = "SetPlayerState" /\ tx[t].pc = 1
    BY <1>1, StatementIs
<1>3. PICK r \in RoomIds, u \in Users : r = tx[t].id /\ u = tx[t].user
    BY <1>1, <1>2, ArgumentsOf DEF Orderlies
<1>4. PICK n \in TxRecords :
          /\ tx' = [tx EXCEPT ![t] = n] /\ tx'[t] = n /\ n.op = "SetPlayerState"
          /\ n.id = r /\ n.user = u /\ n.pc = 2 /\ n.state = tx[t].state
    BY <1>1, <1>2, <1>3, Next1 DEF Orderlies
<1>5. u \in Rows /\ r \in Rows /\ r # u
    BY Sentinels DEF Rows
<1>6. \A x \in Rows : ~Touched(t, x)
    BY <1>1, <1>2, <1>3 DEF WrittenOK, SetPlayerStateOK, OnlyTouched
<1>7. CASE InRoom(u, r)
    <2> DEFINE row == [player[u] EXCEPT !.state = tx[t].state]
    <2>1. Write(t, u, row)
        BY <1>3, <1>7 DEF UpdatePlayer
    <2>2. u \in Addressed(t)
        BY <1>1, <1>3, <1>7 DEF Addressed
    <2>3. /\ \A o \in Txs \ {t} : ~Touched(o, u)
          /\ LockMode[Statement(t)] \in {"Update", "NoKeyUpdate"}
        BY <1>1, <1>5, <2>2, ReachedFree DEF At
    <2>4. /\ \A x \in Rows : Touched(t, x)' <=> x = u
          /\ new'[t][u] = row
          /\ UNCHANGED <<room, player, clock>>
        BY <1>1, <1>5, <1>6, <2>1, <2>3, TouchedAfter
    <2>5. player[u] \in PlayerRows
        BY <1>1, <1>7 DEF TypeOK, InRoom
    <2>6. row \in PlayerRows
        BY <1>1, <1>2, <2>5, ArgumentsOf DEF PlayerRows, Orderlies
    <2>7. InRoom(u, r)' /\ player'[u] = player[u] /\ tx'[t].state = tx[t].state
        BY <1>4, <1>7, <2>4 DEF InRoom
    <2>8. SetPlayerStateOK(t, r, u)'
        BY <1>4, <1>5, <2>4, <2>7 DEF SetPlayerStateOK, OnlyTouched, StampOK
    <2>9. WrittenOK(t)'
        BY <1>4, <2>8 DEF WrittenOK
    <2>10. QED
        BY <1>4, <1>5, <2>1, <2>3, <2>6, <2>9, Sentinels, WriteInv
<1>8. CASE ~InRoom(u, r)
    <2>1. UNCHANGED <<room, player, clock, held, new>>
        BY <1>3, <1>8 DEF UpdatePlayer, NoRows
    <2>2. \A x \in Rows : ~Touched(t, x)'
        BY <1>6, <2>1 DEF Touched
    <2>3. SetPlayerStateOK(t, r, u)'
        BY <1>5, <2>2 DEF SetPlayerStateOK, OnlyTouched, StampOK
    <2>4. WrittenOK(t)'
        BY <1>4, <2>3 DEF WrittenOK
    <2>5. QED
        BY <1>4, <2>1, <2>4, ProceedInv
<1>9. QED
    BY <1>7, <1>8

\* A stamp changes nothing, but that its row is locked.
LEMMA StampInv ==
    ASSUME Inv, NEW t \in Txs, Stamp(t)
    PROVE  Inv'
<1>1. TypeOK /\ TablesOK /\ WrittenOK(t) /\ At(t, "Stamp") /\ Blockers(t) = {} /\ Proceed(t)
    BY DEF Inv, Stamp, Reached
<1>2. tx[t].op \in {"AddPlayer", "RemovePlayer", "SetPlayerState"} /\ tx[t].pc = 2
    BY <1>1, StatementIs
<1>3. PICK r \in RoomIds, u \in Users : r = tx[t].id /\ u = tx[t].user
    BY <1>1, <1>2, ArgumentsOf DEF Orderlies
<1>4. PICK n \in TxRecords :
          /\ tx' = [tx EXCEPT ![t] = n] /\ tx'[t] = n /\ n.op = tx[t].op
          /\ n.id = r /\ n.user = u /\ n.pc = 3 /\ n.state = tx[t].state
    BY <1>1, <1>2, <1>3, Next1 DEF Orderlies
<1>5. u \in Rows /\ r \in Rows /\ r # u
    BY Sentinels DEF Rows
<1>6. OnlyTouched(t, r, 3, u, 2) /\ ~Touched(t, r)
    BY <1>1, <1>2, <1>3, <1>5
       DEF WrittenOK, AddPlayerOK, RemovePlayerOK, SetPlayerStateOK, OnlyTouched
\* What is written of the user stays, if what is said of the room is so.
<1>7. ASSUME UNCHANGED <<room, player, clock>>, StampOK(t, r)',
             OnlyTouched(t, r, 3, u, 2)',
             Touched(t, u)' <=> Touched(t, u), new'[t][u] = new[t][u]
      PROVE  WrittenOK(t)'
    <2>1. AddedPlayer(r)' = AddedPlayer(r) /\ (Placed(u)' <=> Placed(u))
          /\ (InRoom(u, r)' <=> InRoom(u, r)) /\ player'[u] = player[u]
          /\ tx'[t].state = tx[t].state
        BY <1>4, <1>7 DEF AddedPlayer, Placed, InRoom
    <2>2. CASE tx[t].op = "AddPlayer"
        <3>1. AddPlayerOK(t, r, u)
            BY <1>1, <1>3, <2>2 DEF WrittenOK
        <3>2. AddPlayerOK(t, r, u)'
            BY <1>2, <1>7, <2>1, <3>1 DEF AddPlayerOK
        <3>3. QED
            BY <1>4, <2>2, <3>2 DEF WrittenOK
    <2>3. CASE tx[t].op = "RemovePlayer"
        <3>1. RemovePlayerOK(t, r, u)
            BY <1>1, <1>3, <2>3 DEF WrittenOK
        <3>2. RemovePlayerOK(t, r, u)'
            BY <1>7, <3>1 DEF RemovePlayerOK
        <3>3. QED
            BY <1>4, <2>3, <3>2 DEF WrittenOK
    <2>4. CASE tx[t].op = "SetPlayerState"
        <3>1. SetPlayerStateOK(t, r, u)
            BY <1>1, <1>3, <2>4 DEF WrittenOK
        <3>2. SetPlayerStateOK(t, r, u)'
            BY <1>7, <2>1, <3>1 DEF SetPlayerStateOK
        <3>3. QED
            BY <1>4, <2>4, <3>2 DEF WrittenOK
    <2>5. QED
        BY <1>2, <2>2, <2>3, <2>4
<1>8. CASE Exists(r)
    <2>1. room[r] \in RoomRows /\ room[r].updated = clock
        BY <1>1, <1>8 DEF TypeOK, TablesOK, StampsOK, Exists
    <2>2. [room[r] EXCEPT !.updated = clock] = room[r]
        BY <2>1 DEF RoomRows
    <2>3. Write(t, r, room[r])
        BY <1>3, <1>8, <2>2 DEF Stamp
    <2>4. r \in Addressed(t)
        BY <1>1, <1>3, <1>8 DEF Addressed, At
    <2>5. /\ \A o \in Txs \ {t} : ~Touched(o, r)
          /\ LockMode[Statement(t)] \in {"Update", "NoKeyUpdate"}
        BY <1>1, <1>5, <2>4, ReachedFree DEF At
    <2>6. LockMode[Statement(t)] = "NoKeyUpdate"
        BY <1>1, Locks DEF At
    <2>7. /\ \A x \in Rows : Touched(t, x)' <=> (x = r \/ Touched(t, x))
          /\ held'[t][r] = "NoKeyUpdate" /\ new'[t][r] = room[r] /\ new'[t][u] = new[t][u]
          /\ UNCHANGED <<room, player, clock>>
        BY <1>1, <1>5, <2>3, <2>5, <2>6, TouchedAfter
    <2>8. StampOK(t, r)' /\ OnlyTouched(t, r, 3, u, 2)'
        BY <1>2, <1>4, <1>6, <1>8, <2>7 DEF StampOK, OnlyTouched, Exists
    <2>9. WrittenOK(t)'
        BY <1>5, <1>7, <2>7, <2>8
    <2>10. QED
        BY <1>4, <1>5, <2>1, <2>3, <2>5, <2>9, Sentinels, WriteInv
<1>9. CASE ~Exists(r)
    <2>1. UNCHANGED <<room, player, clock, held, new>>
        BY <1>3, <1>9 DEF Stamp, NoRows
    <2>2. \A x \in Rows : Touched(t, x)' <=> Touched(t, x)
        BY <2>1 DEF Touched
    <2>3. StampOK(t, r)' /\ OnlyTouched(t, r, 3, u, 2)'
        BY <1>2, <1>4, <1>5, <1>6, <2>2 DEF StampOK, OnlyTouched
    <2>4. WrittenOK(t)'
        BY <1>5, <1>7, <2>1, <2>2, <2>3
    <2>5. QED
        BY <1>4, <2>1, <2>4, ProceedInv
<1>10. QED
    BY <1>8, <1>9

LEMMA UpdateRoomInv ==
    ASSUME Inv, NEW t \in Txs, UpdateRoom(t)
    PROVE  Inv'
<1>1. TypeOK /\ WrittenOK(t) /\ At(t, "UpdateRoom") /\ Blockers(t) = {} /\ Proceed(t)
    BY DEF Inv, UpdateRoom, Reached
<1>2. tx[t].op = "Update" /\ tx[t].pc = 1
    BY <1>1, StatementIs
<1>3. PICK r \in RoomIds : r = tx[t].id /\ r \in Rows
    BY <1>1, <1>2, ArgumentsOf DEF Rows
<1>4. PICK n \in TxRecords :
          /\ tx' = [tx EXCEPT ![t] = n] /\ tx'[t] = n /\ n.op = "Update"
          /\ n.id = r /\ n.pc = 2 /\ n.row = tx[t].row
    BY <1>1, <1>2, <1>3, Next1
<1>5. \A x \in Rows : ~Touched(t, x)
    BY <1>1, <1>2, <1>3 DEF WrittenOK, UpdateOK
<1>6. CASE Exists(r)
    <2> DEFINE row == [tx[t].row EXCEPT !.updated = clock]
    <2>1. Write(t, r, row)
        BY <1>3, <1>6 DEF UpdateRoom
    <2>2. r \in Addressed(t)
        BY <1>1, <1>3, <1>6 DEF Addressed, At
    <2>3. /\ \A o \in Txs \ {t} : ~Touched(o, r)
          /\ LockMode[Statement(t)] \in {"Update", "NoKeyUpdate"}
        BY <1>1, <1>3, <2>2, ReachedFree DEF At
    <2>4. /\ \A x \in Rows : Touched(t, x)' <=> x = r
          /\ new'[t][r] = row
          /\ UNCHANGED <<room, player, clock>>
        BY <1>1, <1>3, <1>5, <2>1, <2>3, TouchedAfter
    <2>5. tx[t].row \in RoomRows /\ clock \in Nat
        BY <1>1, <1>2, ArgumentsOf DEF TypeOK
    <2>6. row \in RoomRows
        BY <2>5 DEF RoomRows
    <2>7. Exists(r)' /\ tx'[t].row = tx[t].row /\ clock' = clock
        BY <1>4, <1>6, <2>4 DEF Exists
    <2>8. UpdateOK(t, r)'
        BY <1>4, <2>4, <2>7 DEF UpdateOK
    <2>9. WrittenOK(t)'
        BY <1>4, <2>8 DEF WrittenOK
    <2>10. QED
        BY <1>3, <1>4, <2>1, <2>3, <2>6, <2>9, Sentinels, WriteInv
<1>7. CASE ~Exists(r)
    <2>1. UNCHANGED <<room, player, clock, held, new>>
        BY <1>3, <1>7 DEF UpdateRoom, NoRows
    <2>2. \A x \in Rows : ~Touched(t, x)'
        BY <1>5, <2>1 DEF Touched
    <2>3. UpdateOK(t, r)'
        BY <1>3, <2>2 DEF UpdateOK
    <2>4. WrittenOK(t)'
        BY <1>4, <2>3 DEF WrittenOK
    <2>5. QED
        BY <1>4, <2>1, <2>4, ProceedInv
<1>8. QED
    BY <1>6, <1>7

LEMMA DeleteRoomInv ==
    ASSUME Inv, NEW t \in Txs, DeleteRoom(t)
    PROVE  Inv'
<1>1. TypeOK /\ WrittenOK(t) /\ At(t, "DeleteRoom") /\ Blockers(t) = {} /\ Proceed(t)
    BY DEF Inv, DeleteRoom, Reached
<1>2. tx[t].op = "Delete" /\ tx[t].pc = 1
    BY <1>1, StatementIs
<1>3. PICK r \in RoomIds : r = tx[t].id /\ r \in Rows
    BY <1>1, <1>2, ArgumentsOf DEF Rows
<1>4. PICK n \in TxRecords :
          /\ tx' = [tx EXCEPT ![t] = n] /\ tx'[t] = n /\ n.op = "Delete"
          /\ n.id = r /\ n.pc = 2
    BY <1>1, <1>2, <1>3, Next1
<1>5. \A x \in Rows : ~Touched(t, x)
    BY <1>1, <1>2, <1>3 DEF WrittenOK, DeleteOK
<1>6. CASE Exists(r)
    <2>1. Write(t, r, NoRow)
        BY <1>3, <1>6 DEF DeleteRoom
    <2>2. r \in Addressed(t)
        BY <1>1, <1>3, <1>6 DEF Addressed, At
    <2>3. /\ \A o \in Txs \ {t} : ~Touched(o, r)
          /\ LockMode[Statement(t)] \in {"Update", "NoKeyUpdate"}
        BY <1>1, <1>3, <2>2, ReachedFree DEF At
    <2>4. LockMode[Statement(t)] = "Update"
        BY <1>1, Locks DEF At
    <2>5. /\ \A x \in Rows : Touched(t, x)' <=> x = r
          /\ new'[t][r] = NoRow /\ held'[t][r] = "Update"
          /\ UNCHANGED <<room, player, clock>>
        BY <1>1, <1>3, <1>5, <2>1, <2>3, <2>4, TouchedAfter
    <2>6. DeleteOK(t, r)'
        BY <1>4, <1>6, <2>5 DEF DeleteOK, Exists
    <2>7. WrittenOK(t)'
        BY <1>4, <2>6 DEF WrittenOK
    <2>8. QED
        BY <1>3, <1>4, <2>1, <2>3, <2>7, Sentinels, WriteInv
<1>7. CASE ~Exists(r)
    <2>1. UNCHANGED <<room, player, clock, held, new>>
        BY <1>3, <1>7 DEF DeleteRoom, NoRows
    <2>2. \A x \in Rows : ~Touched(t, x)'
        BY <1>5, <2>1 DEF Touched
    <2>3. DeleteOK(t, r)'
        BY <1>3, <2>2 DEF DeleteOK
    <2>4. WrittenOK(t)'
        BY <1>4, <2>3 DEF WrittenOK
    <2>5. QED
        BY <1>4, <2>1, <2>4, ProceedInv
<1>8. QED
    BY <1>6, <1>7

LEMMA CascadeToInv ==
    ASSUME Inv, NEW t \in Txs, NEW u \in Users, CascadeTo(t, u)
    PROVE  Inv'
<1>1. TypeOK /\ WrittenOK(t) /\ At(t, "Cascade") /\ u \in Addressed(t)
      /\ HeldByOthers(t, u) = {} /\ Write(t, u, NoRow) /\ tx' = tx
    BY DEF Inv, CascadeTo
<1>2. tx[t].op = "Delete" /\ tx[t].pc = 2
    BY <1>1, StatementIs
<1>3. PICK r \in RoomIds : r = tx[t].id
    BY <1>1, <1>2, ArgumentsOf
<1>4. u \in Rows /\ r \in Rows /\ r # u
    BY Sentinels DEF Rows
<1>5. Touched(t, r) /\ InRoom(u, r)
    BY <1>1, <1>3, <1>4, Sentinels DEF Addressed, At
<1>6. DeleteOK(t, r)
    BY <1>1, <1>2, <1>3 DEF WrittenOK
<1>7. LockMode[Statement(t)] \in {"Update", "NoKeyUpdate"}
      /\ \A o \in Txs \ {t} : ~Touched(o, u)
    BY <1>1, <1>4, Locks, Free DEF At
<1>8. /\ \A x \in Rows : Touched(t, x)' <=> (x = u \/ Touched(t, x))
      /\ new'[t][u] = NoRow
      /\ \A x \in Rows : x # u => held'[t][x] = held[t][x] /\ new'[t][x] = new[t][x]
      /\ UNCHANGED <<room, player, clock>>
    BY <1>1, <1>4, <1>7, TouchedAfter
<1>9. DeleteOK(t, r)'
    BY <1>1, <1>2, <1>4, <1>5, <1>6, <1>8 DEF DeleteOK, Exists, InRoom
<1>10. WrittenOK(t)'
    BY <1>1, <1>2, <1>3, <1>9 DEF WrittenOK
<1>11. tx' = [tx EXCEPT ![t] = tx[t]] /\ tx[t] \in TxRecords
    BY <1>1 DEF TypeOK
<1>12. QED
    BY <1>1, <1>4, <1>7, <1>10, <1>11, Sentinels, WriteInv

LEMMA CascadeEndsInv ==
    ASSUME Inv, NEW t \in Txs, CascadeEnds(t)
    PROVE  Inv'
<1>1. TypeOK /\ WrittenOK(t) /\ At(t, "Cascade") /\ Addressed(t) = {} /\ Proceed(t)
      /\ UNCHANGED <<room, player, clock, held, new>>
    BY DEF Inv, CascadeEnds, NoRows
<1>2. tx[t].op = "Delete" /\ tx[t].pc = 2
    BY <1>1, StatementIs
<1>3. PICK r \in RoomIds : r = tx[t].id /\ r \in Rows
    BY <1>1, <1>2, ArgumentsOf DEF Rows
<1>4. PICK n \in TxRecords :
          /\ tx' = [tx EXCEPT ![t] = n] /\ tx'[t] = n /\ n.op = "Delete"
          /\ n.id = r /\ n.pc = 3
    BY <1>1, <1>2, <1>3, Next1
<1>5. DeleteOK(t, r)
    BY <1>1, <1>2, <1>3 DEF WrittenOK
<1>6. ASSUME NEW u \in Users, InRoom(u, r), Touched(t, r) PROVE Touched(t, u)
    BY <1>1, <1>3, <1>6 DEF Addressed
<1>7. DeleteOK(t, r)'
    BY <1>1, <1>4, <1>5, <1>6 DEF DeleteOK, Touched, Exists, InRoom
<1>8. WrittenOK(t)'
    BY <1>4, <1>7 DEF WrittenOK
<1>9. QED
    BY <1>1, <1>4, <1>8, ProceedInv

-----------------------------------------------------------------------------
(* The commit.                                                             *)

\* The tables after the commit of t.
CommittedRoom(t) == [r \in RoomIds |-> IF Touched(t, r) THEN new[t][r] ELSE room[r]]

CommittedPlayer(t) == [u \in Users |-> IF Touched(t, u) THEN new[t][u] ELSE player[u]]

LEMMA StampedSame ==
    ASSUME TypeOK, TablesOK, NEW r \in RoomIds
    PROVE  Stamped(room, r) = room
<1>1. CASE room[r] = NoRow
    BY <1>1 DEF Stamped
<1>2. CASE room[r] # NoRow
    <2>1. room[r] \in RoomRows /\ room[r].updated = clock
        BY <1>2 DEF TypeOK, TablesOK, StampsOK, Exists
    <2>2. [room[r] EXCEPT !.updated = clock] = room[r]
        BY <2>1 DEF RoomRows
    <2>3. Stamped(room, r) = [room EXCEPT ![r] = [room[r] EXCEPT !.updated = clock]]
        BY <1>2 DEF Stamped
    <2>4. QED
        BY <2>2, <2>3 DEF TypeOK
<1>3. QED
    BY <1>1, <1>2

\* AddPlayer, RemovePlayer and SetPlayerState write no room but with a stamp.
LEMMA RoomsSame ==
    ASSUME TypeOK, NEW t \in Txs, NEW r \in RoomIds, NEW u \in Users,
           OnlyTouched(t, r, 3, u, 2), StampOK(t, r)
    PROVE  CommittedRoom(t) = room
<1>1. ASSUME NEW s \in RoomIds, Touched(t, s) PROVE new[t][s] = room[s]
    <2>1. s \in Rows /\ s # u
        BY Sentinels DEF Rows
    <2>2. s = r
        BY <1>1, <2>1 DEF OnlyTouched
    <2>3. QED
        BY <1>1, <2>2 DEF StampOK
<1>2. QED
    BY <1>1 DEF CommittedRoom, TypeOK

\* And no player but that of the request.
LEMMA PlayersSame ==
    ASSUME TypeOK, NEW t \in Txs, NEW r \in RoomIds, NEW u \in Users,
           OnlyTouched(t, r, 3, u, 2) \/ OnlyTouched(t, r, 2, u, 3)
    PROVE  CommittedPlayer(t) =
              IF Touched(t, u) THEN [player EXCEPT ![u] = new[t][u]] ELSE player
<1>1. ASSUME NEW v \in Users, v # u PROVE ~Touched(t, v)
    <2>1. v \in Rows /\ v # r
        BY Sentinels DEF Rows
    <2>2. QED
        BY <1>1, <2>1 DEF OnlyTouched
<1>2. QED
    BY <1>1 DEF CommittedPlayer, TypeOK

\* What a commit is.
LEMMA CommitIs ==
    ASSUME Inv, NEW t \in Txs, Commit(t)
    PROVE  /\ TypeOK /\ TablesOK /\ WrittenOK(t) /\ At(t, "Commit")
           /\ Blockers(t) = {} /\ ChecksPass(t) /\ End(t)
           /\ room' = CommittedRoom(t) /\ player' = CommittedPlayer(t) /\ clock' = clock
BY DEF Inv, Commit, CommittedRoom, CommittedPlayer

LEMMA CommitCreate ==
    ASSUME Inv, NEW t \in Txs, Commit(t), tx[t].op = "Create"
    PROVE  Atomically(t)
<1>1. tx[t].pc = 3
    BY CommitIs, StatementIs DEF Orderlies
<1>2. PICK r \in RoomIds, u \in Users : r = tx[t].id /\ u = tx[t].user
    BY CommitIs, ArgumentsOf DEF Orderlies
<1>3. CreateOK(t, r, u)
    BY CommitIs, <1>2 DEF WrittenOK
<1>4. /\ Touched(t, r) /\ ~Exists(r) /\ new[t][r] = CreatedRoom(u)
      /\ Touched(t, u) /\ ~Placed(u) /\ new[t][u] = AddedPlayer(r)
      /\ OnlyTouched(t, r, 2, u, 3)
    BY <1>1, <1>3 DEF CreateOK
<1>5. ASSUME NEW s \in RoomIds, s # r PROVE ~Touched(t, s)
    <2>1. s \in Rows /\ s # u
        BY Sentinels DEF Rows
    <2>2. QED
        BY <1>4, <1>5, <2>1 DEF OnlyTouched
<1>6. room' = [room EXCEPT ![r] = CreatedRoom(u)]
    <2>1. CommittedRoom(t) = [room EXCEPT ![r] = CreatedRoom(u)]
        BY CommitIs, <1>4, <1>5 DEF CommittedRoom, TypeOK
    <2>2. QED
        BY <2>1, CommitIs
<1>7. player' = [player EXCEPT ![u] = AddedPlayer(r)]
    BY CommitIs, <1>4, PlayersSame
<1>8. CreateAllowed(r, u) /\ Create(r, u)
    BY CommitIs, <1>4, <1>6, <1>7 DEF CreateAllowed, Create, CreatedRoom, AddedPlayer
<1>9. QED
    BY <1>2, <1>8 DEF Atomically

LEMMA CommitAddPlayer ==
    ASSUME Inv, NEW t \in Txs, Commit(t), tx[t].op = "AddPlayer"
    PROVE  Atomically(t) /\ Exists(tx[t].id)
<1>1. tx[t].pc = 3
    BY CommitIs, StatementIs DEF Orderlies
<1>2. PICK r \in RoomIds, u \in Users : r = tx[t].id /\ u = tx[t].user
    BY CommitIs, ArgumentsOf DEF Orderlies
<1>3. AddPlayerOK(t, r, u)
    BY CommitIs, <1>2 DEF WrittenOK
<1>4. /\ Touched(t, u) /\ ~Placed(u) /\ new[t][u] = AddedPlayer(r)
      /\ OnlyTouched(t, r, 3, u, 2) /\ StampOK(t, r)
    BY <1>1, <1>3 DEF AddPlayerOK
<1>5. Exists(r)
    BY CommitIs, <1>2 DEF ChecksPass
<1>6. room' = Stamped(room, r)
    BY CommitIs, <1>4, RoomsSame, StampedSame
<1>7. player' = [player EXCEPT ![u] = AddedPlayer(r)]
    BY CommitIs, <1>4, PlayersSame
<1>8. AddPlayerAllowed(r, u) /\ AddPlayer(r, u)
    BY CommitIs, <1>4, <1>5, <1>6, <1>7 DEF AddPlayerAllowed, AddPlayer, AddedPlayer
<1>9. QED
    BY <1>2, <1>5, <1>8 DEF Atomically

LEMMA CommitRemovePlayer ==
    ASSUME Inv, NEW t \in Txs, Commit(t), tx[t].op = "RemovePlayer"
    PROVE  UNCHANGED <<room, player, clock>> \/ Atomically(t)
<1>1. PICK r \in RoomIds, u \in Users : r = tx[t].id /\ u = tx[t].user
    BY CommitIs, ArgumentsOf DEF Orderlies
<1>2. RemovePlayerOK(t, r, u)
    BY CommitIs, <1>1 DEF WrittenOK
<1>3. /\ OnlyTouched(t, r, 3, u, 2) /\ StampOK(t, r)
      /\ Touched(t, u) => new[t][u] = NoRow
    BY <1>2 DEF RemovePlayerOK
<1>4. room' = room /\ Stamped(room, r) = room
    BY CommitIs, <1>3, RoomsSame, StampedSame
<1>5. CASE ~Touched(t, u)
    BY CommitIs, <1>3, <1>4, <1>5, PlayersSame
<1>6. CASE Touched(t, u)
    <2>1. player' = [player EXCEPT ![u] = NoRow]
        BY CommitIs, <1>3, <1>6, PlayersSame
    <2>2. ASSUME NEW s \in RoomIds, RefersTo(s, u) PROVE FALSE
        <3>1. s \in Rows /\ s # u
            BY Sentinels DEF Rows
        <3>2. Touched(t, s) => new[t][s] # NoRow
            BY <1>3, <3>1 DEF OnlyTouched, StampOK, Exists
        <3>3. s \in Referring(t)
            BY <1>3, <1>6, <2>2, <3>2 DEF Referring
        <3>4. QED
            BY CommitIs, <3>3 DEF ChecksPass
    <2>3. RemovePlayerAllowed(u) /\ RemovePlayer(r, u)
        BY CommitIs, <1>4, <2>1, <2>2 DEF RemovePlayerAllowed, RemovePlayer
    <2>4. QED
        BY <1>1, <2>3 DEF Atomically
<1>7. QED
    BY <1>5, <1>6

LEMMA CommitSetPlayerState ==
    ASSUME Inv, NEW t \in Txs, Commit(t), tx[t].op = "SetPlayerState"
    PROVE  UNCHANGED <<room, player, clock>> \/ Atomically(t)
<1>1. PICK r \in RoomIds, u \in Users : r = tx[t].id /\ u = tx[t].user
    BY CommitIs, ArgumentsOf DEF Orderlies
<1>2. SetPlayerStateOK(t, r, u)
    BY CommitIs, <1>1 DEF WrittenOK
<1>3. /\ OnlyTouched(t, r, 3, u, 2) /\ StampOK(t, r)
      /\ Touched(t, u) => /\ InRoom(u, r)
                          /\ new[t][u] = [player[u] EXCEPT !.state = tx[t].state]
    BY <1>2 DEF SetPlayerStateOK
<1>4. room' = room /\ Stamped(room, r) = room
    BY CommitIs, <1>3, RoomsSame, StampedSame
<1>5. CASE ~Touched(t, u)
    BY CommitIs, <1>3, <1>4, <1>5, PlayersSame
<1>6. CASE Touched(t, u)
    <2>1. player' = [player EXCEPT ![u].state = tx[t].state]
        BY CommitIs, <1>3, <1>6, PlayersSame
    <2>2. SetPlayerState(r, u, tx[t].state)
        BY CommitIs, <1>3, <1>4, <1>6, <2>1 DEF SetPlayerState
    <2>3. QED
        BY <1>1, <2>2 DEF Atomically
<1>7. QED
    BY <1>5, <1>6

LEMMA CommitUpdate ==
    ASSUME Inv, NEW t \in Txs, Commit(t), tx[t].op = "Update"
    PROVE  UNCHANGED <<room, player, clock>> \/ Atomically(t)
<1>1. PICK r \in RoomIds : r = tx[t].id
    BY CommitIs, ArgumentsOf
<1>2. UpdateOK(t, r)
    BY CommitIs, <1>1 DEF WrittenOK
<1> DEFINE row == tx[t].row
<1>3. \A x \in Rows : Touched(t, x) => x = r
    BY <1>2 DEF UpdateOK
<1>4. player' = player
    <2>1. \A u \in Users : ~Touched(t, u)
        BY <1>3, Sentinels DEF Rows
    <2>2. CommittedPlayer(t) = player
        BY <2>1, CommitIs DEF CommittedPlayer, TypeOK
    <2>3. QED
        BY <2>2, CommitIs
<1>5. CASE ~Touched(t, r)
    <2>1. \A s \in RoomIds : ~Touched(t, s)
        BY <1>3, <1>5 DEF Rows
    <2>2. CommittedRoom(t) = room
        BY <2>1, CommitIs DEF CommittedRoom, TypeOK
    <2>3. QED
        BY <1>4, <2>2, CommitIs
<1>6. CASE Touched(t, r)
    <2>1. Exists(r) /\ new[t][r] = [row EXCEPT !.updated = clock]
        BY <1>2, <1>6 DEF UpdateOK
    <2>2. CommittedRoom(t) = [room EXCEPT ![r] = [row EXCEPT !.updated = clock]]
        BY <1>3, <1>6, <2>1, CommitIs DEF CommittedRoom, TypeOK, Rows
    <2>3. Update(r, row)
        BY <1>4, <2>1, <2>2, CommitIs DEF Update
    <2>4. row \in RoomRows /\ clock \in Nat
        BY CommitIs, ArgumentsOf DEF TypeOK
    <2>5. /\ new[t][r] \in RoomRows /\ new[t][r].owner = row.owner
          /\ new[t][r].turn = row.turn
          /\ row.owner \in Users /\ row.turn \in Users \cup {Nobody}
        BY <2>1, <2>4 DEF RoomRows
    <2>6. new[t][r] # NoRow
        BY <2>5, Sentinels
    <2>7. \A u \in NewReferences(t) : Placed(u)
        BY CommitIs DEF ChecksPass
    <2>8. Placed(room[r].owner) /\ (room[r].turn # Nobody => Placed(room[r].turn))
        BY <2>1, CommitIs DEF TablesOK, ReferencesOK
    <2>9. Placed(row.owner)
        <3>1. CASE row.owner = room[r].owner
            BY <3>1, <2>8
        <3>2. CASE row.owner # room[r].owner
            <4>1. row.owner \in NewReferences(t)
                BY <1>6, <2>1, <2>5, <2>6, <3>2 DEF NewReferences
            <4>2. QED
                BY <4>1, <2>7
        <3>3. QED
            BY <3>1, <3>2
    <2>10. ASSUME row.turn # Nobody PROVE Placed(row.turn)
        <3>1. CASE row.turn = room[r].turn
            BY <3>1, <2>8, <2>10
        <3>2. CASE row.turn # room[r].turn
            <4>1. row.turn \in NewReferences(t)
                BY <1>6, <2>1, <2>5, <2>6, <2>10, <3>2 DEF NewReferences
            <4>2. QED
                BY <4>1, <2>7
        <3>3. QED
            BY <3>1, <3>2
    <2>11. UpdateAllowed(r, row)
        BY <2>9, <2>10 DEF UpdateAllowed
    <2>12. QED
        BY <1>1, <2>3, <2>11 DEF Atomically
<1>7. QED
    BY <1>5, <1>6

LEMMA CommitDelete ==
    ASSUME Inv, NEW t \in Txs, Commit(t), tx[t].op = "Delete"
    PROVE  UNCHANGED <<room, player, clock>> \/ Atomically(t)
<1>1. PICK r \in RoomIds : r = tx[t].id
    BY CommitIs, ArgumentsOf
<1>2. DeleteOK(t, r) /\ tx[t].pc = 3
    BY CommitIs, <1>1, StatementIs DEF WrittenOK
<1>3. \A x \in Rows : Touched(t, x) =>
          new[t][x] = NoRow /\ (x = r \/ (x \in Users /\ Touched(t, r) /\ InRoom(x, r)))
    BY <1>2 DEF DeleteOK
<1>4. \A s \in RoomIds : Touched(t, s) => s = r
    BY <1>3, Sentinels DEF Rows
<1>5. \A u \in Users : Touched(t, u) => new[t][u] = NoRow /\ Touched(t, r) /\ InRoom(u, r)
    BY <1>3, Sentinels DEF Rows
<1>6. CASE ~Touched(t, r)
    <2>1. CommittedRoom(t) = room
        BY <1>4, <1>6, CommitIs DEF CommittedRoom, TypeOK
    <2>2. CommittedPlayer(t) = player
        BY <1>5, <1>6, CommitIs DEF CommittedPlayer, TypeOK
    <2>3. QED
        BY <2>1, <2>2, CommitIs
<1>7. CASE Touched(t, r)
    <2>1. new[t][r] = NoRow
        BY <1>3, <1>7 DEF Rows
    <2>2. \A u \in Users : Touched(t, u) <=> InRoom(u, r)
        BY <1>2, <1>5, <1>7 DEF DeleteOK
    <2>3. CommittedRoom(t) = [room EXCEPT ![r] = NoRow]
        BY <1>4, <1>7, <2>1, CommitIs DEF CommittedRoom, TypeOK
    <2>4. CommittedPlayer(t) = [u \in Users |-> IF InRoom(u, r) THEN NoRow ELSE player[u]]
        BY <1>5, <2>2 DEF CommittedPlayer
    <2>5. Delete(r)
        BY <2>3, <2>4, CommitIs DEF Delete
    <2>6. ASSUME NEW u \in Members(r), NEW s \in RoomIds \ {r}, RefersTo(s, u) PROVE FALSE
        <3>1. u \in Users /\ Touched(t, u) /\ new[t][u] = NoRow /\ ~Touched(t, s)
            BY <1>4, <1>5, <2>2 DEF Members
        <3>2. s \in Referring(t)
            BY <2>6, <3>1 DEF Referring
        <3>3. QED
            BY CommitIs, <3>2 DEF ChecksPass
    <2>7. DeleteAllowed(r)
        BY <2>6 DEF DeleteAllowed
    <2>8. QED
        BY <1>1, <2>5, <2>7 DEF Atomically
<1>8. QED
    BY <1>6, <1>7

LEMMA CommitImplements ==
    ASSUME Inv, NEW t \in Txs, Commit(t)
    PROVE  UNCHANGED <<room, player, clock>> \/ Atomically(t)
<1>1. tx[t].op \in Orderlies \cup {"Update", "Delete"}
    BY CommitIs, StatementIs
<1>2. QED
    BY <1>1, CommitCreate, CommitAddPlayer, CommitRemovePlayer, CommitSetPlayerState,
       CommitUpdate, CommitDelete DEF Orderlies

\* The written rows have the form of rows.
LEMMA CommitTypes ==
    ASSUME Inv, NEW t \in Txs, Commit(t)
    PROVE  TypeOK' /\ Exclusive'
<1>1. Exclusive
    BY DEF Inv
<1>2. ASSUME NEW r \in RoomIds PROVE CommittedRoom(t)[r] \in RoomRows \cup {NoRow}
    BY CommitIs DEF CommittedRoom, TypeOK
<1>3. room' \in [RoomIds -> RoomRows \cup {NoRow}]
    BY CommitIs, <1>2 DEF CommittedRoom
<1>4. ASSUME NEW u \in Users PROVE CommittedPlayer(t)[u] \in PlayerRows \cup {NoRow}
    BY CommitIs DEF CommittedPlayer, TypeOK
<1>5. player' \in [Users -> PlayerRows \cup {NoRow}]
    BY CommitIs, <1>4 DEF CommittedPlayer
<1>6. clock' \in Nat
    BY CommitIs DEF TypeOK
<1>7. QED
    BY CommitIs, EndTypes, <1>1, <1>3, <1>5, <1>6 DEF TypeOK

\* The operations of the repository keep the references of rooms to players.
LEMMA AtomicallyTables ==
    ASSUME TypeOK, TablesOK, NEW t \in Txs, Atomically(t)
    PROVE  TablesOK'
<1> DEFINE r == tx[t].id
           u == tx[t].user
           row == tx[t].row
<1>1. tx[t].op # "None" /\ r \in RoomIds /\ clock' = clock
    <2>1. tx[t].op # "None" /\ clock' = clock
        BY DEF Atomically, Create, AddPlayer, RemovePlayer, SetPlayerState, Update, Delete
    <2>2. QED
        BY <2>1, ArgumentsOf
\* Enough: every room that there is refers to players that there are.
<1> SUFFICES ASSUME NEW s \in RoomIds, room'[s] # NoRow
             PROVE  /\ player'[room'[s].owner] # NoRow
                    /\ room'[s].turn # Nobody => player'[room'[s].turn] # NoRow
                    /\ room'[s].updated = clock
    BY <1>1 DEF TablesOK, ReferencesOK, StampsOK, Exists, Placed
<1>2. room[s] # NoRow =>
          /\ player[room[s].owner] # NoRow
          /\ room[s].turn # Nobody => player[room[s].turn] # NoRow
          /\ room[s].updated = clock
          /\ room[s].owner \in Users
          /\ room[s].turn # Nobody => room[s].turn \in Users
    <2>1. room[s] # NoRow => room[s] \in RoomRows
        BY DEF TypeOK
    <2>2. QED
        BY <2>1 DEF TablesOK, ReferencesOK, StampsOK, Exists, Placed, RoomRows
<1>3. ASSUME NEW x \in RoomIds PROVE [room |-> x, state |-> EmptyState] # NoRow
    BY Sentinels DEF PlayerRows
<1>4. CASE tx[t].op = "Create"
    <2>1. CreateAllowed(r, u) /\ Create(r, u) /\ u \in Users
        BY <1>4, ArgumentsOf DEF Atomically, Orderlies
    <2>2. player'[u] # NoRow /\ \A v \in Users : player[v] # NoRow => player'[v] # NoRow
        BY <1>1, <1>3, <2>1, Sentinels DEF Create, TypeOK
    <2>3. CASE s = r
        BY <1>1, <2>1, <2>2, <2>3 DEF Create, TypeOK
    <2>4. CASE s # r
        <3>1. room'[s] = room[s]
            BY <2>1, <2>4 DEF Create, TypeOK
        <3>2. QED
            BY <1>2, <2>2, <3>1
    <2>5. QED
        BY <2>3, <2>4
<1>5. CASE tx[t].op = "AddPlayer"
    <2>1. AddPlayer(r, u) /\ u \in Users
        BY <1>5, ArgumentsOf DEF Atomically, Orderlies
    <2>2. \A v \in Users : player[v] # NoRow => player'[v] # NoRow
        BY <1>1, <1>3, <2>1, Sentinels DEF AddPlayer, TypeOK
    <2>3. room' = room
        BY <1>1, <2>1, StampedSame DEF AddPlayer
    <2>4. QED
        BY <1>2, <2>2, <2>3
<1>6. CASE tx[t].op = "RemovePlayer"
    <2>1. RemovePlayerAllowed(u) /\ RemovePlayer(r, u) /\ u \in Users
        BY <1>6, ArgumentsOf DEF Atomically, Orderlies
    <2>2. room' = room
        BY <1>1, <2>1, StampedSame DEF RemovePlayer
    <2>3. room[s].owner # u /\ room[s].turn # u
        BY <2>1, <2>2 DEF RemovePlayerAllowed, RefersTo, Exists
    <2>4. \A v \in Users : v # u => player'[v] = player[v]
        BY <2>1 DEF RemovePlayer, TypeOK
    <2>5. QED
        BY <1>2, <2>2, <2>3, <2>4
<1>7. CASE tx[t].op = "SetPlayerState"
    <2>1. SetPlayerState(r, u, tx[t].state) /\ u \in Users /\ tx[t].state \in PlayerStates
        BY <1>7, ArgumentsOf DEF Atomically, Orderlies
    <2>2. room' = room
        BY <1>1, <2>1, StampedSame DEF SetPlayerState
    <2>3. \A v \in Users : player[v] # NoRow => player'[v] # NoRow
        <3>1. CASE ~InRoom(u, r)
            BY <2>1, <3>1 DEF SetPlayerState
        <3>2. CASE InRoom(u, r)
            <4>1. player[u] \in PlayerRows
                BY <2>1, <3>2 DEF InRoom, TypeOK
            <4>2. [player[u] EXCEPT !.state = tx[t].state] \in PlayerRows
                BY <2>1, <4>1 DEF PlayerRows
            <4>3. player' = [player EXCEPT ![u] = [player[u] EXCEPT !.state = tx[t].state]]
                BY <2>1, <3>2 DEF SetPlayerState
            <4>4. QED
                BY <4>2, <4>3, Sentinels DEF TypeOK
        <3>3. QED
            BY <3>1, <3>2
    <2>4. QED
        BY <1>2, <2>2, <2>3
<1>8. CASE tx[t].op = "Update"
    <2>1. UpdateAllowed(r, row) /\ Update(r, row) /\ row \in RoomRows
        BY <1>8, ArgumentsOf DEF Atomically
    <2>2. player' = player
        BY <2>1 DEF Update
    <2>3. CASE s = r /\ Exists(r)
        <3>1. room'[s] = [row EXCEPT !.updated = clock]
            BY <2>1, <2>3 DEF Update, TypeOK
        <3>2. room'[s].owner = row.owner /\ room'[s].turn = row.turn /\ room'[s].updated = clock
            BY <2>1, <3>1 DEF RoomRows
        <3>3. QED
            BY <2>1, <2>2, <2>3, <3>2 DEF UpdateAllowed, Placed
    <2>4. CASE ~(s = r /\ Exists(r))
        <3>1. room'[s] = room[s]
            BY <2>1, <2>4 DEF Update, TypeOK
        <3>2. QED
            BY <1>2, <2>2, <3>1
    <2>5. QED
        BY <2>3, <2>4
<1>9. CASE tx[t].op = "Delete"
    <2>1. DeleteAllowed(r) /\ Delete(r)
        BY <1>9 DEF Atomically
    <2>2. s # r /\ room'[s] = room[s]
        BY <1>1, <2>1 DEF Delete, TypeOK
    <2>3. ASSUME NEW v \in Users, player[v] # NoRow, v = room[s].owner \/ v = room[s].turn
          PROVE  player'[v] # NoRow
        <3>1. RefersTo(s, v)
            BY <2>2, <2>3 DEF RefersTo, Exists
        <3>2. ~InRoom(v, r)
            BY <2>1, <2>2, <3>1 DEF DeleteAllowed, Members
        <3>3. QED
            BY <2>1, <2>3, <3>2 DEF Delete
    <2>4. QED
        BY <1>2, <2>2, <2>3
<1>10. QED
    BY <1>4, <1>5, <1>6, <1>7, <1>8, <1>9 DEF Atomically

\* Only Create and AddPlayer bring a player into a room, and they hold the
\* key of the room or check it at commit.
LEMMA NewMember ==
    ASSUME Inv, NEW t \in Txs, Commit(t), NEW u \in Users, NEW r \in RoomIds,
           InRoom(u, r)', ~InRoom(u, r)
    PROVE  Touched(t, r) \/ r \in Addressed(t)
<1>1. PICK n \in RoomIds : n = tx[t].id /\ tx[t].op \in Orderlies \cup {"Update", "Delete"}
    <2>1. tx[t].op \in Orderlies \cup {"Update", "Delete"}
        BY CommitIs, StatementIs
    <2>2. tx[t].id \in RoomIds
        BY <2>1, CommitIs, ArgumentsOf DEF Orderlies
    <2>3. QED
        BY <2>1, <2>2
<1>2. Touched(t, u) /\ player'[u] = new[t][u] /\ new[t][u] # NoRow /\ new[t][u].room = r
    BY CommitIs DEF CommittedPlayer, InRoom
<1>3. u \in Rows /\ n \in Rows /\ u # n
    BY Sentinels DEF Rows
<1>4. CASE tx[t].op = "Create" \/ tx[t].op = "AddPlayer"
    <2>1. PICK v \in Users : v = tx[t].user
        BY <1>4, CommitIs, ArgumentsOf DEF Orderlies
    <2>2. tx[t].pc = 3
        BY <1>4, CommitIs, StatementIs
    <2>3. v = u /\ new[t][v] = AddedPlayer(n)
        BY <1>1, <1>2, <1>3, <1>4, <2>1, <2>2, CommitIs
           DEF WrittenOK, CreateOK, AddPlayerOK, OnlyTouched
    <2>4. r = n
        BY <1>2, <2>3 DEF AddedPlayer
    <2>5. CASE tx[t].op = "Create"
        BY <1>1, <2>2, <2>4, <2>5, CommitIs DEF WrittenOK, CreateOK
    <2>6. CASE tx[t].op = "AddPlayer"
        <3>1. Exists(r)
            BY <1>1, <2>4, <2>6, CommitIs DEF ChecksPass
        <3>2. QED
            BY <1>1, <2>4, <2>6, <3>1, CommitIs DEF Addressed
    <2>7. QED
        BY <1>4, <2>5, <2>6
<1>5. CASE tx[t].op = "RemovePlayer"
    <2>1. PICK v \in Users : v = tx[t].user
        BY <1>5, CommitIs, ArgumentsOf DEF Orderlies
    <2>2. u = v /\ new[t][v] = NoRow
        BY <1>1, <1>2, <1>3, <1>5, <2>1, CommitIs DEF WrittenOK, RemovePlayerOK, OnlyTouched
    <2>3. QED
        BY <1>2, <2>2
<1>6. CASE tx[t].op = "SetPlayerState"
    <2>1. PICK v \in Users : v = tx[t].user
        BY <1>6, CommitIs, ArgumentsOf DEF Orderlies
    <2>2. u = v /\ InRoom(v, n) /\ new[t][v] = [player[v] EXCEPT !.state = tx[t].state]
        BY <1>1, <1>2, <1>3, <1>6, <2>1, CommitIs DEF WrittenOK, SetPlayerStateOK, OnlyTouched
    <2>3. player[u] \in PlayerRows /\ player[u].room = n
        BY <2>2, CommitIs DEF InRoom, TypeOK
    <2>4. new[t][u].room = player[u].room
        BY <2>2, <2>3 DEF PlayerRows
    <2>5. QED
        BY <1>2, <2>2, <2>3, <2>4
<1>7. CASE tx[t].op = "Update"
    BY <1>1, <1>2, <1>3, <1>7, CommitIs DEF WrittenOK, UpdateOK
<1>8. CASE tx[t].op = "Delete"
    BY <1>1, <1>2, <1>3, <1>8, CommitIs DEF WrittenOK, DeleteOK
<1>9. QED
    BY <1>1, <1>4, <1>5, <1>6, <1>7, <1>8 DEF Orderlies

\* What another transaction has written is still what it wrote: the rows it
\* holds are not those that t commits.
LEMMA CommitOthers ==
    ASSUME Inv, NEW t \in Txs, Commit(t), NEW o \in Txs \ {t}
    PROVE  WrittenOK(o)'
<1>1. tx'[o] = tx[o] /\ held'[o] = held[o] /\ new'[o] = new[o] /\ clock' = clock
    BY CommitIs, EndTypes DEF Inv
<1>2. \A x \in Rows : Touched(o, x)' <=> Touched(o, x)
    BY <1>1 DEF Touched
<1>3. \A x \in Rows : Touched(o, x) => ~Touched(t, x)
    BY DEF Inv, Exclusive
<1>4. ASSUME NEW r \in RoomIds, Touched(o, r) PROVE room'[r] = room[r]
    BY <1>3, <1>4, CommitIs DEF CommittedRoom, Rows
<1>5. ASSUME NEW u \in Users, Touched(o, u) PROVE player'[u] = player[u]
    BY <1>3, <1>5, CommitIs DEF CommittedPlayer, Rows
<1>6. WrittenOK(o)
    BY DEF Inv
<1>7. CASE tx[o].op = "None"
    BY <1>1, <1>2, <1>6, <1>7 DEF WrittenOK, NoneOK
<1>8. CASE tx[o].op \in Orderlies
    <2>1. PICK r \in RoomIds, u \in Users : r = tx[o].id /\ u = tx[o].user
        BY <1>8, CommitIs, ArgumentsOf DEF Orderlies
    <2>2. r \in Rows /\ u \in Rows
        BY DEF Rows
    <2>3. /\ \A m, n \in 1..3 : OnlyTouched(o, r, m, u, n)' <=> OnlyTouched(o, r, m, u, n)
          /\ Touched(o, r)' <=> Touched(o, r)
          /\ Touched(o, u)' <=> Touched(o, u)
        BY <1>1, <1>2, <2>2 DEF OnlyTouched
    <2>4. StampOK(o, r) => StampOK(o, r)'
        BY <1>1, <1>4, <2>3 DEF StampOK, Exists
    <2>5. CreatedRoom(u)' = CreatedRoom(u) /\ AddedPlayer(r)' = AddedPlayer(r)
        BY <1>1 DEF CreatedRoom, AddedPlayer, EmptyRoomState
    <2>6. CASE tx[o].op = "Create"
        <3>1. CreateOK(o, r, u)
            BY <1>6, <2>1, <2>6 DEF WrittenOK
        <3>2. CreateOK(o, r, u)'
            BY <1>1, <1>4, <1>5, <2>3, <2>5, <3>1 DEF CreateOK, Exists, Placed
        <3>3. QED
            BY <1>1, <2>1, <2>6, <3>2 DEF WrittenOK
    <2>7. CASE tx[o].op = "AddPlayer"
        <3>1. AddPlayerOK(o, r, u)
            BY <1>6, <2>1, <2>7 DEF WrittenOK
        <3>2. AddPlayerOK(o, r, u)'
            BY <1>1, <1>5, <2>3, <2>4, <2>5, <3>1 DEF AddPlayerOK, Placed
        <3>3. QED
            BY <1>1, <2>1, <2>7, <3>2 DEF WrittenOK
    <2>8. CASE tx[o].op = "RemovePlayer"
        <3>1. RemovePlayerOK(o, r, u)
            BY <1>6, <2>1, <2>8 DEF WrittenOK
        <3>2. RemovePlayerOK(o, r, u)'
            BY <1>1, <2>3, <2>4, <3>1 DEF RemovePlayerOK
        <3>3. QED
            BY <1>1, <2>1, <2>8, <3>2 DEF WrittenOK
    <2>9. CASE tx[o].op = "SetPlayerState"
        <3>1. SetPlayerStateOK(o, r, u)
            BY <1>6, <2>1, <2>9 DEF WrittenOK
        <3>2. SetPlayerStateOK(o, r, u)'
            BY <1>1, <1>5, <2>3, <2>4, <3>1 DEF SetPlayerStateOK, InRoom
        <3>3. QED
            BY <1>1, <2>1, <2>9, <3>2 DEF WrittenOK
    <2>10. QED
        BY <1>8, <2>6, <2>7, <2>8, <2>9 DEF Orderlies
<1>9. CASE tx[o].op = "Update"
    <2>1. PICK r \in RoomIds : r = tx[o].id
        BY <1>9, CommitIs, ArgumentsOf
    <2>2. UpdateOK(o, r)
        BY <1>6, <1>9, <2>1 DEF WrittenOK
    <2>3. UpdateOK(o, r)'
        BY <1>1, <1>2, <1>4, <2>2 DEF UpdateOK, Exists, Rows
    <2>4. QED
        BY <1>1, <1>9, <2>1, <2>3 DEF WrittenOK
<1>10. CASE tx[o].op = "Delete"
    <2>1. PICK r \in RoomIds : r = tx[o].id /\ r \in Rows
        BY <1>10, CommitIs, ArgumentsOf DEF Rows
    <2>2. DeleteOK(o, r)
        BY <1>6, <1>10, <2>1 DEF WrittenOK
    \* No player comes into a room whose row is locked to be deleted.
    <2>3. ASSUME NEW u \in Users, InRoom(u, r)', ~InRoom(u, r), Touched(o, r) PROVE FALSE
        <3>1. r \in Addressed(t)
            BY <1>3, <2>1, <2>3, NewMember
        <3>2. held[o][r] = "Update" /\ LockMode[Statement(t)] = "KeyShare"
            BY <2>2, <2>3, CommitIs DEF DeleteOK, At, LockMode
        <3>3. o \in HeldByOthers(t, r)
            BY <3>2, ConflictsOfLocks DEF HeldByOthers
        <3>4. QED
            BY <3>1, <3>3, CommitIs DEF Blockers
    <2>4. ASSUME NEW u \in Users, Touched(o, u) PROVE InRoom(u, r)' <=> InRoom(u, r)
        BY <1>5, <2>4 DEF InRoom
    <2>5. DeleteOK(o, r)'
        <3>1. ASSUME NEW x \in Rows, Touched(o, x)
              PROVE  /\ tx'[o].pc >= 2 /\ new'[o][x] = NoRow
                     /\ x = r \/ (x \in Users /\ Touched(o, r)' /\ InRoom(x, r)')
            BY <1>1, <1>2, <2>1, <2>2, <2>4, <3>1 DEF DeleteOK
        <3>2. Touched(o, r) => Exists(r)' /\ held'[o][r] = "Update"
            BY <1>1, <1>4, <2>1, <2>2 DEF DeleteOK, Exists
        <3>3. ASSUME tx'[o].pc = 3, Touched(o, r), NEW u \in Users, InRoom(u, r)'
              PROVE  Touched(o, u)
            BY <1>1, <2>2, <2>3, <3>3 DEF DeleteOK
        <3>4. \A u \in Users : Touched(o, u)' <=> Touched(o, u)
            BY <1>2 DEF Rows
        <3>5. QED
            BY <1>2, <2>1, <3>1, <3>2, <3>3, <3>4 DEF DeleteOK
    <2>6. QED
        BY <1>1, <1>10, <2>1, <2>5 DEF WrittenOK
<1>11. QED
    BY <1>7, <1>8, <1>9, <1>10, CommitIs, ArgumentsOf

LEMMA CommitInv ==
    ASSUME Inv, NEW t \in Txs, Commit(t)
    PROVE  Inv'
<1>1. TypeOK' /\ Exclusive'
    BY CommitTypes
<1>2. TablesOK'
    <2>1. CASE UNCHANGED <<room, player, clock>>
        BY <2>1, CommitIs, SameTables
    <2>2. CASE Atomically(t)
        BY <2>2, CommitIs, AtomicallyTables
    <2>3. QED
        BY <2>1, <2>2, CommitImplements
<1>3. WrittenOK(t)'
    BY CommitIs, EndTypes, OverOK DEF Inv
<1>4. \A o \in Txs : WrittenOK(o)'
    BY <1>3, CommitOthers
<1>5. QED
    BY <1>1, <1>2, <1>4 DEF Inv

-----------------------------------------------------------------------------
(* The invariant, and what follows from it.                                *)

LEMMA InitInv == Init => Inv
<1> SUFFICES ASSUME Init PROVE Inv
    OBVIOUS
<1>1. /\ room = [r \in RoomIds |-> NoRow] /\ player = [u \in Users |-> NoRow] /\ clock = 0
      /\ tx = [t \in Txs |-> NoTx] /\ held = [t \in Txs |-> NoLocks]
      /\ new = [t \in Txs |-> NoWrites]
    BY DEF Init, RepositoryInit
<1>2. NoTx \in TxRecords /\ NoLocks \in [Rows -> {"None", "NoKeyUpdate", "Update"}]
    BY DEF TxRecords, NoLocks
<1>3. /\ NoWrites \in [Rows -> RoomRows \cup PlayerRows \cup {NoRow}]
      /\ \A x \in Rows : NoWrites[x] = NoRow
    BY DEF NoWrites
<1>4. TypeOK
    BY <1>1, <1>2, <1>3 DEF TypeOK, Rows
<1>5. \A t \in Txs, x \in Rows : ~Touched(t, x)
    BY <1>1 DEF Touched, NoLocks
<1>6. \A t \in Txs : WrittenOK(t)
    BY <1>1, <1>5 DEF WrittenOK, NoneOK, NoTx
<1>7. TablesOK
    BY <1>1 DEF TablesOK, ReferencesOK, StampsOK, Exists
<1>8. QED
    BY <1>4, <1>5, <1>6, <1>7 DEF Inv, Exclusive

LEMMA NextInv == Inv /\ [Next]_vars => Inv'
<1> SUFFICES ASSUME Inv, [Next]_vars PROVE Inv'
    OBVIOUS
<1>1. ASSUME NEW t \in Txs, Start(t) PROVE Inv'
    BY <1>1, StartInv
<1>2. ASSUME NEW t \in Txs, Execute(t) PROVE Inv'
    <2>1. CASE InsertRoom(t)
        BY <2>1, InsertRoomInv
    <2>2. CASE InsertPlayer(t)
        BY <2>2, InsertPlayerInv
    <2>3. CASE DeletePlayer(t)
        BY <2>3, DeletePlayerInv
    <2>4. CASE UpdatePlayer(t)
        BY <2>4, UpdatePlayerInv
    <2>5. CASE Stamp(t)
        BY <2>5, StampInv
    <2>6. CASE UpdateRoom(t)
        BY <2>6, UpdateRoomInv
    <2>7. CASE DeleteRoom(t)
        BY <2>7, DeleteRoomInv
    <2>8. CASE \E u \in Users : CascadeTo(t, u)
        BY <2>8, CascadeToInv
    <2>9. CASE CascadeEnds(t)
        BY <2>9, CascadeEndsInv
    <2>10. CASE Commit(t)
        BY <2>10, CommitInv
    <2>11. CASE CommitFails(t)
        BY <2>11, AbortInv DEF CommitFails
    <2>12. QED
        BY <1>2, <2>1, <2>2, <2>3, <2>4, <2>5, <2>6, <2>7, <2>8, <2>9, <2>10, <2>11 DEF Execute
<1>3. ASSUME NEW t \in Txs, Deadlock(t) \/ Cancel(t) PROVE Inv'
    BY <1>3, AbortInv DEF Deadlock, Cancel
<1>4. CASE UNCHANGED vars
    <2>1. \A o \in Txs : WrittenOK(o)'
        BY <1>4, OthersOK DEF vars
    <2>2. TablesOK'
        BY <1>4, SameTables DEF vars, Inv
    <2>3. QED
        BY <1>4, <2>1, <2>2 DEF vars, Inv, TypeOK, Exclusive, Touched
<1>5. QED
    BY <1>1, <1>2, <1>3, <1>4 DEF Next

LEMMA SpecInv == Spec => []Inv
<1>1. QED
    BY InitInv, NextInv, PTL DEF Spec

\* The rows, the transactions, their locks and what they have written are
\* such values, whatever the interleaving of their statements.
THEOREM TypeCorrect == Spec => []TypeOK
<1>1. Inv => TypeOK
    BY DEF Inv
<1>2. QED
    BY <1>1, SpecInv, PTL

\* Which statement an orderly transaction is at, given what it holds.
LEMMA OrderlyHolds ==
    ASSUME Inv, NEW o \in Orderly, NEW x \in Rows, Touched(o, x)
    PROVE  /\ x \in RoomIds /\ Exists(x) => At(o, "Commit") /\ held[o][x] = "NoKeyUpdate"
           /\ x \in RoomIds => At(o, "Commit") \/ At(o, "InsertPlayer")
           /\ x \in Users => At(o, "Commit") \/ At(o, "Stamp")
<1>1. o \in Txs /\ TypeOK /\ WrittenOK(o)
    BY DEF Inv, Orderly
<1>2. tx[o].op \in Orderlies
    <2>1. tx[o].op # "None"
        BY <1>1 DEF WrittenOK, NoneOK
    <2>2. QED
        BY <1>1, <2>1, ArgumentsOf DEF Orderly
<1>3. PICK r \in RoomIds, u \in Users : r = tx[o].id /\ u = tx[o].user
    BY <1>1, <1>2, ArgumentsOf DEF Orderlies
<1>4. tx[o].pc \in 1..3 /\ RoomIds \cap Users = {}
    BY <1>1, ArgumentsOf, Sentinels
<1>5. CASE tx[o].op = "Create"
    <2>1. CreateOK(o, r, u)
        BY <1>1, <1>3, <1>5 DEF WrittenOK
    <2>2. (x = r /\ tx[o].pc >= 2 /\ ~Exists(r)) \/ (x = u /\ tx[o].pc = 3)
        BY <1>4, <2>1 DEF CreateOK, OnlyTouched
    <2>3. tx[o].pc >= 2 => At(o, "Commit") \/ At(o, "InsertPlayer")
        BY <1>1, <1>4, <1>5, StatementIs DEF Orderlies
    <2>4. tx[o].pc = 3 => At(o, "Commit")
        BY <1>1, <1>5, StatementIs DEF Orderlies
    <2>5. QED
        BY <1>3, <1>4, <2>2, <2>3, <2>4
<1>6. CASE tx[o].op # "Create"
    <2>1. OnlyTouched(o, r, 3, u, 2) /\ StampOK(o, r)
        BY <1>1, <1>2, <1>3, <1>6
           DEF WrittenOK, AddPlayerOK, RemovePlayerOK, SetPlayerStateOK, Orderlies
    <2>2. (x = r /\ tx[o].pc = 3) \/ (x = u /\ tx[o].pc >= 2)
        BY <1>4, <2>1 DEF OnlyTouched
    <2>3. x = r => held[o][x] = "NoKeyUpdate"
        BY <2>1 DEF StampOK
    <2>4. tx[o].pc = 3 => At(o, "Commit")
        BY <1>1, <1>2, StatementIs
    <2>5. tx[o].pc >= 2 => At(o, "Commit") \/ At(o, "Stamp")
        BY <1>1, <1>2, <1>4, <1>6, StatementIs DEF Orderlies
    <2>6. QED
        BY <1>3, <1>4, <2>2, <2>3, <2>4, <2>5
<1>7. QED
    BY <1>5, <1>6

\* And which rows it may wait for.
LEMMA OrderlyAddresses ==
    ASSUME Inv, NEW t \in Orderly, NEW x \in Addressed(t)
    PROVE  /\ x \in Rows
           /\ At(t, "Commit") \/ At(t, "Stamp") => x \in RoomIds /\ Exists(x)
           /\ At(t, "InsertPlayer") \/ At(t, "DeletePlayer") \/ At(t, "UpdatePlayer")
                => x \in Users
           /\ At(t, "InsertRoom") => x \in RoomIds
           /\ ~At(t, "Idle")
<1>1. t \in Txs /\ TypeOK /\ WrittenOK(t)
    BY DEF Inv, Orderly
<1>2. x \in Rows /\ (x \in RoomIds \/ x \in Users)
    BY DEF Addressed, Rows
<1>3. NewReferences(t) = {}
    <2> SUFFICES ASSUME NEW r \in RoomIds, Touched(t, r), Exists(r), new[t][r] # room[r]
                 PROVE  FALSE
        BY DEF NewReferences
    <2>1. r \in Rows /\ r \notin Users
        BY Sentinels DEF Rows
    <2>2. tx[t].op \in Orderlies
        <3>1. tx[t].op # "None"
            BY <1>1, <2>1 DEF WrittenOK, NoneOK
        <3>2. QED
            BY <1>1, <3>1, ArgumentsOf DEF Orderly
    <2>3. tx[t].user \in Users
        BY <1>1, <2>2, ArgumentsOf
    <2>4. CASE tx[t].op = "Create"
        BY <1>1, <2>1, <2>3, <2>4 DEF WrittenOK, CreateOK, OnlyTouched
    <2>5. CASE tx[t].op # "Create"
        <3>1. OnlyTouched(t, tx[t].id, 3, tx[t].user, 2) /\ StampOK(t, tx[t].id)
            BY <1>1, <2>2, <2>5
               DEF WrittenOK, AddPlayerOK, RemovePlayerOK, SetPlayerStateOK, Orderlies
        <3>2. QED
            BY <2>1, <2>3, <3>1 DEF OnlyTouched, StampOK
    <2>6. QED
        BY <2>4, <2>5
<1>4. Referring(t) \subseteq {r \in RoomIds : Exists(r)}
    BY DEF Referring, RefersTo
<1>5. At(t, "Commit") \/ At(t, "Stamp") => x \in RoomIds /\ Exists(x)
    BY <1>3, <1>4 DEF Addressed, At
<1>6. At(t, "InsertPlayer") \/ At(t, "DeletePlayer") \/ At(t, "UpdatePlayer") => x \in Users
    BY DEF Addressed, At
<1>7. At(t, "InsertRoom") => x \in RoomIds
    BY DEF Addressed, At
<1>8. ~At(t, "Idle")
    BY DEF Addressed, At
<1>9. QED
    BY <1>2, <1>5, <1>6, <1>7, <1>8

LEMMA Orderliness == Inv => OrderlyNeverDeadlock
<1> SUFFICES ASSUME Inv, NEW C \in SUBSET Orderly, C # {}
             PROVE  \E t \in C : Blockers(t) \cap C = {}
    BY DEF OrderlyNeverDeadlock
\* A blocker has touched a row that the blocked one addresses.
<1>1. ASSUME NEW t \in C, NEW o \in C, o \in Blockers(t)
      PROVE  \E x \in Addressed(t) : /\ Touched(o, x)
                                     /\ Conflicts(held[o][x], LockMode[Statement(t)])
    <2>1. PICK x \in Addressed(t) : o \in HeldByOthers(t, x)
        BY <1>1 DEF Blockers
    <2>2. t \in Txs /\ TypeOK
        BY DEF Orderly, Inv
    <2>3. LockMode[Statement(t)] \in {"None", "Update", "NoKeyUpdate", "KeyShare"}
        BY <2>2, StatementIs DEF LockMode
    <2>4. held[o][x] # "None"
        BY <2>1, <2>3, ConflictsOfLocks DEF HeldByOthers
    <2>5. QED
        BY <2>1, <2>4 DEF HeldByOthers, Touched
<1>2. CASE \E t \in C : At(t, "Commit")
    <2>1. PICK t \in C : At(t, "Commit")
        BY <1>2
    <2>2. ASSUME NEW o \in C, o \in Blockers(t) PROVE FALSE
        <3>1. PICK x \in Addressed(t) : /\ Touched(o, x)
                                        /\ Conflicts(held[o][x], LockMode[Statement(t)])
            BY <1>1, <2>2
        <3>2. x \in Rows /\ x \in RoomIds /\ Exists(x)
            BY <2>1, OrderlyAddresses
        <3>3. held[o][x] = "NoKeyUpdate"
            BY <3>1, <3>2, OrderlyHolds
        <3>4. LockMode[Statement(t)] = "KeyShare"
            BY <2>1 DEF At, LockMode
        <3>5. QED
            BY <3>1, <3>3, <3>4, ConflictsOfLocks
    <2>3. QED
        BY <2>2
<1>3. CASE (~\E t \in C : At(t, "Commit")) /\ \E t \in C : At(t, "Stamp")
    <2>1. PICK t \in C : At(t, "Stamp")
        BY <1>3
    <2>2. ASSUME NEW o \in C, o \in Blockers(t) PROVE FALSE
        <3>1. PICK x \in Addressed(t) : Touched(o, x)
            BY <1>1, <2>2
        <3>2. x \in Rows /\ x \in RoomIds /\ Exists(x)
            BY <2>1, OrderlyAddresses
        <3>3. QED
            BY <1>3, <3>1, <3>2, OrderlyHolds
    <2>3. QED
        BY <2>2
<1> DEFINE OnPlayer(t) == At(t, "InsertPlayer") \/ At(t, "DeletePlayer") \/ At(t, "UpdatePlayer")
<1>4. CASE /\ \A t \in C : ~At(t, "Commit") /\ ~At(t, "Stamp")
           /\ \E t \in C : OnPlayer(t)
    <2>1. PICK t \in C : OnPlayer(t)
        BY <1>4
    <2>2. ASSUME NEW o \in C, o \in Blockers(t) PROVE FALSE
        <3>1. PICK x \in Addressed(t) : Touched(o, x)
            BY <1>1, <2>2
        <3>2. x \in Rows /\ x \in Users
            BY <2>1, OrderlyAddresses
        <3>3. QED
            BY <1>4, <3>1, <3>2, OrderlyHolds
    <2>3. QED
        BY <2>2
<1>5. CASE \A t \in C : ~At(t, "Commit") /\ ~At(t, "Stamp") /\ ~OnPlayer(t)
    <2>1. PICK t \in C : TRUE
        OBVIOUS
    <2>2. At(t, "InsertRoom") \/ At(t, "Idle")
        <3>1. t \in Txs /\ TypeOK /\ tx[t].op \in Orderlies \cup {"None"}
            BY ArgumentsOf DEF Orderly, Inv
        <3>2. tx[t].pc \in 1..3
            BY <3>1, ArgumentsOf
        <3>3. QED
            BY <1>5, <3>1, <3>2, StatementIs DEF Orderlies
    <2>3. ASSUME NEW o \in C, o \in Blockers(t) PROVE FALSE
        <3>1. PICK x \in Addressed(t) : Touched(o, x)
            BY <1>1, <2>3
        <3>2. x \in Rows /\ x \in RoomIds
            BY <2>2, OrderlyAddresses
        <3>3. QED
            BY <1>5, <3>1, <3>2, OrderlyHolds
    <2>4. QED
        BY <2>3
<1>6. QED
    BY <1>2, <1>3, <1>4, <1>5

\* However many requests add, remove or change players at the same time,
\* those transactions never wait for each other in a circle, since each
\* locks a player before an existing room.
THEOREM NeverDeadlock == Spec => []OrderlyNeverDeadlock
<1>1. QED
    BY SpecInv, Orderliness, PTL

ImplementsStep ==
    \/ UNCHANGED <<room, player, clock>>
    \/ \E t \in Txs : At(t, "Commit") /\ tx'[t] = NoTx /\ Atomically(t)

LEMMA NextImplements == Inv /\ [Next]_vars => ImplementsStep
<1> SUFFICES ASSUME Inv, NEW t \in Txs,
                    Start(t) \/ Execute(t) \/ Deadlock(t) \/ Cancel(t)
             PROVE  \/ UNCHANGED <<room, player, clock>>
                    \/ At(t, "Commit") /\ tx'[t] = NoTx /\ Atomically(t)
    BY DEF Next, ImplementsStep, vars
<1>1. CASE Commit(t)
    <2>1. At(t, "Commit") /\ tx'[t] = NoTx
        BY <1>1, CommitIs, EndTypes DEF Inv
    <2>2. QED
        BY <1>1, <2>1, CommitImplements
<1>2. CASE Start(t)
    BY <1>2 DEF Start, BeginCreate, BeginAddPlayer, BeginRemovePlayer,
                BeginSetPlayerState, BeginUpdate, BeginDelete, Begin
<1>3. CASE Execute(t) /\ ~Commit(t)
    BY <1>3 DEF Execute, InsertRoom, InsertPlayer, DeletePlayer, UpdatePlayer, Stamp,
                UpdateRoom, DeleteRoom, CascadeTo, CascadeEnds, CommitFails,
                Abort, Write, NoRows
<1>4. CASE Deadlock(t) \/ Cancel(t)
    BY <1>4 DEF Deadlock, Cancel, Abort
<1>5. QED
    BY <1>1, <1>2, <1>3, <1>4

\* RoomRepository is right to take the repository's methods to be atomic:
\* each step of the statements changes nothing in the tables or does to them
\* what one operation that RoomRepository allows does.
THEOREM Implementation == Spec => ImplementsRepository
<1>1. Inv /\ [Next]_vars =>
          [\/ UNCHANGED <<room, player, clock>>
           \/ \E t \in Txs : At(t, "Commit") /\ tx'[t] = NoTx /\ Atomically(t)]_vars
    BY NextImplements DEF ImplementsStep
<1>2. QED
    BY <1>1, SpecInv, PTL DEF Spec, ImplementsRepository

-----------------------------------------------------------------------------
(* The tables that others read.                                            *)

\* Who is in a room, is in one that there is.
RoomsOK == \A u \in Users : Placed(u) => player[u].room \in RoomIds /\ Exists(player[u].room)

LEMMA AtomicallyRooms ==
    ASSUME TypeOK, TablesOK, RoomsOK, NEW t \in Txs, Atomically(t)
    PROVE  RoomsOK'
<1> DEFINE r == tx[t].id
           u == tx[t].user
           row == tx[t].row
<1>1. r \in RoomIds
    BY ArgumentsOf DEF Atomically
<1> SUFFICES ASSUME NEW v \in Users, player'[v] # NoRow
             PROVE  player'[v].room \in RoomIds /\ room'[player'[v].room] # NoRow
    BY DEF RoomsOK, Placed, Exists
<1>2. player[v] # NoRow => player[v].room \in RoomIds /\ room[player[v].room] # NoRow
    BY DEF RoomsOK, Placed, Exists
<1>3. player[v] # NoRow => player[v] \in PlayerRows
    BY DEF TypeOK
\* Rooms stay, except in Delete.
<1>4. CASE tx[t].op = "Create"
    <2>1. CreateAllowed(r, u) /\ Create(r, u) /\ u \in Users
        BY <1>4, ArgumentsOf DEF Atomically, Orderlies
    <2>2. room'[r] = CreatedRoom(u) /\ CreatedRoom(u) \in RoomRows
        BY <1>1, <2>1 DEF Create, CreatedRoom, TypeOK, RoomRows, EmptyRoomState, RoomStates
    <2>3. \A x \in RoomIds : room[x] # NoRow => room'[x] # NoRow
        BY <1>1, <2>1, <2>2, Sentinels DEF Create, TypeOK
    <2>4. CASE v = u
        BY <1>1, <2>1, <2>2, <2>4, Sentinels DEF Create, TypeOK
    <2>5. CASE v # u
        BY <1>2, <2>1, <2>3, <2>5 DEF Create, TypeOK
    <2>6. QED BY <2>4, <2>5
<1>5. CASE tx[t].op = "AddPlayer"
    <2>1. AddPlayerAllowed(r, u) /\ AddPlayer(r, u) /\ u \in Users
        BY <1>5, ArgumentsOf DEF Atomically, Orderlies
    <2>2. room' = room
        BY <1>1, <2>1, StampedSame DEF AddPlayer
    <2>3. CASE v = u
        BY <1>1, <2>1, <2>2, <2>3 DEF AddPlayer, AddPlayerAllowed, Exists, TypeOK
    <2>4. CASE v # u
        BY <1>2, <2>1, <2>2, <2>4 DEF AddPlayer, TypeOK
    <2>5. QED BY <2>3, <2>4
<1>6. CASE tx[t].op = "RemovePlayer"
    <2>1. RemovePlayer(r, u) /\ u \in Users
        BY <1>6, ArgumentsOf DEF Atomically, Orderlies
    <2>2. room' = room
        BY <1>1, <2>1, StampedSame DEF RemovePlayer
    <2>3. QED BY <1>2, <2>1, <2>2 DEF RemovePlayer, TypeOK
<1>7. CASE tx[t].op = "SetPlayerState"
    <2>1. SetPlayerState(r, u, tx[t].state) /\ u \in Users
        BY <1>7, ArgumentsOf DEF Atomically, Orderlies
    <2>2. room' = room
        BY <1>1, <2>1, StampedSame DEF SetPlayerState
    <2>3. player[v] # NoRow
        BY <2>1 DEF SetPlayerState, InRoom, TypeOK
    <2>4. player'[v].room = player[v].room
        BY <1>3, <2>1, <2>3 DEF SetPlayerState, TypeOK, PlayerRows
    <2>5. QED BY <1>2, <2>2, <2>3, <2>4
<1>8. CASE tx[t].op = "Update"
    <2>1. Update(r, row) /\ row \in RoomRows
        BY <1>8, ArgumentsOf DEF Atomically
    <2>2. [row EXCEPT !.updated = clock] \in RoomRows
        BY <2>1 DEF RoomRows, TypeOK
    <2>3. \A x \in RoomIds : room[x] # NoRow => room'[x] # NoRow
        BY <1>1, <2>1, <2>2, Sentinels DEF Update, TypeOK
    <2>4. QED BY <1>2, <2>1, <2>3 DEF Update
<1>9. CASE tx[t].op = "Delete"
    <2>1. Delete(r)
        BY <1>9 DEF Atomically
    <2>2. ~InRoom(v, r) /\ player'[v] = player[v]
        BY <2>1 DEF Delete
    <2>3. player[v].room # r
        BY <2>2 DEF InRoom
    <2>4. QED BY <1>1, <1>2, <2>1, <2>2, <2>3 DEF Delete, TypeOK
<1>10. QED BY <1>4, <1>5, <1>6, <1>7, <1>8, <1>9 DEF Atomically

\* Whatever transactions have locked and written so far, what others read of
\* the tables is whole at every moment: players are in rooms, and hosts and
\* turn players are players, that there are.
CommittedReferencesHold == RoomsOK /\ ReferencesOK

\* The checks of the deferred keys, each made at a commit against rows that
\* others are changing, never let a reference dangle (migrations, REFERENCES,
\* and the order of the statements in the methods of the repository).
THEOREM CommittedReferencesAlwaysHold == Spec => []CommittedReferencesHold
<1>1. Init => RoomsOK
    BY DEF Init, RepositoryInit, RoomsOK, Placed
<1>2. Inv /\ RoomsOK /\ [Next]_vars /\ ImplementsStep => RoomsOK'
    <2> SUFFICES ASSUME Inv, RoomsOK, ImplementsStep PROVE RoomsOK'
        OBVIOUS
    <2>1. CASE UNCHANGED <<room, player, clock>>
        BY <2>1 DEF RoomsOK, Placed, Exists
    <2>2. CASE ~UNCHANGED <<room, player, clock>>
        BY <2>2, AtomicallyRooms DEF Inv, ImplementsStep
    <2>3. QED BY <2>1, <2>2
<1>3. Inv /\ [Next]_vars => ImplementsStep
    BY NextImplements
<1>4. Inv /\ RoomsOK => CommittedReferencesHold
    BY DEF Inv, TablesOK, CommittedReferencesHold
<1>5. QED
    BY <1>1, <1>2, <1>3, <1>4, SpecInv, PTL DEF Spec
=============================================================================
