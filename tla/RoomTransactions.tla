-------------------------- MODULE RoomTransactions --------------------------
(***************************************************************************)
(* The writing transactions of the room repository                         *)
(* (internal/room/repository.go), one SQL statement at a time, under the   *)
(* row locks and the deferred foreign keys of PostgreSQL at its default    *)
(* isolation level, READ COMMITTED.  RoomRepository takes each of them to  *)
(* be atomic; this module is where that is shown.                          *)
(*                                                                         *)
(* A statement locks the row it writes (or the key it inserts) until its   *)
(* transaction ends, and waits while another transaction holds a lock that *)
(* conflicts; only rows that are committed are seen.  The commit checks    *)
(* the keys that the transaction has touched, which reads, and may wait    *)
(* for, rows of others.  Transactions that wait for each other are found   *)
(* by the database, which aborts one of them; the repository does not try  *)
(* again.  Locks, waiting and checks are the database's; the order of the  *)
(* statements and what they address are the repository's.                  *)
(*                                                                         *)
(* A transaction starts with any arguments that a handler, which read the  *)
(* tables some time before, may give it.  The clock stands still: stamps   *)
(* are the subject of RoomRefresh.                                         *)
(***************************************************************************)
EXTENDS RoomRepository, Sequences

CONSTANTS
    Txs,     \* transactions that may be open at once
    NoRoom   \* the room of no transaction

ASSUME TransactionAssumption ==
    /\ RoomIds \cap Users = {}
    /\ NoRoom \notin RoomIds

VARIABLES
    tx,    \* tx[t]: the method that t runs, its arguments and how far it is
    held,  \* held[t][x]: the lock of t on row x
    new    \* new[t][x]: what t, once it holds row x, has written to it

vars == <<room, player, clock, tx, held, new>>

\* Fault: RemovePlayer stamps the room before it deletes the player.
Statements_StampFirst ==
    [None |-> <<"Idle">>,
     Create |-> <<"InsertRoom", "InsertPlayer", "Commit">>,
     AddPlayer |-> <<"InsertPlayer", "Stamp", "Commit">>,
     RemovePlayer |-> <<"Stamp", "DeletePlayer", "Commit">>,
     SetPlayerState |-> <<"UpdatePlayer", "Stamp", "Commit">>,
     Update |-> <<"UpdateRoom", "Commit">>,
     Delete |-> <<"DeleteRoom", "Cascade", "Commit">>]

\* The statements of each method, in their order.
Statements ==
    [None |-> <<"Idle">>,
     Create |-> <<"InsertRoom", "InsertPlayer", "Commit">>,
     AddPlayer |-> <<"InsertPlayer", "Stamp", "Commit">>,
     RemovePlayer |-> <<"DeletePlayer", "Stamp", "Commit">>,
     SetPlayerState |-> <<"UpdatePlayer", "Stamp", "Commit">>,
     Update |-> <<"UpdateRoom", "Commit">>,
     Delete |-> <<"DeleteRoom", "Cascade", "Commit">>]

\* The lock that a statement takes: FOR UPDATE if a row comes or goes, FOR NO
\* KEY UPDATE if no key changes, FOR KEY SHARE to check a foreign key.
LockMode ==
    [Idle |-> "None",
     InsertRoom |-> "Update", InsertPlayer |-> "Update",
     DeletePlayer |-> "Update", DeleteRoom |-> "Update", Cascade |-> "Update",
     UpdatePlayer |-> "NoKeyUpdate", UpdateRoom |-> "NoKeyUpdate",
     Stamp |-> "NoKeyUpdate",
     Commit |-> "KeyShare"]

Conflicts(m, n) ==
    {m, n} \in {{"Update"}, {"NoKeyUpdate"}, {"Update", "NoKeyUpdate"},
                {"Update", "KeyShare"}}

Rows == RoomIds \cup Users

NoTx == [op |-> "None", pc |-> 1, id |-> NoRoom, user |-> Nobody,
         row |-> NoRow, state |-> EmptyState]

NoLocks == [x \in Rows |-> "None"]

NoWrites == [x \in Rows |-> NoRow]

Init ==
    /\ RepositoryInit
    /\ tx = [t \in Txs |-> NoTx]
    /\ held = [t \in Txs |-> NoLocks]
    /\ new = [t \in Txs |-> NoWrites]

Statement(t) == Statements[tx[t].op][tx[t].pc]

At(t, s) == Statement(t) = s

Touched(t, x) == held[t][x] # "None"

-----------------------------------------------------------------------------
(* Waiting.                                                                *)

\* The users that a written room refers to and its committed row did not.
NewReferences(t) ==
    {u \in Users : \E r \in RoomIds :
        /\ Touched(t, r)
        /\ Exists(r)
        /\ new[t][r] # NoRow
        /\ \/ u = new[t][r].owner /\ u # room[r].owner
           \/ u = new[t][r].turn /\ u # room[r].turn}

\* Committed rooms, not deleted by t itself, that refer to a player that t
\* deletes.
Referring(t) ==
    {r \in RoomIds :
        /\ ~(Touched(t, r) /\ new[t][r] = NoRow)
        /\ \E u \in Users : Touched(t, u) /\ new[t][u] = NoRow /\ RefersTo(r, u)}

\* The rows that the next statement of t locks.  An insert locks a key that
\* no row has yet; any other statement finds committed rows only.
Addressed(t) ==
    {r \in RoomIds : r = tx[t].id /\
        \/ At(t, "InsertRoom")
        \/ Exists(r) /\ Statement(t) \in {"Stamp", "UpdateRoom", "DeleteRoom"}
        \/ Exists(r) /\ At(t, "Commit") /\ tx[t].op = "AddPlayer"}
    \cup {r \in RoomIds : At(t, "Commit") /\ r \in Referring(t)}
    \cup {u \in Users : u = tx[t].user /\
        \/ At(t, "InsertPlayer")
        \/ At(t, "DeletePlayer") /\ Placed(u)
        \/ At(t, "UpdatePlayer") /\ InRoom(u, tx[t].id)}
    \cup {u \in Users : At(t, "Cascade") /\ Touched(t, tx[t].id)
                        /\ InRoom(u, tx[t].id) /\ ~Touched(t, u)}
    \cup {u \in Users : At(t, "Commit") /\ u \in NewReferences(t) /\ Placed(u)}

HeldByOthers(t, x) ==
    {o \in Txs \ {t} : Conflicts(held[o][x], LockMode[Statement(t)])}

\* The transactions that t waits for.
Blockers(t) == UNION {HeldByOthers(t, x) : x \in Addressed(t)}

\* t waits, through others, for itself: it is in every set of transactions
\* that has the blockers of t and of its own members.
InCycle(t) ==
    \A S \in SUBSET Txs :
        (Blockers(t) \subseteq S /\ \A o \in S : Blockers(o) \subseteq S) => t \in S

-----------------------------------------------------------------------------
(* The beginning and the end of a transaction.                             *)

Begin(t, op, r, u, row, s) ==
    /\ At(t, "Idle")
    /\ tx' = [tx EXCEPT ![t] = [op |-> op, pc |-> 1, id |-> r, user |-> u,
                                row |-> row, state |-> s]]
    /\ UNCHANGED <<room, player, clock, held, new>>

End(t) ==
    /\ tx' = [tx EXCEPT ![t] = NoTx]
    /\ held' = [held EXCEPT ![t] = NoLocks]
    /\ new' = [new EXCEPT ![t] = NoWrites]

\* Fault: an error returns without a rollback.
Abort_NoRollback(t) ==
    /\ tx' = [tx EXCEPT ![t] = NoTx]
    /\ UNCHANGED <<room, player, clock, held, new>>

\* An error rolls back.
Abort(t) == End(t) /\ UNCHANGED <<room, player, clock>>

\* Faults: one of the foreign keys is missing, or is not checked at commit.
ChecksPass_NoTurnKey(t) ==
    /\ tx[t].op = "AddPlayer" => Exists(tx[t].id)
    /\ \A u \in NewReferences(t) : Placed(u)
    /\ \A r \in Referring(t) : ~Touched(t, room[r].owner)

\* The deferred foreign keys: the room of a new player, the players that a
\* room newly refers to, and the rooms that refer to a deleted player.
ChecksPass(t) ==
    /\ tx[t].op = "AddPlayer" => Exists(tx[t].id)
    /\ \A u \in NewReferences(t) : Placed(u)
    /\ Referring(t) = {}

Commit(t) ==
    /\ At(t, "Commit")
    /\ Blockers(t) = {}
    /\ ChecksPass(t)
    /\ room' = [r \in RoomIds |-> IF Touched(t, r) THEN new[t][r] ELSE room[r]]
    /\ player' = [u \in Users |-> IF Touched(t, u) THEN new[t][u] ELSE player[u]]
    /\ UNCHANGED clock
    /\ End(t)

CommitFails(t) ==
    /\ At(t, "Commit")
    /\ Blockers(t) = {}
    /\ ~ChecksPass(t)
    /\ Abort(t)

\* The database finds transactions that wait for each other.
Deadlock(t) == InCycle(t) /\ Abort(t)

\* The client disconnects, or the connection to the database is lost.
Cancel(t) == ~At(t, "Idle") /\ Abort(t)

-----------------------------------------------------------------------------
(* The methods, with what their callers know.                              *)

BeginCreate(t, r, u) == Begin(t, "Create", r, u, NoRow, EmptyState)

BeginAddPlayer(t, r, u) ==
    /\ Exists(r)
    /\ ~room[r].frozen
    /\ Begin(t, "AddPlayer", r, u, NoRow, EmptyState)

BeginRemovePlayer(t, r, u) == Begin(t, "RemovePlayer", r, u, NoRow, EmptyState)

BeginSetPlayerState(t, r, u, s) == Begin(t, "SetPlayerState", r, u, NoRow, s)

\* The host freezes the room and takes the turn, or gives it to a member.
BeginUpdate(t, r, u, frozen) ==
    /\ Exists(r)
    /\ IF frozen THEN u = room[r].owner ELSE u \in Members(r)
    /\ Begin(t, "Update", r, Nobody,
             [room[r] EXCEPT !.turn = u, !.frozen = frozen \/ @], EmptyState)

BeginDelete(t, r) ==
    /\ Exists(r)
    /\ Begin(t, "Delete", r, Nobody, NoRow, EmptyState)

-----------------------------------------------------------------------------
(* The statements.                                                         *)

Reached(t, s) == At(t, s) /\ Blockers(t) = {}

Proceed(t) == tx' = [tx EXCEPT ![t].pc = @ + 1]

\* The statement locks row x and writes it.
Write(t, x, row) ==
    /\ held' = [held EXCEPT ![t][x] = LockMode[Statement(t)]]
    /\ new' = [new EXCEPT ![t][x] = row]
    /\ UNCHANGED <<room, player, clock>>

\* The statement finds no row.
NoRows == UNCHANGED <<room, player, clock, held, new>>

InsertRoom(t) ==
    /\ Reached(t, "InsertRoom")
    /\ IF Exists(tx[t].id)
       THEN Abort(t)
       ELSE /\ Write(t, tx[t].id,
                     [owner |-> tx[t].user, turn |-> Nobody, frozen |-> FALSE,
                      state |-> EmptyRoomState, updated |-> clock])
            /\ Proceed(t)

\* Fault: the column default of player.state is missing.
InsertPlayer_NoDefault(t) ==
    /\ Reached(t, "InsertPlayer")
    /\ IF Placed(tx[t].user)
       THEN Abort(t)
       ELSE /\ Write(t, tx[t].user, [room |-> tx[t].id, state |-> NoRow])
            /\ Proceed(t)

InsertPlayer(t) ==
    /\ Reached(t, "InsertPlayer")
    /\ IF Placed(tx[t].user)
       THEN Abort(t)
       ELSE /\ Write(t, tx[t].user, [room |-> tx[t].id, state |-> EmptyState])
            /\ Proceed(t)

DeletePlayer(t) ==
    /\ Reached(t, "DeletePlayer")
    /\ IF Placed(tx[t].user) THEN Write(t, tx[t].user, NoRow) ELSE NoRows
    /\ Proceed(t)

UpdatePlayer(t) ==
    /\ Reached(t, "UpdatePlayer")
    /\ IF InRoom(tx[t].user, tx[t].id)
       THEN Write(t, tx[t].user, [player[tx[t].user] EXCEPT !.state = tx[t].state])
       ELSE NoRows
    /\ Proceed(t)

Stamp(t) ==
    /\ Reached(t, "Stamp")
    /\ IF Exists(tx[t].id)
       THEN Write(t, tx[t].id, [room[tx[t].id] EXCEPT !.updated = clock])
       ELSE NoRows
    /\ Proceed(t)

UpdateRoom(t) ==
    /\ Reached(t, "UpdateRoom")
    /\ IF Exists(tx[t].id)
       THEN Write(t, tx[t].id, [tx[t].row EXCEPT !.updated = clock])
       ELSE NoRows
    /\ Proceed(t)

DeleteRoom(t) ==
    /\ Reached(t, "DeleteRoom")
    /\ IF Exists(tx[t].id) THEN Write(t, tx[t].id, NoRow) ELSE NoRows
    /\ Proceed(t)

\* ON DELETE CASCADE, one member after the other.
CascadeTo(t, u) ==
    /\ At(t, "Cascade")
    /\ u \in Addressed(t)
    /\ HeldByOthers(t, u) = {}
    /\ Write(t, u, NoRow)
    /\ UNCHANGED tx

CascadeEnds(t) ==
    /\ At(t, "Cascade")
    /\ Addressed(t) = {}
    /\ NoRows
    /\ Proceed(t)

-----------------------------------------------------------------------------
Start(t) ==
    \/ \E r \in RoomIds, u \in Users :
          \/ BeginCreate(t, r, u) \/ BeginAddPlayer(t, r, u)
          \/ BeginRemovePlayer(t, r, u)
          \/ \E s \in PlayerStates : BeginSetPlayerState(t, r, u, s)
          \/ \E frozen \in BOOLEAN : BeginUpdate(t, r, u, frozen)
    \/ \E r \in RoomIds : BeginDelete(t, r)

Execute(t) ==
    \/ InsertRoom(t) \/ InsertPlayer(t) \/ DeletePlayer(t) \/ UpdatePlayer(t)
    \/ Stamp(t) \/ UpdateRoom(t) \/ DeleteRoom(t)
    \/ \E u \in Users : CascadeTo(t, u)
    \/ CascadeEnds(t)
    \/ Commit(t) \/ CommitFails(t)

Next == \E t \in Txs : Start(t) \/ Execute(t) \/ Deadlock(t) \/ Cancel(t)

Spec == Init /\ [][Next]_vars

\* A lock that is free again and again is granted in the end (waiting
\* transactions queue for a row), and the database looks for deadlocks.
Fairness == \A t \in Txs : SF_vars(Execute(t)) /\ WF_vars(Deadlock(t))

FairSpec == Spec /\ Fairness

-----------------------------------------------------------------------------
(* Properties.                                                             *)

TxRecords ==
    {NoTx}
    \cup [op : {"Create", "AddPlayer", "RemovePlayer", "SetPlayerState"},
          pc : 1..3, id : RoomIds, user : Users, row : {NoRow}, state : PlayerStates]
    \cup [op : {"Update"}, pc : 1..2, id : RoomIds, user : {Nobody},
          row : RoomRows, state : {EmptyState}]
    \cup [op : {"Delete"}, pc : 1..3, id : RoomIds, user : {Nobody},
          row : {NoRow}, state : {EmptyState}]

\* The values of the variables, of what was written among them.
TypeOK ==
    /\ room \in [RoomIds -> RoomRows \cup {NoRow}]
    /\ player \in [Users -> PlayerRows \cup {NoRow}]
    /\ clock \in Nat
    /\ tx \in [Txs -> TxRecords]
    /\ held \in [Txs -> [Rows -> {"None", "NoKeyUpdate", "Update"}]]
    /\ new \in [Txs -> [Rows -> RoomRows \cup PlayerRows \cup {NoRow}]]
    /\ \A t \in Txs : /\ \A r \in RoomIds : new[t][r] \in RoomRows \cup {NoRow}
                      /\ \A u \in Users : new[t][u] \in PlayerRows \cup {NoRow}

\* Create, AddPlayer, RemovePlayer and SetPlayerState lock a player and then
\* an existing room, so that no number of them ever wait for each other in a
\* circle: only the writes of a whole room (Update) and its deletion, which
\* lock the room first, can be part of a deadlock.
Orderly == {t \in Txs : tx[t].op \notin {"Update", "Delete"}}

OrderlyNeverDeadlock ==
    \A C \in SUBSET Orderly : C # {} => \E t \in C : Blockers(t) \cap C = {}

\* What transaction t does to the tables if it is one step.
Atomically(t) ==
    LET r == tx[t].id  u == tx[t].user IN
    \/ tx[t].op = "Create" /\ CreateAllowed(r, u) /\ Create(r, u)
    \/ tx[t].op = "AddPlayer" /\ AddPlayerAllowed(r, u) /\ AddPlayer(r, u)
    \/ tx[t].op = "RemovePlayer" /\ RemovePlayerAllowed(u) /\ RemovePlayer(r, u)
    \/ tx[t].op = "SetPlayerState" /\ SetPlayerState(r, u, tx[t].state)
    \/ tx[t].op = "Update" /\ UpdateAllowed(r, tx[t].row) /\ Update(r, tx[t].row)
    \/ tx[t].op = "Delete" /\ DeleteAllowed(r) /\ Delete(r)

\* Whatever statements of others come between those of a transaction, the
\* tables change only when one commits, exactly as its operation of
\* RoomRepository would change them at that moment, and only if
\* RoomRepository allows that operation, although the keys it names were
\* checked against rows that others were changing.
ImplementsRepository ==
    [][\/ UNCHANGED <<room, player, clock>>
       \/ \E t \in Txs : At(t, "Commit") /\ tx'[t] = NoTx /\ Atomically(t)]_vars

\* A method always returns, if only with the error of a deadlock.
EveryTransactionEnds ==
    \A t \in Txs : ~At(t, "Idle") ~> At(t, "Idle")
=============================================================================
