----------------------------- MODULE Membership -----------------------------
(***************************************************************************)
(* What the room service promises about who is where: a user is in at most *)
(* one room, a room has one host for its whole life, the host is in it     *)
(* until the room is disbanded, and disbanding takes out exactly the       *)
(* members.  Nothing is said of how a request arrives at its step, of the  *)
(* state of a room, or of time.                                            *)
(***************************************************************************)
CONSTANTS Users, RoomIds, Nobody, NoRoom

VARIABLES
    roomOf,  \* roomOf[u]: the room user u is in, or NoRoom
    host     \* host[r]: the host of room r, or Nobody if there is no such room

mvars == <<roomOf, host>>

MInit ==
    /\ roomOf = [u \in Users |-> NoRoom]
    /\ host = [r \in RoomIds |-> Nobody]

Open(u, r) ==
    /\ roomOf[u] = NoRoom
    /\ host[r] = Nobody
    /\ roomOf' = [roomOf EXCEPT ![u] = r]
    /\ host' = [host EXCEPT ![r] = u]

Enter(u, r) ==
    /\ roomOf[u] = NoRoom
    /\ host[r] # Nobody
    /\ roomOf' = [roomOf EXCEPT ![u] = r]
    /\ UNCHANGED host

Exit(u) ==
    /\ \A r \in RoomIds : host[r] # u
    /\ roomOf' = [roomOf EXCEPT ![u] = NoRoom]
    /\ UNCHANGED host

Disband(r) ==
    /\ host[r] # Nobody
    /\ roomOf' = [u \in Users |-> IF roomOf[u] = r THEN NoRoom ELSE roomOf[u]]
    /\ host' = [host EXCEPT ![r] = Nobody]

MNext ==
    \/ \E u \in Users, r \in RoomIds : Open(u, r) \/ Enter(u, r)
    \/ \E u \in Users : Exit(u)
    \/ \E r \in RoomIds : Disband(r)

MSpec == MInit /\ [][MNext]_mvars
=============================================================================
