--------------------------- MODULE RoomMembership ---------------------------
(***************************************************************************)
(* The room service implements Membership: the rows of table player are    *)
(* where the users are, and owner_id is the host.                          *)
(***************************************************************************)
EXTENDS RoomService

RoomOf == [u \in Users |-> IF Placed(u) THEN player[u].room ELSE NoRoom]

Host == [r \in RoomIds |-> IF Exists(r) THEN room[r].owner ELSE Nobody]

M == INSTANCE Membership WITH roomOf <- RoomOf, host <- Host

\* Every interleaving of the handlers, with its cancellations and refused
\* statements, is a behaviour of Membership.
ImplementsMembership == M!MSpec
=============================================================================
