--------------------------- MODULE MCRoomService ---------------------------
(***************************************************************************)
(* Values of the constants for TLC: bodies of SetState that set one key,   *)
(* and the symmetries of the model values.                                 *)
(***************************************************************************)
EXTENDS RoomMembership, TLC

OneKeyPatches ==
    {[k \in Keys |-> IF k = key THEN v ELSE Unset] : key \in Keys, v \in Values}

NoPatches == {}

Symmetry == Permutations(Users) \cup Permutations(RoomIds) \cup Permutations(Requests)
=============================================================================
