------------------------------- MODULE MCGame -------------------------------
(* A small instance of Game.  Users and slots are interchangeable. *)
EXTENDS Game, TLC

Symmetry == Permutations(Users) \cup Permutations(RoomIds) \cup Permutations(Requests)

\* The pages send no other body.
GamePatches == {InitialRoomState}
=============================================================================
