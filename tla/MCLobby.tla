------------------------------ MODULE MCLobby ------------------------------
(* The slots of refreshes are alike, and so are the other users.           *)
EXTENDS Lobby, TLC

Symmetry == Permutations(Refreshes) \cup Permutations(Users \ {Me})
=============================================================================
