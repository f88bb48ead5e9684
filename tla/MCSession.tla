----------------------------- MODULE MCSession -----------------------------
(* Two accounts, with a code each.                                         *)
EXTENDS Session, TLC

CONSTANTS a1, a2, c1, c2

OwnerOf == c1 :> a1 @@ c2 :> a2
=============================================================================
