----------------------------- MODULE MCPageWalk -----------------------------
(* Requests that miss the list on either side, and sizes that are not      *)
(* allowed, around a default of 3 and a maximum of 4.                      *)
EXTENDS PageWalk

Asked == -1 .. 9
=============================================================================
