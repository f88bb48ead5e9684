------------------------------ MODULE RoomView ------------------------------
(***************************************************************************)
(* What a player may count on in the room that a page shows.  The page     *)
(* starts empty; what it shows then is a copy of a room as it was at some  *)
(* time, never of one that was not committed; and in calm its own room     *)
(* does not go back.  Nothing is said of polls, of the time, or of how the *)
(* page comes by its copies.                                               *)
(***************************************************************************)
EXTENDS Naturals

CONSTANTS RoomIds, NoRoom

VARIABLES
    version,  \* version[r]: the number of the last change to room r
    page,     \* the room whose page is open, or NoRoom
    shown,    \* the copy that the page shows
    calm      \* the player has done nothing, and answers come at once

vvars == <<version, page, shown, calm>>

Nothing == [id |-> NoRoom, version |-> 0]

VInit ==
    /\ version = [r \in RoomIds |-> 1]
    /\ page = NoRoom
    /\ shown = Nothing
    /\ calm \in BOOLEAN

Change(r) ==
    /\ version' = [version EXCEPT ![r] = @ + 1]
    /\ UNCHANGED <<page, shown, calm>>

Open(r) ==
    /\ page # r
    /\ page' = r
    /\ shown' = Nothing
    /\ UNCHANGED <<version, calm>>

\* The copy may be of another room than the page's: the one kept for "not
\* modified" is shared by all pages.
Show(r, n) ==
    /\ page # NoRoom
    /\ calm /\ page = r /\ shown.id = r => n >= shown.version
    /\ shown' = [id |-> r, version |-> n]
    /\ UNCHANGED <<version, page, calm>>

Act ==
    /\ page # NoRoom
    /\ calm' = FALSE
    /\ UNCHANGED <<version, page, shown>>

VNext ==
    \/ \E r \in RoomIds : Change(r) \/ Open(r)
    \/ \E r \in RoomIds : \E n \in 1 .. version[r] : Show(r, n)
    \/ Act

VSpec == VInit /\ [][VNext]_vvars
=============================================================================
