------------------------------- MODULE Session -------------------------------
(***************************************************************************)
(* The session of a browser: logging in with GitHub (OAuth2Callback.js,    *)
(* AuthContext.js, internal/auth), the pair of user and token that all     *)
(* tabs of the browser share in localStorage, and the start of the         *)
(* application in a tab (App.js), which verifies that pair.                *)
(*                                                                         *)
(* A tab is blank while it verifies; the pair it will use is the one it    *)
(* read before.  The callback page sends its code and goes to the lobby    *)
(* without waiting, and sends the same code again whenever the user comes  *)
(* back to it; an answer changes the session of whatever page the tab then *)
(* shows.  A failed login takes the user out of the tab, not out of        *)
(* localStorage.  A room page that shows a room and has no user throws     *)
(* while it renders, and React takes the whole application away.           *)
(*                                                                         *)
(* A code is exchanged for at most one token, so a token is named by its   *)
(* code.  Abstracted: names, the error of a failed login, and what a       *)
(* server that refuses a token makes of the lobby and the room (those are  *)
(* failed refreshes of Lobby and RoomRefresh).                             *)
(***************************************************************************)
EXTENDS Naturals

CONSTANTS
    Accounts,  \* GitHub accounts, which are the users
    Codes,     \* OAuth2 codes, and the tokens they are exchanged for
    Owner,     \* Owner[c]: the account that GitHub gives code c to
    Tabs,
    Logins,    \* logins that may be under way at once
    Nobody,    \* user: null
    NoCode,    \* no code, token: null
    NoTab      \* the page that sent a login is gone

ASSUME SessionAssumption ==
    /\ Owner \in [Codes -> Accounts]
    /\ Nobody \notin Accounts
    /\ NoCode \notin Codes
    /\ NoTab \notin Tabs

VARIABLES
    code,   \* code[c]: what GitHub knows of code c
    valid,  \* tokens that the server accepts: issued and not expired
    saved,  \* localStorage 'qd-auth'
    tab,    \* tab[t]: the page of tab t, its session and its start
    login   \* login[l]: a call of oauth2LoginAsync

vars == <<code, valid, saved, tab, login>>

NoPair == [user |-> Nobody, token |-> NoCode]

Pairs == {NoPair} \cup [user : Accounts, token : Codes]

Pair(c) == [user |-> Owner[c], token |-> c]

\* page: what the tab shows; url: what it shows next if it is blank; code:
\* that of the callback page it has in its history; session: user and token;
\* read: the pair that is being verified; room: the room of a room page.
ClosedTab == [page |-> "closed", url |-> "lobby", code |-> NoCode,
              session |-> NoPair, read |-> NoPair, room |-> "none"]

NoLogin == [phase |-> "none", code |-> NoCode, tab |-> NoTab]

Init ==
    /\ code = [c \in Codes |-> "unknown"]
    /\ valid = {}
    /\ saved = NoPair
    /\ tab = [t \in Tabs |-> ClosedTab]
    /\ login = [l \in Logins |-> NoLogin]

-----------------------------------------------------------------------------
(* The start of the application in a tab.                                  *)

\* The logins of a page that is gone are answered to nobody.
Orphaned(t) ==
    [l \in Logins |-> IF login[l].tab = t THEN [login[l] EXCEPT !.tab = NoTab]
                      ELSE login[l]]

\* Every loading of the application reads the saved pair and is blank while
\* the pair is verified; without a pair there is nothing to wait for, but
\* the answer of the promise.
Load(t, url, c) ==
    /\ tab' = [tab EXCEPT ![t] = [ClosedTab EXCEPT !.page = "blank", !.url = url,
                                                  !.code = c, !.read = saved]]
    /\ login' = Orphaned(t)

\* The user opens the application, or a link to a room.
OpenTab(t, url) ==
    /\ tab[t].page = "closed"
    /\ Load(t, url, NoCode)
    /\ UNCHANGED <<code, valid, saved>>

\* The address of what a tab shows.
Address(t) ==
    CASE tab[t].page = "blank" -> tab[t].url
      [] tab[t].page = "lobby" -> "lobby"
      [] OTHER -> "room"

Reload(t) ==
    /\ tab[t].page # "closed"
    /\ Load(t, Address(t), tab[t].code)
    /\ UNCHANGED <<code, valid, saved>>

CloseTab(t) ==
    /\ tab[t].page # "closed"
    /\ tab' = [tab EXCEPT ![t] = ClosedTab]
    /\ login' = Orphaned(t)
    /\ UNCHANGED <<code, valid, saved>>

\* The lobby of a tab without a user covers itself with the login modal.
LoginOffered(t) == tab[t].page = "lobby" /\ tab[t].session = NoPair

\* The link of the lobby's login modal opens a tab at GitHub, which comes
\* back to the callback page with a code of the account that is logged in
\* there.
Authorize(s, t, c) ==
    /\ LoginOffered(s)
    /\ tab[t].page = "closed"
    /\ code[c] = "unknown"
    /\ code' = [code EXCEPT ![c] = "fresh"]
    /\ Load(t, "callback", c)
    /\ UNCHANGED <<valid, saved>>

\* oauth2LoginAsync up to the answer.
Send(l, t, c) ==
    /\ login[l] = NoLogin
    /\ login' = [login EXCEPT ![l] = [phase |-> "sent", code |-> c, tab |-> t]]

\* The first rendering with session s: the callback page sends its code and
\* goes on to the lobby, as a room page without a token does.
Started(t, s) ==
    LET asRoom == tab[t].url = "room" /\ s # NoPair IN
    /\ tab' = [tab EXCEPT ![t].page = IF asRoom THEN "room" ELSE "lobby",
                          ![t].session = s,
                          ![t].read = NoPair,
                          ![t].url = "lobby",
                          ![t].room = IF asRoom /\ s.token \in valid
                                      THEN "asked" ELSE "none"]
    /\ IF tab[t].url = "callback"
       THEN \E l \in Logins : Send(l, t, tab[t].code)
       ELSE UNCHANGED login

\* verify_token would be answered 200.
Verified(t) == tab[t].read.token \in valid

\* Fault: the user is read from localStorage when the answer arrives.
StartVerified_ReadAgain(t) ==
    /\ tab[t].page = "blank"
    /\ Verified(t)
    /\ Started(t, [tab[t].read EXCEPT !.user = saved.user])
    /\ UNCHANGED <<code, valid, saved>>

\* The pair that was read is that of the tab.
StartVerified(t) ==
    /\ tab[t].page = "blank"
    /\ Verified(t)
    /\ Started(t, tab[t].read)
    /\ UNCHANGED <<code, valid, saved>>

\* Fault: the promise of tryReuseSavedTokenAsync is rejected.
StartWithout_Rejected(t) ==
    /\ tab[t].page = "blank"
    /\ tab[t].read = NoPair
    /\ Started(t, NoPair)
    /\ UNCHANGED <<code, valid, saved>>

\* There is no pair, the token is refused, or the call fails: the
\* application starts without a user, and the pair stays saved.
StartWithout(t) ==
    /\ tab[t].page = "blank"
    /\ Started(t, NoPair)
    /\ UNCHANGED <<code, valid, saved>>

-----------------------------------------------------------------------------
(* Logging in.                                                             *)

\* The user goes back to the callback page, which is mounted again.
BackToCallback(t, l) ==
    /\ tab[t].page \in {"lobby", "room"}
    /\ tab[t].code # NoCode
    /\ Send(l, t, tab[t].code)
    /\ tab' = [tab EXCEPT ![t].page = "lobby", ![t].room = "none"]
    /\ UNCHANGED <<code, valid, saved>>

\* The server exchanges the code at GitHub, asks GitHub who it is of, and
\* signs a token.
Exchange(l) ==
    /\ login[l].phase = "sent"
    /\ code[login[l].code] = "fresh"
    /\ code' = [code EXCEPT ![login[l].code] = "used"]
    /\ valid' = valid \cup {login[l].code}
    /\ login' = [login EXCEPT ![l].phase = "granted"]
    /\ UNCHANGED <<saved, tab>>

\* GitHub refuses a code that was used, or a call of the server fails before
\* or after the exchange.
ExchangeFails(l) ==
    /\ login[l].phase = "sent"
    /\ \/ UNCHANGED code
       \/ code' = [code EXCEPT ![login[l].code] = "used"]
    /\ login' = [login EXCEPT ![l].phase = "refused"]
    /\ UNCHANGED <<valid, saved, tab>>

\* END_LOGIN; nothing is there to take it where a page has crashed.
EndLogin(t, p) ==
    tab' = [tab EXCEPT ![t].session = IF tab[t].page = "crashed" THEN @ ELSE p]

\* Fault: the pair is not saved.
LoginArrives_Unsaved(l) ==
    /\ login[l].phase = "granted"
    /\ IF login[l].tab # NoTab
       THEN EndLogin(login[l].tab, Pair(login[l].code))
       ELSE UNCHANGED tab
    /\ login' = [login EXCEPT ![l] = NoLogin]
    /\ UNCHANGED <<code, valid, saved>>

\* END_LOGIN, and the pair is saved.
LoginArrives(l) ==
    /\ login[l].phase = "granted"
    /\ IF login[l].tab # NoTab
       THEN /\ EndLogin(login[l].tab, Pair(login[l].code))
            /\ saved' = Pair(login[l].code)
       ELSE UNCHANGED <<tab, saved>>
    /\ login' = [login EXCEPT ![l] = NoLogin]
    /\ UNCHANGED <<code, valid>>

\* Fault: FAIL_LOGIN leaves the token in the state.
LoginFails_KeepsToken(l) ==
    LET t == login[l].tab IN
    /\ login[l].phase \in {"refused", "granted"}
    /\ IF t # NoTab
       THEN tab' = [tab EXCEPT ![t].session.user = Nobody]
       ELSE UNCHANGED tab
    /\ login' = [login EXCEPT ![l] = NoLogin]
    /\ UNCHANGED <<code, valid, saved>>

\* FAIL_LOGIN, of a refused login or of one whose answer is lost: there is no
\* user any more, and a room page that shows a room throws.
LoginFails(l) ==
    LET t == login[l].tab IN
    /\ login[l].phase \in {"refused", "granted"}
    /\ IF t # NoTab
       THEN tab' = [tab EXCEPT ![t].session = NoPair,
                               ![t].page = IF tab[t].room = "shown" THEN "crashed" ELSE @,
                               ![t].room = IF @ = "shown" THEN "none" ELSE @]
       ELSE UNCHANGED tab
    /\ login' = [login EXCEPT ![l] = NoLogin]
    /\ UNCHANGED <<code, valid, saved>>

-----------------------------------------------------------------------------
(* The room page, as far as it depends on the session.                     *)

\* Fault: a room may be opened without a token.
OpenRoom_Anyone(t) ==
    /\ tab[t].page = "lobby"
    /\ tab' = [tab EXCEPT ![t].page = "room", ![t].room = "asked"]
    /\ UNCHANGED <<code, valid, saved, login>>

\* The page asks for its room with the token it has.
OpenRoom(t) ==
    /\ tab[t].page = "lobby"
    /\ tab[t].session # NoPair
    /\ tab' = [tab EXCEPT ![t].page = "room",
                          ![t].room = IF tab[t].session.token \in valid
                                      THEN "asked" ELSE "none"]
    /\ UNCHANGED <<code, valid, saved, login>>

PollAgain(t) ==
    /\ tab[t].page = "room" /\ tab[t].room = "none"
    /\ tab[t].session.token \in valid
    /\ tab' = [tab EXCEPT ![t].room = "asked"]
    /\ UNCHANGED <<code, valid, saved, login>>

\* An answer that was asked for with a token arrives, user or no user.
RoomArrives(t) ==
    /\ tab[t].page = "room" /\ tab[t].room = "asked"
    /\ tab' = IF tab[t].session = NoPair
              THEN [tab EXCEPT ![t].page = "crashed", ![t].room = "none"]
              ELSE [tab EXCEPT ![t].room = "shown"]
    /\ UNCHANGED <<code, valid, saved, login>>

ToLobby(t) ==
    /\ tab[t].page = "room"
    /\ tab' = [tab EXCEPT ![t].page = "lobby", ![t].room = "none"]
    /\ UNCHANGED <<code, valid, saved, login>>

\* A token reaches the end of its life.
Expire(c) ==
    /\ c \in valid
    /\ valid' = valid \ {c}
    /\ UNCHANGED <<code, saved, tab, login>>

-----------------------------------------------------------------------------
TabStep(t) ==
    \/ OpenTab(t, "lobby") \/ OpenTab(t, "room") \/ Reload(t) \/ CloseTab(t)
    \/ StartVerified(t) \/ StartWithout(t)
    \/ OpenRoom(t) \/ PollAgain(t) \/ RoomArrives(t) \/ ToLobby(t)
    \/ \E l \in Logins : BackToCallback(t, l)

Next ==
    \/ \E t \in Tabs : TabStep(t)
    \/ \E s, t \in Tabs, c \in Codes : Authorize(s, t, c)
    \/ \E l \in Logins : Exchange(l) \/ ExchangeFails(l) \/ LoginArrives(l) \/ LoginFails(l)
    \/ \E c \in Codes : Expire(c)

Spec == Init /\ [][Next]_vars

\* Calls are answered or fail.  A tab's start is given strong fairness, for
\* the user may reload it again and again, or another tab use the logins of
\* the bound.
Fairness ==
    /\ \A t \in Tabs : SF_vars(StartVerified(t) \/ StartWithout(t))
    /\ \A l \in Logins : WF_vars(Exchange(l) \/ ExchangeFails(l))
    /\ \A l \in Logins : WF_vars(LoginArrives(l) \/ LoginFails(l))

FairSpec == Spec /\ Fairness

-----------------------------------------------------------------------------
(* Properties.                                                             *)

TypeOK ==
    /\ code \in [Codes -> {"unknown", "fresh", "used"}]
    /\ valid \subseteq Codes
    /\ saved \in Pairs
    /\ tab \in [Tabs -> [page : {"closed", "blank", "lobby", "room", "crashed"},
                         url : {"lobby", "room", "callback"}, code : Codes \cup {NoCode},
                         session : Pairs, read : Pairs,
                         room : {"none", "asked", "shown"}]]
    /\ login \in [Logins -> [phase : {"none", "sent", "granted", "refused"},
                             code : Codes \cup {NoCode}, tab : Tabs \cup {NoTab}]]

\* The user that a tab shows, or that is saved, is the one for whom the
\* server takes its token, although the pair is read before the token is
\* verified, other tabs save theirs meanwhile, and the answer of a login
\* changes whatever session its tab then has.
IdentityIsOwner ==
    \A p \in {saved} \cup {tab[t].session : t \in Tabs} \cup {tab[t].read : t \in Tabs} :
        p # NoPair => p.user = Owner[p.token]

\* Whoever is logged in in some tab finds a pair when the application is
\* loaded again: no failed login, reload or crash of any tab takes it away.
SessionsAreSaved ==
    \A t \in Tabs : tab[t].session # NoPair => saved # NoPair

\* A room page without a user, which throws as soon as it shows a room, is
\* found only in a tab that came through the callback page: its code was
\* refused, or its answer lost, under a session that the tab had before.
OnlyCallbackTabsCrash ==
    \A t \in Tabs :
        (\/ tab[t].page = "crashed"
         \/ tab[t].page = "room" /\ tab[t].session = NoPair)
        => tab[t].code # NoCode

\* A tab does not stay blank, whatever becomes of the call that verifies its
\* pair.
AppStarts == \A t \in Tabs : tab[t].page = "blank" ~> tab[t].page # "blank"
=============================================================================
