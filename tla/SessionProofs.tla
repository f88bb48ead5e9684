--------------------------- MODULE SessionProofs ---------------------------
(***************************************************************************)
(* Proofs about the session of a browser, for any accounts, codes, tabs    *)
(* and logins under way.                                                   *)
(***************************************************************************)
EXTENDS Session, TLAPS

TabRecords == [page : {"closed", "blank", "lobby", "room", "crashed"},
               url : {"lobby", "room", "callback"}, code : Codes \cup {NoCode},
               session : Pairs, read : Pairs, room : {"none", "asked", "shown"}]

LoginRecords == [phase : {"none", "sent", "granted", "refused"},
                 code : Codes \cup {NoCode}, tab : Tabs \cup {NoTab}]

\* A pair that the server gave out together.
Genuine(p) == p = NoPair \/ (p.token \in Codes /\ p.user = Owner[p.token])

\* A page of room that will throw, or has thrown.
Doomed(n) == n.page = "crashed" \/ (n.page = "room" /\ n.session = NoPair)

\* The state of a tab: only the callback page brings a code, and only a tab
\* with a code in its history may lose its user on a room page.
TabOK(n) ==
    /\ n \in TabRecords
    /\ Genuine(n.session) /\ Genuine(n.read)
    /\ n.url = "callback" => n.code # NoCode
    /\ Doomed(n) => n.code # NoCode

\* No tab has a pair unless one is saved.
SavedFor(n) == saved = NoPair => n.session = NoPair /\ n.read = NoPair

\* A login has a code, and its page, if it is still there, is in a tab that
\* came through the callback page.
LoginOK(m) ==
    /\ m \in LoginRecords
    /\ m.phase # "none" => m.code \in Codes
    /\ m.tab # NoTab => tab[m.tab].code # NoCode

ServerOK ==
    /\ code \in [Codes -> {"unknown", "fresh", "used"}]
    /\ valid \subseteq Codes

Inv ==
    /\ ServerOK
    /\ saved \in Pairs /\ Genuine(saved)
    /\ tab \in [Tabs -> TabRecords]
    /\ \A t \in Tabs : TabOK(tab[t]) /\ SavedFor(tab[t])
    /\ login \in [Logins -> LoginRecords]
    /\ \A l \in Logins : LoginOK(login[l])

-----------------------------------------------------------------------------
(* The values that the actions are made of.                                *)

LEMMA Values ==
    /\ NoPair \in Pairs /\ Genuine(NoPair)
    /\ NoPair.user = Nobody /\ NoPair.token = NoCode
    /\ NoLogin \in LoginRecords /\ NoLogin.phase = "none" /\ NoLogin.tab = NoTab
    /\ ClosedTab \in TabRecords /\ ClosedTab.page = "closed" /\ ClosedTab.url = "lobby"
    /\ ClosedTab.session = NoPair /\ ClosedTab.read = NoPair
<1>1. NoPair \in Pairs /\ Genuine(NoPair)
    BY DEF Pairs, Genuine
<1>2. NoPair.user = Nobody /\ NoPair.token = NoCode
    BY DEF NoPair
<1>3. NoLogin \in LoginRecords /\ NoLogin.phase = "none" /\ NoLogin.tab = NoTab
    BY DEF NoLogin, LoginRecords
<1>4. ClosedTab \in TabRecords
    BY <1>1 DEF ClosedTab, TabRecords
<1>5. ClosedTab.page = "closed" /\ ClosedTab.url = "lobby"
    BY DEF ClosedTab
<1>6. ClosedTab.session = NoPair /\ ClosedTab.read = NoPair
    BY DEF ClosedTab
<1>7. QED
    BY <1>1, <1>2, <1>3, <1>4, <1>5, <1>6

LEMMA PairOK ==
    ASSUME NEW c \in Codes
    PROVE  Pair(c) \in Pairs /\ Genuine(Pair(c)) /\ Pair(c) # NoPair
<1>1. Owner[c] \in Accounts
    BY SessionAssumption
<1>2. Pair(c).token = c /\ Pair(c).user = Owner[c] /\ Pair(c) \in Pairs
    BY <1>1 DEF Pair, Pairs
<1>3. Pair(c) # NoPair
    BY <1>2, Values, SessionAssumption
<1>4. QED
    BY <1>2, <1>3 DEF Genuine

LEMMA InitInv == Init => Inv
BY Values DEF Init, Inv, ServerOK, TabOK, Doomed, SavedFor, LoginOK

\* A step of tab t.
LEMMA TabStepInv ==
    ASSUME Inv, NEW t \in Tabs, ServerOK',
           tab' \in [Tabs -> TabRecords],
           \A x \in Tabs \ {t} : tab'[x] = tab[x],
           TabOK(tab'[t]), SavedFor(tab[t])',
           saved' = saved \/ (saved' \in Pairs /\ Genuine(saved') /\ saved' # NoPair),
           login' \in [Logins -> LoginRecords],
           \A l \in Logins :
               \/ login'[l] = login[l] /\ (login[l].tab = t => tab'[t].code = tab[t].code)
               \/ LoginOK(login[l])'
    PROVE  Inv'
<1>1. saved' \in Pairs /\ Genuine(saved)'
    BY DEF Inv, Genuine
<1>2. ASSUME NEW x \in Tabs PROVE TabOK(tab[x])' /\ SavedFor(tab[x])'
    <2>1. CASE x = t
        BY <2>1 DEF TabOK, Doomed, Genuine
    <2>2. CASE x # t
        BY <2>2 DEF Inv, TabOK, Doomed, Genuine, SavedFor
    <2>3. QED
        BY <2>1, <2>2
<1>3. ASSUME NEW l \in Logins PROVE LoginOK(login[l])'
    <2>1. CASE login'[l] = login[l] /\ (login[l].tab = t => tab'[t].code = tab[t].code)
        <3>1. LoginOK(login[l])
            BY DEF Inv
        <3>2. login[l].tab = NoTab \/ login[l].tab \in Tabs
            BY DEF Inv, LoginRecords
        <3>3. QED
            BY <2>1, <3>1, <3>2 DEF LoginOK
    <2>2. QED
        BY <2>1
<1>4. QED
    BY <1>1, <1>2, <1>3 DEF Inv

\* A step that changes no tab, and login l at most.
LEMMA LoginStepInv ==
    ASSUME Inv, NEW l \in Logins, ServerOK', UNCHANGED <<saved, tab>>,
           NEW m, login' = [login EXCEPT ![l] = m], LoginOK(m)
    PROVE  Inv'
<1>1. login' \in [Logins -> LoginRecords]
    BY DEF Inv, LoginOK
<1>2. \A k \in Logins : LoginOK(login[k])'
    BY DEF Inv, LoginOK
<1>3. \A t \in Tabs : TabOK(tab[t])' /\ SavedFor(tab[t])'
    BY DEF Inv, TabOK, Doomed, Genuine, SavedFor
<1>4. QED
    BY <1>1, <1>2, <1>3 DEF Inv, Genuine

\* The logins of a page that goes away.
LEMMA OrphanedOK ==
    ASSUME Inv, NEW t \in Tabs, login' = Orphaned(t),
           \A x \in Tabs \ {t} : tab'[x] = tab[x]
    PROVE  /\ login' \in [Logins -> LoginRecords]
           /\ \A l \in Logins : LoginOK(login[l])'
<1>1. ASSUME NEW l \in Logins PROVE login'[l] \in LoginRecords /\ LoginOK(login[l])'
    <2>1. login[l] \in LoginRecords /\ LoginOK(login[l])
        BY DEF Inv
    <2>2. CASE login[l].tab = t
        <3>1. login'[l] = [login[l] EXCEPT !.tab = NoTab]
            BY <2>2 DEF Orphaned
        <3>2. QED
            BY <2>1, <3>1 DEF LoginOK, LoginRecords
    <2>3. CASE login[l].tab # t
        <3>1. login'[l] = login[l]
            BY <2>3 DEF Orphaned
        <3>2. login[l].tab = NoTab \/ login[l].tab \in Tabs \ {t}
            BY <2>1, <2>3 DEF LoginRecords
        <3>3. QED
            BY <2>1, <3>1, <3>2 DEF LoginOK
    <2>4. QED
        BY <2>2, <2>3
<1>2. QED
    BY <1>1 DEF Orphaned

-----------------------------------------------------------------------------
(* The actions.                                                            *)

\* The page that an application starts with.
LEMMA LoadInv ==
    ASSUME Inv, NEW t \in Tabs, NEW url \in {"lobby", "room", "callback"},
           NEW c \in Codes \cup {NoCode}, url = "callback" => c # NoCode,
           ServerOK', saved' = saved, Load(t, url, c)
    PROVE  Inv'
<1> DEFINE n == [ClosedTab EXCEPT !.page = "blank", !.url = url, !.code = c, !.read = saved]
<1>1. n \in TabRecords /\ n.page = "blank" /\ n.url = url /\ n.code = c
      /\ n.session = NoPair /\ n.read = saved
    BY Values DEF Inv, TabRecords
<1>2. tab' = [tab EXCEPT ![t] = n] /\ login' = Orphaned(t)
    BY DEF Load
<1>3. tab' \in [Tabs -> TabRecords] /\ tab'[t] = n /\ \A x \in Tabs \ {t} : tab'[x] = tab[x]
    BY <1>1, <1>2 DEF Inv
<1>4. TabOK(n)
    BY <1>1, Values DEF TabOK, Doomed, Inv
<1>5. SavedFor(tab[t])'
    BY <1>1, <1>3 DEF SavedFor, NoPair
<1>6. login' \in [Logins -> LoginRecords] /\ \A l \in Logins : LoginOK(login[l])'
    BY <1>2, <1>3, OrphanedOK
<1>7. QED
    BY <1>3, <1>4, <1>5, <1>6, TabStepInv

LEMMA OpenTabInv ==
    ASSUME Inv, NEW t \in Tabs, NEW url \in {"lobby", "room"}, OpenTab(t, url)
    PROVE  Inv'
<1>1. ServerOK'
    BY DEF Inv, ServerOK, OpenTab
<1>2. QED
    BY <1>1, LoadInv DEF OpenTab

LEMMA ReloadInv ==
    ASSUME Inv, NEW t \in Tabs, Reload(t)
    PROVE  Inv'
<1>1. ServerOK'
    BY DEF Inv, ServerOK, Reload
<1>2. TabOK(tab[t])
    BY DEF Inv
<1>3. Address(t) \in {"lobby", "room", "callback"}
    BY <1>2 DEF Address, TabOK, TabRecords
<1>4. Address(t) = "callback" => tab[t].code # NoCode
    BY <1>2 DEF Address, TabOK
<1>5. tab[t].code \in Codes \cup {NoCode}
    BY <1>2 DEF TabOK, TabRecords
<1>6. QED
    BY <1>1, <1>3, <1>4, <1>5, LoadInv DEF Reload

LEMMA CloseTabInv ==
    ASSUME Inv, NEW t \in Tabs, CloseTab(t)
    PROVE  Inv'
<1>1. ServerOK'
    BY DEF Inv, ServerOK, CloseTab
<1>2. tab' \in [Tabs -> TabRecords] /\ tab'[t] = ClosedTab
      /\ \A x \in Tabs \ {t} : tab'[x] = tab[x]
    BY Values DEF Inv, CloseTab
<1>3. TabOK(ClosedTab)
    BY Values DEF TabOK, Doomed
<1>4. SavedFor(tab[t])'
    BY <1>2, Values DEF SavedFor, NoPair
<1>5. login' \in [Logins -> LoginRecords] /\ \A l \in Logins : LoginOK(login[l])'
    BY <1>2, OrphanedOK DEF CloseTab
<1>6. QED
    BY <1>1, <1>2, <1>3, <1>4, <1>5, TabStepInv DEF CloseTab

LEMMA AuthorizeInv ==
    ASSUME Inv, NEW s \in Tabs, NEW t \in Tabs, NEW c \in Codes, Authorize(s, t, c)
    PROVE  Inv'
<1>1. ServerOK'
    BY DEF Inv, ServerOK, Authorize
<1>2. c # NoCode
    BY SessionAssumption
<1>3. QED
    BY <1>1, <1>2, LoadInv DEF Authorize

\* The first rendering, with the pair that was read or none.
LEMMA StartedInv ==
    ASSUME Inv, NEW t \in Tabs, NEW s \in {NoPair, tab[t].read},
           tab[t].page = "blank", Started(t, s), UNCHANGED <<code, valid, saved>>
    PROVE  Inv'
<1> DEFINE asRoom == tab[t].url = "room" /\ s # NoPair
           n == tab'[t]
<1>1. TabOK(tab[t]) /\ SavedFor(tab[t]) /\ tab[t] \in TabRecords
    BY DEF Inv, TabOK
<1>2. s \in Pairs /\ Genuine(s) /\ (saved = NoPair => s = NoPair)
    BY <1>1, Values DEF TabOK, SavedFor, TabRecords
<1>3. tab' \in [Tabs -> TabRecords] /\ \A x \in Tabs \ {t} : tab'[x] = tab[x]
    BY <1>1, <1>2, Values DEF Inv, Started, TabRecords
<1>4. /\ n.page = IF asRoom THEN "room" ELSE "lobby"
      /\ n.session = s /\ n.read = NoPair /\ n.url = "lobby" /\ n.code = tab[t].code
    BY <1>1 DEF Inv, Started, TabRecords
<1>5. n \in TabRecords
    BY <1>3
<1>6. TabOK(n)
    BY <1>2, <1>4, <1>5, Values DEF TabOK, Doomed
<1>7. SavedFor(tab[t])'
    BY <1>2, <1>4 DEF SavedFor, NoPair
<1>8. ServerOK'
    BY DEF Inv, ServerOK
<1>9. CASE tab[t].url = "callback"
    <2>1. PICK l \in Logins : Send(l, t, tab[t].code)
        BY <1>9 DEF Started
    <2>2. tab[t].code \in Codes
        BY <1>1, <1>9 DEF TabOK, TabRecords
    <2> DEFINE m == [phase |-> "sent", code |-> tab[t].code, tab |-> t]
    <2>3. m \in LoginRecords /\ m.code \in Codes /\ m.tab = t
        BY <2>2 DEF LoginRecords
    <2>4. login' = [login EXCEPT ![l] = m]
        BY <2>1 DEF Send
    <2>5. login' \in [Logins -> LoginRecords] /\ login'[l] = m
          /\ \A k \in Logins \ {l} : login'[k] = login[k]
        BY <2>3, <2>4 DEF Inv
    <2>6. LoginOK(login[l])'
        BY <2>2, <2>3, <2>5, <1>4, SessionAssumption DEF LoginOK
    <2>7. QED
        BY <2>5, <2>6, <1>3, <1>4, <1>6, <1>7, <1>8, TabStepInv
<1>10. CASE tab[t].url # "callback"
    <2>1. login' = login
        BY <1>10 DEF Started
    <2>2. QED
        BY <2>1, <1>3, <1>4, <1>6, <1>7, <1>8, TabStepInv DEF Inv
<1>11. QED
    BY <1>9, <1>10

LEMMA StartInv ==
    ASSUME Inv, NEW t \in Tabs, StartVerified(t) \/ StartWithout(t)
    PROVE  Inv'
BY StartedInv DEF StartVerified, StartWithout

\* A step that only moves a tab to page p, which shows r, and changes no
\* login, or only one that the tab sends.
LEMMA PageInv ==
    ASSUME Inv, NEW t \in Tabs, NEW p \in {"lobby", "room", "crashed"},
           NEW r \in {"none", "asked", "shown"},
           tab' = [tab EXCEPT ![t].page = p, ![t].room = r],
           p = "room" => tab[t].page = "room" \/ tab[t].session # NoPair,
           p = "crashed" => Doomed(tab[t]),
           UNCHANGED <<code, valid, saved>>,
           \/ UNCHANGED login
           \/ tab[t].code # NoCode /\ \E l \in Logins : Send(l, t, tab[t].code)
    PROVE  Inv'
<1> DEFINE n == tab'[t]
<1>1. TabOK(tab[t]) /\ SavedFor(tab[t]) /\ tab[t] \in TabRecords
    BY DEF Inv, TabOK
<1>2. tab' \in [Tabs -> TabRecords] /\ \A x \in Tabs \ {t} : tab'[x] = tab[x]
    BY <1>1 DEF Inv, TabRecords
<1>3. /\ n.page = p /\ n.session = tab[t].session /\ n.read = tab[t].read
      /\ n.url = tab[t].url /\ n.code = tab[t].code
    BY <1>1 DEF Inv, TabRecords
<1>4. n \in TabRecords
    BY <1>2
<1>5. TabOK(n)
    BY <1>1, <1>3, <1>4 DEF TabOK, Doomed, Genuine
<1>6. SavedFor(tab[t])'
    BY <1>1, <1>3 DEF SavedFor, NoPair
<1>7. ServerOK'
    BY DEF Inv, ServerOK
<1>8. CASE UNCHANGED login
    BY <1>2, <1>3, <1>5, <1>6, <1>7, <1>8, TabStepInv DEF Inv
<1>9. ASSUME NEW l \in Logins, tab[t].code # NoCode, Send(l, t, tab[t].code)
      PROVE  Inv'
    <2>1. tab[t].code \in Codes
        BY <1>1, <1>9 DEF TabRecords
    <2> DEFINE m == [phase |-> "sent", code |-> tab[t].code, tab |-> t]
    <2>2. m \in LoginRecords /\ m.code \in Codes /\ m.tab = t
        BY <2>1 DEF LoginRecords
    <2>3. login' \in [Logins -> LoginRecords] /\ login'[l] = m
          /\ \A k \in Logins \ {l} : login'[k] = login[k]
        BY <1>9, <2>2 DEF Inv, Send
    <2>4. LoginOK(login[l])'
        BY <1>3, <1>9, <2>2, <2>3 DEF LoginOK
    <2>5. QED
        BY <1>2, <1>3, <1>5, <1>6, <1>7, <2>3, <2>4, TabStepInv
<1>10. QED
    BY <1>8, <1>9

LEMMA MoveInv ==
    ASSUME Inv, NEW t \in Tabs,
           OpenRoom(t) \/ ToLobby(t) \/ \E l \in Logins : BackToCallback(t, l)
    PROVE  Inv'
<1>1. CASE OpenRoom(t)
    BY <1>1, PageInv DEF OpenRoom
<1>2. CASE ToLobby(t)
    BY <1>2, PageInv DEF ToLobby
<1>3. ASSUME NEW l \in Logins, BackToCallback(t, l) PROVE Inv'
    BY <1>3, PageInv DEF BackToCallback
<1>4. QED
    BY <1>1, <1>2, <1>3

LEMMA RoomPageInv ==
    ASSUME Inv, NEW t \in Tabs, PollAgain(t) \/ RoomArrives(t)
    PROVE  Inv'
<1> DEFINE p == IF tab[t].room = "asked" /\ tab[t].session = NoPair THEN "crashed" ELSE "room"
           r == tab'[t].room
<1>1. tab[t] \in TabRecords /\ tab[t].page = "room" /\ tab \in [Tabs -> TabRecords]
    BY DEF Inv, PollAgain, RoomArrives
<1>2. CASE PollAgain(t)
    <2>1. tab' = [tab EXCEPT ![t].page = "room", ![t].room = "asked"]
        BY <1>1, <1>2 DEF PollAgain, TabRecords
    <2>2. QED
        BY <1>1, <1>2, <2>1, PageInv DEF PollAgain
<1>3. CASE RoomArrives(t) /\ tab[t].session = NoPair
    <2>1. Doomed(tab[t])
        BY <1>1, <1>3 DEF Doomed
    <2>2. tab' = [tab EXCEPT ![t].page = "crashed", ![t].room = "none"]
        BY <1>3 DEF RoomArrives
    <2>3. QED
        BY <1>3, <2>1, <2>2, PageInv DEF RoomArrives
<1>4. CASE RoomArrives(t) /\ tab[t].session # NoPair
    <2>1. tab' = [tab EXCEPT ![t].page = "room", ![t].room = "shown"]
        BY <1>1, <1>4 DEF RoomArrives, TabRecords
    <2>2. QED
        BY <1>1, <1>4, <2>1, PageInv DEF RoomArrives
<1>5. QED
    BY <1>2, <1>3, <1>4

\* What happens to a login at the server.
LEMMA ServerInv ==
    ASSUME Inv, NEW l \in Logins, Exchange(l) \/ ExchangeFails(l)
    PROVE  Inv'
<1> DEFINE c == login[l].code
           phase == IF Exchange(l) THEN "granted" ELSE "refused"
           m == [login[l] EXCEPT !.phase = phase]
<1>1. LoginOK(login[l]) /\ login[l] \in LoginRecords /\ c \in Codes /\ ServerOK
    BY DEF Inv, LoginOK, Exchange, ExchangeFails
<1>2. code' = code \/ code' = [code EXCEPT ![c] = "used"]
    BY DEF Exchange, ExchangeFails
<1>3. valid' = valid \/ valid' = valid \cup {c}
    BY DEF Exchange, ExchangeFails
<1>4. ServerOK'
    BY <1>1, <1>2, <1>3 DEF ServerOK
<1>5. \/ login' = [login EXCEPT ![l].phase = "granted"]
      \/ login' = [login EXCEPT ![l].phase = "refused"]
    BY DEF Exchange, ExchangeFails
<1>6. ASSUME NEW x \in {"granted", "refused"}, login' = [login EXCEPT ![l].phase = x]
      PROVE  Inv'
    <2>1. login' = [login EXCEPT ![l] = [login[l] EXCEPT !.phase = x]]
        BY <1>6 DEF Inv
    <2>2. LoginOK([login[l] EXCEPT !.phase = x])
        BY <1>1 DEF LoginOK, LoginRecords
    <2>3. UNCHANGED <<saved, tab>>
        BY DEF Exchange, ExchangeFails
    <2>4. QED
        BY <1>4, <2>1, <2>2, <2>3, LoginStepInv
<1>7. QED
    BY <1>5, <1>6

LEMMA ExpireInv ==
    ASSUME Inv, NEW c \in Codes, Expire(c)
    PROVE  Inv'
<1>1. ServerOK'
    BY DEF Inv, ServerOK, Expire
<1>2. \A t \in Tabs : TabOK(tab[t])' /\ SavedFor(tab[t])'
    BY DEF Inv, TabOK, Doomed, Genuine, SavedFor, Expire
<1>3. QED
    BY <1>1, <1>2 DEF Inv, Expire, LoginOK, Genuine

\* A login that is over.
LEMMA NoLoginOK ==
    LoginOK(NoLogin)
BY Values DEF LoginOK

\* The answer of a login, where its page is still there.
LEMMA LoginArrivesInv ==
    ASSUME Inv, NEW l \in Logins, LoginArrives(l)
    PROVE  Inv'
<1> DEFINE p == Pair(login[l].code)
<1>1. LoginOK(login[l]) /\ login[l] \in LoginRecords /\ login[l].code \in Codes /\ ServerOK
    BY DEF Inv, LoginOK, LoginArrives
<1>2. ServerOK'
    BY <1>1 DEF ServerOK, LoginArrives
<1>3. login' = [login EXCEPT ![l] = NoLogin]
    BY DEF LoginArrives
<1>4. CASE login[l].tab = NoTab
    <2>1. UNCHANGED <<saved, tab>>
        BY <1>4 DEF LoginArrives
    <2>2. QED
        BY <1>2, <1>3, <2>1, NoLoginOK, LoginStepInv
<1>5. ASSUME NEW t \in Tabs, t = login[l].tab
      PROVE  Inv'
    <2> DEFINE n == tab'[t]
    <2>1. t # NoTab /\ tab[t].code # NoCode
        BY <1>1, <1>5, SessionAssumption DEF LoginOK
    <2>2. p \in Pairs /\ Genuine(p) /\ p # NoPair
        BY <1>1, PairOK
    <2>3. saved' = p /\ EndLogin(t, p)
        BY <1>5, <2>1 DEF LoginArrives
    <2>4. TabOK(tab[t]) /\ tab[t] \in TabRecords
        BY <2>1 DEF Inv, TabOK
    <2>5. tab' \in [Tabs -> TabRecords] /\ \A x \in Tabs \ {t} : tab'[x] = tab[x]
        BY <2>1, <2>2, <2>3, <2>4 DEF Inv, EndLogin, TabRecords
    <2>6. n.page = tab[t].page /\ n.read = tab[t].read /\ n.url = tab[t].url
          /\ n.code = tab[t].code /\ n.session \in {p, tab[t].session}
        BY <2>1, <2>3, <2>4 DEF Inv, EndLogin, TabRecords
    <2>7. n \in TabRecords
        BY <2>1, <2>5
    <2>8. TabOK(n)
        BY <2>1, <2>2, <2>4, <2>6, <2>7 DEF TabOK, Genuine
    <2>9. SavedFor(tab[t])'
        BY <2>2, <2>3 DEF SavedFor, NoPair
    <2>10. login' \in [Logins -> LoginRecords] /\ login'[l] = NoLogin
           /\ \A k \in Logins \ {l} : login'[k] = login[k]
        BY <1>3, Values DEF Inv
    <2>11. LoginOK(login[l])'
        BY <2>10, Values DEF LoginOK
    <2>12. QED
        BY <1>2, <2>1, <2>2, <2>3, <2>5, <2>6, <2>8, <2>9, <2>10, <2>11, TabStepInv
<1>6. QED
    BY <1>1, <1>4, <1>5 DEF LoginRecords

LEMMA LoginFailsInv ==
    ASSUME Inv, NEW l \in Logins, LoginFails(l)
    PROVE  Inv'
<1>1. LoginOK(login[l]) /\ login[l] \in LoginRecords /\ ServerOK
    BY DEF Inv, LoginOK, LoginFails
<1>2. ServerOK'
    BY <1>1 DEF ServerOK, LoginFails
<1>3. login' = [login EXCEPT ![l] = NoLogin] /\ saved' = saved
    BY DEF LoginFails
<1>4. CASE login[l].tab = NoTab
    <2>1. UNCHANGED <<saved, tab>>
        BY <1>4 DEF LoginFails
    <2>2. QED
        BY <1>2, <1>3, <2>1, NoLoginOK, LoginStepInv
<1>5. ASSUME NEW t \in Tabs, t = login[l].tab
      PROVE  Inv'
    <2> DEFINE n == tab'[t]
    <2>1. t # NoTab /\ tab[t].code # NoCode
        BY <1>1, <1>5, SessionAssumption DEF LoginOK
    <2>2. TabOK(tab[t]) /\ SavedFor(tab[t]) /\ tab[t] \in TabRecords
        BY <2>1 DEF Inv, TabOK
    <2>3. tab' = [tab EXCEPT ![t].session = NoPair,
                             ![t].page = IF tab[t].room = "shown" THEN "crashed" ELSE @,
                             ![t].room = IF @ = "shown" THEN "none" ELSE @]
        BY <1>5, <2>1 DEF LoginFails
    <2>4. tab' \in [Tabs -> TabRecords] /\ \A x \in Tabs \ {t} : tab'[x] = tab[x]
        BY <2>1, <2>2, <2>3, Values DEF Inv, TabRecords
    <2>5. n.session = NoPair /\ n.read = tab[t].read /\ n.url = tab[t].url
          /\ n.code = tab[t].code
        BY <2>1, <2>2, <2>3 DEF Inv, TabRecords
    <2>6. n \in TabRecords
        BY <2>1, <2>4
    <2>7. TabOK(n)
        BY <2>1, <2>2, <2>5, <2>6, Values DEF TabOK, Genuine
    <2>8. SavedFor(tab[t])'
        BY <1>3, <2>2, <2>5 DEF SavedFor, NoPair
    <2>9. login' \in [Logins -> LoginRecords] /\ login'[l] = NoLogin
          /\ \A k \in Logins \ {l} : login'[k] = login[k]
        BY <1>3, Values DEF Inv
    <2>10. LoginOK(login[l])'
        BY <2>9, Values DEF LoginOK
    <2>11. QED
        BY <1>2, <1>3, <2>1, <2>4, <2>5, <2>7, <2>8, <2>9, <2>10, TabStepInv
<1>6. QED
    BY <1>1, <1>4, <1>5 DEF LoginRecords

LEMMA NextInv == Inv /\ [Next]_vars => Inv'
<1> SUFFICES ASSUME Inv, [Next]_vars PROVE Inv'
    OBVIOUS
<1>1. ASSUME NEW t \in Tabs, TabStep(t) PROVE Inv'
    BY <1>1, OpenTabInv, ReloadInv, CloseTabInv, StartInv, MoveInv, RoomPageInv DEF TabStep
<1>2. ASSUME NEW s \in Tabs, NEW t \in Tabs, NEW c \in Codes, Authorize(s, t, c)
      PROVE  Inv'
    BY <1>2, AuthorizeInv
<1>3. ASSUME NEW l \in Logins,
             Exchange(l) \/ ExchangeFails(l) \/ LoginArrives(l) \/ LoginFails(l)
      PROVE  Inv'
    BY <1>3, ServerInv, LoginArrivesInv, LoginFailsInv
<1>4. ASSUME NEW c \in Codes, Expire(c) PROVE Inv'
    BY <1>4, ExpireInv
<1>5. CASE UNCHANGED vars
    BY <1>5 DEF vars, Inv, ServerOK, TabOK, Doomed, Genuine, SavedFor, LoginOK
<1>6. QED
    BY <1>1, <1>2, <1>3, <1>4, <1>5 DEF Next

-----------------------------------------------------------------------------
(* The theorems.                                                           *)

\* The inductive invariant holds in every state.
LEMMA SpecInv == Spec => []Inv
BY InitInv, NextInv, PTL DEF Spec

\* A tab, a login and the saved pair are always of their types.
THEOREM TypeCorrect == Spec => []TypeOK
<1>1. Inv => TypeOK
    BY DEF Inv, TypeOK, ServerOK, TabRecords, LoginRecords
<1>2. QED
    BY <1>1, SpecInv, PTL

\* Whatever tabs read, verify and save at the same time, the user that one of
\* them shows is the one for whom the server takes its token.
THEOREM IdentityIsAlwaysOwner == Spec => []IdentityIsOwner
<1>1. Inv => IdentityIsOwner
    BY DEF Inv, IdentityIsOwner, TabOK, Genuine
<1>2. QED
    BY <1>1, SpecInv, PTL

\* Whoever is logged in in a tab finds a pair when the application is loaded
\* again.
THEOREM SessionsAreAlwaysSaved == Spec => []SessionsAreSaved
<1>1. Inv => SessionsAreSaved
    BY DEF Inv, SessionsAreSaved, SavedFor
<1>2. QED
    BY <1>1, SpecInv, PTL

\* A room page can throw for want of a user only in a tab that came through
\* the callback page.
THEOREM OnlyTabsOfLoginsCrash == Spec => []OnlyCallbackTabsCrash
<1>1. Inv => OnlyCallbackTabsCrash
    BY DEF Inv, OnlyCallbackTabsCrash, TabOK, Doomed
<1>2. QED
    BY <1>1, SpecInv, PTL
=============================================================================
