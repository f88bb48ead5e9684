------------------------- MODULE RoomRefreshProofs -------------------------
(***************************************************************************)
(* Proofs about polling, for any rooms, writers, overlapping polls and     *)
(* ticks in a second.                                                      *)
(***************************************************************************)
EXTENDS RoomRefresh, TLAPS

-----------------------------------------------------------------------------
(* Seconds.                                                                *)

LEMMA Division ==
    ASSUME NEW n \in Nat, NEW s \in Nat \ {0}
    PROVE  /\ n \div s \in Nat
           /\ (n \div s) * s <= n
           /\ n < (n \div s) * s + s
BY SMT

\* Of the multiples of s, none lies between one and the next.
LEMMA Multiples ==
    ASSUME NEW s \in Nat \ {0}, NEW a \in Nat, NEW b \in Nat, a * s < b * s + s
    PROVE  a <= b
<1>1. CASE a >= b + 1
    <2>1. (a - (b + 1)) * s >= 0
        BY <1>1, SMT
    <2>2. (a - (b + 1)) * s = a * s - (b * s + s)
        BY SMT
    <2>3. a * s \in Nat /\ b * s \in Nat
        BY SMT
    <2>4. QED
        BY <2>1, <2>2, <2>3, SMT
<1>2. QED
    BY <1>1, SMT

\* A second has begun, does not run backwards, and lasts until the next.
LEMMA SecondFacts ==
    ASSUME NEW n \in Nat
    PROVE  /\ Second(n) \in Nat
           /\ Second(n) <= n
           /\ Second(n) <= Second(n + 1)
           /\ Second(n + 1) <= n => Second(n + 1) = Second(n)
<1> DEFINE a == n \div PerSecond
           b == (n + 1) \div PerSecond
<1>1. PerSecond \in Nat \ {0}
    BY RefreshAssumption
<1>2. a \in Nat /\ a * PerSecond <= n /\ n < a * PerSecond + PerSecond
    BY <1>1, Division
<1>3. b \in Nat /\ b * PerSecond <= n + 1 /\ n + 1 < b * PerSecond + PerSecond
    BY <1>1, Division, n + 1 \in Nat
<1>4. a * PerSecond \in Nat /\ b * PerSecond \in Nat
    BY <1>1, <1>2, <1>3, SMT
<1> HIDE DEF a, b
<1>5. a <= b
    BY <1>1, <1>2, <1>3, <1>4, Multiples, SMT
<1>6. a * PerSecond <= b * PerSecond
    BY <1>1, <1>2, <1>3, <1>5, SMT
<1>7. b * PerSecond <= n => b <= a
    BY <1>1, <1>2, <1>3, <1>4, Multiples, SMT
<1>8. Second(n) = a * PerSecond /\ Second(n + 1) = b * PerSecond
    BY DEF Second, a, b
<1>9. QED
    BY <1>1, <1>2, <1>3, <1>4, <1>5, <1>6, <1>7, <1>8, SMT

-----------------------------------------------------------------------------
(* Type correctness.                                                       *)

\* A poll names a room, so that there is a row to read.
PollsNameRooms == \A p \in Polls : poll[p].phase # "none" => poll[p].id \in RoomIds

TypeInv == TypeOK /\ PollsNameRooms

LEMMA InitType == Init => TypeInv
BY DEF Init, TypeInv, TypeOK, PollsNameRooms, NoWrite, NoCopy, NoPoll

LEMMA NewPollType ==
    ASSUME TypeOK, NEW r \in RoomIds
    PROVE  NewPoll(r) \in [phase : {"sent"}, id : RoomIds, since : Nat, known : Nat,
                           version : Nat, modified : BOOLEAN, mounted : {TRUE}]
BY DEF TypeOK, NewPoll, NoPoll

PollRecords == [phase : {"none", "sent", "read"}, id : RoomIds \cup {NoRoom},
                since : Nat, known : Nat, version : Nat,
                modified : BOOLEAN, mounted : BOOLEAN]

LEMMA NoPollType == NoPoll \in PollRecords
BY DEF NoPoll, PollRecords

\* A step that changes only polls that name rooms, and types nothing else
\* wrongly.
LEMMA PollsType ==
    ASSUME TypeInv, NEW p \in Polls, NEW n \in PollRecords,
           poll' = [poll EXCEPT ![p] = n], n.phase # "none" => n.id \in RoomIds
    PROVE  poll' \in [Polls -> PollRecords] /\ PollsNameRooms'
BY DEF TypeInv, TypeOK, PollsNameRooms, PollRecords

LEMMA NextType == TypeInv /\ [Next]_vars => TypeInv'
<1> SUFFICES ASSUME TypeInv, [Next]_vars PROVE TypeInv'
    OBVIOUS
<1> USE DEF TypeInv
<1>1. CASE PassTime
    BY <1>1 DEF TypeOK, PollsNameRooms, PassTime, server, client
<1>2. ASSUME NEW w \in Writers, NEW r \in RoomIds, BeginWrite(w, r) PROVE TypeInv'
    BY <1>2 DEF TypeOK, PollsNameRooms, BeginWrite, client
<1>3. ASSUME NEW w \in Writers, CommitWrite(w) PROVE TypeInv'
    <2>1. NoWrite \in [id : RoomIds \cup {NoRoom}, stamp : Nat]
        BY DEF NoWrite
    <2>2. write' \in [Writers -> [id : RoomIds \cup {NoRoom}, stamp : Nat]]
        BY <1>3, <2>1 DEF TypeOK, CommitWrite
    <2>3. [version |-> row[write[w].id].version + 1, updated |-> write[w].stamp]
              \in [version : Nat, updated : Nat] \/ write[w].id \notin RoomIds
        BY DEF TypeOK
    <2>4. row' \in [RoomIds -> [version : Nat, updated : Nat]]
        BY <1>3, <2>3 DEF TypeOK, CommitWrite
    <2>5. QED
        BY <1>3, <2>2, <2>4 DEF TypeOK, PollsNameRooms, CommitWrite, client
<1>4. ASSUME NEW p \in Polls, NEW r \in RoomIds, Mount(p, r) PROVE TypeInv'
    <2>1. NewPoll(r) \in PollRecords /\ NewPoll(r).id \in RoomIds
        BY NewPollType DEF PollRecords
    <2>2. \A o \in Polls : [poll[o] EXCEPT !.mounted = FALSE] \in PollRecords
        BY DEF TypeOK, PollRecords
    <2>3. poll' \in [Polls -> PollRecords]
        BY <1>4, <2>1, <2>2 DEF Mount
    <2>4. PollsNameRooms'
        BY <1>4, <2>1 DEF Mount, PollsNameRooms, TypeOK
    <2>5. QED
        BY <1>4, <2>3, <2>4 DEF TypeOK, Mount, server, NoCopy, PollRecords
<1>5. ASSUME NEW p \in Polls, ReadRow(p) PROVE TypeInv'
    <2> DEFINE n == [poll[p] EXCEPT !.phase = "read", !.version = row[poll[p].id].version,
                                    !.modified = row[poll[p].id].updated >= poll[p].since]
    <2>1. poll[p].id \in RoomIds
        BY <1>5 DEF ReadRow, PollsNameRooms
    <2>2. row[poll[p].id].version \in Nat
        BY <2>1 DEF TypeOK
    <2>3. (row[poll[p].id].updated >= poll[p].since) \in BOOLEAN
        OBVIOUS
    <2>4. n \in PollRecords /\ n.id \in RoomIds
        BY <2>1, <2>2, <2>3 DEF TypeOK, PollRecords
    <2>5. poll' = [poll EXCEPT ![p] = n]
        BY <1>5 DEF ReadRow
    <2> HIDE DEF n
    <2>6. poll' \in [Polls -> PollRecords] /\ PollsNameRooms'
        BY <2>4, <2>5, PollsType
    <2>7. QED
        BY <1>5, <2>6 DEF TypeOK, ReadRow, server, PollRecords
<1>6. ASSUME NEW p \in Polls, ArriveModified(p) PROVE TypeInv'
    <2>1. poll' \in [Polls -> PollRecords] /\ PollsNameRooms'
        BY <1>6, NoPollType, PollsType DEF ArriveModified, NoPoll
    <2>2. poll[p] \in PollRecords /\ poll[p].id \in RoomIds
        BY <1>6 DEF ArriveModified, TypeOK, PollsNameRooms, PollRecords
    <2>3. lastRefresh' \in [id : RoomIds \cup {NoRoom}, refreshedAt : Nat, version : Nat]
        BY <1>6, <2>2, SecondFacts DEF TypeOK, ArriveModified, PollRecords
    <2>4. view' \in [id : RoomIds \cup {NoRoom}, version : Nat] /\ fetching' \in BOOLEAN
        <3>1. CASE poll[p].mounted
            <4>1. [id |-> poll[p].id, version |-> poll[p].version]
                      \in [id : RoomIds \cup {NoRoom}, version : Nat]
                BY <2>2 DEF PollRecords
            <4>2. QED
                BY <1>6, <3>1, <4>1 DEF ArriveModified, Show
        <3>2. CASE ~poll[p].mounted
            BY <1>6, <3>2 DEF TypeOK, ArriveModified, Show
        <3>3. QED
            BY <3>1, <3>2
    <2>5. QED
        BY <1>6, <2>1, <2>3, <2>4 DEF TypeOK, ArriveModified, server, PollRecords
<1>7. ASSUME NEW p \in Polls, ArriveNotModified(p) PROVE TypeInv'
    <2>1. poll' \in [Polls -> PollRecords] /\ PollsNameRooms'
        BY <1>7, NoPollType, PollsType DEF ArriveNotModified, NoPoll
    <2>2. view' \in [id : RoomIds \cup {NoRoom}, version : Nat] /\ fetching' \in BOOLEAN
        <3>1. [id |-> lastRefresh.id, version |-> lastRefresh.version]
                  \in [id : RoomIds \cup {NoRoom}, version : Nat]
            BY DEF TypeOK
        <3>2. CASE poll[p].mounted
            BY <1>7, <3>1, <3>2 DEF TypeOK, ArriveNotModified, Show
        <3>3. CASE ~poll[p].mounted
            BY <1>7, <3>3 DEF TypeOK, ArriveNotModified, Show
        <3>4. QED
            BY <3>2, <3>3
    <2>3. QED
        BY <1>7, <2>1, <2>2 DEF TypeOK, ArriveNotModified, server, PollRecords
<1>8. ASSUME NEW p \in Polls, IntervalPoll(p) PROVE TypeInv'
    <2>1. page \in RoomIds /\ NewPoll(page) \in PollRecords /\ NewPoll(page).id \in RoomIds
        BY <1>8, NewPollType DEF IntervalPoll, TypeOK, PollRecords
    <2>2. poll' \in [Polls -> PollRecords] /\ PollsNameRooms'
        BY <1>8, <2>1, PollsType DEF IntervalPoll
    <2>3. QED
        BY <1>8, <2>2 DEF TypeOK, IntervalPoll, server, PollRecords
<1>9. ASSUME NEW p \in Polls, PollFails(p) PROVE TypeInv'
    <2>1. poll' \in [Polls -> PollRecords] /\ PollsNameRooms'
        BY <1>9, NoPollType, PollsType DEF PollFails, NoPoll
    <2>2. QED
        BY <1>9, <2>1 DEF TypeOK, PollFails, server, PollRecords
<1>10. CASE BeginAct
    BY <1>10 DEF TypeOK, PollsNameRooms, BeginAct, server
<1>11. CASE EndAct
    <2>1. acting' \in Nat
        BY <1>11, SMT DEF TypeOK, EndAct
    <2>2. QED
        BY <1>11, <2>1 DEF TypeOK, PollsNameRooms, EndAct, server
<1>12. CASE UNCHANGED vars
    BY <1>12 DEF TypeOK, PollsNameRooms, vars
<1>13. QED
    BY <1>1, <1>2, <1>3, <1>4, <1>5, <1>6, <1>7, <1>8, <1>9, <1>10, <1>11, <1>12
    DEF Next, PollStep

\* The variables keep their types: in particular no operation of a page ends
\* that has not begun.
THEOREM TypeCorrect == Spec => []TypeOK
<1>1. TypeInv => TypeOK
    BY DEF TypeInv
<1>2. QED
    BY <1>1, InitType, NextType, PTL DEF Spec

-----------------------------------------------------------------------------
(* "Not modified" is true, if what begins in a second ends in it.          *)

\* A copy of room r in this version is up to date, or the room has changed at
\* t or later.
Covers(version, r, t) ==
    /\ version <= row[r].version
    /\ version = row[r].version \/ row[r].updated >= t

\* A change that is about to be committed bears a time of this second.
WritesAreFresh ==
    \A w \in Writers : write[w] # NoWrite =>
        write[w].id \in RoomIds /\ write[w].stamp >= Second(clock)

\* The copy of the client is good for its time.
CopyIsGood ==
    /\ lastRefresh.refreshedAt <= Second(clock)
    /\ lastRefresh.id \in RoomIds =>
          Covers(lastRefresh.version, lastRefresh.id, lastRefresh.refreshedAt)

\* A poll that is to be read asks about a good copy, or about none (then its
\* time is 0); one that was read in this second found what it says.
PollIsGood(p) ==
    /\ poll[p].phase # "none" => poll[p].since <= lastRefresh.refreshedAt
    /\ poll[p].phase = "sent" =>
          poll[p].known = row[poll[p].id].version \/ row[poll[p].id].updated >= poll[p].since
    /\ poll[p].phase = "read" =>
          IF poll[p].modified
          THEN Covers(poll[p].version, poll[p].id, Second(clock))
          ELSE poll[p].known = poll[p].version /\ poll[p].version <= row[poll[p].id].version

CopiesInv == WritesAreFresh /\ CopyIsGood /\ \A p \in Polls : PollIsGood(p)

LEMMA CopiesInit == Init => CopiesInv
<1> SUFFICES ASSUME Init PROVE CopiesInv
    OBVIOUS
<1>1. Second(0) \in Nat
    BY SecondFacts
<1>2. WritesAreFresh
    BY DEF Init, WritesAreFresh
<1>3. CopyIsGood
    BY <1>1, RefreshAssumption DEF Init, CopyIsGood
<1>4. \A p \in Polls : PollIsGood(p)
    BY DEF Init, PollIsGood, NoPoll
<1>5. QED
    BY <1>2, <1>3, <1>4 DEF CopiesInv

\* What a new poll asks.
LEMMA NewPollIsGood ==
    ASSUME TypeOK, CopyIsGood, NEW r \in RoomIds
    PROVE  /\ NewPoll(r).phase = "sent" /\ NewPoll(r).id = r /\ NewPoll(r).mounted
           /\ NewPoll(r).since <= lastRefresh.refreshedAt
           /\ NewPoll(r).known = row[r].version \/ row[r].updated >= NewPoll(r).since
<1>1. CASE lastRefresh.id = r
    BY <1>1 DEF TypeOK, CopyIsGood, Covers, NewPoll, NoPoll
<1>2. CASE lastRefresh.id # r
    BY <1>2 DEF TypeOK, CopyIsGood, NewPoll, NoPoll
<1>3. QED
    BY <1>1, <1>2

LEMMA CopiesNext == ASSUME Prompt PROVE TypeInv /\ CopiesInv /\ [Next]_vars => CopiesInv'
<1> SUFFICES ASSUME TypeInv, CopiesInv, [Next]_vars PROVE CopiesInv'
    OBVIOUS
<1> USE DEF CopiesInv
<1> TypeOK /\ PollsNameRooms
    BY DEF TypeInv
<1> DEFINE now == Second(clock)
<1>0. now \in Nat /\ clock \in Nat
    BY SecondFacts DEF TypeOK
<1> HIDE DEF now
<1>1. CASE PassTime
    <2>1. clock' = clock + 1 /\ UNCHANGED <<server, client>>
        BY <1>1 DEF PassTime
    <2>2. CASE Second(clock + 1) > clock
        <3>1. \A w \in Writers : write[w] = NoWrite
            BY <1>1, <2>2 DEF PassTime
        <3>2. \A p \in Polls : poll[p].phase # "read"
            BY <1>1, <2>2 DEF PassTime
        <3>3. Second(clock)' \in Nat /\ Second(clock) <= Second(clock)'
            BY <1>0, <2>1, SecondFacts, clock + 1 \in Nat
        <3>4. WritesAreFresh'
            BY <2>1, <3>1 DEF WritesAreFresh, server
        <3>5. CopyIsGood'
            BY <1>0, <2>1, <3>3 DEF CopyIsGood, Covers, TypeOK, server, client, now
        <3>6. \A p \in Polls : PollIsGood(p)'
            BY <2>1, <3>2 DEF PollIsGood, server, client
        <3>7. QED
            BY <3>4, <3>5, <3>6
    <2>3. CASE ~(Second(clock + 1) > clock)
        <3>1. Second(clock)' = Second(clock)
            BY <1>0, <2>1, <2>3, SecondFacts, clock + 1 \in Nat
        <3>2. QED
            BY <2>1, <3>1
            DEF WritesAreFresh, CopyIsGood, PollIsGood, Covers, server, client
    <2>4. QED
        BY <2>2, <2>3
<1>2. ASSUME NEW w \in Writers, NEW r \in RoomIds, BeginWrite(w, r) PROVE CopiesInv'
    <2>1. now <= clock
        BY <1>0, SecondFacts DEF now
    <2>2. WritesAreFresh'
        BY <1>2, <2>1 DEF BeginWrite, WritesAreFresh, TypeOK, now
    <2>3. CopyIsGood' /\ \A p \in Polls : PollIsGood(p)'
        BY <1>2 DEF BeginWrite, CopyIsGood, PollIsGood, Covers, client
    <2>4. QED
        BY <2>2, <2>3
<1>3. ASSUME NEW w \in Writers, CommitWrite(w) PROVE CopiesInv'
    <2> DEFINE i == write[w].id
               stamp == write[w].stamp
    <2>1. i \in RoomIds /\ stamp \in Nat /\ stamp >= now
        BY <1>3 DEF CommitWrite, WritesAreFresh, TypeOK, now
    <2>2. row' = [row EXCEPT ![i] = [version |-> row[i].version + 1, updated |-> stamp]]
        BY <1>3 DEF CommitWrite
    <2>3. clock' = clock /\ UNCHANGED client /\ write' = [write EXCEPT ![w] = NoWrite]
        BY <1>3 DEF CommitWrite
    <2> HIDE DEF i, stamp
    <2>4. ASSUME NEW r \in RoomIds
          PROVE  /\ row[r].version \in Nat /\ row[r].updated \in Nat
                 /\ row'[r].version \in Nat /\ row'[r].updated \in Nat
                 /\ \/ row'[r] = row[r]
                    \/ row'[r].version = row[r].version + 1 /\ row'[r].updated >= now
        <3>1. row[r].version \in Nat /\ row[r].updated \in Nat
            BY DEF TypeOK
        <3>2. CASE r = i
            <4>1. row'[r] = [version |-> row[r].version + 1, updated |-> stamp]
                BY <2>1, <2>2, <3>2 DEF TypeOK
            <4>2. QED
                BY <2>1, <3>1, <4>1
        <3>3. CASE r # i
            <4>1. row'[r] = row[r]
                BY <2>2, <3>3 DEF TypeOK
            <4>2. QED
                BY <3>1, <4>1
        <3>4. QED
            BY <3>2, <3>3
    <2>5. WritesAreFresh'
        BY <2>3 DEF WritesAreFresh, TypeOK
    <2>6. CopyIsGood'
        BY <1>0, <2>3, <2>4 DEF CopyIsGood, Covers, TypeOK, client, now
    <2>7. ASSUME NEW p \in Polls PROVE PollIsGood(p)'
        <3>1. PollIsGood(p) /\ poll'[p] = poll[p] /\ lastRefresh' = lastRefresh
              /\ Second(clock)' = now
            BY <2>3 DEF client, now
        <3>2. lastRefresh.refreshedAt \in Nat /\ lastRefresh.refreshedAt <= now
            BY DEF TypeOK, CopyIsGood, now
        <3>3. poll[p].since \in Nat /\ poll[p].known \in Nat /\ poll[p].version \in Nat
            BY DEF TypeOK
        <3>4. CASE poll[p].phase = "sent"
            <4>1. poll[p].id \in RoomIds
                BY <3>4 DEF PollsNameRooms
            <4>2. poll[p].since <= now
                BY <1>0, <3>1, <3>2, <3>3, <3>4 DEF PollIsGood
            <4>3. QED
                BY <4>1, <4>2, <1>0, <2>4, <3>1, <3>2, <3>3, <3>4 DEF PollIsGood
        <3>5. CASE poll[p].phase = "read"
            <4>1. poll[p].id \in RoomIds
                BY <3>5 DEF PollsNameRooms
            <4>2. QED
                BY <4>1, <1>0, <2>4, <3>1, <3>2, <3>3, <3>5 DEF PollIsGood, Covers, now
        <3>6. CASE poll[p].phase \notin {"sent", "read"}
            BY <3>1, <3>6 DEF PollIsGood
        <3>7. QED
            BY <3>4, <3>5, <3>6
    <2>8. QED
        BY <2>5, <2>6, <2>7
<1>4. ASSUME NEW p \in Polls, NEW r \in RoomIds, Mount(p, r) PROVE CopiesInv'
    <2>1. UNCHANGED <<clock, server, lastRefresh>>
        BY <1>4 DEF Mount
    <2>2. \A o \in Polls : poll'[o] = IF o = p THEN NewPoll(r)
                                       ELSE [poll[o] EXCEPT !.mounted = FALSE]
        BY <1>4 DEF Mount, TypeOK
    <2>3. ASSUME NEW o \in Polls PROVE PollIsGood(o)'
        <3>1. CASE o = p
            <4>1. /\ poll'[p].phase = "sent" /\ poll'[p].id = r
                  /\ poll'[p].since <= lastRefresh.refreshedAt
                  /\ poll'[p].known = row[r].version \/ row[r].updated >= poll'[p].since
                <5>1. poll'[p] = NewPoll(r)
                    BY <2>2
                <5>2. CopyIsGood
                    OBVIOUS
                <5>3. QED
                    BY <5>1, <5>2, NewPollIsGood
            <4>2. QED
                BY <2>1, <3>1, <4>1 DEF PollIsGood, server
        <3>2. CASE o # p
            <4>1. /\ poll'[o].phase = poll[o].phase /\ poll'[o].id = poll[o].id
                  /\ poll'[o].since = poll[o].since /\ poll'[o].known = poll[o].known
                  /\ poll'[o].version = poll[o].version
                  /\ poll'[o].modified = poll[o].modified
                BY <2>2, <3>2 DEF TypeOK
            <4>2. QED
                BY <2>1, <4>1 DEF PollIsGood, Covers, server
        <3>3. QED
            BY <3>1, <3>2
    <2>4. WritesAreFresh' /\ CopyIsGood'
        BY <2>1 DEF WritesAreFresh, CopyIsGood, Covers, server
    <2>5. QED
        BY <2>3, <2>4
<1>5. ASSUME NEW p \in Polls, ReadRow(p) PROVE CopiesInv'
    <2> DEFINE r == poll[p].id
    <2>1. poll[p].phase = "sent" /\ UNCHANGED <<clock, server, lastRefresh>>
        BY <1>5 DEF ReadRow
    <2>2. \A o \in Polls : poll'[o] =
              IF o = p THEN [poll[p] EXCEPT !.phase = "read", !.version = row[r].version,
                                           !.modified = row[r].updated >= poll[p].since]
              ELSE poll[o]
        BY <1>5 DEF ReadRow, TypeOK
    <2>3. PollIsGood(p)'
        <3>1. r \in RoomIds /\ r = poll'[p].id /\ poll'[p].phase = "read"
              /\ poll'[p].since = poll[p].since /\ poll'[p].known = poll[p].known
              /\ poll'[p].version = row[r].version
              /\ poll'[p].modified = (row[r].updated >= poll[p].since)
            BY <2>1, <2>2 DEF PollsNameRooms, TypeOK
        <3>2. row[r].version \in Nat /\ row[r].updated \in Nat /\ poll[p].since \in Nat
            BY <3>1 DEF TypeOK
        <3>3. poll[p].since <= lastRefresh'.refreshedAt /\ row' = row
            BY <2>1 DEF PollIsGood, server
        <3>4. CASE row[r].updated >= poll[p].since
            <4>1. poll'[p].modified
                BY <3>1, <3>4
            <4>2. row'[r].version = row[r].version
                BY <3>3
            <4>3. Covers(poll[p].version, poll[p].id, Second(clock))'
                BY <3>1, <3>2, <4>2 DEF Covers
            <4>4. QED
                BY <3>1, <3>3, <4>1, <4>3 DEF PollIsGood
        <3>5. CASE ~(row[r].updated >= poll[p].since)
            <4>1. ~poll'[p].modified /\ poll'[p].known = row[r].version
                BY <2>1, <3>1, <3>5 DEF PollIsGood
            <4>2. QED
                BY <3>1, <3>2, <3>3, <4>1 DEF PollIsGood
        <3>6. QED
            BY <3>4, <3>5
    <2>4. \A o \in Polls \ {p} : PollIsGood(o)'
        BY <2>1, <2>2 DEF PollIsGood, Covers, server
    <2>5. WritesAreFresh' /\ CopyIsGood'
        BY <2>1 DEF WritesAreFresh, CopyIsGood, Covers, server
    <2>6. QED
        BY <2>3, <2>4, <2>5
<1>6. ASSUME NEW p \in Polls, ArriveModified(p) PROVE CopiesInv'
    <2>1. /\ poll[p].phase = "read" /\ poll[p].modified /\ UNCHANGED <<clock, server>>
          /\ lastRefresh' = [id |-> poll[p].id, refreshedAt |-> now,
                             version |-> poll[p].version]
        BY <1>6 DEF ArriveModified, now
    <2>2. \A o \in Polls : poll'[o] = IF o = p THEN NoPoll ELSE poll[o]
        BY <1>6 DEF ArriveModified, TypeOK
    <2>3. CopyIsGood'
        BY <1>0, <2>1 DEF CopyIsGood, PollIsGood, PollsNameRooms, Covers, server, now
    <2>4. ASSUME NEW o \in Polls PROVE PollIsGood(o)'
        <3>1. CASE o = p
            BY <2>2, <3>1 DEF PollIsGood, NoPoll
        <3>2. CASE o # p
            BY <1>0, <2>1, <2>2, <3>2
            DEF PollIsGood, CopyIsGood, Covers, TypeOK, server, now
        <3>3. QED
            BY <3>1, <3>2
    <2>5. WritesAreFresh'
        BY <2>1 DEF WritesAreFresh, server
    <2>6. QED
        BY <2>3, <2>4, <2>5
<1>7. ASSUME NEW p \in Polls, ArriveNotModified(p) \/ PollFails(p) PROVE CopiesInv'
    <2>1. UNCHANGED <<clock, server, lastRefresh>>
        BY <1>7 DEF ArriveNotModified, PollFails
    <2>2. \A o \in Polls : poll'[o] = IF o = p THEN NoPoll ELSE poll[o]
        BY <1>7 DEF ArriveNotModified, PollFails, TypeOK
    <2>3. ASSUME NEW o \in Polls PROVE PollIsGood(o)'
        BY <2>1, <2>2 DEF PollIsGood, Covers, NoPoll, server
    <2>4. QED
        BY <2>1, <2>3 DEF WritesAreFresh, CopyIsGood, Covers, server
<1>8. ASSUME NEW p \in Polls, IntervalPoll(p) PROVE CopiesInv'
    <2>1. UNCHANGED <<clock, server, lastRefresh>> /\ page \in RoomIds
        BY <1>8 DEF IntervalPoll, TypeOK
    <2>2. \A o \in Polls : poll'[o] = IF o = p THEN NewPoll(page) ELSE poll[o]
        BY <1>8 DEF IntervalPoll, TypeOK
    <2>3. PollIsGood(p)'
        BY <2>1, <2>2, NewPollIsGood DEF PollIsGood, server
    <2>4. \A o \in Polls \ {p} : PollIsGood(o)'
        BY <2>1, <2>2 DEF PollIsGood, Covers, server
    <2>5. QED
        BY <2>1, <2>3, <2>4 DEF WritesAreFresh, CopyIsGood, Covers, server
<1>9. CASE BeginAct \/ EndAct
    BY <1>9 DEF BeginAct, EndAct, WritesAreFresh, CopyIsGood, PollIsGood, Covers, server
<1>10. CASE UNCHANGED vars
    BY <1>10 DEF vars, WritesAreFresh, CopyIsGood, PollIsGood, Covers
<1>11. QED
    BY <1>1, <1>2, <1>3, <1>4, <1>5, <1>6, <1>7, <1>8, <1>9, <1>10
    DEF Next, PollStep

\* "Resource has not been modified." is only said of a copy that is up to
\* date, if no commit and no answer takes longer than the second in which its
\* time was read.
THEOREM NotModifiedIsAlwaysTrue == ASSUME Prompt PROVE Spec => []NotModifiedIsTrue
<1>1. Init => TypeInv /\ CopiesInv
    BY InitType, CopiesInit
<1>2. (TypeInv /\ CopiesInv) /\ [Next]_vars => (TypeInv /\ CopiesInv)'
    BY NextType, CopiesNext
<1>3. TypeInv /\ CopiesInv => NotModifiedIsTrue
    BY DEF CopiesInv, PollIsGood, NotModifiedIsTrue
<1>4. QED
    BY <1>1, <1>2, <1>3, PTL DEF Spec

-----------------------------------------------------------------------------
(* What a page shows of its room does not go back, under the same          *)
(* assumption.                                                             *)

\* A poll of the page that is mounted.
Live(p) == poll[p].mounted /\ poll[p].phase # "none"

\* Such a poll is the only one, as long as nothing else ends a fetching.
OneLivePoll ==
    \A p \in Polls : Live(p) =>
        fetching /\ poll[p].id = page /\ \A o \in Polls : Live(o) => o = p

\* What the page shows is not newer than the room.
ViewIsPast ==
    /\ page = NoRoom => view.version = 0
    /\ view.id = page /\ page \in RoomIds => view.version <= row[page].version

\* Copy v of room r is at least as new as what poll p has read.
NoOlder(v, r, p) == r = poll[p].id => v >= poll[p].version

\* The answer of the live poll is not older than what the page shows; and if
\* it is "not modified", neither is the copy that this will stand for when it
\* arrives, nor any answer that may replace that copy before.
AnswerIsNew(p) ==
    Live(p) /\ poll[p].phase = "read" =>
        /\ view.id = poll[p].id => view.version <= poll[p].version
        /\ ~poll[p].modified =>
              /\ NoOlder(lastRefresh.version, lastRefresh.id, p)
              /\ \A o \in Polls : poll[o].phase = "read" /\ poll[o].modified =>
                    NoOlder(poll[o].version, poll[o].id, p)

QuietInv ==
    acts = 0 => /\ acting = 0
                /\ OneLivePoll
                /\ ViewIsPast
                /\ \A p \in Polls : AnswerIsNew(p)

LEMMA QuietInit == Init => QuietInv
BY DEF Init, QuietInv, OneLivePoll, ViewIsPast, AnswerIsNew, Live, NoPoll, NoCopy

\* A step that ends poll p and leaves the copy and the view as they are.
LEMMA QuietEnd ==
    ASSUME TypeInv, QuietInv, acts = 0, NEW p \in Polls,
           poll' = [poll EXCEPT ![p] = NoPoll],
           Live(p) \/ fetching' = fetching,
           UNCHANGED <<row, page, acting, acts>>,
           ViewIsPast',
           Live(p) \/ view' = view,
           \A o \in Polls \ {p} : Live(o) /\ poll[o].phase = "read" /\ ~poll[o].modified =>
               NoOlder(lastRefresh'.version, lastRefresh'.id, o)
    PROVE  QuietInv'
<1>1. \A o \in Polls : poll'[o] = IF o = p THEN NoPoll ELSE poll[o]
    BY DEF TypeInv, TypeOK
<1>2. ~Live(p)' /\ \A o \in Polls : Live(o)' => Live(o) /\ o # p
    BY <1>1 DEF Live, NoPoll
<1>3. ASSUME NEW o \in Polls, Live(o)'
      PROVE  view' = view /\ fetching' = fetching /\ Live(o) /\ o # p /\ poll'[o] = poll[o]
    BY <1>1, <1>2, <1>3 DEF QuietInv, OneLivePoll
<1>4. OneLivePoll'
    BY <1>2, <1>3 DEF QuietInv, OneLivePoll
<1>5. ASSUME NEW o \in Polls PROVE AnswerIsNew(o)'
    <2>1. CASE Live(o)' /\ poll'[o].phase = "read"
        <3>1. poll'[o] = poll[o] /\ view' = view /\ Live(o) /\ o # p
            BY <1>3, <2>1
        <3>2. AnswerIsNew(o)
            BY DEF QuietInv
        <3>3. \A x \in Polls : poll'[x].phase = "read" => poll'[x] = poll[x]
            BY <1>1 DEF NoPoll
        <3>4. QED
            BY <2>1, <3>1, <3>2, <3>3 DEF AnswerIsNew, NoOlder
    <2>2. CASE ~(Live(o)' /\ poll'[o].phase = "read")
        BY <2>2 DEF AnswerIsNew
    <2>3. QED
        BY <2>1, <2>2
<1>6. QED
    BY <1>4, <1>5 DEF QuietInv

\* A step after which poll p is the only live one, and not yet read.
LEMMA QuietPoll ==
    ASSUME NEW p \in Polls,
           \A o \in Polls : Live(o)' => o = p,
           poll'[p].phase = "sent", poll'[p].id = page',
           fetching' = TRUE, acting' = 0, ViewIsPast'
    PROVE  QuietInv'
<1>1. OneLivePoll'
    BY DEF OneLivePoll
<1>2. \A o \in Polls : AnswerIsNew(o)'
    BY DEF AnswerIsNew
<1>3. QED
    BY <1>1, <1>2 DEF QuietInv

\* The server reads the row for poll p.
LEMMA QuietRead ==
    ASSUME TypeInv, CopiesInv, CopiesInv', QuietInv, acts = 0,
           NEW p \in Polls, ReadRow(p)
    PROVE  QuietInv'
<1> DEFINE r == poll[p].id
<1>1. /\ UNCHANGED <<clock, row, page, fetching, acting, acts, view, lastRefresh>>
      /\ poll[p].phase = "sent"
    BY DEF ReadRow, server
<1>2. r \in RoomIds /\ row[r].version \in Nat /\ row[r].updated \in Nat
    BY <1>1 DEF TypeInv, TypeOK, PollsNameRooms
<1>3. \A o \in Polls : poll'[o] =
          IF o = p THEN [poll[p] EXCEPT !.phase = "read", !.version = row[r].version,
                                       !.modified = row[r].updated >= poll[p].since]
          ELSE poll[o]
    BY DEF ReadRow, TypeInv, TypeOK
<1>4. /\ poll'[p].phase = "read" /\ poll'[p].id = r /\ poll'[p].version = row[r].version
      /\ poll'[p].mounted = poll[p].mounted /\ poll'[p].since = poll[p].since
      /\ poll'[p].modified = (row[r].updated >= poll[p].since)
    BY <1>3 DEF TypeInv, TypeOK
<1>5. \A o \in Polls : (Live(o)' <=> Live(o)) /\ poll'[o].id = poll[o].id
    BY <1>1, <1>3, <1>4 DEF Live
<1>6. OneLivePoll' /\ ViewIsPast'
    BY <1>1, <1>5 DEF QuietInv, OneLivePoll, ViewIsPast
<1>7. ASSUME NEW o \in Polls, o # p, Live(o), poll[o].phase = "read" PROVE AnswerIsNew(o)'
    <2>1. poll'[o] = poll[o] /\ poll[o].version \in Nat
        BY <1>3, <1>7 DEF TypeInv, TypeOK
    <2>2. poll[o].id \in RoomIds /\ poll[o].version <= row[poll[o].id].version
        BY <1>7 DEF CopiesInv, PollIsGood, Covers, TypeInv, PollsNameRooms
    <2>3. NoOlder(row[r].version, r, o)
        BY <1>2, <2>1, <2>2 DEF NoOlder
    <2>4. AnswerIsNew(o)
        BY DEF QuietInv
    <2>5. QED
        BY <1>1, <1>3, <1>4, <1>7, <2>1, <2>3, <2>4 DEF AnswerIsNew, NoOlder
<1>8. ASSUME Live(p) PROVE AnswerIsNew(p)'
    <2>1. page = r
        BY <1>8 DEF QuietInv, OneLivePoll
    <2>2. view.id = r => view.version <= row[r].version
        BY <1>2, <2>1 DEF QuietInv, ViewIsPast
    <2>3. ASSUME ~poll'[p].modified
          PROVE  /\ NoOlder(lastRefresh.version, lastRefresh.id, p)'
                 /\ \A o \in Polls : poll'[o].phase = "read" /\ poll'[o].modified =>
                       NoOlder(poll[o].version, poll[o].id, p)'
        <3>1. row[r].updated < poll[p].since
            <4>1. poll[p].since \in Nat /\ ~(row[r].updated >= poll[p].since)
                BY <1>4, <2>3 DEF TypeInv, TypeOK
            <4>2. QED
                BY <1>2, <4>1
        <3>2. /\ poll[p].since <= lastRefresh.refreshedAt
              /\ lastRefresh.refreshedAt <= Second(clock)
              /\ poll[p].since \in Nat /\ lastRefresh.refreshedAt \in Nat
              /\ Second(clock) \in Nat
            BY <1>1, SecondFacts
            DEF TypeInv, TypeOK, CopiesInv, CopyIsGood, PollIsGood
        <3>3. lastRefresh.id = r => lastRefresh.version = row[r].version
            BY <1>2, <3>1, <3>2 DEF CopiesInv, CopyIsGood, Covers
        <3>4. ASSUME NEW o \in Polls, poll'[o].phase = "read", poll'[o].modified,
                     poll'[o].id = r
              PROVE  poll'[o].version = row[r].version
            <4>1. o # p /\ poll'[o] = poll[o]
                BY <1>3, <2>3, <3>4
            <4>2. Covers(poll[o].version, r, Second(clock))
                BY <3>4, <4>1 DEF CopiesInv, PollIsGood
            <4>3. QED
                BY <1>2, <3>1, <3>2, <4>1, <4>2 DEF Covers
        <3>5. QED
            BY <1>1, <1>2, <1>4, <3>3, <3>4 DEF NoOlder
    <2>4. QED
        BY <1>1, <1>4, <2>2, <2>3 DEF AnswerIsNew
<1>9. \A o \in Polls : AnswerIsNew(o)'
    <2>1. SUFFICES ASSUME NEW o \in Polls, Live(o)', poll'[o].phase = "read"
                   PROVE  AnswerIsNew(o)'
        BY DEF AnswerIsNew
    <2>2. Live(o) /\ (o # p => poll[o].phase = "read")
        BY <1>3, <1>5, <2>1
    <2>3. QED
        BY <1>7, <1>8, <2>2
<1>10. QED
    BY <1>1, <1>6, <1>9 DEF QuietInv

LEMMA QuietNext ==
    ASSUME Prompt
    PROVE  TypeInv /\ CopiesInv /\ CopiesInv' /\ QuietInv /\ [Next]_vars => QuietInv'
<1> SUFFICES ASSUME TypeInv, CopiesInv, CopiesInv', QuietInv, [Next]_vars, acts' = 0
             PROVE  QuietInv'
    BY DEF QuietInv
<1>1. CASE PassTime
    BY <1>1 DEF PassTime, server, client, QuietInv, OneLivePoll, ViewIsPast, AnswerIsNew,
                Live, NoOlder
<1>2. ASSUME NEW w \in Writers, NEW r \in RoomIds, BeginWrite(w, r) PROVE QuietInv'
    BY <1>2 DEF BeginWrite, client, QuietInv, OneLivePoll, ViewIsPast, AnswerIsNew,
                Live, NoOlder
<1>3. ASSUME NEW w \in Writers, CommitWrite(w) PROVE QuietInv'
    <2>1. UNCHANGED client /\ acts = 0
        BY <1>3 DEF CommitWrite, client
    <2>2. \A r \in RoomIds : row'[r].version >= row[r].version /\ row[r].version \in Nat
                              /\ row'[r].version \in Nat
        BY <1>3 DEF CommitWrite, TypeInv, TypeOK
    <2>3. ViewIsPast'
        BY <2>1, <2>2 DEF QuietInv, ViewIsPast, client, TypeInv, TypeOK
    <2>4. QED
        BY <2>1, <2>3 DEF QuietInv, OneLivePoll, AnswerIsNew, Live, NoOlder, client
<1>4. ASSUME NEW p \in Polls, NEW r \in RoomIds, Mount(p, r) PROVE QuietInv'
    <2>1. \A o \in Polls : poll'[o] = IF o = p THEN NewPoll(r)
                                       ELSE [poll[o] EXCEPT !.mounted = FALSE]
        BY <1>4 DEF Mount, TypeInv, TypeOK
    <2>2. \A o \in Polls : Live(o)' => o = p
        BY <2>1 DEF Live, TypeInv, TypeOK
    <2>3. poll'[p].phase = "sent" /\ poll'[p].id = r /\ page' = r
        BY <1>4, <2>1, NewPollIsGood DEF Mount, CopiesInv, TypeInv
    <2>4. ViewIsPast' /\ acting' = 0 /\ fetching' = TRUE
        BY <1>4, RefreshAssumption DEF Mount, ViewIsPast, NoCopy
    <2>5. QED
        BY <2>2, <2>3, <2>4, QuietPoll
<1>5. ASSUME NEW p \in Polls, ReadRow(p) PROVE QuietInv'
    <2>1. acts = 0
        BY <1>5 DEF ReadRow
    <2>2. QED
        BY <1>5, <2>1, QuietRead
<1>6. ASSUME NEW p \in Polls, ArriveModified(p) PROVE QuietInv'
    <2>1. /\ poll' = [poll EXCEPT ![p] = NoPoll]
          /\ UNCHANGED <<row, page, acting, acts>> /\ acts = 0
          /\ poll[p].phase = "read" /\ poll[p].modified
          /\ lastRefresh'.id = poll[p].id /\ lastRefresh'.version = poll[p].version
        BY <1>6 DEF ArriveModified, server
    <2>2. Live(p) \/ (fetching' = fetching /\ view' = view)
        BY <1>6 DEF ArriveModified, Show, Live
    <2>3. ViewIsPast'
        <3>1. CASE Live(p)
            <4>1. view' = [id |-> poll[p].id, version |-> poll[p].version]
                BY <1>6, <3>1 DEF ArriveModified, Show, Live
            <4>2. poll[p].id = page /\ page \in RoomIds /\ page # NoRoom
                BY <2>1, <3>1, RefreshAssumption
                DEF QuietInv, OneLivePoll, TypeInv, PollsNameRooms
            <4>3. poll[p].version <= row[page].version
                BY <2>1, <4>2 DEF CopiesInv, PollIsGood, Covers
            <4>4. QED
                BY <2>1, <4>1, <4>2, <4>3 DEF ViewIsPast
        <3>2. CASE ~Live(p)
            BY <2>1, <2>2, <3>2 DEF QuietInv, ViewIsPast
        <3>3. QED
            BY <3>1, <3>2
    <2>4. ASSUME NEW o \in Polls \ {p}, Live(o), poll[o].phase = "read", ~poll[o].modified
          PROVE  NoOlder(lastRefresh'.version, lastRefresh'.id, o)
        BY <2>1, <2>4 DEF QuietInv, AnswerIsNew, NoOlder
    <2>5. QED
        BY <2>1, <2>2, <2>3, <2>4, QuietEnd
<1>7. ASSUME NEW p \in Polls, ArriveNotModified(p) PROVE QuietInv'
    <2>1. /\ poll' = [poll EXCEPT ![p] = NoPoll]
          /\ UNCHANGED <<row, page, acting, acts, lastRefresh>> /\ acts = 0
          /\ poll[p].phase = "read" /\ ~poll[p].modified
        BY <1>7 DEF ArriveNotModified, server
    <2>2. Live(p) \/ (fetching' = fetching /\ view' = view)
        BY <1>7 DEF ArriveNotModified, Show, Live
    <2>3. ViewIsPast'
        <3>1. CASE Live(p)
            <4>1. view' = [id |-> lastRefresh.id, version |-> lastRefresh.version]
                BY <1>7, <3>1 DEF ArriveNotModified, Show, Live
            <4>2. page \in RoomIds /\ page # NoRoom
                BY <2>1, <3>1, RefreshAssumption
                DEF QuietInv, OneLivePoll, TypeInv, PollsNameRooms
            <4>3. lastRefresh.id = page => lastRefresh.version <= row[page].version
                BY <4>2 DEF CopiesInv, CopyIsGood, Covers
            <4>4. QED
                BY <2>1, <4>1, <4>2, <4>3 DEF ViewIsPast
        <3>2. CASE ~Live(p)
            BY <2>1, <2>2, <3>2 DEF QuietInv, ViewIsPast
        <3>3. QED
            BY <3>1, <3>2
    <2>4. ASSUME NEW o \in Polls \ {p}, Live(o), poll[o].phase = "read", ~poll[o].modified
          PROVE  NoOlder(lastRefresh'.version, lastRefresh'.id, o)
        BY <2>1, <2>4 DEF QuietInv, AnswerIsNew, NoOlder
    <2>5. QED
        BY <2>1, <2>2, <2>3, <2>4, QuietEnd
<1>8. ASSUME NEW p \in Polls, IntervalPoll(p) PROVE QuietInv'
    <2>1. page \in RoomIds /\ acts = 0 /\ ~fetching
          /\ UNCHANGED <<row, page, acting, acts, view>> /\ fetching' = TRUE
        BY <1>8 DEF IntervalPoll, TypeInv, TypeOK, server
    <2>2. \A o \in Polls : poll'[o] = IF o = p THEN NewPoll(page) ELSE poll[o]
        BY <1>8 DEF IntervalPoll, TypeInv, TypeOK
    <2>3. \A o \in Polls : ~Live(o)
        BY <2>1 DEF QuietInv, OneLivePoll
    <2>4. \A o \in Polls : Live(o)' => o = p
        BY <2>2, <2>3 DEF Live
    <2>5. poll'[p].phase = "sent" /\ poll'[p].id = page'
        BY <2>1, <2>2, NewPollIsGood DEF CopiesInv, TypeInv
    <2>6. ViewIsPast' /\ acting' = 0
        BY <2>1 DEF QuietInv, ViewIsPast
    <2>7. QED
        BY <2>1, <2>4, <2>5, <2>6, QuietPoll
<1>9. ASSUME NEW p \in Polls, PollFails(p) PROVE QuietInv'
    <2>1. /\ poll' = [poll EXCEPT ![p] = NoPoll] /\ acts = 0
          /\ UNCHANGED <<row, page, acting, acts, view, lastRefresh>>
        BY <1>9 DEF PollFails, server
    <2>2. Live(p) \/ fetching' = fetching
        BY <1>9 DEF PollFails, Live
    <2>3. ViewIsPast'
        BY <2>1 DEF QuietInv, ViewIsPast
    <2>4. \A o \in Polls \ {p} : Live(o) /\ poll[o].phase = "read" /\ ~poll[o].modified =>
              NoOlder(lastRefresh'.version, lastRefresh'.id, o)
        BY <2>1 DEF QuietInv, AnswerIsNew, NoOlder
    <2>5. QED
        BY <2>1, <2>2, <2>3, <2>4, QuietEnd
<1>10. CASE BeginAct
    BY <1>10 DEF BeginAct, TypeInv, TypeOK
<1>11. CASE EndAct
    BY <1>11 DEF EndAct, QuietInv
<1>12. CASE UNCHANGED vars
    BY <1>12 DEF vars, QuietInv, OneLivePoll, ViewIsPast, AnswerIsNew, Live, NoOlder
<1>13. QED
    BY <1>1, <1>2, <1>3, <1>4, <1>5, <1>6, <1>7, <1>8, <1>9, <1>10, <1>11, <1>12
    DEF Next, PollStep

\* What one step makes of the view.
LEMMA ViewStep ==
    ASSUME TypeInv, CopiesInv, QuietInv, [Next]_vars,
           acts' = 0, view.id = page, view'.id = view.id
    PROVE  view'.version >= view.version
<1>0. view.version \in Nat
    BY DEF TypeInv, TypeOK
<1>1. ASSUME NEW p \in Polls, ArriveModified(p) PROVE view'.version >= view.version
    <2>1. poll[p].phase = "read" /\ acts = 0
        BY <1>1 DEF ArriveModified
    <2>2. CASE Live(p)
        <3>1. view' = [id |-> poll[p].id, version |-> poll[p].version]
            BY <1>1, <2>2 DEF ArriveModified, Show, Live
        <3>2. poll[p].version \in Nat
            BY DEF TypeInv, TypeOK
        <3>3. QED
            BY <1>0, <2>1, <2>2, <3>1, <3>2 DEF QuietInv, AnswerIsNew
    <2>3. CASE ~Live(p)
        BY <1>0, <1>1, <2>1, <2>3 DEF ArriveModified, Show, Live
    <2>4. QED
        BY <2>2, <2>3
<1>2. ASSUME NEW p \in Polls, ArriveNotModified(p) PROVE view'.version >= view.version
    <2>1. poll[p].phase = "read" /\ ~poll[p].modified /\ acts = 0
        BY <1>2 DEF ArriveNotModified
    <2>2. CASE Live(p)
        <3>1. view' = [id |-> lastRefresh.id, version |-> lastRefresh.version]
            BY <1>2, <2>2 DEF ArriveNotModified, Show, Live
        <3>2. poll[p].version \in Nat /\ lastRefresh.version \in Nat
            BY DEF TypeInv, TypeOK
        <3>3. poll[p].id = page
            BY <2>1, <2>2 DEF QuietInv, OneLivePoll
        <3>4. QED
            BY <1>0, <2>1, <2>2, <3>1, <3>2, <3>3 DEF QuietInv, AnswerIsNew, NoOlder
    <2>3. CASE ~Live(p)
        BY <1>0, <1>2, <2>1, <2>3 DEF ArriveNotModified, Show, Live
    <2>4. QED
        BY <2>2, <2>3
<1>3. ASSUME NEW p \in Polls, NEW r \in RoomIds, Mount(p, r)
      PROVE  view'.version >= view.version
    BY <1>0, <1>3 DEF Mount, NoCopy, QuietInv, ViewIsPast
<1>4. CASE view' = view
    BY <1>0, <1>4
<1>5. QED
    BY <1>1, <1>2, <1>3, <1>4
    DEF Next, PollStep, PassTime, BeginWrite, CommitWrite, ReadRow, IntervalPoll, PollFails,
        BeginAct, EndAct, client, vars

\* What a page shows of its room never goes back to an older version as long
\* as the player has done nothing, under the same assumption.
THEOREM ViewNeverEverGoesBack == ASSUME Prompt PROVE Spec => ViewNeverGoesBack
<1>1. Init => TypeInv /\ CopiesInv /\ QuietInv
    BY InitType, CopiesInit, QuietInit
<1>2. (TypeInv /\ CopiesInv /\ QuietInv) /\ [Next]_vars => (TypeInv /\ CopiesInv /\ QuietInv)'
    BY NextType, CopiesNext, QuietNext
<1>3. TypeInv /\ CopiesInv /\ QuietInv /\ [Next]_vars =>
          [acts' = 0 /\ view.id = page /\ view'.id = view.id =>
              view'.version >= view.version]_vars
    BY ViewStep
<1>4. QED
    BY <1>1, <1>2, <1>3, PTL DEF Spec, ViewNeverGoesBack

-----------------------------------------------------------------------------
(* The page implements RoomView.  Nothing is assumed of time here, but for *)
(* the part of RoomView that speaks of a calm page.                        *)

\* Version n of room r has been there.
Was(n, r) == r \in RoomIds /\ n \in 1 .. row[r].version

\* It still has after the step.
WasThen(n, r) == r \in RoomIds /\ n \in 1 .. row'[r].version

\* The copy that "not modified" stands for is of a version that was there;
\* without one its time is 0, from which nothing was last modified before.
CopyWas ==
    /\ Was(lastRefresh.version, lastRefresh.id) \/ lastRefresh.refreshedAt = 0
    /\ lastRefresh.refreshedAt <= Second(clock)

\* What a poll brings was there; what it does not bring, the client has; and
\* if it is to be shown, a page is open.
PollWas(p) ==
    /\ poll[p].phase # "none" => poll[p].since <= lastRefresh.refreshedAt
    /\ poll[p].phase = "read" =>
          /\ Was(poll[p].version, poll[p].id)
          /\ poll[p].modified \/ poll[p].since > 0
    /\ Live(p) => page # NoRoom

CopiesWere == (\A r \in RoomIds : Was(1, r)) /\ CopyWas /\ \A p \in Polls : PollWas(p)

LEMMA WereInit == Init => CopiesWere
<1> SUFFICES ASSUME Init PROVE CopiesWere
    OBVIOUS
<1>1. Second(0) \in Nat
    BY SecondFacts
<1>2. CopyWas
    BY <1>1 DEF Init, CopyWas
<1>3. \A p \in Polls : PollWas(p)
    BY DEF Init, PollWas, NoPoll, Live
<1>4. ASSUME NEW r \in RoomIds PROVE Was(1, r)
    <2>1. row[r].version = 1
        BY DEF Init
    <2>2. QED
        BY <2>1 DEF Was
<1>5. QED
    BY <1>2, <1>3, <1>4 DEF CopiesWere

\* Rooms only gain versions.
LEMMA WasStays ==
    ASSUME TypeInv, [Next]_vars, NEW n, NEW r, Was(n, r)
    PROVE  WasThen(n, r)
<1>1. r \in RoomIds /\ row[r].version \in Nat /\ n \in 1 .. row[r].version
    BY DEF Was, TypeInv, TypeOK
<1>2. CASE row' = row
    BY <1>2 DEF Was, WasThen
<1>3. ASSUME NEW w \in Writers, CommitWrite(w) PROVE WasThen(n, r)
    <2>1. row'[r].version = row[r].version \/ row'[r].version = row[r].version + 1
        BY <1>1, <1>3 DEF CommitWrite, TypeInv, TypeOK
    <2>2. QED
        BY <1>1, <2>1 DEF WasThen
<1>4. QED
    BY <1>2, <1>3 DEF Next, PollStep, PassTime, BeginWrite, Mount, ReadRow,
       ArriveModified, ArriveNotModified, IntervalPoll, PollFails, BeginAct, EndAct,
       server, vars

\* What a new poll asks.
LEMMA NewPollWas ==
    ASSUME TypeInv, NEW r \in RoomIds
    PROVE  NewPoll(r).phase = "sent" /\ NewPoll(r).since <= lastRefresh.refreshedAt
BY DEF TypeInv, TypeOK, NewPoll, NoPoll

\* A step that leaves the copy, and every poll but p as far as it goes.
LEMMA PollsWere ==
    ASSUME TypeInv, CopiesWere, [Next]_vars, page' # NoRoom \/ page' = page,
           lastRefresh' = lastRefresh, NEW p \in Polls, PollWas(p)',
           \A o \in Polls \ {p} :
               poll'[o] = poll[o] \/ poll'[o] = [poll[o] EXCEPT !.mounted = FALSE]
    PROVE  \A o \in Polls : PollWas(o)'
<1>1. SUFFICES ASSUME NEW o \in Polls, o # p PROVE PollWas(o)'
    OBVIOUS
<1>2. PollWas(o)
    BY DEF CopiesWere
<1>3. /\ poll'[o].phase = poll[o].phase /\ poll'[o].id = poll[o].id
      /\ poll'[o].since = poll[o].since /\ poll'[o].version = poll[o].version
      /\ poll'[o].modified = poll[o].modified /\ (Live(o)' => Live(o))
    BY <1>1 DEF TypeInv, TypeOK, Live
<1>4. poll[o].phase = "read" => WasThen(poll[o].version, poll[o].id)
    BY <1>2, WasStays DEF PollWas
<1>5. QED
    BY <1>2, <1>3, <1>4 DEF PollWas, Was, WasThen

LEMMA WereNext == TypeInv /\ CopiesWere /\ [Next]_vars => CopiesWere'
<1> SUFFICES ASSUME TypeInv, CopiesWere, [Next]_vars PROVE CopiesWere'
    OBVIOUS
<1>0. \A r \in RoomIds : Was(1, r)'
    <2>1. \A r \in RoomIds : WasThen(1, r)
        BY WasStays DEF CopiesWere
    <2>2. QED
        BY <2>1 DEF Was, WasThen
<1>1. clock \in Nat /\ Second(clock) \in Nat
    BY SecondFacts DEF TypeInv, TypeOK
<1>2. Second(clock)' \in Nat /\ Second(clock) <= Second(clock)'
    <2>1. clock' = clock \/ clock' = clock + 1
        BY DEF Next, PollStep, PassTime, BeginWrite, CommitWrite, Mount, ReadRow,
               ArriveModified, ArriveNotModified, IntervalPoll, PollFails, BeginAct,
               EndAct, vars
    <2>2. CASE clock' = clock + 1
        <3>1. Second(clock + 1) \in Nat /\ Second(clock) <= Second(clock + 1)
            BY <1>1, SecondFacts, clock + 1 \in Nat
        <3>2. Second(clock)' = Second(clock + 1)
            BY <2>2 DEF Second
        <3>3. QED
            BY <3>1, <3>2
    <2>3. CASE clock' = clock
        <3>1. Second(clock)' = Second(clock)
            BY <2>3 DEF Second
        <3>2. QED
            BY <1>1, <3>1
    <2>4. QED
        BY <2>1, <2>2, <2>3
<1>3. ASSUME lastRefresh' = lastRefresh PROVE CopyWas'
    <2>1. lastRefresh.refreshedAt \in Nat /\ lastRefresh.refreshedAt <= Second(clock)'
        BY <1>1, <1>2 DEF CopiesWere, CopyWas, TypeInv, TypeOK
    <2>2. Was(lastRefresh.version, lastRefresh.id) =>
              WasThen(lastRefresh.version, lastRefresh.id)
        BY WasStays
    <2>3. QED
        BY <1>3, <2>1, <2>2 DEF CopiesWere, CopyWas, Was, WasThen
<1>4. CASE UNCHANGED client
    <2>1. \A p \in Polls : PollWas(p)'
        <3>1. SUFFICES ASSUME NEW p \in Polls PROVE PollWas(p)'
            OBVIOUS
        <3>2. PollWas(p)
            BY DEF CopiesWere
        <3>3. poll[p].phase = "read" => WasThen(poll[p].version, poll[p].id)
            BY <3>2, WasStays DEF PollWas
        <3>4. QED
            BY <1>4, <3>2, <3>3 DEF PollWas, Was, WasThen, Live, client
    <2>2. QED
        BY <1>0, <1>3, <1>4, <2>1 DEF CopiesWere, client
<1>5. ASSUME NEW p \in Polls, NEW r \in RoomIds, Mount(p, r) PROVE CopiesWere'
    <2>1. /\ lastRefresh' = lastRefresh /\ page' = r /\ poll'[p] = NewPoll(r)
          /\ \A o \in Polls \ {p} : poll'[o] = [poll[o] EXCEPT !.mounted = FALSE]
        BY <1>5 DEF Mount, TypeInv, TypeOK
    <2>2. PollWas(p)' /\ page' # NoRoom
        BY <2>1, NewPollWas, RefreshAssumption DEF PollWas
    <2>3. \A o \in Polls : PollWas(o)'
        BY <2>1, <2>2, PollsWere
    <2>4. QED
        BY <1>0, <1>3, <2>1, <2>3 DEF CopiesWere
<1>6. ASSUME NEW p \in Polls, ReadRow(p) PROVE CopiesWere'
    <2> DEFINE r == poll[p].id
    <2>1. /\ lastRefresh' = lastRefresh /\ page' = page /\ row' = row
          /\ poll[p].phase = "sent" /\ \A o \in Polls \ {p} : poll'[o] = poll[o]
          /\ poll'[p] = [poll[p] EXCEPT !.phase = "read", !.version = row[r].version,
                                       !.modified = row[r].updated >= poll[p].since]
        BY <1>6 DEF ReadRow, server, TypeInv, TypeOK
    <2>2. /\ poll'[p].phase = "read" /\ poll'[p].id = r
          /\ poll'[p].version = row[r].version /\ poll'[p].since = poll[p].since
          /\ poll'[p].modified = (row[r].updated >= poll[p].since)
          /\ poll'[p].mounted = poll[p].mounted
        BY <2>1 DEF TypeInv, TypeOK
    <2>3. /\ r \in RoomIds /\ row[r].version \in Nat /\ row[r].updated \in Nat
          /\ poll[p].since \in Nat
        BY <2>1 DEF TypeInv, TypeOK, PollsNameRooms
    <2>4. Was(poll[p].version, poll[p].id)'
        <3>1. row[r].version >= 1
            BY <2>3 DEF CopiesWere, Was
        <3>2. row[r].version \in 1 .. row'[r].version
            BY <2>1, <2>3, <3>1
        <3>3. QED
            BY <2>2, <2>3, <3>2 DEF Was
    <2>5. PollWas(p)'
        <3>1. PollWas(p)
            BY DEF CopiesWere
        <3>2. poll'[p].modified \/ poll'[p].since > 0
            <4>1. CASE row[r].updated >= poll[p].since
                BY <2>2, <4>1
            <4>2. CASE ~(row[r].updated >= poll[p].since)
                BY <2>2, <2>3, <4>2
            <4>3. QED
                BY <4>1, <4>2
        <3>3. Live(p)' => Live(p)
            BY <2>1, <2>2 DEF Live
        <3>4. poll'[p].since <= lastRefresh'.refreshedAt
            BY <2>1, <2>2, <3>1 DEF PollWas
        <3>5. QED
            BY <2>1, <2>4, <3>1, <3>2, <3>3, <3>4 DEF PollWas
    <2>6. \A o \in Polls : PollWas(o)'
        BY <2>1, <2>5, PollsWere
    <2>7. QED
        BY <1>0, <1>3, <2>1, <2>6 DEF CopiesWere
<1>7. ASSUME NEW p \in Polls, ArriveModified(p) PROVE CopiesWere'
    <2>1. /\ poll[p].phase = "read" /\ page' = page /\ clock' = clock
          /\ poll' = [poll EXCEPT ![p] = NoPoll]
          /\ lastRefresh' = [id |-> poll[p].id, refreshedAt |-> Second(clock),
                             version |-> poll[p].version]
        BY <1>7 DEF ArriveModified
    <2>2. WasThen(poll[p].version, poll[p].id)
        BY <2>1, WasStays DEF CopiesWere, PollWas
    <2>3. CopyWas'
        <3>1. Second(clock)' = Second(clock)
            BY <2>1 DEF Second
        <3>2. QED
            BY <1>1, <2>1, <2>2, <3>1 DEF CopyWas, Was, WasThen
    <2>4. ASSUME NEW o \in Polls PROVE PollWas(o)'
        <3>1. CASE o = p
            BY <2>1, <3>1 DEF PollWas, NoPoll, Live, TypeInv, TypeOK
        <3>2. CASE o # p
            <4>1. PollWas(o) /\ poll'[o] = poll[o]
                BY <2>1, <3>2 DEF CopiesWere, TypeInv, TypeOK
            <4>2. poll[o].phase = "read" => WasThen(poll[o].version, poll[o].id)
                BY <4>1, WasStays DEF PollWas
            <4>3. poll[o].phase # "none" => poll[o].since <= lastRefresh'.refreshedAt
                BY <1>1, <2>1, <4>1 DEF PollWas, CopiesWere, CopyWas, TypeInv, TypeOK
            <4>4. QED
                BY <2>1, <4>1, <4>2, <4>3 DEF PollWas, Was, WasThen, Live
        <3>3. QED
            BY <3>1, <3>2
    <2>5. QED
        BY <1>0, <2>3, <2>4 DEF CopiesWere
<1>8. ASSUME NEW p \in Polls, ArriveNotModified(p) \/ PollFails(p) PROVE CopiesWere'
    <2>1. /\ lastRefresh' = lastRefresh /\ page' = page
          /\ poll'[p] = NoPoll /\ \A o \in Polls \ {p} : poll'[o] = poll[o]
        BY <1>8 DEF ArriveNotModified, PollFails, TypeInv, TypeOK
    <2>2. PollWas(p)'
        BY <2>1 DEF PollWas, NoPoll, Live
    <2>3. \A o \in Polls : PollWas(o)'
        BY <2>1, <2>2, PollsWere
    <2>4. QED
        BY <1>0, <1>3, <2>1, <2>3 DEF CopiesWere
<1>9. ASSUME NEW p \in Polls, IntervalPoll(p) PROVE CopiesWere'
    <2>1. /\ lastRefresh' = lastRefresh /\ page' = page /\ page \in RoomIds
          /\ poll'[p] = NewPoll(page) /\ \A o \in Polls \ {p} : poll'[o] = poll[o]
        BY <1>9 DEF IntervalPoll, TypeInv, TypeOK
    <2>2. PollWas(p)'
        BY <2>1, NewPollWas, RefreshAssumption DEF PollWas
    <2>3. \A o \in Polls : PollWas(o)'
        BY <2>1, <2>2, PollsWere
    <2>4. QED
        BY <1>0, <1>3, <2>1, <2>3 DEF CopiesWere
<1>10. CASE BeginAct \/ EndAct
    <2>1. UNCHANGED <<row, page, lastRefresh, poll>>
        BY <1>10 DEF BeginAct, EndAct, server
    <2>2. \A p \in Polls : PollWas(p)'
        BY <2>1 DEF CopiesWere, PollWas, Was, Live
    <2>3. QED
        BY <1>0, <1>3, <2>1, <2>2 DEF CopiesWere
<1>11. QED
    BY <1>4, <1>5, <1>6, <1>7, <1>8, <1>9, <1>10
    DEF Next, PollStep, PassTime, BeginWrite, CommitWrite, vars, client

ViewInv == TypeInv /\ CopiesWere /\ (Prompt => CopiesInv /\ QuietInv)

LEMMA ViewInitial == Init => ViewInv
BY InitType, WereInit, CopiesInit, QuietInit DEF ViewInv

LEMMA ViewInductive == ViewInv /\ [Next]_vars => ViewInv'
<1> SUFFICES ASSUME ViewInv, [Next]_vars PROVE ViewInv'
    OBVIOUS
<1>1. TypeInv' /\ CopiesWere'
    BY NextType, WereNext DEF ViewInv
<1>2. ASSUME Prompt PROVE CopiesInv' /\ QuietInv'
    BY <1>2, CopiesNext, QuietNext DEF ViewInv
<1>3. QED
    BY <1>1, <1>2 DEF ViewInv

\* The versions of the rooms, as RoomView has them.
Versions == [r \in RoomIds |-> row[r].version]
Calm == Prompt /\ acts = 0

\* An answer that fills the page is a Show.
LEMMA AnswerShows ==
    ASSUME ViewInv, [Next]_vars, UNCHANGED <<row, page, acts>>, page # NoRoom,
           NEW n, NEW r, Was(n, r), view' = [id |-> r, version |-> n]
    PROVE  V!VNext
<1>1. r \in RoomIds /\ n \in 1 .. Versions[r]
    BY DEF Was, Versions
<1>2. UNCHANGED <<Versions, page, Calm>>
    BY DEF Versions, Calm
<1>3. Calm /\ page = r /\ view.id = r => n >= view.version
    BY ViewStep DEF Calm, ViewInv
<1>4. V!Show(r, n)
    BY <1>2, <1>3 DEF V!Show, Versions, Calm
<1>5. QED
    BY <1>1, <1>4 DEF V!VNext, Versions

LEMMA ViewSteps == ViewInv /\ [Next]_vars => [V!VNext]_(V!vvars)
<1> SUFFICES ASSUME ViewInv, [Next]_vars PROVE V!VNext \/ UNCHANGED V!vvars
    OBVIOUS
<1>0. TypeInv /\ CopiesWere
    BY DEF ViewInv
<1>1. CASE UNCHANGED <<row, page, view, acts>>
    BY <1>1 DEF V!vvars
<1>2. ASSUME NEW w \in Writers, CommitWrite(w) PROVE V!VNext \/ UNCHANGED V!vvars
    <2> DEFINE i == write[w].id
    <2>1. UNCHANGED <<page, view, acts>>
        BY <1>2 DEF CommitWrite, client
    <2>2. UNCHANGED <<page, view, Calm>>
        BY <2>1 DEF Calm
    <2>3. ASSUME NEW r \in RoomIds, r = i PROVE V!VNext
        <3>1. \A o \in RoomIds : row'[o].version = IF o = r THEN row[o].version + 1
                                                   ELSE row[o].version
            BY <1>0, <1>2, <2>3 DEF CommitWrite, TypeInv, TypeOK
        <3>2. Versions' = [Versions EXCEPT ![r] = @ + 1]
            BY <3>1 DEF Versions
        <3>3. V!Change(r)
            BY <2>2, <3>2 DEF V!Change, Versions, Calm
        <3>4. QED
            BY <3>3 DEF V!VNext
    <2>4. CASE i \notin RoomIds
        <3>1. \A r \in RoomIds : row'[r] = row[r]
            BY <1>0, <1>2, <2>4 DEF CommitWrite, TypeInv, TypeOK
        <3>2. QED
            BY <2>1, <3>1 DEF V!vvars
    <2>5. QED
        BY <2>3, <2>4
<1>3. ASSUME NEW p \in Polls, NEW r \in RoomIds, Mount(p, r) PROVE V!VNext
    <2>1. page # r /\ page' = r /\ view' = NoCopy /\ UNCHANGED <<row, acts>>
        BY <1>3 DEF Mount, server
    <2>2. V!Open(r)
        BY <2>1 DEF V!Open, V!Nothing, NoCopy
    <2>3. QED
        BY <2>2 DEF V!VNext
<1>4. ASSUME NEW p \in Polls, ArriveModified(p) PROVE V!VNext \/ UNCHANGED V!vvars
    <2>1. poll[p].phase = "read" /\ UNCHANGED <<row, page, acts>> /\ PollWas(p)
        BY <1>0, <1>4 DEF ArriveModified, server, CopiesWere
    <2>2. CASE poll[p].mounted
        <3>1. view' = [id |-> poll[p].id, version |-> poll[p].version]
            BY <1>4, <2>2 DEF ArriveModified, Show
        <3>2. Was(poll[p].version, poll[p].id) /\ page # NoRoom
            BY <2>1, <2>2 DEF PollWas, Live
        <3>3. QED
            BY <2>1, <3>1, <3>2, AnswerShows
    <2>3. CASE ~poll[p].mounted
        BY <1>1, <1>4, <2>1, <2>3 DEF ArriveModified, Show
    <2>4. QED
        BY <2>2, <2>3
<1>5. ASSUME NEW p \in Polls, ArriveNotModified(p) PROVE V!VNext \/ UNCHANGED V!vvars
    <2>1. /\ poll[p].phase = "read" /\ ~poll[p].modified
          /\ UNCHANGED <<row, page, acts>> /\ PollWas(p) /\ CopyWas
        BY <1>0, <1>5 DEF ArriveNotModified, server, CopiesWere
    <2>2. CASE poll[p].mounted
        <3>1. view' = [id |-> lastRefresh.id, version |-> lastRefresh.version]
            BY <1>5, <2>2 DEF ArriveNotModified, Show
        <3>2. poll[p].since > 0 /\ poll[p].since <= lastRefresh.refreshedAt
              /\ page # NoRoom
            BY <2>1, <2>2 DEF PollWas, Live
        <3>3. Was(lastRefresh.version, lastRefresh.id)
            BY <1>0, <2>1, <3>2 DEF CopyWas, TypeInv, TypeOK
        <3>4. QED
            BY <2>1, <3>1, <3>2, <3>3, AnswerShows
    <2>3. CASE ~poll[p].mounted
        BY <1>1, <1>5, <2>1, <2>3 DEF ArriveNotModified, Show
    <2>4. QED
        BY <2>2, <2>3
<1>6. CASE BeginAct
    <2>1. page # NoRoom /\ UNCHANGED <<row, page, view>> /\ acts' # 0
        BY <1>0, <1>6 DEF BeginAct, server, TypeInv, TypeOK
    <2>2. (Prompt /\ acts = 0)' = FALSE
        BY <2>1
    <2>3. V!Act
        BY <2>1, <2>2 DEF V!Act
    <2>4. QED
        BY <2>3 DEF V!VNext
<1>7. QED
    BY <1>1, <1>2, <1>3, <1>4, <1>5, <1>6
    DEF Next, PollStep, PassTime, BeginWrite, ReadRow, IntervalPoll, PollFails, EndAct,
        client, server, vars

LEMMA ViewStarts == Init => V!VInit
<1> SUFFICES ASSUME Init PROVE V!VInit
    OBVIOUS
<1>1. Versions = [r \in RoomIds |-> 1]
    BY DEF Init, Versions
<1>2. Calm \in BOOLEAN
    BY DEF Calm
<1>3. QED
    BY <1>1, <1>2 DEF Init, V!VInit, V!Nothing, NoCopy, Versions, Calm

\* Whatever answers are lost, late, overlapping or for another page, and
\* however long they take, what a page shows is what RoomView lets it show.
THEOREM ViewImplementation == Spec => ImplementsRoomView
<1>1. QED
    BY ViewInitial, ViewInductive, ViewStarts, ViewSteps, PTL
    DEF Spec, ImplementsRoomView, V!VSpec
=============================================================================
