--------------------------- MODULE PageWalkProofs ---------------------------
(***************************************************************************)
(* Proofs about pages and the walk over them, for every length of the      *)
(* list, every page and size that a request may name, and every default    *)
(* and maximum of the size.                                                *)
(***************************************************************************)
EXTENDS PageWalk, TLAPS

-----------------------------------------------------------------------------
(* The arithmetic.                                                         *)

\* A page size is between 1 and the maximum, and such a size is kept.
LEMMA SizeOK ==
    ASSUME NEW n \in Int
    PROVE  /\ PageSize(n) \in 1 .. MaxPageSize
           /\ n \in 1 .. MaxPageSize => PageSize(n) = n
BY PaginationAssumption DEF PageSize

\* The page count is the least number of pages that holds every item.
LEMMA CountOK ==
    ASSUME NEW size \in Nat \ {0}, NEW total \in Nat
    PROVE  LET c == PageCount(size, total)
           IN  /\ c \in Nat
               /\ c * size >= total
               /\ (c - 1) * size < total
<1> DEFINE a == total + size - 1
           c == a \div size
<1>1. a \in Nat /\ c = PageCount(size, total)
    BY DEF PageCount
<1>2. c \in Nat
    OBVIOUS
<1>3. a = size * c + (a % size) /\ a % size \in 0 .. size - 1
    OBVIOUS
<1>4. QED BY <1>1, <1>2, <1>3

\* Page p is what New makes of page n of the given size, of a list of the
\* given total.
IsPage(p, n, size, total) ==
    /\ p \in [page : Nat \ {0}, perPage : 1 .. MaxPageSize, pageCount : Nat \cup {Unknown}]
    /\ p.perPage = PageSize(size)
    /\ p.pageCount = PageCount(PageSize(size), total)
    /\ total # Unknown => p.page = 1 \/ p.page <= p.pageCount
    /\ n >= 1 /\ (total # Unknown => n <= p.pageCount) => p.page = n

LEMMA PagesOK ==
    ASSUME NEW n \in Int, NEW size \in Int, NEW total \in Nat \cup {Unknown}
    PROVE  IsPage(Pages(n, size, total), n, size, total)
<1> DEFINE count == PageCount(PageSize(size), total)
<1>1. PageSize(size) \in 1 .. MaxPageSize
    BY SizeOK
<1>2. PageSize(size) \in Nat \ {0}
    BY <1>1, PaginationAssumption
<1>3. count \in Nat \cup {Unknown} /\ (total \in Nat => count \in Nat)
    BY <1>2, CountOK DEF PageCount, Unknown
<1>4. total # Unknown <=> total >= 0
    BY DEF Unknown
<1> HIDE DEF count
<1>5. Pages(n, size, total) =
        [page |-> IF (IF total >= 0 /\ n > count THEN count ELSE n) < 1 THEN 1
                  ELSE IF total >= 0 /\ n > count THEN count ELSE n,
         perPage |-> PageSize(size), pageCount |-> count]
    BY DEF Pages, count
<1>6. QED BY <1>1, <1>3, <1>4, <1>5 DEF Unknown, count, IsPage

-----------------------------------------------------------------------------
(* The walk.                                                               *)

\* The page that the client looks at is one that New made, and a client that
\* came straight here has seen every item up to the end of that page.
WalkInv ==
    /\ items \in Nat /\ counted \in BOOLEAN /\ straight \in BOOLEAN
    /\ pages \in [page : Nat \ {0}, perPage : 1 .. MaxPageSize,
                  pageCount : Nat \cup {Unknown}]
    /\ pages.pageCount = PageCount(pages.perPage, Total)
    /\ counted => pages.page = 1 \/ pages.page <= pages.pageCount
    /\ pages.page = 1 => straight
    /\ walked = IF straight
                THEN {i \in 1 .. items : i <= pages.page * pages.perPage}
                ELSE {}

LEMMA TotalOK ==
    ASSUME items \in Nat, counted \in BOOLEAN
    PROVE  Total \in Nat \cup {Unknown} /\ (Total # Unknown <=> counted)
BY DEF Total, Unknown

\* The items of the first page are those up to its end.
LEMMA FirstItems ==
    ASSUME items \in Nat, NEW p, p.page = 1, p.perPage \in Nat
    PROVE  ItemsOf(p) = {i \in 1 .. items : i <= p.page * p.perPage}
BY DEF ItemsOf, Offset, Limit

\* A page adds its items to those up to the end of the page before.
LEMMA NextItems ==
    ASSUME items \in Nat, NEW p, NEW n \in Nat, NEW size \in Nat,
           p.page = n + 1, p.perPage = size
    PROVE  {i \in 1 .. items : i <= n * size} \cup ItemsOf(p)
             = {i \in 1 .. items : i <= p.page * size}
<1>1. Offset(p) = n * size /\ Limit(p) = size /\ p.page * size = n * size + size
    BY DEF Offset, Limit
<1>2. n * size \in Nat
    OBVIOUS
<1>3. QED BY <1>1, <1>2 DEF ItemsOf

\* What the query of a first request names.
LEMMA QueryOK ==
    ASSUME NEW q \in Queries
    PROVE  /\ Param(q, "page", 1) \in Int
           /\ Param(q, "per_page", DefaultPageSize) \in Int
<1>0. DefaultPageSize \in Int /\ 1 \in Int
    BY PaginationAssumption
<1>1. CASE q = NoQuery
    <2>1. DOMAIN q = {}
        BY <1>1 DEF NoQuery
    <2>2. QED BY <1>0, <2>1 DEF Param
<1>2. CASE q \in [{"page"} -> PageAsked]
    <2>1. DOMAIN q = {"page"} /\ q["page"] \in Int
        BY <1>2, WalkAssumption
    <2>2. QED BY <1>0, <2>1 DEF Param
<1>3. CASE q \in [{"per_page"} -> SizeAsked]
    <2>1. DOMAIN q = {"per_page"} /\ q["per_page"] \in Int
        BY <1>3, WalkAssumption
    <2>2. QED BY <1>0, <2>1 DEF Param
<1>4. CASE q \in [page : PageAsked, per_page : SizeAsked]
    <2>1. DOMAIN q = {"page", "per_page"} /\ q["page"] \in Int /\ q["per_page"] \in Int
        BY <1>4, WalkAssumption
    <2>2. QED BY <2>1 DEF Param
<1>5. QED BY <1>1, <1>2, <1>3, <1>4 DEF Queries

LEMMA WalkInit ==
    ASSUME Init
    PROVE  WalkInv
<1>1. items \in Nat /\ counted \in BOOLEAN /\ straight = (pages.page = 1)
    BY WalkAssumption DEF Init
<1>2. PICK q \in Queries : pages = FromRequest(q, Total)
    BY DEF Init
<1>3. /\ pages \in [page : Nat \ {0}, perPage : 1 .. MaxPageSize,
                    pageCount : Nat \cup {Unknown}]
      /\ pages.pageCount = PageCount(pages.perPage, Total)
      /\ counted => pages.page = 1 \/ pages.page <= pages.pageCount
    <2>1. PICK n \in Int, size \in Int : pages = Pages(n, size, Total)
        BY <1>2, QueryOK DEF FromRequest
    <2>2. Total \in Nat \cup {Unknown} /\ (Total # Unknown <=> counted)
        BY <1>1, TotalOK
    <2>3. IsPage(pages, n, size, Total)
        BY <2>1, <2>2, PagesOK
    <2>4. QED BY <2>2, <2>3 DEF IsPage
<1>4. pages.perPage \in Nat
    BY <1>3, PaginationAssumption
<1>5. walked = IF straight THEN {i \in 1 .. items : i <= pages.page * pages.perPage} ELSE {}
    BY <1>1, <1>4, FirstItems DEF Init
<1>6. QED BY <1>1, <1>3, <1>5 DEF WalkInv

\* A link leads to the page that it names, in pages of the same size.
LEMMA LinkStep ==
    ASSUME WalkInv, NEW rel \in {"first", "prev", "next", "last"}, Follow(rel)
    PROVE  /\ pages' \in [page : Nat \ {0}, perPage : 1 .. MaxPageSize,
                          pageCount : Nat \cup {Unknown}]
           /\ pages'.perPage = pages.perPage
           /\ pages'.pageCount = PageCount(pages.perPage, Total)
           /\ counted => pages'.page = 1 \/ pages'.page <= pages'.pageCount
           /\ rel = "next" => pages'.page = pages.page + 1
<1> DEFINE links == Links(pages, DefaultPageSize)
<1>1. /\ pages.page \in Nat \ {0} /\ pages.perPage \in 1 .. MaxPageSize
      /\ pages.pageCount \in Nat \cup {Unknown}
      /\ pages.pageCount = PageCount(pages.perPage, Total)
      /\ counted => pages.page = 1 \/ pages.page <= pages.pageCount
      /\ Total \in Nat \cup {Unknown} /\ (Total # Unknown <=> counted)
      /\ rel \in DOMAIN links /\ pages' = FromRequest(links[rel], Total)
    BY TotalOK DEF WalkInv, Follow
<1>2. pages.pageCount # Unknown <=> counted
    BY <1>1, CountOK, PaginationAssumption DEF PageCount, Unknown
<1>3. PICK n \in Int : /\ links[rel] = Link(pages, n, DefaultPageSize)
                       /\ rel = "next" => /\ n = pages.page + 1
                                          /\ counted => n <= pages.pageCount
    <2>1. CASE counted /\ pages.page > pages.pageCount
        BY <1>1, <1>2, <2>1 DEF Links, Unknown
    <2>2. CASE ~(counted /\ pages.page > pages.pageCount)
        BY <1>1, <1>2, <2>2 DEF Links, Unknown
    <2>3. QED BY <2>1, <2>2
<1>4. /\ Param(links[rel], "page", 1) = n
      /\ Param(links[rel], "per_page", DefaultPageSize) = pages.perPage
    BY <1>3 DEF Link, Param
<1>5. pages' = Pages(n, pages.perPage, Total)
    BY <1>1, <1>4 DEF FromRequest
<1>6. pages.perPage \in Int /\ PageSize(pages.perPage) = pages.perPage
    BY <1>1, SizeOK, PaginationAssumption
<1>7. IsPage(pages', n, pages.perPage, Total)
    BY <1>1, <1>5, <1>6, PagesOK
<1>8. QED BY <1>1, <1>3, <1>6, <1>7 DEF IsPage

LEMMA WalkNext ==
    ASSUME WalkInv, [Next]_vars
    PROVE  WalkInv'
<1>1. CASE UNCHANGED vars
    BY <1>1 DEF WalkInv, vars, Total
<1>2. ASSUME NEW rel \in {"first", "prev", "next", "last"}, Follow(rel)
      PROVE  WalkInv'
    <2>1. /\ items \in Nat /\ counted \in BOOLEAN /\ straight \in BOOLEAN
          /\ UNCHANGED <<items, counted>>
          /\ pages.page \in Nat \ {0} /\ pages.perPage \in Nat
          /\ Total' = Total
        BY <1>2, PaginationAssumption DEF WalkInv, Follow, Total
    <2>2. /\ pages' \in [page : Nat \ {0}, perPage : 1 .. MaxPageSize,
                         pageCount : Nat \cup {Unknown}]
          /\ pages'.perPage = pages.perPage
          /\ pages'.pageCount = PageCount(pages.perPage, Total)
          /\ counted => pages'.page = 1 \/ pages'.page <= pages'.pageCount
          /\ rel = "next" => pages'.page = pages.page + 1
        BY <1>2, LinkStep
    <2>3. straight' = (pages'.page = 1 \/ (straight /\ rel = "next"))
        BY <1>2 DEF Follow
    <2>4. walked' = IF straight'
                    THEN {i \in 1 .. items : i <= pages'.page * pages.perPage}
                    ELSE {}
        <3>1. CASE pages'.page = 1
            <4>1. walked' = ItemsOf(pages') /\ straight'
                BY <1>2, <2>3, <3>1 DEF Follow
            <4>2. QED BY <2>1, <2>2, <3>1, <4>1, FirstItems
        <3>2. CASE pages'.page # 1 /\ straight'
            <4>1. straight /\ pages'.page = pages.page + 1
                BY <2>2, <2>3, <3>2
            <4>2. walked' = walked \cup ItemsOf(pages')
                BY <1>2, <3>2 DEF Follow
            <4>3. walked = {i \in 1 .. items : i <= pages.page * pages.perPage}
                BY <4>1 DEF WalkInv
            <4>4. QED BY <2>1, <2>2, <3>2, <4>1, <4>2, <4>3, NextItems
        <3>3. CASE pages'.page # 1 /\ ~straight'
            BY <1>2, <3>3 DEF Follow
        <3>4. QED BY <3>1, <3>2, <3>3
    <2>5. QED BY <2>1, <2>2, <2>3, <2>4 DEF WalkInv
<1>3. QED BY <1>1, <1>2 DEF Next

LEMMA WalkInvariance == Spec => []WalkInv
BY WalkInit, WalkNext, PTL DEF Spec

-----------------------------------------------------------------------------
(* The theorems.                                                           *)

\* A page number is at least 1, and a page size at most the maximum (New in
\* pages.go).
THEOREM TypeCorrect == Spec => []TypeOK
<1>1. WalkInv => TypeOK
    BY DEF WalkInv, TypeOK
<1>2. QED BY <1>1, WalkInvariance, PTL

\* A list that is counted and not empty is never answered with an empty page
\* (the clamping of page in New).
THEOREM PagesNeverEmpty == Spec => []NeverEmpty
<1>1. ASSUME WalkInv, counted, items > 0
      PROVE  Offset(pages) + 1 \in ItemsOf(pages)
    <2>1. /\ items \in Nat /\ pages.page \in Nat \ {0} /\ pages.perPage \in Nat \ {0}
          /\ pages.pageCount = PageCount(pages.perPage, items)
          /\ pages.page = 1 \/ pages.page <= pages.pageCount
        BY <1>1, PaginationAssumption DEF WalkInv, Total
    <2>2. pages.pageCount \in Nat /\ (pages.pageCount - 1) * pages.perPage < items
        BY <2>1, CountOK
    <2>3. Offset(pages) \in Nat /\ Offset(pages) < items
        <3>1. CASE pages.page = 1
            BY <1>1, <2>1, <3>1 DEF Offset
        <3>2. CASE pages.page <= pages.pageCount
            <4>1. pages.page - 1 <= pages.pageCount - 1 /\ pages.page - 1 \in Nat
                BY <2>1, <2>2, <3>2
            <4>2. (pages.page - 1) * pages.perPage <= (pages.pageCount - 1) * pages.perPage
                BY <2>1, <2>2, <4>1
            <4>3. QED BY <2>1, <2>2, <4>1, <4>2 DEF Offset
        <3>3. QED BY <2>1, <3>1, <3>2
    <2>4. QED BY <2>1, <2>3 DEF ItemsOf, Limit
<1>2. WalkInv => NeverEmpty
    BY <1>1 DEF NeverEmpty
<1>3. QED BY <1>2, WalkInvariance, PTL

\* Who follows the next links from page 1 until there is none has seen every
\* item (the page count of New, Offset and BuildLinks).
THEOREM EveryItemAlwaysSeen == Spec => []EveryItemSeen
<1>1. ASSUME WalkInv, straight, "next" \notin DOMAIN Links(pages, DefaultPageSize)
      PROVE  walked = 1 .. items
    <2>1. /\ items \in Nat /\ counted \in BOOLEAN
          /\ pages.page \in Nat \ {0} /\ pages.perPage \in Nat \ {0}
          /\ pages.pageCount = PageCount(pages.perPage, Total)
          /\ walked = {i \in 1 .. items : i <= pages.page * pages.perPage}
        BY <1>1, PaginationAssumption DEF WalkInv
    <2>2. pages.pageCount # Unknown
        BY <1>1 DEF Links
    <2>3. counted
        BY <2>1, <2>2 DEF PageCount, Total, Unknown
    <2>4. /\ pages.pageCount \in Nat
          /\ pages.pageCount * pages.perPage >= items
        BY <2>1, <2>3, CountOK DEF Total
    <2>5. pages.page >= pages.pageCount
        BY <1>1, <2>1, <2>2, <2>4 DEF Links
    <2>6. pages.page * pages.perPage >= pages.pageCount * pages.perPage
        BY <2>1, <2>4, <2>5
    <2>7. QED BY <2>1, <2>4, <2>6
<1>2. WalkInv => EveryItemSeen
    BY <1>1 DEF EveryItemSeen
<1>3. QED BY <1>2, WalkInvariance, PTL

\* Two pages that a link joins neither overlap nor leave a gap (BuildLinks
\* keeps the size that it does not have to name).
THEOREM WindowsAlwaysMeet == Spec => WindowsMeet
<1>1. WalkInv /\ [Next]_vars =>
        [Offset(pages') - Offset(pages) = Limit(pages) * (pages'.page - pages.page)]_vars
    <2> SUFFICES ASSUME WalkInv, NEW rel \in {"first", "prev", "next", "last"}, Follow(rel)
                 PROVE  Offset(pages') - Offset(pages) = Limit(pages) * (pages'.page - pages.page)
        BY DEF Next
    <2>1. pages.page \in Int /\ pages.perPage \in Int
        BY PaginationAssumption DEF WalkInv
    <2>2. pages'.page \in Int /\ pages'.perPage = pages.perPage
        BY LinkStep
    <2>3. QED BY <2>1, <2>2 DEF Offset, Limit
<1>2. QED BY <1>1, WalkInvariance, PTL DEF Spec, WindowsMeet
=============================================================================
