------------------------------ MODULE PageWalk ------------------------------
(***************************************************************************)
(* A client asks for some page of a list and then follows the links of     *)
(* each answer.  The list does not change meanwhile.                       *)
(***************************************************************************)
EXTENDS Pagination

CONSTANTS
    MaxItems,   \* bound on the length of the list
    PageAsked,  \* page numbers that the first request may name
    SizeAsked   \* page sizes that the first request may name

ASSUME WalkAssumption ==
    /\ MaxItems \in Nat
    /\ PageAsked \subseteq Int
    /\ SizeAsked \subseteq Int

VARIABLES
    items,     \* the length of the list
    counted,   \* whether the server counts the list
    pages,     \* the answer the client looks at
    straight,  \* it came here from page 1 by next links alone
    walked     \* the items seen since page 1, if straight

vars == <<items, counted, pages, straight, walked>>

Total == IF counted THEN items ELSE Unknown

\* The items of a page: the rows that OFFSET and LIMIT select.
ItemsOf(p) == {i \in 1 .. items : Offset(p) < i /\ i <= Offset(p) + Limit(p)}

Queries ==
    {NoQuery} \cup [{"page"} -> PageAsked] \cup [{"per_page"} -> SizeAsked]
        \cup [page : PageAsked, per_page : SizeAsked]

Init ==
    /\ items \in 0 .. MaxItems
    /\ counted \in BOOLEAN
    /\ pages \in {FromRequest(q, Total) : q \in Queries}
    /\ straight = (pages.page = 1)
    /\ walked = IF straight THEN ItemsOf(pages) ELSE {}

\* Without a count there is always a next page: the client stops at the
\* first empty one (a bound of the model).
Follow(rel) ==
    /\ rel \in DOMAIN Links(pages, DefaultPageSize)
    /\ rel = "next" /\ ~counted => ItemsOf(pages) # {}
    /\ pages' = FromRequest(Links(pages, DefaultPageSize)[rel], Total)
    /\ straight' = (pages'.page = 1 \/ (straight /\ rel = "next"))
    /\ walked' = CASE pages'.page = 1 -> ItemsOf(pages')
                   [] pages'.page # 1 /\ straight' -> walked \cup ItemsOf(pages')
                   [] OTHER -> {}
    /\ UNCHANGED <<items, counted>>

Next == \E rel \in {"first", "prev", "next", "last"} : Follow(rel)

Spec == Init /\ [][Next]_vars

-----------------------------------------------------------------------------
(* Properties.                                                             *)

TypeOK ==
    /\ items \in Nat /\ counted \in BOOLEAN /\ straight \in BOOLEAN
    /\ pages \in [page : Nat \ {0}, perPage : 1 .. MaxPageSize, pageCount : Nat \cup {Unknown}]
    /\ walked \subseteq 1 .. items

\* Whatever page was asked for, a list that is counted and not empty is
\* never answered with an empty page.
NeverEmpty == counted /\ items > 0 => ItemsOf(pages) # {}

\* A client that went from page 1 to the page that has no next link has seen
\* every item.
EveryItemSeen ==
    straight /\ "next" \notin DOMAIN Links(pages, DefaultPageSize) => walked = 1 .. items

\* A link keeps the size of the page, so that the pages it joins neither
\* overlap nor leave a gap.
WindowsMeet ==
    [][Offset(pages') - Offset(pages) = Limit(pages) * (pages'.page - pages.page)]_vars
=============================================================================
