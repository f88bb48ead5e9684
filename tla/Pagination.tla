----------------------------- MODULE Pagination -----------------------------
(***************************************************************************)
(* The arithmetic of pkg/pagination: a page of a list, the rows it stands  *)
(* for, and the links to the pages next to it.                             *)
(***************************************************************************)
EXTENDS Integers

CONSTANTS DefaultPageSize, MaxPageSize

ASSUME PaginationAssumption ==
    /\ DefaultPageSize \in Nat \ {0}
    /\ MaxPageSize \in Nat \ {0}
    /\ DefaultPageSize <= MaxPageSize

Unknown == -1  \* the total and the page count of a list nobody counted

PageSize(perPage) ==
    CASE perPage <= 0 -> DefaultPageSize
      [] perPage > MaxPageSize -> MaxPageSize
      [] OTHER -> perPage

\* Fault: the last, incomplete page is not counted.
PageCount_Floor(size, total) == IF total >= 0 THEN total \div size ELSE Unknown

PageCount(size, total) ==
    IF total >= 0 THEN (total + size - 1) \div size ELSE Unknown

\* Fault: a page after the last one is not brought back.
Pages_NoLast(page, perPage, total) ==
    [page |-> IF page < 1 THEN 1 ELSE page,
     perPage |-> PageSize(perPage),
     pageCount |-> PageCount(PageSize(perPage), total)]

\* Fault: a page before the first one is not brought forward.
Pages_NoFirst(page, perPage, total) ==
    LET count == PageCount(PageSize(perPage), total) IN
    [page |-> IF total >= 0 /\ page > count THEN count ELSE page,
     perPage |-> PageSize(perPage),
     pageCount |-> count]

\* New: the page asked for, brought into the list.
Pages(page, perPage, total) ==
    LET count == PageCount(PageSize(perPage), total)
        upToLast == IF total >= 0 /\ page > count THEN count ELSE page
    IN  [page |-> IF upToLast < 1 THEN 1 ELSE upToLast,
         perPage |-> PageSize(perPage),
         pageCount |-> count]

\* Fault: pages counted from 0.
Offset_FromZero(p) == p.page * p.perPage

Offset(p) == (p.page - 1) * p.perPage

Limit(p) == p.perPage

\* A query is a function from the names of its parameters to their values.
NoQuery == <<>>

Param(query, name, default) ==
    IF name \in DOMAIN query THEN query[name] ELSE default

FromRequest(query, total) ==
    Pages(Param(query, "page", 1), Param(query, "per_page", DefaultPageSize), total)

\* Fault: the page size is left out of the links.
Link_NoSize(p, page, defaultPerPage) == [page |-> page]

\* The page size is left out when it is the one that the caller calls the
\* default.
Link(p, page, defaultPerPage) ==
    IF p.perPage = defaultPerPage
    THEN [page |-> page]
    ELSE [page |-> page, per_page |-> p.perPage]

\* BuildLinks: the links that a page has, by relation.
Links(p, defaultPerPage) ==
    LET counted == p.pageCount # Unknown
        page == IF counted /\ p.page > p.pageCount THEN p.pageCount ELSE p.page
        target == [first |-> 1, prev |-> page - 1, next |-> page + 1, last |-> p.pageCount]
        back == IF page > 1 THEN {"first", "prev"} ELSE {}
        onward == IF counted
                  THEN IF page < p.pageCount THEN {"next", "last"} ELSE {}
                  ELSE {"next"}
    IN  [rel \in back \cup onward |-> Link(p, target[rel], defaultPerPage)]
=============================================================================
