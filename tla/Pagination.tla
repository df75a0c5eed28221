----------------------------- MODULE Pagination -----------------------------
(***************************************************************************)
(* Query parameters and the window of a list they ask for                  *)
(* (pkg/server/param/queryparam.go).  Integers wrap around as Go's do.     *)
(***************************************************************************)
EXTENDS Integers

CONSTANTS
    MaxInt,    \* the largest int
    NoNumber   \* a parameter that is absent, or that Atoi refuses

ASSUME MaxIntAssumption == MaxInt \in Nat
ASSUME NoNumberAssumption == NoNumber \notin Int

GoInt == -MaxInt - 1 .. MaxInt

Wrap(x) == ((x + MaxInt + 1) % (2 * (MaxInt + 1))) - (MaxInt + 1)

\* Go's division truncates.
Quotient(a, b) == IF a < 0 THEN -((-a) \div b) ELSE a \div b

Smaller(a, b) == IF a < b THEN a ELSE b

noPaginationLimit == -1
noPaginationPage == 1

newPagination(limit, page) ==
    [limit |-> limit, offset |-> Wrap((page - 1) * limit), page |-> page]

Parsed(text, default) == IF text = NoNumber THEN default ELSE text

\* What ParseQueryParameter reads from a request, with the list it is for.
ParseQueryParameter(request, page) ==
    [pagination |-> newPagination(Parsed(request.limit, noPaginationLimit),
                                  Parsed(page, noPaginationPage)),
     sortBy |-> request.sortBy,
     ascending |-> request.order # "desc",
     kind |-> request.kind]

Unpaged(p) == p.limit <= 0 \/ p.offset < 0

\* Out of range: the first page.
StartIndex(p, total) == IF p.offset > total THEN 0 ELSE p.offset

Window(start, end, pages) == [start |-> start, end |-> end, pages |-> pages]

\* Mutant: the pages that are full.
FullPages(p, total) ==
    LET start == StartIndex(p, total) IN
    IF Unpaged(p)
      THEN Window(0, total, 1)
      ELSE Window(start, Smaller(Wrap(start + p.limit), total), Quotient(total, p.limit))

\* Mutant: the last page of an empty list.
PagesRoundedDown(p, total) ==
    LET start == StartIndex(p, total) IN
    IF Unpaged(p)
      THEN Window(0, total, 1)
      ELSE Window(start, Smaller(Wrap(start + p.limit), total), Quotient(total - 1, p.limit))

\* Mutant: no page is out of range.
NoRestart(p, total) ==
    IF Unpaged(p)
      THEN Window(0, total, 1)
      ELSE Window(p.offset, Smaller(Wrap(p.offset + p.limit), total),
                  Quotient(total - 1, p.limit) + 1)

GetPaginationResult(p, total) ==
    LET start == StartIndex(p, total) IN
    IF Unpaged(p)
      THEN Window(0, total, 1)
      ELSE Window(start, Smaller(Wrap(start + p.limit), total),
                  Quotient(total - 1, p.limit) + 1)

\* result[start:end] panics on any other window.
InList(w, total) == 0 <= w.start /\ w.start <= w.end /\ w.end <= total
=============================================================================
