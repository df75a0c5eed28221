-------------------------- MODULE PaginationProofs --------------------------
(***************************************************************************)
(* Theorems about Pagination, for integers of any width.                   *)
(***************************************************************************)
EXTENDS Pagination, TLAPS

\* What fits is not changed.
LEMMA WrapFits ==
  ASSUME NEW x \in GoInt
  PROVE  Wrap(x) = x
<1>1. x + MaxInt + 1 \in 0 .. 2 * (MaxInt + 1) - 1
  BY MaxIntAssumption DEF GoInt
<1>2. (x + MaxInt + 1) % (2 * (MaxInt + 1)) = x + MaxInt + 1
  BY <1>1, MaxIntAssumption
<1> QED
  BY <1>2, MaxIntAssumption DEF Wrap, GoInt

\* An offset that is not zero is no smaller than the limit.
LEMMA OffsetOverLimit ==
  ASSUME NEW limit \in Int, NEW page \in Int, limit > 0, (page - 1) * limit > 0
  PROVE  limit <= (page - 1) * limit
<1>1. page - 1 > 0
  OBVIOUS
<1> QED
  BY <1>1

LEMMA DivisionBounds ==
  ASSUME NEW a \in Nat, NEW b \in Nat \ {0}
  PROVE  a \div b \in Nat /\ (a \div b) * b <= a /\ a < (a \div b) * b + b
OBVIOUS

\* An offset that has not wrapped around.
LEMMA OffsetFits ==
  ASSUME NEW limit \in GoInt, NEW page \in GoInt, (page - 1) * limit \in GoInt
  PROVE  newPagination(limit, page).offset = (page - 1) * limit
BY WrapFits DEF newPagination

\* The pages of a list with at least one element.
LEMMA PagesOf ==
  ASSUME NEW total \in Nat \ {0}, NEW limit \in Nat \ {0}
  PROVE  Quotient(total - 1, limit) = (total - 1) \div limit
BY DEF Quotient

(***************************************************************************)
(* Unless its offset wraps around, the window of every page and limit lies *)
(* in the list, and the slice expressions that use it cannot panic: for    *)
(* lists of at most half as many elements as there are integers.           *)
(***************************************************************************)
THEOREM WindowInList ==
  ASSUME NEW total \in Nat, 2 * total <= MaxInt,
         NEW limit \in GoInt, NEW page \in GoInt, (page - 1) * limit \in GoInt
  PROVE  InList(GetPaginationResult(newPagination(limit, page), total), total)
<1> DEFINE p == newPagination(limit, page)
           start == StartIndex(p, total)
<1>1. p.limit = limit /\ p.offset = (page - 1) * limit /\ p.offset \in Int
  BY OffsetFits DEF newPagination, GoInt
<1>2. CASE Unpaged(p)
  BY <1>2, MaxIntAssumption DEF GetPaginationResult, Window, InList
<1>3. CASE ~Unpaged(p)
  <2>1. limit > 0 /\ p.offset >= 0
    BY <1>1, <1>3 DEF Unpaged, GoInt
  <2>2. start \in 0 .. total
    BY <1>1, <2>1 DEF StartIndex
  <2>3. start + limit \in GoInt
    <3>1. CASE start = 0
      BY <2>1, <3>1, MaxIntAssumption DEF GoInt
    <3>2. CASE start > 0
      <4>1. start = (page - 1) * limit
        BY <1>1, <2>1, <3>2 DEF StartIndex
      <4>2. limit <= start
        BY <2>1, <3>2, <4>1, OffsetOverLimit DEF GoInt
      <4> QED
        BY <2>1, <2>2, <4>2, MaxIntAssumption DEF GoInt
    <3> QED
      BY <2>2, <3>1, <3>2
  <2>4. Wrap(start + limit) = start + limit
    BY <2>3, WrapFits
  <2>5. /\ GetPaginationResult(p, total).start = start
        /\ GetPaginationResult(p, total).end = Smaller(start + limit, total)
    BY <1>1, <1>3, <2>4 DEF GetPaginationResult, Window
  <2> QED
    BY <2>1, <2>2, <2>5 DEF InList, Smaller, GoInt
<1> QED
  BY <1>2, <1>3

\* The element at position k (from 0) is in the window.
On(k, w) == w.start <= k /\ k < w.end

(***************************************************************************)
(* For every positive limit, each element of the list is on one of the     *)
(* pages 1 .. totalPages of GetPaginationResult, and on no other of them:  *)
(* the pages cover the list and do not overlap.                            *)
(***************************************************************************)
THEOREM OnePageEach ==
  ASSUME NEW total \in Nat, 2 * total <= MaxInt,
         NEW limit \in GoInt, limit > 0,
         NEW k \in 0 .. total - 1
  PROVE  LET w(page) == GetPaginationResult(newPagination(limit, page), total)
             pages == (total - 1) \div limit + 1
         IN /\ \A page \in 1 .. pages : w(page).pages = pages
            /\ \E page \in 1 .. pages :
                 /\ On(k, w(page))
                 /\ \A other \in 1 .. pages : On(k, w(other)) => other = page
<1> DEFINE w(page) == GetPaginationResult(newPagination(limit, page), total)
           pages == (total - 1) \div limit + 1
           last == (total - 1) \div limit
           q == k \div limit
<1>1. total \in Nat \ {0} /\ limit \in Nat \ {0}
  BY DEF GoInt
<1>2. last \in Nat /\ last * limit <= total - 1 /\ total - 1 < last * limit + limit
  BY <1>1, DivisionBounds
<1>3. q \in Nat /\ q * limit <= k /\ k < q * limit + limit
  BY <1>1, DivisionBounds
<1>4. ASSUME NEW page \in 1 .. pages
      PROVE  /\ w(page).pages = pages
             /\ w(page).start = (page - 1) * limit
             /\ w(page).end = Smaller((page - 1) * limit + limit, total)
  <2>1. page - 1 \in Nat /\ page - 1 <= last
    BY <1>2
  <2>2. (page - 1) * limit \in Nat /\ (page - 1) * limit <= last * limit
    BY <1>1, <1>2, <2>1
  <2>3. (page - 1) * limit \in GoInt
    BY <1>2, <2>2, MaxIntAssumption DEF GoInt
  <2> DEFINE p == newPagination(limit, page)
  <2>4. p.limit = limit /\ p.offset = (page - 1) * limit
    <3>1. Wrap((page - 1) * limit) = (page - 1) * limit
      BY <2>3, WrapFits
    <3> QED
      BY <3>1 DEF newPagination
  <2>5. ~Unpaged(p) /\ StartIndex(p, total) = (page - 1) * limit
    BY <1>1, <1>2, <2>2, <2>4 DEF Unpaged, StartIndex
  <2>6. Wrap((page - 1) * limit + limit) = (page - 1) * limit + limit
    <3>1. (page - 1) * limit + limit \in GoInt
      <4>1. CASE (page - 1) * limit = 0
        BY <1>1, <4>1, MaxIntAssumption DEF GoInt
      <4>2. CASE (page - 1) * limit > 0
        <5>1. limit <= (page - 1) * limit
          BY <1>1, <4>2, OffsetOverLimit
        <5> QED
          BY <1>1, <1>2, <2>2, <5>1, MaxIntAssumption DEF GoInt
      <4> QED
        BY <2>2, <4>1, <4>2
    <3> QED
      BY <3>1, WrapFits
  <2>7. Quotient(total - 1, limit) + 1 = pages
    BY <1>1, PagesOf
  <2> HIDE DEF p, pages
  <2>8. GetPaginationResult(p, total) =
          Window((page - 1) * limit, Smaller((page - 1) * limit + limit, total), pages)
    BY <2>4, <2>5, <2>6, <2>7 DEF GetPaginationResult
  <2> QED
    BY <2>8 DEF Window, p
<1>5. q + 1 \in 1 .. pages
  <2>1. q * limit < (last + 1) * limit
    BY <1>1, <1>2, <1>3
  <2>2. q < last + 1
    BY <1>1, <1>2, <1>3, <2>1
  <2> QED
    BY <1>2, <1>3, <2>2
<1>6. On(k, w(q + 1))
  BY <1>1, <1>3, <1>4, <1>5 DEF On, Smaller
<1>7. ASSUME NEW other \in 1 .. pages, On(k, w(other))
      PROVE  other = q + 1
  <2>1. (other - 1) * limit <= k /\ k < (other - 1) * limit + limit /\ other - 1 \in Int
    BY <1>1, <1>2, <1>4, <1>7 DEF On, Smaller
  <2>2. (other - 1) * limit < (q + 1) * limit /\ q * limit < other * limit
    BY <1>1, <1>3, <2>1
  <2>3. other - 1 < q + 1 /\ q < other
    BY <1>1, <1>3, <2>1, <2>2
  <2> QED
    BY <1>3, <2>1, <2>3
<1> QED
  BY <1>4, <1>5, <1>6, <1>7
=============================================================================
