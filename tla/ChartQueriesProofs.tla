------------------------- MODULE ChartQueriesProofs -------------------------
(***************************************************************************)
(* Theorems about ChartQueries, for any requests, indexes, names, numbers  *)
(* of changes and width of the integers.                                   *)
(***************************************************************************)
EXTENDS ChartQueries, PaginationProofs, FiniteSetTheorems, SequenceTheorems

-----------------------------------------------------------------------------
(* An order of a finite set lists each of its elements once. *)
LEMMA OrderListsOnce ==
  ASSUME NEW S, IsFiniteSet(S), NEW f \in Orders(S)
  PROVE  /\ Cardinality(S) \in Nat
         /\ DOMAIN f = 1 .. Cardinality(S)
         /\ f \in Seq(S)
         /\ Len(f) = Cardinality(S)
         /\ ItemsOf(f) = S
         /\ \A j, k \in DOMAIN f : j # k => f[j] # f[k]
<1> DEFINE n == Cardinality(S)
<1>1. n \in Nat
  BY FS_CardinalityType
<1>2. f \in [1 .. n -> S] /\ \A r \in S : \E k \in DOMAIN f : f[k] = r
  BY DEF Orders
<1>3. DOMAIN f = 1 .. n /\ f \in Seq(S) /\ Len(f) = n
  BY <1>1, <1>2
<1>4. ItemsOf(f) = S
  BY <1>2 DEF ItemsOf
<1>5. f \in Surjection(1 .. n, S)
  BY <1>2 DEF Surjection
<1>6. IsFiniteSet(1 .. n) /\ Cardinality(1 .. n) = n
  BY <1>1, FS_Interval
<1>7. f \in Injection(1 .. n, S)
  BY <1>5, <1>6, FS_Surjection
<1>8. \A j, k \in DOMAIN f : j # k => f[j] # f[k]
  BY <1>3, <1>7 DEF Injection, IsInjective
<1> QED
  BY <1>1, <1>3, <1>4, <1>8

(* Every finite set has an order. *)
LEMMA SomeOrderExists ==
  ASSUME NEW S, IsFiniteSet(S)
  PROVE  SomeOrder(S) \in Orders(S)
<1>1. PICK f : f \in Bijection(1 .. Cardinality(S), S)
  BY FS_CardinalityType DEF ExistsBijection
<1>2. f \in Orders(S)
  BY <1>1 DEF Bijection, Surjection, Injection, Orders
<1> QED
  BY <1>2 DEF SomeOrder

(* What is arranged is what stands at the places. *)
LEMMA ArrangedItems ==
  ASSUME NEW P, IsFiniteSet(P), NEW s, NEW S, \A k \in P : s[k] \in S,
         NEW t \in Arranged(s, P)
  PROVE  /\ Cardinality(P) \in Nat
         /\ t \in Seq(S)
         /\ Len(t) = Cardinality(P)
         /\ ItemsOf(t) = {s[k] : k \in P}
<1>1. PICK f \in Orders(P) : t = [k \in 1 .. Cardinality(P) |-> s[f[k]]]
  BY DEF Arranged
<1>2. /\ Cardinality(P) \in Nat
      /\ DOMAIN f = 1 .. Cardinality(P)
      /\ ItemsOf(f) = P
      /\ \A k \in DOMAIN f : f[k] \in P
  BY <1>1, OrderListsOnce DEF ItemsOf
<1>3. t \in [1 .. Cardinality(P) -> S]
  BY <1>1, <1>2
<1>4. ItemsOf(t) = {s[k] : k \in P}
  <2>1. ASSUME NEW x \in ItemsOf(t)
        PROVE  x \in {s[k] : k \in P}
    BY <1>1, <1>2, <2>1 DEF ItemsOf
  <2>2. ASSUME NEW k \in P
        PROVE  s[k] \in ItemsOf(t)
    <3>1. PICK j \in DOMAIN f : f[j] = k
      BY <1>2 DEF ItemsOf
    <3> QED
      BY <1>1, <1>2, <3>1 DEF ItemsOf
  <2> QED
    BY <2>1, <2>2
<1> QED
  BY <1>2, <1>3, <1>4

(* A set of places of a list is finite and no larger than the list. *)
LEMMA PlacesFinite ==
  ASSUME NEW S, NEW s \in Seq(S), NEW P \in SUBSET DOMAIN s
  PROVE  /\ IsFiniteSet(P)
         /\ Cardinality(P) \in Nat
         /\ Cardinality(P) <= Len(s)
<1>1. DOMAIN s = 1 .. Len(s) /\ Len(s) \in Nat
  OBVIOUS
<1>2. IsFiniteSet(1 .. Len(s)) /\ Cardinality(1 .. Len(s)) = Len(s)
  <2>1. 1 \in Int /\ Len(s) \in Int
    BY <1>1
  <2>2. Cardinality(1 .. Len(s)) = IF 1 > Len(s) THEN 0 ELSE Len(s) - 1 + 1
    BY <2>1, FS_Interval
  <2> QED
    BY <1>1, <2>1, <2>2, FS_Interval
<1>3. P \in SUBSET (1 .. Len(s))
  BY <1>1
<1> QED
  BY <1>2, <1>3, FS_Subset, FS_CardinalityType

LEMMA QuotientSmall ==
  ASSUME NEW a \in Nat, NEW b \in Nat \ {0}
  PROVE  a \div b \in 0 .. a
<1> DEFINE q == a \div b
<1>1. q \in Nat /\ q * b <= a
  BY DivisionBounds
<1> HIDE DEF q
<1>2. q <= q * b
  BY <1>1
<1>3. q \in 0 .. a
  BY <1>1, <1>2
<1> QED
  BY <1>3 DEF q

(* The bounds of a window are integers, and so is the number of pages. *)
LEMMA WindowTyped ==
  ASSUME NEW total \in Nat, total <= MaxInt, 1 <= MaxInt,
         NEW limit \in GoInt, NEW page_ \in GoInt
  PROVE  LET w == GetPaginationResult(newPagination(limit, page_), total)
         IN /\ w.start \in Int
            /\ w.end \in Int
            /\ w.pages \in 0 .. MaxInt
<1> DEFINE p == newPagination(limit, page_)
           w == GetPaginationResult(p, total)
<1>1. \A x \in Int : Wrap(x) \in Int
  BY MaxIntAssumption DEF Wrap
<1>2. p.limit = limit /\ p.offset \in Int
  <2>1. (page_ - 1) * limit \in Int
    BY DEF GoInt
  <2> QED
    BY <1>1, <2>1 DEF newPagination
<1> HIDE DEF p
<1> SUFFICES w.start \in Int /\ w.end \in Int /\ w.pages \in 0 .. MaxInt
  BY DEF p
<1>3. CASE Unpaged(p)
  <2>1. w = Window(0, total, 1)
    BY <1>3 DEF GetPaginationResult
  <2> HIDE DEF w
  <2> QED
    BY <2>1, MaxIntAssumption DEF Window
<1>4. CASE ~Unpaged(p)
  <2>1. limit \in Nat \ {0}
    BY <1>2, <1>4 DEF Unpaged, GoInt
  <2>2. StartIndex(p, total) \in Int
    BY <1>2 DEF StartIndex
  <2>3. Wrap(StartIndex(p, total) + limit) \in Int
    BY <1>1, <2>1, <2>2
  <2>4. w = Window(StartIndex(p, total), Smaller(Wrap(StartIndex(p, total) + limit), total),
                   Quotient(total - 1, limit) + 1)
    BY <1>2, <1>4 DEF GetPaginationResult
  <2>5. Quotient(total - 1, limit) + 1 \in 0 .. MaxInt
    <3>1. CASE total = 0
      <4>1. 1 \div limit \in 0 .. 1
        BY <2>1, QuotientSmall
      <4>2. Quotient(total - 1, limit) = -(1 \div limit)
        BY <3>1 DEF Quotient
      <4> QED
        BY <4>1, <4>2, MaxIntAssumption
    <3>2. CASE total # 0
      <4>1. Quotient(total - 1, limit) = (total - 1) \div limit
        BY <2>1, <3>2, PagesOf
      <4>2. (total - 1) \div limit \in 0 .. total - 1
        BY <2>1, <3>2, QuotientSmall
      <4> HIDE DEF w
      <4> QED
        BY <3>2, <4>1, <4>2, MaxIntAssumption
    <3> QED
      BY <3>1, <3>2
  <2> HIDE DEF w
  <2> QED
    BY <2>2, <2>3, <2>4, <2>5 DEF Window, Smaller
<1> QED
  BY <1>3, <1>4

(* The limit and the page of a request are integers. *)
LEMMA ParametersTyped ==
  ASSUME TypeOK
  PROVE  /\ Limit \in GoInt
         /\ Asked \in GoInt
         /\ ParseQueryParameter(request, page).pagination = newPagination(Limit, Asked)
<1>1. request.limit \in GoInt \cup {NoNumber} /\ page \in GoInt \cup {NoNumber}
  BY RequestsAssumption DEF TypeOK
<1>2. noPaginationLimit \in GoInt /\ noPaginationPage \in GoInt
  BY MaxIntAssumption, SizesAssumption DEF GoInt, noPaginationLimit, noPaginationPage
<1> QED
  BY <1>1, <1>2 DEF Limit, Asked, Parsed, ParseQueryParameter

(* What an answer does, from any list whose elements are of S. *)
LEMMA AnswerPageDoes ==
  ASSUME TypeOK, NEW s, NEW P, IsFiniteSet(P), 2 * Cardinality(P) <= MaxInt,
         NEW S \in SUBSET Items, \A k \in P : s[k] \in S,
         AnswerPage(s, P)
  PROVE  /\ answer' \in [items : Seq(Items), pages : Nat]
         /\ answer'.pages <= MaxInt \/ answer' = answer
         /\ walked' \in Seq(Items)
         /\ \/ stage' = "answered" /\ ItemsOf(answer'.items) \subseteq S
            \/ stage' = "panicked" /\ (Asked - 1) * Limit \notin GoInt
<1> DEFINE n == Cardinality(P)
           query == ParseQueryParameter(request, page)
           w == GetPaginationResult(query.pagination, n)
<1>1. n \in Nat /\ n <= MaxInt
  BY MaxIntAssumption, FS_CardinalityType
<1>2. /\ Limit \in GoInt /\ Asked \in GoInt
      /\ query.pagination = newPagination(Limit, Asked)
  BY ParametersTyped
<1>3. w.start \in Int /\ w.end \in Int /\ w.pages \in 0 .. MaxInt
  BY <1>1, <1>2, SizesAssumption, WindowTyped
<1>4. CASE InList(w, n)
  <2>1. PICK t \in Orderings(s, P, query) :
          /\ answer' = pageResult(t, w)
          /\ walked' = walked \o answer'.items
          /\ stage' = "answered"
    BY <1>4, Zenon DEF AnswerPage
  <2>2. t \in Arranged(s, P)
    BY DEF Orderings
  <2>3. t \in Seq(S) /\ Len(t) = n
    BY <2>2, ArrangedItems
  <2>4. SubSeq(t, w.start + 1, w.end) \in Seq(S)
    <3>1. \A i \in w.start + 1 .. w.end : t[i] \in S
      BY <1>1, <1>3, <1>4, <2>3 DEF InList
    <3> QED
      BY <1>3, <3>1, SubSeqProperties
  <2>5. answer'.items \in Seq(S) /\ answer'.pages = w.pages
        /\ answer' = [items |-> answer'.items, pages |-> answer'.pages]
    BY <2>1, <2>4 DEF pageResult
  <2>6. ItemsOf(answer'.items) \subseteq S
    BY <2>5 DEF ItemsOf
  <2>7. answer'.items \in Seq(Items)
    BY <2>5, SeqMonotonic
  <2>8. walked' \in Seq(Items)
    BY <2>1, <2>7 DEF TypeOK
  <2> HIDE DEF w, query
  <2> QED
    BY <1>3, <2>1, <2>5, <2>6, <2>7, <2>8, MaxIntAssumption
<1>5. CASE ~InList(w, n)
  <2>1. stage' = "panicked" /\ UNCHANGED <<answer, walked>>
    BY <1>5, Zenon DEF AnswerPage
  <2>2. (Asked - 1) * Limit \notin GoInt
    BY <1>1, <1>2, <1>5, WindowInList
  <2> QED
    BY <2>1, <2>2 DEF TypeOK
<1> QED
  BY <1>4, <1>5
LEMMA TimesMonotone ==
  ASSUME NEW a \in Nat, NEW b \in Nat, NEW c \in Nat, a <= b
  PROVE  a * c <= b * c
<1>1. b * c = a * c + (b - a) * c
  OBVIOUS
<1>2. (b - a) * c >= 0
  OBVIOUS
<1>3. a * c \in Int /\ (b - a) * c \in Int
  OBVIOUS
<1> QED
  BY <1>1, <1>2, <1>3

(* The repositories with a custom resource are finite in number. *)
LEMMA ReposFinite ==
  ASSUME TypeOK
  PROVE  /\ IsFiniteSet(crs)
         /\ Cardinality(crs) \in Nat
         /\ Cardinality(Repos) \in Nat
         /\ Cardinality(crs) <= Cardinality(Repos)
BY CatalogsAssumption, FS_Subset, FS_CardinalityType DEF TypeOK

(* A request reads the repositories it asks for, none of them twice if it  *)
(* names none twice.                                                       *)
LEMMA ReposToRead ==
  ASSUME TypeOK,
         NEW t \in IF request.repos = <<>> THEN Orders(crs) ELSE filterSelectedRepositories
  PROVE  /\ t \in Seq(Repos)
         /\ ItemsOf(t) = Named
         /\ 2 * (Len(t) * MaxCharts) <= MaxInt
         /\ (\A j, k \in DOMAIN request.repos : j # k => request.repos[j] # request.repos[k])
              => \A j, k \in DOMAIN t : j # k => t[j] # t[k]
<1>1. crs \subseteq Repos /\ request \in Requests /\ MaxCharts \in Nat
  BY CatalogsAssumption DEF TypeOK
<1>2. /\ IsFiniteSet(crs)
      /\ Cardinality(crs) \in Nat
      /\ Cardinality(Repos) \in Nat
      /\ Cardinality(crs) <= Cardinality(Repos)
  BY ReposFinite
<1>3. CASE request.repos = <<>>
  <2>1. t \in Orders(crs)
    BY <1>3
  <2>2. /\ t \in Seq(crs)
        /\ Len(t) = Cardinality(crs)
        /\ ItemsOf(t) = crs
        /\ \A j, k \in DOMAIN t : j # k => t[j] # t[k]
    BY <1>2, <2>1, OrderListsOnce
  <2>3. t \in Seq(Repos)
    BY <1>1, <2>2, SeqMonotonic
  <2>4. ItemsOf(t) = Named
    BY <1>3, <2>2 DEF Named
  <2>5. Len(t) * MaxCharts <= Cardinality(Repos) * MaxCharts
    BY <1>1, <1>2, <2>2, TimesMonotone
  <2>6. Len(t) * MaxCharts \in Nat /\ Cardinality(Repos) * MaxCharts \in Nat
    BY <1>1, <1>2, <2>2
  <2>7. 2 * (Cardinality(Repos) * MaxCharts) <= MaxInt
    BY SizesAssumption
  <2>8. 2 * (Len(t) * MaxCharts) <= MaxInt
    BY <2>5, <2>6, <2>7, MaxIntAssumption
  <2> QED
    BY <2>2, <2>3, <2>4, <2>8
<1>4. CASE request.repos # <<>>
  <2> DEFINE repos == request.repos
             kept == {k \in DOMAIN repos : repos[k] \in crs}
  <2>1. PICK f \in Orders(kept) : t = [k \in DOMAIN f |-> repos[f[k]]]
    BY <1>4 DEF filterSelectedRepositories
  <2>2. repos \in Seq(ItemsOf(repos))
    BY <1>1, RequestsAssumption
  <2>3. /\ IsFiniteSet(kept)
        /\ Cardinality(kept) \in Nat
        /\ Cardinality(kept) <= Len(repos)
        /\ Len(repos) \in Nat
    BY <2>2, PlacesFinite
  <2>4. /\ DOMAIN f = 1 .. Cardinality(kept)
        /\ \A k \in DOMAIN f : f[k] \in kept
        /\ \A j, k \in DOMAIN f : j # k => f[j] # f[k]
    BY <2>3, OrderListsOnce DEF ItemsOf
  <2>5. t \in Arranged(repos, kept)
    BY <2>1, <2>4 DEF Arranged
  <2>6. /\ t \in Seq(Repos)
        /\ Len(t) = Cardinality(kept)
        /\ ItemsOf(t) = {repos[k] : k \in kept}
    <3>1. \A k \in kept : repos[k] \in Repos
      BY <1>1
    <3> QED
      BY <2>3, <2>5, <3>1, ArrangedItems
  <2>7. {repos[k] : k \in kept} = Named
    BY <1>4 DEF Named, ItemsOf
  <2>8. Len(t) * MaxCharts <= Len(repos) * MaxCharts
    BY <1>1, <2>3, <2>6, TimesMonotone
  <2>9. Len(t) * MaxCharts \in Nat /\ Len(repos) * MaxCharts \in Nat
    BY <1>1, <2>3, <2>6
  <2>10. 2 * (Len(repos) * MaxCharts) <= MaxInt
    BY <1>1, SizesAssumption
  <2>11. 2 * (Len(t) * MaxCharts) <= MaxInt
    BY <2>8, <2>9, <2>10, MaxIntAssumption
  <2>12. ASSUME \A j, k \in DOMAIN repos : j # k => repos[j] # repos[k],
                NEW j \in DOMAIN t, NEW k \in DOMAIN t, j # k
         PROVE  t[j] # t[k]
    BY <2>1, <2>4, <2>12
  <2> QED
    BY <2>6, <2>7, <2>11, <2>12
<1> QED
  BY <1>3, <1>4

(* Reading a repository appends the charts of its index, each once. *)
LEMMA IndexRead ==
  ASSUME TypeOK, OwnCharts, NEW r \in Repos
  PROVE  LET s == SomeOrder(cache[r])
         IN /\ IsFiniteSet(cache[r])
            /\ cache[r] \subseteq Items
            /\ s \in Seq(cache[r])
            /\ Len(s) \in 0 .. MaxCharts
            /\ ItemsOf(s) = cache[r]
            /\ \A j, k \in DOMAIN s : j # k => s[j] # s[k]
            /\ \A c \in cache[r] : c.repo = r
<1>1. cache[r] \in Catalogs[r] /\ cache[r] \subseteq Items
  BY DEF OwnCharts, TypeOK
<1>2. /\ IsFiniteSet(cache[r])
      /\ Cardinality(cache[r]) <= MaxCharts
      /\ \A c \in cache[r] : c.repo = r
      /\ MaxCharts \in Nat
  BY <1>1, CatalogsAssumption
<1>3. SomeOrder(cache[r]) \in Orders(cache[r])
  BY <1>2, SomeOrderExists
<1> QED
  BY <1>1, <1>2, <1>3, OrderListsOnce
(* The items are the charts of every index and the repositories. *)
LEMMA ItemsHold ==
  ASSUME NEW q \in Repos
  PROVE  /\ RepoItem(q) \in Items
         /\ \A i \in Catalogs[q] : i \subseteq Items
<1>1. ASSUME NEW x, NEW r \in Repos, x = RepoItem(r) \/ x \in UNION Catalogs[r]
      PROVE  x \in Items
  BY <1>1 DEF Items
<1>2. RepoItem(q) \in Items
  BY <1>1
<1>3. ASSUME NEW i \in Catalogs[q], NEW c \in i
      PROVE  c \in Items
  BY <1>1, <1>3
<1> QED
  BY <1>2, <1>3

-----------------------------------------------------------------------------
(* The invariant, one action at a time. *)
LEMMA InitQueryInv == Init => QueryInv
<1> SUFFICES ASSUME Init PROVE QueryInv
  OBVIOUS
<1>1. TypeOK
  <2>1. \A r \in Repos : cache[r] \subseteq Items
    <3>1. \A r \in Repos : \A i \in Catalogs[r] : i \subseteq Items
      BY ItemsHold
    <3>2. \A r \in Repos : cache[r] \in Catalogs[r]
      BY DEF Init
    <3> QED
      BY <3>1, <3>2
  <2>2. answer \in [items : Seq(Items), pages : Nat]
    BY DEF Init, Nothing
  <2>3. page \in GoInt \cup {NoNumber}
    BY PagesAssumption DEF Init
  <2>4. cache \in [Repos -> SUBSET Items]
    BY <2>1 DEF Init
  <2>5. since \subseteq Items
    <3>1. Expected \subseteq Items
      BY <2>1, ItemsHold DEF Init, Expected
    <3> QED
      BY <3>1 DEF Init
  <2> QED
    BY <2>2, <2>3, <2>4, <2>5, ChangesAssumption DEF Init, TypeOK, Stages
<1>2. ListFits
  BY CatalogsAssumption, MaxIntAssumption DEF Init, ListFits
<1>3. PagesFit
  BY MaxIntAssumption DEF Init, PagesFit, Nothing
<1> QED
  BY <1>1, <1>2, <1>3 DEF Init, QueryInv, OwnCharts, ReadRecently, AnswerCurrent, OnlyWrapPanics

LEMMA ListReposKeeps ==
  ASSUME QueryInv, ListRepos
  PROVE  QueryInv'
<1>1. /\ TypeOK /\ PagesFit /\ OwnCharts
      /\ stage' = "reading" /\ request.kind = "charts"
      /\ list' = <<>>
      /\ recent' = UNION {cache[r] : r \in Repos}
      /\ todo' \in IF request.repos = <<>> THEN Orders(crs) ELSE filterSelectedRepositories
      /\ UNCHANGED <<crs, cache, request, page, answer, walked, quiet, since, changes>>
  BY DEF QueryInv, ListRepos, catalog
<1>2. todo' \in Seq(Repos) /\ 2 * (Len(todo') * MaxCharts) <= MaxInt
  BY <1>1, ReposToRead
<1>3. recent' \subseteq Items
  BY <1>1 DEF TypeOK
<1>4. TypeOK'
  BY <1>1, <1>2, <1>3 DEF TypeOK, Stages
<1>5. ListFits'
  <2>1. Len(todo') * MaxCharts \in Nat
    BY <1>2, CatalogsAssumption
  <2>2. Len(list') = 0
    BY <1>1
  <2> QED
    BY <1>2, <2>1, <2>2 DEF ListFits
<1>6. ReadRecently'
  BY <1>1 DEF ReadRecently, ItemsOf
<1> QED
  BY <1>1, <1>4, <1>5, <1>6
     DEF QueryInv, PagesFit, OwnCharts, AnswerCurrent, OnlyWrapPanics

LEMMA ReadRepoKeeps ==
  ASSUME QueryInv, ReadRepo
  PROVE  QueryInv'
<1> DEFINE r == Head(todo)
           s == SomeOrder(cache[r])
<1>1. /\ TypeOK /\ ListFits /\ OwnCharts /\ ReadRecently
      /\ stage = "reading" /\ todo # <<>>
      /\ list' = list \o s
      /\ todo' = Tail(todo)
      /\ UNCHANGED <<crs, cache, request, page, stage, answer, walked, recent, quiet, since, changes>>
  BY DEF QueryInv, ReadRepo, catalog, history
<1>2. /\ r \in Repos
      /\ todo' \in Seq(Repos)
      /\ Len(todo) \in Nat
      /\ Len(todo') \in Nat
      /\ Len(todo') = Len(todo) - 1
  BY <1>1, HeadTailProperties DEF TypeOK
<1>3. /\ cache[r] \subseteq Items
      /\ s \in Seq(cache[r])
      /\ Len(s) \in 0 .. MaxCharts
      /\ ItemsOf(s) = cache[r]
  BY <1>1, <1>2, IndexRead
<1> HIDE DEF s, r
<1>4. /\ list \in Seq(Items)
      /\ s \in Seq(Items)
      /\ list' \in Seq(Items)
      /\ Len(list') = Len(list) + Len(s)
  <2>1. list \in Seq(Items) /\ s \in Seq(Items)
    BY <1>1, <1>3, SeqMonotonic DEF TypeOK
  <2> QED
    BY <1>1, <2>1, ConcatProperties
<1>5. TypeOK'
  BY <1>1, <1>2, <1>4 DEF TypeOK
<1>6. ListFits'
  <2>1. /\ Len(todo') * MaxCharts \in Nat
        /\ Len(todo) * MaxCharts = Len(todo') * MaxCharts + MaxCharts
        /\ MaxCharts \in Nat
    BY <1>2, CatalogsAssumption
  <2> QED
    BY <1>1, <1>3, <1>4, <2>1, MaxIntAssumption DEF ListFits
<1>7. ReadRecently'
  <2>1. ItemsOf(list') \subseteq ItemsOf(list) \cup ItemsOf(s)
    BY <1>1, <1>4, ConcatProperties DEF ItemsOf
  <2>2. ItemsOf(list) \subseteq recent /\ cache[r] \subseteq recent
    BY <1>1, <1>2 DEF ReadRecently
  <2> QED
    BY <1>1, <1>3, <2>1, <2>2 DEF ReadRecently
<1> QED
  BY <1>1, <1>5, <1>6, <1>7
     DEF QueryInv, PagesFit, OwnCharts, AnswerCurrent, OnlyWrapPanics

(* A request ends, refused or failed. *)
LEMMA RefuseOrFailKeeps ==
  ASSUME QueryInv, Refuse \/ Fail
  PROVE  QueryInv'
<1>1. /\ stage' \in {"refused", "failed"}
      /\ UNCHANGED <<crs, cache, request, page, todo, list, answer, walked, recent, quiet, since, changes>>
  BY DEF Refuse, Fail, catalog, history
<1>2. TypeOK'
  BY <1>1 DEF QueryInv, TypeOK, Stages
<1> QED
  BY <1>1, <1>2
     DEF QueryInv, ListFits, PagesFit, OwnCharts, ReadRecently, AnswerCurrent, OnlyWrapPanics

LEMMA GetLatestChartsKeeps ==
  ASSUME QueryInv, GetLatestCharts
  PROVE  QueryInv'
<1> DEFINE P == filterChartVersionSlice
           S == ItemsOf(list)
<1>1. /\ TypeOK /\ ListFits /\ PagesFit /\ OwnCharts /\ ReadRecently
      /\ stage = "reading" /\ todo = <<>>
      /\ AnswerPage(list, P)
      /\ UNCHANGED <<crs, cache, request, page, todo, list, recent, quiet, since, changes>>
  BY DEF QueryInv, GetLatestCharts, catalog
<1>2. list \in Seq(Items) /\ Len(list) \in Nat
  BY <1>1 DEF TypeOK
<1>3. P \subseteq DOMAIN list
  BY DEF filterChartVersionSlice
<1>4. IsFiniteSet(P) /\ Cardinality(P) \in Nat /\ Cardinality(P) <= Len(list)
  BY <1>2, <1>3, PlacesFinite
<1>5. 2 * Cardinality(P) <= MaxInt
  <2>1. Len(todo) * MaxCharts \in Nat
    BY <1>1, CatalogsAssumption DEF TypeOK
  <2> QED
    BY <1>1, <1>2, <1>4, <2>1, MaxIntAssumption DEF ListFits
<1>6. S \subseteq Items /\ S \subseteq recent /\ \A k \in P : list[k] \in S
  BY <1>1, <1>2, <1>3 DEF ReadRecently, ItemsOf
<1> HIDE DEF P, S
<1>7. /\ answer' \in [items : Seq(Items), pages : Nat]
      /\ answer'.pages <= MaxInt \/ answer' = answer
      /\ walked' \in Seq(Items)
      /\ \/ stage' = "answered" /\ ItemsOf(answer'.items) \subseteq S
         \/ stage' = "panicked" /\ (Asked - 1) * Limit \notin GoInt
  BY <1>1, <1>4, <1>5, <1>6, AnswerPageDoes
<1>8. TypeOK'
  BY <1>1, <1>7 DEF TypeOK, Stages
<1>9. PagesFit'
  BY <1>1, <1>7 DEF PagesFit
<1>10. AnswerCurrent'
  BY <1>1, <1>6, <1>7 DEF AnswerCurrent
<1>11. OnlyWrapPanics'
  <2>1. Asked' = Asked /\ Limit' = Limit
    BY <1>1 DEF Asked, Limit
  <2> QED
    BY <1>7, <2>1 DEF OnlyWrapPanics
<1> QED
  BY <1>1, <1>7, <1>8, <1>9, <1>10, <1>11
     DEF QueryInv, ListFits, OwnCharts, ReadRecently

LEMMA ListRepoKeeps ==
  ASSUME QueryInv, ListRepo
  PROVE  QueryInv'
<1> DEFINE P == {r \in crs : Within(Lower(request.chart), r)}
           s == [r \in crs |-> RepoItem(r)]
           S == {RepoItem(r) : r \in crs}
<1>1. /\ TypeOK /\ ListFits /\ PagesFit /\ OwnCharts
      /\ stage = "asking"
      /\ AnswerPage(s, P)
      /\ recent' = S
      /\ UNCHANGED <<crs, cache, request, page, todo, list, quiet, since, changes>>
  BY DEF QueryInv, ListRepo, catalog
<1>2. /\ IsFiniteSet(crs)
      /\ Cardinality(crs) \in Nat
      /\ Cardinality(Repos) \in Nat
      /\ Cardinality(crs) <= Cardinality(Repos)
  BY <1>1, ReposFinite
<1>3. IsFiniteSet(P) /\ Cardinality(P) \in Nat /\ Cardinality(P) <= Cardinality(crs)
  BY <1>2, FS_Subset, FS_CardinalityType
<1>4. 2 * Cardinality(P) <= MaxInt
  <2>1. 2 * Cardinality(Repos) <= MaxInt
    BY SizesAssumption
  <2> HIDE DEF P
  <2> QED
    BY <1>2, <1>3, <2>1, MaxIntAssumption
<1>5. S \subseteq Items /\ \A k \in P : s[k] \in S
  <2>1. crs \subseteq Repos
    BY <1>1 DEF TypeOK
  <2>2. S \subseteq Items
    BY <2>1, ItemsHold
  <2>3. \A k \in P : s[k] \in S
    OBVIOUS
  <2> QED
    BY <2>2, <2>3
<1> HIDE DEF P, S, s
<1>6. /\ answer' \in [items : Seq(Items), pages : Nat]
      /\ answer'.pages <= MaxInt \/ answer' = answer
      /\ walked' \in Seq(Items)
      /\ \/ stage' = "answered" /\ ItemsOf(answer'.items) \subseteq S
         \/ stage' = "panicked" /\ (Asked - 1) * Limit \notin GoInt
  BY <1>1, <1>3, <1>4, <1>5, AnswerPageDoes
<1>7. TypeOK'
  BY <1>1, <1>5, <1>6 DEF TypeOK, Stages
<1>8. PagesFit'
  BY <1>1, <1>6 DEF PagesFit
<1>9. AnswerCurrent'
  BY <1>1, <1>6 DEF AnswerCurrent
<1>10. OnlyWrapPanics'
  <2>1. Asked' = Asked /\ Limit' = Limit
    BY <1>1 DEF Asked, Limit
  <2> QED
    BY <1>6, <2>1 DEF OnlyWrapPanics
<1> QED
  BY <1>1, <1>6, <1>7, <1>8, <1>9, <1>10
     DEF QueryInv, ListFits, OwnCharts, ReadRecently

(* The next page is an integer, for it is no larger than the pages there are. *)
LEMMA NextPageKeeps ==
  ASSUME QueryInv, NextPage
  PROVE  QueryInv'
<1>1. /\ TypeOK /\ PagesFit
      /\ Asked < answer.pages
      /\ page' = Asked + 1
      /\ stage' = "asking"
      /\ UNCHANGED <<crs, cache, request, todo, list, answer, walked, recent, quiet, since, changes>>
  BY DEF QueryInv, NextPage, catalog, history, Asked
<1>2. page' \in GoInt
  <2>1. Asked \in GoInt /\ answer.pages \in Nat
    BY <1>1, ParametersTyped DEF TypeOK
  <2> QED
    BY <1>1, <2>1, MaxIntAssumption DEF PagesFit, GoInt
<1>3. TypeOK'
  BY <1>1, <1>2 DEF TypeOK, Stages
<1> QED
  BY <1>1, <1>3
     DEF QueryInv, ListFits, PagesFit, OwnCharts, ReadRecently, AnswerCurrent, OnlyWrapPanics

LEMMA LastPageKeeps ==
  ASSUME QueryInv, LastPage
  PROVE  QueryInv'
<1>1. /\ stage' = "done"
      /\ UNCHANGED <<crs, cache, request, page, todo, list, answer, walked, recent, quiet, since, changes>>
  BY DEF LastPage, catalog, history
<1>2. TypeOK'
  BY <1>1 DEF QueryInv, TypeOK, Stages
<1> QED
  BY <1>1, <1>2
     DEF QueryInv, ListFits, PagesFit, OwnCharts, ReadRecently, AnswerCurrent, OnlyWrapPanics

(* What an index holds from now on counts as recent. *)
LEMMA StoreIndexKeeps ==
  ASSUME QueryInv, NEW r \in Repos, StoreIndex(r)
  PROVE  QueryInv'
<1>1. /\ TypeOK /\ OwnCharts /\ ReadRecently
      /\ stage \in {"asking", "reading", "answered"}
      /\ changes < MaxChanges /\ changes' = changes + 1
      /\ quiet' = FALSE /\ since' \in {since, {}}
      /\ recent' = recent \cup cache'[r]
      /\ UNCHANGED <<crs, request, page, stage, todo, list, answer, walked>>
  BY DEF QueryInv, StoreIndex, Change
<1>2. PICK i \in Catalogs[r] : cache' = [cache EXCEPT ![r] = i]
  BY DEF StoreIndex
<1>3. i \subseteq Items
  BY ItemsHold
<1>4. /\ cache' \in [Repos -> SUBSET Items]
      /\ cache'[r] = i
      /\ \A q \in Repos : cache'[q] = IF q = r THEN i ELSE cache[q]
  BY <1>1, <1>2, <1>3 DEF TypeOK
<1>5. changes' \in 0 .. MaxChanges
  BY <1>1, ChangesAssumption DEF TypeOK
<1>6. TypeOK'
  BY <1>1, <1>3, <1>4, <1>5 DEF TypeOK
<1>7. OwnCharts'
  BY <1>1, <1>4 DEF OwnCharts
<1>8. ReadRecently'
  <2> SUFFICES ASSUME stage' = "reading"
               PROVE  /\ request'.kind = "charts"
                      /\ ItemsOf(list') \subseteq recent'
                      /\ \A q \in Repos : cache'[q] \subseteq recent'
    BY DEF ReadRecently
  <2>1. /\ request.kind = "charts"
        /\ ItemsOf(list) \subseteq recent
        /\ \A q \in Repos : cache[q] \subseteq recent
    BY <1>1 DEF ReadRecently
  <2> QED
    BY <1>1, <1>4, <2>1
<1>9. AnswerCurrent'
  BY <1>1 DEF QueryInv, AnswerCurrent
<1> QED
  BY <1>1, <1>6, <1>7, <1>8, <1>9 DEF QueryInv, ListFits, PagesFit, OnlyWrapPanics

LEMMA ChangeRepoKeeps ==
  ASSUME QueryInv, NEW r \in Repos, ChangeRepo(r)
  PROVE  QueryInv'
<1>1. /\ TypeOK
      /\ stage \in {"asking", "reading", "answered"}
      /\ changes < MaxChanges /\ changes' = changes + 1
      /\ quiet' = FALSE /\ since' \in {since, {}}
      /\ crs' \in {crs \cup {r}, crs \ {r}}
      /\ UNCHANGED <<cache, recent, request, page, stage, todo, list, answer, walked>>
  BY DEF QueryInv, ChangeRepo, Change
<1>2. changes' \in 0 .. MaxChanges
  BY <1>1, ChangesAssumption DEF TypeOK
<1>3. TypeOK'
  BY <1>1, <1>2 DEF TypeOK
<1> QED
  BY <1>1, <1>3
     DEF QueryInv, ListFits, PagesFit, OwnCharts, ReadRecently, AnswerCurrent, OnlyWrapPanics

LEMMA StutterKeepsQuery ==
  ASSUME QueryInv, UNCHANGED vars
  PROVE  QueryInv'
BY DEF vars, catalog, history, QueryInv, TypeOK, ListFits, PagesFit, OwnCharts, ReadRecently,
       AnswerCurrent, OnlyWrapPanics, Asked, Limit

LEMMA QueryInvariance == Spec => []QueryInv
<1>1. Init => QueryInv
  BY InitQueryInv
<1>2. QueryInv /\ [Next]_vars => QueryInv'
  <2> SUFFICES ASSUME QueryInv, [Next]_vars
               PROVE  QueryInv'
    OBVIOUS
  <2>1. CASE ListRepos
    BY <2>1, ListReposKeeps
  <2>2. CASE ReadRepo
    BY <2>2, ReadRepoKeeps
  <2>3. CASE Refuse \/ Fail
    BY <2>3, RefuseOrFailKeeps
  <2>4. CASE GetLatestCharts
    BY <2>4, GetLatestChartsKeeps
  <2>5. CASE ListRepo
    BY <2>5, ListRepoKeeps
  <2>6. CASE NextPage
    BY <2>6, NextPageKeeps
  <2>7. CASE LastPage
    BY <2>7, LastPageKeeps
  <2>8. CASE \E r \in Repos : StoreIndex(r) \/ ChangeRepo(r)
    BY <2>8, StoreIndexKeeps, ChangeRepoKeeps
  <2>9. CASE UNCHANGED vars
    BY <2>9, StutterKeepsQuery
  <2> QED
    BY <2>1, <2>2, <2>3, <2>4, <2>5, <2>6, <2>7, <2>8, <2>9 DEF Next
<1> QED
  BY <1>1, <1>2, PTL DEF Spec

(* Every variable of the walk stays in its range: in particular no list of *)
(* the listings outgrows what the window's arithmetic can bear.            *)
THEOREM WalkTypes == Spec => []TypeOK
<1>1. QueryInv => TypeOK
  BY DEF QueryInv
<1> QED
  BY <1>1, QueryInvariance, PTL

(* A page shows only what some index held since its request began          *)
(* (getLatestChartsFromAllRepositories reads one repository after another, *)
(* without a lock).                                                        *)
THEOREM PagesCurrent == Spec => []AnswerCurrent
<1>1. QueryInv => AnswerCurrent
  BY DEF QueryInv
<1> QED
  BY <1>1, QueryInvariance, PTL

(* The slice expressions of the listings panic only when the offset of the *)
(* page has wrapped around, for every width of the integers.               *)
THEOREM PanicsOnlyOnWrap == Spec => []OnlyWrapPanics
<1>1. QueryInv => OnlyWrapPanics
  BY DEF QueryInv
<1> QED
  BY <1>1, QueryInvariance, PTL
-----------------------------------------------------------------------------
(* Sorted lists.  What comes before an element in its list and not after   *)
(* it are the elements at the places before its own.                       *)
LEMMA StrictlyOnce ==
  ASSUME NEW S, IsFiniteSet(S), NEW query, NEW t \in Strictly(S, query)
  PROVE  /\ Cardinality(S) \in Nat
         /\ DOMAIN t = 1 .. Cardinality(S)
         /\ t \in Seq(S)
         /\ Len(t) = Cardinality(S)
         /\ ItemsOf(t) = S
         /\ \A j, k \in DOMAIN t : j # k => t[j] # t[k]
<1> DEFINE n == Cardinality(S)
<1>1. n \in Nat
  BY FS_CardinalityType
<1>2. /\ t \in [1 .. n -> S]
      /\ \A j, k \in 1 .. n :
           j < k => Before(t[j], t[k], query) /\ ~Before(t[k], t[j], query)
  BY DEF Strictly
<1>3. DOMAIN t = 1 .. n /\ t \in Seq(S) /\ Len(t) = n
  BY <1>1, <1>2
<1>4. \A j, k \in 1 .. n : j # k => t[j] # t[k]
  <2> SUFFICES ASSUME NEW j \in 1 .. n, NEW k \in 1 .. n, j # k, t[j] = t[k]
               PROVE  FALSE
    OBVIOUS
  <2>1. CASE j < k
    BY <1>2, <2>1
  <2>2. CASE k < j
    BY <1>2, <2>2
  <2> QED
    BY <1>1, <2>1, <2>2
<1>5. t \in Injection(1 .. n, S)
  BY <1>2, <1>4 DEF Injection, IsInjective
<1>6. Cardinality(1 .. n) = n
  BY <1>1, FS_Interval
<1>7. t \in Surjection(1 .. n, S)
  BY <1>5, <1>6, FS_Injection
<1>8. ItemsOf(t) = S
  BY <1>2, <1>7 DEF Surjection, ItemsOf
<1> QED
  BY <1>1, <1>3, <1>4, <1>8

(* Its place is the number of those before it. *)
LEMMA PlaceCounts ==
  ASSUME NEW S, IsFiniteSet(S), NEW query, NEW t \in Strictly(S, query),
         NEW k \in 1 .. Cardinality(S)
  PROVE  Cardinality({y \in S : Before(y, t[k], query) /\ ~Before(t[k], y, query)}) = k - 1
<1> DEFINE n == Cardinality(S)
           L == {y \in S : Before(y, t[k], query) /\ ~Before(t[k], y, query)}
           f == [j \in 1 .. k - 1 |-> t[j]]
<1>1. /\ n \in Nat /\ DOMAIN t = 1 .. n /\ ItemsOf(t) = S
      /\ \A i, j \in 1 .. n : i # j => t[i] # t[j]
  BY StrictlyOnce
<1>2. /\ t \in [1 .. n -> S]
      /\ \A i, j \in 1 .. n :
           i < j => Before(t[i], t[j], query) /\ ~Before(t[j], t[i], query)
  BY <1>1 DEF Strictly
<1>3. 1 .. k - 1 \subseteq 1 .. n /\ k \in 1 .. n /\ k - 1 \in Nat
  BY <1>1
<1>4. \A j \in 1 .. k - 1 : t[j] \in L
  BY <1>2, <1>3
<1>5. ASSUME NEW y \in L
      PROVE  \E j \in 1 .. k - 1 : t[j] = y
  <2>1. PICK j \in 1 .. n : t[j] = y
    BY <1>1 DEF ItemsOf
  <2>2. ~(k < j) /\ j # k
    BY <1>2, <1>3, <1>5, <2>1
  <2> QED
    BY <1>1, <2>1, <2>2
<1>6. f \in [1 .. k - 1 -> L]
  BY <1>4
<1>7. f \in Surjection(1 .. k - 1, L)
  BY <1>5, <1>6 DEF Surjection
<1>8. f \in Injection(1 .. k - 1, L)
  BY <1>1, <1>3, <1>6 DEF Injection, IsInjective
<1>9. ExistsBijection(1 .. k - 1, L)
  BY <1>7, <1>8 DEF ExistsBijection, Bijection
<1>10. IsFiniteSet(1 .. k - 1) /\ Cardinality(1 .. k - 1) = k - 1
  BY <1>3, FS_Interval
<1> HIDE DEF L
<1>11. Cardinality(L) = k - 1
  BY <1>9, <1>10, FS_Bijection
<1> QED
  BY <1>11 DEF L

(* There is at most one such list. *)
LEMMA StrictlyUnique ==
  ASSUME NEW S, IsFiniteSet(S), NEW query,
         NEW t \in Strictly(S, query), NEW u \in Strictly(S, query)
  PROVE  t = u
<1>1. /\ Cardinality(S) \in Nat
      /\ t \in [1 .. Cardinality(S) -> S] /\ u \in [1 .. Cardinality(S) -> S]
      /\ ItemsOf(u) = S /\ DOMAIN u = 1 .. Cardinality(S)
  BY StrictlyOnce DEF Strictly
<1>2. ASSUME NEW k \in 1 .. Cardinality(S)
      PROVE  t[k] = u[k]
  <2>1. PICK m \in 1 .. Cardinality(S) : u[m] = t[k]
    BY <1>1 DEF ItemsOf
  <2> DEFINE L(x) == {y \in S : Before(y, x, query) /\ ~Before(x, y, query)}
  <2>2. Cardinality(L(t[k])) = k - 1
    BY PlaceCounts
  <2>3. Cardinality(L(u[m])) = m - 1
    BY PlaceCounts
  <2> HIDE DEF L
  <2>4. Cardinality(L(u[m])) = Cardinality(L(t[k]))
    BY <2>1
  <2> QED
    BY <2>1, <2>2, <2>3, <2>4
<1> QED
  BY <1>1, <1>2

(* Sorting what the sort tells apart leaves nothing open. *)
LEMMA SortedStrictly ==
  ASSUME NEW P, IsFiniteSet(P), NEW s, NEW S, S = {s[k] : k \in P},
         \A j, k \in P : j # k => s[j] # s[k],
         NEW query, NEW t \in Orderings(s, P, query),
         \A x, y \in S : x # y => (Before(x, y, query) <=> ~Before(y, x, query))
  PROVE  /\ IsFiniteSet(S)
         /\ Cardinality(S) = Cardinality(P)
         /\ t \in Strictly(S, query)
<1> DEFINE n == Cardinality(P)
           g == [k \in P |-> s[k]]
<1>1. g \in Bijection(P, S)
  BY DEF Bijection, Injection, Surjection, IsInjective
<1>2. IsFiniteSet(S) /\ Cardinality(S) = n /\ n \in Nat
  BY <1>1, FS_Bijection, FS_CardinalityType DEF ExistsBijection
<1>3. PICK f \in Orders(P) : t = [k \in 1 .. n |-> s[f[k]]]
  BY DEF Orderings, Arranged
<1>4. /\ DOMAIN f = 1 .. n
      /\ \A k \in 1 .. n : f[k] \in P
      /\ \A j, k \in 1 .. n : j # k => f[j] # f[k]
  BY OrderListsOnce DEF ItemsOf
<1>5. t \in [1 .. n -> S]
  BY <1>3, <1>4
<1>6. \A j, k \in 1 .. n : j # k => t[j] # t[k]
  BY <1>3, <1>4
<1>7. \A j, k \in 1 .. n :
         j < k => Before(t[j], t[k], query) \/ ~Before(t[k], t[j], query)
  BY <1>3 DEF Orderings
<1>8. ASSUME NEW j \in 1 .. n, NEW k \in 1 .. n, j < k
      PROVE  Before(t[j], t[k], query) /\ ~Before(t[k], t[j], query)
  <2>1. t[j] \in S /\ t[k] \in S /\ t[j] # t[k]
    BY <1>2, <1>5, <1>6, <1>8
  <2> QED
    BY <1>7, <1>8, <2>1
<1> QED
  BY <1>2, <1>5, <1>8 DEF Strictly
-----------------------------------------------------------------------------
(* The window of the first page, and of a page after one that left more,   *)
(* begins where the page before it ended.                                  *)
LEMMA WindowFollows ==
  ASSUME NEW total \in Nat, 2 * total <= MaxInt,
         NEW limit \in GoInt, NEW page_ \in GoInt,
         page_ = 1 \/ (page_ > 1 /\ limit > 0 /\ (page_ - 1) * limit < total)
  PROVE  LET w == GetPaginationResult(newPagination(limit, page_), total)
         IN /\ InList(w, total)
            /\ w.start = IF page_ = 1 THEN 0 ELSE (page_ - 1) * limit
            /\ page_ < w.pages => limit > 0 /\ page_ * limit < total /\ w.end = page_ * limit
            /\ page_ >= w.pages => w.end = total
<1> DEFINE p == newPagination(limit, page_)
           w == GetPaginationResult(p, total)
           offset == (page_ - 1) * limit
<1>1. limit \in Int /\ page_ \in Int
  BY DEF GoInt
<1>2. offset \in Int /\ (page_ = 1 => offset = 0) /\ (limit > 0 => 0 <= offset /\ offset <= total)
  <2>1. CASE page_ = 1
    BY <1>1, <2>1
  <2>2. CASE page_ > 1 /\ limit > 0 /\ offset < total
    <3>1. page_ - 1 \in Nat /\ limit \in Nat
      BY <1>1, <2>2
    <3>2. offset \in Nat
      BY <3>1
    <3> QED
      BY <2>2, <3>2
  <2> QED
    BY <2>1, <2>2
<1>3. offset \in GoInt
  <2>1. CASE page_ = 1
    BY <1>2, <2>1, MaxIntAssumption DEF GoInt
  <2>2. CASE limit > 0
    BY <1>2, <2>2, MaxIntAssumption DEF GoInt
  <2> QED
    BY <2>1, <2>2
<1>4. p.limit = limit /\ p.offset = offset
  BY <1>3, OffsetFits DEF newPagination
<1>5. InList(w, total)
  BY <1>3, WindowInList
<1>6. page_ * limit = offset + limit
  BY <1>1
<1> HIDE DEF p, offset
<1>7. CASE limit <= 0
  <2>1. w = Window(0, total, 1)
    BY <1>4, <1>7 DEF GetPaginationResult, Unpaged
  <2>2. page_ = 1
    BY <1>1, <1>7
  <2> HIDE DEF w
  <2>3. w.start = 0 /\ w.end = total /\ w.pages = 1
    BY <2>1 DEF Window
  <2> QED
    BY <1>5, <2>2, <2>3 DEF w, p
<1>8. CASE limit > 0
  <2>1. 0 <= offset /\ offset <= total /\ limit \in Nat \ {0}
    BY <1>1, <1>2, <1>8
  <2>2. ~Unpaged(p) /\ StartIndex(p, total) = offset
    BY <1>1, <1>2, <1>4, <1>8, <2>1 DEF Unpaged, StartIndex
  <2>3. Wrap(offset + limit) = offset + limit
    <3>1. CASE offset = 0
      BY <1>1, <3>1, WrapFits
    <3>2. CASE offset # 0
      <4>1. limit <= offset
        BY <1>1, <1>2, <1>8, <2>1, <3>2, OffsetOverLimit DEF offset
      <4>2. offset + limit \in GoInt
        BY <1>1, <1>2, <2>1, <4>1, MaxIntAssumption DEF GoInt
      <4> QED
        BY <4>2, WrapFits
    <3> QED
      BY <3>1, <3>2
  <2>4. w = Window(offset, Smaller(offset + limit, total), Quotient(total - 1, limit) + 1)
    BY <1>4, <2>2, <2>3 DEF GetPaginationResult
  <2> HIDE DEF w
  <2>5. /\ w.start = offset
        /\ w.end = Smaller(offset + limit, total)
        /\ w.pages = Quotient(total - 1, limit) + 1
    BY <2>4 DEF Window
  <2>6. CASE total = 0
    <3>1. 1 \div limit \in 0 .. 1
      BY <2>1, QuotientSmall
    <3>2. Quotient(total - 1, limit) = -(1 \div limit)
      BY <2>6 DEF Quotient
    <3>3. w.pages <= 1 /\ w.pages \in Int
      BY <2>5, <3>1, <3>2
    <3>4. page_ = 1
      BY <1>2, <2>1, <2>6 DEF offset
    <3>5. w.end = total /\ w.start = 0
      BY <1>1, <1>2, <1>8, <2>1, <2>5, <2>6 DEF Smaller
    <3> QED
      BY <1>5, <3>3, <3>4, <3>5 DEF w, p
  <2>7. CASE total # 0
    <3> DEFINE last == (total - 1) \div limit
    <3>1. last \in Nat /\ last * limit <= total - 1 /\ total - 1 < last * limit + limit
      BY <2>1, <2>7, DivisionBounds
    <3>2. w.pages = last + 1
      BY <2>1, <2>5, <2>7, PagesOf
    <3> HIDE DEF last
    <3>3. ASSUME page_ < w.pages
          PROVE  page_ * limit < total /\ w.end = page_ * limit
      <4>1. page_ <= last
        BY <1>1, <3>1, <3>2, <3>3
      <4>2. page_ \in Nat
        BY <1>1
      <4>3. page_ * limit <= last * limit
        BY <2>1, <3>1, <4>1, <4>2, TimesMonotone
      <4>4. page_ * limit \in Int /\ last * limit \in Int
        BY <1>1, <3>1
      <4>5. page_ * limit < total
        BY <3>1, <4>3, <4>4
      <4> QED
        BY <1>6, <2>5, <4>4, <4>5 DEF Smaller
    <3>4. ASSUME page_ >= w.pages
          PROVE  w.end = total
      <4>1. last + 1 <= page_ /\ page_ \in Nat /\ last + 1 \in Nat
        BY <1>1, <3>1, <3>2, <3>4
      <4>2. (last + 1) * limit <= page_ * limit
        BY <2>1, <4>1, TimesMonotone
      <4>3. (last + 1) * limit = last * limit + limit
        BY <2>1, <3>1
      <4>4. page_ * limit \in Int /\ last * limit \in Int
        BY <1>1, <3>1
      <4>5. total <= page_ * limit
        BY <1>1, <3>1, <4>2, <4>3, <4>4
      <4> QED
        BY <1>6, <2>5, <4>4, <4>5 DEF Smaller
    <3>5. w.start = IF page_ = 1 THEN 0 ELSE offset
      BY <1>2, <2>5
    <3>6. w.pages \in Int
      BY <3>1, <3>2
    <3> QED
      BY <1>1, <1>5, <1>8, <3>3, <3>4, <3>5, <3>6 DEF w, p, offset
  <2> QED
    BY <2>6, <2>7
<1> QED
  BY <1>1, <1>7, <1>8

(* The order of a listing is the same on all of its pages. *)
LEMMA OrderOfPages ==
  ASSUME NEW x, NEW y, NEW q, NEW p1, NEW p2
  PROVE  /\ Before(x, y, ParseQueryParameter(q, p1)) \in BOOLEAN
         /\ Before(x, y, ParseQueryParameter(q, p1)) = Before(x, y, ParseQueryParameter(q, p2))
<1> DEFINE a == ParseQueryParameter(q, p1)
           b == ParseQueryParameter(q, p2)
<1>1. /\ a.sortBy = b.sortBy /\ a.kind = b.kind
      /\ a.ascending = b.ascending /\ a.ascending \in BOOLEAN
  BY DEF ParseQueryParameter
<1> HIDE DEF a, b
<1>2. customCompare(x.name, y.name, TRUE) \in BOOLEAN
  BY DEF customCompare
<1>3. customCompare(x.name, y.name, a.ascending) \in BOOLEAN
  BY DEF customCompare
<1>4. Before(x, y, a) \in BOOLEAN
  <2>1. (Created(x) < Created(y)) \in BOOLEAN /\ (Created(x) > Created(y)) \in BOOLEAN
    OBVIOUS
  <2>2. CASE a.sortBy = "time" /\ a.kind = "charts" /\ a.ascending
    BY <2>1, <2>2 DEF Before
  <2>3. CASE a.sortBy = "time" /\ a.kind = "charts" /\ ~a.ascending
    BY <2>1, <2>3 DEF Before
  <2>4. CASE a.sortBy = "name"
    BY <1>3, <2>4 DEF Before
  <2>5. CASE a.sortBy # "name" /\ ~(a.sortBy = "time" /\ a.kind = "charts")
    BY <1>2, <2>5 DEF Before
  <2> QED
    BY <2>2, <2>3, <2>4, <2>5
<1>5. Before(x, y, a) = Before(x, y, b)
  BY <1>1 DEF Before
<1> QED
  BY <1>4, <1>5 DEF a, b

LEMMA StrictlyOfPages ==
  ASSUME NEW S, NEW q, NEW p1, NEW p2
  PROVE  Strictly(S, ParseQueryParameter(q, p1)) = Strictly(S, ParseQueryParameter(q, p2))
<1> DEFINE a == ParseQueryParameter(q, p1)
           b == ParseQueryParameter(q, p2)
<1>1. \A x, y : Before(x, y, a) = Before(x, y, b)
  BY OrderOfPages
<1> HIDE DEF a, b
<1>2. Strictly(S, a) = Strictly(S, b)
  BY <1>1 DEF Strictly
<1> QED
  BY <1>2 DEF a, b

(* What a client should find stays the same while nothing changes. *)
LEMMA SameExpected ==
  ASSUME UNCHANGED <<crs, cache, request>>
  PROVE  /\ Expected' = Expected
         /\ Named' = Named
         /\ Complete' = Complete
         /\ Ties' <=> Ties
<1>1. Expected' = Expected
  BY DEF Expected, Found
<1>2. Named' = Named
  BY DEF Named
<1>3. Complete' = Complete
  BY <1>1, StrictlyOfPages DEF Complete
<1>4. Ties' <=> Ties
  <2>1. \A x, y : Before(x, y, ParseQueryParameter(request, page')) =
                  Before(x, y, ParseQueryParameter(request, page))
    BY OrderOfPages
  <2> QED
    BY <1>1, <2>1 DEF Ties
<1> QED
  BY <1>1, <1>2, <1>3, <1>4

(* The sort tells apart what a client should find. *)
LEMMA ToldApart ==
  ASSUME ~Ties, NEW x \in Expected, NEW y \in Expected, x # y
  PROVE  LET query == ParseQueryParameter(request, page)
         IN Before(x, y, query) <=> ~Before(y, x, query)
<1> DEFINE query == ParseQueryParameter(request, page)
<1>1. Before(x, y, query) \in BOOLEAN /\ Before(y, x, query) \in BOOLEAN
  BY OrderOfPages
<1>2. Before(x, y, query) # Before(y, x, query)
  BY DEF Ties
<1> QED
  BY <1>1, <1>2

(* The filters keep what a client should find. *)
LEMMA FiltersFind ==
  ASSUME NEW c
  PROVE  Selected(c) /\ c.repo \in Named <=> Found(c)
<1>1. \A w : w \in ExtractUniqueKeywords(c) <=> \E v \in c.versions : w \in v.words
  BY DEF ExtractUniqueKeywords
<1> DEFINE ofType == \/ request.types = {}
                     \/ \E t \in request.types, v \in c.versions :
                          t \notin {"application", ""} /\ t \in v.words
                     \/ /\ "application" \in request.types
                        /\ \A v \in c.versions : FuyaoExtensionKeyword \notin v.words
<1>2. (request.types # {} => \E t \in request.types : HasType(c, t)) <=> ofType
  <2>1. \A t : HasType(c, t) <=>
          \/ t = "application" /\ \A v \in c.versions : FuyaoExtensionKeyword \notin v.words
          \/ t \notin {"application", ""} /\ \E v \in c.versions : t \in v.words
    BY <1>1 DEF HasType
  <2> QED
    BY <2>1
<1>3. (request.scene # {} => ExtractUniqueKeywords(c) \cap request.scene # {})
        <=> (request.scene = {} \/ \E v \in c.versions : v.words \cap request.scene # {})
  BY <1>1
<1>4. Selected(c) <=>
        /\ Within(Lower(request.chart), Lower(c.name))
        /\ request.types # {} => \E t \in request.types : HasType(c, t)
        /\ request.scene # {} => ExtractUniqueKeywords(c) \cap request.scene # {}
  BY DEF Selected
<1>5. Found(c) <=>
        /\ c.repo \in Named
        /\ Within(Lower(request.chart), Lower(c.name))
        /\ ofType
        /\ request.scene = {} \/ \E v \in c.versions : v.words \cap request.scene # {}
  BY DEF Found, Named
<1> HIDE DEF ofType
<1> QED
  BY <1>2, <1>3, <1>4, <1>5
(* A client looks for finitely many things. *)
LEMMA ExpectedFinite ==
  ASSUME TypeOK, OwnCharts
  PROVE  IsFiniteSet(Expected)
<1>1. IsFiniteSet(crs) /\ IsFiniteSet(Repos)
  BY ReposFinite, CatalogsAssumption
<1>2. CASE request.kind = "repos"
  <2> DEFINE P == {r \in crs : Within(Lower(request.chart), r)}
             f == [r \in P |-> RepoItem(r)]
  <2>1. IsFiniteSet(P)
    BY <1>1, FS_Subset
  <2>2. Expected = {RepoItem(r) : r \in P}
    BY <1>2 DEF Expected
  <2> HIDE DEF P
  <2>3. f \in Surjection(P, Expected)
    BY <2>2 DEF Surjection
  <2> QED
    BY <2>1, <2>3, FS_Surjection
<1>3. CASE request.kind # "repos"
  <2> DEFINE indexes == {cache[r] : r \in Repos}
             f == [r \in Repos |-> cache[r]]
  <2>1. f \in Surjection(Repos, indexes)
    BY DEF Surjection
  <2>2. IsFiniteSet(indexes)
    BY <1>1, <2>1, FS_Surjection
  <2>3. \A i \in indexes : IsFiniteSet(i)
    BY CatalogsAssumption DEF OwnCharts
  <2>4. IsFiniteSet(UNION indexes)
    BY <2>2, <2>3, FS_UNION
  <2>5. Expected \subseteq UNION indexes
    BY <1>3 DEF Expected
  <2> QED
    BY <2>4, <2>5, FS_Subset
<1> QED
  BY <1>2, <1>3

(* A beginning of a list and what follows it make a longer beginning. *)
LEMMA BeginningGrows ==
  ASSUME NEW S, NEW t \in Seq(S), NEW k \in 0 .. Len(t), NEW m \in k .. Len(t)
  PROVE  SubSeq(t, 1, k) \o SubSeq(t, k + 1, m) = SubSeq(t, 1, m)
<1>1. 1 \in 1 .. Len(t) + 1 /\ k \in 1 - 1 .. Len(t)
  OBVIOUS
<1> QED
  BY <1>1, ConcatAdjacentSubSeq

(* The page of a client that has seen the first ones is the next of them. *)
LEMMA NextOfTheList ==
  ASSUME TypeOK, OwnCharts, ~Ties, Walking, stage \in {"asking", "reading"},
         NEW P, IsFiniteSet(P), 2 * Cardinality(P) <= MaxInt,
         NEW s, \A j, k \in P : j # k => s[j] # s[k],
         Expected = {s[k] : k \in P},
         AnswerPage(s, P)
  PROVE  /\ stage' = "answered"
         /\ Asked >= 1
         /\ IF Asked < answer'.pages
              THEN /\ Limit > 0
                   /\ Asked * Limit < Cardinality(Expected)
                   /\ \E t \in Complete : walked' = SubSeq(t, 1, Asked * Limit)
              ELSE walked' \in Complete
<1> DEFINE n == Cardinality(P)
           query == ParseQueryParameter(request, page)
           w == GetPaginationResult(newPagination(Limit, Asked), n)
           before == IF Asked = 1 THEN 0 ELSE (Asked - 1) * Limit
<1>1. /\ Limit \in GoInt /\ Asked \in GoInt
      /\ query.pagination = newPagination(Limit, Asked)
  BY ParametersTyped
<1>2. Limit \in Int /\ Asked \in Int /\ n \in Nat /\ n <= MaxInt
  BY <1>1, FS_CardinalityType, MaxIntAssumption DEF GoInt
<1>3. \A x, y \in Expected : x # y => (Before(x, y, query) <=> ~Before(y, x, query))
  BY ToldApart
<1>4. IsFiniteSet(Expected)
  BY ExpectedFinite
<1>5. Cardinality(Expected) = n
  <2> DEFINE g == [k \in P |-> s[k]]
  <2>1. g \in Bijection(P, Expected)
    BY DEF Bijection, Injection, Surjection, IsInjective
  <2> QED
    BY <2>1, FS_Bijection DEF ExistsBijection
<1>6. Asked = 1 \/ (Asked > 1 /\ Limit > 0 /\ (Asked - 1) * Limit < n)
  BY <1>5 DEF Walking, Seen
<1>7. /\ InList(w, n)
      /\ w.start = before
      /\ Asked < w.pages => Limit > 0 /\ Asked * Limit < n /\ w.end = Asked * Limit
      /\ Asked >= w.pages => w.end = n
  BY <1>1, <1>2, <1>6, WindowFollows
<1>8. w.start \in Int /\ w.end \in Int /\ w.pages \in Int
  BY <1>1, <1>2, SizesAssumption, WindowTyped
<1>9. PICK t \in Orderings(s, P, query) :
        /\ answer' = pageResult(t, w)
        /\ walked' = walked \o answer'.items
        /\ stage' = "answered"
  BY <1>1, <1>7, Zenon DEF AnswerPage
<1>10. t \in Strictly(Expected, query)
  BY <1>3, SortedStrictly
<1>11. t \in Complete /\ t \in Seq(Expected) /\ Len(t) = n
  BY <1>4, <1>5, <1>10, StrictlyOnce DEF Complete
<1>12. walked = SubSeq(t, 1, before)
  <2>1. CASE Asked = 1
    <3>1. walked = <<>>
      BY <2>1 DEF Walking
    <3> QED
      BY <2>1, <3>1, SubSeqEmpty
  <2>2. CASE Asked # 1
    <3>1. PICK u \in Complete : walked = SubSeq(u, 1, (Asked - 1) * Limit)
      BY <2>2 DEF Walking, Seen
    <3>2. u = t
      BY <1>4, <1>10, <3>1, StrictlyUnique DEF Complete
    <3> QED
      BY <2>2, <3>1, <3>2
  <2> QED
    BY <2>1, <2>2
<1>13. answer'.items = SubSeq(t, w.start + 1, w.end) /\ answer'.pages = w.pages
  BY <1>9 DEF pageResult
<1> HIDE DEF w, before, query
<1>14. walked' = SubSeq(t, 1, w.end)
  <2>1. w.start \in 0 .. Len(t) /\ w.end \in w.start .. Len(t)
    BY <1>2, <1>7, <1>8, <1>11 DEF InList
  <2>2. SubSeq(t, 1, w.start) \o SubSeq(t, w.start + 1, w.end) = SubSeq(t, 1, w.end)
    BY <1>11, <2>1, BeginningGrows
  <2> QED
    BY <1>7, <1>9, <1>12, <1>13, <2>2
<1>15. SubSeq(t, 1, n) = t
  BY <1>11, SubSeqFull
<1>16. Asked >= 1
  BY <1>2, <1>6
<1>17. CASE Asked < w.pages
  BY <1>5, <1>7, <1>9, <1>11, <1>13, <1>14, <1>16, <1>17
<1>18. CASE Asked >= w.pages
  <2>1. walked' \in Complete
    BY <1>7, <1>11, <1>14, <1>15, <1>18
  <2>2. ~(Asked < answer'.pages)
    BY <1>2, <1>8, <1>13, <1>18
  <2> QED
    BY <1>9, <1>16, <2>1, <2>2, Zenon
<1>19. Asked < w.pages \/ Asked >= w.pages
  BY <1>2, <1>8
<1> QED
  BY <1>17, <1>18, <1>19, Zenon
-----------------------------------------------------------------------------
(* The pages of an undisturbed walk, one action at a time. *)
LEMMA InitWalkInv == Init => WalkInv
<1> SUFFICES ASSUME Init, quiet PROVE Gathering /\ Walking
  BY DEF WalkInv
<1>1. Asked = 1 /\ walked = <<>> /\ stage = "asking"
  BY DEF Init, Asked
<1> QED
  BY <1>1 DEF Gathering, Walking

LEMMA ListReposWalks ==
  ASSUME QueryInv, WalkInv, ListRepos
  PROVE  WalkInv'
<1>1. /\ TypeOK
      /\ stage = "asking" /\ stage' = "reading"
      /\ list' = <<>>
      /\ todo' \in IF request.repos = <<>> THEN Orders(crs) ELSE filterSelectedRepositories
      /\ UNCHANGED <<crs, cache, request, page, answer, walked, quiet>>
  BY DEF QueryInv, ListRepos, catalog
<1>2. Expected' = Expected /\ Named' = Named /\ Complete' = Complete /\ (Ties' <=> Ties)
  BY <1>1, SameExpected
<1> SUFFICES ASSUME quiet, ~Ties
             PROVE  Gathering' /\ Walking'
  BY <1>1, <1>2 DEF WalkInv
<1>3. /\ ItemsOf(todo') = Named
      /\ \A j, k \in DOMAIN todo' : j # k => todo'[j] # todo'[k]
  <2>1. \A j, k \in DOMAIN request.repos : j # k => request.repos[j] # request.repos[k]
    BY DEF Ties
  <2> QED
    BY <1>1, <2>1, ReposToRead
<1>4. Gathering'
  <2>1. DOMAIN list' = {} /\ ItemsOf(list') = {}
    BY <1>1 DEF ItemsOf
  <2>2. Once'
    BY <1>3, <2>1 DEF Once
  <2>3. Coming' = UNION {cache'[r] : r \in Named'}
    BY <1>1, <1>2, <1>3, <2>1 DEF Coming
  <2> QED
    BY <2>2, <2>3 DEF Gathering
<1>5. Walking'
  <2>1. Walking
    BY DEF WalkInv
  <2>2. Asked' = Asked /\ Limit' = Limit
    BY <1>1 DEF Asked, Limit
  <2> QED
    BY <1>1, <1>2, <2>1, <2>2 DEF Walking, Seen
<1> QED
  BY <1>4, <1>5

(* Reading a repository moves its charts from those to come to those read. *)
LEMMA ReadRepoGathers ==
  ASSUME TypeOK, OwnCharts, Once, ReadRepo
  PROVE  /\ Once'
         /\ Coming' = Coming
         /\ ItemsOf(todo') \subseteq ItemsOf(todo)
         /\ Head(todo) \in ItemsOf(todo) /\ Head(todo) \in Repos
         /\ ItemsOf(list') = ItemsOf(list) \cup cache[Head(todo)]
<1> DEFINE r == Head(todo)
           s == SomeOrder(cache[r])
<1>1. /\ TypeOK /\ OwnCharts
      /\ todo # <<>>
      /\ list' = list \o s
      /\ todo' = Tail(todo)
      /\ UNCHANGED <<crs, cache>>
  BY DEF ReadRepo, catalog
<1>3. /\ \A j, k \in DOMAIN todo : j # k => todo[j] # todo[k]
      /\ \A j, k \in DOMAIN list : j # k => list[j] # list[k]
      /\ \A k \in DOMAIN list : list[k].repo \notin ItemsOf(todo)
  BY DEF Once
<1>4. /\ todo \in Seq(Repos) /\ list \in Seq(Items)
      /\ r \in Repos
      /\ r = todo[1]
      /\ Len(todo) \in Nat \ {0}
      /\ Len(todo') = Len(todo) - 1
      /\ DOMAIN todo = 1 .. Len(todo)
      /\ DOMAIN todo' = 1 .. Len(todo) - 1
      /\ \A k \in DOMAIN todo' : todo'[k] = todo[k + 1]
  <2>1. todo \in Seq(Repos) /\ list \in Seq(Items)
    BY <1>1 DEF TypeOK
  <2> QED
    BY <1>1, <2>1, HeadTailProperties
<1>5. ItemsOf(todo) = {r} \cup ItemsOf(todo')
  <2>1. ASSUME NEW q \in ItemsOf(todo), q # r
        PROVE  q \in ItemsOf(todo')
    <3>1. PICK k \in 1 .. Len(todo) : q = todo[k]
      BY <1>4 DEF ItemsOf
    <3>2. k - 1 \in DOMAIN todo' /\ todo'[k - 1] = todo[k]
      BY <1>4, <2>1, <3>1
    <3> QED
      BY <3>1, <3>2 DEF ItemsOf
  <2>2. r \in ItemsOf(todo)
    BY <1>4 DEF ItemsOf
  <2>3. ASSUME NEW q \in ItemsOf(todo')
        PROVE  q \in ItemsOf(todo)
    <3>1. PICK k \in DOMAIN todo' : q = todo'[k]
      BY DEF ItemsOf
    <3>2. k + 1 \in DOMAIN todo /\ todo[k + 1] = q
      BY <1>4, <3>1
    <3> QED
      BY <3>2 DEF ItemsOf
  <2> QED
    BY <2>1, <2>2, <2>3
<1>6. r \notin ItemsOf(todo')
  <2> SUFFICES ASSUME NEW k \in DOMAIN todo', todo'[k] = r
               PROVE  FALSE
    BY DEF ItemsOf
  <2>1. k + 1 \in DOMAIN todo /\ 1 \in DOMAIN todo /\ k + 1 # 1
    BY <1>4
  <2>2. todo[k + 1] # todo[1]
    BY <1>3, <2>1
  <2> QED
    BY <1>4, <2>2
<1>7. \A j, k \in DOMAIN todo' : j # k => todo'[j] # todo'[k]
  <2> SUFFICES ASSUME NEW j \in DOMAIN todo', NEW k \in DOMAIN todo', j # k
               PROVE  todo'[j] # todo'[k]
    OBVIOUS
  <2>1. j + 1 \in DOMAIN todo /\ k + 1 \in DOMAIN todo /\ j + 1 # k + 1
    BY <1>4
  <2>2. todo[j + 1] # todo[k + 1]
    BY <1>3, <2>1
  <2> QED
    BY <1>4, <2>2
<1>8. /\ cache[r] \subseteq Items
      /\ s \in Seq(cache[r])
      /\ ItemsOf(s) = cache[r]
      /\ \A j, k \in DOMAIN s : j # k => s[j] # s[k]
      /\ \A c \in cache[r] : c.repo = r
  BY <1>1, <1>4, IndexRead
<1> HIDE DEF s, r
<1>9. /\ s \in Seq(Items)
      /\ DOMAIN list = 1 .. Len(list) /\ Len(list) \in Nat
      /\ DOMAIN s = 1 .. Len(s) /\ Len(s) \in Nat
      /\ DOMAIN list' = 1 .. Len(list) + Len(s)
      /\ \A k \in DOMAIN list' : list'[k] = IF k <= Len(list) THEN list[k] ELSE s[k - Len(list)]
  <2>1. s \in Seq(Items)
    BY <1>8, SeqMonotonic
  <2> QED
    BY <1>1, <1>4, <2>1, ConcatProperties
<1>10. \A k \in DOMAIN s : s[k].repo = r /\ s[k] \in cache[r]
  BY <1>8 DEF ItemsOf
<1>11. ItemsOf(list') = ItemsOf(list) \cup cache[r]
  <2>1. ItemsOf(list') \subseteq ItemsOf(list) \cup cache[r]
    BY <1>9, <1>10 DEF ItemsOf
  <2>2. ASSUME NEW c \in ItemsOf(list)
        PROVE  c \in ItemsOf(list')
    BY <1>9 DEF ItemsOf
  <2>3. ASSUME NEW c \in cache[r]
        PROVE  c \in ItemsOf(list')
    <3>1. PICK k \in DOMAIN s : s[k] = c
      BY <1>8 DEF ItemsOf
    <3>2. Len(list) + k \in DOMAIN list' /\ list'[Len(list) + k] = c
      BY <1>9, <3>1
    <3> QED
      BY <3>2 DEF ItemsOf
  <2> QED
    BY <2>1, <2>2, <2>3
<1>12. \A j, k \in DOMAIN list' : j # k => list'[j] # list'[k]
  <2> SUFFICES ASSUME NEW j \in DOMAIN list', NEW k \in DOMAIN list', j < k
               PROVE  list'[j] # list'[k]
    BY <1>9
  <2>1. CASE k <= Len(list)
    BY <1>3, <1>9, <2>1
  <2>2. CASE j > Len(list)
    <3>1. j - Len(list) \in DOMAIN s /\ k - Len(list) \in DOMAIN s
      BY <1>9, <2>2
    <3> QED
      BY <1>8, <1>9, <2>2, <3>1
  <2>3. CASE j <= Len(list) /\ k > Len(list)
    <3>1. k - Len(list) \in DOMAIN s /\ j \in DOMAIN list
      BY <1>9, <2>3
    <3>2. list'[k].repo = r /\ list'[j].repo \notin ItemsOf(todo)
      BY <1>3, <1>9, <1>10, <2>3, <3>1
    <3> QED
      BY <1>5, <3>2
  <2> QED
    BY <1>9, <2>1, <2>2, <2>3
<1>13. \A k \in DOMAIN list' : list'[k].repo \notin ItemsOf(todo')
  <2> SUFFICES ASSUME NEW k \in DOMAIN list'
               PROVE  list'[k].repo \notin ItemsOf(todo')
    OBVIOUS
  <2>1. CASE k <= Len(list)
    BY <1>3, <1>5, <1>9, <2>1
  <2>2. CASE k > Len(list)
    <3>1. k - Len(list) \in DOMAIN s
      BY <1>9, <2>2
    <3> QED
      BY <1>6, <1>9, <1>10, <2>2, <3>1
  <2> QED
    BY <1>9, <2>1, <2>2
<1>14. Coming' = Coming
  BY <1>1, <1>5, <1>11 DEF Coming
<1>15. Once'
  BY <1>7, <1>12, <1>13 DEF Once
<1> QED
  BY <1>4, <1>5, <1>11, <1>14, <1>15 DEF r

LEMMA ReadRepoWalks ==
  ASSUME QueryInv, WalkInv, ReadRepo
  PROVE  WalkInv'
<1>1. /\ TypeOK /\ OwnCharts
      /\ stage = "reading"
      /\ UNCHANGED <<crs, cache, request, page, stage, answer, walked, quiet>>
  BY DEF QueryInv, ReadRepo, catalog, history
<1>2. Expected' = Expected /\ Named' = Named /\ Complete' = Complete /\ (Ties' <=> Ties)
  BY <1>1, SameExpected
<1> SUFFICES ASSUME quiet, ~Ties
             PROVE  Gathering' /\ Walking'
  BY <1>1, <1>2 DEF WalkInv
<1>3. Once /\ Coming = UNION {cache[r] : r \in Named} /\ Walking
  BY <1>1 DEF WalkInv, Gathering
<1>4. Once' /\ Coming' = Coming
  BY <1>1, <1>3, ReadRepoGathers
<1>5. Gathering'
  BY <1>1, <1>2, <1>3, <1>4 DEF Gathering
<1>6. Walking'
  <2>1. Asked' = Asked /\ Limit' = Limit
    BY <1>1 DEF Asked, Limit
  <2> QED
    BY <1>1, <1>2, <1>3, <2>1 DEF Walking, Seen
<1> QED
  BY <1>5, <1>6

LEMMA RefuseOrFailWalks ==
  ASSUME WalkInv, Refuse \/ Fail
  PROVE  WalkInv'
<1>1. /\ stage' \in {"refused", "failed"}
      /\ UNCHANGED <<crs, cache, request, page, quiet>>
  BY DEF Refuse, Fail, catalog, history
<1>2. (Ties' <=> Ties) /\ Asked' = Asked
  BY <1>1, SameExpected DEF Asked
<1> QED
  BY <1>1, <1>2 DEF WalkInv, Gathering, Walking

LEMMA GetLatestChartsWalks ==
  ASSUME QueryInv, WalkInv, GetLatestCharts
  PROVE  WalkInv'
<1> DEFINE P == filterChartVersionSlice
<1>1. /\ TypeOK /\ ListFits /\ OwnCharts
      /\ stage = "reading" /\ todo = <<>> /\ request.kind = "charts"
      /\ AnswerPage(list, P)
      /\ UNCHANGED <<crs, cache, request, page, quiet>>
  BY DEF QueryInv, ReadRecently, GetLatestCharts, catalog
<1>2. Expected' = Expected /\ Complete' = Complete /\ (Ties' <=> Ties)
  BY <1>1, SameExpected
<1> SUFFICES ASSUME quiet, ~Ties
             PROVE  Gathering' /\ Walking'
  BY <1>1, <1>2 DEF WalkInv
<1>3. /\ Walking
      /\ \A j, k \in DOMAIN list : j # k => list[j] # list[k]
      /\ ItemsOf(list) = UNION {cache[r] : r \in Named}
  <2>1. ItemsOf(todo) = {}
    BY <1>1 DEF ItemsOf
  <2> QED
    BY <1>1, <2>1 DEF WalkInv, Gathering, Once, Coming
<1>4. list \in Seq(Items) /\ Len(list) \in Nat
  BY <1>1 DEF TypeOK
<1>5. P = {k \in DOMAIN list : Selected(list[k])}
  BY DEF filterChartVersionSlice
<1>6. IsFiniteSet(P) /\ Cardinality(P) \in Nat /\ Cardinality(P) <= Len(list)
  BY <1>4, <1>5, PlacesFinite
<1>7. 2 * Cardinality(P) <= MaxInt
  <2>1. Len(todo) * MaxCharts \in Nat
    BY <1>1, CatalogsAssumption DEF TypeOK
  <2> QED
    BY <1>1, <1>4, <1>6, <2>1, MaxIntAssumption DEF ListFits
<1>8. \A r \in Repos : \A c \in cache[r] : c.repo = r
  BY <1>1, CatalogsAssumption DEF OwnCharts
<1>9. Named \subseteq Repos
  BY <1>1 DEF Named, TypeOK
<1>10. Expected = {list[k] : k \in P}
  <2>1. Expected = {c \in UNION {cache[r] : r \in Repos} : Found(c)}
    BY <1>1 DEF Expected
  <2>2. ASSUME NEW c \in Expected
        PROVE  c \in {list[k] : k \in P}
    <3>1. PICK r \in Repos : c \in cache[r]
      BY <2>1
    <3>2. Selected(c) /\ r \in Named
      BY <1>8, <2>1, <3>1, FiltersFind
    <3>3. c \in ItemsOf(list)
      BY <1>3, <3>1, <3>2
    <3>4. PICK k \in DOMAIN list : list[k] = c
      BY <3>3 DEF ItemsOf
    <3> QED
      BY <1>5, <3>2, <3>4
  <2>3. ASSUME NEW k \in P
        PROVE  list[k] \in Expected
    <3>1. list[k] \in ItemsOf(list) /\ Selected(list[k])
      BY <1>5 DEF ItemsOf
    <3>2. PICK r \in Named : list[k] \in cache[r]
      BY <1>3, <3>1
    <3>3. list[k].repo = r
      BY <1>8, <1>9, <3>2
    <3>4. Found(list[k])
      BY <3>1, <3>2, <3>3, FiltersFind
    <3> QED
      BY <1>9, <2>1, <3>2, <3>4
  <2> QED
    BY <2>2, <2>3
<1>11. \A j, k \in P : j # k => list[j] # list[k]
  BY <1>3, <1>5
<1> HIDE DEF P
<1>12. /\ stage' = "answered"
       /\ Asked >= 1
       /\ IF Asked < answer'.pages
            THEN /\ Limit > 0
                 /\ Asked * Limit < Cardinality(Expected)
                 /\ \E t \in Complete : walked' = SubSeq(t, 1, Asked * Limit)
            ELSE walked' \in Complete
  BY <1>1, <1>3, <1>6, <1>7, <1>10, <1>11, NextOfTheList
<1>13. Asked' = Asked /\ Limit' = Limit
  BY <1>1 DEF Asked, Limit
<1> QED
  BY <1>2, <1>12, <1>13 DEF Gathering, Walking, Seen

LEMMA ListRepoWalks ==
  ASSUME QueryInv, WalkInv, ListRepo
  PROVE  WalkInv'
<1> DEFINE P == {r \in crs : Within(Lower(request.chart), r)}
           s == [r \in crs |-> RepoItem(r)]
<1>1. /\ TypeOK /\ OwnCharts
      /\ stage = "asking" /\ request.kind = "repos"
      /\ AnswerPage(s, P)
      /\ UNCHANGED <<crs, cache, request, page, quiet>>
  BY DEF QueryInv, ListRepo, catalog
<1>2. Expected' = Expected /\ Complete' = Complete /\ (Ties' <=> Ties)
  BY <1>1, SameExpected
<1> SUFFICES ASSUME quiet, ~Ties
             PROVE  Gathering' /\ Walking'
  BY <1>1, <1>2 DEF WalkInv
<1>3. Walking
  BY DEF WalkInv
<1>4. /\ IsFiniteSet(crs)
      /\ Cardinality(crs) \in Nat
      /\ Cardinality(Repos) \in Nat
      /\ Cardinality(crs) <= Cardinality(Repos)
  BY <1>1, ReposFinite
<1>5. IsFiniteSet(P) /\ Cardinality(P) \in Nat /\ Cardinality(P) <= Cardinality(crs)
  BY <1>4, FS_Subset, FS_CardinalityType
<1>6. 2 * Cardinality(P) <= MaxInt
  <2>1. 2 * Cardinality(Repos) <= MaxInt
    BY SizesAssumption
  <2> HIDE DEF P
  <2> QED
    BY <1>4, <1>5, <2>1, MaxIntAssumption
<1>7. \A j, k \in P : j # k => s[j] # s[k]
  BY DEF RepoItem
<1>8. Expected = {s[k] : k \in P}
  <2>1. Expected = {RepoItem(r) : r \in P}
    BY <1>1 DEF Expected
  <2>2. \A k \in P : s[k] = RepoItem(k)
    OBVIOUS
  <2> HIDE DEF s, P
  <2> QED
    BY <2>1, <2>2
<1> HIDE DEF s, P
<1>9. /\ stage' = "answered"
      /\ Asked >= 1
      /\ IF Asked < answer'.pages
           THEN /\ Limit > 0
                /\ Asked * Limit < Cardinality(Expected)
                /\ \E t \in Complete : walked' = SubSeq(t, 1, Asked * Limit)
           ELSE walked' \in Complete
  BY <1>1, <1>3, <1>5, <1>6, <1>7, <1>8, NextOfTheList
<1>10. Asked' = Asked /\ Limit' = Limit
  BY <1>1 DEF Asked, Limit
<1> QED
  BY <1>2, <1>9, <1>10 DEF Gathering, Walking, Seen

LEMMA NextPageWalks ==
  ASSUME QueryInv, WalkInv, NextPage
  PROVE  WalkInv'
<1>1. /\ TypeOK
      /\ stage = "answered" /\ stage' = "asking"
      /\ Asked < answer.pages
      /\ page' = Asked + 1
      /\ UNCHANGED <<crs, cache, request, walked, quiet>>
  BY DEF QueryInv, NextPage, catalog, history, Asked
<1>2. Expected' = Expected /\ Complete' = Complete /\ (Ties' <=> Ties)
  BY <1>1, SameExpected
<1> SUFFICES ASSUME quiet, ~Ties
             PROVE  Gathering' /\ Walking'
  BY <1>1, <1>2 DEF WalkInv
<1>3. Asked >= 1 /\ Seen(Asked * Limit)
  BY <1>1 DEF WalkInv, Walking
<1>4. Asked \in Int
  BY <1>1, ParametersTyped DEF GoInt
<1>5. Asked' = Asked + 1 /\ Limit' = Limit
  <2>1. page' # NoNumber
    BY <1>1, <1>4, NoNumberAssumption
  <2> QED
    BY <1>1, <2>1 DEF Asked, Limit, Parsed
<1>6. Asked' >= 1 /\ Asked' > 1 /\ Asked' - 1 = Asked
  BY <1>3, <1>4, <1>5
<1>7. Limit > 0 /\ Asked * Limit < Cardinality(Expected)
      /\ \E t \in Complete : walked = SubSeq(t, 1, Asked * Limit)
  BY <1>3 DEF Seen
<1> QED
  BY <1>1, <1>2, <1>5, <1>6, <1>7 DEF Gathering, Walking, Seen

LEMMA LastPageWalks ==
  ASSUME QueryInv, WalkInv, LastPage
  PROVE  WalkInv'
<1>1. /\ TypeOK
      /\ stage = "answered" /\ stage' = "done"
      /\ Asked >= answer.pages
      /\ UNCHANGED <<crs, cache, request, page, walked, quiet>>
  BY DEF QueryInv, LastPage, catalog, history, Asked
<1>2. Complete' = Complete /\ (Ties' <=> Ties) /\ Asked' = Asked
  BY <1>1, SameExpected DEF Asked
<1>3. Asked \in Int /\ answer.pages \in Int
  BY <1>1, ParametersTyped DEF GoInt, TypeOK
<1>4. ~(Asked < answer.pages)
  BY <1>1, <1>3
<1> QED
  BY <1>1, <1>2, <1>4 DEF WalkInv, Gathering, Walking

(* Once something has changed the client may have missed it. *)
LEMMA ChangeWalks ==
  ASSUME NEW r \in Repos, StoreIndex(r) \/ ChangeRepo(r)
  PROVE  WalkInv'
BY DEF StoreIndex, ChangeRepo, Change, WalkInv

LEMMA StutterWalks ==
  ASSUME WalkInv, UNCHANGED vars
  PROVE  WalkInv'
<1>1. UNCHANGED <<crs, cache, request, page, stage, todo, list, answer, walked, quiet>>
  BY DEF vars, catalog, history
<1>2. /\ Expected' = Expected /\ Named' = Named /\ Complete' = Complete /\ (Ties' <=> Ties)
      /\ Asked' = Asked /\ Limit' = Limit
  BY <1>1, SameExpected DEF Asked, Limit
<1>3. (Gathering' <=> Gathering) /\ (Walking' <=> Walking)
  BY <1>1, <1>2 DEF Gathering, Once, Coming, Walking, Seen
<1> QED
  BY <1>1, <1>2, <1>3 DEF WalkInv

LEMMA WalkInvariance == Spec => []WalkInv
<1>1. Init => WalkInv
  BY InitWalkInv
<1>2. QueryInv /\ WalkInv /\ [Next]_vars => WalkInv'
  <2> SUFFICES ASSUME QueryInv, WalkInv, [Next]_vars
               PROVE  WalkInv'
    OBVIOUS
  <2>1. CASE ListRepos
    BY <2>1, ListReposWalks
  <2>2. CASE ReadRepo
    BY <2>2, ReadRepoWalks
  <2>3. CASE Refuse \/ Fail
    BY <2>3, RefuseOrFailWalks
  <2>4. CASE GetLatestCharts
    BY <2>4, GetLatestChartsWalks
  <2>5. CASE ListRepo
    BY <2>5, ListRepoWalks
  <2>6. CASE NextPage
    BY <2>6, NextPageWalks
  <2>7. CASE LastPage
    BY <2>7, LastPageWalks
  <2>8. CASE \E r \in Repos : StoreIndex(r) \/ ChangeRepo(r)
    BY <2>8, ChangeWalks
  <2>9. CASE UNCHANGED vars
    BY <2>9, StutterWalks
  <2> QED
    BY <2>1, <2>2, <2>3, <2>4, <2>5, <2>6, <2>7, <2>8, <2>9 DEF Next
<1> QED
  BY <1>1, <1>2, QueryInvariance, PTL DEF Spec

(* A client that walks from the first page to the last, while nothing      *)
(* changes, has seen what its filters describe, once and in the order it   *)
(* asked for, whatever the size of a page: filterChartVersionSlice,        *)
(* sortChartVersionSlice and GetPaginationResult agree from page to page,  *)
(* though each page is gathered and sorted anew.                           *)
THEOREM WalksSeeAll == Spec => []PagesCover
<1>1. QueryInv /\ WalkInv => PagesCover
  <2> SUFFICES ASSUME QueryInv, WalkInv, stage = "done", quiet, ~Ties
               PROVE  /\ ItemsOf(walked) = Expected
                      /\ Len(walked) = Cardinality(Expected)
                      /\ \A j, k \in DOMAIN walked :
                           j < k => Before(walked[j], walked[k], ParseQueryParameter(request, page))
    BY DEF PagesCover
  <2>1. IsFiniteSet(Expected)
    BY ExpectedFinite DEF QueryInv
  <2>2. walked \in Strictly(Expected, ParseQueryParameter(request, page))
    BY DEF WalkInv, Walking, Complete
  <2>3. ItemsOf(walked) = Expected /\ Len(walked) = Cardinality(Expected)
    BY <2>1, <2>2, StrictlyOnce
  <2> QED
    BY <2>2, <2>3 DEF Strictly
<1> QED
  BY <1>1, QueryInvariance, WalkInvariance, PTL
-----------------------------------------------------------------------------
(* Walks beside additions. *)

\* What a list gains only moves its elements further back.
LEMMA AheadGrows ==
  ASSUME NEW S, NEW T, S \subseteq T, IsFiniteSet(T), NEW p \in Int, NEW limit \in Int,
         NEW M, NEW N, N \subseteq M, NEW q, NEW p1, NEW p2,
         Ahead(S, p, limit, M, ParseQueryParameter(q, p1))
  PROVE  Ahead(T, p, limit, N, ParseQueryParameter(q, p2))
<1> DEFINE a == ParseQueryParameter(q, p1)
           b == ParseQueryParameter(q, p2)
<1>1. \A x, y : Before(x, y, a) = Before(x, y, b)
  BY OrderOfPages
<1>2. Ahead(S, p, limit, M, a)
  OBVIOUS
<1> HIDE DEF a, b
<1>3. p * limit \in Int
  OBVIOUS
<1>4. Cardinality(S) <= Cardinality(T) /\ Cardinality(S) \in Nat /\ Cardinality(T) \in Nat
  BY FS_Subset, FS_CardinalityType
<1>5. p = 0 \/ (limit > 0 /\ p * limit < Cardinality(T))
  BY <1>2, <1>3, <1>4 DEF Ahead
<1>6. ASSUME NEW x \in N
      PROVE  x \in T /\ p * limit <= Cardinality(Earlier(T, x, b))
  <2>1. x \in S /\ p * limit <= Cardinality(Earlier(S, x, a))
    BY <1>2, <1>6 DEF Ahead
  <2>2. Earlier(S, x, a) \subseteq Earlier(T, x, b) /\ Earlier(T, x, b) \subseteq T
    BY <1>1 DEF Earlier
  <2>3. IsFiniteSet(Earlier(T, x, b))
    BY <2>2, FS_Subset
  <2>4. /\ Cardinality(Earlier(S, x, a)) <= Cardinality(Earlier(T, x, b))
        /\ Cardinality(Earlier(S, x, a)) \in Nat /\ Cardinality(Earlier(T, x, b)) \in Nat
    BY <2>2, <2>3, FS_Subset, FS_CardinalityType
  <2> QED
    BY <1>3, <2>1, <2>4
<1>7. Ahead(T, p, limit, N, b)
  BY <1>5, <1>6 DEF Ahead
<1> QED
  BY <1>7 DEF b

\* Appended to a list, a piece of another one adds its elements.
LEMMA PieceAppended ==
  ASSUME NEW S, NEW t \in Seq(S), NEW T, NEW u \in Seq(T),
         NEW i \in 0 .. Len(t), NEW j \in i .. Len(t)
  PROVE  /\ ItemsOf(u) \subseteq ItemsOf(u \o SubSeq(t, i + 1, j))
         /\ \A k \in i + 1 .. j : t[k] \in ItemsOf(u \o SubSeq(t, i + 1, j))
<1> DEFINE v == SubSeq(t, i + 1, j)
           w == u \o v
<1>1. /\ v \in Seq(S) /\ Len(v) = j - i
      /\ \A k \in 1 .. j - i : v[k] = t[i + k]
  OBVIOUS
<1> HIDE DEF v
<1>2. /\ Len(u) \in Nat /\ DOMAIN u = 1 .. Len(u) /\ DOMAIN w = 1 .. Len(u) + Len(v)
      /\ \A k \in DOMAIN u : w[k] = u[k]
      /\ \A k \in 1 .. Len(v) : w[Len(u) + k] = v[k]
  BY <1>1
<1> HIDE DEF w
<1>3. ASSUME NEW x \in ItemsOf(u)
      PROVE  x \in ItemsOf(w)
  <2>1. PICK k \in DOMAIN u : u[k] = x
    BY <1>3 DEF ItemsOf
  <2>2. k \in DOMAIN w /\ w[k] = x
    BY <1>1, <1>2, <2>1
  <2> QED
    BY <2>2 DEF ItemsOf
<1>4. ASSUME NEW k \in i + 1 .. j
      PROVE  t[k] \in ItemsOf(w)
  <2>1. k - i \in 1 .. j - i /\ i + (k - i) = k
    OBVIOUS
  <2>2. v[k - i] = t[k]
    <3>1. v[k - i] = t[i + (k - i)]
      BY <1>1, <2>1
    <3> QED
      BY <2>1, <3>1
  <2>3. w[Len(u) + (k - i)] = t[k]
    <3>1. w[Len(u) + (k - i)] = v[k - i]
      BY <1>1, <1>2, <2>1
    <3> QED
      BY <2>2, <3>1
  <2>4. Len(u) + (k - i) \in DOMAIN w
    <3>1. Len(u) + (k - i) \in 1 .. Len(u) + (j - i)
      BY <1>2, <2>1
    <3> QED
      BY <1>1, <1>2, <3>1
  <2> QED
    BY <2>3, <2>4 DEF ItemsOf
<1> QED
  BY <1>3, <1>4 DEF w, v

\* The page shows what no longer is ahead.
LEMMA PageAhead ==
  ASSUME TypeOK, Asked >= 1,
         NEW P, IsFiniteSet(P), 2 * Cardinality(P) <= MaxInt,
         NEW s, \A j, k \in P : j # k => s[j] # s[k],
         NEW S, S = {s[k] : k \in P}, S \subseteq Expected, ~Ties,
         Further(S, Asked - 1),
         AnswerPage(s, P)
  PROVE  /\ stage' = "answered"
         /\ IF Asked < answer'.pages
              THEN Ahead(S, Asked, Limit, since \ ItemsOf(walked'), ParseQueryParameter(request, page))
              ELSE since \subseteq ItemsOf(walked')
<1> DEFINE n == Cardinality(P)
           query == ParseQueryParameter(request, page)
           w == GetPaginationResult(newPagination(Limit, Asked), n)
           missing == since \ ItemsOf(walked)
<1>1. /\ Limit \in GoInt /\ Asked \in GoInt
      /\ query.pagination = newPagination(Limit, Asked)
  BY ParametersTyped
<1>2. Limit \in Int /\ Asked \in Int /\ n \in Nat /\ n <= MaxInt
  BY <1>1, FS_CardinalityType, MaxIntAssumption DEF GoInt
<1>3. \A x, y \in S : x # y => (Before(x, y, query) <=> ~Before(y, x, query))
  BY ToldApart
<1>4. IsFiniteSet(S) /\ Cardinality(S) = n
  <2> DEFINE g == [k \in P |-> s[k]]
  <2>1. g \in Bijection(P, S)
    BY DEF Bijection, Injection, Surjection, IsInjective
  <2> QED
    BY <2>1, FS_Bijection DEF ExistsBijection
<1>5. Ahead(S, Asked - 1, Limit, missing, query)
  BY DEF Further
<1>6. /\ Asked = 1 \/ (Asked > 1 /\ Limit > 0 /\ (Asked - 1) * Limit < n)
      /\ \A x \in missing : x \in S /\ (Asked - 1) * Limit <= Cardinality(Earlier(S, x, query))
  BY <1>2, <1>4, <1>5 DEF Ahead
<1>7. /\ InList(w, n)
      /\ w.start = IF Asked = 1 THEN 0 ELSE (Asked - 1) * Limit
      /\ Asked < w.pages => Limit > 0 /\ Asked * Limit < n /\ w.end = Asked * Limit
      /\ Asked >= w.pages => w.end = n
  BY <1>1, <1>2, <1>6, WindowFollows
<1>8. w.start \in Int /\ w.end \in Int /\ w.pages \in Int
  BY <1>1, <1>2, SizesAssumption, WindowTyped
<1>9. PICK t \in Orderings(s, P, query) :
        /\ answer' = pageResult(t, w)
        /\ walked' = walked \o answer'.items
        /\ stage' = "answered"
  BY <1>1, <1>7, Zenon DEF AnswerPage
<1>10. t \in Strictly(S, query)
  BY <1>3, SortedStrictly
<1>11. t \in Seq(S) /\ Len(t) = n /\ DOMAIN t = 1 .. n /\ ItemsOf(t) = S
  BY <1>4, <1>10, StrictlyOnce
<1>12. answer'.items = SubSeq(t, w.start + 1, w.end) /\ answer'.pages = w.pages
  BY <1>9 DEF pageResult
<1>13. w.start = (Asked - 1) * Limit
  BY <1>2, <1>7
<1> HIDE DEF w, query
<1>14. /\ ItemsOf(walked) \subseteq ItemsOf(walked')
       /\ \A k \in w.start + 1 .. w.end : t[k] \in ItemsOf(walked')
  <2>1. w.start \in 0 .. Len(t) /\ w.end \in w.start .. Len(t)
    BY <1>2, <1>7, <1>8, <1>11 DEF InList
  <2>2. walked \in Seq(Items)
    BY DEF TypeOK
  <2>3. walked' = walked \o SubSeq(t, w.start + 1, w.end)
    BY <1>9, <1>12
  <2>4. ASSUME NEW i \in 0 .. Len(t), NEW j \in i .. Len(t)
        PROVE  /\ ItemsOf(walked) \subseteq ItemsOf(walked \o SubSeq(t, i + 1, j))
               /\ \A k \in i + 1 .. j : t[k] \in ItemsOf(walked \o SubSeq(t, i + 1, j))
    BY <1>11, <2>2, PieceAppended
  <2> QED
    BY <2>1, <2>3, <2>4
<1>15. ASSUME NEW x \in since \ ItemsOf(walked')
       PROVE  /\ x \in S
              /\ w.end <= Cardinality(Earlier(S, x, query)) /\ Cardinality(Earlier(S, x, query)) < n
  <2>1. x \in S /\ w.start <= Cardinality(Earlier(S, x, query))
    BY <1>6, <1>13, <1>14, <1>15
  <2>2. PICK k \in 1 .. n : t[k] = x
    BY <1>11, <2>1 DEF ItemsOf
  <2>3. Cardinality(Earlier(S, x, query)) = k - 1
    BY <1>4, <1>10, <2>2, PlaceCounts DEF Earlier
  <2>4. k \notin w.start + 1 .. w.end
    BY <1>14, <1>15, <2>2
  <2> QED
    BY <1>2, <1>8, <2>1, <2>2, <2>3, <2>4
<1>16. CASE Asked < w.pages
  <2>1. Ahead(S, Asked, Limit, since \ ItemsOf(walked'), query)
    BY <1>4, <1>7, <1>15, <1>16 DEF Ahead
  <2> QED
    BY <1>9, <1>12, <1>16, <2>1 DEF query
<1>17. CASE Asked >= w.pages
  <2>1. ASSUME NEW x \in since \ ItemsOf(walked')
        PROVE  FALSE
    <3>1. Cardinality(Earlier(S, x, query)) \in Nat
      <4>1. Earlier(S, x, query) \subseteq S
        BY DEF Earlier
      <4> QED
        BY <1>4, <4>1, FS_Subset, FS_CardinalityType
    <3> QED
      BY <1>2, <1>7, <1>15, <1>17, <2>1, <3>1
  <2>2. ~(Asked < answer'.pages)
    BY <1>2, <1>8, <1>12, <1>17
  <2> QED
    BY <1>9, <2>1, <2>2
<1>18. Asked < w.pages \/ Asked >= w.pages
  BY <1>2, <1>8
<1> QED
  BY <1>16, <1>17, <1>18, Zenon
-----------------------------------------------------------------------------
\* What a client should find is among the finitely many items of now.
LEMMA FoundWhere ==
  ASSUME request.kind = "charts", NEW c
  PROVE  c \in Expected <=> c \in UNION {cache[r] : r \in Repos} /\ Selected(c) /\ c.repo \in Named
BY FiltersFind DEF Expected

\* All that is still to be read, filtered, is expected.
LEMMA GatheredExpected ==
  ASSUME TypeOK, OwnCharts, request.kind = "charts",
         ItemsOf(todo) \subseteq Named,
         \A c \in ItemsOf(list) : Selected(c) => c \in Expected
  PROVE  Gathered \subseteq Expected
<1> SUFFICES ASSUME NEW c \in Gathered PROVE c \in Expected
  OBVIOUS
<1>1. Selected(c) /\ c \in Coming
  BY DEF Gathered
<1>2. CASE c \in ItemsOf(list)
  BY <1>1, <1>2 DEF ItemsOf
<1>3. CASE \E r \in ItemsOf(todo) : c \in cache[r]
  <2>1. PICK r \in ItemsOf(todo) : c \in cache[r]
    BY <1>3
  <2>2. r \in Repos /\ r \in Named
    BY <2>1 DEF Named, TypeOK
  <2>3. c.repo = r
    BY <2>1, <2>2, CatalogsAssumption DEF OwnCharts
  <2> QED
    BY <1>1, <2>1, <2>2, <2>3, FoundWhere
<1> QED
  BY <1>1, <1>2, <1>3 DEF Coming

\* What a client should find and what a request reads are finite.
Finite == IsFiniteSet(Expected) /\ IsFiniteSet(Gathered)

LEMMA QueryFinite == QueryInv => Finite
<1> SUFFICES ASSUME QueryInv PROVE Finite
  OBVIOUS
<1>1. TypeOK /\ OwnCharts
  BY DEF QueryInv
<1> DEFINE indexes == {cache[r] : r \in Repos}
           f == [r \in Repos |-> cache[r]]
<1>2. f \in Surjection(Repos, indexes)
  BY DEF Surjection
<1>3. IsFiniteSet(indexes)
  BY <1>2, FS_Surjection, CatalogsAssumption
<1>4. \A i \in indexes : IsFiniteSet(i)
  BY <1>1, CatalogsAssumption DEF OwnCharts
<1>5. IsFiniteSet(UNION indexes)
  BY <1>3, <1>4, FS_UNION
<1>6. IsFiniteSet(ItemsOf(list))
  <2>1. list \in [1 .. Len(list) -> Items] /\ Len(list) \in Nat
    BY <1>1 DEF TypeOK
  <2>2. list \in Surjection(1 .. Len(list), ItemsOf(list))
    BY <2>1 DEF Surjection, ItemsOf
  <2>3. IsFiniteSet(1 .. Len(list))
    BY <2>1, FS_Interval
  <2> QED
    BY <2>2, <2>3, FS_Surjection
<1>7. IsFiniteSet(ItemsOf(list) \cup UNION indexes)
  BY <1>5, <1>6, FS_Union
<1>8. Gathered \subseteq ItemsOf(list) \cup UNION indexes
  <2>1. ItemsOf(todo) \subseteq Repos
    BY <1>1 DEF TypeOK, ItemsOf
  <2> QED
    BY <2>1 DEF Gathered, Coming
<1> QED
  BY <1>1, <1>7, <1>8, ExpectedFinite, FS_Subset DEF Finite

LEMMA InitGrows == Init => GrowInv
<1> SUFFICES ASSUME Init, since # {} PROVE Growing
  BY DEF GrowInv
<1>1. TypeOK /\ OwnCharts
  BY InitQueryInv DEF QueryInv
<1>2. Asked = 1 /\ stage = "asking" /\ since = Expected /\ Limit \in Int
  <2>1. /\ quiet <=> Asked = 1
        /\ since = IF quiet THEN Expected ELSE {}
        /\ stage = "asking"
    BY DEF Init, Asked
  <2>2. Asked = 1 /\ since = Expected
    BY <2>1, Zenon
  <2>3. Limit \in Int
    BY <1>1, ParametersTyped DEF GoInt
  <2> QED
    BY <2>1, <2>2, <2>3
<1>3. ASSUME NEW x \in since
      PROVE  Cardinality(Earlier(Expected, x, ParseQueryParameter(request, page))) \in Nat
  <2>1. IsFiniteSet(Expected)
    BY <1>1, ExpectedFinite
  <2>2. Earlier(Expected, x, ParseQueryParameter(request, page)) \subseteq Expected
    BY DEF Earlier
  <2> QED
    BY <2>1, <2>2, FS_Subset, FS_CardinalityType
<1>4. Further(Expected, 0)
  <2> DEFINE query == ParseQueryParameter(request, page)
  <2> HIDE DEF query
  <2>1. 0 * Limit = 0
    BY <1>2
  <2>2. Ahead(Expected, 0, Limit, since \ ItemsOf(walked), query)
    BY <1>2, <1>3, <2>1 DEF Ahead, query
  <2> QED
    BY <2>2 DEF Further, query
<1>5. Asked - 1 = 0
  BY <1>2
<1> QED
  BY <1>2, <1>4, <1>5 DEF Growing

LEMMA ListReposGrows ==
  ASSUME QueryInv, GrowInv, ListRepos
  PROVE  GrowInv'
<1>1. /\ TypeOK /\ OwnCharts
      /\ stage = "asking" /\ stage' = "reading" /\ request.kind = "charts"
      /\ list' = <<>>
      /\ todo' \in IF request.repos = <<>> THEN Orders(crs) ELSE filterSelectedRepositories
      /\ UNCHANGED <<crs, cache, request, page, answer, walked, since>>
  BY DEF QueryInv, ListRepos, catalog
<1>2. /\ Expected' = Expected /\ Named' = Named /\ (Ties' <=> Ties)
      /\ Asked' = Asked /\ Limit' = Limit
  BY <1>1, SameExpected DEF Asked, Limit
<1> SUFFICES ASSUME since # {}, ~Ties
             PROVE  Growing'
  BY <1>1, <1>2 DEF GrowInv
<1>3. Asked >= 1 /\ Further(Expected, Asked - 1)
  BY <1>1 DEF GrowInv, Growing
<1>4. /\ ItemsOf(todo') = Named
      /\ \A j, k \in DOMAIN todo' : j # k => todo'[j] # todo'[k]
  <2>1. \A j, k \in DOMAIN request.repos : j # k => request.repos[j] # request.repos[k]
    BY DEF Ties
  <2> QED
    BY <1>1, <2>1, ReposToRead
<1>5. DOMAIN list' = {} /\ ItemsOf(list') = {}
  BY <1>1 DEF ItemsOf
<1>6. Gathered' = Expected
  <2>1. Coming' = UNION {cache[r] : r \in Named}
    BY <1>1, <1>4, <1>5 DEF Coming
  <2>2. \A c : Selected(c)' <=> Selected(c)
    BY <1>1 DEF Selected
  <2>3. Gathered' = {c \in UNION {cache[r] : r \in Named} : Selected(c)}
    BY <2>1, <2>2 DEF Gathered
  <2>4. \A r \in Repos : \A c \in cache[r] : c.repo = r
    BY <1>1, CatalogsAssumption DEF OwnCharts
  <2>5. Named \subseteq Repos
    BY <1>1 DEF Named, TypeOK
  <2> QED
    BY <1>1, <2>3, <2>4, <2>5, FoundWhere
<1>7. Further(Gathered, Asked - 1)'
  <2>1. Ahead(Gathered', Asked' - 1, Limit', since' \ ItemsOf(walked'),
              ParseQueryParameter(request', page'))
    BY <1>1, <1>2, <1>3, <1>6 DEF Further
  <2> QED
    BY <2>1 DEF Further
<1>8. Once'
  BY <1>4, <1>5 DEF Once
<1> QED
  BY <1>1, <1>2, <1>3, <1>4, <1>5, <1>7, <1>8 DEF Growing

LEMMA ReadRepoGrows ==
  ASSUME QueryInv, GrowInv, ReadRepo
  PROVE  GrowInv'
<1>1. /\ TypeOK /\ OwnCharts
      /\ stage = "reading" /\ request.kind = "charts"
      /\ UNCHANGED <<crs, cache, request, page, stage, answer, walked, since>>
  BY DEF QueryInv, ReadRecently, ReadRepo, catalog, history
<1>2. /\ Expected' = Expected /\ Named' = Named /\ (Ties' <=> Ties)
      /\ Asked' = Asked /\ Limit' = Limit
  BY <1>1, SameExpected DEF Asked, Limit
<1> SUFFICES ASSUME since # {}, ~Ties
             PROVE  Growing'
  BY <1>1, <1>2 DEF GrowInv
<1>3. /\ Asked >= 1 /\ Once /\ ItemsOf(todo) \subseteq Named
      /\ \A c \in ItemsOf(list) : Selected(c) => c \in Expected
      /\ Further(Gathered, Asked - 1)
  BY <1>1 DEF GrowInv, Growing
<1>4. /\ Once' /\ Coming' = Coming
      /\ ItemsOf(todo') \subseteq ItemsOf(todo)
      /\ Head(todo) \in ItemsOf(todo) /\ Head(todo) \in Repos
      /\ ItemsOf(list') = ItemsOf(list) \cup cache[Head(todo)]
  BY <1>1, <1>3, ReadRepoGathers
<1>5. \A c : Selected(c)' <=> Selected(c)
  BY <1>1 DEF Selected
<1>6. Gathered' = Gathered
  BY <1>4, <1>5 DEF Gathered
<1>7. Further(Gathered, Asked - 1)'
  BY <1>1, <1>2, <1>3, <1>6 DEF Further
<1>8. ASSUME NEW c \in ItemsOf(list'), Selected(c)
      PROVE  c \in Expected
  <2>1. c \in Gathered
    BY <1>4, <1>8 DEF Coming, Gathered
  <2> QED
    BY <1>1, <1>3, <2>1, GatheredExpected
<1>9. \A c \in ItemsOf(list') : Selected(c)' => c \in Expected'
  BY <1>2, <1>5, <1>8
<1> QED
  BY <1>1, <1>2, <1>3, <1>4, <1>7, <1>9 DEF Growing

LEMMA RefuseOrFailGrows ==
  ASSUME GrowInv, Refuse \/ Fail
  PROVE  GrowInv'
<1>1. /\ stage' \in {"refused", "failed"}
      /\ UNCHANGED <<crs, cache, request, page, since>>
  BY DEF Refuse, Fail, catalog, history
<1>2. (Ties' <=> Ties) /\ Asked' = Asked
  BY <1>1, SameExpected DEF Asked
<1> QED
  BY <1>1, <1>2 DEF GrowInv, Growing

\* After a page was answered from a part S of what is expected.
LEMMA AnswerGrows ==
  ASSUME TypeOK, OwnCharts, Asked >= 1, NEW S, S \subseteq Expected,
         stage' = "answered", UNCHANGED <<crs, cache, request, page, since>>,
         IF Asked < answer'.pages
           THEN Ahead(S, Asked, Limit, since \ ItemsOf(walked'), ParseQueryParameter(request, page))
           ELSE since \subseteq ItemsOf(walked')
  PROVE  Growing'
<1>1. Expected' = Expected /\ Asked' = Asked /\ Limit' = Limit
  BY SameExpected DEF Asked, Limit
<1>2. IsFiniteSet(Expected) /\ Asked \in Int /\ Limit \in Int
  BY ExpectedFinite, ParametersTyped DEF GoInt
<1>3. ASSUME Asked < answer'.pages
      PROVE  Further(Expected, Asked)'
  <2>1. Ahead(Expected, Asked, Limit, since \ ItemsOf(walked'), ParseQueryParameter(request, page))
    BY <1>2, <1>3, AheadGrows
  <2> QED
    BY <1>1, <2>1 DEF Further
<1> QED
  BY <1>1, <1>3 DEF Growing

LEMMA GetLatestChartsGrows ==
  ASSUME QueryInv, GrowInv, GetLatestCharts
  PROVE  GrowInv'
<1> DEFINE P == filterChartVersionSlice
<1>1. /\ TypeOK /\ ListFits /\ OwnCharts
      /\ stage = "reading" /\ todo = <<>> /\ request.kind = "charts"
      /\ AnswerPage(list, P)
      /\ UNCHANGED <<crs, cache, request, page, since>>
  BY DEF QueryInv, ReadRecently, GetLatestCharts, catalog
<1>2. Ties' <=> Ties
  BY <1>1, SameExpected
<1> SUFFICES ASSUME since # {}, ~Ties
             PROVE  Growing'
  BY <1>1, <1>2 DEF GrowInv
<1>3. /\ Asked >= 1
      /\ \A j, k \in DOMAIN list : j # k => list[j] # list[k]
      /\ \A c \in ItemsOf(list) : Selected(c) => c \in Expected
      /\ Further(Gathered, Asked - 1)
  BY <1>1 DEF GrowInv, Growing, Once
<1>4. list \in Seq(Items) /\ Len(list) \in Nat
  BY <1>1 DEF TypeOK
<1>5. P = {k \in DOMAIN list : Selected(list[k])}
  BY DEF filterChartVersionSlice
<1>6. IsFiniteSet(P) /\ Cardinality(P) \in Nat /\ Cardinality(P) <= Len(list)
  BY <1>4, <1>5, PlacesFinite
<1>7. 2 * Cardinality(P) <= MaxInt
  <2>1. Len(todo) * MaxCharts \in Nat
    BY <1>1, CatalogsAssumption DEF TypeOK
  <2> QED
    BY <1>1, <1>4, <1>6, <2>1, MaxIntAssumption DEF ListFits
<1>8. Gathered = {list[k] : k \in P}
  <2>1. ItemsOf(todo) = {}
    BY <1>1 DEF ItemsOf
  <2> QED
    BY <1>5, <2>1 DEF Gathered, Coming, ItemsOf
<1>9. Gathered \subseteq Expected
  BY <1>3, <1>5, <1>8 DEF ItemsOf
<1>10. \A j, k \in P : j # k => list[j] # list[k]
  BY <1>3, <1>5
<1> HIDE DEF P
<1>11. /\ stage' = "answered"
       /\ IF Asked < answer'.pages
            THEN Ahead(Gathered, Asked, Limit, since \ ItemsOf(walked'), ParseQueryParameter(request, page))
            ELSE since \subseteq ItemsOf(walked')
  BY <1>1, <1>3, <1>6, <1>7, <1>8, <1>9, <1>10, PageAhead
<1> QED
  BY <1>1, <1>3, <1>9, <1>11, AnswerGrows

LEMMA ListRepoGrows ==
  ASSUME QueryInv, GrowInv, ListRepo
  PROVE  GrowInv'
<1> DEFINE P == {r \in crs : Within(Lower(request.chart), r)}
           s == [r \in crs |-> RepoItem(r)]
<1>1. /\ TypeOK /\ OwnCharts
      /\ stage = "asking" /\ request.kind = "repos"
      /\ AnswerPage(s, P)
      /\ UNCHANGED <<crs, cache, request, page, since>>
  BY DEF QueryInv, ListRepo, catalog
<1>2. Ties' <=> Ties
  BY <1>1, SameExpected
<1> SUFFICES ASSUME since # {}, ~Ties
             PROVE  Growing'
  BY <1>1, <1>2 DEF GrowInv
<1>3. Asked >= 1 /\ Further(Expected, Asked - 1)
  BY <1>1 DEF GrowInv, Growing
<1>4. /\ IsFiniteSet(crs)
      /\ Cardinality(crs) \in Nat
      /\ Cardinality(Repos) \in Nat
      /\ Cardinality(crs) <= Cardinality(Repos)
  BY <1>1, ReposFinite
<1>5. IsFiniteSet(P) /\ Cardinality(P) \in Nat /\ Cardinality(P) <= Cardinality(crs)
  BY <1>4, FS_Subset, FS_CardinalityType
<1>6. 2 * Cardinality(P) <= MaxInt
  <2>1. 2 * Cardinality(Repos) <= MaxInt
    BY SizesAssumption
  <2> HIDE DEF P
  <2> QED
    BY <1>4, <1>5, <2>1, MaxIntAssumption
<1>7. \A j, k \in P : j # k => s[j] # s[k]
  BY DEF RepoItem
<1>8. Expected = {s[k] : k \in P}
  <2>1. Expected = {RepoItem(r) : r \in P}
    BY <1>1 DEF Expected
  <2>2. \A k \in P : s[k] = RepoItem(k)
    OBVIOUS
  <2> HIDE DEF s, P
  <2> QED
    BY <2>1, <2>2
<1> HIDE DEF s, P
<1>9. /\ stage' = "answered"
      /\ IF Asked < answer'.pages
           THEN Ahead(Expected, Asked, Limit, since \ ItemsOf(walked'), ParseQueryParameter(request, page))
           ELSE since \subseteq ItemsOf(walked')
  BY <1>1, <1>3, <1>5, <1>6, <1>7, <1>8, PageAhead
<1> QED
  BY <1>1, <1>3, <1>9, AnswerGrows

LEMMA PageTurnGrows ==
  ASSUME QueryInv, GrowInv, NextPage \/ LastPage
  PROVE  GrowInv'
<1>1. /\ TypeOK /\ OwnCharts /\ stage = "answered"
      /\ UNCHANGED <<crs, cache, request, walked, since>>
  BY DEF QueryInv, NextPage, LastPage, catalog, history
<1>2. Expected' = Expected /\ (Ties' <=> Ties) /\ Limit' = Limit
  BY <1>1, SameExpected DEF Limit
<1> SUFFICES ASSUME since # {}, ~Ties
             PROVE  Growing'
  BY <1>1, <1>2 DEF GrowInv
<1>3. /\ Asked >= 1
      /\ IF Asked < answer.pages THEN Further(Expected, Asked) ELSE since \subseteq ItemsOf(walked)
  BY <1>1 DEF GrowInv, Growing
<1>4. Asked \in Int /\ Limit \in Int /\ answer.pages \in Int /\ IsFiniteSet(Expected)
  BY <1>1, ParametersTyped, ExpectedFinite DEF GoInt, TypeOK
<1>5. CASE NextPage
  <2>1. Asked < answer.pages /\ page' = Asked + 1 /\ stage' = "asking"
    BY <1>5 DEF NextPage, Asked
  <2>2. Asked' = Asked + 1
    <3>1. page' # NoNumber
      BY <1>4, <2>1, NoNumberAssumption
    <3> QED
      BY <2>1, <3>1 DEF Asked, Parsed
  <2>3. Ahead(Expected, Asked, Limit, since \ ItemsOf(walked), ParseQueryParameter(request, page'))
    BY <1>3, <1>4, <2>1, AheadGrows DEF Further
  <2>4. Asked' - 1 = Asked /\ Asked' >= 1
    BY <1>3, <1>4, <2>2
  <2>5. Further(Expected, Asked - 1)'
    BY <1>1, <1>2, <2>3, <2>4 DEF Further
  <2> QED
    BY <2>1, <2>4, <2>5 DEF Growing
<1>6. CASE LastPage
  <2>1. Asked >= answer.pages /\ page' = page /\ stage' = "done"
    BY <1>6 DEF LastPage, Asked
  <2>2. Asked' = Asked /\ ~(Asked < answer.pages)
    BY <1>4, <2>1 DEF Asked
  <2> QED
    BY <1>1, <1>3, <2>1, <2>2 DEF Growing
<1> QED
  BY <1>5, <1>6

\* What is added can be found as well as what was there, ...
LEMMA ExpectedGrows ==
  ASSUME UNCHANGED <<request, page>>, crs \subseteq crs', crs' \subseteq Repos,
         \A r \in Repos : cache[r] \subseteq cache'[r]
  PROVE  Expected \subseteq Expected' /\ (Ties => Ties')
<1>1. Expected \subseteq Expected'
  <2>1. \A c : Found(c) => Found(c)'
    BY DEF Found
  <2> QED
    BY <2>1 DEF Expected
<1>2. Ties => Ties'
  BY <1>1 DEF Ties
<1> QED
  BY <1>1, <1>2

\* ... and, if a request will still come to it, is read.
LEMMA ChangeGrows ==
  ASSUME QueryInv, QueryInv', Finite', GrowInv, NEW r \in Repos, StoreIndex(r) \/ ChangeRepo(r)
  PROVE  GrowInv'
<1> SUFFICES ASSUME since' # {}, ~Ties'
             PROVE  Growing'
  BY DEF GrowInv
<1>1. /\ UNCHANGED <<request, page, stage, todo, list, answer, walked>>
      /\ since' = since /\ crs \subseteq crs'
      /\ TypeOK /\ OwnCharts /\ TypeOK' /\ OwnCharts'
  BY DEF QueryInv, StoreIndex, ChangeRepo, Change
<1>2. \A q \in Repos : cache[q] \subseteq cache'[q]
  BY <1>1 DEF StoreIndex, ChangeRepo, TypeOK
<1>3. Expected \subseteq Expected' /\ ~Ties
  BY <1>1, <1>2, ExpectedGrows DEF TypeOK
<1>4. Growing /\ Asked' = Asked /\ Limit' = Limit
  BY <1>1, <1>3 DEF GrowInv, Asked, Limit
<1>5. IsFiniteSet(Expected') /\ IsFiniteSet(Gathered')
  BY DEF Finite
<1>6. Asked \in Int /\ Limit \in Int
  BY <1>1, ParametersTyped DEF GoInt
<1>7. ASSUME NEW p \in Int, Further(Expected, p)
      PROVE  Ahead(Expected', p, Limit, since \ ItemsOf(walked), ParseQueryParameter(request, page))
  BY <1>3, <1>5, <1>6, <1>7, AheadGrows DEF Further
<1>8. CASE stage = "asking"
  <2>1. Asked - 1 \in Int /\ Further(Expected, Asked - 1)
    BY <1>4, <1>6, <1>8 DEF Growing
  <2>2. Further(Expected, Asked - 1)'
    BY <1>1, <1>4, <1>7, <2>1 DEF Further
  <2> QED
    BY <1>1, <1>4, <1>8, <2>2 DEF Growing
<1>9. CASE stage = "reading"
  <2>1. /\ Once /\ ItemsOf(todo) \subseteq Named
        /\ \A c \in ItemsOf(list) : Selected(c) => c \in Expected
        /\ Asked - 1 \in Int /\ Further(Gathered, Asked - 1)
    BY <1>4, <1>6, <1>9 DEF Growing
  <2>2. Once'
    BY <1>1, <2>1 DEF Once
  <2>3. ItemsOf(todo') \subseteq Named'
    BY <1>1, <2>1 DEF Named
  <2>4. \A c : Selected(c)' <=> Selected(c)
    BY <1>1 DEF Selected
  <2>5. \A c \in ItemsOf(list') : Selected(c)' => c \in Expected'
    BY <1>1, <1>3, <2>1, <2>4
  <2>6. Gathered \subseteq Gathered'
    <3>1. ItemsOf(todo) \subseteq Repos
      BY <1>1, <2>1 DEF Named, TypeOK
    <3>2. Coming \subseteq Coming'
      BY <1>1, <1>2, <3>1 DEF Coming
    <3> QED
      BY <2>4, <3>2 DEF Gathered
  <2>8. Ahead(Gathered', Asked - 1, Limit, since \ ItemsOf(walked), ParseQueryParameter(request, page))
    BY <1>5, <1>6, <2>1, <2>6, AheadGrows DEF Further
  <2>9. Further(Gathered, Asked - 1)'
    BY <1>1, <1>4, <2>8 DEF Further
  <2> QED
    BY <1>1, <1>4, <1>9, <2>2, <2>3, <2>5, <2>9 DEF Growing
<1>10. CASE stage = "answered"
  <2>1. Asked < answer.pages => Further(Expected, Asked)'
    <3> SUFFICES ASSUME Asked < answer.pages PROVE Further(Expected, Asked)'
      OBVIOUS
    <3>1. Further(Expected, Asked)
      BY <1>4, <1>10 DEF Growing
    <3> QED
      BY <1>1, <1>4, <1>6, <1>7, <3>1 DEF Further
  <2> QED
    BY <1>1, <1>4, <1>10, <2>1 DEF Growing
<1>11. stage \in {"asking", "reading", "answered"}
  BY DEF StoreIndex, ChangeRepo, Change
<1> QED
  BY <1>8, <1>9, <1>10, <1>11

LEMMA StutterGrows ==
  ASSUME GrowInv, UNCHANGED vars
  PROVE  GrowInv'
<1>1. UNCHANGED <<crs, cache, request, page, stage, todo, list, answer, walked, since>>
  BY DEF vars, catalog, history
<1>2. /\ Expected' = Expected /\ Named' = Named /\ (Ties' <=> Ties)
      /\ Asked' = Asked /\ Limit' = Limit
  BY <1>1, SameExpected DEF Asked, Limit
<1>3. (Once' <=> Once) /\ Gathered' = Gathered
  BY <1>1 DEF Once, Gathered, Coming, Selected
<1>4. /\ \A c : Selected(c)' <=> Selected(c)
      /\ \A S, p : Further(S, p)' <=> Further(S, p)
  BY <1>1, <1>2 DEF Selected, Further
<1>5. Growing' <=> Growing
  BY <1>1, <1>2, <1>3, <1>4 DEF Growing
<1> QED
  BY <1>1, <1>2, <1>5 DEF GrowInv

(* A client that walks from the first page to the last sees all that its   *)
(* filters described when it began, whatever is added meanwhile, between   *)
(* pages and between the reads of one page: the lists of its pages grow,   *)
(* which moves what it has not seen further back, never forward past it.   *)
THEOREM AdditionsKeepWalk == Spec => []AdditionsHideNothing
<1>1. Init => GrowInv
  BY InitGrows
<1>2. QueryInv /\ QueryInv' /\ Finite' /\ GrowInv /\ [Next]_vars => GrowInv'
  BY ListReposGrows, ReadRepoGrows, RefuseOrFailGrows, GetLatestChartsGrows, ListRepoGrows,
     PageTurnGrows, ChangeGrows, StutterGrows DEF Next
<1>3. GrowInv => AdditionsHideNothing
  BY DEF GrowInv, Growing, AdditionsHideNothing
<1> QED
  BY <1>1, <1>2, <1>3, QueryFinite, QueryInvariance, PTL DEF Spec
=============================================================================
