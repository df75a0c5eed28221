---------------------------- MODULE ChartQueries ----------------------------
(***************************************************************************)
(* A client walks through the pages of a listing (GetLatestCharts in       *)
(* pkg/helm/charts.go, ListRepo in pkg/helm/repo.go).  Every page is a     *)
(* request of its own that lists the repositories, reads the cache of one  *)
(* after the other, filters, sorts and pages, while the repositories and   *)
(* their indexes change.                                                   *)
(***************************************************************************)
EXTENDS Pagination, Sequences, FiniteSets

CONSTANTS
    Requests,    \* the listings clients ask for, their search text validated
    FirstPages,  \* the pages they begin with
    Catalogs,    \* the indexes a repository may have, by display name
    MaxCharts,   \* the most charts one of them holds
    Scenes,      \* MarketplaceScenes in the service's configuration
    MaxChanges   \* bound on the changes while a client walks

Repos == DOMAIN Catalogs

ItemsOf(s) == {s[k] : k \in DOMAIN s}

\* An index is a finite set of its repository's charts.
ASSUME CatalogsAssumption ==
    /\ IsFiniteSet(Repos)
    /\ MaxCharts \in Nat
    /\ \A r \in Repos : \A i \in Catalogs[r] :
         /\ IsFiniteSet(i) /\ Cardinality(i) <= MaxCharts
         /\ \A c \in i : c.repo = r

ASSUME RequestsAssumption ==
    \A q \in Requests :
      /\ q.limit \in GoInt \cup {NoNumber}
      /\ q.repos \in Seq(ItemsOf(q.repos))

\* No list reaches half the largest integer.
ASSUME SizesAssumption ==
    /\ 1 <= MaxInt
    /\ 2 * Cardinality(Repos) <= MaxInt
    /\ 2 * (Cardinality(Repos) * MaxCharts) <= MaxInt
    /\ \A q \in Requests : 2 * (Len(q.repos) * MaxCharts) <= MaxInt

ASSUME PagesAssumption == FirstPages \subseteq GoInt \cup {NoNumber}
ASSUME ChangesAssumption == MaxChanges \in Nat

VARIABLES
    crs,       \* repositories with a custom resource, by display name
    cache,     \* charts of each repository's cached index
    request,   \* what the client asks for
    page,      \* the page it asks for now
    stage,     \* where the request is
    todo,      \* repositories still to read
    list,      \* charts found so far
    answer,    \* the page answered
    walked,    \* history: the items of the pages so far
    recent,    \* history: items the cache had since the request began
    quiet,     \* history: nothing has changed since the walk began
    since,     \* history: what could be found then, if nothing has been taken away
    changes    \* changes so far

catalog == <<crs, cache>>
history == <<walked, recent, quiet, since>>
vars == <<catalog, request, page, stage, todo, list, answer, history, changes>>

Stages == {"asking", "reading", "answered", "refused", "failed", "panicked", "done"}

Nothing == [items |-> <<>>, pages |-> 0]

-----------------------------------------------------------------------------
(* Names are sequences of characters <<class, lower case, code>>. *)
Lower(name) == [k \in DOMAIN name |-> <<name[k][1], name[k][2], name[k][2]>>]

\* strings.Contains
Within(needle, name) ==
    \E k \in 0 .. Len(name) - Len(needle) : SubSeq(name, k + 1, k + Len(needle)) = needle

getPriority == [symbol |-> 0, letter |-> 1, digit |-> 2, other |-> 3]

CharLess(x, y) ==
    \/ getPriority[x[1]] < getPriority[y[1]]
    \/ x[1] = y[1] /\ x[2] < y[2]
    \/ x[1] = y[1] /\ x[2] = y[2] /\ x[3] < y[3]

customCompare(a, b, ascending) ==
    LET differ == {k \in 1 .. Smaller(Len(a), Len(b)) : a[k] # b[k]}
        less == IF differ = {}
                  THEN Len(a) < Len(b)
                  ELSE \E k \in differ : (\A m \in differ : k <= m) /\ CharLess(a[k], b[k])
    IN less = ascending

-----------------------------------------------------------------------------
(* The latest version of a chart has the keywords of all its versions. *)
Created(c) == CHOOSE t \in {v.created : v \in c.versions} : \A v \in c.versions : v.created <= t

ExtractUniqueKeywords(c) == UNION {v.words : v \in c.versions}

FuyaoExtensionKeyword == "openfuyao-extension"

HasType(c, t) ==
    \/ t = "application" /\ FuyaoExtensionKeyword \notin ExtractUniqueKeywords(c)
    \/ t \notin {"application", ""} /\ t \in ExtractUniqueKeywords(c)

Selected(c) ==
    /\ Within(Lower(request.chart), Lower(c.name))
    /\ request.types # {} => \E t \in request.types : HasType(c, t)
    /\ request.scene # {} => ExtractUniqueKeywords(c) \cap request.scene # {}

\* The places of the charts that stay.
filterChartVersionSlice == {k \in DOMAIN list : Selected(list[k])}

-----------------------------------------------------------------------------
(* x may come before y: the order of equals is arbitrary, for the list is  *)
(* filled in a map's order.  Repositories have no time to sort by.         *)
Before(x, y, query) ==
    LET byTime == query.sortBy = "time" /\ query.kind = "charts" IN
    CASE byTime /\ query.ascending -> Created(x) < Created(y)
      [] byTime /\ ~query.ascending -> Created(x) > Created(y)
      [] query.sortBy = "name" -> customCompare(x.name, y.name, query.ascending)
      [] OTHER -> customCompare(x.name, y.name, TRUE)

Orders(S) == {f \in [1 .. Cardinality(S) -> S] : \A r \in S : \E k \in DOMAIN f : f[k] = r}

SomeOrder(S) == CHOOSE f \in Orders(S) : TRUE

\* The elements of s at the places P, each place once.
Arranged(s, P) == {[k \in 1 .. Cardinality(P) |-> s[f[k]]] : f \in Orders(P)}

Orderings(s, P, query) ==
    {t \in Arranged(s, P) :
       \A j, k \in DOMAIN t :
         j < k => Before(t[j], t[k], query) \/ ~Before(t[k], t[j], query)}

pageResult(s, w) == [items |-> SubSeq(s, w.start + 1, w.end), pages |-> w.pages]

\* What is in s at the places P is sorted and paged.
AnswerPage(s, P) ==
    LET query == ParseQueryParameter(request, page)
        w == GetPaginationResult(query.pagination, Cardinality(P))
    IN IF InList(w, Cardinality(P))
         THEN \E t \in Orderings(s, P, query) :
                /\ answer' = pageResult(t, w)
                /\ walked' = walked \o answer'.items
                /\ stage' = "answered"
         ELSE /\ stage' = "panicked"
              /\ UNCHANGED <<answer, walked>>

-----------------------------------------------------------------------------
\* The repositories a request reads: those it names, in its order and as often.
filterSelectedRepositories ==
    LET kept == {k \in DOMAIN request.repos : request.repos[k] \in crs} IN
    {[k \in DOMAIN f |-> request.repos[f[k]]] :
       f \in {g \in Orders(kept) : \A j, k \in DOMAIN g : j < k => g[j] < g[k]}}

\* Mutant: the list of the previous page is kept.
ListReposKept ==
    /\ stage = "asking"
    /\ request.kind = "charts"
    /\ IF walked = <<>>
         THEN todo' \in (IF request.repos = <<>> THEN Orders(crs) ELSE filterSelectedRepositories)
         ELSE todo' = <<>>
    /\ list' = list
    /\ recent' = UNION {cache[r] : r \in Repos}
    /\ stage' = "reading"
    /\ UNCHANGED <<catalog, request, page, answer, walked, quiet, since, changes>>

\* getLatestChartsByRepos lists the custom resources ...
ListRepos ==
    /\ stage = "asking"
    /\ request.kind = "charts"
    /\ todo' \in IF request.repos = <<>> THEN Orders(crs) ELSE filterSelectedRepositories
    /\ list' = <<>>
    /\ recent' = UNION {cache[r] : r \in Repos}
    /\ stage' = "reading"
    /\ UNCHANGED <<catalog, request, page, answer, walked, quiet, since, changes>>

\* ... and reads the cache of one after the other; a missing entry is empty.
ReadRepo ==
    /\ stage = "reading"
    /\ todo # <<>>
    /\ list' = list \o SomeOrder(cache[Head(todo)])
    /\ todo' = Tail(todo)
    /\ UNCHANGED <<catalog, request, page, stage, answer, history, changes>>

\* A scene the configuration does not know is refused.
Refuse ==
    /\ stage = "reading"
    /\ todo = <<>>
    /\ ~(request.scene \subseteq Scenes)
    /\ stage' = "refused"
    /\ UNCHANGED <<catalog, request, page, todo, list, answer, history, changes>>

GetLatestCharts ==
    /\ stage = "reading"
    /\ todo = <<>>
    /\ request.scene \subseteq Scenes
    /\ AnswerPage(list, filterChartVersionSlice)
    /\ UNCHANGED <<catalog, request, page, todo, list, recent, quiet, since, changes>>

\* The API server does not list the repositories or answer the configuration.
Fail ==
    /\ \/ stage = "asking"
       \/ stage = "reading" /\ todo = <<>>
    /\ stage' = "failed"
    /\ UNCHANGED <<catalog, request, page, todo, list, answer, history, changes>>

RepoItem(r) == [repo |-> r, name |-> r, versions |-> {}]

\* Only what is searched for is converted to lower case.
ListRepo ==
    /\ stage = "asking"
    /\ request.kind = "repos"
    /\ AnswerPage([r \in crs |-> RepoItem(r)], {r \in crs : Within(Lower(request.chart), r)})
    /\ recent' = {RepoItem(r) : r \in crs}
    /\ UNCHANGED <<catalog, request, page, todo, list, quiet, since, changes>>

\* The client goes on to the next page the answer says there is, ...
NextPage ==
    /\ stage = "answered"
    /\ Parsed(page, noPaginationPage) < answer.pages
    /\ page' = Parsed(page, noPaginationPage) + 1
    /\ stage' = "asking"
    /\ UNCHANGED <<catalog, request, todo, list, answer, history, changes>>

\* ... or has seen the last.
LastPage ==
    /\ stage = "answered"
    /\ Parsed(page, noPaginationPage) >= answer.pages
    /\ stage' = "done"
    /\ UNCHANGED <<catalog, request, page, todo, list, answer, history, changes>>

-----------------------------------------------------------------------------
\* What the client should find: a chart's type and scenes are those of any of
\* its versions (the comment at charts.go:796); an empty type asks for none.
Found(c) ==
    /\ c.repo \in crs
    /\ request.repos # <<>> => c.repo \in ItemsOf(request.repos)
    /\ Within(Lower(request.chart), Lower(c.name))
    /\ \/ request.types = {}
       \/ \E t \in request.types, v \in c.versions : t \notin {"application", ""} /\ t \in v.words
       \/ /\ "application" \in request.types
          /\ \A v \in c.versions : FuyaoExtensionKeyword \notin v.words
    /\ \/ request.scene = {}
       \/ \E v \in c.versions : v.words \cap request.scene # {}

Expected ==
    IF request.kind = "repos"
      THEN {RepoItem(r) : r \in {s \in crs : Within(Lower(request.chart), s)}}
      ELSE {c \in UNION {cache[r] : r \in Repos} : Found(c)}

-----------------------------------------------------------------------------
(* Other requests and synchronisations (module RepoService). *)
Change ==
    /\ stage \in {"asking", "reading", "answered"}
    /\ changes < MaxChanges
    /\ changes' = changes + 1
    /\ quiet' = FALSE
    /\ UNCHANGED <<request, page, stage, todo, list, answer, walked>>

StoreIndex(r) ==
    /\ Change
    /\ \E i \in Catalogs[r] : cache' = [cache EXCEPT ![r] = i]
    /\ since' = IF cache[r] \subseteq cache'[r] THEN since ELSE {}
    /\ recent' = recent \cup cache'[r]
    /\ UNCHANGED crs

ChangeRepo(r) ==
    /\ Change
    /\ crs' \in {crs \cup {r}, crs \ {r}}
    /\ since' = IF crs \subseteq crs' THEN since ELSE {}
    /\ UNCHANGED <<cache, recent>>

Init ==
    /\ crs \in SUBSET Repos
    /\ cache \in [Repos -> UNION {Catalogs[r] : r \in Repos}]
    /\ \A r \in Repos : cache[r] \in Catalogs[r]
    /\ request \in Requests
    /\ page \in FirstPages
    /\ stage = "asking"
    /\ todo = <<>>
    /\ list = <<>>
    /\ answer = Nothing
    /\ walked = <<>>
    /\ recent = {}
    /\ quiet = (Parsed(page, noPaginationPage) = 1)
    /\ since = IF quiet THEN Expected ELSE {}
    /\ changes = 0

Next ==
    \/ ListRepos \/ ReadRepo \/ Refuse \/ GetLatestCharts \/ Fail
    \/ ListRepo
    \/ NextPage \/ LastPage
    \/ \E r \in Repos : StoreIndex(r) \/ ChangeRepo(r)

Spec == Init /\ [][Next]_vars

-----------------------------------------------------------------------------
Items == (UNION {UNION Catalogs[r] : r \in Repos}) \cup {RepoItem(r) : r \in Repos}

(* Every variable stays in the range its declaration in the code gives it. *)
TypeOK ==
    /\ crs \subseteq Repos
    /\ cache \in [Repos -> SUBSET Items]
    /\ request \in Requests
    /\ page \in GoInt \cup {NoNumber}
    /\ stage \in Stages
    /\ todo \in Seq(Repos)
    /\ list \in Seq(Items)
    /\ answer \in [items : Seq(Items), pages : Nat]
    /\ walked \in Seq(Items)
    /\ recent \subseteq Items
    /\ quiet \in BOOLEAN
    /\ since \subseteq Items
    /\ changes \in 0 .. MaxChanges

\* Two items the sort does not tell apart, or one listed twice.
Ties ==
    LET query == ParseQueryParameter(request, page) IN
    \/ \E x, y \in Expected : x # y /\ Before(x, y, query) = Before(y, x, query)
    \/ \E j, k \in DOMAIN request.repos : j # k /\ request.repos[j] = request.repos[k]

(***************************************************************************)
(* A client that walks from the first page to the last, while nothing      *)
(* changes, has seen every chart its filters describe, once and in the     *)
(* order it asked for, whatever the size of a page, unless the order       *)
(* leaves two charts open: each page sorts them anew.                      *)
(***************************************************************************)
PagesCover ==
    stage = "done" /\ quiet /\ ~Ties =>
        /\ ItemsOf(walked) = Expected
        /\ Len(walked) = Cardinality(Expected)
        /\ \A j, k \in DOMAIN walked :
             j < k => Before(walked[j], walked[k], ParseQueryParameter(request, page))

(***************************************************************************)
(* A client that walks from the first page to the last has seen all that   *)
(* its filters described when it began, even if charts and repositories    *)
(* are added meanwhile, and even between the reads of one page: what is    *)
(* added only moves the rest further back.  (What is taken away moves it   *)
(* forward, past a client that has seen that page.)                        *)
(***************************************************************************)
AdditionsHideNothing == stage = "done" /\ ~Ties => since \subseteq ItemsOf(walked)

(***************************************************************************)
(* A page shows only what some index held since its request began, however *)
(* the indexes and repositories changed since the page before it.          *)
(***************************************************************************)
AnswerCurrent == stage = "answered" => ItemsOf(answer.items) \subseteq recent

\* The limit and the page of the request.
Limit == Parsed(request.limit, noPaginationLimit)
Asked == Parsed(page, noPaginationPage)

(***************************************************************************)
(* Whatever page and limit a request has, its window lies in the list,     *)
(* unless the offset has wrapped around (queryparam.go:102).               *)
(***************************************************************************)
OnlyWrapPanics ==
    stage = "panicked" => (Asked - 1) * Limit \notin GoInt

-----------------------------------------------------------------------------
(* What makes these properties inductive.                                  *)

\* The list a request gathers stays below half the largest integer.
ListFits == 2 * (Len(list) + Len(todo) * MaxCharts) <= MaxInt

\* A client never asks for a page that is no integer.
PagesFit == answer.pages <= MaxInt

OwnCharts == \A r \in Repos : cache[r] \in Catalogs[r]

\* What has been read and what may still be read counts as recent.
ReadRecently ==
    stage = "reading" =>
        /\ request.kind = "charts"
        /\ ItemsOf(list) \subseteq recent
        /\ \A r \in Repos : cache[r] \subseteq recent

QueryInv ==
    /\ TypeOK /\ ListFits /\ PagesFit /\ OwnCharts /\ ReadRecently
    /\ AnswerCurrent /\ OnlyWrapPanics

\* The repositories a request asks for.
Named == {r \in crs : request.repos # <<>> => r \in ItemsOf(request.repos)}

\* What the request has read and would still read ...
Coming == ItemsOf(list) \cup UNION {cache[r] : r \in ItemsOf(todo)}

\* ... has each chart once, ...
Once ==
    /\ \A j, k \in DOMAIN todo : j # k => todo[j] # todo[k]
    /\ \A j, k \in DOMAIN list : j # k => list[j] # list[k]
    /\ \A k \in DOMAIN list : list[k].repo \notin ItemsOf(todo)

\* ... and, if nothing changes, is all that these repositories hold.
Gathering == stage = "reading" => Once /\ Coming = UNION {cache[r] : r \in Named}

\* The lists of as many elements of S as it has, each strictly before the next.
Strictly(S, query) ==
    {t \in [1 .. Cardinality(S) -> S] :
       \A j, k \in DOMAIN t :
         j < k => Before(t[j], t[k], query) /\ ~Before(t[k], t[j], query)}

\* All that is expected, in the order asked for.
Complete == Strictly(Expected, ParseQueryParameter(request, page))

\* The client has seen the first n of them, and there are more.
Seen(n) ==
    /\ Limit > 0
    /\ n < Cardinality(Expected)
    /\ \E t \in Complete : walked = SubSeq(t, 1, n)

\* The pages so far are the first ones.
Walking ==
    /\ Asked >= 1
    /\ stage \in {"asking", "reading"} =>
         (Asked = 1 /\ walked = <<>>) \/ (Asked > 1 /\ Seen((Asked - 1) * Limit))
    /\ stage = "answered" =>
         IF Asked < answer.pages THEN Seen(Asked * Limit) ELSE walked \in Complete
    /\ stage = "done" => walked \in Complete

WalkInv == quiet /\ ~Ties => Gathering /\ Walking

\* What the filters keep of what is coming.
Gathered == {c \in Coming : Selected(c)}

Earlier(S, x, query) == {y \in S : Before(y, x, query) /\ ~Before(x, y, query)}

\* p pages leave something of S, and every one of the missing is in S behind
\* the elements of these pages.
Ahead(S, p, limit, missing, query) ==
    /\ p = 0 \/ (limit > 0 /\ p * limit < Cardinality(S))
    /\ \A x \in missing : x \in S /\ p * limit <= Cardinality(Earlier(S, x, query))

\* What the client could have found at first, and has not seen, is ahead.
Further(S, p) ==
    Ahead(S, p, Limit, since \ ItemsOf(walked), ParseQueryParameter(request, page))

Growing ==
    /\ Asked >= 1
    /\ stage = "asking" => Further(Expected, Asked - 1)
    /\ stage = "reading" =>
         /\ Once
         /\ ItemsOf(todo) \subseteq Named
         /\ \A c \in ItemsOf(list) : Selected(c) => c \in Expected
         /\ Further(Gathered, Asked - 1)
    /\ stage = "answered" =>
         IF Asked < answer.pages THEN Further(Expected, Asked) ELSE since \subseteq ItemsOf(walked)
    /\ stage = "done" => since \subseteq ItemsOf(walked)

GrowInv == since # {} /\ ~Ties => Growing
=============================================================================
