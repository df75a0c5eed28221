--------------------------- MODULE MCChartQueries ---------------------------
EXTENDS ChartQueries, TLC

a == <<"letter", 97, 97>>
A == <<"letter", 97, 65>>
b == <<"letter", 98, 98>>
one == <<"digit", 49, 49>>
dash == <<"symbol", 45, 45>>

official == <<a, b>>
team == <<A, b>>

Version(t, w) == [created |-> t, words |-> w]
Chart(r, n, vs) == [repo |-> r, name |-> n, versions |-> vs]

Plain(r) == Chart(r, <<a>>, {Version(1, {"web"}), Version(4, {})})
Extension(r) == Chart(r, <<a, one>>, {Version(2, {"openfuyao-extension"}), Version(3, {"db"})})
Capital(r) == Chart(r, <<A, dash>>, {Version(5, {"web", "db"})})

Indexes ==
    official :> {{Plain(official), Extension(official)}, {}} @@
    team :> {{Capital(team), Plain(team)}, {Capital(team)}}

R(repos, chart, types, scene, sortBy, order, limit, kind) ==
    [repos |-> repos, chart |-> chart, types |-> types, scene |-> scene,
     sortBy |-> sortBy, order |-> order, limit |-> limit, kind |-> kind]

\* Every order with every limit, every type with every scene, ...
SomeRequests ==
    {R(<<>>, <<>>, {}, {}, by, order, limit, "charts") :
       by \in {"name", "time"}, order \in {"asc", "desc"}, limit \in {NoNumber, 1, 2, 4, 15}}
    \cup {R(<<>>, <<>>, types, scene, "", "asc", 1, "charts") :
            types \in {{}, {"application"}, {"", "openfuyao-extension"}},
            scene \in {{}, {"web"}, {"db", "web"}, {"none"}}}
    \cup {R(repos, chart, {}, {}, "time", "asc", 1, "charts") :
            repos \in {<<team>>, <<official, official>>}, chart \in {<<>>, <<A>>}}
    \cup {R(<<>>, chart, {}, {}, by, order, 1, "repos") :
            chart \in {<<>>, <<A>>}, by \in {"name", "time"}, order \in {"asc", "desc"}}

\* No page, the first, and one whose offset wraps to 3 with a limit of 15.
SomePages == {NoNumber, 1, 14}
SomeScenes == {"web", "db"}
=============================================================================
