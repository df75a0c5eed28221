----------------------------- MODULE ChartReads -----------------------------
(***************************************************************************)
(* Requests that read one repository's cached index (pkg/helm/cache.go and *)
(* the readers of pkg/helm/charts.go) while synchronisations replace it    *)
(* and a deletion drops it.  GetChartCacheByRepo hands out the cached      *)
(* slices themselves, so a listing sorts, without a lock, what others      *)
(* read: the sort is modelled one access at a time.  The index is one      *)
(* chart's versions.                                                       *)
(***************************************************************************)
EXTENDS Integers, Sequences, FiniteSets

CONSTANTS
    Clients,     \* slots for requests
    Syncer,      \* a synchronisation
    Remover,     \* the handler that deletes the repository
    Versions,    \* the chart's versions, numbered by creation time
    Orders,      \* the orders in which indexes list them (SortEntries)
    Unlocated,   \* versions whose entry has no URL
    MaxLoads,    \* bound on the indexes loaded
    MaxRequests, \* bound on the requests made
    None         \* absence of an index or of a version

ASSUME ProcsAssumption == Syncer # Remover /\ {Syncer, Remover} \cap Clients = {}
ASSUME OrdersAssumption == Versions \subseteq Nat /\ Orders \subseteq Seq(Versions)
ASSUME NoIndexAssumption == None \notin Nat
ASSUME BoundsAssumption == MaxLoads \in Nat /\ MaxRequests \in Nat

\* Every entry of an index is an object of its own.
ASSUME EntriesAssumption ==
    \A s \in Orders : \A j, k \in DOMAIN s : s[j] = s[k] => j = k

\* GetLatestCharts; GetChartVersion; GetChartBytesByVersion and GetChartFiles
Kinds == {"listing", "versions", "download"}

Procs == Clients \cup {Syncer, Remover}

Stages == {"idle", "map", "sort", "swap", "write", "widen", "pick", "iterate",
           "find", "loaded", "answered"}

VARIABLES
    pc,       \* where each goroutine is
    job,      \* its local variables
    entry,    \* the repository's index in cachedData
    index,    \* the indexes loaded so far
    made      \* the requests made so far

vars == <<pc, job, entry, index, made>>

Shown(s) == {s[k] : k \in DOMAIN s}

(***************************************************************************)
(* A job: its kind, the index it has, the version it asks for, its loop    *)
(* counters, the writes its swap still has to make, and its answer.        *)
(* History: no listing has worked on its index since it has it.            *)
(***************************************************************************)
Fresh == [kind |-> None, ref |-> None, wanted |-> None, i |-> 0, j |-> 0, writes |-> {},
          got |-> <<>>, alone |-> TRUE]

\* A loaded index.  History: the versions it came with; two listings have
\* worked on it at once.
NewIndex(s) == [slice |-> s, words |-> [v \in Versions |-> {v}],
               listed |-> Shown(s), shared |-> FALSE]

Init ==
    /\ pc = [p \in Procs |-> "idle"]
    /\ job = [p \in Procs |-> Fresh]
    /\ entry = None
    /\ index = <<>>
    /\ made = 0

To(p, s) == pc' = [pc EXCEPT ![p] = s]

Index(p) == index[job[p].ref]
Entries(p) == Index(p).slice

-----------------------------------------------------------------------------
(* The cache's map, behind its read-write lock. *)
Inside(P) == {p \in P : pc[p] = "map"}

\* What a request may ask for: a listing shows every chart.
Asks == [listing |-> {None}, versions |-> Versions \cup {None}, download |-> Versions]

\* GetChartCacheByRepo takes the read lock, ...
Enter(p) ==
    /\ pc[p] = "idle"
    /\ pc[Syncer] # "map"
    /\ To(p, "map")
    /\ made < MaxRequests
    /\ made' = made + 1
    /\ \E k \in Kinds : \E v \in Asks[k] :
         job' = [job EXCEPT ![p].kind = k, ![p].wanted = v]
    /\ UNCHANGED <<entry, index>>

\* ... and so does DeleteChartCache.
EnterDelete ==
    /\ pc[Remover] = "idle"
    /\ pc[Syncer] # "map"
    /\ To(Remover, "map")
    /\ UNCHANGED <<job, entry, index, made>>

Lists(p) == job[p].kind = "listing"

\* The requests that use p's index with p.
Sharing(p) == {q \in Clients \ {p} : job[q].ref = entry /\ pc[q] # "answered"}

FirstStage == [listing |-> "sort", versions |-> "iterate", download |-> "find"]

\* The handler leaves with the index.
Leave(p) ==
    /\ pc[p] = "map"
    /\ entry # None
    /\ To(p, FirstStage[job[p].kind])
    /\ job' = [q \in Procs |->
                 IF q = p
                   THEN [job[p] EXCEPT !.ref = entry,
                                       !.i = IF Lists(p) THEN 2 ELSE 1,
                                       !.j = 2,
                                       !.alone = \A o \in Sharing(p) : ~Lists(o)]
                   ELSE [job[q] EXCEPT !.alone = @ /\ ~(Lists(p) /\ q \in Sharing(p))]]
    /\ index' = [index EXCEPT ![entry].shared =
                   @ \/ (Lists(p) /\ \E o \in Sharing(p) : Lists(o))]
    /\ UNCHANGED <<entry, made>>

\* There is no index: the answer is empty, or an error.
LeaveEmpty(p) ==
    /\ pc[p] = "map"
    /\ entry = None
    /\ To(p, "idle")
    /\ job' = [job EXCEPT ![p] = Fresh]
    /\ UNCHANGED <<entry, index, made>>

\* UpdateChartCache: the index is loaded outside the lock and stored in it.
LoadIndex ==
    /\ pc[Syncer] = "idle"
    /\ Len(index) < MaxLoads
    /\ \E s \in Orders : index' = Append(index, NewIndex(s))
    /\ job' = [job EXCEPT ![Syncer].ref = Len(index')]
    /\ To(Syncer, "loaded")
    /\ UNCHANGED <<entry, made>>

\* Mutant: DeleteChartCache's lock is used for stores as well.
StoreUnderReadLock ==
    /\ pc[Syncer] = "loaded"
    /\ To(Syncer, "map")
    /\ UNCHANGED <<job, entry, index, made>>

BeginStore ==
    /\ pc[Syncer] = "loaded"
    /\ Inside(Procs) = {}
    /\ To(Syncer, "map")
    /\ UNCHANGED <<job, entry, index, made>>

EndStore ==
    /\ pc[Syncer] = "map"
    /\ entry' = job[Syncer].ref
    /\ job' = [job EXCEPT ![Syncer] = Fresh]
    /\ To(Syncer, "idle")
    /\ UNCHANGED <<index, made>>

\* Mutant: the entry is emptied, not removed.
EndDeleteEmptied ==
    /\ pc[Remover] = "map"
    /\ entry' = 0
    /\ To(Remover, "idle")
    /\ UNCHANGED <<job, index, made>>

EndDelete ==
    /\ pc[Remover] = "map"
    /\ entry' = None
    /\ To(Remover, "idle")
    /\ UNCHANGED <<job, index, made>>

-----------------------------------------------------------------------------
(***************************************************************************)
(* getLatestChartsFromRepository: the insertion sort that sort.Slice uses  *)
(* on short slices, newest first, then the union of the keywords, then the *)
(* first entry as the latest.                                              *)
(***************************************************************************)

\* Created.After
Newer(x, y) == x > y

Elsewhere == UNCHANGED <<entry, made>>

\* Entry j is compared with the one before it, and swapped if it is newer.
Compare(p) ==
    /\ pc[p] = "sort"
    /\ LET i == job[p].i
           j == job[p].j
       IN \/ /\ i > Len(Entries(p))
             /\ To(p, "widen")
             /\ job' = job
          \/ /\ i <= Len(Entries(p))
             /\ j > 1 /\ Newer(Entries(p)[j], Entries(p)[j - 1])
             /\ To(p, "swap")
             /\ job' = job
          \/ /\ i <= Len(Entries(p))
             /\ ~(j > 1 /\ Newer(Entries(p)[j], Entries(p)[j - 1]))
             /\ pc' = pc
             /\ job' = [job EXCEPT ![p].i = i + 1, ![p].j = i + 1]
    /\ UNCHANGED index
    /\ Elsewhere

\* The swap loads both entries again, ...
Swap(p) ==
    /\ pc[p] = "swap"
    /\ To(p, "write")
    /\ LET j == job[p].j IN
         job' = [job EXCEPT ![p].j = j - 1,
                            ![p].writes = {<<j - 1, Entries(p)[j]>>, <<j, Entries(p)[j - 1]>>}]
    /\ UNCHANGED index
    /\ Elsewhere

\* ... and stores them in an order that is the compiler's choice.
Write(p) ==
    /\ pc[p] = "write"
    /\ \E w \in job[p].writes :
         /\ index' = [index EXCEPT ![job[p].ref].slice[w[1]] = w[2]]
         /\ job' = [job EXCEPT ![p].writes = @ \ {w}]
    /\ To(p, IF Cardinality(job[p].writes) = 1 THEN "sort" ELSE "write")
    /\ Elsewhere

\* Mutant: the latest version keeps its own keywords.
WidenNothing(p) ==
    /\ pc[p] = "widen"
    /\ To(p, IF Entries(p) = <<>> THEN "answered" ELSE "pick")
    /\ UNCHANGED <<job, index>>
    /\ Elsewhere

\* ExtractUniqueKeywords; a chart without versions is left out.
Widen(p) ==
    /\ pc[p] = "widen"
    /\ IF Entries(p) = <<>>
         THEN To(p, "answered") /\ index' = index
         ELSE /\ To(p, "pick")
              /\ index' = [index EXCEPT ![job[p].ref].words[Entries(p)[1]] =
                             UNION {Index(p).words[v] : v \in Shown(Entries(p))}]
    /\ UNCHANGED job
    /\ Elsewhere

Pick(p) ==
    /\ pc[p] = "pick"
    /\ job' = [job EXCEPT ![p].got = <<Entries(p)[1]>>]
    /\ To(p, "answered")
    /\ UNCHANGED index
    /\ Elsewhere

-----------------------------------------------------------------------------
(* GetChartVersion: the entries in the order the slice has them. *)
needShow(v, version) == version \in {None, v}

\* Mutant: the last entry is left out.
IterateShort(p) ==
    /\ pc[p] = "iterate"
    /\ LET k == job[p].i
           v == Entries(p)[k]
       IN \/ /\ k >= Len(Entries(p))
             /\ To(p, "answered")
             /\ job' = job
          \/ /\ k < Len(Entries(p))
             /\ pc' = pc
             /\ job' = [job EXCEPT ![p].i = k + 1,
                                   ![p].got = IF needShow(v, job[p].wanted) THEN Append(@, v) ELSE @]
    /\ UNCHANGED index
    /\ Elsewhere

Iterate(p) ==
    /\ pc[p] = "iterate"
    /\ LET k == job[p].i
           v == Entries(p)[k]
       IN \/ /\ k > Len(Entries(p))
             /\ To(p, "answered")
             /\ job' = job
          \/ /\ k <= Len(Entries(p))
             /\ pc' = pc
             /\ job' = [job EXCEPT ![p].i = k + 1,
                                   ![p].got = IF needShow(v, job[p].wanted) THEN Append(@, v) ELSE @]
    /\ UNCHANGED index
    /\ Elsewhere

Answer(p) ==
    /\ pc[p] = "answered"
    /\ To(p, "idle")
    /\ job' = [job EXCEPT ![p] = Fresh]
    /\ UNCHANGED <<entry, index, made>>

-----------------------------------------------------------------------------
(* GetChartBytesByVersion and getChartByVersion: the first entry of the    *)
(* version asked for; module ChartStream goes on from there.               *)
Past(p) == job[p].i > Len(Entries(p))
Here(p) == Entries(p)[job[p].i]
Hit(p) == ~Past(p) /\ Here(p) = job[p].wanted

Find(p) ==
    /\ pc[p] = "find"
    /\ \/ /\ Past(p)
          /\ To(p, "answered")
          /\ job' = job
       \/ /\ Hit(p) /\ Here(p) \notin Unlocated
          /\ To(p, "answered")
          /\ job' = [job EXCEPT ![p].got = <<Here(p)>>]
       \/ /\ ~Past(p) /\ ~Hit(p)
          /\ pc' = pc
          /\ job' = [job EXCEPT ![p].i = @ + 1]
    /\ UNCHANGED index
    /\ Elsewhere

\* entry.URLs[0] of an entry without URLs panics.
NoAddress(p) == pc[p] = "find" /\ Hit(p) /\ Here(p) \in Unlocated

\* The HTTP server ends the one request.
RequestPanics(p) ==
    /\ NoAddress(p)
    /\ To(p, "idle")
    /\ job' = [job EXCEPT ![p] = Fresh]
    /\ UNCHANGED index
    /\ Elsewhere

-----------------------------------------------------------------------------
(***************************************************************************)
(* The process dies: Go ends a program in which a map is written while     *)
(* another goroutine is inside it, and gRPC does not recover from a        *)
(* handler's panic.  Nothing it kept in memory survives.                   *)
(***************************************************************************)
MapRace == \E p \in {Syncer, Remover} : \E q \in Procs \ {p} : {p, q} \subseteq Inside(Procs)

Die ==
    /\ MapRace \/ \E p \in Clients : NoAddress(p)
    /\ pc' = [p \in Procs |-> "idle"]
    /\ job' = [p \in Procs |-> Fresh]
    /\ entry' = None
    /\ UNCHANGED <<index, made>>

Listing(p) == Compare(p) \/ Swap(p) \/ Write(p) \/ Widen(p) \/ Pick(p)

Next ==
    \/ \E p \in Clients : Enter(p) \/ Leave(p) \/ LeaveEmpty(p) \/ Answer(p)
    \/ \E p \in Clients : Listing(p) \/ Iterate(p) \/ Find(p) \/ RequestPanics(p)
    \/ LoadIndex \/ BeginStore \/ EndStore
    \/ EnterDelete \/ EndDelete
    \/ Die

Spec == Init /\ [][Next]_vars

-----------------------------------------------------------------------------
Jobs == [kind : Kinds \cup {None}, ref : 1 .. MaxLoads \cup {None}, wanted : Versions \cup {None},
         i : Nat, j : Nat, writes : SUBSET (Nat \X Versions),
         got : Seq(Versions), alone : BOOLEAN]

Indexes == [slice : Seq(Versions), words : [Versions -> SUBSET Versions],
            listed : SUBSET Versions, shared : BOOLEAN]

(* Every variable stays in the range its declaration in the code gives it. *)
TypeOK ==
    /\ pc \in [Procs -> Stages]
    /\ job \in [Procs -> Jobs]
    /\ entry \in 1 .. MaxLoads \cup {None}
    /\ index \in Seq(Indexes)
    /\ made \in 0 .. MaxRequests

(***************************************************************************)
(* Once a repository's index is cached, requests find one until the        *)
(* repository is deleted: however readers, listings and synchronisations   *)
(* interleave, an index is replaced and never missing, and the process     *)
(* that holds it stays alive.  Two steps in the code are exceptions: a     *)
(* deletion writes the map under the read lock (cache.go:83), so that it   *)
(* may end the process with all its indexes instead of dropping one, and a *)
(* download over gRPC panics at an entry without a URL (charts.go:901).    *)
(***************************************************************************)
IndexKept ==
    [][entry # None /\ entry' = None =>
         pc[Remover] = "map" \/ \E p \in Clients : NoAddress(p)]_vars

(***************************************************************************)
(* The latest version a listing shows is the newest one of the index it    *)
(* took, with the keywords of every version of the chart (the comment at   *)
(* charts.go:796), unless two listings have sorted that index at once:     *)
(* also when readers run, the index is replaced or the repository goes.    *)
(***************************************************************************)
ListedNewest ==
    \A p \in Clients :
      pc[p] = "answered" /\ Lists(p) /\ ~Index(p).shared /\ Index(p).listed # {} =>
        LET v == job[p].got[1] IN
          /\ \A u \in Index(p).listed : u <= v
          /\ Index(p).words[v] = Index(p).listed

(***************************************************************************)
(* The versions a reader answers are versions of one index, even when that *)
(* index is replaced while it reads; and unless a listing has sorted under *)
(* it, they are all those asked for, each once.                            *)
(***************************************************************************)
VersionsOfOneIndex ==
    \A p \in Clients : pc[p] = "answered" /\ ~Lists(p) =>
        LET asked == {v \in Index(p).listed : needShow(v, job[p].wanted)}
            got == job[p].got
        IN /\ Shown(got) \subseteq asked
           /\ job[p].alone /\ ~Index(p).shared =>
                Shown(got) = asked /\ Len(got) = Cardinality(asked)

-----------------------------------------------------------------------------
(***************************************************************************)
(* The strengthenings that make the safety properties inductive.  First,   *)
(* a store has the map to itself.                                          *)
(***************************************************************************)
StoresExclude == pc[Syncer] = "map" => Inside(Procs) = {Syncer}

(* Where each goroutine can be and what it then has. *)
ListStages == {"sort", "swap", "write", "widen", "pick"}

Counters(p) ==
    LET n == Len(Entries(p))
        i == job[p].i
        j == job[p].j
    IN /\ pc[p] = "sort" => i >= 2 /\ j \in 1 .. i /\ (i <= n \/ j = i)
       /\ pc[p] = "swap" => j \in 2 .. i /\ i <= n
       /\ pc[p] = "write" => /\ j \in 1 .. i - 1 /\ i <= n
                             /\ job[p].writes # {}
                             /\ IsFiniteSet(job[p].writes)
                             /\ \A w \in job[p].writes : w[1] \in {j, j + 1}
       /\ pc[p] # "write" => job[p].writes = {}
       /\ pc[p] = "pick" => n >= 1
       /\ pc[p] \in {"iterate", "find"} => i \in 1 .. n + 1

Placed(p) ==
    /\ pc[p] # "loaded"
    /\ pc[p] \in {"idle", "map"} => job[p].ref = None /\ job[p].writes = {}
    /\ pc[p] \notin {"idle", "map"} => job[p].ref \in DOMAIN index /\ Counters(p)
    /\ pc[p] # "idle" => job[p].kind \in Kinds /\ job[p].wanted \in Asks[job[p].kind]
    /\ pc[p] \in ListStages => job[p].kind = "listing"
    /\ pc[p] = "iterate" => job[p].kind = "versions"
    /\ pc[p] = "find" => job[p].kind = "download"
    /\ pc[p] \in {"idle", "map", "find"} => job[p].got = <<>>

Places ==
    /\ Len(index) <= MaxLoads
    /\ entry # None => entry \in DOMAIN index
    /\ pc[Syncer] \in {"idle", "loaded", "map"}
    /\ IF pc[Syncer] = "idle" THEN job[Syncer].ref = None ELSE job[Syncer].ref \in DOMAIN index
    /\ pc[Remover] \in {"idle", "map"}
    /\ job[Remover].ref = None
    /\ \A p \in Clients : Placed(p)

PlaceInv == TypeOK /\ Places

\* Nothing gets into an index that it did not come with, and no version
\* loses a keyword.
Contained ==
    /\ \A r \in DOMAIN index :
         /\ Shown(index[r].slice) \subseteq index[r].listed
         /\ \A v \in index[r].listed : v \in index[r].words[v] /\ index[r].words[v] \subseteq index[r].listed
    /\ \A p \in Clients : \A w \in job[p].writes : w[2] \in Index(p).listed

\* The histories tell of every listing that works on another one's index.
Listings(p) == pc[p] \in ListStages

Exclusive ==
    \A p, q \in Clients :
        p # q /\ pc[p] \notin {"idle", "map", "answered"} /\ Listings(q) /\ job[p].ref = job[q].ref =>
            ~job[p].alone /\ (Listings(p) => Index(p).shared)

\* The slice has every version it came with, once.
Whole(s, S) == Shown(s) = S /\ \A a, b \in DOMAIN s : s[a] = s[b] => a = b

\* What the slice will be when p has made its writes.
Settles(p, s) ==
    /\ \A k \in DOMAIN s : Entries(p)[k] = s[k] \/ <<k, s[k]>> \in job[p].writes
    /\ \A w \in job[p].writes : w[2] = s[w[1]]

\* Entries 1 to i are in order, but for those before entry j.
Ordered(s, i, j) == \A a, b \in DOMAIN s : a < b /\ b <= i /\ b # j => s[a] >= s[b]

SortInv(p) ==
    \E s \in [DOMAIN Entries(p) -> Versions] :
        /\ Settles(p, s)
        /\ Whole(s, Index(p).listed)
        /\ Ordered(s, IF pc[p] \in {"widen", "pick"} THEN Len(Entries(p)) ELSE job[p].i,
                      IF pc[p] \in {"widen", "pick"} THEN 0 ELSE job[p].j)
        /\ pc[p] = "swap" => s[job[p].j] > s[job[p].j - 1]
        /\ pc[p] = "pick" => Index(p).words[s[1]] = Index(p).listed

Sorts == \A p \in Clients : Listings(p) /\ ~Index(p).shared => SortInv(p)

\* An index that nobody sorts is whole.  (What a process that died had in
\* memory is of no use to anyone.)
Resting(r) ==
    /\ ~index[r].shared
    /\ r = entry \/ \E p \in Procs : job[p].ref = r
    /\ \A p \in Clients : job[p].ref = r => ~Listings(p)

RestWhole == \A r \in DOMAIN index : Resting(r) => Whole(index[r].slice, index[r].listed)

\* What a reader has gathered from the entries it has passed.
Passed(p) == {Entries(p)[k] : k \in 1 .. job[p].i - 1}

Gathered(p) ==
    LET asked == {v \in Index(p).listed : needShow(v, job[p].wanted)}
        got == job[p].got
    IN /\ Shown(got) \subseteq asked
       /\ job[p].alone /\ ~Index(p).shared =>
            /\ \A a, b \in DOMAIN got : got[a] = got[b] => a = b
            /\ pc[p] = "iterate" => Shown(got) = asked \cap Passed(p)
            /\ pc[p] = "find" => job[p].wanted \notin Passed(p)
            /\ pc[p] = "answered" => Shown(got) = asked

Gathers == \A p \in Clients : pc[p] \in {"iterate", "find", "answered"} /\ ~Lists(p) => Gathered(p)

\* The latest version a listing shows is one of those the index came with.
Chosen ==
    \A p \in Clients :
      pc[p] = "answered" /\ Lists(p) /\ ~Index(p).shared /\ Index(p).listed # {} =>
        job[p].got # <<>> /\ job[p].got[1] \in Index(p).listed

ReadInv ==
    /\ PlaceInv
    /\ Contained
    /\ Exclusive
    /\ Sorts
    /\ RestWhole
    /\ Gathers
    /\ Chosen
    /\ ListedNewest
=============================================================================
