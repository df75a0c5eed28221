-------------------------- MODULE ChartReadsProofs --------------------------
(***************************************************************************)
(* Theorems about ChartReads, for any requests, versions, orders in which  *)
(* indexes list them, and numbers of indexes loaded and requests made.     *)
(***************************************************************************)
EXTENDS ChartReads, FiniteSetTheorems, TLAPS

(* What the types say of an index, and of the one a request has. *)
LEMMA IndexTyped ==
  ASSUME TypeOK, NEW r \in DOMAIN index
  PROVE  /\ index[r] \in Indexes
         /\ index[r].slice \in Seq(Versions)
         /\ Len(index[r].slice) \in Nat
         /\ DOMAIN index[r].slice = 1 .. Len(index[r].slice)
         /\ \A k \in DOMAIN index[r].slice : index[r].slice[k] \in Versions
         /\ index[r].words \in [Versions -> SUBSET Versions]
         /\ index[r].listed \in SUBSET Versions
         /\ index[r].shared \in BOOLEAN
<1>1. index[r] \in Indexes
  BY DEF TypeOK
<1>2. index[r].slice \in Seq(Versions)
  BY <1>1 DEF Indexes
<1> QED
  BY <1>1, <1>2 DEF Indexes

LEMMA JobTyped ==
  ASSUME TypeOK, NEW p \in Procs
  PROVE  /\ job[p] \in Jobs
         /\ job[p].i \in Nat /\ job[p].j \in Nat
         /\ job[p].kind \in Kinds \cup {None}
         /\ job[p].ref \in 1 .. MaxLoads \cup {None}
         /\ job[p].wanted \in Versions \cup {None}
         /\ job[p].writes \in SUBSET (Nat \X Versions)
         /\ job[p].got \in Seq(Versions)
         /\ job[p].alone \in BOOLEAN
BY DEF TypeOK, Jobs

LEMMA ClientsAreProcs ==
  /\ \A p \in Clients : p \in Procs /\ p # Syncer /\ p # Remover
  /\ Syncer \in Procs /\ Remover \in Procs /\ Syncer # Remover
BY ProcsAssumption DEF Procs

LEMMA FreshTyped == Fresh \in Jobs
BY DEF Fresh, Jobs

LEMMA NewIndexTyped ==
  ASSUME NEW s \in Orders
  PROVE  NewIndex(s) \in Indexes
BY OrdersAssumption DEF NewIndex, Indexes, Shown

LEMMA VersionsAreNumbers == \A v \in Versions : v \in Int
BY OrdersAssumption

LEMMA PairFinite == \A a, b : IsFiniteSet({a, b})
<1> SUFFICES ASSUME NEW a, NEW b PROVE IsFiniteSet({a, b})
  OBVIOUS
<1>1. IsFiniteSet({a})
  BY FS_Singleton
<1>2. IsFiniteSet({a} \cup {b})
  BY <1>1, FS_AddElement
<1>3. {a} \cup {b} = {a, b}
  OBVIOUS
<1> QED
  BY <1>2, <1>3

-----------------------------------------------------------------------------
(***************************************************************************)
(* What no step does to an index that has been loaded: drop it, shorten    *)
(* its slice, take a keyword from a version, or unlearn that it is shared. *)
(***************************************************************************)
Grown ==
  /\ Len(index) <= Len(index')
  /\ \A r \in DOMAIN index :
       /\ r \in DOMAIN index'
       /\ Len(index'[r].slice) = Len(index[r].slice)
       /\ index'[r].listed = index[r].listed
       /\ \A v \in Versions : index[r].words[v] \subseteq index'[r].words[v]
       /\ index[r].shared => index'[r].shared

LEMMA WriteTyped ==
  ASSUME PlaceInv, NEW p \in Clients, pc[p] = "write", NEW w \in job[p].writes
  PROVE  /\ job[p].ref \in DOMAIN index
         /\ w[1] \in DOMAIN Entries(p)
         /\ w[1] \in Nat
         /\ w[2] \in Versions
<1>1. p \in Procs
  BY ClientsAreProcs
<1>2. w \in Nat \X Versions
  BY <1>1, JobTyped DEF PlaceInv
<1>3. job[p].ref \in DOMAIN index /\ Counters(p)
  BY DEF PlaceInv, Places, Placed
<1>4. job[p].i \in Nat /\ job[p].j \in Nat
  BY <1>1, JobTyped DEF PlaceInv
<1>5. DOMAIN Entries(p) = 1 .. Len(Entries(p)) /\ Len(Entries(p)) \in Nat
  BY <1>3, IndexTyped DEF Entries, Index, PlaceInv
<1> QED
  BY <1>2, <1>3, <1>4, <1>5 DEF Counters

LEMMA WidenTyped ==
  ASSUME PlaceInv, NEW p \in Clients, pc[p] \in {"widen", "pick"}, Entries(p) # <<>>
  PROVE  /\ job[p].ref \in DOMAIN index
         /\ 1 \in DOMAIN Entries(p)
         /\ Entries(p)[1] \in Versions
         /\ Entries(p)[1] \in Shown(Entries(p))
         /\ UNION {Index(p).words[v] : v \in Shown(Entries(p))} \in SUBSET Versions
<1>1. job[p].ref \in DOMAIN index
  BY DEF PlaceInv, Places, Placed
<1>2. Entries(p) \in Seq(Versions)
  BY <1>1, IndexTyped DEF PlaceInv, Entries, Index
<1>3. 1 \in DOMAIN Entries(p) /\ Entries(p)[1] \in Versions
  BY <1>2
<1>4. Shown(Entries(p)) \subseteq Versions
  BY <1>2 DEF Shown
<1>5. \A v \in Versions : Index(p).words[v] \in SUBSET Versions
  BY <1>1, IndexTyped DEF PlaceInv, Index
<1>6. UNION {Index(p).words[v] : v \in Shown(Entries(p))} \in SUBSET Versions
  BY <1>4, <1>5
<1> QED
  BY <1>1, <1>3, <1>6 DEF Shown

\* What a write does to the indexes, and what widening does.
Wrote(p, w) == index' = [index EXCEPT ![job[p].ref].slice[w[1]] = w[2]]

AllWords(p) == UNION {Index(p).words[v] : v \in Shown(Entries(p))}

Widened(p) == index' = [index EXCEPT ![job[p].ref].words[Entries(p)[1]] = AllWords(p)]

\* A write replaces one entry of one slice.
LEMMA WriteIndex ==
  ASSUME PlaceInv, NEW p \in Clients, pc[p] = "write", NEW w \in job[p].writes, Wrote(p, w)
  PROVE  /\ index' \in Seq(Indexes)
         /\ Len(index') = Len(index) /\ DOMAIN index' = DOMAIN index
         /\ \A r \in DOMAIN index :
              /\ r # job[p].ref => index'[r] = index[r]
              /\ Len(index'[r].slice) = Len(index[r].slice)
              /\ DOMAIN index'[r].slice = DOMAIN index[r].slice
              /\ index'[r].words = index[r].words
              /\ index'[r].listed = index[r].listed
              /\ index'[r].shared = index[r].shared
         /\ \A k \in DOMAIN Entries(p) :
              index'[job[p].ref].slice[k] = IF k = w[1] THEN w[2] ELSE Entries(p)[k]
<1> DEFINE r == job[p].ref
           new == [index[r].slice EXCEPT ![w[1]] = w[2]]
<1>1. r \in DOMAIN index /\ w[1] \in DOMAIN index[r].slice /\ w[2] \in Versions
  BY WriteTyped DEF Entries, Index
<1>2. index[r] \in Indexes /\ index[r].slice \in Seq(Versions)
  BY <1>1, IndexTyped DEF PlaceInv
<1>3. new \in Seq(Versions) /\ Len(new) = Len(index[r].slice) /\ DOMAIN new = DOMAIN index[r].slice
  BY <1>1, <1>2
<1>4. [index[r] EXCEPT !.slice = new] \in Indexes
  BY <1>2, <1>3 DEF Indexes
<1>5. index' = [index EXCEPT ![r] = [index[r] EXCEPT !.slice = new]]
  BY Zenon DEF Wrote
<1>6. index \in Seq(Indexes)
  BY DEF PlaceInv, TypeOK
<1> HIDE DEF new
<1>7. index' \in Seq(Indexes) /\ Len(index') = Len(index) /\ DOMAIN index' = DOMAIN index
  BY <1>1, <1>4, <1>5, <1>6
<1>8. \A q \in DOMAIN index : q # r => index'[q] = index[q]
  BY <1>5, <1>6
<1>9. index'[r] = [index[r] EXCEPT !.slice = new]
  BY <1>1, <1>5, <1>6
<1>10. /\ index'[r].slice = new /\ index'[r].words = index[r].words
       /\ index'[r].listed = index[r].listed /\ index'[r].shared = index[r].shared
  BY <1>2, <1>9 DEF Indexes
<1>11. \A k \in DOMAIN index[r].slice : new[k] = IF k = w[1] THEN w[2] ELSE index[r].slice[k]
  BY <1>1, <1>2 DEF new
<1> QED
  BY <1>3, <1>7, <1>8, <1>10, <1>11 DEF Entries, Index

\* Widening gives one version more keywords.
LEMMA WidenIndex ==
  ASSUME PlaceInv, NEW p \in Clients, pc[p] = "widen", Entries(p) # <<>>, Widened(p)
  PROVE  /\ index' \in Seq(Indexes)
         /\ Len(index') = Len(index) /\ DOMAIN index' = DOMAIN index
         /\ \A r \in DOMAIN index :
              /\ r # job[p].ref => index'[r] = index[r]
              /\ index'[r].slice = index[r].slice
              /\ index'[r].listed = index[r].listed
              /\ index'[r].shared = index[r].shared
         /\ \A v \in Versions :
              index'[job[p].ref].words[v] = IF v = Entries(p)[1] THEN AllWords(p) ELSE Index(p).words[v]
<1> DEFINE r == job[p].ref
           first == Entries(p)[1]
           all == AllWords(p)
           new == [index[r].words EXCEPT ![first] = all]
<1>1. r \in DOMAIN index /\ first \in Versions /\ all \in SUBSET Versions
  BY WidenTyped DEF AllWords
<1>2. index[r] \in Indexes /\ index[r].words \in [Versions -> SUBSET Versions]
  BY <1>1, IndexTyped DEF PlaceInv
<1> HIDE DEF first, all
<1>3. new \in [Versions -> SUBSET Versions]
  BY <1>1, <1>2
<1>4. [index[r] EXCEPT !.words = new] \in Indexes
  BY <1>2, <1>3 DEF Indexes
<1>5. index' = [index EXCEPT ![r] = [index[r] EXCEPT !.words = new]]
  BY Zenon DEF Widened, Index, first, all
<1>6. index \in Seq(Indexes)
  BY DEF PlaceInv, TypeOK
<1>11. \A v \in Versions : new[v] = IF v = first THEN all ELSE index[r].words[v]
  BY <1>1, <1>2
<1> HIDE DEF new
<1>7. index' \in Seq(Indexes) /\ Len(index') = Len(index) /\ DOMAIN index' = DOMAIN index
  BY <1>1, <1>4, <1>5, <1>6
<1>8. \A q \in DOMAIN index : q # r => index'[q] = index[q]
  BY <1>5, <1>6
<1>9. index'[r] = [index[r] EXCEPT !.words = new]
  BY <1>1, <1>5, <1>6
<1>10. /\ index'[r].words = new /\ index'[r].slice = index[r].slice
       /\ index'[r].listed = index[r].listed /\ index'[r].shared = index[r].shared
  BY <1>2, <1>9 DEF Indexes
<1> QED
  BY <1>7, <1>8, <1>10, <1>11 DEF Index, first, all

\* A request takes note that two listings share the index.
LEMMA LeaveIndex ==
  ASSUME PlaceInv, NEW r \in DOMAIN index, NEW b \in BOOLEAN,
         index' = [index EXCEPT ![r].shared = @ \/ b]
  PROVE  /\ index' \in Seq(Indexes)
         /\ Len(index') = Len(index) /\ DOMAIN index' = DOMAIN index
         /\ \A q \in DOMAIN index :
              /\ index'[q].slice = index[q].slice
              /\ index'[q].words = index[q].words
              /\ index'[q].listed = index[q].listed
              /\ index'[q].shared = IF q = r THEN index[q].shared \/ b ELSE index[q].shared
<1>1. index[r] \in Indexes /\ index[r].shared \in BOOLEAN
  BY IndexTyped DEF PlaceInv
<1>2. [index[r] EXCEPT !.shared = index[r].shared \/ b] \in Indexes
  BY <1>1 DEF Indexes
<1>3. index' = [index EXCEPT ![r] = [index[r] EXCEPT !.shared = index[r].shared \/ b]]
  OBVIOUS
<1>4. index \in Seq(Indexes)
  BY DEF PlaceInv, TypeOK
<1>5. index' \in Seq(Indexes) /\ Len(index') = Len(index) /\ DOMAIN index' = DOMAIN index
  BY <1>2, <1>3, <1>4
<1>6. index'[r] = [index[r] EXCEPT !.shared = index[r].shared \/ b]
  BY <1>3, <1>4
<1>7. \A q \in DOMAIN index : q # r => index'[q] = index[q]
  BY <1>3, <1>4
<1>8. /\ index'[r].slice = index[r].slice /\ index'[r].words = index[r].words
      /\ index'[r].listed = index[r].listed /\ index'[r].shared = (index[r].shared \/ b)
  BY <1>1, <1>6 DEF Indexes
<1> QED
  BY <1>5, <1>7, <1>8

LEMMA LoadedIndex ==
  ASSUME PlaceInv, NEW s \in Orders, index' = Append(index, NewIndex(s)), Len(index) < MaxLoads
  PROVE  /\ index' \in Seq(Indexes)
         /\ Len(index') = Len(index) + 1 /\ Len(index') \in DOMAIN index'
         /\ Len(index') \in 1 .. MaxLoads
         /\ index'[Len(index')] = NewIndex(s)
         /\ DOMAIN index' = DOMAIN index \cup {Len(index')}
         /\ \A r \in DOMAIN index : r # Len(index') /\ index'[r] = index[r]
<1>1. index \in Seq(Indexes) /\ NewIndex(s) \in Indexes
  BY NewIndexTyped DEF PlaceInv, TypeOK
<1> HIDE DEF NewIndex
<1> QED
  BY <1>1, BoundsAssumption

-----------------------------------------------------------------------------
(* Where the goroutines are. *)

\* A request that a step does not touch stays where it is.
LEMMA PlacedKept ==
  ASSUME PlaceInv, Grown, NEW q \in Clients, pc'[q] = pc[q],
         job'[q].kind = job[q].kind, job'[q].ref = job[q].ref, job'[q].wanted = job[q].wanted,
         job'[q].i = job[q].i, job'[q].j = job[q].j, job'[q].writes = job[q].writes,
         job'[q].got = job[q].got
  PROVE  Placed(q)'
<1>1. Placed(q)
  BY DEF PlaceInv, Places
<1>2. ASSUME job[q].ref \in DOMAIN index
      PROVE  /\ job'[q].ref \in DOMAIN index'
             /\ Len(Entries(q)') = Len(Entries(q))
  BY <1>2 DEF Grown, Entries, Index
<1>3. ASSUME job[q].ref \in DOMAIN index, Counters(q) PROVE Counters(q)'
  BY <1>2, <1>3 DEF Counters
<1> QED
  BY <1>1, <1>2, <1>3 DEF Placed

\* Nothing that a request's step does touches the others' whereabouts.
Apart(p) ==
  /\ pc' \in [Procs -> Stages] /\ job' \in [Procs -> Jobs]
  /\ \A q \in Procs : q # p =>
       /\ pc'[q] = pc[q]
       /\ job'[q].kind = job[q].kind /\ job'[q].ref = job[q].ref /\ job'[q].wanted = job[q].wanted
       /\ job'[q].i = job[q].i /\ job'[q].j = job[q].j /\ job'[q].writes = job[q].writes
       /\ job'[q].got = job[q].got

LEMMA RequestStep ==
  ASSUME PlaceInv, NEW p \in Clients, Apart(p), Placed(p)', Grown,
         index' \in Seq(Indexes), Len(index') = Len(index),
         entry' = entry, made' \in 0 .. MaxRequests
  PROVE  PlaceInv'
<1>1. TypeOK'
  BY DEF PlaceInv, TypeOK, Apart
<1>2. \A q \in Clients : Placed(q)'
  <2> SUFFICES ASSUME NEW q \in Clients, q # p PROVE Placed(q)'
    OBVIOUS
  <2> QED
    BY PlacedKept, ClientsAreProcs DEF Apart
<1>3. DOMAIN index' = DOMAIN index
  BY DEF PlaceInv, TypeOK
<1>4. pc'[Syncer] = pc[Syncer] /\ job'[Syncer].ref = job[Syncer].ref
  BY ClientsAreProcs DEF Apart
<1>5. pc'[Remover] = pc[Remover] /\ job'[Remover].ref = job[Remover].ref
  BY ClientsAreProcs DEF Apart
<1> QED
  BY <1>1, <1>2, <1>3, <1>4, <1>5 DEF PlaceInv, Places

\* The usual form of a request's step.
LEMMA OneJob ==
  ASSUME PlaceInv, NEW p \in Procs, NEW s \in Stages, NEW f \in Jobs,
         pc' = [pc EXCEPT ![p] = s], job' = [job EXCEPT ![p] = f]
  PROVE  /\ Apart(p) /\ pc'[p] = s /\ job'[p] = f
         /\ \A q \in Procs : q # p => pc'[q] = pc[q] /\ job'[q] = job[q]
BY DEF PlaceInv, TypeOK, Apart

LEMMA SameIndex ==
  ASSUME PlaceInv, index' = index
  PROVE  Grown /\ index' \in Seq(Indexes) /\ Len(index') = Len(index)
<1>1. \A r \in DOMAIN index : index[r].words \in [Versions -> SUBSET Versions]
  BY IndexTyped DEF PlaceInv
<1>2. index \in Seq(Indexes)
  BY DEF PlaceInv, TypeOK
<1>3. Len(index) \in Nat
  BY <1>2
<1> QED
  BY <1>1, <1>2, <1>3 DEF Grown

LEMMA EnterPlaces ==
  ASSUME PlaceInv, NEW p \in Clients, Enter(p)
  PROVE  PlaceInv' /\ Grown
<1>0. PICK k \in Kinds : \E v \in Asks[k] : job' = [job EXCEPT ![p].kind = k, ![p].wanted = v]
  BY DEF Enter
<1>1. PICK v \in Asks[k] : job' = [job EXCEPT ![p].kind = k, ![p].wanted = v]
  BY <1>0
<1>2. v \in Versions \cup {None}
  BY DEF Asks, Kinds
<1>3. p \in Procs /\ job[p] \in Jobs /\ Placed(p)
  BY ClientsAreProcs, JobTyped DEF PlaceInv, Places
<1> DEFINE f == [job[p] EXCEPT !.kind = k, !.wanted = v]
<1>4. f \in Jobs
  BY <1>2, <1>3 DEF Jobs
<1>5. job' = [job EXCEPT ![p] = f]
  BY <1>1, <1>3 DEF PlaceInv, TypeOK, Jobs
<1>6. f.kind = k /\ f.wanted = v /\ f.ref = job[p].ref /\ f.writes = job[p].writes /\ f.got = job[p].got
  BY <1>3 DEF Jobs
<1> HIDE DEF f
<1>7. Apart(p) /\ pc'[p] = "map" /\ job'[p] = f
  BY <1>3, <1>4, <1>5, OneJob DEF Enter, To, Stages
<1>8. Placed(p)'
  BY <1>3, <1>6, <1>7 DEF Placed, ListStages, Enter
<1>9. Grown /\ index' \in Seq(Indexes) /\ Len(index') = Len(index)
  BY SameIndex DEF Enter
<1>10. made' \in 0 .. MaxRequests
  BY BoundsAssumption DEF Enter, PlaceInv, TypeOK
<1> QED
  BY <1>7, <1>8, <1>9, <1>10, RequestStep DEF Enter

\* A handler that leaves has its index and its counters; the others only
\* note whether they still are alone.
LEMMA LeaveJobs ==
  ASSUME PlaceInv, NEW p \in Clients, Leave(p)
  PROVE  /\ job' \in [Procs -> Jobs]
         /\ job'[p].kind = job[p].kind /\ job'[p].ref = entry /\ job'[p].wanted = job[p].wanted
         /\ job'[p].i = (IF Lists(p) THEN 2 ELSE 1) /\ job'[p].j = 2
         /\ job'[p].writes = job[p].writes /\ job'[p].got = job[p].got
         /\ job'[p].alone = (\A o \in Sharing(p) : ~Lists(o))
         /\ \A q \in Procs : q # p =>
              /\ job'[q].kind = job[q].kind /\ job'[q].ref = job[q].ref
              /\ job'[q].wanted = job[q].wanted /\ job'[q].i = job[q].i /\ job'[q].j = job[q].j
              /\ job'[q].writes = job[q].writes /\ job'[q].got = job[q].got
              /\ job'[q].alone = (job[q].alone /\ ~(Lists(p) /\ q \in Sharing(p)))
<1> DEFINE k == IF Lists(p) THEN 2 ELSE 1
           c == \A o \in Sharing(p) : ~Lists(o)
           d(q) == Lists(p) /\ q \in Sharing(p)
           mine == [job[p] EXCEPT !.ref = entry, !.i = k, !.j = 2, !.alone = c]
           theirs(q) == [job[q] EXCEPT !.alone = job[q].alone /\ ~d(q)]
<1>1. p \in Procs /\ \A q \in Procs : job[q] \in Jobs
  BY ClientsAreProcs DEF PlaceInv, TypeOK
<1>2. entry \in 1 .. MaxLoads \cup {None}
  BY DEF PlaceInv, TypeOK
<1>3. k \in Nat /\ c \in BOOLEAN /\ \A q \in Procs : d(q) \in BOOLEAN
  OBVIOUS
<1>4. job' = [q \in Procs |-> IF q = p THEN mine ELSE theirs(q)]
  BY DEF Leave
<1> HIDE DEF k, c, d
<1>5. /\ mine \in Jobs
      /\ mine.kind = job[p].kind /\ mine.ref = entry /\ mine.wanted = job[p].wanted
      /\ mine.i = k /\ mine.j = 2 /\ mine.alone = c
      /\ mine.writes = job[p].writes /\ mine.got = job[p].got
  <2>1. job[p] \in Jobs
    BY <1>1
  <2> QED
    BY <1>2, <1>3, <2>1 DEF Jobs
<1>6. ASSUME NEW q \in Procs
      PROVE  /\ theirs(q) \in Jobs
             /\ theirs(q).kind = job[q].kind /\ theirs(q).ref = job[q].ref
             /\ theirs(q).wanted = job[q].wanted
             /\ theirs(q).i = job[q].i /\ theirs(q).j = job[q].j
             /\ theirs(q).writes = job[q].writes /\ theirs(q).got = job[q].got
             /\ theirs(q).alone = (job[q].alone /\ ~d(q))
  <2>1. job[q] \in Jobs
    BY <1>1
  <2> QED
    BY <2>1 DEF Jobs
<1> HIDE DEF mine, theirs
<1>7. job'[p] = mine /\ \A q \in Procs : q # p => job'[q] = theirs(q)
  BY <1>1, <1>4
<1>8. job' \in [Procs -> Jobs]
  BY <1>4, <1>5, <1>6
<1>9. /\ job'[p].kind = job[p].kind /\ job'[p].ref = entry /\ job'[p].wanted = job[p].wanted
      /\ job'[p].i = k /\ job'[p].j = 2
      /\ job'[p].writes = job[p].writes /\ job'[p].got = job[p].got
      /\ job'[p].alone = c
  BY <1>5, <1>7
<1>10. \A q \in Procs : q # p =>
         /\ job'[q].kind = job[q].kind /\ job'[q].ref = job[q].ref
         /\ job'[q].wanted = job[q].wanted /\ job'[q].i = job[q].i /\ job'[q].j = job[q].j
         /\ job'[q].writes = job[q].writes /\ job'[q].got = job[q].got
         /\ job'[q].alone = (job[q].alone /\ ~d(q))
  BY <1>6, <1>7
<1> QED
  BY <1>8, <1>9, <1>10 DEF k, c, d

LEMMA LeavePlaces ==
  ASSUME PlaceInv, NEW p \in Clients, Leave(p)
  PROVE  PlaceInv' /\ Grown
<1> DEFINE b == Lists(p) /\ \E o \in Sharing(p) : Lists(o)
<1>1. entry \in DOMAIN index /\ p \in Procs /\ Placed(p)
  BY ClientsAreProcs DEF Leave, PlaceInv, Places
<1>2. index' = [index EXCEPT ![entry].shared = @ \/ b]
  BY DEF Leave
<1>3. b \in BOOLEAN
  OBVIOUS
<1> HIDE DEF b
<1>4. /\ index' \in Seq(Indexes)
      /\ Len(index') = Len(index) /\ DOMAIN index' = DOMAIN index
      /\ \A q \in DOMAIN index :
           /\ index'[q].slice = index[q].slice
           /\ index'[q].words = index[q].words
           /\ index'[q].listed = index[q].listed
           /\ index'[q].shared = IF q = entry THEN index[q].shared \/ b ELSE index[q].shared
  BY <1>1, <1>2, <1>3, LeaveIndex
<1>5. Grown
  <2>1. \A q \in DOMAIN index : index[q].shared => index'[q].shared
    BY <1>4, Zenon
  <2>2. Len(index) \in Nat
    BY DEF PlaceInv, TypeOK
  <2> QED
    BY <1>4, <2>1, <2>2 DEF Grown
<1>8. /\ job' \in [Procs -> Jobs]
      /\ job'[p].kind = job[p].kind /\ job'[p].ref = entry /\ job'[p].wanted = job[p].wanted
      /\ job'[p].i = (IF Lists(p) THEN 2 ELSE 1) /\ job'[p].j = 2
      /\ job'[p].writes = job[p].writes /\ job'[p].got = job[p].got
  BY LeaveJobs
<1>9. \A q \in Procs : q # p =>
       /\ job'[q].kind = job[q].kind /\ job'[q].ref = job[q].ref /\ job'[q].wanted = job[q].wanted
       /\ job'[q].i = job[q].i /\ job'[q].j = job[q].j /\ job'[q].writes = job[q].writes
       /\ job'[q].got = job[q].got
  BY LeaveJobs
<1>10. job[p].kind \in Kinds /\ job[p].wanted \in Asks[job[p].kind] /\ job[p].writes = {} /\ job[p].got = <<>>
  BY <1>1 DEF Placed, Leave
<1>11. /\ FirstStage[job[p].kind] \in {"sort", "iterate", "find"}
       /\ job[p].kind = "listing" <=> FirstStage[job[p].kind] = "sort"
       /\ job[p].kind = "versions" <=> FirstStage[job[p].kind] = "iterate"
       /\ job[p].kind = "download" <=> FirstStage[job[p].kind] = "find"
  BY <1>10 DEF Kinds, FirstStage
<1>12. pc' \in [Procs -> Stages] /\ pc'[p] = FirstStage[job[p].kind] /\ \A q \in Procs : q # p => pc'[q] = pc[q]
  BY <1>1, <1>11 DEF Leave, To, PlaceInv, TypeOK, Stages
<1>13. Apart(p)
  BY <1>8, <1>9, <1>12 DEF Apart
<1>14. Len(index'[entry].slice) = Len(index[entry].slice) /\ Len(index[entry].slice) \in Nat
  BY <1>1, <1>4, IndexTyped DEF PlaceInv
<1>15. Counters(p)'
  BY <1>8, <1>10, <1>11, <1>12, <1>14 DEF Counters, Entries, Index, Lists
<1>16. Placed(p)'
  BY <1>1, <1>4, <1>8, <1>10, <1>11, <1>12, <1>15 DEF Placed, ListStages
<1>17. entry' = entry /\ made' \in 0 .. MaxRequests
  BY DEF Leave, PlaceInv, TypeOK
<1> QED
  BY <1>4, <1>5, <1>13, <1>16, <1>17, RequestStep

\* What is known of a request that has an index.
LEMMA AtWork ==
  ASSUME PlaceInv, NEW p \in Clients, pc[p] \notin {"idle", "map"}
  PROVE  /\ p \in Procs /\ job[p] \in Jobs
         /\ job[p].ref \in DOMAIN index
         /\ Entries(p) \in Seq(Versions)
         /\ Len(Entries(p)) \in Nat /\ DOMAIN Entries(p) = 1 .. Len(Entries(p))
         /\ \A k \in DOMAIN Entries(p) : Entries(p)[k] \in Versions
         /\ job[p].i \in Nat /\ job[p].j \in Nat
         /\ job[p].got \in Seq(Versions)
         /\ job[p].alone \in BOOLEAN
         /\ Index(p).shared \in BOOLEAN
         /\ Placed(p) /\ Counters(p)
<1>1. p \in Procs
  BY ClientsAreProcs
<1>2. Placed(p)
  BY DEF PlaceInv, Places
<1>3. job[p].ref \in DOMAIN index /\ Counters(p)
  BY <1>2 DEF Placed
<1> QED
  BY <1>1, <1>2, <1>3, JobTyped, IndexTyped DEF PlaceInv, Entries, Index

\* A step of a request that leaves the indexes alone.
LEMMA ReadStep ==
  ASSUME PlaceInv, NEW p \in Clients, NEW s \in Stages, NEW f \in Jobs,
         pc' = [pc EXCEPT ![p] = s], job' = [job EXCEPT ![p] = f],
         UNCHANGED <<entry, index, made>>, Placed(p)'
  PROVE  PlaceInv' /\ Grown
<1>1. Grown /\ index' \in Seq(Indexes) /\ Len(index') = Len(index)
  BY SameIndex
<1>2. Apart(p)
  BY OneJob, ClientsAreProcs
<1>3. made' \in 0 .. MaxRequests
  BY DEF PlaceInv, TypeOK
<1> QED
  BY <1>1, <1>2, <1>3, RequestStep

LEMMA BackToIdle ==
  ASSUME PlaceInv, NEW p \in Clients, To(p, "idle"), job' = [job EXCEPT ![p] = Fresh],
         UNCHANGED <<entry, index, made>>
  PROVE  PlaceInv' /\ Grown
<1>1. p \in Procs /\ "idle" \in Stages
  BY ClientsAreProcs DEF Stages
<1>2. pc'[p] = "idle" /\ job'[p] = Fresh
  BY <1>1 DEF To, PlaceInv, TypeOK
<1>3. Placed(p)'
  BY <1>2 DEF Placed, ListStages, Fresh
<1> QED
  BY <1>1, <1>3, FreshTyped, ReadStep DEF To

LEMMA ComparePlaces ==
  ASSUME PlaceInv, NEW p \in Clients, Compare(p)
  PROVE  PlaceInv' /\ Grown
<1>0. pc[p] = "sort" /\ UNCHANGED <<entry, index, made>>
  BY DEF Compare, Elsewhere
<1>1. /\ p \in Procs /\ job[p] \in Jobs /\ job[p].ref \in DOMAIN index
      /\ Len(Entries(p)) \in Nat /\ job[p].i \in Nat /\ job[p].j \in Nat
      /\ Placed(p) /\ Counters(p)
  BY <1>0, AtWork
<1>2. Index(p)' = index[job'[p].ref]
  BY <1>0 DEF Index
<1>3. ASSUME NEW s \in {"widen", "swap"}, To(p, s), job' = job,
             s = "swap" => job[p].i <= Len(Entries(p)) /\ job[p].j > 1
      PROVE  PlaceInv' /\ Grown
  <2>1. job' = [job EXCEPT ![p] = job[p]] /\ s \in Stages
    BY <1>1, <1>3 DEF PlaceInv, TypeOK, Stages
  <2>2. pc'[p] = s
    BY <1>1, <1>3 DEF To, PlaceInv, TypeOK
  <2>3. Counters(p)'
    BY <1>0, <1>1, <1>2, <1>3, <2>2 DEF Counters, Entries, Index
  <2>4. Placed(p)'
    BY <1>0, <1>1, <1>3, <2>2, <2>3 DEF Placed, ListStages
  <2> QED
    BY <1>0, <1>1, <1>3, <2>1, <2>4, ReadStep DEF To
<1>4. ASSUME job[p].i <= Len(Entries(p)), pc' = pc,
             job' = [job EXCEPT ![p].i = job[p].i + 1, ![p].j = job[p].i + 1]
      PROVE  PlaceInv' /\ Grown
  <2> DEFINE nx == job[p].i + 1
             f == [job[p] EXCEPT !.i = nx, !.j = nx]
  <2>0. nx \in Nat
    BY <1>1
  <2> HIDE DEF nx
  <2>1. f \in Jobs
    BY <1>1, <2>0 DEF Jobs
  <2>2. /\ f.kind = job[p].kind /\ f.ref = job[p].ref /\ f.wanted = job[p].wanted
        /\ f.i = nx /\ f.j = nx
        /\ f.writes = job[p].writes /\ f.got = job[p].got
    BY <1>1 DEF Jobs
  <2>3. job' = [job EXCEPT ![p] = f]
    BY <1>1, <1>4 DEF PlaceInv, TypeOK, Jobs, nx
  <2> HIDE DEF f
  <2>4. pc' = [pc EXCEPT ![p] = "sort"] /\ "sort" \in Stages /\ job'[p] = f /\ pc'[p] = "sort"
    BY <1>0, <1>1, <1>4, <2>3 DEF PlaceInv, TypeOK, Stages
  <2>5. Counters(p)'
    <3>1. Entries(p)' = Entries(p)
      BY <1>0, <2>2, <2>4 DEF Entries, Index
    <3>2. pc'[p] = "sort" /\ job'[p].i = job[p].i + 1 /\ job'[p].j = job[p].i + 1 /\ job'[p].writes = {}
      BY <1>0, <1>1, <2>2, <2>4 DEF Counters, nx
    <3>3. job[p].i >= 2
      BY <1>0, <1>1 DEF Counters
    <3> QED
      BY <1>1, <3>1, <3>2, <3>3 DEF Counters
  <2>6. Placed(p)'
    BY <1>0, <1>1, <2>2, <2>4, <2>5 DEF Placed, ListStages
  <2> QED
    BY <1>0, <1>1, <2>1, <2>3, <2>4, <2>6, ReadStep
<1> QED
  BY <1>3, <1>4 DEF Compare

LEMMA SwapPlaces ==
  ASSUME PlaceInv, NEW p \in Clients, Swap(p)
  PROVE  /\ PlaceInv' /\ Grown
         /\ job'[p].writes = {<<job[p].j - 1, Entries(p)[job[p].j]>>,
                              <<job[p].j, Entries(p)[job[p].j - 1]>>}
         /\ job'[p].j = job[p].j - 1
<1>0. pc[p] = "swap" /\ UNCHANGED <<entry, index, made>>
  BY DEF Swap, Elsewhere
<1>1. /\ p \in Procs /\ job[p] \in Jobs /\ job[p].ref \in DOMAIN index
      /\ Len(Entries(p)) \in Nat /\ job[p].i \in Nat /\ job[p].j \in Nat
      /\ DOMAIN Entries(p) = 1 .. Len(Entries(p))
      /\ \A k \in DOMAIN Entries(p) : Entries(p)[k] \in Versions
      /\ Placed(p) /\ Counters(p)
  BY <1>0, AtWork
<1> DEFINE j == job[p].j
           W == {<<j - 1, Entries(p)[j]>>, <<j, Entries(p)[j - 1]>>}
           f == [job[p] EXCEPT !.j = j - 1, !.writes = W]
<1>2. j \in 2 .. job[p].i /\ job[p].i <= Len(Entries(p))
  BY <1>0, <1>1 DEF Counters
<1>3. j \in DOMAIN Entries(p) /\ j - 1 \in DOMAIN Entries(p)
  BY <1>1, <1>2
<1>4. W \in SUBSET (Nat \X Versions)
  BY <1>1, <1>3
<1>5. W # {} /\ IsFiniteSet(W) /\ \A w \in W : w[1] \in {j - 1, j}
  <2>1. IsFiniteSet(W)
    BY PairFinite
  <2> QED
    BY <2>1, <1>1
<1>a. j - 1 \in Nat
  BY <1>1, <1>2
<1> HIDE DEF W
<1>6. f \in Jobs
  BY <1>1, <1>4, <1>a DEF Jobs
<1>7. /\ f.kind = job[p].kind /\ f.ref = job[p].ref /\ f.wanted = job[p].wanted
      /\ f.i = job[p].i /\ f.j = j - 1 /\ f.writes = W /\ f.got = job[p].got
  BY <1>1 DEF Jobs
<1>8. job' = [job EXCEPT ![p] = f]
  BY <1>1 DEF Swap, PlaceInv, TypeOK, Jobs, W
<1> HIDE DEF f
<1>9. pc' = [pc EXCEPT ![p] = "write"] /\ "write" \in Stages /\ job'[p] = f /\ pc'[p] = "write"
  BY <1>1, <1>8 DEF Swap, To, PlaceInv, TypeOK, Stages
<1>10. Counters(p)'
  BY <1>0, <1>1, <1>2, <1>5, <1>7, <1>9 DEF Counters, Entries, Index
<1>11. Placed(p)'
  BY <1>0, <1>1, <1>7, <1>9, <1>10 DEF Placed, ListStages
<1> QED
  BY <1>0, <1>6, <1>7, <1>8, <1>9, <1>11, ReadStep DEF W

LEMMA LastWrite ==
  ASSUME NEW W, IsFiniteSet(W), NEW w \in W
  PROVE  /\ IsFiniteSet(W \ {w})
         /\ Cardinality(W) = 1 <=> W \ {w} = {}
<1>1. Cardinality(W) = 1 <=> \E x : W = {x}
  BY FS_Singleton
<1>2. IsFiniteSet(W \ {w})
  BY FS_RemoveElement
<1>3. (\E x : W = {x}) <=> W \ {w} = {}
  OBVIOUS
<1> QED
  BY <1>1, <1>2, <1>3

LEMMA WritePlaces ==
  ASSUME PlaceInv, NEW p \in Clients, pc[p] = "write", NEW w \in job[p].writes, Wrote(p, w),
         job' = [job EXCEPT ![p].writes = @ \ {w}],
         To(p, IF Cardinality(job[p].writes) = 1 THEN "sort" ELSE "write"),
         UNCHANGED <<entry, made>>
  PROVE  /\ PlaceInv' /\ Grown
         /\ job'[p].writes = job[p].writes \ {w}
         /\ pc'[p] = IF job[p].writes \ {w} = {} THEN "sort" ELSE "write"
         /\ job'[p].i = job[p].i /\ job'[p].j = job[p].j /\ job'[p].ref = job[p].ref
<1>1. /\ p \in Procs /\ job[p] \in Jobs /\ job[p].ref \in DOMAIN index
      /\ Len(Entries(p)) \in Nat /\ job[p].i \in Nat /\ job[p].j \in Nat
      /\ Placed(p) /\ Counters(p)
  BY AtWork
<1>2. /\ index' \in Seq(Indexes)
      /\ Len(index') = Len(index) /\ DOMAIN index' = DOMAIN index
      /\ \A r \in DOMAIN index :
           /\ Len(index'[r].slice) = Len(index[r].slice)
           /\ index'[r].words = index[r].words
           /\ index'[r].listed = index[r].listed
           /\ index'[r].shared = index[r].shared
  BY WriteIndex
<1>3. Len(index) \in Nat
  BY DEF PlaceInv, TypeOK
<1>4. Grown
  BY <1>2, <1>3 DEF Grown
<1> DEFINE W == job[p].writes \ {w}
           f == [job[p] EXCEPT !.writes = W]
           s == IF W = {} THEN "sort" ELSE "write"
<1>5. job[p].writes \in SUBSET (Nat \X Versions) /\ IsFiniteSet(job[p].writes)
  BY <1>1 DEF Jobs, Counters
<1>6. IsFiniteSet(W) /\ (Cardinality(job[p].writes) = 1 <=> W = {})
  BY <1>5, LastWrite
<1>7. W \in SUBSET (Nat \X Versions) /\ W \subseteq job[p].writes
  BY <1>5
<1>8. f \in Jobs
  BY <1>1, <1>7 DEF Jobs
<1>9. /\ f.kind = job[p].kind /\ f.ref = job[p].ref /\ f.wanted = job[p].wanted
      /\ f.i = job[p].i /\ f.j = job[p].j /\ f.writes = W /\ f.got = job[p].got
  BY <1>1 DEF Jobs
<1>10. job' = [job EXCEPT ![p] = f]
  BY <1>1 DEF PlaceInv, TypeOK, Jobs
<1> HIDE DEF W, f
<1>11. pc' = [pc EXCEPT ![p] = s] /\ s \in Stages
  BY <1>6 DEF To, Stages
<1>s. (s = "sort" /\ W = {}) \/ (s = "write" /\ W # {})
  OBVIOUS
<1> HIDE DEF s
<1>12. Apart(p) /\ pc'[p] = s /\ job'[p] = f
  BY <1>1, <1>8, <1>10, <1>11 DEF PlaceInv, TypeOK, Apart
<1>13. /\ job[p].j \in 1 .. job[p].i - 1 /\ job[p].i <= Len(Entries(p))
       /\ \A x \in W : x[1] \in {job[p].j, job[p].j + 1}
       /\ job[p].kind = "listing"
  BY <1>1, <1>7 DEF Counters, Placed, ListStages
<1>14. Len(Entries(p)') = Len(Entries(p)) /\ job'[p].ref \in DOMAIN index'
  BY <1>1, <1>2, <1>9, <1>12 DEF Entries, Index
<1>15. Counters(p)'
  <2>1. CASE W = {} /\ s = "sort"
    <3>1. pc'[p] = "sort" /\ job'[p].i = job[p].i /\ job'[p].j = job[p].j /\ job'[p].writes = {}
      BY <1>9, <1>12, <2>1
    <3>2. job[p].i >= 2 /\ job[p].j \in 1 .. job[p].i
      BY <1>1, <1>13
    <3> QED
      BY <1>1, <1>13, <1>14, <3>1, <3>2 DEF Counters
  <2>2. CASE W # {} /\ s = "write"
    <3>1. pc'[p] = "write" /\ job'[p].i = job[p].i /\ job'[p].j = job[p].j /\ job'[p].writes = W
      BY <1>9, <1>12, <2>2
    <3> QED
      BY <1>1, <1>6, <1>13, <1>14, <2>2, <3>1 DEF Counters
  <2> QED
    BY <1>s, <2>1, <2>2
<1>16. Placed(p)'
  BY <1>1, <1>s, <1>9, <1>12, <1>13, <1>14, <1>15 DEF Placed, ListStages
<1>17. made' \in 0 .. MaxRequests
  BY DEF PlaceInv, TypeOK
<1>18. PlaceInv'
  BY <1>2, <1>4, <1>12, <1>16, <1>17, RequestStep
<1> QED
  BY <1>4, <1>9, <1>12, <1>18 DEF W, s

LEMMA WidenPlaces ==
  ASSUME PlaceInv, NEW p \in Clients, Widen(p)
  PROVE  PlaceInv' /\ Grown
<1>0. pc[p] = "widen" /\ UNCHANGED <<job, entry, made>>
  BY DEF Widen, Elsewhere
<1>1. /\ p \in Procs /\ job[p] \in Jobs /\ job[p].ref \in DOMAIN index
      /\ Entries(p) \in Seq(Versions) /\ Len(Entries(p)) \in Nat
      /\ job[p].i \in Nat /\ job[p].j \in Nat
      /\ Placed(p) /\ Counters(p)
  BY <1>0, AtWork
<1>2. job' = [job EXCEPT ![p] = job[p]]
  BY <1>0, <1>1 DEF PlaceInv, TypeOK
<1>3. CASE Entries(p) = <<>>
  <2>1. To(p, "answered") /\ index' = index
    BY <1>3 DEF Widen
  <2>2. pc'[p] = "answered" /\ "answered" \in Stages
    BY <1>1, <2>1 DEF To, PlaceInv, TypeOK, Stages
  <2>3. Placed(p)'
    BY <1>0, <1>1, <2>1, <2>2 DEF Placed, Counters, ListStages
  <2> QED
    BY <1>0, <1>1, <1>2, <2>1, <2>2, <2>3, ReadStep DEF To
<1>4. CASE Entries(p) # <<>>
  <2> DEFINE first == Entries(p)[1]
  <2>1. To(p, "pick") /\ Widened(p)
    BY <1>4, Zenon DEF Widen, Widened, AllWords
  <2>3. Index(p).words[first] \subseteq AllWords(p)
    BY <1>0, <1>4, WidenTyped DEF AllWords
  <2>2. /\ index' \in Seq(Indexes)
        /\ Len(index') = Len(index) /\ DOMAIN index' = DOMAIN index
        /\ \A r \in DOMAIN index :
             /\ r # job[p].ref => index'[r] = index[r]
             /\ index'[r].slice = index[r].slice
             /\ index'[r].listed = index[r].listed
             /\ index'[r].shared = index[r].shared
        /\ \A v \in Versions : index'[job[p].ref].words[v] = IF v = first THEN AllWords(p) ELSE Index(p).words[v]
    BY <1>0, <1>4, <2>1, WidenIndex
  <2> HIDE DEF first
  <2>4. \A r \in DOMAIN index : \A v \in Versions : index[r].words[v] \subseteq index'[r].words[v]
    BY <2>2, <2>3 DEF Index
  <2>5. Len(index) \in Nat
    BY DEF PlaceInv, TypeOK
  <2>6. Grown
    BY <2>2, <2>4, <2>5 DEF Grown
  <2>7. "pick" \in Stages
    BY DEF Stages
  <2>8. Apart(p) /\ pc'[p] = "pick" /\ job'[p] = job[p]
    BY <1>1, <1>2, <2>1, <2>7, OneJob DEF To
  <2>9. Len(Entries(p)) >= 1
    BY <1>1, <1>4
  <2>10. Entries(p)' = Entries(p) /\ job'[p].ref \in DOMAIN index'
    BY <1>1, <2>2, <2>8 DEF Entries, Index
  <2>11. Counters(p)'
    BY <1>0, <1>1, <2>8, <2>9, <2>10 DEF Counters
  <2>12. Placed(p)'
    BY <1>0, <1>1, <2>8, <2>10, <2>11 DEF Placed, ListStages
  <2>13. made' \in 0 .. MaxRequests
    BY <1>0 DEF PlaceInv, TypeOK
  <2> QED
    BY <1>0, <2>2, <2>6, <2>8, <2>12, <2>13, RequestStep
<1> QED
  BY <1>3, <1>4

LEMMA PickPlaces ==
  ASSUME PlaceInv, NEW p \in Clients, Pick(p)
  PROVE  /\ PlaceInv' /\ Grown
         /\ job'[p] = [job[p] EXCEPT !.got = <<Entries(p)[1]>>]
         /\ Len(Entries(p)) >= 1
<1>0. pc[p] = "pick" /\ UNCHANGED <<entry, index, made>>
  BY DEF Pick, Elsewhere
<1>1. /\ p \in Procs /\ job[p] \in Jobs /\ job[p].ref \in DOMAIN index
      /\ Entries(p) \in Seq(Versions) /\ Len(Entries(p)) \in Nat
      /\ Placed(p) /\ Counters(p)
  BY <1>0, AtWork
<1> DEFINE f == [job[p] EXCEPT !.got = <<Entries(p)[1]>>]
<1>2. Len(Entries(p)) >= 1
  BY <1>0, <1>1 DEF Counters
<1>3. <<Entries(p)[1]>> \in Seq(Versions)
  BY <1>1, <1>2
<1>4. f \in Jobs
  BY <1>1, <1>3 DEF Jobs
<1>5. /\ f.kind = job[p].kind /\ f.ref = job[p].ref /\ f.wanted = job[p].wanted
      /\ f.i = job[p].i /\ f.j = job[p].j /\ f.writes = job[p].writes
  BY <1>1 DEF Jobs
<1>6. job' = [job EXCEPT ![p] = f]
  BY <1>1 DEF Pick, PlaceInv, TypeOK, Jobs
<1>7. pc' = [pc EXCEPT ![p] = "answered"] /\ "answered" \in Stages
  BY DEF Pick, To, Stages
<1> HIDE DEF f
<1>8. pc'[p] = "answered" /\ job'[p] = f
  BY <1>1, <1>4, <1>6, <1>7, OneJob
<1>9. Placed(p)'
  BY <1>0, <1>1, <1>5, <1>8 DEF Placed, Counters, ListStages
<1>10. PlaceInv' /\ Grown
  BY <1>0, <1>4, <1>6, <1>7, <1>9, ReadStep
<1> QED
  BY <1>2, <1>8, <1>10 DEF f

LEMMA IteratePlaces ==
  ASSUME PlaceInv, NEW p \in Clients, Iterate(p)
  PROVE  PlaceInv' /\ Grown
<1>0. pc[p] = "iterate" /\ UNCHANGED <<entry, index, made>>
  BY DEF Iterate, Elsewhere
<1>1. /\ p \in Procs /\ job[p] \in Jobs /\ job[p].ref \in DOMAIN index
      /\ Len(Entries(p)) \in Nat /\ job[p].i \in Nat /\ job[p].got \in Seq(Versions)
      /\ DOMAIN Entries(p) = 1 .. Len(Entries(p))
      /\ \A k \in DOMAIN Entries(p) : Entries(p)[k] \in Versions
      /\ Placed(p) /\ Counters(p)
  BY <1>0, AtWork
<1>2. job[p].i \in 1 .. Len(Entries(p)) + 1
  BY <1>0, <1>1 DEF Counters
<1>3. ASSUME To(p, "answered"), job' = job PROVE PlaceInv' /\ Grown
  <2>1. job' = [job EXCEPT ![p] = job[p]] /\ "answered" \in Stages
    BY <1>1, <1>3 DEF PlaceInv, TypeOK, Stages
  <2>2. pc'[p] = "answered"
    BY <1>1, <1>3 DEF To, PlaceInv, TypeOK
  <2>3. Placed(p)'
    BY <1>0, <1>1, <1>3, <2>2 DEF Placed, Counters, ListStages
  <2> QED
    BY <1>0, <1>1, <1>3, <2>1, <2>3, ReadStep DEF To
<1>4. ASSUME job[p].i <= Len(Entries(p)), pc' = pc,
             NEW g, g = (IF needShow(Entries(p)[job[p].i], job[p].wanted)
                           THEN Append(job[p].got, Entries(p)[job[p].i]) ELSE job[p].got),
             job' = [job EXCEPT ![p].i = job[p].i + 1, ![p].got = g]
      PROVE  PlaceInv' /\ Grown
  <2> DEFINE nx == job[p].i + 1
             f == [job[p] EXCEPT !.i = nx, !.got = g]
  <2>1. nx \in Nat /\ Entries(p)[job[p].i] \in Versions /\ nx \in 1 .. Len(Entries(p)) + 1
    BY <1>1, <1>2, <1>4
  <2>2. g \in Seq(Versions)
    BY <1>1, <1>4, <2>1
  <2> HIDE DEF nx
  <2>3. f \in Jobs
    BY <1>1, <2>1, <2>2 DEF Jobs
  <2>4. /\ f.kind = job[p].kind /\ f.ref = job[p].ref /\ f.wanted = job[p].wanted
        /\ f.i = nx /\ f.j = job[p].j /\ f.writes = job[p].writes
    BY <1>1 DEF Jobs
  <2>5. job' = [job EXCEPT ![p] = f]
    BY <1>1, <1>4 DEF PlaceInv, TypeOK, Jobs, nx
  <2> HIDE DEF f
  <2>6. pc' = [pc EXCEPT ![p] = "iterate"] /\ "iterate" \in Stages /\ job'[p] = f /\ pc'[p] = "iterate"
    BY <1>0, <1>1, <1>4, <2>5 DEF PlaceInv, TypeOK, Stages
  <2>7. Entries(p)' = Entries(p)
    BY <1>0, <2>4, <2>6 DEF Entries, Index
  <2>8. Counters(p)'
    BY <1>0, <1>1, <2>1, <2>4, <2>6, <2>7 DEF Counters
  <2>9. Placed(p)'
    BY <1>0, <1>1, <2>4, <2>6, <2>8 DEF Placed, ListStages
  <2> QED
    BY <1>0, <1>1, <2>3, <2>5, <2>6, <2>9, ReadStep
<1> QED
  BY <1>3, <1>4 DEF Iterate

LEMMA FindPlaces ==
  ASSUME PlaceInv, NEW p \in Clients, Find(p)
  PROVE  PlaceInv' /\ Grown
<1>0. pc[p] = "find" /\ UNCHANGED <<entry, index, made>>
  BY DEF Find, Elsewhere
<1>1. /\ p \in Procs /\ job[p] \in Jobs /\ job[p].ref \in DOMAIN index
      /\ Len(Entries(p)) \in Nat /\ job[p].i \in Nat
      /\ DOMAIN Entries(p) = 1 .. Len(Entries(p))
      /\ \A k \in DOMAIN Entries(p) : Entries(p)[k] \in Versions
      /\ Placed(p) /\ Counters(p)
  BY <1>0, AtWork
<1>2. job[p].i \in 1 .. Len(Entries(p)) + 1
  BY <1>0, <1>1 DEF Counters
<1>3. ASSUME To(p, "answered"), NEW f \in Jobs, job' = [job EXCEPT ![p] = f],
             f.kind = job[p].kind, f.ref = job[p].ref, f.wanted = job[p].wanted,
             f.writes = job[p].writes
      PROVE PlaceInv' /\ Grown
  <2>1. "answered" \in Stages
    BY DEF Stages
  <2>2. pc'[p] = "answered" /\ job'[p] = f
    BY <1>1, <1>3 DEF To, PlaceInv, TypeOK
  <2>3. Placed(p)'
    BY <1>0, <1>1, <1>3, <2>2 DEF Placed, Counters, ListStages
  <2> QED
    BY <1>0, <1>3, <2>1, <2>3, ReadStep DEF To
<1>4. CASE Past(p)
  <2>1. job' = [job EXCEPT ![p] = job[p]] /\ To(p, "answered")
    BY <1>1, <1>4 DEF Find, Hit, PlaceInv, TypeOK
  <2> QED
    BY <1>1, <1>3, <2>1
<1>5. CASE Hit(p)
  <2> DEFINE f == [job[p] EXCEPT !.got = <<Here(p)>>]
  <2>1. job' = [job EXCEPT ![p].got = <<Here(p)>>] /\ To(p, "answered")
    BY <1>5 DEF Find, Hit
  <2>2. Here(p) \in Versions
    BY <1>1, <1>2, <1>5 DEF Hit, Past, Here
  <2>b. <<Here(p)>> \in Seq(Versions)
    BY <2>2
  <2>3. f \in Jobs
    BY <1>1, <2>b DEF Jobs
  <2>4. /\ f.kind = job[p].kind /\ f.ref = job[p].ref /\ f.wanted = job[p].wanted
        /\ f.writes = job[p].writes
    BY <1>1 DEF Jobs
  <2>5. job' = [job EXCEPT ![p] = f]
    BY <1>1, <2>1 DEF PlaceInv, TypeOK, Jobs
  <2> HIDE DEF f
  <2> QED
    BY <1>3, <2>1, <2>3, <2>4, <2>5
<1>6. CASE ~Past(p) /\ ~Hit(p)
  <2> DEFINE nx == job[p].i + 1
             f == [job[p] EXCEPT !.i = nx]
  <2>1. nx \in Nat /\ nx \in 1 .. Len(Entries(p)) + 1
    BY <1>1, <1>2, <1>6 DEF Past
  <2>a. pc' = pc /\ job' = [job EXCEPT ![p].i = nx]
    BY <1>6 DEF Find
  <2> HIDE DEF nx
  <2>3. f \in Jobs
    BY <1>1, <2>1 DEF Jobs
  <2>4. /\ f.kind = job[p].kind /\ f.ref = job[p].ref /\ f.wanted = job[p].wanted
        /\ f.i = nx /\ f.j = job[p].j /\ f.writes = job[p].writes /\ f.got = job[p].got
    BY <1>1 DEF Jobs
  <2>5. job' = [job EXCEPT ![p] = f]
    BY <1>1, <2>a DEF PlaceInv, TypeOK, Jobs
  <2> HIDE DEF f
  <2>6. pc' = [pc EXCEPT ![p] = "find"] /\ "find" \in Stages /\ job'[p] = f /\ pc'[p] = "find"
    BY <1>0, <1>1, <2>a, <2>5 DEF PlaceInv, TypeOK, Stages
  <2>7. Entries(p)' = Entries(p)
    BY <1>0, <2>4, <2>6 DEF Entries, Index
  <2>8. Counters(p)'
    BY <1>0, <1>1, <2>1, <2>4, <2>6, <2>7 DEF Counters
  <2>9. Placed(p)'
    BY <1>0, <1>1, <2>4, <2>6, <2>8 DEF Placed, ListStages
  <2> QED
    BY <1>0, <1>1, <2>3, <2>5, <2>6, <2>9, ReadStep
<1> QED
  BY <1>4, <1>5, <1>6 DEF Find

\* The synchronisation's steps and the deletion's touch no request.
LEMMA HandlerStep ==
  ASSUME PlaceInv, Grown, TypeOK',
         \A q \in Clients : pc'[q] = pc[q] /\ job'[q] = job[q]
  PROVE  \A q \in Clients : Placed(q)'
<1> SUFFICES ASSUME NEW q \in Clients PROVE Placed(q)'
  OBVIOUS
<1> QED
  BY PlacedKept

LEMMA LoadPlaces ==
  ASSUME PlaceInv, LoadIndex
  PROVE  PlaceInv' /\ Grown
<1>1. PICK s \in Orders : index' = Append(index, NewIndex(s))
  BY DEF LoadIndex
<1>2. Len(index) < MaxLoads /\ pc[Syncer] = "idle"
      /\ job' = [job EXCEPT ![Syncer].ref = Len(index')] /\ To(Syncer, "loaded")
      /\ entry' = entry /\ made' = made
  BY DEF LoadIndex
<1>3. /\ index' \in Seq(Indexes)
      /\ Len(index') = Len(index) + 1 /\ Len(index') \in DOMAIN index'
      /\ Len(index') \in 1 .. MaxLoads
      /\ DOMAIN index' = DOMAIN index \cup {Len(index')}
      /\ \A r \in DOMAIN index : index'[r] = index[r]
  BY <1>1, <1>2, LoadedIndex
<1>4. Syncer \in Procs /\ Remover \in Procs /\ Remover # Syncer /\ \A q \in Clients : q \in Procs /\ q # Syncer
  BY ClientsAreProcs
<1>5. job \in [Procs -> Jobs] /\ pc \in [Procs -> Stages] /\ Len(index) \in Nat
  BY DEF PlaceInv, TypeOK
<1>6. \A r \in DOMAIN index : index[r].words \in [Versions -> SUBSET Versions]
  BY IndexTyped DEF PlaceInv
<1>7. Grown
  BY <1>3, <1>5, <1>6 DEF Grown
<1>8. /\ job' \in [Procs -> Jobs]
      /\ job'[Syncer].ref = Len(index') /\ \A q \in Procs : q # Syncer => job'[q] = job[q]
  <2> DEFINE loaded(n) == [job[Syncer] EXCEPT !.ref = n]
  <2>1. \A n \in 1 .. MaxLoads : loaded(n) \in Jobs /\ loaded(n).ref = n
    <3>1. job[Syncer] \in Jobs
      BY <1>4, <1>5
    <3> QED
      BY <3>1 DEF Jobs
  <2>2. job' = [job EXCEPT ![Syncer] = loaded(Len(index'))]
    BY <1>2
  <2> HIDE DEF loaded
  <2> QED
    BY <1>3, <1>4, <1>5, <2>1, <2>2
<1>9. /\ pc' \in [Procs -> Stages]
      /\ pc'[Syncer] = "loaded" /\ \A q \in Procs : q # Syncer => pc'[q] = pc[q]
  BY <1>2, <1>4, <1>5 DEF To, Stages
<1>10. TypeOK'
  BY <1>2, <1>3, <1>8, <1>9 DEF PlaceInv, TypeOK
<1>11. \A q \in Clients : Placed(q)'
  BY <1>4, <1>7, <1>8, <1>9, <1>10, HandlerStep
<1>12. Len(index') <= MaxLoads
  BY <1>2, <1>3, <1>5, BoundsAssumption
<1> QED
  BY <1>2, <1>3, <1>4, <1>7, <1>8, <1>9, <1>10, <1>11, <1>12 DEF PlaceInv, Places

LEMMA HandlerPlaces ==
  ASSUME PlaceInv, BeginStore \/ EndStore \/ EnterDelete \/ EndDelete
  PROVE  PlaceInv' /\ Grown
<1>1. Syncer \in Procs /\ Remover \in Procs /\ Remover # Syncer
      /\ \A q \in Clients : q \in Procs /\ q # Syncer /\ q # Remover
  BY ClientsAreProcs
<1>2. job \in [Procs -> Jobs] /\ pc \in [Procs -> Stages]
  BY DEF PlaceInv, TypeOK
<1>3. index' = index /\ made' = made
  BY DEF BeginStore, EndStore, EnterDelete, EndDelete
<1>4. Grown
  BY <1>3, SameIndex
<1>5. \A q \in Clients : pc'[q] = pc[q] /\ job'[q] = job[q]
  BY <1>1, <1>2 DEF BeginStore, EndStore, EnterDelete, EndDelete, To
<1>6. job[Syncer].ref \in 1 .. MaxLoads \cup {None}
  BY <1>1, JobTyped DEF PlaceInv
<1>7. TypeOK'
  BY <1>1, <1>2, <1>3, <1>6, FreshTyped
     DEF PlaceInv, TypeOK, BeginStore, EndStore, EnterDelete, EndDelete, To, Stages
<1>8. \A q \in Clients : Placed(q)'
  BY <1>4, <1>5, <1>7, HandlerStep
<1>9. ASSUME BeginStore PROVE Places'
  BY <1>1, <1>2, <1>3, <1>8, <1>9 DEF PlaceInv, Places, BeginStore, To
<1>10. ASSUME EndStore PROVE Places'
  BY <1>1, <1>2, <1>3, <1>8, <1>10 DEF PlaceInv, Places, EndStore, To, Fresh
<1>11. ASSUME EnterDelete PROVE Places'
  BY <1>1, <1>2, <1>3, <1>8, <1>11 DEF PlaceInv, Places, EnterDelete, To
<1>12. ASSUME EndDelete PROVE Places'
  BY <1>1, <1>2, <1>3, <1>8, <1>12 DEF PlaceInv, Places, EndDelete, To
<1> QED
  BY <1>4, <1>7, <1>9, <1>10, <1>11, <1>12 DEF PlaceInv

LEMMA DiePlaces ==
  ASSUME PlaceInv, Die
  PROVE  PlaceInv' /\ Grown
<1>1. Grown
  BY SameIndex DEF Die
<1>2. TypeOK'
  BY FreshTyped DEF PlaceInv, TypeOK, Die, Stages
<1>3. \A p \in Procs : pc'[p] = "idle" /\ job'[p] = Fresh
  BY DEF Die
<1>4. \A p \in Clients : Placed(p)'
  BY <1>3, ClientsAreProcs DEF Placed, ListStages, Fresh
<1>5. job'[Syncer].ref = None /\ job'[Remover].ref = None
  BY <1>3, ClientsAreProcs DEF Fresh
<1> QED
  BY <1>1, <1>2, <1>3, <1>4, <1>5, ClientsAreProcs DEF PlaceInv, Places, Die

LEMMA InitPlaces == Init => PlaceInv
<1> SUFFICES ASSUME Init PROVE PlaceInv
  OBVIOUS
<1>1. \A p \in Procs : pc[p] = "idle" /\ job[p] = Fresh
  BY DEF Init
<1>2. index = <<>> /\ index \in Seq(Indexes) /\ entry = None
  BY DEF Init
<1>3. TypeOK
  BY <1>2, FreshTyped, BoundsAssumption DEF Init, TypeOK, Stages
<1>4. \A p \in Clients : Placed(p)
  BY <1>1, ClientsAreProcs DEF Placed, ListStages, Fresh
<1>5. job[Syncer].ref = None /\ job[Remover].ref = None
  BY <1>1, ClientsAreProcs DEF Fresh
<1> QED
  BY <1>1, <1>2, <1>3, <1>4, <1>5, ClientsAreProcs, BoundsAssumption DEF PlaceInv, Places

LEMMA WriteStep ==
  ASSUME NEW p \in Clients, Write(p)
  PROVE  /\ pc[p] = "write" /\ UNCHANGED <<entry, made>>
         /\ To(p, IF Cardinality(job[p].writes) = 1 THEN "sort" ELSE "write")
         /\ \E w \in job[p].writes : Wrote(p, w) /\ job' = [job EXCEPT ![p].writes = @ \ {w}]
BY Zenon DEF Write, Wrote, Elsewhere

LEMMA RequestPlaces ==
  ASSUME PlaceInv, NEW p \in Clients,
         \/ Enter(p) \/ Leave(p) \/ LeaveEmpty(p) \/ Answer(p)
         \/ Listing(p) \/ Iterate(p) \/ Find(p) \/ RequestPanics(p)
  PROVE  PlaceInv' /\ Grown
<1>1. CASE Enter(p)
  BY <1>1, EnterPlaces
<1>2. CASE Leave(p)
  BY <1>2, LeavePlaces
<1>3. CASE LeaveEmpty(p)
  BY <1>3, BackToIdle DEF LeaveEmpty
<1>4. CASE Answer(p)
  BY <1>4, BackToIdle DEF Answer
<1>5. CASE Compare(p)
  BY <1>5, ComparePlaces
<1>6. CASE Swap(p)
  BY <1>6, SwapPlaces
<1>7. CASE Write(p)
  BY <1>7, WriteStep, WritePlaces
<1>8. CASE Widen(p)
  BY <1>8, WidenPlaces
<1>9. CASE Pick(p)
  BY <1>9, PickPlaces
<1>10. CASE Iterate(p)
  BY <1>10, IteratePlaces
<1>11. CASE Find(p)
  BY <1>11, FindPlaces
<1>12. CASE RequestPanics(p)
  BY <1>12, BackToIdle DEF RequestPanics, Elsewhere
<1> QED
  BY <1>1, <1>2, <1>3, <1>4, <1>5, <1>6, <1>7, <1>8, <1>9, <1>10, <1>11, <1>12 DEF Listing

LEMMA StepPlaces == PlaceInv /\ [Next]_vars => PlaceInv' /\ Grown
<1> SUFFICES ASSUME PlaceInv, [Next]_vars PROVE PlaceInv' /\ Grown
  OBVIOUS
<1>1. ASSUME UNCHANGED vars PROVE PlaceInv' /\ Grown
  <2>1. Grown
    BY <1>1, SameIndex DEF vars
  <2>2. \A q \in Clients : Placed(q)'
    BY <1>1, <2>1, PlacedKept DEF vars
  <2> QED
    BY <1>1, <2>1, <2>2 DEF vars, PlaceInv, TypeOK, Places
<1> QED
  BY <1>1, RequestPlaces, LoadPlaces, HandlerPlaces, DiePlaces DEF Next

LEMMA PlacesInvariance == Spec => []PlaceInv
<1>1. PlaceInv /\ [Next]_vars => PlaceInv'
  BY StepPlaces
<1> QED
  BY InitPlaces, <1>1, PTL DEF Spec

-----------------------------------------------------------------------------
(***************************************************************************)
(* Every variable stays in its range, and every goroutine where its code   *)
(* can be, with counters within the index it has.                          *)
(***************************************************************************)
THEOREM TypeCorrect == Spec => []TypeOK
<1>1. PlaceInv => TypeOK
  BY DEF PlaceInv
<1> QED
  BY PlacesInvariance, <1>1, PTL

\* Only these steps enter the cache's lock.
LEMMA OthersStayOut ==
  ASSUME PlaceInv, [Next]_vars, ~BeginStore, ~EnterDelete, \A p \in Clients : ~Enter(p),
         NEW q \in Procs, pc'[q] = "map"
  PROVE  pc[q] = "map"
<1>1. pc \in [Procs -> Stages] /\ Syncer \in Procs /\ Remover \in Procs
      /\ \A p \in Clients : p \in Procs
  BY ClientsAreProcs DEF PlaceInv, TypeOK
<1>2. ASSUME NEW p \in Procs, NEW s, s # "map", To(p, s) PROVE pc[q] = "map"
  BY <1>1, <1>2 DEF To
<1>3. ASSUME NEW p \in Clients, Leave(p) PROVE pc[q] = "map"
  <2>1. job[p].kind \in Kinds
    BY <1>3 DEF Leave, PlaceInv, Places, Placed
  <2>2. FirstStage[job[p].kind] # "map"
    BY <2>1 DEF FirstStage, Kinds
  <2> QED
    BY <1>1, <1>2, <1>3, <2>2 DEF Leave
<1>4. ASSUME NEW p \in Clients, LeaveEmpty(p) \/ Answer(p) \/ RequestPanics(p) PROVE pc[q] = "map"
  BY <1>1, <1>2, <1>4 DEF LeaveEmpty, Answer, RequestPanics
<1>5. ASSUME NEW p \in Clients, Compare(p) \/ Swap(p) \/ Widen(p) \/ Pick(p) PROVE pc[q] = "map"
  BY <1>1, <1>2, <1>5 DEF Compare, Swap, Widen, Pick
<1>6. ASSUME NEW p \in Clients, Write(p) PROVE pc[q] = "map"
  <2>1. PICK s \in {"sort", "write"} : To(p, s)
    BY <1>6, WriteStep
  <2> QED
    BY <1>1, <1>2, <2>1
<1>7. ASSUME NEW p \in Clients, Iterate(p) \/ Find(p) PROVE pc[q] = "map"
  BY <1>1, <1>2, <1>7 DEF Iterate, Find
<1>8. ASSUME LoadIndex \/ EndStore \/ EndDelete PROVE pc[q] = "map"
  BY <1>1, <1>2, <1>8 DEF LoadIndex, EndStore, EndDelete
<1>9. ASSUME Die PROVE pc[q] = "map"
  BY <1>9 DEF Die
<1>10. ASSUME UNCHANGED vars PROVE pc[q] = "map"
  BY <1>10 DEF vars
<1> QED
  BY <1>3, <1>4, <1>5, <1>6, <1>7, <1>8, <1>9, <1>10 DEF Next, Listing

\* While an index is stored nobody else is inside the cache.
LEMMA StoreAlone == Spec => []StoresExclude
<1>1. Init => StoresExclude
  BY ClientsAreProcs DEF Init, StoresExclude
<1>2. PlaceInv /\ StoresExclude /\ [Next]_vars => StoresExclude'
  <2> SUFFICES ASSUME PlaceInv, StoresExclude, [Next]_vars, pc'[Syncer] = "map"
               PROVE  Inside(Procs)' = {Syncer}
    BY DEF StoresExclude, Inside
  <2>1. pc \in [Procs -> Stages] /\ Syncer \in Procs /\ Remover \in Procs /\ Remover # Syncer
        /\ \A q \in Clients : q \in Procs /\ q # Syncer
    BY ClientsAreProcs DEF PlaceInv, TypeOK
  <2>2. CASE BeginStore
    <3>1. \A q \in Procs : q # Syncer => pc'[q] = pc[q] /\ pc[q] # "map"
      BY <2>1, <2>2 DEF BeginStore, To, Inside
    <3> QED
      BY <2>1, <3>1 DEF Inside
  <2>3. CASE EnterDelete \/ \E p \in Clients : Enter(p)
    <3>1. pc[Syncer] # "map" /\ pc'[Syncer] = pc[Syncer]
      BY <2>1, <2>3 DEF EnterDelete, Enter, To
    <3> QED
      BY <3>1
  <2>4. CASE ~BeginStore /\ ~EnterDelete /\ \A p \in Clients : ~Enter(p)
    <3>1. \A q \in Procs : pc'[q] = "map" => pc[q] = "map"
      BY <2>4, OthersStayOut
    <3>2. \A q \in Procs : pc[q] = "map" => q = Syncer
      BY <2>1, <3>1 DEF StoresExclude, Inside
    <3> QED
      BY <2>1, <3>1, <3>2 DEF Inside
  <2> QED
    BY <2>2, <2>3, <2>4
<1> QED
  BY <1>1, <1>2, PlacesInvariance, PTL DEF Spec

\* What can take a cached index away.
LEMMA StepKeeps ==
  ASSUME PlaceInv, StoresExclude, [Next]_vars, entry # None, entry' = None
  PROVE  pc[Remover] = "map" \/ \E p \in Clients : NoAddress(p)
<1>1. ASSUME NEW p \in Clients, \/ Enter(p) \/ Leave(p) \/ LeaveEmpty(p) \/ Answer(p) \/ Listing(p)
                               \/ Iterate(p) \/ Find(p) \/ RequestPanics(p)
      PROVE  FALSE
  BY <1>1 DEF Enter, Leave, LeaveEmpty, Answer, Listing, Compare, Swap, Write, Widen, Pick, Iterate,
     Find, RequestPanics, Elsewhere
<1>2. CASE LoadIndex \/ BeginStore \/ EnterDelete \/ UNCHANGED vars
  BY <1>2 DEF LoadIndex, BeginStore, EnterDelete, vars
<1>3. CASE EndStore
  <2>1. job[Syncer].ref \in DOMAIN index /\ index \in Seq(Indexes)
    BY <1>3 DEF EndStore, PlaceInv, TypeOK, Places
  <2>2. job[Syncer].ref \in Nat
    BY <2>1
  <2> QED
    BY <1>3, <2>2, NoIndexAssumption DEF EndStore
<1>4. CASE EndDelete
  BY <1>4 DEF EndDelete
<1>5. CASE Die
  <2> SUFFICES ASSUME MapRace PROVE pc[Remover] = "map"
    BY <1>5 DEF Die
  <2>1. PICK p \in {Syncer, Remover} : \E q \in Procs \ {p} : {p, q} \subseteq Inside(Procs)
    BY DEF MapRace
  <2> QED
    BY <2>1 DEF StoresExclude, Inside
<1> QED
  BY <1>1, <1>2, <1>3, <1>4, <1>5 DEF Next

(***************************************************************************)
(* For any numbers of requests, readers and loads, any indexes and any     *)
(* order of steps: a cached index goes only with a deletion or at an entry *)
(* without a URL; no reader, listing or store can end the process.         *)
(***************************************************************************)
THEOREM IndexesStay == Spec => IndexKept
<1>1. PlaceInv /\ StoresExclude /\ [Next]_vars =>
        [entry # None /\ entry' = None =>
           pc[Remover] = "map" \/ \E p \in Clients : NoAddress(p)]_vars
  BY StepKeeps
<1> QED
  BY <1>1, PlacesInvariance, StoreAlone, PTL DEF Spec, IndexKept

-----------------------------------------------------------------------------
(* What each step does to the request that takes it, and to nobody else. *)
Others(p) == \A q \in Procs : q # p => pc'[q] = pc[q] /\ job'[q] = job[q]

Reads == index' = index /\ entry' = entry

SameTask(p) ==
  /\ job'[p].kind = job[p].kind /\ job'[p].ref = job[p].ref /\ job'[p].wanted = job[p].wanted
  /\ job'[p].alone = job[p].alone

LEMMA EnterEffect ==
  ASSUME PlaceInv, NEW p \in Clients, Enter(p)
  PROVE  /\ Others(p) /\ Reads
         /\ pc'[p] = "map" /\ job'[p].ref = None /\ job'[p].writes = {}
<1>1. p \in Procs /\ job \in [Procs -> Jobs] /\ pc \in [Procs -> Stages]
  BY ClientsAreProcs DEF PlaceInv, TypeOK
<1>2. PICK k \in Kinds : \E v \in Asks[k] : job' = [job EXCEPT ![p].kind = k, ![p].wanted = v]
  BY DEF Enter
<1>3. PICK v \in Asks[k] : job' = [job EXCEPT ![p].kind = k, ![p].wanted = v]
  BY <1>2
<1>4. Placed(p) /\ pc[p] = "idle"
  BY DEF PlaceInv, Places, Enter
<1>5. job'[p].ref = job[p].ref /\ job'[p].writes = job[p].writes
      /\ \A q \in Procs : q # p => job'[q] = job[q]
  BY <1>1, <1>3 DEF Jobs
<1> QED
  BY <1>1, <1>4, <1>5 DEF Others, Reads, Enter, To, Placed

\* LeaveEmpty, Answer and RequestPanics end so.
LEMMA EndEffect ==
  ASSUME PlaceInv, NEW p \in Clients, LeaveEmpty(p) \/ Answer(p) \/ RequestPanics(p)
  PROVE  /\ Others(p) /\ Reads /\ ~Listings(p)
         /\ pc'[p] = "idle" /\ job'[p] = Fresh
<1>1. p \in Procs /\ job \in [Procs -> Jobs] /\ pc \in [Procs -> Stages]
  BY ClientsAreProcs DEF PlaceInv, TypeOK
<1>2. To(p, "idle") /\ job' = [job EXCEPT ![p] = Fresh] /\ Reads /\ ~Listings(p)
  BY DEF LeaveEmpty, Answer, RequestPanics, Elsewhere, Reads, NoAddress, Listings, ListStages
<1> QED
  BY <1>1, <1>2 DEF Others, To

LEMMA LeaveEffect ==
  ASSUME PlaceInv, NEW p \in Clients, Leave(p)
  PROVE  /\ pc[p] = "map" /\ entry' = entry /\ entry \in DOMAIN index
         /\ pc'[p] = FirstStage[job[p].kind] /\ job[p].kind \in Kinds
         /\ job'[p].kind = job[p].kind /\ job'[p].ref = entry /\ job'[p].wanted = job[p].wanted
         /\ job'[p].i = (IF Lists(p) THEN 2 ELSE 1) /\ job'[p].j = 2
         /\ job'[p].writes = {} /\ job'[p].got = <<>>
         /\ job'[p].alone = (\A o \in Sharing(p) : ~Lists(o))
         /\ \A q \in Procs : q # p =>
              /\ pc'[q] = pc[q]
              /\ job'[q].kind = job[q].kind /\ job'[q].ref = job[q].ref
              /\ job'[q].wanted = job[q].wanted /\ job'[q].i = job[q].i /\ job'[q].j = job[q].j
              /\ job'[q].writes = job[q].writes /\ job'[q].got = job[q].got
              /\ job'[q].alone = (job[q].alone /\ ~(Lists(p) /\ q \in Sharing(p)))
         /\ DOMAIN index' = DOMAIN index
         /\ \A r \in DOMAIN index :
              /\ index'[r].slice = index[r].slice /\ index'[r].words = index[r].words
              /\ index'[r].listed = index[r].listed
              /\ index'[r].shared = IF r = entry
                   THEN index[r].shared \/ (Lists(p) /\ \E o \in Sharing(p) : Lists(o))
                   ELSE index[r].shared
<1>1. p \in Procs /\ job \in [Procs -> Jobs] /\ pc \in [Procs -> Stages]
  BY ClientsAreProcs DEF PlaceInv, TypeOK
<1>2. entry \in DOMAIN index /\ Placed(p) /\ pc[p] = "map" /\ entry' = entry
  BY DEF Leave, PlaceInv, Places
<1>3. job[p].kind \in Kinds /\ job[p].writes = {} /\ job[p].got = <<>>
  BY <1>2 DEF Placed
<1>5. /\ job'[p].kind = job[p].kind /\ job'[p].ref = entry /\ job'[p].wanted = job[p].wanted
      /\ job'[p].i = (IF Lists(p) THEN 2 ELSE 1) /\ job'[p].j = 2
      /\ job'[p].writes = job[p].writes /\ job'[p].got = job[p].got
      /\ job'[p].alone = (\A o \in Sharing(p) : ~Lists(o))
  BY LeaveJobs
<1>6. \A q \in Procs : q # p =>
              /\ job'[q].kind = job[q].kind /\ job'[q].ref = job[q].ref
              /\ job'[q].wanted = job[q].wanted /\ job'[q].i = job[q].i /\ job'[q].j = job[q].j
              /\ job'[q].writes = job[q].writes /\ job'[q].got = job[q].got
              /\ job'[q].alone = (job[q].alone /\ ~(Lists(p) /\ q \in Sharing(p)))
  BY LeaveJobs
<1>7. pc'[p] = FirstStage[job[p].kind] /\ \A q \in Procs : q # p => pc'[q] = pc[q]
  BY <1>1 DEF Leave, To
<1> DEFINE b == Lists(p) /\ \E o \in Sharing(p) : Lists(o)
<1>8. index' = [index EXCEPT ![entry].shared = @ \/ b] /\ b \in BOOLEAN
  BY DEF Leave
<1> HIDE DEF b
<1>9. /\ DOMAIN index' = DOMAIN index
      /\ \A r \in DOMAIN index :
           /\ index'[r].slice = index[r].slice
           /\ index'[r].words = index[r].words
           /\ index'[r].listed = index[r].listed
           /\ index'[r].shared = IF r = entry THEN index[r].shared \/ b ELSE index[r].shared
  BY <1>2, <1>8, LeaveIndex
<1> QED
  BY <1>2, <1>3, <1>5, <1>6, <1>7, <1>9, Zenon DEF b

LEMMA CompareEffect ==
  ASSUME PlaceInv, NEW p \in Clients, Compare(p)
  PROVE  /\ Others(p) /\ Reads /\ SameTask(p) /\ pc[p] = "sort"
         /\ job[p].writes = {} /\ job'[p].writes = {}
         /\ \/ /\ job[p].i > Len(Entries(p)) /\ pc'[p] = "widen" /\ job'[p] = job[p]
            \/ /\ job[p].i <= Len(Entries(p)) /\ job[p].j > 1
               /\ Entries(p)[job[p].j] > Entries(p)[job[p].j - 1]
               /\ pc'[p] = "swap" /\ job'[p] = job[p]
            \/ /\ job[p].i <= Len(Entries(p))
               /\ ~(job[p].j > 1 /\ Entries(p)[job[p].j] > Entries(p)[job[p].j - 1])
               /\ pc'[p] = "sort" /\ job'[p].i = job[p].i + 1 /\ job'[p].j = job[p].i + 1
<1>1. job \in [Procs -> Jobs] /\ pc \in [Procs -> Stages]
  BY DEF PlaceInv, TypeOK
<1>2. pc[p] = "sort" /\ Reads
  BY DEF Compare, Elsewhere, Reads
<1>3. p \in Procs /\ job[p] \in Jobs /\ Counters(p)
  BY <1>2, AtWork
<1>4. job[p].writes = {}
  BY <1>2, <1>3 DEF Counters
<1>5. CASE job' = job /\ To(p, "widen") /\ job[p].i > Len(Entries(p))
  BY <1>1, <1>2, <1>3, <1>4, <1>5 DEF Others, SameTask, To
<1>6. CASE /\ job' = job /\ To(p, "swap") /\ job[p].i <= Len(Entries(p)) /\ job[p].j > 1
           /\ Entries(p)[job[p].j] > Entries(p)[job[p].j - 1]
  BY <1>1, <1>2, <1>3, <1>4, <1>6 DEF Others, SameTask, To
<1>7. CASE /\ job[p].i <= Len(Entries(p)) /\ pc' = pc
           /\ ~(job[p].j > 1 /\ Entries(p)[job[p].j] > Entries(p)[job[p].j - 1])
           /\ job' = [job EXCEPT ![p].i = job[p].i + 1, ![p].j = job[p].i + 1]
  <2>1. /\ SameTask(p) /\ job'[p].writes = job[p].writes
        /\ job'[p].i = job[p].i + 1 /\ job'[p].j = job[p].i + 1
        /\ \A q \in Procs : q # p => job'[q] = job[q]
    BY <1>1, <1>3, <1>7 DEF SameTask, Jobs
  <2> QED
    BY <1>2, <1>4, <1>7, <2>1 DEF Others
<1> QED
  BY <1>5, <1>6, <1>7 DEF Compare, Newer

LEMMA SwapEffect ==
  ASSUME PlaceInv, NEW p \in Clients, Swap(p)
  PROVE  /\ Others(p) /\ Reads /\ SameTask(p)
         /\ pc[p] = "swap" /\ pc'[p] = "write"
         /\ job'[p].i = job[p].i /\ job'[p].j = job[p].j - 1
         /\ job[p].writes = {}
         /\ job'[p].writes = {<<job[p].j - 1, Entries(p)[job[p].j]>>,
                              <<job[p].j, Entries(p)[job[p].j - 1]>>}
<1>1. job \in [Procs -> Jobs] /\ pc \in [Procs -> Stages]
  BY DEF PlaceInv, TypeOK
<1>2. pc[p] = "swap" /\ Reads
  BY DEF Swap, Elsewhere, Reads
<1>3. p \in Procs /\ job[p] \in Jobs /\ Counters(p)
  BY <1>2, AtWork
<1>4. job[p].writes = {}
  BY <1>2, <1>3 DEF Counters
<1> DEFINE W == {<<job[p].j - 1, Entries(p)[job[p].j]>>, <<job[p].j, Entries(p)[job[p].j - 1]>>}
<1>5. job' = [job EXCEPT ![p].j = job[p].j - 1, ![p].writes = W]
  BY DEF Swap
<1> HIDE DEF W
<1>6. /\ SameTask(p) /\ job'[p].writes = W
      /\ job'[p].i = job[p].i /\ job'[p].j = job[p].j - 1
      /\ \A q \in Procs : q # p => job'[q] = job[q]
  BY <1>1, <1>3, <1>5 DEF SameTask, Jobs
<1>7. pc'[p] = "write" /\ \A q \in Procs : q # p => pc'[q] = pc[q]
  BY <1>1, <1>3 DEF Swap, To
<1> QED
  BY <1>2, <1>4, <1>6, <1>7 DEF Others, W

LEMMA WriteEffect ==
  ASSUME PlaceInv, NEW p \in Clients, Write(p)
  PROVE  /\ Others(p) /\ SameTask(p) /\ entry' = entry
         /\ pc[p] = "write" /\ pc'[p] \in {"sort", "write"}
         /\ job'[p].i = job[p].i /\ job'[p].j = job[p].j
         /\ DOMAIN index' = DOMAIN index
         /\ \A r \in DOMAIN index :
              /\ r # job[p].ref => index'[r] = index[r]
              /\ DOMAIN index'[r].slice = DOMAIN index[r].slice
              /\ index'[r].words = index[r].words
              /\ index'[r].listed = index[r].listed
              /\ index'[r].shared = index[r].shared
         /\ \E w \in job[p].writes :
              /\ job'[p].writes = job[p].writes \ {w}
              /\ \A k \in DOMAIN Entries(p) :
                   index'[job[p].ref].slice[k] = IF k = w[1] THEN w[2] ELSE Entries(p)[k]
<1>1. job \in [Procs -> Jobs] /\ pc \in [Procs -> Stages]
  BY DEF PlaceInv, TypeOK
<1>2. /\ pc[p] = "write" /\ UNCHANGED <<entry, made>>
      /\ To(p, IF Cardinality(job[p].writes) = 1 THEN "sort" ELSE "write")
  BY WriteStep
<1>3. PICK w \in job[p].writes : Wrote(p, w) /\ job' = [job EXCEPT ![p].writes = @ \ {w}]
  BY WriteStep
<1>4. p \in Procs /\ job[p] \in Jobs
  BY <1>2, AtWork
<1>5. /\ job'[p].writes = job[p].writes \ {w}
      /\ pc'[p] \in {"sort", "write"}
      /\ job'[p].i = job[p].i /\ job'[p].j = job[p].j
  BY <1>2, <1>3, WritePlaces
<1>6. SameTask(p) /\ \A q \in Procs : q # p => job'[q] = job[q]
  BY <1>1, <1>3, <1>4 DEF SameTask, Jobs
<1>7. \A q \in Procs : q # p => pc'[q] = pc[q]
  BY <1>1, <1>2, <1>4 DEF To
<1>8. /\ DOMAIN index' = DOMAIN index
      /\ \A r \in DOMAIN index :
           /\ r # job[p].ref => index'[r] = index[r]
           /\ DOMAIN index'[r].slice = DOMAIN index[r].slice
           /\ index'[r].words = index[r].words
           /\ index'[r].listed = index[r].listed
           /\ index'[r].shared = index[r].shared
      /\ \A k \in DOMAIN Entries(p) :
           index'[job[p].ref].slice[k] = IF k = w[1] THEN w[2] ELSE Entries(p)[k]
  BY <1>2, <1>3, WriteIndex
<1> QED
  BY <1>2, <1>5, <1>6, <1>7, <1>8 DEF Others

LEMMA WidenEffect ==
  ASSUME PlaceInv, NEW p \in Clients, Widen(p)
  PROVE  /\ Others(p) /\ entry' = entry /\ pc[p] = "widen" /\ job' = job
         /\ DOMAIN index' = DOMAIN index
         /\ \A r \in DOMAIN index :
              /\ r # job[p].ref => index'[r] = index[r]
              /\ index'[r].slice = index[r].slice
              /\ index'[r].listed = index[r].listed
              /\ index'[r].shared = index[r].shared
         /\ \/ Entries(p) = <<>> /\ pc'[p] = "answered" /\ index' = index
            \/ /\ Entries(p) # <<>> /\ pc'[p] = "pick"
               /\ \A v \in Versions : index'[job[p].ref].words[v] =
                    IF v = Entries(p)[1] THEN AllWords(p) ELSE Index(p).words[v]
<1>1. job \in [Procs -> Jobs] /\ pc \in [Procs -> Stages] /\ p \in Procs
  BY ClientsAreProcs DEF PlaceInv, TypeOK
<1>2. pc[p] = "widen" /\ entry' = entry /\ job' = job
  BY DEF Widen, Elsewhere
<1>3. CASE Entries(p) = <<>>
  <2>1. To(p, "answered") /\ index' = index
    BY <1>3 DEF Widen
  <2> QED
    BY <1>1, <1>2, <1>3, <2>1 DEF To, Others
<1>4. CASE Entries(p) # <<>>
  <2>1. To(p, "pick") /\ Widened(p)
    BY <1>4, Zenon DEF Widen, Widened, AllWords
  <2>2. pc'[p] = "pick" /\ Others(p)
    BY <1>1, <1>2, <2>1 DEF To, Others
  <2> QED
    BY <1>2, <1>4, <2>1, <2>2, WidenIndex
<1> QED
  BY <1>3, <1>4

LEMMA PickEffect ==
  ASSUME PlaceInv, NEW p \in Clients, Pick(p)
  PROVE  /\ Others(p) /\ Reads /\ SameTask(p)
         /\ pc[p] = "pick" /\ pc'[p] = "answered" /\ Len(Entries(p)) >= 1
         /\ job[p].writes = {} /\ job'[p].writes = {}
         /\ job'[p].got = <<Entries(p)[1]>>
<1>1. job \in [Procs -> Jobs] /\ pc \in [Procs -> Stages]
  BY DEF PlaceInv, TypeOK
<1>2. pc[p] = "pick" /\ Reads /\ To(p, "answered")
  BY DEF Pick, Elsewhere, Reads
<1>3. p \in Procs /\ job[p] \in Jobs /\ Counters(p)
  BY <1>2, AtWork
<1>4. job[p].writes = {} /\ Len(Entries(p)) >= 1
  BY <1>2, <1>3 DEF Counters
<1> DEFINE g == <<Entries(p)[1]>>
<1>5. job' = [job EXCEPT ![p].got = g]
  BY DEF Pick
<1> HIDE DEF g
<1>6. /\ SameTask(p) /\ job'[p].writes = job[p].writes /\ job'[p].got = g
      /\ \A q \in Procs : q # p => job'[q] = job[q]
  BY <1>1, <1>3, <1>5 DEF SameTask, Jobs
<1> QED
  BY <1>1, <1>2, <1>3, <1>4, <1>6 DEF Others, To, g

LEMMA IterateEffect ==
  ASSUME PlaceInv, NEW p \in Clients, Iterate(p)
  PROVE  /\ Others(p) /\ Reads /\ SameTask(p) /\ pc[p] = "iterate"
         /\ job[p].writes = {} /\ job'[p].writes = {}
         /\ \/ job[p].i > Len(Entries(p)) /\ pc'[p] = "answered" /\ job'[p] = job[p]
            \/ /\ job[p].i <= Len(Entries(p)) /\ pc'[p] = "iterate" /\ job'[p].i = job[p].i + 1
               /\ job'[p].got = IF needShow(Entries(p)[job[p].i], job[p].wanted)
                                  THEN Append(job[p].got, Entries(p)[job[p].i]) ELSE job[p].got
<1>1. job \in [Procs -> Jobs] /\ pc \in [Procs -> Stages]
  BY DEF PlaceInv, TypeOK
<1>2. pc[p] = "iterate" /\ Reads
  BY DEF Iterate, Elsewhere, Reads
<1>3. p \in Procs /\ job[p] \in Jobs /\ Counters(p)
  BY <1>2, AtWork
<1>4. job[p].writes = {}
  BY <1>2, <1>3 DEF Counters
<1>5. CASE job' = job /\ To(p, "answered") /\ job[p].i > Len(Entries(p))
  BY <1>1, <1>2, <1>3, <1>4, <1>5 DEF Others, SameTask, To
<1> DEFINE g == IF needShow(Entries(p)[job[p].i], job[p].wanted)
                  THEN Append(job[p].got, Entries(p)[job[p].i]) ELSE job[p].got
<1>6. CASE /\ job[p].i <= Len(Entries(p)) /\ pc' = pc
           /\ job' = [job EXCEPT ![p].i = job[p].i + 1, ![p].got = g]
  <2> HIDE DEF g
  <2>1. /\ SameTask(p) /\ job'[p].writes = job[p].writes
        /\ job'[p].i = job[p].i + 1 /\ job'[p].got = g
        /\ \A q \in Procs : q # p => job'[q] = job[q]
    BY <1>1, <1>3, <1>6 DEF SameTask, Jobs
  <2> QED
    BY <1>2, <1>4, <1>6, <2>1 DEF Others, g
<1> QED
  BY <1>5, <1>6 DEF Iterate

LEMMA FindEffect ==
  ASSUME PlaceInv, NEW p \in Clients, Find(p)
  PROVE  /\ Others(p) /\ Reads /\ SameTask(p) /\ pc[p] = "find"
         /\ job[p].writes = {} /\ job'[p].writes = {} /\ job[p].got = <<>>
         /\ \/ Past(p) /\ pc'[p] = "answered" /\ job'[p] = job[p]
            \/ Hit(p) /\ pc'[p] = "answered" /\ job'[p].got = <<Here(p)>>
            \/ ~Past(p) /\ ~Hit(p) /\ pc'[p] = "find" /\ job'[p].i = job[p].i + 1
               /\ job'[p].got = <<>>
<1>1. job \in [Procs -> Jobs] /\ pc \in [Procs -> Stages]
  BY DEF PlaceInv, TypeOK
<1>2. pc[p] = "find" /\ Reads
  BY DEF Find, Elsewhere, Reads
<1>3. p \in Procs /\ job[p] \in Jobs /\ Counters(p) /\ Placed(p)
  BY <1>2, AtWork
<1>4. job[p].writes = {} /\ job[p].got = <<>>
  BY <1>2, <1>3 DEF Counters, Placed
<1>5. CASE job' = job /\ To(p, "answered") /\ Past(p)
  BY <1>1, <1>2, <1>3, <1>4, <1>5 DEF Others, SameTask, To
<1> DEFINE g == <<Here(p)>>
<1>6. CASE Hit(p) /\ To(p, "answered") /\ job' = [job EXCEPT ![p].got = g]
  <2> HIDE DEF g
  <2>1. /\ SameTask(p) /\ job'[p].writes = job[p].writes /\ job'[p].got = g
        /\ \A q \in Procs : q # p => job'[q] = job[q]
    BY <1>1, <1>3, <1>6 DEF SameTask, Jobs
  <2> QED
    BY <1>1, <1>2, <1>3, <1>4, <1>6, <2>1 DEF Others, To, g
<1>7. CASE ~Past(p) /\ ~Hit(p) /\ pc' = pc /\ job' = [job EXCEPT ![p].i = @ + 1]
  <2>1. /\ SameTask(p) /\ job'[p].writes = job[p].writes /\ job'[p].got = job[p].got
        /\ job'[p].i = job[p].i + 1
        /\ \A q \in Procs : q # p => job'[q] = job[q]
    BY <1>1, <1>3, <1>7 DEF SameTask, Jobs
  <2> QED
    BY <1>2, <1>4, <1>7, <2>1 DEF Others
<1> QED
  BY <1>5, <1>6, <1>7 DEF Find

LEMMA LoadEffect ==
  ASSUME PlaceInv, LoadIndex
  PROVE  /\ entry' = entry
         /\ \A q \in Procs : q # Syncer => pc'[q] = pc[q] /\ job'[q] = job[q]
         /\ job[Syncer].ref = None /\ job'[Syncer].ref = Len(index')
         /\ DOMAIN index' = DOMAIN index \cup {Len(index')}
         /\ \A r \in DOMAIN index : r # Len(index') /\ index'[r] = index[r]
         /\ \E s \in Orders : index'[Len(index')] = NewIndex(s)
<1>1. job \in [Procs -> Jobs] /\ pc \in [Procs -> Stages] /\ Syncer \in Procs
  BY ClientsAreProcs DEF PlaceInv, TypeOK
<1>2. PICK s \in Orders : index' = Append(index, NewIndex(s))
  BY DEF LoadIndex
<1>3. /\ DOMAIN index' = DOMAIN index \cup {Len(index')}
      /\ \A r \in DOMAIN index : r # Len(index') /\ index'[r] = index[r]
      /\ index'[Len(index')] = NewIndex(s)
  BY <1>2, LoadedIndex DEF LoadIndex
<1>4. /\ job'[Syncer].ref = Len(index') /\ \A q \in Procs : q # Syncer => job'[q] = job[q]
  BY <1>1 DEF LoadIndex, Jobs
<1>5. \A q \in Procs : q # Syncer => pc'[q] = pc[q]
  BY <1>1 DEF LoadIndex, To
<1>6. job[Syncer].ref = None /\ entry' = entry
  BY DEF LoadIndex, PlaceInv, Places
<1> QED
  BY <1>3, <1>4, <1>5, <1>6

LEMMA HandlerEffect ==
  ASSUME PlaceInv, BeginStore \/ EndStore \/ EnterDelete \/ EndDelete
  PROVE  /\ index' = index
         /\ \A q \in Clients : pc'[q] = pc[q] /\ job'[q] = job[q]
         /\ \A q \in Procs : job'[q].ref \in {job[q].ref, None}
         /\ entry' \in {entry, None, job[Syncer].ref}
<1>1. Syncer \in Procs /\ Remover \in Procs /\ \A q \in Clients : q \in Procs /\ q # Syncer /\ q # Remover
  BY ClientsAreProcs
<1>2. job \in [Procs -> Jobs] /\ pc \in [Procs -> Stages]
  BY DEF PlaceInv, TypeOK
<1> QED
  BY <1>1, <1>2 DEF BeginStore, EndStore, EnterDelete, EndDelete, To, Fresh

-----------------------------------------------------------------------------
(* Nothing gets into an index that it did not come with. *)
LEMMA WritersHaveIndex ==
  ASSUME PlaceInv, NEW q \in Clients, job[q].writes # {}
  PROVE  job[q].ref \in DOMAIN index
BY DEF PlaceInv, Places, Placed

LEMMA ContainedKept ==
  ASSUME PlaceInv, Contained,
         \A r \in DOMAIN index : /\ index'[r].slice = index[r].slice
                                 /\ index'[r].words = index[r].words
                                 /\ index'[r].listed = index[r].listed,
         DOMAIN index' = DOMAIN index,
         \A q \in Clients : \/ job'[q].writes = {}
                            \/ job'[q].ref = job[q].ref /\ job'[q].writes = job[q].writes
  PROVE  Contained'
<1>1. \A r \in DOMAIN index' :
        /\ Shown(index'[r].slice) \subseteq index'[r].listed
        /\ \A v \in index'[r].listed : v \in index'[r].words[v] /\ index'[r].words[v] \subseteq index'[r].listed
  BY DEF Contained
<1>2. ASSUME NEW q \in Clients, NEW w \in job'[q].writes PROVE w[2] \in Index(q)'.listed
  <2>1. job'[q].ref = job[q].ref /\ w \in job[q].writes /\ job[q].ref \in DOMAIN index
    BY <1>2, WritersHaveIndex
  <2> QED
    BY <2>1 DEF Contained, Index
<1> QED
  BY <1>1, <1>2 DEF Contained, Shown

LEMMA StepContained == PlaceInv /\ Contained /\ [Next]_vars => Contained'
<1> SUFFICES ASSUME PlaceInv, Contained, [Next]_vars PROVE Contained'
  OBVIOUS
<1>0. \A q \in Clients : q \in Procs /\ q # Syncer
  BY ClientsAreProcs
<1>1. ASSUME NEW p \in Clients, Others(p), Reads,
             \/ job'[p].writes = {}
             \/ job'[p].ref = job[p].ref /\ job'[p].writes = job[p].writes
      PROVE  Contained'
  BY <1>0, <1>1, ContainedKept DEF Others, Reads
<1>2. ASSUME NEW p \in Clients, Enter(p) PROVE Contained'
  BY <1>1, <1>2, EnterEffect
<1>3. ASSUME NEW p \in Clients, LeaveEmpty(p) \/ Answer(p) \/ RequestPanics(p) PROVE Contained'
  BY <1>1, <1>3, EndEffect DEF Fresh
<1>4. ASSUME NEW p \in Clients, Leave(p) PROVE Contained'
  <2>1. \A q \in Clients : \/ job'[q].writes = {}
                           \/ job'[q].ref = job[q].ref /\ job'[q].writes = job[q].writes
    BY <1>0, <1>4, LeaveEffect
  <2>2. /\ DOMAIN index' = DOMAIN index
        /\ \A r \in DOMAIN index :
              /\ index'[r].slice = index[r].slice /\ index'[r].words = index[r].words
              /\ index'[r].listed = index[r].listed
    BY <1>4, LeaveEffect
  <2> QED
    BY <2>1, <2>2, ContainedKept
<1>5. ASSUME NEW p \in Clients, Compare(p) PROVE Contained'
  BY <1>1, <1>5, CompareEffect
<1>6. ASSUME NEW p \in Clients, Swap(p) PROVE Contained'
  <2> DEFINE j == job[p].j
  <2>1. /\ Others(p) /\ Reads /\ SameTask(p) /\ pc[p] = "swap"
        /\ job'[p].writes = {<<j - 1, Entries(p)[j]>>, <<j, Entries(p)[j - 1]>>}
    BY <1>6, SwapEffect
  <2>2. /\ job[p].ref \in DOMAIN index /\ j \in DOMAIN Entries(p) /\ j - 1 \in DOMAIN Entries(p)
    BY <2>1, AtWork DEF Counters
  <2>3. Entries(p)[j] \in Index(p).listed /\ Entries(p)[j - 1] \in Index(p).listed
    BY <2>2 DEF Contained, Shown, Entries, Index
  <2>4. \A w \in job'[p].writes : w[2] \in Index(p)'.listed
    BY <2>1, <2>3 DEF SameTask, Reads, Index
  <2>5. ASSUME NEW q \in Clients, q # p, NEW w \in job'[q].writes PROVE w[2] \in Index(q)'.listed
    BY <1>0, <2>1, <2>5 DEF Contained, Others, Reads, Index
  <2> QED
    BY <2>1, <2>4, <2>5 DEF Contained, Reads, Shown
<1>7. ASSUME NEW p \in Clients, Write(p) PROVE Contained'
  <2>1. PICK w \in job[p].writes :
              /\ job'[p].writes = job[p].writes \ {w}
              /\ \A k \in DOMAIN Entries(p) :
                   index'[job[p].ref].slice[k] = IF k = w[1] THEN w[2] ELSE Entries(p)[k]
    BY <1>7, WriteEffect
  <2>2. /\ Others(p) /\ SameTask(p) /\ pc[p] = "write"
        /\ DOMAIN index' = DOMAIN index
        /\ \A r \in DOMAIN index :
              /\ r # job[p].ref => index'[r] = index[r]
              /\ DOMAIN index'[r].slice = DOMAIN index[r].slice
              /\ index'[r].words = index[r].words
              /\ index'[r].listed = index[r].listed
    BY <1>7, WriteEffect
  <2>3. job[p].ref \in DOMAIN index /\ w[2] \in index[job[p].ref].listed
    BY <2>2, AtWork DEF Contained, Index
  <2>4. ASSUME NEW r \in DOMAIN index, NEW k \in DOMAIN index[r].slice
        PROVE  index'[r].slice[k] \in index[r].listed
    BY <2>1, <2>2, <2>3, <2>4 DEF Contained, Shown, Entries, Index
  <2>5. \A r \in DOMAIN index' : Shown(index'[r].slice) \subseteq index'[r].listed
    BY <2>2, <2>4 DEF Shown
  <2>6. ASSUME NEW q \in Clients, NEW x \in job'[q].writes PROVE x[2] \in Index(q)'.listed
    <3>1. x \in job[q].writes /\ job'[q].ref = job[q].ref
      BY <1>0, <2>1, <2>2, <2>6 DEF Others, SameTask
    <3>2. job[q].ref \in DOMAIN index
      BY <3>1, WritersHaveIndex
    <3> QED
      BY <2>2, <3>1, <3>2 DEF Contained, Index
  <2>7. \A r \in DOMAIN index' : \A v \in index'[r].listed :
          v \in index'[r].words[v] /\ index'[r].words[v] \subseteq index'[r].listed
    BY <2>2 DEF Contained
  <2> QED
    BY <2>5, <2>6, <2>7 DEF Contained, Shown
<1>8. ASSUME NEW p \in Clients, Widen(p) PROVE Contained'
  <2>1. /\ Others(p) /\ job' = job /\ pc[p] = "widen" /\ DOMAIN index' = DOMAIN index
        /\ \A r \in DOMAIN index :
              /\ r # job[p].ref => index'[r] = index[r]
              /\ index'[r].slice = index[r].slice
              /\ index'[r].listed = index[r].listed
    BY <1>8, WidenEffect
  <2>2. CASE index' = index
    BY <2>1, <2>2, ContainedKept
  <2>3. CASE /\ Entries(p) # <<>>
             /\ \A v \in Versions : index'[job[p].ref].words[v] =
                    IF v = Entries(p)[1] THEN AllWords(p) ELSE Index(p).words[v]
    <3>1. job[p].ref \in DOMAIN index /\ Entries(p)[1] \in Shown(Entries(p))
      BY <2>1, <2>3, WidenTyped
    <3>2. Index(p).listed \subseteq Versions
      BY <3>1, IndexTyped DEF PlaceInv, Index
    <3>3. /\ Shown(Entries(p)) \subseteq Index(p).listed
          /\ \A v \in Index(p).listed : v \in Index(p).words[v] /\ Index(p).words[v] \subseteq Index(p).listed
      BY <3>1 DEF Contained, Entries, Index
    <3>4. Entries(p)[1] \in AllWords(p) /\ AllWords(p) \subseteq Index(p).listed
      BY <3>1, <3>3 DEF AllWords
    <3>5. \A v \in Index(p).listed : v \in index'[job[p].ref].words[v] /\ index'[job[p].ref].words[v] \subseteq Index(p).listed
      BY <2>3, <3>2, <3>3, <3>4
    <3>6. \A r \in DOMAIN index' :
            /\ Shown(index'[r].slice) \subseteq index'[r].listed
            /\ \A v \in index'[r].listed : v \in index'[r].words[v] /\ index'[r].words[v] \subseteq index'[r].listed
      BY <2>1, <3>1, <3>5 DEF Contained, Index
    <3>7. ASSUME NEW q \in Clients, NEW x \in job'[q].writes PROVE x[2] \in Index(q)'.listed
      <4>1. job[q].ref \in DOMAIN index /\ x \in job[q].writes
        BY <2>1, <3>7, WritersHaveIndex
      <4> QED
        BY <2>1, <4>1 DEF Contained, Index
    <3> QED
      BY <3>6, <3>7 DEF Contained, Shown
  <2> QED
    BY <1>8, <2>2, <2>3, WidenEffect
<1>9. ASSUME NEW p \in Clients, Pick(p) PROVE Contained'
  BY <1>1, <1>9, PickEffect
<1>10. ASSUME NEW p \in Clients, Iterate(p) PROVE Contained'
  BY <1>1, <1>10, IterateEffect
<1>11. ASSUME NEW p \in Clients, Find(p) PROVE Contained'
  BY <1>1, <1>11, FindEffect
<1>12. ASSUME LoadIndex PROVE Contained'
  <2>1. PICK s \in Orders : index'[Len(index')] = NewIndex(s)
    BY <1>12, LoadEffect
  <2>2. /\ \A q \in Clients : pc'[q] = pc[q] /\ job'[q] = job[q]
        /\ DOMAIN index' = DOMAIN index \cup {Len(index')}
        /\ \A r \in DOMAIN index : r # Len(index') /\ index'[r] = index[r]
    BY <1>0, <1>12, LoadEffect
  <2>3. Shown(s) \subseteq Versions
    BY OrdersAssumption DEF Shown
  <2>4. /\ Shown(NewIndex(s).slice) \subseteq NewIndex(s).listed
        /\ \A v \in NewIndex(s).listed : v \in NewIndex(s).words[v] /\ NewIndex(s).words[v] \subseteq NewIndex(s).listed
    BY <2>3 DEF NewIndex
  <2>5. \A r \in DOMAIN index' :
          /\ Shown(index'[r].slice) \subseteq index'[r].listed
          /\ \A v \in index'[r].listed : v \in index'[r].words[v] /\ index'[r].words[v] \subseteq index'[r].listed
    BY <2>1, <2>2, <2>4 DEF Contained
  <2>6. ASSUME NEW q \in Clients, NEW x \in job'[q].writes PROVE x[2] \in Index(q)'.listed
    <3>1. job[q].ref \in DOMAIN index /\ x \in job[q].writes
      BY <2>2, <2>6, WritersHaveIndex
    <3>2. x[2] \in index[job[q].ref].listed
      BY <3>1 DEF Contained, Index
    <3>3. index'[job'[q].ref] = index[job[q].ref]
      BY <2>2, <3>1
    <3> QED
      BY <3>2, <3>3 DEF Index
  <2> QED
    BY <2>5, <2>6 DEF Contained, Shown
<1>13. ASSUME BeginStore \/ EndStore \/ EnterDelete \/ EndDelete PROVE Contained'
  BY <1>13, HandlerEffect, ContainedKept
<1>14. ASSUME Die PROVE Contained'
  BY <1>0, <1>14, ContainedKept DEF Die, Fresh
<1>15. ASSUME UNCHANGED vars PROVE Contained'
  BY <1>15, ContainedKept DEF vars
<1> QED
  BY <1>2, <1>3, <1>4, <1>5, <1>6, <1>7, <1>8, <1>9, <1>10, <1>11, <1>12, <1>13, <1>14, <1>15
     DEF Next, Listing

-----------------------------------------------------------------------------
(***************************************************************************)
(* A request starts to work on an index when it leaves the cache with it,  *)
(* and at no other step.                                                   *)
(***************************************************************************)
Working(q) == pc[q] \notin {"idle", "map", "answered"}

GoesOn ==
  \A q \in Clients : Working(q)' =>
    /\ Working(q) /\ job'[q].ref = job[q].ref /\ job'[q].alone = job[q].alone
    /\ Listings(q)' => Listings(q)

LEMMA OneGoesOn ==
  ASSUME NEW p \in Clients, Others(p),
         Working(p)' => /\ Working(p) /\ job'[p].ref = job[p].ref /\ job'[p].alone = job[p].alone
                        /\ Listings(p)' => Listings(p)
  PROVE  GoesOn
<1> SUFFICES ASSUME NEW q \in Clients, q # p, Working(q)'
             PROVE  /\ Working(q) /\ job'[q].ref = job[q].ref /\ job'[q].alone = job[q].alone
                    /\ Listings(q)' => Listings(q)
  BY DEF GoesOn
<1> QED
  BY ClientsAreProcs DEF Others, Working, Listings

LEMMA StepGoesOn ==
  ASSUME PlaceInv, [Next]_vars, \A p \in Clients : ~Leave(p)
  PROVE  GoesOn
<1>0. \A q \in Clients : q \in Procs /\ q # Syncer
  BY ClientsAreProcs
<1>1. ASSUME \A q \in Clients : pc'[q] = pc[q] /\ job'[q] = job[q] PROVE GoesOn
  BY <1>1 DEF GoesOn, Working, Listings
<1>2. ASSUME NEW p \in Clients, Enter(p) PROVE GoesOn
  BY <1>2, EnterEffect, OneGoesOn DEF Working
<1>3. ASSUME NEW p \in Clients, LeaveEmpty(p) \/ Answer(p) \/ RequestPanics(p) PROVE GoesOn
  BY <1>3, EndEffect, OneGoesOn DEF Working
<1>4. ASSUME NEW p \in Clients, Compare(p) PROVE GoesOn
  BY <1>4, CompareEffect, OneGoesOn DEF Working, Listings, ListStages, SameTask
<1>5. ASSUME NEW p \in Clients, Swap(p) PROVE GoesOn
  BY <1>5, SwapEffect, OneGoesOn DEF Working, Listings, ListStages, SameTask
<1>6. ASSUME NEW p \in Clients, Write(p) PROVE GoesOn
  <2>1. Others(p) /\ SameTask(p) /\ pc[p] = "write"
    BY <1>6, WriteEffect
  <2> QED
    BY <2>1, OneGoesOn DEF Working, Listings, ListStages, SameTask
<1>7. ASSUME NEW p \in Clients, Widen(p) PROVE GoesOn
  <2>1. Others(p) /\ job' = job /\ pc[p] = "widen"
    BY <1>7, WidenEffect
  <2> QED
    BY <2>1, OneGoesOn DEF Working, Listings, ListStages
<1>8. ASSUME NEW p \in Clients, Pick(p) PROVE GoesOn
  BY <1>8, PickEffect, OneGoesOn DEF Working
<1>9. ASSUME NEW p \in Clients, Iterate(p) PROVE GoesOn
  BY <1>9, IterateEffect, OneGoesOn DEF Working, Listings, ListStages, SameTask
<1>10. ASSUME NEW p \in Clients, Find(p) PROVE GoesOn
  BY <1>10, FindEffect, OneGoesOn DEF Working, Listings, ListStages, SameTask
<1>11. ASSUME LoadIndex PROVE GoesOn
  BY <1>0, <1>1, <1>11, LoadEffect
<1>12. ASSUME BeginStore \/ EndStore \/ EnterDelete \/ EndDelete PROVE GoesOn
  BY <1>1, <1>12, HandlerEffect
<1>13. ASSUME Die PROVE GoesOn
  BY <1>0, <1>13 DEF Die, GoesOn, Working
<1>14. ASSUME UNCHANGED vars PROVE GoesOn
  BY <1>1, <1>14 DEF vars
<1> QED
  BY <1>2, <1>3, <1>4, <1>5, <1>6, <1>7, <1>8, <1>9, <1>10, <1>11, <1>12, <1>13, <1>14
     DEF Next, Listing

\* A listing's stages are those of a request that lists.
LEMMA ListingsList ==
  ASSUME PlaceInv, NEW p \in Clients, Listings(p)
  PROVE  Lists(p) /\ Working(p) /\ job[p].ref \in DOMAIN index
BY DEF PlaceInv, Places, Placed, Listings, ListStages, Lists, Working

LEMMA StepExclusive == PlaceInv /\ Exclusive /\ [Next]_vars => Exclusive'
<1> SUFFICES ASSUME PlaceInv, Exclusive, [Next]_vars PROVE Exclusive'
  OBVIOUS
<1>0. PlaceInv' /\ Grown
  BY StepPlaces
<1>1. CASE \A p \in Clients : ~Leave(p)
  <2> SUFFICES ASSUME NEW p \in Clients, NEW q \in Clients, p # q, Working(p)', Listings(q)',
                      job'[p].ref = job'[q].ref
               PROVE  ~job'[p].alone /\ (Listings(p)' => Index(p)'.shared)
    BY DEF Exclusive, Working
  <2>1. GoesOn
    BY <1>1, StepGoesOn
  <2>2. Working(q)'
    BY DEF Listings, ListStages, Working
  <2>3. /\ Working(p) /\ job'[p].ref = job[p].ref /\ job'[p].alone = job[p].alone
        /\ Listings(p)' => Listings(p)
        /\ Listings(q) /\ job'[q].ref = job[q].ref
    BY <2>1, <2>2 DEF GoesOn
  <2>4. ~job[p].alone /\ (Listings(p) => Index(p).shared)
    BY <2>3 DEF Exclusive, Working
  <2>5. job[p].ref \in DOMAIN index
    BY <2>3 DEF PlaceInv, Places, Placed, Working
  <2> QED
    BY <1>0, <2>3, <2>4, <2>5 DEF Grown, Index
<1>2. ASSUME NEW x \in Clients, Leave(x) PROVE Exclusive'
  <2> SUFFICES ASSUME NEW p \in Clients, NEW q \in Clients, p # q, Working(p)', Listings(q)',
                      job'[p].ref = job'[q].ref
               PROVE  ~job'[p].alone /\ (Listings(p)' => Index(p)'.shared)
    BY DEF Exclusive, Working
  <2>0. p \in Procs /\ q \in Procs /\ x \in Procs
    BY ClientsAreProcs
  <2>1. Lists(q)' /\ (Listings(p)' => Lists(p)')
    BY <1>0, ListingsList DEF Lists, Listings, ListStages, PlaceInv, Places, Placed
  <2>2. \A y \in Procs : job'[y].kind = job[y].kind
    BY <1>2, LeaveEffect
  <2>3. Lists(q) /\ (Listings(p)' => Lists(p))
    BY <2>0, <2>1, <2>2 DEF Lists
  <2>4. \A y \in Procs : y # x => pc'[y] = pc[y] /\ job'[y].ref = job[y].ref
                                 /\ (job'[y].alone => job[y].alone /\ ~(Lists(x) /\ y \in Sharing(x)))
    BY <1>2, LeaveEffect
  <2>5. /\ job'[x].ref = entry /\ entry \in DOMAIN index
        /\ job'[x].alone => \A o \in Sharing(x) : ~Lists(o)
        /\ Lists(x) /\ (\E o \in Sharing(x) : Lists(o)) => index'[entry].shared
    BY <1>2, LeaveEffect
  <2>6. CASE q = x
    <3>1. p \in Sharing(x)
      BY <2>0, <2>4, <2>5, <2>6 DEF Sharing, Working
    <3> QED
      BY <2>0, <2>3, <2>4, <2>5, <2>6, <3>1 DEF Index
  <2>7. CASE p = x
    <3>1. q \in Sharing(x)
      BY <2>0, <2>4, <2>5, <2>7 DEF Sharing, Listings, ListStages
    <3> QED
      BY <2>0, <2>3, <2>5, <2>7, <3>1 DEF Index
  <2>8. CASE q # x /\ p # x
    <3>1. Working(p) /\ Listings(q) /\ job[p].ref = job[q].ref /\ (Listings(p)' => Listings(p))
      BY <2>0, <2>4, <2>8 DEF Working, Listings
    <3>2. ~job[p].alone /\ (Listings(p) => Index(p).shared)
      BY <3>1 DEF Exclusive, Working
    <3>3. job[p].ref \in DOMAIN index
      BY <3>1 DEF PlaceInv, Places, Placed, Working
    <3> QED
      BY <1>0, <2>0, <2>4, <2>8, <3>1, <3>2, <3>3 DEF Grown, Index
  <2> QED
    BY <2>6, <2>7, <2>8
<1> QED
  BY <1>1, <1>2

-----------------------------------------------------------------------------
(* One round of the insertion sort, on the slice as it will be written. *)
Swapped(s, j) == [s EXCEPT ![j - 1] = s[j], ![j] = s[j - 1]]

LEMMA SwapOrders ==
  ASSUME NEW n \in Nat, NEW s \in [1 .. n -> Versions], NEW i \in Nat, NEW j \in 2 .. i, i <= n,
         Ordered(s, i, j), s[j] > s[j - 1],
         NEW t, t = Swapped(s, j)
  PROVE  /\ t \in [1 .. n -> Versions]
         /\ t[j - 1] = s[j] /\ t[j] = s[j - 1] /\ \A k \in 1 .. n : k \notin {j - 1, j} => t[k] = s[k]
         /\ Ordered(t, i, j - 1)
         /\ Shown(t) = Shown(s)
         /\ (\A a, b \in 1 .. n : s[a] = s[b] => a = b) => \A a, b \in 1 .. n : t[a] = t[b] => a = b
<1>1. j \in 1 .. n /\ j - 1 \in 1 .. n /\ j # j - 1
  OBVIOUS
<1>2. s[j] \in Versions /\ s[j - 1] \in Versions
  BY <1>1
<1>3. t \in [1 .. n -> Versions]
  BY <1>1, <1>2 DEF Swapped
<1>4. t[j - 1] = s[j] /\ t[j] = s[j - 1] /\ \A k \in 1 .. n : k \notin {j - 1, j} => t[k] = s[k]
  BY <1>1 DEF Swapped
<1>5. \A k \in 1 .. n : s[k] \in Int
  BY VersionsAreNumbers
<1>6. Ordered(t, i, j - 1)
  <2> SUFFICES ASSUME NEW a \in 1 .. n, NEW b \in 1 .. n, a < b, b <= i, b # j - 1
               PROVE  t[a] >= t[b]
    BY <1>3 DEF Ordered
  <2>1. \A x, y \in 1 .. n : x < y /\ y <= i /\ y # j => s[x] >= s[y]
    BY DEF Ordered
  <2>2. CASE b = j
    BY <1>1, <1>4, <1>5, <2>1, <2>2
  <2>3. CASE b > j
    <3>1. s[a] >= s[b] /\ s[j] >= s[b] /\ s[j - 1] >= s[b]
      BY <1>1, <2>1, <2>3
    <3> QED
      BY <1>1, <1>4, <2>3, <3>1
  <2>4. CASE b < j - 1
    BY <1>4, <2>1, <2>4
  <2> QED
    BY <2>2, <2>3, <2>4
<1>7. Shown(t) = Shown(s)
  <2>1. ASSUME NEW k \in 1 .. n PROVE (\E m \in 1 .. n : s[m] = t[k]) /\ (\E m \in 1 .. n : t[m] = s[k])
    <3>1. CASE k = j
      BY <1>1, <1>4, <3>1
    <3>2. CASE k = j - 1
      BY <1>1, <1>4, <3>2
    <3>3. CASE k \notin {j - 1, j}
      BY <1>4, <3>3
    <3> QED
      BY <3>1, <3>2, <3>3
  <2>2. DOMAIN t = 1 .. n /\ DOMAIN s = 1 .. n
    BY <1>3
  <2>3. \A x : x \in Shown(t) <=> \E m \in 1 .. n : x = t[m]
    BY <2>2 DEF Shown
  <2>4. \A x : x \in Shown(s) <=> \E m \in 1 .. n : x = s[m]
    BY <2>2 DEF Shown
  <2>5. ASSUME NEW x \in Shown(t) PROVE x \in Shown(s)
    <3>1. PICK k \in 1 .. n : x = t[k]
      BY <2>3
    <3>2. PICK m \in 1 .. n : s[m] = t[k]
      BY <2>1
    <3> QED
      BY <2>4, <3>1, <3>2
  <2>6. ASSUME NEW x \in Shown(s) PROVE x \in Shown(t)
    <3>1. PICK k \in 1 .. n : x = s[k]
      BY <2>4
    <3>2. PICK m \in 1 .. n : t[m] = s[k]
      BY <2>1
    <3> QED
      BY <2>3, <3>1, <3>2
  <2> QED
    BY <2>5, <2>6
<1>8. ASSUME \A a, b \in 1 .. n : s[a] = s[b] => a = b
      PROVE  \A a, b \in 1 .. n : t[a] = t[b] => a = b
  BY <1>1, <1>4, <1>8
<1> QED
  BY <1>3, <1>4, <1>6, <1>7, <1>8

LEMMA NextOrders ==
  ASSUME NEW n \in Nat, NEW s \in [1 .. n -> Versions], NEW i \in Nat, NEW j \in 1 .. i, i <= n,
         Ordered(s, i, j), ~(j > 1 /\ s[j] > s[j - 1])
  PROVE  Ordered(s, i + 1, i + 1)
<1> SUFFICES ASSUME NEW a \in 1 .. n, NEW b \in 1 .. n, a < b, b <= i
             PROVE  s[a] >= s[b]
  BY DEF Ordered
<1>1. \A k \in 1 .. n : s[k] \in Int
  BY VersionsAreNumbers
<1>2. \A x, y \in 1 .. n : x < y /\ y <= i /\ y # j => s[x] >= s[y]
  BY DEF Ordered
<1>3. CASE b # j
  BY <1>2, <1>3
<1>4. CASE b = j
  <2>1. j > 1 /\ j - 1 \in 1 .. n
    BY <1>4
  <2>2. s[j - 1] >= s[j]
    BY <1>1, <2>1
  <2>3. CASE a = j - 1
    BY <1>4, <2>2, <2>3
  <2>4. CASE a < j - 1
    <3>1. s[a] >= s[j - 1]
      BY <1>2, <2>1, <2>4
    <3> QED
      BY <1>1, <1>4, <2>1, <2>2, <3>1
  <2> QED
    BY <1>4, <2>1, <2>3, <2>4
<1> QED
  BY <1>3, <1>4

-----------------------------------------------------------------------------
(* What a step does not disturb of the sorts in progress. *)

LEMMA SortKept ==
  ASSUME NEW q \in Clients, SortInv(q), pc'[q] = pc[q],
         job'[q].ref = job[q].ref, job'[q].i = job[q].i, job'[q].j = job[q].j,
         job'[q].writes = job[q].writes,
         Index(q)'.slice = Index(q).slice, Index(q)'.words = Index(q).words,
         Index(q)'.listed = Index(q).listed
  PROVE  SortInv(q)'
<1>1. Entries(q)' = Entries(q)
  BY DEF Entries
<1> QED
  BY <1>1 DEF SortInv, Settles

LEMMA SortsKept ==
  ASSUME PlaceInv, Sorts, NEW p, NEW R,
         \A q \in Clients : q # p =>
            /\ pc'[q] = pc[q] /\ job'[q].ref = job[q].ref /\ job'[q].i = job[q].i
            /\ job'[q].j = job[q].j /\ job'[q].writes = job[q].writes,
         \A r \in DOMAIN index :
            /\ index[r].shared => index'[r].shared
            /\ index'[r].listed = index[r].listed
            /\ r \notin R => index'[r].slice = index[r].slice /\ index'[r].words = index[r].words,
         \A q \in Clients : q # p /\ Listings(q) /\ job[q].ref \in R => Index(q).shared,
         p \in Clients /\ Listings(p)' /\ ~Index(p)'.shared => SortInv(p)'
  PROVE  Sorts'
<1> SUFFICES ASSUME NEW q \in Clients, q # p, Listings(q)', ~Index(q)'.shared PROVE SortInv(q)'
  BY DEF Sorts
<1>1. Listings(q)
  BY DEF Listings
<1>2. job[q].ref \in DOMAIN index
  BY <1>1, ListingsList
<1>3. ~Index(q).shared
  BY <1>2 DEF Index
<1>4. job[q].ref \notin R /\ SortInv(q)
  BY <1>1, <1>3 DEF Sorts
<1>5. /\ Index(q)'.slice = Index(q).slice /\ Index(q)'.words = Index(q).words
      /\ Index(q)'.listed = Index(q).listed
  BY <1>2, <1>4 DEF Index
<1> QED
  BY <1>4, <1>5, SortKept

LEMMA RestKept ==
  ASSUME PlaceInv, RestWhole, NEW p \in Clients,
         \A q \in Procs : q # p => pc'[q] = pc[q] /\ job'[q].ref = job[q].ref,
         job'[p].ref \in {job[p].ref, entry, None}, entry' = entry,
         DOMAIN index' = DOMAIN index,
         \A r \in DOMAIN index :
            /\ index[r].shared => index'[r].shared
            /\ index'[r].listed = index[r].listed
            /\ index'[r].slice # index[r].slice =>
                 r = job[p].ref /\ Listings(p)' /\ job'[p].ref = job[p].ref,
         Listings(p) => \/ Listings(p)' /\ job'[p].ref = job[p].ref
                        \/ Index(p).shared
                        \/ Whole(Entries(p), Index(p).listed)
  PROVE  RestWhole'
<1> SUFFICES ASSUME NEW r \in DOMAIN index, Resting(r)' PROVE Whole(index'[r].slice, index'[r].listed)
  BY DEF RestWhole, Whole, Shown
<1>0. \A q \in Clients : q \in Procs
  BY ClientsAreProcs
<1>1. ~index[r].shared
  BY DEF Resting
<1>2. r # None
  BY NoIndexAssumption DEF PlaceInv, TypeOK
<1>3. r = entry \/ \E q \in Procs : job[q].ref = r
  BY <1>0, <1>2 DEF Resting
<1>4. index'[r].slice = index[r].slice /\ index'[r].listed = index[r].listed
  BY DEF Resting
<1>5. \A q \in Clients : q # p => (job[q].ref = r => ~Listings(q))
  BY <1>0 DEF Resting, Listings
<1>6. CASE job[p].ref = r /\ Listings(p)
  <2>1. Whole(Entries(p), Index(p).listed)
    BY <1>1, <1>6 DEF Resting, Index
  <2> QED
    BY <1>4, <1>6, <2>1 DEF Entries, Index
<1>7. CASE ~(job[p].ref = r /\ Listings(p))
  <2>1. Resting(r)
    BY <1>1, <1>3, <1>5, <1>7 DEF Resting
  <2> QED
    BY <1>4, <2>1 DEF RestWhole
<1> QED
  BY <1>6, <1>7

\* The same, for the steps that leave the indexes alone.
LEMMA ReadKeeps ==
  ASSUME PlaceInv, Sorts, RestWhole, NEW p \in Clients, Others(p), Reads,
         job'[p].ref \in {job[p].ref, None},
         Listings(p)' /\ ~Index(p)'.shared => SortInv(p)',
         Listings(p) => \/ Listings(p)' /\ job'[p].ref = job[p].ref
                        \/ Index(p).shared
                        \/ Whole(Entries(p), Index(p).listed)
  PROVE  Sorts' /\ RestWhole'
<1>0. \A q \in Clients : q \in Procs
  BY ClientsAreProcs
<1>1. Sorts'
  <2> DEFINE R == {}
  <2>1. \A q \in Clients : q # p =>
            /\ pc'[q] = pc[q] /\ job'[q].ref = job[q].ref /\ job'[q].i = job[q].i
            /\ job'[q].j = job[q].j /\ job'[q].writes = job[q].writes
    BY <1>0 DEF Others
  <2>2. \A r \in DOMAIN index :
            /\ index[r].shared => index'[r].shared
            /\ index'[r].listed = index[r].listed
            /\ r \notin R => index'[r].slice = index[r].slice /\ index'[r].words = index[r].words
    BY DEF Reads
  <2>3. \A q \in Clients : q # p /\ Listings(q) /\ job[q].ref \in R => Index(q).shared
    OBVIOUS
  <2> HIDE DEF R
  <2> QED
    BY <2>1, <2>2, <2>3, SortsKept
<1>2. RestWhole'
  BY <1>0, RestKept, Zenon DEF Others, Reads
<1> QED
  BY <1>1, <1>2

-----------------------------------------------------------------------------
(* What the invariants say of a listing that has its index for itself. *)

LEMMA OneLister ==
  ASSUME PlaceInv, Exclusive, NEW p \in Clients, Listings(p), ~Index(p).shared,
         NEW q \in Clients, q # p, Listings(q)
  PROVE  job[q].ref # job[p].ref
<1>1. Working(p)
  BY ListingsList
<1> QED
  BY <1>1 DEF Exclusive, Working

\* Between two swaps the slice is as it will be written.
LEMMA SettledSlice ==
  ASSUME PlaceInv, Sorts, NEW p \in Clients, Listings(p), ~Index(p).shared, job[p].writes = {}
  PROVE  /\ Whole(Entries(p), Index(p).listed)
         /\ Entries(p) \in [1 .. Len(Entries(p)) -> Versions]
         /\ Ordered(Entries(p), IF pc[p] \in {"widen", "pick"} THEN Len(Entries(p)) ELSE job[p].i,
                                IF pc[p] \in {"widen", "pick"} THEN 0 ELSE job[p].j)
         /\ pc[p] = "swap" => Entries(p)[job[p].j] > Entries(p)[job[p].j - 1]
         /\ pc[p] = "pick" => Index(p).words[Entries(p)[1]] = Index(p).listed
<1>1. PICK s \in [DOMAIN Entries(p) -> Versions] :
        /\ Settles(p, s)
        /\ Whole(s, Index(p).listed)
        /\ Ordered(s, IF pc[p] \in {"widen", "pick"} THEN Len(Entries(p)) ELSE job[p].i,
                      IF pc[p] \in {"widen", "pick"} THEN 0 ELSE job[p].j)
        /\ pc[p] = "swap" => s[job[p].j] > s[job[p].j - 1]
        /\ pc[p] = "pick" => Index(p).words[s[1]] = Index(p).listed
  BY DEF Sorts, SortInv
<1>2. pc[p] \notin {"idle", "map"}
  BY DEF Listings, ListStages
<1>3. Entries(p) \in [1 .. Len(Entries(p)) -> Versions] /\ DOMAIN Entries(p) = 1 .. Len(Entries(p))
  BY <1>2, AtWork
<1>4. s = Entries(p)
  BY <1>1, <1>3 DEF Settles
<1> QED
  BY <1>1, <1>3, <1>4

\* A slice without writes under way settles as it is.
LEMMA SettlesItself ==
  ASSUME NEW p, job[p].writes = {}
  PROVE  Settles(p, Entries(p))
BY DEF Settles

LEMMA CompareSorts ==
  ASSUME PlaceInv, Sorts, RestWhole, NEW p \in Clients, Compare(p)
  PROVE  Sorts' /\ RestWhole'
<1>1. /\ Others(p) /\ Reads /\ SameTask(p) /\ pc[p] = "sort"
      /\ job[p].writes = {} /\ job'[p].writes = {}
      /\ \/ /\ job[p].i > Len(Entries(p)) /\ pc'[p] = "widen" /\ job'[p] = job[p]
         \/ /\ job[p].i <= Len(Entries(p)) /\ job[p].j > 1
            /\ Entries(p)[job[p].j] > Entries(p)[job[p].j - 1]
            /\ pc'[p] = "swap" /\ job'[p] = job[p]
         \/ /\ job[p].i <= Len(Entries(p))
            /\ ~(job[p].j > 1 /\ Entries(p)[job[p].j] > Entries(p)[job[p].j - 1])
            /\ pc'[p] = "sort" /\ job'[p].i = job[p].i + 1 /\ job'[p].j = job[p].i + 1
  BY CompareEffect
<1>2. Listings(p) /\ Listings(p)' /\ job'[p].ref = job[p].ref
  BY <1>1 DEF Listings, ListStages, SameTask
<1>3. Index(p)' = Index(p) /\ Entries(p)' = Entries(p)
  BY <1>1, <1>2 DEF Index, Entries, Reads
<1>4. ASSUME ~Index(p).shared PROVE SortInv(p)'
  <2> DEFINE s == Entries(p)
             i == job[p].i
             j == job[p].j
  <2>1. /\ Whole(s, Index(p).listed) /\ s \in [1 .. Len(s) -> Versions] /\ Ordered(s, i, j)
    BY <1>1, <1>2, <1>4, SettledSlice
  <2>2. /\ Len(s) \in Nat /\ i \in Nat /\ j \in Nat /\ DOMAIN s = 1 .. Len(s)
        /\ i >= 2 /\ j \in 1 .. i /\ (i <= Len(s) \/ j = i)
    BY <1>1, AtWork DEF Counters
  <2>3. Settles(p, s)'
    BY <1>1, <1>3 DEF Settles
  <2>4. CASE i > Len(s) /\ pc'[p] = "widen"
    <3>1. Ordered(s, Len(s), 0)
      BY <2>1, <2>2, <2>4 DEF Ordered
    <3> QED
      BY <1>3, <2>1, <2>2, <2>3, <2>4, <3>1 DEF SortInv
  <2>5. CASE pc'[p] = "swap" /\ s[j] > s[j - 1] /\ job'[p] = job[p]
    BY <1>3, <2>1, <2>2, <2>3, <2>5 DEF SortInv
  <2>6. CASE /\ i <= Len(s) /\ ~(j > 1 /\ s[j] > s[j - 1])
             /\ pc'[p] = "sort" /\ job'[p].i = i + 1 /\ job'[p].j = i + 1
    <3>1. Ordered(s, i + 1, i + 1)
      BY <2>1, <2>2, <2>6, NextOrders
    <3> QED
      BY <1>3, <2>1, <2>2, <2>3, <2>6, <3>1 DEF SortInv
  <2> QED
    BY <1>1, <2>4, <2>5, <2>6
<1> QED
  BY <1>1, <1>2, <1>3, <1>4, ReadKeeps

LEMMA SwapSorts ==
  ASSUME PlaceInv, Sorts, RestWhole, NEW p \in Clients, Swap(p)
  PROVE  Sorts' /\ RestWhole'
<1> DEFINE s == Entries(p)
           i == job[p].i
           j == job[p].j
<1>1. /\ Others(p) /\ Reads /\ SameTask(p)
      /\ pc[p] = "swap" /\ pc'[p] = "write"
      /\ job'[p].i = i /\ job'[p].j = j - 1
      /\ job[p].writes = {}
      /\ job'[p].writes = {<<j - 1, s[j]>>, <<j, s[j - 1]>>}
  BY SwapEffect
<1>2. Listings(p) /\ Listings(p)' /\ job'[p].ref = job[p].ref
  BY <1>1 DEF Listings, ListStages, SameTask
<1>3. Index(p)' = Index(p) /\ Entries(p)' = s
  BY <1>1, <1>2 DEF Index, Entries, Reads
<1>4. ASSUME ~Index(p).shared PROVE SortInv(p)'
  <2>1. /\ Whole(s, Index(p).listed) /\ s \in [1 .. Len(s) -> Versions] /\ Ordered(s, i, j)
        /\ s[j] > s[j - 1]
    BY <1>1, <1>2, <1>4, SettledSlice
  <2>2. /\ Len(s) \in Nat /\ i \in Nat /\ j \in 2 .. i /\ i <= Len(s) /\ DOMAIN s = 1 .. Len(s)
    BY <1>1, AtWork DEF Counters
  <2> DEFINE n == Len(s)
  <2>0. PICK t : t = Swapped(s, j)
    OBVIOUS
  <2>3. /\ t \in [1 .. n -> Versions]
        /\ t[j - 1] = s[j] /\ t[j] = s[j - 1] /\ \A k \in 1 .. n : k \notin {j - 1, j} => t[k] = s[k]
        /\ Ordered(t, i, j - 1)
        /\ Shown(t) = Shown(s)
        /\ (\A a, b \in 1 .. n : s[a] = s[b] => a = b) => \A a, b \in 1 .. n : t[a] = t[b] => a = b
    <3>1. /\ n \in Nat /\ s \in [1 .. n -> Versions] /\ i \in Nat /\ j \in 2 .. i /\ i <= n
          /\ Ordered(s, i, j) /\ s[j] > s[j - 1]
      BY <2>1, <2>2
    <3> HIDE DEF s, i, j, n
    <3> QED
      BY <2>0, <3>1, SwapOrders
  <2>4. Whole(t, Index(p).listed)
    BY <2>1, <2>2, <2>3 DEF Whole
  <2>5. \A k \in 1 .. n : s[k] = t[k] \/ <<k, t[k]>> \in job'[p].writes
    BY <1>1, <2>2, <2>3
  <2>6. \A w \in job'[p].writes : w[2] = t[w[1]]
    BY <1>1, <2>3
  <2>7. Settles(p, t)'
    BY <1>3, <2>3, <2>5, <2>6 DEF Settles
  <2>8. t \in [DOMAIN Entries(p)' -> Versions]
    BY <1>3, <2>2, <2>3
  <2> QED
    BY <1>1, <1>3, <2>3, <2>4, <2>7, <2>8 DEF SortInv
<1> QED
  BY <1>1, <1>2, <1>3, <1>4, ReadKeeps

LEMMA WriteSorts ==
  ASSUME PlaceInv, Exclusive, Sorts, RestWhole, NEW p \in Clients, Write(p)
  PROVE  Sorts' /\ RestWhole'
<1> DEFINE r == job[p].ref
<1>0. p \in Procs /\ \A q \in Clients : q \in Procs
  BY ClientsAreProcs
<1>1. /\ Others(p) /\ SameTask(p) /\ entry' = entry
      /\ pc[p] = "write" /\ pc'[p] \in {"sort", "write"}
      /\ job'[p].i = job[p].i /\ job'[p].j = job[p].j
      /\ DOMAIN index' = DOMAIN index
      /\ \A x \in DOMAIN index :
           /\ x # r => index'[x] = index[x]
           /\ DOMAIN index'[x].slice = DOMAIN index[x].slice
           /\ index'[x].words = index[x].words
           /\ index'[x].listed = index[x].listed
           /\ index'[x].shared = index[x].shared
  BY WriteEffect
<1>2. PICK w \in job[p].writes :
        /\ job'[p].writes = job[p].writes \ {w}
        /\ \A k \in DOMAIN Entries(p) : index'[r].slice[k] = IF k = w[1] THEN w[2] ELSE Entries(p)[k]
  BY WriteEffect
<1>3. Listings(p) /\ Listings(p)' /\ job'[p].ref = job[p].ref
  BY <1>1 DEF Listings, ListStages, SameTask
<1>4. r \in DOMAIN index
  BY <1>1, AtWork
<1>5. ASSUME ~Index(p)'.shared PROVE SortInv(p)'
  <2>1. ~Index(p).shared /\ Index(p)'.listed = Index(p).listed
    BY <1>1, <1>3, <1>4, <1>5 DEF Index
  <2>2. PICK s \in [DOMAIN Entries(p) -> Versions] :
        /\ Settles(p, s)
        /\ Whole(s, Index(p).listed)
        /\ Ordered(s, job[p].i, job[p].j)
    BY <1>1, <1>3, <2>1 DEF Sorts, SortInv
  <2>3. /\ DOMAIN Entries(p)' = DOMAIN Entries(p)
        /\ \A k \in DOMAIN Entries(p) : Entries(p)'[k] = IF k = w[1] THEN w[2] ELSE Entries(p)[k]
    BY <1>1, <1>2, <1>3, <1>4 DEF Entries, Index
  <2>4. \A x \in job'[p].writes : x[2] = s[x[1]]
    BY <1>2, <2>2 DEF Settles
  <2>5. ASSUME NEW k \in DOMAIN s PROVE Entries(p)'[k] = s[k] \/ <<k, s[k]>> \in job'[p].writes
    <3>1. k \in DOMAIN Entries(p) /\ w[2] = s[w[1]]
      BY <2>2 DEF Settles
    <3>2. CASE k = w[1]
      BY <2>3, <3>1, <3>2
    <3>3. CASE k # w[1]
      <4>1. Entries(p)'[k] = Entries(p)[k]
        BY <2>3, <3>1, <3>3
      <4>2. Entries(p)[k] = s[k] \/ <<k, s[k]>> \in job[p].writes
        BY <2>2 DEF Settles
      <4>3. <<k, s[k]>> # w
        BY <3>3
      <4> QED
        BY <1>2, <4>1, <4>2, <4>3
    <3> QED
      BY <3>2, <3>3
  <2>6. Settles(p, s)'
    BY <2>4, <2>5 DEF Settles
  <2> QED
    BY <1>1, <2>1, <2>2, <2>3, <2>6 DEF SortInv
<1>6. Sorts'
  <2> DEFINE R == {r}
  <2>1. \A q \in Clients : q # p =>
            /\ pc'[q] = pc[q] /\ job'[q].ref = job[q].ref /\ job'[q].i = job[q].i
            /\ job'[q].j = job[q].j /\ job'[q].writes = job[q].writes
    BY <1>0, <1>1 DEF Others
  <2>2. \A x \in DOMAIN index :
            /\ index[x].shared => index'[x].shared
            /\ index'[x].listed = index[x].listed
            /\ x \notin R => index'[x].slice = index[x].slice /\ index'[x].words = index[x].words
    BY <1>1
  <2>3. \A q \in Clients : q # p /\ Listings(q) /\ job[q].ref \in R => Index(q).shared
    BY <1>3, OneLister DEF Index
  <2> HIDE DEF R
  <2> QED
    BY <1>5, <2>1, <2>2, <2>3, SortsKept
<1>7. RestWhole'
  <2>1. \A q \in Procs : q # p => pc'[q] = pc[q] /\ job'[q].ref = job[q].ref
    BY <1>1 DEF Others
  <2>2. \A x \in DOMAIN index :
            /\ index[x].shared => index'[x].shared
            /\ index'[x].listed = index[x].listed
            /\ index'[x].slice # index[x].slice =>
                 x = job[p].ref /\ Listings(p)' /\ job'[p].ref = job[p].ref
    BY <1>1, <1>3
  <2> QED
    BY <1>1, <1>3, <2>1, <2>2, RestKept
<1> QED
  BY <1>6, <1>7

LEMMA WidenSorts ==
  ASSUME PlaceInv, Contained, Exclusive, Sorts, RestWhole, NEW p \in Clients, Widen(p)
  PROVE  Sorts' /\ RestWhole'
<1> DEFINE r == job[p].ref
<1>0. p \in Procs /\ \A q \in Clients : q \in Procs
  BY ClientsAreProcs
<1>1. /\ Others(p) /\ entry' = entry /\ pc[p] = "widen" /\ job' = job
      /\ DOMAIN index' = DOMAIN index
      /\ \A x \in DOMAIN index :
           /\ x # r => index'[x] = index[x]
           /\ index'[x].slice = index[x].slice
           /\ index'[x].listed = index[x].listed
           /\ index'[x].shared = index[x].shared
  BY WidenEffect
<1>2. Listings(p) /\ r \in DOMAIN index /\ job[p].writes = {}
  BY <1>1, AtWork DEF Listings, ListStages, Counters
<1>3. Entries(p)' = Entries(p) /\ Index(p)'.listed = Index(p).listed /\ Index(p)'.shared = Index(p).shared
  BY <1>1, <1>2 DEF Index, Entries
<1>4. ~Index(p).shared =>
        /\ Whole(Entries(p), Index(p).listed)
        /\ Entries(p) \in [1 .. Len(Entries(p)) -> Versions]
        /\ Ordered(Entries(p), Len(Entries(p)), 0)
  BY <1>1, <1>2, SettledSlice
<1>5. ASSUME pc'[p] = "pick", ~Index(p).shared, Entries(p) # <<>>,
             \A v \in Versions : index'[r].words[v] =
               IF v = Entries(p)[1] THEN AllWords(p) ELSE Index(p).words[v]
      PROVE  SortInv(p)'
  <2> DEFINE s == Entries(p)
  <2>1. Settles(p, s)'
    BY <1>1, <1>2, <1>3 DEF Settles
  <2>2. s[1] \in Versions
    BY <1>1, <1>5, WidenTyped
  <2>3. AllWords(p) = Index(p).listed
    <3>1. Shown(s) = Index(p).listed
      BY <1>4, <1>5 DEF Whole
    <3>2. \A v \in Index(p).listed : v \in Index(p).words[v] /\ Index(p).words[v] \subseteq Index(p).listed
      BY <1>2 DEF Contained, Index
    <3> QED
      BY <3>1, <3>2 DEF AllWords
  <2>4. Index(p)'.words[s[1]] = Index(p).listed
    BY <1>1, <1>5, <2>2, <2>3 DEF Index
  <2>5. s \in [DOMAIN s -> Versions]
    BY <1>4, <1>5
  <2> QED
    BY <1>1, <1>3, <1>4, <1>5, <2>1, <2>4, <2>5 DEF SortInv
<1>6. Listings(p)' /\ ~Index(p)'.shared => SortInv(p)'
  <2>1. \/ pc'[p] = "answered"
        \/ /\ Entries(p) # <<>> /\ pc'[p] = "pick"
           /\ \A v \in Versions : index'[r].words[v] =
                IF v = Entries(p)[1] THEN AllWords(p) ELSE Index(p).words[v]
    BY WidenEffect
  <2> QED
    BY <1>3, <1>5, <2>1 DEF Listings, ListStages
<1>7. Sorts'
  <2> DEFINE R == {r}
  <2>1. \A q \in Clients : q # p =>
            /\ pc'[q] = pc[q] /\ job'[q].ref = job[q].ref /\ job'[q].i = job[q].i
            /\ job'[q].j = job[q].j /\ job'[q].writes = job[q].writes
    BY <1>0, <1>1 DEF Others
  <2>2. \A x \in DOMAIN index :
            /\ index[x].shared => index'[x].shared
            /\ index'[x].listed = index[x].listed
            /\ x \notin R => index'[x].slice = index[x].slice /\ index'[x].words = index[x].words
    BY <1>1
  <2>3. \A q \in Clients : q # p /\ Listings(q) /\ job[q].ref \in R => Index(q).shared
    BY <1>2, OneLister DEF Index
  <2> HIDE DEF R
  <2> QED
    BY <1>6, <2>1, <2>2, <2>3, SortsKept
<1>8. RestWhole'
  <2>1. \A q \in Procs : q # p => pc'[q] = pc[q] /\ job'[q].ref = job[q].ref
    BY <1>1 DEF Others
  <2>2. \A x \in DOMAIN index :
            /\ index[x].shared => index'[x].shared
            /\ index'[x].listed = index[x].listed
            /\ index'[x].slice # index[x].slice =>
                 x = job[p].ref /\ Listings(p)' /\ job'[p].ref = job[p].ref
    BY <1>1
  <2> QED
    BY <1>1, <1>4, <2>1, <2>2, RestKept
<1> QED
  BY <1>7, <1>8

LEMMA PickSorts ==
  ASSUME PlaceInv, Sorts, RestWhole, NEW p \in Clients, Pick(p)
  PROVE  Sorts' /\ RestWhole'
<1>1. /\ Others(p) /\ Reads /\ SameTask(p) /\ pc[p] = "pick" /\ pc'[p] = "answered"
      /\ job[p].writes = {}
  BY PickEffect
<1>2. Listings(p) /\ ~Listings(p)' /\ job'[p].ref = job[p].ref
  BY <1>1 DEF Listings, ListStages, SameTask
<1>3. ~Index(p).shared => Whole(Entries(p), Index(p).listed)
  BY <1>1, <1>2, SettledSlice
<1> QED
  BY <1>1, <1>2, <1>3, ReadKeeps

LEMMA LeaveSorts ==
  ASSUME PlaceInv, Sorts, RestWhole, NEW p \in Clients, Leave(p)
  PROVE  Sorts' /\ RestWhole'
<1>0. p \in Procs /\ \A q \in Clients : q \in Procs
  BY ClientsAreProcs
<1>1. /\ pc[p] = "map" /\ entry' = entry /\ entry \in DOMAIN index
      /\ pc'[p] = FirstStage[job[p].kind] /\ job[p].kind \in Kinds
      /\ job'[p].ref = entry
      /\ job'[p].i = (IF Lists(p) THEN 2 ELSE 1) /\ job'[p].j = 2
      /\ job'[p].writes = {}
      /\ DOMAIN index' = DOMAIN index
  BY LeaveEffect
<1>2. \A q \in Procs : q # p =>
        /\ pc'[q] = pc[q] /\ job'[q].ref = job[q].ref /\ job'[q].i = job[q].i
        /\ job'[q].j = job[q].j /\ job'[q].writes = job[q].writes
  BY LeaveEffect
<1>3. \A r \in DOMAIN index :
        /\ index'[r].slice = index[r].slice /\ index'[r].words = index[r].words
        /\ index'[r].listed = index[r].listed
        /\ index'[r].shared = IF r = entry
             THEN index[r].shared \/ (Lists(p) /\ \E o \in Sharing(p) : Lists(o))
             ELSE index[r].shared
  BY LeaveEffect
<1>4. \A r \in DOMAIN index : index[r].shared => index'[r].shared
  BY <1>3, Zenon
<1>5. ~Listings(p)
  BY <1>1 DEF Listings, ListStages
<1>6. ASSUME Listings(p)', ~Index(p)'.shared PROVE SortInv(p)'
  <2>1. Lists(p) /\ pc'[p] = "sort"
    BY <1>1, <1>6 DEF Listings, ListStages, FirstStage, Kinds, Lists
  <2>2. ~index[entry].shared /\ \A o \in Sharing(p) : ~Lists(o)
    BY <1>1, <1>3, <1>6, <2>1 DEF Index
  <2>3. \A q \in Clients : job[q].ref = entry => ~Listings(q)
    <3> SUFFICES ASSUME NEW q \in Clients, job[q].ref = entry, Listings(q) PROVE FALSE
      OBVIOUS
    <3>1. Lists(q) /\ Working(q) /\ q # p
      BY <1>5, ListingsList
    <3> QED
      BY <2>2, <3>1 DEF Sharing, Working
  <2>4. Resting(entry)
    BY <1>1, <2>2, <2>3 DEF Resting
  <2>5. Whole(index[entry].slice, index[entry].listed)
    BY <1>1, <2>4 DEF RestWhole
  <2>6. Entries(p)' = index[entry].slice /\ Index(p)'.listed = index[entry].listed
    BY <1>1, <1>3 DEF Entries, Index
  <2> DEFINE s == index[entry].slice
  <2>7. Len(s) \in Nat /\ DOMAIN s = 1 .. Len(s) /\ s \in [DOMAIN s -> Versions]
    <3>1. /\ Len(s) \in Nat /\ DOMAIN s = 1 .. Len(s) /\ s \in Seq(Versions)
      BY <1>1, IndexTyped DEF PlaceInv
    <3> QED
      BY <3>1
  <2>8. Ordered(s, 2, 2)
    BY <2>7 DEF Ordered
  <2>9. Settles(p, Entries(p))'
    BY <1>1 DEF Settles
  <2>10. \E t \in [DOMAIN Entries(p)' -> Versions] :
           t = s /\ t = Entries(p)' /\ Whole(t, Index(p)'.listed) /\ Ordered(t, job'[p].i, job'[p].j)
    BY <1>1, <2>1, <2>5, <2>6, <2>7, <2>8
  <2> QED
    BY <2>1, <2>9, <2>10 DEF SortInv, Settles
<1>7. Sorts'
  <2> DEFINE R == {}
  <2>1. \A q \in Clients : q # p =>
            /\ pc'[q] = pc[q] /\ job'[q].ref = job[q].ref /\ job'[q].i = job[q].i
            /\ job'[q].j = job[q].j /\ job'[q].writes = job[q].writes
    BY <1>0, <1>2
  <2>2. \A x \in DOMAIN index :
            /\ index[x].shared => index'[x].shared
            /\ index'[x].listed = index[x].listed
            /\ x \notin R => index'[x].slice = index[x].slice /\ index'[x].words = index[x].words
    BY <1>3, <1>4
  <2>3. \A q \in Clients : q # p /\ Listings(q) /\ job[q].ref \in R => Index(q).shared
    OBVIOUS
  <2> HIDE DEF R
  <2> QED
    BY <1>6, <2>1, <2>2, <2>3, SortsKept
<1>8. RestWhole'
  <2>1. \A x \in DOMAIN index :
            /\ index[x].shared => index'[x].shared
            /\ index'[x].listed = index[x].listed
            /\ index'[x].slice # index[x].slice =>
                 x = job[p].ref /\ Listings(p)' /\ job'[p].ref = job[p].ref
    BY <1>3, <1>4
  <2> QED
    BY <1>1, <1>2, <1>5, <2>1, RestKept
<1> QED
  BY <1>7, <1>8

LEMMA LoadSorts ==
  ASSUME PlaceInv, Sorts, RestWhole, LoadIndex
  PROVE  Sorts' /\ RestWhole'
<1> DEFINE new == Len(index')
<1>0. \A q \in Clients : q \in Procs /\ q # Syncer
  BY ClientsAreProcs
<1>1. /\ entry' = entry
      /\ \A q \in Procs : q # Syncer => pc'[q] = pc[q] /\ job'[q] = job[q]
      /\ job'[Syncer].ref = new
      /\ DOMAIN index' = DOMAIN index \cup {new}
      /\ \A r \in DOMAIN index : r # new /\ index'[r] = index[r]
  BY LoadEffect
<1>2. PICK s \in Orders : index'[new] = NewIndex(s)
  BY LoadEffect
<1>3. Sorts'
  <2> DEFINE R == {}
  <2>1. \A q \in Clients : q # Syncer =>
            /\ pc'[q] = pc[q] /\ job'[q].ref = job[q].ref /\ job'[q].i = job[q].i
            /\ job'[q].j = job[q].j /\ job'[q].writes = job[q].writes
    BY <1>0, <1>1
  <2>2. \A x \in DOMAIN index :
            /\ index[x].shared => index'[x].shared
            /\ index'[x].listed = index[x].listed
            /\ x \notin R => index'[x].slice = index[x].slice /\ index'[x].words = index[x].words
    BY <1>1
  <2>3. \A q \in Clients : q # Syncer /\ Listings(q) /\ job[q].ref \in R => Index(q).shared
    OBVIOUS
  <2>4. Syncer \notin Clients
    BY <1>0
  <2> HIDE DEF R
  <2> QED
    BY <2>1, <2>2, <2>3, <2>4, SortsKept
<1>4. RestWhole'
  <2> SUFFICES ASSUME NEW r \in DOMAIN index', Resting(r)'
               PROVE  Whole(index'[r].slice, index'[r].listed)
    BY DEF RestWhole, Whole, Shown
  <2>1. CASE r = new
    <3>1. Whole(s, Shown(s))
      BY EntriesAssumption DEF Whole
    <3> QED
      BY <1>2, <2>1, <3>1 DEF NewIndex
  <2>2. CASE r # new
    <3>1. r \in DOMAIN index /\ index'[r] = index[r]
      BY <1>1, <2>2
    <3>2. r = entry \/ \E q \in Procs : job[q].ref = r
      BY <1>1, <2>2 DEF Resting
    <3>3. \A q \in Clients : job[q].ref = r => ~Listings(q)
      BY <1>0, <1>1 DEF Resting, Listings
    <3>4. Resting(r)
      BY <3>1, <3>2, <3>3 DEF Resting
    <3> QED
      BY <3>1, <3>4 DEF RestWhole
  <2> QED
    BY <2>1, <2>2
<1> QED
  BY <1>3, <1>4

\* Steps that touch neither the requests nor the indexes.
LEMMA HandlerSorts ==
  ASSUME PlaceInv, Sorts, RestWhole, index' = index,
         \A q \in Clients : pc'[q] = pc[q] /\ job'[q] = job[q],
         \A q \in Procs : job'[q].ref \in {job[q].ref, None},
         entry' \in {entry, None, job[Syncer].ref}
  PROVE  Sorts' /\ RestWhole'
<1>0. Syncer \in Procs
  BY ClientsAreProcs
<1>1. Sorts'
  <2> SUFFICES ASSUME NEW q \in Clients, Listings(q)', ~Index(q)'.shared PROVE SortInv(q)'
    BY DEF Sorts
  <2>1. Index(q)' = Index(q)
    BY DEF Index
  <2>2. SortInv(q)
    BY <2>1 DEF Sorts, Listings
  <2> QED
    BY <2>1, <2>2, SortKept
<1>2. RestWhole'
  <2> SUFFICES ASSUME NEW r \in DOMAIN index, Resting(r)'
               PROVE  Whole(index[r].slice, index[r].listed)
    BY DEF RestWhole, Whole, Shown
  <2>1. r # None
    BY NoIndexAssumption DEF PlaceInv, TypeOK
  <2>2. r = entry \/ \E q \in Procs : job[q].ref = r
    BY <1>0, <2>1 DEF Resting
  <2>3. \A q \in Clients : job[q].ref = r => ~Listings(q)
    BY DEF Resting, Listings
  <2>4. Resting(r)
    BY <2>2, <2>3 DEF Resting
  <2> QED
    BY <2>4 DEF RestWhole
<1> QED
  BY <1>1, <1>2

LEMMA DieSorts ==
  ASSUME PlaceInv, Die
  PROVE  Sorts' /\ RestWhole'
<1>1. \A q \in Procs : pc'[q] = "idle" /\ job'[q] = Fresh
  BY DEF Die
<1>2. Sorts'
  BY <1>1, ClientsAreProcs DEF Sorts, Listings, ListStages
<1>3. \A r \in DOMAIN index' : r # None
  BY NoIndexAssumption DEF Die, PlaceInv, TypeOK
<1>4. \A r \in DOMAIN index' : ~Resting(r)'
  BY <1>1, <1>3 DEF Die, Resting, Fresh
<1> QED
  BY <1>2, <1>4 DEF RestWhole

LEMMA StepSorts ==
  PlaceInv /\ Contained /\ Exclusive /\ Sorts /\ RestWhole /\ [Next]_vars => Sorts' /\ RestWhole'
<1> SUFFICES ASSUME PlaceInv, Contained, Exclusive, Sorts, RestWhole, [Next]_vars
             PROVE  Sorts' /\ RestWhole'
  OBVIOUS
<1>1. ASSUME NEW p \in Clients, Others(p), Reads, ~Listings(p), ~Listings(p)',
             job'[p].ref \in {job[p].ref, None}
      PROVE  Sorts' /\ RestWhole'
  BY <1>1, ReadKeeps
<1>2. ASSUME NEW p \in Clients, Enter(p) PROVE Sorts' /\ RestWhole'
  <2>1. pc[p] = "idle"
    BY <1>2 DEF Enter
  <2> QED
    BY <1>1, <1>2, <2>1, EnterEffect DEF Listings, ListStages
<1>3. ASSUME NEW p \in Clients, LeaveEmpty(p) \/ Answer(p) \/ RequestPanics(p)
      PROVE  Sorts' /\ RestWhole'
  BY <1>1, <1>3, EndEffect DEF Listings, ListStages, Fresh
<1>4. ASSUME NEW p \in Clients, Iterate(p) PROVE Sorts' /\ RestWhole'
  BY <1>1, <1>4, IterateEffect DEF Listings, ListStages, SameTask
<1>5. ASSUME NEW p \in Clients, Find(p) PROVE Sorts' /\ RestWhole'
  BY <1>1, <1>5, FindEffect DEF Listings, ListStages, SameTask
<1>6. ASSUME BeginStore \/ EndStore \/ EnterDelete \/ EndDelete PROVE Sorts' /\ RestWhole'
  BY <1>6, HandlerEffect, HandlerSorts
<1>7. ASSUME UNCHANGED vars PROVE Sorts' /\ RestWhole'
  BY <1>7, HandlerSorts DEF vars
<1> QED
  BY <1>2, <1>3, <1>4, <1>5, <1>6, <1>7, LeaveSorts, CompareSorts, SwapSorts, WriteSorts, WidenSorts,
     PickSorts, LoadSorts, DieSorts DEF Next, Listing

-----------------------------------------------------------------------------
(* What the readers gather. *)

\* A reader that no listing has disturbed reads a whole slice.
LEMMA ReadsWhole ==
  ASSUME PlaceInv, Exclusive, RestWhole, NEW p \in Clients, Working(p), ~Listings(p),
         job[p].alone, ~Index(p).shared
  PROVE  Whole(Entries(p), Index(p).listed)
<1>1. job[p].ref \in DOMAIN index /\ p \in Procs
  BY AtWork DEF Working
<1>2. \A q \in Clients : job[q].ref = job[p].ref => ~Listings(q)
  BY DEF Exclusive, Working
<1>3. Resting(job[p].ref)
  BY <1>1, <1>2 DEF Resting, Index
<1> QED
  BY <1>1, <1>3 DEF RestWhole, Entries, Index

LEMMA GatherKept ==
  ASSUME NEW q \in Clients, Gathered(q), pc'[q] = pc[q],
         job'[q].ref = job[q].ref, job'[q].wanted = job[q].wanted, job'[q].i = job[q].i,
         job'[q].got = job[q].got, job'[q].alone => job[q].alone,
         Index(q)'.listed = Index(q).listed, Index(q).shared => Index(q)'.shared,
         job'[q].alone /\ pc[q] # "answered" /\ ~Index(q)'.shared => Index(q)'.slice = Index(q).slice
  PROVE  Gathered(q)'
<1>1. job'[q].alone /\ pc[q] # "answered" /\ ~Index(q)'.shared => Passed(q)' = Passed(q)
  BY DEF Passed, Entries
<1> QED
  BY <1>1 DEF Gathered, needShow

\* No listing writes where a reader reads that is alone.
LEMMA GathersKept ==
  ASSUME PlaceInv, Gathers, NEW p,
         \A q \in Clients : q # p =>
            /\ pc'[q] = pc[q] /\ job'[q].kind = job[q].kind /\ job'[q].ref = job[q].ref
            /\ job'[q].wanted = job[q].wanted /\ job'[q].i = job[q].i
            /\ job'[q].got = job[q].got /\ (job'[q].alone => job[q].alone),
         \A r \in DOMAIN index :
            /\ index[r].shared => index'[r].shared
            /\ index'[r].listed = index[r].listed,
         \A q \in Clients : q # p /\ Working(q) /\ job'[q].alone => Index(q)'.slice = Index(q).slice,
         p \in Clients /\ pc'[p] \in {"iterate", "find", "answered"} /\ ~Lists(p)' => Gathered(p)'
  PROVE  Gathers'
<1> SUFFICES ASSUME NEW q \in Clients, q # p, pc'[q] \in {"iterate", "find", "answered"}, ~Lists(q)'
             PROVE  Gathered(q)'
  BY DEF Gathers
<1>1. pc[q] \in {"iterate", "find", "answered"} /\ ~Lists(q)
  BY DEF Lists
<1>2. Gathered(q)
  BY <1>1 DEF Gathers
<1>3. job[q].ref \in DOMAIN index
  BY <1>1, AtWork
<1>4. Index(q)'.listed = Index(q).listed /\ (Index(q).shared => Index(q)'.shared)
  BY <1>3 DEF Index
<1>5. job'[q].alone /\ pc[q] # "answered" => Index(q)'.slice = Index(q).slice
  BY <1>1 DEF Working
<1> QED
  BY <1>1, <1>2, <1>4, <1>5, GatherKept

LEMMA ReadGathers ==
  ASSUME PlaceInv, Gathers, NEW p \in Clients, Others(p), Reads,
         pc'[p] \in {"iterate", "find", "answered"} /\ ~Lists(p)' => Gathered(p)'
  PROVE  Gathers'
<1>0. \A q \in Clients : q \in Procs
  BY ClientsAreProcs
<1>1. \A q \in Clients : q # p =>
         /\ pc'[q] = pc[q] /\ job'[q].kind = job[q].kind /\ job'[q].ref = job[q].ref
         /\ job'[q].wanted = job[q].wanted /\ job'[q].i = job[q].i
         /\ job'[q].got = job[q].got /\ (job'[q].alone => job[q].alone)
  BY <1>0 DEF Others
<1>2. \A r \in DOMAIN index :
         /\ index[r].shared => index'[r].shared
         /\ index'[r].listed = index[r].listed
  BY DEF Reads
<1>3. \A q \in Clients : q # p /\ Working(q) /\ job'[q].alone => Index(q)'.slice = Index(q).slice
  BY <1>1 DEF Reads, Index
<1> QED
  BY <1>1, <1>2, <1>3, GathersKept

LEMMA ShownAppend ==
  ASSUME NEW s \in Seq(Versions), NEW v \in Versions
  PROVE  /\ Shown(Append(s, v)) = Shown(s) \cup {v}
         /\ (\A a, b \in DOMAIN s : s[a] = s[b] => a = b) /\ v \notin Shown(s) =>
              \A a, b \in DOMAIN Append(s, v) : Append(s, v)[a] = Append(s, v)[b] => a = b
<1> DEFINE n == Len(s)
           t == Append(s, v)
<1>1. /\ n \in Nat /\ DOMAIN s = 1 .. n /\ DOMAIN t = 1 .. n + 1
      /\ t[n + 1] = v /\ \A k \in 1 .. n : t[k] = s[k]
  OBVIOUS
<1>2. \A k \in 1 .. n + 1 : k = n + 1 \/ k \in 1 .. n
  BY <1>1
<1>3. n + 1 \in 1 .. n + 1 /\ \A k \in 1 .. n : k \in 1 .. n + 1
  BY <1>1
<1> HIDE DEF n, t
<1>4. Shown(t) = Shown(s) \cup {v}
  <2>1. ASSUME NEW x \in Shown(t) PROVE x \in Shown(s) \cup {v}
    <3>1. PICK k \in 1 .. n + 1 : x = t[k]
      BY <1>1 DEF Shown
    <3> QED
      BY <1>1, <1>2, <3>1 DEF Shown
  <2>2. ASSUME NEW x \in Shown(s) PROVE x \in Shown(t)
    <3>1. PICK k \in 1 .. n : x = s[k]
      BY <1>1 DEF Shown
    <3> QED
      BY <1>1, <1>3, <3>1 DEF Shown
  <2>3. v \in Shown(t)
    BY <1>1, <1>3 DEF Shown
  <2> QED
    BY <2>1, <2>2, <2>3
<1>5. ASSUME \A a, b \in DOMAIN s : s[a] = s[b] => a = b, v \notin Shown(s),
             NEW a \in DOMAIN t, NEW b \in DOMAIN t, t[a] = t[b]
      PROVE  a = b
  <2>1. \A k \in 1 .. n : s[k] # v
    BY <1>1, <1>5 DEF Shown
  <2>2. (a = n + 1 \/ a \in 1 .. n) /\ (b = n + 1 \/ b \in 1 .. n)
    BY <1>1, <1>2, <1>5
  <2> QED
    BY <1>1, <1>5, <2>1, <2>2
<1> QED
  BY <1>4, <1>5 DEF t

LEMMA PassedOne ==
  ASSUME PlaceInv, NEW p \in Clients, pc[p] \in {"iterate", "find"}, job[p].i <= Len(Entries(p)),
         Entries(p)' = Entries(p), job'[p].i = job[p].i + 1
  PROVE  /\ job[p].i \in DOMAIN Entries(p)
         /\ Passed(p)' = Passed(p) \cup {Entries(p)[job[p].i]}
         /\ (\A a, b \in DOMAIN Entries(p) : Entries(p)[a] = Entries(p)[b] => a = b) =>
              Entries(p)[job[p].i] \notin Passed(p)
<1> DEFINE s == Entries(p)
           i == job[p].i
<1>1. /\ Len(s) \in Nat /\ DOMAIN s = 1 .. Len(s) /\ i \in 1 .. Len(s) + 1
  BY AtWork DEF Counters
<1>2. i \in 1 .. Len(s) /\ \A k : k \in 1 .. i <=> k \in 1 .. i - 1 \/ k = i
  BY <1>1
<1>3. Passed(p) = {s[k] : k \in 1 .. i - 1} /\ Passed(p)' = {s[k] : k \in 1 .. i}
  <2>1. job'[p].i - 1 = i
    BY <1>1
  <2> QED
    BY <2>1 DEF Passed
<1>4. Passed(p)' = Passed(p) \cup {s[i]}
  BY <1>2, <1>3
<1>5. ASSUME \A a, b \in DOMAIN s : s[a] = s[b] => a = b PROVE s[i] \notin Passed(p)
  <2>1. \A k \in 1 .. i - 1 : k \in DOMAIN s /\ i \in DOMAIN s /\ k # i
    BY <1>1, <1>2
  <2> QED
    BY <1>3, <1>5, <2>1
<1> QED
  BY <1>1, <1>2, <1>4, <1>5

\* Past the end, everything has been passed.
LEMMA PassedAll ==
  ASSUME PlaceInv, NEW p \in Clients, pc[p] \in {"iterate", "find"}, job[p].i > Len(Entries(p))
  PROVE  Passed(p) = Shown(Entries(p))
<1>1. Len(Entries(p)) \in Nat /\ DOMAIN Entries(p) = 1 .. Len(Entries(p)) /\ job[p].i \in 1 .. Len(Entries(p)) + 1
  BY AtWork DEF Counters
<1>2. job[p].i - 1 = Len(Entries(p))
  BY <1>1
<1> QED
  BY <1>1, <1>2 DEF Passed, Shown

LEMMA IterateGathers ==
  ASSUME PlaceInv, Contained, Exclusive, RestWhole, Gathers, NEW p \in Clients, Iterate(p)
  PROVE  Gathers'
<1> DEFINE s == Entries(p)
           v == s[job[p].i]
           asked == {u \in Index(p).listed : needShow(u, job[p].wanted)}
<1>1. /\ Others(p) /\ Reads /\ SameTask(p) /\ pc[p] = "iterate"
      /\ \/ job[p].i > Len(s) /\ pc'[p] = "answered" /\ job'[p] = job[p]
         \/ /\ job[p].i <= Len(s) /\ pc'[p] = "iterate" /\ job'[p].i = job[p].i + 1
            /\ job'[p].got = IF needShow(v, job[p].wanted) THEN Append(job[p].got, v) ELSE job[p].got
  BY IterateEffect
<1>2. /\ job[p].ref \in DOMAIN index /\ Placed(p) /\ job[p].got \in Seq(Versions)
      /\ \A k \in DOMAIN s : s[k] \in Versions
  BY <1>1, AtWork
<1>3. ~Lists(p) /\ Working(p) /\ ~Listings(p)
  BY <1>1, <1>2 DEF Placed, Lists, Working, Listings, ListStages
<1>4. Gathered(p)
  BY <1>1, <1>3 DEF Gathers
<1>5. Index(p)' = Index(p) /\ Entries(p)' = s /\ job'[p].wanted = job[p].wanted /\ job'[p].alone = job[p].alone
  BY <1>1 DEF Index, Entries, Reads, SameTask
<1>6. ASSUME job[p].alone, ~Index(p).shared
      PROVE  /\ Whole(s, Index(p).listed)
             /\ \A a, b \in DOMAIN job[p].got : job[p].got[a] = job[p].got[b] => a = b
             /\ Shown(job[p].got) = asked \cap Passed(p)
  BY <1>1, <1>2, <1>3, <1>4, <1>6, ReadsWhole DEF Gathered
<1>7. Shown(job[p].got) \subseteq asked
  BY <1>4 DEF Gathered
<1>8. CASE job[p].i > Len(s) /\ pc'[p] = "answered" /\ job'[p] = job[p]
  <2>1. ASSUME job[p].alone, ~Index(p).shared PROVE Shown(job[p].got) = asked
    <3>1. Passed(p) = Index(p).listed
      BY <1>1, <1>6, <1>8, <2>1, PassedAll DEF Whole
    <3> QED
      BY <1>6, <2>1, <3>1
  <2>2. Gathered(p)'
    BY <1>5, <1>6, <1>7, <1>8, <2>1 DEF Gathered
  <2> QED
    BY <1>1, <2>2, ReadGathers
<1>9. CASE /\ job[p].i <= Len(s) /\ pc'[p] = "iterate" /\ job'[p].i = job[p].i + 1
           /\ job'[p].got = IF needShow(v, job[p].wanted) THEN Append(job[p].got, v) ELSE job[p].got
  <2>1. /\ job[p].i \in DOMAIN s
        /\ Passed(p)' = Passed(p) \cup {v}
        /\ (\A a, b \in DOMAIN s : s[a] = s[b] => a = b) => v \notin Passed(p)
    BY <1>1, <1>5, <1>9, PassedOne
  <2>2. v \in Index(p).listed /\ v \in Versions
    BY <1>2, <2>1 DEF Contained, Shown, Entries, Index
  <2>3. CASE needShow(v, job[p].wanted)
    <3> DEFINE g == Append(job[p].got, v)
    <3>1. job'[p].got = g
      BY <1>9, <2>3
    <3>2. /\ Shown(g) = Shown(job[p].got) \cup {v}
          /\ (\A a, b \in DOMAIN job[p].got : job[p].got[a] = job[p].got[b] => a = b) /\ v \notin Shown(job[p].got) =>
               \A a, b \in DOMAIN g : g[a] = g[b] => a = b
      BY <1>2, <2>2, ShownAppend
    <3> HIDE DEF g
    <3>3. v \in asked
      BY <2>2, <2>3
    <3>4. Shown(g) \subseteq asked
      BY <1>7, <3>2, <3>3
    <3>5. ASSUME job[p].alone, ~Index(p).shared
          PROVE  /\ \A a, b \in DOMAIN g : g[a] = g[b] => a = b
                 /\ Shown(g) = asked \cap Passed(p)'
      <4>1. v \notin Passed(p)
        BY <1>6, <2>1, <3>5 DEF Whole
      <4> QED
        BY <1>6, <2>1, <3>2, <3>3, <3>5, <4>1
    <3>6. Gathered(p)'
      BY <1>5, <1>9, <3>1, <3>4, <3>5 DEF Gathered
    <3> QED
      BY <1>1, <3>6, ReadGathers
  <2>4. CASE ~needShow(v, job[p].wanted)
    <3>1. job'[p].got = job[p].got
      BY <1>9, <2>4
    <3>2. v \notin asked
      BY <2>4
    <3>3. ASSUME job[p].alone, ~Index(p).shared
          PROVE  /\ \A a, b \in DOMAIN job[p].got : job[p].got[a] = job[p].got[b] => a = b
                 /\ Shown(job[p].got) = asked \cap Passed(p)'
      BY <1>6, <2>1, <3>2, <3>3
    <3>4. Gathered(p)'
      BY <1>5, <1>7, <1>9, <3>1, <3>3 DEF Gathered
    <3> QED
      BY <1>1, <3>4, ReadGathers
  <2> QED
    BY <2>3, <2>4
<1> QED
  BY <1>1, <1>8, <1>9

LEMMA FindGathers ==
  ASSUME PlaceInv, Contained, Exclusive, RestWhole, Gathers, NEW p \in Clients, Find(p)
  PROVE  Gathers'
<1> DEFINE s == Entries(p)
           asked == {u \in Index(p).listed : needShow(u, job[p].wanted)}
<1>1. /\ Others(p) /\ Reads /\ SameTask(p) /\ pc[p] = "find" /\ job[p].got = <<>>
      /\ \/ Past(p) /\ pc'[p] = "answered" /\ job'[p] = job[p]
         \/ Hit(p) /\ pc'[p] = "answered" /\ job'[p].got = <<Here(p)>>
         \/ ~Past(p) /\ ~Hit(p) /\ pc'[p] = "find" /\ job'[p].i = job[p].i + 1
            /\ job'[p].got = <<>>
  BY FindEffect
<1>2. /\ job[p].ref \in DOMAIN index /\ Placed(p) /\ Len(s) \in Nat /\ job[p].i \in Nat
      /\ DOMAIN s = 1 .. Len(s) /\ job[p].i \in 1 .. Len(s) + 1
  BY <1>1, AtWork DEF Counters
<1>3. /\ ~Lists(p) /\ Working(p) /\ ~Listings(p) /\ job[p].wanted \in Versions
  BY <1>1, <1>2 DEF Placed, Lists, Working, Listings, ListStages, Asks
<1>4. Gathered(p)
  BY <1>1, <1>3 DEF Gathers
<1>5. Index(p)' = Index(p) /\ Entries(p)' = s /\ job'[p].wanted = job[p].wanted /\ job'[p].alone = job[p].alone
  BY <1>1 DEF Index, Entries, Reads, SameTask
<1>6. ASSUME job[p].alone, ~Index(p).shared
      PROVE  Whole(s, Index(p).listed) /\ job[p].wanted \notin Passed(p)
  BY <1>1, <1>3, <1>4, <1>6, ReadsWhole DEF Gathered
<1>7. \A u : needShow(u, job[p].wanted) <=> u = job[p].wanted
  BY <1>3, NoIndexAssumption, OrdersAssumption DEF needShow
<1>8. Shown(<<>>) = {}
  BY DEF Shown
<1>9. CASE Past(p) /\ pc'[p] = "answered" /\ job'[p] = job[p]
  <2>1. ASSUME job[p].alone, ~Index(p).shared PROVE asked = {}
    <3>1. job[p].i > Len(s)
      BY <1>9 DEF Past
    <3>2. Passed(p) = Index(p).listed
      BY <1>1, <1>6, <2>1, <3>1, PassedAll DEF Whole
    <3> QED
      BY <1>6, <1>7, <2>1, <3>2
  <2>2. Gathered(p)'
    BY <1>1, <1>5, <1>8, <1>9, <2>1 DEF Gathered
  <2> QED
    BY <1>1, <2>2, ReadGathers
<1>10. CASE Hit(p) /\ pc'[p] = "answered" /\ job'[p].got = <<Here(p)>>
  <2>1. job[p].i \in DOMAIN s /\ Here(p) = job[p].wanted
    BY <1>2, <1>10 DEF Hit, Past, Here
  <2>2. job[p].wanted \in Index(p).listed
    BY <1>2, <2>1 DEF Contained, Shown, Entries, Index, Here
  <2>3. asked = {job[p].wanted}
    BY <1>7, <2>2
  <2>4. Shown(<<Here(p)>>) = {job[p].wanted} /\ \A a, b \in DOMAIN <<Here(p)>> : a = b
    BY <2>1 DEF Shown
  <2>5. Shown(job'[p].got) = asked /\ \A a, b \in DOMAIN job'[p].got : a = b
    BY <1>10, <2>3, <2>4
  <2>6. Gathered(p)'
    BY <1>5, <1>10, <2>5 DEF Gathered
  <2> QED
    BY <1>1, <2>6, ReadGathers
<1>11. CASE /\ ~Past(p) /\ ~Hit(p) /\ pc'[p] = "find" /\ job'[p].i = job[p].i + 1
            /\ job'[p].got = <<>>
  <2>1. job[p].i <= Len(s) /\ s[job[p].i] # job[p].wanted
    BY <1>2, <1>11 DEF Past, Hit, Here
  <2>2. Passed(p)' = Passed(p) \cup {s[job[p].i]}
    BY <1>1, <1>5, <1>11, <2>1, PassedOne
  <2>3. ASSUME job[p].alone, ~Index(p).shared PROVE job[p].wanted \notin Passed(p)'
    BY <1>6, <2>1, <2>2, <2>3
  <2>4. Gathered(p)'
    BY <1>5, <1>8, <1>11, <2>3 DEF Gathered
  <2> QED
    BY <1>1, <2>4, ReadGathers
<1> QED
  BY <1>1, <1>9, <1>10, <1>11

\* A listing writes only where no other reader is alone.
LEMMA ListingGathers ==
  ASSUME PlaceInv, Exclusive, Gathers, NEW p \in Clients, Listings(p), Others(p),
         job'[p].kind = job[p].kind,
         \A r \in DOMAIN index :
            /\ index[r].shared => index'[r].shared
            /\ index'[r].listed = index[r].listed
            /\ r # job[p].ref => index'[r].slice = index[r].slice
  PROVE  Gathers'
<1>1. \A q \in Clients : q # p =>
         /\ pc'[q] = pc[q] /\ job'[q].kind = job[q].kind /\ job'[q].ref = job[q].ref
         /\ job'[q].wanted = job[q].wanted /\ job'[q].i = job[q].i
         /\ job'[q].got = job[q].got /\ (job'[q].alone => job[q].alone)
  BY ClientsAreProcs DEF Others
<1>2. ASSUME NEW q \in Clients, q # p, Working(q), job'[q].alone
      PROVE  Index(q)'.slice = Index(q).slice
  <2>1. job[q].ref # job[p].ref
    BY <1>1, <1>2 DEF Exclusive, Working
  <2>2. job[q].ref \in DOMAIN index
    BY <1>2, AtWork DEF Working
  <2> QED
    BY <1>1, <1>2, <2>1, <2>2 DEF Index
<1>3. Lists(p)'
  BY ListingsList DEF Lists
<1> QED
  BY <1>1, <1>2, <1>3, GathersKept

LEMMA LeaveGathers ==
  ASSUME PlaceInv, Gathers, NEW p \in Clients, Leave(p)
  PROVE  Gathers'
<1>1. /\ pc'[p] = FirstStage[job[p].kind] /\ job[p].kind \in Kinds
      /\ job'[p].kind = job[p].kind
      /\ job'[p].i = (IF Lists(p) THEN 2 ELSE 1)
      /\ job'[p].got = <<>>
  BY LeaveEffect
<1>2. \A q \in Clients : q # p =>
         /\ pc'[q] = pc[q] /\ job'[q].kind = job[q].kind /\ job'[q].ref = job[q].ref
         /\ job'[q].wanted = job[q].wanted /\ job'[q].i = job[q].i
         /\ job'[q].got = job[q].got /\ (job'[q].alone => job[q].alone)
  <2> SUFFICES ASSUME NEW q \in Clients, q # p
               PROVE  /\ pc'[q] = pc[q] /\ job'[q].kind = job[q].kind /\ job'[q].ref = job[q].ref
                      /\ job'[q].wanted = job[q].wanted /\ job'[q].i = job[q].i
                      /\ job'[q].got = job[q].got /\ (job'[q].alone => job[q].alone)
    OBVIOUS
  <2>1. q \in Procs
    BY ClientsAreProcs
  <2>2. pc'[q] = pc[q]
    BY <2>1, LeaveEffect
  <2>3. job'[q].alone = (job[q].alone /\ ~(Lists(p) /\ q \in Sharing(p)))
    BY <2>1, LeaveJobs
  <2> QED
    BY <2>1, <2>2, <2>3, LeaveJobs
<1>3. /\ \A r \in DOMAIN index : index'[r].slice = index[r].slice /\ index'[r].listed = index[r].listed
      /\ \A r \in DOMAIN index : index[r].shared => index'[r].shared
  <2>1. \A r \in DOMAIN index :
        /\ index'[r].slice = index[r].slice
        /\ index'[r].listed = index[r].listed
        /\ index'[r].shared = IF r = entry
             THEN index[r].shared \/ (Lists(p) /\ \E o \in Sharing(p) : Lists(o))
             ELSE index[r].shared
    BY LeaveEffect
  <2> QED
    BY <2>1, Zenon
<1>4. ASSUME NEW q \in Clients, q # p, Working(q), job'[q].alone
      PROVE  Index(q)'.slice = Index(q).slice
  <2>1. job[q].ref \in DOMAIN index
    BY <1>4, AtWork DEF Working
  <2>2. job'[q].ref = job[q].ref
    BY <1>2, <1>4
  <2>3. index'[job[q].ref].slice = index[job[q].ref].slice
    BY <1>3, <2>1
  <2> QED
    BY <2>2, <2>3 DEF Index
<1>5. ASSUME pc'[p] \in {"iterate", "find", "answered"}, ~Lists(p)'
      PROVE  Gathered(p)'
  <2>1. pc'[p] # "answered" /\ job'[p].i = 1
    BY <1>1, <1>5 DEF FirstStage, Kinds, Lists
  <2>2. Passed(p)' = {}
    BY <2>1 DEF Passed
  <2>3. Shown(job'[p].got) = {} /\ DOMAIN job'[p].got = {}
    BY <1>1 DEF Shown
  <2> QED
    BY <2>1, <2>2, <2>3 DEF Gathered
<1> QED
  BY <1>2, <1>3, <1>4, <1>5, GathersKept

\* Steps that touch neither a request nor the slice it reads.
LEMMA StillGathers ==
  ASSUME PlaceInv, Gathers,
         \A q \in Clients : pc'[q] = pc[q] /\ job'[q] = job[q],
         \A r \in DOMAIN index : index'[r] = index[r]
  PROVE  Gathers'
<1> SUFFICES ASSUME NEW q \in Clients, pc[q] \in {"iterate", "find", "answered"}, ~Lists(q)
             PROVE  Gathered(q)'
  BY DEF Gathers, Lists
<1>1. job[q].ref \in DOMAIN index
  BY AtWork
<1>2. Index(q)' = Index(q)
  BY <1>1 DEF Index
<1>3. Gathered(q)
  BY DEF Gathers
<1> QED
  BY <1>2, <1>3, GatherKept

LEMMA StepGathers ==
  PlaceInv /\ Contained /\ Exclusive /\ RestWhole /\ Gathers /\ [Next]_vars => Gathers'
<1> SUFFICES ASSUME PlaceInv, Contained, Exclusive, RestWhole, Gathers, [Next]_vars
             PROVE  Gathers'
  OBVIOUS
<1>0. \A q \in Clients : q \in Procs /\ q # Syncer
  BY ClientsAreProcs
<1>1. ASSUME NEW p \in Clients, Enter(p) PROVE Gathers'
  BY <1>1, EnterEffect, ReadGathers
<1>2. ASSUME NEW p \in Clients, LeaveEmpty(p) \/ Answer(p) \/ RequestPanics(p) PROVE Gathers'
  BY <1>2, EndEffect, ReadGathers
<1>3. ASSUME NEW p \in Clients, Others(p), Reads, Listings(p), SameTask(p) PROVE Gathers'
  BY <1>3, ListingGathers DEF Reads, SameTask
<1>4. ASSUME NEW p \in Clients, Compare(p) PROVE Gathers'
  BY <1>3, <1>4, CompareEffect DEF Listings, ListStages
<1>5. ASSUME NEW p \in Clients, Swap(p) PROVE Gathers'
  <2>1. Others(p) /\ Reads /\ SameTask(p) /\ pc[p] = "swap"
    BY <1>5, SwapEffect
  <2> QED
    BY <1>3, <2>1 DEF Listings, ListStages
<1>6. ASSUME NEW p \in Clients, Pick(p) PROVE Gathers'
  BY <1>3, <1>6, PickEffect DEF Listings, ListStages
<1>7. ASSUME NEW p \in Clients, Write(p) PROVE Gathers'
  <2>1. Others(p) /\ SameTask(p) /\ pc[p] = "write"
    BY <1>7, WriteEffect
  <2>2. \A r \in DOMAIN index :
              /\ r # job[p].ref => index'[r] = index[r]
              /\ index'[r].listed = index[r].listed
              /\ index'[r].shared = index[r].shared
    BY <1>7, WriteEffect
  <2>3. Listings(p)
    BY <2>1 DEF Listings, ListStages
  <2> QED
    BY <2>1, <2>2, <2>3, ListingGathers DEF SameTask
<1>8. ASSUME NEW p \in Clients, Widen(p) PROVE Gathers'
  <2>1. Others(p) /\ job' = job /\ pc[p] = "widen"
    BY <1>8, WidenEffect
  <2>2. \A r \in DOMAIN index :
              /\ index'[r].slice = index[r].slice
              /\ index'[r].listed = index[r].listed
              /\ index'[r].shared = index[r].shared
    BY <1>8, WidenEffect
  <2>3. Listings(p)
    BY <2>1 DEF Listings, ListStages
  <2> QED
    BY <2>1, <2>2, <2>3, ListingGathers
<1>9. ASSUME LoadIndex PROVE Gathers'
  <2>1. /\ \A q \in Procs : q # Syncer => pc'[q] = pc[q] /\ job'[q] = job[q]
        /\ \A r \in DOMAIN index : index'[r] = index[r]
    BY <1>9, LoadEffect
  <2> QED
    BY <1>0, <2>1, StillGathers
<1>10. ASSUME BeginStore \/ EndStore \/ EnterDelete \/ EndDelete PROVE Gathers'
  BY <1>10, HandlerEffect, StillGathers
<1>11. ASSUME Die PROVE Gathers'
  BY <1>0, <1>11 DEF Die, Gathers
<1>12. ASSUME UNCHANGED vars PROVE Gathers'
  BY <1>12, StillGathers DEF vars
<1> QED
  BY <1>1, <1>2, <1>4, <1>5, <1>6, <1>7, <1>8, <1>9, <1>10, <1>11, <1>12, IterateGathers, FindGathers,
     LeaveGathers DEF Next, Listing

-----------------------------------------------------------------------------
(***************************************************************************)
(* The latest version that a listing shows.  Once it is chosen, the        *)
(* keywords of the version only grow, and never beyond the chart's.        *)
(***************************************************************************)
Newest(p) ==
  pc[p] = "answered" /\ Lists(p) /\ ~Index(p).shared /\ Index(p).listed # {} =>
    /\ job[p].got # <<>> /\ job[p].got[1] \in Index(p).listed
    /\ \A u \in Index(p).listed : u <= job[p].got[1]
    /\ Index(p).words[job[p].got[1]] = Index(p).listed

LEMMA NewestOfEach == Chosen /\ ListedNewest <=> \A p \in Clients : Newest(p)
BY Zenon DEF Chosen, ListedNewest, Newest

LEMMA NewestKept ==
  ASSUME PlaceInv, PlaceInv', Grown, Contained', NEW q \in Clients, Newest(q),
         pc'[q] = pc[q], job'[q].kind = job[q].kind, job'[q].ref = job[q].ref,
         job'[q].got = job[q].got
  PROVE  Newest(q)'
<1> SUFFICES ASSUME pc[q] = "answered", Lists(q), ~Index(q)'.shared, Index(q)'.listed # {}
             PROVE  /\ job[q].got # <<>> /\ job[q].got[1] \in Index(q)'.listed
                    /\ \A u \in Index(q)'.listed : u <= job[q].got[1]
                    /\ Index(q)'.words[job[q].got[1]] = Index(q)'.listed
  BY DEF Newest, Lists
<1>1. job[q].ref \in DOMAIN index
  BY AtWork
<1> DEFINE r == job[q].ref
           v == job[q].got[1]
<1>2. /\ r \in DOMAIN index' /\ index'[r].listed = index[r].listed
      /\ ~index[r].shared /\ index[r].listed # {}
      /\ \A x \in Versions : index[r].words[x] \subseteq index'[r].words[x]
  BY <1>1 DEF Grown, Index
<1>3. /\ job[q].got # <<>> /\ v \in index[r].listed /\ index[r].words[v] = index[r].listed
      /\ \A u \in index[r].listed : u <= v
  BY <1>2 DEF Newest, Index
<1>4. index[r].listed \subseteq Versions
  BY <1>1, IndexTyped DEF PlaceInv
<1>5. index[r].words[v] \subseteq index'[r].words[v]
  BY <1>2, <1>3, <1>4
<1>6. index'[r].words[v] \subseteq index'[r].listed
  BY <1>2, <1>3 DEF Contained
<1>7. Index(q)' = index'[r]
  BY DEF Index
<1>8. index'[r].words[v] = index'[r].listed
  BY <1>2, <1>3, <1>5, <1>6
<1> HIDE DEF v
<1>9. /\ job[q].got # <<>> /\ v \in Index(q)'.listed
      /\ \A u \in Index(q)'.listed : u <= v
      /\ Index(q)'.words[v] = Index(q)'.listed
  BY <1>2, <1>3, <1>7, <1>8
<1> QED
  BY <1>9 DEF v

\* A step of one request that does not end in the answer of a listing.
LEMMA NewestOthers ==
  ASSUME PlaceInv, PlaceInv', Grown, Contained', Chosen, ListedNewest, NEW p,
         \A q \in Clients : q # p =>
           pc'[q] = pc[q] /\ job'[q].kind = job[q].kind /\ job'[q].ref = job[q].ref
           /\ job'[q].got = job[q].got,
         p \in Clients => Newest(p)'
  PROVE  (Chosen /\ ListedNewest)'
<1>1. \A q \in Clients : Newest(q)
  BY NewestOfEach
<1>2. \A q \in Clients : Newest(q)'
  BY <1>1, NewestKept
<1>3. (Chosen /\ ListedNewest)' <=> \A q \in Clients : Newest(q)'
  BY Zenon DEF Chosen, ListedNewest, Newest
<1> QED
  BY <1>2, <1>3

LEMMA OneNewest ==
  ASSUME PlaceInv, PlaceInv', Grown, Contained', Chosen, ListedNewest, NEW p \in Clients,
         Others(p), pc'[p] # "answered" \/ ~Lists(p)' \/ Newest(p)'
  PROVE  (Chosen /\ ListedNewest)'
<1>1. \A q \in Clients : q # p =>
           pc'[q] = pc[q] /\ job'[q].kind = job[q].kind /\ job'[q].ref = job[q].ref
           /\ job'[q].got = job[q].got
  BY ClientsAreProcs DEF Others
<1>2. Newest(p)'
  BY DEF Newest
<1> QED
  BY <1>1, <1>2, NewestOthers

\* The listing takes the first entry of the slice that it has sorted.
LEMMA PickNewest ==
  ASSUME PlaceInv, Sorts, NEW p \in Clients, Pick(p)
  PROVE  Newest(p)'
<1>1. /\ Reads /\ SameTask(p) /\ pc[p] = "pick" /\ Len(Entries(p)) >= 1 /\ job[p].writes = {}
      /\ job'[p].got = <<Entries(p)[1]>>
  BY PickEffect
<1>2. Listings(p)
  BY <1>1 DEF Listings, ListStages
<1>3. Index(p)' = Index(p)
  BY <1>1 DEF Reads, SameTask, Index
<1> SUFFICES ASSUME ~Index(p).shared
             PROVE  Newest(p)'
  BY <1>3 DEF Newest
<1> DEFINE s == Entries(p)
           n == Len(s)
<1>4. /\ Whole(s, Index(p).listed) /\ Ordered(s, n, 0)
      /\ Index(p).words[s[1]] = Index(p).listed
  BY <1>1, <1>2, SettledSlice
<1>5. /\ n \in Nat /\ DOMAIN s = 1 .. n /\ \A k \in DOMAIN s : s[k] \in Versions
  BY <1>1, AtWork
<1>6. 1 \in DOMAIN s
  BY <1>1, <1>5
<1>7. s[1] \in Index(p).listed
  BY <1>4, <1>6 DEF Whole, Shown
<1>8. ASSUME NEW u \in Index(p).listed PROVE u <= s[1]
  <2>1. PICK k \in DOMAIN s : u = s[k]
    BY <1>4 DEF Whole, Shown
  <2>2. CASE k = 1
    BY <1>5, <1>6, <2>1, <2>2, VersionsAreNumbers
  <2>3. CASE k # 1
    <3>1. 1 < k /\ k <= n /\ k # 0
      BY <1>5, <2>3
    <3>2. s[1] >= s[k]
      BY <1>4, <1>6, <3>1 DEF Ordered
    <3> QED
      BY <1>5, <1>6, <2>1, <3>2, VersionsAreNumbers
  <2> QED
    BY <2>2, <2>3
<1>9. job'[p].got # <<>> /\ job'[p].got[1] = s[1]
  BY <1>1
<1> QED
  BY <1>3, <1>4, <1>7, <1>8, <1>9 DEF Newest

\* A chart without versions is left out of the listing.
LEMMA WidenNewest ==
  ASSUME PlaceInv, Sorts, NEW p \in Clients, Widen(p)
  PROVE  pc'[p] # "answered" \/ Newest(p)'
<1>1. pc[p] = "widen" /\ job' = job
  BY WidenEffect
<1>2. \/ Entries(p) = <<>> /\ pc'[p] = "answered" /\ index' = index
      \/ pc'[p] = "pick"
  BY WidenEffect
<1>3. Listings(p)
  BY <1>1 DEF Listings, ListStages
<1>4. job[p].writes = {}
  BY <1>1, AtWork DEF Counters
<1>5. CASE Entries(p) = <<>> /\ index' = index
  <2>1. ~Index(p).shared => Index(p).listed = {}
    <3>1. ~Index(p).shared => Shown(Entries(p)) = Index(p).listed
      BY <1>3, <1>4, SettledSlice DEF Whole
    <3>2. Shown(<<>>) = {}
      BY DEF Shown
    <3> QED
      BY <1>5, <3>1, <3>2
  <2>2. Index(p)' = Index(p)
    BY <1>1, <1>5 DEF Index
  <2> QED
    BY <2>1, <2>2 DEF Newest
<1> QED
  BY <1>2, <1>5

LEMMA StepNewest ==
  PlaceInv /\ PlaceInv' /\ Grown /\ Contained' /\ Sorts /\ Chosen /\ ListedNewest /\ [Next]_vars
    => (Chosen /\ ListedNewest)'
<1> SUFFICES ASSUME PlaceInv, PlaceInv', Grown, Contained', Sorts, Chosen, ListedNewest, [Next]_vars
             PROVE  (Chosen /\ ListedNewest)'
  OBVIOUS
<1>0. \A q \in Clients : q \in Procs /\ q # Syncer
  BY ClientsAreProcs
<1>1. ASSUME NEW p \in Clients, Enter(p) PROVE (Chosen /\ ListedNewest)'
  BY <1>1, EnterEffect, OneNewest
<1>2. ASSUME NEW p \in Clients, LeaveEmpty(p) \/ Answer(p) \/ RequestPanics(p)
      PROVE  (Chosen /\ ListedNewest)'
  BY <1>2, EndEffect, OneNewest
<1>3. ASSUME NEW p \in Clients, Leave(p) PROVE (Chosen /\ ListedNewest)'
  <2>1. pc'[p] = FirstStage[job[p].kind] /\ job[p].kind \in Kinds
    BY <1>3, LeaveEffect
  <2>2. ASSUME NEW q \in Clients, q # p
        PROVE  pc'[q] = pc[q] /\ job'[q].kind = job[q].kind /\ job'[q].ref = job[q].ref
               /\ job'[q].got = job[q].got
    <3>1. pc'[q] = pc[q]
      BY <1>0, <1>3, <2>2, LeaveEffect
    <3> QED
      BY <1>0, <1>3, <2>2, <3>1, LeaveJobs
  <2>3. Newest(p)'
    BY <2>1 DEF Newest, FirstStage, Kinds
  <2> QED
    BY <2>2, <2>3, NewestOthers
<1>4. ASSUME NEW p \in Clients, Compare(p) PROVE (Chosen /\ ListedNewest)'
  BY <1>4, CompareEffect, OneNewest
<1>5. ASSUME NEW p \in Clients, Swap(p) PROVE (Chosen /\ ListedNewest)'
  BY <1>5, SwapEffect, OneNewest
<1>6. ASSUME NEW p \in Clients, Write(p) PROVE (Chosen /\ ListedNewest)'
  <2>1. Others(p) /\ pc'[p] # "answered"
    BY <1>6, WriteEffect
  <2> QED
    BY <2>1, OneNewest
<1>7. ASSUME NEW p \in Clients, Widen(p) PROVE (Chosen /\ ListedNewest)'
  <2>1. Others(p)
    BY <1>7, WidenEffect
  <2> QED
    BY <1>7, <2>1, WidenNewest, OneNewest
<1>8. ASSUME NEW p \in Clients, Pick(p) PROVE (Chosen /\ ListedNewest)'
  <2>1. Others(p)
    BY <1>8, PickEffect
  <2> QED
    BY <1>8, <2>1, PickNewest, OneNewest
<1>9. ASSUME NEW p \in Clients, Iterate(p) PROVE (Chosen /\ ListedNewest)'
  <2>1. Others(p) /\ SameTask(p) /\ pc[p] = "iterate"
    BY <1>9, IterateEffect
  <2>2. ~Lists(p)'
    BY <2>1, AtWork DEF Placed, Lists, SameTask
  <2> QED
    BY <2>1, <2>2, OneNewest
<1>10. ASSUME NEW p \in Clients, Find(p) PROVE (Chosen /\ ListedNewest)'
  <2>1. Others(p) /\ SameTask(p) /\ pc[p] = "find"
    BY <1>10, FindEffect
  <2>2. ~Lists(p)'
    BY <2>1, AtWork DEF Placed, Lists, SameTask
  <2> QED
    BY <2>1, <2>2, OneNewest
<1>11. ASSUME \A q \in Clients : q # Syncer => pc'[q] = pc[q] /\ job'[q] = job[q]
       PROVE  (Chosen /\ ListedNewest)'
  BY <1>0, <1>11, NewestOthers
<1>12. ASSUME LoadIndex PROVE (Chosen /\ ListedNewest)'
  BY <1>0, <1>11, <1>12, LoadEffect
<1>13. ASSUME BeginStore \/ EndStore \/ EnterDelete \/ EndDelete PROVE (Chosen /\ ListedNewest)'
  BY <1>11, <1>13, HandlerEffect
<1>14. ASSUME Die PROVE (Chosen /\ ListedNewest)'
  BY <1>0, <1>14 DEF Die, Chosen, ListedNewest
<1>15. ASSUME UNCHANGED vars PROVE (Chosen /\ ListedNewest)'
  BY <1>11, <1>15 DEF vars
<1> QED
  BY <1>1, <1>2, <1>3, <1>4, <1>5, <1>6, <1>7, <1>8, <1>9, <1>10, <1>12, <1>13, <1>14, <1>15
     DEF Next, Listing

-----------------------------------------------------------------------------
LEMMA InitReadInv == Init => ReadInv
<1> SUFFICES ASSUME Init PROVE ReadInv
  OBVIOUS
<1>1. PlaceInv
  BY InitPlaces
<1>2. \A p \in Clients : pc[p] = "idle" /\ job[p] = Fresh
  BY ClientsAreProcs DEF Init
<1>3. DOMAIN index = {}
  BY DEF Init
<1>4. Contained
  BY <1>2, <1>3 DEF Contained, Fresh
<1>5. Exclusive /\ Sorts /\ Gathers /\ Chosen /\ ListedNewest
  BY <1>2 DEF Exclusive, Sorts, Listings, ListStages, Gathers, Chosen, ListedNewest
<1>6. RestWhole
  BY <1>3 DEF RestWhole
<1> QED
  BY <1>1, <1>4, <1>5, <1>6 DEF ReadInv

\* ReadInv is inductive.
LEMMA ReadInvariance == Spec => []ReadInv
<1>1. ASSUME ReadInv, [Next]_vars PROVE ReadInv'
  <2>1. PlaceInv' /\ Grown
    BY <1>1, StepPlaces DEF ReadInv
  <2>2. Contained'
    BY <1>1, StepContained DEF ReadInv
  <2>3. Exclusive'
    BY <1>1, StepExclusive DEF ReadInv
  <2>4. Sorts' /\ RestWhole'
    BY <1>1, StepSorts DEF ReadInv
  <2>5. Gathers'
    BY <1>1, StepGathers DEF ReadInv
  <2>6. (Chosen /\ ListedNewest)'
    BY <1>1, <2>1, <2>2, StepNewest DEF ReadInv
  <2> QED
    BY <2>1, <2>2, <2>3, <2>4, <2>5, <2>6 DEF ReadInv
<1> QED
  BY InitReadInv, <1>1, PTL DEF Spec

(***************************************************************************)
(* The latest version a listing shows is the newest of the index it took,  *)
(* with the keywords of all of them, unless two listings sorted that index *)
(* at once: however requests, synchronisations and a deletion interleave,  *)
(* and in whatever order the swap's two stores are made.                   *)
(***************************************************************************)
THEOREM LatestIsNewest == Spec => []ListedNewest
<1>1. ReadInv => ListedNewest
  BY DEF ReadInv
<1> QED
  BY ReadInvariance, <1>1, PTL

\* A sequence that shows every element of a set once is as long as the set.
LEMMA OnceEach ==
  ASSUME NEW S, NEW g \in Seq(S), \A a, b \in DOMAIN g : g[a] = g[b] => a = b
  PROVE  Len(g) = Cardinality(Shown(g))
<1> DEFINE n == Len(g)
<1>1. n \in Nat /\ DOMAIN g = 1 .. n /\ g \in [1 .. n -> S]
  OBVIOUS
<1>2. /\ g \in [1 .. n -> Shown(g)]
      /\ \A t \in Shown(g) : \E k \in 1 .. n : g[k] = t
  <2>1. \A k \in 1 .. n : g[k] \in Shown(g)
    BY <1>1 DEF Shown
  <2> QED
    BY <1>1, <2>1 DEF Shown
<1>3. g \in Bijection(1 .. n, Shown(g))
  BY <1>1, <1>2 DEF Bijection, Injection, Surjection, IsInjective
<1>4. ExistsBijection(1 .. n, Shown(g))
  BY <1>3 DEF ExistsBijection
<1> QED
  BY <1>1, <1>4, FS_CountingElements

(***************************************************************************)
(* The versions a reader answers are versions of one index, even when the  *)
(* index is replaced while it reads; and unless a listing has sorted under *)
(* it, they are all those asked for, each once.                            *)
(***************************************************************************)
THEOREM OneIndexAnswered == Spec => []VersionsOfOneIndex
<1>1. ASSUME ReadInv PROVE VersionsOfOneIndex
  <2> SUFFICES ASSUME NEW p \in Clients, pc[p] = "answered", ~Lists(p)
               PROVE  LET asked == {v \in Index(p).listed : needShow(v, job[p].wanted)}
                          got == job[p].got
                      IN /\ Shown(got) \subseteq asked
                         /\ job[p].alone /\ ~Index(p).shared =>
                              Shown(got) = asked /\ Len(got) = Cardinality(asked)
    BY DEF VersionsOfOneIndex
  <2>1. Gathered(p)
    BY <1>1 DEF ReadInv, Gathers
  <2>2. job[p].got \in Seq(Versions)
    BY <1>1, AtWork DEF ReadInv
  <2>3. (\A a, b \in DOMAIN job[p].got : job[p].got[a] = job[p].got[b] => a = b) =>
          Len(job[p].got) = Cardinality(Shown(job[p].got))
    BY <2>2, OnceEach
  <2> QED
    BY <2>1, <2>3 DEF Gathered
<1> QED
  BY ReadInvariance, <1>1, PTL
=============================================================================
