----------------------------- MODULE LocalCharts -----------------------------
(***************************************************************************)
(* The built-in local repository (pkg/helm/charts.go): uploads under a     *)
(* quota, deletions, and the synchronisation of the repository's own index *)
(* that each of them asks for.  The charts live in Harbor; the service     *)
(* serves them from cachedData["local"].                                   *)
(***************************************************************************)
EXTENDS Naturals, FiniteSets

CONSTANTS
    Charts,     \* chart versions that clients upload
    Deletions,  \* sets of versions that one delete request names
    Limit,      \* chart-limit of the service's configuration
    Requests,   \* slots for handlers in flight (bound on concurrency)
    Workers,    \* slots for sync goroutines (bound on concurrency)
    Ops,        \* the operations clients use in this instance
    Faults,     \* "load" (a sync's calls), "lost" answers, "garbled" counts
    None

ASSUME LimitAssumption == Limit \in Nat
ASSUME RequestsAssumption == IsFiniteSet(Requests)
ASSUME DeletionsAssumption == Deletions \subseteq SUBSET Charts
VARIABLES
    harbor,     \* the chart versions Harbor holds
    exists,     \* cachedData has an entry for the local repository
    index,      \* the chart versions in that entry
    status,     \* repoAsyncTaskMap["local"]
    job,        \* the handlers in flight
    run         \* the sync goroutines

served == <<exists, index>>
vars == <<harbor, served, status, job, run>>

Job == {j \in [stage : {"upload", "status", "claim"}, chart : Charts \cup {None}] :
            j.stage = "upload" => j.chart # None}

Run == [stage : {"load", "store", "report", "amend"},
        got : SUBSET Charts, err : BOOLEAN, reports : BOOLEAN]

ASSUME NoneAssumption == None \notin Charts \cup Job \cup Run

NewRun(reports) == [stage |-> "load", got |-> {}, err |-> FALSE, reports |-> reports]

Goto(r, s) == job' = [job EXCEPT ![r].stage = s]
End(r) == job' = [job EXCEPT ![r] = None]
At(r, s) == job[r] # None /\ job[r].stage = s

-----------------------------------------------------------------------------
\* Mutant: what the cache serves is counted.
CountsServed == {Cardinality(index)}

(* uploadChartCheck counts what Harbor holds.  A body that does not parse  *)
(* counts as nothing: the error of json.Unmarshal is shadowed.             *)
Counts == {Cardinality(harbor)} \cup (IF "garbled" \in Faults THEN {0} ELSE {})

UploadCheck(r) ==
    /\ "upload" \in Ops
    /\ job[r] = None
    /\ exists
    /\ \E numbers \in Counts : ~(numbers > Limit)
    /\ \E c \in Charts : job' = [job EXCEPT ![r] = [stage |-> "upload", chart |-> c]]
    /\ UNCHANGED <<harbor, served, status, run>>

\* Harbor takes the chart, or refuses a version it has or any other upload.
Upload(r) ==
    /\ At(r, "upload")
    /\ \/ harbor' = harbor \cup {job[r].chart} /\ Goto(r, "status")
       \/ harbor' = harbor \cup {job[r].chart} /\ "lost" \in Faults /\ End(r)
       \/ harbor' = harbor /\ End(r)
    /\ UNCHANGED <<served, status, run>>

\* DeleteChart and DeleteChartVersion; Harbor answers NotFound if nothing
\* of that name is there.  No sync follows when Harbor's answer is lost or
\* SyncRepo cannot read the CR.
Delete(r) ==
    /\ "delete" \in Ops
    /\ job[r] = None
    /\ exists
    /\ \E d \in Deletions :
         /\ d \cap harbor # {}
         /\ harbor' = harbor \ d
    /\ \/ job' = [job EXCEPT ![r] = [stage |-> "status", chart |-> None]]
       \/ "lost" \in Faults /\ job' = job
    /\ UNCHANGED <<served, status, run>>

\* A client may also ask for the sync itself.
Sync(r) ==
    /\ "sync" \in Ops
    /\ job[r] = None
    /\ job' = [job EXCEPT ![r] = [stage |-> "status", chart |-> None]]
    /\ UNCHANGED <<harbor, served, status, run>>

-----------------------------------------------------------------------------
(* SyncRepo("local"), whose answer UploadChart and DeleteChartVersion drop. *)
ReadStatus(r) ==
    /\ At(r, "status")
    /\ IF status = "in_progress" THEN End(r) ELSE Goto(r, "claim")
    /\ UNCHANGED <<harbor, served, status, run>>

Claim(r, w) ==
    /\ At(r, "claim")
    /\ run[w] = None
    /\ status' = "in_progress"
    /\ run' = [run EXCEPT ![w] = NewRun(TRUE)]
    /\ End(r)
    /\ UNCHANGED <<harbor, served>>

\* The boot's goroutine (SyncAllRepos) has no status to report.
Finish(w, err) ==
    run' = [run EXCEPT ![w] =
               IF @.reports THEN [@ EXCEPT !.stage = "report", !.err = err] ELSE None]

RunAt(w, s) == run[w] # None /\ run[w].stage = s

Load(w) ==
    /\ RunAt(w, "load")
    /\ \/ run' = [run EXCEPT ![w].stage = "store", ![w].got = harbor]
       \/ "load" \in Faults /\ Finish(w, TRUE)
    /\ UNCHANGED <<harbor, served, status, job>>

\* The index is stored, and the CR's modification time patched.
Store(w) ==
    /\ RunAt(w, "store")
    /\ exists' = TRUE
    /\ index' = run[w].got
    /\ Finish(w, FALSE) \/ ("load" \in Faults /\ Finish(w, TRUE))
    /\ UNCHANGED <<harbor, status, job>>

Report(w) ==
    /\ RunAt(w, "report")
    /\ status' = "complete"
    /\ run' = [run EXCEPT ![w] =
                  IF @.err THEN [@ EXCEPT !.stage = "amend"] ELSE None]
    /\ UNCHANGED <<harbor, served, job>>

\* Mutant: a status that SyncRepo's switch does not know.
AmendUnknown(w) ==
    /\ RunAt(w, "amend")
    /\ status' = "unknown"
    /\ run' = [run EXCEPT ![w] = None]
    /\ UNCHANGED <<harbor, served, job>>

Amend(w) ==
    /\ RunAt(w, "amend")
    /\ status' = "failed"
    /\ run' = [run EXCEPT ![w] = None]
    /\ UNCHANGED <<harbor, served, job>>

\* Nothing in memory survives; the boot synchronises the repository.
Restart ==
    /\ "restart" \in Ops
    /\ exists' = FALSE
    /\ index' = {}
    /\ status' = None
    /\ job' = [r \in Requests |-> None]
    /\ \E w \in Workers :
         run' = [v \in Workers |-> IF v = w THEN NewRun(FALSE) ELSE None]
    /\ UNCHANGED harbor

Init ==
    /\ harbor = {}
    /\ exists = FALSE
    /\ index = {}
    /\ status = None
    /\ job = [r \in Requests |-> None]
    /\ \E w \in Workers :
         run = [v \in Workers |-> IF v = w THEN NewRun(FALSE) ELSE None]

Client(r) == UploadCheck(r) \/ Delete(r) \/ Sync(r)

Handler(r) == Upload(r) \/ ReadStatus(r) \/ \E w \in Workers : Claim(r, w)

Goroutine(w) == Load(w) \/ Store(w) \/ Report(w) \/ Amend(w)

Next ==
    \/ \E r \in Requests : Client(r) \/ Handler(r)
    \/ \E w \in Workers : Goroutine(w)
    \/ Restart

Spec == Init /\ [][Next]_vars

-----------------------------------------------------------------------------
(* Every variable stays in its range. *)
TypeOK ==
    /\ harbor \subseteq Charts
    /\ exists \in BOOLEAN
    /\ index \subseteq Charts
    /\ status \in {"in_progress", "complete", "failed", None}
    /\ job \in [Requests -> Job \cup {None}]
    /\ run \in [Workers -> Run \cup {None}]

(***************************************************************************)
(* The quota holds up to what handlers in flight can add: each of them     *)
(* counts once, and uploads later, when others have uploaded too.          *)
(***************************************************************************)
QuotaBound == Cardinality(harbor) <= Limit + Cardinality(Requests)

-----------------------------------------------------------------------------
(***************************************************************************)
(* The strengthening that makes QuotaBound inductive: an upload that has   *)
(* passed its check counts as if Harbor had the version already.           *)
(***************************************************************************)
InFlight == {r \in Requests : At(r, "upload")}

Reserved ==
    /\ harbor \subseteq Charts
    /\ IsFiniteSet(harbor)
    /\ Cardinality(harbor) + Cardinality(InFlight) <= Limit + Cardinality(Requests)

IInv == TypeOK /\ Reserved
=============================================================================
