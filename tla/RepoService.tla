---------------------------- MODULE RepoService ----------------------------
(***************************************************************************)
(* Repository management of the marketplace service (pkg/helm/repo.go and  *)
(* pkg/helm/cache.go): the HTTP handlers that create, update, delete and   *)
(* synchronise helm repositories, and the goroutines a synchronisation     *)
(* starts.  Every step is one call to the Kubernetes API, one access to    *)
(* the chart cache or one access to repoAsyncTaskMap, so that handlers and *)
(* goroutines interleave wherever the program lets them.                   *)
(***************************************************************************)
EXTENDS Naturals

CONSTANTS
    Names,        \* spellings of repository names that clients use
    Lower,        \* strings.ToLower on Names
    URLs,         \* repository addresses
    Builtin,      \* display names of the official and the local repository
    BuiltinURL,   \* their addresses, set by the installation
    Offers,       \* what a request may carry for each kind of credential
    Requests,     \* slots for handlers in flight (bound on concurrency)
    Workers,      \* slots for sync goroutines (bound on concurrency)
    Ops,          \* the operations clients use in this instance
    Faults,       \* what may fail: "api" (Kubernetes calls), "load" (index)
    None          \* absence of a record, an entry or a task

\* The API objects a repository refers to: two secrets and a config map.
Kinds == {"auth", "tls", "ca"}

ASSUME LowerAssumption ==
    /\ Lower \in [Names -> Names]
    /\ \A n \in Names : Lower[Lower[n]] = Lower[n]

ASSUME BuiltinAssumption ==
    /\ Builtin \subseteq Names
    /\ BuiltinURL \in [Builtin -> URLs]
    /\ \A a, b \in Builtin : Lower[a] = Lower[b] => a = b

\* "partial" is a user name without a password, or one file of a TLS pair.
ASSUME OffersAssumption == Offers \subseteq [Kinds -> {"absent", "partial", "full"}]

CRNames == {Lower[n] : n \in Names}

\* isRepoModificationAllowed refuses these names, whatever their spelling.
Protected == {Lower[b] : b \in Builtin}

\* A HelmChartRepository; every object it refers to is named after its
\* display name followed by the kind.
CR == [display : Names, url : URLs, refs : SUBSET Kinds]

NoOffer == [k \in Kinds |-> "absent"]

Statuses == {"in_progress", "complete", "failed"}

(***************************************************************************)
(* A handler in flight: what the request asked, the copy of the CR it has  *)
(* read, and the credential objects it has still to deal with.             *)
(***************************************************************************)
Job == [op    : {"create", "update", "delete", "sync"},
        stage : {"write", "publish", "status", "claim"},
        name  : Names,
        url   : URLs \cup {None},
        given : Offers \cup {NoOffer},
        seen  : CR \cup {None},
        todo  : SUBSET Kinds]

\* A sync goroutine.  task is the status key it reports to; the goroutines
\* of SyncAllRepos have none.
Run == [stage : {"resolve", "store", "patch", "report", "amend"},
        seen  : CR,
        todo  : SUBSET Kinds,
        task  : Names \cup {None},
        err   : BOOLEAN]

ASSUME NoneAssumption ==
    /\ None \notin Names \cup URLs \cup Statuses
    /\ None \notin CR \cup Job \cup Run

VARIABLES
    crs,     \* the HelmChartRepository objects in the API server
    objs,    \* the secrets and config maps that exist
    cache,   \* cachedData: the address each entry's index was loaded from
    tasks,   \* repoAsyncTaskMap
    job,     \* the handlers in flight
    fresh,   \* updates whose copy still has the CR's resourceVersion
    run      \* the sync goroutines

vars == <<crs, objs, cache, tasks, job, fresh, run>>
external == <<crs, objs>>
local == <<cache, tasks, run>>

-----------------------------------------------------------------------------
(* Credential objects are handled in a fixed order: auth, tls, ca. *)
First(S) == IF "auth" \in S THEN "auth" ELSE IF "tls" \in S THEN "tls" ELSE "ca"

Refs(cr) == IF cr = None THEN {} ELSE cr.refs

Wanted(g) == {k \in Kinds : g[k] = "full"}

NewJob(op, n, u, g, cr) ==
    [op |-> op, stage |-> IF op = "sync" THEN "status" ELSE "write", name |-> n,
     url |-> u, given |-> g, seen |-> cr,
     todo |-> IF op = "sync" THEN {} ELSE Wanted(g) \cup Refs(cr)]

NewRun(cr, task) ==
    [stage |-> "resolve", seen |-> cr, todo |-> cr.refs, task |-> task, err |-> FALSE]

Target(r) == Lower[job[r].name]

SetJob(r, j) == job' = [job EXCEPT ![r] = j]

SetRun(w, x) == run' = [run EXCEPT ![w] = x]

Begin(r, j) == job[r] = None /\ SetJob(r, j)

\* The handler answers its client.
End(r) == SetJob(r, None) /\ fresh' = fresh \ {r}

\* The handler goes on, or its API call took effect and the answer was lost.
Answered(r, j) ==
    \/ SetJob(r, j) /\ fresh' = fresh
    \/ "api" \in Faults /\ End(r)

AtStage(r, ops, stage) == job[r] # None /\ job[r].op \in ops /\ job[r].stage = stage

\* Updates whose copy is still current after another write to CR c.
StillFresh(c) == {q \in fresh : Target(q) # c}

-----------------------------------------------------------------------------
(***************************************************************************)
(* What a handler does before its first write: it reads the CRs and, for   *)
(* create and update, loads the index of the requested address.  A request *)
(* that is refused here changes nothing and is a stuttering step.          *)
(***************************************************************************)
CreateRepo(r) ==
    /\ "create" \in Ops
    /\ \E n \in Names, u \in URLs, g \in Offers :
         /\ \A c \in CRNames : crs[c] # None => crs[c].url # u /\ crs[c].display # n
         /\ Begin(r, NewJob("create", n, u, g, None))
    /\ UNCHANGED <<external, local, fresh>>

\* Mutant: the name is compared with the built-in ones as it is spelled.
UpdateRepoAsSpelled(r) ==
    /\ "update" \in Ops
    /\ \E n \in Names, u \in URLs, g \in Offers :
         /\ n \notin Builtin
         /\ crs[Lower[n]] # None
         /\ Begin(r, NewJob("update", n, u, g, crs[Lower[n]]))
    /\ fresh' = fresh \cup {r}
    /\ UNCHANGED <<external, local>>

UpdateRepo(r) ==
    /\ "update" \in Ops
    /\ \E n \in Names, u \in URLs, g \in Offers :
         /\ Lower[n] \notin Protected
         /\ crs[Lower[n]] # None
         /\ Begin(r, NewJob("update", n, u, g, crs[Lower[n]]))
    /\ fresh' = fresh \cup {r}
    /\ UNCHANGED <<external, local>>

\* Mutant: no name is refused.
DeleteAnyRepo(r) ==
    /\ "delete" \in Ops
    /\ \E c \in CRNames :
         /\ crs[c] # None
         /\ Begin(r, NewJob("delete", c, None, NoOffer, crs[c]))
    /\ UNCHANGED <<external, local, fresh>>

DeleteRepo(r) ==
    /\ "delete" \in Ops
    /\ \E c \in CRNames :
         /\ c \notin Protected
         /\ crs[c] # None
         /\ Begin(r, NewJob("delete", c, None, NoOffer, crs[c]))
    /\ UNCHANGED <<external, local, fresh>>

SyncRepo(r) ==
    /\ "sync" \in Ops
    /\ \E n \in Names :
         /\ crs[Lower[n]] # None
         /\ Begin(r, NewJob("sync", n, None, NoOffer, crs[Lower[n]]))
    /\ UNCHANGED <<external, local, fresh>>

-----------------------------------------------------------------------------
(* The credential objects, one API call each. *)
Turn(r, ops, k) ==
    /\ AtStage(r, ops, "write")
    /\ job[r].todo # {}
    /\ k = First(job[r].todo)

Past(r, k) == [job[r] EXCEPT !.todo = @ \ {k}]

\* An object of this name is accepted: it is a DNS label, and an existing
\* basic-auth secret cannot be updated, because CreateSecret's failure has
\* overwritten the secret that the AlreadyExists branch passes on.
Accepted(n, k) == Lower[n] = n /\ ~(k = "auth" /\ <<n, k>> \in objs)

PutObject(r) ==
    \E k \in Kinds :
        /\ Turn(r, {"create", "update"}, k)
        /\ k \notin Refs(job[r].seen)
        /\ Accepted(job[r].name, k)
        /\ objs' = objs \cup {<<job[r].name, k>>}
        /\ Answered(r, Past(r, k))
        /\ UNCHANGED <<crs, local>>

\* An update that drops a credential deletes the object.
DropObject(r) ==
    \E k \in Kinds :
        /\ Turn(r, {"update"}, k)
        /\ k \in Refs(job[r].seen)
        /\ job[r].given[k] = "absent"
        /\ <<job[r].seen.display, k>> \in objs
        /\ objs' = objs \ {<<job[r].seen.display, k>>}
        /\ Answered(r, Past(r, k))
        /\ UNCHANGED <<crs, local>>

\* The handler gives up: the object's name or the existing secret is in the
\* way; the object to delete is missing; or the update brings credentials
\* that the CR has already, which it sends in an object without a name.
WriteRefused(r) ==
    \E k \in Kinds :
        /\ Turn(r, {"create", "update"}, k)
        /\ \/ k \notin Refs(job[r].seen) /\ ~Accepted(job[r].name, k)
           \/ k \in Refs(job[r].seen) /\ job[r].given[k] # "absent"
           \/ k \in Refs(job[r].seen) /\ <<job[r].seen.display, k>> \notin objs
        /\ End(r)
        /\ UNCHANGED <<external, local>>

\* DeleteRepo ignores whether the object could be deleted.
DeleteObject(r) ==
    \E k \in Kinds :
        /\ Turn(r, {"delete"}, k)
        /\ \/ objs' = objs \ {<<job[r].seen.display, k>>}
           \/ "api" \in Faults /\ objs' = objs
        /\ SetJob(r, Past(r, k))
        /\ UNCHANGED <<crs, local, fresh>>

-----------------------------------------------------------------------------
(* The write to the CR itself, and the chart cache after it. *)
Ready(r, op) == AtStage(r, {op}, "write") /\ job[r].todo = {}

Published(r) == [job[r] EXCEPT !.stage = "publish"]

NewCR(j) == [display |-> j.name, url |-> j.url, refs |-> Wanted(j.given)]

\* Mutant: the CR is applied over one that exists.
CommitApply(r) ==
    /\ Ready(r, "create")
    /\ crs' = [crs EXCEPT ![Target(r)] = NewCR(job[r])]
    /\ Answered(r, Published(r))
    /\ UNCHANGED <<objs, local>>

CommitCreate(r) ==
    /\ Ready(r, "create")
    /\ crs[Target(r)] = None
    /\ crs' = [crs EXCEPT ![Target(r)] = NewCR(job[r])]
    /\ Answered(r, Published(r))
    /\ UNCHANGED <<objs, local>>

\* Mutant: the CR is written back whatever its resourceVersion.
CommitForced(r) ==
    /\ Ready(r, "update")
    /\ crs[Target(r)] # None
    /\ crs' = [crs EXCEPT ![Target(r)] = [job[r].seen EXCEPT !.url = job[r].url]]
    /\ fresh' = StillFresh(Target(r))
    /\ SetJob(r, Published(r))
    /\ UNCHANGED <<objs, local>>

\* The whole CR is written back under the resourceVersion it was read with.
\* Writing back an unchanged CR leaves the resourceVersion as it is.
CommitUpdate(r) ==
    /\ Ready(r, "update")
    /\ r \in fresh
    /\ crs' = [crs EXCEPT ![Target(r)] = [job[r].seen EXCEPT !.url = job[r].url]]
    /\ fresh' = IF crs' = crs THEN fresh \ {r} ELSE StillFresh(Target(r))
    /\ SetJob(r, Published(r)) \/ ("api" \in Faults /\ SetJob(r, None))
    /\ UNCHANGED <<objs, local>>

CommitDelete(r) ==
    /\ Ready(r, "delete")
    /\ crs[Target(r)] # None
    /\ crs' = [crs EXCEPT ![Target(r)] = None]
    /\ fresh' = StillFresh(Target(r))
    /\ SetJob(r, Published(r)) \/ ("api" \in Faults /\ SetJob(r, None))
    /\ UNCHANGED <<objs, local>>

\* AlreadyExists, Conflict and NotFound.
CommitRefused(r) ==
    /\ \/ Ready(r, "create") /\ crs[Target(r)] # None
       \/ Ready(r, "update") /\ r \notin fresh
       \/ Ready(r, "delete") /\ crs[Target(r)] = None
    /\ End(r)
    /\ UNCHANGED <<external, local>>

\* Mutant: a deleted repository keeps its cache entry.
PublishKept(r) ==
    /\ AtStage(r, {"create", "update", "delete"}, "publish")
    /\ cache' = [cache EXCEPT ![job[r].name] = IF job[r].op = "delete" THEN @ ELSE job[r].url]
    /\ End(r)
    /\ UNCHANGED <<external, tasks, run>>

Publish(r) ==
    /\ AtStage(r, {"create", "update", "delete"}, "publish")
    /\ cache' = [cache EXCEPT ![job[r].name] = job[r].url]
    /\ End(r)
    /\ UNCHANGED <<external, tasks, run>>

\* A write that fails without effect.
ApiError(r) ==
    /\ "api" \in Faults
    /\ AtStage(r, {"create", "update"}, "write") \/ Ready(r, "delete")
    /\ End(r)
    /\ UNCHANGED <<external, local>>

-----------------------------------------------------------------------------
(***************************************************************************)
(* SyncRepo's handler reads the task's status and, in a later step, stores *)
(* the new one and starts the goroutine.                                   *)
(***************************************************************************)
ReadStatus(r) ==
    /\ AtStage(r, {"sync"}, "status")
    /\ IF tasks[job[r].name] = "in_progress"
         THEN End(r)
         ELSE SetJob(r, [job[r] EXCEPT !.stage = "claim"]) /\ fresh' = fresh
    /\ UNCHANGED <<external, local>>

Claim(r, w) ==
    /\ AtStage(r, {"sync"}, "claim")
    /\ run[w] = None
    /\ tasks' = [tasks EXCEPT ![job[r].name] = "in_progress"]
    /\ SetRun(w, NewRun(job[r].seen, job[r].name))
    /\ End(r)
    /\ UNCHANGED <<external, cache>>

\* SyncAllRepos: one goroutine for every CR, on slots that are idle in rs.
Spread(rs) ==
    {at \in [Workers -> CRNames \cup {None}] :
        /\ \A w \in Workers : at[w] # None => rs[w] = None /\ crs[at[w]] # None
        /\ \A v, w \in Workers : at[v] = at[w] => v = w \/ at[v] = None
        /\ \A c \in CRNames : crs[c] # None => \E w \in Workers : at[w] = c}

Started(at, rs) ==
    [w \in Workers |-> IF at[w] = None THEN rs[w] ELSE NewRun(crs[at[w]], None)]

StartAll(rs) == \E at \in Spread(rs) : run' = Started(at, rs)

SyncAllRepos ==
    /\ "syncall" \in Ops
    /\ StartAll(run)
    /\ UNCHANGED <<external, cache, tasks, job, fresh>>

-----------------------------------------------------------------------------
(* asyncUpdateRepository, on goroutine w. *)
RunAt(w, stage) == run[w] # None /\ run[w].stage = stage

\* Mutant: a goroutine that fails ends without a report.
FinishSilently(w, err) ==
    SetRun(w, IF run[w].task = None \/ err THEN None
              ELSE [run[w] EXCEPT !.stage = "report", !.err = err])

\* A goroutine of SyncAllRepos has no status to report.
Finish(w, err) ==
    SetRun(w, IF run[w].task = None THEN None
              ELSE [run[w] EXCEPT !.stage = "report", !.err = err])

\* repoCRtoRepoEntry reads every object the CR refers to.
Resolve(w) ==
    /\ RunAt(w, "resolve")
    /\ run[w].todo # {}
    /\ LET k == First(run[w].todo) IN
         \/ /\ <<run[w].seen.display, k>> \in objs
            /\ SetRun(w, [run[w] EXCEPT !.todo = @ \ {k}])
         \/ /\ <<run[w].seen.display, k>> \notin objs \/ "api" \in Faults
            /\ Finish(w, TRUE)
    /\ UNCHANGED <<external, cache, tasks, job, fresh>>

\* LoadRepoIndex answers, before UpdateChartCache takes the cache's lock.
Load(w) ==
    /\ RunAt(w, "resolve")
    /\ run[w].todo = {}
    /\ \/ SetRun(w, [run[w] EXCEPT !.stage = "store"])
       \/ "load" \in Faults /\ Finish(w, TRUE)
    /\ UNCHANGED <<external, cache, tasks, job, fresh>>

\* Mutant: the index is stored under the CR's name.
StoreUnderCRName(w) ==
    /\ RunAt(w, "store")
    /\ cache' = [cache EXCEPT ![Lower[run[w].seen.display]] = run[w].seen.url]
    /\ SetRun(w, [run[w] EXCEPT !.stage = "patch"])
    /\ UNCHANGED <<external, tasks, job, fresh>>

Store(w) ==
    /\ RunAt(w, "store")
    /\ cache' = [cache EXCEPT ![run[w].seen.display] = run[w].seen.url]
    /\ SetRun(w, [run[w] EXCEPT !.stage = "patch"])
    /\ UNCHANGED <<external, tasks, job, fresh>>

\* The annotation has a resolution of a second: a patch within the second
\* of another changes nothing and leaves the resourceVersion as it is.
Patch(w) ==
    /\ RunAt(w, "patch")
    /\ LET c == Lower[run[w].seen.display] IN
         \/ /\ crs[c] # None
            /\ fresh' \in {fresh, StillFresh(c)}
            /\ Finish(w, FALSE) \/ ("api" \in Faults /\ Finish(w, TRUE))
         \/ /\ crs[c] = None \/ "api" \in Faults
            /\ fresh' = fresh
            /\ Finish(w, TRUE)
    /\ UNCHANGED <<external, cache, tasks, job>>

\* Mutant: the status is stored under the CR's name.
ReportUnderCRName(w) ==
    /\ RunAt(w, "report")
    /\ tasks' = [tasks EXCEPT ![Lower[run[w].task]] = "complete"]
    /\ SetRun(w, IF run[w].err THEN [run[w] EXCEPT !.stage = "amend"] ELSE None)
    /\ UNCHANGED <<external, cache, job, fresh>>

\* SyncRepo's goroutine stores "complete", and "failed" after it if an
\* error is waiting in errRepoList.
Report(w) ==
    /\ RunAt(w, "report")
    /\ tasks' = [tasks EXCEPT ![run[w].task] = "complete"]
    /\ SetRun(w, IF run[w].err THEN [run[w] EXCEPT !.stage = "amend"] ELSE None)
    /\ UNCHANGED <<external, cache, job, fresh>>

\* Mutant: a status that SyncRepo's switch does not know.
AmendUnknown(w) ==
    /\ RunAt(w, "amend")
    /\ tasks' = [tasks EXCEPT ![run[w].task] = "unknown"]
    /\ SetRun(w, None)
    /\ UNCHANGED <<external, cache, job, fresh>>

Amend(w) ==
    /\ RunAt(w, "amend")
    /\ tasks' = [tasks EXCEPT ![run[w].task] = "failed"]
    /\ SetRun(w, None)
    /\ UNCHANGED <<external, cache, job, fresh>>

-----------------------------------------------------------------------------
NoEntries == [n \in Names |-> None]
NoJobs == [r \in Requests |-> None]
NoRuns == [w \in Workers |-> None]

\* Mutant: the statuses survive the process.
RestartKeepingTasks ==
    /\ "restart" \in Ops
    /\ cache' = NoEntries
    /\ tasks' = tasks
    /\ job' = NoJobs
    /\ fresh' = {}
    /\ StartAll(NoRuns)
    /\ UNCHANGED external

\* The process dies and boots: nothing it kept in memory survives, and
\* BindMarketPlaceRoute synchronises every repository before it serves
\* requests.  It ignores a failure to list the CRs.
Restart ==
    /\ "restart" \in Ops
    /\ cache' = NoEntries
    /\ tasks' = NoEntries
    /\ job' = NoJobs
    /\ fresh' = {}
    /\ StartAll(NoRuns) \/ ("api" \in Faults /\ run' = NoRuns)
    /\ UNCHANGED external

BuiltinCR(b) == [display |-> b, url |-> BuiltinURL[b], refs |-> {}]

\* The installation has created the built-in repositories.
Installed ==
    [c \in CRNames |-> IF c \in Protected
                         THEN BuiltinCR(CHOOSE b \in Builtin : Lower[b] = c)
                         ELSE None]

\* The first boot, up to the goroutines of BindMarketPlaceRoute.
Init ==
    /\ crs = Installed
    /\ objs = {}
    /\ cache = NoEntries
    /\ tasks = NoEntries
    /\ job = NoJobs
    /\ fresh = {}
    /\ \E at \in Spread(NoRuns) : run = Started(at, NoRuns)

Handler(r) ==
    \/ PutObject(r) \/ DropObject(r) \/ DeleteObject(r) \/ WriteRefused(r)
    \/ CommitCreate(r) \/ CommitUpdate(r) \/ CommitDelete(r) \/ CommitRefused(r)
    \/ Publish(r) \/ ApiError(r)
    \/ ReadStatus(r) \/ \E w \in Workers : Claim(r, w)

Client(r) == CreateRepo(r) \/ UpdateRepo(r) \/ DeleteRepo(r) \/ SyncRepo(r)

Goroutine(w) == Resolve(w) \/ Load(w) \/ Store(w) \/ Patch(w) \/ Report(w) \/ Amend(w)

Step ==
    \/ \E r \in Requests : Client(r) \/ Handler(r)
    \/ \E w \in Workers : Goroutine(w)
    \/ SyncAllRepos

Next == Step \/ Restart

Spec == Init /\ [][Next]_vars

\* Go schedules every runnable goroutine, and every remote call returns.
FairSpec ==
    /\ Spec
    /\ \A r \in Requests : WF_vars(Handler(r))
    /\ \A w \in Workers : WF_vars(Goroutine(w))

-----------------------------------------------------------------------------
(* Properties *)

(***************************************************************************)
(* Every variable stays in the range its declaration in the code gives it. *)
(***************************************************************************)
TypeOK ==
    /\ crs \in [CRNames -> CR \cup {None}]
    /\ objs \subseteq Names \X Kinds
    /\ cache \in [Names -> URLs \cup {None}]
    /\ tasks \in [Names -> Statuses \cup {None}]
    /\ job \in [Requests -> Job \cup {None}]
    /\ fresh \subseteq Requests
    /\ run \in [Workers -> Run \cup {None}]

(***************************************************************************)
(* No update is lost and none brings a deleted repository back: an         *)
(* existing CR changes only by an update whose handler had read exactly    *)
(* the CR it overwrites, and then only in its address (updateRepoCR sends  *)
(* back the resourceVersion of getCustomRepoByName).                       *)
(***************************************************************************)
Overwritten(c, r) ==
    /\ AtStage(r, {"update"}, "write")
    /\ Target(r) = c
    /\ job[r].seen = crs[c]
    /\ crs'[c] = [crs[c] EXCEPT !.url = job[r].url]

NoLostUpdate ==
    [][\A c \in CRNames :
          crs[c] # None /\ crs'[c] \notin {None, crs[c]} => \E r \in Requests : Overwritten(c, r)
      ]_vars

(***************************************************************************)
(* What the service shows as a built-in repository is that repository: no  *)
(* spelling of its name lets a client delete, move or replace its CR, or   *)
(* have an index from another address cached under its display name.       *)
(***************************************************************************)
OfficialGenuine ==
    \A b \in Builtin :
        /\ crs[Lower[b]] = BuiltinCR(b)
        /\ cache[b] \in {None, BuiltinURL[b]}

(***************************************************************************)
(* A status "in_progress" is never left behind: some goroutine will still  *)
(* overwrite it, whatever fails, is deleted or restarted meanwhile.        *)
(* SyncRepo refuses every later sync of a name whose status is stuck.      *)
(***************************************************************************)
InProgressHasWorker ==
    \A n \in Names : tasks[n] = "in_progress" =>
        \E w \in Workers : run[w] # None /\ run[w].task = n /\ run[w].stage # "amend"

(***************************************************************************)
(* The CRs are a faithful registry (module RepoRegistry): handlers and     *)
(* goroutines that interleave, fail half-way or lose answers never make an *)
(* entry appear over another, change its name or credentials, or touch a   *)
(* built-in one.                                                           *)
(***************************************************************************)
Registry == INSTANCE RepoRegistry WITH registry <- crs, Entries <- CR

RegistrySpec == Registry!Spec

(***************************************************************************)
(* A repository can be reached with the credentials it names: unless it is *)
(* being updated or deleted, every object its CR refers to exists ("name   *)
(* is the metadata.name of the referenced secret", pkg/models/helm).       *)
(***************************************************************************)
BeingWritten(c) ==
    \E r \in Requests : AtStage(r, {"update", "delete"}, "write") /\ Target(r) = c

RefsResolve ==
    \A c \in CRNames : crs[c] # None /\ ~BeingWritten(c) =>
        \A k \in crs[c].refs : <<crs[c].display, k>> \in objs

(***************************************************************************)
(* When nothing is in flight, the index of a repository comes from the     *)
(* address that its CR names (a sync is there "to make sure the            *)
(* information is the latest", src/README.md:36).                          *)
(***************************************************************************)
Quiet == (\A r \in Requests : job[r] = None) /\ (\A w \in Workers : run[w] = None)

IndexCurrent ==
    Quiet => \A c \in CRNames : crs[c] # None => cache[crs[c].display] \in {None, crs[c].url}

(***************************************************************************)
(* A sync that was accepted ends: its status leaves "in_progress", so that *)
(* the repository can be synchronised again.                               *)
(***************************************************************************)
SyncsFinish == \A n \in Names : tasks[n] = "in_progress" ~> tasks[n] # "in_progress"

(***************************************************************************)
(* The charts of the built-in repositories are served from some moment     *)
(* after the boot on, whatever clients do (BindMarketPlaceRoute starts     *)
(* SyncAllRepos before it serves).                                         *)
(***************************************************************************)
BuiltinsServed == \A b \in Builtin : <>[](cache[b] = BuiltinURL[b])

-----------------------------------------------------------------------------
(***************************************************************************)
(* The strengthening that makes the safety properties inductive.           *)
(***************************************************************************)

\* What a handler carries is enough for the writes it has still to make.
Carries(j) ==
    /\ j.op \in {"create", "update"} => j.url \in URLs
    /\ j.op # "create" => j.seen \in CR
    /\ j.op = "sync" => j.stage \in {"status", "claim"}

JobsCarry == \A r \in Requests : job[r] # None => Carries(job[r])

\* Only a goroutine that SyncRepo started reports a status.
Reports(x) == x.stage \in {"report", "amend"} => x.task \in Names

RunsReport == \A w \in Workers : run[w] # None => Reports(run[w])

\* An update whose resourceVersion is current has an identical copy.
FreshCurrent ==
    \A r \in fresh :
        /\ AtStage(r, {"update"}, "write")
        /\ job[r].seen = crs[Target(r)]

\* A CR is named after its display name.
NamesMatch == \A c \in CRNames : crs[c] # None => Lower[crs[c].display] = c

\* A copy of a built-in repository's CR has the built-in address, and only
\* a handler for another repository gets as far as changing anything.
Genuine(cr) == \A b \in Builtin : cr.display = b => cr.url = BuiltinURL[b]

GenuineJob(j) ==
    /\ j.op = "sync" => Genuine(j.seen)
    /\ j.op \in {"update", "delete"} \/ j.stage = "publish" => Lower[j.name] \notin Protected

JobsGenuine == \A r \in Requests : job[r] # None => GenuineJob(job[r])

RunsGenuine == \A w \in Workers : run[w] # None => Genuine(run[w].seen)

Carried == TypeOK /\ JobsCarry /\ RunsReport

IInv ==
    /\ Carried
    /\ FreshCurrent
    /\ NamesMatch
    /\ OfficialGenuine
    /\ JobsGenuine
    /\ RunsGenuine
    /\ InProgressHasWorker
=============================================================================
