# A TLA+ model of marketplace-service

marketplace-service keeps a list of Helm chart repositories for a Kubernetes
platform, caches the index of each, and answers queries about charts from the
cache. This directory holds TLA+ modules that model its state-changing parts,
TLC configurations that check them on small instances, and TLAPS proofs of the
properties that matter most for instances of any size.

## The system

| part | state | operations | interacts with |
|---|---|---|---|
| repository management (`pkg/helm/repo.go`, `pkg/utils/k8sutil`) | `HelmChartRepository` objects (CRs), two secrets and a config map for each, all in the API server | create, update, delete, get, list | API server, chart cache, index loading |
| chart cache (`pkg/helm/cache.go`) | one map in memory, from display name to index, under an RWMutex | set, update (load, then store), get, delete | written by handlers and by sync goroutines, read by queries |
| synchronisation (`repo.go`) | `repoAsyncTaskMap`, goroutines, `errRepoList` channels | sync one, sync all, status | chart cache, CRs (modification time) |
| local repository (`pkg/helm/charts.go`) | chart versions in the built-in Harbor | upload under a quota, delete a version or a chart, count | Harbor; asks for a sync of itself |
| official tags (`charts.go`) | one bearer token for the process | list charts by tag, refresh the token and retry | official Harbor, a sync with a nil error channel |
| chart queries (`charts.go`, `pkg/server/param`) | none of their own (but they sort cached slices in place) | latest charts, versions, files, filter, sort, page | chart cache, index and chart loading |
| index and chart loading (`pkg/helm/load.go`) | none | load an index, a chart, an OCI artefact | remote repositories; no timeout after the TLS handshake |
| HTTP interface (`pkg/api/marketplace/v1beta1`) | none | routes to the operations; at boot, `BindMarketPlaceRoute` runs `SyncAllRepos` | all of the above |
| gRPC chart server (`pkg/rpc`) | none | stream a chart in chunks of 16384 bytes | chart queries |
| configuration, server, clients, logging (`pkg/utils`, `pkg/server`, `pkg/client`, `pkg/zlog`, `cmd`) | none that matters here | parse, listen, construct, write | libraries |

**What is hard.** No operation on a repository is atomic. An update writes up to
three credential objects before the CR; a delete removes them before the CR and
the cache entry after it; a create checks for duplicates long before it
creates. Nothing serialises two handlers, or a handler and a goroutine that has
read a CR, loads its index for as long as the remote server takes and stores the
result under the CR's display name. The only protection is the API server's
`resourceVersion` and its refusal to create an object twice. Everything in memory
is lost with the process. `PROJECT.json` lists each hazard at its line with
the properties that cover it.

Requests share more than the cache's map: `GetChartCacheByRepo` hands out
the cached slices themselves, and a listing sorts them in place, without a lock,
while version queries and downloads iterate over them. All tag requests share
one bearer token, which is good for one tag, and retry three times.

**What makes each part correct.** Repository management: the list behaves like
a registry (`RepoRegistry`), no update is lost, built-in repositories cannot
be touched under any spelling, credentials that are referred to exist. Cache: whoever has a
repository to itself leaves the entry its CR asks for, and no index is lost but through a deletion.
Synchronisation: it ends,
its status ends with it, no failure is lost, no send on a closed channel. Local
repository: the quota holds. Queries: the pages are the list, an answer shows the
newest version and only what was in the cache. Tags: a tag alone is served, from
an index no older than those underway. Downloads: the client gets the archive, in
order, in bounded memory, and the download ends unless a peer stops for ever.

## The modules

| module | what it is |
|---|---|
| `RepoRegistry` | abstract: entries are added, moved to another address, removed; built-in ones never |
| `RepoService` | repository management, chart cache and synchronisation, one remote call or one access to shared memory at a step |
| `RepoMirror` | `RepoService` with two history variables: whose cache writes the code can answer for |
| `RepoServiceProofs` | the theorems of both |
| `MCRepoService`, `MCRepoMirror` | values of their constants for TLC |
| `BatchOutcome` | abstract: each repository settles once, then the failures are logged, then the batch is over |
| `SyncFanout` | one call of `SyncAllRepos`: goroutines, WaitGroup, bounded channel, closing goroutine |
| `SyncFanoutProofs`, `MCSyncFanout` | its theorems and instances |
| `LocalCharts` | uploads and deletions in the local repository, the quota, and the sync they ask for |
| `LocalChartsProofs`, `MCLocalCharts` | its theorems and instances |
| `OfficialTags` | tag requests: attempts, the shared bearer token, the sync with a nil channel, the answer |
| `OfficialTagsProofs`, `MCOfficialTags` | its theorems and instances |
| `ChartReads` | listings, version queries and downloads that read and sort one cached index, a sync that replaces it, a deletion that drops it |
| `ChartReadsProofs`, `MCChartReads` | its theorems and instance |
| `ChartStream` | one download: limited buffer, OCI pull, chunks to a gRPC client, files to an HTTP client |
| `ChartStreamProofs`, `MCChartStream` | its theorems and instance |
| `Pagination` | the arithmetic of pages in integers of bounded width (operators only) |
| `PaginationProofs` | its theorems |
| `ChartQueries` | a client that walks through the pages of a listing while the catalog changes; extends `Pagination` |
| `ChartQueriesProofs`, `MCChartQueries` | its theorems and instance |

Two modules compose others by their interface rather than by `INSTANCE`: `OfficialTags`
has `RepoService`'s synchronisations as `BackgroundLoad` and `BackgroundStore`,
and `ChartReads` ends a download where `ChartStream` begins.

### RepoService and the code

A handler is a record in `job`: the operation, the request (`name`, `url`,
`given`), the copy of the CR it has read (`seen`) and the credential objects it
has still to deal with (`todo`). A goroutine is a record in `run`.

| code | action |
|---|---|
| `CreateRepo` up to the index load: name check, list, duplicates | `CreateRepo` |
| `UpdateRepo` up to the index load: protection, CR read | `UpdateRepo` |
| `DeleteRepo` up to `deleteRepoCR`'s read of the CR | `DeleteRepo` |
| `createRepoCRBasicAuth`, `createRepoCRTLS`, `createRepoCRCA` | `PutObject`, `WriteRefused` |
| `updateRepoCRBasicAuth`, `updateRepoCRTLS`, `updateRepoCRCA` | `PutObject`, `DropObject`, `WriteRefused` |
| `deleteRepoCR`'s deletions, errors ignored | `DeleteObject` |
| `createRepoCR`, `updateRepoCR`, the end of `deleteRepoCR` | `CommitCreate`, `CommitUpdate`, `CommitDelete`, `CommitRefused` |
| `SetChartCache`, `DeleteChartCache` | `Publish` |
| a Kubernetes call that fails without effect | `ApiError` |
| `SyncRepo`: CR read, status read, status stored and goroutine started | `SyncRepo`, `ReadStatus`, `Claim` |
| `asyncUpdateRepository`: credentials, load, store, patch | `Resolve`, `Load`, `Store`, `Patch` |
| the end of `SyncRepo`'s goroutine | `Report`, `Amend` |
| `SyncAllRepos` | `SyncAllRepos` |
| the process dies; `BindMarketPlaceRoute` | `Restart` |

An index is represented by the address it was loaded from, an object by its name,
a secret's content not at all. The API server's `resourceVersion` is the set
`fresh`: the updates whose copy of the CR is still current. Writing back an
unchanged CR, and a second patch of the modification time in the same second,
leave the version as it is; the model has both outcomes where it cannot tell.
A request that is refused before its first write changes nothing and is a
stuttering step. A name with capitals is accepted for a CR (which lowercases it)
and refused for the objects (which do not), as the API server would.
Deletions hold only the read lock of the cache: the steps on the cache are
atomic in this module, and `ChartReads` has the lock. The built-in repositories are those of the
chart in this repository (`helm-chart-repository.cr.yaml`).

`RepoMirror` restricts none of this. `mixed` has the repositories about which a changing handler and
another handler, or a goroutine up to its write to the cache, have been at work at once, until nobody is
at work on them; `vouched` has the entries last written by an operation that was not one of these, or that
nobody has had to write since the boot. An update spelled differently from the CR's display name, or the deletion
of a repository whose display name has a capital, writes an entry beside the right one and vouches for nothing. `CacheMirrorsCRs` says that a vouched entry is what
the CR asks for. The other entries may hold anything, since nothing in the code keeps two operations about one
repository apart (`stale_index`), but the next operation that has the repository to itself repairs them.

### SyncFanout and LocalCharts

`SyncFanout` abstracts what a goroutine of `SyncAllRepos` does to "one of three
calls fails, or none" and keeps how the batch ends: sends block at the capacity,
`wg.Wait` waits for every goroutine, only then the channel is closed and drained.

`LocalCharts` keeps Harbor's set of versions, the cache entry of the local
repository, its status and the handlers in flight. The check and the upload are
two steps; `SyncRepo`, whose answer both handlers drop, is `ReadStatus` and
`Claim`; a goroutine loads what Harbor has and stores it in a later step, and a
failing patch of the modification time is a failing end of that step. Harbor is
external: it takes a chart or refuses it, deletes it or has nothing of that name.

### OfficialTags

| code | action |
|---|---|
| `GetChartsWithOfficialTags`, one tag after the other | `Start`, `NextTag` in `Skip` and `ListCharts` |
| `getOfficialTagWithToken`: token, cache and CR, then the call | `Ask`, `AskUnknown`, `AskPanics`; `Listed`, `Refused`, `AskFails` |
| `updateOfficialHarborBearerToken` | `Refresh`, `RefreshFails`, `Assign` |
| `getChartWithOfficialTag`'s three attempts | `AttemptFailed` |
| `asyncUpdateRepository(repository, nil)` on the handler's goroutine | `Load`, `Store`, `Patch`, `SyncFails` |
| `filterOfficialChartWithTag`'s listing | `ListCharts` |

A token is the tag whose scope it was asked for. The global string is assigned and
read without a lock: a reader beside an assignment may get a pointer with
another string's length (`garbled`), which Harbor refuses, or crash on it (`AskPanics`).
`calm` and `floor` are history variables. An index is its number in the
order in which Harbor published them.

### ChartReads

A request is a program counter and its locals (`job`). `GetChartCacheByRepo` is two
steps, entry into the lock and departure with the slice. `sort.Slice` on so few
entries is an insertion sort; a comparison, the two loads of a swap and each of its two
stores are steps of their own. `Widen` writes the union of the keywords into the first
entry, `Pick` reads the first entry again. A panic of an HTTP handler is caught by
`net/http`, one of a gRPC handler is not (`Die`), and Go ends a program that it
catches writing a map while another goroutine is inside (`MapRace`).

### ChartStream, Pagination and ChartQueries

A download is in one phase. `Copy` is one write of `io.Copy` to
`limitedBuffer`, of any piece the connection delivers; `Stall` is a server that
keeps the connection and sends nothing, `Hold` a client that keeps it and reads nothing; an OCI pull has no limit. Of what
`GetChartFiles` selects for an HTTP client only the answer or the refusal is kept. `Pagination` has Go's
truncating division and wrapping multiplication. In `ChartQueries` each page is a request that
lists the CRs, reads the cached index of one repository after the other, filters, sorts and pages;
equals come in any order. The history variable `since` holds what the filters described when the
walk began, until something is taken away. A chart is its name and the creation times and keywords
of its versions; characters are triples of class, lower case and code.

## Runs

Passing runs (distinct states with symmetry where the run has it):

| run | bounds | what it shows |
|---|---|---|
| `repo_edit` | 3 spellings of 2 names, 2 addresses, basic credentials, 2 handlers, 1 goroutine, failing calls and loads, syncs of all, restarts; 385k states | `OfficialGenuine`; `RegistrySpec`, the refinement of `RepoRegistry` |
| `repo_sync` | 1 name, 2 addresses, 2 handlers, 2 goroutines, failing calls and loads, syncs of all, restarts; 711k | `TypeOK`, `InProgressHasWorker`, `CacheMirrorsCRs`, `NoLostUpdate` |
| `repo_progress` | 3 spellings, TLS pairs, 1 handler, 2 goroutines, no fault, fairness; 276k | `SyncsFinish`, `BuiltinsServed` |
| `fanout` | 4 repositories, capacity 3, any of them failing, fairness; 3.8k | `TypeOK`, `NoSendAfterClose`, `ReportsHaveRoom`, `OverflowHangs`, `BatchSpec`, `BatchEnds` |
| `local_quota` | 4 versions of 2 charts, limit 1, 2 handlers, restarts, failing syncs, lost answers; 304k | `TypeOK`, `QuotaBound` |
| `official_tags` | 2 requests for lists of 2 tags, 3 attempts, 2 indexes, every fault, fairness; 383k | `TypeOK`, `TagsFollowName`, `AnswerNotOlder`, `TagRequestsEnd` |
| `chart_reads` | 3 versions, 2 requests at a time and 3 in all, 2 loads of an empty or a full index, oldest first, one deletion at a time; 4.8M | `TypeOK`, `ListedNewest`, `VersionsOfOneIndex`, `IndexKept` |
| `chart_download` | limit 5, chunks of 2, pieces of 1 to 3, archives of 0 to 8 bytes, fairness; 382 | `StreamTypeOK`, `DeliveredInOrder`, `BufferBounded`, `DownloadsEnd` |
| `chart_queries` | 2 repositories with 2 indexes each, 3 charts, 5-bit integers, 2 changes; 274k | `TypeOK`, `PagesCover`, `AdditionsHideNothing`, `AnswerCurrent`, `OnlyWrapPanics` |

`fanout` scales the code's capacity of 10 to 3: only how the number of failures
compares with it matters, and the run has both. It may deadlock where the
code does. `chart_reads` and `chart_queries` stop when their requests are used up.

The bounds are on concurrency (`Requests`, `Workers`, `Clients`) and on the data. Two
handlers and two goroutines are enough for every pairwise race, which is what the
hazards are; two addresses for an entry to be current or not; one name
and its spellings because operations on different names share only the checks of
`CreateRepo` and the built-in names, and `repo_edit` has two names. Three
versions are enough for a sort whose swap another reader sees half-done beside
an element it does not touch. Five-bit integers let products wrap within the
pages and limits of the instance. The theorems remove the bounds for every safety
property of the runs.

Three violation runs show where the code does less than its comments, documents or tests say:

| run | what goes wrong |
|---|---|
| `dangling_reference` | an update without credentials deletes the secret and keeps the CR's reference to it |
| `stale_index` | a sync that has read the CR is overtaken by an update: it stores the index of the address the repository has left, reports success, and that index stays |
| `official_key` | the official repository is looked up as "openfuyao", whatever its display name: with that of the chart in this repository, "openFuyao", no tag is ever served |

`official_key` has the names of the shipped chart. `official_tags` has equal names, since with different ones no
request gets past its first stage; `TagsFollowName` states both cases and its theorem proves them for any two
names. `PROJECT.json` quotes the lines.

`repo_sync` checks `CacheMirrorsCRs` with one spelling of one name, since two spellings with explicit syncs are
beyond a run of minutes; `AloneMirrors` proves it for any.

### What the models also show

States that a reader should know of, and that no run reports as a violation:

- *Repositories.* The entry of a deleted repository stays if its
  display name has a capital, since the deletion uses the CR's name, or if a sync outlives the delete; a delete
  that reaches the cache after its name was added again takes the new entry; an update that fails
  after its first object leaves new credentials at the old address; a delete whose objects go between those of a new
  create and its CR leaves that CR with a dangling reference, even if nobody updates;
  two requests that read the status before either stores it start two syncs of one repository. A secret left behind by an
  update keeps its name from being added again with basic credentials: `CreateSecret`'s
  failure has replaced the secret by nil when the AlreadyExists branch passes it on
  (`repo.go:701`).
- *Batch.* With more failures than `errRepoList` holds, its goroutines and the
  closing goroutine are leaked and nothing is logged (`OverflowHangs`).
- *Local repository.* The comparison with the limit lets one version more pass, even
  for one client. An upload that ends while a sync has loaded the index but not stored
  it is not served until the next sync.
- *Tags.* Two requests for different tags can take the token from each other until
  both give up; an answer whose token is no string blanks the token; a failing sync
  blocks the request for ever in its send on the nil channel (stage `blocked`, which
  `TagRequestsEnd` allows).
- *Reads.* Two listings that sort one slice at once can overwrite a version by a copy
  of another, which is then missing until the next sync: `ListedNewest` and
  `VersionsOfOneIndex` exclude such an index (`shared`). A version query beside a
  listing may miss or repeat a version (`alone`). Two deletes, or a delete and a reader,
  may end the process; so does a gRPC download of an entry without a URL. These are the two exceptions
  that `IndexKept` names.
- *Downloads.* A client that stays and reads nothing, and a repository that stays and sends nothing, each
  hold the handler and its buffer for as long as they like.
- *Pages.* "Out of range, restart from page one" (`queryparam.go:116`) is not done for an
  offset equal to the total, where the page is empty, and `CurrentPage` keeps the
  number asked for. Charts of one name in two repositories are ordered anew on each
  page, so that a client may miss one. A repository named twice in a request is listed
  twice. A chart or a repository that is taken away during a walk moves the charts behind it
  forward, past a client that has seen that page: `AdditionsHideNothing` is about additions only,
  and TLC finds it violated when `since` is kept over a removal. The search for repositories lowers the text but not the names.

**Fairness.** `FairSpec` is weak fairness of each handler and each goroutine
once it is started: Go schedules every runnable goroutine, and a remote call
is assumed to return. Clients are not fair: nobody need send a request.
`Claim` needs an idle slot, and slots become idle, since goroutines end.
`OfficialTags` is fair to each handler as a whole, not to any outcome of a call.
`ChartStream` does not assume that a repository goes on sending (`LoadData` has no timeout
after the handshake) nor that a client goes on reading (`server.go:159` creates the gRPC server without
deadline or keepalive, `server.go:75` the HTTP server without a write timeout): `Resume` and `Release` are not fair, and
`DownloadsEnd` allows for a peer that stops for ever. `Progress` is strongly fair, which is about peers that stop and go on
without end: one that goes on has sent a piece, or made room for a chunk, and the handler takes it. Runs with
liveness use no symmetry.

**Mutants.** Beside some operators stands a mutated form, named in a
comment "Mutant": the way a plausible slip in that code would change it.
Replacing the operator by it breaks the property `PROJECT.json` pairs it with.

## Proofs

For all values of the constants that satisfy the named assumptions of each module
(`Lower` is idempotent, built-in names differ in more than case, `None` is none of
the values, limits are natural numbers, sets of slots or repositories are finite):

- `RepoServiceProofs`: `TypeCorrect`, `OfficialStaysGenuine`, `SyncsAreBacked`,
  `UpdatesAreNotLost`, `ImplementsRegistry`. They follow from one inductive invariant,
  `IInv`. `OfficialGenuine` needs what handlers and goroutines in flight carry
  (`JobsGenuine`, `RunsGenuine`: a copy of a built-in CR has the built-in address,
  and no handler that changes anything is about a protected name) and that a CR
  is named after its display name (`NamesMatch`). `NoLostUpdate` needs
  `FreshCurrent`: an update whose `resourceVersion` is current has an identical
  copy. `InProgressHasWorker` needs that only goroutines with a status key report
  (`RunsReport`). Each action has its own lemma for each group of conjuncts. The
  refinement maps each `Commit` to `Add`, `Move` or `Remove`, and every other
  step to a stutter; `Protected` never changes because of `JobsGenuine`.
- `SyncFanoutProofs`: `NeverSendsAfterClose` and `ImplementsBatch` for any number of
  repositories and any capacity, so that even a batch that hangs logs nothing wrong;
  `FanoutTypes`; `EnoughRoom` while the failures fit in the channel, and
  `OverflowIsFinal` when they do not. The invariant says where each report is
  (`Accounted`) and when the channel is closed (`ClosedLast`).
- `LocalChartsProofs`: `TypeCorrect`; `QuotaHolds` if no count is garbled. The
  invariant `Reserved` counts an upload that has passed its check as if Harbor had
  its version already.

- `OfficialTagsProofs`: `TagTypes`; `AnswersNotOlder`, whose invariant `Fresh` says that no
  index that may still be stored is older than the floor of a request that has loaded its own;
  `TagsServedByName` for `MaxRetries >= 2` and any two names: if they agree, a request that nothing has
  disturbed is refused at most once (`OneRefusal`), since its next attempt has its own token; if not, none leaves
  its loop (`Unserved`).
- `ChartStreamProofs`: `StreamTypes`, `ChunksInOrder`, `BufferWithinLimit`, for any archive,
  limit, chunk size and pieces. The invariant `Accounted` says that what is received, buffered and
  still to be read make up the archive, and that `written` is the length of the buffer.
- `RepoServiceProofs` again, of `RepoMirror`: `AloneMirrors` is `CacheMirrorsCRs` for any number of handlers and
  goroutines, any spelling of names, every failure and every restart. The invariant `MirrorInv` adds to `IInv` that
  `mixed` has every repository on which work overlaps, and that a handler or goroutine outside `mixed` knows
  the CR: its copy is the CR, and what it is about to publish is what the CR asks for (`JobsCurrent`, `RunsCurrent`).
  `MirrorIsSpec` says that the history variables add no behaviour.
- `ChartReadsProofs`: `TypeCorrect`, `IndexesStay`, `LatestIsNewest`, `OneIndexAnswered`, for any
  requests, versions and orders in which an index lists them, and any number of loads. They
  need where each goroutine can be and its counters (`Places`), that nothing gets into an index that it
  did not come with (`Contained`), that the histories `alone` and `shared` tell of every listing
  on another one's index (`Exclusive`), and the loop invariant of the sort. The last is stated of the
  slice as it will be when the writes in hand are made (`SortInv`): each version once, and in order up to
  the place in hand. So the two stores of a swap, in either order, change nothing that it says. An
  index that nobody sorts is whole (`RestWhole`), and a reader has what it asks for of the entries
  it has passed (`Gathers`). Two listings on one slice are excluded by the properties themselves:
  there the code does lose versions.
- `PaginationProofs`: `WindowInList` for lists of at most half as many elements as the
  largest integer, and any page and limit whose product does not wrap; `OnePageEach`, that the
  pages partition the list.
- `ChartQueriesProofs`: `WalkTypes`, `PagesCurrent`, `PanicsOnlyOnWrap`, `WalksSeeAll` and `AdditionsKeepWalk`, for any
  requests, catalogs, first pages and width of the integers, if indexes are finite sets of their own repository's
  charts and no list reaches half the largest integer (`SizesAssumption`). `QueryInv` bounds the list
  a request gathers by what it has still to read (`ListFits`), which is what lets `WindowInList` be applied.
  `WalkInv`, for a walk that nothing disturbs, says that the request has or will read each chart once
  (`Gathering`) and that the pages so far are a beginning of the sorted list (`Walking`). Each page
  is sorted anew, so the proof needs that there is only one sorted list: the place of an element in it
  is the number of elements before it (`PlaceCounts`), unless the order leaves two open (`Ties`).
  Nothing is assumed of the order, not even that it is transitive. Beside additions there is no one list
  that the pages are pieces of. `GrowInv` counts instead: each chart of `since` that the client has not seen
  has at least a whole number of pages of others before it (`Ahead`), in what is expected between
  pages, and in what is read and still to be read within one (`Gathered`). Additions only raise that number
  (`AheadGrows`), and a page shows the elements whose number falls into it (`PageAhead`).

All invariants of the passing runs, and both refinements, are thus proved. Only model-checked: the
liveness properties (`SyncsFinish`, `BuiltinsServed`, `BatchEnds`, `TagRequestsEnd`, `DownloadsEnd`),
which are beyond the prover. What the strings are made of (`Within`, `Lower`, `customCompare`) is
left unexpanded by every proof and evaluated by TLC.

## Not modelled

- *Credentials' content.* An object is its name. The certificate and the key are passed in the opposite
  order of the parameters both when written and when read back, and the two cancel each other.
- *Torn reads.* A slice header that is read half-written is not modelled, except for the bearer
  token; nor is the order in which a weak memory shows the stores of a sort.
- *HTTP interface.* Bodies, path parameters and their escaping: pure functions of a
  request, which the modules take as already valid.
- *Configuration and upload checks.* Parsing of the config map, of tags and of archives: pure functions of
  library formats. Their verdicts are outcomes in `LocalCharts` and `ChartStream`.
- *Release conversion helpers.* Conversions of Helm release objects; nothing keeps their result.
- *Server, Kubernetes and HTTP clients, logging, generated gRPC code.* Library calls,
  construction and formatting, with no state that any property is about.
