----------------------------- MODULE RepoMirror -----------------------------
(***************************************************************************)
(* What the chart cache owes the CRs, for every interleaving and every     *)
(* failure of RepoService.  Two history variables, which no step of the    *)
(* program reads and which restrict none, record whose cache writes the    *)
(* code can answer for: nothing keeps two operations about one repository  *)
(* apart, so an operation that overlapped another may leave any entry      *)
(* behind; one that had the repository to itself has to put it right.      *)
(***************************************************************************)
EXTENDS RepoService

VARIABLES
    mixed,     \* repositories whose current operations have overlapped
    vouched    \* entries that an operation without an overlap wrote last

history == <<mixed, vouched>>

\* The address that an entry under name n has to be loaded from.
Address(cr, n) == IF cr # None /\ cr.display = n THEN cr.url ELSE None

-----------------------------------------------------------------------------
(* The operations about repository c: handlers, and goroutines up to their *)
(* write to the cache.                                                     *)
Handles(r, c) == job[r] # None /\ Target(r) = c

Changes(r, c) == Handles(r, c) /\ job[r].op # "sync"

Loads(w, c) ==
    run[w] # None /\ run[w].stage \in {"resolve", "store"} /\ Lower[run[w].seen.display] = c

AtRest(c) == (\A r \in Requests : ~Handles(r, c)) /\ (\A w \in Workers : ~Loads(w, c))

\* A handler that changes c is not alone.
Crowded(c) ==
    \E r \in Requests :
        /\ Changes(r, c)
        /\ \/ \E q \in Requests \ {r} : Handles(q, c)
           \/ \E w \in Workers : Loads(w, c)

-----------------------------------------------------------------------------
(* The writes to the entry under n in this step. *)
Publishing(r, n) == AtStage(r, {"create", "update", "delete"}, "publish") /\ job[r].name = n

Publishes(r, n) == Publishing(r, n) /\ job'[r] = None

Stores(w, n) == RunAt(w, "store") /\ run[w].seen.display = n /\ run'[w] # run[w]

Writes(n) == (\E r \in Requests : Publishes(r, n)) \/ (\E w \in Workers : Stores(w, n))

\* An update spelled differently from the CR's display name writes an entry
\* beside the one it should.
Spelled(n) == \A r \in Requests : Publishes(r, n) /\ job[r].op = "update" => job[r].seen.display = n

\* The CR has not moved, or whoever moved it is about to write the entry.
Followed(n) ==
    \/ Address(crs'[Lower[n]], n) = Address(crs[Lower[n]], n)
    \/ \E r \in Requests : Publishing(r, n)'

Overlaps == mixed' = {c \in CRNames : Crowded(c)' \/ (c \in mixed /\ ~AtRest(c)')}

Vouches ==
    vouched' = {n \in Names : IF Writes(n) THEN Lower[n] \notin mixed /\ Spelled(n)
                                           ELSE n \in vouched /\ Followed(n)}

\* A process that has just booted has no entry, and nothing overlaps.
Unregistered == {n \in Names : Address(crs[Lower[n]], n) = None}

MirrorInit == Init /\ mixed = {} /\ vouched = Unregistered

MirrorNext ==
    \/ Step /\ Overlaps /\ Vouches
    \/ Restart /\ mixed' = {} /\ vouched' = Unregistered

MirrorSpec == MirrorInit /\ [][MirrorNext]_<<vars, history>>

-----------------------------------------------------------------------------
(***************************************************************************)
(* Whatever has overlapped, failed or been lost before, a handler or a     *)
(* synchronisation that has a repository to itself leaves exactly the      *)
(* entry its CR asks for: the index of the CR's address, and none for a    *)
(* repository that is gone ("make sure the information is the latest",     *)
(* src/README.md:36).  The entry stays right until the CR changes without  *)
(* it or an operation that overlapped another writes it.                   *)
(***************************************************************************)
CacheMirrorsCRs ==
    \A n \in vouched :
        \/ cache[n] = Address(crs[Lower[n]], n)
        \/ \E r \in Requests : Publishing(r, n)

-----------------------------------------------------------------------------
(***************************************************************************)
(* The strengthening that makes it inductive: a copy of the CR is current  *)
(* as long as the operation that carries it has overlapped no change.      *)
(***************************************************************************)
Current(j, cr) ==
    /\ j.op = "sync" => j.seen = cr
    /\ j.stage = "publish" /\ (j.op = "update" => j.seen.display = j.name) =>
         j.url = Address(cr, j.name)

JobsCurrent ==
    \A r \in Requests : job[r] # None /\ Target(r) \notin mixed =>
        Current(job[r], crs[Target(r)])

RunsCurrent ==
    \A c \in CRNames \ mixed, w \in Workers : Loads(w, c) => run[w].seen = crs[c]

\* A handler's copy is a copy of the CR that it is about.
JobsNamed ==
    \A r \in Requests : job[r] # None =>
        /\ job[r].seen # None => Lower[job[r].seen.display] = Target(r)
        /\ job[r].op = "delete" => job[r].url = None

MirrorInv ==
    /\ IInv
    /\ mixed \subseteq CRNames
    /\ \A c \in CRNames : Crowded(c) => c \in mixed
    /\ JobsNamed
    /\ JobsCurrent
    /\ RunsCurrent
    /\ CacheMirrorsCRs
=============================================================================
