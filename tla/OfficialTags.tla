---------------------------- MODULE OfficialTags ----------------------------
(***************************************************************************)
(* The charts of the official repository that carry a tag (pkg/helm/       *)
(* charts.go, GetChartsWithOfficialTags).  For each tag a request asks     *)
(* Harbor for the tag's list with the bearer token all requests share,     *)
(* asks for a new token when that one is refused, synchronises the         *)
(* official repository on its own goroutine, and answers from the cache.   *)
(***************************************************************************)
EXTENDS Integers, Sequences

CONSTANTS
    Requests,     \* slots for requests in flight (bound on concurrency)
    Tags,         \* the tags clients ask for
    TagLists,     \* the lists of tags a request may carry
    Display,      \* the official repository's display name (configuration)
    Key,          \* the name its entry is looked up with (a literal)
    MaxRetries,   \* attempts for one tag
    MaxIndex,     \* bound on the indexes Harbor publishes
    Faults,       \* what may fail: "harbor", "token", "load", "api"
    None          \* absence of an index

ASSUME RetriesAssumption == MaxRetries \in Nat \ {0}
ASSUME IndexAssumption == MaxIndex \in Nat
ASSUME NoneAssumption == None \notin Int
ASSUME ListsAssumption == TagLists \subseteq Seq(Tags) \ {<<>>}

\* A token is accepted for the tag whose challenge it was asked with.
ASSUME TokenAssumption == Tags \cap {"empty", "expired", "garbled"} = {}

Indexes == 0 .. MaxIndex
Token == Tags \cup {"empty", "expired", "garbled"}

Stages == {"idle", "ask", "sent", "refresh", "assign", "exhausted",
           "load", "store", "patch", "list", "blocked"}

VARIABLES
    stage,      \* where each request is
    left,       \* the tags it has still to deal with, the present one first
    tries,      \* attempts that failed for the present tag
    held,       \* the token of its attempt, or the one it is about to store
    seen,       \* the index its synchronisation has loaded
    token,      \* officialHarborBearerToken
    published,  \* the index Harbor serves
    cache,      \* the official repository's entry in cachedData
    pending,    \* the index a background synchronisation is about to store
    calm,       \* history: nothing has disturbed the present tag's attempts
    floor       \* history: the oldest index the present tag's answer may show

request == <<stage, left, tries, held, seen>>
vars == <<stage, left, tries, held, seen, token, published, cache, pending, calm, floor>>

-----------------------------------------------------------------------------
At(r, s) == stage[r] = s

To(r, s) == stage' = [stage EXCEPT ![r] = s]

Tag(r) == Head(left[r])

\* The next tag of the list, or the answer to the client.
NextTag(r) ==
    /\ left' = [left EXCEPT ![r] = Tail(@)]
    /\ To(r, IF Tail(left[r]) = <<>> THEN "idle" ELSE "ask")
    /\ tries' = [tries EXCEPT ![r] = 0]
    /\ held' = [held EXCEPT ![r] = "empty"]
    /\ seen' = [seen EXCEPT ![r] = None]
    /\ calm' = [calm EXCEPT ![r] = TRUE]
    /\ floor' = [floor EXCEPT ![r] = 0]

\* Mutant: the loop allows one attempt more.
AttemptFailedLate(r) ==
    /\ tries' = [tries EXCEPT ![r] = @ + 1]
    /\ To(r, IF tries[r] = MaxRetries THEN "exhausted" ELSE "ask")
    /\ held' = [held EXCEPT ![r] = "empty"]
    /\ UNCHANGED <<left, seen, floor>>

\* Mutant: the loop does not count.
AttemptUncounted(r) ==
    /\ tries' = tries
    /\ To(r, "ask")
    /\ held' = [held EXCEPT ![r] = "empty"]
    /\ UNCHANGED <<left, seen, floor>>

\* An attempt without an answer: getChartWithOfficialTag's loop goes on.
AttemptFailed(r) ==
    /\ tries' = [tries EXCEPT ![r] = @ + 1]
    /\ To(r, IF tries[r] + 1 = MaxRetries THEN "exhausted" ELSE "ask")
    /\ held' = [held EXCEPT ![r] = "empty"]
    /\ UNCHANGED <<left, seen, floor>>

\* The history of a fault on r's way.
Disturbed(R) == calm' = [r \in Requests |-> calm[r] /\ r \notin R]

-----------------------------------------------------------------------------
Start(r) ==
    /\ At(r, "idle")
    /\ \E l \in TagLists : left' = [left EXCEPT ![r] = l]
    /\ To(r, "ask")
    /\ UNCHANGED <<tries, held, seen, token, published, cache, pending, calm, floor>>

\* getRepoEntryAndChartVersions: cachedData has an entry of this name.
Cached(name) == name = Display /\ cache # None

\* Requests that are assigning the token while another reads it.
Assigning(r) == {q \in Requests \ {r} : At(q, "assign")}

\* getOfficialTagWithToken up to the call: a token that is being assigned
\* may be read half-way.
Ask(r) ==
    /\ At(r, "ask")
    /\ Cached(Key)
    /\ \/ /\ held' = [held EXCEPT ![r] = token]
          /\ calm' = calm
       \/ /\ Assigning(r) # {}
          /\ held' = [held EXCEPT ![r] = "garbled"]
          /\ Disturbed({r})
    /\ To(r, "sent")
    /\ UNCHANGED <<left, tries, seen, token, published, cache, pending, floor>>

\* A half-read token that is no string at all ends the request.
AskPanics(r) ==
    /\ At(r, "ask")
    /\ Cached(Key)
    /\ Assigning(r) # {}
    /\ To(r, "idle")
    /\ left' = [left EXCEPT ![r] = <<>>]
    /\ tries' = [tries EXCEPT ![r] = 0]
    /\ calm' = [calm EXCEPT ![r] = TRUE]
    /\ UNCHANGED <<held, seen, token, published, cache, pending, floor>>

\* No entry, no CR or no credentials to make the call with.
AskUnknown(r) ==
    /\ At(r, "ask")
    /\ AttemptFailed(r)
    /\ \/ ~Cached(Key) /\ Disturbed(IF cache = None THEN {r} ELSE {})
       \/ "api" \in Faults /\ Disturbed({r})
    /\ UNCHANGED <<token, published, cache, pending>>

Accepts(r) == held[r] = Tag(r)

\* Harbor answers with the tag's list.
Listed(r) ==
    /\ At(r, "sent")
    /\ Accepts(r)
    /\ To(r, "load")
    /\ held' = [held EXCEPT ![r] = "empty"]
    /\ UNCHANGED <<left, tries, seen, token, published, cache, pending, calm, floor>>

\* 401 Unauthorized: TokenExpiredError.
Refused(r) ==
    /\ At(r, "sent")
    /\ ~Accepts(r)
    /\ To(r, "refresh")
    /\ UNCHANGED <<left, tries, held, seen, token, published, cache, pending, calm, floor>>

\* No answer, another status, or a body that is not the list.
AskFails(r) ==
    /\ "harbor" \in Faults
    /\ At(r, "sent")
    /\ AttemptFailed(r)
    /\ Disturbed({r})
    /\ UNCHANGED <<token, published, cache, pending>>

\* Mutant: the challenge of the first tag of the list is used for all.
RefreshAnyScope(r) ==
    /\ At(r, "refresh")
    /\ Cached(Key)
    /\ To(r, "assign")
    /\ \E t \in Tags : held' = [held EXCEPT ![r] = t]
    /\ calm' = calm
    /\ UNCHANGED <<left, tries, seen, token, published, cache, pending, floor>>

\* updateOfficialHarborBearerToken: a token for the scope of the challenge,
\* or an answer whose token field is no string, which becomes "".
Refresh(r) ==
    /\ At(r, "refresh")
    /\ Cached(Key)
    /\ To(r, "assign")
    /\ \/ held' = [held EXCEPT ![r] = Tag(r)] /\ calm' = calm
       \/ "token" \in Faults /\ held' = [held EXCEPT ![r] = "empty"] /\ Disturbed({r})
    /\ UNCHANGED <<left, tries, seen, token, published, cache, pending, floor>>

\* No challenge, no answer, or an answer without a token.
RefreshFails(r) ==
    /\ "token" \in Faults
    /\ At(r, "refresh")
    /\ AttemptFailed(r)
    /\ Disturbed({r})
    /\ UNCHANGED <<token, published, cache, pending>>

Assign(r) ==
    /\ At(r, "assign")
    /\ token' = held[r]
    /\ AttemptFailed(r)
    /\ Disturbed(Requests \ {r})
    /\ UNCHANGED <<published, cache, pending>>

\* An error for this tag: GetChartsWithOfficialTags logs it and goes on.
Skip(r) ==
    /\ \/ At(r, "exhausted")
       \/ At(r, "load") /\ "harbor" \in Faults     \* a name that does not decode
       \/ At(r, "load") /\ "api" \in Faults        \* getCustomRepoByName
       \/ At(r, "list") /\ "api" \in Faults        \* getLatestChartsByRepos
    /\ NextTag(r)
    /\ UNCHANGED <<token, published, cache, pending>>

-----------------------------------------------------------------------------
(* asyncUpdateRepository, called with a nil channel for its errors. *)

\* Indexes that have been loaded and not yet stored.
Underway == {seen[q] : q \in {q \in Requests : At(q, "store")}}
            \cup (IF pending = None THEN {} ELSE {pending})

Load(r) ==
    /\ At(r, "load")
    /\ seen' = [seen EXCEPT ![r] = published]
    /\ \E oldest \in Underway \cup {published} :
         /\ \A i \in Underway \cup {published} : oldest <= i
         /\ floor' = [floor EXCEPT ![r] = oldest]
    /\ To(r, "store")
    /\ UNCHANGED <<left, tries, held, token, published, cache, pending, calm>>

\* Mutant: an entry that is there is kept.
StoreIfMissing(r) ==
    /\ At(r, "store")
    /\ cache' = IF cache = None THEN seen[r] ELSE cache
    /\ seen' = [seen EXCEPT ![r] = None]
    /\ To(r, "patch")
    /\ UNCHANGED <<left, tries, held, token, published, pending, calm, floor>>

Store(r) ==
    /\ At(r, "store")
    /\ cache' = seen[r]
    /\ seen' = [seen EXCEPT ![r] = None]
    /\ To(r, "patch")
    /\ UNCHANGED <<left, tries, held, token, published, pending, calm, floor>>

Patch(r) ==
    /\ At(r, "patch")
    /\ To(r, "list")
    /\ UNCHANGED <<left, tries, held, seen, token, published, cache, pending, calm, floor>>

\* The report of a failure is a send on a nil channel, which never returns.
SyncFails(r) ==
    /\ \/ At(r, "load") /\ Faults \cap {"load", "api"} # {}
       \/ At(r, "patch") /\ "api" \in Faults
    /\ To(r, "blocked")
    /\ UNCHANGED <<left, tries, held, seen, token, published, cache, pending, calm, floor>>

\* filterOfficialChartWithTag reads the cache for the answer.
ListCharts(r) ==
    /\ At(r, "list")
    /\ NextTag(r)
    /\ UNCHANGED <<token, published, cache, pending>>

-----------------------------------------------------------------------------
(* Harbor, and the synchronisations of module RepoService. *)
PublishIndex ==
    /\ published < MaxIndex
    /\ published' = published + 1
    /\ UNCHANGED <<request, token, cache, pending, calm, floor>>

Aged(t) == IF t \in Tags THEN "expired" ELSE t

Expire ==
    /\ token \in Tags
    /\ token' = Aged(token)
    /\ held' = [r \in Requests |-> Aged(held[r])]
    /\ Disturbed(Requests)
    /\ UNCHANGED <<stage, left, tries, seen, published, cache, pending, floor>>

BackgroundLoad ==
    /\ pending = None
    /\ pending' = published
    /\ UNCHANGED <<request, token, published, cache, calm, floor>>

BackgroundStore ==
    /\ pending # None
    /\ cache' = pending
    /\ pending' = None
    /\ UNCHANGED <<request, token, published, calm, floor>>

Init ==
    /\ stage = [r \in Requests |-> "idle"]
    /\ left = [r \in Requests |-> <<>>]
    /\ tries = [r \in Requests |-> 0]
    /\ held = [r \in Requests |-> "empty"]
    /\ seen = [r \in Requests |-> None]
    /\ token = "empty"
    /\ published = 0
    /\ cache = None
    /\ pending = None
    /\ calm = [r \in Requests |-> TRUE]
    /\ floor = [r \in Requests |-> 0]

Handler(r) ==
    \/ Ask(r) \/ AskPanics(r) \/ AskUnknown(r) \/ Listed(r) \/ Refused(r) \/ AskFails(r)
    \/ Refresh(r) \/ RefreshFails(r) \/ Assign(r) \/ Skip(r)
    \/ Load(r) \/ Store(r) \/ Patch(r) \/ SyncFails(r) \/ ListCharts(r)

Next ==
    \/ \E r \in Requests : Start(r) \/ Handler(r)
    \/ PublishIndex
    \/ Expire
    \/ BackgroundLoad
    \/ BackgroundStore

Spec == Init /\ [][Next]_vars

\* Go schedules the handlers, and every remote call returns or fails.
FairSpec == Spec /\ \A r \in Requests : WF_vars(Handler(r))

-----------------------------------------------------------------------------
(* Every variable stays in the range its declaration in the code gives it. *)
TypeOK ==
    /\ stage \in [Requests -> Stages]
    /\ left \in [Requests -> Seq(Tags)]
    /\ tries \in [Requests -> 0 .. MaxRetries]
    /\ held \in [Requests -> Token]
    /\ seen \in [Requests -> Indexes \cup {None}]
    /\ token \in Token
    /\ published \in Indexes
    /\ cache \in Indexes \cup {None}
    /\ pending \in Indexes \cup {None}
    /\ calm \in [Requests -> BOOLEAN]
    /\ floor \in [Requests -> Indexes]

(***************************************************************************)
(* A tag is given up after MaxRetries attempts only when something was in  *)
(* the way: a fault, a token that expired, the official repository not yet *)
(* loaded, or another request that stored its own tag's token in between.  *)
(* One refusal and one refresh are otherwise enough, whatever token was    *)
(* left behind by earlier requests (getChartWithOfficialTag).              *)
(***************************************************************************)
LoneTagServed == \A r \in Requests : At(r, "exhausted") => ~calm[r]

(***************************************************************************)
(* What becomes of a tag hangs on one spelling.  Where the literal of      *)
(* charts.go:504 and 574 is the display name the official repository was   *)
(* installed with, LoneTagServed holds; where it is any other name, no     *)
(* attempt ever leaves the service: every tag ends without Harbor having   *)
(* been asked once, whatever the cache holds.                              *)
(***************************************************************************)
TagsFollowName ==
    IF Key = Display
    THEN LoneTagServed
    ELSE \A r \in Requests : stage[r] \in {"idle", "ask", "exhausted"}

(***************************************************************************)
(* The answer for a tag shows an index no older than its own               *)
(* synchronisation loaded, or than the oldest index that another           *)
(* synchronisation held, loaded and not yet stored, at that moment: such a *)
(* one may still overwrite a newer entry (UpdateChartCache loads outside   *)
(* the lock), but nothing older may.                                       *)
(***************************************************************************)
AnswerNotOlder ==
    \A r \in Requests : stage[r] \in {"patch", "list"} => cache # None /\ cache >= floor[r]

(***************************************************************************)
(* A request ends, unless a synchronisation it made has failed: then it    *)
(* never answers (asyncUpdateRepository reports on a nil channel).         *)
(* Neither retries nor requests that replace each other's token keep it    *)
(* from its end.                                                           *)
(***************************************************************************)
TagRequestsEnd == \A r \in Requests : ~At(r, "idle") ~> stage[r] \in {"idle", "blocked"}

-----------------------------------------------------------------------------
(***************************************************************************)
(* The strengthenings that make the safety properties inductive: a request *)
(* at work has a tag and an attempt left; what any synchronisation may     *)
(* still store is as new as the answers under way need it; and a request   *)
(* that nothing disturbed is refused at most once.                         *)
(***************************************************************************)
InLoop == {"ask", "sent", "refresh", "assign"}

AtWork == \A r \in Requests :
    /\ ~At(r, "idle") => left[r] # <<>>
    /\ At(r, "idle") => tries[r] = 0
    /\ stage[r] \in InLoop => tries[r] < MaxRetries
    /\ At(r, "store") => seen[r] # None

NewEnough(f) ==
    /\ f <= published
    /\ \A q \in Requests : At(q, "store") => f <= seen[q]
    /\ pending # None => f <= pending

Fresh ==
    /\ \A r \in Requests : At(r, "store") => seen[r] <= published
    /\ pending # None => pending <= published
    /\ \A r \in Requests : stage[r] \in {"store", "patch", "list"} => NewEnough(floor[r])

OneRefusal == \A r \in Requests : calm[r] =>
    /\ At(r, "ask") => tries[r] = 0 \/ (tries[r] = 1 /\ token = Tag(r))
    /\ At(r, "sent") => tries[r] = 0 \/ (tries[r] = 1 /\ held[r] = Tag(r))
    /\ At(r, "refresh") => tries[r] = 0
    /\ At(r, "assign") => tries[r] = 0 /\ held[r] = Tag(r)
    /\ ~At(r, "exhausted")

TInv == TypeOK /\ AtWork
AnswerInv == TInv /\ Fresh /\ AnswerNotOlder
TokenInv == TInv /\ OneRefusal
=============================================================================
