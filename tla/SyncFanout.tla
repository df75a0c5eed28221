----------------------------- MODULE SyncFanout -----------------------------
(***************************************************************************)
(* One call of SyncAllRepos (pkg/helm/repo.go): the handler starts one     *)
(* goroutine per repository and one that closes and drains errRepoList,    *)
(* the bounded channel on which failing goroutines report.  RepoService    *)
(* models what the goroutines do to the cache and the CRs; this module     *)
(* models how the batch ends.                                              *)
(***************************************************************************)
EXTENDS Naturals, FiniteSets

CONSTANTS
    Repos,      \* the repositories listCustomRepo returned
    Cap         \* the capacity of errRepoList

ASSUME CapAssumption == Cap \in Nat
ASSUME ReposAssumption == IsFiniteSet(Repos)

VARIABLES
    stage,      \* where the goroutine of each repository is
    failed,     \* repositories whose sync has failed
    errs,       \* the reports in errRepoList
    open,       \* errRepoList has not been closed
    logged,     \* reports the closing goroutine has logged
    closer      \* where the closing goroutine is

vars == <<stage, failed, errs, open, logged, closer>>

Init ==
    /\ stage = [r \in Repos |-> "unborn"]
    /\ failed = {}
    /\ errs = {}
    /\ open = TRUE
    /\ logged = {}
    /\ closer = "unborn"

To(r, s) == stage' = [stage EXCEPT ![r] = s]

\* The handler's loop, and the closing goroutine it starts last.
Launch(r) ==
    /\ stage[r] = "unborn"
    /\ To(r, "convert")
    /\ UNCHANGED <<failed, errs, open, logged, closer>>

LaunchCloser ==
    /\ closer = "unborn"
    /\ \A r \in Repos : stage[r] # "unborn"
    /\ closer' = "waiting"
    /\ UNCHANGED <<stage, failed, errs, open, logged>>

\* asyncUpdateRepository: each of its three calls may fail; a failure is
\* reported on errRepoList before the goroutine returns.
Succeed(r) ==
    /\ \/ stage[r] = "convert" /\ To(r, "update")
       \/ stage[r] = "update" /\ To(r, "patch")
       \/ stage[r] = "patch" /\ To(r, "done")
    /\ UNCHANGED <<failed, errs, open, logged, closer>>

Fail(r) ==
    /\ stage[r] \in {"convert", "update", "patch"}
    /\ To(r, "report")
    /\ failed' = failed \cup {r}
    /\ UNCHANGED <<errs, open, logged, closer>>

\* Mutant: the goroutine does not return after its report.
ReportForever(r) ==
    /\ stage[r] = "report"
    /\ Cardinality(errs) < Cap \/ r \in errs
    /\ errs' = errs \cup {r}
    /\ UNCHANGED <<stage, failed, open, logged, closer>>

\* A send blocks while the channel is full; returning calls wg.Done.
Report(r) ==
    /\ stage[r] = "report"
    /\ Cardinality(errs) < Cap
    /\ errs' = errs \cup {r}
    /\ To(r, "done")
    /\ UNCHANGED <<failed, open, logged, closer>>

\* Mutant: wg.Done before the report.
CloseEarly ==
    /\ closer = "waiting"
    /\ \A r \in Repos : stage[r] \in {"report", "done"}
    /\ open' = FALSE
    /\ closer' = "draining"
    /\ UNCHANGED <<stage, failed, errs, logged>>

Close ==
    /\ closer = "waiting"
    /\ \A r \in Repos : stage[r] = "done"
    /\ open' = FALSE
    /\ closer' = "draining"
    /\ UNCHANGED <<stage, failed, errs, logged>>

\* Mutant: the list is logged instead of its elements.
DrainAsOne ==
    /\ closer = "draining"
    /\ errs # {}
    /\ errs' = {}
    /\ logged' = logged \cup {errs}
    /\ UNCHANGED <<stage, failed, open, closer>>

Drain ==
    /\ closer = "draining"
    /\ \E r \in errs : errs' = errs \ {r} /\ logged' = logged \cup {r}
    /\ UNCHANGED <<stage, failed, open, closer>>

\* Mutant: the goroutine may end before the list is empty.
EndDrainEarly ==
    /\ closer = "draining"
    /\ closer' = "ended"
    /\ UNCHANGED <<stage, failed, errs, open, logged>>

EndDrain ==
    /\ closer = "draining"
    /\ errs = {}
    /\ closer' = "ended"
    /\ UNCHANGED <<stage, failed, errs, open, logged>>

Over == closer = "ended" /\ UNCHANGED vars

Goroutine(r) == Succeed(r) \/ Fail(r) \/ Report(r)

Closer == Close \/ Drain \/ EndDrain

Next ==
    \/ \E r \in Repos : Launch(r) \/ Goroutine(r)
    \/ LaunchCloser
    \/ Closer
    \/ Over

Spec == Init /\ [][Next]_vars

FairSpec ==
    /\ Spec
    /\ \A r \in Repos : WF_vars(Launch(r)) /\ WF_vars(Goroutine(r))
    /\ WF_vars(LaunchCloser)
    /\ WF_vars(Closer)

-----------------------------------------------------------------------------
Stages == {"unborn", "convert", "update", "patch", "report", "done"}

(* Every variable stays in its range, and the channel within its capacity. *)
TypeOK ==
    /\ stage \in [Repos -> Stages]
    /\ failed \subseteq Repos
    /\ errs \subseteq Repos
    /\ Cardinality(errs) <= Cap
    /\ open \in BOOLEAN
    /\ logged \subseteq Repos
    /\ closer \in {"unborn", "waiting", "draining", "ended"}

(***************************************************************************)
(* No goroutine reports on the closed channel, which would panic and end   *)
(* the process: the closing goroutine's wg.Wait covers every report.       *)
(***************************************************************************)
NoSendAfterClose == ~open => \A r \in Repos : stage[r] # "report"

(***************************************************************************)
(* While no more repositories have failed than errRepoList holds, no       *)
(* goroutine is stuck in its report: there is room for it.                 *)
(***************************************************************************)
Overflow == Cardinality(failed) > Cap

ReportsHaveRoom == ~Overflow => \A r \in Repos : stage[r] = "report" => Cardinality(errs) < Cap

(***************************************************************************)
(* One failure more, and the batch never ends: the closing goroutine reads *)
(* the list only after every goroutine has returned (repo.go:461), so that *)
(* it never closes it and never logs a failure.                            *)
(***************************************************************************)
OverflowHangs == Overflow => open /\ logged = {}

(***************************************************************************)
(* The batch is what BatchOutcome promises: no failure is lost on its way  *)
(* through the channel, none is logged that did not happen, and none       *)
(* before the last goroutine has settled.                                  *)
(***************************************************************************)
Outcome(r) ==
    IF r \in failed THEN "failed" ELSE IF stage[r] = "done" THEN "synced" ELSE "pending"

Batch == INSTANCE BatchOutcome WITH
    outcome <- [r \in Repos |-> Outcome(r)],
    over <- closer = "ended"

BatchSpec == Batch!Spec

(***************************************************************************)
(* A batch ends unless more of it fails than the list holds.               *)
(***************************************************************************)
BatchEnds == <>(closer = "ended" \/ Overflow)

(***************************************************************************)
(* The strengthening that makes the safety properties inductive: where     *)
(* the report of a failed goroutine is, and when the channel is closed.    *)
(***************************************************************************)
Accounted ==
    /\ \A r \in Repos : r \in failed <=> stage[r] = "report" \/ r \in errs \cup logged
    /\ \A r \in errs \cup logged : stage[r] = "done"
    /\ errs \cap logged = {}

ClosedLast ==
    /\ open <=> closer \in {"unborn", "waiting"}
    /\ closer \in {"draining", "ended"} => \A r \in Repos : stage[r] = "done"
    /\ closer \in {"unborn", "waiting"} => logged = {}
    /\ closer = "ended" => errs = {}

IInv == TypeOK /\ Accounted /\ ClosedLast
=============================================================================
