------------------------- MODULE RepoServiceProofs -------------------------
(***************************************************************************)
(* Theorems about RepoService, for any names, addresses, built-in          *)
(* repositories, offers of credentials, number of handlers and goroutines  *)
(* in flight, operations and faults.                                       *)
(***************************************************************************)
EXTENDS RepoMirror, TLAPS

-----------------------------------------------------------------------------
(* The values that handlers and goroutines are built from. *)

LEMMA LowerTyped == \A n \in Names : Lower[n] \in CRNames /\ Lower[n] \in Names
  BY LowerAssumption DEF CRNames

LEMMA CRNamesAreLower == \A c \in CRNames : c \in Names /\ Lower[c] = c
  BY LowerAssumption DEF CRNames

LEMMA FirstIn == \A S \in SUBSET Kinds : S # {} => First(S) \in S /\ First(S) \in Kinds
  BY DEF First, Kinds

LEMMA NewJobTyped ==
  ASSUME NEW op \in {"create", "update", "delete", "sync"}, NEW n \in Names,
         NEW u \in URLs \cup {None}, NEW g \in Offers \cup {NoOffer}, NEW cr \in CR \cup {None}
  PROVE  NewJob(op, n, u, g, cr) \in Job
<1>1. Refs(cr) \subseteq Kinds
  BY DEF Refs, CR
<1>2. Wanted(g) \subseteq Kinds
  BY DEF Wanted
<1> QED
  BY <1>1, <1>2 DEF NewJob, Job

LEMMA NewRunTyped ==
  ASSUME NEW cr \in CR, NEW t \in Names \cup {None}
  PROVE  NewRun(cr, t) \in Run
  BY DEF NewRun, Run, CR

LEMMA NewCRTyped ==
  ASSUME NEW j \in Job, j.url \in URLs
  PROVE  NewCR(j) \in CR
  BY DEF NewCR, CR, Job, Wanted

LEMMA JobTyped ==
  ASSUME NEW j \in Job, Carries(j)
  PROVE  /\ \A k \in Kinds : LET i == [j EXCEPT !.todo = @ \ {k}]
                            IN  i \in Job /\ Carries(i)
         /\ j.op # "sync" => LET i == [j EXCEPT !.stage = "publish"]
                            IN  i \in Job /\ Carries(i)
         /\ j.op = "sync" => LET i == [j EXCEPT !.stage = "claim"]
                            IN  i \in Job /\ Carries(i)
  BY DEF Job, Carries

LEMMA RunTyped ==
  ASSUME NEW x \in Run
  PROVE  /\ \A s \in {"store", "patch"} : LET y == [x EXCEPT !.stage = s]
                                         IN  y \in Run /\ Reports(y)
         /\ x.stage = "resolve" => \A k \in Kinds :
                LET y == [x EXCEPT !.todo = @ \ {k}] IN y \in Run /\ Reports(y)
         /\ x.task # None => \A e \in BOOLEAN :
                LET y == [x EXCEPT !.stage = "report", !.err = e] IN y \in Run /\ Reports(y)
         /\ x.task # None => LET y == [x EXCEPT !.stage = "amend"] IN y \in Run /\ Reports(y)
  BY DEF Run, Reports

\* None is not a record of any of these sets.
LEMMA Distinct == None \notin CR /\ None \notin Names /\ None \notin URLs
  BY NoneAssumption

LEMMA NoneNoRecord == None \notin Job /\ None \notin Run /\ None # "in_progress"
  BY NoneAssumption DEF Statuses

-----------------------------------------------------------------------------
(* What the handlers and goroutines carry is well typed. *)

LEMMA CarriedInit == Init => Carried
<1> SUFFICES ASSUME Init PROVE Carried
  OBVIOUS
<1>1. \A b \in Builtin : BuiltinCR(b) \in CR
  BY BuiltinAssumption DEF BuiltinCR, CR
<1>2. crs \in [CRNames -> CR \cup {None}]
  BY <1>1 DEF Init, Installed, Protected
<1>3. run \in [Workers -> Run \cup {None}]
  <2>1. PICK at \in Spread(NoRuns) : run = Started(at, NoRuns)
    BY DEF Init
  <2>2. \A w \in Workers : at[w] # None => NewRun(crs[at[w]], None) \in Run
    BY <1>2, <2>1, NewRunTyped DEF Spread
  <2> QED
    BY <2>1, <2>2 DEF Started, NoRuns
<1>4. TypeOK
  BY <1>2, <1>3 DEF Init, TypeOK, NoEntries, NoJobs
<1>5. JobsCarry
  BY DEF Init, JobsCarry, NoJobs
<1>6. RunsReport
  BY DEF Init, RunsReport, Reports, Started, NoRuns, NewRun
<1> QED
  BY <1>4, <1>5, <1>6 DEF Carried

LEMMA SetJobCarries ==
  ASSUME Carried, NEW r \in Requests, NEW j \in Job \cup {None}, j # None => Carries(j),
         SetJob(r, j)
  PROVE  job' \in [Requests -> Job \cup {None}] /\ JobsCarry'
  BY DEF Carried, TypeOK, JobsCarry, SetJob

LEMMA SetRunReports ==
  ASSUME Carried, NEW w \in Workers, NEW x \in Run \cup {None}, x # None => Reports(x),
         SetRun(w, x)
  PROVE  run' \in [Workers -> Run \cup {None}] /\ RunsReport'
  BY DEF Carried, TypeOK, RunsReport, SetRun

\* A handler that goes on, whether or not its client learns of it.
LEMMA AnsweredCarries ==
  ASSUME Carried, NEW r \in Requests, NEW j \in Job, Carries(j), Answered(r, j)
  PROVE  job' \in [Requests -> Job \cup {None}] /\ JobsCarry' /\ fresh' \subseteq Requests
<1>1. CASE SetJob(r, j) /\ fresh' = fresh
  BY <1>1, SetJobCarries DEF Carried, TypeOK
<1>2. CASE End(r)
  BY <1>2, SetJobCarries DEF Carried, TypeOK, End
<1> QED
  BY <1>1, <1>2 DEF Answered

LEMMA EndCarries ==
  ASSUME Carried, NEW r \in Requests, End(r)
  PROVE  job' \in [Requests -> Job \cup {None}] /\ JobsCarry' /\ fresh' \subseteq Requests
BY SetJobCarries DEF Carried, TypeOK, End

LEMMA FinishReports ==
  ASSUME Carried, NEW w \in Workers, run[w] # None, NEW e \in BOOLEAN, Finish(w, e)
  PROVE  run' \in [Workers -> Run \cup {None}] /\ RunsReport'
<1> DEFINE x == IF run[w].task = None THEN None
                ELSE [run[w] EXCEPT !.stage = "report", !.err = e]
<1>1. run[w] \in Run
  BY DEF Carried, TypeOK
<1>2. x \in Run \cup {None} /\ (x # None => Reports(x))
  BY <1>1, RunTyped
<1>3. SetRun(w, x)
  BY DEF Finish
<1> QED
  BY <1>2, <1>3, SetRunReports

LEMMA StartAllReports ==
  ASSUME Carried, NEW rs \in [Workers -> Run \cup {None}],
         \A w \in Workers : rs[w] # None => Reports(rs[w]), StartAll(rs)
  PROVE  run' \in [Workers -> Run \cup {None}] /\ RunsReport'
<1>1. PICK at \in Spread(rs) : run' = Started(at, rs)
  BY DEF StartAll
<1>2. \A w \in Workers : at[w] # None =>
         NewRun(crs[at[w]], None) \in Run /\ Reports(NewRun(crs[at[w]], None))
  <2> SUFFICES ASSUME NEW w \in Workers, at[w] # None
               PROVE  crs[at[w]] \in CR
    BY NewRunTyped DEF Reports, NewRun
  <2> QED
    BY <1>1 DEF Spread, Carried, TypeOK
<1> QED
  BY <1>1, <1>2 DEF Started, RunsReport

LEMMA CarriedStep == Carried /\ [Next]_vars => Carried'
<1> SUFFICES ASSUME Carried, [Next]_vars PROVE Carried'
  OBVIOUS
<1>a. /\ crs \in [CRNames -> CR \cup {None}]
      /\ objs \subseteq Names \X Kinds
      /\ cache \in [Names -> URLs \cup {None}]
      /\ tasks \in [Names -> Statuses \cup {None}]
      /\ job \in [Requests -> Job \cup {None}]
      /\ fresh \subseteq Requests
      /\ run \in [Workers -> Run \cup {None}]
      /\ JobsCarry
      /\ RunsReport
  BY DEF Carried, TypeOK
<1>b. \A r \in Requests : job[r] # None => job[r] \in Job /\ Carries(job[r])
  BY <1>a DEF JobsCarry
<1>c. \A w \in Workers : run[w] # None => run[w] \in Run /\ Reports(run[w])
  BY <1>a DEF RunsReport
<1>d. \A r \in Requests : job[r] # None => Target(r) \in CRNames /\ job[r].name \in Names
  BY <1>b, LowerTyped DEF Target, Job
\* It is enough to look at the variables one at a time.
<1>e. ASSUME crs' \in [CRNames -> CR \cup {None}],
             objs' \subseteq Names \X Kinds,
             cache' \in [Names -> URLs \cup {None}],
             tasks' \in [Names -> Statuses \cup {None}],
             job' \in [Requests -> Job \cup {None}] /\ JobsCarry',
             fresh' \subseteq Requests,
             run' \in [Workers -> Run \cup {None}] /\ RunsReport'
      PROVE  Carried'
  BY <1>e DEF Carried, TypeOK
<1>f. ASSUME run' = run PROVE RunsReport'
  BY <1>a, <1>f DEF RunsReport
<1>g. ASSUME job' = job PROVE JobsCarry'
  BY <1>a, <1>g DEF JobsCarry
<1>1. ASSUME NEW r \in Requests, CreateRepo(r) PROVE Carried'
  <2>1. \E j \in Job : Carries(j) /\ SetJob(r, j)
    BY <1>1, <1>a, NewJobTyped DEF CreateRepo, Begin, NewJob, Carries
  <2>2. job' \in [Requests -> Job \cup {None}] /\ JobsCarry'
    BY <2>1, SetJobCarries
  <2> QED
    BY <1>1, <1>a, <1>e, <1>f, <2>2 DEF CreateRepo, external, local
<1>2. ASSUME NEW r \in Requests, UpdateRepo(r) PROVE Carried'
  <2>1. \E j \in Job : Carries(j) /\ SetJob(r, j)
    BY <1>2, <1>a, NewJobTyped, LowerTyped DEF UpdateRepo, Begin, NewJob, Carries
  <2>2. job' \in [Requests -> Job \cup {None}] /\ JobsCarry'
    BY <2>1, SetJobCarries
  <2> QED
    BY <1>2, <1>a, <1>e, <1>f, <2>2 DEF UpdateRepo, external, local
<1>3. ASSUME NEW r \in Requests, DeleteRepo(r) PROVE Carried'
  <2>1. \E j \in Job : Carries(j) /\ SetJob(r, j)
    BY <1>3, <1>a, NewJobTyped, CRNamesAreLower DEF DeleteRepo, Begin, NewJob, Carries
  <2>2. job' \in [Requests -> Job \cup {None}] /\ JobsCarry'
    BY <2>1, SetJobCarries
  <2> QED
    BY <1>3, <1>a, <1>e, <1>f, <2>2 DEF DeleteRepo, external, local
<1>4. ASSUME NEW r \in Requests, SyncRepo(r) PROVE Carried'
  <2>1. \E j \in Job : Carries(j) /\ SetJob(r, j)
    BY <1>4, <1>a, NewJobTyped, LowerTyped DEF SyncRepo, Begin, NewJob, Carries
  <2>2. job' \in [Requests -> Job \cup {None}] /\ JobsCarry'
    BY <2>1, SetJobCarries
  <2> QED
    BY <1>4, <1>a, <1>e, <1>f, <2>2 DEF SyncRepo, external, local
<1>5. ASSUME NEW r \in Requests, PutObject(r) PROVE Carried'
  <2>1. PICK k \in Kinds : Turn(r, {"create", "update"}, k) /\ Answered(r, Past(r, k))
    BY <1>5 DEF PutObject, Turn, AtStage
  <2>2. Past(r, k) \in Job /\ Carries(Past(r, k))
    BY <1>b, <2>1, JobTyped DEF Past, Turn, AtStage
  <2>3. job' \in [Requests -> Job \cup {None}] /\ JobsCarry' /\ fresh' \subseteq Requests
    BY <2>1, <2>2, AnsweredCarries
  <2>4. objs' \subseteq Names \X Kinds
    BY <1>5, <1>a, <1>d DEF PutObject, Turn, AtStage
  <2> QED
    BY <1>5, <1>a, <1>e, <1>f, <2>3, <2>4 DEF PutObject, local
<1>6. ASSUME NEW r \in Requests, DropObject(r) PROVE Carried'
  <2>1. PICK k \in Kinds : Turn(r, {"update"}, k) /\ Answered(r, Past(r, k))
    BY <1>6 DEF DropObject, Turn, AtStage
  <2>2. Past(r, k) \in Job /\ Carries(Past(r, k))
    BY <1>b, <2>1, JobTyped DEF Past, Turn, AtStage
  <2>3. job' \in [Requests -> Job \cup {None}] /\ JobsCarry' /\ fresh' \subseteq Requests
    BY <2>1, <2>2, AnsweredCarries
  <2>4. objs' \subseteq Names \X Kinds
    BY <1>6, <1>a, <1>d DEF DropObject, Turn, AtStage
  <2> QED
    BY <1>6, <1>a, <1>e, <1>f, <2>3, <2>4 DEF DropObject, local
<1>7. ASSUME NEW r \in Requests, DeleteObject(r) PROVE Carried'
  <2>1. PICK k \in Kinds : Turn(r, {"delete"}, k) /\ SetJob(r, Past(r, k))
    BY <1>7 DEF DeleteObject
  <2>2. Past(r, k) \in Job /\ Carries(Past(r, k))
    BY <1>b, <2>1, JobTyped DEF Past, Turn, AtStage
  <2>3. job' \in [Requests -> Job \cup {None}] /\ JobsCarry'
    BY <2>1, <2>2, SetJobCarries
  <2>4. objs' \subseteq Names \X Kinds
    BY <1>7, <1>a DEF DeleteObject
  <2> QED
    BY <1>7, <1>a, <1>e, <1>f, <2>3, <2>4 DEF DeleteObject, local
<1>8. ASSUME NEW r \in Requests, WriteRefused(r) PROVE Carried'
  <2>1. End(r) /\ UNCHANGED <<external, local>>
    BY <1>8 DEF WriteRefused
  <2> QED
    BY <1>a, <1>e, <1>f, <2>1, EndCarries DEF external, local
<1>9. ASSUME NEW r \in Requests, CommitCreate(r) PROVE Carried'
  <2>1. job[r] \in Job /\ Carries(job[r]) /\ job[r].op = "create" /\ Target(r) \in CRNames
    BY <1>9, <1>b, <1>d DEF CommitCreate, Ready, AtStage
  <2>2. crs' \in [CRNames -> CR \cup {None}]
    BY <1>9, <1>a, <2>1, NewCRTyped DEF CommitCreate, Carries
  <2>3. Published(r) \in Job /\ Carries(Published(r))
    BY <2>1, JobTyped DEF Published
  <2>4. job' \in [Requests -> Job \cup {None}] /\ JobsCarry' /\ fresh' \subseteq Requests
    BY <1>9, <2>3, AnsweredCarries DEF CommitCreate
  <2> QED
    BY <1>9, <1>a, <1>e, <1>f, <2>2, <2>4 DEF CommitCreate, local
<1>10. ASSUME NEW r \in Requests, CommitUpdate(r) PROVE Carried'
  <2>1. job[r] \in Job /\ Carries(job[r]) /\ job[r].op = "update" /\ Target(r) \in CRNames
    BY <1>10, <1>b, <1>d DEF CommitUpdate, Ready, AtStage
  <2>2. crs' \in [CRNames -> CR \cup {None}]
    BY <1>10, <1>a, <2>1 DEF CommitUpdate, Carries, CR
  <2>3. Published(r) \in Job /\ Carries(Published(r))
    BY <2>1, JobTyped DEF Published
  <2>4. job' \in [Requests -> Job \cup {None}] /\ JobsCarry'
    BY <1>10, <2>3, SetJobCarries DEF CommitUpdate
  <2>5. fresh' \subseteq Requests
    BY <1>10, <1>a DEF CommitUpdate, StillFresh
  <2> QED
    BY <1>10, <1>a, <1>e, <1>f, <2>2, <2>4, <2>5 DEF CommitUpdate, local
<1>11. ASSUME NEW r \in Requests, CommitDelete(r) PROVE Carried'
  <2>1. job[r] \in Job /\ Carries(job[r]) /\ job[r].op = "delete" /\ Target(r) \in CRNames
    BY <1>11, <1>b, <1>d DEF CommitDelete, Ready, AtStage
  <2>2. crs' \in [CRNames -> CR \cup {None}]
    BY <1>11, <1>a, <2>1 DEF CommitDelete
  <2>3. Published(r) \in Job /\ Carries(Published(r))
    BY <2>1, JobTyped DEF Published
  <2>4. job' \in [Requests -> Job \cup {None}] /\ JobsCarry'
    BY <1>11, <2>3, SetJobCarries DEF CommitDelete
  <2>5. fresh' \subseteq Requests
    BY <1>11, <1>a DEF CommitDelete, StillFresh
  <2> QED
    BY <1>11, <1>a, <1>e, <1>f, <2>2, <2>4, <2>5 DEF CommitDelete, local
<1>12. ASSUME NEW r \in Requests, CommitRefused(r) PROVE Carried'
  <2>1. End(r) /\ UNCHANGED <<external, local>>
    BY <1>12 DEF CommitRefused
  <2> QED
    BY <1>a, <1>e, <1>f, <2>1, EndCarries DEF external, local
<1>13. ASSUME NEW r \in Requests, Publish(r) PROVE Carried'
  <2>1. job[r] \in Job
    BY <1>13, <1>b DEF Publish, AtStage
  <2>2. cache' \in [Names -> URLs \cup {None}]
    BY <1>13, <1>a, <2>1 DEF Publish, Job
  <2> QED
    BY <1>13, <1>a, <1>e, <1>f, <2>2, EndCarries DEF Publish, external
<1>14. ASSUME NEW r \in Requests, ApiError(r) PROVE Carried'
  <2>1. End(r) /\ UNCHANGED <<external, local>>
    BY <1>14 DEF ApiError
  <2> QED
    BY <1>a, <1>e, <1>f, <2>1, EndCarries DEF external, local
<1>15. ASSUME NEW r \in Requests, ReadStatus(r) PROVE Carried'
  <2> DEFINE j == [job[r] EXCEPT !.stage = "claim"]
  <2>1. j \in Job /\ Carries(j)
    BY <1>15, <1>b, JobTyped DEF ReadStatus, AtStage
  <2>2. job' \in [Requests -> Job \cup {None}] /\ JobsCarry' /\ fresh' \subseteq Requests
    BY <1>15, <1>a, <2>1, EndCarries, SetJobCarries DEF ReadStatus
  <2> QED
    BY <1>15, <1>a, <1>e, <1>f, <2>2 DEF ReadStatus, external, local
<1>16. ASSUME NEW r \in Requests, NEW w \in Workers, Claim(r, w) PROVE Carried'
  <2>1. job[r].seen \in CR /\ job[r].name \in Names
    BY <1>16, <1>b DEF Claim, AtStage, Carries, Job
  <2> DEFINE x == NewRun(job[r].seen, job[r].name)
  <2>2. x \in Run /\ Reports(x)
    BY <2>1, NewRunTyped DEF Reports, NewRun
  <2>3. run' \in [Workers -> Run \cup {None}] /\ RunsReport'
    BY <1>16, <2>2, SetRunReports DEF Claim
  <2>4. tasks' \in [Names -> Statuses \cup {None}]
    BY <1>16, <1>a, <2>1 DEF Claim, Statuses
  <2> QED
    BY <1>16, <1>a, <1>e, <2>3, <2>4, EndCarries DEF Claim, external
<1>17. CASE SyncAllRepos
  <2>1. run' \in [Workers -> Run \cup {None}] /\ RunsReport'
    BY <1>17, <1>a, <1>c, StartAllReports DEF SyncAllRepos
  <2> QED
    BY <1>17, <1>a, <1>e, <1>g, <2>1 DEF SyncAllRepos, external
<1>18. ASSUME NEW w \in Workers, Resolve(w) PROVE Carried'
  <2> DEFINE k == First(run[w].todo)
  <2>1. run[w] \in Run /\ run[w].stage = "resolve" /\ run[w] # None /\ k \in Kinds
    BY <1>18, <1>c, FirstIn DEF Resolve, RunAt, Run
  <2> DEFINE x == [run[w] EXCEPT !.todo = @ \ {k}]
  <2>2. x \in Run /\ Reports(x)
    BY <2>1, RunTyped
  <2>3. SetRun(w, x) \/ Finish(w, TRUE)
    BY <1>18 DEF Resolve
  <2>4. run' \in [Workers -> Run \cup {None}] /\ RunsReport'
    BY <2>1, <2>2, <2>3, SetRunReports, FinishReports
  <2> QED
    BY <1>18, <1>a, <1>e, <1>g, <2>4 DEF Resolve, external
<1>19. ASSUME NEW w \in Workers, Load(w) PROVE Carried'
  <2> DEFINE x == [run[w] EXCEPT !.stage = "store"]
  <2>1. run[w] # None /\ x \in Run /\ Reports(x)
    BY <1>19, <1>c, RunTyped DEF Load, RunAt
  <2>2. SetRun(w, x) \/ Finish(w, TRUE)
    BY <1>19 DEF Load
  <2>3. run' \in [Workers -> Run \cup {None}] /\ RunsReport'
    BY <2>1, <2>2, SetRunReports, FinishReports
  <2> QED
    BY <1>19, <1>a, <1>e, <1>g, <2>3 DEF Load, external
<1>20. ASSUME NEW w \in Workers, Store(w) PROVE Carried'
  <2> DEFINE x == [run[w] EXCEPT !.stage = "patch"]
  <2>1. run[w] \in Run /\ x \in Run /\ Reports(x)
    BY <1>20, <1>c, RunTyped DEF Store, RunAt
  <2>2. run' \in [Workers -> Run \cup {None}] /\ RunsReport'
    BY <1>20, <2>1, SetRunReports DEF Store
  <2>3. cache' \in [Names -> URLs \cup {None}]
    BY <1>20, <1>a, <2>1 DEF Store, Run, CR
  <2> QED
    BY <1>20, <1>a, <1>e, <1>g, <2>2, <2>3 DEF Store, external
<1>21. ASSUME NEW w \in Workers, Patch(w) PROVE Carried'
  <2>1. run[w] # None /\ (Finish(w, TRUE) \/ Finish(w, FALSE))
    BY <1>21 DEF Patch, RunAt
  <2>2. run' \in [Workers -> Run \cup {None}] /\ RunsReport'
    BY <2>1, FinishReports
  <2>3. fresh' \subseteq Requests
    BY <1>21, <1>a DEF Patch, StillFresh
  <2> QED
    BY <1>21, <1>a, <1>e, <1>g, <2>2, <2>3 DEF Patch, external
<1>22. ASSUME NEW w \in Workers, Report(w) PROVE Carried'
  <2> DEFINE x == IF run[w].err THEN [run[w] EXCEPT !.stage = "amend"] ELSE None
  <2>1. run[w] \in Run /\ run[w].task \in Names
    BY <1>22, <1>c DEF Report, RunAt, Reports
  <2>2. x \in Run \cup {None} /\ (x # None => Reports(x))
    BY <2>1, RunTyped, Distinct
  <2>3. run' \in [Workers -> Run \cup {None}] /\ RunsReport'
    BY <1>22, <2>2, SetRunReports DEF Report
  <2>4. tasks' \in [Names -> Statuses \cup {None}]
    BY <1>22, <1>a, <2>1 DEF Report, Statuses
  <2> QED
    BY <1>22, <1>a, <1>e, <1>g, <2>3, <2>4 DEF Report, external
<1>23. ASSUME NEW w \in Workers, Amend(w) PROVE Carried'
  <2>1. run[w].task \in Names
    BY <1>23, <1>c DEF Amend, RunAt, Reports
  <2>2. run' \in [Workers -> Run \cup {None}] /\ RunsReport'
    BY <1>23, SetRunReports DEF Amend
  <2>3. tasks' \in [Names -> Statuses \cup {None}]
    BY <1>23, <1>a, <2>1 DEF Amend, Statuses
  <2> QED
    BY <1>23, <1>a, <1>e, <1>g, <2>2, <2>3 DEF Amend, external
<1>24. CASE Restart
  <2>1. run' \in [Workers -> Run \cup {None}] /\ RunsReport'
    <3>1. CASE StartAll(NoRuns)
      BY <3>1, StartAllReports DEF NoRuns
    <3>2. CASE run' = NoRuns
      BY <3>2 DEF NoRuns, RunsReport
    <3> QED
      BY <1>24, <3>1, <3>2 DEF Restart
  <2>2. JobsCarry'
    BY <1>24 DEF Restart, NoJobs, JobsCarry
  <2> QED
    BY <1>24, <1>a, <1>e, <2>1, <2>2 DEF Restart, NoJobs, NoEntries, external
<1>25. CASE UNCHANGED vars
  BY <1>25, <1>a, <1>e, <1>f, <1>g DEF vars
<1> QED
  BY <1>1, <1>2, <1>3, <1>4, <1>5, <1>6, <1>7, <1>8, <1>9, <1>10, <1>11, <1>12, <1>13,
     <1>14, <1>15, <1>16, <1>17, <1>18, <1>19, <1>20, <1>21, <1>22, <1>23, <1>24, <1>25
     DEF Next, Step, Client, Handler, Goroutine

-----------------------------------------------------------------------------
(* Copies that carry the current resourceVersion. *)

\* The parts of a handler that FreshCurrent is about.
SameHandler(i, j) ==
  /\ i # None
  /\ i.op = j.op /\ i.stage = j.stage /\ i.seen = j.seen /\ i.name = j.name

LEMMA FreshKept ==
  ASSUME FreshCurrent, fresh' \subseteq fresh,
         \A q \in fresh' : SameHandler(job'[q], job[q]) /\ crs'[Target(q)] = crs[Target(q)]
  PROVE  FreshCurrent'
BY DEF FreshCurrent, SameHandler, AtStage, Target

LEMMA FreshInit == Init => FreshCurrent
BY DEF Init, FreshCurrent

LEMMA FreshStep == Carried /\ FreshCurrent /\ [Next]_vars => FreshCurrent'
<1> SUFFICES ASSUME Carried, FreshCurrent, [Next]_vars PROVE FreshCurrent'
  OBVIOUS
<1>a. job \in [Requests -> Job \cup {None}] /\ fresh \subseteq Requests
  BY DEF Carried, TypeOK
<1>b. \A q \in fresh : AtStage(q, {"update"}, "write") /\ SameHandler(job[q], job[q])
  BY DEF FreshCurrent, AtStage, SameHandler
<1>c. ASSUME NEW r \in Requests, End(r), crs' = crs PROVE FreshCurrent'
  BY <1>a, <1>b, <1>c, FreshKept DEF End, SetJob
<1>d. ASSUME NEW r \in Requests, NEW j \in Job, SetJob(r, j), crs' = crs, fresh' = fresh,
             r \notin fresh \/ SameHandler(j, job[r])
      PROVE  FreshCurrent'
  BY <1>a, <1>b, <1>d, FreshKept DEF SetJob
<1>e. ASSUME job' = job, crs' = crs, fresh' \subseteq fresh PROVE FreshCurrent'
  BY <1>b, <1>e, FreshKept
<1>f. \A r \in Requests : job[r] = None => r \notin fresh
  BY <1>b DEF AtStage
<1>1. ASSUME NEW r \in Requests, CreateRepo(r) \/ DeleteRepo(r) \/ SyncRepo(r) PROVE FreshCurrent'
  <2>1. fresh' = fresh /\ crs' = crs /\ r \notin fresh /\ \E j : SetJob(r, j)
    BY <1>1, <1>f DEF CreateRepo, DeleteRepo, SyncRepo, Begin, external
  <2> QED
    BY <1>a, <1>b, <2>1, FreshKept DEF SetJob
<1>2. ASSUME NEW r \in Requests, UpdateRepo(r) PROVE FreshCurrent'
  <2>1. PICK n \in Names, u \in URLs, g \in Offers :
          crs[Lower[n]] # None /\ SetJob(r, NewJob("update", n, u, g, crs[Lower[n]]))
    BY <1>2 DEF UpdateRepo, Begin
  <2>2. fresh' = fresh \cup {r} /\ crs' = crs /\ r \notin fresh
    BY <1>2, <1>f DEF UpdateRepo, Begin, external
  <2>3. job'[r] = NewJob("update", n, u, g, crs[Lower[n]]) /\ NewJob("update", n, u, g, crs[Lower[n]]) \in Job
    BY <1>a, <2>1, LowerTyped, NewJobTyped DEF SetJob, Carried, TypeOK
  <2>4. \A q \in fresh : job'[q] = job[q]
    BY <1>a, <2>1, <2>2 DEF SetJob
  <2>5. \A q \in fresh : AtStage(q, {"update"}, "write")' /\ job'[q].seen = crs'[Target(q)']
    BY <2>2, <2>4 DEF FreshCurrent, AtStage, Target
  <2>6. AtStage(r, {"update"}, "write")' /\ job'[r].seen = crs'[Target(r)']
    <3>1. /\ job'[r] # None /\ job'[r].op = "update" /\ job'[r].stage = "write"
          /\ job'[r].name = n /\ job'[r].seen = crs[Lower[n]]
      BY <2>3, NoneNoRecord DEF NewJob
    <3> QED
      BY <2>2, <3>1 DEF AtStage, Target
  <2> QED
    BY <2>2, <2>5, <2>6 DEF FreshCurrent
<1>3. ASSUME NEW r \in Requests, PutObject(r) \/ DropObject(r) \/ DeleteObject(r)
      PROVE  FreshCurrent'
  <2>1. PICK k \in Kinds : /\ job[r] # None
                           /\ Answered(r, Past(r, k)) \/ (SetJob(r, Past(r, k)) /\ fresh' = fresh)
    BY <1>3 DEF PutObject, DropObject, DeleteObject, Turn, AtStage
  <2>2. crs' = crs
    BY <1>3 DEF PutObject, DropObject, DeleteObject
  <2>3. job[r] \in Job
    BY <1>a, <2>1
  <2>4. Past(r, k) \in Job /\ SameHandler(Past(r, k), job[r])
    BY <2>3, NoneNoRecord DEF Past, SameHandler, Job
  <2>5. End(r) \/ (SetJob(r, Past(r, k)) /\ fresh' = fresh)
    BY <2>1 DEF Answered
  <2> QED
    BY <1>c, <1>d, <2>2, <2>4, <2>5
<1>4. ASSUME NEW r \in Requests, CommitCreate(r) PROVE FreshCurrent'
  <2>1. /\ r \notin fresh
        /\ crs[Target(r)] = None
        /\ crs' = [crs EXCEPT ![Target(r)] = NewCR(job[r])]
    BY <1>4, <1>b DEF CommitCreate, Ready, AtStage
  <2>2. fresh' = fresh /\ \A q \in fresh : job'[q] = job[q]
    BY <1>4, <1>a, <2>1 DEF CommitCreate, Answered, SetJob, End
  <2>3. \A q \in fresh : Target(q) # Target(r) /\ Target(q) \in CRNames
    BY <1>a, <1>b, <2>1, LowerTyped, Distinct
       DEF FreshCurrent, Target, Carried, JobsCarry, Carries, AtStage, Job
  <2>4. \A q \in fresh : crs'[Target(q)] = crs[Target(q)]
    BY <2>1, <2>3 DEF Carried, TypeOK
  <2> QED
    BY <1>b, <2>2, <2>4, FreshKept
<1>5. ASSUME NEW r \in Requests, CommitUpdate(r) \/ CommitDelete(r) PROVE FreshCurrent'
  <2>1. \A q \in StillFresh(Target(r)) : q # r /\ q \in fresh
    BY DEF StillFresh
  <2>2. /\ fresh' \subseteq fresh /\ r \notin fresh'
        /\ \A q \in fresh' : crs'[Target(q)] = crs[Target(q)]
    <3>1. CASE CommitUpdate(r) /\ crs' = crs
      BY <3>1, <2>1 DEF CommitUpdate
    <3>2. CASE fresh' = StillFresh(Target(r)) /\ \E x : crs' = [crs EXCEPT ![Target(r)] = x]
      <4>1. \A q \in fresh' : Target(q) # Target(r) /\ Target(q) \in CRNames
        BY <1>a, <1>b, <3>2, LowerTyped DEF StillFresh, Target, Job, AtStage
      <4> QED
        BY <2>1, <3>2, <4>1 DEF Carried, TypeOK
    <3> QED
      BY <1>5, <3>1, <3>2 DEF CommitUpdate, CommitDelete
  <2>3. \A q \in fresh' : job'[q] = job[q]
    BY <1>5, <1>a, <2>2 DEF CommitUpdate, CommitDelete, SetJob
  <2> QED
    BY <1>b, <2>2, <2>3, FreshKept
<1>6. ASSUME NEW r \in Requests,
             \/ WriteRefused(r) \/ CommitRefused(r) \/ Publish(r) \/ ApiError(r)
             \/ \E w \in Workers : Claim(r, w)
      PROVE  FreshCurrent'
  BY <1>6, <1>c DEF WriteRefused, CommitRefused, Publish, ApiError, Claim, external
<1>7. ASSUME NEW r \in Requests, ReadStatus(r) PROVE FreshCurrent'
  <2>1. crs' = crs /\ r \notin fresh
    BY <1>7, <1>b DEF ReadStatus, AtStage, external
  <2>2. End(r) \/ (fresh' = fresh /\ \E j : SetJob(r, j))
    BY <1>7 DEF ReadStatus
  <2> QED
    BY <1>a, <1>b, <1>c, <2>1, <2>2, FreshKept DEF SetJob
<1>8. CASE SyncAllRepos \/ \E w \in Workers : Goroutine(w)
  BY <1>8, <1>e
     DEF SyncAllRepos, Goroutine, Resolve, Load, Store, Patch, StillFresh, Report, Amend, external
<1>9. CASE Restart
  BY <1>9 DEF Restart, FreshCurrent
<1>10. CASE UNCHANGED vars
  BY <1>10, <1>e DEF vars
<1> QED
  BY <1>1, <1>2, <1>3, <1>4, <1>5, <1>6, <1>7, <1>8, <1>9, <1>10 DEF Next, Step, Client, Handler

-----------------------------------------------------------------------------
(* Statuses and the goroutines that will settle them. *)

\* A goroutine that has not stored its final status keeps its name covered.
Covers(x, n) == x # None /\ x.task = n /\ x.stage # "amend"

LEMMA InProgressKept ==
  ASSUME InProgressHasWorker,
         \A n \in Names : tasks'[n] = "in_progress" => tasks[n] = "in_progress",
         \A n \in Names : \A w \in Workers :
            tasks'[n] = "in_progress" /\ Covers(run[w], n) => Covers(run'[w], n)
  PROVE  InProgressHasWorker'
BY DEF InProgressHasWorker, Covers

LEMMA InProgressInit == Init => InProgressHasWorker
BY NoneNoRecord DEF Init, InProgressHasWorker, NoEntries

LEMMA InProgressStep == Carried /\ InProgressHasWorker /\ [Next]_vars => InProgressHasWorker'
<1> SUFFICES ASSUME Carried, InProgressHasWorker, [Next]_vars PROVE InProgressHasWorker'
  OBVIOUS
<1>a. /\ tasks \in [Names -> Statuses \cup {None}]
      /\ run \in [Workers -> Run \cup {None}]
      /\ job \in [Requests -> Job \cup {None}]
  BY DEF Carried, TypeOK
<1>b. ASSUME tasks' = tasks, run' = run PROVE InProgressHasWorker'
  BY <1>b DEF InProgressHasWorker
<1>c. ASSUME NEW w \in Workers, NEW x \in Run, SetRun(w, x), tasks' = tasks,
             run[w] # None, x.task = run[w].task, x.stage # "amend"
      PROVE  InProgressHasWorker'
  BY <1>a, <1>c, NoneNoRecord, InProgressKept DEF SetRun, Covers
<1>d. ASSUME NEW w \in Workers, RunAt(w, "resolve") \/ RunAt(w, "patch"), NEW e \in BOOLEAN,
             Finish(w, e), tasks' = tasks
      PROVE  InProgressHasWorker'
  <2>1. CASE run[w].task = None
    BY <1>a, <1>d, <2>1, InProgressKept, Distinct DEF Finish, SetRun, Covers, RunAt
  <2>2. CASE run[w].task # None
    <3> DEFINE x == [run[w] EXCEPT !.stage = "report", !.err = e]
    <3>1. run[w] \in Run /\ run[w] # None
      BY <1>a, <1>d DEF RunAt
    <3>2. x \in Run /\ x.task = run[w].task /\ x.stage = "report"
      BY <3>1 DEF Run
    <3> QED
      BY <1>c, <1>d, <2>2, <3>1, <3>2 DEF Finish
  <2> QED
    BY <2>1, <2>2
<1>1. ASSUME NEW r \in Requests, Client(r) PROVE InProgressHasWorker'
  BY <1>1, <1>b DEF Client, CreateRepo, UpdateRepo, DeleteRepo, SyncRepo, local
<1>2. ASSUME NEW r \in Requests, Handler(r), ~\E w \in Workers : Claim(r, w)
      PROVE  InProgressHasWorker'
  BY <1>2, <1>b DEF Handler, PutObject, DropObject, DeleteObject, WriteRefused, CommitCreate,
     CommitUpdate, CommitDelete, CommitRefused, Publish, ApiError, ReadStatus, local
<1>3. ASSUME NEW r \in Requests, NEW w \in Workers, Claim(r, w) PROVE InProgressHasWorker'
  <2>1. job[r].name \in Names
    BY <1>3, <1>a DEF Claim, AtStage, Job
  <2> DEFINE x == NewRun(job[r].seen, job[r].name)
  <2>2. x.task = job[r].name /\ x.stage = "resolve" /\ x # None
    <3>1. job[r].seen \in CR
      BY <1>3 DEF Claim, AtStage, Carried, JobsCarry, Carries
    <3> QED
      BY <2>1, <3>1, NewRunTyped, NoneNoRecord DEF NewRun
  <2>3. run' = [run EXCEPT ![w] = x] /\ tasks' = [tasks EXCEPT ![job[r].name] = "in_progress"]
    BY <1>3 DEF Claim, SetRun
  <2>4. Covers(run'[w], job[r].name)
    BY <1>a, <2>2, <2>3 DEF Covers
  <2>5. \A v \in Workers : run[v] # None => run'[v] = run[v]
    BY <1>3, <1>a, <2>3 DEF Claim
  <2>6. \A n \in Names : n # job[r].name => tasks'[n] = tasks[n]
    BY <1>a, <2>3
  <2> QED
    BY <2>1, <2>4, <2>5, <2>6 DEF InProgressHasWorker, Covers
<1>4. CASE SyncAllRepos
  <2>1. tasks' = tasks /\ \A w \in Workers : run[w] # None => run'[w] = run[w]
    BY <1>4, <1>a DEF SyncAllRepos, StartAll, Spread, Started
  <2> QED
    BY <2>1, InProgressKept DEF Covers
<1>5. ASSUME NEW w \in Workers, Resolve(w) PROVE InProgressHasWorker'
  <2> DEFINE k == First(run[w].todo)
             x == [run[w] EXCEPT !.todo = @ \ {k}]
  <2>1. run[w] \in Run /\ RunAt(w, "resolve") /\ run[w] # None /\ tasks' = tasks /\ k \in Kinds
    BY <1>5, <1>a, FirstIn DEF Resolve, RunAt, Run
  <2>2. x \in Run /\ x.task = run[w].task /\ x.stage = "resolve"
    BY <2>1 DEF Run, RunAt
  <2>3. SetRun(w, x) \/ Finish(w, TRUE)
    BY <1>5 DEF Resolve
  <2> QED
    BY <1>c, <1>d, <2>1, <2>2, <2>3
<1>6. ASSUME NEW w \in Workers, Load(w) PROVE InProgressHasWorker'
  <2> DEFINE x == [run[w] EXCEPT !.stage = "store"]
  <2>1. run[w] \in Run /\ RunAt(w, "resolve") /\ run[w] # None /\ tasks' = tasks
    BY <1>6, <1>a DEF Load, RunAt
  <2>2. x \in Run /\ x.task = run[w].task /\ x.stage = "store"
    BY <2>1 DEF Run
  <2>3. SetRun(w, x) \/ Finish(w, TRUE)
    BY <1>6 DEF Load
  <2> QED
    BY <1>c, <1>d, <2>1, <2>2, <2>3
<1>7. ASSUME NEW w \in Workers, Store(w) PROVE InProgressHasWorker'
  <2> DEFINE x == [run[w] EXCEPT !.stage = "patch"]
  <2>1. run[w] \in Run /\ run[w] # None /\ tasks' = tasks
    BY <1>7, <1>a DEF Store, RunAt
  <2>2. x \in Run /\ x.task = run[w].task /\ x.stage = "patch"
    BY <2>1 DEF Run
  <2> QED
    BY <1>7, <1>c, <2>1, <2>2 DEF Store
<1>8. ASSUME NEW w \in Workers, Patch(w) PROVE InProgressHasWorker'
  <2>1. RunAt(w, "patch") /\ tasks' = tasks /\ (Finish(w, TRUE) \/ Finish(w, FALSE))
    BY <1>8 DEF Patch
  <2> QED
    BY <1>d, <2>1
<1>9. ASSUME NEW w \in Workers, Report(w) \/ Amend(w) PROVE InProgressHasWorker'
  <2>1. run[w].task \in Names
    BY <1>9, <1>a DEF Report, Amend, RunAt, Carried, RunsReport, Reports
  <2>2. /\ tasks'[run[w].task] # "in_progress"
        /\ \A n \in Names : n # run[w].task => tasks'[n] = tasks[n]
        /\ \A v \in Workers : v # w => run'[v] = run[v]
    BY <1>9, <1>a, <2>1 DEF Report, Amend, SetRun
  <2> QED
    BY <2>1, <2>2, InProgressKept DEF Covers
<1>10. CASE Restart
  BY <1>10, NoneNoRecord DEF Restart, NoEntries, InProgressHasWorker
<1>11. CASE UNCHANGED vars
  BY <1>11, <1>b DEF vars
<1> QED
  BY <1>1, <1>2, <1>3, <1>4, <1>5, <1>6, <1>7, <1>8, <1>9, <1>10, <1>11 DEF Next, Step, Goroutine

-----------------------------------------------------------------------------
(* How the CRs may change. *)

Added(c) == crs[c] = None /\ \E e \in CR : Lower[e.display] = c /\ crs' = [crs EXCEPT ![c] = e]

Moved(c) ==
  /\ crs[c] # None
  /\ \E u \in URLs : crs' = [crs EXCEPT ![c] = [crs[c] EXCEPT !.url = u]]
  /\ \E r \in Requests : Overwritten(c, r)

Removed(c) == crs[c] # None /\ crs' = [crs EXCEPT ![c] = None]

Owned == Carried /\ FreshCurrent /\ NamesMatch /\ OfficialGenuine /\ JobsGenuine /\ RunsGenuine

LEMMA ProtectedExist ==
  ASSUME OfficialGenuine, NEW c \in Protected
  PROVE  crs[c] # None
<1>1. PICK b \in Builtin : c = Lower[b]
  BY DEF Protected
<1>2. BuiltinCR(b) \in CR
  BY BuiltinAssumption DEF BuiltinCR, CR
<1> QED
  BY <1>1, <1>2, Distinct DEF OfficialGenuine

LEMMA CRsStep ==
  ASSUME Owned, [Next]_vars
  PROVE  crs' = crs \/ \E c \in CRNames \ Protected : Added(c) \/ Moved(c) \/ Removed(c)
<1>a. \A r \in Requests : job[r] # None =>
        job[r] \in Job /\ Carries(job[r]) /\ Target(r) \in CRNames
  BY LowerTyped DEF Owned, Carried, TypeOK, JobsCarry, Target, Job
<1>1. ASSUME NEW r \in Requests, CommitCreate(r)
      PROVE  \E c \in CRNames \ Protected : Added(c)
  <2>1. /\ job[r] \in Job /\ Carries(job[r]) /\ job[r].op = "create" /\ Target(r) \in CRNames
        /\ crs[Target(r)] = None /\ crs' = [crs EXCEPT ![Target(r)] = NewCR(job[r])]
    BY <1>1, <1>a DEF CommitCreate, Ready, AtStage
  <2>2. NewCR(job[r]) \in CR /\ Lower[NewCR(job[r]).display] = Target(r)
    BY <2>1, NewCRTyped DEF Carries, NewCR, Target
  <2>3. Target(r) \notin Protected
    BY <2>1, ProtectedExist DEF Owned
  <2> QED
    BY <2>1, <2>2, <2>3 DEF Added
<1>2. ASSUME NEW r \in Requests, CommitUpdate(r)
      PROVE  \E c \in CRNames \ Protected : Moved(c)
  <2>1. /\ job[r] # None /\ job[r].op = "update" /\ Target(r) \in CRNames
        /\ job[r].url \in URLs /\ job[r].seen \in CR
        /\ AtStage(r, {"update"}, "write")
    BY <1>2, <1>a DEF CommitUpdate, Ready, AtStage, Carries
  <2>2. job[r].seen = crs[Target(r)]
    BY <1>2 DEF CommitUpdate, Owned, FreshCurrent
  <2>3. Target(r) \notin Protected
    BY <2>1 DEF Owned, JobsGenuine, GenuineJob, Target
  <2>4. crs' = [crs EXCEPT ![Target(r)] = [crs[Target(r)] EXCEPT !.url = job[r].url]]
    BY <1>2, <2>2 DEF CommitUpdate
  <2>5. Overwritten(Target(r), r)
    BY <2>1, <2>2, <2>4 DEF Overwritten, Owned, Carried, TypeOK
  <2> QED
    BY <2>1, <2>2, <2>3, <2>4, <2>5, Distinct DEF Moved
<1>3. ASSUME NEW r \in Requests, CommitDelete(r)
      PROVE  \E c \in CRNames \ Protected : Removed(c)
  <2>1. job[r] # None /\ job[r].op = "delete" /\ Target(r) \in CRNames
    BY <1>3, <1>a DEF CommitDelete, Ready, AtStage
  <2>2. Target(r) \notin Protected
    BY <2>1 DEF Owned, JobsGenuine, GenuineJob, Target
  <2> QED
    BY <1>3, <2>1, <2>2 DEF CommitDelete, Removed
<1>4. ASSUME NEW r \in Requests, Client(r) \/ Handler(r),
             ~CommitCreate(r), ~CommitUpdate(r), ~CommitDelete(r)
      PROVE  crs' = crs
  BY <1>4 DEF Client, CreateRepo, UpdateRepo, DeleteRepo, SyncRepo, Handler, PutObject,
     DropObject, DeleteObject, WriteRefused, CommitRefused, Publish, ApiError, ReadStatus,
     Claim, external
<1>5. CASE SyncAllRepos \/ Restart \/ UNCHANGED vars
  BY <1>5 DEF SyncAllRepos, Restart, external, vars
<1>6. ASSUME NEW w \in Workers, Goroutine(w) PROVE crs' = crs
  BY <1>6 DEF Goroutine, Resolve, Load, Store, Patch, Report, Amend, external
<1> QED
  BY <1>1, <1>2, <1>3, <1>4, <1>5, <1>6 DEF Next, Step

LEMMA CRsKept ==
  ASSUME Owned, [Next]_vars
  PROVE  NamesMatch' /\ \A c \in Protected : crs'[c] = crs[c]
<1> SUFFICES ASSUME NEW c \in CRNames \ Protected, Added(c) \/ Moved(c) \/ Removed(c)
             PROVE  NamesMatch' /\ \A d \in Protected : crs'[d] = crs[d]
  BY CRsStep DEF Owned, NamesMatch
<1>a. crs \in [CRNames -> CR \cup {None}] /\ Protected \subseteq CRNames /\ NamesMatch
  BY LowerTyped, BuiltinAssumption DEF Owned, Carried, TypeOK, Protected
<1>1. CASE Added(c)
  BY <1>1, <1>a DEF Added, NamesMatch
<1>2. CASE Moved(c)
  <2>1. PICK u \in URLs : crs' = [crs EXCEPT ![c] = [crs[c] EXCEPT !.url = u]]
    BY <1>2 DEF Moved
  <2>2. crs[c] \in CR
    BY <1>2, <1>a DEF Moved
  <2>3. [crs[c] EXCEPT !.url = u].display = crs[c].display
    BY <2>2 DEF CR
  <2> QED
    BY <1>a, <2>1, <2>2, <2>3, Distinct DEF NamesMatch
<1>3. CASE Removed(c)
  BY <1>3, <1>a DEF Removed, NamesMatch
<1> QED
  BY <1>1, <1>2, <1>3


-----------------------------------------------------------------------------
(* What is genuine stays genuine. *)

LEMMA CRsGenuine ==
  ASSUME Owned, NEW c \in CRNames, crs[c] # None
  PROVE  Genuine(crs[c])
<1> SUFFICES ASSUME NEW b \in Builtin, crs[c].display = b PROVE crs[c].url = BuiltinURL[b]
  BY DEF Genuine
<1>1. Lower[b] = c
  BY DEF Owned, NamesMatch
<1>2. crs[c] = BuiltinCR(b)
  BY <1>1 DEF Owned, OfficialGenuine
<1> QED
  BY <1>2 DEF BuiltinCR

LEMMA OwnedInit == Init => Owned
<1> SUFFICES ASSUME Init PROVE Owned
  OBVIOUS
<1>1. Carried /\ FreshCurrent
  BY CarriedInit, FreshInit
<1>2. \A b \in Builtin : crs[Lower[b]] = BuiltinCR(b)
  <2> SUFFICES ASSUME NEW b \in Builtin PROVE crs[Lower[b]] = BuiltinCR(b)
    OBVIOUS
  <2>1. Lower[b] \in CRNames /\ Lower[b] \in Protected
    BY BuiltinAssumption, LowerTyped DEF Protected
  <2>2. (CHOOSE a \in Builtin : Lower[a] = Lower[b]) = b
    BY BuiltinAssumption
  <2> QED
    BY <2>1, <2>2 DEF Init, Installed
<1>3. NamesMatch
  <2> SUFFICES ASSUME NEW c \in CRNames, crs[c] # None PROVE Lower[crs[c].display] = c
    BY DEF NamesMatch
  <2>1. PICK b \in Builtin : Lower[b] = c
    BY DEF Init, Installed, Protected
  <2>2. crs[c] = BuiltinCR(b)
    BY <1>2, <2>1
  <2> QED
    BY <2>1, <2>2 DEF BuiltinCR
<1>4. OfficialGenuine
  BY <1>2, BuiltinAssumption DEF OfficialGenuine, Init, NoEntries
<1>5. JobsGenuine
  BY DEF JobsGenuine, Init, NoJobs
<1>6. RunsGenuine
  <2>1. PICK at \in Spread(NoRuns) : run = Started(at, NoRuns)
    BY DEF Init
  <2>2. ASSUME NEW c \in CRNames, crs[c] # None PROVE Genuine(crs[c])
    <3> SUFFICES ASSUME NEW b \in Builtin, crs[c].display = b PROVE crs[c].url = BuiltinURL[b]
      BY DEF Genuine
    <3>1. crs[c] = BuiltinCR(b)
      BY <1>2, <1>3, <2>2 DEF NamesMatch
    <3> QED
      BY <3>1 DEF BuiltinCR
  <2>3. \A w \in Workers : at[w] # None => at[w] \in CRNames /\ crs[at[w]] # None
    BY <2>1 DEF Spread
  <2>4. \A w \in Workers : run[w] # None => run[w].seen = crs[at[w]] /\ at[w] # None
    BY <2>1 DEF Started, NoRuns, NewRun
  <2> QED
    BY <2>2, <2>3, <2>4 DEF RunsGenuine
<1> QED
  BY <1>1, <1>3, <1>4, <1>5, <1>6 DEF Owned

LEMMA SetJobGenuine ==
  ASSUME Owned, NEW r \in Requests, NEW j \in Job \cup {None}, j # None => GenuineJob(j),
         SetJob(r, j)
  PROVE  JobsGenuine'
<1>1. job \in [Requests -> Job \cup {None}] /\ JobsGenuine
  BY DEF Owned, Carried, TypeOK
<1> QED
  BY <1>1 DEF SetJob, JobsGenuine, GenuineJob, Genuine

LEMMA JobsGenuineStep ==
  ASSUME Owned, [Next]_vars
  PROVE  JobsGenuine'
<1>a. /\ job \in [Requests -> Job \cup {None}]
      /\ \A r \in Requests : job[r] # None => Carries(job[r]) /\ GenuineJob(job[r])
  BY DEF Owned, Carried, TypeOK, JobsCarry, JobsGenuine
<1>b. \A c \in CRNames : crs[c] # None => crs[c] \in CR /\ Genuine(crs[c])
  BY CRsGenuine DEF Owned, Carried, TypeOK
<1>c. ASSUME job' = job PROVE JobsGenuine'
  BY <1>a, <1>c DEF JobsGenuine, GenuineJob, Genuine
<1>1. ASSUME NEW r \in Requests, CreateRepo(r) PROVE JobsGenuine'
  <2>1. PICK j \in Job : SetJob(r, j) /\ j.op = "create" /\ j.stage = "write"
    BY <1>1, NewJobTyped DEF CreateRepo, Begin, NewJob
  <2> QED
    BY <2>1, SetJobGenuine DEF GenuineJob
<1>2. ASSUME NEW r \in Requests, UpdateRepo(r) PROVE JobsGenuine'
  <2>1. PICK j \in Job : SetJob(r, j) /\ j.op = "update" /\ Lower[j.name] \notin Protected
    BY <1>2, <1>b, NewJobTyped, LowerTyped DEF UpdateRepo, Begin, NewJob
  <2> QED
    BY <2>1, SetJobGenuine DEF GenuineJob
<1>3. ASSUME NEW r \in Requests, DeleteRepo(r) PROVE JobsGenuine'
  <2>1. PICK j \in Job : SetJob(r, j) /\ j.op = "delete" /\ Lower[j.name] \notin Protected
    BY <1>3, <1>b, NewJobTyped, CRNamesAreLower DEF DeleteRepo, Begin, NewJob
  <2> QED
    BY <2>1, SetJobGenuine DEF GenuineJob
<1>4. ASSUME NEW r \in Requests, SyncRepo(r) PROVE JobsGenuine'
  <2>1. PICK j \in Job : SetJob(r, j) /\ j.op = "sync" /\ j.stage = "status" /\ Genuine(j.seen)
    BY <1>4, <1>b, NewJobTyped, LowerTyped DEF SyncRepo, Begin, NewJob
  <2> QED
    BY <2>1, SetJobGenuine DEF GenuineJob
<1>5. ASSUME NEW r \in Requests, PutObject(r) \/ DropObject(r) \/ DeleteObject(r)
      PROVE  JobsGenuine'
  <2>1. PICK k \in Kinds : job[r] # None /\ (SetJob(r, Past(r, k)) \/ SetJob(r, None))
    BY <1>5 DEF PutObject, DropObject, DeleteObject, Answered, End, Turn, AtStage
  <2>2. job[r] \in Job /\ Past(r, k) \in Job
    BY <1>a, <2>1, JobTyped DEF Past
  <2>3. GenuineJob(Past(r, k))
    BY <1>a, <2>1, <2>2 DEF GenuineJob, Genuine, Past, Job
  <2> QED
    BY <2>1, <2>2, <2>3, SetJobGenuine
<1>6. ASSUME NEW r \in Requests, CommitCreate(r) \/ CommitUpdate(r) \/ CommitDelete(r)
      PROVE  JobsGenuine'
  <2>1. /\ job[r] # None /\ job[r] \in Job /\ job[r].op \in {"create", "update", "delete"}
        /\ SetJob(r, Published(r)) \/ SetJob(r, None)
    BY <1>6, <1>a DEF CommitCreate, CommitUpdate, CommitDelete, Answered, End, Ready, AtStage
  <2>2. Lower[job[r].name] \notin Protected
    <3>1. CASE CommitCreate(r)
      BY <3>1, ProtectedExist DEF CommitCreate, Target, Owned
    <3>2. CASE CommitUpdate(r) \/ CommitDelete(r)
      BY <3>2, <1>a DEF CommitUpdate, CommitDelete, Ready, AtStage, GenuineJob
    <3> QED
      BY <1>6, <3>1, <3>2
  <2>3. Published(r) \in Job
    BY <1>a, <2>1, JobTyped DEF Published
  <2>4. GenuineJob(Published(r))
    BY <2>1, <2>2 DEF GenuineJob, Published, Job
  <2> QED
    BY <2>1, <2>3, <2>4, SetJobGenuine
<1>7. ASSUME NEW r \in Requests,
             \/ WriteRefused(r) \/ CommitRefused(r) \/ Publish(r) \/ ApiError(r)
             \/ \E w \in Workers : Claim(r, w)
      PROVE  JobsGenuine'
  BY <1>7, SetJobGenuine DEF WriteRefused, CommitRefused, Publish, ApiError, Claim, End
<1>8. ASSUME NEW r \in Requests, ReadStatus(r) PROVE JobsGenuine'
  <2> DEFINE j == [job[r] EXCEPT !.stage = "claim"]
  <2>1. job[r] # None /\ job[r] \in Job /\ job[r].op = "sync"
    BY <1>8, <1>a DEF ReadStatus, AtStage
  <2>2. j \in Job
    BY <1>a, <2>1, JobTyped
  <2>3. GenuineJob(j)
    BY <1>a, <2>1 DEF GenuineJob, Genuine, Job
  <2>4. SetJob(r, j) \/ SetJob(r, None)
    BY <1>8 DEF ReadStatus, End
  <2> QED
    BY <2>2, <2>3, <2>4, SetJobGenuine
<1>9. CASE SyncAllRepos \/ UNCHANGED vars \/ \E w \in Workers : Goroutine(w)
  BY <1>9, <1>c
     DEF SyncAllRepos, vars, Goroutine, Resolve, Load, Store, Patch, Report, Amend
<1>10. CASE Restart
  BY <1>10 DEF Restart, NoJobs, JobsGenuine
<1> QED
  BY <1>1, <1>2, <1>3, <1>4, <1>5, <1>6, <1>7, <1>8, <1>9, <1>10 DEF Next, Step, Client, Handler

LEMMA RunsGenuineStep ==
  ASSUME Owned, [Next]_vars
  PROVE  RunsGenuine'
<1>a. run \in [Workers -> Run \cup {None}] /\ RunsGenuine
  BY DEF Owned, Carried, TypeOK
<1>b. \A c \in CRNames : crs[c] # None => Genuine(crs[c])
  BY CRsGenuine
\* It is enough that every copy was one before, or is of a present CR.
<1>c. ASSUME \A w \in Workers : run'[w] # None =>
                \/ run[w] # None /\ run'[w].seen = run[w].seen
                \/ Genuine(run'[w].seen)
      PROVE  RunsGenuine'
  BY <1>a, <1>c DEF RunsGenuine, Genuine
<1>d. ASSUME NEW w \in Workers, run[w] # None, NEW x, SetRun(w, x), x # None => x.seen = run[w].seen
      PROVE  RunsGenuine'
  BY <1>a, <1>c, <1>d DEF SetRun
<1>e. ASSUME NEW w \in Workers, run[w] # None
      PROVE  /\ \A s : [run[w] EXCEPT !.stage = s].seen = run[w].seen
             /\ \A k : [run[w] EXCEPT !.todo = @ \ {k}].seen = run[w].seen
             /\ \A s, e : [run[w] EXCEPT !.stage = s, !.err = e].seen = run[w].seen
  BY <1>a, <1>e DEF Run
<1>f. ASSUME NEW w \in Workers, run[w] # None, NEW e, Finish(w, e) PROVE RunsGenuine'
  BY <1>d, <1>e, <1>f DEF Finish
<1>g. ASSUME NEW rs, StartAll(rs),
             \A w \in Workers : rs[w] # None => run[w] # None /\ rs[w].seen = run[w].seen
      PROVE  RunsGenuine'
  <2>1. PICK at \in Spread(rs) : run' = Started(at, rs)
    BY <1>g DEF StartAll
  <2>2. \A w \in Workers : at[w] # None => at[w] \in CRNames /\ crs[at[w]] # None
    BY <2>1 DEF Spread
  <2>3. \A w \in Workers : run'[w] = IF at[w] = None THEN rs[w] ELSE NewRun(crs[at[w]], None)
    BY <2>1 DEF Started
  <2>4. ASSUME NEW w \in Workers, at[w] # None PROVE run'[w].seen = crs[at[w]]
    <3>1. run'[w] = NewRun(crs[at[w]], None)
      BY <2>3, <2>4
    <3> QED
      BY <3>1 DEF NewRun
  <2>5. \A w \in Workers : at[w] # None => Genuine(run'[w].seen)
    BY <1>b, <2>2, <2>4
  <2> QED
    BY <1>c, <1>g, <2>3, <2>5
<1>1. ASSUME NEW r \in Requests, NEW w \in Workers, Claim(r, w) PROVE RunsGenuine'
  <2>1. Genuine(job[r].seen)
    BY <1>1 DEF Claim, AtStage, Owned, JobsGenuine, GenuineJob
  <2>2. Genuine(NewRun(job[r].seen, job[r].name).seen)
    BY <2>1 DEF NewRun
  <2>3. \A v \in Workers : run'[v] = IF v = w THEN NewRun(job[r].seen, job[r].name) ELSE run[v]
    BY <1>1, <1>a DEF Claim, SetRun
  <2> QED
    BY <1>c, <2>2, <2>3
<1>2. ASSUME NEW r \in Requests, Client(r) \/ Handler(r), ~\E w \in Workers : Claim(r, w)
      PROVE  run' = run
  BY <1>2 DEF Client, CreateRepo, UpdateRepo, DeleteRepo, SyncRepo, Handler, PutObject,
     DropObject, DeleteObject, WriteRefused, CommitCreate, CommitUpdate, CommitDelete,
     CommitRefused, Publish, ApiError, ReadStatus, local
<1>3. CASE SyncAllRepos
  BY <1>3, <1>g DEF SyncAllRepos
<1>4. CASE Restart
  <2>1. CASE StartAll(NoRuns)
    BY <1>g, <2>1 DEF NoRuns
  <2>2. CASE run' = NoRuns
    BY <2>2 DEF NoRuns, RunsGenuine
  <2> QED
    BY <1>4, <2>1, <2>2 DEF Restart
<1>5. ASSUME NEW w \in Workers, Goroutine(w) PROVE RunsGenuine'
  <2>1. run[w] # None
    BY <1>5 DEF Goroutine, Resolve, Load, Store, Patch, Report, Amend, RunAt
  <2>2. \/ Finish(w, TRUE) \/ Finish(w, FALSE)
        \/ SetRun(w, None)
        \/ \E s : SetRun(w, [run[w] EXCEPT !.stage = s])
        \/ \E k : SetRun(w, [run[w] EXCEPT !.todo = @ \ {k}])
    BY <1>5 DEF Goroutine, Resolve, Load, Store, Patch, Report, Amend
  <2> QED
    BY <1>d, <1>e, <1>f, <2>1, <2>2
<1>6. CASE run' = run
  BY <1>6, <1>c
<1> QED
  BY <1>1, <1>2, <1>3, <1>4, <1>5, <1>6 DEF Next, Step, vars

LEMMA OfficialStep ==
  ASSUME Owned, [Next]_vars
  PROVE  OfficialGenuine'
<1>1. \A b \in Builtin : crs'[Lower[b]] = BuiltinCR(b)
  BY CRsKept DEF Owned, OfficialGenuine, Protected
<1>a. cache \in [Names -> URLs \cup {None}] /\ Builtin \subseteq Names
  BY BuiltinAssumption DEF Owned, Carried, TypeOK
<1>b. \A b \in Builtin : cache[b] \in {None, BuiltinURL[b]}
  BY DEF Owned, OfficialGenuine
<1>2. \A b \in Builtin : cache'[b] \in {None, BuiltinURL[b]}
  <2>1. ASSUME NEW r \in Requests, Publish(r), NEW b \in Builtin PROVE cache'[b] = cache[b]
    <3>1. Lower[job[r].name] \notin Protected
      BY <2>1 DEF Publish, AtStage, Owned, JobsGenuine, GenuineJob
    <3>2. job[r].name # b
      BY <3>1 DEF Protected
    <3> QED
      BY <2>1, <3>2, <1>a DEF Publish
  <2>2. ASSUME NEW w \in Workers, Store(w), NEW b \in Builtin
        PROVE  cache'[b] \in {None, BuiltinURL[b]}
    <3>1. Genuine(run[w].seen)
      BY <2>2 DEF Store, RunAt, Owned, RunsGenuine
    <3> QED
      BY <2>2, <3>1, <1>a, <1>b DEF Store, Genuine
  <2>3. CASE Restart
    BY <2>3, <1>a DEF Restart, NoEntries
  <2>4. CASE cache' = cache
    BY <2>4, <1>b
  <2>5. \/ Restart \/ cache' = cache
        \/ \E r \in Requests : Publish(r)
        \/ \E w \in Workers : Store(w)
    BY DEF Next, Step, Client, CreateRepo, UpdateRepo, DeleteRepo, SyncRepo, Handler, PutObject,
       DropObject, DeleteObject, WriteRefused, CommitCreate, CommitUpdate, CommitDelete,
       CommitRefused, ApiError, ReadStatus, Claim, local, SyncAllRepos, Goroutine, Resolve,
       Load, Patch, Report, Amend, vars
  <2> QED
    BY <1>b, <2>1, <2>2, <2>3, <2>4, <2>5
<1> QED
  BY <1>1, <1>2 DEF OfficialGenuine, BuiltinCR

LEMMA OwnedStep == Owned /\ [Next]_vars => Owned'
BY CarriedStep, FreshStep, CRsKept, OfficialStep, JobsGenuineStep, RunsGenuineStep DEF Owned

-----------------------------------------------------------------------------
(* The results. *)

(***************************************************************************)
(* IInv is an inductive invariant: it strengthens the safety properties    *)
(* with what handlers and goroutines know about the CRs they have read.    *)
(***************************************************************************)
THEOREM Invariance == Spec => []IInv
<1>1. Init => IInv
  BY OwnedInit, InProgressInit DEF Owned, IInv
<1>2. IInv /\ [Next]_vars => IInv'
  BY OwnedStep, InProgressStep DEF Owned, IInv
<1> QED
  BY <1>1, <1>2, PTL DEF Spec

(***************************************************************************)
(* Every variable stays in its range, however many requests interleave and *)
(* whatever fails.                                                         *)
(***************************************************************************)
THEOREM TypeCorrect == Spec => []TypeOK
<1>1. IInv => TypeOK
  BY DEF IInv, Carried
<1> QED
  BY <1>1, Invariance, PTL

(***************************************************************************)
(* No client can delete, move or replace a built-in repository, or have    *)
(* another index served under its name.                                    *)
(***************************************************************************)
THEOREM OfficialStaysGenuine == Spec => []OfficialGenuine
<1>1. IInv => OfficialGenuine
  BY DEF IInv
<1> QED
  BY <1>1, Invariance, PTL

(***************************************************************************)
(* A status "in_progress" always has a goroutine that will overwrite it.   *)
(***************************************************************************)
THEOREM SyncsAreBacked == Spec => []InProgressHasWorker
<1>1. IInv => InProgressHasWorker
  BY DEF IInv
<1> QED
  BY <1>1, Invariance, PTL

(***************************************************************************)
(* An existing CR changes only by an update that had read it as it is.     *)
(***************************************************************************)
LEMMA NoLostUpdateStep ==
  ASSUME Owned, [Next]_vars, NEW c \in CRNames,
         crs[c] # None, crs'[c] \notin {None, crs[c]}
  PROVE  \E r \in Requests : Overwritten(c, r)
<1>1. PICK d \in CRNames : Added(d) \/ Moved(d) \/ Removed(d)
  BY CRsStep
<1>2. crs \in [CRNames -> CR \cup {None}]
  BY DEF Owned, Carried, TypeOK
<1>3. d = c /\ Moved(d)
  BY <1>1, <1>2 DEF Added, Moved, Removed
<1> QED
  BY <1>3 DEF Moved

THEOREM UpdatesAreNotLost == Spec => NoLostUpdate
<1>1. IInv /\ [Next]_vars =>
        [\A c \in CRNames : crs[c] # None /\ crs'[c] \notin {None, crs[c]}
            => \E r \in Requests : Overwritten(c, r)]_vars
  BY NoLostUpdateStep DEF IInv, Owned
<1> QED
  BY <1>1, Invariance, PTL DEF Spec, NoLostUpdate

(***************************************************************************)
(* The CRs implement RepoRegistry.                                         *)
(***************************************************************************)
LEMMA RegistryInit == Init => Registry!Init
BY OwnedInit DEF Owned, Carried, TypeOK, Registry!Init

LEMMA RegistryStep == IInv /\ [Next]_vars => [Registry!Next]_crs
<1> SUFFICES ASSUME IInv, [Next]_vars, crs' # crs PROVE Registry!Next
  OBVIOUS
<1>1. PICK c \in CRNames \ Protected : Added(c) \/ Moved(c) \/ Removed(c)
  BY CRsStep DEF IInv, Owned
<1>2. CASE Added(c)
  BY <1>2 DEF Added, Registry!Next, Registry!Add
<1>3. CASE Moved(c)
  BY <1>3 DEF Moved, Registry!Next, Registry!Move
<1>4. CASE Removed(c)
  BY <1>4 DEF Removed, Registry!Next, Registry!Remove
<1> QED
  BY <1>1, <1>2, <1>3, <1>4

THEOREM ImplementsRegistry == Spec => RegistrySpec
  BY RegistryInit, RegistryStep, Invariance, PTL DEF Spec, RegistrySpec, Registry!Spec

-----------------------------------------------------------------------------
(* Whoever has a repository to itself leaves the entry that its CR asks for. *)

Commits(r) == CommitCreate(r) \/ CommitUpdate(r) \/ CommitDelete(r)

LEMMA JobsTyped ==
  ASSUME Owned
  PROVE  \A r \in Requests : job[r] # None =>
            /\ job[r] \in Job /\ Carries(job[r])
            /\ job[r].name \in Names /\ Target(r) \in CRNames
BY LowerTyped DEF Owned, Carried, TypeOK, JobsCarry, Target, Job

\* A handler in flight stays about its repository, with the copy it has.
LEMMA JobKept ==
  ASSUME Owned, Step, NEW r \in Requests, job[r] # None, job'[r] # None
  PROVE  /\ job'[r].op = job[r].op /\ job'[r].name = job[r].name
         /\ job'[r].url = job[r].url /\ job'[r].seen = job[r].seen
         /\ job'[r].stage = "publish" => job[r].stage = "publish" \/ Commits(r)
         /\ job[r].stage = "publish" => job'[r].stage = "publish"
<1>a. /\ job \in [Requests -> Job \cup {None}] /\ job[r] \in Job
  BY JobsTyped DEF Owned, Carried, TypeOK
<1>1. ASSUME NEW q \in Requests, Client(q) PROVE job'[r] = job[r]
  BY <1>1, <1>a DEF Client, CreateRepo, UpdateRepo, DeleteRepo, SyncRepo, Begin, SetJob
<1>2. CASE \E w \in Workers : Goroutine(w)
  BY <1>2 DEF Goroutine, Resolve, Load, Store, Patch, Report, Amend
<1>3. CASE SyncAllRepos
  BY <1>3 DEF SyncAllRepos
<1>4. ASSUME NEW q \in Requests, Handler(q), q # r PROVE job'[r] = job[r]
  BY <1>4, <1>a DEF Handler, PutObject, DropObject, DeleteObject, WriteRefused, CommitCreate,
     CommitUpdate, CommitDelete, CommitRefused, Publish, ApiError, ReadStatus, Claim,
     Answered, End, SetJob
<1>5. CASE Handler(r)
  <2>1. ASSUME NEW k \in Kinds, SetJob(r, Past(r, k))
        PROVE  job'[r] = [job[r] EXCEPT !.todo = @ \ {k}]
    BY <2>1, <1>a DEF SetJob, Past
  <2>2. ASSUME SetJob(r, Published(r)) PROVE job'[r] = [job[r] EXCEPT !.stage = "publish"]
    BY <2>2, <1>a DEF SetJob, Published
  <2>3. ASSUME End(r) PROVE FALSE
    BY <2>3, <1>a DEF End, SetJob
  <2>4. CASE PutObject(r) \/ DropObject(r) \/ DeleteObject(r)
    BY <2>1, <2>3, <2>4, <1>a DEF PutObject, DropObject, DeleteObject, Answered, Job
  <2>5. CASE Commits(r)
    <3>1. job'[r] = [job[r] EXCEPT !.stage = "publish"] \/ job'[r] = None
      BY <2>2, <2>3, <2>5, <1>a DEF Commits, CommitCreate, CommitUpdate, CommitDelete, Answered, SetJob
    <3> QED
      BY <3>1, <2>5, <1>a DEF Job
  <2>6. CASE WriteRefused(r) \/ CommitRefused(r) \/ Publish(r) \/ ApiError(r)
    BY <2>3, <2>6 DEF WriteRefused, CommitRefused, Publish, ApiError
  <2>7. CASE ReadStatus(r)
    <3>1. job[r].stage = "status" /\ job'[r] = [job[r] EXCEPT !.stage = "claim"]
      BY <2>3, <2>7, <1>a DEF ReadStatus, AtStage, SetJob
    <3> QED
      BY <3>1, <1>a DEF Job
  <2>8. CASE \E w \in Workers : Claim(r, w)
    BY <2>3, <2>8 DEF Claim
  <2> QED
    BY <1>5, <2>4, <2>5, <2>6, <2>7, <2>8 DEF Handler, Commits
<1> QED
  BY <1>1, <1>2, <1>3, <1>4, <1>5 DEF Step

LEMMA JobBegun ==
  ASSUME Owned, Step, NEW r \in Requests, job[r] = None, job'[r] # None
  PROVE  /\ crs' = crs /\ job'[r].stage # "publish"
         /\ job'[r].seen # None => job'[r].seen = crs[Lower[job'[r].name]]
         /\ job'[r].op = "sync" => job'[r].seen = crs[Lower[job'[r].name]]
         /\ job'[r].op = "delete" => job'[r].url = None
         /\ Lower[job'[r].name] \in CRNames
<1>a. job \in [Requests -> Job \cup {None}]
  BY DEF Owned, Carried, TypeOK
<1>1. CASE Client(r)
  <2>1. CASE CreateRepo(r)
    BY <1>a, <2>1, LowerTyped DEF CreateRepo, Begin, SetJob, NewJob, external
  <2>2. CASE UpdateRepo(r)
    BY <1>a, <2>2, LowerTyped DEF UpdateRepo, Begin, SetJob, NewJob, external
  <2>3. CASE DeleteRepo(r)
    BY <1>a, <2>3, LowerTyped, CRNamesAreLower DEF DeleteRepo, Begin, SetJob, NewJob, external
  <2>4. CASE SyncRepo(r)
    BY <1>a, <2>4, LowerTyped DEF SyncRepo, Begin, SetJob, NewJob, external
  <2> QED
    BY <1>1, <2>1, <2>2, <2>3, <2>4 DEF Client
<1>2. ASSUME NEW q \in Requests, Client(q), q # r PROVE FALSE
  BY <1>2, <1>a DEF Client, CreateRepo, UpdateRepo, DeleteRepo, SyncRepo, Begin, SetJob
<1>3. ASSUME NEW q \in Requests, Handler(q) PROVE FALSE
  <2>1. q # r
    BY <1>3 DEF Handler, PutObject, DropObject, DeleteObject, WriteRefused, CommitCreate,
       CommitUpdate, CommitDelete, CommitRefused, Publish, ApiError, ReadStatus, Claim,
       Turn, Ready, AtStage
  <2> QED
    BY <1>3, <1>a, <2>1 DEF Handler, PutObject, DropObject, DeleteObject, WriteRefused, CommitCreate,
       CommitUpdate, CommitDelete, CommitRefused, Publish, ApiError, ReadStatus, Claim,
       Answered, End, SetJob
<1>4. CASE SyncAllRepos \/ \E w \in Workers : Goroutine(w)
  BY <1>4 DEF SyncAllRepos, Goroutine, Resolve, Load, Store, Patch, Report, Amend
<1> QED
  BY <1>1, <1>2, <1>3, <1>4 DEF Step

\* Only a handler about a repository changes its CR.
LEMMA CRChanges ==
  ASSUME Owned, Step, NEW c \in CRNames, crs'[c] # crs[c]
  PROVE  \E r \in Requests : Commits(r) /\ Changes(r, c)
<1>a. crs \in [CRNames -> CR \cup {None}]
  BY DEF Owned, Carried, TypeOK
<1>1. PICK r \in Requests : Commits(r)
  BY DEF Step, Client, CreateRepo, UpdateRepo, DeleteRepo, SyncRepo, Handler, PutObject,
     DropObject, DeleteObject, WriteRefused, CommitRefused, Publish, ApiError, ReadStatus,
     Claim, Goroutine, Resolve, Load, Store, Patch, Report, Amend, SyncAllRepos, external, Commits
<1>2. job[r] # None /\ job[r].op \in {"create", "update", "delete"}
  BY <1>1 DEF Commits, CommitCreate, CommitUpdate, CommitDelete, Ready, AtStage
<1>3. Target(r) = c
  BY <1>1, <1>a DEF Commits, CommitCreate, CommitUpdate, CommitDelete
<1> QED
  BY <1>1, <1>2, <1>3 DEF Changes, Handles

\* After its own write to the CR, a handler knows the entry it has to make.
LEMMA CommitLeaves ==
  ASSUME Owned, JobsNamed, NEW r \in Requests, Commits(r),
         job[r].op = "update" => job[r].seen.display = job[r].name
  PROVE  job[r].url = Address(crs'[Target(r)], job[r].name)
<1>a. /\ job[r] # None /\ job[r] \in Job /\ Carries(job[r]) /\ Target(r) \in CRNames
      /\ crs \in [CRNames -> CR \cup {None}]
  BY JobsTyped DEF Commits, CommitCreate, CommitUpdate, CommitDelete, Ready, AtStage, Owned, Carried, TypeOK
<1>1. CASE CommitCreate(r)
  <2>1. job[r].op = "create" /\ crs'[Target(r)] = NewCR(job[r])
    BY <1>1, <1>a DEF CommitCreate, Ready, AtStage
  <2>2. NewCR(job[r]) # None /\ NewCR(job[r]).display = job[r].name /\ NewCR(job[r]).url = job[r].url
    BY <1>a, <2>1, NewCRTyped, Distinct DEF Carries, NewCR
  <2> QED
    BY <2>1, <2>2 DEF Address
<1>2. CASE CommitUpdate(r)
  <2> DEFINE e == [job[r].seen EXCEPT !.url = job[r].url]
  <2>1. job[r].op = "update" /\ crs'[Target(r)] = e
    BY <1>2, <1>a DEF CommitUpdate, Ready, AtStage
  <2>2. job[r].seen \in CR /\ job[r].url \in URLs
    BY <1>a, <2>1 DEF Carries
  <2>3. e \in CR /\ e.display = job[r].seen.display /\ e.url = job[r].url
    BY <2>2 DEF CR
  <2>4. e # None
    BY <2>3, Distinct
  <2> HIDE DEF e
  <2> QED
    BY <2>1, <2>3, <2>4 DEF Address
<1>3. CASE CommitDelete(r)
  <2>1. job[r].op = "delete" /\ crs'[Target(r)] = None
    BY <1>3, <1>a DEF CommitDelete, Ready, AtStage
  <2> QED
    BY <1>a, <2>1 DEF JobsNamed, Address
<1> QED
  BY <1>1, <1>2, <1>3 DEF Commits

\* A goroutine that loads c's index was loading it before, or has a copy of
\* the CR from a handler of a sync, or a new one.
LEMMA RunLoads ==
  ASSUME Owned, JobsNamed, Step, NEW c \in CRNames, NEW w \in Workers, Loads(w, c)'
  PROVE  \/ Loads(w, c) /\ run'[w].seen = run[w].seen
         \/ run'[w].seen = crs[c] /\ crs' = crs
         \/ \E r \in Requests : /\ Handles(r, c) /\ job[r].op = "sync"
                               /\ run'[w].seen = job[r].seen /\ crs' = crs
<1>a. /\ run \in [Workers -> Run \cup {None}]
      /\ run'[w] # None /\ run'[w].stage \in {"resolve", "store"}
      /\ Lower[run'[w].seen.display] = c
  BY DEF Owned, Carried, TypeOK, Loads
<1>1. CASE run'[w] = run[w]
  BY <1>1, <1>a DEF Loads
<1>2. ASSUME NEW r \in Requests, NEW v \in Workers, Claim(r, v), v = w
      PROVE  Handles(r, c) /\ job[r].op = "sync" /\ run'[w].seen = job[r].seen /\ crs' = crs
  <2>1. /\ job[r] # None /\ job[r].op = "sync" /\ crs' = crs /\ Carries(job[r])
        /\ run'[w] = NewRun(job[r].seen, job[r].name)
    BY <1>2, <1>a, JobsTyped DEF Claim, AtStage, SetRun, external
  <2>2. run'[w].seen = job[r].seen /\ job[r].seen # None
    BY <2>1, Distinct DEF NewRun, Carries
  <2> QED
    BY <1>a, <2>1, <2>2 DEF JobsNamed, Handles
<1>3. ASSUME SyncAllRepos, run'[w] # run[w] PROVE run'[w].seen = crs[c] /\ crs' = crs
  <2>1. PICK at \in Spread(run) : run' = Started(at, run)
    BY <1>3 DEF SyncAllRepos, StartAll
  <2>2. /\ run'[w] = NewRun(crs[at[w]], None) /\ at[w] # None
        /\ at[w] \in CRNames /\ crs[at[w]] # None
    BY <1>3, <2>1 DEF Started, Spread
  <2>3. run'[w].seen = crs[at[w]] /\ Lower[crs[at[w]].display] = at[w]
    BY <2>2 DEF NewRun, Owned, NamesMatch
  <2> QED
    BY <1>3, <1>a, <2>3 DEF SyncAllRepos, external
<1>4. ASSUME NEW v \in Workers, Goroutine(v), run'[w] # run[w]
      PROVE  Loads(w, c) /\ run'[w].seen = run[w].seen
  <2>1. v = w
    BY <1>4, <1>a DEF Goroutine, Resolve, Load, Store, Patch, Report, Amend, Finish, SetRun
  <2>2. CASE Resolve(w)
    <3>1. run[w] # None /\ run[w] \in Run /\ run[w].stage = "resolve"
      BY <2>2, <1>a DEF Resolve, RunAt
    <3>2. ASSUME Finish(w, TRUE) PROVE FALSE
      BY <3>1, <3>2, <1>a DEF Finish, SetRun, Run
    <3>3. \E k \in Kinds : SetRun(w, [run[w] EXCEPT !.todo = @ \ {k}])
      BY <2>2, <3>1, <3>2, FirstIn DEF Resolve, Run
    <3> QED
      BY <3>1, <3>3, <1>a DEF SetRun, Run, Loads
  <2>3. CASE Load(w)
    <3>1. run[w] # None /\ run[w] \in Run /\ run[w].stage = "resolve"
      BY <2>3, <1>a DEF Load, RunAt
    <3>2. ASSUME Finish(w, TRUE) PROVE FALSE
      BY <3>1, <3>2, <1>a DEF Finish, SetRun, Run
    <3>3. SetRun(w, [run[w] EXCEPT !.stage = "store"])
      BY <2>3, <3>2 DEF Load
    <3> QED
      BY <3>1, <3>3, <1>a DEF SetRun, Run, Loads
  <2>4. CASE Store(w) \/ Report(w) \/ Amend(w)
    BY <2>4, <1>a DEF Store, Report, Amend, SetRun, RunAt, Run
  <2>5. CASE Patch(w)
    BY <2>5, <1>a DEF Patch, Finish, SetRun, RunAt, Run
  <2> QED
    BY <1>4, <2>1, <2>2, <2>3, <2>4, <2>5 DEF Goroutine
<1>5. ASSUME NEW r \in Requests, Client(r) PROVE run' = run
  BY <1>5 DEF Client, CreateRepo, UpdateRepo, DeleteRepo, SyncRepo, local
<1>6. ASSUME NEW r \in Requests, Handler(r), run'[w] # run[w] PROVE Claim(r, w)
  BY <1>6, <1>a DEF Handler, PutObject, DropObject, DeleteObject, WriteRefused, CommitCreate,
     CommitUpdate, CommitDelete, CommitRefused, Publish, ApiError, ReadStatus, Claim, SetRun, local
<1> QED
  BY <1>1, <1>2, <1>3, <1>4, <1>5, <1>6 DEF Step

\* The entry under n changes in no other step.
LEMMA WritesAre ==
  ASSUME Owned, Step, NEW n \in Names
  PROVE  \/ cache'[n] = cache[n]
         \/ \E r \in Requests : Publishes(r, n)
         \/ \E w \in Workers : Stores(w, n)
<1>a. /\ job \in [Requests -> Job \cup {None}] /\ run \in [Workers -> Run \cup {None}]
      /\ cache \in [Names -> URLs \cup {None}]
  BY DEF Owned, Carried, TypeOK
<1>1. ASSUME NEW r \in Requests, Publish(r), cache'[n] # cache[n] PROVE Publishes(r, n)
  BY <1>1, <1>a DEF Publish, Publishes, Publishing, End, SetJob
<1>2. ASSUME NEW w \in Workers, Store(w), cache'[n] # cache[n] PROVE Stores(w, n)
  <2>1. run[w] \in Run /\ run[w].stage = "store" /\ run'[w].stage = "patch"
    BY <1>2, <1>a DEF Store, RunAt, SetRun, Run
  <2> QED
    BY <1>2, <1>a, <2>1 DEF Store, Stores
<1>3. ASSUME \A r \in Requests : ~Publish(r), \A w \in Workers : ~Store(w) PROVE cache' = cache
  BY <1>3 DEF Step, Client, CreateRepo, UpdateRepo, DeleteRepo, SyncRepo, Handler, PutObject,
     DropObject, DeleteObject, WriteRefused, CommitCreate, CommitUpdate, CommitDelete,
     CommitRefused, ApiError, ReadStatus, Claim, Goroutine, Resolve, Load, Patch, Report, Amend,
     SyncAllRepos, local
<1> QED
  BY <1>1, <1>2, <1>3

\* What the two kinds of writers put there.
LEMMA PublishPuts ==
  ASSUME Owned, Step, NEW r \in Requests, NEW n \in Names, Publishes(r, n)
  PROVE  cache'[n] = job[r].url /\ crs' = crs
<1>a. job \in [Requests -> Job \cup {None}] /\ cache \in [Names -> URLs \cup {None}]
  BY DEF Owned, Carried, TypeOK
<1>b. job[r] # None /\ job[r].stage = "publish" /\ job[r].name = n /\ job'[r] = None
      /\ job[r].op \in {"create", "update", "delete"}
  BY DEF Publishes, Publishing, AtStage
<1>1. ASSUME NEW q \in Requests, Client(q) PROVE FALSE
  <2>1. \E j \in Job : Begin(q, j)
    BY <1>1, NewJobTyped, LowerTyped, CRNamesAreLower DEF Client, CreateRepo, UpdateRepo, DeleteRepo,
       SyncRepo, Owned, Carried, TypeOK
  <2> QED
    BY <2>1, <1>a, <1>b, NoneNoRecord DEF Begin, SetJob
<1>2. ASSUME NEW q \in Requests, Handler(q), q # r PROVE FALSE
  BY <1>2, <1>a, <1>b DEF Handler, PutObject, DropObject, DeleteObject, WriteRefused, CommitCreate,
     CommitUpdate, CommitDelete, CommitRefused, Publish, ApiError, ReadStatus, Claim,
     Answered, End, SetJob
<1>3. CASE Handler(r)
  BY <1>3, <1>a, <1>b DEF Handler, PutObject, DropObject, DeleteObject, WriteRefused, CommitCreate,
     CommitUpdate, CommitDelete, CommitRefused, Publish, ApiError, ReadStatus, Claim,
     Turn, Ready, AtStage, external
<1>4. CASE SyncAllRepos \/ \E w \in Workers : Goroutine(w)
  BY <1>4, <1>b DEF SyncAllRepos, Goroutine, Resolve, Load, Store, Patch, Report, Amend
<1> QED
  BY <1>1, <1>2, <1>3, <1>4 DEF Step

LEMMA StorePuts ==
  ASSUME Owned, Step, NEW w \in Workers, NEW n \in Names, Stores(w, n)
  PROVE  cache'[n] = run[w].seen.url /\ crs' = crs /\ (\A r \in Requests : ~Publishes(r, n))
<1>a. run \in [Workers -> Run \cup {None}] /\ cache \in [Names -> URLs \cup {None}]
  BY DEF Owned, Carried, TypeOK
<1>b. run[w] # None /\ run[w].stage = "store" /\ run[w].seen.display = n /\ run'[w] # run[w]
  BY DEF Stores, RunAt
<1>1. ASSUME NEW q \in Requests, Client(q) \/ Handler(q) PROVE FALSE
  BY <1>1, <1>a, <1>b DEF Client, CreateRepo, UpdateRepo, DeleteRepo, SyncRepo, Handler, PutObject,
     DropObject, DeleteObject, WriteRefused, CommitCreate, CommitUpdate, CommitDelete,
     CommitRefused, Publish, ApiError, ReadStatus, Claim, SetRun, local
<1>2. CASE SyncAllRepos
  <2>1. PICK at \in Spread(run) : run' = Started(at, run)
    BY <1>2 DEF SyncAllRepos, StartAll
  <2> QED
    BY <2>1, <1>b DEF Spread, Started
<1>3. ASSUME NEW v \in Workers, Goroutine(v), v # w PROVE FALSE
  BY <1>3, <1>a, <1>b DEF Goroutine, Resolve, Load, Store, Patch, Report, Amend, Finish, SetRun
<1>4. CASE Goroutine(w)
  <2>1. Store(w)
    BY <1>4, <1>b DEF Goroutine, Resolve, Load, Patch, Report, Amend, RunAt
  <2>2. job' = job
    BY <2>1 DEF Store
  <2> QED
    BY <2>1, <2>2, <1>a, <1>b DEF Store, external, Publishes, Publishing, AtStage
<1> QED
  BY <1>1, <1>2, <1>3, <1>4 DEF Step

\* What the steps below start from and have to keep.
Mirroring == Owned /\ MirrorInv

\* As long as an operation about c is in flight, c's overlap is remembered.
LEMMA StaysMixed ==
  ASSUME Overlaps, NEW c \in mixed, c \in CRNames,
         \/ \E r \in Requests : job'[r] # None /\ Lower[job'[r].name] = c
         \/ \E w \in Workers : Loads(w, c)'
  PROVE  c \in mixed'
BY DEF Overlaps, AtRest, Handles, Target

\* Another operation about a repository whose CR changes is crowded out.
LEMMA ChangeIsAlone ==
  ASSUME Mirroring, Step, NEW c \in CRNames \ mixed, crs'[c] # crs[c]
  PROVE  /\ \E r \in Requests : Commits(r) /\ Changes(r, c) /\ \A q \in Requests : Handles(q, c) => q = r
         /\ \A w \in Workers : ~Loads(w, c)
BY CRChanges DEF Mirroring, MirrorInv, Crowded

LEMMA JobsCurrentStep ==
  ASSUME Mirroring, Step, Overlaps
  PROVE  JobsCurrent' /\ JobsNamed'
<1>a. Owned /\ JobsNamed /\ JobsCurrent /\ mixed \subseteq CRNames
  BY DEF Mirroring, MirrorInv
<1>1. JobsNamed'
  <2> SUFFICES ASSUME NEW r \in Requests, job'[r] # None
               PROVE  /\ job'[r].seen # None => Lower[job'[r].seen.display] = Lower[job'[r].name]
                      /\ job'[r].op = "delete" => job'[r].url = None
    BY DEF JobsNamed, Target
  <2>1. CASE job[r] = None
    <3> PICK c : c = Lower[job'[r].name]
      OBVIOUS
    <3>1. c \in CRNames /\ (job'[r].seen # None => job'[r].seen = crs[c])
          /\ (job'[r].op = "delete" => job'[r].url = None)
      BY <1>a, <2>1, JobBegun
    <3> QED
      BY <1>a, <3>1 DEF Owned, NamesMatch
  <2>2. CASE job[r] # None
    BY <1>a, <2>2, JobKept DEF JobsNamed, Target
  <2> QED
    BY <2>1, <2>2
<1>2. JobsCurrent'
  <2> SUFFICES ASSUME NEW r \in Requests, NEW c, job'[r] # None, c = Lower[job'[r].name],
                      c \notin mixed'
               PROVE  Current(job'[r], crs'[c])
    BY DEF JobsCurrent, Target
  <2>1. CASE job[r] = None
    <3>1. /\ crs' = crs /\ job'[r].stage # "publish"
          /\ job'[r].op = "sync" => job'[r].seen = crs[c]
      BY <1>a, <2>1, JobBegun
    <3> QED
      BY <3>1 DEF Current
  <2>2. CASE job[r] # None
    <3>1. /\ job'[r].op = job[r].op /\ job'[r].name = job[r].name
          /\ job'[r].url = job[r].url /\ job'[r].seen = job[r].seen
          /\ job'[r].stage = "publish" => job[r].stage = "publish" \/ Commits(r)
      BY <1>a, <2>2, JobKept
    <3>2. c \in CRNames /\ Target(r) = c /\ Handles(r, c)
      BY <1>a, <2>2, <3>1, JobsTyped DEF Target, Handles
    <3>3. c \notin mixed
      BY <3>2, StaysMixed
    <3>4. Current(job[r], crs[c])
      BY <1>a, <2>2, <3>2, <3>3 DEF JobsCurrent
    <3>5. CASE crs'[c] = crs[c] /\ ~Commits(r)
      BY <3>1, <3>4, <3>5 DEF Current
    <3>6. CASE Commits(r)
      <4>1. job[r].op # "sync"
        BY <3>6 DEF Commits, CommitCreate, CommitUpdate, CommitDelete, Ready, AtStage
      <4> QED
        BY <1>a, <3>1, <3>2, <3>6, <4>1, CommitLeaves DEF Current
    <3>7. CASE crs'[c] # crs[c] /\ ~Commits(r)
      BY <3>2, <3>3, <3>7, ChangeIsAlone
    <3> QED
      BY <3>5, <3>6, <3>7
  <2> QED
    BY <2>1, <2>2
<1> QED
  BY <1>1, <1>2

LEMMA RunsCurrentStep ==
  ASSUME Mirroring, Step, Overlaps
  PROVE  RunsCurrent'
<1>a. Owned /\ JobsNamed /\ JobsCurrent /\ RunsCurrent
  BY DEF Mirroring, MirrorInv
<1> SUFFICES ASSUME NEW c \in CRNames, c \notin mixed', NEW w \in Workers, Loads(w, c)'
             PROVE  run'[w].seen = crs'[c]
  BY DEF RunsCurrent
<1>1. c \notin mixed
  BY StaysMixed
<1>2. CASE Loads(w, c) /\ run'[w].seen = run[w].seen
  <2>1. run[w].seen = crs[c]
    BY <1>a, <1>1, <1>2 DEF RunsCurrent
  <2>2. crs'[c] = crs[c]
    BY <1>1, <1>2, ChangeIsAlone
  <2> QED
    BY <1>2, <2>1, <2>2
<1>3. CASE \E r \in Requests : /\ Handles(r, c) /\ job[r].op = "sync"
                            /\ run'[w].seen = job[r].seen /\ crs' = crs
  BY <1>a, <1>1, <1>3 DEF JobsCurrent, Handles, Current
<1> QED
  BY <1>a, <1>2, <1>3, RunLoads

LEMMA VouchedStep ==
  ASSUME Mirroring, Step, Vouches
  PROVE  CacheMirrorsCRs'
<1>a. /\ Owned /\ JobsNamed /\ JobsCurrent /\ RunsCurrent /\ CacheMirrorsCRs
      /\ job \in [Requests -> Job \cup {None}]
  BY DEF Mirroring, MirrorInv, Owned, Carried, TypeOK
<1> SUFFICES ASSUME NEW n \in vouched'
             PROVE  \/ cache'[n] = Address(crs'[Lower[n]], n)
                    \/ \E r \in Requests : Publishing(r, n)'
  BY DEF CacheMirrorsCRs
<1>b. n \in Names /\ Lower[n] \in CRNames
  BY LowerTyped DEF Vouches
<1>1. ASSUME NEW r \in Requests, Publishes(r, n)
      PROVE  cache'[n] = Address(crs'[Lower[n]], n)
  <2>1. Lower[n] \notin mixed /\ (job[r].op = "update" => job[r].seen.display = n)
    BY <1>1 DEF Vouches, Writes, Spelled
  <2>2. job[r] # None /\ Target(r) = Lower[n] /\ job[r].name = n /\ job[r].stage = "publish"
    BY <1>1 DEF Publishes, Publishing, AtStage, Target
  <2>3. Current(job[r], crs[Lower[n]])
    BY <1>a, <2>1, <2>2 DEF JobsCurrent
  <2> QED
    BY <1>a, <1>b, <1>1, <2>1, <2>2, <2>3, PublishPuts DEF Current
<1>2. ASSUME NEW w \in Workers, Stores(w, n)
      PROVE  cache'[n] = Address(crs'[Lower[n]], n)
  <2>1. Lower[n] \notin mixed
    BY <1>2 DEF Vouches, Writes
  <2>2. Loads(w, Lower[n]) /\ run[w].seen.display = n
    BY <1>2 DEF Stores, RunAt, Loads
  <2>3. run[w].seen = crs[Lower[n]]
    BY <1>a, <1>b, <2>1, <2>2 DEF RunsCurrent
  <2>4. run[w].seen # None
    BY <1>a, <2>2, Distinct DEF Owned, Carried, TypeOK, Loads, Run
  <2> QED
    BY <1>a, <1>b, <1>2, <2>2, <2>3, <2>4, StorePuts DEF Address
<1>3. CASE ~Writes(n)
  <2>1. n \in vouched /\ Followed(n)
    BY <1>3 DEF Vouches
  <2>2. cache'[n] = cache[n]
    BY <1>a, <1>b, <1>3, WritesAre DEF Writes
  <2>3. CASE Address(crs'[Lower[n]], n) = Address(crs[Lower[n]], n)
    <3>1. CASE cache[n] = Address(crs[Lower[n]], n)
      BY <2>2, <2>3, <3>1
    <3>2. ASSUME NEW r \in Requests, Publishing(r, n) PROVE Publishing(r, n)'
      <4>1. job[r] # None /\ job[r].stage = "publish" /\ job'[r] # None
        BY <1>3, <3>2 DEF Writes, Publishes, Publishing, AtStage
      <4>2. job'[r].op = job[r].op /\ job'[r].name = job[r].name
        BY <1>a, <4>1, JobKept
      <4>3. job'[r].stage = "publish"
        BY <1>a, <3>2, <4>1, JobKept
      <4> QED
        BY <3>2, <4>1, <4>2, <4>3 DEF Publishing, AtStage
    <3> QED
      BY <1>a, <2>1, <3>1, <3>2 DEF CacheMirrorsCRs
  <2> QED
    BY <2>1, <2>3 DEF Followed
<1> QED
  BY <1>1, <1>2, <1>3 DEF Writes

\* What a boot starts from.
LEMMA BootMirrors ==
  ASSUME IInv, crs' = crs, job' = NoJobs, cache' = NoEntries, mixed' = {}, vouched' = Unregistered,
         run' = NoRuns \/ StartAll(NoRuns)
  PROVE  /\ \A c \in CRNames : ~Crowded(c)'
         /\ JobsNamed' /\ JobsCurrent' /\ RunsCurrent' /\ CacheMirrorsCRs'
<1>1. /\ \A c \in CRNames : ~Crowded(c)'
      /\ JobsNamed' /\ JobsCurrent'
  BY DEF Crowded, Changes, Handles, JobsNamed, JobsCurrent, NoJobs
<1>2. CacheMirrorsCRs'
  BY DEF CacheMirrorsCRs, Unregistered, NoEntries
<1>3. RunsCurrent'
  <2> SUFFICES ASSUME NEW c \in CRNames, NEW w \in Workers, Loads(w, c)'
               PROVE  run'[w].seen = crs[c]
    BY DEF RunsCurrent
  <2>1. PICK at \in Spread(NoRuns) : run' = Started(at, NoRuns)
    BY DEF Loads, NoRuns, StartAll
  <2>2. /\ run'[w] = NewRun(crs[at[w]], None) /\ at[w] # None
        /\ at[w] \in CRNames /\ crs[at[w]] # None
    BY <2>1 DEF Started, Spread, NoRuns, Loads
  <2>3. run'[w].seen = crs[at[w]] /\ Lower[crs[at[w]].display] = at[w]
    BY <2>2 DEF NewRun, IInv, NamesMatch
  <2> QED
    BY <2>3 DEF Loads
<1> QED
  BY <1>1, <1>2, <1>3

LEMMA MirrorStart == MirrorInit => MirrorInv
<1> SUFFICES ASSUME MirrorInit PROVE MirrorInv
  OBVIOUS
<1>1. IInv
  BY OwnedInit, InProgressInit DEF MirrorInit, Owned, IInv
<1>2. job = NoJobs /\ cache = NoEntries /\ mixed = {} /\ vouched = Unregistered
  BY DEF MirrorInit, Init
<1>3. (\A c \in CRNames : ~Crowded(c)) /\ JobsNamed /\ JobsCurrent
  BY <1>2 DEF Crowded, Changes, Handles, JobsNamed, JobsCurrent, NoJobs
<1>4. CacheMirrorsCRs
  BY <1>2 DEF CacheMirrorsCRs, Unregistered, NoEntries
<1>5. RunsCurrent
  <2> SUFFICES ASSUME NEW c \in CRNames, NEW w \in Workers, Loads(w, c)
               PROVE  run[w].seen = crs[c]
    BY DEF RunsCurrent
  <2>1. PICK at \in Spread(NoRuns) : run = Started(at, NoRuns)
    BY DEF MirrorInit, Init
  <2>2. run[w] = NewRun(crs[at[w]], None) /\ at[w] \in CRNames /\ crs[at[w]] # None
    BY <2>1 DEF Started, Spread, NoRuns, Loads
  <2>3. run[w].seen = crs[at[w]] /\ Lower[crs[at[w]].display] = at[w]
    BY <1>1, <2>2 DEF NewRun, IInv, NamesMatch
  <2> QED
    BY <2>3 DEF Loads
<1> QED
  BY <1>1, <1>2, <1>3, <1>4, <1>5 DEF MirrorInv

LEMMA MirrorStep == MirrorInv /\ [MirrorNext]_<<vars, history>> => MirrorInv'
<1> SUFFICES ASSUME MirrorInv, [MirrorNext]_<<vars, history>> PROVE MirrorInv'
  OBVIOUS
<1>a. IInv /\ Owned /\ Mirroring
  BY DEF MirrorInv, IInv, Owned, Mirroring
<1>1. [Next]_vars
  BY DEF MirrorNext, Next
<1>2. IInv'
  BY <1>a, <1>1, OwnedStep, InProgressStep DEF Owned, IInv
<1>3. CASE Step /\ Overlaps /\ Vouches
  <2>1. mixed' \subseteq CRNames /\ \A c \in CRNames : Crowded(c)' => c \in mixed'
    BY <1>3 DEF Overlaps
  <2> QED
    BY <1>a, <1>2, <1>3, <2>1, JobsCurrentStep, RunsCurrentStep, VouchedStep DEF MirrorInv
<1>4. CASE Restart /\ mixed' = {} /\ vouched' = Unregistered
  BY <1>a, <1>2, <1>4, BootMirrors DEF Restart, external, MirrorInv
<1>5. CASE UNCHANGED <<vars, history>>
  <2>1. /\ \A c \in CRNames : Crowded(c)' => c \in mixed'
        /\ JobsNamed' /\ JobsCurrent' /\ RunsCurrent'
    BY <1>5 DEF vars, history, MirrorInv, Crowded, Changes, Handles, Loads, Target, JobsNamed,
       JobsCurrent, RunsCurrent
  <2>2. CacheMirrorsCRs'
    BY <1>5 DEF vars, history, MirrorInv, CacheMirrorsCRs, Publishing, AtStage
  <2> QED
    BY <1>2, <1>5, <2>1, <2>2 DEF MirrorInv, history
<1> QED
  BY <1>3, <1>4, <1>5 DEF MirrorNext

(***************************************************************************)
(* For any names and spellings, any number of handlers and goroutines that *)
(* interleave in any order, whatever fails, loses its answer or restarts:  *)
(* an operation that had a repository to itself leaves the cache entry     *)
(* that the CR asks for, and it stays until the CR moves without it.       *)
(***************************************************************************)
THEOREM AloneMirrors == MirrorSpec => []CacheMirrorsCRs
<1>1. MirrorInv => CacheMirrorsCRs
  BY DEF MirrorInv
<1> QED
  BY <1>1, MirrorStart, MirrorStep, PTL DEF MirrorSpec

(***************************************************************************)
(* The history variables add no step to the program's: a behaviour with    *)
(* them is one of Spec, so that what is proved of Spec holds of it.        *)
(***************************************************************************)
LEMMA MirrorIsSpec == MirrorSpec => Spec
<1>1. MirrorInit => Init
  BY DEF MirrorInit
<1>2. [MirrorNext]_<<vars, history>> => [Next]_vars
  BY DEF MirrorNext, Next
<1> QED
  BY <1>1, <1>2, PTL DEF MirrorSpec, Spec
=============================================================================
