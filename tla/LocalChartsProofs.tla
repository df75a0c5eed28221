-------------------------- MODULE LocalChartsProofs --------------------------
(***************************************************************************)
(* Theorems about LocalCharts, for any charts, limit and finite number of  *)
(* handlers.                                                               *)
(***************************************************************************)
EXTENDS LocalCharts, FiniteSetTheorems, TLAPS

-----------------------------------------------------------------------------
(* Types.  A handler or a goroutine is changed in one place at a time.     *)

LEMMA InFlightFinite ==
  /\ IsFiniteSet(InFlight)
  /\ Cardinality(InFlight) \in Nat
  /\ Cardinality(Requests) \in Nat
  /\ Cardinality(InFlight) <= Cardinality(Requests)
<1>1. InFlight \subseteq Requests
  BY DEF InFlight
<1> QED
  BY <1>1, RequestsAssumption, FS_Subset, FS_CardinalityType

LEMMA InitTypeOK == Init => TypeOK
<1>1. NewRun(FALSE) \in Run
  BY DEF NewRun, Run
<1> QED
  BY <1>1 DEF Init, TypeOK

LEMMA ClientTypeOK ==
  ASSUME TypeOK, NEW r \in Requests, Client(r)
  PROVE  TypeOK'
<1>1. [stage |-> "status", chart |-> None] \in Job
  BY DEF Job
<1>2. CASE UploadCheck(r)
  <2>1. PICK c \in Charts : job' = [job EXCEPT ![r] = [stage |-> "upload", chart |-> c]]
    BY <1>2 DEF UploadCheck
  <2>2. [stage |-> "upload", chart |-> c] \in Job
    BY NoneAssumption DEF Job
  <2> QED
    BY <1>2, <2>1, <2>2 DEF TypeOK, UploadCheck, served
<1>3. CASE Delete(r)
  BY <1>1, <1>3 DEF TypeOK, Delete, served
<1>4. CASE Sync(r)
  BY <1>1, <1>4 DEF TypeOK, Sync, served
<1> QED
  BY <1>2, <1>3, <1>4 DEF Client

LEMMA GotoTypeOK ==
  ASSUME TypeOK, NEW r \in Requests, job[r] # None,
         NEW s \in {"status", "claim"}, Goto(r, s) \/ End(r)
  PROVE  job' \in [Requests -> Job \cup {None}]
<1>1. job[r] \in Job
  BY DEF TypeOK
<1>2. [job[r] EXCEPT !.stage = s] \in Job
  BY <1>1 DEF Job
<1> QED
  BY <1>2 DEF TypeOK, Goto, End

LEMMA HandlerTypeOK ==
  ASSUME TypeOK, NEW r \in Requests, Handler(r)
  PROVE  TypeOK'
<1>1. CASE Upload(r)
  <2>1. job[r] # None /\ job[r].stage = "upload"
    BY <1>1 DEF Upload, At
  <2>2. job[r] \in Job
    BY <2>1 DEF TypeOK
  <2>3. job[r].chart \in Charts
    BY <2>1, <2>2 DEF Job
  <2>4. job' \in [Requests -> Job \cup {None}]
    BY <1>1, <2>1, GotoTypeOK DEF Upload
  <2>5. harbor' \subseteq Charts
    BY <1>1, <2>3 DEF Upload, TypeOK
  <2> QED
    BY <1>1, <2>4, <2>5 DEF Upload, TypeOK, served
<1>2. CASE ReadStatus(r)
  <2>1. job' \in [Requests -> Job \cup {None}]
    BY <1>2, GotoTypeOK DEF ReadStatus, At
  <2> QED
    BY <1>2, <2>1 DEF ReadStatus, TypeOK, served
<1>3. ASSUME NEW w \in Workers, Claim(r, w) PROVE TypeOK'
  <2>1. NewRun(TRUE) \in Run
    BY DEF NewRun, Run
  <2> QED
    BY <1>3, <2>1 DEF Claim, End, TypeOK, served
<1> QED
  BY <1>1, <1>2, <1>3 DEF Handler

LEMMA FinishTypeOK ==
  ASSUME TypeOK, NEW w \in Workers, run[w] # None, NEW err \in BOOLEAN, Finish(w, err)
  PROVE  run' \in [Workers -> Run \cup {None}]
<1>1. run[w] \in Run
  BY DEF TypeOK
<1>2. [run[w] EXCEPT !.stage = "report", !.err = err] \in Run
  BY <1>1 DEF Run
<1> QED
  BY <1>2 DEF TypeOK, Finish

LEMMA GoroutineTypeOK ==
  ASSUME TypeOK, NEW w \in Workers, Goroutine(w)
  PROVE  TypeOK'
<1>1. run[w] # None /\ run[w] \in Run
  BY DEF Goroutine, Load, Store, Report, Amend, RunAt, TypeOK
<1>2. CASE Load(w)
  <2>1. [run[w] EXCEPT !.stage = "store", !.got = harbor] \in Run
    BY <1>1 DEF Run, TypeOK
  <2>2. CASE run' = [run EXCEPT ![w].stage = "store", ![w].got = harbor]
    <3>1. run' = [run EXCEPT ![w] = [run[w] EXCEPT !.stage = "store", !.got = harbor]]
      BY <1>1, <2>2 DEF TypeOK
    <3> QED
      BY <1>2, <2>1, <3>1 DEF Load, TypeOK, served
  <2>3. CASE Finish(w, TRUE)
    BY <1>1, <1>2, <2>3, FinishTypeOK DEF Load, TypeOK, served
  <2> QED
    BY <1>2, <2>2, <2>3 DEF Load
<1>3. CASE Store(w)
  <2>1. run' \in [Workers -> Run \cup {None}]
    BY <1>1, <1>3, FinishTypeOK DEF Store
  <2>2. run[w].got \subseteq Charts
    BY <1>1 DEF Run
  <2> QED
    BY <1>3, <2>1, <2>2 DEF Store, TypeOK
<1>4. CASE Report(w)
  <2>1. [run[w] EXCEPT !.stage = "amend"] \in Run
    BY <1>1 DEF Run
  <2>2. run' \in [Workers -> Run \cup {None}]
    BY <1>4, <2>1 DEF Report, TypeOK
  <2> QED
    BY <1>4, <2>2 DEF Report, TypeOK, served
<1>5. CASE Amend(w)
  BY <1>5 DEF Amend, TypeOK, served
<1> QED
  BY <1>2, <1>3, <1>4, <1>5 DEF Goroutine

LEMMA RestartTypeOK ==
  ASSUME TypeOK, Restart
  PROVE  TypeOK'
<1>1. NewRun(FALSE) \in Run
  BY DEF NewRun, Run
<1> QED
  BY <1>1 DEF Restart, TypeOK

LEMMA NextTypeOK == TypeOK /\ [Next]_vars => TypeOK'
<1>1. ASSUME TypeOK, UNCHANGED vars PROVE TypeOK'
  BY <1>1 DEF TypeOK, vars, served
<1> QED
  BY <1>1, ClientTypeOK, HandlerTypeOK, GoroutineTypeOK, RestartTypeOK DEF Next

(***************************************************************************)
(* The quota, the chart versions and the states of handlers and goroutines *)
(* stay in their ranges.                                                   *)
(***************************************************************************)
THEOREM TypeCorrect == Spec => []TypeOK
BY InitTypeOK, NextTypeOK, PTL DEF Spec

-----------------------------------------------------------------------------
(* The quota. *)

LEMMA ReservedBound ==
  ASSUME Reserved
  PROVE  Cardinality(harbor) \in Nat /\ QuotaBound
<1>1. Cardinality(harbor) \in Nat
  BY FS_CardinalityType DEF Reserved
<1> QED
  BY <1>1, InFlightFinite, LimitAssumption DEF Reserved, QuotaBound

\* A step that adds nothing to Harbor and no upload to those in flight.
LEMMA ReservedShrinks ==
  ASSUME Reserved, harbor' \subseteq harbor, InFlight' \subseteq InFlight
  PROVE  Reserved'
<1>1. IsFiniteSet(harbor') /\ Cardinality(harbor') <= Cardinality(harbor)
  BY FS_Subset DEF Reserved
<1>2. Cardinality(InFlight') \in Nat /\ Cardinality(InFlight') <= Cardinality(InFlight)
  BY InFlightFinite, FS_Subset, FS_CardinalityType
<1>3. Cardinality(harbor) \in Nat /\ Cardinality(harbor') \in Nat
  BY <1>1, FS_CardinalityType DEF Reserved
<1> QED
  BY <1>1, <1>2, <1>3, InFlightFinite, LimitAssumption DEF Reserved

LEMMA InitReserved == Init => Reserved
<1> SUFFICES ASSUME Init PROVE Reserved
  OBVIOUS
<1>1. InFlight = {}
  BY DEF Init, InFlight, At
<1>2. IsFiniteSet({}) /\ Cardinality({}) = 0
  BY FS_EmptySet
<1> QED
  BY <1>1, <1>2, InFlightFinite, LimitAssumption DEF Init, Reserved

\* The check counts what Harbor holds, and one more upload is in flight.
LEMMA CheckReserves ==
  ASSUME "garbled" \notin Faults, Reserved, NEW r \in Requests, UploadCheck(r)
  PROVE  Reserved'
<1>1. ~(Cardinality(harbor) > Limit)
  BY DEF UploadCheck, Counts
<1>2. Cardinality(harbor) \in Nat
  BY ReservedBound
<1>3. InFlight' \subseteq Requests
  BY DEF InFlight
<1>4. Cardinality(InFlight') \in Nat /\ Cardinality(InFlight') <= Cardinality(Requests)
  BY <1>3, RequestsAssumption, FS_Subset, FS_CardinalityType
<1>5. harbor' = harbor
  BY DEF UploadCheck
<1> QED
  BY <1>1, <1>2, <1>4, <1>5, InFlightFinite, LimitAssumption DEF Reserved

\* An upload that ends has at most one version to show for it.
LEMMA UploadReserves ==
  ASSUME TypeOK, Reserved, NEW r \in Requests, Upload(r)
  PROVE  Reserved'
<1>1. job[r] # None /\ job[r] \in Job /\ r \in InFlight
  BY DEF Upload, At, TypeOK, InFlight
<1>2. InFlight' \subseteq InFlight \ {r}
  <2>1. job'[r] = None \/ job'[r].stage = "status"
    BY <1>1 DEF Upload, Goto, End, TypeOK, Job
  <2>2. \A q \in Requests \ {r} : job'[q] = job[q]
    BY DEF Upload, Goto, End, TypeOK
  <2> QED
    BY <2>1, <2>2 DEF InFlight, At
<1>3. CASE harbor' = harbor
  BY <1>2, <1>3, ReservedShrinks
<1>4. CASE harbor' = harbor \cup {job[r].chart}
  <2>0. IsFiniteSet(harbor) /\ Cardinality(harbor) \in Nat
    BY FS_CardinalityType DEF Reserved
  <2>1. IsFiniteSet(harbor') /\ Cardinality(harbor') <= Cardinality(harbor) + 1
    BY <1>4, <2>0, FS_AddElement
  <2>2. IsFiniteSet(InFlight \ {r}) /\ Cardinality(InFlight \ {r}) = Cardinality(InFlight) - 1
    BY <1>1, InFlightFinite, FS_RemoveElement
  <2>3. Cardinality(InFlight') \in Nat /\ Cardinality(InFlight') <= Cardinality(InFlight) - 1
    BY <1>2, <2>2, FS_Subset, FS_CardinalityType
  <2>4. Cardinality(harbor) \in Nat /\ Cardinality(harbor') \in Nat
    BY <2>1, FS_CardinalityType DEF Reserved
  <2>5. harbor' \subseteq Charts
    BY HandlerTypeOK DEF Handler, TypeOK
  <2> QED
    BY <2>1, <2>3, <2>4, <2>5, InFlightFinite, LimitAssumption DEF Reserved
<1> QED
  BY <1>3, <1>4 DEF Upload

\* No other step of a handler adds an upload or a version.
LEMMA OtherJobs ==
  ASSUME TypeOK, NEW r \in Requests,
         Delete(r) \/ Sync(r) \/ ReadStatus(r) \/ \E w \in Workers : Claim(r, w)
  PROVE  harbor' \subseteq harbor /\ InFlight' \subseteq InFlight
<1>1. harbor' \subseteq harbor
  BY DEF Delete, Sync, ReadStatus, Claim
<1>2. \A q \in Requests \ {r} : job'[q] = job[q]
  BY DEF Delete, Sync, ReadStatus, Claim, Goto, End, TypeOK
<1>3. job'[r] = None \/ job'[r] = job[r] \/ job'[r].stage # "upload"
  <2>1. CASE ReadStatus(r)
    <3>1. job[r] \in Job
      BY <2>1 DEF ReadStatus, At, TypeOK
    <3> QED
      BY <2>1, <3>1 DEF ReadStatus, Goto, End, TypeOK, Job
  <2>2. CASE ~ReadStatus(r)
    <3>1. [stage |-> "status", chart |-> None].stage # "upload"
      OBVIOUS
    <3>2. job'[r] \in {None, job[r], [stage |-> "status", chart |-> None]}
      BY <2>2 DEF Delete, Sync, Claim, End, TypeOK
    <3> QED
      BY <3>1, <3>2
  <2> QED
    BY <2>1, <2>2
<1> QED
  BY <1>1, <1>2, <1>3 DEF InFlight, At

LEMMA NextReserved ==
  ASSUME "garbled" \notin Faults, TypeOK, Reserved, [Next]_vars
  PROVE  Reserved'
<1>1. ASSUME NEW r \in Requests, Client(r) \/ Handler(r) PROVE Reserved'
  BY <1>1, CheckReserves, UploadReserves, OtherJobs, ReservedShrinks DEF Client, Handler
<1>2. ASSUME NEW w \in Workers, Goroutine(w) PROVE Reserved'
  <2>1. harbor' = harbor /\ job' = job
    BY <1>2 DEF Goroutine, Load, Store, Report, Amend
  <2> QED
    BY <2>1, ReservedShrinks DEF InFlight, At
<1>3. CASE Restart
  <2>1. harbor' = harbor /\ InFlight' = {}
    BY <1>3 DEF Restart, InFlight, At
  <2> QED
    BY <2>1, ReservedShrinks
<1>4. CASE UNCHANGED vars
  BY <1>4, ReservedShrinks DEF vars, InFlight, At
<1> QED
  BY <1>1, <1>2, <1>3, <1>4 DEF Next

(***************************************************************************)
(* If every count Harbor sends parses, the local repository never holds    *)
(* more versions than the limit and one for each handler in flight.        *)
(***************************************************************************)
THEOREM QuotaHolds ==
  ASSUME "garbled" \notin Faults
  PROVE  Spec => []QuotaBound
<1>1. Init => IInv
  BY InitTypeOK, InitReserved DEF IInv
<1>2. IInv /\ [Next]_vars => IInv'
  BY NextTypeOK, NextReserved DEF IInv
<1>3. IInv => QuotaBound
  BY ReservedBound DEF IInv
<1> QED
  BY <1>1, <1>2, <1>3, PTL DEF Spec
=============================================================================
