-------------------------- MODULE SyncFanoutProofs --------------------------
(***************************************************************************)
(* Theorems about SyncFanout, for any finite number of repositories and    *)
(* any capacity of the channel.                                            *)
(***************************************************************************)
EXTENDS SyncFanout, FiniteSetTheorems, TLAPS

\* Reports in the channel are of distinct repositories, hence finitely many.
LEMMA Finite ==
  ASSUME NEW S \in SUBSET Repos
  PROVE  IsFiniteSet(S) /\ Cardinality(S) \in Nat
BY ReposAssumption, FS_Subset, FS_CardinalityType

LEMMA InitIInv == Init => IInv
<1>1. Init => Cardinality(errs) <= Cap
  BY FS_EmptySet, CapAssumption DEF Init
<1> QED
  BY <1>1 DEF Init, IInv, TypeOK, Stages, Accounted, ClosedLast

LEMMA RoomLeft ==
  ASSUME IInv, NEW r \in Repos, Report(r)
  PROVE  Cardinality(errs') <= Cap
<1>1. errs \in SUBSET Repos
  BY DEF IInv, TypeOK
<1>2. IsFiniteSet(errs) /\ Cardinality(errs) \in Nat
  BY <1>1, Finite
<1>3. Cardinality(errs \cup {r}) <= Cardinality(errs) + 1
  BY <1>2, FS_AddElement
<1>4. Cardinality(errs \cup {r}) \in Nat
  BY <1>1, Finite
<1> QED
  BY <1>2, <1>3, <1>4, CapAssumption DEF Report

LEMMA RoomMade ==
  ASSUME IInv, Drain
  PROVE  Cardinality(errs') <= Cap
<1>1. errs \in SUBSET Repos /\ errs' \in SUBSET errs /\ Cardinality(errs) <= Cap
  BY DEF IInv, TypeOK, Drain
<1>2. Cardinality(errs') <= Cardinality(errs) /\ Cardinality(errs') \in Nat
  BY <1>1, Finite, FS_Subset
<1> QED
  BY <1>1, <1>2, Finite, CapAssumption

LEMMA StepIInv == IInv /\ [Next]_vars => IInv'
<1> SUFFICES ASSUME IInv, [Next]_vars PROVE IInv'
  OBVIOUS
<1> USE DEF IInv, TypeOK, Stages, Accounted, ClosedLast
<1>1. ASSUME NEW r \in Repos, Launch(r) PROVE IInv'
  BY <1>1 DEF Launch, To
<1>2. CASE LaunchCloser
  BY <1>2 DEF LaunchCloser
<1>3. ASSUME NEW r \in Repos, Succeed(r) PROVE IInv'
  BY <1>3 DEF Succeed, To
<1>4. ASSUME NEW r \in Repos, Fail(r) PROVE IInv'
  BY <1>4 DEF Fail, To
<1>5. ASSUME NEW r \in Repos, Report(r) PROVE IInv'
  <2>1. Cardinality(errs') <= Cap
    BY <1>5, RoomLeft
  <2> QED
    BY <1>5, <2>1 DEF Report, To
<1>6. CASE Close
  BY <1>6 DEF Close
<1>7. CASE Drain
  <2>1. Cardinality(errs') <= Cap
    BY <1>7, RoomMade
  <2> QED
    BY <1>7, <2>1 DEF Drain
<1>8. CASE EndDrain
  BY <1>8 DEF EndDrain
<1>9. CASE UNCHANGED vars
  BY <1>9 DEF vars
<1> QED
  BY <1>1, <1>2, <1>3, <1>4, <1>5, <1>6, <1>7, <1>8, <1>9 DEF Next, Goroutine, Closer, Over

LEMMA FanoutInvariance == Spec => []IInv
  BY InitIInv, StepIInv, PTL DEF Spec

(***************************************************************************)
(* The channel never holds more reports than its capacity, and every       *)
(* variable stays in its range.                                            *)
(***************************************************************************)
THEOREM FanoutTypes == Spec => []TypeOK
<1>1. IInv => TypeOK
  BY DEF IInv
<1> QED
  BY <1>1, FanoutInvariance, PTL

(***************************************************************************)
(* Whatever the number of repositories and the capacity, no goroutine      *)
(* reports on the closed channel.                                          *)
(***************************************************************************)
THEOREM NeverSendsAfterClose == Spec => []NoSendAfterClose
<1>1. IInv => NoSendAfterClose
  BY DEF IInv, TypeOK, ClosedLast, NoSendAfterClose
<1> QED
  BY <1>1, FanoutInvariance, PTL

(***************************************************************************)
(* Until more repositories have failed than the channel holds, no          *)
(* goroutine of the batch waits to report.                                 *)
(***************************************************************************)
THEOREM EnoughRoom == Spec => []ReportsHaveRoom
<1>1. ASSUME IInv PROVE ReportsHaveRoom
  <2> SUFFICES ASSUME ~Overflow, NEW r \in Repos, stage[r] = "report"
               PROVE  Cardinality(errs) < Cap
    BY DEF ReportsHaveRoom
  <2>1. errs \in SUBSET Repos /\ failed \in SUBSET Repos
    BY <1>1 DEF IInv, TypeOK
  <2>2. r \notin errs /\ errs \cup {r} \in SUBSET failed
    BY <1>1, <2>1 DEF IInv, Accounted
  <2>3. IsFiniteSet(errs) /\ Cardinality(errs) \in Nat
    BY <2>1, Finite
  <2>4. Cardinality(errs \cup {r}) = Cardinality(errs) + 1
    BY <2>2, <2>3, FS_AddElement
  <2>5. IsFiniteSet(failed) /\ Cardinality(failed) \in Nat
    BY <2>1, Finite
  <2>6. Cardinality(errs \cup {r}) <= Cardinality(failed)
    BY <2>2, <2>5, FS_Subset
  <2> QED
    BY <2>3, <2>4, <2>5, <2>6, CapAssumption DEF Overflow
<1> QED
  BY <1>1, FanoutInvariance, PTL

LEMMA StepHangs == IInv /\ OverflowHangs /\ [Next]_vars => OverflowHangs'
<1> SUFFICES ASSUME IInv, OverflowHangs, [Next]_vars PROVE OverflowHangs'
  OBVIOUS
<1> USE DEF OverflowHangs, Overflow
<1>1. ASSUME NEW r \in Repos, Launch(r) \/ Succeed(r) \/ Report(r) PROVE OverflowHangs'
  BY <1>1 DEF Launch, Succeed, Report
<1>2. ASSUME NEW r \in Repos, Fail(r) PROVE OverflowHangs'
  BY <1>2 DEF Fail, IInv, ClosedLast, TypeOK
<1>3. CASE LaunchCloser
  BY <1>3 DEF LaunchCloser
<1>4. CASE Close
  <2>1. \A r \in Repos : stage[r] = "done"
    BY <1>4 DEF Close
  <2>2. logged = {}
    BY <1>4 DEF Close, IInv, ClosedLast
  <2>3. failed = errs
    BY <2>1, <2>2 DEF IInv, Accounted, TypeOK
  <2>4. Cardinality(failed) <= Cap /\ Cardinality(failed) \in Nat
    BY <2>3, Finite DEF IInv, TypeOK
  <2> QED
    BY <1>4, <2>4, CapAssumption DEF Close
<1>5. CASE Drain
  <2>1. ~open
    BY <1>5 DEF Drain, IInv, ClosedLast
  <2> QED
    BY <1>5, <2>1 DEF Drain
<1>6. CASE EndDrain
  BY <1>6 DEF EndDrain
<1>7. CASE UNCHANGED vars
  BY <1>7 DEF vars
<1> QED
  BY <1>1, <1>2, <1>3, <1>4, <1>5, <1>6, <1>7 DEF Next, Goroutine, Closer, Over

(***************************************************************************)
(* Once more repositories have failed than the channel holds, it is never  *)
(* closed and nothing is logged.                                           *)
(***************************************************************************)
THEOREM OverflowIsFinal == Spec => []OverflowHangs
<1>1. Init => OverflowHangs
  BY DEF Init, OverflowHangs
<1> QED
  BY <1>1, StepHangs, FanoutInvariance, PTL DEF Spec

-----------------------------------------------------------------------------
(* The batch implements BatchOutcome. *)

Out == [r \in Repos |-> Outcome(r)]

LEMMA OutInit == Init => Batch!Init
BY DEF Init, Batch!Init, Outcome

LEMMA OutStep == IInv /\ [Next]_vars => [Batch!Next]_<<Out, logged, closer = "ended">>
<1> SUFFICES ASSUME IInv, [Next]_vars
             PROVE  [Batch!Next]_<<Out, logged, closer = "ended">>
  OBVIOUS
<1> USE DEF IInv, TypeOK, Stages, Accounted, ClosedLast
<1>a. ASSUME stage' = stage, failed' = failed PROVE Out' = Out
  BY <1>a DEF Out, Outcome
<1>1. ASSUME NEW r \in Repos, Launch(r) PROVE UNCHANGED <<Out, logged, closer = "ended">>
  BY <1>1 DEF Launch, To, Out, Outcome
<1>2. CASE LaunchCloser
  BY <1>2, <1>a DEF LaunchCloser
<1>3. ASSUME NEW r \in Repos, Succeed(r)
      PROVE  UNCHANGED <<Out, logged, closer = "ended">> \/ Batch!Settle(r)
  <2>1. CASE stage[r] # "patch"
    BY <1>3, <2>1 DEF Succeed, To, Out, Outcome
  <2>2. CASE stage[r] = "patch"
    <3>1. Outcome(r) = "pending"
      BY <2>2 DEF Outcome
    <3>2. Out' = [Out EXCEPT ![r] = "synced"]
      BY <1>3, <2>2 DEF Succeed, To, Out, Outcome
    <3>3. logged' = logged /\ closer' = closer
      BY <1>3 DEF Succeed
    <3> QED
      BY <3>1, <3>2, <3>3 DEF Batch!Settle, Out
  <2> QED
    BY <2>1, <2>2
<1>4. ASSUME NEW r \in Repos, Fail(r) PROVE Batch!Settle(r)
  <2>1. Outcome(r) = "pending"
    BY <1>4 DEF Fail, Outcome
  <2>2. Out' = [Out EXCEPT ![r] = "failed"]
    BY <1>4 DEF Fail, To, Out, Outcome
  <2>3. logged' = logged /\ closer' = closer
    BY <1>4 DEF Fail
  <2> QED
    BY <2>1, <2>2, <2>3 DEF Batch!Settle, Out
<1>5. ASSUME NEW r \in Repos, Report(r) PROVE UNCHANGED <<Out, logged, closer = "ended">>
  BY <1>5 DEF Report, To, Out, Outcome
<1>6. CASE Close
  BY <1>6, <1>a DEF Close
<1>b. ASSUME closer = "draining" PROVE Batch!Settled
  BY <1>b DEF Batch!Settled, Outcome
<1>c. Batch!Failures = failed
  BY DEF Batch!Failures, Outcome
<1>7. CASE Drain
  <2>1. PICK r \in errs : errs' = errs \ {r} /\ logged' = logged \cup {r}
    BY <1>7 DEF Drain
  <2>2. r \in Repos /\ r \in failed \ logged
    BY <2>1
  <2>3. Out' = Out /\ closer' = closer
    BY <1>7, <1>a DEF Drain
  <2>4. Batch!Log(r)
    BY <1>7, <1>b, <1>c, <2>1, <2>2, <2>3 DEF Batch!Log, Out, Drain
  <2> QED
    BY <2>2, <2>4 DEF Batch!Next
<1>8. CASE EndDrain
  <2>1. closer = "draining" /\ closer' = "ended" /\ logged' = logged
    BY <1>8 DEF EndDrain
  <2>2. logged = failed
    BY <1>8 DEF EndDrain
  <2>3. Out' = Out
    BY <1>8, <1>a DEF EndDrain
  <2>4. Batch!End
    BY <1>b, <1>c, <2>1, <2>2, <2>3 DEF Batch!End, Out
  <2> QED
    BY <2>4 DEF Batch!Next
<1>9. CASE UNCHANGED vars
  BY <1>9, <1>a DEF vars
<1> QED
  BY <1>1, <1>2, <1>3, <1>4, <1>5, <1>6, <1>7, <1>8, <1>9
     DEF Next, Goroutine, Closer, Over, Batch!Next

(***************************************************************************)
(* No failure is lost, invented or logged before all goroutines settled.   *)
(***************************************************************************)
THEOREM ImplementsBatch == Spec => BatchSpec
<1>1. [Batch!Next]_<<Out, logged, closer = "ended">> <=> [Batch!Next]_Batch!vars
  BY DEF Batch!vars, Out
<1> QED
  BY <1>1, OutInit, OutStep, FanoutInvariance, PTL DEF Spec, BatchSpec, Batch!Spec
=============================================================================
