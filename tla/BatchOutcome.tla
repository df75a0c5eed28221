---------------------------- MODULE BatchOutcome ----------------------------
(***************************************************************************)
(* What a synchronisation of all repositories promises: every repository   *)
(* is settled once, nothing is logged before all are, and the batch is     *)
(* over only when exactly the failures have been logged.                   *)
(***************************************************************************)
CONSTANT Repos

VARIABLES outcome, logged, over

vars == <<outcome, logged, over>>

Failures == {r \in Repos : outcome[r] = "failed"}

Init ==
    /\ outcome = [r \in Repos |-> "pending"]
    /\ logged = {}
    /\ over = FALSE

Settle(r) ==
    /\ outcome[r] = "pending"
    /\ outcome' \in {[outcome EXCEPT ![r] = o] : o \in {"synced", "failed"}}
    /\ UNCHANGED <<logged, over>>

Settled == \A r \in Repos : outcome[r] # "pending"

Log(r) ==
    /\ Settled
    /\ r \in Failures \ logged
    /\ logged' = logged \cup {r}
    /\ UNCHANGED <<outcome, over>>

End ==
    /\ Settled
    /\ logged = Failures
    /\ over' = TRUE
    /\ UNCHANGED <<outcome, logged>>

Next == End \/ \E r \in Repos : Settle(r) \/ Log(r)

Spec == Init /\ [][Next]_vars
=============================================================================
