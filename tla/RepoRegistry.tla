---------------------------- MODULE RepoRegistry ----------------------------
(***************************************************************************)
(* What repository management promises its clients about the list of       *)
(* repositories, without handlers, credentials, caches or goroutines: a    *)
(* repository appears once under its name, its address may be moved, it    *)
(* disappears as a whole, and the built-in ones are never touched.         *)
(***************************************************************************)
CONSTANTS CRNames, Entries, URLs, Protected, None

VARIABLE registry

TypeOK == registry \in [CRNames -> Entries \cup {None}]

Init == registry \in [CRNames -> Entries \cup {None}]

Add(c, e) ==
    /\ registry[c] = None
    /\ registry' = [registry EXCEPT ![c] = e]

\* Everything but the address stays: the name shown, the credentials used.
Move(c, u) ==
    /\ registry[c] # None
    /\ registry' = [registry EXCEPT ![c].url = u]

Remove(c) ==
    /\ registry[c] # None
    /\ registry' = [registry EXCEPT ![c] = None]

Next == \E c \in CRNames \ Protected :
    \/ \E e \in Entries : Add(c, e)
    \/ \E u \in URLs : Move(c, u)
    \/ Remove(c)

Spec == Init /\ [][Next]_registry
=============================================================================
