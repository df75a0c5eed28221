--------------------------- MODULE MCRepoService ---------------------------
(* Values of RepoService's constants for TLC. *)
EXTENDS RepoService, TLC

\* strings.ToLower on the spellings the instances use.
LowerCase == [n \in Names |-> IF n = "openFuyao" THEN "openfuyao" ELSE n]

OneName == {"acme"}
WithOfficial == {"acme", "openFuyao", "openfuyao"}

NoBuiltin == {}
Official == {"openFuyao"}

NoAddress == [b \in {} |-> "none"]
OfficialURL == [b \in Official |-> "hub"]

Plain == {NoOffer}
TLSOffers == {NoOffer, [NoOffer EXCEPT !["tls"] = "full"]}
\* A user name and a password, or a user name alone.
AuthOffers == {NoOffer} \cup {[NoOffer EXCEPT !["auth"] = o] : o \in {"partial", "full"}}

Symmetry == Permutations(Requests) \cup Permutations(Workers)
=============================================================================
