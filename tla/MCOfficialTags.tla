--------------------------- MODULE MCOfficialTags ---------------------------
(* Values of OfficialTags' constants for TLC. *)
EXTENDS OfficialTags, TLC

TwoTags == {"premium", "select"}
OneOrBoth == {<<"premium">>, <<"select", "premium">>}
OneEach == {<<"premium">>, <<"select">>}
=============================================================================
