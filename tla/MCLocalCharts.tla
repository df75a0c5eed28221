---------------------------- MODULE MCLocalCharts ----------------------------
(* Values of LocalCharts' constants for TLC. *)
EXTENDS LocalCharts, TLC

CONSTANTS a1, a2, b1, b2

\* Two charts of two versions each.
FourVersions == {a1, a2, b1, b2}

\* One version, or all versions of a chart.
VersionOrChart == {{a1}, {b1}, {a1, a2}, {b1, b2}}

Symmetry == Permutations(Requests) \cup Permutations(Workers)
=============================================================================
