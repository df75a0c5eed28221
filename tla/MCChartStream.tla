---------------------------- MODULE MCChartStream ---------------------------
EXTENDS ChartStream

\* Empty, of a message, of the limit, longer than the limit, ...
EveryLength == {[k \in 1 .. n |-> k] : n \in 0 .. 8}
=============================================================================
