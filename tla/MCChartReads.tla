---------------------------- MODULE MCChartReads ----------------------------
EXTENDS ChartReads, TLC

SomeOrders == {<<>>, <<1, 2, 3>>}
ClientSymmetry == Permutations(Clients)
=============================================================================
