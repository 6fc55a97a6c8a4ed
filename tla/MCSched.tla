------------------------------ MODULE MCSched ------------------------------
EXTENDS Sched

MCSlices == [l \in 0 .. 1 |-> 1]
=============================================================================
