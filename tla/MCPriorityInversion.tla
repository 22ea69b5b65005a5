-------------------------- MODULE MCPriorityInversion --------------------------
EXTENDS PriorityInversion
\* What scripts/run-case-06-container.sh provides.
RealTimeHost == {[rtprio |-> 99, affinity |-> TRUE, inherit |-> TRUE]}
\* No real-time priorities; for diagnostics only; for all but the control loop;
\* for all three: each with and without the affinity mask and inheritance.
EveryHost == [rtprio : {0, 10, 50, 99}, affinity : BOOLEAN, inherit : BOOLEAN]
====
