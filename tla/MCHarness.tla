------------------------------- MODULE MCHarness -------------------------------
EXTENDS Harness
\* A deviation and one that may hide it.
TwoDeviations == 2
\* A run, and one over the evidence it left.
TwoRuns == 2
====
