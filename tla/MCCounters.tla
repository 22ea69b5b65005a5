------------------------------- MODULE MCCounters -------------------------------
EXTENDS Counters
\* The counters begin a line of the cache, or straddle two.
TwoBases == {0, 48}
====
