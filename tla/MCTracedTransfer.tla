---------------------------- MODULE MCTracedTransfer ----------------------------
EXTENDS TracedTransfer
\* main of broken.cpp: two transfers in opposite directions.
Crossing == <<"alice", "bob">>
CrossingTo == <<"bob", "alice">>
====
