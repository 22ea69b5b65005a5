---------------------------- MODULE MCScopedTransfer ----------------------------
EXTENDS ScopedTransfer
\* A ring of transfers, each needing the account the next one debits, and one back.
Ring == <<"alice", "bob", "carol", "alice">>
RingTo == <<"bob", "carol", "alice", "carol">>
====
