------------------------------- MODULE Transfers -------------------------------
(***************************************************************************)
(* What case 02 promises, without its locks: every call of transfer moves  *)
(* its amount once and in one step.  TracedTransfer (broken.cpp) and       *)
(* ScopedTransfer (fixed.cpp) are both shown to do no more than this.      *)
(***************************************************************************)
EXTENDS TransferCalls

VARIABLES
  balance,           \* Account::balance of each account
  transferred        \* the threads whose transfer has been made

vars == <<balance, transferred>>

Init ==
  /\ balance = [a \in Accounts |-> kInitial]
  /\ transferred = {}

Transfer(t) ==
  /\ t \notin transferred
  /\ balance' = [balance EXCEPT ![From[t]] = @ - amount, ![To[t]] = @ + amount]
  /\ transferred' = transferred \cup {t}

Finished == transferred = Threads /\ UNCHANGED vars

Next == (\E t \in Threads : Transfer(t)) \/ Finished

Spec == Init /\ [][Next]_vars

--------------------------------------------------------------------------------
\* The balances are those of the calls that have been made, in whatever order
\* and between whatever accounts: none is lost, none is made twice.
BalancesAreTheLedgers ==
  /\ transferred \subseteq Threads
  /\ balance = Ledger(transferred)
====
