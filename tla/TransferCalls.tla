----------------------------- MODULE TransferCalls -----------------------------
(***************************************************************************)
(* The calls of transfer(from, to, amount) that the threads of one process *)
(* of case 02 make: thread t makes one call, between the accounts From[t]  *)
(* and To[t].  main of both programs makes two, alice to bob and bob to    *)
(* alice; the function itself is written for any.                          *)
(***************************************************************************)
EXTENDS Integers, FiniteSets

CONSTANTS
  Accounts,
  N,                 \* threads main creates (2)
  From, To,          \* the arguments of each thread's call
  amount,            \* what it transfers (10)
  kInitial           \* Account::balance (1000)

Threads == 1..N

ASSUME CallsAssumption ==
  /\ N \in Nat
  /\ From \in [Threads -> Accounts] /\ To \in [Threads -> Accounts]
  /\ \A t \in Threads : From[t] # To[t]
  /\ amount \in Int /\ kInitial \in Int

\* The balances once the threads of T have made their transfers and no others.
Ledger(T) ==
  [a \in Accounts |->
     kInitial + amount * (Cardinality({t \in T : To[t] = a})
                            - Cardinality({t \in T : From[t] = a}))]
====
