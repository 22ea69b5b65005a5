-------------------------- MODULE TransferCalls_proofs --------------------------
(***************************************************************************)
(* Facts about the ledger of a set of calls, for any accounts and threads. *)
(***************************************************************************)
EXTENDS TransferCalls, FiniteSetTheorems, TLAPS

\* A call into or out of an account counts once.
LEMMA CountStep ==
  ASSUME NEW T \in SUBSET Threads, NEW t \in Threads, t \notin T,
         NEW f \in [Threads -> Accounts], NEW a \in Accounts
  PROVE  /\ Cardinality({u \in T : f[u] = a}) \in Nat
         /\ Cardinality({u \in T \cup {t} : f[u] = a}) =
              Cardinality({u \in T : f[u] = a}) + (IF f[t] = a THEN 1 ELSE 0)
<1> DEFINE S == {u \in T : f[u] = a}
<1>1. IsFiniteSet(Threads)
  BY CallsAssumption, FS_Interval DEF Threads
<1>2. IsFiniteSet(S)
  BY <1>1, FS_Subset
<1>3. Cardinality(S) \in Nat
  BY <1>2, FS_CardinalityType
<1>4. CASE f[t] = a
  <2>1. {u \in T \cup {t} : f[u] = a} = S \cup {t}
    BY <1>4
  <2>2. t \notin S
    OBVIOUS
  <2>. QED BY <1>2, <1>3, <1>4, <2>1, <2>2, FS_AddElement
<1>5. CASE f[t] # a
  <2>1. {u \in T \cup {t} : f[u] = a} = S
    BY <1>5
  <2>. QED BY <1>3, <1>5, <2>1
<1>. QED BY <1>4, <1>5

LEMMA LedgerInit == Ledger({}) = [a \in Accounts |-> kInitial]
<1>1. \A a \in Accounts : {t \in {} : To[t] = a} = {} /\ {t \in {} : From[t] = a} = {}
  OBVIOUS
<1>2. Cardinality({}) = 0
  BY FS_EmptySet
<1>. QED BY <1>1, <1>2, CallsAssumption DEF Ledger

LEMMA LedgerType ==
  ASSUME NEW T \in SUBSET Threads
  PROVE  Ledger(T) \in [Accounts -> Int]
<1>1. IsFiniteSet(Threads)
  BY CallsAssumption, FS_Interval DEF Threads
<1>2. \A a \in Accounts : /\ Cardinality({t \in T : To[t] = a}) \in Nat
                          /\ Cardinality({t \in T : From[t] = a}) \in Nat
  <2> TAKE a \in Accounts
  <2>1. IsFiniteSet({t \in T : To[t] = a}) /\ IsFiniteSet({t \in T : From[t] = a})
    BY <1>1, FS_Subset
  <2>. QED BY <2>1, FS_CardinalityType
<1>. QED BY <1>2, CallsAssumption DEF Ledger

\* One more call debits one account and credits the other.
LEMMA LedgerStep ==
  ASSUME NEW T \in SUBSET Threads, NEW t \in Threads, t \notin T
  PROVE  Ledger(T \cup {t}) =
           [Ledger(T) EXCEPT ![From[t]] = @ - amount, ![To[t]] = @ + amount]
<1>1. From \in [Threads -> Accounts] /\ To \in [Threads -> Accounts] /\ From[t] # To[t]
  BY CallsAssumption
<1>. DEFINE moved == [Ledger(T) EXCEPT ![From[t]] = @ - amount, ![To[t]] = @ + amount]
<1>2. ASSUME NEW a \in Accounts
      PROVE  Ledger(T \cup {t})[a] = moved[a]
  <2>. DEFINE in(S) == Cardinality({u \in S : To[u] = a})
              out(S) == Cardinality({u \in S : From[u] = a})
  <2>1. in(T) \in Nat /\ in(T \cup {t}) = in(T) + (IF To[t] = a THEN 1 ELSE 0)
    <3>1. To \in [Threads -> Accounts]
      BY <1>1
    <3>. QED BY <3>1, CountStep
  <2>2. out(T) \in Nat /\ out(T \cup {t}) = out(T) + (IF From[t] = a THEN 1 ELSE 0)
    BY <1>1, CountStep
  <2>3. Ledger(T)[a] = kInitial + amount * (in(T) - out(T))
    BY DEF Ledger
  <2>4. Ledger(T \cup {t})[a] = kInitial + amount * (in(T \cup {t}) - out(T \cup {t}))
    BY DEF Ledger
  <2>. HIDE DEF in, out
  <2>5. Ledger(T)[a] \in Int
    BY LedgerType
  <2>6. /\ To[t] = a => moved[a] = Ledger(T)[a] + amount
        /\ From[t] = a => moved[a] = Ledger(T)[a] - amount
        /\ To[t] # a /\ From[t] # a => moved[a] = Ledger(T)[a]
    <3>1. DOMAIN Ledger(T) = Accounts
      BY DEF Ledger
    <3>. QED BY <1>1, <3>1
  <2>7. ASSUME NEW d \in Int
        PROVE  amount * (d + 1) = amount * d + amount /\ amount * (d - 1) = amount * d - amount
    BY CallsAssumption
  <2>8. in(T) - out(T) \in Int
    BY <2>1, <2>2
  <2>9. CASE To[t] = a
    BY <1>1, <2>1, <2>2, <2>3, <2>4, <2>6, <2>7, <2>8, <2>9, CallsAssumption
  <2>10. CASE From[t] = a
    BY <1>1, <2>1, <2>2, <2>3, <2>4, <2>6, <2>7, <2>8, <2>10, CallsAssumption
  <2>11. CASE To[t] # a /\ From[t] # a
    BY <2>1, <2>2, <2>3, <2>4, <2>5, <2>6, <2>11, CallsAssumption
  <2>. QED BY <2>9, <2>10, <2>11
<1>3. DOMAIN Ledger(T \cup {t}) = Accounts /\ DOMAIN moved = Accounts
  BY DEF Ledger
<1>. QED BY <1>2, <1>3 DEF Ledger
====
