------------------------- MODULE ScopedTransfer_proofs -------------------------
(***************************************************************************)
(* fixed.cpp, for any number of threads and any accounts: nobody waits     *)
(* while holding a lock, and the calls are atomic.  Everything follows     *)
(* from an exact account of who owns which lock at each point of the code. *)
(***************************************************************************)
EXTENDS ScopedTransfer, TransferCalls_proofs

\* The locks a thread owns, by where it is.
Owned(t) == CASE pc[t] \in {"try", "back_off"} -> {first[t]}
              [] pc[t] \in Inside -> {From[t], To[t]}
              [] pc[t] = "unlock_to" -> {To[t]}
              [] OTHER -> {}

OwnershipExact ==
  \A t \in Threads : \A a \in Accounts : owner[a] = t <=> a \in Owned(t)

FirstIsAnArgument == \A t \in Threads : first[t] \in {From[t], To[t]}

\* A balance that has been read is still the balance when it is written back.
RegistersFresh ==
  \A t \in Threads :
    /\ pc[t] = "write_from" => register[t] = balance[From[t]]
    /\ pc[t] = "write_to" => register[t] = balance[To[t]]

Born == \A t \in Threads : t > spawned => pc[t] = "unborn"

IInv == TypeOK /\ OwnershipExact /\ FirstIsAnArgument /\ RegistersFresh /\ Born

LEMMA TypeInit == Init => TypeOK /\ FirstIsAnArgument /\ Born
<1> SUFFICES ASSUME Init PROVE TypeOK /\ FirstIsAnArgument /\ Born
  OBVIOUS
<1>1. pc \in [Threads -> Labels] /\ Born
  BY DEF Init, Labels, Inside, Born
<1>2. owner \in [Accounts -> Threads \cup {Nobody}] /\ spawned \in 0..N
  BY CallsAssumption DEF Init
<1>3. first \in [Threads -> Accounts] /\ FirstIsAnArgument
  BY CallsAssumption DEF Init, FirstIsAnArgument
<1>4. balance \in [Accounts -> Int] /\ register \in [Threads -> Int]
  BY CallsAssumption DEF Init
<1>. QED BY <1>1, <1>2, <1>3, <1>4 DEF Init, TypeOK

LEMMA TypeStep ==
  ASSUME TypeOK, FirstIsAnArgument, Born, [Next]_vars
  PROVE  TypeOK' /\ FirstIsAnArgument' /\ Born'
<1> USE CallsAssumption DEF TypeOK, FirstIsAnArgument, Born, Goto, Labels, Inside
<1>1. CASE Spawn
  BY <1>1 DEF Spawn, Threads
<1>2. CASE PrintBalances
  BY <1>2 DEF PrintBalances
<1>3. ASSUME NEW t \in Threads, LockFirst(t) \/ TryOther(t) \/ BackOff(t)
      PROVE  TypeOK' /\ FirstIsAnArgument' /\ Born'
  <2>1. Other(t, first[t]) \in {From[t], To[t]}
    BY DEF Other
  <2>2. pc[t] # "unborn"
    BY <1>3 DEF LockFirst, TryOther, BackOff
  <2>3. first' \in [Threads -> Accounts] /\ FirstIsAnArgument'
    BY <1>3, <2>1 DEF LockFirst, TryOther, BackOff
  <2>4. owner' \in [Accounts -> Threads \cup {Nobody}]
    BY <1>3 DEF LockFirst, TryOther, BackOff
  <2>5. pc' \in [Threads -> Labels] /\ Born'
    BY <1>3, <2>2 DEF LockFirst, TryOther, BackOff
  <2>. QED BY <1>3, <2>3, <2>4, <2>5 DEF LockFirst, TryOther, BackOff
<1>4. ASSUME NEW t \in Threads, Wake(t) \/ ReadFrom(t) \/ ReadTo(t)
      PROVE  TypeOK' /\ FirstIsAnArgument' /\ Born'
  BY <1>4 DEF Wake, ReadFrom, ReadTo, Read
<1>5. ASSUME NEW t \in Threads, WriteFrom(t) \/ WriteTo(t)
      PROVE  TypeOK' /\ FirstIsAnArgument' /\ Born'
  BY <1>5 DEF WriteFrom, WriteTo, Write
<1>6. ASSUME NEW t \in Threads, UnlockFrom(t) \/ UnlockTo(t)
      PROVE  TypeOK' /\ FirstIsAnArgument' /\ Born'
  BY <1>6 DEF UnlockFrom, UnlockTo, Unlock
<1>7. CASE UNCHANGED vars
  BY <1>7 DEF vars
<1>. QED
  BY <1>1, <1>2, <1>3, <1>4, <1>5, <1>6, <1>7 DEF Next, ThreadStep, Finished

\* Types hold for every number of threads and accounts.
THEOREM TypeCorrect == Spec => []TypeOK
<1>1. TypeOK /\ FirstIsAnArgument /\ Born /\ [Next]_vars
        => TypeOK' /\ FirstIsAnArgument' /\ Born'
  BY TypeStep
<1>. QED BY TypeInit, <1>1, PTL DEF Spec

--------------------------------------------------------------------------------
(* Who owns which lock.                                                      *)

LEMMA OwnershipInit == Init => OwnershipExact /\ RegistersFresh
BY CallsAssumption DEF Init, OwnershipExact, RegistersFresh, Owned, Inside, Threads,
   Nobody

LEMMA OwnershipStep ==
  ASSUME TypeOK, FirstIsAnArgument, Born, OwnershipExact, [Next]_vars
  PROVE  OwnershipExact'
<1> USE CallsAssumption DEF TypeOK, FirstIsAnArgument, OwnershipExact, Owned, Goto,
        Inside
<1>. Nobody \notin Threads
  BY DEF Nobody, Threads
<1>1. CASE Spawn
  BY <1>1 DEF Spawn, Threads, Born
<1>2. CASE PrintBalances
  BY <1>2 DEF PrintBalances
<1>3. ASSUME NEW t \in Threads, LockFirst(t)
      PROVE  OwnershipExact'
  BY <1>3 DEF LockFirst
<1>4. ASSUME NEW t \in Threads, TryOther(t)
      PROVE  OwnershipExact'
  <2>1. {first[t], Other(t, first[t])} = {From[t], To[t]}
    BY DEF Other
  <2>2. CASE owner[Other(t, first[t])] = Nobody
    <3>1. /\ pc[t] = "try" /\ pc' = [pc EXCEPT ![t] = "sleep"] /\ first' = first
          /\ owner' = [owner EXCEPT ![Other(t, first[t])] = t]
      BY <1>4, <2>2 DEF TryOther
    <3>2. Other(t, first[t]) \in Accounts
      BY <2>1
    <3>3. ASSUME NEW a \in Accounts
          PROVE  owner'[a] = t <=> a \in {From[t], To[t]}
      <4>1. owner[a] = t <=> a = first[t]
        BY <3>1
      <4>2. owner'[a] = t <=> a = Other(t, first[t]) \/ owner[a] = t
        BY <3>1, <3>2
      <4>. QED BY <2>1, <4>1, <4>2
    <3>4. ASSUME NEW u \in Threads \ {t}, NEW a \in Accounts
          PROVE  owner'[a] = u <=> owner[a] = u
      BY <2>2, <3>1, <3>2
    <3>5. \A u \in Threads \ {t} : Owned(u)' = Owned(u)
      BY <3>1
    <3>6. Owned(t)' = {From[t], To[t]}
      BY <3>1
    <3>. HIDE DEF Owned
    <3>. QED BY <3>3, <3>4, <3>5, <3>6
  <2>3. CASE owner[Other(t, first[t])] # Nobody
    BY <1>4, <2>3 DEF TryOther
  <2>. QED BY <2>2, <2>3
<1>5. ASSUME NEW t \in Threads, BackOff(t)
      PROVE  OwnershipExact'
  BY <1>5 DEF BackOff
<1>6. ASSUME NEW t \in Threads, Wake(t) \/ ReadFrom(t) \/ ReadTo(t)
      PROVE  OwnershipExact'
  BY <1>6 DEF Wake, ReadFrom, ReadTo, Read
<1>7. ASSUME NEW t \in Threads, WriteFrom(t) \/ WriteTo(t)
      PROVE  OwnershipExact'
  BY <1>7 DEF WriteFrom, WriteTo, Write
<1>8. ASSUME NEW t \in Threads, UnlockFrom(t) \/ UnlockTo(t)
      PROVE  OwnershipExact'
  BY <1>8 DEF UnlockFrom, UnlockTo, Unlock
<1>9. CASE UNCHANGED vars
  BY <1>9 DEF vars
<1>. QED
  BY <1>1, <1>2, <1>3, <1>4, <1>5, <1>6, <1>7, <1>8, <1>9 DEF Next, ThreadStep, Finished

\* Two threads inside transfer at the same time have no account in common.
LEMMA Apart ==
  ASSUME OwnershipExact, NEW t \in Threads, NEW u \in Threads, t # u,
         pc[t] \in Inside, pc[u] \in Inside
  PROVE  {From[t], To[t]} \cap {From[u], To[u]} = {}
BY CallsAssumption DEF OwnershipExact, Owned, Inside

LEMMA RegistersStep ==
  ASSUME TypeOK, OwnershipExact, RegistersFresh, Born, [Next]_vars
  PROVE  RegistersFresh'
<1> USE CallsAssumption DEF TypeOK, RegistersFresh, Goto
<1>1. CASE Spawn
  BY <1>1 DEF Spawn
<1>2. CASE PrintBalances
  BY <1>2 DEF PrintBalances
<1>3. ASSUME NEW t \in Threads,
             LockFirst(t) \/ TryOther(t) \/ BackOff(t) \/ Wake(t)
      PROVE  RegistersFresh'
  BY <1>3 DEF LockFirst, TryOther, BackOff, Wake
<1>4. ASSUME NEW t \in Threads, ReadFrom(t) \/ ReadTo(t)
      PROVE  RegistersFresh'
  BY <1>4 DEF ReadFrom, ReadTo, Read
<1>5. ASSUME NEW t \in Threads, WriteFrom(t) \/ WriteTo(t)
      PROVE  RegistersFresh'
  <2>1. \A u \in Threads \ {t} :
          pc[u] \in Inside => {From[t], To[t]} \cap {From[u], To[u]} = {}
    BY <1>5, Apart DEF WriteFrom, WriteTo, Write, Inside
  <2>2. CASE WriteFrom(t)
    BY <2>1, <2>2 DEF WriteFrom, Write, Inside
  <2>3. CASE WriteTo(t)
    BY <2>1, <2>3 DEF WriteTo, Write, Inside
  <2>. QED BY <1>5, <2>2, <2>3
<1>6. ASSUME NEW t \in Threads, UnlockFrom(t) \/ UnlockTo(t)
      PROVE  RegistersFresh'
  BY <1>6 DEF UnlockFrom, UnlockTo, Unlock
<1>7. CASE UNCHANGED vars
  BY <1>7 DEF vars
<1>. QED
  BY <1>1, <1>2, <1>3, <1>4, <1>5, <1>6, <1>7 DEF Next, ThreadStep, Finished

LEMMA IInvInvariant == Spec => []IInv
<1>1. Init => IInv
  BY TypeInit, OwnershipInit DEF IInv
<1>2. IInv /\ [Next]_vars => IInv'
  BY TypeStep, OwnershipStep, RegistersStep DEF IInv
<1>. QED BY <1>1, <1>2, PTL DEF Spec

\* A thread that blocks on a lock holds none, for any number of threads, accounts
\* and directions: no set of them can wait for one another in a circle.
THEOREM NobodyHoldsAndWaits == Spec => []NoHoldAndWait
<1>1. IInv => NoHoldAndWait
  BY DEF IInv, NoHoldAndWait, OwnershipExact, Owned, Inside
<1>. QED BY <1>1, IInvInvariant, PTL

--------------------------------------------------------------------------------
(* The calls are atomic.                                                     *)

\* What the abstract specification sees.
Settled == [a \in Accounts |-> IF Debited(a) THEN balance[a] + amount ELSE balance[a]]
Made == {t \in Threads : pc[t] \in {"unlock_from", "unlock_to", "done"}}

\* An account of a thread inside transfer is debited by that thread or not at all.
LEMMA OwnDebit ==
  ASSUME OwnershipExact, NEW t \in Threads, pc[t] \in Inside, NEW a \in {From[t], To[t]}
  PROVE  Debited(a) <=> a = From[t] /\ pc[t] \in {"read_to", "write_to"}
<1>1. ASSUME NEW u \in Threads, pc[u] \in {"read_to", "write_to"}, From[u] = a
      PROVE  u = t
  BY <1>1, Apart DEF Inside
<1>. QED BY <1>1, CallsAssumption DEF Debited

\* The debit is undone as long as the credit is missing.
LEMMA DebitIsHidden ==
  ASSUME IInv, NEW t \in Threads, WriteFrom(t)
  PROVE  Settled' = Settled /\ Made' = Made
<1> USE CallsAssumption DEF IInv, TypeOK
<1>1. /\ pc[t] = "write_from" /\ pc' = [pc EXCEPT ![t] = "read_to"]
      /\ balance' = [balance EXCEPT ![From[t]] = register[t] - amount]
      /\ register[t] = balance[From[t]]
  BY DEF WriteFrom, Write, Goto, RegistersFresh
<1>2. ~Debited(From[t])
  BY <1>1, OwnDebit DEF Inside
<1>3. Debited(From[t])'
  BY <1>1 DEF Debited
<1>4. \A a \in Accounts \ {From[t]} : Debited(a)' = Debited(a)
  BY <1>1 DEF Debited
<1>5. \A a \in Accounts : Settled'[a] = Settled[a]
  BY <1>1, <1>2, <1>3, <1>4 DEF Settled
<1>6. Made' = Made
  BY <1>1 DEF Made
<1>. QED BY <1>5, <1>6 DEF Settled

\* The call takes effect when the other account is credited.
LEMMA CreditIsTheTransfer ==
  ASSUME IInv, NEW t \in Threads, WriteTo(t)
  PROVE  /\ t \notin Made /\ Made' = Made \cup {t}
         /\ Settled' = [Settled EXCEPT ![From[t]] = @ - amount, ![To[t]] = @ + amount]
<1> USE CallsAssumption DEF IInv, TypeOK
<1>1. /\ pc[t] = "write_to" /\ pc' = [pc EXCEPT ![t] = "unlock_from"]
      /\ balance' = [balance EXCEPT ![To[t]] = register[t] + amount]
      /\ register[t] = balance[To[t]]
  BY DEF WriteTo, Write, Goto, RegistersFresh
<1>2. Debited(From[t]) /\ ~Debited(To[t])
  BY <1>1, OwnDebit DEF Inside
<1>3. ~Debited(From[t])'
  <2>1. \A u \in Threads \ {t} : pc[u] \in {"read_to", "write_to"} => From[u] # From[t]
    BY <1>1, Apart DEF Inside
  <2>. QED BY <1>1, <2>1 DEF Debited
<1>4. \A a \in Accounts \ {From[t]} : Debited(a)' = Debited(a)
  BY <1>1 DEF Debited
<1>. DEFINE moved == [Settled EXCEPT ![From[t]] = @ - amount, ![To[t]] = @ + amount]
<1>5. \A a \in Accounts : Settled'[a] = moved[a]
  BY <1>1, <1>2, <1>3, <1>4 DEF Settled
<1>6. t \notin Made /\ Made' = Made \cup {t}
  BY <1>1 DEF Made
<1>. QED BY <1>5, <1>6 DEF Settled

LEMMA SettledType ==
  ASSUME IInv
  PROVE  Settled \in [Accounts -> Int] /\ Made \in SUBSET Threads
BY CallsAssumption DEF IInv, TypeOK, Settled, Made

\* Nothing else is seen at all.
LEMMA OthersAreHidden ==
  ASSUME IInv, [Next]_vars, \A t \in Threads : ~WriteFrom(t) /\ ~WriteTo(t)
  PROVE  Settled' = Settled /\ Made' = Made
<1> USE DEF IInv, TypeOK, Goto
<1>1. ASSUME balance' = balance,
             \A t \in Threads : pc'[t] \in {"read_to", "write_to"}
                                  <=> pc[t] \in {"read_to", "write_to"},
             \A t \in Threads : pc'[t] \in {"unlock_from", "unlock_to", "done"}
                                  <=> pc[t] \in {"unlock_from", "unlock_to", "done"}
      PROVE  Settled' = Settled /\ Made' = Made
  <2>1. \A a \in Accounts : Debited(a)' = Debited(a)
    BY <1>1 DEF Debited
  <2>2. Settled' = Settled
    BY <1>1, <2>1 DEF Settled
  <2>3. Made' = Made
    BY <1>1 DEF Made
  <2>. QED BY <2>2, <2>3
<1>2. CASE Spawn
  <2>1. pc[spawned + 1] = "unborn" /\ spawned + 1 \in Threads
    BY <1>2, CallsAssumption DEF Spawn, Born, Threads
  <2>. QED BY <1>1, <1>2, <2>1 DEF Spawn
<1>3. CASE PrintBalances \/ UNCHANGED vars
  BY <1>1, <1>3 DEF PrintBalances, vars
<1>4. ASSUME NEW t \in Threads,
             LockFirst(t) \/ TryOther(t) \/ BackOff(t) \/ Wake(t)
      PROVE  Settled' = Settled /\ Made' = Made
  BY <1>1, <1>4 DEF LockFirst, TryOther, BackOff, Wake
<1>5. ASSUME NEW t \in Threads,
             ReadFrom(t) \/ ReadTo(t) \/ UnlockFrom(t) \/ UnlockTo(t)
      PROVE  Settled' = Settled /\ Made' = Made
  BY <1>1, <1>5 DEF ReadFrom, ReadTo, Read, UnlockFrom, UnlockTo, Unlock
<1>. QED BY <1>2, <1>3, <1>4, <1>5 DEF Next, ThreadStep, Finished

\* fixed.cpp implements the abstract specification: every step is a whole
\* transfer of the abstract balances, or none.
THEOREM CallsAreAtomic == Spec => Atomic
<1>1. Init => Abstract!Init
  <2> SUFFICES ASSUME Init PROVE Abstract!Init
    OBVIOUS
  <2>1. \A t \in Threads : pc[t] = "unborn"
    BY DEF Init
  <2>2. \A a \in Accounts : ~Debited(a) /\ balance[a] = kInitial
    BY <2>1 DEF Init, Debited
  <2>3. {t \in Threads : pc[t] \in {"unlock_from", "unlock_to", "done"}} = {}
    BY <2>1
  <2>. QED BY <2>2, <2>3 DEF Abstract!Init
<1>2. IInv /\ [Next]_vars => [Abstract!Next]_(Abstract!vars)
  <2> SUFFICES ASSUME IInv, [Next]_vars
               PROVE  Abstract!Next \/ (Settled' = Settled /\ Made' = Made)
    BY DEF Abstract!vars, Settled, Made
  <2>1. ASSUME NEW t \in Threads, WriteTo(t)
        PROVE  Abstract!Next
    <3>1. Abstract!Transfer(t)
      BY <2>1, CreditIsTheTransfer DEF Abstract!Transfer, Settled, Made
    <3>. QED BY <3>1 DEF Abstract!Next, Abstract!Threads, Threads
  <2>. QED BY <2>1, DebitIsHidden, OthersAreHidden
<1>. QED BY <1>1, <1>2, IInvInvariant, PTL DEF Spec, Atomic, Abstract!Spec

\* The ledger the abstract specification speaks of is the one of the calls.
LEMMA SameLedger == \A T : Abstract!Ledger(T) = Ledger(T)
<1>1. \A S : Abstract!Cardinality(S) = Cardinality(S)
  BY DEF Abstract!Cardinality, Cardinality
<1>. QED BY <1>1 DEF Abstract!Ledger, Ledger

\* What Transfers promises is true of whatever implements it: in whatever order the
\* calls are made, none is lost and none made twice.
THEOREM BalancesAreRight == Atomic => []Abstract!BalancesAreTheLedgers
<1>1. Abstract!Init => Abstract!BalancesAreTheLedgers
  <2> SUFFICES ASSUME Abstract!Init PROVE Settled = Ledger(Made) /\ Made \subseteq Threads
    BY SameLedger DEF Abstract!BalancesAreTheLedgers, Abstract!Threads, Threads, Settled, Made
  <2>1. Settled = [a \in Accounts |-> kInitial] /\ Made = {}
    BY DEF Abstract!Init, Settled, Made
  <2>. QED BY <2>1, LedgerInit
<1>2. Abstract!BalancesAreTheLedgers /\ [Abstract!Next]_(Abstract!vars)
        => Abstract!BalancesAreTheLedgers'
  <2> SUFFICES ASSUME Settled = Ledger(Made), [Abstract!Next]_(Abstract!vars)
               PROVE  Settled' = Ledger(Made') /\ Made' \subseteq Threads
    BY SameLedger DEF Abstract!BalancesAreTheLedgers, Abstract!Threads, Threads, Settled,
           Made
  <2>1. ASSUME NEW t \in Threads, Abstract!Transfer(t)
        PROVE  Settled' = Ledger(Made')
    <3>1. /\ t \notin Made /\ Made' = Made \cup {t}
          /\ Settled' = [Settled EXCEPT ![From[t]] = @ - amount, ![To[t]] = @ + amount]
      BY <2>1 DEF Abstract!Transfer, Settled, Made
    <3>2. Made \in SUBSET Threads
      BY DEF Made
    <3>. QED BY <3>1, <3>2, LedgerStep
  <2>2. CASE UNCHANGED (Abstract!vars)
    BY <2>2 DEF Abstract!vars, Settled, Made
  <2>3. Made' \subseteq Threads
    BY DEF Made
  <2>. QED BY <2>1, <2>2, <2>3
       DEF Abstract!Next, Abstract!Finished, Abstract!Threads, Threads
<1>. QED BY <1>1, <1>2, PTL DEF Atomic, Abstract!Spec

\* The balances main prints are those of all the calls, each made once: money is
\* neither made nor lost, whatever the interleaving.
THEOREM PrintedBalancesAreRight == Spec => []PrintsTheLedger
<1>1. Init => PrintsTheLedger
  BY DEF Init, PrintsTheLedger
<1>2. IInv /\ Abstract!BalancesAreTheLedgers /\ PrintsTheLedger /\ [Next]_vars
        => PrintsTheLedger'
  <2> SUFFICES ASSUME IInv, Settled = Ledger(Made), PrintsTheLedger, [Next]_vars
               PROVE  PrintsTheLedger'
    BY SameLedger DEF Abstract!BalancesAreTheLedgers, Settled, Made
  <2>1. CASE PrintBalances
    <3>1. Made = Threads /\ \A a \in Accounts : ~Debited(a)
      BY <2>1 DEF PrintBalances, Made, Debited
    <3>2. Settled = balance
      BY <3>1 DEF Settled, IInv, TypeOK
    <3>. QED BY <2>1, <3>1, <3>2 DEF PrintBalances, PrintsTheLedger, Ledger, Threads
  <2>2. CASE ~PrintBalances
    <3>1. printed' = printed
      BY <2>2 DEF Next, Spawn, ThreadStep, LockFirst, TryOther, BackOff, Wake,
           ReadFrom, WriteFrom, ReadTo, WriteTo, Read, Write, UnlockFrom, UnlockTo,
           Unlock, Finished, vars
    <3>. QED BY <3>1 DEF PrintsTheLedger, Ledger, Threads, Unprinted
  <2>. QED BY <2>1, <2>2
<1>. QED BY <1>1, <1>2, IInvInvariant, CallsAreAtomic, BalancesAreRight, PTL DEF Spec
====
