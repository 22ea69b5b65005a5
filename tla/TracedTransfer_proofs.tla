------------------------- MODULE TracedTransfer_proofs -------------------------
(***************************************************************************)
(* broken.cpp: its record of who holds and waits for what is exact, so the *)
(* watchdog would be right if it could see the four words at once; and its *)
(* calls are atomic, so the order of its locks is all that is wrong.       *)
(***************************************************************************)
EXTENDS TracedTransfer, TransferCalls_proofs

Inside == {"read_from", "write_from", "read_to", "write_to"}

\* The code a thread can be at with one TracedLock, and with two.
Outer == {"unborn", "label", "announce", "lock", "clear", "record", "sleep",
          "forget", "unlock", "done"}
Inner == {"announce", "lock", "clear", "record", "forget", "unlock"} \cup Inside

Nested ==
  \A t \in Threads : /\ nesting[t] = 1 => pc[t] \in Outer
                     /\ nesting[t] = 2 => pc[t] \in Inner

\* The locks a thread owns, by where it is.
Owned(t) ==
  IF nesting[t] = 1
    THEN IF pc[t] \in {"clear", "record", "sleep", "forget", "unlock"}
           THEN {From[t]} ELSE {}
    ELSE IF pc[t] \in {"announce", "lock"} THEN {From[t]} ELSE {From[t], To[t]}

OwnershipExact ==
  \A t \in Threads : \A a \in Accounts : owner[a] = t <=> a \in Owned(t)

\* What ThreadState says of a thread, by where it is.
RecordsExact ==
  \A t \in Threads :
    /\ holding[t] = IF nesting[t] = 2 \/ pc[t] \in {"sleep", "forget"}
                      THEN From[t] ELSE Nullptr
    /\ waiting[t] = IF pc[t] \in {"lock", "clear"} THEN Account(t) ELSE Nullptr

RegistersFresh ==
  \A t \in Threads :
    /\ pc[t] = "write_from" => register[t] = balance[From[t]]
    /\ pc[t] = "write_to" => register[t] = balance[To[t]]

\* main creates each thread once.
Unborn ==
  /\ main \in {"spawn_watchdog", "spawn_one"} => pc[1] = "unborn"
  /\ main \in {"spawn_watchdog", "spawn_one", "spawn_two"} => pc[2] = "unborn"

Shape == TypeOK /\ Nested /\ Unborn
IInv == Shape /\ OwnershipExact /\ RecordsExact /\ RegistersFresh

LEMMA TwoThreads == Threads = {1, 2} /\ Nobody \notin Threads
BY TracedAssumption DEF Threads, Nobody

LEMMA IInvInit == Init => IInv
<1> SUFFICES ASSUME Init PROVE IInv
  OBVIOUS
<1> USE CallsAssumption, TwoThreads DEF Init
<1>1. pc \in [Threads -> Labels] /\ nesting \in [Threads -> {1, 2}] /\ Nested /\ Unborn
  BY DEF Labels, Nested, Outer, Unborn
<1>2. owner \in [Accounts -> Threads \cup {Nobody}] /\ balance \in [Accounts -> Int]
  OBVIOUS
<1>3. label \in [Threads -> BOOLEAN]
  BY Zenon
<1>4. /\ holding \in [Threads -> Accounts \cup {Nullptr}]
      /\ waiting \in [Threads -> Accounts \cup {Nullptr}]
      /\ register \in [Threads -> Int]
  OBVIOUS
<1>5. sample \in Seq(Accounts \cup {Nullptr}) /\ Len(sample) <= 4
  OBVIOUS
<1>6. OwnershipExact /\ RecordsExact /\ RegistersFresh
  BY DEF OwnershipExact, Owned, RecordsExact, RegistersFresh
<1>. QED BY <1>1, <1>2, <1>3, <1>4, <1>5, <1>6 DEF IInv, Shape, TypeOK, Running

LEMMA LoadType ==
  ASSUME TypeOK, WatchdogLoads
  PROVE  sample' \in Seq(Accounts \cup {Nullptr}) /\ Len(sample') <= 4
<1> DEFINE Word == Accounts \cup {Nullptr}
<1>1. sample \in Seq(Word) /\ Len(sample) < 4
  BY DEF TypeOK, WatchdogLoads
<1>2. Records \in [1..4 -> Word]
  <2>1. {holding[1], waiting[1], holding[2], waiting[2]} \subseteq Word
    BY TwoThreads DEF TypeOK
  <2>. QED BY <2>1 DEF Records
<1>3. sample' = Append(sample, Records[Len(sample) + 1])
  BY DEF WatchdogLoads
<1>. HIDE DEF Word
<1>4. Len(sample) \in Nat
  BY <1>1
<1>5. Records[Len(sample) + 1] \in Word
  BY <1>1, <1>2, <1>4
<1>6. sample' \in Seq(Word) /\ Len(sample') = Len(sample) + 1
  BY <1>1, <1>3, <1>5
<1>. QED BY <1>1, <1>4, <1>6 DEF Word

LEMMA ShapeStep ==
  ASSUME Shape, [Next]_vars
  PROVE  Shape'
<1> USE CallsAssumption, TwoThreads
    DEF Shape, TypeOK, Nested, Unborn, At, Goto, Labels, Inside, Outer, Inner
<1>1. CASE SpawnWatchdog \/ Return
  BY <1>1 DEF SpawnWatchdog, Return, locks, money
<1>2. CASE Spawn(1, "spawn_one", "spawn_two") \/ Spawn(2, "spawn_two", "join")
  BY <1>2 DEF Spawn, locks, money
<1>3. CASE WatchdogWakes
  BY <1>3 DEF WatchdogWakes, locks, money
<1>4. CASE WatchdogLoads
  <2>1. sample' \in Seq(Accounts \cup {Nullptr}) /\ Len(sample') <= 4
    BY <1>4, LoadType
  <2>. QED BY <1>4, <2>1 DEF WatchdogLoads, locks, money
<1>5. CASE WatchdogDecides
  BY <1>5 DEF WatchdogDecides, locks, money, Running
<1>6. ASSUME NEW t \in Threads, SetLabel(t)
      PROVE  Shape'
  BY <1>6 DEF SetLabel, locks, money, others
<1>7. ASSUME NEW t \in Threads, Announce(t)
      PROVE  Shape'
  BY <1>7 DEF Announce, Account, money, others
<1>8. ASSUME NEW t \in Threads, Clear(t)
      PROVE  Shape'
  BY <1>8 DEF Clear, money, others
<1>9. ASSUME NEW t \in Threads, Lock(t)
      PROVE  Shape'
  BY <1>9 DEF Lock, Account, money, others
<1>10. ASSUME NEW t \in Threads, Unlock(t)
      PROVE  Shape'
  <2>1. Account(t) \in Accounts
    BY DEF Account
  <2>2. owner' \in [Accounts -> Threads \cup {Nobody}]
    BY <1>10, <2>1 DEF Unlock
  <2>3. /\ pc' \in [Threads -> Labels] /\ nesting' \in [Threads -> {1, 2}]
        /\ Nested' /\ Unborn'
    BY <1>10 DEF Unlock, others
  <2>. QED BY <1>10, <2>2, <2>3 DEF Unlock, money, others
<1>11. ASSUME NEW t \in Threads, Record(t)
      PROVE  Shape'
  BY <1>11 DEF Record, Account, money, others
<1>12. ASSUME NEW t \in Threads, Forget(t)
      PROVE  Shape'
  BY <1>12 DEF Forget, Account, money, others
<1>13. ASSUME NEW t \in Threads, Wake(t) \/ ReadFrom(t) \/ ReadTo(t)
      PROVE  Shape'
  BY <1>13 DEF Wake, ReadFrom, ReadTo, Read, locks, money, others
<1>14. ASSUME NEW t \in Threads, WriteFrom(t) \/ WriteTo(t)
      PROVE  Shape'
  <2>1. balance' \in [Accounts -> Int]
    BY <1>14 DEF WriteFrom, WriteTo, Write
  <2>2. UNCHANGED <<nesting, locks, register, others>>
    BY <1>14 DEF WriteFrom, WriteTo, Write
  <2>3. pc' \in [Threads -> Labels] /\ Nested' /\ Unborn'
    <3>1. CASE WriteFrom(t)
      BY <2>2, <3>1 DEF WriteFrom, Write, others
    <3>2. CASE WriteTo(t)
      BY <2>2, <3>2 DEF WriteTo, Write, others
    <3>. QED BY <1>14, <3>1, <3>2
  <2>. QED BY <2>1, <2>2, <2>3 DEF locks, others
<1>15. CASE UNCHANGED vars
  BY <1>15 DEF vars, locks, money, others
<1>. QED
  BY <1>1, <1>2, <1>3, <1>4, <1>5, <1>6, <1>7, <1>8, <1>9, <1>10, <1>11, <1>12, <1>13, <1>14, <1>15
  DEF Next, MainStep, WatchdogStep, ThreadStep, Finished

\* Types hold whatever the accounts and the arguments of the two calls.
THEOREM TypeCorrect == Spec => []TypeOK
<1>1. Init => Shape
  BY IInvInit DEF IInv
<1>2. Shape /\ [Next]_vars => Shape'
  BY ShapeStep
<1>3. Shape => TypeOK
  BY DEF Shape
<1>. QED BY <1>1, <1>2, <1>3, PTL DEF Spec

--------------------------------------------------------------------------------
(* Who owns which lock, and what its record says.                            *)

\* A step of one of the two read-modify-write statements leaves the locks and the
\* records alone and keeps the thread between its second lock and its release.
LEMMA StaysInside ==
  ASSUME Shape, NEW t \in Threads,
         ReadFrom(t) \/ WriteFrom(t) \/ ReadTo(t) \/ WriteTo(t)
  PROVE  /\ UNCHANGED <<nesting, owner, label, holding, waiting>>
         /\ pc[t] \in Inside /\ pc'[t] \in Inside \cup {"forget"}
         /\ \A u \in Threads \ {t} : pc'[u] = pc[u]
<1> USE DEF Shape, TypeOK, At, Goto, Inside, locks
<1>1. CASE ReadFrom(t)
  BY <1>1 DEF ReadFrom, Read
<1>2. CASE WriteFrom(t)
  BY <1>2 DEF WriteFrom, Write
<1>3. CASE ReadTo(t)
  BY <1>3 DEF ReadTo, Read
<1>4. CASE WriteTo(t)
  BY <1>4 DEF WriteTo, Write
<1>. QED BY <1>1, <1>2, <1>3, <1>4

LEMMA OwnershipStep ==
  ASSUME Shape, OwnershipExact, [Next]_vars
  PROVE  OwnershipExact'
<1> USE CallsAssumption, TwoThreads
    DEF Shape, TypeOK, Nested, OwnershipExact, Owned, At, Goto, Inside, Outer, Inner
<1>1. CASE SpawnWatchdog \/ Return \/ WatchdogWakes \/ WatchdogLoads \/ WatchdogDecides
  BY <1>1 DEF SpawnWatchdog, Return, WatchdogWakes, WatchdogLoads, WatchdogDecides, locks
<1>2. CASE Spawn(1, "spawn_one", "spawn_two") \/ Spawn(2, "spawn_two", "join")
  BY <1>2 DEF Spawn, Unborn, locks
<1>3. ASSUME NEW t \in Threads, SetLabel(t) \/ Announce(t) \/ Clear(t)
      PROVE  OwnershipExact'
  BY <1>3 DEF SetLabel, Announce, Clear
<1>4. ASSUME NEW t \in Threads, Lock(t)
      PROVE  OwnershipExact'
  BY <1>4 DEF Lock, Account
<1>5. ASSUME NEW t \in Threads, Record(t) \/ Forget(t)
      PROVE  OwnershipExact'
  BY <1>5 DEF Record, Forget
<1>6. ASSUME NEW t \in Threads, Wake(t)
      PROVE  OwnershipExact'
  BY <1>6 DEF Wake, locks
<1>7. ASSUME NEW t \in Threads, Unlock(t)
      PROVE  OwnershipExact'
  BY <1>7 DEF Unlock, Account
<1>8. ASSUME NEW t \in Threads,
             ReadFrom(t) \/ WriteFrom(t) \/ ReadTo(t) \/ WriteTo(t)
      PROVE  OwnershipExact'
  BY <1>8, StaysInside
<1>9. CASE UNCHANGED vars
  BY <1>9 DEF vars, locks
<1>. QED
  BY <1>1, <1>2, <1>3, <1>4, <1>5, <1>6, <1>7, <1>8, <1>9
  DEF Next, MainStep, WatchdogStep, ThreadStep, Finished

LEMMA RecordsStep ==
  ASSUME Shape, RecordsExact, [Next]_vars
  PROVE  RecordsExact'
<1> USE CallsAssumption, TwoThreads, TracedAssumption
    DEF Shape, TypeOK, Nested, RecordsExact, Account, At, Goto, Inside, Outer, Inner
<1>1. CASE SpawnWatchdog \/ Return \/ WatchdogWakes \/ WatchdogLoads \/ WatchdogDecides
  BY <1>1 DEF SpawnWatchdog, Return, WatchdogWakes, WatchdogLoads, WatchdogDecides, locks
<1>2. CASE Spawn(1, "spawn_one", "spawn_two") \/ Spawn(2, "spawn_two", "join")
  BY <1>2 DEF Spawn, Unborn, locks
<1>3. ASSUME NEW t \in Threads, SetLabel(t) \/ Lock(t) \/ Wake(t)
      PROVE  RecordsExact'
  BY <1>3 DEF SetLabel, Lock, Wake, locks
<1>4. ASSUME NEW t \in Threads, Announce(t) \/ Clear(t)
      PROVE  RecordsExact'
  BY <1>4 DEF Announce, Clear
<1>5. ASSUME NEW t \in Threads, Record(t)
      PROVE  RecordsExact'
  BY <1>5 DEF Record
<1>6. ASSUME NEW t \in Threads, Forget(t)
      PROVE  RecordsExact'
  BY <1>6 DEF Forget
<1>7. ASSUME NEW t \in Threads, Unlock(t)
      PROVE  RecordsExact'
  BY <1>7 DEF Unlock
<1>8. ASSUME NEW t \in Threads,
             ReadFrom(t) \/ WriteFrom(t) \/ ReadTo(t) \/ WriteTo(t)
      PROVE  RecordsExact'
  BY <1>8, StaysInside
<1>9. CASE UNCHANGED vars
  BY <1>9 DEF vars, locks
<1>. QED
  BY <1>1, <1>2, <1>3, <1>4, <1>5, <1>6, <1>7, <1>8, <1>9
  DEF Next, MainStep, WatchdogStep, ThreadStep, Finished

LEMMA RecordInvariant == Spec => [](Shape /\ OwnershipExact /\ RecordsExact)
<1>1. Init => Shape /\ OwnershipExact /\ RecordsExact
  BY IInvInit DEF IInv
<1>. QED BY <1>1, ShapeStep, OwnershipStep, RecordsStep, PTL DEF Spec

\* A record of a lock held is never wrong, at any step of the constructor and the
\* destructor of a TracedLock and for any arguments of the two calls.
THEOREM HoldingIsNeverWrong == Spec => []HoldingIsOwned
<1>1. Shape /\ OwnershipExact /\ RecordsExact => HoldingIsOwned
  BY CallsAssumption, TracedAssumption
  DEF Shape, TypeOK, Nested, OwnershipExact, RecordsExact, Owned, HoldingIsOwned,
      Inside, Outer, Inner
<1>. QED BY <1>1, RecordInvariant, PTL

\* The two calls main makes: one each way between two accounts.
Crossed == From[1] = To[2] /\ From[2] = To[1]

\* For the calls main makes, the four words show a cycle exactly in a deadlock.
THEOREM CycleMeansDeadlock == ASSUME Crossed PROVE Spec => []CycleIffDeadlock
<1> USE CallsAssumption, TracedAssumption, TwoThreads
<1>1. ASSUME Shape, OwnershipExact, RecordsExact
      PROVE  CycleIffDeadlock
  <2> USE <1>1 DEF Shape, TypeOK
  <2>1. ASSUME NEW t \in Threads, NEW u \in Threads \ {t}
        PROVE  From[t] = To[u]
    BY Crossed DEF Crossed
  <2>2. ASSUME NEW t \in Threads
        PROVE  holding[t] # Nullptr /\ waiting[t] # Nullptr
                 <=> nesting[t] = 2 /\ pc[t] \in {"lock", "clear"}
    BY DEF RecordsExact, Nested, Account, Outer, Inner
  <2>3. ASSUME Cycle
        PROVE  Deadlocked
    <3>1. \A t \in Threads : nesting[t] = 2 /\ pc[t] \in {"lock", "clear"}
      BY <2>2, <2>3 DEF Cycle
    <3>2. \A t \in Threads : owner[From[t]] = t
      BY <3>1 DEF OwnershipExact, Owned
    <3>3. ASSUME NEW t \in Threads
          PROVE  pc[t] = "lock" /\ owner[Account(t)] \in Threads \ {t}
      <4>1. PICK u \in Threads \ {t} : u = 3 - t
        OBVIOUS
      <4>2. owner[To[t]] = u
        BY <2>1, <3>2, <4>1
      <4>3. pc[t] # "clear"
        BY <3>1, <4>2 DEF OwnershipExact, Owned
      <4>. QED BY <3>1, <4>2, <4>3 DEF Account
    <3>. QED BY <3>3 DEF Deadlocked
  <2>4. ASSUME Deadlocked
        PROVE  Cycle
    <3>1. ASSUME NEW t \in Threads
          PROVE  nesting[t] = 2
      <4>1. SUFFICES ASSUME nesting[t] = 1 PROVE FALSE
        OBVIOUS
      <4>2. PICK u \in Threads \ {t} : owner[From[t]] = u
        BY <2>4, <4>1 DEF Deadlocked, Account
      <4>3. To[u] \in Owned(u) /\ pc[u] = "lock"
        BY <2>1, <2>4, <4>2 DEF OwnershipExact, Deadlocked
      <4>. QED BY <4>3 DEF Owned
    <3>. QED BY <2>2, <2>4, <3>1 DEF Deadlocked, Cycle
  <2>. QED BY <2>3, <2>4 DEF CycleIffDeadlock
<1>. QED BY <1>1, RecordInvariant, PTL

--------------------------------------------------------------------------------
(* The calls are atomic, as those of fixed.cpp are.                          *)

\* Two threads that are both between their second lock and its release have no
\* account in common.
LEMMA Apart ==
  ASSUME Shape, OwnershipExact, NEW t \in Threads, NEW u \in Threads, t # u,
         pc[t] \in Inside, pc[u] \in Inside
  PROVE  {From[t], To[t]} \cap {From[u], To[u]} = {}
<1>1. nesting[t] = 2 /\ nesting[u] = 2
  BY DEF Shape, TypeOK, Nested, Outer, Inside
<1>. QED BY <1>1, CallsAssumption DEF OwnershipExact, Owned, Inside

LEMMA RegistersStep ==
  ASSUME Shape, OwnershipExact, RegistersFresh, [Next]_vars
  PROVE  RegistersFresh'
<1> USE CallsAssumption, TwoThreads DEF Shape, TypeOK, RegistersFresh, At, Goto
<1>1. CASE SpawnWatchdog \/ Return \/ WatchdogWakes \/ WatchdogLoads \/ WatchdogDecides
  BY <1>1 DEF SpawnWatchdog, Return, WatchdogWakes, WatchdogLoads, WatchdogDecides, money
<1>2. CASE Spawn(1, "spawn_one", "spawn_two") \/ Spawn(2, "spawn_two", "join")
  BY <1>2 DEF Spawn, money
<1>3. ASSUME NEW t \in Threads, SetLabel(t) \/ Announce(t) \/ Lock(t) \/ Clear(t)
      PROVE  RegistersFresh'
  BY <1>3 DEF SetLabel, Announce, Lock, Clear, money
<1>4. ASSUME NEW t \in Threads, Record(t) \/ Forget(t) \/ Unlock(t) \/ Wake(t)
      PROVE  RegistersFresh'
  BY <1>4 DEF Record, Forget, Unlock, Wake, money
<1>5. ASSUME NEW t \in Threads, ReadFrom(t) \/ ReadTo(t)
      PROVE  RegistersFresh'
  BY <1>5 DEF ReadFrom, ReadTo, Read
<1>6. ASSUME NEW t \in Threads, WriteFrom(t) \/ WriteTo(t)
      PROVE  RegistersFresh'
  <2>1. \A u \in Threads \ {t} :
          pc[u] \in Inside => {From[t], To[t]} \cap {From[u], To[u]} = {}
    BY <1>6, Apart DEF WriteFrom, WriteTo, Write, Inside
  <2>2. CASE WriteFrom(t)
    BY <2>1, <2>2 DEF WriteFrom, Write, Inside
  <2>3. CASE WriteTo(t)
    BY <2>1, <2>3 DEF WriteTo, Write, Inside
  <2>. QED BY <1>6, <2>2, <2>3
<1>7. CASE UNCHANGED vars
  BY <1>7 DEF vars, money
<1>. QED
  BY <1>1, <1>2, <1>3, <1>4, <1>5, <1>6, <1>7
  DEF Next, MainStep, WatchdogStep, ThreadStep, Finished

LEMMA IInvInvariant == Spec => []IInv
<1>1. IInv /\ [Next]_vars => IInv'
  BY ShapeStep, OwnershipStep, RecordsStep, RegistersStep DEF IInv
<1>. QED BY IInvInit, <1>1, PTL DEF Spec

\* What the abstract specification sees.
Settled == [a \in Accounts |-> IF Debited(a) THEN balance[a] + amount ELSE balance[a]]
Transferred == {t \in Threads : Made(t)}

\* An account of a thread that holds both locks is debited by that thread or not
\* at all.
LEMMA OwnDebit ==
  ASSUME Shape, OwnershipExact, NEW t \in Threads, pc[t] \in Inside,
         NEW a \in {From[t], To[t]}
  PROVE  Debited(a) <=> a = From[t] /\ pc[t] \in {"read_to", "write_to"}
<1>1. ASSUME NEW u \in Threads, pc[u] \in {"read_to", "write_to"}, From[u] = a
      PROVE  u = t
  BY <1>1, Apart DEF Inside
<1>. QED BY <1>1, CallsAssumption DEF Debited

\* The debit is undone as long as the credit is missing.
LEMMA DebitIsHidden ==
  ASSUME IInv, NEW t \in Threads, WriteFrom(t)
  PROVE  Settled' = Settled /\ Transferred' = Transferred
<1> USE CallsAssumption DEF IInv, Shape, TypeOK
<1>1. /\ pc[t] = "write_from" /\ pc' = [pc EXCEPT ![t] = "read_to"]
      /\ balance' = [balance EXCEPT ![From[t]] = register[t] - amount]
      /\ register[t] = balance[From[t]]
  BY DEF WriteFrom, Write, At, Goto, RegistersFresh
<1>2. ~Debited(From[t])
  BY <1>1, OwnDebit DEF Inside
<1>3. Debited(From[t])'
  BY <1>1 DEF Debited
<1>4. \A a \in Accounts \ {From[t]} : Debited(a)' = Debited(a)
  BY <1>1 DEF Debited
<1>5. \A a \in Accounts : Settled'[a] = Settled[a]
  BY <1>1, <1>2, <1>3, <1>4 DEF Settled
<1>6. Transferred' = Transferred
  BY <1>1 DEF Transferred, Made
<1>. QED BY <1>5, <1>6 DEF Settled

\* The call takes effect when the other account is credited.
LEMMA CreditIsTheTransfer ==
  ASSUME IInv, NEW t \in Threads, WriteTo(t)
  PROVE  /\ t \notin Transferred /\ Transferred' = Transferred \cup {t}
         /\ Settled' = [Settled EXCEPT ![From[t]] = @ - amount, ![To[t]] = @ + amount]
<1> USE CallsAssumption DEF IInv, Shape, TypeOK
<1>1. /\ pc[t] = "write_to" /\ pc' = [pc EXCEPT ![t] = "forget"]
      /\ balance' = [balance EXCEPT ![To[t]] = register[t] + amount]
      /\ register[t] = balance[To[t]]
  BY DEF WriteTo, Write, At, Goto, RegistersFresh
<1>2. Debited(From[t]) /\ ~Debited(To[t])
  BY <1>1, OwnDebit DEF Inside
<1>3. ~Debited(From[t])'
  <2>1. \A u \in Threads \ {t} : pc[u] \in {"read_to", "write_to"} => From[u] # From[t]
    BY <1>1, Apart DEF Inside
  <2>. QED BY <1>1, <2>1 DEF Debited
<1>4. \A a \in Accounts \ {From[t]} : Debited(a)' = Debited(a)
  BY <1>1 DEF Debited
<1>. DEFINE moved == [Settled EXCEPT ![From[t]] = @ - amount, ![To[t]] = @ + amount]
<1>5. \A a \in Accounts : Settled'[a] = moved[a]
  BY <1>1, <1>2, <1>3, <1>4 DEF Settled
<1>6. t \notin Transferred /\ Transferred' = Transferred \cup {t}
  BY <1>1 DEF Transferred, Made
<1>. QED BY <1>5, <1>6 DEF Settled

\* Nothing else is seen at all.
LEMMA OthersAreHidden ==
  ASSUME IInv, [Next]_vars, \A t \in Threads : ~WriteFrom(t) /\ ~WriteTo(t)
  PROVE  Settled' = Settled /\ Transferred' = Transferred
<1> USE TwoThreads DEF IInv, Shape, TypeOK, At, Goto
<1>1. ASSUME balance' = balance,
             \A t \in Threads : pc'[t] \in {"read_to", "write_to"}
                                  <=> pc[t] \in {"read_to", "write_to"},
             \A t \in Threads : pc'[t] \in {"forget", "unlock", "done"}
                                  <=> pc[t] \in {"forget", "unlock", "done"}
      PROVE  Settled' = Settled /\ Transferred' = Transferred
  <2>1. \A a \in Accounts : Debited(a)' = Debited(a)
    BY <1>1 DEF Debited
  <2>2. Settled' = Settled
    BY <1>1, <2>1 DEF Settled
  <2>3. Transferred' = Transferred
    BY <1>1 DEF Transferred, Made
  <2>. QED BY <2>2, <2>3
<1>2. CASE Spawn(1, "spawn_one", "spawn_two") \/ Spawn(2, "spawn_two", "join")
  BY <1>1, <1>2 DEF Spawn, Unborn, money
<1>3. CASE SpawnWatchdog \/ Return \/ WatchdogWakes \/ WatchdogLoads \/ WatchdogDecides
  BY <1>1, <1>3
  DEF SpawnWatchdog, Return, WatchdogWakes, WatchdogLoads, WatchdogDecides, money
<1>4. ASSUME NEW t \in Threads,
             SetLabel(t) \/ Announce(t) \/ Lock(t) \/ Clear(t) \/ Record(t) \/ Wake(t)
      PROVE  Settled' = Settled /\ Transferred' = Transferred
  BY <1>1, <1>4 DEF SetLabel, Announce, Lock, Clear, Record, Wake, money
<1>5. ASSUME NEW t \in Threads, ReadFrom(t) \/ ReadTo(t) \/ Forget(t) \/ Unlock(t)
      PROVE  Settled' = Settled /\ Transferred' = Transferred
  <2>1. CASE Unlock(t)
    BY <1>1, <2>1 DEF Unlock, money
  <2>2. CASE ~Unlock(t)
    BY <1>1, <1>5, <2>2 DEF ReadFrom, ReadTo, Read, Forget, money
  <2>. QED BY <2>1, <2>2
<1>6. CASE UNCHANGED vars
  BY <1>1, <1>6 DEF vars, money
<1>. QED BY <1>2, <1>3, <1>4, <1>5, <1>6
         DEF Next, MainStep, WatchdogStep, ThreadStep, Finished

\* broken.cpp implements the abstract specification as well: whatever it fails to
\* do, no call is ever seen half done by another.
THEOREM CallsAreAtomic == Spec => Atomic
<1>1. Init => Abstract!Init
  <2> SUFFICES ASSUME Init PROVE Abstract!Init
    OBVIOUS
  <2>1. \A t \in Threads : pc[t] = "unborn"
    BY DEF Init
  <2>2. \A a \in Accounts : ~Debited(a) /\ balance[a] = kInitial
    BY <2>1 DEF Init, Debited
  <2>3. Transferred = {}
    BY <2>1 DEF Transferred, Made
  <2>. QED BY <2>2, <2>3 DEF Abstract!Init, Transferred
<1>2. IInv /\ [Next]_vars => [Abstract!Next]_(Abstract!vars)
  <2> SUFFICES ASSUME IInv, [Next]_vars
               PROVE  Abstract!Next \/ (Settled' = Settled /\ Transferred' = Transferred)
    BY DEF Abstract!vars, Settled, Transferred
  <2>1. ASSUME NEW t \in Threads, WriteTo(t)
        PROVE  Abstract!Next
    <3>1. Abstract!Transfer(t)
      BY <2>1, CreditIsTheTransfer DEF Abstract!Transfer, Settled, Transferred
    <3>. QED BY <3>1 DEF Abstract!Next, Abstract!Threads, Threads
  <2>. QED BY <2>1, DebitIsHidden, OthersAreHidden
<1>. QED BY <1>1, <1>2, IInvInvariant, PTL DEF Spec, Atomic, Abstract!Spec

\* The ledger the abstract specification speaks of is the one of the calls.
LEMMA SameLedger == \A T : Abstract!Ledger(T) = Ledger(T)
<1>1. \A S : Abstract!Cardinality(S) = Cardinality(S)
  BY DEF Abstract!Cardinality, Cardinality
<1>. QED BY <1>1 DEF Abstract!Ledger, Ledger

\* What Transfers promises is true of whatever implements it: in whatever order the
\* calls are made, none is lost and none made twice.
THEOREM BalancesAreRight == Atomic => []Abstract!BalancesAreTheLedgers
<1>1. Abstract!Init => Abstract!BalancesAreTheLedgers
  <2> SUFFICES ASSUME Abstract!Init PROVE Settled = Ledger(Transferred) /\ Transferred \subseteq Threads
    BY SameLedger DEF Abstract!BalancesAreTheLedgers, Abstract!Threads, Threads, Settled, Transferred
  <2>1. Settled = [a \in Accounts |-> kInitial] /\ Transferred = {}
    BY DEF Abstract!Init, Settled, Transferred
  <2>. QED BY <2>1, LedgerInit
<1>2. Abstract!BalancesAreTheLedgers /\ [Abstract!Next]_(Abstract!vars)
        => Abstract!BalancesAreTheLedgers'
  <2> SUFFICES ASSUME Settled = Ledger(Transferred), [Abstract!Next]_(Abstract!vars)
               PROVE  Settled' = Ledger(Transferred') /\ Transferred' \subseteq Threads
    BY SameLedger DEF Abstract!BalancesAreTheLedgers, Abstract!Threads, Threads, Settled,
           Transferred
  <2>1. ASSUME NEW t \in Threads, Abstract!Transfer(t)
        PROVE  Settled' = Ledger(Transferred')
    <3>1. /\ t \notin Transferred /\ Transferred' = Transferred \cup {t}
          /\ Settled' = [Settled EXCEPT ![From[t]] = @ - amount, ![To[t]] = @ + amount]
      BY <2>1 DEF Abstract!Transfer, Settled, Transferred
    <3>2. Transferred \in SUBSET Threads
      BY DEF Transferred
    <3>. QED BY <3>1, <3>2, LedgerStep
  <2>2. CASE UNCHANGED (Abstract!vars)
    BY <2>2 DEF Abstract!vars, Settled, Transferred
  <2>3. Transferred' \subseteq Threads
    BY DEF Transferred
  <2>. QED BY <2>1, <2>2, <2>3
       DEF Abstract!Next, Abstract!Finished, Abstract!Threads, Threads
<1>. QED BY <1>1, <1>2, PTL DEF Atomic, Abstract!Spec

\* broken.cpp hangs, but it neither makes nor loses money: at any time, in a deadlock
\* too, the balances are those of the calls that have been made.
THEOREM NoTransferIsLost == Spec => []Abstract!BalancesAreTheLedgers
BY CallsAreAtomic, BalancesAreRight, PTL
====
