---------------------------- MODULE ScopedTransfer ----------------------------
(***************************************************************************)
(* Case 02, fixed.cpp: transfer takes both locks through std::scoped_lock. *)
(* scoped_lock is std::lock, which locks one mutex, tries the other, and   *)
(* when that fails gives the first back and starts again with the other.   *)
(* The balances are plain longs, so reading one and writing it back are    *)
(* two steps.                                                              *)
(***************************************************************************)
EXTENDS TransferCalls

VARIABLES
  pc,                \* where each thread is
  first,             \* the account whose lock a thread takes first
  owner,             \* the owner of each account's lock, or Nobody
  balance,           \* Account::balance of each account
  register,          \* the balance a thread has read and not yet written
  spawned, printed   \* main: threads created; the balances it printed, if any

vars == <<pc, first, owner, balance, register, spawned, printed>>

Nobody == 0
Unprinted == [a \in {} |-> 0]

Other(t, a) == IF a = From[t] THEN To[t] ELSE From[t]

Init ==
  /\ pc = [t \in Threads |-> "unborn"]
  /\ first = From
  /\ owner = [a \in Accounts |-> Nobody]
  /\ balance = [a \in Accounts |-> kInitial]
  /\ register = [t \in Threads |-> 0]
  /\ spawned = 0 /\ printed = Unprinted

Goto(t, label) == pc' = [pc EXCEPT ![t] = label]

--------------------------------------------------------------------------------
(* std::lock                                                                 *)

\* The only step that blocks.
LockFirst(t) ==
  /\ pc[t] = "lock" /\ owner[first[t]] = Nobody
  /\ owner' = [owner EXCEPT ![first[t]] = t]
  /\ Goto(t, "try")
  /\ UNCHANGED <<first, balance, register, spawned, printed>>

\* Mutants of TryOther: the result of try_lock is ignored; it is tried again
\* without giving the first lock back.
TryIgnored(t) ==
  LET other == Other(t, first[t])
  IN /\ pc[t] = "try"
     /\ owner' = [owner EXCEPT ![other] = t]
     /\ Goto(t, "sleep")
     /\ UNCHANGED <<first, balance, register, spawned, printed>>

TryAgain(t) ==
  LET other == Other(t, first[t])
  IN /\ pc[t] = "try"
     /\ IF owner[other] = Nobody
          THEN owner' = [owner EXCEPT ![other] = t] /\ Goto(t, "sleep")
          ELSE UNCHANGED <<owner, pc>>
     /\ UNCHANGED <<first, balance, register, spawned, printed>>

TryOther(t) ==
  LET other == Other(t, first[t])
  IN /\ pc[t] = "try"
     /\ IF owner[other] = Nobody
          THEN owner' = [owner EXCEPT ![other] = t] /\ Goto(t, "sleep")
          ELSE Goto(t, "back_off") /\ UNCHANGED owner
     /\ UNCHANGED <<first, balance, register, spawned, printed>>

\* Mutant of BackOff: the first lock is kept.
BackOffHolding(t) ==
  /\ pc[t] = "back_off"
  /\ first' = [first EXCEPT ![t] = Other(t, @)]
  /\ Goto(t, "lock")
  /\ UNCHANGED <<owner, balance, register, spawned, printed>>

BackOff(t) ==
  /\ pc[t] = "back_off"
  /\ owner' = [owner EXCEPT ![first[t]] = Nobody]
  /\ first' = [first EXCEPT ![t] = Other(t, @)]
  /\ Goto(t, "lock")
  /\ UNCHANGED <<balance, register, spawned, printed>>

--------------------------------------------------------------------------------
(* transfer, once it holds both                                              *)

\* sleep_for: between the locks and the balances.
Wake(t) ==
  /\ pc[t] = "sleep"
  /\ Goto(t, "read_from")
  /\ UNCHANGED <<first, owner, balance, register, spawned, printed>>

Read(t, label, a, next) ==
  /\ pc[t] = label
  /\ register' = [register EXCEPT ![t] = balance[a]]
  /\ Goto(t, next)
  /\ UNCHANGED <<first, owner, balance, spawned, printed>>

Write(t, label, a, change, next) ==
  /\ pc[t] = label
  /\ balance' = [balance EXCEPT ![a] = register[t] + change]
  /\ Goto(t, next)
  /\ UNCHANGED <<first, owner, register, spawned, printed>>

ReadFrom(t)  == Read(t, "read_from", From[t], "write_from")
WriteFrom(t) == Write(t, "write_from", From[t], -amount, "read_to")
ReadTo(t)    == Read(t, "read_to", To[t], "write_to")
WriteTo(t)   == Write(t, "write_to", To[t], amount, "unlock_from")

\* The end of the scoped_lock's scope, one mutex after the other.
Unlock(t, label, a, next) ==
  /\ pc[t] = label
  /\ owner' = [owner EXCEPT ![a] = Nobody]
  /\ Goto(t, next)
  /\ UNCHANGED <<first, balance, register, spawned, printed>>

UnlockFrom(t) == Unlock(t, "unlock_from", From[t], "unlock_to")
UnlockTo(t)   == Unlock(t, "unlock_to", To[t], "done")

ThreadStep(t) ==
  \/ LockFirst(t) \/ TryOther(t) \/ BackOff(t) \/ Wake(t)
  \/ ReadFrom(t) \/ WriteFrom(t) \/ ReadTo(t) \/ WriteTo(t)
  \/ UnlockFrom(t) \/ UnlockTo(t)

--------------------------------------------------------------------------------
(* main                                                                      *)

\* Mutant of Spawn: one thread too many.
SpawnOneMore ==
  /\ spawned <= N
  /\ spawned' = spawned + 1
  /\ Goto(spawned + 1, "lock")
  /\ UNCHANGED <<first, owner, balance, register, printed>>

Spawn ==
  /\ spawned < N
  /\ spawned' = spawned + 1
  /\ Goto(spawned + 1, "lock")
  /\ UNCHANGED <<first, owner, balance, register, printed>>

\* Mutant of PrintBalances: the threads are not joined.
PrintUnjoined ==
  /\ spawned = N /\ printed = Unprinted
  /\ printed' = balance
  /\ UNCHANGED <<pc, first, owner, balance, register, spawned>>

\* The joins have returned; main reads the balances without the locks.
PrintBalances ==
  /\ spawned = N /\ printed = Unprinted
  /\ \A t \in Threads : pc[t] = "done"
  /\ printed' = balance
  /\ UNCHANGED <<pc, first, owner, balance, register, spawned>>

Finished == printed # Unprinted /\ UNCHANGED vars

Next == Spawn \/ PrintBalances \/ (\E t \in Threads : ThreadStep(t)) \/ Finished

Spec == Init /\ [][Next]_vars

\* Every thread keeps running; nothing says how two threads' retries interleave.
FairSpec == Spec /\ WF_vars(Spawn) /\ WF_vars(PrintBalances)
                 /\ \A t \in Threads : WF_vars(ThreadStep(t))

--------------------------------------------------------------------------------
(* Properties                                                                *)

Inside == {"sleep", "read_from", "write_from", "read_to", "write_to", "unlock_from"}
Labels == Inside \cup {"unborn", "lock", "try", "back_off", "unlock_to", "done"}

TypeOK ==
  /\ pc \in [Threads -> Labels]
  /\ first \in [Threads -> Accounts]
  /\ owner \in [Accounts -> Threads \cup {Nobody}]
  /\ balance \in [Accounts -> Int]
  /\ register \in [Threads -> Int]
  /\ spawned \in 0..N
  /\ printed \in [Accounts -> Int] \cup {Unprinted}

\* A thread that blocks on one lock holds no other: hold-and-wait, without which
\* there is no deadlock, is what scoped_lock removes (fixed.cpp:3-11).
NoHoldAndWait ==
  \A t \in Threads : pc[t] = "lock" => \A a \in Accounts : owner[a] # t

\* The balances main prints are those of all the calls, each made once.
PrintsTheLedger == printed # Unprinted => printed = Ledger(Threads)

\* Each call takes effect when its second balance is written; before that, its
\* debit is undone in the abstract balances.
Debited(a) == \E t \in Threads : pc[t] \in {"read_to", "write_to"} /\ From[t] = a

Abstract == INSTANCE Transfers WITH
  balance     <- [a \in Accounts |-> IF Debited(a) THEN balance[a] + amount
                                                   ELSE balance[a]],
  transferred <- {t \in Threads : pc[t] \in {"unlock_from", "unlock_to", "done"}}

\* The calls are atomic: no interleaving of their steps shows a half-made one.
Atomic == Abstract!Spec

\* The process ends, or its threads back off from each other for ever: the
\* retries of std::lock exclude a deadlock but not a livelock.
EndsOrBacksOffForever ==
  <>(printed # Unprinted) \/ []<>(\E t \in Threads : pc[t] = "back_off")
====
