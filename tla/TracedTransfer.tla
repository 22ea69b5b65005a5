---------------------------- MODULE TracedTransfer ----------------------------
(***************************************************************************)
(* Case 02, broken.cpp: transfer takes the lock of the account it debits   *)
(* and then that of the other, through TracedLocks that record what the    *)
(* thread holds and waits for.  A watchdog reads these records once and    *)
(* ends the process when they form a cycle.                                *)
(***************************************************************************)
EXTENDS TransferCalls, Sequences

CONSTANT Nullptr     \* no account

ASSUME TracedAssumption == N = 2 /\ Nullptr \notin Accounts

VARIABLES
  pc,                \* where each thread is
  nesting,           \* which of its two TracedLocks a thread is at: 1 or 2
  owner,             \* the owner of each account's lock, or Nobody
  label, holding, waiting,   \* ThreadState of each thread
  balance,           \* Account::balance of each account
  register,          \* the balance a thread has read and not yet written
  watchdog, sample,  \* where the watchdog is, and what it has read
  main,              \* what main has done
  exitCode           \* Running, or the exit status of the process

locks  == <<owner, label, holding, waiting>>
money  == <<balance, register>>
others == <<watchdog, sample, main, exitCode>>
vars   == <<pc, nesting, locks, money, others>>

Nobody == 0
Running == -1

\* The account whose lock t is at.
Account(t) == IF nesting[t] = 1 THEN From[t] ELSE To[t]

Init ==
  /\ pc = [t \in Threads |-> "unborn"]
  /\ nesting = [t \in Threads |-> 1]
  /\ owner = [a \in Accounts |-> Nobody]
  /\ label = [t \in Threads |-> FALSE]
  /\ holding = [t \in Threads |-> Nullptr]
  /\ waiting = [t \in Threads |-> Nullptr]
  /\ balance = [a \in Accounts |-> kInitial]
  /\ register = [t \in Threads |-> 0]
  /\ watchdog = "unborn" /\ sample = <<>>
  /\ main = "spawn_watchdog" /\ exitCode = Running

At(t, here) == exitCode = Running /\ pc[t] = here
Goto(t, there) == pc' = [pc EXCEPT ![t] = there]

--------------------------------------------------------------------------------
(* TracedLock, at nesting 1 for the account debited and 2 for the other.     *)

Announce(t) ==
  /\ At(t, "announce")
  /\ waiting' = [waiting EXCEPT ![t] = Account(t)]
  /\ Goto(t, "lock")
  /\ UNCHANGED <<nesting, owner, label, holding, money, others>>

\* The only step that blocks.
Lock(t) ==
  /\ At(t, "lock") /\ owner[Account(t)] = Nobody
  /\ owner' = [owner EXCEPT ![Account(t)] = t]
  /\ Goto(t, "clear")
  /\ UNCHANGED <<nesting, label, holding, waiting, money, others>>

\* Mutant of Clear: the thread is still recorded as waiting.
ClearNothing(t) ==
  /\ At(t, "clear")
  /\ Goto(t, "record")
  /\ UNCHANGED <<nesting, locks, money, others>>

Clear(t) ==
  /\ At(t, "clear")
  /\ waiting' = [waiting EXCEPT ![t] = Nullptr]
  /\ Goto(t, "record")
  /\ UNCHANGED <<nesting, owner, label, holding, money, others>>

\* Only the first lock held is recorded.
Record(t) ==
  /\ At(t, "record")
  /\ IF holding[t] = Nullptr
       THEN holding' = [holding EXCEPT ![t] = Account(t)]
       ELSE UNCHANGED holding
  /\ Goto(t, IF nesting[t] = 1 THEN "sleep" ELSE "read_from")
  /\ UNCHANGED <<nesting, owner, label, waiting, money, others>>

\* Mutant of Forget: the destructor has no body.
ForgetNothing(t) ==
  /\ At(t, "forget")
  /\ Goto(t, "unlock")
  /\ UNCHANGED <<nesting, locks, money, others>>

\* The destructor: the record is cleared in its body, before the member that
\* owns the lock is destroyed.
Forget(t) ==
  /\ At(t, "forget")
  /\ IF holding[t] = Account(t)
       THEN holding' = [holding EXCEPT ![t] = Nullptr]
       ELSE UNCHANGED holding
  /\ Goto(t, "unlock")
  /\ UNCHANGED <<nesting, owner, label, waiting, money, others>>

\* Mutants of Unlock: the lock is kept; the nesting is counted down once too often.
UnlockNothing(t) ==
  /\ At(t, "unlock")
  /\ nesting' = [nesting EXCEPT ![t] = 1]
  /\ Goto(t, IF nesting[t] = 2 THEN "forget" ELSE "done")
  /\ UNCHANGED <<locks, money, others>>

UnlockOneMore(t) ==
  /\ At(t, "unlock")
  /\ owner' = [owner EXCEPT ![Account(t)] = Nobody]
  /\ nesting' = [nesting EXCEPT ![t] = @ - 1]
  /\ Goto(t, IF nesting[t] = 2 THEN "forget" ELSE "done")
  /\ UNCHANGED <<label, holding, waiting, money, others>>

Unlock(t) ==
  /\ At(t, "unlock")
  /\ owner' = [owner EXCEPT ![Account(t)] = Nobody]
  /\ nesting' = [nesting EXCEPT ![t] = 1]
  /\ Goto(t, IF nesting[t] = 2 THEN "forget" ELSE "done")
  /\ UNCHANGED <<label, holding, waiting, money, others>>

--------------------------------------------------------------------------------
(* transfer                                                                  *)

\* The thread's lambda: it names itself and calls transfer.
SetLabel(t) ==
  /\ At(t, "label")
  /\ label' = [label EXCEPT ![t] = TRUE]
  /\ Goto(t, "announce")
  /\ UNCHANGED <<nesting, owner, holding, waiting, money, others>>

\* sleep_for(20 ms) is over: on to the second lock.
Wake(t) ==
  /\ At(t, "sleep")
  /\ nesting' = [nesting EXCEPT ![t] = 2]
  /\ Goto(t, "announce")
  /\ UNCHANGED <<locks, money, others>>

Read(t, here, a, there) ==
  /\ At(t, here)
  /\ register' = [register EXCEPT ![t] = balance[a]]
  /\ Goto(t, there)
  /\ UNCHANGED <<nesting, locks, balance, others>>

Write(t, here, a, change, there) ==
  /\ At(t, here)
  /\ balance' = [balance EXCEPT ![a] = register[t] + change]
  /\ Goto(t, there)
  /\ UNCHANGED <<nesting, locks, register, others>>

ReadFrom(t)  == Read(t, "read_from", From[t], "write_from")
WriteFrom(t) == Write(t, "write_from", From[t], -amount, "read_to")
\* Mutant of ReadTo: the balance of the other account is not read.
ReadToNothing(t) ==
  /\ At(t, "read_to")
  /\ Goto(t, "write_to")
  /\ UNCHANGED <<nesting, locks, money, others>>

ReadTo(t)    == Read(t, "read_to", To[t], "write_to")
WriteTo(t)   == Write(t, "write_to", To[t], amount, "forget")

ThreadStep(t) ==
  \/ SetLabel(t) \/ Announce(t) \/ Lock(t) \/ Clear(t) \/ Record(t) \/ Wake(t)
  \/ ReadFrom(t) \/ WriteFrom(t) \/ ReadTo(t) \/ WriteTo(t)
  \/ Forget(t) \/ Unlock(t)

--------------------------------------------------------------------------------
(* The watchdog: it sleeps once, for however long two seconds are compared   *)
(* to what the threads do, and reads four records, one after the other.      *)

WatchdogWakes ==
  /\ exitCode = Running /\ watchdog = "sleep"
  /\ watchdog' = "load"
  /\ UNCHANGED <<pc, nesting, locks, money, sample, main, exitCode>>

Records == <<holding[1], waiting[1], holding[2], waiting[2]>>

WatchdogLoads ==
  /\ exitCode = Running /\ watchdog = "load" /\ Len(sample) < 4
  /\ sample' = Append(sample, Records[Len(sample) + 1])
  /\ UNCHANGED <<pc, nesting, locks, money, watchdog, main, exitCode>>

\* Mutant of WatchdogDecides: the test is inverted.
WatchdogInverted ==
  /\ exitCode = Running /\ watchdog = "load" /\ Len(sample) = 4
  /\ watchdog' = "gone"
  /\ exitCode' = IF \E i \in 1..4 : sample[i] # Nullptr THEN Running ELSE 1
  /\ UNCHANGED <<pc, nesting, locks, money, sample, main>>

\* It prints its report and calls _Exit(1), or returns for good.
WatchdogDecides ==
  /\ exitCode = Running /\ watchdog = "load" /\ Len(sample) = 4
  /\ watchdog' = "gone"
  /\ exitCode' = IF \E i \in 1..4 : sample[i] = Nullptr THEN Running ELSE 1
  /\ UNCHANGED <<pc, nesting, locks, money, sample, main>>

WatchdogStep == WatchdogWakes \/ WatchdogLoads \/ WatchdogDecides

--------------------------------------------------------------------------------
(* main                                                                      *)

SpawnWatchdog ==
  /\ exitCode = Running /\ main = "spawn_watchdog"
  /\ watchdog' = "sleep" /\ main' = "spawn_one"
  /\ UNCHANGED <<pc, nesting, locks, money, sample, exitCode>>

Spawn(t, here, there) ==
  /\ exitCode = Running /\ main = here
  /\ Goto(t, "label") /\ main' = there
  /\ UNCHANGED <<nesting, locks, money, watchdog, sample, exitCode>>

\* Both joins have returned.
Return ==
  /\ exitCode = Running /\ main = "join"
  /\ \A t \in Threads : pc[t] = "done"
  /\ main' = "returned" /\ exitCode' = 0
  /\ UNCHANGED <<pc, nesting, locks, money, watchdog, sample>>

MainStep == SpawnWatchdog \/ Spawn(1, "spawn_one", "spawn_two")
              \/ Spawn(2, "spawn_two", "join") \/ Return

Finished == exitCode # Running /\ UNCHANGED vars

Next == MainStep \/ WatchdogStep \/ (\E t \in Threads : ThreadStep(t)) \/ Finished

Spec == Init /\ [][Next]_vars

\* A thread that can run does, and the watchdog's sleep ends.
FairSpec == Spec /\ WF_vars(MainStep) /\ WF_vars(WatchdogStep)
                 /\ \A t \in Threads : WF_vars(ThreadStep(t))

--------------------------------------------------------------------------------
(* Properties                                                                *)

Labels == {"unborn", "label", "announce", "lock", "clear", "record", "sleep",
           "read_from", "write_from", "read_to", "write_to", "forget", "unlock",
           "done"}

TypeOK ==
  /\ pc \in [Threads -> Labels]
  /\ nesting \in [Threads -> {1, 2}]
  /\ owner \in [Accounts -> Threads \cup {Nobody}]
  /\ label \in [Threads -> BOOLEAN]
  /\ holding \in [Threads -> Accounts \cup {Nullptr}]
  /\ waiting \in [Threads -> Accounts \cup {Nullptr}]
  /\ balance \in [Accounts -> Int]
  /\ register \in [Threads -> Int]
  /\ watchdog \in {"unborn", "sleep", "load", "gone"}
  /\ sample \in Seq(Accounts \cup {Nullptr}) /\ Len(sample) <= 4
  /\ main \in {"spawn_watchdog", "spawn_one", "spawn_two", "join", "returned"}
  /\ exitCode \in {Running, 0, 1}

\* A thread owns the lock it is recorded as holding, at every instant: the record
\* is made after the lock is taken and cleared before it is given back.
HoldingIsOwned ==
  \A t \in Threads : holding[t] # Nullptr => owner[holding[t]] = t

\* Each of the two threads waits for a lock the other owns.
Deadlocked ==
  \A t \in Threads : pc[t] = "lock" /\ owner[Account(t)] \in Threads \ {t}

\* What the watchdog looks for, if it could see all four records at once.
Cycle == \A t \in Threads : holding[t] # Nullptr /\ waiting[t] # Nullptr

\* At any instant the four records show a cycle exactly when there is a deadlock:
\* neither a lock about to be granted nor the second lock of a thread that holds
\* both is mistaken for one, and no deadlock hides.
CycleIffDeadlock == Cycle <=> Deadlocked

\* The calls are atomic in this program too: what is wrong with it is not that.
Debited(a) == \E t \in Threads : pc[t] \in {"read_to", "write_to"} /\ From[t] = a
Made(t) == pc[t] \in {"forget", "unlock", "done"}

Abstract == INSTANCE Transfers WITH
  balance     <- [a \in Accounts |-> IF Debited(a) THEN balance[a] + amount
                                                   ELSE balance[a]],
  transferred <- {t \in Threads : Made(t)}

Atomic == Abstract!Spec

\* The process ends unless its threads deadlock: nothing else blocks it.
HangsOnlyByDeadlock == <>(exitCode # Running \/ Deadlocked)

\* A deadlock that stands before the watchdog wakes is reported.
LateSampleReports == Deadlocked /\ watchdog = "sleep" ~> exitCode = 1

\* broken.cpp:93: the watchdog "reports a two-thread wait-for cycle, if one is
\* still standing after a while".
ReportsOnlyDeadlocks == exitCode = 1 => Deadlocked
====
