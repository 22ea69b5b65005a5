-------------------------------- MODULE Counters --------------------------------
(***************************************************************************)
(* The programs that count with threads.  Case 01: kWorkers threads count  *)
(* in one integer, plain in broken.cpp and atomic in fixed.cpp, and main   *)
(* joins them and compares.  Case 05: the same loop with an atomic counter *)
(* for each worker, once with one worker and once with all; its variants   *)
(* differ in where the counters lie in the lines of the cache.             *)
(*                                                                         *)
(* The plain increment is a data race.  What the builds make of it is a    *)
(* load and a store for every iteration, or one of each for the whole loop *)
(* with the count kept in a register between.                              *)
(***************************************************************************)
EXTENDS Integers, FiniteSets

CONSTANTS
  kWorkers,
  kPerWorker,        \* case 05: kIterations
  Bases              \* where in a line the first counter of case 05 may lie

ASSUME CountersAssumption ==
  kWorkers \in Nat \ {0} /\ kPerWorker \in Nat \ {0} /\ Bases \subseteq 0..63

VARIABLES
  program,           \* which of the four, how it was built and placed
  counter,           \* one for each worker; case 01 has the first only
  round,             \* case 05: the call of runWith
  main, next,        \* where main is, and the thread it spawns or joins next
  pc, done,          \* where each worker is, and its finished iterations
  register,          \* what a plain increment has loaded
  holder,            \* the worker whose core has a line of the cache, or main
  exitCode,
  overlaps           \* for properties: 1 once two plain increments were under way

vars == <<program, counter, round, main, next, pc, done, register, holder,
          exitCode, overlaps>>

Workers == 1..kWorkers
Main == 0
Running == -1

Program(name, stride, base) == [name |-> name, stride |-> stride, base |-> base]

Programs ==
  {Program("c01_broken", stride, 0) : stride \in {1, kPerWorker}} \cup
  {Program("c01_fixed", 1, 0), Program("c05_fixed", 1, 0)} \cup
  {Program("c05_broken", 1, base) : base \in Bases}

OneCounter == program.name \in {"c01_broken", "c01_fixed"}

\* How many threads are spawned: runWith is called with one, then with all.
ThreadCount == IF OneCounter \/ round = 2 THEN kWorkers ELSE 1

--------------------------------------------------------------------------------
(* Where the counters of case 05 lie: bytes from one to the next, and lines. *)

kCacheLine == 64

\* Mutant of Apart: PaddedCounter without its alignas and padding.
ApartUnpadded == 8

Apart == IF program.name = "c05_fixed" THEN kCacheLine ELSE 8

Line(w) == (program.base + Apart * (w - 1)) \div kCacheLine

--------------------------------------------------------------------------------

Init ==
  /\ program \in Programs
  /\ counter = [w \in Workers |-> 0]
  /\ round = 1
  /\ main = (IF OneCounter THEN "spawn" ELSE "reset") /\ next = 1
  /\ pc = [w \in Workers |-> "unborn"]
  /\ done = [w \in Workers |-> 0]
  /\ register = [w \in Workers |-> 0]
  /\ holder = [l \in 0..kWorkers |-> Main]
  /\ exitCode = Running /\ overlaps = 0

\* Mutant of Reset: the counts of the last round stay.
ResetNothing ==
  /\ main = "reset" /\ main' = "spawn"
  /\ holder' = [l \in 0..kWorkers |-> Main]
  /\ UNCHANGED <<program, counter, round, next, pc, done, register, exitCode, overlaps>>

\* Case 05, at the start of runWith: no worker is alive.
Reset ==
  /\ main = "reset" /\ main' = "spawn"
  /\ counter' = [w \in Workers |-> 0]
  /\ holder' = [l \in 0..kWorkers |-> Main]
  /\ UNCHANGED <<program, round, next, pc, done, register, exitCode, overlaps>>

\* main goes on to the next of the threads, or from the last to what follows.
Advance(after) ==
  IF next = ThreadCount
    THEN next' = 1 /\ main' = after
    ELSE next' = next + 1 /\ UNCHANGED main

Spawn ==
  /\ main = "spawn" /\ Advance("join")
  /\ pc' = [pc EXCEPT ![next] = "loop"]
  /\ done' = [done EXCEPT ![next] = 0]
  /\ UNCHANGED <<program, counter, round, register, holder, exitCode, overlaps>>

\* Mutant of Join: it does not wait.
JoinNone ==
  /\ main = "join" /\ Advance(IF OneCounter THEN "report" ELSE "measure")
  /\ UNCHANGED <<program, counter, round, pc, done, register, holder, exitCode, overlaps>>

Join ==
  /\ main = "join" /\ pc[next] = "done"
  /\ Advance(IF OneCounter THEN "report" ELSE "measure")
  /\ UNCHANGED <<program, counter, round, pc, done, register, holder, exitCode, overlaps>>

\* Mutant of Measure: the first round is run over and over.
MeasureRepeating ==
  /\ main = "measure" /\ main' = "reset"
  /\ pc' = [w \in Workers |-> "unborn"]
  /\ UNCHANGED <<program, counter, round, next, done, register, holder, exitCode, overlaps>>

\* Case 05, at the end of runWith: the clock stops.  main calls it twice.
Measure ==
  /\ main = "measure"
  /\ IF round = 1
       THEN /\ round' = 2 /\ main' = "reset"
            /\ pc' = [w \in Workers |-> "unborn"]
            /\ UNCHANGED exitCode
       ELSE main' = "exit" /\ exitCode' = 0 /\ UNCHANGED <<round, pc>>
  /\ UNCHANGED <<program, counter, next, done, register, holder, overlaps>>

\* Case 01: the exit status says whether the count is what it should be.
Report ==
  /\ main = "report" /\ main' = "exit"
  /\ exitCode' = IF counter[1] = kWorkers * kPerWorker THEN 0 ELSE 1
  /\ UNCHANGED <<program, counter, round, next, pc, done, register, holder, overlaps>>

--------------------------------------------------------------------------------
(* The workers.                                                              *)

\* n iterations of w's loop are made, and the loop goes on or the thread ends.
Iterates(w, n) ==
  /\ done' = [done EXCEPT ![w] = @ + n]
  /\ pc' = [pc EXCEPT ![w] = IF done[w] + n >= kPerWorker THEN "done" ELSE "loop"]

\* Mutant of Load: the register keeps what it had.
LoadNothing(w) ==
  /\ program.name = "c01_broken" /\ pc[w] = "loop"
  /\ pc' = [pc EXCEPT ![w] = "store"]
  /\ overlaps' = IF \E u \in Workers \ {w} : pc[u] = "store" THEN 1 ELSE overlaps
  /\ UNCHANGED <<program, counter, round, main, next, done, register, holder, exitCode>>

\* ++requests_handled, in two steps.
Load(w) ==
  /\ program.name = "c01_broken" /\ pc[w] = "loop"
  /\ pc' = [pc EXCEPT ![w] = "store"]
  /\ register' = [register EXCEPT ![w] = counter[1]]
  /\ overlaps' = IF \E u \in Workers \ {w} : pc[u] = "store" THEN 1 ELSE overlaps
  /\ UNCHANGED <<program, counter, round, main, next, done, holder, exitCode>>

\* Mutant of Store: it counts one more.
StoreOneMore(w) ==
  /\ pc[w] = "store"
  /\ counter' = [counter EXCEPT ![1] = register[w] + program.stride + 1]
  /\ Iterates(w, program.stride)
  /\ UNCHANGED <<program, round, main, next, register, holder, exitCode, overlaps>>

Store(w) ==
  /\ pc[w] = "store"
  /\ counter' = [counter EXCEPT ![1] = register[w] + program.stride]
  /\ Iterates(w, program.stride)
  /\ UNCHANGED <<program, round, main, next, register, holder, exitCode, overlaps>>

\* requests_handled.fetch_add(1)
FetchAdd(w) ==
  /\ program.name = "c01_fixed" /\ pc[w] = "loop"
  /\ counter' = [counter EXCEPT ![1] = @ + 1]
  /\ Iterates(w, 1)
  /\ UNCHANGED <<program, round, main, next, register, holder, exitCode, overlaps>>

\* value[index].fetch_add(1): the worker's core takes the line.
FetchAddOwn(w) ==
  /\ ~OneCounter /\ pc[w] = "loop"
  /\ counter' = [counter EXCEPT ![w] = @ + 1]
  /\ holder' = [holder EXCEPT ![Line(w)] = w]
  /\ Iterates(w, 1)
  /\ UNCHANGED <<program, round, main, next, register, exitCode, overlaps>>

Worker(w) == Load(w) \/ Store(w) \/ FetchAdd(w) \/ FetchAddOwn(w)

MainStep == Reset \/ Spawn \/ Join \/ Measure \/ Report

Finished == main = "exit" /\ UNCHANGED vars

Next == MainStep \/ (\E w \in Workers : Worker(w)) \/ Finished

Spec == Init /\ [][Next]_vars

\* Every thread that can run does, in the end.
FairSpec == Spec /\ WF_vars(MainStep) /\ \A w \in Workers : WF_vars(Worker(w))

--------------------------------------------------------------------------------
(* Properties                                                                *)

TypeOK ==
  /\ program \in Programs
  /\ counter \in [Workers -> Nat]
  /\ round \in {1, 2}
  /\ main \in {"reset", "spawn", "join", "measure", "report", "exit"}
  /\ next \in Workers
  /\ pc \in [Workers -> {"unborn", "loop", "store", "done"}]
  /\ done \in [Workers -> 0..kPerWorker]
  /\ register \in [Workers -> Nat]
  /\ holder \in [0..kWorkers -> Workers \cup {Main}]
  /\ exitCode \in {Running, 0, 1}
  /\ overlaps \in {0, 1}

\* The requests handled so far: the increments each worker has finished.
Handled == {x \in Workers \X (1..kPerWorker) : x[2] <= done[x[1]]}

\* The count of case 01 only ever falls short, so that expected - counted, which is
\* unsigned, never wraps (case 01 broken.cpp:49-52).
NeverOverReports == OneCounter => counter[1] <= Cardinality(Handled)

\* case 01 broken.cpp:6-8: "a race only loses when two threads collide".  The exit
\* status reports a loss only if two plain increments were once under way together, and
\* never with fetch_add (case 01 fixed.cpp:47-53).
LossNeedsOverlap ==
  OneCounter /\ main = "exit" /\ exitCode # 0 =>
    program.name = "c01_broken" /\ overlaps = 1

\* However the increments interleave, two of them survive, and all of a worker's if
\* the loop was made one addition (case 01 README: "the losses can be far larger").
SomeCountsSurvive ==
  program.name = "c01_broken" /\ main = "exit" =>
    \/ counter[1] >= kPerWorker
    \/ program.stride = 1 /\ counter[1] >= 2

\* When the clock of a round stops, the increments that the throughput is computed
\* from have been made, and none of the round before is left (case 05
\* broken.cpp:40-57).
MeasuredWork ==
  main = "measure" =>
    \A w \in Workers : counter[w] = IF w <= ThreadCount THEN kPerWorker ELSE 0

\* With padding no worker takes a line of the cache from another (case 05
\* fixed.cpp:29-36).
PaddedLinesStay ==
  [][\A l \in 0..kWorkers :
       program.name = "c05_fixed" /\ holder[l] # Main /\ holder'[l] # Main =>
         holder'[l] = holder[l]]_vars

\* Every thread is joined and main returns.
Terminates == <>(main = "exit")
====
