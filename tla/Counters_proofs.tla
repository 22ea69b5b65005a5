---------------------------- MODULE Counters_proofs ----------------------------
(***************************************************************************)
(* What the counting programs promise, for every number of workers and of  *)
(* iterations.  The count is compared with the set of the increments that  *)
(* have been finished, whose cardinality grows with every iteration.       *)
(***************************************************************************)
EXTENDS Counters, FiniteSetTheorems, TLAPS

\* What the set of the programs says of the one that runs.
Known ==
  /\ program.name \in {"c01_broken", "c01_fixed", "c05_broken", "c05_fixed"}
  /\ program.name = "c01_broken" => program.stride \in {1, kPerWorker}
  /\ program.name = "c05_fixed" => program.base = 0
  /\ program.base \in 0..63

LEMMA KnownPrograms == program \in Programs => Known
BY CountersAssumption DEF Programs, Program, Known

\* Which places main can be at, and the thread it is about.
Places ==
  /\ next \in 1..ThreadCount
  /\ OneCounter => main \in {"spawn", "join", "report", "exit"}
  /\ ~OneCounter => main \in {"reset", "spawn", "join", "measure", "exit"}
  /\ main \notin {"spawn", "join"} => next = 1

\* Which threads there are at each place of main.
Threads ==
  /\ main = "reset" => \A w \in Workers : pc[w] = "unborn"
  /\ main = "spawn" => \A w \in Workers : pc[w] = "unborn" <=> w >= next
  /\ main = "join" =>
       \A w \in Workers : /\ w < next => pc[w] = "done"
                          /\ pc[w] = "unborn" <=> w > ThreadCount
  /\ main \in {"measure", "report", "exit"} =>
       \A w \in Workers : pc[w] = IF w <= ThreadCount THEN "done" ELSE "unborn"

\* How far the loop of a worker is.
Progress ==
  \A w \in Workers :
    /\ pc[w] = "done" => done[w] = kPerWorker
    /\ pc[w] = "loop" => done[w] < kPerWorker
    /\ OneCounter /\ pc[w] = "unborn" => done[w] = 0
    /\ pc[w] = "store" =>
         program.name = "c01_broken" /\ done[w] + program.stride <= kPerWorker
    /\ program.name = "c01_broken" /\ program.stride = kPerWorker =>
         done[w] \in {0, kPerWorker}

Shape == TypeOK /\ Known /\ Places /\ Threads /\ Progress

LEMMA ShapeInit == Init => Shape
<1>. SUFFICES ASSUME Init PROVE Shape
  OBVIOUS
<1>1. Known
  BY KnownPrograms DEF Init
<1>2. TypeOK
  BY CountersAssumption DEF Init, TypeOK, Workers, OneCounter, Main, Running
<1>3. Places /\ Threads
  BY CountersAssumption, <1>1
  DEF Init, Places, Threads, Workers, OneCounter, ThreadCount, Known
<1>4. Progress
  BY CountersAssumption DEF Init, Progress, Workers
<1>. QED BY <1>1, <1>2, <1>3, <1>4 DEF Shape

\* The program stays what it is, and its threads change in number only when main
\* begins the second round.
Steady ==
  /\ program' = program /\ OneCounter' = OneCounter
  /\ ThreadCount \in Workers
  /\ ~Measure => ThreadCount' = ThreadCount

LEMMA SteadySteps ==
  ASSUME TypeOK, [Next]_vars
  PROVE  Steady
<1>1. program' = program /\ (~Measure => round' = round)
  BY DEF Next, MainStep, Worker, Reset, Spawn, Join, Report, Measure, Load, Store,
         FetchAdd, FetchAddOwn, Finished, vars
<1>. QED BY <1>1, CountersAssumption DEF Steady, OneCounter, ThreadCount, Workers, TypeOK

\* A worker begins an increment, or finishes n iterations.
Begins(w) == done' = done /\ pc' = [pc EXCEPT ![w] = "store"]

Finishes(w, n) ==
  /\ done[w] + n <= kPerWorker
  /\ done' = [done EXCEPT ![w] = done[w] + n]
  /\ pc' = [pc EXCEPT ![w] = IF done[w] + n = kPerWorker THEN "done" ELSE "loop"]

LoopStep(w) ==
  /\ UNCHANGED <<program, round, main, next, exitCode>>
  /\ \/ /\ program.name = "c01_broken" /\ pc[w] = "loop" /\ Begins(w)
     \/ /\ program.name = "c01_broken" /\ pc[w] = "store"
        /\ Finishes(w, program.stride)
     \/ /\ program.name # "c01_broken" /\ pc[w] = "loop" /\ Finishes(w, 1)

LEMMA IteratesFinishes ==
  ASSUME TypeOK, NEW w \in Workers, NEW n \in Nat, done[w] + n <= kPerWorker,
         Iterates(w, n)
  PROVE  Finishes(w, n)
<1>1. done[w] \in Nat /\ kPerWorker \in Nat
  BY CountersAssumption DEF TypeOK
<1>2. done[w] + n >= kPerWorker <=> done[w] + n = kPerWorker
  BY <1>1
<1>. QED BY <1>2, Zenon DEF Iterates, Finishes

\* A worker's step is a step of its loop and leaves main alone.
LEMMA WorkerSteps ==
  ASSUME TypeOK, Known, Progress, NEW w \in Workers, Worker(w)
  PROVE  LoopStep(w)
<1> USE CountersAssumption
<1>1. done[w] \in 0..kPerWorker
  BY DEF TypeOK
<1>2. CASE Load(w)
  BY <1>2 DEF Load, LoopStep, Begins
<1>3. CASE Store(w)
  <2>1. /\ program.name = "c01_broken" /\ program.stride \in {1, kPerWorker}
        /\ done[w] + program.stride <= kPerWorker
    BY <1>3 DEF Store, Progress, Known
  <2>2. Finishes(w, program.stride)
    BY <1>3, <2>1, IteratesFinishes DEF Store
  <2>. QED BY <1>3, <2>1, <2>2 DEF Store, LoopStep
<1>4. CASE FetchAdd(w)
  <2>1. done[w] < kPerWorker
    BY <1>4 DEF FetchAdd, Progress
  <2>2. Finishes(w, 1)
    BY <1>1, <1>4, <2>1, IteratesFinishes DEF FetchAdd
  <2>. QED BY <1>4, <2>2 DEF FetchAdd, LoopStep
<1>5. CASE FetchAddOwn(w)
  <2>1. done[w] < kPerWorker
    BY <1>5 DEF FetchAddOwn, Progress
  <2>2. Finishes(w, 1)
    BY <1>1, <1>5, <2>1, IteratesFinishes DEF FetchAddOwn
  <2>. QED BY <1>5, <2>2 DEF FetchAddOwn, LoopStep, OneCounter
<1>. QED BY <1>2, <1>3, <1>4, <1>5 DEF Worker

LEMMA TypeStep ==
  ASSUME Shape, [Next]_vars
  PROVE  TypeOK'
<1>. TypeOK /\ Known /\ Progress /\ Steady
  BY SteadySteps DEF Shape
<1>0. /\ next \in 1..ThreadCount /\ kWorkers \in Nat \ {0}
      /\ kPerWorker \in Nat \ {0} /\ 1 \in Workers
  BY CountersAssumption DEF Shape, Places, Workers
<1>1. CASE Reset
  BY <1>1 DEF Reset, Main, TypeOK
<1>2. CASE Spawn
  <2>1. next' \in Workers /\ main' \in {"spawn", "join"}
    BY <1>0, <1>2 DEF Spawn, Advance, Workers, TypeOK, Steady
  <2>2. done' \in [Workers -> 0..kPerWorker]
    BY <1>0, <1>2 DEF Spawn, TypeOK
  <2>3. pc' \in [Workers -> {"unborn", "loop", "store", "done"}]
    BY <1>2 DEF Spawn, TypeOK
  <2>. QED BY <1>2, <2>1, <2>2, <2>3 DEF Spawn, TypeOK
<1>3. CASE Join
  <2>1. next' \in Workers /\ main' \in {"join", "report", "measure"}
    BY <1>0, <1>3 DEF Join, Advance, Workers, TypeOK, Steady
  <2>. QED BY <1>3, <2>1 DEF Join, TypeOK
<1>4. CASE Measure
  BY <1>4 DEF Measure, TypeOK
<1>5. CASE Report
  BY <1>5 DEF Report, TypeOK
<1>6. ASSUME NEW w \in Workers, Worker(w)
      PROVE  TypeOK'
  <2>0. LoopStep(w)
    BY <1>6, WorkerSteps
  <2>1. program.name = "c01_broken" => program.stride \in {1, kPerWorker}
    BY DEF Known
  <2>2. /\ pc' \in [Workers -> {"unborn", "loop", "store", "done"}]
        /\ done' \in [Workers -> 0..kPerWorker]
    <3>1. CASE Begins(w)
      BY <3>1 DEF Begins, TypeOK
    <3>2. ASSUME NEW n \in Nat, Finishes(w, n)
          PROVE  /\ pc' \in [Workers -> {"unborn", "loop", "store", "done"}]
                 /\ done' \in [Workers -> 0..kPerWorker]
      BY <1>0, <3>2 DEF Finishes, TypeOK
    <3>. QED BY <1>0, <2>0, <2>1, <3>1, <3>2 DEF LoopStep
  <2>3. counter' \in [Workers -> Nat]
    <3>1. CASE Store(w)
      BY <1>0, <2>1, <3>1 DEF Store, TypeOK, Progress
    <3>2. CASE Load(w)
      BY <3>2 DEF Load, TypeOK
    <3>3. CASE FetchAdd(w)
      BY <1>0, <3>3 DEF FetchAdd, TypeOK
    <3>4. CASE FetchAddOwn(w)
      BY <3>4 DEF FetchAddOwn, TypeOK
    <3>. QED BY <1>6, <3>1, <3>2, <3>3, <3>4 DEF Worker
  <2>4. register' \in [Workers -> Nat]
    BY <1>0, <1>6 DEF Worker, Load, Store, FetchAdd, FetchAddOwn, TypeOK
  <2>5. holder' \in [0..kWorkers -> Workers \cup {Main}] /\ overlaps' \in {0, 1}
    BY <1>6 DEF Worker, Load, Store, FetchAdd, FetchAddOwn, TypeOK
  <2>. QED BY <2>0, <2>2, <2>3, <2>4, <2>5 DEF TypeOK, LoopStep
<1>7. CASE UNCHANGED vars
  BY <1>7 DEF vars, TypeOK
<1>. QED BY <1>1, <1>2, <1>3, <1>4, <1>5, <1>6, <1>7 DEF Next, MainStep, Finished

LEMMA ThreadsStep ==
  ASSUME Shape, [Next]_vars
  PROVE  Places' /\ Threads' /\ Progress'
<1>. Steady /\ TypeOK /\ Known
  BY SteadySteps DEF Shape
<1>. Places /\ Threads /\ Progress
  BY DEF Shape
<1>0. /\ kWorkers \in Nat \ {0} /\ kPerWorker \in Nat \ {0} /\ next \in Nat
      /\ pc \in [Workers -> {"unborn", "loop", "store", "done"}]
      /\ done \in [Workers -> 0..kPerWorker]
      /\ Workers = 1..kWorkers
  BY CountersAssumption DEF TypeOK, Workers
<1>1. CASE Reset
  BY <1>0, <1>1 DEF Reset, Places, Threads, Progress, Steady, Measure
<1>2. CASE Spawn
  <2>0. ThreadCount' = ThreadCount
    BY <1>2 DEF Spawn, Steady, Measure
  <2>1. Places'
    BY <1>0, <1>2, <2>0 DEF Spawn, Advance, Places, Steady
  <2>2. Threads'
    BY <1>0, <1>2, <2>0 DEF Spawn, Advance, Places, Threads, Steady
  <2>3. Progress'
    BY <1>0, <1>2 DEF Spawn, Progress, Steady
  <2>. QED BY <2>1, <2>2, <2>3
<1>3. CASE Join
  <2>0. ThreadCount' = ThreadCount
    BY <1>3 DEF Join, Steady, Measure
  <2>1. Places'
    BY <1>0, <1>3, <2>0 DEF Join, Advance, Places, Steady
  <2>2. Threads'
    BY <1>0, <1>3, <2>0 DEF Join, Advance, Places, Threads, Steady
  <2>3. Progress'
    BY <1>0, <1>3 DEF Join, Progress, Steady
  <2>. QED BY <2>1, <2>2, <2>3
<1>4. CASE Measure
  <2>1. Places'
    BY <1>0, <1>4 DEF Measure, Places, ThreadCount, Steady
  <2>2. Threads'
    BY <1>0, <1>4 DEF Measure, Threads, ThreadCount, Steady
  <2>3. Progress'
    BY <1>0, <1>4 DEF Measure, Progress, Places, Steady
  <2>. QED BY <2>1, <2>2, <2>3
<1>5. CASE Report
  BY <1>0, <1>5 DEF Report, Places, Threads, Progress, Steady, Measure
<1>6. ASSUME NEW w \in Workers, Worker(w)
      PROVE  Places' /\ Threads' /\ Progress'
  <2>0. LoopStep(w)
    BY <1>6, WorkerSteps
  <2>1. ThreadCount' = ThreadCount
    BY <2>0 DEF ThreadCount, LoopStep, Steady
  <2>2. Places'
    BY <2>0, <2>1 DEF Places, LoopStep, Steady
  <2>3. Threads'
    BY <1>0, <2>0, <2>1 DEF Threads, LoopStep, Begins, Finishes, Steady
  <2>4. Progress'
    <3>1. CASE pc[w] = "store"
      BY <1>0, <2>0, <3>1 DEF Progress, LoopStep, Finishes, Steady, Known
    <3>2. CASE program.name = "c01_broken" /\ pc[w] = "loop"
      BY <1>0, <2>0, <3>2 DEF Progress, LoopStep, Begins, Steady, Known
    <3>3. CASE program.name # "c01_broken"
      BY <1>0, <2>0, <3>3 DEF Progress, LoopStep, Finishes, Steady
    <3>. QED BY <2>0, <3>1, <3>2, <3>3 DEF LoopStep
  <2>. QED BY <2>2, <2>3, <2>4
<1>7. CASE UNCHANGED vars
  BY <1>7 DEF vars, Places, Threads, Progress, ThreadCount, Steady
<1>. QED BY <1>1, <1>2, <1>3, <1>4, <1>5, <1>6, <1>7 DEF Next, MainStep, Finished

LEMMA ShapeInvariant == Spec => []Shape
<1>1. Shape /\ [Next]_vars => Shape'
  BY TypeStep, ThreadsStep, SteadySteps DEF Shape, Known, Steady
<1>. QED BY <1>1, ShapeInit, PTL DEF Spec

\* Types hold in all four programs.
THEOREM TypeCorrect == Spec => []TypeOK
<1>1. Shape => TypeOK
  BY DEF Shape
<1>. QED BY <1>1, ShapeInvariant, PTL

--------------------------------------------------------------------------------
(* The set of the finished increments, and its size.                         *)

Size == Cardinality(Handled)

LEMMA HandledSize ==
  ASSUME TypeOK
  PROVE  /\ IsFiniteSet(Handled) /\ Size \in Nat
         /\ IsFiniteSet(Workers \X (1..kPerWorker))
         /\ Cardinality(Workers \X (1..kPerWorker)) = kWorkers * kPerWorker
         /\ Size <= kWorkers * kPerWorker
<1>1. /\ IsFiniteSet(Workers) /\ Cardinality(Workers) = kWorkers
      /\ IsFiniteSet(1..kPerWorker) /\ Cardinality(1..kPerWorker) = kPerWorker
  BY FS_Interval, CountersAssumption DEF Workers
<1>2. /\ IsFiniteSet(Workers \X (1..kPerWorker))
      /\ Cardinality(Workers \X (1..kPerWorker)) = kWorkers * kPerWorker
  BY <1>1, FS_Product
<1>3. Handled \in SUBSET (Workers \X (1..kPerWorker))
  BY DEF Handled
<1>. QED BY <1>2, <1>3, FS_Subset, FS_CardinalityType DEF Size

\* When every worker has finished, every increment has been made.
LEMMA AllHandled ==
  ASSUME TypeOK, \A w \in Workers : done[w] = kPerWorker
  PROVE  Size = kWorkers * kPerWorker
<1>1. Handled = Workers \X (1..kPerWorker)
  BY CountersAssumption DEF Handled
<1>. QED BY <1>1, HandledSize DEF Size

\* n iterations of a worker are n increments.
LEMMA HandledGrows ==
  ASSUME TypeOK, NEW w \in Workers, NEW n \in Nat, Finishes(w, n)
  PROVE  Size' = Size + n
<1> DEFINE more == {w} \X (done[w] + 1 .. done[w] + n)
<1>1. done[w] \in Nat /\ kPerWorker \in Nat /\ done[w] + n <= kPerWorker
  BY CountersAssumption DEF TypeOK, Finishes
<1>2. \A u \in Workers : done[u] \in Nat
                       /\ done'[u] = IF u = w THEN done[w] + n ELSE done[u]
  BY CountersAssumption DEF Finishes, TypeOK
<1>3. Handled' = Handled \cup more
  <2>1. ASSUME NEW u \in Workers, NEW i \in 1..kPerWorker
        PROVE  <<u, i>> \in Handled' <=> <<u, i>> \in Handled \cup more
    BY <1>1, <1>2 DEF Handled
  <2>2. more \subseteq Workers \X (1..kPerWorker)
    BY <1>1
  <2>. QED BY <2>1, <2>2 DEF Handled
<1>4. Handled \cap more = {}
  BY <1>1 DEF Handled
<1>5. IsFiniteSet(more) /\ Cardinality(more) = n
  <2>1. /\ IsFiniteSet(done[w] + 1 .. done[w] + n)
        /\ Cardinality(done[w] + 1 .. done[w] + n) = n
    <3>1. \A a, b \in Int :
            IsFiniteSet(a..b) /\ Cardinality(a..b) = IF a > b THEN 0 ELSE b - a + 1
      BY FS_Interval
    <3>2. done[w] + 1 \in Int /\ done[w] + n \in Int
      BY <1>1
    <3>3. IsFiniteSet(done[w] + 1 .. done[w] + n)
      BY <3>1, <3>2
    <3>4. Cardinality(done[w] + 1 .. done[w] + n) =
            IF done[w] + 1 > done[w] + n THEN 0 ELSE (done[w] + n) - (done[w] + 1) + 1
      BY <3>1, <3>2
    <3>. QED BY <1>1, <3>3, <3>4
  <2>2. IsFiniteSet({w}) /\ Cardinality({w}) = 1
    BY FS_Singleton
  <2>3. Cardinality(more) = 1 * n /\ IsFiniteSet(more)
    BY <2>1, <2>2, FS_Product
  <2>. QED BY <2>3
<1>6. Cardinality(Handled \cup more) = Cardinality(Handled) + n - Cardinality({})
  BY <1>4, <1>5, HandledSize, FS_Union
<1>7. Cardinality({}) = 0 /\ Size \in Nat
  BY FS_EmptySet, HandledSize
<1>. QED BY <1>3, <1>6, <1>7 DEF Size

--------------------------------------------------------------------------------
(* Case 01: the counter against the finished increments.                     *)

Storing(w) == pc[w] = "store"

Exact == program.name = "c01_fixed" => counter[1] = Size

Below ==
  program.name = "c01_broken" =>
    counter[1] <= Size /\ \A w \in Workers : Storing(w) => register[w] <= Size

\* As long as no two increments have met, each finds what it has loaded.
Alone ==
  program.name = "c01_broken" /\ overlaps = 0 =>
    /\ counter[1] = Size
    /\ \A w \in Workers : Storing(w) =>
         register[w] = counter[1] /\ \A u \in Workers \ {w} : ~Storing(u)

\* Every store is of a positive number, so that the second of a worker is of two
\* at least, and as long as the counter is one some worker has it ahead.
Kept ==
  program.name = "c01_broken" =>
    /\ \A w \in Workers : done[w] >= 1 => counter[1] >= program.stride
    /\ \A w \in Workers : Storing(w) /\ done[w] >= 1 => register[w] >= 1
    /\ counter[1] >= 2 \/ \E w \in Workers : done[w] <= 1

Counts == Exact /\ Below /\ Alone /\ Kept

LEMMA CountsInit == Init => Shape /\ Counts
<1>. SUFFICES ASSUME Init PROVE Shape /\ Counts
  OBVIOUS
<1>1. Shape
  BY ShapeInit
<1>2. 1 \in Workers /\ kPerWorker \in Nat
  BY CountersAssumption DEF Workers
<1>3. Handled = {}
  BY <1>2 DEF Init, Handled
<1>4. Size = 0
  BY <1>3, FS_EmptySet DEF Size
<1>. QED BY <1>1, <1>2, <1>4 DEF Init, Counts, Exact, Below, Alone, Kept, Storing

\* In case 01 main only starts and joins.
LEMMA MainIsQuiet ==
  ASSUME Shape, OneCounter, MainStep
  PROVE  /\ UNCHANGED <<program, counter, done, register, overlaps>>
         /\ \A w \in Workers : Storing(w)' <=> Storing(w)
<1>. TypeOK /\ Places /\ Threads /\ Progress
  BY DEF Shape
<1>1. CASE Spawn
  <2>1. next \in Workers /\ pc[next] = "unborn"
    BY <1>1 DEF Spawn, Threads, TypeOK, Workers
  <2>2. done[next] = 0
    BY <2>1 DEF Progress
  <2>. QED BY <1>1, <2>1, <2>2 DEF Spawn, TypeOK, Storing
<1>2. CASE Join
  BY <1>2 DEF Join, Storing
<1>3. CASE Report
  BY <1>3 DEF Report, Storing
<1>4. ~Reset /\ ~Measure
  BY DEF Reset, Measure, Places
<1>. QED BY <1>1, <1>2, <1>3, <1>4 DEF MainStep

LEMMA CountsStep ==
  ASSUME Shape, Counts, [Next]_vars
  PROVE  Counts'
<1>. TypeOK /\ Known /\ Places /\ Threads /\ Progress /\ Steady
  BY SteadySteps DEF Shape
<1>0. /\ 1 \in Workers /\ kPerWorker \in Nat \ {0} /\ Size \in Nat
      /\ counter[1] \in Nat /\ \A w \in Workers : register[w] \in Nat /\ done[w] \in Nat
  <2>1. 1 \in Workers /\ kPerWorker \in Nat \ {0}
    BY CountersAssumption DEF Workers
  <2>2. Size \in Nat
    BY HandledSize
  <2>3. counter[1] \in Nat
    BY <2>1 DEF TypeOK
  <2>4. \A w \in Workers : register[w] \in Nat /\ done[w] \in Nat
    BY <2>1 DEF TypeOK
  <2>. QED BY <2>1, <2>2, <2>3, <2>4
<1>1. ASSUME UNCHANGED <<program, counter, done, register, overlaps>>,
             \A w \in Workers : Storing(w)' <=> Storing(w)
      PROVE  Counts'
  <2>1. Size' = Size
    BY <1>1 DEF Size, Handled
  <2>. QED BY <1>1, <2>1 DEF Counts, Exact, Below, Alone, Kept
<1>2. CASE OneCounter /\ MainStep
  BY <1>1, <1>2, MainIsQuiet
<1>3. CASE ~OneCounter
  BY <1>3 DEF OneCounter, Steady, Counts, Exact, Below, Alone, Kept
<1>4. ASSUME NEW w \in Workers, Load(w)
      PROVE  Counts'
  <2>1. Size' = Size /\ UNCHANGED <<program, counter, done>>
    BY <1>4 DEF Load, Size, Handled
  <2>2. register' = [register EXCEPT ![w] = counter[1]]
    BY <1>4 DEF Load
  <2>3. \A u \in Workers : Storing(u)' <=> (u = w \/ Storing(u))
    BY <1>4 DEF Load, Storing, TypeOK
  <2>4. /\ overlaps' = 0 => overlaps = 0 /\ \A u \in Workers \ {w} : ~Storing(u)
        /\ \A u \in Workers : register'[u] = IF u = w THEN counter[1] ELSE register[u]
    BY <1>4 DEF Load, Storing, TypeOK
  <2>5. program.name = "c01_broken" /\ program.stride \in {1, kPerWorker}
    BY <1>4 DEF Load, Known
  <2>6. Exact' /\ Below'
    BY <2>1, <2>3, <2>4, <2>5 DEF Counts, Exact, Below
  <2>7. Alone'
    BY <2>1, <2>3, <2>4, <2>5 DEF Counts, Alone
  <2>8. Kept'
    BY <1>0, <2>1, <2>3, <2>4, <2>5 DEF Counts, Kept
  <2>. QED BY <2>6, <2>7, <2>8 DEF Counts
<1>5. ASSUME NEW w \in Workers, Store(w)
      PROVE  Counts'
  <2>1. Storing(w) /\ program.name = "c01_broken" /\ program.stride \in {1, kPerWorker}
    BY <1>5 DEF Store, Storing, Progress, Known
  <2>2. UNCHANGED <<program, register, overlaps>> /\ counter'[1] = register[w] + program.stride
    BY <1>0, <1>5 DEF Store, TypeOK
  <2>3. Finishes(w, program.stride)
    BY <1>5, <2>1, WorkerSteps DEF Worker, LoopStep, Storing
  <2>4. Size' = Size + program.stride
    BY <1>0, <2>1, <2>3, HandledGrows
  <2>5. \A u \in Workers : Storing(u)' <=> (u # w /\ Storing(u))
    BY <2>3 DEF Finishes, Storing, TypeOK
  <2>6. \A u \in Workers : done'[u] = IF u = w THEN done[w] + program.stride ELSE done[u]
    BY <2>3 DEF Finishes, TypeOK
  <2>7. Below'
    BY <1>0, <2>1, <2>2, <2>4, <2>5 DEF Counts, Below
  <2>8. Alone'
    BY <1>0, <2>1, <2>2, <2>4, <2>5 DEF Counts, Alone
  <2>9. Kept'
    BY <1>0, <2>1, <2>2, <2>5, <2>6 DEF Counts, Kept
  <2>. QED BY <2>1, <2>2, <2>7, <2>8, <2>9 DEF Counts, Exact
<1>6. ASSUME NEW w \in Workers, FetchAdd(w)
      PROVE  Counts'
  <2>1. program' = program /\ program.name = "c01_fixed" /\ counter'[1] = counter[1] + 1
    BY <1>0, <1>6 DEF FetchAdd, TypeOK
  <2>2. Finishes(w, 1)
    BY <1>6, <2>1, WorkerSteps DEF Worker, LoopStep
  <2>3. Size' = Size + 1
    BY <2>2, HandledGrows
  <2>. QED BY <2>1, <2>3 DEF Counts, Exact, Below, Alone, Kept
<1>7. CASE UNCHANGED vars
  BY <1>1, <1>7 DEF vars, Storing
<1>8. ASSUME NEW w \in Workers, FetchAddOwn(w)
      PROVE  Counts'
  BY <1>3, <1>8 DEF FetchAddOwn
<1>. QED BY <1>2, <1>3, <1>4, <1>5, <1>6, <1>7, <1>8 DEF Next, Worker, Finished

LEMMA CountsInvariant == Spec => [](Shape /\ Counts)
<1>1. Shape /\ Counts /\ [Next]_vars => Counts'
  BY CountsStep
<1>. QED BY <1>1, CountsInit, ShapeInvariant, PTL DEF Spec

--------------------------------------------------------------------------------
(* The exit status, the counters of case 05, and the lines of the cache.     *)

Reported ==
  OneCounter /\ main = "exit" =>
    exitCode = IF counter[1] = kWorkers * kPerWorker THEN 0 ELSE 1

Own ==
  ~OneCounter /\ main # "reset" =>
    \A w \in Workers : counter[w] = IF pc[w] = "unborn" THEN 0 ELSE done[w]

Lines ==
  program.name = "c05_fixed" => \A l \in 0..kWorkers : holder[l] \in {Main, l + 1}

LEMMA RestInit == Init => Reported /\ Own /\ Lines
BY DEF Init, Reported, Own, Lines, OneCounter

\* A padded counter has a line of its own.
LEMMA PaddedLine ==
  ASSUME program.name = "c05_fixed", Known, NEW w \in Workers
  PROVE  Line(w) = w - 1
<1>1. program.base = 0 /\ w \in Int
  BY DEF Known, Workers
<1>2. (0 + 64 * (w - 1)) \div 64 = w - 1
  BY <1>1
<1>. QED BY <1>1, <1>2 DEF Line, Apart, kCacheLine

\* No worker moves once main is at its exit.
LEMMA RestStep ==
  ASSUME Shape, Reported, Own, Lines, [Next]_vars
  PROVE  Reported' /\ Own' /\ Lines'
<1>. TypeOK /\ Known /\ Places /\ Threads /\ Progress /\ Steady
  BY SteadySteps DEF Shape
<1>0. /\ kPerWorker \in Nat \ {0}
      /\ next \in Workers
      /\ \A w \in Workers : done[w] \in Nat
  BY CountersAssumption DEF TypeOK
<1>1. CASE Reset
  BY <1>1 DEF Reset, Reported, Own, Lines, Threads, Steady, Main, Places
<1>2. CASE Spawn
  <2>1. pc[next] = "unborn" /\ main' # "exit"
    BY <1>0, <1>2 DEF Spawn, Advance, Threads, Workers, TypeOK
  <2>2. /\ \A w \in Workers : pc'[w] = IF w = next THEN "loop" ELSE pc[w]
        /\ \A w \in Workers : done'[w] = IF w = next THEN 0 ELSE done[w]
    BY <1>2 DEF Spawn, TypeOK
  <2>3. Own'
    BY <1>2, <2>1, <2>2 DEF Spawn, Own, Steady
  <2>. QED BY <1>2, <2>1, <2>3 DEF Spawn, Reported, Lines, Steady
<1>3. CASE Join
  BY <1>3 DEF Join, Advance, Reported, Own, Lines, Steady
<1>4. CASE Measure
  BY <1>4 DEF Measure, Reported, Own, Lines, Places, Steady
<1>5. CASE Report
  BY <1>5 DEF Report, Reported, Own, Lines, Steady
<1>6. ASSUME NEW w \in Workers, Worker(w)
      PROVE  Reported' /\ Own' /\ Lines'
  <2>0. LoopStep(w)
    BY <1>6, WorkerSteps
  <2>1. main' = main /\ main # "exit" /\ pc[w] # "unborn"
    BY <2>0 DEF LoopStep, Threads
  <2>2. Reported'
    BY <2>1 DEF Reported
  <2>3. CASE OneCounter
    BY <1>6, <2>2, <2>3
    DEF Worker, Load, Store, FetchAdd, FetchAddOwn, Own, Lines, OneCounter, Steady
  <2>4. CASE ~OneCounter
    <3>1. FetchAddOwn(w) /\ Finishes(w, 1)
      BY <1>6, <2>0, <2>4 DEF Worker, Load, Store, FetchAdd, OneCounter, Progress, LoopStep
    <3>2. /\ \A u \in Workers : counter'[u] = IF u = w THEN counter[w] + 1 ELSE counter[u]
          /\ \A u \in Workers : done'[u] = IF u = w THEN done[w] + 1 ELSE done[u]
          /\ pc'[w] # "unborn" /\ \A u \in Workers \ {w} : pc'[u] = pc[u]
      BY <3>1 DEF FetchAddOwn, Finishes, TypeOK
    <3>3. Own'
      BY <2>1, <2>4, <3>2 DEF Own, Steady
    <3>4. Lines'
      <4>1. holder' = [holder EXCEPT ![Line(w)] = w]
        BY <3>1 DEF FetchAddOwn
      <4>2. ASSUME program.name = "c05_fixed" PROVE Line(w) + 1 = w
        BY <4>2, PaddedLine DEF Workers
      <4>. QED BY <4>1, <4>2 DEF Lines, Steady, TypeOK
    <3>. QED BY <2>2, <3>3, <3>4
  <2>. QED BY <2>3, <2>4
<1>7. CASE UNCHANGED vars
  BY <1>7 DEF vars, Reported, Own, Lines, OneCounter
<1>. QED BY <1>1, <1>2, <1>3, <1>4, <1>5, <1>6, <1>7 DEF Next, MainStep, Finished

LEMMA RestInvariant == Spec => [](Shape /\ Reported /\ Own /\ Lines)
<1>1. Shape /\ Reported /\ Own /\ Lines /\ [Next]_vars => Reported' /\ Own' /\ Lines'
  BY RestStep
<1>. QED BY <1>1, RestInit, ShapeInvariant, PTL DEF Spec

--------------------------------------------------------------------------------
(* The theorems.                                                             *)

\* With fetch_add no count is lost.
FixedIsExact == program.name = "c01_fixed" /\ main = "exit" => exitCode = 0

THEOREM NoCountIsLost == Spec => []FixedIsExact
<1>1. Shape /\ Counts /\ Reported => FixedIsExact
  <2>. SUFFICES ASSUME Shape, Exact, Reported, program.name = "c01_fixed", main = "exit"
                PROVE  exitCode = 0
    BY DEF FixedIsExact, Counts
  <2>1. OneCounter /\ TypeOK
    BY DEF OneCounter, Shape
  <2>2. \A w \in Workers : done[w] = kPerWorker
    BY <2>1 DEF Shape, Threads, Progress, ThreadCount, Workers
  <2>3. Size = kWorkers * kPerWorker
    BY <2>1, <2>2, AllHandled
  <2>. QED BY <2>1, <2>3 DEF Exact, Reported
<1>. QED BY <1>1, CountsInvariant, RestInvariant, PTL

\* The count never exceeds the increments made, so expected - counted never wraps.
THEOREM NeverTooMany == Spec => []NeverOverReports
<1>1. Shape /\ Counts => NeverOverReports
  <2>. SUFFICES ASSUME TypeOK, Counts, OneCounter PROVE counter[1] <= Size
    BY DEF NeverOverReports, Shape, Size
  <2>1. Size \in Nat
    BY HandledSize
  <2>. QED BY <2>1 DEF Counts, Exact, Below, OneCounter
<1>. QED BY <1>1, CountsInvariant, PTL

\* A loss needs two increments under way at once.
THEOREM LossesNeedOverlap == Spec => []LossNeedsOverlap
<1>1. Shape /\ Counts /\ Reported /\ FixedIsExact => LossNeedsOverlap
  <2>. SUFFICES ASSUME Shape, Alone, Reported,
                       program.name = "c01_broken", main = "exit", overlaps = 0
                PROVE  exitCode = 0
    BY DEF LossNeedsOverlap, FixedIsExact, OneCounter, Counts, Shape, TypeOK
  <2>1. OneCounter /\ TypeOK
    BY DEF OneCounter, Shape
  <2>2. \A w \in Workers : done[w] = kPerWorker
    BY <2>1 DEF Shape, Threads, Progress, ThreadCount, Workers
  <2>3. Size = kWorkers * kPerWorker
    BY <2>1, <2>2, AllHandled
  <2>. QED BY <2>1, <2>3 DEF Alone, Reported
<1>. QED BY <1>1, CountsInvariant, RestInvariant, NoCountIsLost, PTL

\* However much is lost, two counts or a whole worker's are left.
THEOREM SomethingSurvives == Spec => []SomeCountsSurvive
<1>1. Shape /\ Counts => SomeCountsSurvive
  <2>. SUFFICES ASSUME Shape, Kept, program.name = "c01_broken", main = "exit"
                PROVE  \/ counter[1] >= kPerWorker
                       \/ program.stride = 1 /\ counter[1] >= 2
    BY DEF SomeCountsSurvive, Counts
  <2>1. /\ kPerWorker \in Nat \ {0} /\ 1 \in Workers
        /\ program.stride \in {1, kPerWorker}
    BY CountersAssumption DEF Workers, Shape, Known
  <2>2. \A w \in Workers : done[w] = kPerWorker
    BY DEF OneCounter, Shape, Threads, Progress, ThreadCount, Workers
  <2>3. counter[1] \in Nat
    BY <2>1 DEF Shape, TypeOK
  <2>. QED BY <2>1, <2>2, <2>3 DEF Kept
<1>. QED BY <1>1, CountsInvariant, PTL

\* The clock of a round stops over exactly the round's increments.
THEOREM RoundsAreMeasured == Spec => []MeasuredWork
<1>1. Shape /\ Own => MeasuredWork
  <2>. SUFFICES ASSUME Shape, Own, main = "measure", NEW w \in Workers
                PROVE  counter[w] = IF w <= ThreadCount THEN kPerWorker ELSE 0
    BY DEF MeasuredWork
  <2>1. ~OneCounter
    BY DEF Shape, Places
  <2>2. /\ pc[w] = IF w <= ThreadCount THEN "done" ELSE "unborn"
        /\ pc[w] = "done" => done[w] = kPerWorker
    BY DEF Shape, Threads, Progress
  <2>. QED BY <2>1, <2>2 DEF Own
<1>. QED BY <1>1, RestInvariant, PTL

\* No padded counter is in the line of another.
THEOREM PaddedAlone == Spec => PaddedLinesStay
<1>1. Shape /\ Lines /\ Lines' /\ [Next]_vars =>
        [\A l \in 0..kWorkers :
           program.name = "c05_fixed" /\ holder[l] # Main /\ holder'[l] # Main =>
             holder'[l] = holder[l]]_vars
  <2>. SUFFICES ASSUME Shape, Lines, Lines', [Next]_vars, NEW l \in 0..kWorkers,
                       program.name = "c05_fixed", holder[l] # Main, holder'[l] # Main
                PROVE  holder'[l] = holder[l]
    OBVIOUS
  <2>1. program' = program
    BY SteadySteps DEF Shape, Steady
  <2>. QED BY <2>1 DEF Lines
<1>. QED BY <1>1, RestInvariant, PTL DEF PaddedLinesStay, Spec
====
