# A TLA+ model of systems-postmortems

The repository holds six teaching cases of C++ defects, each as a `broken.cpp`
and a `fixed.cpp`, and scripts that build the variants, run them and check what
they print. This directory models the programs whose correctness depends on the
order of events, on the build or on the library, and the scripts that judge them. TLC checks the models on small
instances; TLAPS proves the main results for every value of the constants.

## Inventory

| part | state | operations | what is hard | what makes it correct |
|---|---|---|---|---|
| case 06, `cases/06-priority-inversion` | one mutex, three priorities, one CPU; the calibrated length of the critical section; the worst wait | three worker loops (diagnostics, hog, control), `main`: calibrate, spawn, join, conclude | preemption inside the critical section; refused grants; timing windows | with inheritance a wait is one critical section; a verdict names the true cause; no verdict without its conditions; the program ends |
| case 02, `cases/02-lock-order-inversion` | two accounts with locks; in `broken.cpp` a record of the locks each thread holds and wants | `transfer`, `TracedLock`, `watchdog`, `main` | lock order, a record that changes while it is read, retries of `std::lock` | calls are atomic; no hold-and-wait; the record is exact; the watchdog reports deadlocks and nothing else |
| `scripts/run-all.sh` | programs in `$BUILD`, evidence files in `$OUT`, counts of checks | compile, capture, present, absent, four special checks, two copies, the exit status | steps that fail unnoticed, old evidence, kills, repeated runs | no verdict about old evidence; success means that every defect was seen; committed evidence is replaced only by conclusive evidence |
| case 01, `cases/01-dropped-counters` | one counter, plain or atomic | increments by four threads, join, compare | a load and a store that others come between; a compiler that keeps the count in a register; an unsigned difference | a fixed count is exact; a plain one only falls short, and only after two increments were under way together |
| case 03, `cases/03-dangling-reference` | a vector, a reference into it or an index | `push_back`, one use at the end | a buffer that moves when the library decides | the first sensor is what is printed, and ASan sees every move that matters |
| case 04, `cases/04-overflow-removes-check` | the answers so far | `fits(offset, length)`, by a sum or by a difference | overflow, and what each build makes of it | a range is accepted iff it lies in the buffer |
| case 05, `cases/05-false-sharing` | four atomic counters and the cache lines they lie in | two rounds of `runWith`: reset, spawn, join, measure | counters reused by rounds of different sizes; layout | a throughput is of the work it claims; padded counters share no line |
| `scripts/run-case-06-container.sh` | two evidence files, a matrix, an image | build, two runs, five probes | a build that fails, kills, files shared with `run-all.sh` | no file is newer than those written before it |
| `scripts/format.sh`, CI, Dockerfile | none | format or check; call the scripts | nothing concurrent, nothing kept | - |

The cases do not call each other. `run-all.sh` runs all of them as child
processes and sees only what they print and how they end; the container script
does the same for case 06, and its containers decide what the host grants.

## Modules

| module | stands for |
|---|---|
| `PriorityInversion` | both programs of case 06 (`Variant`) on a host that grants some of what they ask for |
| `TransferCalls` | the calls of case 02 and their ledger |
| `Transfers` | the abstract specification of case 02: each call in one step |
| `ScopedTransfer` | case 02 `fixed.cpp`, implements `Transfers` |
| `TracedTransfer` | case 02 `broken.cpp`, implements `Transfers` (and deadlocks) |
| `Counters` | all four programs of cases 01 and 05 |
| `BoundsCheck` | both programs of case 04, the first in the four builds of `run-all.sh` |
| `SensorVector` | both programs of case 03, with ASan and without |
| `Harness` | `run-all.sh` and `run-case-06-container.sh` over one evidence directory |
| `MC*` | arguments, hosts and bounds for TLC |
| `*_proofs` | theorems |

An operator commented "Mutant of X" is a faulty version of X, used to see that a
property fails when the code is wrong; no specification refers to it.

### PriorityInversion

Each worker is a `pc`; a step of the code is an action that takes no time and
needs the CPU (`OnCpu`). `Tick` lets one unit pass for the thread that computes.
`spinWork` is an amount of work that shrinks only while the holder runs, while
`busyFor` and `sleep_for` end by the clock: this difference is the mechanism of the
case. `Priorities` adds to the mutex holder's priority those of the threads blocked
on it when the mutex inherits. A host (`HostType`) says up to which priority
SCHED_FIFO is granted and whether the affinity mask and PRIO_INHERIT are. Without
the mask (`TickSpread`) all ready threads compute at once. `iterations` is the CPU
time of the critical section, as the calibration measured it: any value in
`Measured`, on which `Calibrate` applies the gate of the code. `sleep_for` may
return up to `MaxOversleep` late.

`hogTime`, `worstHogTime` and `section` are history: they record what the
properties talk about and no guard reads them.

### TransferCalls, Transfers, ScopedTransfer, TracedTransfer

Reading a balance and writing it back are two steps, since a balance is a plain
`long`. `ScopedTransfer` models `std::lock` as libstdc++ does it: lock one, try the
other, give the first back and begin with the other. `TracedTransfer` follows
`TracedLock` store by store; the watchdog's loads are four steps, and its sleep
ends at any moment, because nothing relates two seconds to what the threads do.
Thread 1 of the model is `g_threads[0]`. The abstract balances of both refinements
are the concrete ones, with a debit undone until its credit is made.

### Counters

`program` is one of the four, how it was built and where its counters begin. The
plain increment of case 01 is a data race; of what builds make of it the model has
the two that occur: a load and a store for every iteration (`stride` 1), or one of
each for the loop as a whole (`stride` = `kPerWorker`). The other increments are one
step. `main` is a sequence of spawns and joins, once for case 01 and twice, with
one thread and with all, for case 05. `Line` says in which line of the cache a
counter lies, and `holder` which core took that line last. `overlaps` is history.

### BoundsCheck

An int has `IntMax` as its largest value; `Wrap` is two's complement. A build of
the broken source has its guard or not (`guard`): only plain `-O2` may take it out,
because only there may the compiler assume that the sum does not overflow.
`Evaluates` is what UBSan watches, the sum or difference that the check comes to
compute. `main` asks its questions one by one and exits with an answer.

### SensorVector

Storage is a numbered buffer. `PushBack` moves to a new one when the vector is full,
with any larger capacity: the standard leaves it to the library (libstdc++
allocates one element, then doubles). The reference is the number of the buffer it
points into. Using it when that buffer is gone ends with ASan's report, or without
ASan with any of: a plausible value, garbage, a crash.

### Harness

`Script` is the sequence of the commands of the script that runs; there is one
action per kind of command. A report is the set of phrases in a program's output
that some check looks for or some property is about; `Reports` lists those each
program can print. `out` says which run each evidence file is from. A compilation
may fail, and then the program's report is the shell's complaint; `docker build` may
fail, and then the image of an earlier run is used. After a run, finished or
killed, either script may run over what it left.

The modules meet in the constants: what the container script provides is the
`RealTimeHost` of `pi_fixed` and `pi_broken`; the exit statuses and phrases of
`Reports` are those that the programs' modules end with (the balances, the cycle,
"accepted", "bounded").

## Runs

Passing runs:

| run | instance | shows |
|---|---|---|
| `pi_fixed` | `fixed.cpp`, durations of the code in units of 0.5 ms, 40 cycles | waits are bounded by the critical section; the hog never has the CPU while the control loop is blocked; the verdict is "bounded" |
| `pi_broken` | `broken.cpp`, durations of the code in units of 0.5 ms, 40 cycles | the hog explains every long wait; the bound is a burst for every window the section needs; of the sections that begin in a window of the hog only those that fit into one end in it |
| `pi_hosts` | `fixed.cpp` on 16 hosts, short durations, 2 cycles, fairness | types; the mutex; no conclusion without priorities; termination |
| `st_ring` | 4 calls around 3 accounts, two of them opposite as in `main`; fairness | types; no hold-and-wait; atomic calls; printed balances; the program ends unless its threads back off for ever |
| `tt_crossing` | the two calls of `main`, fairness | types; the record is exact; atomic calls; hangs are deadlocks; a deadlock older than the look is reported. Deadlock is not checked: it is what the program does |
| `ct_counters` | 3 threads, 3 increments each, all programs and layouts, fairness | the printed loss cannot wrap; losses need two increments under way together; how few counts remain; what a round measures; padded lines stay; termination |
| `bc_builds` | every pair of ints of 5 bits, a buffer of 6, all builds | the fixed and the guarded checks are right; the other is wrong exactly on overflow; UBSan is exact |
| `sv_growth` | 0, 1, 3 and 7 sensors after the first, every growth up to capacity 10 | when a reference dangles; what is printed; ASan is exact |
| `hs_runs` | 2 runs, 2 deviations, kills at any command, both scripts in any order | no verdict on old evidence; success shows every defect; the counts; the pair of case 06 and the order of its files |

Runs that TLC must find violated, each of them a statement of the repository that
the code does not keep (PROJECT.json, findings):

| run | the statement | what happens |
|---|---|---|
| `pi_two_bursts` | without inheritance the bound is the hog's burst | the case's own defect, and more than the comment says: a 5 ms section needs two 3 ms windows and pays two bursts |
| `tt_false_report` | the watchdog reports a standing cycle | four loads at four instants can show a cycle that never was |
| `hs_evidence` | inconclusive runs leave the evidence alone | the fixed report is copied unread |

### Divergences met while reading

Plain from the text or from one execution, and without a run of their own:

- Case 06 prints "results meaningless" when it cannot pin its threads and still
  concludes (`broken.cpp:250`).
- `broken.cpp:105`, the idle window "must be SHORTER than the critical section", and
  `:112` and README:159 of the case, 3 ms against 5 ms "guarantees" that the holder is
  caught: nothing ensures it, because the calibration accepts any length from
  2.5 ms on (`broken.cpp:261`). A section of 2.5 ms, or one of 3 ms in a window that lasts
  longer than it should, is over before the hog returns; in `pi_broken` both happen
  (lengths 5 and 6). The guarantee begins at the length of a window with its
  lateness, which is what `OnlyShortSectionsEscape` says; TLC finds it violated when
  its bound is lowered by one.
- Case 02's watchdog promises to print the cycle "after two seconds of no progress"
  (`broken.cpp:21`) but looks once, two seconds after the start (`:95`): a deadlock
  that comes later hangs. `LateSampleReports` is what is true.
- `docs/method.md:67`, "a tool that reports nothing is not a passing grade":
  `absent` passes for a program that was not built (`run-all.sh:93`).
- Case 03 README:52, "with four sensors the initial allocation has room": libstdc++
  first allocates room for one, as the 40-byte region of
  `evidence/03-broken-asan.txt` shows. `DanglesIffOutgrown` holds for any growth.
- Case 03 README:78, the broken program "does not crash without ASan": the read is
  undefined, and a build with g++ 12.2 does crash, with status 139 at every level
  of optimisation tried. `UseFirst` allows both.
- `run-all.sh:149` requires only "completed" of the fixed transfers, where the
  README of case 02 says "balances intact"; of four of the five builds of case 04 no
  answer is required, where the README says it is (`run-all.sh:201-212`).
- `run-all.sh:209`, "rejects at -O2 with no flags": line 171 builds it with
  `-fsanitize=undefined`.
- `run-case-06-container.sh:9`, "measures it rather than asserting it": lines 70-71
  print the conclusion whatever the rows say. The script exits with 0 whatever
  failed, and replaces conclusive evidence with whatever its containers print.
- With SCHED_FIFO there are 16 checks, not the 14 of the top-level README.

### Bounds

- `kCycles`: 600 in the code, 40 in the safety runs. With the durations of the
  code the phases of the three loops go around within a few cycles, and the lateness
  of sleeps (`MaxOversleep = 1`) makes them drift against each other, so that 40
  cycles of 2 ms and the waits among them meet the long waits at both critical
  section lengths. The theorems below need no bound on the cycles.
- `Measured`: lengths on both sides of the limits of the calibration, and the
  target. In `pi_broken` (units of 0.5 ms) also those around an idle window:
  5, accepted and shorter than the window of 6; 6, which fits only when the hog
  oversleeps; 7, the first that never fits.
- `MaxWait` (60, in `pi_broken` 120): where clocks of waits saturate; above every wait
  that occurs in the passing runs, and the assumption keeps it above the verdict's threshold.
- `pi_hosts` uses short durations, because liveness over 16 hosts needs few
  states; the order of the durations is that of the code.
- Case 02: two accounts make a cycle; three accounts and four threads make a ring
  with one call against it.
- `ct_counters`: two threads suffice for the worst loss, in which two counts remain;
  three increments put that below any thread's share, and a third thread gives
  overlaps of three. With `Bases` the counters of case 05 begin a line of the cache
  or straddle two.
- `bc_builds`: `IntMax` = 15 and a buffer of 6 are large enough for sums that
  wrap to negative numbers and, with the least int, for sums that reach it; the theorems
  have no such bound.
- `sv_growth`: room for the first sensor only, for some and for all.
- `MaxDeviations = 2`, `MaxRuns = 2`: one deviation breaks a check, two show
  that one does not hide another, and the second run meets the evidence of the first.

### Fairness

Weak fairness for time and for each thread in case 06: on one CPU a thread takes
its next step when it is the one scheduled, and time passes only when no thread
has a timeless step. It does not assume that a low-priority thread is ever
scheduled; `Terminates` has to follow from the sleeps of the others. In case 02
each thread is weakly fair: the default scheduler runs every ready thread. Mutexes
are not assumed fair, so `std::lock` may retry for ever and
`EndsOrBacksOffForever` allows it. The sleep of the watchdog ends. In
`Counters` main and every worker are weakly fair for the same reason; no thread
blocks there but main, in its joins. The other modules have no liveness property:
their steps are sequential.

## Theorems

Assumptions are those named in the modules: `ConstantsAssumption`,
`CallsAssumption`, `TracedAssumption`, `CountersAssumption`, `BoundsAssumption` (of
`BoundsCheck` and of `Harness`), `SensorAssumption`. What a theorem assumes besides
is in its statement.

**Case 06.** `LongWaitsExplained` is the main result: whatever the durations and the
host, a wait is at most the critical section plus the hog's CPU time during it.
The property is not inductive; the invariant `Account` says what remains: time
waited plus work left is at most the whole work plus the hog's time, as long as
the control loop is blocked. Keeping it through a tick needs that some thread
with work has the CPU and that it is the holder or the hog, hence the scheduling
invariants `Phases`, `Order` and `Grants` (which thread can be where, and with which
priority). `VerdictIsRight` follows from it and from the calibration's limit. With
inheritance, `ShutOut` adds that a blocked control loop lends its priority to the
holder, so that the hog is never `OnCpu`: `HogShutOut`, `WaitIsBounded` and, with
the limits of the calibration, `FixedConcludes`. `TypeCorrect` and
`MutexIsConsistent` come first. `NoConclusionWithoutPriorities` holds for both
variants and every host: the count of grants that a conclusion rests on cannot
change any more when main has read it (`ConcludedGranted`). `HogShutOut`,
`WaitIsBounded` and `FixedConcludes` assume `Variant = "fixed"` and what the hosts
grant, as their statements say.

`WaitsPayBursts` bounds the same wait without mention of the hog's time. While the
control loop is blocked, `HogAhead` is the time the hog can still take before the
work left is done: what is left of its burst, and a burst for every window that
the work does not fit into. The invariant `Bursts` keeps the time waited, the work
left and `HogAhead` together below the bound; a tick moves time from one of them to
another, which takes the lemmas about quotients and the assumption
`kHogIdle > 0`. `Fresh` says that a holder that has done no work yet meets neither
a hog in its burst nor a waiting control loop: this makes the bound strict.
`LongSectionsAreCaught` is
the argument of `broken.cpp:105-112` for every length the calibration may accept: if the
section is as long as a window with its lateness, the window ends before the work does
(`WindowCloses`), and the hog, which outranks the holder, computes as soon as it
ends. It assumes `Variant = "broken"` and a burst, `kHogBurst > 0`; that a shorter
section may escape is in the property.

**Case 02.** The invariant of both programs is an exact account of who owns which
lock at each point of the code (`OwnershipExact`). From it: nobody blocks holding a
lock (`NobodyHoldsAndWaits`), two threads between their locks and their unlocks
have no account in common (`Apart`), so that a balance read is still there when
it is written (`RegistersFresh`), and every step is a whole abstract transfer or
none (`CallsAreAtomic`, for both). `BalancesAreRight`, in the terms of `Transfers`
alone, says that the abstract balances are the ledger of the calls made, and both
programs inherit it: `PrintedBalancesAreRight` for what `fixed.cpp` prints, and
`NoTransferIsLost` for `broken.cpp`, deadlocked or not. The lemmas about ledgers,
which count calls, are in `TransferCalls_proofs`. For
`broken.cpp`, `RecordsExact` says what the two words of a thread hold at each
point; with ownership it gives `HoldingIsNeverWrong` and `CycleMeansDeadlock`, the
latter for two calls in opposite directions between two accounts. So the watchdog
would be right if its loads were one instant, and `tt_false_report` shows that this
is all it lacks.

**Cases 01 and 05.** `Handled` is the set of finished increments, and finishing one
adds one to its cardinality (`Size` in the proofs). With `fetch_add` the counter is
`Size` at all times (`Exact`), which gives `NoCountIsLost`. A plain counter is at most
`Size`, and so is what any thread has loaded (`Below`): `NeverTooMany`. As long as no
two increments have overlapped it is exact too (`Alone`): `LossesNeedOverlap`. For
`SomethingSurvives`, `Kept` says that every store is of a positive number, so that
the second of any thread is of two at least, and that while the count is below two
some thread has its second increment ahead.
`RoundsAreMeasured` and `PaddedAlone` are about case 05.

**Case 04.** Each check is first a lemma about two ints: what it answers with its
guard, without it, and by subtraction, for every width and buffer. The invariant
adds that each line printed is the answer to its question; `GuardedIsRight`,
`WrongOnlyThere`, `DiagnosesExactly` and `ExitTells` follow.

**Case 03.** The invariant relates the capacity now to the capacity when the reference
was taken: the buffer is the same exactly as long as the vector has not
outgrown that. `DanglesOnlyThen`, `IndexSurvives` and `AsanSeesEveryMove` hold for
every number of sensors and any growth.

**The scripts.** `Script` is a concrete sequence, but one built of concatenations,
which the provers cannot evaluate; `LayoutOfRunAll` and `ContainerIs` establish
command by command what it is. From that come the four facts the proofs use of
any command: where each kind is (`Kinds`), what has been judged before it
(`JudgedNext`), that what a check reads was captured before (`CapturedBefore`) and
that what was judged is not captured again (`CapturesSpareTheJudged`). The
invariant has a part for each question. `Fresh`: what has been captured is of this
run, and is empty unless its program was built; with `CapturedBefore` it gives
`VerdictsAreFresh`. `Verdicts`: while no check has failed, those made so far would
still pass; with `Fresh` and `Ended` it gives `SuccessMeansDefects`. `Tally`: the
verdicts are as many as the commands that give one, and what case 06 adds to
them; hence `ChecksAreCounted` and the bound in `TypeCorrect`. `Ordered`: the runs of
the three files of case 06 descend, and the first two are equal except between
their writes or after a kill there; `EvidencePairsUp` and `FilesInOrder` follow. It
needs no bound on runs or deviations: `MaxRuns` and `MaxDeviations` are any
numbers. TLC has checked the same invariant on the instance of `hs_runs`.

The types of `Counters`, `BoundsCheck` and `SensorVector` (`TypeCorrect`), and
`ExitShowsTheBug`, are proved and in no run.

Only model-checked: liveness (`Terminates` of cases 06, 01 and 05,
`EndsOrBacksOffForever`, `HangsOnlyByDeadlock`, `LateSampleReports`), which is about
fairness and `ENABLED`. All other properties of the passing runs are theorems.

## Limits

- Memory is sequentially consistent. Case 02's stores are release and its loads
  acquire, without a single total order: the watchdog may see even more mixtures of
  old and new words than the model lets it.
- Real-time throttling, floating-point calibration, and interrupts are not
  modelled; a `long` does not overflow with these amounts.
- `cp` is one step of `Harness`; a kill falls between two of them, or leaves
  the file a capture was writing empty. `$OUT` is writable. Programs without a
  timeout around them end.
- Case 05 prints throughputs; the model has the ownership of cache lines, not what
  a transfer of one costs. The compiler may treat the race of case 01 otherwise
  than in the two ways modelled.
- The matrix of the container script is one step: its rows are what
  `PriorityInversion` takes as a constant. Killed, the script is taken to end its
  containers with it.
- Not modelled: the disassembly listing and `scrub` of `run-all.sh` (no check reads
  the one, the other changes only paths); `format.sh` (one pass over the files,
  nothing kept); the CI jobs, which call the scripts on fresh checkouts and share
  nothing; the Dockerfile, which builds case 06.

## Plan

Done: case 06, case 02, `run-all.sh`, then cases 01, 05, 04, 03 and the container
script, in this order. Left, as far as it can be done:

1. A total order of release and acquire operations weaker than the interleaving of
   `TracedTransfer`, to see which false reports only hardware can cause.
