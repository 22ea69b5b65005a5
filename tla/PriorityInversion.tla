--------------------------- MODULE PriorityInversion ---------------------------
(***************************************************************************)
(* Case 06: three threads of one process, pinned to one CPU and scheduled  *)
(* by priority, two of which share a mutex.  Diagnostics ("low") works     *)
(* while holding it, the control loop ("high") wants it briefly in every   *)
(* cycle, and the hog ("medium") never touches it.  broken.cpp uses        *)
(* std::mutex, fixed.cpp a mutex with priority inheritance; the rest of    *)
(* the two programs is the same text, and so is the rest of this module.   *)
(*                                                                         *)
(* Time is discrete.  Tick lets one unit pass for the thread that has the  *)
(* CPU; every other step takes no time and is taken by a thread that has   *)
(* the CPU, so the clock never advances past a runnable step.              *)
(***************************************************************************)
EXTENDS Naturals

CONSTANTS
  Variant,           \* which program: "broken" or "fixed"
  Hosts,             \* what the hosts considered grant; see HostType
  Measured,          \* what the verified calibration may have measured
  kCriticalSection, kHogBurst, kHogIdle, kHolderIdle,
  kControlIdle,      \* the control loop's sleep between two cycles (2 ms)
  kStartDelay,       \* main's sleep before it creates the control loop (50 ms)
  kCycles,           \* cycles of the control loop (600)
  MaxOversleep,      \* bound: how late sleep_for may return
  MaxWait            \* bound: where the clock of a wait saturates

\* rtprio: the highest priority SCHED_FIFO is granted for (RLIMIT_RTPRIO, or 99
\* with CAP_SYS_NICE); affinity and inherit: whether pthread_setaffinity_np and
\* pthread_mutexattr_setprotocol succeed.
HostType == [rtprio : Nat, affinity : BOOLEAN, inherit : BOOLEAN]

ASSUME ConstantsAssumption ==
  /\ Variant \in {"broken", "fixed"}
  /\ Hosts \subseteq HostType
  /\ Measured \subseteq Nat
  /\ kCriticalSection \in Nat /\ kHogBurst \in Nat /\ kHogIdle \in Nat
  /\ kHolderIdle \in Nat /\ kControlIdle \in Nat /\ kStartDelay \in Nat
  /\ kCycles \in Nat /\ MaxOversleep \in Nat /\ MaxWait \in Nat
  /\ MaxWait > 2 * kCriticalSection

VARIABLES
  host,              \* the host the process runs on
  pinned, inherit,   \* what main obtained from it: one CPU, PRIO_INHERIT
  iterations,        \* g_critical_iterations, as the CPU time they cost
  pc,                \* where each thread is
  timer,             \* time until its sleep or its busy loop is over
  prio,              \* real-time priority in force, 0 for SCHED_OTHER
  work,              \* what is left of the holder's spinWork
  g_shared,          \* holder of the mutex, or "none"
  g_running, g_rt_threads, g_worst_block_us,
  cycle,             \* cycles the control loop has begun
  wait,              \* Clock::now() - asked, while the control loop locks
  exitCode,          \* main's return value, once it is "exited"
  \* history, read by properties only:
  hogTime,           \* CPU time the hog had while the control loop was blocked
  worstHogTime,      \* hogTime, for the wait g_worst_block_us comes from
  section            \* the holder took the lock while the hog was at work, in
                     \* its idle "window", and has since been "caught" by a
                     \* burst; "other" if there was no hog yet or any more

environment == <<host, pinned, inherit, iterations>>
history     == <<hogTime, worstHogTime, section>>
scheduling  == <<timer, prio, work, g_shared>>
results     == <<g_running, g_rt_threads, g_worst_block_us, cycle, wait, exitCode>>
vars        == <<environment, pc, scheduling, results, history>>

Workers == {"low", "medium", "high"}
Threads == Workers \cup {"main"}

\* The priority each thread asks for; main stays under SCHED_OTHER.
Priority == [low |-> 10, medium |-> 50, high |-> 90]

\* The thread main waits for before it can go on, where it joins one.
Joins == [join_high |-> {"high"}, join_rest |-> {"low", "medium"}]

Init ==
  /\ host \in Hosts
  /\ pinned = FALSE /\ inherit = FALSE /\ iterations = 0
  /\ pc = [t \in Threads |-> IF t = "main" THEN "setup" ELSE "unborn"]
  /\ timer = [t \in Threads |-> 0]
  /\ prio = [t \in Threads |-> 0]
  /\ work = 0 /\ g_shared = "none"
  /\ g_running = TRUE /\ g_rt_threads = 0 /\ g_worst_block_us = 0
  /\ cycle = 0 /\ wait = 0 /\ exitCode = 0
  /\ hogTime = 0 /\ worstHogTime = 0 /\ section = "other"

--------------------------------------------------------------------------------
(* The kernel: who has the CPU, and what a unit of time does.                *)

\* t could use the CPU now.
Ready(t) ==
  /\ pc[t] \notin {"unborn", "blocked", "done", "exited"}
  /\ pc[t] = "sleep" => timer[t] = 0
  /\ pc[t] \in DOMAIN Joins => \A u \in Joins[pc[t]] : pc[u] = "done"

\* The priorities t competes with: its own and, when it holds a mutex with
\* priority inheritance, those of the threads blocked on the mutex.
Priorities(t) ==
  {prio[t]} \cup {prio[u] : u \in {v \in Threads :
                      inherit /\ t = g_shared /\ pc[v] = "blocked"}}

Outranks(u, t) == \E p \in Priorities(u) : \A q \in Priorities(t) : p > q

\* t may run: nothing ready outranks it, unless every thread has its own CPU.
OnCpu(t) ==
  /\ Ready(t)
  /\ pinned => \A u \in Threads : Ready(u) => ~Outranks(u, t)

\* Mutant of Computing: spinWork with "i <= iterations".
ComputingOneMore(t) ==
  \/ pc[t] = "spin" /\ work >= 0
  \/ pc[t] = "busy" /\ timer[t] > 0

\* t has work that takes time: spinWork until the work is done, busyFor until
\* the deadline has passed.
Computing(t) ==
  \/ pc[t] = "spin" /\ work > 0
  \/ pc[t] = "busy" /\ timer[t] > 0

Min2(a, b) == IF a < b THEN a ELSE b

\* A unit of time in which the threads of R compute.  Sleeps and the hog's busy
\* loop end by the clock; spinWork advances only while its thread runs.
Advance(R) ==
  /\ timer' = [t \in Threads |-> IF timer[t] > 0 THEN timer[t] - 1 ELSE 0]
  /\ work' = IF "low" \in R THEN work - 1 ELSE work
  /\ wait' = IF pc["high"] \in {"lock", "blocked", "held"}
               THEN Min2(wait + 1, MaxWait) ELSE wait
  /\ hogTime' = IF pc["high"] = "blocked" /\ "medium" \in R
                  THEN Min2(hogTime + 1, MaxWait) ELSE hogTime
  /\ section' = IF section = "window" /\ g_shared = "low" /\ "medium" \in R
                  THEN "caught" ELSE section
  /\ UNCHANGED <<environment, pc, prio, g_shared, g_running, g_rt_threads,
                 g_worst_block_us, cycle, exitCode, worstHogTime>>

\* On one CPU a single thread computes.
TickPinned ==
  /\ pinned
  /\ \E t \in Threads : OnCpu(t) /\ Computing(t) /\ Advance({t})

\* Without the affinity mask all of them do.
TickSpread ==
  LET ready == {t \in Threads : Ready(t)}
  IN /\ ~pinned
     /\ ready # {} /\ \A t \in ready : Computing(t)
     /\ Advance(ready)

\* Nobody can use a CPU: time passes until a sleep is over.
TickIdle ==
  /\ \A t \in Threads : ~Ready(t)
  /\ \E t \in Threads : timer[t] > 0
  /\ Advance({})

Tick == TickPinned \/ TickSpread \/ TickIdle

--------------------------------------------------------------------------------
(* Steps shared by the three workers.                                        *)

At(t, label) == pc[t] = label /\ OnCpu(t)

Goto(t, label) == pc' = [pc EXCEPT ![t] = label]

\* sleep_for(d) returns no earlier than after d, and possibly later.
Sleep(t, d) ==
  /\ Goto(t, "sleep")
  /\ \E late \in 0..MaxOversleep : timer' = [timer EXCEPT ![t] = d + late]

\* Mutant of SetPriority: the result of the request is not looked at.
SetPriorityUnchecked(t) ==
  /\ At(t, "start")
  /\ prio' = [prio EXCEPT ![t] = IF Priority[t] <= host.rtprio THEN Priority[t] ELSE @]
  /\ g_rt_threads' = g_rt_threads + 1
  /\ Goto(t, "sleep")
  /\ UNCHANGED <<environment, timer, work, g_shared, g_running,
                 g_worst_block_us, cycle, wait, exitCode, history>>

\* The request may be refused, and the result is read back, not assumed; the
\* thread goes on in either case, at the priority it has.
SetPriority(t) ==
  /\ At(t, "start")
  /\ IF Priority[t] <= host.rtprio
       THEN /\ prio' = [prio EXCEPT ![t] = Priority[t]]
            /\ g_rt_threads' = g_rt_threads + 1
       ELSE UNCHANGED <<prio, g_rt_threads>>
  /\ Goto(t, "sleep")     \* with timer 0: at the head of its loop
  /\ UNCHANGED <<environment, timer, work, g_shared, g_running,
                 g_worst_block_us, cycle, wait, exitCode, history>>

\* Locking a mutex that is held: t leaves the CPU until it is released.
Block(t) ==
  /\ At(t, "lock") /\ g_shared # "none"
  /\ Goto(t, "blocked")
  /\ UNCHANGED <<environment, scheduling, results, history>>

\* Mutant of Acquire: the guard object is missing.
AcquireUnguarded(t, label) ==
  /\ At(t, "lock")
  /\ g_shared' = t
  /\ Goto(t, label)

Acquire(t, label) ==
  /\ At(t, "lock") /\ g_shared = "none"
  /\ g_shared' = t
  /\ Goto(t, label)

\* The end of the guard's scope: the mutex is free, a waiter contends for it
\* again, and t goes to sleep for at least d.
Release(t, d) ==
  /\ g_shared' = "none"
  /\ pc' = [u \in Threads |-> CASE u = t -> "sleep"
                                [] pc[u] = "blocked" -> "lock"
                                [] OTHER -> pc[u]]
  /\ \E late \in 0..MaxOversleep : timer' = [timer EXCEPT ![t] = d + late]

\* The head of the holder's and of the hog's loop.
Stops(t) ==
  /\ t \in {"low", "medium"} /\ At(t, "sleep") /\ ~g_running
  /\ Goto(t, "done")
  /\ UNCHANGED <<environment, scheduling, results, history>>

--------------------------------------------------------------------------------
(* Diagnostics: lock, a fixed amount of work, unlock, sleep.                 *)

LowLoops ==
  /\ At("low", "sleep") /\ g_running
  /\ Goto("low", "lock")
  /\ UNCHANGED <<environment, scheduling, results, history>>

\* Mutant of LowAcquires: the work is done twice in the critical section.
LowAcquiresForMore ==
  /\ Acquire("low", "spin")
  /\ work' = 2 * iterations
  /\ section' = IF pc["medium"] \in {"sleep", "busy"} THEN "window" ELSE "other"
  /\ UNCHANGED <<environment, timer, prio, results, hogTime, worstHogTime>>

LowAcquires ==
  /\ Acquire("low", "spin")
  /\ work' = iterations
  /\ section' = IF pc["medium"] \in {"sleep", "busy"} THEN "window" ELSE "other"
  /\ UNCHANGED <<environment, timer, prio, results, hogTime, worstHogTime>>

LowReleases ==
  /\ At("low", "spin") /\ work = 0
  /\ Release("low", kHolderIdle)
  /\ UNCHANGED <<environment, prio, work, results, history>>

(* The hog: a burst against the wall clock, a short sleep.                   *)

HogBursts ==
  /\ At("medium", "sleep") /\ g_running
  /\ Goto("medium", "busy")
  /\ timer' = [timer EXCEPT !["medium"] = kHogBurst]
  /\ UNCHANGED <<environment, prio, work, g_shared, results, history>>

\* Mutants of HogSleeps: a shorter window; the holder's idle time for the hog's.
HogSleepsLess ==
  /\ At("medium", "busy") /\ timer["medium"] = 0
  /\ Sleep("medium", kHogIdle - 2)
  /\ UNCHANGED <<environment, prio, work, g_shared, results, history>>

HogSleepsLong ==
  /\ At("medium", "busy") /\ timer["medium"] = 0
  /\ Sleep("medium", kHolderIdle)
  /\ UNCHANGED <<environment, prio, work, g_shared, results, history>>

HogSleeps ==
  /\ At("medium", "busy") /\ timer["medium"] = 0
  /\ Sleep("medium", kHogIdle)
  /\ UNCHANGED <<environment, prio, work, g_shared, results, history>>

(* The control loop: asks for the mutex, notes how long it took, sleeps.     *)

HighAsks ==
  /\ At("high", "sleep") /\ cycle < kCycles
  /\ Goto("high", "lock")
  /\ cycle' = cycle + 1 /\ wait' = 0 /\ hogTime' = 0
  /\ UNCHANGED <<environment, scheduling, g_running, g_rt_threads,
                 g_worst_block_us, exitCode, worstHogTime, section>>

HighAcquires ==
  /\ Acquire("high", "held")
  /\ UNCHANGED <<environment, timer, prio, work, results, history>>

\* wait and hogTime go back to their initial values: they have no meaning
\* between two waits.
HighReleases ==
  /\ At("high", "held")
  /\ IF wait > g_worst_block_us
       THEN g_worst_block_us' = wait /\ worstHogTime' = hogTime
       ELSE UNCHANGED <<g_worst_block_us, worstHogTime>>
  /\ Release("high", kControlIdle)
  /\ wait' = 0 /\ hogTime' = 0
  /\ UNCHANGED <<environment, prio, work, g_running, g_rt_threads, cycle,
                 exitCode, section>>

HighStops ==
  /\ At("high", "sleep") /\ cycle = kCycles
  /\ Goto("high", "done")
  /\ UNCHANGED <<environment, scheduling, results, history>>

--------------------------------------------------------------------------------
(* main                                                                      *)

\* Mutant of Setup: the mutex is initialised without the attribute.
SetupDefaultMutex ==
  /\ At("main", "setup")
  /\ inherit' = FALSE
  /\ pinned' = host.affinity
  /\ Goto("main", "calibrate")
  /\ UNCHANGED <<host, iterations, scheduling, results, history>>

\* The mutex attribute of fixed.cpp, and the affinity mask.  Neither result
\* stops the program.
Setup ==
  /\ At("main", "setup")
  /\ inherit' = (Variant = "fixed" /\ host.inherit)
  /\ pinned' = host.affinity
  /\ Goto("main", "calibrate")
  /\ UNCHANGED <<host, iterations, scheduling, results, history>>

\* Mutant of Acceptable: a tolerance wider than the verdict's threshold.
AcceptableLax(measured) ==
  /\ measured >= kCriticalSection \div 2
  /\ measured <= 3 * kCriticalSection

\* The critical section may last from half the intended time to twice of it.
Acceptable(measured) ==
  /\ measured >= kCriticalSection \div 2
  /\ measured <= 2 * kCriticalSection

Calibrate ==
  /\ At("main", "calibrate")
  /\ \E measured \in Measured :
       /\ iterations' = measured
       /\ IF Acceptable(measured)
            THEN Goto("main", "spawn_low") /\ UNCHANGED exitCode
            ELSE Goto("main", "exited") /\ exitCode' = 3
  /\ UNCHANGED <<host, pinned, inherit, scheduling, g_running, g_rt_threads,
                 g_worst_block_us, cycle, wait, history>>

SpawnLow ==
  /\ At("main", "spawn_low")
  /\ pc' = [pc EXCEPT !["main"] = "spawn_medium", !["low"] = "start"]
  /\ UNCHANGED <<environment, scheduling, results, history>>

SpawnMedium ==
  /\ At("main", "spawn_medium")
  /\ pc' = [pc EXCEPT !["main"] = "sleep", !["medium"] = "start"]
  /\ \E late \in 0..MaxOversleep :
       timer' = [timer EXCEPT !["main"] = kStartDelay + late]
  /\ UNCHANGED <<environment, prio, work, g_shared, results, history>>

SpawnHigh ==
  /\ At("main", "sleep")
  /\ pc' = [pc EXCEPT !["main"] = "join_high", !["high"] = "start"]
  /\ UNCHANGED <<environment, scheduling, results, history>>

\* Mutant of JoinHigh: the other threads are not told to stop.
JoinHighOnly ==
  /\ At("main", "join_high")
  /\ Goto("main", "join_rest")
  /\ UNCHANGED <<environment, scheduling, g_running, g_rt_threads,
                 g_worst_block_us, cycle, wait, exitCode, history>>

JoinHigh ==
  /\ At("main", "join_high")
  /\ g_running' = FALSE
  /\ Goto("main", "join_rest")
  /\ UNCHANGED <<environment, scheduling, g_rt_threads, g_worst_block_us, cycle,
                 wait, exitCode, history>>

\* What the two programs conclude, as their exit status.
BrokenVerdict == IF g_rt_threads < 3 THEN 2
                 ELSE IF g_worst_block_us > 2 * kCriticalSection THEN 1 ELSE 0

FixedVerdict == IF g_rt_threads < 3 THEN 2
                ELSE IF g_worst_block_us <= 2 * kCriticalSection THEN 0 ELSE 1

JoinRest ==
  /\ At("main", "join_rest")
  /\ exitCode' = IF Variant = "fixed" THEN FixedVerdict ELSE BrokenVerdict
  /\ Goto("main", "exited")
  /\ UNCHANGED <<environment, scheduling, g_running, g_rt_threads,
                 g_worst_block_us, cycle, wait, history>>

--------------------------------------------------------------------------------
MainStep == Setup \/ Calibrate \/ SpawnLow \/ SpawnMedium \/ SpawnHigh
              \/ JoinHigh \/ JoinRest

LowStep == SetPriority("low") \/ LowLoops \/ LowAcquires \/ Block("low")
             \/ LowReleases \/ Stops("low")

HogStep == SetPriority("medium") \/ HogBursts \/ HogSleeps \/ Stops("medium")

HighStep == SetPriority("high") \/ HighAsks \/ HighAcquires \/ Block("high")
              \/ HighReleases \/ HighStops

\* The process is gone.
Finished == pc["main"] = "exited" /\ UNCHANGED vars

Next == Tick \/ MainStep \/ LowStep \/ HogStep \/ HighStep \/ Finished

\* Time passes, and a thread that keeps the CPU takes its next step.
Fairness == WF_vars(Tick) /\ WF_vars(MainStep) /\ WF_vars(LowStep)
              /\ WF_vars(HogStep) /\ WF_vars(HighStep)

Spec == Init /\ [][Next]_vars
FairSpec == Spec /\ Fairness

--------------------------------------------------------------------------------
(* Properties                                                                *)

Labels == {"setup", "calibrate", "spawn_low", "spawn_medium", "join_high",
           "join_rest", "exited", "unborn", "start", "sleep", "lock",
           "blocked", "spin", "busy", "held", "done"}

TypeOK ==
  /\ host \in Hosts /\ pinned \in BOOLEAN /\ inherit \in BOOLEAN
  /\ iterations \in Nat
  /\ pc \in [Threads -> Labels]
  /\ timer \in [Threads -> Nat] /\ prio \in [Threads -> Nat]
  /\ work \in Nat
  /\ g_shared \in {"none", "low", "high"}
  /\ g_running \in BOOLEAN /\ g_rt_threads \in Nat
  /\ g_worst_block_us \in Nat /\ cycle \in Nat /\ wait \in Nat
  /\ exitCode \in 0..3
  /\ hogTime \in Nat /\ worstHogTime \in Nat
  /\ section \in {"other", "window", "caught"}

\* A thread blocked on the mutex waits for the other user of it, who is inside
\* the critical section: no release loses a waiter, and the mutex is never left
\* held by a thread that has gone on.
MutexConsistent ==
  /\ g_shared = "low" <=> pc["low"] = "spin"
  /\ g_shared = "high" <=> pc["high"] = "held"
  /\ \A t \in Threads : pc[t] = "blocked" => g_shared \notin {"none", t}

\* The conditions the case needs: one CPU, and SCHED_FIFO for all three.
RealTime == pinned /\ g_rt_threads = 3

\* What the control loop waits beyond the critical section is the CPU time of
\* the hog, to the unit: nothing else comes between the holder and the end of its
\* work.  With and without inheritance (broken.cpp:297-301).
LongWaitsAreTheHogs ==
  RealTime => /\ wait <= iterations + hogTime
              /\ g_worst_block_us <= iterations + worstHogTime

\* With inheritance the control loop waits for one critical section at most
\* (fixed.cpp:274-282); with std::mutex this is what fails.
WaitBounded ==
  RealTime => wait <= iterations /\ g_worst_block_us <= iterations

\* With inheritance the hog never has the CPU while the control loop is blocked.
HogNeverIntervenes == RealTime => hogTime = 0 /\ worstHogTime = 0

\* A process that had one CPU and says "priority inversion" (exit status 1) is
\* right about the cause: without the hog's time the worst wait would have been
\* acceptable, whatever length of critical section the calibration let pass.
VerdictNamesTheHog ==
  pinned /\ pc["main"] = "exited" /\ exitCode = 1 =>
    g_worst_block_us <= 2 * kCriticalSection + worstHogTime

\* With inheritance the program that gets past its calibration says "bounded".
ConcludesBounded ==
  pc["main"] = "exited" => exitCode \in {0, 3}

\* A program that draws a conclusion had every priority it asked for, the hog's
\* and the holder's included (broken.cpp:285-294).
ConcludesOnlyWithPriorities ==
  pc["main"] = "exited" /\ exitCode \in {0, 1} =>
    \A t \in Workers : prio[t] = Priority[t]

\* Without inheritance the control loop pays one burst of the hog for every
\* idle window that the critical section needs.  It never quite pays the whole
\* of that: it outranks the holder, so it has to ask when the work has begun.
BurstsFor(length) == (length + kHogIdle - 1) \div kHogIdle

WaitPaysBursts ==
  RealTime /\ iterations > 0 =>
    wait < iterations + kHogBurst * BurstsFor(iterations)

\* The comment in fixed.cpp:274-277: without inheritance "the bound is the hog's
\* burst length", one burst on top of the work itself.
WaitPaysOneBurst == RealTime => wait <= iterations + kHogBurst

\* Without inheritance a holder that locks in an idle window of the hog gets to
\* its unlock in the same window only with a section shorter than such a window
\* can be; a longer one is caught by a burst (broken.cpp:105-112).  The calibration
\* accepts lengths on both sides of that (broken.cpp:261).
OnlyShortSectionsEscape ==
  [][g_shared = "low" /\ g_shared' # "low" /\ section = "window"
       /\ pinned /\ g_running /\ prio["medium"] > prio["low"] =>
         iterations < kHogIdle + MaxOversleep]_vars

\* The program ends, whatever the host grants: main, an ordinary thread under
\* three that outrank it, still gets to join the control loop and stop the rest.
Terminates == <>(pc["main"] = "exited")
====
