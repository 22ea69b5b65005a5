----------------------- MODULE PriorityInversion_proofs -----------------------
(***************************************************************************)
(* What PriorityInversion promises for every length of section, burst and  *)
(* sleep, every calibration and every host.  The argument is an account of *)
(* the control loop's wait: while it is blocked the holder is inside the   *)
(* critical section, and each unit of time is spent either on what is left *)
(* of the holder's work or by the hog; with priority inheritance the hog   *)
(* cannot have the CPU at all.                                             *)
(***************************************************************************)
EXTENDS PriorityInversion, TLAPS

\* The control loop has the CPU whenever it can use it.
Favoured == pinned /\ prio["high"] = Priority["high"]

\* Each thread stays within its own program.
Phases ==
  /\ pc["main"] \in {"setup", "calibrate", "spawn_low", "spawn_medium", "sleep",
                     "join_high", "join_rest", "exited"}
  /\ pc["low"] \in {"unborn", "start", "sleep", "lock", "blocked", "spin", "done"}
  /\ pc["medium"] \in {"unborn", "start", "sleep", "busy", "done"}
  /\ pc["high"] \in {"unborn", "start", "sleep", "lock", "blocked", "held", "done"}

\* main creates the threads in order, after it has set up and calibrated.
Order ==
  /\ pc["main"] \in {"setup", "calibrate", "spawn_low"} => pc["low"] = "unborn"
  /\ pc["main"] \in {"setup", "calibrate", "spawn_low", "spawn_medium"} =>
       pc["medium"] = "unborn"
  /\ pc["main"] \in {"setup", "calibrate", "spawn_low", "spawn_medium", "sleep"} =>
       pc["high"] = "unborn"
  /\ pc["main"] \in {"setup", "calibrate"} => iterations = 0
  /\ pc["main"] = "setup" => ~pinned
  /\ pc["main"] # "exited" => exitCode = 0
  /\ pc["main"] \notin {"setup", "calibrate"} /\ exitCode # 3 =>
       iterations <= 2 * kCriticalSection

\* g_rt_threads counts the threads that have the priority they asked for.
Granted(t) == IF prio[t] = 0 THEN 0 ELSE 1

Grants ==
  /\ prio["main"] = 0
  /\ prio["low"] \in {0, 10} /\ prio["medium"] \in {0, 50} /\ prio["high"] \in {0, 90}
  /\ \A t \in Workers : pc[t] \in {"unborn", "start"} => prio[t] = 0
  /\ \A t \in Workers : pc[t] \notin {"unborn", "start"} /\ Priority[t] <= host.rtprio
                          => prio[t] = Priority[t]
  /\ g_rt_threads = Granted("low") + Granted("medium") + Granted("high")

\* What the control loop may still have to wait for.
Pending == IF g_shared = "low" /\ pc["high"] \in {"lock", "blocked"} THEN work ELSE 0

Account ==
  /\ work <= iterations
  /\ pc["high"] \notin {"lock", "blocked", "held"} => wait = 0 /\ hogTime = 0
  /\ pc["high"] \in {"unborn", "start"} =>
       g_worst_block_us = 0 /\ worstHogTime = 0
  /\ Favoured => wait + Pending <= iterations + hogTime
  /\ Favoured => g_worst_block_us <= iterations + worstHogTime

\* Inheritance, once main has set it up, keeps the hog out of every wait.
ShutOut ==
  /\ pinned => inherit = (Variant = "fixed" /\ host.inherit)
  /\ Favoured /\ inherit => hogTime = 0 /\ worstHogTime = 0

\* Exit status 1 is only returned when all three priorities were granted.
Verdict == exitCode = 1 => g_rt_threads = 3

IInv == TypeOK /\ MutexConsistent /\ Phases /\ Order /\ Grants /\ Account
          /\ ShutOut /\ Verdict

--------------------------------------------------------------------------------
(* Type correctness.                                                         *)

\* The labels of each thread and the ranges of all variables, together: work
\* stays a number because only the holder's spinWork is computed.
LEMMA ShapeInit == Init => TypeOK /\ Phases
<1> SUFFICES ASSUME Init PROVE TypeOK /\ Phases
  OBVIOUS
<1>1. pc \in [Threads -> Labels] /\ Phases
  BY DEF Init, Phases, Threads, Workers, Labels
<1>2. timer \in [Threads -> Nat] /\ prio \in [Threads -> Nat]
  BY DEF Init
<1>3. pinned \in BOOLEAN /\ inherit \in BOOLEAN /\ g_running \in BOOLEAN
  BY Zenon DEF Init
<1>. QED BY <1>1, <1>2, <1>3 DEF Init, TypeOK

LEMMA ShapeStep ==
  ASSUME TypeOK, Phases, [Next]_vars
  PROVE  TypeOK' /\ Phases'
<1> USE ConstantsAssumption DEF Threads, Workers, Labels
<1>1. CASE Tick
  <2>1. ASSUME NEW R \in SUBSET Threads, \A t \in R : Computing(t), Advance(R)
        PROVE  TypeOK' /\ Phases'
    <3>1. "low" \in R => work > 0
      BY <2>1 DEF Computing, Phases
    <3>2. work' \in Nat /\ wait' \in Nat /\ hogTime' \in Nat
      BY <2>1, <3>1 DEF Advance, TypeOK, Min2
    <3>3. timer' \in [Threads -> Nat]
      BY <2>1 DEF Advance, TypeOK
    <3>. QED BY <2>1, <3>2, <3>3 DEF Advance, TypeOK, Phases, environment
  <2>. QED BY <1>1, <2>1 DEF Tick, TickPinned, TickSpread, TickIdle
<1>2. CASE MainStep
  <2>1. CASE Setup
    BY <2>1 DEF Setup, At, Goto, TypeOK, Phases, scheduling, results, history, HostType
  <2>2. CASE Calibrate
    BY <2>2 DEF Calibrate, At, Goto, TypeOK, Phases, scheduling, history
  <2>3. CASE SpawnLow \/ SpawnMedium \/ SpawnHigh
    BY <2>3 DEF SpawnLow, SpawnMedium, SpawnHigh, At, TypeOK, Phases,
                environment, scheduling, results, history
  <2>4. CASE JoinHigh
    BY <2>4 DEF JoinHigh, At, Goto, TypeOK, Phases, environment, scheduling, history
  <2>5. CASE JoinRest
    <3>1. exitCode' \in 0..3
      BY <2>5 DEF JoinRest, FixedVerdict, BrokenVerdict
    <3>. QED BY <2>5, <3>1 DEF JoinRest, At, Goto, TypeOK, Phases, environment,
                               scheduling, history
  <2>. QED BY <1>2, <2>1, <2>2, <2>3, <2>4, <2>5 DEF MainStep
<1>3. ASSUME NEW t \in Workers, SetPriority(t)
      PROVE  TypeOK' /\ Phases'
  BY <1>3 DEF SetPriority, At, Goto, TypeOK, Phases, Priority, environment, history
<1>4. ASSUME NEW t \in Workers, Block(t) \/ Stops(t)
      PROVE  TypeOK' /\ Phases'
  BY <1>4 DEF Block, Stops, At, Goto, TypeOK, Phases,
              environment, scheduling, results, history
<1>5. CASE LowLoops \/ LowAcquires \/ LowReleases
  BY <1>5 DEF LowLoops, LowAcquires, LowReleases, Acquire, Release, At, Goto,
              TypeOK, Phases, environment, scheduling, results, history
<1>6. CASE HogBursts \/ HogSleeps
  BY <1>6 DEF HogBursts, HogSleeps, Sleep, At, Goto, TypeOK, Phases,
              environment, scheduling, results, history
<1>7. CASE HighAsks \/ HighAcquires \/ HighReleases \/ HighStops
  BY <1>7 DEF HighAsks, HighAcquires, HighReleases, HighStops, Acquire, Release,
              At, Goto, TypeOK, Phases, environment, scheduling, results, history
<1>8. CASE UNCHANGED vars
  BY <1>8 DEF vars, environment, scheduling, results, history, TypeOK, Phases
<1>. QED
  BY <1>1, <1>2, <1>3, <1>4, <1>5, <1>6, <1>7, <1>8
  DEF Next, LowStep, HogStep, HighStep, Finished

\* No step of any of the two programs, on any host, leaves the types.
THEOREM TypeCorrect == Spec => []TypeOK
<1>1. TypeOK /\ Phases /\ [Next]_vars => TypeOK' /\ Phases'
  BY ShapeStep
<1>. QED BY ShapeInit, <1>1, PTL DEF Spec

--------------------------------------------------------------------------------
(* The mutex, and the order in which main brings the threads to life.        *)

LEMMA MainStepSpawns ==
  ASSUME TypeOK, Phases, Order, MainStep
  PROVE  \A t \in Workers : pc'[t] = pc[t] \/ (pc[t] = "unborn" /\ pc'[t] = "start")
<1>. USE DEF TypeOK, Threads, Workers, At, Goto
<1>1. CASE Setup \/ Calibrate \/ JoinHigh \/ JoinRest
  BY <1>1 DEF Setup, Calibrate, JoinHigh, JoinRest
<1>2. CASE SpawnLow \/ SpawnMedium \/ SpawnHigh
  BY <1>2 DEF SpawnLow, SpawnMedium, SpawnHigh, Order
<1>. QED BY <1>1, <1>2 DEF MainStep

LEMMA MutexStep ==
  ASSUME TypeOK, Phases, Order, MutexConsistent, [Next]_vars
  PROVE  MutexConsistent'
<1> USE DEF Threads, Workers, MutexConsistent, TypeOK, Phases, At, Goto
<1>1. CASE Tick
  BY <1>1 DEF Tick, TickPinned, TickSpread, TickIdle, Advance
<1>2. CASE MainStep
  <2>1. UNCHANGED g_shared
    BY <1>2 DEF MainStep, Setup, Calibrate, SpawnLow, SpawnMedium, SpawnHigh,
                JoinHigh, JoinRest, scheduling
  <2>2. \A t \in Workers : pc'[t] = pc[t] \/ (pc[t] = "unborn" /\ pc'[t] = "start")
    BY <1>2, MainStepSpawns
  <2>3. pc'["main"] # "blocked" /\ pc["main"] # "blocked"
    BY ShapeStep
  <2>. QED BY <2>1, <2>2, <2>3
<1>3. ASSUME NEW t \in Workers, SetPriority(t)
      PROVE  MutexConsistent'
  BY <1>3 DEF SetPriority
<1>4. ASSUME NEW t \in Workers, Block(t) \/ Stops(t)
      PROVE  MutexConsistent'
  BY <1>4 DEF Block, Stops, scheduling
<1>5. CASE LowLoops \/ LowAcquires \/ LowReleases
  BY <1>5 DEF LowLoops, LowAcquires, LowReleases, Acquire, Release, scheduling
<1>6. CASE HogBursts \/ HogSleeps
  BY <1>6 DEF HogBursts, HogSleeps, Sleep
<1>7. CASE HighAsks \/ HighAcquires \/ HighReleases \/ HighStops
  BY <1>7 DEF HighAsks, HighAcquires, HighReleases, HighStops, Acquire, Release,
              scheduling
<1>8. CASE UNCHANGED vars
  BY <1>8 DEF vars, scheduling
<1>. QED
  BY <1>1, <1>2, <1>3, <1>4, <1>5, <1>6, <1>7, <1>8
  DEF Next, LowStep, HogStep, HighStep, Finished

LEMMA OrderStep ==
  ASSUME TypeOK, Phases, Order, [Next]_vars
  PROVE  Order'
<1> USE DEF Threads, Workers, Order, TypeOK, Phases, At, Goto
<1>1. CASE Tick
  BY <1>1 DEF Tick, TickPinned, TickSpread, TickIdle, Advance, environment
<1>2. CASE MainStep
  <2>1. CASE Setup
    BY <2>1 DEF Setup, scheduling, results
  <2>2. CASE Calibrate
    BY <2>2 DEF Calibrate, Acceptable
  <2>3. CASE SpawnLow \/ SpawnMedium \/ SpawnHigh
    BY <2>3 DEF SpawnLow, SpawnMedium, SpawnHigh, environment, results
  <2>4. CASE JoinHigh \/ JoinRest
    BY <2>4 DEF JoinHigh, JoinRest, environment
  <2>. QED BY <1>2, <2>1, <2>2, <2>3, <2>4 DEF MainStep
<1>3. CASE LowStep \/ HogStep \/ HighStep
  <2>1. /\ UNCHANGED <<environment, exitCode>>
        /\ pc'["main"] = pc["main"]
    BY <1>3 DEF LowStep, HogStep, HighStep, SetPriority, Block, Stops, LowLoops,
         LowAcquires, LowReleases, HogBursts, HogSleeps, HighAsks, HighAcquires,
         HighReleases, HighStops, Sleep, Acquire, Release, results
  <2>2. \A t \in Workers : pc[t] = "unborn" => pc'[t] = "unborn"
    BY <1>3 DEF LowStep, HogStep, HighStep, SetPriority, Block, Stops, LowLoops,
         LowAcquires, LowReleases, HogBursts, HogSleeps, HighAsks, HighAcquires,
         HighReleases, HighStops, Sleep, Acquire, Release
  <2>. QED BY <2>1, <2>2 DEF environment
<1>4. CASE UNCHANGED vars
  BY <1>4 DEF vars, environment, results
<1>. QED BY <1>1, <1>2, <1>3, <1>4 DEF Next, Finished

--------------------------------------------------------------------------------
(* Priorities: g_rt_threads counts what was granted, and decides who runs.   *)

LEMMA GrantsStep ==
  ASSUME TypeOK, Phases, Order, Grants, [Next]_vars
  PROVE  Grants'
<1> USE DEF Threads, Workers, Grants, TypeOK, Phases, At, Goto, Granted
<1>1. CASE Tick
  BY <1>1 DEF Tick, TickPinned, TickSpread, TickIdle, Advance, environment
<1>2. CASE MainStep
  <2>1. UNCHANGED <<host, prio, g_rt_threads>>
    BY <1>2 DEF MainStep, Setup, Calibrate, SpawnLow, SpawnMedium, SpawnHigh,
                JoinHigh, JoinRest, scheduling, results, environment
  <2>2. \A t \in Workers : pc'[t] = pc[t] \/ (pc[t] = "unborn" /\ pc'[t] = "start")
    BY <1>2, MainStepSpawns
  <2>. QED BY <2>1, <2>2
<1>3. ASSUME NEW t \in Workers, SetPriority(t)
      PROVE  Grants'
  <2>1. CASE t = "low"
    BY <1>3, <2>1 DEF SetPriority, Priority, environment
  <2>2. CASE t = "medium"
    BY <1>3, <2>2 DEF SetPriority, Priority, environment
  <2>3. CASE t = "high"
    BY <1>3, <2>3 DEF SetPriority, Priority, environment
  <2>. QED BY <2>1, <2>2, <2>3
<1>4. ASSUME NEW t \in Workers, Block(t) \/ Stops(t)
      PROVE  Grants'
  BY <1>4 DEF Block, Stops, scheduling, results, environment
<1>5. CASE LowLoops \/ LowAcquires \/ LowReleases
  BY <1>5 DEF LowLoops, LowAcquires, LowReleases, Acquire, Release, scheduling,
              results, environment
<1>6. CASE HogBursts \/ HogSleeps
  BY <1>6 DEF HogBursts, HogSleeps, Sleep, results, environment
<1>7. CASE HighAsks \/ HighAcquires \/ HighReleases \/ HighStops
  BY <1>7 DEF HighAsks, HighAcquires, HighReleases, HighStops, Acquire, Release,
              scheduling, results, environment
<1>8. CASE UNCHANGED vars
  BY <1>8 DEF vars, scheduling, results, environment
<1>. QED
  BY <1>1, <1>2, <1>3, <1>4, <1>5, <1>6, <1>7, <1>8
  DEF Next, LowStep, HogStep, HighStep, Finished

\* While the control loop can use the CPU, nobody else has it.
LEMMA ControlLoopFirst ==
  ASSUME TypeOK, Phases, MutexConsistent, Grants, Favoured,
         pc["high"] \in {"lock", "held"},
         NEW t \in Threads, t # "high"
  PROVE  ~OnCpu(t)
<1>1. Ready("high")
  BY DEF Ready, Joins
<1>2. 90 \in Priorities("high")
  BY DEF Favoured, Priorities, Priority
<1>3. SUFFICES ASSUME Ready(t) PROVE \A q \in Priorities(t) : 90 > q
  BY <1>1, <1>2 DEF OnCpu, Outranks, Favoured, Threads, Workers
<1>4. pc[t] # "blocked"
  BY <1>3 DEF Ready
<1>5. \A v \in Threads : pc[v] = "blocked" => v = "low"
  BY DEF Phases, Threads, Workers
<1>6. \A v \in Threads : pc[v] = "blocked" => t # g_shared
  BY <1>4, <1>5 DEF MutexConsistent, TypeOK, Threads, Workers
<1>7. prio[t] \in {0, 10, 50}
  BY DEF Grants, Threads, Workers
<1>. QED BY <1>6, <1>7 DEF Priorities

\* While the control loop is blocked on a mutex with priority inheritance, the
\* holder outranks the hog.
LEMMA HolderFirst ==
  ASSUME TypeOK, Phases, MutexConsistent, Grants, Favoured, inherit,
         pc["high"] = "blocked"
  PROVE  ~OnCpu("medium")
<1>1. g_shared = "low" /\ pc["low"] = "spin"
  BY DEF MutexConsistent, TypeOK, Threads, Workers
<1>2. Ready("low")
  BY <1>1 DEF Ready, Joins
<1>3. 90 \in Priorities("low")
  BY <1>1 DEF Priorities, Favoured, Priority, Threads, Workers
<1>4. \A q \in Priorities("medium") : 90 > q
  BY <1>1 DEF Priorities, Grants
<1>. QED BY <1>2, <1>3, <1>4 DEF OnCpu, Outranks, Favoured, Threads, Workers

--------------------------------------------------------------------------------
(* The account of the control loop's wait.                                   *)

\* The threads that compute during a unit of time have the CPU; on one CPU there is
\* one of them at most, and none only if nobody can use it.
ComputingNow(R) ==
  /\ \A t \in R : OnCpu(t) /\ Computing(t)
  /\ Advance(R)
  /\ R = {} => \A t \in Threads : ~Ready(t)
  /\ pinned => \A t, u \in R : t = u

LEMMA TickComputes ==
  ASSUME Tick
  PROVE  \E R \in SUBSET Threads : ComputingNow(R)
<1>1. ASSUME NEW t \in Threads, OnCpu(t), Computing(t), Advance({t})
      PROVE  \E R \in SUBSET Threads : ComputingNow(R)
  <2>. WITNESS {t} \in SUBSET Threads
  <2>. QED BY <1>1 DEF ComputingNow
<1>2. CASE TickSpread
  BY <1>2 DEF TickSpread, OnCpu, ComputingNow
<1>3. CASE TickIdle
  <2>. WITNESS {} \in SUBSET Threads
  <2>. QED BY <1>3 DEF TickIdle, ComputingNow
<1>. QED BY <1>1, <1>2, <1>3 DEF Tick, TickPinned

\* A unit of time: the wait grows by what the holder's work shrinks by, or by
\* what the hog consumes, and with inheritance the hog consumes nothing.
LEMMA AccountTick ==
  ASSUME TypeOK, Phases, MutexConsistent, Grants, Account, ShutOut, Tick
  PROVE  Account' /\ ShutOut'
<1>1. PICK R \in SUBSET Threads :
        /\ \A t \in R : OnCpu(t) /\ Computing(t)
        /\ Advance(R)
        /\ R = {} => \A t \in Threads : ~Ready(t)
        /\ pinned => \A t, u \in R : t = u
  BY TickComputes DEF ComputingNow
<1>2. /\ UNCHANGED <<pinned, inherit, host, iterations, pc, prio, g_shared>>
      /\ UNCHANGED <<g_worst_block_us, worstHogTime>>
  BY <1>1 DEF Advance, environment
<1>3. Favoured' = Favoured
  BY <1>2 DEF Favoured
<1>4. R \subseteq {"low", "medium"}
  BY <1>1 DEF Computing, Phases, Threads, Workers
<1>5. "low" \in R => pc["low"] = "spin" /\ work > 0
  BY <1>1 DEF Computing, Phases
<1>6. work' <= iterations'
  BY <1>1, <1>2, <1>5 DEF Account, Advance, TypeOK
<1>7. CASE pc["high"] \notin {"lock", "blocked", "held"}
  <2>1. wait' = wait /\ hogTime' = hogTime
    BY <1>1, <1>7 DEF Advance
  <2>2. Pending' = 0 /\ Pending = 0
    BY <1>2, <1>7 DEF Pending
  <2>. QED BY <1>2, <1>3, <1>6, <2>1, <2>2 DEF Account, ShutOut
<1>8. CASE pc["high"] \in {"lock", "held"}
  <2>1. SUFFICES ASSUME Favoured PROVE FALSE
    BY <1>2, <1>3, <1>6, <1>8 DEF Account, ShutOut
  <2>2. R = {}
    BY <1>1, <1>4, <1>8, <2>1, ControlLoopFirst DEF Threads, Workers
  <2>3. Ready("high")
    BY <1>8 DEF Ready, Joins
  <2>. QED BY <1>1, <2>2, <2>3 DEF Threads, Workers
<1>9. CASE pc["high"] = "blocked"
  <2>1. g_shared = "low" /\ pc["low"] = "spin"
    BY <1>9 DEF MutexConsistent, TypeOK, Threads, Workers
  <2>2. Pending' = work' /\ Pending = work
    BY <1>2, <1>9, <2>1 DEF Pending
  <2>3. R # {}
    BY <1>1, <2>1 DEF Ready, Joins, Threads, Workers
  <2>4. CASE ~Favoured
    BY <1>2, <1>3, <1>6, <1>9, <2>4 DEF Account, ShutOut
  <2>5. CASE Favoured /\ R = {"low"}
    <3>1. work' = work - 1 /\ wait' = Min2(wait + 1, MaxWait)
      BY <1>1, <1>9, <2>5 DEF Advance
    <3>2. hogTime' = hogTime
      BY <1>1, <1>9, <2>5 DEF Advance
    <3>3. wait + work <= iterations + hogTime
      BY <2>2, <2>5 DEF Account
    <3>4. wait' + work' <= iterations + hogTime'
      BY <3>1, <3>2, <3>3, ConstantsAssumption DEF Min2, TypeOK
    <3>. QED BY <1>2, <1>3, <1>6, <1>9, <2>2, <3>2, <3>4 DEF Account, ShutOut
  <2>6. CASE Favoured /\ R = {"medium"}
    <3>1. ~inherit
      BY <1>1, <1>9, <2>6, HolderFirst
    <3>2. work' = work /\ wait' = Min2(wait + 1, MaxWait)
      BY <1>1, <1>9, <2>6 DEF Advance
    <3>3. hogTime' = Min2(hogTime + 1, MaxWait)
      BY <1>1, <1>9, <2>6 DEF Advance
    <3>4. wait + work <= iterations + hogTime /\ work <= iterations
      BY <2>2, <2>6 DEF Account
    <3>5. wait' + work <= iterations + hogTime'
      BY <3>2, <3>3, <3>4, ConstantsAssumption DEF Min2, TypeOK
    <3>. QED BY <1>2, <1>3, <1>6, <1>9, <2>2, <3>1, <3>2, <3>5 DEF Account, ShutOut
  <2>. QED
    BY <1>1, <1>4, <2>3, <2>4, <2>5, <2>6 DEF Favoured
<1>. QED BY <1>7, <1>8, <1>9 DEF Phases

LEMMA AccountStep ==
  ASSUME TypeOK, Phases, Order, MutexConsistent, Grants, Account, ShutOut,
         [Next]_vars
  PROVE  Account' /\ ShutOut'
<1> USE DEF Threads, Workers, TypeOK, Phases, At, Goto
<1>1. CASE Tick
  BY <1>1, AccountTick
<1>2. CASE Setup
  <2>1. pc["high"] = "unborn" /\ prio["high"] = 0
    BY <1>2 DEF Setup, Order, Grants
  <2>2. UNCHANGED <<scheduling, results, history, iterations, host>> /\ pc'["high"] = pc["high"]
    BY <1>2 DEF Setup
  <2>3. ~Favoured'
    BY <2>1, <2>2 DEF Favoured, scheduling, Priority
  <2>4. inherit' = (Variant = "fixed" /\ host.inherit)
    BY <1>2 DEF Setup
  <2>. QED BY <2>1, <2>2, <2>3, <2>4 DEF Account, ShutOut, scheduling, results, history
<1>3. CASE Calibrate
  <2>1. iterations = 0 /\ iterations' \in Nat /\ pc["high"] = "unborn"
    BY <1>3, ConstantsAssumption DEF Calibrate, Order
  <2>2. /\ UNCHANGED <<host, pinned, inherit, scheduling, history>>
        /\ UNCHANGED <<g_worst_block_us, wait>>
        /\ pc'["high"] = pc["high"]
    BY <1>3 DEF Calibrate
  <2>3. ~Favoured'
    BY <2>1, <2>2 DEF Favoured, Grants, Priority, scheduling
  <2>4. Account'
    <3>1. work' = work /\ work <= iterations'
      BY <2>1, <2>2 DEF Account, scheduling
    <3>2. UNCHANGED <<wait, hogTime, g_worst_block_us, worstHogTime>>
      BY <2>2 DEF history
    <3>. QED BY <2>1, <2>2, <2>3, <3>1, <3>2 DEF Account
  <2>5. ShutOut'
    BY <2>2, <2>3 DEF ShutOut, history
  <2>. QED BY <2>4, <2>5
<1>4. CASE SpawnLow \/ SpawnMedium \/ SpawnHigh \/ JoinHigh \/ JoinRest
  <2>1. /\ UNCHANGED <<environment, prio, work, g_shared, history>>
        /\ UNCHANGED <<g_worst_block_us, wait>>
        /\ pc'["high"] = pc["high"] \/ (pc["high"] = "unborn" /\ pc'["high"] = "start")
    BY <1>4 DEF SpawnLow, SpawnMedium, SpawnHigh, JoinHigh, JoinRest, Order,
                scheduling, results
  <2>2. Favoured' = Favoured /\ Pending' = Pending
    BY <2>1 DEF Favoured, Pending, environment
  <2>3. Account'
    BY <2>1, <2>2 DEF Account, environment, history
  <2>4. ShutOut'
    BY <2>1, <2>2 DEF ShutOut, environment, history
  <2>. QED BY <2>3, <2>4
<1>5. ASSUME NEW t \in Workers, SetPriority(t)
      PROVE  Account' /\ ShutOut'
  <2>1. /\ UNCHANGED <<environment, work, g_shared, history>>
        /\ UNCHANGED <<g_worst_block_us, wait>>
    BY <1>5 DEF SetPriority
  <2>2. CASE t = "high"
    <3>1. pc["high"] = "start" /\ pc'["high"] = "sleep"
      BY <1>5, <2>2 DEF SetPriority
    <3>. QED BY <2>1, <3>1 DEF Account, ShutOut, Pending, environment, history
  <2>3. CASE t # "high"
    <3>1. pc'["high"] = pc["high"] /\ prio'["high"] = prio["high"]
      BY <1>5, <2>3 DEF SetPriority
    <3>. QED BY <2>1, <3>1 DEF Account, ShutOut, Favoured, Pending, environment, history
  <2>. QED BY <2>2, <2>3
<1>6. ASSUME NEW t \in Workers, Block(t) \/ Stops(t)
      PROVE  Account' /\ ShutOut'
  <2>1. UNCHANGED <<environment, scheduling, results, history>>
    BY <1>6 DEF Block, Stops
  <2>2. pc'["high"] = pc["high"] \/ (pc["high"] = "lock" /\ pc'["high"] = "blocked")
    BY <1>6 DEF Block, Stops
  <2>3. Favoured' = Favoured /\ Pending' = Pending
    BY <2>1, <2>2 DEF Favoured, Pending, environment, scheduling
  <2>4. Account'
    BY <2>1, <2>2, <2>3 DEF Account, environment, scheduling, results, history
  <2>5. ShutOut'
    BY <2>1, <2>3 DEF ShutOut, environment, history
  <2>. QED BY <2>4, <2>5
<1>7. CASE LowLoops
  BY <1>7 DEF LowLoops, Account, ShutOut, Favoured, Pending, environment,
              scheduling, results, history
<1>8. CASE LowAcquires
  <2>1. /\ UNCHANGED <<environment, prio, results, hogTime, worstHogTime>>
        /\ work' = iterations /\ pc'["high"] = pc["high"]
        /\ g_shared = "none" /\ OnCpu("low")
    BY <1>8 DEF LowAcquires, Acquire
  <2>2. pc["high"] # "blocked"
    BY <2>1 DEF MutexConsistent
  <2>3. Favoured => pc["high"] # "lock"
    BY <2>1, ControlLoopFirst
  <2>. QED BY <2>1, <2>2, <2>3 DEF Account, ShutOut, Favoured, Pending,
                                   environment, results
<1>9. CASE LowReleases
  <2>1. /\ UNCHANGED <<environment, prio, work, results, history>>
        /\ g_shared' = "none"
        /\ pc'["high"] = pc["high"] \/ (pc["high"] = "blocked" /\ pc'["high"] = "lock")
    BY <1>9 DEF LowReleases, Release
  <2>2. Pending' = 0 /\ Pending \in Nat
    BY <2>1 DEF Pending
  <2>. QED BY <2>1, <2>2 DEF Account, ShutOut, Favoured, environment, results, history
<1>10. CASE HogBursts \/ HogSleeps
  <2>1. /\ UNCHANGED <<environment, prio, work, g_shared, results, history>>
        /\ pc'["high"] = pc["high"]
    BY <1>10 DEF HogBursts, HogSleeps, Sleep
  <2>. QED BY <2>1 DEF Account, ShutOut, Favoured, Pending, environment, results, history
<1>11. CASE HighAsks
  BY <1>11 DEF HighAsks, Account, ShutOut, Favoured, Pending, environment, scheduling
<1>12. CASE HighAcquires
  <2>1. /\ UNCHANGED <<environment, prio, work, results, history>>
        /\ pc["high"] = "lock" /\ pc'["high"] = "held"
        /\ g_shared = "none" /\ g_shared' = "high"
    BY <1>12 DEF HighAcquires, Acquire
  <2>. QED BY <2>1 DEF Account, ShutOut, Favoured, Pending, environment, results, history
<1>13. CASE HighReleases
  <2>1. /\ UNCHANGED <<environment, prio, work>>
        /\ pc["high"] = "held" /\ pc'["high"] = "sleep" /\ wait' = 0 /\ hogTime' = 0
    BY <1>13 DEF HighReleases, Release
  <2>2. \/ g_worst_block_us' = wait /\ worstHogTime' = hogTime
        \/ UNCHANGED <<g_worst_block_us, worstHogTime>>
    BY <1>13 DEF HighReleases
  <2>3. Pending = 0 /\ Pending' = 0
    BY <2>1 DEF Pending
  <2>. QED BY <2>1, <2>2, <2>3 DEF Account, ShutOut, Favoured, environment
<1>14. CASE HighStops
  <2>1. /\ UNCHANGED <<environment, scheduling, results, history>>
        /\ pc["high"] = "sleep" /\ pc'["high"] = "done"
    BY <1>14 DEF HighStops
  <2>. QED BY <2>1 DEF Account, ShutOut, Favoured, Pending, environment,
                       scheduling, results, history
<1>15. CASE UNCHANGED vars
  BY <1>15 DEF vars, Account, ShutOut, Favoured, Pending, environment,
               scheduling, results, history
<1>. QED
  BY <1>1, <1>2, <1>3, <1>4, <1>5, <1>6, <1>7, <1>8, <1>9, <1>10, <1>11, <1>12,
     <1>13, <1>14, <1>15
  DEF Next, MainStep, LowStep, HogStep, HighStep, Finished

--------------------------------------------------------------------------------
(* The verdicts, the invariant as a whole, and what follows from it.         *)

LEMMA VerdictStep ==
  ASSUME TypeOK, Phases, Order, Grants, Verdict, [Next]_vars
  PROVE  Verdict'
<1> USE DEF Verdict, TypeOK, At, Goto
<1>1. CASE JoinRest
  BY <1>1 DEF JoinRest, FixedVerdict, BrokenVerdict, Grants, Granted
<1>2. CASE Calibrate
  BY <1>2 DEF Calibrate, Order
<1>3. ASSUME NEW t \in Workers, SetPriority(t)
      PROVE  Verdict'
  <2>1. pc[t] = "start" /\ prio[t] = 0 /\ exitCode' = exitCode
    BY <1>3 DEF SetPriority, Grants
  <2>2. g_rt_threads # 3
    BY <2>1 DEF Grants, Granted, Workers
  <2>. QED BY <2>1, <2>2
<1>4. CASE \/ Tick \/ Setup \/ SpawnLow \/ SpawnMedium \/ SpawnHigh \/ JoinHigh
           \/ LowLoops \/ LowAcquires \/ LowReleases \/ HogBursts \/ HogSleeps
           \/ HighAsks \/ HighAcquires \/ HighReleases \/ HighStops
           \/ UNCHANGED vars \/ \E t \in Workers : Block(t) \/ Stops(t)
  <2>1. UNCHANGED <<exitCode, g_rt_threads>>
    BY <1>4 DEF Tick, TickPinned, TickSpread, TickIdle, Advance, Setup, SpawnLow,
         SpawnMedium, SpawnHigh, JoinHigh, LowLoops, LowAcquires, LowReleases,
         HogBursts, HogSleeps, HighAsks, HighAcquires, HighReleases, HighStops,
         Block, Stops, vars, results
  <2>. QED BY <2>1
<1>. QED
  BY <1>1, <1>2, <1>3, <1>4
  DEF Next, MainStep, LowStep, HogStep, HighStep, Finished, Workers

LEMMA InitIInv == Init => IInv
<1> SUFFICES ASSUME Init PROVE IInv
  OBVIOUS
<1>1. TypeOK /\ Phases
  BY ShapeInit
<1>2. MutexConsistent
  BY DEF Init, MutexConsistent, Threads, Workers
<1>3. Order /\ Grants /\ Verdict
  BY DEF Init, Order, Grants, Granted, Verdict, Threads, Workers
<1>4. Account /\ ShutOut
  BY DEF Init, Account, ShutOut, Favoured, Pending, Threads, Workers
<1>. QED BY <1>1, <1>2, <1>3, <1>4 DEF IInv

LEMMA IInvStep == IInv /\ [Next]_vars => IInv'
BY ShapeStep, MutexStep, OrderStep, GrantsStep, AccountStep, VerdictStep DEF IInv

LEMMA IInvInvariant == Spec => []IInv
BY InitIInv, IInvStep, PTL DEF Spec

\* RealTime is what Favoured needs: the three grants include the control loop's.
LEMMA RealTimeFavours ==
  ASSUME IInv, RealTime
  PROVE  Favoured
BY DEF IInv, TypeOK, Grants, Granted, RealTime, Favoured, Priority, Threads, Workers

\* No release loses a waiter: the mutex belongs to whoever is inside the section.
THEOREM MutexIsConsistent == Spec => []MutexConsistent
<1>1. IInv => MutexConsistent
  BY DEF IInv
<1>. QED BY <1>1, IInvInvariant, PTL

\* For every program, host, calibration and timing: what the control loop waits
\* beyond the critical section is the hog's CPU time.
THEOREM LongWaitsExplained == Spec => []LongWaitsAreTheHogs
<1>1. IInv => LongWaitsAreTheHogs
  <2> SUFFICES ASSUME IInv, RealTime
               PROVE  /\ wait <= iterations + hogTime
                      /\ g_worst_block_us <= iterations + worstHogTime
    BY DEF LongWaitsAreTheHogs
  <2>1. Favoured
    BY RealTimeFavours
  <2>2. Pending \in Nat
    BY DEF IInv, TypeOK, Pending
  <2>. QED BY <2>1, <2>2 DEF IInv, Account, TypeOK
<1>. QED BY <1>1, IInvInvariant, PTL

\* "Priority inversion", when either program says so, is the right diagnosis.
THEOREM VerdictIsRight == Spec => []VerdictNamesTheHog
<1>1. IInv => VerdictNamesTheHog
  <2> SUFFICES ASSUME IInv, pinned, pc["main"] = "exited", exitCode = 1
               PROVE  g_worst_block_us <= 2 * kCriticalSection + worstHogTime
    BY DEF VerdictNamesTheHog
  <2>1. Favoured
    BY RealTimeFavours DEF IInv, Verdict, RealTime
  <2>2. iterations <= 2 * kCriticalSection
    BY DEF IInv, Order
  <2>. QED BY <2>1, <2>2, ConstantsAssumption DEF IInv, Account, TypeOK
<1>. QED BY <1>1, IInvInvariant, PTL

--------------------------------------------------------------------------------
(* Verdicts and refused priorities.                                          *)

\* A conclusion needs the three grants, and nobody asks for one afterwards.
ConcludedGranted ==
  pc["main"] = "exited" /\ exitCode \in {0, 1} => g_rt_threads = 3

LEMMA ConcludedGrantedStep ==
  ASSUME IInv, ConcludedGranted, [Next]_vars
  PROVE  ConcludedGranted'
<1> USE DEF ConcludedGranted, IInv, TypeOK, Phases, At, Goto
<1>1. CASE JoinRest
  BY <1>1 DEF JoinRest, FixedVerdict, BrokenVerdict, Grants, Granted
<1>2. CASE Calibrate
  BY <1>2 DEF Calibrate, Threads, Workers
<1>3. CASE Setup \/ SpawnLow \/ SpawnMedium \/ SpawnHigh \/ JoinHigh
  <2>1. pc'["main"] # "exited"
    BY <1>3 DEF Setup, SpawnLow, SpawnMedium, SpawnHigh, JoinHigh, Threads, Workers
  <2>. QED BY <2>1
<1>4. ASSUME NEW t \in Workers, SetPriority(t)
      PROVE  ConcludedGranted'
  <2>1. pc[t] = "start" /\ prio[t] = 0 /\ UNCHANGED exitCode
    BY <1>4 DEF SetPriority, Grants
  <2>2. g_rt_threads # 3
    BY <2>1 DEF Grants, Granted, Workers
  <2>3. pc'["main"] = pc["main"]
    BY <1>4 DEF SetPriority, Threads, Workers
  <2>. QED BY <2>1, <2>2, <2>3
<1>5. CASE \/ Tick \/ LowLoops \/ LowAcquires \/ LowReleases \/ HogBursts \/ HogSleeps
           \/ HighAsks \/ HighAcquires \/ HighReleases \/ HighStops
           \/ UNCHANGED vars \/ \E t \in Workers : Block(t) \/ Stops(t)
  <2>1. UNCHANGED <<exitCode, g_rt_threads>>
    BY <1>5 DEF Tick, TickPinned, TickSpread, TickIdle, Advance, LowLoops, LowAcquires,
         LowReleases, HogBursts, HogSleeps, HighAsks, HighAcquires, HighReleases,
         HighStops, Block, Stops, vars, results
  <2>2. pc'["main"] = "exited" => pc["main"] = "exited"
    BY <1>5 DEF Tick, TickPinned, TickSpread, TickIdle, Advance, LowLoops, LowAcquires,
         LowReleases, HogBursts, HogSleeps, HighAsks, HighAcquires, HighReleases,
         HighStops, Acquire, Release, Sleep, Block, Stops, vars, Threads, Workers
  <2>. QED BY <2>1, <2>2
<1>. QED
  BY <1>1, <1>2, <1>3, <1>4, <1>5
  DEF Next, MainStep, LowStep, HogStep, HighStep, Finished, Workers

\* Neither program concludes anything about an inversion unless all of its threads
\* had the priorities they asked for, whatever the host grants and refuses.
THEOREM NoConclusionWithoutPriorities == Spec => []ConcludesOnlyWithPriorities
<1>1. Init => ConcludedGranted
  BY DEF Init, ConcludedGranted, Threads, Workers
<1>2. IInv /\ ConcludedGranted => ConcludesOnlyWithPriorities
  BY DEF IInv, ConcludedGranted, ConcludesOnlyWithPriorities, TypeOK, Grants, Granted,
         Priority, Workers, Threads
<1>3. IInv /\ ConcludedGranted /\ [Next]_vars => ConcludedGranted'
  BY ConcludedGrantedStep
<1>. QED BY <1>1, <1>2, <1>3, IInvInvariant, PTL DEF Spec

--------------------------------------------------------------------------------
(* fixed.cpp, where the platform supports PTHREAD_PRIO_INHERIT.              *)

\* The hog never has the CPU while the control loop is blocked.
THEOREM HogShutOut ==
  ASSUME Variant = "fixed", \A h \in Hosts : h.inherit
  PROVE  Spec => []HogNeverIntervenes
<1>1. IInv => HogNeverIntervenes
  <2> SUFFICES ASSUME IInv, RealTime
               PROVE  hogTime = 0 /\ worstHogTime = 0
    BY DEF HogNeverIntervenes
  <2>1. Favoured
    BY RealTimeFavours
  <2>2. inherit
    BY DEF IInv, TypeOK, ShutOut, RealTime
  <2>. QED BY <2>1, <2>2 DEF IInv, ShutOut
<1>. QED BY <1>1, IInvInvariant, PTL

\* The control loop waits for one critical section at most.
THEOREM WaitIsBounded ==
  ASSUME Variant = "fixed", \A h \in Hosts : h.inherit
  PROVE  Spec => []WaitBounded
<1>1. LongWaitsAreTheHogs /\ HogNeverIntervenes /\ TypeOK => WaitBounded
  BY DEF LongWaitsAreTheHogs, HogNeverIntervenes, WaitBounded, TypeOK
<1>. QED BY <1>1, LongWaitsExplained, HogShutOut, TypeCorrect, PTL

\* main reads the results when the control loop is done, and then says "bounded".
Concluded ==
  /\ pc["main"] # "setup" => pinned
  /\ pc["main"] = "join_rest" => pc["high"] = "done"
  /\ pc["main"] = "exited" => exitCode \in {0, 3}

LEMMA ConcludedStep ==
  ASSUME Variant = "fixed",
         \A h \in Hosts : h.rtprio >= 90 /\ h.affinity /\ h.inherit,
         IInv, HogNeverIntervenes, LongWaitsAreTheHogs, Concluded, [Next]_vars
  PROVE  Concluded'
<1> USE DEF IInv, TypeOK, Phases, Threads, Workers, At, Goto, Concluded
<1>1. CASE Tick
  BY <1>1 DEF Tick, TickPinned, TickSpread, TickIdle, Advance, environment
<1>2. CASE Setup
  BY <1>2 DEF Setup, results
<1>3. CASE Calibrate
  BY <1>3 DEF Calibrate
<1>4. CASE SpawnLow \/ SpawnMedium \/ SpawnHigh
  BY <1>4 DEF SpawnLow, SpawnMedium, SpawnHigh, environment, results
<1>5. CASE JoinHigh
  <2>1. pc["high"] = "done"
    BY <1>5 DEF JoinHigh, OnCpu, Ready, Joins
  <2>. QED BY <1>5, <2>1 DEF JoinHigh, environment
<1>6. CASE JoinRest
  <2>1. \A t \in Workers : pc[t] = "done"
    BY <1>6 DEF JoinRest, OnCpu, Ready, Joins
  <2>2. \A t \in Workers : Priority[t] <= host.rtprio
    <3>1. host.rtprio \in Nat /\ host.rtprio >= 90
      BY ConstantsAssumption DEF HostType
    <3>. QED BY <3>1 DEF Priority
  <2>3. prio["low"] = 10 /\ prio["medium"] = 50 /\ prio["high"] = 90
    BY <2>1, <2>2 DEF Grants, Priority
  <2>4. g_rt_threads = 3
    BY <2>3 DEF Grants, Granted
  <2>5. g_worst_block_us <= iterations
    BY <1>6, <2>4 DEF JoinRest, HogNeverIntervenes, LongWaitsAreTheHogs, RealTime
  <2>6. iterations <= 2 * kCriticalSection
    BY <1>6 DEF JoinRest, Order
  <2>7. exitCode' = 0
    BY <1>6, <2>4, <2>5, <2>6, ConstantsAssumption DEF JoinRest, FixedVerdict
  <2>. QED BY <1>6, <2>7 DEF JoinRest, environment
<1>7. CASE LowStep \/ HogStep \/ HighStep
  <2>1. UNCHANGED <<environment, exitCode>> /\ pc'["main"] = pc["main"]
    BY <1>7 DEF LowStep, HogStep, HighStep, SetPriority, Block, Stops, LowLoops,
         LowAcquires, LowReleases, HogBursts, HogSleeps, HighAsks, HighAcquires,
         HighReleases, HighStops, Sleep, Acquire, Release, results
  <2>2. pc["high"] = "done" => pc'["high"] = "done"
    BY <1>7 DEF LowStep, HogStep, HighStep, SetPriority, Block, Stops, LowLoops,
         LowAcquires, LowReleases, HogBursts, HogSleeps, HighAsks, HighAcquires,
         HighReleases, HighStops, Sleep, Acquire, Release
  <2>. QED BY <2>1, <2>2 DEF environment
<1>8. CASE UNCHANGED vars
  BY <1>8 DEF vars, environment, results
<1>. QED
  BY <1>1, <1>2, <1>3, <1>4, <1>5, <1>6, <1>7, <1>8 DEF Next, MainStep, Finished

\* On a host that grants all that fixed.cpp asks for, a process that gets past
\* its calibration concludes "bounded", whatever the timing of its threads.
THEOREM FixedConcludes ==
  ASSUME Variant = "fixed",
         \A h \in Hosts : h.rtprio >= 90 /\ h.affinity /\ h.inherit
  PROVE  Spec => []ConcludesBounded
<1>1. Init => Concluded
  BY DEF Init, Concluded, Threads, Workers
<1>2. IInv /\ HogNeverIntervenes /\ LongWaitsAreTheHogs /\ Concluded /\ [Next]_vars
        => Concluded'
  BY ConcludedStep
<1>3. Concluded => ConcludesBounded
  BY DEF Concluded, ConcludesBounded
<1>4. Spec => []HogNeverIntervenes
  BY HogShutOut
<1>. QED
  BY <1>1, <1>2, <1>3, <1>4, IInvInvariant, LongWaitsExplained, PTL DEF Spec

--------------------------------------------------------------------------------
(* How many bursts a wait may take: arithmetic of quotients.                 *)

LEMMA Quotient ==
  ASSUME NEW a \in Nat, NEW k \in Nat \ {0}
  PROVE  /\ a \div k \in Nat
         /\ k * (a \div k) <= a
         /\ a < k * ((a \div k) + 1)
OBVIOUS

LEMMA QuotientGrows ==
  ASSUME NEW a \in Nat, NEW b \in Nat, NEW k \in Nat \ {0}, a <= b
  PROVE  a \div k \in Nat /\ b \div k \in Nat /\ a \div k <= b \div k
BY SMTT(20)

LEMMA QuotientShift ==
  ASSUME NEW a \in Nat, NEW k \in Nat \ {0}
  PROVE  (a + k) \div k = (a \div k) + 1
BY SMTT(20)

LEMMA ProductGrows ==
  ASSUME NEW a \in Nat, NEW b \in Nat, NEW c \in Nat, a <= b
  PROVE  c * a \in Nat /\ c * a <= c * b
BY SMTT(20)

LEMMA OneMore ==
  ASSUME NEW a \in Nat, NEW c \in Nat
  PROVE  c * (a + 1) = c * a + c
BY SMTT(20)

--------------------------------------------------------------------------------
(* The hog's bursts that a wait pays for, with or without inheritance.       *)

\* The CPU time the hog can have before the holder has worked for w more units: it
\* takes what is left of its burst, and a burst at the end of each idle window.
HogAhead(w) ==
  CASE pc["medium"] = "done" -> 0
    [] pc["medium"] = "busy" -> timer["medium"] + kHogBurst * (w \div kHogIdle)
    [] pc["medium"] = "sleep" ->
         IF w < timer["medium"] THEN 0
         ELSE kHogBurst * (((w - timer["medium"]) \div kHogIdle) + 1)
    [] OTHER -> kHogBurst * ((w \div kHogIdle) + 1)

\* A priority in force was granted, and a burst or a sleep is no longer than asked.
HogTimers ==
  /\ \A t \in Workers : prio[t] # 0 => Priority[t] <= host.rtprio
  /\ pc["medium"] = "busy" => timer["medium"] <= kHogBurst
  /\ pc["medium"] = "sleep" => timer["medium"] <= kHogIdle + MaxOversleep
  /\ pc["medium"] \in {"unborn", "start"} => timer["medium"] = 0

\* The holder gets the lock when neither of the others can use the CPU, so it has
\* begun its work before the control loop can ask for the lock.
Fresh ==
  Favoured /\ g_shared = "low" /\ iterations > 0 /\ work >= iterations =>
    /\ pc["high"] \in {"sleep", "done"}
    /\ pc["high"] = "sleep" => timer["high"] > 0
    /\ pc["medium"] # "busy"
    /\ pc["medium"] = "sleep" => timer["medium"] > 0

\* What the wait has taken and what it can still take stay below the bound.
WaitLimit == iterations + kHogBurst * BurstsFor(iterations)

Bursts ==
  Favoured /\ iterations > 0 =>
    /\ wait < WaitLimit
    /\ g_shared = "low" /\ pc["high"] \in {"lock", "blocked"} =>
         wait + work + HogAhead(work) < WaitLimit

BurstsInv == HogTimers /\ Fresh /\ Bursts

LEMMA HogAheadIsNat ==
  ASSUME TypeOK, kHogIdle > 0, NEW w \in Nat
  PROVE  HogAhead(w) \in Nat
<1> USE ConstantsAssumption DEF TypeOK, Threads, Workers
<1>1. timer["medium"] \in Nat
  OBVIOUS
<1>2. \A n \in Nat : n \div kHogIdle \in Nat
  BY Quotient
<1>3. \A n \in Nat : kHogBurst * n \in Nat
  BY ProductGrows
<1>. QED BY <1>1, <1>2, <1>3 DEF HogAhead

LEMMA HogAheadIsNatNext ==
  ASSUME TypeOK', kHogIdle > 0
  PROVE  HogAhead(work)' \in Nat
<1> USE ConstantsAssumption DEF TypeOK, Threads, Workers
<1>1. timer'["medium"] \in Nat /\ work' \in Nat
  OBVIOUS
<1>2. \A n \in Nat : n \div kHogIdle \in Nat
  BY Quotient
<1>3. \A n \in Nat : kHogBurst * n \in Nat
  BY ProductGrows
<1>. QED BY <1>1, <1>2, <1>3 DEF HogAhead

\* At any time the hog is ahead of the holder by one burst more than the windows
\* that fit into the work.
LEMMA HogAheadBound ==
  ASSUME TypeOK, HogTimers, kHogIdle > 0, NEW w \in Nat
  PROVE  HogAhead(w) <= kHogBurst * ((w \div kHogIdle) + 1)
<1> USE ConstantsAssumption DEF TypeOK, Threads, Workers
<1> DEFINE q == w \div kHogIdle
<1>1. q \in Nat /\ kHogBurst * q \in Nat /\ kHogBurst * (q + 1) = kHogBurst * q + kHogBurst
  BY Quotient, ProductGrows, OneMore
<1>2. CASE pc["medium"] = "busy"
  BY <1>1, <1>2 DEF HogAhead, HogTimers
<1>3. CASE pc["medium"] = "sleep" /\ w >= timer["medium"]
  <2>1. w - timer["medium"] \in Nat /\ w - timer["medium"] <= w
    BY <1>3
  <2>2. (w - timer["medium"]) \div kHogIdle \in Nat /\ (w - timer["medium"]) \div kHogIdle <= q
    BY <2>1, Quotient, QuotientGrows
  <2>3. HogAhead(w) = kHogBurst * (((w - timer["medium"]) \div kHogIdle) + 1)
    BY <1>3 DEF HogAhead
  <2> HIDE DEF q
  <2>4. ((w - timer["medium"]) \div kHogIdle) + 1 \in Nat /\ q + 1 \in Nat
        /\ ((w - timer["medium"]) \div kHogIdle) + 1 <= q + 1
    BY <1>1, <2>2
  <2>5. HogAhead(w) <= kHogBurst * (q + 1)
    BY <2>3, <2>4, ProductGrows
  <2>. QED BY <2>5 DEF q
<1>4. CASE pc["medium"] = "sleep" /\ w < timer["medium"]
  BY <1>1, <1>4 DEF HogAhead
<1>5. CASE pc["medium"] = "done"
  BY <1>1, <1>5 DEF HogAhead
<1>6. CASE pc["medium"] \notin {"busy", "sleep", "done"}
  BY <1>1, <1>6 DEF HogAhead
<1>. QED BY <1>2, <1>3, <1>4, <1>5, <1>6

\* When the control loop asks, the hog owes it the bursts of the bound at most.
LEMMA BurstsOfTheBound ==
  ASSUME TypeOK, HogTimers, kHogIdle > 0, work < iterations
  PROVE  HogAhead(work) <= kHogBurst * BurstsFor(iterations)
<1> USE ConstantsAssumption DEF TypeOK
<1>1. iterations - 1 \in Nat /\ work <= iterations - 1
  OBVIOUS
<1>2. BurstsFor(iterations) = ((iterations - 1) \div kHogIdle) + 1
  <2> DEFINE n == iterations - 1
  <2> DEFINE m == iterations + kHogIdle - 1
  <2>1. n \in Nat /\ m \in Nat /\ kHogIdle \in Nat \ {0} /\ m = n + kHogIdle
    BY <1>1
  <2> HIDE DEF n, m
  <2>2. m \div kHogIdle = (n \div kHogIdle) + 1
    BY <2>1, QuotientShift, Zenon
  <2>. QED BY <2>2 DEF m, n, BurstsFor
<1>3. work \div kHogIdle \in Nat /\ (iterations - 1) \div kHogIdle \in Nat
      /\ work \div kHogIdle <= (iterations - 1) \div kHogIdle
  BY <1>1, Quotient, QuotientGrows
<1>4. kHogBurst * ((work \div kHogIdle) + 1) <= kHogBurst * BurstsFor(iterations)
  <2> DEFINE a == work \div kHogIdle
  <2> DEFINE b == (iterations - 1) \div kHogIdle
  <2>1. a \in Nat /\ b \in Nat /\ a <= b
    BY <1>3
  <2> HIDE DEF a, b
  <2>2. a + 1 \in Nat /\ b + 1 \in Nat /\ a + 1 <= b + 1
    BY <2>1
  <2>3. kHogBurst * (a + 1) <= kHogBurst * (b + 1)
    BY <2>2, ProductGrows
  <2>. QED BY <1>2, <2>3 DEF a, b
<1>5. HogAhead(work) <= kHogBurst * ((work \div kHogIdle) + 1)
  BY HogAheadBound
<1>6. /\ HogAhead(work) \in Nat
      /\ kHogBurst * ((work \div kHogIdle) + 1) \in Nat
      /\ kHogBurst * BurstsFor(iterations) \in Nat
  BY <1>2, <1>3, HogAheadIsNat, ProductGrows
<1>. QED BY <1>4, <1>5, <1>6

\* While the holder works, what the hog is ahead does not grow: its sleep gets as
\* much shorter as the work.
LEMMA HolderWorks ==
  ASSUME TypeOK, Phases, kHogIdle > 0, Advance({"low"}), work > 0
  PROVE  HogAhead(work)' <= HogAhead(work)
<1> USE ConstantsAssumption DEF TypeOK, Threads, Workers
<1>1. /\ pc'["medium"] = pc["medium"] /\ work' = work - 1
      /\ timer'["medium"] = IF timer["medium"] > 0 THEN timer["medium"] - 1 ELSE 0
  BY DEF Advance
<1>2. work' \in Nat /\ work \in Nat /\ kHogIdle \in Nat \ {0} /\ work' <= work
  BY <1>1
<1> DEFINE q == work \div kHogIdle
<1> DEFINE r == work' \div kHogIdle
<1>3. q \in Nat /\ r \in Nat /\ r <= q
  BY <1>2, QuotientGrows, Zenon
<1>4. /\ kHogBurst * r \in Nat /\ kHogBurst * q \in Nat
      /\ kHogBurst * r <= kHogBurst * q
      /\ kHogBurst * (r + 1) <= kHogBurst * (q + 1)
  <2> HIDE DEF q, r
  <2>1. r + 1 \in Nat /\ q + 1 \in Nat /\ r + 1 <= q + 1
    BY <1>3
  <2>. QED BY <1>3, <2>1, ProductGrows
<1>5. CASE pc["medium"] = "done"
  BY <1>1, <1>5 DEF HogAhead
<1>6. CASE pc["medium"] = "busy"
  <2>1. HogAhead(work) = timer["medium"] + kHogBurst * q
    BY <1>6 DEF HogAhead
  <2>2. HogAhead(work)' = timer'["medium"] + kHogBurst * r
    BY <1>1, <1>6 DEF HogAhead
  <2> HIDE DEF q, r
  <2>. QED BY <1>1, <1>4, <2>1, <2>2
<1>7. CASE pc["medium"] = "sleep"
  <2>1. CASE timer["medium"] = 0
    <3>1. HogAhead(work) = kHogBurst * (q + 1)
      BY <1>7, <2>1 DEF HogAhead
    <3>2. HogAhead(work)' = kHogBurst * (r + 1)
      BY <1>1, <1>2, <1>7, <2>1 DEF HogAhead
    <3>. QED BY <1>4, <3>1, <3>2
  <2>2. CASE timer["medium"] > 0 /\ work < timer["medium"]
    BY <1>1, <1>7, <2>2 DEF HogAhead
  <2>3. CASE timer["medium"] > 0 /\ work >= timer["medium"]
    <3>1. work' - timer'["medium"] = work - timer["medium"] /\ work' >= timer'["medium"]
      BY <1>1, <2>3
    <3>2. HogAhead(work)' = kHogBurst * (((work - timer["medium"]) \div kHogIdle) + 1)
      BY <1>1, <1>2, <1>7, <3>1 DEF HogAhead
    <3>3. HogAhead(work) = kHogBurst * (((work - timer["medium"]) \div kHogIdle) + 1)
      BY <1>7, <2>3 DEF HogAhead
    <3>4. HogAhead(work) \in Nat
      BY HogAheadIsNat
    <3>. QED BY <3>2, <3>3, <3>4
  <2>. QED BY <2>1, <2>2, <2>3
<1>8. CASE pc["medium"] \in {"unborn", "start"}
  <2>1. HogAhead(work) = kHogBurst * (q + 1)
    BY <1>8 DEF HogAhead
  <2>2. HogAhead(work)' = kHogBurst * (r + 1)
    BY <1>1, <1>8 DEF HogAhead
  <2>. QED BY <1>4, <2>1, <2>2
<1>. QED BY <1>5, <1>6, <1>7, <1>8 DEF Phases

\* What the hog computes it is no longer ahead by.
LEMMA HogWorks ==
  ASSUME TypeOK, kHogIdle > 0, Advance({"medium"}),
         pc["medium"] = "busy", timer["medium"] > 0
  PROVE  HogAhead(work)' = HogAhead(work) - 1
<1> USE ConstantsAssumption DEF TypeOK, Threads, Workers
<1>1. /\ pc'["medium"] = pc["medium"] /\ work' = work
      /\ timer'["medium"] = timer["medium"] - 1
  BY DEF Advance
<1>2. kHogBurst * (work \div kHogIdle) \in Nat
  BY Quotient, ProductGrows
<1>3. HogAhead(work) = timer["medium"] + kHogBurst * (work \div kHogIdle)
  BY DEF HogAhead
<1>4. HogAhead(work)' = timer'["medium"] + kHogBurst * (work \div kHogIdle)
  BY <1>1 DEF HogAhead
<1>. QED BY <1>1, <1>2, <1>3, <1>4

\* No step of the hog that takes no time puts it further ahead: a burst begins when
\* its window is over, and a sleep gives the holder a whole window.
LEMMA HogTurns ==
  ASSUME TypeOK, Phases, HogTimers, kHogIdle > 0,
         HogBursts \/ HogSleeps \/ SetPriority("medium") \/ Stops("medium")
  PROVE  HogAhead(work)' <= HogAhead(work)
<1> USE ConstantsAssumption DEF TypeOK, Threads, Workers, At, Goto
<1>1. work' = work
  BY DEF HogBursts, HogSleeps, SetPriority, Stops, scheduling
<1> DEFINE q == work \div kHogIdle
<1>2. q \in Nat /\ kHogBurst * q \in Nat /\ kHogBurst * (q + 1) = kHogBurst * q + kHogBurst
  BY Quotient, ProductGrows, OneMore
<1>3. HogAhead(work) \in Nat
  BY HogAheadIsNat
<1>4. CASE HogBursts
  <2>1. /\ pc["medium"] = "sleep" /\ timer["medium"] = 0
        /\ pc'["medium"] = "busy" /\ timer'["medium"] = kHogBurst
    BY <1>4 DEF HogBursts, OnCpu, Ready
  <2>2. HogAhead(work) = kHogBurst * (q + 1)
    BY <2>1 DEF HogAhead
  <2>3. HogAhead(work)' = kHogBurst + kHogBurst * q
    BY <1>1, <2>1 DEF HogAhead
  <2>. QED BY <1>2, <2>2, <2>3
<1>5. CASE HogSleeps
  <2>1. /\ pc["medium"] = "busy" /\ timer["medium"] = 0 /\ pc'["medium"] = "sleep"
        /\ timer'["medium"] \in Nat /\ timer'["medium"] >= kHogIdle
    BY <1>5 DEF HogSleeps, Sleep
  <2>2. HogAhead(work) = kHogBurst * q
    BY <1>2, <2>1 DEF HogAhead
  <2>3. CASE work < timer'["medium"]
    BY <1>1, <1>3, <2>1, <2>3 DEF HogAhead
  <2>4. CASE work >= timer'["medium"]
    <3> DEFINE n == work - kHogIdle
    <3> DEFINE m == work - timer'["medium"]
    <3>1. /\ work \in Nat /\ m \in Nat /\ n \in Nat /\ kHogIdle \in Nat \ {0}
          /\ m <= n /\ work = n + kHogIdle
      BY <2>1, <2>4
    <3>2. HogAhead(work)' = kHogBurst * ((m \div kHogIdle) + 1)
      BY <1>1, <2>1, <2>4 DEF HogAhead
    <3> HIDE DEF m, n
    <3>3. q = (n \div kHogIdle) + 1
      BY <3>1, QuotientShift, Zenon
    <3>4. m \div kHogIdle \in Nat /\ m \div kHogIdle <= n \div kHogIdle /\ n \div kHogIdle \in Nat
      BY <3>1, Quotient, QuotientGrows
    <3>5. (m \div kHogIdle) + 1 \in Nat /\ (m \div kHogIdle) + 1 <= q
      <4> HIDE DEF q
      <4>. QED BY <3>3, <3>4
    <3> HIDE DEF q
    <3>6. kHogBurst * ((m \div kHogIdle) + 1) <= kHogBurst * q
      BY <1>2, <3>5, ProductGrows
    <3>. QED BY <2>2, <3>2, <3>6
  <2>. QED BY <2>1, <2>3, <2>4
<1>6. CASE SetPriority("medium")
  <2>1. pc["medium"] = "start" /\ pc'["medium"] = "sleep" /\ timer' = timer
    BY <1>6 DEF SetPriority
  <2>2. HogAhead(work) = kHogBurst * (q + 1)
    BY <2>1 DEF HogAhead
  <2>3. CASE work < timer["medium"]
    BY <1>1, <1>3, <2>1, <2>3 DEF HogAhead
  <2>4. CASE work >= timer["medium"]
    <3> DEFINE m == work - timer["medium"]
    <3>1. m \in Nat /\ m <= work
      BY <2>4
    <3>2. HogAhead(work)' = kHogBurst * ((m \div kHogIdle) + 1)
      BY <1>1, <2>1, <2>4 DEF HogAhead
    <3> HIDE DEF m
    <3>3. m \div kHogIdle \in Nat /\ m \div kHogIdle <= q
      BY <3>1, Quotient, QuotientGrows
    <3> HIDE DEF q
    <3>4. (m \div kHogIdle) + 1 \in Nat /\ q + 1 \in Nat /\ (m \div kHogIdle) + 1 <= q + 1
      BY <1>2, <3>3
    <3>5. kHogBurst * ((m \div kHogIdle) + 1) <= kHogBurst * (q + 1)
      BY <3>4, ProductGrows
    <3>. QED BY <2>2, <3>2, <3>5
  <2>. QED BY <2>1, <2>3, <2>4
<1>7. CASE Stops("medium")
  BY <1>3, <1>7 DEF Stops, HogAhead
<1>. QED BY <1>4, <1>5, <1>6, <1>7

LEMMA HogTimersStep ==
  ASSUME TypeOK, Phases, Order, HogTimers, [Next]_vars
  PROVE  HogTimers'
<1> USE ConstantsAssumption DEF Threads, Workers, HogTimers, TypeOK, Phases, At, Goto
<1>1. CASE Tick
  BY <1>1 DEF Tick, TickPinned, TickSpread, TickIdle, Advance, environment
<1>2. CASE MainStep
  <2>1. UNCHANGED <<host, prio>> /\ timer'["medium"] = timer["medium"]
    BY <1>2 DEF MainStep, Setup, Calibrate, SpawnLow, SpawnMedium, SpawnHigh,
                JoinHigh, JoinRest, scheduling, results, environment
  <2>2. \A t \in Workers : pc'[t] = pc[t] \/ (pc[t] = "unborn" /\ pc'[t] = "start")
    BY <1>2, MainStepSpawns
  <2>. QED BY <2>1, <2>2
<1>3. ASSUME NEW t \in Workers, SetPriority(t)
      PROVE  HogTimers'
  <2>1. UNCHANGED <<host, timer>>
    BY <1>3 DEF SetPriority, environment
  <2>. QED BY <1>3, <2>1 DEF SetPriority, Priority
<1>4. ASSUME NEW t \in Workers, Block(t) \/ Stops(t)
      PROVE  HogTimers'
  BY <1>4 DEF Block, Stops, scheduling, environment
<1>5. CASE LowLoops \/ LowAcquires \/ LowReleases
  BY <1>5 DEF LowLoops, LowAcquires, LowReleases, Acquire, Release, scheduling,
              environment
<1>6. CASE HogBursts \/ HogSleeps
  BY <1>6 DEF HogBursts, HogSleeps, Sleep, environment
<1>7. CASE HighAsks \/ HighAcquires \/ HighReleases \/ HighStops
  BY <1>7 DEF HighAsks, HighAcquires, HighReleases, HighStops, Acquire, Release,
              scheduling, environment
<1>8. CASE UNCHANGED vars
  BY <1>8 DEF vars, scheduling, environment
<1>. QED
  BY <1>1, <1>2, <1>3, <1>4, <1>5, <1>6, <1>7, <1>8
  DEF Next, LowStep, HogStep, HighStep, Finished

\* While the holder can run under SCHED_FIFO, no thread of a lower priority does.
LEMMA HolderOutranks ==
  ASSUME TypeOK, Phases, MutexConsistent, pinned, g_shared = "low", prio["low"] = 10,
         NEW t \in Threads, prio[t] < 10
  PROVE  ~OnCpu(t)
<1> USE DEF TypeOK, Threads, Workers
<1>1. Ready("low")
  BY DEF Ready, Joins, MutexConsistent
<1>2. 10 \in Priorities("low")
  BY DEF Priorities
<1>3. t # "low"
  OBVIOUS
<1>4. \A q \in Priorities(t) : 10 > q
  BY <1>3 DEF Priorities
<1>. QED BY <1>1, <1>2, <1>4 DEF OnCpu, Outranks

\* The holder has its priority if the control loop has, and is past its start.
LEMMA HolderGranted ==
  ASSUME TypeOK, MutexConsistent, Grants, g_shared = "low", host.rtprio >= 90
  PROVE  prio["low"] = 10
<1>1. host.rtprio \in Nat
  BY ConstantsAssumption DEF TypeOK, HostType
<1>2. pc["low"] = "spin"
  BY DEF MutexConsistent
<1>. QED BY <1>1, <1>2 DEF Grants, Priority, Workers

\* A holder whose work is still whole is the only thread that can run.
LEMMA FreshHolderOnly ==
  ASSUME TypeOK, Phases, MutexConsistent, Grants, HogTimers, Fresh,
         Favoured, g_shared = "low", iterations > 0, work >= iterations,
         NEW t \in Threads, t # "low"
  PROVE  ~OnCpu(t)
<1> USE DEF TypeOK, Threads, Workers
<1>1. host.rtprio >= 90
  BY DEF Favoured, Priority, HogTimers
<1>2. prio["low"] = 10
  BY <1>1, HolderGranted
<1>3. CASE t = "high"
  BY <1>3 DEF Fresh, OnCpu, Ready
<1>4. CASE t = "medium"
  <2>1. CASE pc["medium"] \in {"unborn", "start"}
    <3>1. prio["medium"] < 10
      BY <2>1 DEF Grants
    <3>. QED BY <1>2, <1>4, <3>1, HolderOutranks DEF Favoured
  <2>2. CASE pc["medium"] \in {"sleep", "done"}
    BY <1>4, <2>2 DEF Fresh, OnCpu, Ready
  <2>. QED BY <2>1, <2>2 DEF Fresh, Phases
<1>5. CASE t = "main"
  <2>1. prio["main"] < 10
    BY DEF Grants
  <2>. QED BY <1>2, <1>5, <2>1, HolderOutranks DEF Favoured
<1>. QED BY <1>3, <1>4, <1>5

\* The steps of the threads other than the holder's two that matter here.
OtherStep ==
  \/ SpawnLow \/ SpawnMedium \/ SpawnHigh \/ JoinHigh \/ JoinRest
  \/ HogBursts \/ HogSleeps \/ HighAsks \/ HighStops
  \/ \E t \in {"medium", "high"} : SetPriority(t) \/ Block(t) \/ Stops(t)

LEMMA OthersNeedTheCpu ==
  ASSUME OtherStep
  PROVE  \E t \in {"main", "medium", "high"} : OnCpu(t)
BY DEF OtherStep, SpawnLow, SpawnMedium, SpawnHigh, JoinHigh, JoinRest, HogBursts,
       HogSleeps, HighAsks, HighStops, SetPriority, Block, Stops, At

LEMMA FreshStep ==
  ASSUME TypeOK, Phases, Order, MutexConsistent, Grants, Account, HogTimers, Fresh,
         [Next]_vars
  PROVE  Fresh'
<1> USE ConstantsAssumption DEF Threads, Workers, TypeOK, Phases, At, Goto
<1> SUFFICES ASSUME (Favoured /\ g_shared = "low" /\ iterations > 0
                       /\ work >= iterations)'
             PROVE  /\ pc'["high"] \in {"sleep", "done"}
                    /\ pc'["high"] = "sleep" => timer'["high"] > 0
                    /\ pc'["medium"] # "busy"
                    /\ pc'["medium"] = "sleep" => timer'["medium"] > 0
  BY DEF Fresh
<1>1. CASE Tick
  <2>1. PICK R \in SUBSET Threads : ComputingNow(R)
    BY <1>1, TickComputes
  <2>2. UNCHANGED <<pinned, iterations, prio, g_shared, pc>>
    BY <2>1 DEF ComputingNow, Advance, environment
  <2>3. pc["low"] = "spin" /\ Favoured
    BY <2>2 DEF MutexConsistent, Favoured
  <2>4. R # {}
    BY <2>1, <2>3 DEF ComputingNow, Ready, Joins
  <2>5. "low" \in R => work' = work - 1 /\ work > 0
    BY <2>1, <2>3 DEF ComputingNow, Advance, Computing
  <2>6. work >= iterations
    BY <2>1, <2>2, <2>5 DEF ComputingNow, Advance
  <2>7. R = {"low"}
    BY <2>1, <2>2, <2>3, <2>4, <2>6, FreshHolderOnly DEF ComputingNow
  <2>. QED BY <2>2, <2>5, <2>7 DEF Account
<1>2. CASE Setup
  <2>1. pc["low"] = "unborn" /\ UNCHANGED g_shared
    BY <1>2 DEF Setup, Order, scheduling
  <2>. QED BY <2>1 DEF MutexConsistent
<1>3. CASE Calibrate
  <2>1. pc["low"] = "unborn" /\ UNCHANGED g_shared
    BY <1>3 DEF Calibrate, Order, scheduling
  <2>. QED BY <2>1 DEF MutexConsistent
<1>4. CASE OtherStep
  <2>1. PICK t \in {"main", "medium", "high"} : OnCpu(t)
    BY <1>4, OthersNeedTheCpu
  <2>2. UNCHANGED <<host, pinned, iterations, work, g_shared>>
    BY <1>4 DEF OtherStep, SpawnLow, SpawnMedium, SpawnHigh, JoinHigh, JoinRest,
         HogBursts, HogSleeps, HighAsks, HighStops, SetPriority, Block, Stops, Sleep,
         environment, scheduling
  <2>3. CASE prio["high"] = Priority["high"]
    BY <2>1, <2>2, <2>3, FreshHolderOnly DEF Favoured
  <2>4. CASE prio["high"] # Priority["high"]
    <3>1. SetPriority("high")
      BY <1>4, <2>4 DEF OtherStep, SpawnLow, SpawnMedium, SpawnHigh, JoinHigh, JoinRest,
           HogBursts, HogSleeps, HighAsks, HighStops, SetPriority, Block, Stops, Sleep,
           scheduling, Favoured
    <3>2. prio["high"] = 0 /\ host.rtprio >= 90 /\ OnCpu("high")
      BY <2>4, <3>1 DEF SetPriority, Grants, Priority, Favoured
    <3>3. prio["low"] = 10
      BY <2>2, <3>2, HolderGranted
    <3>. QED BY <2>2, <3>2, <3>3, HolderOutranks DEF Favoured
  <2>. QED BY <2>3, <2>4
<1>5. CASE LowAcquires
  <2>1. /\ OnCpu("low") /\ g_shared = "none" /\ UNCHANGED <<host, pinned, prio, timer>>
        /\ pc["low"] = "lock" /\ \A t \in Threads : t # "low" => pc'[t] = pc[t]
    BY <1>5 DEF LowAcquires, Acquire, environment
  <2>2. Favoured
    BY <2>1 DEF Favoured
  <2>3. prio["low"] = 10
    <3>1. host.rtprio >= 90 /\ host.rtprio \in Nat
      BY <2>2, ConstantsAssumption DEF Favoured, Priority, HogTimers, HostType
    <3>. QED BY <2>1, <3>1 DEF Grants, Priority
  <2>4. \A t \in Threads : Priorities(t) = {prio[t]}
    BY <2>1 DEF Priorities
  <2>5. ~Ready("high")
    BY <2>1, <2>2, <2>3, <2>4 DEF OnCpu, Outranks, Favoured, Priority
  <2>6. pc["high"] # "blocked" /\ pc["high"] \notin {"unborn", "start"}
    BY <2>1, <2>2 DEF MutexConsistent, Favoured, Priority, Grants
  <2>7. pc["high"] \in {"sleep", "done"} /\ (pc["high"] = "sleep" => timer["high"] > 0)
    BY <2>5, <2>6 DEF Ready, Joins
  <2>8. pc["medium"] \in {"sleep", "busy"} => ~Ready("medium")
    <3>1. SUFFICES ASSUME pc["medium"] \in {"sleep", "busy"} PROVE ~Ready("medium")
      OBVIOUS
    <3>2. prio["medium"] = 50
      <4>1. host.rtprio >= 90 /\ host.rtprio \in Nat
        BY <2>2, ConstantsAssumption DEF Favoured, Priority, HogTimers, HostType
      <4>. QED BY <3>1, <4>1 DEF Grants, Priority
    <3>. QED BY <2>1, <2>2, <2>3, <2>4, <3>2 DEF OnCpu, Outranks, Favoured
  <2>9. pc["medium"] # "busy" /\ (pc["medium"] = "sleep" => timer["medium"] > 0)
    BY <2>8 DEF Ready, Joins
  <2>. QED BY <2>1, <2>7, <2>9
<1>6. CASE LowLoops \/ Block("low") \/ Stops("low") \/ SetPriority("low")
  <2>1. pc["low"] # "spin" /\ UNCHANGED g_shared
    BY <1>6 DEF LowLoops, Block, Stops, SetPriority, scheduling
  <2>. QED BY <2>1 DEF MutexConsistent
<1>7. CASE LowReleases \/ HighAcquires \/ HighReleases
  BY <1>7 DEF LowReleases, HighAcquires, HighReleases, Acquire, Release
<1>8. CASE UNCHANGED vars
  BY <1>8 DEF vars, scheduling, environment, Fresh, Favoured
<1>. QED
  BY <1>1, <1>2, <1>3, <1>4, <1>5, <1>6, <1>7, <1>8
  DEF Next, MainStep, LowStep, HogStep, HighStep, Finished, OtherStep

LEMMA LimitIsNat ==
  ASSUME TypeOK, kHogIdle > 0
  PROVE  WaitLimit \in Nat
<1> USE ConstantsAssumption DEF TypeOK
<1>1. iterations + kHogIdle - 1 \in Nat
  OBVIOUS
<1>2. BurstsFor(iterations) \in Nat
  BY <1>1, Quotient DEF BurstsFor
<1>3. kHogBurst * BurstsFor(iterations) \in Nat
  BY <1>2, ProductGrows
<1>. QED BY <1>3 DEF WaitLimit

\* A unit of time moves one unit from what is ahead of the control loop to its wait.
LEMMA BurstsTick ==
  ASSUME TypeOK, Phases, MutexConsistent, Grants, HogTimers, Bursts, kHogIdle > 0, Tick
  PROVE  Bursts'
<1> USE ConstantsAssumption DEF TypeOK, Threads, Workers
<1>1. PICK R \in SUBSET Threads : ComputingNow(R)
  BY TickComputes
<1>2. UNCHANGED <<pinned, iterations, pc, prio, g_shared>>
  BY <1>1 DEF ComputingNow, Advance, environment
<1>3. Favoured' = Favoured /\ WaitLimit' = WaitLimit
  BY <1>2 DEF Favoured, WaitLimit, BurstsFor
<1> SUFFICES ASSUME Favoured, iterations > 0
             PROVE  /\ wait' < WaitLimit
                    /\ g_shared = "low" /\ pc["high"] \in {"lock", "blocked"} =>
                         wait' + work' + HogAhead(work)' < WaitLimit
  BY <1>2, <1>3 DEF Bursts
<1>4. wait < WaitLimit /\ TypeOK'
  BY <1>1, ShapeStep DEF Bursts, Next
<1>5. R \subseteq {"low", "medium"}
  BY <1>1 DEF ComputingNow, Computing, Phases
<1>6. CASE pc["high"] \notin {"lock", "blocked", "held"}
  BY <1>1, <1>4, <1>6 DEF ComputingNow, Advance
<1>7. CASE pc["high"] \in {"lock", "held"}
  <2>1. R = {}
    BY <1>1, <1>5, <1>7, ControlLoopFirst DEF ComputingNow
  <2>. QED BY <1>1, <1>7, <2>1 DEF ComputingNow, Ready, Joins
<1>8. CASE pc["high"] = "blocked"
  <2>1. g_shared = "low" /\ pc["low"] = "spin"
    BY <1>8 DEF MutexConsistent
  <2>2. R # {}
    BY <1>1, <2>1 DEF ComputingNow, Ready, Joins
  <2>3. wait + work + HogAhead(work) < WaitLimit
    BY <1>8, <2>1 DEF Bursts
  <2>4. wait' <= wait + 1 /\ wait' \in Nat
    BY <1>1, <1>8 DEF ComputingNow, Advance, Min2
  <2>5. HogAhead(work) \in Nat /\ HogAhead(work)' \in Nat
    BY <1>4, HogAheadIsNat, HogAheadIsNatNext
  <2>6. wait' + work' + HogAhead(work)' < WaitLimit
    <3>1. CASE R = {"low"}
      <4>1. work > 0 /\ work' = work - 1 /\ Advance({"low"})
        BY <1>1, <2>1, <3>1 DEF ComputingNow, Computing, Advance
      <4>2. HogAhead(work)' <= HogAhead(work)
        BY <4>1, HolderWorks
      <4>. QED BY <2>3, <2>4, <2>5, <4>1, <4>2, LimitIsNat
    <3>2. CASE R = {"medium"}
      <4>1. /\ pc["medium"] = "busy" /\ timer["medium"] > 0
            /\ work' = work /\ Advance({"medium"})
        BY <1>1, <3>2 DEF ComputingNow, Computing, Advance, Phases
      <4>2. HogAhead(work)' = HogAhead(work) - 1
        BY <4>1, HogWorks
      <4>. QED BY <2>3, <2>4, <2>5, <4>1, <4>2, LimitIsNat
    <3>. QED BY <1>1, <1>5, <2>2, <3>1, <3>2 DEF ComputingNow, Favoured
  <2>7. wait' < WaitLimit
    BY <1>4, <2>4, <2>5, <2>6, LimitIsNat
  <2>. QED BY <2>6, <2>7
<1>. QED BY <1>6, <1>7, <1>8 DEF Phases

\* Every other step leaves what is ahead as it is or makes it less, except the one
\* in which the control loop asks, when the holder has begun its work.
LEMMA BurstsStep ==
  ASSUME TypeOK, Phases, Order, MutexConsistent, Grants, Account, HogTimers, Fresh,
         Bursts, kHogIdle > 0, [Next]_vars
  PROVE  Bursts'
<1> USE ConstantsAssumption DEF Threads, Workers, TypeOK, Phases, At, Goto
<1> DEFINE Ahead == g_shared = "low" /\ pc["high"] \in {"lock", "blocked"}
<1>1. CASE Tick
  BY <1>1, BurstsTick
<1>2. CASE Setup \/ Calibrate
  <2>1. pc["high"] = "unborn" /\ UNCHANGED prio
    BY <1>2 DEF Setup, Calibrate, Order, scheduling
  <2>. QED BY <2>1 DEF Bursts, Favoured, Grants, Priority
<1>3. TypeOK'
  BY ShapeStep
<1>4. HogAhead(work) \in Nat /\ HogAhead(work)' \in Nat /\ WaitLimit \in Nat
  BY <1>3, HogAheadIsNat, HogAheadIsNatNext, LimitIsNat
\* What is the same in the steps below.
<1>5. ASSUME UNCHANGED <<pinned, iterations, work, prio, wait>>,
             Ahead' => Ahead,
             HogAhead(work)' <= HogAhead(work)
      PROVE  Bursts'
  <2>1. Favoured' = Favoured /\ WaitLimit' = WaitLimit
    BY <1>5 DEF Favoured, WaitLimit, BurstsFor
  <2> SUFFICES ASSUME Favoured, iterations > 0
               PROVE  /\ wait < WaitLimit
                      /\ Ahead' => wait + work + HogAhead(work)' < WaitLimit
    BY <1>5, <2>1 DEF Bursts
  <2>2. wait < WaitLimit /\ (Ahead => wait + work + HogAhead(work) < WaitLimit)
    BY DEF Bursts
  <2>. QED BY <1>4, <1>5, <2>2
<1>6. ASSUME UNCHANGED timer, pc'["medium"] = pc["medium"], UNCHANGED work
      PROVE  HogAhead(work)' <= HogAhead(work)
  BY <1>4, <1>6 DEF HogAhead
<1>7. CASE SpawnLow \/ SpawnMedium \/ SpawnHigh \/ JoinHigh \/ JoinRest
  <2>1. UNCHANGED <<pinned, iterations, work, prio, wait, g_shared>>
    BY <1>7 DEF SpawnLow, SpawnMedium, SpawnHigh, JoinHigh, JoinRest, environment,
                scheduling, results
  <2>2. \A t \in Workers : pc'[t] = pc[t] \/ (pc[t] = "unborn" /\ pc'[t] = "start")
    BY <1>7, MainStepSpawns DEF MainStep
  <2>3. timer'["medium"] = timer["medium"]
    BY <1>7 DEF SpawnLow, SpawnMedium, SpawnHigh, JoinHigh, JoinRest, scheduling
  <2>4. HogAhead(work)' = HogAhead(work)
    BY <2>1, <2>2, <2>3 DEF HogAhead
  <2>. QED BY <1>4, <1>5, <2>1, <2>2, <2>4
<1>8. CASE SetPriority("high")
  <2>1. /\ pc["high"] = "start" /\ pc'["high"] = "sleep"
        /\ UNCHANGED <<pinned, iterations, wait>>
    BY <1>8 DEF SetPriority, environment
  <2>2. wait = 0
    BY <2>1 DEF Account
  <2>3. iterations > 0 => 0 < WaitLimit
    <3>1. iterations + kHogIdle - 1 \in Nat
      OBVIOUS
    <3>2. BurstsFor(iterations) \in Nat
      BY <3>1, Quotient DEF BurstsFor
    <3>3. kHogBurst * BurstsFor(iterations) \in Nat
      BY <3>2, ProductGrows
    <3>. QED BY <3>3 DEF WaitLimit
  <2>4. WaitLimit' = WaitLimit
    BY <2>1 DEF WaitLimit, BurstsFor
  <2>. QED BY <2>1, <2>2, <2>3, <2>4 DEF Bursts
<1>9. CASE SetPriority("low") \/ LowLoops \/ Block("low") \/ Stops("low")
  <2>1. /\ UNCHANGED <<pinned, iterations, work, wait, g_shared, timer>>
        /\ pc'["medium"] = pc["medium"] /\ pc'["high"] = pc["high"]
        /\ prio'["high"] = prio["high"]
    BY <1>9 DEF SetPriority, LowLoops, Block, Stops, environment, scheduling, results
  <2>2. HogAhead(work)' = HogAhead(work)
    BY <2>1 DEF HogAhead
  <2>. QED BY <2>1, <2>2 DEF Bursts, Favoured, WaitLimit, BurstsFor
<1>10. CASE LowAcquires
  <2>1. /\ UNCHANGED <<pinned, iterations, prio, wait>>
        /\ pc'["high"] = pc["high"] /\ g_shared = "none" /\ OnCpu("low")
    BY <1>10 DEF LowAcquires, Acquire, environment, results
  <2>2. pc["high"] # "blocked" /\ (Favoured => pc["high"] # "lock")
    BY <2>1, ControlLoopFirst DEF MutexConsistent
  <2>. QED BY <2>1, <2>2 DEF Bursts, Favoured, WaitLimit, BurstsFor
<1>11. CASE LowReleases \/ HighAcquires
  <2>1. UNCHANGED <<pinned, iterations, prio, wait>> /\ g_shared' \in {"none", "high"}
    BY <1>11 DEF LowReleases, HighAcquires, Acquire, Release, environment, results
  <2>. QED BY <2>1 DEF Bursts, Favoured, WaitLimit, BurstsFor
<1>12. CASE HogBursts \/ HogSleeps \/ Stops("medium")
  <2>1. /\ UNCHANGED <<pinned, iterations, work, prio, wait, g_shared>>
        /\ pc'["high"] = pc["high"]
    BY <1>12 DEF HogBursts, HogSleeps, Sleep, Stops, environment, scheduling, results
  <2>2. HogAhead(work)' <= HogAhead(work)
    BY <1>12, HogTurns
  <2>. QED BY <1>5, <2>1, <2>2
<1>13. CASE SetPriority("medium")
  <2>1. /\ UNCHANGED <<pinned, iterations, work, wait, g_shared>>
        /\ pc'["high"] = pc["high"] /\ prio'["high"] = prio["high"]
    BY <1>13 DEF SetPriority, environment
  <2>2. HogAhead(work)' <= HogAhead(work)
    BY <1>13, HogTurns
  <2>3. Favoured' = Favoured /\ WaitLimit' = WaitLimit
    BY <2>1 DEF Favoured, WaitLimit, BurstsFor
  <2> SUFFICES ASSUME Favoured, iterations > 0
               PROVE  /\ wait < WaitLimit
                      /\ Ahead' => wait + work + HogAhead(work)' < WaitLimit
    BY <2>1, <2>3 DEF Bursts
  <2>4. wait < WaitLimit /\ (Ahead => wait + work + HogAhead(work) < WaitLimit)
    BY DEF Bursts
  <2>. QED BY <1>4, <2>1, <2>2, <2>4
<1>14. CASE Block("high") \/ Stops("high") \/ HighStops \/ UNCHANGED vars
  <2>1. /\ UNCHANGED <<pinned, iterations, work, prio, wait, g_shared, timer>>
        /\ pc'["medium"] = pc["medium"]
        /\ pc'["high"] \in {"lock", "blocked"} => pc["high"] \in {"lock", "blocked"}
    BY <1>14 DEF Block, Stops, HighStops, vars, environment, scheduling, results
  <2>. QED BY <1>5, <1>6, <2>1
<1>15. CASE HighAsks
  <2>1. /\ UNCHANGED <<pinned, iterations, work, prio, g_shared, timer>>
        /\ pc'["medium"] = pc["medium"] /\ wait' = 0
        /\ pc["high"] = "sleep" /\ timer["high"] = 0
    BY <1>15 DEF HighAsks, OnCpu, Ready, environment, scheduling
  <2>2. Favoured' = Favoured /\ WaitLimit' = WaitLimit
    BY <2>1 DEF Favoured, WaitLimit, BurstsFor
  <2> SUFFICES ASSUME Favoured, iterations > 0
               PROVE  /\ 0 < WaitLimit
                      /\ g_shared = "low" => 0 + work + HogAhead(work)' < WaitLimit
    BY <2>1, <2>2 DEF Bursts
  <2>3. kHogBurst * BurstsFor(iterations) \in Nat
    <3>1. iterations + kHogIdle - 1 \in Nat
      OBVIOUS
    <3>2. BurstsFor(iterations) \in Nat
      BY <3>1, Quotient DEF BurstsFor
    <3>. QED BY <3>2, ProductGrows
  <2>4. g_shared = "low" => work < iterations
    BY <2>1 DEF Fresh
  <2>5. g_shared = "low" => HogAhead(work) <= kHogBurst * BurstsFor(iterations)
    BY <2>4, BurstsOfTheBound
  <2>6. HogAhead(work)' <= HogAhead(work)
    BY <1>6, <2>1
  <2>. QED BY <1>4, <2>3, <2>4, <2>5, <2>6 DEF WaitLimit
<1>16. CASE HighReleases
  <2>1. /\ UNCHANGED <<pinned, iterations, prio>> /\ wait' = 0 /\ g_shared' = "none"
    BY <1>16 DEF HighReleases, Release, environment
  <2>2. wait' <= wait
    BY <2>1
  <2>. QED BY <1>4, <2>1, <2>2 DEF Bursts, Favoured, WaitLimit, BurstsFor
<1>. QED
  BY <1>1, <1>2, <1>7, <1>8, <1>9, <1>10, <1>11, <1>12, <1>13, <1>14, <1>15, <1>16
  DEF Next, MainStep, LowStep, HogStep, HighStep, Finished

\* For every length of section, burst and window, every calibration and every host:
\* a wait costs the control loop less than one burst for every idle window that the
\* critical section needs.  (The bound divides by the length of a window.)
THEOREM WaitsPayBursts ==
  ASSUME kHogIdle > 0
  PROVE  Spec => []WaitPaysBursts
<1>1. Init => BurstsInv
  BY ConstantsAssumption DEF Init, BurstsInv, HogTimers, Fresh, Bursts, Favoured,
         Priority, Threads, Workers
<1>2. IInv /\ BurstsInv /\ [Next]_vars => BurstsInv'
  BY HogTimersStep, FreshStep, BurstsStep DEF IInv, BurstsInv
<1>3. IInv /\ BurstsInv => WaitPaysBursts
  BY RealTimeFavours DEF BurstsInv, Bursts, WaitPaysBursts, WaitLimit
<1>. QED BY <1>1, <1>2, <1>3, IInvInvariant, PTL DEF Spec

--------------------------------------------------------------------------------
(* std::mutex: the holder that takes the lock in an idle window of the hog.  *)

\* The critical section is as long as an idle window can be.
LongSection == iterations >= kHogIdle + MaxOversleep

\* In that case the window is over before the work is, and then the hog computes at
\* once.
WindowCloses ==
  section = "window" /\ g_shared = "low" =>
    /\ pc["medium"] \notin {"unborn", "start"}
    /\ LongSection /\ pinned /\ g_running /\ prio["medium"] > prio["low"] =>
         /\ pc["medium"] \in {"sleep", "busy"}
         /\ pc["medium"] = "sleep" => timer["medium"] <= work
         /\ pc["medium"] = "busy" => timer["medium"] > 0

\* Without inheritance a hog that outranks the holder and can use the CPU keeps the
\* holder from it.
LEMMA HogFirst ==
  ASSUME TypeOK, g_shared # "medium", ~inherit, pinned, Ready("medium"),
         prio["medium"] > prio["low"]
  PROVE  ~OnCpu("low")
<1>1. Priorities("medium") = {prio["medium"]} /\ Priorities("low") = {prio["low"]}
  BY DEF Priorities
<1>. QED BY <1>1 DEF OnCpu, Outranks, Threads, Workers

LEMMA WindowStep ==
  ASSUME Variant = "broken", kHogBurst > 0,
         IInv, HogTimers, WindowCloses, [Next]_vars
  PROVE  WindowCloses'
<1> USE ConstantsAssumption
    DEF Threads, Workers, IInv, TypeOK, Phases, WindowCloses, LongSection, At, Goto
<1>1. pinned => ~inherit
  BY DEF ShutOut
<1>2. CASE Tick
  <2>1. PICK R \in SUBSET Threads : ComputingNow(R)
    BY <1>2, TickComputes
  <2>2. UNCHANGED <<pinned, iterations, g_running, prio, g_shared, pc>>
    BY <2>1 DEF ComputingNow, Advance, environment
  <2>3. SUFFICES ASSUME section' = "window", g_shared = "low"
                 PROVE  WindowCloses'
    BY <2>2
  <2>4. "medium" \notin R /\ section = "window"
    BY <2>1, <2>3 DEF ComputingNow, Advance
  <2>5. SUFFICES ASSUME LongSection, pinned, g_running, prio["medium"] > prio["low"]
                 PROVE  /\ pc["medium"] = "sleep" => timer'["medium"] <= work'
                        /\ pc["medium"] = "busy" => timer'["medium"] > 0
    BY <2>2, <2>3, <2>4
  <2>6. pc["low"] = "spin" /\ Ready("low")
    BY <2>3 DEF MutexConsistent, Ready, Joins
  <2>7. R \subseteq {"low"} /\ R # {}
    BY <2>1, <2>4, <2>6 DEF ComputingNow, Computing
  <2>8. OnCpu("low") /\ work > 0 /\ work' = work - 1
    BY <2>1, <2>6, <2>7 DEF ComputingNow, Computing, Advance
  <2>9. ~Ready("medium")
    BY <1>1, <2>5, <2>8, HogFirst
  <2>10. pc["medium"] = "sleep" /\ timer["medium"] > 0
    BY <2>3, <2>4, <2>5, <2>9 DEF Ready, Joins
  <2>11. timer'["medium"] = timer["medium"] - 1
    BY <2>1, <2>10 DEF ComputingNow, Advance
  <2>. QED BY <2>3, <2>4, <2>5, <2>8, <2>10, <2>11
<1>3. CASE Setup \/ Calibrate \/ SpawnLow \/ SpawnMedium
  <2>1. UNCHANGED <<g_shared, section>>
    BY <1>3 DEF Setup, Calibrate, SpawnLow, SpawnMedium, scheduling, history
  <2>2. pc["medium"] = "unborn"
    BY <1>3 DEF Setup, Calibrate, SpawnLow, SpawnMedium, Order
  <2>. QED BY <2>1, <2>2
<1>4. CASE SpawnHigh \/ JoinHigh \/ JoinRest
  <2>1. /\ UNCHANGED <<pinned, iterations, prio, timer, work, g_shared, section>>
        /\ g_running' => g_running
        /\ pc'["medium"] = pc["medium"]
    BY <1>4 DEF SpawnHigh, JoinHigh, JoinRest, environment, scheduling, results, history
  <2>. QED BY <2>1
<1>5. CASE SetPriority("low") \/ LowLoops \/ Stops("low") \/ Block("low")
  <2>1. UNCHANGED g_shared /\ pc["low"] # "spin"
    BY <1>5 DEF SetPriority, LowLoops, Stops, Block, scheduling
  <2>. QED BY <2>1 DEF MutexConsistent
<1>6. CASE LowAcquires
  <2>1. /\ UNCHANGED <<pinned, iterations, g_running, prio, timer>>
        /\ pc'["medium"] = pc["medium"] /\ OnCpu("low") /\ g_shared = "none"
        /\ work' = iterations /\ pc["low"] # "unborn"
        /\ section' = "window" => pc["medium"] \in {"sleep", "busy"}
    BY <1>6 DEF LowAcquires, Acquire, environment, results
  <2>2. SUFFICES ASSUME section' = "window", LongSection, pinned,
                        g_running, prio["medium"] > prio["low"]
                 PROVE  pc["medium"] = "sleep" /\ timer["medium"] <= iterations
    BY <2>1
  <2>3. ~Ready("medium")
    BY <1>1, <2>1, <2>2, HogFirst
  <2>4. pc["medium"] = "sleep"
    BY <2>1, <2>2, <2>3 DEF Ready, Joins
  <2>. QED BY <2>1, <2>2, <2>4 DEF HogTimers
<1>7. CASE LowReleases \/ HighAcquires \/ HighReleases
  BY <1>7 DEF LowReleases, HighAcquires, HighReleases, Acquire, Release
<1>8. CASE SetPriority("medium")
  <2>1. pc["medium"] = "start" /\ UNCHANGED <<g_shared, section>>
    BY <1>8 DEF SetPriority, history
  <2>. QED BY <2>1
<1>9. CASE HogBursts
  <2>1. /\ UNCHANGED <<pinned, iterations, prio, g_running, work, g_shared, section>>
        /\ pc["medium"] = "sleep" /\ pc'["medium"] = "busy" /\ timer'["medium"] = kHogBurst
    BY <1>9 DEF HogBursts, environment, results, history
  <2>. QED BY <2>1
<1>10. CASE HogSleeps
  <2>1. /\ UNCHANGED <<pinned, iterations, prio, g_running, work, g_shared, section>>
        /\ pc["medium"] = "busy" /\ timer["medium"] = 0 /\ pc'["medium"] = "sleep"
    BY <1>10 DEF HogSleeps, Sleep, environment, results, history
  <2>. QED BY <2>1
<1>11. CASE Stops("medium")
  <2>1. /\ UNCHANGED <<g_running, g_shared, section>> /\ ~g_running
        /\ pc'["medium"] = "done"
    BY <1>11 DEF Stops, scheduling, results, history
  <2>. QED BY <2>1
<1>12. CASE \/ SetPriority("high") \/ HighAsks \/ Block("high") \/ HighStops
            \/ UNCHANGED vars
  <2>1. /\ UNCHANGED <<pinned, iterations, g_running, work, timer, g_shared, section>>
        /\ prio'["low"] = prio["low"] /\ prio'["medium"] = prio["medium"]
        /\ pc'["medium"] = pc["medium"]
    BY <1>12 DEF SetPriority, HighAsks, Block, HighStops, vars, environment, scheduling,
         results, history
  <2>. QED BY <2>1
<1>. QED
  BY <1>2, <1>3, <1>4, <1>5, <1>6, <1>7, <1>8, <1>9, <1>10, <1>11, <1>12
  DEF Next, MainStep, LowStep, HogStep, HighStep, Finished

\* The holder is the only one to give the lock back, and it cannot while the hog is
\* ready: at the end of a long section taken in a window the hog has had a burst.
LEMMA ReleaseAfterBurst ==
  ASSUME Variant = "broken", IInv, WindowCloses, [Next]_vars,
         g_shared = "low", g_shared' # "low", section = "window", pinned, g_running,
         prio["medium"] > prio["low"]
  PROVE  ~LongSection
<1> USE DEF IInv, TypeOK, MutexConsistent
<1>1. LowReleases
  <2>1. ~Acquire("low", "spin") /\ ~Acquire("high", "held") /\ ~HighReleases
    BY DEF Acquire, HighReleases, At
  <2>2. Tick \/ MainStep \/ HogStep \/ UNCHANGED vars => UNCHANGED g_shared
    BY DEF Tick, TickPinned, TickSpread, TickIdle, Advance, MainStep, Setup, Calibrate,
         SpawnLow, SpawnMedium, SpawnHigh, JoinHigh, JoinRest, HogStep, SetPriority,
         HogBursts, HogSleeps, Stops, vars, scheduling
  <2>3. \A t \in Workers : SetPriority(t) \/ Block(t) \/ Stops(t) => UNCHANGED g_shared
    BY DEF SetPriority, Block, Stops, scheduling
  <2>4. LowLoops \/ HighAsks \/ HighStops => UNCHANGED g_shared
    BY DEF LowLoops, HighAsks, HighStops, scheduling
  <2>. QED BY <2>1, <2>2, <2>3, <2>4
       DEF Next, LowStep, HighStep, LowAcquires, HighAcquires, Finished, Workers
<1>2. OnCpu("low") /\ work = 0
  BY <1>1 DEF LowReleases, At
<1>3. ~inherit
  BY DEF ShutOut
<1>4. ~Ready("medium")
  BY <1>2, <1>3, HogFirst
<1>. QED
  BY <1>2, <1>4 DEF WindowCloses, Ready, Joins, Threads, Workers

\* For all durations, calibrations and hosts: without inheritance, a holder that
\* takes the lock in an idle window of a hog that outranks it unlocks in the same
\* window only if its section is shorter than a window and its lateness.
THEOREM LongSectionsAreCaught ==
  ASSUME Variant = "broken", kHogBurst > 0
  PROVE  Spec => OnlyShortSectionsEscape
<1> DEFINE Inv == IInv /\ HogTimers /\ WindowCloses
<1>1. Init => Inv
  <2>1. Init => HogTimers /\ WindowCloses
    BY ConstantsAssumption DEF Init, HogTimers, WindowCloses, Threads, Workers
  <2>. QED BY <2>1, InitIInv
<1>2. Inv /\ [Next]_vars => Inv'
  <2> SUFFICES ASSUME Inv, [Next]_vars PROVE Inv'
    OBVIOUS
  <2>1. IInv'
    BY IInvStep
  <2>2. HogTimers'
    BY HogTimersStep DEF IInv
  <2>3. WindowCloses'
    BY WindowStep
  <2>. QED BY <2>1, <2>2, <2>3
<1>3. Inv /\ [Next]_vars =>
        [g_shared = "low" /\ g_shared' # "low" /\ section = "window"
           /\ pinned /\ g_running /\ prio["medium"] > prio["low"] =>
             iterations < kHogIdle + MaxOversleep]_vars
  BY ReleaseAfterBurst, ConstantsAssumption DEF LongSection, IInv, TypeOK
<1>. QED BY <1>1, <1>2, <1>3, PTL DEF Spec, OnlyShortSectionsEscape
====
