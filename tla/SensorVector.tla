------------------------------- MODULE SensorVector -------------------------------
(***************************************************************************)
(* Case 03: a vector of sensors that is filled after a reference to its    *)
(* first element has been taken (broken.cpp) or its index noted            *)
(* (fixed.cpp), and the use of either once the vector is full.  Storage is *)
(* a numbered buffer: the vector owns the last one, and those before it    *)
(* are freed.  How far a full vector grows is the library's choice.        *)
(***************************************************************************)
EXTENDS Integers, Sequences

CONSTANTS
  Configured,        \* how many sensors the loop may add: 64 in the program
  MaxCapacity        \* bounds what the library allocates

ASSUME SensorAssumption ==
  /\ Configured \subseteq Nat /\ MaxCapacity \in Nat
  /\ \A n \in Configured : n + 1 < MaxCapacity

VARIABLES
  variant, asan, configured,    \* which program, built with ASan (1) or not (0)
  sensors, capacity, buffer,    \* the vector; sensor 0 is the temperature
  first,                        \* the buffer that the reference points into
  room,                         \* for properties: the capacity when it was taken
  printed, exitCode

vars == <<variant, asan, configured, sensors, capacity, buffer, first, room,
          printed, exitCode>>

None == -1
Garbage == -2
Running == -1
Crashed == 139

--------------------------------------------------------------------------------

Init ==
  /\ variant \in {"broken", "fixed"} /\ asan \in {0, 1}
  /\ configured \in Configured
  /\ sensors = <<>> /\ capacity = 0 /\ buffer = 0
  /\ first = None /\ room = 0
  /\ printed = None /\ exitCode = Running

\* libstdc++ begins with one and doubles; the standard asks for no more than this.
Grown == (capacity + 1)..MaxCapacity

\* Mutant of PushBack: the vector moves once its buffer is full but for one.
PushBackEager(s) ==
  /\ sensors' = Append(sensors, s)
  /\ IF Len(sensors) + 1 < capacity
       THEN UNCHANGED <<capacity, buffer>>
       ELSE capacity' \in Grown /\ buffer' = buffer + 1

\* push_back: a full vector moves to a larger buffer and frees the one it had.
PushBack(s) ==
  /\ sensors' = Append(sensors, s)
  /\ IF Len(sensors) < capacity
       THEN UNCHANGED <<capacity, buffer>>
       ELSE capacity' \in Grown /\ buffer' = buffer + 1

\* sensors.push_back({"temperature", 21.5})
PushFirst ==
  /\ sensors = <<>> /\ PushBack(0)
  /\ UNCHANGED <<variant, asan, configured, first, room, printed, exitCode>>

\* Sensor& first = sensors.front(); the fixed program notes the index 0 instead, and
\* has no reference before it prints.
TakeFirst ==
  /\ Len(sensors) = 1 /\ room = 0
  /\ first' = (IF variant = "broken" THEN buffer ELSE None)
  /\ room' = capacity
  /\ UNCHANGED <<variant, asan, configured, sensors, capacity, buffer, printed, exitCode>>

\* Mutant of Filled: the loop ends a round early.
FilledEarly == room # 0 /\ Len(sensors) >= configured

Filled == room # 0 /\ Len(sensors) > configured

\* One round of the loop.
PushAux ==
  /\ room # 0 /\ ~Filled
  /\ PushBack(Len(sensors))
  /\ UNCHANGED <<variant, asan, configured, first, room, printed, exitCode>>

\* Mutant of Refetched: the index is not looked up again after the loop.
RefetchedEarly == IF variant = "fixed" THEN 1 ELSE first

\* const Sensor& first = sensors[first_index]
Refetched == IF variant = "fixed" THEN buffer ELSE first

\* printf reads the sensor that the reference points to: what is in the vector, or in
\* freed memory, where ASan stops the program and nothing else is certain.
UseFirst ==
  /\ Filled /\ exitCode = Running
  /\ first' = Refetched
  /\ \/ first' = buffer /\ printed' = sensors[1] /\ exitCode' = 0
     \/ first' # buffer /\ asan = 1 /\ printed' = None /\ exitCode' = 1
     \/ first' # buffer /\ asan = 0 /\ printed' \in {Garbage, 0} /\ exitCode' = 0
     \/ first' # buffer /\ asan = 0 /\ printed' = None /\ exitCode' = Crashed
  /\ UNCHANGED <<variant, asan, configured, sensors, capacity, buffer, room>>

Finished == exitCode # Running /\ UNCHANGED vars

Next == PushFirst \/ TakeFirst \/ PushAux \/ UseFirst \/ Finished

Spec == Init /\ [][Next]_vars

--------------------------------------------------------------------------------
(* Properties                                                                *)

TypeOK ==
  /\ variant \in {"broken", "fixed"} /\ asan \in {0, 1} /\ configured \in Configured
  /\ sensors \in Seq(Nat) /\ Len(sensors) <= configured + 1
  /\ capacity \in Nat /\ Len(sensors) <= capacity
  /\ buffer \in Nat /\ first \in {None} \cup 1..buffer
  /\ room \in Nat
  /\ printed \in {None, Garbage, 0} /\ exitCode \in {Running, 0, 1, Crashed}

\* The reference dangles once the vector holds more than it had room for when the
\* reference was taken, and not before, however the library grows it: that is why
\* the bug "only shows up with a lot of sensors" (case 03 broken.cpp:30-34).
DanglesIffOutgrown ==
  variant = "broken" /\ room # 0 => (first # buffer <=> Len(sensors) > room)

\* The index survives every move, and so does the reference if there was room for
\* all: the first sensor is printed, and not another one or nothing (case 03
\* fixed.cpp:35-43, and README, "That works, and it is the wrong fix").
PrintsFirstUnlessOutgrown ==
  exitCode # Running /\ (variant = "fixed" \/ configured + 1 <= room) =>
    printed = 0 /\ exitCode = 0

\* ASan stops exactly the program whose vector has outgrown the reference, so that
\* its silence says that no move came between the two (run-all.sh:159-162).
AsanIsExact ==
  exitCode # Running /\ asan = 1 =>
    (exitCode = 1 <=> variant = "broken" /\ configured + 1 > room)
====
