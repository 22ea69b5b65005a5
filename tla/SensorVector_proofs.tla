---------------------------- MODULE SensorVector_proofs ----------------------------
(***************************************************************************)
(* A reference into a vector, for every number of sensors and every way a  *)
(* library may grow.  The invariant compares three numbers: the sensors in *)
(* the vector, its capacity, and the capacity when the reference was       *)
(* taken.  A vector that has moved never has that capacity again.          *)
(***************************************************************************)
EXTENDS SensorVector, TLAPS

\* The first sensor keeps its place.
FirstInPlace ==
  /\ sensors # <<>> => sensors[1] = 0
  /\ capacity >= 1 => buffer >= 1
  /\ room # 0 => sensors # <<>>
  /\ room = 0 => first = None /\ exitCode = Running

\* The reference, the buffers and the capacities.
Grip ==
  variant = "broken" /\ room # 0 =>
    /\ first \in 1..buffer /\ room <= capacity
    /\ first = buffer <=> capacity = room
    /\ first = buffer <=> Len(sensors) <= room

\* The outcome, in each of the ways that printf may go.
Outcome ==
  exitCode # Running =>
    /\ Filled
    /\ variant = "fixed" => first = buffer
    /\ first = buffer => printed = 0 /\ exitCode = 0
    /\ first # buffer /\ asan = 1 => exitCode = 1

Inv == TypeOK /\ FirstInPlace /\ Grip /\ Outcome

LEMMA ConfiguredNat == \A n \in Configured : n \in Nat
BY SensorAssumption

LEMMA InvInit == Init => Inv
BY ConfiguredNat
DEF Init, Inv, TypeOK, FirstInPlace, Grip, Outcome, None, Garbage, Running

\* Whatever the library chooses, a vector that has moved is larger than before.
LEMMA GrowsStrictly ==
  ASSUME TypeOK, NEW c \in Grown
  PROVE  c \in Nat /\ c > capacity
BY SensorAssumption DEF TypeOK, Grown

\* What push_back does to the vector.
Pushed(s) ==
  /\ sensors' \in Seq(Nat) /\ Len(sensors') = Len(sensors) + 1
  /\ sensors'[1] = IF sensors = <<>> THEN s ELSE sensors[1]
  /\ sensors' # <<>>
  /\ \/ /\ Len(sensors) < capacity /\ UNCHANGED <<capacity, buffer>>
     \/ /\ Len(sensors) = capacity
        /\ capacity' \in Nat /\ capacity' > capacity /\ buffer' = buffer + 1

LEMMA PushBackPushes ==
  ASSUME TypeOK, NEW s \in Nat, PushBack(s)
  PROVE  Pushed(s)
<1>1. /\ sensors \in Seq(Nat) /\ sensors' = Append(sensors, s)
      /\ Len(sensors) <= capacity /\ capacity \in Nat
  BY DEF TypeOK, PushBack
<1>2. /\ sensors' \in Seq(Nat) /\ Len(sensors') = Len(sensors) + 1
      /\ sensors'[1] = IF sensors = <<>> THEN s ELSE sensors[1]
      /\ sensors' # <<>>
  BY <1>1
<1>3. Len(sensors) < capacity \/ Len(sensors) = capacity
  BY <1>1
<1>4. Len(sensors) = capacity => capacity' \in Grown /\ buffer' = buffer + 1
  BY <1>1 DEF PushBack
<1>5. Len(sensors) < capacity => UNCHANGED <<capacity, buffer>>
  BY DEF PushBack
<1>. QED BY <1>2, <1>3, <1>4, <1>5, GrowsStrictly DEF Pushed

LEMMA PushStep ==
  ASSUME Inv, NEW s \in Nat, Pushed(s), sensors = <<>> => s = 0,
         Len(sensors) <= configured, room # 0 \/ sensors = <<>>, exitCode = Running,
         UNCHANGED <<variant, asan, configured, first, room, printed, exitCode>>
  PROVE  Inv'
<1>1. /\ Len(sensors) \in Nat /\ capacity \in Nat /\ buffer \in Nat /\ room \in Nat
      /\ configured \in Nat /\ first \in {None} \cup 1..buffer
  BY ConfiguredNat DEF Inv, TypeOK
<1>2. buffer' \in {buffer, buffer + 1} /\ capacity' \in Nat /\ Len(sensors') <= capacity'
  BY <1>1 DEF Pushed, Inv, TypeOK
<1>3. TypeOK'
  <2>1. first' \in {None} \cup 1..buffer' /\ buffer' \in Nat
    <3>1. first' = first /\ buffer' \in Nat /\ buffer <= buffer'
      BY <1>1, <1>2
    <3>2. first # None => first \in 1..buffer
      BY <1>1
    <3>. QED BY <1>1, <3>1, <3>2
  <2>2. sensors' \in Seq(Nat) /\ Len(sensors') <= configured' + 1
    BY <1>1 DEF Pushed
  <2>. QED BY <1>2, <2>1, <2>2 DEF Inv, TypeOK
<1>4. FirstInPlace'
  <2>1. sensors'[1] = 0 /\ sensors' # <<>>
    BY DEF Pushed, Inv, FirstInPlace
  <2>2. capacity' >= 1 => buffer' >= 1
    BY <1>1 DEF Pushed, Inv, FirstInPlace
  <2>. QED BY <2>1, <2>2 DEF Inv, FirstInPlace
<1>5. Grip'
  <2>. SUFFICES ASSUME variant = "broken", room # 0
                PROVE  /\ first \in 1..buffer' /\ room <= capacity'
                       /\ first = buffer' <=> capacity' = room
                       /\ first = buffer' <=> Len(sensors') <= room
    BY DEF Grip
  <2>1. /\ first \in 1..buffer /\ room <= capacity
        /\ first = buffer <=> capacity = room
        /\ first = buffer <=> Len(sensors) <= room
    BY DEF Inv, Grip
  <2>2. Len(sensors') = Len(sensors) + 1
    BY DEF Pushed
  <2>3. CASE Len(sensors) < capacity /\ UNCHANGED <<capacity, buffer>>
    BY <1>1, <2>1, <2>2, <2>3
  <2>4. CASE /\ Len(sensors) = capacity
             /\ capacity' \in Nat /\ capacity' > capacity /\ buffer' = buffer + 1
    BY <1>1, <2>1, <2>2, <2>4
  <2>. QED BY <2>3, <2>4 DEF Pushed
<1>. QED BY <1>3, <1>4, <1>5 DEF Inv, Outcome

LEMMA TakeStep ==
  ASSUME Inv, TakeFirst
  PROVE  Inv'
<1>1. /\ Len(sensors) = 1 /\ sensors # <<>> /\ capacity \in Nat /\ capacity >= 1
      /\ buffer \in Nat /\ buffer >= 1 /\ exitCode = Running
  BY DEF TakeFirst, Inv, TypeOK, FirstInPlace
<1>2. /\ first' = (IF variant = "broken" THEN buffer ELSE None)
      /\ room' = capacity
      /\ UNCHANGED <<variant, asan, configured, sensors, capacity, buffer, printed, exitCode>>
  BY DEF TakeFirst
<1>3. TypeOK'
  <2>1. first' \in {None} \cup 1..buffer
    BY <1>1, <1>2
  <2>. QED BY <1>1, <1>2, <2>1 DEF Inv, TypeOK
<1>4. FirstInPlace'
  BY <1>1, <1>2 DEF Inv, FirstInPlace
<1>5. Grip'
  <2>1. variant = "broken" => first' \in 1..buffer /\ first' = buffer
    BY <1>1, <1>2
  <2>2. Len(sensors) <= capacity
    BY DEF Inv, TypeOK
  <2>3. /\ variant' = variant /\ capacity' = capacity /\ buffer' = buffer
        /\ sensors' = sensors /\ room' = capacity
    BY <1>2
  <2>4. variant = "broken" =>
          /\ first' \in 1..buffer /\ capacity <= capacity
          /\ first' = buffer <=> capacity = capacity
          /\ first' = buffer <=> Len(sensors) <= capacity
    BY <1>1, <2>1, <2>2
  <2>. QED BY <2>3, <2>4 DEF Grip
<1>6. Outcome'
  BY <1>1, <1>2 DEF Outcome
<1>. QED BY <1>3, <1>4, <1>5, <1>6 DEF Inv

LEMMA UseStep ==
  ASSUME Inv, UseFirst
  PROVE  Inv'
<1>1. /\ room # 0 /\ sensors[1] = 0 /\ variant \in {"broken", "fixed"}
      /\ buffer \in Nat /\ buffer >= 1 /\ first \in {None} \cup 1..buffer
  <2>1. room # 0 /\ sensors # <<>> /\ sensors[1] = 0
    BY DEF UseFirst, Filled, Inv, FirstInPlace
  <2>2. sensors \in Seq(Nat) /\ Len(sensors) <= capacity /\ capacity \in Nat
    BY DEF Inv, TypeOK
  <2>3. capacity >= 1
    BY <2>1, <2>2
  <2>. QED BY <2>1, <2>3 DEF Inv, FirstInPlace, TypeOK
<1>2. /\ variant = "broken" => first' = first
      /\ variant = "fixed" => first' = buffer
      /\ first' \in {None} \cup 1..buffer
  BY <1>1 DEF UseFirst, Refetched
<1>3. UNCHANGED <<variant, asan, configured, sensors, capacity, buffer, room>> /\ Filled
  BY DEF UseFirst
<1>4. /\ first' = buffer => printed' = 0 /\ exitCode' = 0
      /\ first' # buffer /\ asan = 1 => exitCode' = 1
      /\ printed' \in {None, Garbage, 0} /\ exitCode' \in {0, 1, Crashed}
  BY <1>1 DEF UseFirst
<1>5. TypeOK'
  BY <1>2, <1>3, <1>4 DEF Inv, TypeOK
<1>6. FirstInPlace'
  BY <1>1, <1>3 DEF Inv, FirstInPlace
<1>7. Grip'
  BY <1>1, <1>2, <1>3 DEF Inv, Grip
<1>8. Outcome'
  BY <1>1, <1>2, <1>3, <1>4 DEF Outcome, Filled
<1>. QED BY <1>5, <1>6, <1>7, <1>8 DEF Inv

LEMMA InvInvariant == Spec => []Inv
<1>1. ASSUME Inv, PushFirst PROVE Inv'
  <2>1. sensors = <<>> /\ Len(sensors) = 0 /\ PushBack(0)
    BY <1>1 DEF PushFirst
  <2>2. Pushed(0)
    BY <1>1, <2>1, PushBackPushes DEF Inv
  <2>3. exitCode = Running
    BY <1>1, <2>1 DEF Inv, FirstInPlace
  <2>4. Len(sensors) <= configured
    <3>1. configured \in Nat
      BY <1>1, ConfiguredNat DEF Inv, TypeOK
    <3>. QED BY <2>1, <3>1
  <2>. QED BY <1>1, <2>1, <2>2, <2>3, <2>4, PushStep DEF PushFirst
<1>2. ASSUME Inv, PushAux PROVE Inv'
  <2>1. Len(sensors) \in Nat /\ configured \in Nat
    BY <1>2, ConfiguredNat DEF Inv, TypeOK
  <2>2. Pushed(Len(sensors))
    BY <1>2, <2>1, PushBackPushes DEF PushAux, Inv
  <2>3. room # 0 /\ sensors # <<>> /\ Len(sensors) <= configured /\ exitCode = Running
    BY <1>2, <2>1 DEF PushAux, Filled, Inv, FirstInPlace, Outcome
  <2>. QED BY <1>2, <2>1, <2>2, <2>3, PushStep DEF PushAux
<1>3. ASSUME Inv, UNCHANGED vars PROVE Inv'
  BY <1>3 DEF vars, Inv, TypeOK, FirstInPlace, Grip, Outcome, Filled
<1>4. Inv /\ [Next]_vars => Inv'
  BY <1>1, <1>2, <1>3, TakeStep, UseStep DEF Next, Finished
<1>. QED BY <1>4, InvInit, PTL DEF Spec

--------------------------------------------------------------------------------
(* The theorems.                                                             *)

\* Types hold, and the vector never holds more than its buffer does.
THEOREM TypeCorrect == Spec => []TypeOK
<1>1. Inv => TypeOK
  BY DEF Inv
<1>. QED BY <1>1, InvInvariant, PTL

\* The reference dangles exactly when the vector holds more than it had room for.
THEOREM DanglesOnlyThen == Spec => []DanglesIffOutgrown
<1>1. Inv => DanglesIffOutgrown
  <2>. SUFFICES ASSUME Inv, variant = "broken", room # 0
                PROVE  first # buffer <=> Len(sensors) > room
    BY DEF DanglesIffOutgrown
  <2>1. Len(sensors) \in Nat /\ room \in Nat
    BY DEF Inv, TypeOK
  <2>. QED BY <2>1 DEF Inv, Grip
<1>. QED BY <1>1, InvInvariant, PTL

\* At the end the vector holds the first sensor and all that are configured.
LEMMA AllAreIn ==
  ASSUME Inv, exitCode # Running
  PROVE  /\ Len(sensors) = configured + 1 /\ room # 0 /\ room \in Nat
         /\ variant = "broken" => (first = buffer <=> configured + 1 <= room)
<1>1. /\ Len(sensors) \in Nat /\ configured \in Nat /\ room \in Nat
      /\ Len(sensors) <= configured + 1
  BY ConfiguredNat DEF Inv, TypeOK
<1>2. room # 0 /\ Len(sensors) > configured
  BY DEF Inv, Outcome, Filled
<1>. QED BY <1>1, <1>2 DEF Inv, Grip

\* An index survives whatever the library does, and a reference if there is room.
THEOREM IndexSurvives == Spec => []PrintsFirstUnlessOutgrown
<1>1. Inv => PrintsFirstUnlessOutgrown
  BY AllAreIn DEF PrintsFirstUnlessOutgrown, Inv, Outcome, TypeOK
<1>. QED BY <1>1, InvInvariant, PTL

\* ASan stops the broken program whose vector has moved, and no other.
THEOREM AsanSeesEveryMove == Spec => []AsanIsExact
<1>1. Inv => AsanIsExact
  <2>. SUFFICES ASSUME Inv, exitCode # Running, asan = 1
                PROVE  exitCode = 1 <=> variant = "broken" /\ configured + 1 > room
    BY DEF AsanIsExact
  <2>1. exitCode = 1 <=> first # buffer
    BY DEF Inv, Outcome
  <2>2. configured \in Nat /\ room \in Nat /\ variant \in {"broken", "fixed"}
    BY ConfiguredNat DEF Inv, TypeOK
  <2>3. variant = "fixed" => first = buffer
    BY DEF Inv, Outcome
  <2>. QED BY <2>1, <2>2, <2>3, AllAreIn
<1>. QED BY <1>1, InvInvariant, PTL
====
