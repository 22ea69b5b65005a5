------------------------------- MODULE BoundsCheck -------------------------------
(***************************************************************************)
(* Case 04: a bounds check that adds two ints, and the builds that give    *)
(* the overflow of the sum each their own meaning; against the check that  *)
(* subtracts.  main asks fits a few questions and exits with the answer to *)
(* one of them.  An int has IntMax as its largest value.                   *)
(***************************************************************************)
EXTENDS Integers, Sequences

CONSTANTS IntMax, kBufferSize, kSmall   \* kSmall: the 16 of fits(0, 16)

ASSUME BoundsAssumption ==
  /\ IntMax \in Nat \ {0} /\ kBufferSize \in 1..(IntMax - 1)
  /\ kSmall \in 0..kBufferSize

VARIABLES
  program,              \* which source, how it was built, and whether the guard is in it
  v_offset, v_length,   \* volatile: known at run time only
  report,               \* the lines printed: what was asked and the answer
  diagnosed,            \* 1 once the sanitizer has written its line
  exitCode

vars == <<program, v_offset, v_length, report, diagnosed, exitCode>>

Ints == (-IntMax - 1)..IntMax
Running == -1

Program(source, build, guard) == [source |-> source, build |-> build, guard |-> guard]

\* Only -O2 by itself may take the guard out; the fixed program is one of -O2 too.
Programs ==
  {Program("broken", build, 1) : build \in {"O0", "O2", "ubsan", "fwrapv"}} \cup
  {Program("broken", "O2", 0), Program("fixed", "ubsan", 1)}

--------------------------------------------------------------------------------
(* The two checks.                                                           *)

Overflows(n) == n \notin Ints

\* Two's complement, for the sum or the difference of two ints.
Wrap(n) ==
  IF n > IntMax THEN n - 2 * (IntMax + 1)
  ELSE IF n < -IntMax - 1 THEN n + 2 * (IntMax + 1)
  ELSE n

\* if (end < offset) return false;
Guarded(offset, end) == program.guard = 1 => end >= offset

NonNegative(offset, length) == offset >= 0 /\ length >= 0

\* Mutant of FitsBroken: the signs are left to the guard.
FitsBrokenUnsigned(offset, length) ==
  /\ Guarded(offset, Wrap(offset + length))
  /\ Wrap(offset + length) <= kBufferSize

FitsBroken(offset, length) ==
  /\ NonNegative(offset, length)
  /\ Guarded(offset, Wrap(offset + length))
  /\ Wrap(offset + length) <= kBufferSize

\* Mutant of FitsFixed: nothing fits at the end of the buffer, not even nothing.
FitsFixedShort(offset, length) ==
  /\ NonNegative(offset, length)
  /\ offset < kBufferSize
  /\ length <= Wrap(kBufferSize - offset)

FitsFixed(offset, length) ==
  /\ NonNegative(offset, length)
  /\ offset <= kBufferSize
  /\ length <= Wrap(kBufferSize - offset)

fits(offset, length) ==
  IF program.source = "broken" THEN FitsBroken(offset, length)
                               ELSE FitsFixed(offset, length)

\* Mutant of Evaluates: the subtraction comes before the tests that protect it.
EvaluatesAtOnce(offset, length) ==
  IF program.source = "broken"
    THEN IF NonNegative(offset, length) THEN {offset + length} ELSE {}
    ELSE {kBufferSize - offset}

\* The sum or difference that the check comes to compute, if it comes so far.
Evaluates(offset, length) ==
  IF ~NonNegative(offset, length) THEN {}
  ELSE IF program.source = "broken" THEN {offset + length}
  ELSE IF offset <= kBufferSize THEN {kBufferSize - offset} ELSE {}

--------------------------------------------------------------------------------
(* main                                                                      *)

Question(offset, length) == [offset |-> offset, length |-> length]

Questions ==
  IF program.source = "broken"
    THEN <<Question(0, kSmall), Question(v_offset, v_length)>>
    ELSE <<Question(0, kSmall), Question(v_offset, v_length),
           Question(kBufferSize, 0), Question(kBufferSize - 1, 1),
           Question(kBufferSize - 1, 2), Question(kBufferSize, 1)>>

Init ==
  /\ program \in Programs
  /\ v_offset \in Ints /\ v_length \in Ints
  /\ report = <<>> /\ diagnosed = 0 /\ exitCode = Running

Line(q) == [offset |-> q.offset, length |-> q.length,
            answer |-> IF fits(q.offset, q.length) THEN "yes" ELSE "no"]

\* -fsanitize=undefined writes a line and lets the program go on.
Diagnoses(q) ==
  /\ program.build = "ubsan"
  /\ \E n \in Evaluates(q.offset, q.length) : Overflows(n)

Ask ==
  /\ exitCode = Running /\ Len(report) < Len(Questions)
  /\ LET q == Questions[Len(report) + 1] IN
       /\ report' = Append(report, Line(q))
       /\ diagnosed' = IF Diagnoses(q) THEN 1 ELSE diagnosed
  /\ UNCHANGED <<program, v_offset, v_length, exitCode>>

\* return huge ? 1 : 0
Return ==
  /\ exitCode = Running /\ Len(report) = Len(Questions)
  /\ exitCode' = IF report[2].answer = "yes" THEN 1 ELSE 0
  /\ UNCHANGED <<program, v_offset, v_length, report, diagnosed>>

Finished == exitCode # Running /\ UNCHANGED vars

Next == Ask \/ Return \/ Finished

Spec == Init /\ [][Next]_vars

--------------------------------------------------------------------------------
(* Properties                                                                *)

TypeOK ==
  /\ program \in Programs
  /\ v_offset \in Ints /\ v_length \in Ints
  /\ report \in Seq([offset : Ints, length : Ints, answer : {"yes", "no"}])
  /\ Len(report) <= Len(Questions)
  /\ diagnosed \in {0, 1}
  /\ exitCode \in {Running, 0, 1}

\* What the check is for: a write that begins and ends inside the buffer.
InBuffer(offset, length) ==
  offset >= 0 /\ length >= 0 /\ offset + length <= kBufferSize

\* The sum of the two is not an int.
TooLarge(offset, length) == offset >= 0 /\ length >= 0 /\ offset + length > IntMax

Says(line, answer) == line.answer = "yes" <=> answer

\* The subtracting check answers every question as arithmetic does, the size of the
\* buffer and its neighbours included (case 04 fixed.cpp:5-8, 65-66).  So does the
\* adding one with its guard in place: the debug build, -fwrapv and the sanitizer hide
\* the bug (case 04 README, "The sanitizer also hides the bug").
GuardedDecides ==
  program.guard = 1 =>
    \A i \in DOMAIN report :
      Says(report[i], InBuffer(report[i].offset, report[i].length))

\* Without it the check is wrong exactly where the sum overflows, and then it always
\* accepts: no test with a sum that is an int tells the builds apart (case 04
\* broken.cpp:7-11).
WrongExactlyOnOverflow ==
  program.source = "broken" /\ program.guard = 0 =>
    \A i \in DOMAIN report :
      LET offset == report[i].offset  length == report[i].length IN
      Says(report[i], InBuffer(offset, length) \/ TooLarge(offset, length))

\* The sanitizer names the questions that another build would get wrong: it is
\* silent on the fixed program whatever is asked, and speaks of the broken one
\* exactly when a sum overflowed (case 04 README, "UBSan names it exactly").
DiagnosisIsExact ==
  diagnosed = 1 <=>
    /\ program.source = "broken" /\ program.build = "ubsan"
    /\ \E i \in DOMAIN report : TooLarge(report[i].offset, report[i].length)
====
