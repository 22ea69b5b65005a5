---------------------------- MODULE BoundsCheck_proofs ----------------------------
(***************************************************************************)
(* What the checks of case 04 answer, for ints and buffers of every size.  *)
(* The answers are compared with arithmetic first, one lemma for each kind *)
(* of program; the invariant then says that the report has the answers to  *)
(* the questions in their order.                                           *)
(***************************************************************************)
EXTENDS BoundsCheck, SequenceTheorems, TLAPS

LEMMA SizesAreInts ==
  /\ IntMax \in Nat /\ kBufferSize \in Nat /\ kSmall \in Nat
  /\ kBufferSize >= 1 /\ kBufferSize < IntMax /\ kSmall <= kBufferSize
BY BoundsAssumption

\* The sum of two ints that are not negative wraps to a negative one or not at all.
LEMMA WrappedSum ==
  ASSUME NEW a \in Ints, NEW b \in Ints, NonNegative(a, b)
  PROVE  /\ ~TooLarge(a, b) => Wrap(a + b) = a + b
         /\ TooLarge(a, b) => Wrap(a + b) < 0 /\ Wrap(a + b) \in Int
BY SizesAreInts DEF Ints, NonNegative, TooLarge, Wrap

LEMMA GuardedFits ==
  ASSUME NEW a \in Ints, NEW b \in Ints, program.guard = 1
  PROVE  FitsBroken(a, b) <=> InBuffer(a, b)
<1>1. CASE ~NonNegative(a, b)
  BY <1>1 DEF NonNegative, FitsBroken, InBuffer
<1>2. CASE NonNegative(a, b)
  <2>1. /\ ~TooLarge(a, b) => Wrap(a + b) = a + b
        /\ TooLarge(a, b) => Wrap(a + b) < 0 /\ Wrap(a + b) \in Int
    BY <1>2, WrappedSum
  <2>2. a \in Nat /\ b \in Nat /\ (TooLarge(a, b) <=> a + b > IntMax)
    BY <1>2 DEF NonNegative, Ints, TooLarge
  <2>3. CASE TooLarge(a, b)
    BY <1>2, <2>1, <2>2, <2>3, SizesAreInts DEF FitsBroken, Guarded, InBuffer
  <2>4. CASE ~TooLarge(a, b)
    BY <1>2, <2>1, <2>2, <2>4, SizesAreInts DEF FitsBroken, Guarded, InBuffer, NonNegative
  <2>. QED BY <2>3, <2>4
<1>. QED BY <1>1, <1>2

LEMMA UnguardedFits ==
  ASSUME NEW a \in Ints, NEW b \in Ints, program.guard = 0
  PROVE  FitsBroken(a, b) <=> InBuffer(a, b) \/ TooLarge(a, b)
<1>1. CASE ~NonNegative(a, b)
  BY <1>1 DEF NonNegative, FitsBroken, InBuffer, TooLarge
<1>2. CASE NonNegative(a, b)
  <2>1. /\ ~TooLarge(a, b) => Wrap(a + b) = a + b
        /\ TooLarge(a, b) => Wrap(a + b) < 0 /\ Wrap(a + b) \in Int
    BY <1>2, WrappedSum
  <2>2. a \in Nat /\ b \in Nat /\ (TooLarge(a, b) <=> a + b > IntMax)
    BY <1>2 DEF NonNegative, Ints, TooLarge
  <2>3. CASE TooLarge(a, b)
    BY <1>2, <2>1, <2>2, <2>3, SizesAreInts DEF FitsBroken, Guarded, InBuffer
  <2>4. CASE ~TooLarge(a, b)
    BY <1>2, <2>1, <2>2, <2>4, SizesAreInts DEF FitsBroken, Guarded, InBuffer, NonNegative
  <2>. QED BY <2>3, <2>4
<1>. QED BY <1>1, <1>2

LEMMA FixedFits ==
  ASSUME NEW a \in Ints, NEW b \in Ints
  PROVE  FitsFixed(a, b) <=> InBuffer(a, b)
BY SizesAreInts DEF FitsFixed, NonNegative, Wrap, InBuffer, Ints

\* The sum of the broken check may be no int, the difference of the fixed one never.
LEMMA EvaluatesOverflow ==
  ASSUME NEW a \in Ints, NEW b \in Ints
  PROVE  (\E n \in Evaluates(a, b) : Overflows(n)) <=>
           program.source = "broken" /\ TooLarge(a, b)
BY SizesAreInts DEF Evaluates, NonNegative, Overflows, TooLarge, Ints

--------------------------------------------------------------------------------
(* The report.                                                               *)

Asks(q) == q \in [offset : Ints, length : Ints]

LEMMA QuestionsAreInts ==
  ASSUME v_offset \in Ints, v_length \in Ints
  PROVE  /\ Questions \in Seq([offset : Ints, length : Ints])
         /\ Len(Questions) \in {2, 6} /\ Questions[2] = Question(v_offset, v_length)
<1>. DEFINE Q == [offset : Ints, length : Ints]
<1>1. /\ Question(0, kSmall) \in Q /\ Question(v_offset, v_length) \in Q
      /\ Question(kBufferSize, 0) \in Q /\ Question(kBufferSize - 1, 1) \in Q
      /\ Question(kBufferSize - 1, 2) \in Q /\ Question(kBufferSize, 1) \in Q
  BY SizesAreInts DEF Question, Ints
<1>. HIDE DEF Q
<1>2. CASE program.source = "broken"
  <2>1. Questions = <<Question(0, kSmall), Question(v_offset, v_length)>>
    BY <1>2 DEF Questions
  <2>2. Questions \in Seq(Q) /\ Len(Questions) = 2
        /\ Questions[2] = Question(v_offset, v_length)
    BY <1>1, <2>1
  <2>. QED BY <2>2 DEF Q
<1>3. CASE program.source # "broken"
  <2>1. Questions =
          <<Question(0, kSmall), Question(v_offset, v_length),
            Question(kBufferSize, 0), Question(kBufferSize - 1, 1),
            Question(kBufferSize - 1, 2), Question(kBufferSize, 1)>>
    BY <1>3 DEF Questions
  <2>2. Questions \in Seq(Q) /\ Len(Questions) = 6
        /\ Questions[2] = Question(v_offset, v_length)
    BY <1>1, <2>1
  <2>. QED BY <2>2 DEF Q
<1>. QED BY <1>2, <1>3

Asked == \A i \in 1..Len(report) : report[i] = Line(Questions[i])

Exited ==
  exitCode # Running =>
    /\ Len(report) = Len(Questions)
    /\ exitCode = IF report[2].answer = "yes" THEN 1 ELSE 0

Inv == TypeOK /\ Asked /\ DiagnosisIsExact /\ Exited

LEMMA InvInit == Init => Inv
<1>. SUFFICES ASSUME Init PROVE Inv
  OBVIOUS
<1>1. Len(Questions) \in {2, 6}
  BY QuestionsAreInts DEF Init
<1>2. TypeOK
  BY <1>1 DEF Init, TypeOK, Running
<1>. QED BY <1>2 DEF Init, Inv, Asked, DiagnosisIsExact, Exited

LEMMA AskStep ==
  ASSUME Inv, Ask
  PROVE  Inv'
<1>. TypeOK /\ Asked /\ DiagnosisIsExact /\ Exited
  BY DEF Inv
<1> DEFINE n == Len(report) + 1
           q == Questions[n]
<1>1. /\ UNCHANGED <<program, v_offset, v_length, exitCode>>
      /\ exitCode = Running /\ Len(report) < Len(Questions)
      /\ report' = Append(report, Line(q))
      /\ diagnosed' = IF Diagnoses(q) THEN 1 ELSE diagnosed
  BY DEF Ask
<1>2. /\ v_offset \in Ints /\ v_length \in Ints
      /\ report \in Seq([offset : Ints, length : Ints, answer : {"yes", "no"}])
  BY DEF TypeOK
<1>3. /\ Questions \in Seq([offset : Ints, length : Ints]) /\ Len(Questions) \in Nat
      /\ Len(report) \in Nat
  BY <1>2, QuestionsAreInts
<1>4. Asks(q)
  <2>1. n \in 1..Len(Questions)
    <3>1. \A a, b \in Nat : a < b => a + 1 \in 1..b
      OBVIOUS
    <3>2. Len(report) < Len(Questions)
      BY <1>1
    <3>. QED BY <1>3, <3>1, <3>2
  <2>2. \A i \in 1..Len(Questions) : Questions[i] \in [offset : Ints, length : Ints]
    BY <1>3, ElementOfSeq
  <2>. QED BY <2>1, <2>2 DEF Asks
<1>5. Line(q) \in [offset : Ints, length : Ints, answer : {"yes", "no"}]
  BY <1>4 DEF Asks, Line
<1>6. Questions' = Questions
  BY <1>1 DEF Questions
<1>7. \A r : Line(r)' = Line(r)
  BY <1>1 DEF Line, fits, FitsBroken, FitsFixed, Guarded
<1>8. /\ Len(report') = n
      /\ \A i \in 1..Len(report) : report'[i] = report[i]
      /\ report'[n] = Line(q)
  BY <1>1, <1>2, <1>3, <1>5
<1>9. TypeOK'
  <2>1. report' \in Seq([offset : Ints, length : Ints, answer : {"yes", "no"}])
    BY <1>1, <1>2, <1>5
  <2>2. Len(report') <= Len(Questions')
    BY <1>1, <1>3, <1>6, <1>8
  <2>. QED BY <1>1, <2>1, <2>2 DEF TypeOK
<1>10. Asked'
  BY <1>3, <1>6, <1>7, <1>8 DEF Asked
<1>11. DiagnosisIsExact'
  <2>1. Diagnoses(q) <=> /\ program.source = "broken" /\ program.build = "ubsan"
                         /\ TooLarge(q.offset, q.length)
    BY <1>4, EvaluatesOverflow DEF Diagnoses, Asks
  <2>2. Line(q).offset = q.offset /\ Line(q).length = q.length
    BY DEF Line
  <2>3. (\E i \in DOMAIN report' : TooLarge(report'[i].offset, report'[i].length)) <=>
          \/ TooLarge(q.offset, q.length)
          \/ \E i \in DOMAIN report : TooLarge(report[i].offset, report[i].length)
    <3>1. DOMAIN report = 1..Len(report) /\ DOMAIN report' = 1..n
      BY <1>1, <1>2, <1>5, <1>8
    <3>2. 1..n = 1..Len(report) \cup {n}
      BY <1>3
    <3>. HIDE DEF n, q
    <3>. QED BY <1>8, <2>2, <3>1, <3>2
  <2>. QED BY <1>1, <2>1, <2>3 DEF DiagnosisIsExact
<1>12. Exited'
  BY <1>1 DEF Exited
<1>. QED BY <1>9, <1>10, <1>11, <1>12 DEF Inv

LEMMA InvInvariant == Spec => []Inv
<1>1. ASSUME Inv, Return PROVE Inv'
  BY <1>1 DEF Return, Inv, TypeOK, Asked, DiagnosisIsExact, Exited, Questions, Line, fits,
     FitsBroken, FitsFixed, Guarded
<1>2. ASSUME Inv, UNCHANGED vars PROVE Inv'
  BY <1>2 DEF vars, Inv, TypeOK, Asked, DiagnosisIsExact, Exited, Questions, Line, fits,
     FitsBroken, FitsFixed, Guarded
<1>3. Inv /\ [Next]_vars => Inv'
  BY <1>1, <1>2, AskStep DEF Next, Finished
<1>. QED BY <1>3, InvInit, PTL DEF Spec

\* Every line of the report has the answer of the check to two ints.
LEMMA Answers ==
  ASSUME Inv, NEW i \in DOMAIN report
  PROVE  /\ report[i].offset \in Ints /\ report[i].length \in Ints
         /\ report[i].answer = "yes" <=> fits(report[i].offset, report[i].length)
<1>1. report \in Seq([offset : Ints, length : Ints, answer : {"yes", "no"}])
  BY DEF Inv, TypeOK
<1>2. i \in 1..Len(report)
  BY <1>1
<1>3. report[i] = Line(Questions[i])
  BY <1>2 DEF Inv, Asked
<1>. QED BY <1>1, <1>3 DEF Line

--------------------------------------------------------------------------------
(* The theorems.                                                             *)

\* Types hold for every size of int and of buffer.
THEOREM TypeCorrect == Spec => []TypeOK
<1>1. Inv => TypeOK
  BY DEF Inv
<1>. QED BY <1>1, InvInvariant, PTL

\* Both checks are right for every pair of ints, the adding one with its guard in.
THEOREM GuardedIsRight == Spec => []GuardedDecides
<1>1. Inv => GuardedDecides
  <2>. SUFFICES ASSUME Inv, program.guard = 1, NEW i \in DOMAIN report
                PROVE  Says(report[i], InBuffer(report[i].offset, report[i].length))
    BY DEF GuardedDecides
  <2>1. program.source \in {"broken", "fixed"}
    BY DEF Inv, TypeOK, Programs, Program
  <2>. QED BY <2>1, Answers, FixedFits, GuardedFits DEF Says, fits
<1>. QED BY <1>1, InvInvariant, PTL

\* Where it is not, the check is wrong for the sums that are no int and for no other.
THEOREM WrongOnlyThere == Spec => []WrongExactlyOnOverflow
<1>1. Inv => WrongExactlyOnOverflow
  BY Answers, UnguardedFits DEF WrongExactlyOnOverflow, Says, fits
<1>. QED BY <1>1, InvInvariant, PTL

\* The sanitizer is silent on the fixed program and exact on the broken one.
THEOREM DiagnosesExactly == Spec => []DiagnosisIsExact
<1>1. Inv => DiagnosisIsExact
  BY DEF Inv
<1>. QED BY <1>1, InvInvariant, PTL

\* Asked of a write whose end is no int, only the program without its guard exits
\* with 1 (case 04 broken.cpp:71).
ExitShowsTheBug ==
  exitCode # Running /\ TooLarge(v_offset, v_length) =>
    (exitCode = 1 <=> program.guard = 0)

THEOREM ExitTells == Spec => []ExitShowsTheBug
<1>1. Inv => ExitShowsTheBug
  <2>. SUFFICES ASSUME Inv, exitCode # Running, TooLarge(v_offset, v_length)
                PROVE  exitCode = 1 <=> program.guard = 0
    BY DEF ExitShowsTheBug
  <2>1. v_offset \in Ints /\ v_length \in Ints /\ program \in Programs
    BY DEF Inv, TypeOK
  <2>2. /\ program.guard \in {0, 1} /\ program.source \in {"broken", "fixed"}
        /\ program.source = "fixed" => program.guard = 1
    BY <2>1 DEF Programs, Program
  <2>3. report[2] = Line(Question(v_offset, v_length))
    <3>1. Len(report) \in {2, 6} /\ Questions[2] = Question(v_offset, v_length)
      BY <2>1, QuestionsAreInts DEF Inv, Exited
    <3>. QED BY <3>1 DEF Inv, Asked
  <2>4. exitCode = 1 <=> fits(v_offset, v_length)
    BY <2>3 DEF Inv, Exited, Line, Question
  <2>5. ~InBuffer(v_offset, v_length)
    BY <2>1, SizesAreInts DEF InBuffer, TooLarge, Ints
  <2>. QED BY <2>1, <2>2, <2>4, <2>5, FixedFits, GuardedFits, UnguardedFits DEF fits
<1>. QED BY <1>1, InvInvariant, PTL
====
