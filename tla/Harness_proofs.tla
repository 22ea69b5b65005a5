----------------------------- MODULE Harness_proofs -----------------------------
(***************************************************************************)
(* The two scripts, for any number of runs and of deviations: what a       *)
(* verdict is about, what an exit status of 0 means, which checks are      *)
(* counted, and whose evidence is in the files of case 06.  First, which   *)
(* command is where in the sequences RunAll and Container, and what that   *)
(* says of captures and checks; then the parts of the inductive invariant, *)
(* each with its step; then the theorems.                                  *)
(***************************************************************************)
EXTENDS Harness, TLAPS

--------------------------------------------------------------------------------
(* The sequences of commands.  Concatenation and length are kept out of the  *)
(* provers' sight by Cat and Spans, and known by what Joined says of them.   *)

Phrases == {"race", "tsan", "completed", "use-after-free", "asan", "accepted", "overflow"}

Command(do, p) == [do |-> do, of |-> p]

Commands ==
  {Command(do, p) : do \in {"compile", "capture", "scratch", "tee"}, p \in Programs}
    \cup {Present(p, phrase) : p \in Programs, phrase \in Phrases}
    \cup {Absent(p, phrase) : p \in Programs, phrase \in Phrases}
    \cup {[do |-> do] : do \in {"diagnosed", "unpadded", "padded", "conclude", "copy",
                                "bounds", "image", "matrix"}}

Spans(s, n) == n \in Nat /\ s \in Seq(Commands) /\ Len(s) = n
Lists(s, n) == n \in Nat /\ s \in Seq(Programs) /\ Len(s) = n

Cat(s, t) == s \o t

\* u is s and then t, of lengths m and n.
Joint(u, s, m, t, n) ==
  /\ Spans(u, m + n)
  /\ \A i \in 1..m : u[i] = s[i]
  /\ \A i \in 1..n : u[m + i] = t[i]

LEMMA Joined ==
  ASSUME NEW s, NEW t, NEW m, NEW n, Spans(s, m), Spans(t, n)
  PROVE  Joint(Cat(s, t), s, m, t, n)
<1>1. m + n \in Nat /\ Cat(s, t) \in Seq(Commands) /\ Len(Cat(s, t)) = m + n
  BY DEF Spans, Cat
<1>2. \A i \in 1..m : Cat(s, t)[i] = s[i]
  BY DEF Spans, Cat
<1>3. ASSUME NEW i \in 1..n PROVE Cat(s, t)[m + i] = t[i]
  <2>1. m + i \in m + 1 .. m + n /\ m + i - m = i
    BY DEF Spans
  <2>. QED BY <2>1 DEF Spans, Cat
<1>. QED BY <1>1, <1>2, <1>3 DEF Spans, Joint

LEMMA ProgramsAre ==
  Programs = {"c01_broken", "c01_fixed", "c02_broken", "c02_fixed", "c03_broken", "c03_fixed",
     "c04_O0", "c04_O2", "c04_ub", "c04_wv", "c04_fixed", "c05_broken", "c05_fixed",
     "c06_broken", "c06_fixed"}
BY DEF Programs, Reports

LEMMA EachIs ==
  ASSUME NEW do \in {"compile", "capture", "scratch", "tee"}, NEW s, NEW n, Lists(s, n)
  PROVE  Spans(Each(do, s), n) /\ \A i \in 1..n : Each(do, s)[i] = Command(do, s[i])
<1>1. DOMAIN s = 1..n /\ \A i \in 1..n : s[i] \in Programs
  BY DEF Lists
<1>2. \A i \in 1..n : Each(do, s)[i] = Command(do, s[i])
  BY <1>1 DEF Each, Command
<1>3. \A i \in 1..n : Command(do, s[i]) \in Commands
  BY <1>1 DEF Commands
<1>4. n \in Nat /\ Each(do, s) = [i \in 1..n |-> Command(do, s[i])]
  BY <1>1 DEF Each, Command, Lists
<1>5. Spans(Each(do, s), n)
  BY <1>3, <1>4 DEF Spans
<1>. QED BY <1>2, <1>5

\* u compiles and captures the programs s, n of them, and then makes the checks.
CaseOf(u, s, n, checks, m) ==
  /\ Spans(u, n + n + m)
  /\ \A i \in 1..n : u[i] = Command("compile", s[i]) /\ u[n + i] = Command("capture", s[i])
  /\ \A i \in 1..m : u[n + n + i] = checks[i]

LEMMA CaseIs ==
  ASSUME NEW s, NEW n, Lists(s, n), NEW checks, NEW m, Spans(checks, m)
  PROVE  CaseOf(Case(s, checks), s, n, checks, m)
<1> DEFINE C == Each("compile", s)
           D == Each("capture", s)
           E == Cat(C, D)
           B == Cat(E, checks)
<1>1. Spans(C, n) /\ \A i \in 1..n : C[i] = Command("compile", s[i])
  BY EachIs
<1>2. Spans(D, n) /\ \A i \in 1..n : D[i] = Command("capture", s[i])
  BY EachIs
<1>3. B = Case(s, checks)
  BY DEF Case, Cat
<1>4. n \in Nat
  BY DEF Lists
<1> HIDE DEF C, D
<1>5. /\ Spans(E, n + n) /\ \A i \in 1..n : E[i] = C[i] /\ E[n + i] = D[i]
  <2>1. Spans(C, n) /\ Spans(D, n)
    BY <1>1, <1>2
  <2>2. Joint(E, C, n, D, n)
    BY <2>1, Joined
  <2>. QED BY <2>2 DEF Joint
<1> HIDE DEF E
<1>6. /\ Spans(B, n + n + m) /\ \A i \in 1..n + n : B[i] = E[i]
      /\ \A i \in 1..m : B[n + n + i] = checks[i]
  <2>1. Spans(E, n + n)
    BY <1>5
  <2>2. Joint(B, E, n + n, checks, m)
    BY <2>1, Joined
  <2>. QED BY <2>2 DEF Joint
<1> HIDE DEF B
<1>7. \A i \in 1..n : i \in 1..n + n /\ n + i \in 1..n + n
  BY <1>4
<1>. QED BY <1>1, <1>2, <1>3, <1>5, <1>6, <1>7 DEF CaseOf

\* The cases but case 04 have two programs and two checks.
PairCase(u, a, b, x, y) ==
  /\ Spans(u, 6)
  /\ u[1] = Command("compile", a) /\ u[2] = Command("compile", b)
  /\ u[3] = Command("capture", a) /\ u[4] = Command("capture", b)
  /\ u[5] = x /\ u[6] = y

LEMMA PairCaseIs ==
  ASSUME NEW a \in Programs, NEW b \in Programs, NEW x \in Commands, NEW y \in Commands
  PROVE  PairCase(Case(<<a, b>>, <<x, y>>), a, b, x, y)
<1> DEFINE S == <<a, b>>
           T == <<x, y>>
<1>1. Lists(S, 2) /\ S[1] = a /\ S[2] = b
  BY DEF Lists
<1>2. Spans(T, 2) /\ T[1] = x /\ T[2] = y
  BY DEF Spans
<1> HIDE DEF S, T
<1>3. CaseOf(Case(S, T), S, 2, T, 2)
  BY <1>1, <1>2, CaseIs
<1>4. PairCase(Case(S, T), a, b, x, y)
  BY <1>1, <1>2, <1>3 DEF CaseOf, PairCase
<1>. QED BY <1>4 DEF S, T

\* run-all.sh, command by command.
Case01 ==
  /\ RunAll[1] = Command("compile", "c01_broken")
  /\ RunAll[2] = Command("compile", "c01_fixed")
  /\ RunAll[3] = Command("capture", "c01_broken")
  /\ RunAll[4] = Command("capture", "c01_fixed")
  /\ RunAll[5] = Present("c01_broken", "race")
  /\ RunAll[6] = Absent("c01_fixed", "tsan")

Case02 ==
  /\ RunAll[7] = Command("compile", "c02_broken")
  /\ RunAll[8] = Command("compile", "c02_fixed")
  /\ RunAll[9] = Command("capture", "c02_broken")
  /\ RunAll[10] = Command("capture", "c02_fixed")
  /\ RunAll[11] = [do |-> "diagnosed"]
  /\ RunAll[12] = Present("c02_fixed", "completed")

Case03 ==
  /\ RunAll[13] = Command("compile", "c03_broken")
  /\ RunAll[14] = Command("compile", "c03_fixed")
  /\ RunAll[15] = Command("capture", "c03_broken")
  /\ RunAll[16] = Command("capture", "c03_fixed")
  /\ RunAll[17] = Present("c03_broken", "use-after-free")
  /\ RunAll[18] = Absent("c03_fixed", "asan")

Case04 ==
  /\ RunAll[19] = Command("compile", "c04_O0")
  /\ RunAll[20] = Command("compile", "c04_O2")
  /\ RunAll[21] = Command("compile", "c04_ub")
  /\ RunAll[22] = Command("compile", "c04_wv")
  /\ RunAll[23] = Command("compile", "c04_fixed")
  /\ RunAll[24] = Command("capture", "c04_O0")
  /\ RunAll[25] = Command("capture", "c04_O2")
  /\ RunAll[26] = Command("capture", "c04_ub")
  /\ RunAll[27] = Command("capture", "c04_wv")
  /\ RunAll[28] = Command("capture", "c04_fixed")
  /\ RunAll[29] = Present("c04_O2", "accepted")
  /\ RunAll[30] = Absent("c04_O0", "accepted")
  /\ RunAll[31] = Present("c04_ub", "overflow")
  /\ RunAll[32] = Absent("c04_wv", "accepted")
  /\ RunAll[33] = Absent("c04_fixed", "accepted")
  /\ RunAll[34] = Absent("c04_fixed", "overflow")

Case05 ==
  /\ RunAll[35] = Command("compile", "c05_broken")
  /\ RunAll[36] = Command("compile", "c05_fixed")
  /\ RunAll[37] = Command("capture", "c05_broken")
  /\ RunAll[38] = Command("capture", "c05_fixed")
  /\ RunAll[39] = [do |-> "unpadded"]
  /\ RunAll[40] = [do |-> "padded"]

Case06 ==
  /\ RunAll[41] = Command("compile", "c06_broken")
  /\ RunAll[42] = Command("compile", "c06_fixed")
  /\ RunAll[43] = Command("scratch", "c06_broken")
  /\ RunAll[44] = Command("scratch", "c06_fixed")

Evidence06 ==
  /\ RunAll[45] = [do |-> "conclude"]
  /\ RunAll[46] = [do |-> "copy"]
  /\ RunAll[47] = [do |-> "bounds"]

LEMMA CommandsOfTheCases ==
  /\ \A p \in Programs, phrase \in Phrases :
       Present(p, phrase) \in Commands /\ Absent(p, phrase) \in Commands
  /\ [do |-> "diagnosed"] \in Commands
  /\ [do |-> "unpadded"] \in Commands /\ [do |-> "padded"] \in Commands
BY DEF Commands

LEMMA LayoutOfRunAll ==
  /\ RunAll \in Seq(Commands) /\ Len(RunAll) = 47
  /\ Case01 /\ Case02 /\ Case03 /\ Case04 /\ Case05 /\ Case06 /\ Evidence06
<1> DEFINE S4 == <<"c04_O0", "c04_O2", "c04_ub", "c04_wv", "c04_fixed">>
           T4 == <<Present("c04_O2", "accepted"), Absent("c04_O0", "accepted"),
                   Present("c04_ub", "overflow"), Absent("c04_wv", "accepted"),
                   Absent("c04_fixed", "accepted"), Absent("c04_fixed", "overflow")>>
           S6 == <<"c06_broken", "c06_fixed">>
           K1 == Case(<<"c01_broken", "c01_fixed">>,
                      <<Present("c01_broken", "race"), Absent("c01_fixed", "tsan")>>)
           K2 == Case(<<"c02_broken", "c02_fixed">>,
                      <<[do |-> "diagnosed"], Present("c02_fixed", "completed")>>)
           K3 == Case(<<"c03_broken", "c03_fixed">>,
                      <<Present("c03_broken", "use-after-free"), Absent("c03_fixed", "asan")>>)
           K4 == Case(S4, T4)
           K5 == Case(<<"c05_broken", "c05_fixed">>, <<[do |-> "unpadded"], [do |-> "padded"]>>)
           K6 == Each("compile", S6)
           K7 == Each("scratch", S6)
           K8 == <<[do |-> "conclude"], [do |-> "copy"], [do |-> "bounds"]>>
           P2 == Cat(K1, K2)
           P3 == Cat(P2, K3)
           P4 == Cat(P3, K4)
           P5 == Cat(P4, K5)
           P6 == Cat(P5, K6)
           P7 == Cat(P6, K7)
<1>1. PairCase(K1, "c01_broken", "c01_fixed",
               Present("c01_broken", "race"), Absent("c01_fixed", "tsan"))
  BY PairCaseIs, ProgramsAre, CommandsOfTheCases DEF Phrases
<1>2. PairCase(K2, "c02_broken", "c02_fixed",
               [do |-> "diagnosed"], Present("c02_fixed", "completed"))
  BY PairCaseIs, ProgramsAre, CommandsOfTheCases DEF Phrases
<1>3. PairCase(K3, "c03_broken", "c03_fixed",
               Present("c03_broken", "use-after-free"), Absent("c03_fixed", "asan"))
  BY PairCaseIs, ProgramsAre, CommandsOfTheCases DEF Phrases
<1>4. CaseOf(K4, S4, 5, T4, 6)
  <2>1. Lists(S4, 5)
    BY ProgramsAre DEF Lists
  <2>2. Spans(T4, 6)
    BY ProgramsAre DEF Spans, Commands, Phrases
  <2> HIDE DEF S4, T4
  <2>. QED BY <2>1, <2>2, CaseIs
<1>5. PairCase(K5, "c05_broken", "c05_fixed", [do |-> "unpadded"], [do |-> "padded"])
  BY PairCaseIs, ProgramsAre, CommandsOfTheCases
<1>6. /\ Spans(K6, 2)
      /\ K6[1] = Command("compile", "c06_broken") /\ K6[2] = Command("compile", "c06_fixed")
      /\ Spans(K7, 2)
      /\ K7[1] = Command("scratch", "c06_broken") /\ K7[2] = Command("scratch", "c06_fixed")
  <2>1. Lists(S6, 2) /\ S6[1] = "c06_broken" /\ S6[2] = "c06_fixed"
    BY ProgramsAre DEF Lists
  <2> HIDE DEF S6
  <2>. QED BY <2>1, EachIs
<1>7. /\ Spans(K8, 3)
      /\ K8[1] = [do |-> "conclude"] /\ K8[2] = [do |-> "copy"] /\ K8[3] = [do |-> "bounds"]
  BY DEF Spans, Commands
<1>8. RunAll = Cat(P7, K8)
  BY DEF RunAll, Cat
<1>9. /\ S4[1] = "c04_O0" /\ S4[2] = "c04_O2" /\ S4[3] = "c04_ub" /\ S4[4] = "c04_wv"
      /\ S4[5] = "c04_fixed"
      /\ T4[1] = Present("c04_O2", "accepted") /\ T4[2] = Absent("c04_O0", "accepted")
      /\ T4[3] = Present("c04_ub", "overflow") /\ T4[4] = Absent("c04_wv", "accepted")
      /\ T4[5] = Absent("c04_fixed", "accepted") /\ T4[6] = Absent("c04_fixed", "overflow")
  OBVIOUS
<1> HIDE DEF S4, T4, K1, K2, K3, K4, K5, K6, K7, K8
<1>10. /\ Spans(P2, 12) /\ \A i \in 1..6 : P2[i] = K1[i]
       /\ P2[7] = K2[1] /\ P2[8] = K2[2] /\ P2[9] = K2[3] /\ P2[10] = K2[4]
       /\ P2[11] = K2[5] /\ P2[12] = K2[6]
  <2>1. Spans(K1, 6) /\ Spans(K2, 6)
    BY <1>1, <1>2 DEF PairCase
  <2>2. Joint(P2, K1, 6, K2, 6)
    BY <2>1, Joined
  <2>. QED BY <2>2 DEF Joint
<1> HIDE DEF P2
<1>11. /\ Spans(P3, 18) /\ \A i \in 1..12 : P3[i] = P2[i]
       /\ P3[13] = K3[1] /\ P3[14] = K3[2] /\ P3[15] = K3[3] /\ P3[16] = K3[4]
       /\ P3[17] = K3[5] /\ P3[18] = K3[6]
  <2>1. Spans(P2, 12) /\ Spans(K3, 6)
    BY <1>10, <1>3 DEF PairCase
  <2>2. Joint(P3, P2, 12, K3, 6)
    BY <2>1, Joined
  <2>. QED BY <2>2 DEF Joint
<1> HIDE DEF P3
<1>12. /\ Spans(P4, 34) /\ \A i \in 1..18 : P4[i] = P3[i]
       /\ P4[19] = K4[1] /\ P4[20] = K4[2] /\ P4[21] = K4[3] /\ P4[22] = K4[4]
       /\ P4[23] = K4[5] /\ P4[24] = K4[6] /\ P4[25] = K4[7] /\ P4[26] = K4[8]
       /\ P4[27] = K4[9] /\ P4[28] = K4[10] /\ P4[29] = K4[11] /\ P4[30] = K4[12]
       /\ P4[31] = K4[13] /\ P4[32] = K4[14] /\ P4[33] = K4[15] /\ P4[34] = K4[16]
  <2>1. Spans(P3, 18) /\ Spans(K4, 16)
    BY <1>11, <1>4 DEF CaseOf
  <2>2. Joint(P4, P3, 18, K4, 16)
    BY <2>1, Joined
  <2>. QED BY <2>2 DEF Joint
<1> HIDE DEF P4
<1>13. /\ Spans(P5, 40) /\ \A i \in 1..34 : P5[i] = P4[i]
       /\ P5[35] = K5[1] /\ P5[36] = K5[2] /\ P5[37] = K5[3] /\ P5[38] = K5[4]
       /\ P5[39] = K5[5] /\ P5[40] = K5[6]
  <2>1. Spans(P4, 34) /\ Spans(K5, 6)
    BY <1>12, <1>5 DEF PairCase
  <2>2. Joint(P5, P4, 34, K5, 6)
    BY <2>1, Joined
  <2>. QED BY <2>2 DEF Joint
<1> HIDE DEF P5
<1>14. /\ Spans(P6, 42) /\ \A i \in 1..40 : P6[i] = P5[i]
       /\ P6[41] = K6[1] /\ P6[42] = K6[2]
  <2>1. Spans(P5, 40) /\ Spans(K6, 2)
    BY <1>13, <1>6
  <2>2. Joint(P6, P5, 40, K6, 2)
    BY <2>1, Joined
  <2>. QED BY <2>2 DEF Joint
<1> HIDE DEF P6
<1>15. /\ Spans(P7, 44) /\ \A i \in 1..42 : P7[i] = P6[i]
       /\ P7[43] = K7[1] /\ P7[44] = K7[2]
  <2>1. Spans(P6, 42) /\ Spans(K7, 2)
    BY <1>14, <1>6
  <2>2. Joint(P7, P6, 42, K7, 2)
    BY <2>1, Joined
  <2>. QED BY <2>2 DEF Joint
<1> HIDE DEF P7
<1>16. /\ Spans(RunAll, 47) /\ \A i \in 1..44 : RunAll[i] = P7[i]
       /\ RunAll[45] = K8[1] /\ RunAll[46] = K8[2] /\ RunAll[47] = K8[3]
  <2>1. Spans(P7, 44) /\ Spans(K8, 3)
    BY <1>15, <1>7
  <2>2. Joint(RunAll, P7, 44, K8, 3)
    BY <2>1, Joined, <1>8
  <2>. QED BY <2>2 DEF Joint
<1>17. \A i \in 1..44 : RunAll[i] = P7[i]
  BY <1>16
<1>18. \A i \in 1..42 : RunAll[i] = P6[i]
  BY <1>15, <1>17
<1>19. \A i \in 1..40 : RunAll[i] = P5[i]
  BY <1>14, <1>18
<1>20. \A i \in 1..34 : RunAll[i] = P4[i]
  BY <1>13, <1>19
<1>21. \A i \in 1..18 : RunAll[i] = P3[i]
  BY <1>12, <1>20
<1>22. \A i \in 1..12 : RunAll[i] = P2[i]
  BY <1>11, <1>21
<1>23. \A i \in 1..6 : RunAll[i] = K1[i]
  BY <1>10, <1>22
<1>24. Case01
  BY <1>1, <1>23 DEF Case01, PairCase
<1>25. Case02
  BY <1>2, <1>10, <1>22 DEF Case02, PairCase
<1>26. Case03
  BY <1>3, <1>11, <1>21 DEF Case03, PairCase
<1>27. Case04
  BY <1>4, <1>12, <1>20, <1>9 DEF Case04, CaseOf
<1>28. Case05
  BY <1>5, <1>13, <1>19 DEF Case05, PairCase
<1>29. Case06
  BY <1>6, <1>14, <1>15, <1>18, <1>17 DEF Case06
<1>30. Evidence06
  BY <1>7, <1>16 DEF Evidence06
<1>. QED BY <1>16, <1>24, <1>25, <1>26, <1>27, <1>28, <1>29, <1>30 DEF Spans

LEMMA CasesOfRunAll ==
  Case01 /\ Case02 /\ Case03 /\ Case04 /\ Case05 /\ Case06 /\ Evidence06
BY LayoutOfRunAll

--------------------------------------------------------------------------------
(* What that says of captures and checks.                                    *)

CheckCommands == {"present", "absent", "diagnosed", "unpadded", "padded"}
JudgingCommands == CheckCommands \cup {"copy", "bounds"}

Kinds(i) ==
  /\ RunAll[i].do \in {"compile", "capture"} \cup CheckCommands => i \in 1..42
  /\ RunAll[i].do = "compile" => RunAll[i].of \in Programs
  /\ RunAll[i].do = "capture" => RunAll[i].of \in Programs \ {"c06_broken", "c06_fixed"}
  /\ RunAll[i].do = "scratch" <=> i \in {43, 44}
  /\ RunAll[i].do = "scratch" => RunAll[i].of \in {"c06_broken", "c06_fixed"}
  /\ RunAll[i].do = "conclude" <=> i = 45
  /\ RunAll[i].do = "copy" <=> i = 46
  /\ RunAll[i].do = "bounds" <=> i = 47
  /\ RunAll[i].do \notin {"image", "tee", "matrix"}

LEMMA KindsOfRunAll ==
  ASSUME NEW i \in 1..47
  PROVE  Kinds(i)
<1> USE DEF Command, Present, Absent, Kinds, CheckCommands
<1>1. CASE i \in 1..6
  BY <1>1, CasesOfRunAll, ProgramsAre DEF Case01
<1>2. CASE i \in 7..12
  BY <1>2, CasesOfRunAll, ProgramsAre DEF Case02
<1>3. CASE i \in 13..18
  BY <1>3, CasesOfRunAll, ProgramsAre DEF Case03
<1>4. CASE i \in 19..34
  BY <1>4, CasesOfRunAll, ProgramsAre DEF Case04
<1>5. CASE i \in 35..40
  BY <1>5, CasesOfRunAll, ProgramsAre DEF Case05
<1>6. CASE i \in 41..44
  BY <1>6, CasesOfRunAll, ProgramsAre DEF Case06
<1>7. CASE i \in 45..47
  BY <1>7, CasesOfRunAll, ProgramsAre DEF Evidence06
<1>. QED BY <1>1, <1>2, <1>3, <1>4, <1>5, <1>6, <1>7

\* How many of the n commands from the first on come before i.
Within(i, first, n) == IF i <= first THEN 0 ELSE IF i >= first + n THEN n ELSE i - first

\* How many commands before i add to the tally; the conclusion of case 06 apart.
Judged(i) == Within(i, 5, 2) + Within(i, 11, 2) + Within(i, 17, 2) + Within(i, 29, 6)
               + Within(i, 39, 2) + Within(i, 46, 2)

JudgedNext(i) ==
  /\ Judged(i) \in 0..16
  /\ RunAll[i].do \in JudgingCommands => Judged(i + 1) = Judged(i) + 1
  /\ RunAll[i].do \notin JudgingCommands => Judged(i + 1) = Judged(i)

LEMMA JudgedOfRunAll ==
  ASSUME NEW i \in 1..47
  PROVE  JudgedNext(i)
<1> USE DEF Command, Present, Absent, JudgedNext, JudgingCommands, CheckCommands, Judged, Within
<1>1. CASE i \in 1..6
  BY <1>1, CasesOfRunAll DEF Case01
<1>2. CASE i \in 7..12
  BY <1>2, CasesOfRunAll DEF Case02
<1>3. CASE i \in 13..18
  BY <1>3, CasesOfRunAll DEF Case03
<1>4. CASE i \in 19..34
  BY <1>4, CasesOfRunAll DEF Case04
<1>5. CASE i \in 35..40
  BY <1>5, CasesOfRunAll DEF Case05
<1>6. CASE i \in 41..44
  BY <1>6, CasesOfRunAll DEF Case06
<1>7. CASE i \in 45..47
  BY <1>7, CasesOfRunAll DEF Evidence06
<1>. QED BY <1>1, <1>2, <1>3, <1>4, <1>5, <1>6, <1>7

\* What a check reads has been captured.
CapturedBefore(i) ==
  \A p \in Subjects(RunAll[i]) :
    \E j \in 1..i - 1 : RunAll[j].do = "capture" /\ RunAll[j].of = p

LEMMA SubjectsAreCaptured ==
  ASSUME NEW i \in 1..47
  PROVE  CapturedBefore(i)
<1> USE DEF Command, Present, Absent, CapturedBefore, Subjects
<1>1. CASE i \in 1..6
  BY <1>1, CasesOfRunAll DEF Case01
<1>2. CASE i \in 7..12
  BY <1>2, CasesOfRunAll DEF Case02
<1>3. CASE i \in 13..18
  BY <1>3, CasesOfRunAll DEF Case03
<1>4. CASE i \in 19..34
  BY <1>4, CasesOfRunAll DEF Case04
<1>5. CASE i \in 35..40
  BY <1>5, CasesOfRunAll DEF Case05
<1>6. CASE i \in 41..44
  BY <1>6, CasesOfRunAll DEF Case06
<1>7. CASE i \in 45..47
  BY <1>7, CasesOfRunAll DEF Evidence06
<1>. QED BY <1>1, <1>2, <1>3, <1>4, <1>5, <1>6, <1>7

CaseOfProgram(p) ==
  CASE p \in {"c01_broken", "c01_fixed"} -> 1
    [] p \in {"c02_broken", "c02_fixed"} -> 2
    [] p \in {"c03_broken", "c03_fixed"} -> 3
    [] p \in {"c04_O0", "c04_O2", "c04_ub", "c04_wv", "c04_fixed"} -> 4
    [] p \in {"c05_broken", "c05_fixed"} -> 5
    [] OTHER -> 6

FirstCheck(i) == IF i <= 6 THEN 5 ELSE IF i <= 12 THEN 11 ELSE IF i <= 18 THEN 17
                 ELSE IF i <= 34 THEN 29 ELSE 39

CaseAt(i) == IF i <= 6 THEN 1 ELSE IF i <= 12 THEN 2 ELSE IF i <= 18 THEN 3
             ELSE IF i <= 34 THEN 4 ELSE IF i <= 40 THEN 5 ELSE 6

\* The commands of a case are together, and its captures before its checks.
Grouped(i) ==
  /\ RunAll[i].do = "capture" => i < FirstCheck(i) /\ CaseOfProgram(RunAll[i].of) = CaseAt(i)
  /\ Subjects(RunAll[i]) # {} => i >= FirstCheck(i)
  /\ \A p \in Subjects(RunAll[i]) :
       p \in Programs /\ CaseOfProgram(p) = CaseAt(i) /\ CaseOfProgram(p) # 6

LEMMA GroupedByCase ==
  ASSUME NEW i \in 1..47
  PROVE  Grouped(i)
<1> USE DEF Command, Present, Absent, Grouped, FirstCheck, CaseAt, Subjects, CaseOfProgram
<1>1. CASE i \in 1..6
  BY <1>1, CasesOfRunAll, ProgramsAre DEF Case01
<1>2. CASE i \in 7..12
  BY <1>2, CasesOfRunAll, ProgramsAre DEF Case02
<1>3. CASE i \in 13..18
  BY <1>3, CasesOfRunAll, ProgramsAre DEF Case03
<1>4. CASE i \in 19..34
  BY <1>4, CasesOfRunAll, ProgramsAre DEF Case04
<1>5. CASE i \in 35..40
  BY <1>5, CasesOfRunAll, ProgramsAre DEF Case05
<1>6. CASE i \in 41..44
  BY <1>6, CasesOfRunAll, ProgramsAre DEF Case06
<1>7. CASE i \in 45..47
  BY <1>7, CasesOfRunAll, ProgramsAre DEF Evidence06
<1>. QED BY <1>1, <1>2, <1>3, <1>4, <1>5, <1>6, <1>7

\* Evidence that has been judged is not captured again.
LEMMA CapturesSpareTheJudged ==
  ASSUME NEW i \in 1..47, NEW j \in 1..i - 1, RunAll[i].do = "capture"
  PROVE  RunAll[i].of \notin Subjects(RunAll[j])
<1>1. j \in 1..47 /\ j < i
  OBVIOUS
<1>2. Grouped(i) /\ Grouped(j)
  BY <1>1, GroupedByCase
<1>3. SUFFICES ASSUME RunAll[i].of \in Subjects(RunAll[j]) PROVE FALSE
  OBVIOUS
<1>4. CaseAt(i) = CaseAt(j) /\ i < FirstCheck(i) /\ j >= FirstCheck(j)
  BY <1>2, <1>3 DEF Grouped
<1>. QED BY <1>1, <1>4 DEF CaseAt, FirstCheck

LEMMA ContainerIs ==
  /\ Len(Container) = 4
  /\ Container[1] = [do |-> "image"] /\ Container[2] = Command("tee", "c06_broken")
  /\ Container[3] = Command("tee", "c06_fixed") /\ Container[4] = [do |-> "matrix"]
<1> DEFINE I == <<[do |-> "image"]>>
           T == Each("tee", <<"c06_broken", "c06_fixed">>)
           IT == Cat(I, T)
           M == <<[do |-> "matrix"]>>
<1>1. Spans(I, 1) /\ I[1] = [do |-> "image"]
  BY DEF Spans, Commands
<1>2. Spans(M, 1) /\ M[1] = [do |-> "matrix"]
  BY DEF Spans, Commands
<1>3. Spans(T, 2) /\ T[1] = Command("tee", "c06_broken") /\ T[2] = Command("tee", "c06_fixed")
  <2>1. Lists(<<"c06_broken", "c06_fixed">>, 2)
        /\ <<"c06_broken", "c06_fixed">>[1] = "c06_broken"
        /\ <<"c06_broken", "c06_fixed">>[2] = "c06_fixed"
    BY ProgramsAre DEF Lists
  <2>. QED BY <2>1, EachIs
<1>4. Container = Cat(IT, M)
  BY DEF Container, Cat
<1> HIDE DEF I, T, M
<1>5. Joint(IT, I, 1, T, 2)
  BY <1>1, <1>3, Joined
<1>6. Spans(IT, 3) /\ IT[1] = I[1] /\ IT[2] = T[1] /\ IT[3] = T[2]
  BY <1>5 DEF Joint
<1> HIDE DEF IT
<1>7. Joint(Container, IT, 3, M, 1)
  BY <1>2, <1>4, <1>6, Joined
<1>8. Spans(Container, 4) /\ Container[4] = M[1] /\ \A i \in 1..3 : Container[i] = IT[i]
  BY <1>7 DEF Joint
<1>. QED BY <1>1, <1>2, <1>3, <1>6, <1>8 DEF Spans

\* The length of the script.
Size == IF script = "run-all" THEN 47 ELSE 4

LEMMA SizeIs ==
  ASSUME script \in {"run-all", "container"}
  PROVE  Len(Script) = Size
BY LayoutOfRunAll, ContainerIs DEF Script, Size

--------------------------------------------------------------------------------
(* The inductive invariant.                                                  *)

\* What the file of p may hold.
Possible(p) == Range(Reports[p]) \cup {NotFound}

\* TypeOK, but for the tally, which is known from Tally.
Typed ==
  /\ script \in {"run-all", "container"}
  /\ run \in 1..MaxRuns /\ step \in 1..Size + 1
  /\ built \subseteq Programs
  /\ DOMAIN out = Programs /\ DOMAIN scratch = {"c06_broken", "c06_fixed"}
  /\ \A p \in Programs : out[p].run \in 0..run /\ out[p].report \in Possible(p)
  /\ \A p \in DOMAIN scratch : scratch[p] \in Possible(p)
  /\ image \in 0..run /\ matrix \in 0..run
  /\ pass \in Nat /\ fail \in Nat
  /\ exitCode \in {Running, Killed, 0, 1}
  /\ deviations \in 0..MaxDeviations /\ torn \in BOOLEAN

\* What a finished script has done.
Ended ==
  exitCode \in {0, 1} => step = Size + 1 /\ (Succeeded => fail = 0)

\* The verdicts of a finished run of run-all.sh, and of an unfinished one.
Expected ==
  14 + CASE "inconclusive" \in scratch.c06_broken -> 0
         [] "waited" \in scratch.c06_broken -> 2
         [] OTHER -> 1

Tally ==
  /\ script = "container" => pass = 0 /\ fail = 0
  /\ script = "run-all" =>
       /\ step \in 1..47 => pass + fail = Judged(step)
       /\ step \in {46, 47} => "waited" \in scratch.c06_broken
       /\ step = 48 => pass + fail = Expected
       /\ step = 48 /\ fail = 0 => \/ "inconclusive" \in scratch.c06_broken
                                   \/ /\ "waited" \in scratch.c06_broken
                                      /\ "bounded" \in scratch.c06_fixed

\* Evidence captured in this run; only a program that was built has printed anything.
OfThisRun(p) == out[p].run = run /\ (Evidence(p) # {} => p \in built)

Fresh ==
  script = "run-all" =>
    \A j \in 1..47 : j < step /\ RunAll[j].do = "capture" => OfThisRun(RunAll[j].of)

\* What a check found, and what every check has found while none has failed.
Holds(command) ==
  /\ command.do = "present" => Found(command.of, command.phrase)
  /\ command.do = "absent" => ~Found(command.of, command.phrase)
  /\ command.do = "diagnosed" => Evidence("c02_broken") \cap {"inversion", "cycle"} # {}
  /\ command.do = "unpadded" => {"8 apart", "barely"} \subseteq Evidence("c05_broken")
  /\ command.do = "padded" => /\ {"64 apart", "fast"} \subseteq Evidence("c05_fixed")
                              /\ Found("c05_broken", "slow")

Verdicts ==
  script = "run-all" /\ fail = 0 => \A j \in 1..47 : j < step => Holds(RunAll[j])

\* The runs whose reports are in the two files of case 06.
Broken06 == out["c06_broken"].run
Fixed06 == out["c06_fixed"].run

\* The first of the files is written and the second is next.
BetweenTheFiles ==
  exitCode = Running /\ step = (IF script = "run-all" THEN 46 ELSE 3)

Ordered ==
  /\ Broken06 >= Fixed06 /\ Fixed06 >= matrix
  /\ BetweenTheFiles => Broken06 = run
  /\ script = "container" /\ step >= 4 => Fixed06 = run
  /\ Broken06 # Fixed06 => torn \/ BetweenTheFiles

IInv == Typed /\ Ended /\ Tally /\ Fresh /\ Verdicts /\ Ordered

--------------------------------------------------------------------------------
(* The actions.                                                              *)

\* Where each command is.
Where ==
  /\ \A c : At(c) => exitCode = Running /\ step \in 1..Size
  /\ At("compile") => script = "run-all" /\ step \in 1..42 /\ Current \in Programs
  /\ At("capture") => /\ script = "run-all" /\ step \in 1..42 /\ Current = RunAll[step].of
                      /\ RunAll[step].do = "capture"
                      /\ Current \in Programs \ {"c06_broken", "c06_fixed"}
  /\ At("scratch") => /\ script = "run-all" /\ step \in {43, 44}
                      /\ Current \in {"c06_broken", "c06_fixed"}
  /\ \A c \in CheckCommands : At(c) => script = "run-all" /\ step \in 1..42
  /\ At("conclude") => script = "run-all" /\ step = 45
  /\ At("copy") <=> exitCode = Running /\ script = "run-all" /\ step = 46
  /\ At("bounds") => script = "run-all" /\ step = 47
  /\ At("image") => script = "container" /\ step = 1
  /\ At("tee") => script = "container" /\ step \in {2, 3}
  /\ exitCode = Running /\ script = "container" /\ step = 2 => At("tee") /\ Current = "c06_broken"
  /\ exitCode = Running /\ script = "container" /\ step = 3 => At("tee") /\ Current = "c06_fixed"
  /\ At("matrix") => script = "container" /\ step = 4
  /\ script = "run-all" => Script = RunAll
  /\ \A c : At(c) /\ script = "run-all" => step \in 1..47 /\ RunAll[step].do = c

LEMMA WhereCommandsAre ==
  ASSUME Typed
  PROVE  Where
<1>1. CASE script = "run-all"
  <2>1. Script = RunAll /\ Len(Script) = 47 /\ Size = 47 /\ step \in 1..48
    BY <1>1, SizeIs DEF Script, Size, Typed
  <2>2. \A c : At(c) => step \in 1..47 /\ Kinds(step) /\ RunAll[step].do = c
                        /\ Current = RunAll[step].of
    BY <2>1, KindsOfRunAll DEF At, Current
  <2>3. step = 46 => RunAll[step].do = "copy"
    BY KindsOfRunAll DEF Kinds
  <2>. QED BY <1>1, <2>1, <2>2, <2>3 DEF Where, At, Kinds, CheckCommands
<1>2. CASE script = "container"
  <2>1. Script = Container /\ Len(Script) = 4 /\ Size = 4 /\ step \in 1..5
    BY <1>2, SizeIs DEF Script, Size, Typed
  <2>2. \A c : At(c) => step \in 1..4 /\ Container[step].do = c
                        /\ Current = Container[step].of
    BY <2>1 DEF At, Current
  <2>3. /\ Container[1].do = "image" /\ Container[4].do = "matrix"
        /\ Container[2].do = "tee" /\ Container[2].of = "c06_broken"
        /\ Container[3].do = "tee" /\ Container[3].of = "c06_fixed"
    BY ContainerIs DEF Command
  <2>. QED BY <1>2, <2>1, <2>2, <2>3 DEF Where, At, Current, CheckCommands
<1>. QED BY <1>1, <1>2 DEF Typed

Passes == pass' = pass + 1 /\ fail' = fail /\ Holds(Script[step])
Fails == pass' = pass /\ fail' = fail + 1

\* Any of the five checks of $OUT, and what its verdict says.
SomeCheck ==
  /\ \E command \in CheckCommands : At(command)
  /\ Passes \/ Fails
  /\ step' = step + 1
  /\ UNCHANGED <<script, run, built, scratch, out, image, matrix, exitCode, deviations, torn>>

LEMMA ChecksHold ==
  ASSUME CheckPresent \/ CheckAbsent \/ CheckDiagnosed \/ CheckUnpadded \/ CheckPadded
  PROVE  SomeCheck
<1>1. CASE CheckPresent
  <2>1. At("present") /\ Found(Current, Script[step].phrase) => Holds(Script[step])
    BY DEF At, Holds, Current
  <2>. QED BY <1>1, <2>1 DEF CheckPresent, Check, Record, SomeCheck, Passes, Fails, CheckCommands
<1>2. CASE CheckAbsent
  <2>1. At("absent") /\ ~Found(Current, Script[step].phrase) => Holds(Script[step])
    BY DEF At, Holds, Current
  <2>. QED BY <1>2, <2>1 DEF CheckAbsent, Check, Record, SomeCheck, Passes, Fails, CheckCommands
<1>3. CASE CheckDiagnosed
  <2>1. At("diagnosed") /\ Evidence("c02_broken") \cap {"inversion", "cycle"} # {}
          => Holds(Script[step])
    BY DEF At, Holds
  <2>. QED BY <1>3, <2>1 DEF CheckDiagnosed, Check, Record, SomeCheck, Passes, Fails, CheckCommands
<1>4. CASE CheckUnpadded
  <2>1. At("unpadded") /\ {"8 apart", "barely"} \subseteq Evidence("c05_broken")
          => Holds(Script[step])
    BY DEF At, Holds
  <2>. QED BY <1>4, <2>1 DEF CheckUnpadded, Check, Record, SomeCheck, Passes, Fails, CheckCommands
<1>5. CASE CheckPadded
  <2>1. At("padded") /\ {"64 apart", "fast"} \subseteq Evidence("c05_fixed")
          /\ Found("c05_broken", "slow") => Holds(Script[step])
    BY DEF At, Holds
  <2>. QED BY <1>5, <2>1 DEF CheckPadded, Check, Record, SomeCheck, Passes, Fails, CheckCommands
<1>. QED BY <1>1, <1>2, <1>3, <1>4, <1>5

\* The actions, the five checks as one.
LEMMA NextIs ==
  ASSUME Next
  PROVE  \/ Compile \/ Capture \/ Scratch \/ SomeCheck \/ Conclude \/ Copy \/ CheckBounds
         \/ Image \/ Tee \/ Matrix \/ Exit \/ Kill \/ Again \/ Finished
BY ChecksHold DEF Next

LEMMA ReportsAreThere == \A p \in Programs : 1 \in DOMAIN Reports[p]
<1>1. /\ 1 \in DOMAIN Reports["c01_broken"]
      /\ 1 \in DOMAIN Reports["c01_fixed"]
      /\ 1 \in DOMAIN Reports["c02_broken"]
      /\ 1 \in DOMAIN Reports["c02_fixed"]
      /\ 1 \in DOMAIN Reports["c03_broken"]
      /\ 1 \in DOMAIN Reports["c03_fixed"]
      /\ 1 \in DOMAIN Reports["c04_O0"]
      /\ 1 \in DOMAIN Reports["c04_O2"]
      /\ 1 \in DOMAIN Reports["c04_ub"]
      /\ 1 \in DOMAIN Reports["c04_wv"]
      /\ 1 \in DOMAIN Reports["c04_fixed"]
      /\ 1 \in DOMAIN Reports["c05_broken"]
      /\ 1 \in DOMAIN Reports["c05_fixed"]
      /\ 1 \in DOMAIN Reports["c06_broken"]
      /\ 1 \in DOMAIN Reports["c06_fixed"]
  BY DEF Reports
<1>. QED BY <1>1, ProgramsAre

LEMMA TypedInit == Init => Typed
<1> SUFFICES ASSUME Init PROVE Typed
  OBVIOUS
<1>1. \A p \in Programs : 1 \in DOMAIN Reports[p]
  BY ReportsAreThere
<1>2. \A p \in Programs : Reports[p][1] \in Possible(p)
  BY <1>1 DEF Range, Possible
<1>3. \A p \in Programs : out[p].run = 0 /\ out[p].report \in Possible(p)
  BY <1>2 DEF Init
<1>4. \A p \in DOMAIN scratch : scratch[p] \in Possible(p)
  BY DEF Init, Possible
<1>5. /\ DOMAIN out = Programs /\ DOMAIN scratch = {"c06_broken", "c06_fixed"}
      /\ torn \in BOOLEAN
  BY DEF Init
<1>6. MaxRuns \in Nat \ {0} /\ MaxDeviations \in Nat
  BY BoundsAssumption
<1>7. /\ run \in 1..MaxRuns /\ step \in 1..Size + 1 /\ 0 \in 0..run
      /\ deviations \in 0..MaxDeviations
  BY <1>6 DEF Init, Size
<1>. QED BY <1>3, <1>4, <1>5, <1>7 DEF Init, Typed

LEMMA PrintsPossible ==
  ASSUME NEW p \in Programs, NEW report, Prints(p, report), deviations \in Int
  PROVE  report \in Possible(p) /\ (report # {} => p \in built)
         /\ deviations' \in {deviations, deviations + 1} /\ deviations' <= MaxDeviations
<1>1. report \in Possible(p) /\ (report # {} => p \in built)
  BY DEF Prints, Possible, NotFound
<1>2. deviations' \in {deviations, deviations + 1} /\ deviations' <= MaxDeviations
  BY DEF Prints
<1>. QED BY <1>1, <1>2

\* A program that is not there leaves an empty report.
LEMMA NothingIsPossible == \A p : NotFound \in Possible(p)
BY DEF Possible

LEMMA ReplacedEvidence ==
  ASSUME Typed, NEW p \in Programs, NEW r \in 0..run, NEW report \in Possible(p),
         out' = [out EXCEPT ![p] = [run |-> r, report |-> report]]
  PROVE  /\ DOMAIN out' = Programs
         /\ out'[p].run = r /\ out'[p].report = report
         /\ \A q \in Programs \ {p} : out'[q] = out[q]
         /\ \A q \in Programs : out'[q].run \in 0..run /\ out'[q].report \in Possible(q)
<1>1. /\ DOMAIN out' = Programs
      /\ out'[p] = [run |-> r, report |-> report]
      /\ \A q \in Programs \ {p} : out'[q] = out[q]
  BY DEF Typed
<1>. QED BY <1>1 DEF Typed

LEMMA RecordTypes ==
  ASSUME Typed, NEW verdict \in BOOLEAN, Record(verdict)
  PROVE  /\ pass' \in Nat /\ fail' \in Nat /\ pass' + fail' = pass + fail + 1
         /\ fail' = 0 => fail = 0 /\ verdict
BY DEF Typed, Record

LEMMA TypedStep ==
  ASSUME Typed, [Next]_vars
  PROVE  Typed'
<1> USE BoundsAssumption
<1>w. Where
  BY WhereCommandsAre
<1>p. "c06_broken" \in Programs /\ "c06_fixed" \in Programs
  BY ProgramsAre
<1>s. script' = script => Size' = Size
  BY DEF Size
<1>n. (\A c : At(c) => step + 1 \in 1..Size + 1) /\ 48 = 47 + 1
  BY <1>w DEF Where, Typed, Size
<1>1. CASE Compile
  <2>1. Current \in Programs /\ step' \in 1..Size + 1 /\ script' = script
    BY <1>1, <1>w, <1>n DEF Where, Compile
  <2>2. built' \subseteq Programs /\ deviations' \in 0..MaxDeviations
    BY <1>1, <2>1 DEF Compile, Typed
  <2>. QED BY <1>1, <1>s, <2>1, <2>2 DEF Compile, Typed
<1>2. CASE Capture
  <2>1. Current \in Programs /\ step' \in 1..Size + 1 /\ script' = script
    BY <1>2, <1>w, <1>n DEF Where, Capture
  <2>2. PICK report \in Range(Reports[Current]) \cup {NotFound} :
          Prints(Current, report)
          /\ out' = [out EXCEPT ![Current] = [run |-> run, report |-> report]]
    BY <1>2 DEF Capture
  <2>3. report \in Possible(Current) /\ deviations' \in 0..MaxDeviations
    BY <2>1, <2>2, PrintsPossible DEF Typed
  <2>4. run \in 0..run
    BY DEF Typed
  <2>5. DOMAIN out' = Programs
        /\ \A q \in Programs : out'[q].run \in 0..run /\ out'[q].report \in Possible(q)
    BY <2>1, <2>2, <2>3, <2>4, ReplacedEvidence
  <2>. QED BY <1>2, <1>s, <2>1, <2>3, <2>5 DEF Capture, Typed
<1>3. CASE Scratch
  <2>1. Current \in DOMAIN scratch /\ step' \in 1..Size + 1 /\ script' = script
    BY <1>3, <1>w, <1>n DEF Where, Scratch, Typed
  <2>2. PICK report \in Range(Reports[Current]) \cup {NotFound} :
          Prints(Current, report) /\ scratch' = [scratch EXCEPT ![Current] = report]
    BY <1>3 DEF Scratch
  <2>3. report \in Possible(Current) /\ deviations' \in 0..MaxDeviations
    BY <1>p, <2>1, <2>2, PrintsPossible DEF Typed
  <2>4. DOMAIN scratch' = DOMAIN scratch
        /\ \A p \in DOMAIN scratch : scratch'[p] \in Possible(p)
    BY <2>1, <2>2, <2>3 DEF Typed
  <2>. QED BY <1>3, <1>s, <2>1, <2>3, <2>4 DEF Scratch, Typed
<1>4. CASE SomeCheck \/ CheckBounds
  <2>1. step' \in 1..Size + 1 /\ script' = script
    BY <1>4, <1>n DEF SomeCheck, CheckBounds, Check
  <2>2. pass' \in Nat /\ fail' \in Nat
    BY <1>4 DEF SomeCheck, Passes, Fails, CheckBounds, Check, Record, Typed
  <2>. QED BY <1>4, <2>1, <2>2, <1>s DEF SomeCheck, CheckBounds, Check, Typed
<1>5. CASE Conclude
  <2>1. script' = script /\ script = "run-all" /\ step = 45 /\ Len(Script) = Size
    BY <1>5, <1>w, SizeIs DEF Where, Conclude, Typed
  <2>2. step' \in 1..Size + 1
    <3>1. step' \in {step + 1, Size + 1}
      BY <1>5, <2>1 DEF Conclude
    <3>. QED BY <2>1, <3>1 DEF Size
  <2>3. pass' \in Nat /\ fail' \in Nat
    BY <1>5, RecordTypes DEF Conclude, Typed
  <2>4. run \in 0..run /\ scratch.c06_broken \in Possible("c06_broken")
    BY DEF Typed
  <2>5. DOMAIN out' = Programs
        /\ \A q \in Programs : out'[q].run \in 0..run /\ out'[q].report \in Possible(q)
    BY <1>5, <1>p, <2>4, ReplacedEvidence DEF Conclude, Keep, Typed
  <2>. QED BY <1>5, <1>s, <2>1, <2>2, <2>3, <2>5 DEF Conclude, Typed
<1>6. CASE Copy
  <2>1. script' = script /\ step' \in 1..Size + 1
    BY <1>6, <1>n DEF Copy
  <2>2. pass' \in Nat /\ fail' \in Nat
    BY <1>6, RecordTypes DEF Copy
  <2>3. run \in 0..run /\ scratch.c06_fixed \in Possible("c06_fixed")
    BY DEF Typed
  <2>4. DOMAIN out' = Programs
        /\ \A q \in Programs : out'[q].run \in 0..run /\ out'[q].report \in Possible(q)
    BY <1>6, <1>p, <2>3, ReplacedEvidence DEF Copy, Keep
  <2>. QED BY <1>6, <1>s, <2>1, <2>2, <2>4 DEF Copy, Typed
<1>7. CASE Image
  BY <1>7, <1>s, <1>n DEF Image, Typed
<1>8. CASE Tee
  <2>1. Current \in Programs /\ step' \in 1..Size + 1 /\ script' = script
    BY <1>8, <1>w, <1>n, <1>p DEF Where, Tee
  <2>2. PICK report \in Range(Reports[Current]) \cup {NotFound} :
          /\ deviations' = deviations + (IF image = 0 \/ report \in Usual(Current) THEN 0 ELSE 1)
          /\ deviations' <= MaxDeviations
          /\ out' = [out EXCEPT ![Current] = [run |-> run, report |-> report]]
    BY <1>8 DEF Tee
  <2>3. report \in Possible(Current) /\ run \in 0..run /\ deviations' \in 0..MaxDeviations
    BY <2>2 DEF Typed, Possible
  <2>4. DOMAIN out' = Programs
        /\ \A q \in Programs : out'[q].run \in 0..run /\ out'[q].report \in Possible(q)
    BY <2>1, <2>2, <2>3, ReplacedEvidence
  <2>. QED BY <1>8, <1>s, <2>1, <2>3, <2>4 DEF Tee, Typed
<1>9. CASE Matrix
  BY <1>9, <1>s, <1>n DEF Matrix, Typed
<1>10. CASE Exit
  BY <1>10, <1>s DEF Exit, Typed
<1>11. CASE Kill
  <2>1. run \in 0..run
    BY DEF Typed
  <2>2. DOMAIN out' = Programs /\ matrix' \in 0..run
        /\ \A q \in Programs : out'[q].run \in 0..run /\ out'[q].report \in Possible(q)
    <3>1. CASE out' = out
      BY <1>11, <2>1, <3>1 DEF Kill, Typed
    <3>2. CASE (At("capture") \/ At("tee")) /\ UNCHANGED matrix
               /\ out' = [out EXCEPT ![Current] = [run |-> run, report |-> NotFound]]
      <4>1. Current \in Programs
        BY <3>2, <1>11, <1>w, <1>p DEF Where, Kill
      <4>. QED BY <3>2, <4>1, <2>1, NothingIsPossible, ReplacedEvidence DEF Typed
    <3>. QED BY <1>11, <3>1, <3>2 DEF Kill
  <2>. QED BY <1>11, <1>s, <2>2 DEF Kill, Typed
<1>12. CASE Again
  <2>1. DOMAIN scratch' = DOMAIN scratch /\ \A p \in DOMAIN scratch : scratch'[p] \in Possible(p)
    BY <1>12, NothingIsPossible DEF Again
  <2>2. step' \in 1..Size' + 1 /\ script' \in {"run-all", "container"} /\ run' \in 1..MaxRuns
    BY <1>12 DEF Again, Size, Typed
  <2>. QED BY <1>12, <2>1, <2>2 DEF Again, Typed
<1>13. CASE Finished \/ UNCHANGED vars
  BY <1>13, <1>s DEF Finished, vars, Typed, Size
<1>. QED BY <1>1, <1>2, <1>3, <1>4, <1>5, <1>6, <1>7, <1>8, <1>9, <1>10, <1>11, <1>12, <1>13, NextIs
LEMMA RangeOfFive ==
  ASSUME NEW a, NEW b, NEW c, NEW d, NEW e
  PROVE  Range(<<a, b, c, d, e>>) = {a, b, c, d, e}
<1> DEFINE T == <<a, b, c, d, e>>
<1>1. DOMAIN T = 1..5 /\ T[1] = a /\ T[2] = b /\ T[3] = c /\ T[4] = d /\ T[5] = e
  OBVIOUS
<1> HIDE DEF T
<1>2. Range(T) = {a, b, c, d, e}
  <2>1. \A i \in 1..5 : i \in {1,2,3,4,5}
    OBVIOUS
  <2>2. \A x : x \in Range(T) <=> \E i \in 1..5 : x = T[i]
    BY <1>1 DEF Range
  <2>3. \A x : x \in Range(T) <=> x \in {a, b, c, d, e}
    BY <1>1, <2>2, <2>1
  <2>. QED BY <2>3
<1>. QED BY <1>2 DEF T

LEMMA WaitedIsConclusive ==
  \A s \in Range(Reports["c06_broken"]) : "waited" \in s => "inconclusive" \notin s
<1> DEFINE A == {"waited"}
           B == {"inconclusive"}
           C == {"none observed"}
           D == {"bad calibration"}
           E == {}
<1>1. Reports["c06_broken"] = <<A, B, C, D, E>>
  BY DEF Reports
<1>2. /\ "inconclusive" \notin A /\ "waited" \notin B /\ "waited" \notin C
      /\ "waited" \notin D /\ "waited" \notin E
  OBVIOUS
<1> HIDE DEF A, B, C, D, E
<1>3. Range(<<A, B, C, D, E>>) = {A, B, C, D, E}
  BY RangeOfFive
<1>. QED BY <1>1, <1>2, <1>3

LEMMA DiagnosesAreReports ==
  \A s \in Range(Reports["c02_broken"]) :
    s \cap {"inversion", "cycle"} # {} => s \in {{"cycle"}, {"inversion"}}
<1> DEFINE A == {"cycle"}
           B == {"inversion"}
           C == {"exit 124"}
           D == {}
<1>1. Reports["c02_broken"] = <<A, B, C, D>>
  BY DEF Reports
<1> HIDE DEF A, B, C, D
<1>2. Range(<<A, B, C, D>>) = {A, B, C, D}
  BY DEF Range
<1>3. \A s \in Range(Reports["c02_broken"]) : s \in {A, B, C, D}
  BY <1>1, <1>2
<1>. QED BY <1>3 DEF A, B, C, D

\* Only a script that ends, is killed or starts anew changes its exit code.
LEMMA Idle ==
  ASSUME Next
  PROVE  \/ exitCode = Running /\ exitCode' = Running
         \/ Exit \/ Kill \/ Again \/ Finished
BY NextIs DEF Compile, Capture, Scratch, SomeCheck, Conclude, Copy, CheckBounds, Check, Image, Tee,
   Matrix, At

\* One lemma for each part of the invariant.
LEMMA EndedStep ==
  ASSUME Typed, Ended, [Next]_vars
  PROVE  Ended'
<1>1. CASE exitCode' = Running
  BY <1>1 DEF Ended, Running
<1>2. CASE Exit
  <2>1. step' = Size + 1 /\ Size' = Size
    BY <1>2, SizeIs DEF Exit, Size, Typed
  <2>. QED BY <1>2, <2>1 DEF Exit, Ended, Succeeded
<1>3. CASE Kill
  BY <1>3 DEF Kill, Ended, Killed
<1>4. CASE Again
  BY <1>4, <1>1 DEF Again
<1>5. CASE Finished \/ UNCHANGED vars
  BY <1>5 DEF Finished, vars, Ended, Size, Succeeded
<1>. QED BY <1>1, <1>2, <1>3, <1>4, <1>5, Idle

LEMMA TallyStep ==
  ASSUME Typed, Tally, [Next]_vars
  PROVE  Tally'
<1>w. Where
  BY WhereCommandsAre
<1>e. scratch' = scratch => Expected' = Expected
  BY DEF Expected
<1>t. "c06_broken" \in DOMAIN scratch /\ pass \in Nat /\ fail \in Nat
  BY DEF Typed
<1>1. CASE Compile \/ Capture \/ Scratch
  <2>1. PICK c \in {"compile", "capture", "scratch"} : At(c)
    BY <1>1 DEF Compile, Capture, Scratch
  <2>2. script = "run-all" /\ step \in 1..44 /\ RunAll[step].do = c /\ JudgedNext(step)
    BY <2>1, <1>w, JudgedOfRunAll DEF Where
  <2>3. Judged(step + 1) = Judged(step)
    BY <2>2 DEF JudgedNext, JudgingCommands, CheckCommands
  <2>4. script' = script /\ step' = step + 1 /\ pass' = pass /\ fail' = fail
    BY <1>1 DEF Compile, Capture, Scratch
  <2>. QED BY <2>2, <2>3, <2>4 DEF Tally
<1>2. CASE SomeCheck
  <2>1. PICK c \in CheckCommands : At(c)
    BY <1>2 DEF SomeCheck
  <2>2. script = "run-all" /\ step \in 1..42 /\ RunAll[step].do = c /\ JudgedNext(step)
    BY <2>1, <1>w, JudgedOfRunAll DEF Where
  <2>3. Judged(step + 1) = Judged(step) + 1
    BY <2>2 DEF JudgedNext, JudgingCommands
  <2>4. script' = script /\ step' = step + 1 /\ pass' + fail' = pass + fail + 1
    BY <1>2, <1>t DEF SomeCheck, Passes, Fails
  <2>. QED BY <2>2, <2>3, <2>4 DEF Tally
<1>3. CASE Conclude
  <2>1. script = "run-all" /\ step = 45 /\ Len(Script) = Size /\ Size = 47
    BY <1>3, <1>w, SizeIs DEF Where, Conclude, Typed, Size
  <2>2. pass + fail = 14 /\ Judged(46) = 14
    BY <2>1 DEF Tally, Judged, Within
  <2>3. script' = script /\ Expected' = Expected /\ scratch' = scratch
    BY <1>3, <1>e DEF Conclude
  <2>4. CASE "waited" \in scratch.c06_broken
    BY <1>3, <2>1, <2>2, <2>3, <2>4 DEF Conclude, Tally
  <2>5. CASE "waited" \notin scratch.c06_broken /\ "inconclusive" \in scratch.c06_broken
    <3>1. step' = 48 /\ pass' = pass /\ fail' = fail
      <4>1. step' = Size + 1 /\ pass' = pass /\ fail' = fail
        BY <1>3, <2>1, <2>5 DEF Conclude
      <4>. QED BY <4>1, <2>1
    <3>2. Expected = 14
      BY <2>5 DEF Expected
    <3>. QED BY <2>1, <2>2, <2>3, <2>5, <3>1, <3>2 DEF Tally
  <2>6. CASE "waited" \notin scratch.c06_broken /\ "inconclusive" \notin scratch.c06_broken
    <3>1. step' = 48 /\ pass' = pass /\ fail' = fail + 1
      <4>1. step' = Size + 1 /\ pass' = pass /\ fail' = fail + 1
        BY <1>3, <2>1, <2>6 DEF Conclude, Record
      <4>. QED BY <4>1, <2>1
    <3>2. Expected = 15
      BY <2>6 DEF Expected
    <3>. QED BY <1>t, <2>1, <2>2, <2>3, <3>1, <3>2 DEF Tally
  <2>. QED BY <2>4, <2>5, <2>6
<1>4. CASE Copy
  <2>1. script = "run-all" /\ step = 46
    BY <1>4, <1>w DEF Where, Copy
  <2>2. pass + fail = 14 /\ Judged(47) = 15 /\ "waited" \in scratch.c06_broken
    BY <2>1 DEF Tally, Judged, Within
  <2>3. script' = script /\ scratch' = scratch /\ step' = 47 /\ pass' + fail' = pass + fail + 1
    BY <1>4, <1>t, <2>1 DEF Copy, Record
  <2>. QED BY <2>1, <2>2, <2>3 DEF Tally
<1>5. CASE CheckBounds
  <2>1. script = "run-all" /\ step = 47
    BY <1>5, <1>w DEF Where, CheckBounds, Check
  <2>2. pass + fail = 15 /\ "waited" \in scratch.c06_broken
    BY <2>1 DEF Tally, Judged, Within
  <2>3. /\ script' = script /\ scratch' = scratch /\ step' = 48 /\ pass' + fail' = pass + fail + 1
        /\ fail' = 0 => "bounded" \in scratch.c06_fixed
    BY <1>5, <1>t, <2>1 DEF CheckBounds, Check, Record
  <2>4. "inconclusive" \notin scratch.c06_broken
    BY <2>2, WaitedIsConclusive DEF Typed, Possible, NotFound
  <2>5. Expected' = 16
    BY <2>2, <2>3, <2>4, <1>e DEF Expected
  <2>. QED BY <2>1, <2>2, <2>3, <2>5 DEF Tally
<1>6. CASE Image \/ Tee \/ Matrix
  <2>1. script = "container"
    BY <1>6, <1>w DEF Where, Image, Tee, Matrix
  <2>. QED BY <1>6, <2>1 DEF Image, Tee, Matrix, Tally
<1>7. CASE Exit \/ Kill
  BY <1>7, <1>e DEF Exit, Kill, Tally
<1>8. CASE Again
  BY <1>8 DEF Again, Tally, Judged, Within
<1>9. CASE Finished \/ UNCHANGED vars
  BY <1>9, <1>e DEF Finished, vars, Tally
<1>. QED BY <1>1, <1>2, <1>3, <1>4, <1>5, <1>6, <1>7, <1>8, <1>9, NextIs

\* What a step does to the evidence of a run of run-all.sh.
LEMMA EvidenceWritten ==
  ASSUME Typed, Next, script = "run-all", run' = run
  PROVE  \/ out' = out
         \/ /\ At("capture") /\ \A q \in Programs \ {Current} : out'[q] = out[q]
            /\ out'[Current].run = run
            /\ out'[Current].report # {} => Current \in built
         \/ \A q \in Programs \ {"c06_broken", "c06_fixed"} : out'[q] = out[q]
<1>w. Where
  BY WhereCommandsAre
<1>1. CASE Capture
  <2>1. At("capture") /\ Current \in Programs
    BY <1>1, <1>w DEF Where, Capture
  <2>2. PICK report \in Range(Reports[Current]) \cup {NotFound} :
          Prints(Current, report)
          /\ out' = [out EXCEPT ![Current] = [run |-> run, report |-> report]]
    BY <1>1 DEF Capture
  <2>3. report \in Possible(Current) /\ (report # {} => Current \in built) /\ run \in 0..run
    BY <2>1, <2>2, PrintsPossible DEF Typed
  <2>. QED BY <2>1, <2>2, <2>3, ReplacedEvidence
<1>2. CASE Kill
  <2>1. SUFFICES ASSUME out' # out
                 PROVE  /\ At("capture") /\ \A q \in Programs \ {Current} : out'[q] = out[q]
                        /\ out'[Current].run = run /\ out'[Current].report = {}
    BY Zenon
  <2>2. At("capture") /\ out' = [out EXCEPT ![Current] = [run |-> run, report |-> NotFound]]
    BY <1>2, <1>w, <2>1 DEF Kill, Where
  <2>3. Current \in Programs /\ run \in 0..run /\ NotFound \in Possible(Current)
    BY <2>2, <1>w, NothingIsPossible DEF Where, Typed
  <2>. QED BY <2>2, <2>3, ReplacedEvidence DEF NotFound
<1>3. CASE Conclude \/ Copy
  BY <1>3 DEF Conclude, Copy, Keep, Typed
<1>4. CASE Tee
  BY <1>4, <1>w DEF Tee, Where
<1>. QED BY <1>1, <1>2, <1>3, <1>4, NextIs DEF Compile, Scratch, SomeCheck, CheckBounds, Check,
     Image, Matrix, Exit, Again, Finished, vars

\* What a step does to the rest of it.
LEMMA StepInRunAll ==
  ASSUME Typed, Next, script' = "run-all", step' # 1
  PROVE  /\ script = "run-all" /\ run' = run /\ built \subseteq built'
         /\ \/ step' = step /\ fail' = fail
            \/ /\ step \in 1..47 /\ step' = step + 1
               /\ fail' = 0 => fail = 0
               /\ fail' = 0 /\ RunAll[step].do \in CheckCommands =>
                    Holds(RunAll[step]) /\ out' = out
               /\ RunAll[step].do = "capture" => At("capture") /\ Capture
            \/ step = 45 /\ step' = 48 /\ (fail' = 0 => fail = 0)
<1>w. Where
  BY WhereCommandsAre
<1>t. fail \in Nat /\ pass \in Nat /\ 48 = 47 + 1
  BY DEF Typed
<1>1. CASE Compile \/ Capture \/ Scratch
  <2>1. PICK c \in {"compile", "capture", "scratch"} : At(c)
    BY <1>1 DEF Compile, Capture, Scratch
  <2>2. script = "run-all" /\ step \in 1..47 /\ RunAll[step].do = c
    BY <2>1, <1>w DEF Where
  <2>3. RunAll[step].do = "capture" => At("capture") /\ Capture
    BY <1>1, <2>1, <2>2, <1>w DEF Where, Compile, Scratch, Capture
  <2>. QED BY <1>1, <2>1, <2>2, <2>3 DEF Compile, Capture, Scratch, CheckCommands
<1>2. CASE SomeCheck
  <2>1. PICK c \in CheckCommands : At(c)
    BY <1>2 DEF SomeCheck
  <2>2. script = "run-all" /\ step \in 1..47 /\ RunAll[step].do = c /\ Script = RunAll
    BY <2>1, <1>w DEF Where
  <2>3. fail' = 0 => fail = 0 /\ Holds(RunAll[step])
    BY <1>2, <1>t, <2>2 DEF SomeCheck, Passes, Fails
  <2>. QED BY <1>2, <2>1, <2>2, <2>3 DEF SomeCheck, CheckCommands
<1>3. CASE Conclude
  <2>1. At("conclude") /\ script = "run-all" /\ step = 45 /\ RunAll[step].do = "conclude"
        /\ Len(Script) = Size /\ Size = 47
    BY <1>3, <1>w, SizeIs DEF Where, Conclude, Typed, Size
  <2>2. step' \in {step + 1, Size + 1} /\ (fail' = 0 => fail = 0)
    BY <1>3, <2>1, <1>t DEF Conclude, Record
  <2>. QED BY <1>3, <2>1, <2>2 DEF Conclude, CheckCommands
<1>4. CASE Copy \/ CheckBounds
  <2>1. PICK c \in {"copy", "bounds"} : At(c)
    BY <1>4 DEF Copy, CheckBounds, Check
  <2>2. script = "run-all" /\ step \in 1..47 /\ RunAll[step].do = c
    BY <2>1, <1>w, <1>4 DEF Where, Copy, CheckBounds, Check
  <2>3. fail' = 0 => fail = 0
    BY <1>4, <1>t DEF Copy, CheckBounds, Check, Record
  <2>. QED BY <1>4, <2>1, <2>2, <2>3 DEF Copy, CheckBounds, Check, CheckCommands
<1>5. CASE Image \/ Tee \/ Matrix
  BY <1>5, <1>w DEF Where, Image, Tee, Matrix
<1>6. CASE Exit \/ Kill \/ Again \/ Finished
  BY <1>6 DEF Exit, Kill, Again, Finished, vars
<1>. QED BY <1>1, <1>2, <1>3, <1>4, <1>5, <1>6, NextIs

LEMMA OfThisRunStill ==
  ASSUME Typed, Next, script = "run-all", run' = run, built \subseteq built',
         NEW p \in Programs \ {"c06_broken", "c06_fixed"}, OfThisRun(p)
  PROVE  OfThisRun(p)'
BY EvidenceWritten DEF OfThisRun, Evidence

LEMMA FreshStep ==
  ASSUME Typed, Fresh, [Next]_vars
  PROVE  Fresh'
<1>1. CASE UNCHANGED vars
  BY <1>1 DEF vars, Fresh, OfThisRun, Evidence
<1>2. CASE Next
  <2>1. SUFFICES ASSUME script' = "run-all", NEW j \in 1..47, j < step', RunAll[j].do = "capture"
                 PROVE  OfThisRun(RunAll[j].of)'
    BY DEF Fresh
  <2>2. step' # 1 /\ Kinds(j)
    BY <2>1, KindsOfRunAll
  <2>3. /\ script = "run-all" /\ run' = run /\ built \subseteq built'
        /\ RunAll[j].of \in Programs \ {"c06_broken", "c06_fixed"}
    BY <1>2, <2>1, <2>2, StepInRunAll DEF Kinds
  <2>4. CASE j < step
    <3>1. OfThisRun(RunAll[j].of)
      BY <2>1, <2>3, <2>4 DEF Fresh
    <3>. QED BY <1>2, <2>3, <3>1, OfThisRunStill
  <2>5. CASE ~(j < step)
    <3>1. j = step /\ At("capture") /\ Capture /\ Where
      BY <1>2, <2>1, <2>2, <2>5, StepInRunAll, WhereCommandsAre DEF Kinds, Typed
    <3>2. Current = RunAll[j].of
      BY <3>1 DEF Where
    <3>3. PICK report \in Range(Reports[Current]) \cup {NotFound} :
            Prints(Current, report)
            /\ out' = [out EXCEPT ![Current] = [run |-> run, report |-> report]]
      BY <3>1 DEF Capture
    <3>4. report \in Possible(Current) /\ (report # {} => Current \in built) /\ run \in 0..run
      BY <2>3, <3>2, <3>3, PrintsPossible DEF Typed
    <3>5. out'[Current].run = run /\ out'[Current].report = report
      BY <2>3, <3>2, <3>3, <3>4, ReplacedEvidence
    <3>. QED BY <2>3, <3>2, <3>4, <3>5 DEF OfThisRun, Evidence
  <2>. QED BY <2>4, <2>5
<1>. QED BY <1>1, <1>2

\* A check that would pass still would, while its evidence is the same.
LEMMA HoldsStill ==
  ASSUME NEW command, Holds(command), \A p \in Subjects(command) : out'[p] = out[p]
  PROVE  Holds(command)'
BY DEF Holds, Found, Evidence, Subjects

LEMMA VerdictsStep ==
  ASSUME Typed, Verdicts, [Next]_vars
  PROVE  Verdicts'
<1>1. CASE UNCHANGED vars
  <2>1. \A command : Holds(command) => Holds(command)'
    BY <1>1, HoldsStill DEF vars
  <2>. QED BY <1>1, <2>1 DEF vars, Verdicts
<1>2. CASE Next
  <2>1. SUFFICES ASSUME script' = "run-all", fail' = 0, NEW j \in 1..47, j < step'
                 PROVE  Holds(RunAll[j])'
    BY DEF Verdicts
  <2>2. step' # 1 /\ Kinds(j) /\ Grouped(j)
    BY <2>1, KindsOfRunAll, GroupedByCase
  <2>3. script = "run-all" /\ run' = run /\ fail = 0 /\ step \in Nat
    BY <1>2, <2>1, <2>2, StepInRunAll DEF Typed
  <2>4. CASE RunAll[j].do \notin CheckCommands
    BY <2>4 DEF Holds, CheckCommands
  <2>5. CASE RunAll[j].do \in CheckCommands /\ j < step
    <3>1. Holds(RunAll[j])
      BY <2>3, <2>5 DEF Verdicts
    <3>2. Subjects(RunAll[j]) \subseteq Programs \ {"c06_broken", "c06_fixed"}
      BY <2>2 DEF Grouped, CaseOfProgram
    <3>3. ASSUME At("capture") PROVE Current \notin Subjects(RunAll[j])
      <4>1. step \in 1..47 /\ RunAll[step].do = "capture" /\ Current = RunAll[step].of
        BY <3>3, <2>3, WhereCommandsAre DEF Where
      <4>2. j \in 1..step - 1
        BY <2>3, <2>5
      <4>. QED BY <4>1, <4>2, CapturesSpareTheJudged
    <3>4. \A p \in Subjects(RunAll[j]) : out'[p] = out[p]
      BY <1>2, <2>3, <3>2, <3>3, EvidenceWritten
    <3>. QED BY <3>1, <3>4, HoldsStill
  <2>6. CASE RunAll[j].do \in CheckCommands /\ ~(j < step)
    <3>1. j = step /\ Holds(RunAll[j]) /\ out' = out
      BY <1>2, <2>1, <2>2, <2>3, <2>6, StepInRunAll DEF Kinds
    <3>. QED BY <3>1, HoldsStill
  <2>. QED BY <2>4, <2>5, <2>6
<1>. QED BY <1>1, <1>2

LEMMA OrderedStep ==
  ASSUME Typed, Ordered, [Next]_vars
  PROVE  Ordered'
<1>w. Where
  BY WhereCommandsAre
<1>t. /\ run \in Nat /\ Broken06 \in 0..run /\ Fixed06 \in 0..run /\ matrix \in 0..run
      /\ script \in {"run-all", "container"} /\ step \in Nat
      /\ "c06_broken" \in Programs /\ "c06_fixed" \in Programs /\ Running # Killed
  BY ProgramsAre DEF Typed, Broken06, Fixed06, Running, Killed
<1>r. ASSUME NEW p \in Programs, NEW report \in Possible(p),
             out' = [out EXCEPT ![p] = [run |-> run, report |-> report]]
      PROVE  /\ Broken06' = IF p = "c06_broken" THEN run ELSE Broken06
             /\ Fixed06' = IF p = "c06_fixed" THEN run ELSE Fixed06
  <2>1. run \in 0..run
    BY <1>t
  <2>. QED BY <1>r, <1>t, <2>1, ReplacedEvidence DEF Broken06, Fixed06
<1>o. out' = out => Broken06' = Broken06 /\ Fixed06' = Fixed06
  BY DEF Broken06, Fixed06
<1>1. CASE Compile \/ Scratch \/ SomeCheck
  <2>1. /\ script = "run-all" /\ step \in 1..44 /\ exitCode = Running
        /\ script' = script /\ step' = step + 1 /\ exitCode' = exitCode
    BY <1>1, <1>w DEF Where, Compile, Scratch, SomeCheck
  <2>2. Broken06' = Broken06 /\ Fixed06' = Fixed06 /\ UNCHANGED <<matrix, torn, run>>
    BY <1>1, <1>o DEF Compile, Scratch, SomeCheck
  <2>. QED BY <1>t, <2>1, <2>2 DEF Ordered, BetweenTheFiles
<1>2. CASE Capture
  <2>1. /\ script = "run-all" /\ step \in 1..42 /\ exitCode = Running
        /\ script' = script /\ step' = step + 1 /\ exitCode' = exitCode
        /\ Current \in Programs \ {"c06_broken", "c06_fixed"}
    BY <1>2, <1>w DEF Where, Capture
  <2>2. PICK report \in Possible(Current) :
          out' = [out EXCEPT ![Current] = [run |-> run, report |-> report]]
    BY <1>2 DEF Capture, Possible
  <2>3. Broken06' = Broken06 /\ Fixed06' = Fixed06 /\ UNCHANGED <<matrix, torn, run>>
    BY <1>2, <1>r, <2>1, <2>2 DEF Capture
  <2>. QED BY <1>t, <2>1, <2>3 DEF Ordered, BetweenTheFiles
<1>3. CASE Conclude
  <2>1. /\ script = "run-all" /\ step = 45 /\ exitCode = Running /\ Len(Script) = Size /\ Size = 47
        /\ script' = script /\ exitCode' = exitCode
    BY <1>3, <1>w, SizeIs DEF Where, Conclude, Typed, Size
  <2>2. scratch.c06_broken \in Possible("c06_broken")
    BY DEF Typed
  <2>3. UNCHANGED <<matrix, torn, run>>
        /\ \/ step' = step + 1 /\ Broken06' = run /\ Fixed06' = Fixed06
           \/ step' = Size + 1 /\ Broken06' = Broken06 /\ Fixed06' = Fixed06
    <3>1. CASE "waited" \in scratch.c06_broken
      <4>1. out' = [out EXCEPT !["c06_broken"] = [run |-> run, report |-> scratch.c06_broken]]
        BY <1>3, <3>1 DEF Conclude, Keep
      <4>. QED BY <1>3, <1>r, <1>t, <2>2, <3>1, <4>1 DEF Conclude
    <3>2. CASE "waited" \notin scratch.c06_broken
      BY <1>3, <1>o, <2>1, <3>2 DEF Conclude
    <3>. QED BY <3>1, <3>2
  <2>. QED BY <1>t, <2>1, <2>3 DEF Ordered, BetweenTheFiles
<1>4. CASE Copy
  <2>1. /\ script = "run-all" /\ step = 46 /\ exitCode = Running
        /\ script' = script /\ step' = 47 /\ exitCode' = exitCode
    BY <1>4, <1>w DEF Where, Copy
  <2>2. scratch.c06_fixed \in Possible("c06_fixed")
        /\ out' = [out EXCEPT !["c06_fixed"] = [run |-> run, report |-> scratch.c06_fixed]]
    BY <1>4 DEF Typed, Copy, Keep
  <2>3. Broken06' = Broken06 /\ Fixed06' = run /\ UNCHANGED <<matrix, run>>
    BY <1>4, <1>r, <1>t, <2>2 DEF Copy
  <2>. QED BY <1>t, <2>1, <2>3 DEF Ordered, BetweenTheFiles
<1>5. CASE CheckBounds
  <2>1. /\ script = "run-all" /\ step = 47 /\ exitCode = Running
        /\ script' = script /\ step' = 48 /\ exitCode' = exitCode
    BY <1>5, <1>w DEF Where, CheckBounds, Check
  <2>2. Broken06' = Broken06 /\ Fixed06' = Fixed06 /\ UNCHANGED <<matrix, torn, run>>
    BY <1>5, <1>o DEF CheckBounds, Check
  <2>. QED BY <1>t, <2>1, <2>2 DEF Ordered, BetweenTheFiles
<1>6. CASE Image
  <2>1. /\ script = "container" /\ step = 1 /\ exitCode = Running
        /\ script' = script /\ step' = 2 /\ exitCode' = exitCode
    BY <1>6, <1>w DEF Where, Image
  <2>2. Broken06' = Broken06 /\ Fixed06' = Fixed06 /\ UNCHANGED <<matrix, torn, run>>
    BY <1>6, <1>o DEF Image
  <2>. QED BY <1>t, <2>1, <2>2 DEF Ordered, BetweenTheFiles
<1>7. CASE Tee
  <2>1. /\ script = "container" /\ step \in {2, 3} /\ exitCode = Running
        /\ script' = script /\ step' = step + 1 /\ exitCode' = exitCode
        /\ step = 2 => Current = "c06_broken"
        /\ step = 3 => Current = "c06_fixed"
    BY <1>7, <1>w DEF Where, Tee
  <2>2. PICK report \in Possible(Current) :
          out' = [out EXCEPT ![Current] = [run |-> run, report |-> report]]
    BY <1>7 DEF Tee, Possible
  <2>3. UNCHANGED <<matrix, run>> /\ (step = 2 => (torn' <=> torn))
    BY <1>7, <2>1 DEF Tee
  <2>4. CASE step = 2
    <3>1. Broken06' = run /\ Fixed06' = Fixed06
      BY <1>r, <1>t, <2>1, <2>2, <2>4
    <3>. QED BY <1>t, <2>1, <2>3, <2>4, <3>1 DEF Ordered, BetweenTheFiles
  <2>5. CASE step = 3
    <3>1. Broken06' = Broken06 /\ Fixed06' = run /\ Broken06 = run
      BY <1>r, <1>t, <2>1, <2>2, <2>5 DEF Ordered, BetweenTheFiles
    <3>. QED BY <1>t, <2>1, <2>3, <2>5, <3>1 DEF Ordered, BetweenTheFiles
  <2>. QED BY <2>1, <2>4, <2>5
<1>8. CASE Matrix
  <2>1. /\ script = "container" /\ step = 4 /\ exitCode = Running
        /\ script' = script /\ step' = 5 /\ exitCode' = exitCode
    BY <1>8, <1>w DEF Where, Matrix
  <2>2. Broken06' = Broken06 /\ Fixed06' = Fixed06 /\ matrix' = run /\ UNCHANGED <<torn, run>>
    BY <1>8, <1>o DEF Matrix
  <2>. QED BY <1>t, <2>1, <2>2 DEF Ordered, BetweenTheFiles
<1>9. CASE Exit
  <2>1. Broken06' = Broken06 /\ Fixed06' = Fixed06 /\ UNCHANGED <<matrix, torn, run, script, step>>
    BY <1>9, <1>o DEF Exit
  <2>2. ~BetweenTheFiles
    <3>1. step = Size + 1
      BY <1>9, <1>t, SizeIs DEF Exit
    <3>. QED BY <3>1 DEF BetweenTheFiles, Size
  <2>3. ~BetweenTheFiles'
    BY <1>9 DEF Exit, BetweenTheFiles, Running
  <2>. QED BY <1>t, <2>1, <2>2, <2>3 DEF Ordered, BetweenTheFiles
<1>10. CASE Kill
  <2>1. exitCode = Running /\ ~BetweenTheFiles' /\ UNCHANGED <<script, run, step>>
    BY <1>10, <1>t DEF Kill, BetweenTheFiles
  <2>2. torn' <=> torn \/ At("copy") \/ At("tee")
    BY <1>10 DEF Kill
  <2>3. BetweenTheFiles => torn'
    BY <1>t, <1>w, <2>2 DEF Where, BetweenTheFiles
  <2>4. CASE UNCHANGED <<out, matrix>>
    BY <1>o, <1>t, <2>1, <2>2, <2>3, <2>4 DEF Ordered
  <2>5. CASE At("matrix") /\ matrix' = run /\ UNCHANGED out
    <3>1. script = "container" /\ step = 4
      BY <2>5, <1>w DEF Where
    <3>. QED BY <1>o, <1>t, <2>1, <2>2, <2>3, <2>5, <3>1 DEF Ordered
  <2>6. CASE At("capture") /\ UNCHANGED matrix
             /\ out' = [out EXCEPT ![Current] = [run |-> run, report |-> NotFound]]
    <3>1. Current \in Programs \ {"c06_broken", "c06_fixed"} /\ NotFound \in Possible(Current)
      BY <1>w, <2>6, NothingIsPossible DEF Where
    <3>2. Broken06' = Broken06 /\ Fixed06' = Fixed06
      BY <1>r, <2>6, <3>1
    <3>. QED BY <1>t, <2>1, <2>2, <2>3, <2>6, <3>2 DEF Ordered
  <2>7. CASE At("tee") /\ UNCHANGED matrix
             /\ out' = [out EXCEPT ![Current] = [run |-> run, report |-> NotFound]]
    <3>1. /\ script = "container" /\ step \in {2, 3} /\ torn' /\ NotFound \in Possible(Current)
          /\ step = 2 => Current = "c06_broken"
          /\ step = 3 => Current = "c06_fixed" /\ Broken06 = run
      BY <1>w, <2>1, <2>2, <2>7, NothingIsPossible DEF Where, Ordered, BetweenTheFiles
    <3>2. CASE step = 2
      <4>1. Broken06' = run /\ Fixed06' = Fixed06
        BY <1>r, <1>t, <2>7, <3>1, <3>2
      <4>. QED BY <1>t, <2>1, <2>7, <3>1, <3>2, <4>1 DEF Ordered
    <3>3. CASE step = 3
      <4>1. Broken06' = Broken06 /\ Fixed06' = run
        BY <1>r, <1>t, <2>7, <3>1, <3>3
      <4>. QED BY <1>t, <2>1, <2>7, <3>1, <3>3, <4>1 DEF Ordered
    <3>. QED BY <3>1, <3>2, <3>3
  <2>. QED BY <1>10, <2>4, <2>5, <2>6, <2>7 DEF Kill
<1>11. CASE Again
  <2>1. ~BetweenTheFiles /\ ~BetweenTheFiles' /\ step' = 1
        /\ Broken06' = Broken06 /\ Fixed06' = Fixed06 /\ UNCHANGED <<matrix, torn>>
    BY <1>11, <1>o DEF Again, BetweenTheFiles
  <2>. QED BY <1>t, <2>1 DEF Ordered
<1>12. CASE Finished \/ UNCHANGED vars
  BY <1>12, <1>o DEF Finished, vars, Ordered, BetweenTheFiles
<1>. QED BY <1>1, <1>2, <1>3, <1>4, <1>5, <1>6, <1>7, <1>8, <1>9, <1>10, <1>11, <1>12, NextIs

--------------------------------------------------------------------------------
(* The theorems.                                                             *)

LEMMA IInvInit == Init => IInv
<1> SUFFICES ASSUME Init PROVE IInv
  OBVIOUS
<1>1. Typed
  BY TypedInit
<1>2. Ended /\ Fresh /\ Verdicts
  BY DEF Init, Ended, Fresh, Verdicts, Running
<1>3. Tally
  BY DEF Init, Tally, Judged, Within
<1>4. Ordered
  <2>1. Broken06 = 0 /\ Fixed06 = 0
    BY ProgramsAre DEF Init, Broken06, Fixed06
  <2>. QED BY <2>1 DEF Init, Ordered, BetweenTheFiles
<1>. QED BY <1>1, <1>2, <1>3, <1>4 DEF IInv

LEMMA IInvStep == IInv /\ [Next]_vars => IInv'
BY TypedStep, EndedStep, TallyStep, FreshStep, VerdictsStep, OrderedStep DEF IInv

\* The invariant holds in every state: of any number of runs, of either script, killed
\* anywhere.
THEOREM Invariance == Spec => []IInv
BY IInvInit, IInvStep, PTL DEF Spec

\* Every file holds a report its program can make, and the tally never exceeds the 16
\* checks of run-all.sh (run-all.sh:45-59, 69-78).
THEOREM TypeCorrect == Spec => []TypeOK
<1>1. IInv => TypeOK
  <2> SUFFICES ASSUME IInv PROVE TypeOK
    OBVIOUS
  <2>1. Len(Script) = Size /\ step \in 1..Size + 1
    BY SizeIs DEF IInv, Typed
  <2>2. step \in 1..Len(Script) + 1
    BY <2>1
  <2>3. pass \in 0..16 /\ fail \in 0..16
    <3>1. pass + fail \in 0..16
      <4>1. CASE script = "container"
        BY <4>1 DEF IInv, Tally
      <4>2. CASE script = "run-all" /\ step \in 1..47
        <5>1. pass + fail = Judged(step) /\ JudgedNext(step)
          BY <4>2, JudgedOfRunAll DEF IInv, Tally
        <5>. QED BY <5>1 DEF JudgedNext
      <4>3. CASE script = "run-all" /\ step = 48
        BY <4>3 DEF IInv, Tally, Expected
      <4>. QED BY <4>1, <4>2, <4>3 DEF IInv, Typed, Size
    <3>. QED BY <3>1 DEF IInv, Typed
  <2>. QED BY <2>2, <2>3 DEF IInv, Typed, TypeOK, Possible
<1>. QED BY <1>1, Invariance, PTL

\* A check of run-all.sh judges only what this run captured: whatever failed to build
\* left an empty report and not the one of an earlier run (run-all.sh:45-59).
THEOREM VerdictsAreFresh == Spec => []NoStaleVerdict
<1>1. IInv => NoStaleVerdict
  <2> SUFFICES ASSUME IInv, exitCode = Running, step <= Len(Script),
                      NEW p \in Subjects(Script[step])
               PROVE  out[p].run = run
    BY DEF NoStaleVerdict
  <2>1. CASE script = "run-all"
    <3>1. Script = RunAll /\ Len(Script) = Size /\ Size = 47
      BY <2>1, SizeIs DEF Script, Size
    <3>2. step <= Size
      BY <3>1
    <3>3. step \in 1..47
      BY <3>1, <3>2 DEF IInv, Typed
    <3>4. CapturedBefore(step)
      BY <3>3, SubjectsAreCaptured
    <3>5. PICK j \in 1..step - 1 : RunAll[j].do = "capture" /\ RunAll[j].of = p
      BY <3>1, <3>4 DEF CapturedBefore
    <3>6. j \in 1..47 /\ j < step
      BY <3>3
    <3>. QED BY <2>1, <3>5, <3>6 DEF IInv, Fresh, OfThisRun
  <2>2. CASE script = "container"
    <3>1. Script = Container /\ Len(Script) = Size /\ Size = 4
      BY <2>2, SizeIs DEF Script, Size
    <3>2. step <= Size
      BY <3>1
    <3>3. step \in 1..4
      BY <3>1, <3>2 DEF IInv, Typed
    <3>4. Container[step].do \in {"image", "tee", "matrix"}
      BY <3>3, ContainerIs DEF Command
    <3>. QED BY <3>1, <3>4 DEF Subjects
  <2>. QED BY <2>1, <2>2 DEF IInv, Typed
<1>. QED BY <1>1, Invariance, PTL

\* The tally that is printed is of 14 checks, and of the two of case 06 when it could be
\* run (run-all.sh:262-280, 286).
THEOREM ChecksAreCounted == Spec => []EveryCheckCounted
<1>1. IInv => EveryCheckCounted
  <2> SUFFICES ASSUME IInv, script = "run-all", exitCode \in {0, 1} PROVE pass + fail = Expected
    BY DEF EveryCheckCounted, Expected
  <2>1. step = 48
    BY DEF IInv, Ended, Size
  <2>. QED BY <2>1 DEF IInv, Tally
<1>. QED BY <1>1, Invariance, PTL

\* The two files of case 06 are of one run, unless a kill came between them
\* (run-all.sh:270-271, run-case-06-container.sh:24-33).
THEOREM EvidencePairsUp == Spec => []EvidenceIsAPair
<1>1. IInv => EvidenceIsAPair
  BY DEF IInv, Ordered, BetweenTheFiles, EvidenceIsAPair, Broken06, Fixed06
<1>. QED BY <1>1, Invariance, PTL

\* A file of case 06 is never newer than those written before it, so a new matrix has
\* new measurements beside it (run-case-06-container.sh:24-72).
THEOREM FilesInOrder == Spec => []EvidenceInOrder
<1>1. IInv => EvidenceInOrder
  BY DEF IInv, Ordered, EvidenceInOrder, Broken06, Fixed06
<1>. QED BY <1>1, Invariance, PTL

\* run-all.sh exits with 0 only if every defect was seen in this run, in what a program
\* of this run printed (run-all.sh:288).
THEOREM SuccessMeansDefects == Spec => []SuccessShowsTheDefects
<1>1. IInv => SuccessShowsTheDefects
  <2> SUFFICES ASSUME IInv, Succeeded PROVE SuccessShowsTheDefects
    BY DEF SuccessShowsTheDefects
  <2>1. script = "run-all" /\ step = 48 /\ fail = 0
    BY DEF IInv, Ended, Size, Succeeded
  <2>2. \A j \in 1..47 : Holds(RunAll[j])
    BY <2>1 DEF IInv, Verdicts
  <2>3. \A j \in 1..47 : RunAll[j].do = "capture" => OfThisRun(RunAll[j].of)
    BY <2>1 DEF IInv, Fresh
  <2>4. Case01 /\ Case02 /\ Case03 /\ Case04 /\ Case05
    BY CasesOfRunAll
  <2>5. /\ OfThisRun("c01_broken") /\ Found("c01_broken", "race")
    <3>1. Holds(RunAll[5]) /\ OfThisRun(RunAll[3].of)
      BY <2>2, <2>3, <2>4 DEF Case01, Command
    <3>. QED BY <2>4, <3>1 DEF Case01, Command, Present, Holds
  <2>6. /\ OfThisRun("c02_broken") /\ Evidence("c02_broken") \cap {"inversion", "cycle"} # {}
    <3>1. Holds(RunAll[11]) /\ OfThisRun(RunAll[9].of)
      BY <2>2, <2>3, <2>4 DEF Case02, Command
    <3>. QED BY <2>4, <3>1 DEF Case02, Command, Holds
  <2>7. /\ OfThisRun("c03_broken") /\ Found("c03_broken", "use-after-free")
    <3>1. Holds(RunAll[17]) /\ OfThisRun(RunAll[15].of)
      BY <2>2, <2>3, <2>4 DEF Case03, Command
    <3>. QED BY <2>4, <3>1 DEF Case03, Command, Present, Holds
  <2>8. /\ OfThisRun("c04_O2") /\ Found("c04_O2", "accepted")
        /\ OfThisRun("c04_ub") /\ Found("c04_ub", "overflow")
    <3>1. /\ Holds(RunAll[29]) /\ OfThisRun(RunAll[25].of)
          /\ Holds(RunAll[31]) /\ OfThisRun(RunAll[26].of)
      BY <2>2, <2>3, <2>4 DEF Case04, Command
    <3>. QED BY <2>4, <3>1 DEF Case04, Command, Present, Holds
  <2>9. /\ OfThisRun("c05_broken") /\ Found("c05_broken", "8 apart")
    <3>1. Holds(RunAll[39]) /\ OfThisRun(RunAll[37].of)
      BY <2>2, <2>3, <2>4 DEF Case05, Command
    <3>2. RunAll[39].do = "unpadded" /\ RunAll[37].of = "c05_broken"
      BY <2>4 DEF Case05, Command
    <3>3. {"8 apart", "barely"} \subseteq Evidence("c05_broken")
      BY <3>1, <3>2 DEF Holds
    <3>. QED BY <3>1, <3>2, <3>3 DEF Found
  <2>10. Evidence("c02_broken") \in {{"cycle"}, {"inversion"}}
    <3>1. Evidence("c02_broken") \in Range(Reports["c02_broken"]) \cup {NotFound}
      BY ProgramsAre DEF IInv, Typed, Possible, Evidence
    <3>2. Evidence("c02_broken") # NotFound
      BY <2>6 DEF NotFound
    <3>. QED BY <2>6, <3>1, <3>2, DiagnosesAreReports
  <2>11. \/ "inconclusive" \in scratch.c06_broken
         \/ "waited" \in scratch.c06_broken /\ "bounded" \in scratch.c06_fixed
    BY <2>1 DEF IInv, Tally
  <2>12. \A p \in {"c01_broken", "c02_broken", "c03_broken", "c04_O2", "c04_ub", "c05_broken"} :
           OfThisRun(p) /\ Evidence(p) # {}
    BY <2>5, <2>6, <2>7, <2>8, <2>9 DEF Found
  <2>13. \A p \in {"c01_broken", "c02_broken", "c03_broken", "c04_O2", "c04_ub", "c05_broken"} :
           p \in built /\ out[p].run = run
    BY <2>12 DEF OfThisRun
  <2>. QED BY <2>5, <2>7, <2>8, <2>9, <2>10, <2>11, <2>13 DEF SuccessShowsTheDefects
<1>. QED BY <1>1, Invariance, PTL
====
