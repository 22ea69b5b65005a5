-------------------------------- MODULE Harness --------------------------------
(***************************************************************************)
(* The two scripts that write evidence.  scripts/run-all.sh compiles the   *)
(* variants of the six cases, runs each, keeps what it printed and greps   *)
(* that for what the case is to show.  scripts/run-case-06-container.sh    *)
(* builds an image, runs case 06 in containers and keeps what they         *)
(* printed.  In neither does a step that fails stop the script; either may *)
(* be killed at any step; and the next run, of the one or the other, finds *)
(* the evidence of those before it.                                        *)
(*                                                                         *)
(* A report, what one execution of a program prints, is the set of the     *)
(* phrases in it that the script looks for or a property is about.         *)
(***************************************************************************)
EXTENDS Integers, SequencesExt

CONSTANTS
  MaxDeviations,     \* bound: builds that fail and reports that are unusual
  MaxRuns            \* bound: runs of the scripts over the same evidence

ASSUME BoundsAssumption == MaxDeviations \in Nat /\ MaxRuns \in Nat \ {0}

VARIABLES
  script, run,       \* which script runs, and the number of its run
  step,              \* the command it is at
  built,             \* programs in $BUILD
  scratch,           \* what the programs of case 06 printed, in $BUILD
  out,               \* the evidence in $OUT: each program's report and its run
  image, matrix,     \* the run that built the image, or 0; that of the third file
  pass, fail,
  exitCode,          \* Running, Killed, or the exit status
  \* for bounds and properties:
  deviations,        \* how many there have been
  torn               \* a kill has come while the two files of case 06 were written

vars == <<script, run, step, built, scratch, out, image, matrix, pass, fail,
          exitCode, deviations, torn>>

Running == -1
Killed == 137

--------------------------------------------------------------------------------
(* What the programs may print.  The first member of each is usual.          *)

Reports ==
  [c01_broken |-> <<{"tsan", "race"}, {}>>,
   c01_fixed  |-> <<{}, {"tsan", "race"}>>,
   c02_broken |-> <<{"cycle"}, {"inversion"}, {"exit 124"}, {}>>,
   c02_fixed  |-> <<{"completed"}, {"exit 124"}, {}>>,
   c03_broken |-> <<{"asan", "use-after-free"}, {}>>,
   c03_fixed  |-> <<{}, {"asan", "use-after-free"}>>,
   c04_O0     |-> <<{}, {"accepted"}>>,
   c04_O2     |-> <<{"accepted"}, {}>>,
   c04_ub     |-> <<{"overflow"}, {"overflow", "accepted"}, {}>>,
   c04_wv     |-> <<{}, {"accepted"}>>,
   c04_fixed  |-> <<{}, {"accepted"}, {"overflow"}>>,
   c05_broken |-> <<{"8 apart", "slow", "barely"}, {"8 apart", "fast"},
                   {"64 apart", "slow", "barely"}>>,
   c05_fixed  |-> <<{"64 apart", "fast"}, {"64 apart", "slow"}, {"8 apart", "slow"}>>,
   c06_broken |-> <<{"waited"}, {"inconclusive"}, {"none observed"}, {"bad calibration"}, {}>>,
   c06_fixed  |-> <<{"bounded"}, {"inconclusive"}, {"not bounded"}, {"bad calibration"}, {}>>]

Programs == DOMAIN Reports

\* Either answer of the host of case 06 is usual.
Usual(p) == {Reports[p][1]} \cup (IF p \in {"c06_broken", "c06_fixed"}
                                    THEN {Reports[p][2]} ELSE {})

\* Nothing any pattern matches: the shell's complaint about a missing program.
NotFound == {}

--------------------------------------------------------------------------------
(* The scripts, as the sequences of their commands.                          *)

Each(command, programs) ==
  [i \in DOMAIN programs |-> [do |-> command, of |-> programs[i]]]

Present(p, phrase) == [do |-> "present", of |-> p, phrase |-> phrase]
Absent(p, phrase)  == [do |-> "absent", of |-> p, phrase |-> phrase]

Case(programs, checks) == Each("compile", programs) \o Each("capture", programs) \o checks

RunAll ==
  Case(<<"c01_broken", "c01_fixed">>,
       <<Present("c01_broken", "race"), Absent("c01_fixed", "tsan")>>) \o
  Case(<<"c02_broken", "c02_fixed">>,
       <<[do |-> "diagnosed"], Present("c02_fixed", "completed")>>) \o
  Case(<<"c03_broken", "c03_fixed">>,
       <<Present("c03_broken", "use-after-free"), Absent("c03_fixed", "asan")>>) \o
  Case(<<"c04_O0", "c04_O2", "c04_ub", "c04_wv", "c04_fixed">>,
       <<Present("c04_O2", "accepted"), Absent("c04_O0", "accepted"),
         Present("c04_ub", "overflow"), Absent("c04_wv", "accepted"),
         Absent("c04_fixed", "accepted"), Absent("c04_fixed", "overflow")>>) \o
  Case(<<"c05_broken", "c05_fixed">>,
       <<[do |-> "unpadded"], [do |-> "padded"]>>) \o
  Each("compile", <<"c06_broken", "c06_fixed">>) \o
  Each("scratch", <<"c06_broken", "c06_fixed">>) \o
  <<[do |-> "conclude"], [do |-> "copy"], [do |-> "bounds"]>>

\* Mutant of Container: the matrix comes first.
ContainerMatrixFirst ==
  <<[do |-> "image"], [do |-> "matrix"]>> \o Each("tee", <<"c06_broken", "c06_fixed">>)

Container ==
  <<[do |-> "image"]>> \o Each("tee", <<"c06_broken", "c06_fixed">>) \o <<[do |-> "matrix"]>>

Script == IF script = "run-all" THEN RunAll ELSE Container

Init ==
  /\ script \in {"run-all", "container"}
  /\ run = 1 /\ step = 1 /\ built = {} /\ image = 0 /\ matrix = 0
  /\ scratch = [p \in {"c06_broken", "c06_fixed"} |-> NotFound]
  /\ out = [p \in Programs |-> [run |-> 0, report |-> Reports[p][1]]]
  /\ pass = 0 /\ fail = 0 /\ exitCode = Running
  /\ deviations = 0 /\ torn = FALSE

At(command) == exitCode = Running /\ step <= Len(Script) /\ Script[step].do = command

\* The program the current command is about, and what is known of it.
Current == Script[step].of
Evidence(p) == out[p].report

\* The programs' part: p prints one of its reports, or is not there.
Prints(p, report) ==
  /\ report \in (IF p \in built THEN Range(Reports[p]) ELSE {NotFound})
  /\ deviations' = deviations + (IF p \in built /\ report \notin Usual(p) THEN 1 ELSE 0)
  /\ deviations' <= MaxDeviations

--------------------------------------------------------------------------------
(* Building and running.                                                     *)

\* A compilation that fails is noticed by nobody.
Compile ==
  /\ At("compile")
  /\ \/ built' = built \cup {Current} /\ UNCHANGED deviations
     \/ /\ deviations < MaxDeviations /\ deviations' = deviations + 1
        /\ UNCHANGED built
  /\ step' = step + 1
  /\ UNCHANGED <<script, run, scratch, out, image, matrix, pass, fail, exitCode, torn>>

\* Mutant of Capture: a program that is not there leaves the file as it is.
CaptureIfBuilt ==
  /\ At("capture")
  /\ \E report \in Range(Reports[Current]) \cup {NotFound} :
       /\ Prints(Current, report)
       /\ out' = IF Current \in built
                   THEN [out EXCEPT ![Current] = [run |-> run, report |-> report]]
                   ELSE out
  /\ step' = step + 1
  /\ UNCHANGED <<script, run, built, scratch, image, matrix, pass, fail, exitCode, torn>>

\* The output, whatever it is, replaces the evidence.
Capture ==
  /\ At("capture")
  /\ \E report \in Range(Reports[Current]) \cup {NotFound} :
       /\ Prints(Current, report)
       /\ out' = [out EXCEPT ![Current] = [run |-> run, report |-> report]]
  /\ step' = step + 1
  /\ UNCHANGED <<script, run, built, scratch, image, matrix, pass, fail, exitCode, torn>>

\* The host that refused SCHED_FIFO to one variant refuses it to the other.
SameHost(p, report, other) ==
  p = "c06_fixed" =>
    /\ "inconclusive" \in report => other \notin {{"waited"}, {"none observed"}}
    /\ "inconclusive" \in other => report \notin {{"bounded"}, {"not bounded"}}

\* Case 06 is run to a scratch file first.
Scratch ==
  /\ At("scratch")
  /\ \E report \in Range(Reports[Current]) \cup {NotFound} :
       /\ Prints(Current, report) /\ SameHost(Current, report, scratch.c06_broken)
       /\ scratch' = [scratch EXCEPT ![Current] = report]
  /\ step' = step + 1
  /\ UNCHANGED <<script, run, built, out, image, matrix, pass, fail, exitCode, torn>>

--------------------------------------------------------------------------------
(* The checks.                                                               *)

Found(p, phrase) == phrase \in Evidence(p)

Record(verdict) ==
  /\ pass' = IF verdict THEN pass + 1 ELSE pass
  /\ fail' = IF verdict THEN fail ELSE fail + 1

\* Each command of these checks once, on what is in $OUT, and goes on.
Check(command, verdict) ==
  /\ At(command)
  /\ Record(verdict)
  /\ step' = step + 1
  /\ UNCHANGED <<script, run, built, scratch, out, image, matrix, exitCode, deviations, torn>>

CheckPresent == Check("present", Found(Current, Script[step].phrase))
CheckAbsent  == Check("absent", ~Found(Current, Script[step].phrase))

\* Mutant of CheckDiagnosed: a bare timeout is taken for a diagnosis.
DiagnosedByTimeout ==
  Check("diagnosed", Evidence("c02_broken") \cap {"inversion", "cycle", "exit 124"} # {})

\* Case 02: the detector's report or the watchdog's, and no bare timeout.
CheckDiagnosed ==
  Check("diagnosed", Evidence("c02_broken") \cap {"inversion", "cycle"} # {})

CheckUnpadded ==
  Check("unpadded", {"8 apart", "barely"} \subseteq Evidence("c05_broken"))

\* The throughputs are compared only if both are there.
CheckPadded ==
  Check("padded", /\ {"64 apart", "fast"} \subseteq Evidence("c05_fixed")
                  /\ Found("c05_broken", "slow"))

Keep(p) == [out EXCEPT ![p] = [run |-> run, report |-> scratch[p]]]

\* Mutants of Conclude: a refusal counts as a pass; a refusal is kept as evidence.
ConcludeSkipPasses ==
  /\ At("conclude")
  /\ IF "waited" \in scratch.c06_broken
       THEN /\ out' = Keep("c06_broken") /\ step' = step + 1
            /\ UNCHANGED <<pass, fail>>
       ELSE /\ step' = Len(Script) + 1
            /\ Record("inconclusive" \in scratch.c06_broken)
            /\ UNCHANGED out
  /\ UNCHANGED <<script, run, built, scratch, image, matrix, exitCode, deviations, torn>>

ConcludeKeeping ==
  /\ At("conclude")
  /\ out' = Keep("c06_broken")
  /\ IF "waited" \in scratch.c06_broken
       THEN step' = step + 1 /\ UNCHANGED <<pass, fail>>
       ELSE /\ step' = Len(Script) + 1
            /\ IF "inconclusive" \in scratch.c06_broken
                 THEN UNCHANGED <<pass, fail>> ELSE Record(FALSE)
  /\ UNCHANGED <<script, run, built, scratch, image, matrix, exitCode, deviations, torn>>

\* Case 06: skipped if the broken variant was refused its priorities, failed if
\* it showed nothing; otherwise its report is the first to be kept.
Conclude ==
  /\ At("conclude")
  /\ IF "waited" \in scratch.c06_broken
       THEN /\ out' = Keep("c06_broken") /\ step' = step + 1
            /\ UNCHANGED <<pass, fail>>
       ELSE /\ step' = Len(Script) + 1
            /\ IF "inconclusive" \in scratch.c06_broken
                 THEN UNCHANGED <<pass, fail>> ELSE Record(FALSE)
            /\ UNCHANGED out
  /\ UNCHANGED <<script, run, built, scratch, image, matrix, exitCode, deviations, torn>>

\* Mutant of Copy: the second report goes to the file of the first.
CopySwapped ==
  /\ At("copy")
  /\ out' = [out EXCEPT !["c06_broken"] = [run |-> run, report |-> scratch.c06_fixed]]
  /\ Record(TRUE)
  /\ step' = step + 1 /\ torn' = FALSE
  /\ UNCHANGED <<script, run, built, scratch, image, matrix, exitCode, deviations>>

Copy ==
  /\ At("copy")
  /\ out' = Keep("c06_fixed")
  /\ Record(TRUE)
  /\ step' = step + 1 /\ torn' = FALSE
  /\ UNCHANGED <<script, run, built, scratch, image, matrix, exitCode, deviations>>

CheckBounds == Check("bounds", "bounded" \in scratch.c06_fixed)

--------------------------------------------------------------------------------
\* docker build: if it fails, the image of an earlier run is there, or none.
Image ==
  /\ At("image")
  /\ \/ image' = run /\ UNCHANGED deviations
     \/ /\ deviations < MaxDeviations /\ deviations' = deviations + 1
        /\ UNCHANGED image
  /\ step' = step + 1
  /\ UNCHANGED <<script, run, built, scratch, out, matrix, pass, fail, exitCode, torn>>

\* What a container prints, its refusals included, is the evidence.
Tee ==
  /\ At("tee")
  /\ \E report \in Range(Reports[Current]) \cup {NotFound} :
       /\ SameHost(Current, report, Evidence("c06_broken"))
       /\ image = 0 => report = NotFound
       /\ deviations' = deviations + (IF image = 0 \/ report \in Usual(Current) THEN 0 ELSE 1)
       /\ deviations' <= MaxDeviations
       /\ out' = [out EXCEPT ![Current] = [run |-> run, report |-> report]]
  /\ torn' = (torn /\ Current = "c06_broken")
  /\ step' = step + 1
  /\ UNCHANGED <<script, run, built, scratch, image, matrix, pass, fail, exitCode>>

\* A row for each of five configurations, with question marks where nothing answered.
Matrix ==
  /\ At("matrix")
  /\ matrix' = run
  /\ step' = step + 1
  /\ UNCHANGED <<script, run, built, scratch, out, image, pass, fail, exitCode, deviations, torn>>

--------------------------------------------------------------------------------
\* The last command of the one script is a test of fail, that of the other an echo.
Exit ==
  /\ exitCode = Running /\ step = Len(Script) + 1
  /\ exitCode' = IF script = "container" \/ fail = 0 THEN 0 ELSE 1
  /\ UNCHANGED <<script, run, step, built, scratch, out, image, matrix, pass, fail,
                 deviations, torn>>

\* The file a killed command was writing may be empty.
Kill ==
  /\ exitCode = Running
  /\ exitCode' = Killed
  /\ \/ UNCHANGED <<out, matrix>>
     \/ /\ At("capture") \/ At("tee")
        /\ out' = [out EXCEPT ![Current] = [run |-> run, report |-> NotFound]]
        /\ UNCHANGED matrix
     \/ At("matrix") /\ matrix' = run /\ UNCHANGED out
  /\ torn' = (torn \/ At("copy") \/ At("tee"))
  /\ UNCHANGED <<script, run, step, built, scratch, image, pass, fail, deviations>>

\* The next run, of either script, finds the evidence and the image that are there;
\* $BUILD is a new directory.
Again ==
  /\ exitCode # Running /\ run < MaxRuns
  /\ script' \in {"run-all", "container"}
  /\ run' = run + 1 /\ step' = 1 /\ built' = {}
  /\ scratch' = [p \in DOMAIN scratch |-> NotFound]
  /\ pass' = 0 /\ fail' = 0 /\ exitCode' = Running
  /\ UNCHANGED <<out, image, matrix, deviations, torn>>

Finished == exitCode # Running /\ run = MaxRuns /\ UNCHANGED vars

Next == \/ Compile \/ Capture \/ Scratch
        \/ CheckPresent \/ CheckAbsent \/ CheckDiagnosed \/ CheckUnpadded \/ CheckPadded
        \/ Conclude \/ Copy \/ CheckBounds
        \/ Image \/ Tee \/ Matrix
        \/ Exit \/ Kill \/ Again \/ Finished

Spec == Init /\ [][Next]_vars

--------------------------------------------------------------------------------
(* Properties                                                                *)

\* Every file holds one of the reports its program can make, and the verdicts are
\* those of one run.
TypeOK ==
  /\ script \in {"run-all", "container"}
  /\ run \in 1..MaxRuns /\ step \in 1..Len(Script) + 1
  /\ built \subseteq Programs
  /\ \A p \in Programs : /\ out[p].run \in 0..run
                         /\ out[p].report \in Range(Reports[p]) \cup {NotFound}
  /\ \A p \in DOMAIN scratch : scratch[p] \in Range(Reports[p]) \cup {NotFound}
  /\ image \in 0..run /\ matrix \in 0..run
  /\ pass \in 0..16 /\ fail \in 0..16
  /\ exitCode \in {Running, Killed, 0, 1}
  /\ deviations \in 0..MaxDeviations /\ torn \in BOOLEAN

\* The programs whose evidence a command of the script reads.
Subjects(command) ==
  CASE command.do \in {"present", "absent"} -> {command.of}
    [] command.do = "diagnosed" -> {"c02_broken"}
    [] command.do = "unpadded" -> {"c05_broken"}
    [] command.do = "padded" -> {"c05_broken", "c05_fixed"}
    [] OTHER -> {}

\* No check judges evidence of an earlier run, although it is all still there and
\* a build that fails leaves no program to replace it (run-all.sh:45-59).
NoStaleVerdict ==
  exitCode = Running /\ step <= Len(Script) =>
    \A p \in Subjects(Script[step]) : out[p].run = run

Succeeded == script = "run-all" /\ exitCode = 0

\* run-all.sh succeeds only if every defect was seen in this run, by the tool
\* that is to see it; of case 06, if it could be seen at all.
SuccessShowsTheDefects ==
  Succeeded =>
    /\ \A p \in {"c01_broken", "c02_broken", "c03_broken", "c04_O2", "c04_ub", "c05_broken"} :
         p \in built /\ out[p].run = run
    /\ Found("c01_broken", "race") /\ Found("c03_broken", "use-after-free")
    /\ Evidence("c02_broken") \in {{"cycle"}, {"inversion"}}
    /\ Found("c04_O2", "accepted") /\ Found("c04_ub", "overflow")
    /\ Found("c05_broken", "8 apart")
    /\ \/ "inconclusive" \in scratch.c06_broken
       \/ "waited" \in scratch.c06_broken /\ "bounded" \in scratch.c06_fixed

\* A run that reaches its end has judged every check once, and case 06 only if it
\* was not refused its priorities: 14 checks, 16 with case 06 (README.md:18).
EveryCheckCounted ==
  script = "run-all" /\ exitCode \in {0, 1} =>
    pass + fail = 14 + CASE "inconclusive" \in scratch.c06_broken -> 0
                         [] "waited" \in scratch.c06_broken -> 2
                         [] OTHER -> 1

\* The two reports of case 06 in $OUT are of one run of one script, unless it was
\* killed while it wrote them; a skip leaves them alone (run-all.sh:252-254, case 06
\* README:131-134).
EvidenceIsAPair ==
  exitCode # Running /\ out["c06_broken"].run # out["c06_fixed"].run => torn

\* Whatever was killed, a file of case 06 is never newer than those that are written
\* before it: who finds a new matrix finds new measurements beside it.
EvidenceInOrder ==
  out["c06_broken"].run >= out["c06_fixed"].run /\ out["c06_fixed"].run >= matrix

\* run-all.sh:252-254: "an inconclusive local run must not overwrite the committed
\* evidence".
EvidenceConcludes ==
  script = "run-all" =>
    /\ Evidence("c06_broken") \in {{"waited"}, {"none observed"}}
    /\ Evidence("c06_fixed") \in {{"bounded"}, {"not bounded"}}
====
