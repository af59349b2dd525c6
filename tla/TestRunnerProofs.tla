-------------------------- MODULE TestRunnerProofs --------------------------
(***************************************************************************)
(* The safety properties of TestRunner, for every number of stages and     *)
(* anti-cheat stages and whatever their test cases declare.                *)
(*                                                                         *)
(* None of them is inductive: what a step may still do depends on where    *)
(* the runner is in it. IInv says, for every place of the runner, how far  *)
(* the goroutines of the current step have come and what is known of the   *)
(* verdict; the steps before it are all Graded, those after it Untouched.  *)
(***************************************************************************)
EXTENDS TestRunner, Sequences, TLAPS

Untouched(s) ==
  /\ compile[s] = "none" /\ ~detected[s] /\ test[s] = "none"
  /\ registered[s] = 0 /\ ran[s] = 0 /\ report[s] = "none"

\* The compilation of s has ended well, if there is one.
Compiled(s) ==
  /\ plan[s].compile = "none" => compile[s] = "none"
  /\ plan[s].compile # "none" => compile[s] = "ok"
  /\ detected[s] <=> plan[s].compile = "auto"

Graded(s) ==
  /\ Compiled(s) /\ test[s] = "passed" /\ report[s] = "passed"
  /\ ran[s] = registered[s]

\* What cause says of the goroutines of s once its phases are over.
Explained(s) ==
  /\ cause \in {"none", "test", "timeout"} => Compiled(s)
  /\ cause \in {"files", "compile", "before"} => test[s] = "none"
  /\ cause \in {"files", "before"} => compile[s] # "running"
  /\ cause = "none" => test[s] = "passed"
  /\ cause = "test" => test[s] = "failed"

\* The current step.
Phases(s) ==
  /\ pc \in {"begin", "files", "compile"} => Untouched(s)
  /\ pc = "compiling" =>
       /\ plan[s].compile # "none" /\ compile[s] # "none"
       /\ detected[s] => plan[s].compile = "auto"
       /\ compile[s] = "ok" /\ plan[s].compile = "auto" => detected[s]
       /\ test[s] = "none" /\ ran[s] = 0 /\ report[s] = "none"
  /\ pc \in {"before", "launch"} =>
       Compiled(s) /\ test[s] = "none" /\ ran[s] = 0 /\ report[s] = "none"
  /\ pc = "testing" =>
       Compiled(s) /\ test[s] # "none" /\ ran[s] = 0 /\ report[s] = "none"
  /\ pc = "report" => Explained(s) /\ ran[s] = 0 /\ report[s] = "none"
  /\ pc = "teardown" =>
       /\ Explained(s) /\ ran[s] = 0
       /\ report[s] = IF cause = "none" THEN "passed" ELSE "failed"
  /\ pc = "tearing" =>
       /\ Explained(s) /\ ran[s] <= todo /\ todo <= registered[s]
       /\ cause # "timeout" => todo = registered[s]
       /\ report[s] = IF cause = "none" THEN "passed" ELSE "failed"

\* Where the runner can be, and with what exit code it can have ended there.
Place ==
  /\ pc = "begin" \/ step \in Steps
  /\ pc \notin {"report", "teardown", "tearing"} => cause = "none"
  /\ code = 0 => pc = "begin" /\ step \notin Steps
  /\ code = 1 => pc = "tearing" /\ ran[step] = todo /\ cause # "none"

IInv ==
  /\ TypeOK
  /\ Place
  /\ \A s \in Steps :
       /\ s < step => Graded(s)
       /\ s = step => Phases(s)
       /\ s > step => Untouched(s)

-----------------------------------------------------------------------------

\* Every step keeps the types, wherever the runner can be.
LEMMA TypeStep == TypeOK /\ Place /\ [Next]_vars => TypeOK'
<1> SUFFICES ASSUME TypeOK, Place, [Next]_vars PROVE TypeOK'
  OBVIOUS
<1> USE StepsAssumption DEF TypeOK, Steps, Plan
<1>1. CASE Runner
  <2> USE DEF At, Go, Fail, main
  <2>1. CASE BeginStep
    BY <2>1 DEF BeginStep
  <2>2. CASE Finish
    BY <2>2 DEF Finish
  <2>3. CASE CheckFiles
    BY <2>3 DEF CheckFiles
  <2>4. CASE StartCompile
    BY <2>4 DEF StartCompile
  <2>5. CASE AwaitCompile
    BY <2>5 DEF AwaitCompile
  <2>6. CASE BeforeReturns
    BY <2>6 DEF BeforeReturns
  <2>7. CASE LaunchTest
    BY <2>7 DEF LaunchTest
  <2>8. CASE AwaitTest
    BY <2>8 DEF AwaitTest
  <2>9. CASE Report
    BY <2>9 DEF Report
  <2>10. CASE BeginTeardown
    BY <2>10 DEF BeginTeardown, Place
  <2>11. CASE RunTeardown
    BY <2>11 DEF RunTeardown, Place
  <2>12. CASE EndStep
    BY <2>12 DEF EndStep, Place
  <2> QED
    BY <1>1, <2>1, <2>2, <2>3, <2>4, <2>5, <2>6, <2>7, <2>8, <2>9, <2>10, <2>11,
       <2>12 DEF Runner
<1>2. CASE BeforeRegisters
  BY <1>2 DEF BeforeRegisters, At, Place, main
<1>3. CASE TeardownPanics
  <2>1. Panics
    BY <1>3 DEF TeardownPanics
  <2> QED
    BY <2>1 DEF Panics
<1>4. ASSUME NEW s \in Steps, DetectLanguage(s) PROVE TypeOK'
  BY <1>4 DEF DetectLanguage, main
<1>5. ASSUME NEW s \in Steps, NEW r \in {"ok", "failed"}, CompileEnds(s, r) PROVE TypeOK'
  BY <1>5 DEF CompileEnds, main
<1>6. ASSUME NEW s \in Steps, TestRegisters(s) PROVE TypeOK'
  BY <1>6 DEF TestRegisters, main
<1>7. ASSUME NEW s \in Steps, NEW r \in {"passed", "failed"}, TestEnds(s, r) PROVE TypeOK'
  BY <1>7 DEF TestEnds, main
<1>8. ASSUME NEW s \in Steps, TestPanics(s) PROVE TypeOK'
  BY <1>8 DEF TestPanics, Panics
<1>9. CASE UNCHANGED vars
  BY <1>9 DEF vars, main
<1> QED
  BY <1>1, <1>2, <1>3, <1>4, <1>5, <1>6, <1>7, <1>8, <1>9 DEF Next

LEMMA InitIInv == Init => IInv
<1> SUFFICES ASSUME Init PROVE IInv
  OBVIOUS
<1> USE StepsAssumption DEF Init
<1>1. TypeOK
  <2>1. step \in 1..(Stages + AntiCheats + 1)
    OBVIOUS
  <2>2. code \in 0..3 /\ todo \in 0..MaxReg
    OBVIOUS
  <2>3. ran \in [Steps -> 0..MaxReg] /\ registered \in [Steps -> 0..MaxReg]
    OBVIOUS
  <2> QED
    BY <2>1, <2>2, <2>3 DEF TypeOK
<1>2. Place
  BY DEF Place, Steps
<1>3. ASSUME NEW s \in Steps
      PROVE  /\ ~(s < step)
             /\ Phases(s) /\ Untouched(s)
  BY DEF Phases, Untouched, Steps
<1> QED
  BY <1>1, <1>2, <1>3 DEF IInv

\* A step of the runner keeps what IInv says of where it is and of every step.
LEMMA RunnerStep ==
  ASSUME IInv, Runner, TypeOK'
  PROVE  IInv'
<1> USE StepsAssumption DEF IInv, TypeOK, Steps, At, Alive, Go, Fail, Place
<1> DEFINE Each(s) == /\ s < step => Graded(s)
                      /\ s = step => Phases(s)
                      /\ s > step => Untouched(s)
<1> SUFFICES Place' /\ \A s \in Steps : Each(s)'
  OBVIOUS
<1>1. CASE BeginStep
  BY <1>1 DEF BeginStep, Graded, Phases, Untouched, Compiled, Explained
<1>2. CASE Finish
  BY <1>2 DEF Finish, Graded, Phases, Untouched, Compiled, Explained
<1>3. CASE CheckFiles
  BY <1>3 DEF CheckFiles, Graded, Phases, Untouched, Compiled, Explained
<1>4. CASE StartCompile
  BY <1>4 DEF StartCompile, Graded, Phases, Untouched, Compiled, Explained, Plan
<1>5. CASE AwaitCompile
  BY <1>5 DEF AwaitCompile, Graded, Phases, Untouched, Compiled, Explained, Plan
<1>6. CASE BeforeReturns
  BY <1>6 DEF BeforeReturns, Graded, Phases, Untouched, Compiled, Explained, Plan
<1>7. CASE LaunchTest
  BY <1>7 DEF LaunchTest, Graded, Phases, Untouched, Compiled, Explained
<1>8. CASE AwaitTest
  BY <1>8 DEF AwaitTest, Graded, Phases, Untouched, Compiled, Explained
<1>9. CASE Report
  BY <1>9 DEF Report, Graded, Phases, Untouched, Compiled, Explained
<1>10. CASE BeginTeardown
  BY <1>10 DEF BeginTeardown, Graded, Phases, Untouched, Compiled, Explained
<1>11. CASE RunTeardown
  BY <1>11 DEF RunTeardown, main, Graded, Phases, Untouched, Compiled, Explained
<1>12. CASE EndStep
  BY <1>12 DEF EndStep, Graded, Phases, Untouched, Compiled, Explained
<1> QED
  BY <1>1, <1>2, <1>3, <1>4, <1>5, <1>6, <1>7, <1>8, <1>9, <1>10, <1>11, <1>12
     DEF Runner

\* Neither do the goroutines, BeforeFunc and panics disturb it.
LEMMA OtherStep ==
  ASSUME IInv, [Next]_vars, ~Runner, TypeOK'
  PROVE  IInv'
<1> USE StepsAssumption DEF IInv, TypeOK, Steps, Alive, Place, main
<1> DEFINE Each(s) == /\ s < step => Graded(s)
                      /\ s = step => Phases(s)
                      /\ s > step => Untouched(s)
<1> SUFFICES Place' /\ \A s \in Steps : Each(s)'
  OBVIOUS
<1>1. CASE BeforeRegisters
  BY <1>1 DEF BeforeRegisters, At, Graded, Phases, Untouched, Compiled, Explained
<1>2. ASSUME Panics PROVE Place' /\ \A s \in Steps : Each(s)'
  BY <1>2 DEF Panics, Graded, Phases, Untouched, Compiled, Explained
<1>3. ASSUME NEW t \in Steps, DetectLanguage(t) PROVE Place' /\ \A s \in Steps : Each(s)'
  BY <1>3 DEF DetectLanguage, Graded, Phases, Untouched, Compiled, Explained
<1>4. ASSUME NEW t \in Steps, NEW r \in {"ok", "failed"}, CompileEnds(t, r)
      PROVE Place' /\ \A s \in Steps : Each(s)'
  BY <1>4 DEF CompileEnds, Graded, Phases, Untouched, Compiled, Explained
<1>5. ASSUME NEW t \in Steps, TestRegisters(t) PROVE Place' /\ \A s \in Steps : Each(s)'
  BY <1>5 DEF TestRegisters, Graded, Phases, Untouched, Compiled, Explained
<1>6. ASSUME NEW t \in Steps, NEW r \in {"passed", "failed"}, TestEnds(t, r)
      PROVE Place' /\ \A s \in Steps : Each(s)'
  BY <1>6 DEF TestEnds, Graded, Phases, Untouched, Compiled, Explained
<1>7. CASE UNCHANGED vars
  BY <1>7 DEF vars, Graded, Phases, Untouched, Compiled, Explained
<1> QED
  BY <1>1, <1>2, <1>3, <1>4, <1>5, <1>6, <1>7 DEF Next, TeardownPanics, TestPanics

LEMMA Invariance == Spec => []IInv
<1>1. IInv /\ [Next]_vars => IInv'
  BY TypeStep, RunnerStep, OtherStep DEF IInv
<1> QED
  BY InitIInv, <1>1, PTL DEF Spec

-----------------------------------------------------------------------------

\* TestRunner keeps its types.
THEOREM TypeCorrect == Spec => []TypeOK
<1>1. IInv => TypeOK
  BY DEF IInv
<1> QED
  BY Invariance, <1>1, PTL

\* Exit code 0 is only ever given when every step has compiled, passed and been
\* torn down (test_runner.go:94-116).
THEOREM PassCorrect == Spec => []PassMeansAllPassed
<1>1. IInv => PassMeansAllPassed
  <2> SUFFICES ASSUME IInv, code = 0, NEW s \in Steps PROVE Graded(s)
    BY DEF PassMeansAllPassed, Graded, Compiled
  <2>1. step \notin Steps /\ step \in 1..(Stages + AntiCheats + 1)
    BY DEF IInv, Place, TypeOK
  <2>2. s < step
    BY <2>1, StepsAssumption DEF Steps
  <2> QED
    BY <2>2 DEF IInv
<1> QED
  BY Invariance, <1>1, PTL

\* A failure skips the remaining phases and steps and ends in exit code 1
\* (tester_definition.go:65).
THEOREM FailureCorrect == Spec => []FailureStopsTheRun
<1>1. IInv => FailureStopsTheRun
  <2> SUFFICES ASSUME IInv PROVE FailureStopsTheRun
    OBVIOUS
  <2> USE StepsAssumption DEF IInv, TypeOK, Steps
  <2>1. ASSUME NEW s \in Steps, test[s] # "none", plan[s].compile # "none"
        PROVE  compile[s] = "ok"
    BY <2>1 DEF Graded, Phases, Untouched, Compiled, Explained
  <2>2. ASSUME NEW s \in Steps, report[s] = "failed"
        PROVE  s = step /\ cause # "none"
    BY <2>2 DEF Graded, Phases, Untouched
  <2>3. ASSUME NEW s \in Steps, NEW t \in Steps, report[s] = "failed", t > s
        PROVE  compile[t] = "none" /\ test[t] = "none" /\ registered[t] = 0
    BY <2>2, <2>3 DEF Untouched
  <2>4. code = 1 => \E s \in Steps : report[s] = "failed"
    BY DEF Place, Phases
  <2>5. code = 0 => ~\E s \in Steps : report[s] = "failed"
    BY <2>2 DEF Place
  <2> QED
    BY <2>1, <2>3, <2>4, <2>5 DEF FailureStopsTheRun
<1> QED
  BY Invariance, <1>1, PTL

\* No compilation outlives its step's turn, and TestFunc sees the language that
\* was detected (compile.go:81-85).
THEOREM LanguageCorrect == Spec => []TestSeesItsLanguage
<1>1. ASSUME IInv, NEW s \in Steps
      PROVE  /\ test[s] # "none" => (detected[s] <=> plan[s].compile = "auto")
             /\ compile[s] = "running" => step = s /\ test[s] = "none"
  <2>1. /\ s \in Nat /\ step \in Nat
        /\ plan[s].compile \in {"none", "given", "auto"}
    BY <1>1, StepsAssumption DEF IInv, TypeOK, Steps, Plan
  <2>2. CASE s < step
    BY <1>1, <2>1, <2>2 DEF IInv, Graded, Compiled, Explained
  <2>3. CASE s = step
    <3>1. /\ Phases(step) /\ detected[s] \in BOOLEAN
          /\ pc \in {"begin", "files", "compile", "compiling", "before", "launch",
                     "testing", "report", "teardown", "tearing"}
          /\ cause \in {"none", "files", "compile", "before", "test", "timeout"}
      BY <1>1, <2>3 DEF IInv, TypeOK
    <3> QED
      BY <2>1, <2>3, <3>1 DEF Phases, Untouched, Compiled, Explained
  <2>4. CASE s > step
    BY <1>1, <2>1, <2>4 DEF IInv, Untouched
  <2> QED
    BY <2>1, <2>2, <2>3, <2>4
<1>2. IInv => TestSeesItsLanguage
  BY <1>1 DEF TestSeesItsLanguage
<1> QED
  BY Invariance, <1>2, PTL

\* Teardown functions run after the report, once, and all of them unless TestFunc
\* had timed out (test_runner.go:103-109).
THEOREM TeardownCorrect == Spec => []TornDown
<1>1. IInv => TornDown
  BY StepsAssumption DEF IInv, TypeOK, Steps, TornDown, Graded, Phases, Untouched, Place
<1> QED
  BY Invariance, <1>1, PTL

-----------------------------------------------------------------------------
(***************************************************************************)
(* The refinement. Most steps happen inside a step of the test runner and  *)
(* change nothing of what Tester sees. The others need IInv: a step that   *)
(* ends without a cause has been reported passed, and a panic can only     *)
(* come while a step goes on.                                              *)
(***************************************************************************)

\* What Tester sees the runs do.
RunsStep ==
  \/ RunCLI!StepPasses \/ RunCLI!StepFails(1) \/ RunCLI!StepFails(2)
  \/ RunCLI!StagesPassed("none") \/ RunCLI!StagesPassed("true")
  \/ RunCLI!AntiCheatsPassed

LEMMA StagesOverLength ==
  ASSUME TypeOK
  PROVE  /\ step <= Stages => Len(StagesOver) = step - 1
         /\ step > Stages => Len(StagesOver) = Stages
         /\ Len([s \in 1..Stages |-> s]) = Stages
BY StepsAssumption DEF TypeOK, StagesOver

\* Inside a step nothing is seen.
LEMMA Unseen ==
  ASSUME TypeOK, step' = step, code' = code,
         \A s \in Steps : s < step => report'[s] = report[s],
         step # Stages + 1 \/ (pc = "begin" <=> pc' = "begin")
  PROVE  UNCHANGED RunCLI!vars
<1> USE StepsAssumption DEF TypeOK
<1>1. UNCHANGED StagesOver
  BY DEF StagesOver, Steps
<1> QED
  BY <1>1 DEF RunCLI!vars, RunCLI!parsing, RunCLI!context, RunCLI!runs

\* The run is under way: a step of it can pass or fail.
UnderWay == code = 3 /\ step \in Steps /\ pc # "begin"

LEMMA FailureSeen ==
  ASSUME TypeOK, UnderWay, NEW n \in {1, 2}, code' = n, UNCHANGED <<step, report>>
  PROVE  RunCLI!StepFails(n)
<1> USE StepsAssumption DEF TypeOK, UnderWay, Steps
<1>1. UNCHANGED StagesOver
  BY DEF StagesOver
<1>2. CASE step <= Stages
  BY <1>1, <1>2, StagesOverLength
     DEF RunCLI!StepFails, RunCLI!Exit, RunCLI!parsing, RunCLI!context, RunCLI!runs
<1>3. CASE step > Stages
  BY <1>1, <1>3
     DEF RunCLI!StepFails, RunCLI!Exit, RunCLI!parsing, RunCLI!context, RunCLI!runs
<1> QED
  BY <1>2, <1>3

LEMMA PassSeen ==
  ASSUME TypeOK, UnderWay, code' = 3, UNCHANGED report, report[step] = "passed",
         step' = step + 1, pc' = "begin"
  PROVE  RunCLI!StepPasses
<1> USE StepsAssumption DEF TypeOK, UnderWay, Steps
<1>1. CASE step <= Stages
  <2>1. StagesOver' = Append(StagesOver, step)
    <3>1. StagesOver = [s \in 1..(step - 1) |-> IF report[s] = "passed" THEN s ELSE 0]
      BY <1>1 DEF StagesOver
    <3>2. StagesOver' = [s \in 1..step |-> IF report[s] = "passed" THEN s ELSE 0]
      BY <1>1 DEF StagesOver
    <3> QED
      BY <3>1, <3>2
  <2>2. /\ Len(StagesOver) = step - 1 /\ Len([s \in 1..Stages |-> s]) = Stages
        /\ [s \in 1..Stages |-> s][(step - 1) + 1] = step
    BY <1>1, StagesOverLength
  <2>3. step' <= Stages \/ (step' = Stages + 1 /\ pc' = "begin")
    BY <1>1
  <2> QED
    BY <1>1, <2>1, <2>2, <2>3 DEF RunCLI!StepPasses, RunCLI!parsing, RunCLI!context
<1>2. CASE step > Stages
  <2>1. UNCHANGED StagesOver
    BY <1>2 DEF StagesOver
  <2> QED
    BY <1>2, <2>1 DEF RunCLI!StepPasses, RunCLI!parsing, RunCLI!context
<1> QED
  BY <1>1, <1>2

\* Whatever a step does in its goroutines, the runs pass, fail and end as Tester
\* has it (tester.go:171-195, test_runner.go:61-120).
THEOREM RunsRefined == Spec => ImplementsTheRuns
<1>1. ASSUME IInv, [Next]_vars PROVE RunsStep \/ UNCHANGED RunCLI!vars
  <2> USE <1>1, StepsAssumption DEF IInv
  <2>1. ASSUME Panics, UnderWay PROVE RunCLI!StepFails(2)
    BY <2>1, FailureSeen DEF Panics
  <2>2. ASSUME NEW s \in Steps, TestPanics(s) PROVE UnderWay
    BY <2>2 DEF TestPanics, Panics, UnderWay, Alive, Place, Phases, Untouched, Graded,
       Steps, TypeOK
  <2>3. ASSUME TeardownPanics PROVE UnderWay /\ Panics
    BY <2>3 DEF TeardownPanics, UnderWay, Place, At, Alive
  <2>4. CASE EndStep
    <3>1. UnderWay /\ report[step] = IF cause = "none" THEN "passed" ELSE "failed"
      BY <2>4 DEF EndStep, UnderWay, Place, At, Alive, Phases
    <3>2. CASE cause = "none"
      BY <2>4, <3>1, <3>2, PassSeen DEF EndStep, RunsStep, Go, At, Alive
    <3>3. CASE cause # "none"
      BY <2>4, <3>1, <3>3, FailureSeen DEF EndStep, RunsStep
    <3> QED
      BY <3>2, <3>3
  <2>5. CASE Finish
    <3>1. /\ step = Stages + AntiCheats + 1 /\ pc = "begin" /\ code = 3 /\ code' = 0
          /\ UNCHANGED <<step, report>>
      BY <2>5 DEF Finish, At, Alive, TypeOK, Steps
    <3>2. UNCHANGED StagesOver
      BY <3>1 DEF StagesOver
    <3>3. CASE AntiCheats = 0
      BY <3>1, <3>2, <3>3, StagesOverLength
         DEF RunsStep, RunCLI!StagesPassed, RunCLI!Exit, RunCLI!parsing, RunCLI!context,
             RunCLI!runs
    <3>4. CASE AntiCheats # 0
      BY <3>1, <3>2, <3>4
         DEF RunsStep, RunCLI!AntiCheatsPassed, RunCLI!Exit, RunCLI!parsing,
             RunCLI!context, RunCLI!runs
    <3> QED
      BY <3>3, <3>4
  <2>6. CASE BeginStep /\ step = Stages + 1
    <3>1. /\ AntiCheats # 0 /\ pc = "begin" /\ code = 3 /\ pc' = "files"
          /\ UNCHANGED <<step, report, code>>
      BY <2>6 DEF BeginStep, At, Alive, Go, Steps
    <3>2. UNCHANGED StagesOver
      BY <3>1 DEF StagesOver
    <3> QED
      BY <2>6, <3>1, <3>2, StagesOverLength
         DEF RunsStep, RunCLI!StagesPassed, RunCLI!Exit, RunCLI!parsing, RunCLI!context,
             RunCLI!runs
  <2>7. ASSUME Runner, ~EndStep, ~Finish, ~(BeginStep /\ step = Stages + 1)
        PROVE  UNCHANGED RunCLI!vars
    <3>1. /\ step' = step /\ code' = code
          /\ step # Stages + 1 \/ (pc = "begin" <=> pc' = "begin")
          /\ report' = report \/ \E r \in {"passed", "failed"} :
               report' = [report EXCEPT ![step] = r]
      BY <2>7 DEF Runner, BeginStep, CheckFiles, StartCompile, AwaitCompile,
         BeforeReturns, LaunchTest, AwaitTest, Report, BeginTeardown, RunTeardown, At,
         Go, Fail, main
    <3>2. \A s \in Steps : s < step => report'[s] = report[s]
      <4>1. step \in Nat /\ DOMAIN report = Steps /\ \A s \in Steps : s \in Nat
        BY DEF TypeOK, Steps
      <4> HIDE <1>1 DEF IInv
      <4> QED
        BY <3>1, <4>1
    <3> QED
      BY <3>1, <3>2, Unseen
  <2>8. ASSUME \/ BeforeRegisters \/ UNCHANGED vars
               \/ \E s \in Steps :
                    \/ DetectLanguage(s) \/ TestRegisters(s)
                    \/ \E r \in {"ok", "failed"} : CompileEnds(s, r)
                    \/ \E r \in {"passed", "failed"} : TestEnds(s, r)
        PROVE  UNCHANGED RunCLI!vars
    <3>1. UNCHANGED main
      BY <2>8 DEF BeforeRegisters, DetectLanguage, TestRegisters, CompileEnds, TestEnds, vars
    <3> QED
      BY <3>1, Unseen DEF main
  <2> QED
    BY <2>1, <2>2, <2>3, <2>4, <2>5, <2>6, <2>7, <2>8 DEF Next, RunsStep, TestPanics
<1> QED
  BY <1>1, Invariance, PTL DEF Spec, ImplementsTheRuns, RunsStep

-----------------------------------------------------------------------------
(***************************************************************************)
(* Why the tester ends: every step of the runner takes it forward, to a    *)
(* later step, a later place in it, the next teardown function or the end  *)
(* of the process, and nothing else takes it back. A timer, which          *)
(* RunTerminates adds, then only has to keep it from waiting for good.     *)
(***************************************************************************)

Rank == [begin |-> 0, files |-> 1, compile |-> 2, compiling |-> 3, before |-> 4,
         launch |-> 5, testing |-> 6, report |-> 7, teardown |-> 8, tearing |-> 9]

Forward ==
  \/ code' # 3
  \/ step' > step /\ step' <= Stages + AntiCheats + 1
  \/ step' = step /\ Rank[pc'] > Rank[pc]
  \/ /\ step' = step /\ pc' = pc /\ todo' = todo
     /\ ran'[step] > ran[step] /\ ran'[step] <= todo

Onward ==
  IF Runner THEN Forward
  ELSE UNCHANGED <<step, pc, todo, ran>> /\ code' \in {code, 2}

\* No path through the phases leads back, whatever the goroutines of the step do
\* (test_runner.go:61-120).
THEOREM RunnerGoesForward == Spec => [][Onward]_vars
<1>1. ASSUME TypeOK, Place, Runner PROVE Forward
  <2> USE DEF TypeOK, At, Go, Fail
  <2>1. CASE EndStep
    <3>1. step \in Steps
      BY <1>1, <2>1 DEF EndStep, Place
    <3>2. CASE cause = "none"
      <4>1. step' = step + 1
        BY <2>1, <3>2 DEF EndStep
      <4> QED
        BY <3>1, <4>1, StepsAssumption DEF Steps, Forward
    <3>3. CASE cause # "none"
      BY <2>1, <3>3 DEF EndStep, Forward
    <3> QED
      BY <3>2, <3>3
  <2>2. CASE Finish
    BY <2>2 DEF Finish, Forward
  <2>3. CASE RunTeardown
    <3>1. /\ step' = step /\ pc' = pc /\ todo' = todo
          /\ ran' = [ran EXCEPT ![step] = @ + 1] /\ ran[step] < todo
      BY <2>3 DEF RunTeardown, main
    <3>2. step \in Steps /\ ran \in [Steps -> Nat] /\ todo \in Nat
      BY <1>1, <2>3 DEF RunTeardown, Place
    <3>3. ran'[step] = ran[step] + 1 /\ ran[step] \in Nat
      BY <3>1, <3>2
    <3> QED
      BY <3>1, <3>2, <3>3 DEF Forward
  <2>4. CASE ~EndStep /\ ~Finish /\ ~RunTeardown
    <3>1. step' = step /\ Rank[pc'] > Rank[pc]
      BY <1>1, <2>4 DEF Runner, BeginStep, CheckFiles, StartCompile, AwaitCompile,
         BeforeReturns, LaunchTest, AwaitTest, Report, BeginTeardown, Rank
    <3> QED
      BY <3>1 DEF Forward
  <2> QED
    BY <2>1, <2>2, <2>3, <2>4
<1>2. ASSUME [Next]_vars, ~Runner
      PROVE  UNCHANGED <<step, pc, todo, ran>> /\ code' \in {code, 2}
  BY <1>2 DEF Next, BeforeRegisters, DetectLanguage, TestRegisters, CompileEnds,
     TestEnds, TestPanics, TeardownPanics, Panics, main, vars
<1>3. IInv /\ [Next]_vars => Onward
  BY <1>1, <1>2 DEF Onward, IInv
<1> QED
  BY <1>3, Invariance, PTL DEF Spec

=============================================================================
