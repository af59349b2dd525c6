----------------------------- MODULE TestRunner -----------------------------
(***************************************************************************)
(* TestRunner.Run and the two runs RunCLI makes of it: the stages, then    *)
(* the anti-cheat stages with a quiet logger. Each step has four phases    *)
(* (required files, compilation, BeforeFunc, TestFunc), then a report and  *)
(* its teardown functions.                                                 *)
(*                                                                         *)
(* The runner is one goroutine; the compilation and TestFunc run in        *)
(* goroutines of their own that are raced with a timer and, when the timer *)
(* wins, left running.                                                     *)
(***************************************************************************)
EXTENDS Naturals

CONSTANTS
  Stages,      \* number of stages to run
  AntiCheats,  \* number of anti-cheat stages, 0 when they are skipped
  MaxReg       \* bound: teardown functions registered in a step

ASSUME StepsAssumption == Stages \in Nat /\ AntiCheats \in Nat /\ MaxReg \in Nat

Steps == 1..(Stages + AntiCheats)

\* What a TestCase declares: RequiredFiles, CompileStep (its Language given or
\* "auto") and BeforeFunc.
Plan == [files : BOOLEAN, compile : {"none", "given", "auto"}, before : BOOLEAN]

VARIABLES
  plan,        \* plan[s]: what the test case of step s declares
  step,        \* the step the runner is at
  pc,          \* where in the step it is, or was when the process ended
  cause,       \* why the step has failed, "none" when it has not
  compile,     \* compile[s]: the goroutine of the compilation
  detected,    \* detected[s]: harness.DetectedLang is set
  test,        \* test[s]: the goroutine of TestFunc
  registered,  \* registered[s]: length of harness.teardownFuncs
  todo,        \* the length RunTeardownFuncs ranges over
  ran,         \* ran[s]: how many of the teardown functions have run
  report,      \* report[s]: the outcome handed to the logger of the step
  code         \* the exit code, 3 while there is none

main == <<step, pc, cause, todo, report, code>>
vars == <<plan, main, compile, detected, test, registered, ran>>

Init ==
  /\ plan \in [Steps -> Plan]
  /\ step = 1 /\ pc = "begin" /\ cause = "none" /\ todo = 0
  /\ compile = [s \in Steps |-> "none"]
  /\ detected = [s \in Steps |-> FALSE]
  /\ test = [s \in Steps |-> "none"]
  /\ registered = [s \in Steps |-> 0]
  /\ ran = [s \in Steps |-> 0]
  /\ report = [s \in Steps |-> "none"]
  /\ code = 3

Alive == code = 3

\* The runner is there, and the process lives.
At(place) == Alive /\ pc = place

\* The runner goes on, or gives the step up and reports it.
Go(next) == pc' = next /\ UNCHANGED cause
Fail(why) == pc' = "report" /\ cause' = why

-----------------------------------------------------------------------------
(***************************************************************************)
(* The runner.                                                             *)
(***************************************************************************)

\* The next step.
BeginStep ==
  /\ At("begin") /\ step \in Steps
  /\ Go("files")
  /\ UNCHANGED <<plan, step, todo, report, code, compile, detected, test,
                 registered, ran>>

\* Mutant: the anti-cheat stages are not run.
FinishBeforeAntiCheats ==
  /\ At("begin") /\ step > Stages
  /\ code' = 0
  /\ UNCHANGED <<plan, step, pc, cause, todo, report, compile, detected, test,
                 registered, ran>>

\* Both runs have returned true.
Finish ==
  /\ At("begin") /\ step \notin Steps
  /\ code' = 0
  /\ UNCHANGED <<plan, step, pc, cause, todo, report, compile, detected, test,
                 registered, ran>>

CheckFiles ==
  /\ At("files")
  /\ Go("compile") \/ (plan[step].files /\ Fail("files"))
  /\ UNCHANGED <<plan, step, todo, report, code, compile, detected, test,
                 registered, ran>>

StartCompile ==
  /\ At("compile")
  /\ IF plan[step].compile = "none"
       THEN Go("before") /\ UNCHANGED compile
       ELSE Go("compiling") /\ compile' = [compile EXCEPT ![step] = "running"]
  /\ UNCHANGED <<plan, step, todo, report, code, detected, test,
                 registered, ran>>

\* Mutants: the 30 seconds are no error; there is no timer.
AwaitCompileForgiving ==
  /\ At("compiling")
  /\ \/ compile[step] = "ok" /\ Go("before")
     \/ compile[step] = "failed" /\ Fail("compile")
     \/ Go("before")
  /\ UNCHANGED <<plan, step, todo, report, code, compile, detected, test,
                 registered, ran>>

AwaitCompileForever ==
  /\ At("compiling")
  /\ \/ compile[step] = "ok" /\ Go("before")
     \/ compile[step] = "failed" /\ Fail("compile")
  /\ UNCHANGED <<plan, step, todo, report, code, compile, detected, test,
                 registered, ran>>

\* The result of the compilation, or 30 seconds.
AwaitCompile ==
  /\ At("compiling")
  /\ \/ compile[step] = "ok" /\ Go("before")
     \/ compile[step] = "failed" /\ Fail("compile")
     \/ Fail("compile")
  /\ UNCHANGED <<plan, step, todo, report, code, compile, detected, test,
                 registered, ran>>

\* BeforeFunc runs in the runner's goroutine and has no timeout.
BeforeRegisters ==
  /\ At("before") /\ plan[step].before
  /\ registered[step] < MaxReg
  /\ registered' = [registered EXCEPT ![step] = @ + 1]
  /\ UNCHANGED <<plan, main, compile, detected, test, ran>>

\* It returns; an error it returns and a panic it raises fail the step.
BeforeReturns ==
  /\ At("before")
  /\ Go("launch") \/ (plan[step].before /\ Fail("before"))
  /\ UNCHANGED <<plan, step, todo, report, code, compile, detected, test,
                 registered, ran>>

LaunchTest ==
  /\ At("launch")
  /\ test' = [test EXCEPT ![step] = "running"]
  /\ Go("testing")
  /\ UNCHANGED <<plan, step, todo, report, code, compile, detected,
                 registered, ran>>

\* Mutant: err is not set when the timer fires.
AwaitTestForgiving ==
  /\ At("testing")
  /\ \/ test[step] = "passed" /\ Go("report")
     \/ test[step] = "failed" /\ Fail("test")
     \/ Go("report")
  /\ UNCHANGED <<plan, step, todo, report, code, compile, detected, test,
                 registered, ran>>

\* Mutant: there is no timer.
AwaitTestForever ==
  /\ At("testing")
  /\ \/ test[step] = "passed" /\ Go("report")
     \/ test[step] = "failed" /\ Fail("test")
  /\ UNCHANGED <<plan, step, todo, report, code, compile, detected, test,
                 registered, ran>>

\* The result of TestFunc, or its timer; either when both are there.
AwaitTest ==
  /\ At("testing")
  /\ \/ test[step] = "passed" /\ Go("report")
     \/ test[step] = "failed" /\ Fail("test")
     \/ Fail("timeout")
  /\ UNCHANGED <<plan, step, todo, report, code, compile, detected, test,
                 registered, ran>>

Report ==
  /\ At("report")
  /\ report' = [report EXCEPT ![step] = IF cause = "none" THEN "passed" ELSE "failed"]
  /\ Go("teardown")
  /\ UNCHANGED <<plan, step, todo, code, compile, detected, test,
                 registered, ran>>

\* RunTeardownFuncs reads the slice once, without a lock.
BeginTeardown ==
  /\ At("teardown")
  /\ todo' = registered[step]
  /\ Go("tearing")
  /\ UNCHANGED <<plan, step, report, code, compile, detected, test,
                 registered, ran>>

RunTeardown ==
  /\ At("tearing") /\ ran[step] < todo
  /\ ran' = [ran EXCEPT ![step] = @ + 1]
  /\ UNCHANGED <<plan, main, compile, detected, test, registered>>

\* Mutants: not all teardown functions are run; "return false" is missing.
EndStepEarly ==
  /\ At("tearing")
  /\ IF cause = "none"
       THEN step' = step + 1 /\ Go("begin") /\ UNCHANGED code
       ELSE code' = 1 /\ UNCHANGED <<step, pc, cause>>
  /\ UNCHANGED <<plan, todo, report, compile, detected, test, registered, ran>>

EndStepRegardless ==
  /\ At("tearing") /\ ran[step] = todo
  /\ step' = step + 1 /\ pc' = "begin" /\ cause' = "none"
  /\ UNCHANGED <<plan, todo, report, code, compile, detected, test,
                 registered, ran>>

\* The step is over: Run returns false, or goes on with the next step.
EndStep ==
  /\ At("tearing") /\ ran[step] = todo
  /\ IF cause = "none"
       THEN step' = step + 1 /\ Go("begin") /\ UNCHANGED code
       ELSE code' = 1 /\ UNCHANGED <<step, pc, cause>>
  /\ UNCHANGED <<plan, todo, report, compile, detected, test, registered, ran>>

-----------------------------------------------------------------------------
(***************************************************************************)
(* The goroutines it starts. They live as long as the process.             *)
(***************************************************************************)

\* With Language "auto", DetectedLang is set before the compiler is run.
DetectLanguage(s) ==
  /\ Alive
  /\ compile[s] = "running" /\ plan[s].compile = "auto" /\ ~detected[s]
  /\ detected' = [detected EXCEPT ![s] = TRUE]
  /\ UNCHANGED <<plan, main, compile, test, registered, ran>>

\* No language is detected, the language is not supported, or the compiler has
\* run.
CompileEnds(s, result) ==
  /\ Alive
  /\ compile[s] = "running"
  /\ result = "ok" /\ plan[s].compile = "auto" => detected[s]
  /\ compile' = [compile EXCEPT ![s] = result]
  /\ UNCHANGED <<plan, main, detected, test, registered, ran>>

TestRegisters(s) ==
  /\ Alive
  /\ test[s] = "running" /\ registered[s] < MaxReg
  /\ registered' = [registered EXCEPT ![s] = @ + 1]
  /\ UNCHANGED <<plan, main, compile, detected, test, ran>>

TestEnds(s, result) ==
  /\ Alive
  /\ test[s] = "running"
  /\ test' = [test EXCEPT ![s] = result]
  /\ UNCHANGED <<plan, main, compile, detected, registered, ran>>

\* A panic nobody recovers ends the process with exit code 2.
Panics ==
  /\ Alive
  /\ code' = 2
  /\ UNCHANGED <<plan, step, pc, cause, todo, report, compile, detected, test,
                 registered, ran>>

TestPanics(s) == test[s] = "running" /\ Panics

\* A teardown function panics, or the slice was read while TestFunc appended to
\* it and its pointer does not fit its length.
TeardownPanics ==
  \/ At("tearing") /\ ran[step] < todo /\ Panics
  \/ At("teardown") /\ test[step] = "running" /\ registered[step] < MaxReg /\ Panics

Runner ==
  \/ BeginStep \/ Finish \/ CheckFiles \/ StartCompile \/ AwaitCompile
  \/ BeforeReturns \/ LaunchTest \/ AwaitTest \/ Report \/ BeginTeardown
  \/ RunTeardown \/ EndStep

Next ==
  \/ Runner \/ BeforeRegisters \/ TeardownPanics
  \/ \E s \in Steps :
       \/ DetectLanguage(s) \/ TestRegisters(s) \/ TestPanics(s)
       \/ \E r \in {"ok", "failed"} : CompileEnds(s, r)
       \/ \E r \in {"passed", "failed"} : TestEnds(s, r)

Spec == Init /\ [][Next]_vars

\* The runner is scheduled, its timers fire, BeforeFunc and the teardown
\* functions return. Nothing is assumed of compilers and TestFuncs.
FairSpec == Spec /\ WF_vars(Runner)

-----------------------------------------------------------------------------

\* Every variable has its type.
TypeOK ==
  /\ plan \in [Steps -> Plan]
  /\ step \in 1..(Stages + AntiCheats + 1)
  /\ pc \in {"begin", "files", "compile", "compiling", "before", "launch",
             "testing", "report", "teardown", "tearing"}
  /\ cause \in {"none", "files", "compile", "before", "test", "timeout"}
  /\ compile \in [Steps -> {"none", "running", "ok", "failed"}]
  /\ detected \in [Steps -> BOOLEAN]
  /\ test \in [Steps -> {"none", "running", "passed", "failed"}]
  /\ registered \in [Steps -> 0..MaxReg]
  /\ todo \in 0..MaxReg
  /\ ran \in [Steps -> 0..MaxReg]
  /\ report \in [Steps -> {"none", "passed", "failed"}]
  /\ code \in 0..3

\* Exit code 0 means that every stage and every anti-cheat stage has compiled what
\* it declares, has been tested and reported passed, and has been torn down; a result
\* that comes after its timeout does not count (test_runner.go:94-116,
\* tester.go:186-194).
PassMeansAllPassed ==
  code = 0 => \A s \in Steps :
    /\ test[s] = "passed" /\ report[s] = "passed"
    /\ plan[s].compile # "none" => compile[s] = "ok"
    /\ ran[s] = registered[s]

\* "any phase failure skips remaining phases" (tester_definition.go:65), and the
\* remaining steps: TestFunc only runs on what has compiled, nothing of a step
\* after a failed one has started, and a failure ends in exit code 1.
FailureStopsTheRun ==
  /\ \A s \in Steps : test[s] # "none" /\ plan[s].compile # "none" => compile[s] = "ok"
  /\ \A s, t \in Steps : report[s] = "failed" /\ t > s =>
       compile[t] = "none" /\ test[t] = "none" /\ registered[t] = 0
  /\ code \in {0, 1} => (code = 1 <=> \E s \in Steps : report[s] = "failed")

\* A compilation that has outlived its timeout never runs beside the TestFunc of
\* its step or with a later step, and what TestFunc reads in DetectedLang is set
\* exactly when the language was to be detected
\* (compile.go:81-85, test_case_harness.go:51-53).
TestSeesItsLanguage ==
  \A s \in Steps :
    /\ test[s] # "none" => (detected[s] <=> plan[s].compile = "auto")
    /\ compile[s] = "running" => step = s /\ test[s] = "none"

\* Teardown functions run once the outcome has been reported
\* (test_case_harness.go:55), none twice, and all of them unless TestFunc was
\* still running when they were counted: for every step the runner has left.
TornDown ==
  \A s \in Steps :
    /\ ran[s] > 0 => report[s] # "none"
    /\ ran[s] <= registered[s]
    /\ s < step \/ (s = step /\ code = 1 /\ cause # "timeout") =>
         ran[s] = registered[s]

\* The run ends, whatever compilers and TestFuncs do.
RunTerminates == <>~Alive

-----------------------------------------------------------------------------
(***************************************************************************)
(* The two runs as RunCLI sees them. Tester does not look into a step: it  *)
(* passes or fails. AntiCheats = 0 stands for a run that skips them.       *)
(***************************************************************************)

\* The stages that are over, each with what has been reported of it.
StagesOver ==
  [s \in 1..(IF step > Stages THEN Stages ELSE step - 1) |->
     IF report[s] = "passed" THEN s ELSE 0]

RunCLI == INSTANCE Tester WITH
  Slugs <- [s \in 1..Stages |-> s], cases <- [s \in 1..Stages |-> s],
  Foreign <- {}, HasLegacy <- FALSE, MaxWords <- 0, MaxCases <- 0,
  line <- <<>>, option <- "none", cli <- <<>>, asked <- <<>>, exe <- <<>>,
  env <- [skip |-> IF AntiCheats = 0 THEN "true" ELSE "none"],
  pc <- IF code # 3 THEN "exited"
        ELSE IF step <= Stages \/ (step = Stages + 1 /\ pc = "begin") THEN "stages"
        ELSE "anticheat",
  ran <- StagesOver,
  cheated <- IF step > Stages THEN step - (Stages + 1) ELSE 0

\* What a step does, its goroutines, timers and teardown included, is for Tester
\* one of: it passes, it fails the run with exit code 1, a panic ends it with 2,
\* or the next run begins or is over (tester.go:171-195, test_runner.go:61-120).
ImplementsTheRuns ==
  [][\/ RunCLI!StepPasses \/ RunCLI!StepFails(1) \/ RunCLI!StepFails(2)
     \/ RunCLI!StagesPassed("none") \/ RunCLI!StagesPassed("true")
     \/ RunCLI!AntiCheatsPassed]_(RunCLI!vars)

=============================================================================
