------------------------------- MODULE StepRun -------------------------------
(***************************************************************************)
(* A step of the test runner whose TestFunc uses harness.Executable and    *)
(* registers its Kill as a teardown function, as test_case_harness.go:29   *)
(* tells it to: Executable composed with TestRunner.                       *)
(*                                                                         *)
(* Owner is the goroutine of TestFunc, Killer the runner's, which comes to *)
(* Kill in RunTeardownFuncs, perhaps while a TestFunc that has run into    *)
(* its timeout is still inside a call. The two share the Executable; what  *)
(* either does is a step of both modules at once.                          *)
(***************************************************************************)
EXTENDS Executable

CONSTANTS
  Killer,  \* the goroutine of the runner
  MaxReg   \* bound: teardown functions registered

ASSUME OneRunner == Killers = {Killer}
ASSUME RegistrationsAssumption == MaxReg \in Nat

VARIABLES
  plan, step, pc, cause, compile, detected, test, registered, todo, ran, report,
  code,    \* those of TestRunner
  seen     \* history: the value of starts when the runner's last Kill captured cmd

\* One stage, without anti-cheats.
TR == INSTANCE TestRunner WITH Stages <- 1, AntiCheats <- 0

\* The process lives.
Alive == code = 3

step1 == <<plan, step, pc, cause, compile, detected, test, registered, todo, ran,
           report, code>>
allvars == <<vars, step1, seen>>

\* The test case declares neither files nor a compilation nor a BeforeFunc, which
\* have nothing to do with the Executable.
Bare == [files |-> FALSE, compile |-> "none", before |-> FALSE]

StepInit == Init /\ TR!Init /\ plan = [s \in TR!Steps |-> Bare] /\ seen = 0

-----------------------------------------------------------------------------

\* The runner outside its teardown.
RunnerSteps ==
  /\ \/ TR!BeginStep \/ TR!CheckFiles \/ TR!StartCompile \/ TR!BeforeReturns
     \/ TR!LaunchTest \/ TR!AwaitTest \/ TR!Report \/ TR!BeginTeardown
     \/ TR!EndStep \/ TR!Finish
  /\ UNCHANGED <<vars, seen>>

\* The next teardown function calls Kill, which finds nothing running and is
\* over at once.
TeardownIdle ==
  /\ TR!RunTeardown
  /\ KillNothing(Killer)
  /\ seen' = starts

\* It finds a program,
TeardownKill ==
  /\ Alive /\ pc = "tearing" /\ ran[1] < todo
  /\ KillCheck(Killer)
  /\ UNCHANGED <<step1, seen>>

\* captures it
TeardownCaptures ==
  /\ Alive
  /\ CallKill(Killer)
  /\ seen' = starts
  /\ UNCHANGED step1

\* and goes about it with the goroutine it has started.
TeardownGoesOn ==
  /\ Alive
  /\ \/ WaitEnter(Killer)
     \/ \E s \in Streams : WaitReceive(Killer, s)
     \/ WaitReap(Killer) \/ WaitFlush(Killer) \/ WaitJudge(Killer)
     \/ WaitCleanup(Killer) \/ WaitClear(Killer)
     \/ KillTerm(Killer) \/ KillTimeout(Killer)
  /\ UNCHANGED <<step1, seen>>

\* Kill returns, and with it the teardown function.
TeardownReturns ==
  /\ TR!RunTeardown
  /\ KillReturn(Killer)
  /\ UNCHANGED seen

\* TestFunc is inside a call of the Executable.
TestInCall ==
  /\ Alive
  /\ \/ StdinWritten
     \/ WaitEnter(Owner)
     \/ \E s \in Streams : WaitReceive(Owner, s)
     \/ WaitReap(Owner) \/ WaitFlush(Owner) \/ WaitJudge(Owner)
     \/ WaitCleanup(Owner) \/ WaitClear(Owner)
     \/ CallKill(Owner) \/ KillTerm(Owner) \/ KillTimeout(Owner) \/ KillReturn(Owner)
  /\ UNCHANGED <<step1, seen>>

\* TestFunc calls the Executable, as long as it runs.
TestCalls ==
  /\ Alive /\ test[1] = "running"
  /\ \/ StartFails
     \/ \E next \in {"idle", "stdin", "waiting"} : StartOk(next)
     \/ CallWait
     \/ KillCheck(Owner)
  /\ UNCHANGED <<step1, seen>>

\* Between two calls it registers a teardown function, returns or panics.
TestMoves ==
  /\ call[Owner] = "idle"
  /\ \/ TR!TestRegisters(1) \/ TR!TestPanics(1)
     \/ \E r \in {"passed", "failed"} : TR!TestEnds(1, r)
  /\ UNCHANGED <<vars, seen>>

\* A call that meets fields a Wait has cleared panics, in TestFunc's goroutine or
\* that of Kill: the process ends.
Crash ==
  /\ \/ \E c \in Callers : WaitPanics(c) \/ KillPanics(c)
     \/ test[1] = "running" /\ StartPanics
  /\ TR!Panics
  /\ UNCHANGED seen

World ==
  /\ Alive
  /\ Helper \/ Program
  /\ UNCHANGED <<step1, seen>>

StepNext ==
  \/ RunnerSteps \/ TeardownIdle \/ TeardownKill \/ TeardownCaptures
  \/ TeardownGoesOn \/ TeardownReturns
  \/ TestInCall \/ TestCalls \/ TestMoves
  \/ Crash \/ World

StepSpec == StepInit /\ [][StepNext]_allvars

\* The fairness of both modules: the runner, the goroutine of Kill, the relays
\* and the monitor are scheduled and timers fire. Nothing is assumed of TestFunc
\* and the program.
StepFairness ==
  /\ WF_allvars(\/ RunnerSteps \/ TeardownIdle \/ TeardownKill \/ TeardownCaptures
                \/ TeardownReturns)
  /\ WF_allvars((TeardownGoesOn \/ Crash) /\ CallStep(Killer))
  /\ WF_allvars(TeardownGoesOn /\ KillTimeout(Killer))
  /\ \A s \in Streams : WF_allvars(World /\ RelayStep(s))
  /\ WF_allvars(World /\ (Expire \/ WatchKill))
  /\ WF_allvars(World /\ (MonitorOver \/ MonitorKill))

FairStepSpec == StepSpec /\ StepFairness

-----------------------------------------------------------------------------

\* When a step that has registered a Kill has ended, its program is dead and
\* reaped; after a timeout at least the one that had been started before the runner
\* came to Kill, whatever the TestFunc was doing (test_runner.go:94-112,
\* executable.go:391-425). What a TestFunc starts after that, or does not register,
\* outlives the step.
TeardownKills ==
  code \in {0, 1} /\ todo > 0 /\ (cause = "timeout" => starts = seen) =>
    child \in {"none", "reaped"}

\* TestFunc is inside Wait or Kill while the runner is inside Kill.
Overlap == call[Killer] \in {"kill", "killed"} /\ wpc[Owner] # "none"

\* The step ends, whatever the program and the TestFunc do, the hung TestFunc and
\* the program that ignores SIGTERM included. Only one thing keeps the runner in its
\* teardown for good, that a Wait, the TestFunc's or that of Kill, is left without a
\* message or a program that is still to come (executable.go:345-348), and
\* descendants that have left the group, for as long as they hold the output.
StepEnds == []<>(strays \cap Streams = {}) => <>(code # 3 \/ ~NeverStranded)

=============================================================================
