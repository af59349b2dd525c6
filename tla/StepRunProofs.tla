---------------------------- MODULE StepRunProofs ----------------------------
(***************************************************************************)
(* The composition adds nothing to what the Executable does: every         *)
(* behaviour of a step is one of the Executable, so that what is proved of *)
(* it holds in a step as well. On that rests the proof of what Kill is     *)
(* registered for: that no program outlives the step.                      *)
(***************************************************************************)
EXTENDS StepRun, ExecutableProofs, TLAPS

\* What the step lets the Executable do is what the Executable does on its own:
\* the guards the composition adds only take behaviours away.
THEOREM StepIsExecutable == StepSpec => Spec
<1>1. StepInit => Init
  BY DEF StepInit
<1>2. StepNext => [Next]_vars
  <2> SUFFICES ASSUME StepNext PROVE [Next]_vars
    OBVIOUS
  <2> USE OneRunner DEF Next, Starting, Waiting, Killing, Callers
  <2>1. CASE RunnerSteps
    BY <2>1 DEF RunnerSteps
  <2>2. CASE TeardownIdle
    BY <2>2 DEF TeardownIdle
  <2>3. CASE TeardownKill
    BY <2>3 DEF TeardownKill
  <2>11. CASE TeardownCaptures
    BY <2>11 DEF TeardownCaptures
  <2>4. CASE TeardownGoesOn
    BY <2>4 DEF TeardownGoesOn
  <2>5. CASE TeardownReturns
    BY <2>5 DEF TeardownReturns
  <2>6. CASE TestInCall
    BY <2>6 DEF TestInCall
  <2>7. CASE TestCalls
    BY <2>7 DEF TestCalls
  <2>8. CASE TestMoves
    BY <2>8 DEF TestMoves
  <2>9. CASE Crash
    BY <2>9 DEF Crash
  <2>10. CASE World
    BY <2>10 DEF World
  <2> QED
    BY <2>1, <2>2, <2>3, <2>4, <2>5, <2>6, <2>7, <2>8, <2>9, <2>10,
       <2>11
    DEF StepNext
<1>3. UNCHANGED allvars => UNCHANGED vars
  BY DEF allvars
<1> QED
  BY <1>1, <1>2, <1>3, PTL DEF StepSpec, Spec

\* Whatever a TestFunc and the teardown that overtakes it do to the Executable
\* they share, only one Wait judges the program (executable.go:345-389).
THEOREM StepOneJudge == StepSpec => []OneJudge
BY StepIsExecutable, JudgeCorrect, PTL

-----------------------------------------------------------------------------
(***************************************************************************)
(* A program that was there when Kill was called is gone when the step is  *)
(* over. The argument: a program only comes to be with a new value of      *)
(* starts, Kill's Wait is done only when it has reaped the program itself, *)
(* and a Kill that finds nothing running finds the last program reaped.    *)
(***************************************************************************)

Gone == child \in {"none", "reaped"}
Settled == starts = seen => Gone

\* The runner's place and that of the Kill it has called.
TInv ==
  /\ seen \in Nat /\ seen <= starts
  /\ todo \in Nat /\ ran \in [{1} -> Nat] /\ registered \in [{1} -> Nat]
  /\ step \in {1, 2} /\ (step = 2 => pc = "begin")
  /\ call[Killer] \in {"idle", "check", "kill", "killed"}
  /\ call[Killer] # "idle" => step = 1 /\ pc = "tearing" /\ ran[1] < todo
  /\ call[Killer] \in {"idle", "check"} /\ ran[1] > 0 => Settled
  /\ wpc[Killer] \in {"clear", "done"} => Settled
  /\ code \in {0, 1} \/ step = 2 => ran[1] = todo

\* Only StartOk makes a program that is not gone.
LEMMA GoneStays ==
  ASSUME TypeOK, [Next]_vars
  PROVE  starts \in Nat /\ starts' \in Nat /\ starts <= starts'
         /\ (Gone /\ starts' = starts => Gone')
<1> USE BoundsAssumption DEF TypeOK, Gone
<1>1. starts \in Nat
  OBVIOUS
<1>2. CASE StartFails \/ \E next \in {"idle", "stdin", "waiting"} : StartOk(next)
  BY <1>1, <1>2 DEF StartFails, StartOk, SetFields, program
<1>3. CASE starts' = starts /\ child' = child
  BY <1>1, <1>3
<1>4. CASE starts' = starts /\ child # "none" /\ child = "running"
  BY <1>1, <1>4
<1>5. CASE starts' = starts /\ child' = "reaped"
  BY <1>1, <1>5
<1>6. CASE StartRefused \/ StartPanics \/ StdinWritten \/ CallWait
  BY <1>3, <1>6 DEF StartRefused, StartPanics, StdinWritten, CallWait, vars, program
<1>7. ASSUME NEW c \in Callers,
             \/ WaitEnter(c) \/ (\E s \in Streams : WaitReceive(c, s)) \/ WaitReap(c)
             \/ WaitFlush(c) \/ WaitJudge(c) \/ WaitCleanup(c) \/ WaitClear(c)
             \/ WaitPanics(c)
      PROVE  starts' = starts /\ (child' = child \/ child' = "reaped")
  BY <1>7 DEF WaitEnter, WaitReceive, WaitReap, WaitFlush, WaitJudge, WaitCleanup,
              WaitClear, WaitPanics, program
<1>8. ASSUME NEW c \in Callers,
             \/ KillNothing(c) \/ KillCheck(c) \/ CallKill(c) \/ KillPanics(c)
             \/ KillTerm(c) \/ KillTimeout(c) \/ KillReturn(c)
      PROVE  starts' = starts /\ (child' = child \/ child = "running")
  BY <1>8 DEF KillNothing, KillCheck, KillPanics, CallKill, KillTerm, KillTimeout,
     KillReturn, KillGroup,
              vars, program
<1>9. ASSUME Helper PROVE starts' = starts /\ (child' = child \/ child = "running")
  BY <1>9 DEF Helper, Expire, WatchKill, RelayCopy, RelayEnd, RelayDrain, RelayExit,
              MonitorFound, MonitorOver, MonitorKill, MonitorGone, KillGroup, program
<1>10. ASSUME Program PROVE starts' = starts /\ (child' = child \/ child = "running")
  BY <1>10 DEF Program, ProgramWrites, ProgramCloses, ProgramExits, ProgramForks,
               DescendantsLeave, DescendantsExit, StraysExit, program
<1>11. CASE UNCHANGED vars
  BY <1>3, <1>11 DEF vars
<1> QED
  BY <1>2, <1>3, <1>4, <1>5, <1>6, <1>7, <1>8, <1>9, <1>10, <1>11
  DEF Next, Starting, Waiting, Killing

\* A Wait only comes to its end when it has reaped the program.
LEMMA DoneMeansReaped ==
  ASSUME IInv, [Next]_vars, NEW k \in Callers,
         wpc'[k] \in {"clear", "done"}, wpc[k] \notin {"clear", "done"}
  PROVE  Gone'
<1> USE DEF IInv, TypeOK
<1>1. ASSUME NEW c \in Callers, WaitCleanup(c) PROVE child' = "reaped"
  BY <1>1 DEF WaitCleanup, Idle, Reaped, program
<1>2. ASSUME NEW c \in Callers,
             \/ WaitEnter(c) \/ (\E s \in Streams : WaitReceive(c, s)) \/ WaitReap(c)
             \/ WaitFlush(c) \/ WaitJudge(c) \/ WaitPanics(c)
             \/ KillNothing(c) \/ KillCheck(c) \/ CallKill(c) \/ KillPanics(c)
             \/ KillTerm(c) \/ KillTimeout(c) \/ KillReturn(c)
      PROVE  FALSE
  BY <1>2 DEF WaitEnter, WaitReceive, WaitReap, WaitFlush, WaitJudge, WaitPanics,
              KillNothing, KillCheck, CallKill, KillPanics, KillTerm, KillTimeout,
              KillReturn, vars, callers
<1>3. ASSUME NEW c \in Callers, WaitClear(c) PROVE FALSE
  BY <1>3 DEF WaitClear, Stranded
<1>4. ~(StartRefused \/ StartPanics \/ StdinWritten \/ CallWait \/ StartFails)
  BY DEF StartRefused, StartPanics, StdinWritten, CallWait, StartFails, Stranded, vars
<1>5. ASSUME NEW next \in {"idle", "stdin", "waiting"}, StartOk(next) PROVE FALSE
  BY <1>5 DEF StartOk, Stranded
<1>6. ~Helper
  BY DEF Helper, Expire, WatchKill, RelayCopy, RelayEnd, RelayDrain, RelayExit,
         MonitorFound, MonitorOver, MonitorKill, MonitorGone, callers
<1>7. ~Program
  BY DEF Program, ProgramWrites, ProgramCloses, ProgramExits, ProgramForks,
         DescendantsLeave, DescendantsExit, StraysExit, callers
<1>8. ~UNCHANGED vars
  BY DEF vars
<1> QED
  BY <1>1, <1>2, <1>3, <1>4, <1>5, <1>6, <1>7, <1>8
  DEF Next, Starting, Waiting, Killing, Gone

\* What a step leaves alone it leaves settled.
LEMMA SettledStays ==
  ASSUME TypeOK, [Next]_vars, seen \in Nat, seen <= starts, seen' = seen
  PROVE  seen' <= starts' /\ (Settled => Settled')
BY GoneStays DEF Settled

\* What is left of TInv to show when the step does not touch the runner's side.
LEMMA OthersKeep ==
  ASSUME IInv, TInv, [Next]_vars, seen' = seen,
         UNCHANGED <<todo, ran, step, pc>>, registered' \in [{1} -> Nat],
         call'[Killer] \in {"idle", "check", "kill", "killed"},
         call'[Killer] # "idle" => call[Killer] # "idle",
         call'[Killer] \in {"idle", "check"} => call[Killer] \in {"idle", "check"},
         code' = code \/ code' = 2
  PROVE  TInv'
<1>1. seen' <= starts' /\ (Settled => Settled') /\ starts' \in Nat /\ starts \in Nat
  BY SettledStays, GoneStays DEF TInv, IInv
<1>2. wpc'[Killer] \in {"clear", "done"} => Settled'
  BY <1>1, DoneMeansReaped, OneRunner DEF TInv, Callers, Settled
<1> QED
  BY <1>1, <1>2 DEF TInv

LEMMA InitTInv == StepInit => TInv
BY OneRunner DEF StepInit, Init, TR!Init, TInv, TR!Steps, Callers

\* An action of Owner's leaves the call of the runner alone.
LEMMA TestKeepsCall ==
  ASSUME TypeOK, TestInCall \/ TestCalls
  PROVE  call'[Killer] = call[Killer]
<1> /\ Owner # Killer /\ Killer \in Callers
    /\ call \in [Callers -> {"idle", "start", "stdin", "waiting", "check", "kill", "killed"}]
  BY OneRunner, OwnerAssumption DEF Callers, TypeOK
<1> QED
  BY DEF TestInCall, TestCalls, StdinWritten, WaitEnter, WaitReceive, WaitReap,
         WaitFlush, WaitJudge, WaitCleanup, WaitClear, KillCheck, KillTerm, KillTimeout,
         KillReturn, StartFails, StartOk, SetFields, CallWait, CallKill, callers

LEMMA NextTInv == ASSUME IInv, TInv, StepNext, IInv' PROVE TInv'
<1> USE OneRunner DEF Callers, step1
<1>0. TypeOK /\ TypeOK' /\ Killer \in Callers
  BY DEF IInv
<1>1. CASE RunnerSteps
  <2>1. /\ UNCHANGED <<call, wpc, starts, seen, child>>
    BY <1>1 DEF RunnerSteps, vars, callers, program
  <2>2. CASE TR!BeginStep
    BY <2>1, <2>2 DEF TR!BeginStep, TR!At, TR!Alive, TR!Go, TR!Steps, TInv, Settled,
       Gone
  <2>3. CASE TR!CheckFiles \/ TR!StartCompile \/ TR!BeforeReturns \/ TR!LaunchTest
    BY <2>1, <2>3 DEF TR!CheckFiles, TR!StartCompile, TR!BeforeReturns, TR!LaunchTest,
       TR!At, TR!Alive, TR!Go, TR!Fail, TInv, Settled, Gone
  <2>4. CASE TR!AwaitTest \/ TR!Report
    BY <2>1, <2>4 DEF TR!AwaitTest, TR!Report, TR!At, TR!Alive, TR!Go, TR!Fail, TInv,
       Settled, Gone
  <2>5. CASE TR!BeginTeardown
    BY <2>1, <2>5 DEF TR!BeginTeardown, TR!At, TR!Alive, TR!Go, TInv, Settled, Gone
  <2>6. CASE TR!EndStep
    BY <2>1, <2>6 DEF TR!EndStep, TR!At, TR!Alive, TR!Go, TInv, Settled, Gone
  <2>7. CASE TR!Finish
    BY <2>1, <2>7 DEF TR!Finish, TR!At, TR!Alive, TR!Steps, TInv, Settled, Gone
  <2> QED
    BY <1>1, <2>2, <2>3, <2>4, <2>5, <2>6, <2>7 DEF RunnerSteps
<1>2. CASE TeardownIdle
  <2>1. /\ UNCHANGED vars /\ ~cmd /\ call[Killer] = "idle" /\ seen' = starts
        /\ TR!RunTeardown
    BY <1>2 DEF TeardownIdle, KillNothing
  <2>2. Settled'
    BY <2>1 DEF IInv, Idle, Settled, Gone, vars, program
  <2>3. starts \in Nat
    BY <1>0, BoundsAssumption DEF TypeOK
  <2> QED
    BY <2>1, <2>2, <2>3 DEF TR!RunTeardown, TR!At, TR!Alive, TR!main, TInv, vars,
       callers
<1>3. CASE TeardownKill
  <2>1. /\ call[Killer] = "idle" /\ call'[Killer] = "check"
        /\ UNCHANGED <<wpc, starts, child, seen, step1>>
        /\ ran[1] < todo /\ pc = "tearing"
    BY <1>0, <1>3 DEF TeardownKill, KillCheck, TypeOK, program
  <2> QED
    BY <2>1 DEF TInv, Settled, Gone
<1>4. CASE TeardownCaptures
  <2>1. /\ call[Killer] = "check" /\ call'[Killer] = "kill" /\ wpc'[Killer] = "term"
        /\ UNCHANGED <<starts, step1>> /\ seen' = starts /\ starts \in Nat
    BY <1>0, <1>4, BoundsAssumption DEF TeardownCaptures, CallKill, TypeOK
  <2> QED
    BY <2>1 DEF TInv
<1>5. CASE TeardownGoesOn
  <2>1. call[Killer] \in {"idle", "check", "kill", "killed"}
    BY DEF TInv
  <2>3. \/ call'[Killer] = call[Killer]
        \/ call[Killer] \in {"kill", "killed"} /\ call'[Killer] \in {"kill", "killed"}
    BY <1>0, <1>5, <2>1 DEF TypeOK, TeardownGoesOn, WaitEnter, WaitReceive, WaitReap,
       WaitFlush, WaitJudge, WaitCleanup, WaitClear, KillTerm, KillTimeout, callers
  <2>2. [Next]_vars
    BY <1>5 DEF TeardownGoesOn, Next, Starting, Waiting, Killing
  <2> QED
    BY <2>1, <2>2, <2>3, <1>5, OthersKeep DEF TeardownGoesOn, TInv
<1>6. CASE TeardownReturns
  <2>1. /\ wpc[Killer] = "done" /\ call'[Killer] = "idle" /\ wpc'[Killer] = "none"
        /\ UNCHANGED <<starts, seen, child>> /\ TR!RunTeardown
    BY <1>0, <1>6 DEF TeardownReturns, KillReturn, TypeOK, program
  <2> QED
    BY <2>1 DEF TR!RunTeardown, TR!At, TR!Alive, TR!main, TInv, Settled, Gone
<1>7. CASE TestInCall \/ TestCalls
  <2>1. call'[Killer] = call[Killer]
    BY <1>0, <1>7, TestKeepsCall
  <2>2. [Next]_vars
    BY <1>7 DEF TestInCall, TestCalls, Next, Starting, Waiting, Killing
  <2> QED
    BY <2>1, <2>2, <1>7, OthersKeep DEF TestInCall, TestCalls, TInv
<1>8. CASE TestMoves
  <2>1. /\ UNCHANGED vars /\ UNCHANGED <<call, todo, ran, step, pc, seen>>
        /\ code' = code \/ code' = 2
    BY <1>8 DEF TestMoves, TR!TestRegisters, TR!TestEnds, TR!TestPanics, TR!Panics,
       TR!main,
       vars, callers
  <2>2. registered' \in [{1} -> Nat]
    BY <1>8 DEF TestMoves, TR!TestRegisters, TR!TestEnds, TR!TestPanics, TR!Panics, TInv
  <2> QED
    BY <2>1, <2>2, OthersKeep DEF TInv
<1>9. CASE Crash
  <2>1. UNCHANGED <<todo, ran, step, pc, registered, seen>> /\ code' = 2
    BY <1>9 DEF Crash, TR!Panics
  <2>3. \/ call'[Killer] = call[Killer]
        \/ call[Killer] = "check" /\ call'[Killer] = "kill"
    BY <1>0, <1>9, OwnerAssumption DEF Crash, WaitPanics, KillPanics, StartPanics,
       TypeOK
  <2>2. [Next]_vars
    BY <1>9 DEF Crash, Next, Starting, Waiting, Killing
  <2> QED
    BY <2>1, <2>2, <2>3, OthersKeep DEF TInv
<1>10. CASE World
  <2>1. UNCHANGED call
    BY <1>10 DEF World, Helper, Program, Expire, WatchKill, RelayCopy, RelayEnd,
       RelayDrain, RelayExit, MonitorFound, MonitorOver, MonitorKill, MonitorGone,
       ProgramWrites,
       ProgramCloses, ProgramExits, ProgramForks, DescendantsLeave, DescendantsExit,
       StraysExit, callers
  <2>2. [Next]_vars
    BY <1>10 DEF World, Next
  <2> QED
    BY <2>1, <2>2, <1>10, OthersKeep DEF World, TInv
<1> QED
  BY <1>1, <1>2, <1>3, <1>4, <1>5, <1>6, <1>7, <1>8, <1>9, <1>10 DEF StepNext

LEMMA TeardownInv == StepSpec => []TInv
<1>1. StepSpec => []IInv
  BY StepIsExecutable, Invariance, PTL
<1>2. IInv /\ TInv /\ UNCHANGED allvars => TInv'
  BY OneRunner DEF allvars, step1, vars, program, callers, TInv, Settled, Gone, Callers
<1>3. IInv /\ TInv /\ [StepNext]_allvars /\ IInv' => TInv'
  BY <1>2, NextTInv
<1> QED
  BY <1>1, <1>3, InitTInv, PTL DEF StepSpec

\* What a TestFunc and the teardown that overtakes it see of the program they share
\* is what ProgramRun promises, until a call of theirs panics: one verdict, after its
\* end, with all of its output (executable.go:212-391).
THEOREM StepRunRefined == StepSpec /\ []NoNilDereference => ImplementsProgramRun
BY StepIsExecutable, RunRefined, PTL

-----------------------------------------------------------------------------
(***************************************************************************)
(* Nor does the composition add to what the runner does. The one step that *)
(* needs an argument is a call that panics: the goroutine it ends the      *)
(* process in is that of a TestFunc that is running, or that of a Kill the *)
(* runner is waiting for in its teardown, and there TestRunner allows for  *)
(* a panic.                                                                *)
(***************************************************************************)

\* Only a running TestFunc is inside a call of the Executable.
Inside ==
  /\ test \in [{1} -> {"none", "running", "passed", "failed"}]
  /\ call[Owner] # "idle" => test[1] = "running"

LEMMA OneStep == TR!Steps = {1}
BY DEF TR!Steps

LEMMA InsideStep ==
  ASSUME TypeOK, TInv, Inside, StepNext
  PROVE  Inside'
<1>0. /\ Owner # Killer /\ {Owner, Killer} \subseteq Callers
      /\ call \in [Callers -> {"idle", "start", "stdin", "waiting", "check", "kill", "killed"}]
  BY OneRunner, OwnerAssumption DEF Callers, TypeOK
<1>1. CASE RunnerSteps
  <2>1. call' = call
    BY <1>1 DEF RunnerSteps, vars, callers
  <2>2. CASE TR!LaunchTest
    <3>1. step = 1
      BY <2>2 DEF TR!LaunchTest, TR!At, TInv
    <3> QED
      BY <2>1, <2>2, <3>1 DEF TR!LaunchTest, Inside
  <2>3. CASE UNCHANGED test
    BY <2>1, <2>3 DEF Inside
  <2>4. CASE \/ TR!BeginStep \/ TR!CheckFiles \/ TR!StartCompile \/ TR!BeforeReturns
             \/ TR!AwaitTest \/ TR!Report \/ TR!BeginTeardown \/ TR!EndStep \/ TR!Finish
    BY <2>3, <2>4 DEF TR!BeginStep, TR!CheckFiles, TR!StartCompile, TR!BeforeReturns,
       TR!AwaitTest, TR!Report, TR!BeginTeardown, TR!EndStep, TR!Finish
  <2> QED
    BY <1>1, <2>2, <2>4 DEF RunnerSteps
<1>2. CASE TeardownIdle
  BY <1>2 DEF TeardownIdle, KillNothing, TR!RunTeardown, vars, callers, Inside
<1>3. CASE TeardownKill
  BY <1>0, <1>3 DEF TeardownKill, KillCheck, step1, Inside
<1>4. CASE TeardownCaptures
  BY <1>0, <1>4 DEF TeardownCaptures, CallKill, step1, Inside
<1>5. CASE TeardownGoesOn
  <2>1. call'[Owner] = call[Owner]
    BY <1>0, <1>5 DEF TeardownGoesOn, WaitEnter, WaitReceive, WaitReap, WaitFlush,
       WaitJudge, WaitCleanup, WaitClear, KillTerm, KillTimeout, callers
  <2> QED
    BY <1>5, <2>1 DEF TeardownGoesOn, step1, Inside
<1>6. CASE TeardownReturns
  BY <1>0, <1>6 DEF TeardownReturns, KillReturn, TR!RunTeardown, Inside
<1>7. CASE TestInCall
  <2>1. call'[Owner] # "idle" => call[Owner] # "idle"
    BY <1>0, <1>7 DEF TestInCall, StdinWritten, WaitEnter, WaitReceive, WaitReap,
       WaitFlush, WaitJudge, WaitCleanup, WaitClear, CallKill, KillTerm, KillTimeout,
       KillReturn, callers
  <2> QED
    BY <1>7, <2>1 DEF TestInCall, step1, Inside
<1>8. CASE TestCalls
  BY <1>8 DEF TestCalls, step1, Inside
<1>9. CASE TestMoves
  <2>1. call[Owner] = "idle" /\ call' = call
    BY <1>9 DEF TestMoves, vars, callers
  <2> QED
    BY <1>9, <2>1 DEF TestMoves, TR!TestRegisters, TR!TestEnds, TR!TestPanics,
       TR!Panics,
       Inside
<1>10. CASE Crash
  <2>1. UNCHANGED test
    BY <1>10 DEF Crash, TR!Panics
  <2>2. call'[Owner] = call[Owner] \/ call[Owner] = "check" \/ test[1] = "running"
    BY <1>0, <1>10 DEF Crash, WaitPanics, KillPanics
  <2> QED
    BY <2>1, <2>2 DEF Inside
<1>11. CASE World
  <2>1. call' = call
    BY <1>11 DEF World, Helper, Program, Expire, WatchKill, RelayCopy, RelayEnd,
       RelayDrain, RelayExit, MonitorFound, MonitorOver, MonitorKill, MonitorGone,
       ProgramWrites,
       ProgramCloses, ProgramExits, ProgramForks, DescendantsLeave, DescendantsExit,
       StraysExit, callers
  <2> QED
    BY <1>11, <2>1 DEF World, step1, Inside
<1> QED
  BY <1>1, <1>2, <1>3, <1>4, <1>5, <1>6, <1>7, <1>8, <1>9, <1>10, <1>11
  DEF StepNext

LEMMA TestRunStep ==
  ASSUME TypeOK, Calls, TInv, Inside, StepNext
  PROVE  TR!Next \/ UNCHANGED TR!vars
<1> USE OneStep
<1>1. ASSUME UNCHANGED step1 PROVE UNCHANGED TR!vars
  BY <1>1 DEF step1, TR!vars, TR!main
<1>2. CASE RunnerSteps
  BY <1>2 DEF RunnerSteps, TR!Next, TR!Runner
<1>3. CASE TeardownIdle \/ TeardownReturns
  BY <1>3 DEF TeardownIdle, TeardownReturns, TR!Next, TR!Runner
<1>4. CASE \/ TeardownKill \/ TeardownCaptures \/ TeardownGoesOn \/ TestInCall
           \/ TestCalls \/ World
  BY <1>1, <1>4 DEF TeardownKill, TeardownCaptures, TeardownGoesOn, TestInCall,
     TestCalls,
     World
<1>5. CASE TestMoves
  BY <1>5 DEF TestMoves, TR!Next
<1>6. CASE Crash
  <2>0. TR!Panics
    BY <1>6 DEF Crash
  <2>1. CASE test[1] = "running"
    <3>1. TR!TestPanics(1)
      BY <2>0, <2>1 DEF TR!TestPanics
    <3> QED
      BY <3>1 DEF TR!Next
  <2>2. CASE \E c \in Callers : WaitPanics(c) \/ KillPanics(c)
    <3>1. PICK c \in Callers : WaitPanics(c) \/ KillPanics(c)
      BY <2>2
    <3>2. call[c] # "idle"
      BY <3>1 DEF WaitPanics, KillPanics, Calls
    <3>3. CASE c = Owner
      BY <2>1, <3>2, <3>3 DEF Inside
    <3>4. CASE c = Killer
      <4>1. pc = "tearing" /\ ran[step] < todo
        BY <3>2, <3>4 DEF TInv
      <4>2. TR!TeardownPanics
        BY <2>0, <4>1 DEF TR!TeardownPanics, TR!At, TR!Panics
      <4> QED
        BY <4>2 DEF TR!Next
    <3> QED
      BY <3>3, <3>4, OneRunner DEF Callers
  <2> QED
    BY <1>6, <2>1, <2>2 DEF Crash
<1> QED
  BY <1>2, <1>3, <1>4, <1>5, <1>6 DEF StepNext

\* What TestFunc and Kill do to the Executable they share, a panic in either of
\* them included, is for the runner the behaviour of some TestFunc and some
\* teardown functions, so that what is proved of TestRunner holds of the step
\* (test_runner.go:58-116).
THEOREM StepIsTestRun == StepSpec => TR!Spec
<1>1. StepInit => TR!Init /\ Calls /\ Inside
  BY OneStep DEF StepInit, Init, TR!Init, Calls, Inside, Callers
<1>2. TypeOK /\ TInv /\ Inside /\ [StepNext]_allvars => Inside'
  BY InsideStep DEF allvars, step1, vars, callers, Inside
<1>3. TypeOK /\ Calls /\ [Next]_vars => Calls'
  BY CallsStep
<1>4. TypeOK /\ Calls /\ TInv /\ Inside /\ [StepNext]_allvars => [TR!Next]_TR!vars
  BY TestRunStep DEF allvars, step1, TR!vars, TR!main
<1>5. StepSpec => []TypeOK
  BY StepIsExecutable, TypeCorrect, PTL
<1> QED
  BY <1>1, <1>2, <1>3, <1>4, <1>5, StepIsExecutable, TeardownInv, PTL
  DEF StepSpec, Spec, TR!Spec

-----------------------------------------------------------------------------
(***************************************************************************)
(* No program outlives the step. The Kill that comes after TestFunc has    *)
(* ended finds its last program; the one that overtakes a TestFunc that    *)
(* has timed out finds the one that is there.                              *)
(***************************************************************************)

\* The runner's phases: nothing is torn down before the last of them, and unless
\* TestFunc has run into its timeout it has ended by then, so that no program has
\* been started since the runner called Kill.
InTime ==
  /\ step = 1 /\ pc \notin {"testing", "report", "teardown", "tearing"} =>
       test[1] = "none" /\ ran[1] = 0
  /\ pc \in {"testing", "report", "teardown"} => ran[1] = 0
  /\ pc \in {"report", "teardown", "tearing"} /\ cause # "timeout" => test[1] # "running"
  /\ step = 2 => test[1] # "running" /\ cause = "none"
  /\ cause # "timeout" /\ code # 2 /\ (ran[1] > 0 \/ call[Killer] \in {"kill", "killed"}) =>
       starts = seen

\* TestFunc and the world leave the runner's side alone, and only a TestFunc that
\* runs starts a program.
LEMMA OthersInTime ==
  ASSUME TypeOK, TInv, InTime, [Next]_vars,
         UNCHANGED <<step, pc, cause, ran, seen>>, code' = code \/ code' = 2,
         call'[Killer] \in {"kill", "killed"} => call[Killer] \in {"kill", "killed"},
         test' = test \/ (test[1] = "running" /\ test'[1] # "running"),
         test[1] = "running" \/ starts' = starts
  PROVE  InTime'
<1>1. ran[1] \in Nat /\ (call[Killer] # "idle" => step = 1 /\ pc = "tearing")
  BY DEF TInv
<1>2. test[1] = "running" /\ cause # "timeout" => ran[1] = 0 /\ call[Killer] = "idle"
  BY <1>1 DEF InTime, TInv
<1> QED
  BY <1>1, <1>2 DEF InTime

LEMMA InTimeStep ==
  ASSUME TypeOK, TInv, Inside, InTime, StepNext
  PROVE  InTime'
<1> USE OneStep DEF step1
<1>0. /\ Owner # Killer /\ {Owner, Killer} \subseteq Callers
      /\ call \in [Callers -> {"idle", "start", "stdin", "waiting", "check", "kill", "killed"}]
      /\ ran[1] \in Nat
  BY OneRunner, OwnerAssumption DEF Callers, TypeOK, TInv
<1>1. CASE RunnerSteps
  <2>1. UNCHANGED <<call, starts, seen>>
    BY <1>1 DEF RunnerSteps, vars, callers, program
  <2>2. CASE TR!BeginStep \/ TR!CheckFiles \/ TR!StartCompile \/ TR!BeforeReturns
    BY <1>0, <2>1, <2>2 DEF TR!BeginStep, TR!CheckFiles, TR!StartCompile,
       TR!BeforeReturns, TR!At, TR!Go, TR!Fail, InTime, TInv
  <2>3. CASE TR!LaunchTest
    BY <1>0, <2>1, <2>3 DEF TR!LaunchTest, TR!At, TR!Go, InTime, TInv
  <2>4. CASE TR!AwaitTest
    BY <1>0, <2>1, <2>4 DEF TR!AwaitTest, TR!At, TR!Go, TR!Fail, InTime, TInv
  <2>5. CASE TR!Report \/ TR!BeginTeardown
    BY <1>0, <2>1, <2>5 DEF TR!Report, TR!BeginTeardown, TR!At, TR!Go, InTime, TInv
  <2>6. CASE TR!EndStep
    BY <1>0, <2>1, <2>6 DEF TR!EndStep, TR!At, TR!Alive, TR!Go, InTime, TInv
  <2>7. CASE TR!Finish
    BY <1>0, <2>1, <2>7 DEF TR!Finish, TR!At, TR!Alive, InTime, TInv
  <2> QED
    BY <1>1, <2>2, <2>3, <2>4, <2>5, <2>6, <2>7 DEF RunnerSteps
<1>2. CASE TeardownIdle
  BY <1>0, <1>2 DEF TeardownIdle, KillNothing, TR!RunTeardown, TR!At, TR!main, vars,
     program, callers, InTime, TInv
<1>3. CASE TeardownKill
  BY <1>0, <1>3 DEF TeardownKill, KillCheck, InTime, TInv
<1>4. CASE TeardownCaptures
  BY <1>0, <1>4 DEF TeardownCaptures, CallKill, InTime, TInv
<1>5. CASE TeardownGoesOn
  <2>1. [Next]_vars
    BY <1>0, <1>5 DEF TeardownGoesOn, Next, Starting, Waiting, Killing
  <2>2. call'[Killer] \in {"kill", "killed"} => call[Killer] \in {"kill", "killed"}
    BY <1>0, <1>5 DEF TeardownGoesOn, WaitEnter, WaitReceive, WaitReap, WaitFlush,
       WaitJudge, WaitCleanup, WaitClear, KillTerm, KillTimeout, callers
  <2>3. starts' = starts
    BY <1>5 DEF TeardownGoesOn, WaitEnter, WaitReceive, WaitReap, WaitFlush, WaitJudge,
       WaitCleanup, WaitClear, KillTerm, KillTimeout, program
  <2>4. UNCHANGED <<step, pc, cause, ran, test, seen, code>>
    BY <1>5 DEF TeardownGoesOn
  <2> QED
    BY <2>1, <2>2, <2>3, <2>4, OthersInTime
<1>6. CASE TeardownReturns
  BY <1>0, <1>6 DEF TeardownReturns, KillReturn, TR!RunTeardown, TR!At, TR!main,
     program, InTime, TInv
<1>7. CASE TestInCall
  <2>1. [Next]_vars
    BY <1>0, <1>7 DEF TestInCall, Next, Starting, Waiting, Killing
  <2>2. starts' = starts
    BY <1>7 DEF TestInCall, StdinWritten, WaitEnter, WaitReceive, WaitReap, WaitFlush,
       WaitJudge, WaitCleanup, WaitClear, CallKill, KillTerm, KillTimeout, KillReturn,
       program
  <2>3. UNCHANGED <<step, pc, cause, ran, test, seen, code>>
    BY <1>7 DEF TestInCall
  <2> QED
    BY <1>7, <2>1, <2>2, <2>3, TestKeepsCall, OthersInTime
<1>8. CASE TestCalls
  <2>1. [Next]_vars
    BY <1>0, <1>8 DEF TestCalls, Next, Starting, Waiting, Killing
  <2>2. UNCHANGED <<step, pc, cause, ran, test, seen, code>> /\ test[1] = "running"
    BY <1>8 DEF TestCalls
  <2> QED
    BY <1>8, <2>1, <2>2, TestKeepsCall, OthersInTime
<1>9. CASE TestMoves
  <2>1. /\ UNCHANGED vars /\ UNCHANGED <<call, starts, seen, step, pc, cause, ran>>
        /\ code' = code \/ code' = 2
    BY <1>9 DEF TestMoves, TR!TestRegisters, TR!TestEnds, TR!TestPanics, TR!Panics,
       TR!main,
       vars, callers, program
  <2>2. test' = test \/ (test[1] = "running" /\ test'[1] # "running")
    <3>1. CASE TR!TestRegisters(1) \/ TR!TestPanics(1)
      BY <3>1 DEF TR!TestRegisters, TR!TestPanics, TR!Panics
    <3>2. ASSUME NEW r \in {"passed", "failed"}, TR!TestEnds(1, r)
          PROVE  test[1] = "running" /\ test'[1] # "running"
      BY <3>2 DEF TR!TestEnds, Inside
    <3> QED
      BY <1>9, <3>1, <3>2 DEF TestMoves
  <2> QED
    BY <2>1, <2>2, OthersInTime
<1>10. CASE Crash
  <2>1. UNCHANGED <<step, pc, cause, ran, test>> /\ code' = 2
    BY <1>10 DEF Crash, TR!Panics
  <2> QED
    BY <2>1 DEF InTime
<1>11. CASE World
  <2>1. UNCHANGED <<call, starts>>
    BY <1>11 DEF World, Helper, Program, Expire, WatchKill, RelayCopy, RelayEnd,
       RelayDrain, RelayExit, MonitorFound, MonitorOver, MonitorKill, MonitorGone,
       KillGroup,
       ProgramWrites, ProgramCloses, ProgramExits, ProgramForks, DescendantsLeave,
       DescendantsExit, StraysExit,
       callers, program
  <2> QED
    BY <1>11, <2>1 DEF World, InTime
<1> QED
  BY <1>1, <1>2, <1>3, <1>4, <1>5, <1>6, <1>7, <1>8, <1>9, <1>10, <1>11
  DEF StepNext

\* For any number of programs and of teardown functions: when a step that has
\* registered a Kill has ended no program is left, and after a timeout, whatever
\* the TestFunc is doing when the runner comes to Kill, none that had been started
\* by then (test_runner.go:94-112, executable.go:391-425).
THEOREM TeardownKillsCorrect == StepSpec => []TeardownKills
<1>1. StepInit => InTime /\ Inside
  BY OneStep, OneRunner DEF StepInit, Init, TR!Init, InTime, Inside, Callers
<1>2. TypeOK /\ TInv /\ Inside /\ [StepNext]_allvars => Inside'
  BY InsideStep DEF allvars, step1, vars, callers, Inside
<1>3. TypeOK /\ TInv /\ Inside /\ InTime /\ [StepNext]_allvars => InTime'
  BY InTimeStep DEF allvars, step1, vars, callers, program, InTime
<1>4. TInv /\ InTime => TeardownKills
  BY DEF TInv, InTime, TeardownKills, Settled, Gone
<1>5. StepSpec => []TypeOK
  BY StepIsExecutable, TypeCorrect, PTL
<1> QED
  BY <1>1, <1>2, <1>3, <1>4, <1>5, TeardownInv, PTL DEF StepSpec

-----------------------------------------------------------------------------
(***************************************************************************)
(* Two goroutines only ever meet inside the Executable when TestFunc has   *)
(* run into its timeout: before that the runner waits for TestFunc, and    *)
(* after it TestFunc has returned. So nothing that goes wrong when they    *)
(* meet happens in a step that is in time.                                 *)
(***************************************************************************)

\* A timeout is only given as the cause once TestFunc has been raced.
Late == cause = "timeout" => pc \in {"report", "teardown", "tearing"}

LEMMA LateStep ==
  ASSUME Late, StepNext
  PROVE  Late' /\ (cause = "timeout" => cause' = "timeout")
<1> USE DEF Late
<1>1. CASE RunnerSteps
  BY <1>1 DEF RunnerSteps, TR!BeginStep, TR!CheckFiles, TR!StartCompile,
     TR!BeforeReturns, TR!LaunchTest, TR!AwaitTest, TR!Report, TR!BeginTeardown,
     TR!EndStep, TR!Finish, TR!At, TR!Go, TR!Fail
<1>2. CASE UNCHANGED <<pc, cause>>
  BY <1>2
<1>3. CASE \/ TeardownIdle \/ TeardownKill \/ TeardownCaptures \/ TeardownGoesOn
           \/ TeardownReturns
           \/ TestInCall \/ TestCalls \/ TestMoves \/ Crash \/ World
  BY <1>2, <1>3 DEF TeardownIdle, TeardownKill, TeardownCaptures, TeardownGoesOn,
     TeardownReturns, TestInCall, TestCalls, TestMoves, Crash, World, step1,
     TR!RunTeardown,
     TR!TestRegisters, TR!TestEnds, TR!TestPanics, TR!Panics, TR!main
<1> QED
  BY <1>1, <1>3 DEF StepNext

LEMMA TurnsInTime ==
  ASSUME TInv, Inside, InTime, cause # "timeout"
  PROVE  OneInside
<1>1. call[Killer] # "idle" => call[Owner] = "idle"
  BY DEF TInv, Inside, InTime
<1> QED
  BY <1>1, OneRunner DEF OneInside, Callers

\* TestFunc only calls while it runs, the runner only in its teardown.
LEMMA WhoBegins ==
  ASSUME TypeOK, StepNext, Begins
  PROVE  \/ test[1] = "running" /\ call[Owner] = "idle"
         \/ pc = "tearing" /\ call[Killer] = "idle"
<1> USE OneRunner DEF Callers, Begins
<1>0. /\ Owner # Killer /\ {Owner, Killer} = Callers
      /\ call \in [Callers -> {"idle", "start", "stdin", "waiting", "check", "kill", "killed"}]
  BY OwnerAssumption DEF TypeOK
<1>1. CASE RunnerSteps \/ TeardownIdle \/ TestMoves
  BY <1>1 DEF RunnerSteps, TeardownIdle, TestMoves, KillNothing, vars, callers
<1>2. CASE TeardownKill
  BY <1>2 DEF TeardownKill, KillCheck
<1>3. CASE TeardownCaptures
  BY <1>0, <1>3 DEF TeardownCaptures, CallKill
<1>4. CASE TeardownGoesOn
  BY <1>0, <1>4 DEF TeardownGoesOn, WaitEnter, WaitReceive, WaitReap, WaitFlush,
     WaitJudge,
     WaitCleanup, WaitClear, KillTerm, KillTimeout
<1>5. CASE TeardownReturns
  BY <1>0, <1>5 DEF TeardownReturns, KillReturn
<1>6. CASE TestInCall
  BY <1>0, <1>6 DEF TestInCall, StdinWritten, WaitEnter, WaitReceive, WaitReap,
     WaitFlush,
     WaitJudge, WaitCleanup, WaitClear, CallKill, KillTerm, KillTimeout, KillReturn
<1>7. CASE TestCalls
  BY <1>7 DEF TestCalls, StartFails, StartOk, SetFields, CallWait, KillCheck
<1>8. CASE Crash
  BY <1>0, <1>8 DEF Crash, StartPanics, WaitPanics, KillPanics
<1>9. CASE World
  BY <1>9 DEF World, Helper, Program, Expire, WatchKill, RelayCopy, RelayEnd,
     RelayDrain,
     RelayExit, MonitorFound, MonitorOver, MonitorKill, MonitorGone, ProgramWrites,
     ProgramCloses, ProgramExits, ProgramForks, DescendantsLeave, DescendantsExit,
     StraysExit, callers
<1> QED
  BY <1>1, <1>2, <1>3, <1>4, <1>5, <1>6, <1>7, <1>8, <1>9 DEF StepNext

\* As long as the step is in time both are served.
Untroubled == cause # "timeout" => Attended

LEMMA UntroubledStep ==
  ASSUME IInv, Calls, TInv, Inside, InTime, Late, Untroubled, StepNext, [Next]_vars,
         vars' # vars => (CallWait => cmd)
  PROVE  Untroubled'
<1>1. cause' # "timeout" => cause # "timeout"
  BY LateStep
<1>2. TypeOK /\ Idle
  BY DEF IInv
<1>3. ASSUME cause # "timeout", Begins PROVE AllOutside
  <2>1. CASE test[1] = "running" /\ call[Owner] = "idle"
    BY <1>3, <2>1, OneRunner DEF InTime, TInv, AllOutside, Callers
  <2>2. CASE pc = "tearing" /\ call[Killer] = "idle"
    BY <1>3, <2>2, OneRunner DEF InTime, Inside, AllOutside, Callers
  <2> QED
    BY <1>2, <1>3, <2>1, <2>2, WhoBegins
<1>4. ASSUME cause # "timeout" PROVE Attended'
  <2>1. OneInside /\ Attended
    BY <1>4, TurnsInTime DEF Untroubled
  <2>2. vars' # vars => InTurn
    BY <1>3, <1>4 DEF InTurn
  <2> QED
    BY <1>2, <2>1, <2>2, AttendedStep
<1> QED
  BY <1>1, <1>4 DEF Untroubled

\* In a step whose TestFunc has not run into its timeout, and calls Wait only for a
\* program it has started and not waited for, the runner and TestFunc take turns with
\* the Executable: no Wait is left waiting for the other's message, no call meets
\* cleared fields, and TestFunc is in no call while a Kill is (test_runner.go:94-112,
\* executable.go:343-348).
THEOREM TroubleMeansTimeout ==
  StepSpec /\ [][CallWait => cmd]_vars
    => [](cause = "timeout" \/ (NeverStranded /\ NoNilDereference /\ ~Overlap))
<1>1. StepInit => InTime /\ Inside /\ Late /\ Untroubled /\ Calls
  BY OneStep, OneRunner, InitAttended
     DEF StepInit, TR!Init, Init, InTime, Inside, Late, Untroubled, Callers
<1>2. TypeOK /\ TInv /\ Inside /\ [StepNext]_allvars => Inside'
  BY InsideStep DEF allvars, step1, vars, callers, Inside
<1>3. TypeOK /\ TInv /\ Inside /\ InTime /\ [StepNext]_allvars => InTime'
  BY InTimeStep DEF allvars, step1, vars, callers, program, InTime
<1>4. Late /\ [StepNext]_allvars => Late'
  BY LateStep DEF allvars, step1, Late
<1>5. TypeOK /\ Calls /\ [Next]_vars => Calls'
  BY CallsStep
<1>6. IInv /\ Calls /\ TInv /\ Inside /\ InTime /\ Late /\ Untroubled /\ [StepNext]_allvars
      /\ [Next]_vars /\ [CallWait => cmd]_vars
      => Untroubled'
  <2>1. ASSUME UNCHANGED allvars, Untroubled PROVE Untroubled'
    BY <2>1 DEF allvars, step1, vars, Untroubled, Attended, Coming
  <2> QED
    BY <2>1, UntroubledStep
<1>7. IInv /\ Calls /\ TInv /\ Inside /\ InTime /\ Untroubled
      => cause = "timeout" \/ (NeverStranded /\ NoNilDereference /\ ~Overlap)
  <2> SUFFICES ASSUME IInv, Calls, TInv, Inside, InTime, Untroubled, cause # "timeout"
               PROVE  NeverStranded /\ NoNilDereference /\ ~Overlap
    OBVIOUS
  <2>1. OneInside /\ Attended /\ TypeOK
    BY TurnsInTime DEF Untroubled, IInv
  <2>2. ~Overlap
    <3>1. Owner # Killer /\ {Owner, Killer} \subseteq Callers
      BY OneRunner, OwnerAssumption DEF Callers
    <3> QED
      BY <2>1, <3>1 DEF OneInside, Calls, Overlap
  <2> QED
    BY <2>1, <2>2, Served
<1>8. StepSpec => []IInv
  BY StepIsExecutable, Invariance, PTL
<1>9. IInv => TypeOK
  BY DEF IInv
<1> QED
  BY <1>1, <1>2, <1>3, <1>4, <1>5, <1>6, <1>7, <1>8, <1>9, StepIsExecutable,
     TeardownInv,
     PTL DEF StepSpec, Spec

-----------------------------------------------------------------------------
(***************************************************************************)
(* Hence what is proved of TestRunner holds in a step.                     *)
(***************************************************************************)

TRP == INSTANCE TestRunnerProofs WITH Stages <- 1, AntiCheats <- 0

LEMMA SameRunner ==
  /\ TR!Spec => TRP!Spec
  /\ TRP!PassMeansAllPassed => TR!PassMeansAllPassed
  /\ TRP!FailureStopsTheRun => TR!FailureStopsTheRun
  /\ TRP!TornDown => TR!TornDown
<1>1. TR!Spec => TRP!Spec
  <2>1. TR!Init => TRP!Init
    BY DEF TR!Init, TRP!Init, TR!Steps, TRP!Steps, TR!Plan, TRP!Plan
  <2>2. TR!Next => TRP!Next
    BY DEF TR!vars, TRP!vars, TR!main, TRP!main, TR!Steps, TRP!Steps, TR!Plan,
         TRP!Plan, TR!Alive, TRP!Alive, TR!At, TRP!At, TR!Go, TRP!Go, TR!Fail,
         TRP!Fail, TR!BeginStep, TRP!BeginStep, TR!Finish, TRP!Finish,
         TR!CheckFiles, TRP!CheckFiles, TR!StartCompile, TRP!StartCompile,
         TR!AwaitCompile, TRP!AwaitCompile, TR!BeforeRegisters, TRP!BeforeRegisters,
         TR!BeforeReturns, TRP!BeforeReturns, TR!LaunchTest, TRP!LaunchTest,
         TR!AwaitTest, TRP!AwaitTest, TR!Report, TRP!Report, TR!BeginTeardown,
         TRP!BeginTeardown, TR!RunTeardown, TRP!RunTeardown, TR!EndStep,
         TRP!EndStep, TR!DetectLanguage, TRP!DetectLanguage, TR!CompileEnds,
         TRP!CompileEnds, TR!TestRegisters, TRP!TestRegisters, TR!TestEnds,
         TRP!TestEnds, TR!Panics, TRP!Panics, TR!TestPanics, TRP!TestPanics,
         TR!TeardownPanics, TRP!TeardownPanics, TR!Runner, TRP!Runner, TR!Next,
         TRP!Next
  <2>3. UNCHANGED TR!vars => UNCHANGED TRP!vars
    BY DEF TR!vars, TRP!vars, TR!main, TRP!main
  <2> QED
    BY <2>1, <2>2, <2>3, PTL DEF TR!Spec, TRP!Spec
<1>2. /\ TRP!PassMeansAllPassed => TR!PassMeansAllPassed
      /\ TRP!FailureStopsTheRun => TR!FailureStopsTheRun
      /\ TRP!TornDown => TR!TornDown
  BY DEF TR!PassMeansAllPassed, TRP!PassMeansAllPassed, TR!FailureStopsTheRun,
     TRP!FailureStopsTheRun, TR!TornDown, TRP!TornDown, TR!Steps, TRP!Steps
<1> QED
  BY <1>1, <1>2

\* A step whose TestFunc uses an Executable is graded and torn down as any other:
\* exit code 0 only if TestFunc has passed in time, and every Kill registered by
\* then has run once, after the report, also when the program hangs or a Wait
\* panics (test_runner.go:58-116).
THEOREM StepIsGraded ==
  StepSpec => [](TR!PassMeansAllPassed /\ TR!FailureStopsTheRun /\ TR!TornDown)
<1>1. /\ TRP!Spec => []TRP!PassMeansAllPassed
      /\ TRP!Spec => []TRP!FailureStopsTheRun
      /\ TRP!Spec => []TRP!TornDown
  BY RegistrationsAssumption, TRP!PassCorrect, TRP!FailureCorrect, TRP!TeardownCorrect
<1> QED
  BY <1>1, SameRunner, StepIsTestRun, PTL

=============================================================================
