# A verification of tester-utils

`tester-utils` is the Go library programming-course testers are built from: it
runs a student's program under a deadline, a memory limit and an output limit,
captures what it prints, runs the phases of each stage's test and reports the
outcome. This directory holds TLA+ models of its concurrent core, of the
protocol around it and of its pure helpers, the TLC runs that check them on small
instances, and TLAPS proofs of the main safety properties for every instance.

All paths below are relative to the repository's root.

## Inventory

| Component | State | Operations | Interacts by |
|---|---|---|---|
| `executable/executable.go` | `cmd`, the deadline's context, line writers, buffers, `readDone`, `atleastOneReadDone`, the stdio handler, the monitor | `Start`, `Run`, `RunWithStdin`, `Wait`, `Kill`, `HasExited`, `WriteStdin` | two relay goroutines, os/exec's context watcher, the memory monitor, Kill's goroutine, signals, pipes |
| `executable/memory_limit_linux.go` | `oomKilled`, `stopChan`, a wait group | `start`, `monitor`, `stop`, `wasOOMKilled` | polls /proc, signals the process group |
| `executable/stdio_handler.go` | three pipes, or three PTY pairs | `SetupStreams`, `CloseChildStreams`, `CloseParentStreams`, `TerminateStdin` | called by `Start` and `Wait` |
| `linewriter/linewriter.go` | a byte buffer, `lastErr`, three channels | `Write`, `Flush`, a goroutine with a timer | relays write, `Wait` flushes, the logger is written to |
| `test_runner/` | the step, goroutines of the compilation and of TestFunc | `Run` with four phases | the harness, the logger, the tester |
| `test_case_harness/` | `teardownFuncs`, `DetectedLang` | register, run | shared by the runner and TestFunc |
| `runner/runner.go` | `err`, `result`, `executable`, `started` | the chained calls | an Executable per started program |
| `tester.go`, `tester_context/`, `tester_definition/` | none that lasts | `Run`, `RunCLI`, resolution of the stages | the environment, `TestRunner` |
| `logger/` | secondary prefixes, a global mutex | print, push, pop, clone | everybody |
| `random/`, `bytes_diff_visualizer/`, `inspectable_byte_string/` | none | pure | TestFuncs |
| `stdio_mocker/`, `testing/`, `internal/` | the process's streams | redirect, restore, compare | the library's own tests |

What is hard, and what makes each part correct:

* An **Executable** is a rendezvous of five goroutines and a process. A result
  must carry all output although the program is dead before it is read; a killed
  program must not pass for one that has ended by itself; nothing of a run may
  survive into the next; and Wait and Kill must return whatever the program does.
* A **LineWriter** serves bytes, a timer and a flush in any order, and must not
  lose, repeat or reorder a byte nor hand on half a line.
* The **TestRunner** races goroutines with timers and leaves the losers running;
  a late answer must not change an outcome, and each teardown function must run.
* A **Runner** is a chain with a sticky error; a check that passes must be true.
* A **stdio handler** opens up to six descriptors that os/exec closes some of; each
  must be closed once, after the relays have read it and before they wait for it.
* The **tester** must run what it was asked to run and not pass for nothing.
* **Loggers** share arrays behind their slices; no prefix may change under one.
* The **helpers** meet boundaries: windows, line lengths, ends, changing /proc.

`PROJECT.json` lists these hazards at their lines.

## Modules

| Module | Models | Proofs |
|---|---|---|
| `LineWriter` | `linewriter.LineWriter`, with any callers | `LineWriterProofs` |
| `ProgramRun` | what an Executable promises the goroutine that uses it | |
| `Executable` | `executable.Executable` in pipe mode on Linux with its helpers; implements `ProgramRun` | `ExecutableProofs` |
| `StdioHandler` | `executable.stdioHandler`, both kinds, as `Start` and `Wait` use it | `StdioHandlerProofs` |
| `TestRunner` | `TestRunner.Run`, the harness, and the two runs of `RunCLI`; implements the runs of `Tester` | `TestRunnerProofs` |
| `StepRun` | `Executable` and `TestRunner` composed: a TestFunc that registers its Kill | `StepRunProofs` |
| `Runner` | the chained calls of `runner.Runner` over abstract programs | `RunnerProofs` |
| `Tester` | `tester_utils.Run`, the command line, the environment and `GetTesterContext` | `TesterProofs` |
| `Logger` | the prefix stacks of `logger.Logger` and the arrays they share | `LoggerProofs` |
| `ByteDisplay`, `ProcessTree`, `Sampling` | the pure helpers as operators | |

`MCExecutable`, `MCLogger`, `MCTester` and `MCHelpers` instantiate these for TLC; `MCHelpers`
makes each call of a helper a behaviour and holds what the results must be.

A definition preceded by a comment that begins with "Mutant" is a plausible bug
in the definition after it. No behaviour of the specifications uses it; it shows
that a property notices the bug.

### LineWriter

The goroutine of `startWriter` serves one channel operation at a time, so each
case of its select is one action: `ReceiveByte`, `Timeout`, `ReceiveFlush`
followed by `FlushReturns` (the answer on `flushedChan`, after which the loop is
left). `Write` and `CallFlush` are the callers' offers on the unbuffered
channels. A call of the underlying writer succeeds or fails; `lines` records the
calls. `received` records the bytes, in order, to say what "nothing is lost"
means: `Faithful` asks for cuts of `received` such that the i-th call has been
given what lies between two of them and the buffer holds what is behind the
last. There is no clock: `Timeout` may happen whenever there is a partial line, as a
byte may be late at any moment.

### Executable

`cmd` is `e.cmd # nil`. `handle` stands for the fields that `Start` sets
before it knows whether the program runs and that `Wait` clears. The deadline
(`ctx`), the line writers (`lw`) and `exited` (`atleastOneReadDone`) are
variables of their own. `watch` is os/exec's `watchCtx`, `mon` the monitor,
`relay[s]` the relay of stream `s`, which copies, sets `exited`, blocks on
`readDone` (`"send"`), drains and ends. `child` and `status` are the process;
`desc` and `strays` are the files its living descendants hold, inside its process
group and outside it. Bytes are counted (`wrote = captured + piped` while a relay
copies). The two writers are one variable because `Wait` flushes both in a row and
the relays only need to find them alive.

`wpc[c]` is the place of caller `c`, or of the goroutine of its `Kill`, in
`Wait`: enter (`TerminateStdin`), two receives, `cmd.Wait`, the two flushes, the
verdict, and the deferred clean-up, in two steps because it takes no lock: up to the
reset of `cmd` (`WaitCleanup`, 322-329) and the other fields (`WaitClear`, 330-340).
`Kill` likewise looks at `cmd` (`KillCheck`) and captures it (`CallKill`). So a
Start of another goroutine may fall into the clean-up: then the fields it has set
are reset (`torn` remembers it) or it panics over one of them (`StartPanics`). In
the code the clean-up may take some of the fields and not others; the model takes all.
Start itself is one action: its steps are not visible to the helpers, which it
starts last. `Wait` may be called whenever its goroutine is free, as the code does
not ask for a program.

The monitor reads the size of the tree (`MonitorFound`), sets the flag
(`MonitorOver`) and kills (`MonitorKill`) in steps between which everything else may
happen, the end of the program included; the clean-up waits for it as `stop` does.
Signals to a process that has been reaped are lost, which is the code's own
assumption. A panic is the place `"panic"`; in the code it ends the tester, in the
model the others go on, so no property but `NoNilDereference` says anything of such
states, and the safety proofs cover them.

The program is an environment: it writes, closes streams, forks (its
descendants hold what it holds, and its input), ends by itself, or of SIGTERM, or
not. Its descendants end, or leave its process group (`DescendantsLeave`), where
`kill(-pid)` does not reach them.

### StdioHandler

`fd[<<s, "parent">>]` and `fd[<<s, "child">>]` are the tester's descriptors of
the two ends of stream `s`: of a pipe, or the master and the slave of a PTY.
`dup` are the ends the program and its descendants hold. Each method of the
handler is an action, as are the failure at each of the three openings and that
of `cmd.Start`; what os/exec closes on its own is part of `ExecOk`, `ExecFails`
and `Reap`. `closeIfNotNil` reports a second close and `closeIfOpen` does not:
`err` remembers. `Executable` treats a stream as open until the program has
closed it; `WaitReturns` and `RelaysReadOpenEnds` are what justifies that.

### ProgramRun

Six variables: the phase, what has been printed, whether the deadline has passed
and the limit been exceeded, the verdict and the bytes it carries. `Judge`
states the order of precedence: deadline, memory, result. `Executable` implements it by the substitution at
the end of that module; the phase is read off `cmd` and `child`, and the verdict is
that of the Wait which judges (`Judging`), whichever goroutine's it is.

### TestRunner

`Steps` are the stages followed by the anti-cheat stages: `RunCLI` runs the two
lists with two runners, the second quiet. `pc` goes through the phases of a step; `compile[s]`
and `test[s]` are the goroutines, which go on after their timers have fired
(`AwaitCompile`, `AwaitTest`) and as long as the process lives. `plan` is what
the test case declares. `registered[s]` counts the teardown functions; BeginTeardown
reads it once, as `range` reads the slice.

`Tester` has one action for a step that passes and one for a step that fails, and
`TestRunner` says what happens inside one. `ImplementsTheRuns` joins the two:
with what has been reported of each stage for `ran` and the number of
anti-cheat stages behind the runner for `cheated`, everything a TestRunner, its
goroutines, timers and teardown functions do is one of `Tester`'s steps between
`"stages"` and `"done"`, with its exit code, or changes nothing it can see.
`AntiCheats = 0` stands for a run that skips them.

### StepRun

One step of one stage, without files, compilation and BeforeFunc. `Owner` is the
goroutine of TestFunc, `Killer` the runner's. The actions of both modules are
joined where the code joins them: TestFunc calls the Executable only while it
runs (`TestCalls`), moves on or panics only between calls (`TestMoves`), and a
teardown function is a call of `Kill` from `TeardownKill` or `TeardownIdle` to
`TeardownReturns`. A TestFunc that has timed out goes on, as in the code. A call
that meets cleared fields, also that of a TestFunc which waits for nothing, ends
the tester with status 2 (`Crash`).

### Runner

Each action is one chained call, except that the blocking ones (`Stdin`,
`Execute`, `WaitForExit`, `Kill`) return in an action of their own when the
program has ended. The programs are what `ProgramRun` promises: `Verdicts` is
its `Judge`. `Reject` is one action, its last poll: `HasExited` does not change
back while nobody waits. `claims` remembers the `Exit` checks that have passed.
`StartedMeansAlive` speaks of chains that have
started one program, as those in the documentation (`runner/runner.go:20-29`) do.

### Tester

A word of the command line, a variable of the environment and the state of a file
are chosen when the code reads them. `ReadWord` and `ReadRest` are what the flag
package makes of `ParseArgs`'s options, with an unknown option ending the parse
and its error ignored. `asked` is what the usage text says a line asks for
(`Meaning`), defined from the whole line and not from the parser. `StepPasses`
and `StepFails` stand for the steps of the two TestRunners.

### Logger

A Go slice is an array and a length; `heap` are the arrays, `Pushed` is
`append`, in place if there is room. The history variables say what the calls
on each logger should have left (`want`), and which loggers the caller has made
share a slice (`mixed`), as `GetSecondaryPrefixes` allows.

### Helpers

`ByteDisplay` has byte positions in place of bytes: a diff is two lengths and the
positions that differ, a string the widths of its quoted bytes. `ProcessTree`
is the recursion over /proc with its `visited` map; what is read may be any
graph, cycles included, because /proc changes meanwhile. `Sampling` returns the
set of all results `RandomElementsFromArray` may have.

## Runs

| Run | Question |
|---|---|
| `Executable_runs` | one goroutine, a program that prints more than is captured, descendants in its group and out of it: output complete, `ProgramRun` implemented; Run, RunWithStdin and Kill return, HasExited notices an exit |
| `Executable_callers` | two runs under a memory limit, a second goroutine kills, and Start may fall into a clean-up: honest verdict, nothing left, one judge, line writers alive |
| `StepRun` | a TestFunc and the teardown's Kill, with and without a timeout: no program survives, the step ends |
| `StdioHandler_ends` | two calls of Start with every failure: closed once, not lost, not too early; Wait returns |
| `LineWriter_callers` | two writers, two flushers, any order: whole lines, all bytes, silence after Flush; calls return and partial lines appear |
| `TestRunner_steps` | a stage and an anti-cheat stage with every plan: outcome, order, teardown, `Tester`'s runs implemented; and the tester ends with hanging compilers and TestFuncs |
| `Tester_selection` | every command line and environment: what is asked is run, and 0 is earned |
| `Logger_prefixes` | two loggers and a slice handed out: no prefix changes behind a logger's back |
| `Runner_chain` | any chain with up to two programs: the sticky error, what `Exit` and `started` say |
| `Helpers` | the pure helpers against reference definitions, around their boundaries |

Two further runs end in a violation. Each checks one sentence of the
repository that the code does not keep:

| Run | Sentence | What happens |
|---|---|---|
| `Executable_killhang` | "Kill terminates the program", "Wait for Wait() to return" | Kill's Wait and the owner's share two messages, and the one with fewer than two hangs |
| `Runner_exit` | "checks the exit code" (`runner/runner.go:369`) | after a timeout `Exit(0)` passes |

`killhang` is what the documented use
`RegisterTeardownFunc(func() { harness.Executable.Kill() })`
(`test_case_harness.go:32`) meets when the TestFunc is still in `Wait` at its
timeout. `StepEnds` has to except it, as `~NeverStranded`: a Wait has been left
without a message or a program that is to come. Of the code's own doing nothing
else keeps a step from ending, hung TestFuncs included.

Further disagreements between the code and its text, which the models contain
where they say so but which have no run of their own:

* `HasExited` is true of a running program that has closed one stream or printed
  30000 bytes (`executable.go:250`); `Reject` then says "but it exited"
  (`runner/runner.go:191`).
* A TestFunc that goes on after its timeout may register a teardown function
  when `RunTeardownFuncs` has already read the slice; it is never run, against
  "any phase failure ... then runs TeardownFuncs" (`tester_definition.go:65`).
  `TornDown` and `TeardownKills` except it.
* With a second caller, `Kill`'s Wait may also run into the fields another Wait
  has cleared (a nil `stdioHandler`), which `executable.go:398-399` means to
  avoid, and Kill itself may capture a nil `cmd` if a Wait ends between lines 394 and
  400: the place `"panic"` of `Executable`, `Crash` in `StepRun`.
* `Wait` does not ask whether a program has been started: after a completed `Wait`
  or `Kill` it panics at line 343 (`Start(); Kill(); Wait()`), and after a failed
  `Start` it waits at line 345 for good. `NoNilDereference` and
  `NeverStranded` therefore hold only while callers take turns and call `Wait` for
  a program that has been started and that nobody has waited for.
* `Kill` waits at line 420 for as long as a descendant that has left the process
  group (`setsid`, `setpgid`) holds the program's output: `kill(-pid)` does not reach
  it. `KillReturns` and `StepEnds` except that.
* `oomKilled` is stored before the signal is sent
  (`memory_limit_linux.go:75-77`): a program that ends by itself in between is
  reported as killed (line 85). `HonestVerdict` only excludes the converse.
* A Start that fails leaves the context, the line writers and the handler set
  and `cmd` nil (`executable.go:196`), against "set & removed together" (line 46).
  The goroutines of its line writers stay for good, as do those of a run whose Wait
  returns the context's error (line 364, before the Flush calls).
* A panic of TestFunc is recovered by nobody (`test_runner.go:91`,
  `safeguards.go:13-14`) and ends the process without report and teardown,
  against "any phase failure ... then runs TeardownFuncs"
  (`tester_definition.go:65`): `TestPanics`.
* The blank line between two steps (`test_runner.go:46`) is printed in a quiet
  run too, against "won't see any visible output" (`tester.go:208`). Output is
  not modelled in `TestRunner`.
* The documented chain `Run(..).Start().SendLine(..).Reject()..Stdout(..)`
  (`runner/runner.go:29`) has no result and always ends in "program not yet
  executed": `Check`.

* "CLI takes precedence" (`tester.go:88,131`), but a JSON list in the environment
  goes before a stage on the command line (`tester_context.go:66-82`): `AskedIsRun`
  excepts it. Options after the positional stage are silently ignored.
* `Run` switches the colors off for streamed logs (`tester.go:116`), and every
  `GetLogger` and `GetQuietLogger` switches them on again (`logger.go:96,196`).
* A quiet logger drops `Errorf` and `Errorln` (`logger.go:267-285`), with which
  `reportTestError` reports (`test_runner.go:127-130`): a failing anti-cheat stage
  ends the tester with 1 and without a word.
  `Plainf` and `Plainln` print even when quiet (`logger.go:307-319`), against
  "only emits critical logs" (line 194).
* When the second or third pipe cannot be made, the child's ends of those made
  before stay open until they are collected (`stdio_handler.go:60-68`), as
  `NothingLost` has it. The handler is kept, so that a `WriteStdin` then passes
  its check for nil; without a first pipe it calls a method of nil.
* `RandomElementsFromArray` "selects unique elements" (`random/helpers.go:148`) only up
  to the array's length; with an empty array and a positive count it does not
  return; and its `append` may write into the spare capacity of the caller's array.
* `IOMocker.Start` saves `Stdin` twice and never `Stderr` (`stdio_mocker.go`), so
  that `End` leaves `os.Stderr` nil.
* `TruncateAroundOffset` panics for offsets more than 20 past the end
  (`inspectable_byte_string.go:45-49`), and the caret is off inside a rune of
  several bytes and after one (`len` counts bytes, a terminal columns).

### Bounds

`MaxOut = PipeCap = 1`: the limit, the full pipe and the drain are each reached
by the second byte, and `MaxWrite = 2`, counted over both streams, lets one of them
exceed the limit and fill the pipe behind it, or each print a byte. `runs` has one
run, every kind of descendant and no memory limit, of which none of its properties
but `ProgramRun`'s precedence of the deadline over the limit speaks; that is proved
(`RunRefined`). `callers` has the limit, and `MaxStarts = 2` for a run with a
predecessor whose remains it could meet and a Start that falls into a clean-up; one
killer is the fewest that collide with the owner, and a third caller would add
nothing, as there are two messages only. `callers`, `killhang` and `StepRun` write no
byte, since output plays no part in what they ask: a stream that is open or
closed is all that matters. `callers` identifies states that differ only in what
is never read again (`View` in `MCExecutable`: a SIGTERM to a dead program, the
status of one that is forgotten, a result already given, everything after a
panic). `StepRun` has one program, one teardown function, no descendants and no
memory limit.
LineWriter takes four bytes of an alphabet of a
newline and another byte: a whole line, a padded one and a rest. TestRunner has
one step of each kind, so each has a predecessor or a successor, and two
teardown functions, so that the loop can be left half-way. StdioHandler's second
Start meets whatever the first has left. Tester has two test cases and a word
that names none; five words are two options with their values and a stage, and
JSON lists of two cases may repeat, miss and misname. Logger's stacks of two over
four arrays have room for an append in place, one that moves and a clone of
either. Helpers takes slices around 0, 20, 50 and 100 bytes and strings around
20 and 30, where the constants of the code are, all graphs of three processes, and up to five
draws from up to three elements, which doubles the array once or more often. The
proofs have none of these bounds.

Deadlock is not checked: every system here may stop. A program is not
started again past `MaxStarts`, a LineWriter has ended, a tester has exited.

### Fairness

`Executable!Fairness`: goroutines are scheduled (weak fairness of the steps of
each call and each relay), timers fire (the deadline and its watcher, Kill's two
seconds), and a monitor that has read too large a size goes on. Nothing is assumed
of the program: it may run, print and hold its streams for ever, and the monitor
may never find it too large. (`runs` checks liveness without the monitor; with it
the instance is too large for TLC's liveness check, and the monitor can only hold up
`stop`, in the clean-up, for the steps this fairness gives it.) A write to its input is only certain to return once
nobody is left to read it. `RunReturns` is conditional on descendants: one that
keeps an inherited stdout open holds Run for good, because the deadline kills
the program and not its group. `KillReturns` is conditional only on those that have
left the group, and excepts a panic, as it is an answer to callers that overlap.

`LineWriter!FairSpec` assumes its goroutine, and that a caller that offers a byte or
a flush for ever is served: the channels queue their senders and select has no
favorite. Of the timer it assumes that it fires while no byte is offered, since
each byte arms it anew: `PartialLineAppears` therefore holds because the writers
pause in the end (`MaxBytes`), and says nothing of a program that prints faster than
the timeout for ever. When callers call is theirs. `StdioHandler!FairSpec` assumes
the steps of Start and Wait and, in `WaitReturns`, a program that ends once its input has, as a
filter does, with descendants that end: a program that never ends is
`Executable`'s concern. `StepRun!StepFairness` assumes the runner, Kill's
goroutine, the helpers and timers, and nothing of TestFunc and the program.
`TestRunner!FairSpec` assumes the runner's own goroutine only, which
includes that BeforeFunc and the teardown functions return.

## Proofs

`tlapm` proves the following for all values of the constants that satisfy the
modules' named ASSUMEs. These say that bounds are naturals, that the newline is
a byte, that the owner is no killer, and of Tester's words what the code has by
construction: slugs are a list without repetition (`TestCaseBySlug` takes the
first), and a plain word is neither an option nor the empty word
(`PlainAssumption`), since what begins with `-` is never positional.

* **`LineWriterProofs`**: types, `WholeLines`, `FlushDelivers`,
  `SilentAfterFlush` and `Faithful` under `Spec`, with any callers, and
  `OneFlushServed`: of all goroutines that flush exactly one is answered, with
  its own answer, which is why `CallsReturn` excepts whoever comes later.
  `WholeLines` is inductive only with `BufferIsPartial` (the buffer never holds a newline);
  `FlushDelivers` needs `ErrorsKnown` (`lastErr` says whether any call has
  failed) and `FlushEnds` (once a Flush has returned the goroutine has ended and the
  buffer is empty). `Faithful` keeps its witness: a byte received leaves the
  cuts where they are and lengthens what is behind the last (`DividesReceived`), a
  call of the underlying writer adds one at the end (`DividesWritten`).
* **`ExecutableProofs`**: types, `CaptureComplete`, `HonestVerdict`,
  `NothingLeft`, `LineWriterListens` and `OneJudge`, all for any number of
  killers. The invariant's heart is
  `Receipts`: two messages, two streams; who has both is the only one, and two
  Waits with one each have used them up. From it follow that the cleanup belongs to one
  Wait, hence `Idle` (what `~cmd` and `~handle` exclude), `Accounts` (where the bytes of
  each stream are) and `Reasons` (a death by watcher or monitor has its reason
  recorded before). The violated runs are no contradiction: with killers some Waits hang
  or panic, but the one that gets through is right.
* **Taking turns** (`TakingTurnsServed`): what goes wrong in `killhang`, and the panic
  of a call that meets cleared fields, need two calls that overlap or a Wait without a
  program. As long as no goroutine calls while another is inside (`OneInside`) and
  Wait is called only for a program that has been started and not been waited for,
  `NoNilDereference` and `NeverStranded` hold for any number of goroutines: there is
  a relay that has still to send for each message that Wait has still to receive, and
  a program to be reaped after that (`Attended`). Both conditions (`InTurn`) are
  assumed of a behaviour and not of the code; `StepRunProofs` shows which steps keep
  the first. With one caller (`OneCallerServed`) only the second is left, and it is
  the caller's to keep.
* **What Kill does** (`KillReachesGroup`, `KillLeavesNone`): after its SIGKILL the
  program does not run, and nobody holds a stream but descendants that have left the
  group, so that the relays come to their end without these; and
  when it returns the program it was called for has been reaped, however many
  others call Kill and Wait meanwhile. `KInv` says so of the program a call has
  captured (`target`) as long as no other has been started. That a Kill returns
  at all is liveness, and `killhang` shows when it does not.
* **The refinement** (`RunRefined`): an Executable implements `ProgramRun`, for
  any number of killers, which no run could check, until a call panics
  (`[]NoNilDereference` is a hypothesis): after that the tester is gone, and what the
  model still does means nothing. Each action is a step of the
  abstract run or a stutter. What it takes beyond `IInv`: a goroutine is in a
  Wait only while it is in a call (`Calls`), and `OneVerdict`, by which the judging Wait
  is unique, so that `Verdict` does not change unseen when another goroutine
  comes or goes (`Judges`, `NoVerdict`, `VerdictStays`). The lemmas `Unseen` and
  `ProgramEnds` cover what the helpers and the program do by themselves.
* **`TestRunnerProofs`**: types and the four safety properties, for any
  number of stages, anti-cheat stages and teardown functions. `RunsRefined` is the
  refinement of `Tester`: the goroutines and phases of a step are unseen (`Unseen`)
  until a report (`FailureSeen`) or the end of a step (`PassSeen`), where `UnderWay`
  and the safety properties supply that all stages before have passed.
  `RunnerGoesForward` is the safety half of `RunTerminates`: each step of the runner
  leads to a later place (`Rank`), step or teardown function or ends the tester,
  and no goroutine takes it back.
* **`StepRunProofs`**: every behaviour of a step is one of `Executable`
  (`StepIsExecutable`: each action of the composition is an action of it or
  leaves it alone), so that all of `ExecutableProofs` holds in a step, `OneJudge` and
  `ImplementsProgramRun` (`StepRunRefined`) among it. It is also one of the
  TestRunner (`StepIsTestRun`), which does not know of the Executable: that needs
  `Inside`, by which TestFunc is within a call only while it runs, and the panic of a
  Wait is `TestPanics` or `TeardownPanics`. Through it the theorems of
  `TestRunnerProofs` hold in a step (`StepIsGraded`). `TeardownKills` is proved from
  invariants of its own, `TInv` and `InTime`: a program
  only comes to be with a new value of `starts`; Kill's Wait is done only when it
  has itself reaped the program, which `DoneMeansReaped` takes from `Executable`'s
  invariant; and a Kill that finds nothing running finds the last one reaped. Hence
  (`Settled`) the program the runner saw when it last called Kill is gone once that Kill is
  over; and (`InTime`) unless TestFunc has timed out it has ended by then, so that
  this program is its last.
  `TroubleMeansTimeout` bounds what `killhang` shows: as long as TestFunc has not run
  into its timeout, and calls Wait only for a program it has started and not waited
  for, the runner's Kill and TestFunc take turns (`Late`), so that none of
  their calls waits for a message that cannot come, panics or overlaps another. The
  condition on TestFunc is one on the tester's author: `Start(); Kill(); Wait()`
  panics without any timeout.
* **`StdioHandlerProofs`**: types, `NothingLost`, `ClosedOnce` and
  `RelaysReadOpenEnds`, for any number of Starts. The invariant is `Descriptors`:
  at each place of `Start` and `Wait`, which of the six descriptors are open, which
  differs between pipes and PTYs and after a failure. `Relaying` says between
  which places relays run.
* **`RunnerProofs`**: types, `ErrorSticks`, `ExitTellsTheTruth` and
  `StartedMeansAlive`, for chains of any length, with any number of programs.
  An Exit tells the truth because a result without an error is that of a reaped
  program with its code (`ResultHolds`), which programs that are reaped keep
  (`NeverUndone`); `started` is right because only a chain without an error waits
  for a verdict (`Waits`) and `Stdin` and `Execute` run a program that is not
  `started` (`NotStartedTwice`).
* **`TesterProofs`**: `PassIsEarned` and `AskedIsRun`, for any
  definition, command lines and JSON lists of any length. The first follows from
  `Selection` and `Progress` (what has run is a beginning of what was selected, and
  that was not nothing). `AskedIsRun` relates a parser to a grammar: `Reading` says of the
  words read so far what the flag package has made of them, by the last place of
  each option, and lemmas on `At` and `LastValue` show that a line of the usage text
  read to its end gives that meaning; `Asking` carries it through the environment.
* **`LoggerProofs`**: types, `LinesCarryOwnPrefixes` and `SavedPrefixesKept`, for
  any loggers and prefixes, arrays of any capacity, and slices handed around. The
  invariant is about aliasing: `Ownership` (a logger that is not mixed has its
  array for itself; only the holders of a saved slice have its array too) and
  `Unspoilt` (as long as the saved slice is not spoilt no holder's stack ends below
  it). With them `Grows` says of each operation behind which element of
  which array it writes, and that the other slices show what they showed.

The inductive invariants were model-checked before they were proved.

Only model-checked:

* Liveness under fairness, which is out of the prover's reach: `KillReturns`,
  `RunReturns`, `ExitNoticed`, `StepEnds`, `WaitReturns`, `CallsReturn`,
  `PartialLineAppears` and `RunTerminates`. What of them is safety is proved where
  it says most: `KillReachesGroup`, `NeverStranded`, `OneFlushServed` and
  `RunnerGoesForward`.
* The helpers. `TreeCountedOnce` and `SampleWithoutReplacement` speak of what a
  recursion over data computes, and `CaretAtByte` of sums over the bytes of a string:
  they would need induction. `DiffIsShown` would not, but is a property of
  `MCHelpers`, which makes calls of all helpers and so uses the recursive operator
  of `ProcessTree`, under which tlapm has no arithmetic.

## Not modelled

* `WriteStdin` and `SendLine` of an Executable: they touch no field; `Runner`
  has their outcomes. `Executable` takes PTYs and pipes alike; how they differ is
  in `StdioHandler`.
* The reuse of process ids; Executable takes the RSS sum as a choice, which
  `ProcessTree` computes.
* `WithEnv` of Runner: its values are never passed on by `createExecutable`.
* Levels and colors of a Logger, what a byte or a title looks like, command lines
  of compilers: formatting.
* `RandomFloat64` and the generator itself: arithmetic and a library. (Rounding
  the exact value to a float64 may give `max`, which the comment excludes.)
* `stdio_mocker`, `testing`, `internal`: helpers of tests, and a type.

## Open

* A module of the diff's own, without `ProcessTree`, in which `DiffIsShown` can be
  proved: its lines are intervals of twenty bytes, and the first difference
  lies in the window by linear arithmetic.
* `Runner` takes from `ProgramRun` what a program may do, restated as its own actions
  (`Verdicts`). A composition of `Runner` with `Executable`, as `StepRun` is one with
  `TestRunner`, would prove that instead of stating it.
* `TakingTurnsServed` says what a repair of `Kill` must achieve: that its Wait and the
  owner's do not overlap.
