------------------------------- MODULE Runner -------------------------------
(***************************************************************************)
(* runner.Runner: the chained calls a stage's test makes,                  *)
(*     Run(..).Stdin(..).Stdout(..).Exit(0)                   (blocking)   *)
(*     Run(..).Start().SendLine(..).Reject().WaitForExit()..  (interactive)*)
(* The first error sticks and is what Error() returns in the end. Every    *)
(* call that starts a program makes an Executable of its own; of an        *)
(* Executable only what ProgramRun promises is used here: it runs, ends,   *)
(* and its Wait judges it.                                                 *)
(***************************************************************************)
EXTENDS Naturals

CONSTANT MaxRuns  \* bound: programs one chain starts

ASSUME RunnerAssumption == MaxRuns \in Nat

Runs == 1..MaxRuns

\* A program ends well, badly, or by SIGKILL.
Codes == {0, 1, 137}

\* What it prints, and what a check may look for.
Texts == {"", "text", "other"}

VARIABLES
  \* Fields of the Runner.
  err,      \* what has gone wrong, "none" for nil
  result,   \* the latest result; its run is 0 for nil
  exe,      \* the run r.executable stands for, 0 for nil
  started,
  \* The programs.
  prog,     \* prog[k]: "none", "failed" (to start), "running", "ended", "reaped"
  code,     \* code[k]: the status it has ended with
  late,     \* late[k]: its deadline has passed before it was reaped
  heavy,    \* heavy[k]: the monitor has found it over its limit
  exited,   \* exited[k]: one of its streams has ended, what HasExited reads
  \* The caller.
  call,     \* the call it blocks in, "none", or "panic"
  claims    \* history: the Exit checks that have passed

chain == <<err, result, exe, started>>
programs == <<prog, code, late, heavy, exited>>
vars == <<chain, programs, call, claims>>

Results == [run : 0..MaxRuns, code : Codes, out : Texts]

\* ExecutableResult{}, and what a program that is judged well leaves.
Empty(k) == [run |-> k, code |-> 0, out |-> ""]
Outcome(k) == [run |-> k, code |-> code[k], out |-> "text"]

Init ==
  /\ err = "none" /\ result = Empty(0) /\ exe = 0 /\ started = FALSE
  /\ prog = [k \in Runs |-> "none"]
  /\ code = [k \in Runs |-> 0]
  /\ late = [k \in Runs |-> FALSE]
  /\ heavy = [k \in Runs |-> FALSE]
  /\ exited = [k \in Runs |-> FALSE]
  /\ call = "none" /\ claims = {}

\* The caller is free and no error has stopped the chain.
Ready == call = "none" /\ err = "none"

Living(k) == prog[k] \in {"running", "ended"}

-----------------------------------------------------------------------------
(***************************************************************************)
(* Calls that start a program.                                             *)
(***************************************************************************)

\* createExecutable and Executable.Start, with what the call does when the
\* program runs and when it does not.
Launch(OnStart, OnFailure) ==
  /\ exe < MaxRuns
  /\ exe' = exe + 1
  /\ \/ prog' = [prog EXCEPT ![exe + 1] = "running"] /\ OnStart
     \/ prog' = [prog EXCEPT ![exe + 1] = "failed"] /\ OnFailure
  /\ UNCHANGED <<code, late, heavy, exited, claims>>

Start ==
  /\ Ready
  /\ Launch(started' = TRUE /\ UNCHANGED err, err' = "start" /\ UNCHANGED started)
  /\ UNCHANGED <<result, call>>

\* Stdin and Execute run the program to its end; they set the result even when
\* it does not start. started is left as it is.
Blocking(how) ==
  /\ Ready
  /\ Launch(call' = how /\ UNCHANGED <<err, result>>,
            err' = "start" /\ result' = Empty(exe + 1) /\ UNCHANGED call)
  /\ UNCHANGED started

-----------------------------------------------------------------------------
(***************************************************************************)
(* Calls to a program that runs.                                           *)
(***************************************************************************)

\* The write succeeds, or the program does not read any more, or the Executable
\* has been waited for and has no stdioHandler.
SendLine ==
  /\ Ready
  /\ IF ~started THEN err' = "notstarted"
     ELSE err' = "send" \/ (Living(exe) /\ err' = "none")
  /\ UNCHANGED <<result, exe, started, programs, call, claims>>

\* The last of its polls decides; the polls before it can only have seen less.
Reject ==
  /\ Ready
  /\ exe # 0 /\ started /\ exited[exe]
  /\ err' = "reject"
  /\ UNCHANGED <<result, exe, started, programs, call, claims>>

\* Mutant: no look at r.err.
WaitForExitRegardless ==
  /\ call = "none"
  /\ exe # 0 /\ started /\ Living(exe)
  /\ call' = "wait"
  /\ UNCHANGED <<chain, programs, claims>>

WaitForExit ==
  /\ Ready
  /\ exe # 0 /\ started /\ Living(exe)
  /\ call' = "wait"
  /\ UNCHANGED <<chain, programs, claims>>

\* On an Executable that has been waited for, Wait meets a nil stdioHandler.
WaitForExitPanics ==
  /\ Ready
  /\ exe # 0 /\ started /\ ~Living(exe)
  /\ call' = "panic"
  /\ UNCHANGED <<chain, programs, claims>>

\* Kill does not look at r.err; Executable.Kill returns at once when the program
\* has been waited for.
Kill ==
  /\ call = "none"
  /\ started
  /\ IF Living(exe) THEN call' = "kill" /\ UNCHANGED started
                    ELSE started' = FALSE /\ UNCHANGED call
  /\ UNCHANGED <<err, result, exe, programs, claims>>

\* How Executable.Wait judges the run it has reaped.
Verdicts(k) ==
  IF late[k] THEN IF code[k] = 0 THEN {"timeout", "ctxerr"} ELSE {"timeout"}
  ELSE IF heavy[k] THEN {"oom"} ELSE {"ok"}

Reap ==
  /\ prog[exe] = "ended"
  /\ prog' = [prog EXCEPT ![exe] = "reaped"]
  /\ exited' = [exited EXCEPT ![exe] = FALSE]
  /\ UNCHANGED <<code, late, heavy>>

\* Mutants: WaitForExit does not reset started; Wait does not wait.
BlockingReturnsStarted ==
  /\ call \in {"stdin", "execute", "wait"}
  /\ Reap
  /\ \E v \in Verdicts(exe) :
       /\ result' = IF v \in {"ok", "oom"} THEN Outcome(exe) ELSE Empty(exe)
       /\ err' = IF v = "ok" \/ (v = "timeout" /\ call # "execute") THEN "none" ELSE v
  /\ call' = "none"
  /\ UNCHANGED <<exe, started, claims>>

BlockingReturnsEarly ==
  /\ call \in {"stdin", "execute", "wait"}
  /\ \E v \in Verdicts(exe) :
       /\ result' = IF v \in {"ok", "oom"} THEN Outcome(exe) ELSE Empty(exe)
       /\ err' = IF v = "ok" \/ (v = "timeout" /\ call # "execute") THEN "none" ELSE v
  /\ started' = (started /\ call # "wait")
  /\ call' = "none"
  /\ UNCHANGED <<exe, programs, claims>>

\* Stdin, Execute or WaitForExit returns. A timeout is an error of Execute only,
\* and leaves the empty result.
BlockingReturns ==
  /\ call \in {"stdin", "execute", "wait"}
  /\ Reap
  /\ \E v \in Verdicts(exe) :
       /\ result' = IF v \in {"ok", "oom"} THEN Outcome(exe) ELSE Empty(exe)
       /\ err' = IF v = "ok" \/ (v = "timeout" /\ call # "execute") THEN "none" ELSE v
  /\ started' = (started /\ call # "wait")
  /\ call' = "none"
  /\ UNCHANGED <<exe, claims>>

\* Kill drops the verdict and the result.
KillReturns ==
  /\ call = "kill"
  /\ Reap
  /\ started' = FALSE
  /\ call' = "none"
  /\ UNCHANGED <<err, result, exe, claims>>

-----------------------------------------------------------------------------
(***************************************************************************)
(* Checks of the result.                                                   *)
(***************************************************************************)

\* No result yet, or the check fails, or it passes.
Check(passes, failure) ==
  /\ Ready
  /\ err' = IF result.run = 0 THEN "notexecuted"
            ELSE IF passes THEN "none" ELSE failure
  /\ UNCHANGED <<result, exe, started, programs, call>>

\* Stdout looks for a part of the output, StdoutExact for all of it, StdoutRegex
\* for a match of a pattern that may be no pattern.
Stdout(want) == Check(want = "" \/ want = result.out, "mismatch") /\ UNCHANGED claims
StdoutExact(want) == Check(want = result.out, "mismatch") /\ UNCHANGED claims
StdoutRegex(valid, want) ==
  /\ Check(valid /\ (want = "" \/ want = result.out),
           IF valid THEN "mismatch" ELSE "pattern")
  /\ UNCHANGED claims

Exit(n) ==
  /\ Check(result.code = n, "exitmismatch")
  /\ claims' = IF err' = "none" THEN claims \cup {[run |-> result.run, code |-> n]}
                                ELSE claims

-----------------------------------------------------------------------------
(***************************************************************************)
(* The programs and their executables.                                     *)
(***************************************************************************)

ProgramEnds(k, c) ==
  /\ prog[k] = "running"
  /\ prog' = [prog EXCEPT ![k] = "ended"]
  /\ code' = [code EXCEPT ![k] = c]
  /\ UNCHANGED <<chain, late, heavy, exited, call, claims>>

\* A stream ends, with the program or before it.
StreamEnds(k) ==
  /\ Living(k) /\ ~exited[k]
  /\ exited' = [exited EXCEPT ![k] = TRUE]
  /\ UNCHANGED <<chain, prog, code, late, heavy, call, claims>>

DeadlinePasses(k) ==
  /\ Living(k) /\ ~late[k]
  /\ late' = [late EXCEPT ![k] = TRUE]
  /\ UNCHANGED <<chain, prog, code, heavy, exited, call, claims>>

\* The monitor has read its size while it ran; it may have ended by the time it
\* says so.
Weighed(k) ==
  /\ Living(k) /\ ~heavy[k]
  /\ heavy' = [heavy EXCEPT ![k] = TRUE]
  /\ UNCHANGED <<chain, prog, code, late, exited, call, claims>>

Next ==
  \/ Start \/ Blocking("stdin") \/ Blocking("execute")
  \/ SendLine \/ Reject \/ WaitForExit \/ WaitForExitPanics \/ Kill
  \/ BlockingReturns \/ KillReturns
  \/ \E want \in Texts :
       \/ Stdout(want) \/ StdoutExact(want)
       \/ \E valid \in BOOLEAN : StdoutRegex(valid, want)
  \/ \E n \in Codes : Exit(n)
  \/ \E k \in Runs :
       \/ StreamEnds(k) \/ DeadlinePasses(k) \/ Weighed(k)
       \/ \E c \in Codes : ProgramEnds(k, c)

Spec == Init /\ [][Next]_vars

-----------------------------------------------------------------------------

\* Every variable has its type.
TypeOK ==
  /\ err \in {"none", "start", "notstarted", "send", "reject", "timeout", "ctxerr",
              "oom", "notexecuted", "mismatch", "pattern", "exitmismatch"}
  /\ result \in Results
  /\ exe \in 0..MaxRuns
  /\ started \in BOOLEAN
  /\ prog \in [Runs -> {"none", "failed", "running", "ended", "reaped"}]
  /\ code \in [Runs -> Codes]
  /\ late \in [Runs -> BOOLEAN] /\ heavy \in [Runs -> BOOLEAN]
  /\ exited \in [Runs -> BOOLEAN]
  /\ call \in {"none", "stdin", "execute", "wait", "kill", "panic"}
  /\ claims \subseteq [run : Runs, code : Codes]

\* The first error stays, and after it no call starts a program, looks at one or
\* passes a check: only Kill still has an effect (runner_test.go, 错误传播).
ErrorSticks == [][err # "none" => UNCHANGED <<err, result, exe, claims>>]_vars

\* An Exit that has passed speaks of a program that has been reaped, and gives
\* its exit status unless its deadline had passed (runner.go:370-389, 220, 251).
ExitTellsTheTruth ==
  \A p \in claims : prog[p.run] = "reaped" /\ (late[p.run] \/ code[p.run] = p.code)

\* As long as a chain has started one program, as the documented ones do
\* (runner.go:20-29), started says whether there is a program to kill: a Kill
\* at the end of the chain leaves none behind whatever error has stopped it, and
\* no call reaches an Executable that has been cleaned up (runner.go:244-266).
StartedMeansAlive ==
  exe <= 1 =>
    /\ call # "panic"
    /\ call \in {"none", "wait", "kill"} => (started <=> exe # 0 /\ Living(exe))

\* "Exit 检查退出码" (runner.go:369): an Exit that passes has checked the code the
\* program has exited with.
ExitIsChecked == \A p \in claims : code[p.run] = p.code

=============================================================================
