---------------------------- MODULE RunnerProofs ----------------------------
(***************************************************************************)
(* Proofs about Runner, for chains that start any number of programs.      *)
(***************************************************************************)
EXTENDS Runner, TLAPS

\* How it can stand with a program.
Progs == {"none", "failed", "running", "ended", "reaped"}

\* What a check of the result can leave behind.
Checked == {"none", "notexecuted", "mismatch", "pattern", "exitmismatch"}

\* A call that judges the program it waits for, and any call that waits for one.
Judging == call \in {"stdin", "execute", "wait"}
Waiting == call \in {"stdin", "execute", "wait", "kill"}

\* Only a chain without an error waits for a verdict, and there is a program to
\* wait for. started speaks of a program, too.
Waits ==
  /\ Judging => err = "none"
  /\ Waiting \/ started => exe # 0

\* A result is of a program that has been launched, and as long as no error has
\* stopped the chain the result tells what an Exit may claim.
ResultHolds ==
  /\ result.run <= exe
  /\ err = "none" /\ result.run # 0 =>
       /\ prog[result.run] = "reaped"
       /\ late[result.run] \/ code[result.run] = result.code

\* A claim is of a program that has been launched.
ClaimsOfRuns == \A p \in claims : p.run <= exe

\* Of a chain's only program: started is not set while Stdin or Execute run it.
NotStartedTwice == exe <= 1 /\ call \in {"stdin", "execute"} => ~started

IInv ==
  /\ TypeOK
  /\ Waits
  /\ ResultHolds
  /\ ClaimsOfRuns
  /\ ExitTellsTheTruth
  /\ NotStartedTwice
  /\ StartedMeansAlive

-----------------------------------------------------------------------------
(***************************************************************************)
(* Types.                                                                  *)
(***************************************************************************)

LEMMA ResultTypes ==
  ASSUME NEW k \in 0..MaxRuns
  PROVE  /\ Empty(k) \in Results
         /\ code \in [Runs -> Codes] /\ k \in Runs => Outcome(k) \in Results
<1>1. {"", "text"} \subseteq Texts
  BY DEF Texts
<1>2. 0 \in Codes
  BY DEF Codes
<1> QED
  BY <1>1, <1>2 DEF Empty, Outcome, Results

\* The checks of the output can only set the error.
LEMMA OutputChecks ==
  ASSUME NEW want \in Texts,
         \/ Stdout(want) \/ StdoutExact(want)
         \/ \E valid \in BOOLEAN : StdoutRegex(valid, want)
  PROVE  /\ Ready /\ err' \in Checked
         /\ UNCHANGED <<result, exe, started, programs, call, claims>>
<1>1. CASE Stdout(want)
  BY <1>1 DEF Stdout, Check, Checked
<1>2. CASE StdoutExact(want)
  BY <1>2 DEF StdoutExact, Check, Checked
<1>3. ASSUME NEW valid \in BOOLEAN, StdoutRegex(valid, want)
      PROVE  /\ Ready /\ err' \in Checked
             /\ UNCHANGED <<result, exe, started, programs, call, claims>>
  BY <1>3 DEF StdoutRegex, Check, Checked
<1> QED
  BY <1>1, <1>2, <1>3

LEMMA TypeStep == ASSUME TypeOK, Waits, [Next]_vars PROVE TypeOK'
<1> USE RunnerAssumption DEF TypeOK, Runs, Codes
<1>1. CASE Start
  <2>1. exe + 1 \in Runs
    BY <1>1 DEF Start, Launch
  <2>2. exe' \in 0..MaxRuns /\ prog' \in [Runs -> Progs]
    BY <1>1, <2>1 DEF Start, Launch, Progs
  <2>3. err' \in {err, "start"} /\ started' \in {started, TRUE}
    BY <1>1 DEF Start, Launch
  <2> QED
    BY <1>1, <2>2, <2>3 DEF Start, Launch, Progs
<1>2. ASSUME NEW how \in {"stdin", "execute"}, Blocking(how) PROVE TypeOK'
  <2>1. exe + 1 \in Runs
    BY <1>2 DEF Blocking, Launch
  <2>2. Empty(exe + 1) \in Results
    BY <2>1, ResultTypes
  <2>3. exe' \in 0..MaxRuns /\ prog' \in [Runs -> Progs]
    BY <1>2, <2>1 DEF Blocking, Launch, Progs
  <2>4. /\ err' \in {err, "start"} /\ call' \in {call, how}
        /\ result' \in {result, Empty(exe + 1)}
    BY <1>2 DEF Blocking, Launch
  <2> QED
    BY <1>2, <2>2, <2>3, <2>4 DEF Blocking, Launch, Progs
<1>3. CASE SendLine
  BY <1>3 DEF SendLine, programs
<1>4. CASE Reject
  BY <1>4 DEF Reject, programs
<1>5. CASE WaitForExit \/ WaitForExitPanics
  BY <1>5 DEF WaitForExit, WaitForExitPanics, chain, programs
<1>6. CASE Kill
  BY <1>6 DEF Kill, programs
<1>7. CASE BlockingReturns
  <2>1. exe \in Runs
    BY <1>7 DEF BlockingReturns, Waits, Waiting
  <2>2. Empty(exe) \in Results /\ Outcome(exe) \in Results
    BY <2>1, ResultTypes
  <2>3. PICK v \in Verdicts(exe) :
          /\ result' = IF v \in {"ok", "oom"} THEN Outcome(exe) ELSE Empty(exe)
          /\ err' = IF v = "ok" \/ (v = "timeout" /\ call # "execute")
                      THEN "none" ELSE v
    BY <1>7 DEF BlockingReturns
  <2>4. v \in {"ok", "oom", "timeout", "ctxerr"}
    BY <2>3 DEF Verdicts
  <2>5. result' \in Results /\ err' \in {"none", "oom", "timeout", "ctxerr"}
    BY <2>2, <2>3, <2>4
  <2> QED
    BY <1>7, <2>1, <2>5 DEF BlockingReturns, Reap
<1>8. CASE KillReturns
  <2>1. exe \in Runs
    BY <1>8 DEF KillReturns, Waits, Waiting
  <2>2. prog' \in [Runs -> Progs] /\ exited' \in [Runs -> BOOLEAN]
    BY <1>8, <2>1 DEF KillReturns, Reap, Progs
  <2>3. /\ UNCHANGED <<err, result, exe, claims, code, late, heavy>>
        /\ started' = FALSE /\ call' = "none"
    BY <1>8 DEF KillReturns, Reap
  <2> QED
    BY <2>2, <2>3 DEF Progs
<1>9. ASSUME NEW want \in Texts,
              \/ Stdout(want) \/ StdoutExact(want)
              \/ \E valid \in BOOLEAN : StdoutRegex(valid, want)
      PROVE  TypeOK'
  <2>1. err' \in Checked /\ UNCHANGED <<result, exe, started, programs, call, claims>>
    BY <1>9, OutputChecks
  <2> QED
    BY <2>1 DEF programs, Checked
<1>10. ASSUME NEW n \in Codes, Exit(n) PROVE TypeOK'
  <2>1. err' = "none" => result.run \in Runs
    BY <1>10 DEF Exit, Check, Results
  <2>2. claims' \subseteq [run : Runs, code : Codes]
    BY <1>10, <2>1 DEF Exit
  <2> QED
    BY <1>10, <2>2 DEF Exit, Check, programs
<1>11. ASSUME NEW k \in Runs, StreamEnds(k) \/ DeadlinePasses(k) \/ Weighed(k)
       PROVE  TypeOK'
  <2>1. CASE StreamEnds(k)
    BY <2>1 DEF StreamEnds, chain
  <2>2. CASE DeadlinePasses(k)
    BY <2>2 DEF DeadlinePasses, chain
  <2>3. CASE Weighed(k)
    BY <2>3 DEF Weighed, chain
  <2> QED
    BY <1>11, <2>1, <2>2, <2>3
<1>12. ASSUME NEW k \in Runs, NEW c \in Codes, ProgramEnds(k, c) PROVE TypeOK'
  BY <1>12 DEF ProgramEnds, chain
<1>13. CASE UNCHANGED vars
  BY <1>13 DEF vars, chain, programs
<1> HIDE DEF TypeOK, Runs, Codes
<1> QED
  BY <1>1, <1>2, <1>3, <1>4, <1>5, <1>6, <1>7, <1>8, <1>9, <1>10, <1>11, <1>12,
     <1>13 DEF Next

-----------------------------------------------------------------------------
(***************************************************************************)
(* Errors, results, claims and what started says.                          *)
(***************************************************************************)

\* Which calls may end while there is an error: only a Kill's.
LEMMA WaitsStep == ASSUME TypeOK, Waits, [Next]_vars PROVE Waits'
<1> USE DEF Waits, Judging, Waiting
<1>1. CASE Start
  BY <1>1, RunnerAssumption DEF Start, Launch, Ready, TypeOK
<1>2. ASSUME NEW how \in {"stdin", "execute"}, Blocking(how) PROVE Waits'
  BY <1>2, RunnerAssumption DEF Blocking, Launch, Ready, TypeOK
<1>3. CASE SendLine
  BY <1>3 DEF SendLine, Ready
<1>4. CASE Reject
  BY <1>4 DEF Reject, Ready
<1>5. CASE WaitForExit \/ WaitForExitPanics
  BY <1>5 DEF WaitForExit, WaitForExitPanics, Ready, chain
<1>6. CASE Kill
  BY <1>6 DEF Kill
<1>7. CASE BlockingReturns
  BY <1>7 DEF BlockingReturns
<1>8. CASE KillReturns
  BY <1>8 DEF KillReturns
<1>9. ASSUME NEW want \in Texts,
              \/ Stdout(want) \/ StdoutExact(want)
              \/ \E valid \in BOOLEAN : StdoutRegex(valid, want)
      PROVE  Waits'
  BY <1>9, OutputChecks DEF Ready
<1>10. ASSUME NEW n \in Codes, Exit(n) PROVE Waits'
  BY <1>10 DEF Exit, Check, Ready
<1>11. ASSUME NEW k \in Runs,
              \/ StreamEnds(k) \/ DeadlinePasses(k) \/ Weighed(k)
              \/ \E c \in Codes : ProgramEnds(k, c)
       PROVE  Waits'
  BY <1>11 DEF StreamEnds, DeadlinePasses, Weighed, ProgramEnds, chain
<1>12. CASE UNCHANGED vars
  BY <1>12 DEF vars, chain
<1> QED
  BY <1>1, <1>2, <1>3, <1>4, <1>5, <1>6, <1>7, <1>8, <1>9, <1>10, <1>11, <1>12
  DEF Next

\* A program that has been reaped stays so, with its status; a deadline that has
\* passed stays passed, and no program is launched twice.
NeverUndone ==
  /\ exe \leq exe'
  /\ \A k \in 1..exe :
       /\ prog[k] = "reaped" => prog'[k] = "reaped" /\ code'[k] = code[k]
       /\ late[k] => late'[k]

LEMMA ProgramsStep == ASSUME TypeOK, Waits, [Next]_vars PROVE NeverUndone
<1> USE RunnerAssumption DEF NeverUndone, TypeOK, Runs
<1>1. CASE Start
  BY <1>1 DEF Start, Launch
<1>2. ASSUME NEW how \in {"stdin", "execute"}, Blocking(how) PROVE NeverUndone
  BY <1>2 DEF Blocking, Launch
<1>3. CASE BlockingReturns
  BY <1>3 DEF BlockingReturns, Reap
<1>4. CASE KillReturns
  BY <1>4 DEF KillReturns, Reap
<1>5. ASSUME NEW k \in Runs, DeadlinePasses(k) PROVE NeverUndone
  BY <1>5 DEF DeadlinePasses, chain
<1>6. ASSUME NEW k \in Runs, NEW c \in Codes, ProgramEnds(k, c) PROVE NeverUndone
  BY <1>6 DEF ProgramEnds, chain
<1>7. CASE UNCHANGED <<exe, prog, code, late>>
  BY <1>7
<1>8. CASE \/ SendLine \/ Reject \/ WaitForExit \/ WaitForExitPanics \/ Kill
           \/ UNCHANGED vars
  BY <1>7, <1>8 DEF SendLine, Reject, WaitForExit, WaitForExitPanics, Kill,
     vars, chain, programs
<1>9. ASSUME NEW want \in Texts,
              \/ Stdout(want) \/ StdoutExact(want)
              \/ \E valid \in BOOLEAN : StdoutRegex(valid, want)
      PROVE  NeverUndone
  BY <1>7, <1>9, OutputChecks DEF programs
<1>10. ASSUME NEW n \in Codes, Exit(n) PROVE NeverUndone
  BY <1>7, <1>10 DEF Exit, Check, programs
<1>11. ASSUME NEW k \in Runs, StreamEnds(k) \/ Weighed(k) PROVE NeverUndone
  BY <1>7, <1>11 DEF StreamEnds, Weighed, chain
<1> HIDE DEF NeverUndone, TypeOK, Runs
<1> QED
  BY <1>1, <1>2, <1>3, <1>4, <1>5, <1>6, <1>8, <1>9, <1>10, <1>11 DEF Next

\* The action of ErrorSticks.
Sticks == err # "none" => UNCHANGED <<err, result, exe, claims>>

LEMMA SticksStep == ASSUME Waits, [Next]_vars PROVE Sticks
<1> USE DEF Sticks, Ready
<1>1. CASE \/ Start \/ \E how \in {"stdin", "execute"} : Blocking(how)
  BY <1>1 DEF Start, Blocking
<1>2. CASE SendLine \/ Reject
  BY <1>2 DEF SendLine, Reject
<1>3. CASE WaitForExit \/ WaitForExitPanics \/ Kill
  BY <1>3 DEF WaitForExit, WaitForExitPanics, Kill
<1>4. CASE BlockingReturns
  BY <1>4 DEF BlockingReturns, Waits, Judging
<1>5. CASE KillReturns
  BY <1>5 DEF KillReturns
<1>6. ASSUME NEW want \in Texts,
              \/ Stdout(want) \/ StdoutExact(want)
              \/ \E valid \in BOOLEAN : StdoutRegex(valid, want)
      PROVE  Sticks
  BY <1>6, OutputChecks
<1>7. ASSUME NEW n \in Codes, Exit(n) PROVE Sticks
  BY <1>7 DEF Exit, Check
<1>8. ASSUME NEW k \in Runs,
              \/ StreamEnds(k) \/ DeadlinePasses(k) \/ Weighed(k)
              \/ \E c \in Codes : ProgramEnds(k, c)
      PROVE  Sticks
  BY <1>8 DEF StreamEnds, DeadlinePasses, Weighed, ProgramEnds, chain
<1>9. CASE UNCHANGED vars
  BY <1>9 DEF vars, chain
<1> HIDE DEF Sticks, Ready
<1> QED
  BY <1>1, <1>2, <1>3, <1>4, <1>5, <1>6, <1>7, <1>8, <1>9 DEF Next

\* A result that does not change stays true, unless the chain stops.
LEMMA ResultKept ==
  ASSUME TypeOK, Waits, ResultHolds, [Next]_vars, result' = result
  PROVE  ResultHolds'
<1> NeverUndone /\ Sticks
  BY ProgramsStep, SticksStep
<1>1. result.run \in 0..exe
  BY DEF TypeOK, Results, ResultHolds
<1>2. result.run <= exe'
  <2>1. exe' \in Nat /\ exe \in Nat
    BY TypeStep, RunnerAssumption DEF TypeOK
  <2> QED
    BY <1>1, <2>1 DEF NeverUndone
<1>3. ASSUME err' = "none", result.run # 0
      PROVE  /\ prog'[result.run] = "reaped"
             /\ late'[result.run] \/ code'[result.run] = result.code
  <2>1. err = "none"
    BY <1>3 DEF Sticks
  <2>2. result.run \in 1..exe
    BY <1>1, <1>3, RunnerAssumption DEF TypeOK
  <2> QED
    BY <1>3, <2>1, <2>2 DEF NeverUndone, ResultHolds
<1> QED
  BY <1>2, <1>3 DEF ResultHolds

LEMMA ResultStep ==
  ASSUME TypeOK, Waits, ResultHolds, [Next]_vars
  PROVE  ResultHolds'
<1>1. ASSUME NEW how \in {"stdin", "execute"}, Blocking(how) PROVE ResultHolds'
  <2>1. CASE result' = result
    BY <2>1, ResultKept
  <2>2. CASE result' # result
    <3>1. result' = Empty(exe + 1) /\ err' = "start" /\ exe' = exe + 1
      BY <1>1, <2>2 DEF Blocking, Launch
    <3>2. result'.run = exe'
      BY <3>1 DEF Empty
    <3>3. exe' \in Nat
      BY TypeStep, RunnerAssumption DEF TypeOK
    <3> QED
      BY <3>1, <3>2, <3>3 DEF ResultHolds
  <2> QED
    BY <2>1, <2>2
<1>2. CASE BlockingReturns
  <2>1. exe \in Runs
    BY <1>2 DEF BlockingReturns, Waits, Waiting, TypeOK, Runs
  <2>2. /\ prog'[exe] = "reaped" /\ code' = code /\ late' = late /\ exe' = exe
    BY <1>2, <2>1 DEF BlockingReturns, Reap, TypeOK
  <2>3. PICK v \in Verdicts(exe) :
          /\ result' = IF v \in {"ok", "oom"} THEN Outcome(exe) ELSE Empty(exe)
          /\ err' = IF v = "ok" \/ (v = "timeout" /\ call # "execute")
                      THEN "none" ELSE v
    BY <1>2 DEF BlockingReturns
  <2>4. result'.run = exe
    BY <2>3 DEF Outcome, Empty
  <2>5. CASE v = "ok"
    BY <2>2, <2>3, <2>4, <2>5 DEF Outcome, ResultHolds, TypeOK
  <2>6. CASE v = "timeout"
    BY <2>2, <2>3, <2>4, <2>6 DEF Verdicts, ResultHolds, TypeOK
  <2>7. CASE v \in {"oom", "ctxerr"}
    BY <2>2, <2>3, <2>4, <2>7 DEF ResultHolds, TypeOK
  <2> QED
    BY <2>3, <2>5, <2>6, <2>7 DEF Verdicts
<1>3. CASE result' = result
  BY <1>3, ResultKept
<1>4. CASE \/ Start \/ SendLine \/ Reject \/ WaitForExit \/ WaitForExitPanics \/ Kill
           \/ KillReturns \/ UNCHANGED vars
  BY <1>3, <1>4 DEF Start, SendLine, Reject, WaitForExit, WaitForExitPanics, Kill,
     KillReturns, vars, chain
<1>5. ASSUME NEW want \in Texts,
              \/ Stdout(want) \/ StdoutExact(want)
              \/ \E valid \in BOOLEAN : StdoutRegex(valid, want)
      PROVE  ResultHolds'
  BY <1>3, <1>5, OutputChecks
<1>6. ASSUME NEW n \in Codes, Exit(n) PROVE ResultHolds'
  BY <1>3, <1>6 DEF Exit, Check
<1>7. ASSUME NEW k \in Runs,
              \/ StreamEnds(k) \/ DeadlinePasses(k) \/ Weighed(k)
              \/ \E c \in Codes : ProgramEnds(k, c)
      PROVE  ResultHolds'
  BY <1>3, <1>7 DEF StreamEnds, DeadlinePasses, Weighed, ProgramEnds, chain
<1> QED
  BY <1>1, <1>2, <1>4, <1>5, <1>6, <1>7 DEF Next

\* Old claims stay true, and what an Exit adds is true of its result.
LEMMA ClaimsStep ==
  ASSUME TypeOK, Waits, ResultHolds, ClaimsOfRuns, ExitTellsTheTruth, [Next]_vars
  PROVE  ClaimsOfRuns' /\ ExitTellsTheTruth'
<1>1. NeverUndone
  BY ProgramsStep
<1>2. ASSUME NEW p \in claims
      PROVE  /\ p.run <= exe'
             /\ prog'[p.run] = "reaped" /\ (late'[p.run] \/ code'[p.run] = p.code)
  <2>1. p.run \in 1..exe
    BY <1>2, RunnerAssumption DEF ClaimsOfRuns, TypeOK, Runs
  <2>2. exe <= exe' /\ exe \in Nat
    BY <1>1 DEF NeverUndone, TypeOK
  <2>3. exe' \in Nat
    BY TypeStep, RunnerAssumption DEF TypeOK
  <2> QED
    BY <1>1, <1>2, <2>1, <2>2, <2>3 DEF NeverUndone, ExitTellsTheTruth
<1>3. CASE claims' = claims
  BY <1>2, <1>3 DEF ClaimsOfRuns, ExitTellsTheTruth
<1>4. ASSUME NEW n \in Codes, Exit(n) PROVE ClaimsOfRuns' /\ ExitTellsTheTruth'
  <2>1. Ready /\ UNCHANGED <<result, exe, programs>>
    BY <1>4 DEF Exit, Check
  <2>2. CASE err' = "none"
    <3>1. claims' = claims \cup {[run |-> result.run, code |-> n]}
      BY <1>4, <2>2 DEF Exit
    <3>2. result.run # 0 /\ result.code = n
      BY <1>4, <2>2 DEF Exit, Check
    <3>3. /\ result.run <= exe' /\ prog'[result.run] = "reaped"
          /\ late'[result.run] \/ code'[result.run] = n
      BY <2>1, <3>2 DEF ResultHolds, Ready, programs
    <3> QED
      BY <1>2, <3>1, <3>3 DEF ClaimsOfRuns, ExitTellsTheTruth
  <2>3. CASE err' # "none"
    BY <1>3, <1>4, <2>3 DEF Exit
  <2> QED
    BY <2>2, <2>3
<1>5. CASE \/ Start \/ SendLine \/ Reject \/ WaitForExit \/ WaitForExitPanics \/ Kill
           \/ BlockingReturns \/ KillReturns \/ UNCHANGED vars
           \/ \E how \in {"stdin", "execute"} : Blocking(how)
  BY <1>3, <1>5 DEF Start, Blocking, Launch, SendLine, Reject, WaitForExit,
     WaitForExitPanics, Kill, BlockingReturns, KillReturns, vars
<1>6. ASSUME NEW want \in Texts,
              \/ Stdout(want) \/ StdoutExact(want)
              \/ \E valid \in BOOLEAN : StdoutRegex(valid, want)
      PROVE  ClaimsOfRuns' /\ ExitTellsTheTruth'
  BY <1>3, <1>6, OutputChecks
<1>7. ASSUME NEW k \in Runs,
              \/ StreamEnds(k) \/ DeadlinePasses(k) \/ Weighed(k)
              \/ \E c \in Codes : ProgramEnds(k, c)
      PROVE  ClaimsOfRuns' /\ ExitTellsTheTruth'
  BY <1>3, <1>7 DEF StreamEnds, DeadlinePasses, Weighed, ProgramEnds
<1> QED
  BY <1>4, <1>5, <1>6, <1>7 DEF Next

\* Of a chain's only program.
LEMMA StartedStep ==
  ASSUME TypeOK, Waits, StartedMeansAlive, NotStartedTwice, [Next]_vars
  PROVE  StartedMeansAlive' /\ NotStartedTwice'
<1> USE RunnerAssumption DEF StartedMeansAlive, NotStartedTwice, Living, TypeOK, Runs
<1>1. CASE Start
  BY <1>1 DEF Start, Launch, Ready
<1>2. ASSUME NEW how \in {"stdin", "execute"}, Blocking(how)
      PROVE  StartedMeansAlive' /\ NotStartedTwice'
  BY <1>2 DEF Blocking, Launch, Ready, Waits
<1>3. CASE UNCHANGED <<call, exe, started, prog>>
  BY <1>3
<1>4. CASE WaitForExit \/ WaitForExitPanics
  BY <1>4 DEF WaitForExit, WaitForExitPanics, Ready, chain, programs
<1>5. CASE Kill
  BY <1>5 DEF Kill, programs
<1>6. CASE BlockingReturns
  <2>1. exe \in Runs /\ prog'[exe] = "reaped" /\ exe' = exe /\ call' = "none"
    BY <1>6 DEF BlockingReturns, Reap, Waits, Waiting
  <2>2. started' = (started /\ call # "wait") /\ call \in {"stdin", "execute", "wait"}
    BY <1>6 DEF BlockingReturns
  <2>3. exe <= 1 => started' = FALSE
    BY <2>1, <2>2
  <2> QED
    BY <2>1, <2>3
<1>7. CASE KillReturns
  BY <1>7 DEF KillReturns, Reap, Waits, Waiting
<1>8. ASSUME NEW k \in Runs, NEW c \in Codes, ProgramEnds(k, c)
      PROVE  StartedMeansAlive' /\ NotStartedTwice'
  BY <1>8 DEF ProgramEnds, chain
<1> HIDE DEF StartedMeansAlive, NotStartedTwice, TypeOK, Runs
<1>9. CASE SendLine \/ Reject \/ UNCHANGED vars
  BY <1>3, <1>9 DEF SendLine, Reject, vars, chain, programs
<1>10. ASSUME NEW want \in Texts,
              \/ Stdout(want) \/ StdoutExact(want)
              \/ \E valid \in BOOLEAN : StdoutRegex(valid, want)
       PROVE  StartedMeansAlive' /\ NotStartedTwice'
  BY <1>3, <1>10, OutputChecks DEF programs
<1>11. ASSUME NEW n \in Codes, Exit(n) PROVE StartedMeansAlive' /\ NotStartedTwice'
  BY <1>3, <1>11 DEF Exit, Check, programs
<1>12. ASSUME NEW k \in Runs, StreamEnds(k) \/ DeadlinePasses(k) \/ Weighed(k)
       PROVE  StartedMeansAlive' /\ NotStartedTwice'
  BY <1>3, <1>12 DEF StreamEnds, DeadlinePasses, Weighed, chain
<1> QED
  BY <1>1, <1>2, <1>4, <1>5, <1>6, <1>7, <1>8, <1>9, <1>10, <1>11, <1>12 DEF Next

-----------------------------------------------------------------------------
(***************************************************************************)
(* The theorems.                                                           *)
(***************************************************************************)

LEMMA Invariance == Spec => []IInv
<1>1. ASSUME Init PROVE IInv
  <2>1. result \in Results /\ result.run = 0 /\ 0 \in 0..MaxRuns
    <3>1. 0 \in 0..MaxRuns /\ result = Empty(0)
      BY <1>1, RunnerAssumption DEF Init
    <3>2. result \in Results
      BY <3>1, ResultTypes
    <3> QED
      BY <3>1, <3>2 DEF Empty
  <2>2. TypeOK
    BY <1>1, <2>1 DEF Init, TypeOK, Codes
  <2>3. Waits /\ StartedMeansAlive /\ NotStartedTwice
    <3>1. ~started /\ exe = 0 /\ call = "none" /\ err = "none"
      BY <1>1 DEF Init
    <3> QED
      BY <3>1 DEF Waits, Judging, Waiting, StartedMeansAlive, NotStartedTwice
  <2>4. ResultHolds
    BY <1>1, <2>1 DEF Init, ResultHolds
  <2>5. ClaimsOfRuns /\ ExitTellsTheTruth
    BY <1>1 DEF Init, ClaimsOfRuns, ExitTellsTheTruth
  <2> QED
    BY <2>2, <2>3, <2>4, <2>5 DEF IInv
<1>2. IInv /\ [Next]_vars => IInv'
  BY TypeStep, WaitsStep, ResultStep, ClaimsStep, StartedStep DEF IInv
<1> QED
  BY <1>1, <1>2, PTL DEF Spec

\* Every variable keeps its type, whatever the chain calls and however its
\* programs fare.
THEOREM TypeCorrect == Spec => []TypeOK
<1>1. IInv => TypeOK
  BY DEF IInv
<1> QED
  BY <1>1, Invariance, PTL

\* The first error of a chain stays, whatever the programs do meanwhile: a call
\* that waits has been let in without one (runner.go:58-62, 205-207).
THEOREM FirstErrorSticks == Spec => ErrorSticks
<1>1. IInv /\ [Next]_vars => Sticks
  BY SticksStep DEF IInv
<1> QED
  BY <1>1, Invariance, PTL DEF Spec, ErrorSticks, Sticks

\* An Exit that passes has looked at the program's own exit status, however many
\* programs the chain starts and whichever call has run them
\* (runner.go:370-389, 220, 251).
THEOREM ExitIsTrue == Spec => []ExitTellsTheTruth
<1>1. IInv => ExitTellsTheTruth
  BY DEF IInv
<1> QED
  BY <1>1, Invariance, PTL

\* In a chain with one program started says whether there is one to kill, and no
\* call reaches an Executable that has been cleaned up (runner.go:244-266).
THEOREM StartedIsAlive == Spec => []StartedMeansAlive
<1>1. IInv => StartedMeansAlive
  BY DEF IInv
<1> QED
  BY <1>1, Invariance, PTL

=============================================================================
