------------------------------- MODULE Tester -------------------------------
(***************************************************************************)
(* tester_utils.Run: the command line and the environment decide which     *)
(* test cases are run, on which executable, and whether the anti-cheat     *)
(* test cases are; the exit code says how they went.                       *)
(*                                                                         *)
(* The two runs of TestRunner are seen from outside: TestRunner says what  *)
(* a step does. The flag package is external. A word of the command line,  *)
(* a variable of the environment and a file are chosen when they are read. *)
(***************************************************************************)
EXTENDS Naturals, Sequences, Functions

CONSTANTS
  Slugs,       \* definition.TestCases, as the sequence of their slugs
  Foreign,     \* other words: slugs nobody has defined, directories
  AntiCheats,  \* number of definition.AntiCheatTestCases
  HasLegacy,   \* definition.LegacyExecutableFileName is given
  MaxWords,    \* bound: words on the command line
  MaxCases     \* bound: entries of a JSON list

\* "Slug is the unique identifier for this test case" (tester_definition.go:72).
ASSUME SlugsAreUnique == Slugs \in Seq(Range(Slugs)) /\ IsInjective(Slugs)
ASSUME SizesAssumption ==
  {AntiCheats, MaxWords, MaxCases} \subseteq Nat /\ HasLegacy \in BOOLEAN

Defined == Range(Slugs)

\* The options that take a value, those that do not, and one that is unknown.
Valued == {"-s", "-d"}
Switches == {"-h", "-v"}
Plain == Defined \cup Foreign
Words == Valued \cup Switches \cup {"-x"} \cup Plain

None == "none"

\* A word that begins with a dash is read as an option, and is no plain word.
ASSUME PlainAssumption == Plain \cap (Valued \cup Switches \cup {"-x", None}) = {}

VARIABLES
  pc,       \* what Run does next
  line,     \* the words read
  option,   \* the option whose value is read next
  cli,      \* CLIArgs
  asked,    \* history: what the command line was meant to ask for: [stage, dir]
  env,      \* the environment: [json, stage, dir, skip]
  cases,    \* context.TestCases, as the sequence of their slugs
  exe,      \* context.ExecutablePath: a directory and "new" or "legacy"
  ran,      \* history: the slugs of the steps that have passed
  cheated,  \* history: how many anti-cheat steps have passed
  code      \* the exit code, 3 while there is none

parsing == <<line, option, cli, asked>>
context == <<cases, exe>>
runs == <<ran, cheated>>
vars == <<pc, parsing, env, context, runs, code>>

\* BOOTCRAFT_TEST_CASES_JSON: not JSON or with an empty field, or a list.
Lists == UNION {[1..n -> Plain] : n \in 0..MaxCases}
Json == {<<None>>, <<"bad">>} \cup {<<"list", l>> : l \in Lists}

Init ==
  /\ pc = "parse" /\ line = <<>> /\ option = None
  /\ cli = [stage |-> None, dir |-> None, help |-> FALSE, version |-> FALSE]
  /\ asked = [stage |-> None, dir |-> None]
  /\ env = [json |-> <<None>>, stage |-> None, dir |-> None, skip |-> None]
  /\ cases = <<>> /\ exe = <<>> /\ ran = <<>> /\ cheated = 0
  /\ code = 3

\* Run returns n, or the process ends with it.
Exit(n) == pc' = "exited" /\ code' = n

\* What the usage text offers, "tester [options] [stage]": up to two options, each
\* with its value, and at most one stage.
Usage == {<<o, x>> : o \in Valued, x \in Plain} \cup {<<>>}
StageArg == {<<x>> : x \in Plain} \cup {<<>>}

Optioned == {o \o p : o \in Usage, p \in Usage}

Offered == {q \o s : q \in Optioned, s \in StageArg}

\* The last value given for an option on such a line.
LastValue(o, l) ==
  LET at == {i \in 1..(Len(l) - 1) : l[i] = o}
  IN  IF at = {} THEN None
      ELSE l[1 + CHOOSE i \in at : \A j \in at : j <= i]

\* What it asks for. Of other lines nothing is said.
Meaning(l) ==
  IF l \notin Offered THEN [stage |-> None, dir |-> None]
  ELSE [stage |-> IF LastValue("-s", l) # None THEN LastValue("-s", l)
                  ELSE IF Len(l) % 2 = 1 THEN l[Len(l)] ELSE None,
        dir |-> LastValue("-d", l)]

-----------------------------------------------------------------------------
(***************************************************************************)
(* ParseArgs.                                                              *)
(***************************************************************************)

\* fs.Parse takes the next word: the value of an option, whatever it looks like,
\* or an option. A word that is none ends it; an unknown option too, but is
\* dropped (its error is ignored).
ReadWord(w) ==
  /\ pc = "parse" /\ Len(line) < MaxWords
  /\ line' = Append(line, w)
  /\ IF option # None THEN
       /\ cli' = IF option = "-s" THEN [cli EXCEPT !.stage = w] ELSE [cli EXCEPT !.dir = w]
       /\ option' = None /\ UNCHANGED pc
     ELSE IF w \in Valued THEN
       option' = w /\ UNCHANGED <<pc, cli>>
     ELSE
       /\ cli' = CASE w = "-h" -> [cli EXCEPT !.help = TRUE]
                   [] w = "-v" -> [cli EXCEPT !.version = TRUE]
                   [] w \in Plain /\ cli.stage = None -> [cli EXCEPT !.stage = w]
                   [] OTHER -> cli
       /\ pc' = CASE w = "-x" -> "rest" [] w \in Plain -> "ignored" [] OTHER -> "parse"
       /\ UNCHANGED option
  /\ UNCHANGED <<asked, env, context, runs, code>>

\* The words that fs.Parse has left: the first one is the stage unless -s has
\* named one, and the others are not looked at.
ReadRest(w) ==
  /\ pc \in {"rest", "ignored"} /\ Len(line) < MaxWords
  /\ line' = Append(line, w)
  /\ pc' = "ignored"
  /\ cli' = IF pc = "rest" /\ cli.stage = None THEN [cli EXCEPT !.stage = w] ELSE cli
  /\ UNCHANGED <<option, asked, env, context, runs, code>>

\* Mutant: the environment goes before the command line.
MergeEnvFirst(stage, dir) ==
  [env EXCEPT !.stage = IF stage = None THEN cli.stage ELSE stage,
              !.dir = IF dir = None THEN cli.dir ELSE dir]

\* MergeArgsIntoEnv puts what the command line has named into the environment,
\* which has stage and dir.
MergeArgsIntoEnv(stage, dir) ==
  [env EXCEPT !.stage = IF cli.stage = None THEN stage ELSE cli.stage,
              !.dir = IF cli.dir = None THEN dir ELSE cli.dir]

\* The command line ends. Help and version, or on with the environment.
EndOfLine(stage, dir) ==
  /\ pc \in {"parse", "rest", "ignored"}
  /\ IF cli.help \/ cli.version
       THEN Exit(0) /\ UNCHANGED env
       ELSE pc' = "seed" /\ env' = MergeArgsIntoEnv(stage, dir) /\ UNCHANGED code
  /\ asked' = Meaning(line) /\ line' = <<>>
  /\ UNCHANGED <<option, cli, context, runs>>

-----------------------------------------------------------------------------
(***************************************************************************)
(* RunCLI: random.Init, newTester and GetTesterContext.                    *)
(***************************************************************************)

\* random.Init panics if BOOTCRAFT_RANDOM_SEED is no number.
InitRandom ==
  /\ pc = "seed"
  /\ (pc' = "select" /\ UNCHANGED code) \/ Exit(2)
  /\ UNCHANGED <<parsing, env, context, runs>>

\* The test cases of the JSON list, of the stage, or all.
TestCases(json, stage) ==
  IF json # <<None>> THEN json[2] ELSE IF stage # None THEN <<stage>> ELSE Slugs

\* Mutant: an empty list is taken.
SelectEmptyToo(json) ==
  /\ pc = "select"
  /\ env' = [env EXCEPT !.json = json]
  /\ IF json = <<"bad">> \/ (json = <<None>> /\ env.stage \notin Defined \cup {None})
       THEN Exit(1) /\ UNCHANGED cases
       ELSE pc' = "files" /\ cases' = TestCases(json, env.stage) /\ UNCHANGED code
  /\ UNCHANGED <<parsing, exe, runs>>

\* A list that cannot be parsed or has empty fields, a stage nobody has defined
\* and an empty list are errors.
SelectTestCases(json) ==
  /\ pc = "select"
  /\ env' = [env EXCEPT !.json = json]
  /\ IF \/ json = <<"bad">>
        \/ json = <<None>> /\ env.stage \notin Defined \cup {None}
        \/ json # <<"bad">> /\ TestCases(json, env.stage) = <<>>
       THEN Exit(1) /\ UNCHANGED cases
       ELSE pc' = "files" /\ cases' = TestCases(json, env.stage) /\ UNCHANGED code
  /\ UNCHANGED <<parsing, exe, runs>>

\* The legacy file is only taken if it is there and the new one is not; a file
\* of which the system cannot say so ("error") is taken to be there.
ChooseExecutable(new, legacy) ==
  /\ pc = "files"
  /\ exe' = <<IF env.dir = None THEN "." ELSE env.dir,
              IF HasLegacy /\ legacy = "there" /\ new = "absent" THEN "legacy" ELSE "new">>
  /\ pc' = "config"
  /\ UNCHANGED <<parsing, env, cases, runs, code>>

\* bootcraft.yml is absent or fine, or cannot be read or parsed.
ReadConfig ==
  /\ pc = "config"
  /\ (pc' = "validate" /\ UNCHANGED code) \/ Exit(1)
  /\ UNCHANGED <<parsing, env, context, runs>>

\* Every test case is defined.
ValidateContext ==
  /\ pc = "validate"
  /\ IF Range(cases) \subseteq Defined THEN pc' = "stages" /\ UNCHANGED code ELSE Exit(1)
  /\ UNCHANGED <<parsing, env, context, runs>>

-----------------------------------------------------------------------------
(***************************************************************************)
(* The two runs of TestRunner.                                             *)
(***************************************************************************)

\* The next step passes.
StepPasses ==
  \/ /\ pc = "stages" /\ Len(ran) < Len(cases)
     /\ ran' = Append(ran, cases[Len(ran) + 1])
     /\ UNCHANGED <<pc, parsing, env, context, cheated, code>>
  \/ /\ pc = "anticheat" /\ cheated < AntiCheats
     /\ cheated' = cheated + 1
     /\ UNCHANGED <<pc, parsing, env, context, ran, code>>

\* It fails, or its TestFunc panics.
StepFails(n) ==
  /\ \/ pc = "stages" /\ Len(ran) < Len(cases)
     \/ pc = "anticheat" /\ cheated < AntiCheats
  /\ Exit(n)
  /\ UNCHANGED <<parsing, env, context, runs>>

StagesPassed(skip) ==
  /\ pc = "stages" /\ Len(ran) = Len(cases)
  /\ env' = [env EXCEPT !.skip = skip]
  /\ IF skip = "true" THEN Exit(0) ELSE pc' = "anticheat" /\ UNCHANGED code
  /\ UNCHANGED <<parsing, context, runs>>

AntiCheatsPassed ==
  /\ pc = "anticheat" /\ cheated = AntiCheats
  /\ Exit(0)
  /\ UNCHANGED <<parsing, env, context, runs>>

Next ==
  \/ \E w \in Words : ReadWord(w) \/ ReadRest(w)
  \/ \E stage \in {None, ""} \cup Plain, dir \in {None} \cup Foreign : EndOfLine(stage, dir)
  \/ InitRandom
  \/ \E json \in Json : SelectTestCases(json)
  \/ \E new, legacy \in {"there", "absent", "error"} : ChooseExecutable(new, legacy)
  \/ ReadConfig \/ ValidateContext
  \/ StepPasses \/ StepFails(1) \/ StepFails(2)
  \/ (\E skip \in {None, "true", "other"} : StagesPassed(skip)) \/ AntiCheatsPassed

Spec == Init /\ [][Next]_vars

-----------------------------------------------------------------------------

\* Exit code 0 is never given for nothing: unless it was asked for help or the
\* version, at least one test case has run, all that were selected have, in
\* their order, each passed, and so have all anti-cheat test cases unless the
\* environment says exactly "true" (tester.go:171-195, tester_context.go:84-92).
PassIsEarned ==
  code = 0 /\ ~cli.help /\ ~cli.version =>
    /\ ran # <<>> /\ ran = cases
    /\ cheated = AntiCheats \/ env.skip = "true"

\* What such a command line names is what is run: exactly the stage of its last
\* -s, or else its stage, in the directory of its last -d, and what the
\* environment says of stage and directory does not matter then. Only a JSON
\* list in the environment goes before the stage (tester.go:76-101, 150-164,
\* tester_context.go:66-82).
AskedIsRun ==
  pc = "stages" =>
    /\ asked.stage # None /\ env.json = <<None>> => cases = <<asked.stage>>
    /\ asked.dir # None => exe[1] = asked.dir

=============================================================================
