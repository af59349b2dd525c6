---------------------------- MODULE TesterProofs ----------------------------
(***************************************************************************)
(* Proofs about Tester, for any test cases, any number of anti-cheat test  *)
(* cases, command lines and JSON lists of any length.                      *)
(***************************************************************************)
EXTENDS Tester, SequenceTheorems, TLAPS

\* What Run is doing: reading the command line, selecting the test cases, or
\* running them.
Reads == {"parse", "rest", "ignored"}
Selected == {"files", "config", "validate"}
Runs == {"stages", "anticheat"}

\* What a slug, a stage or a directory may be.
Names == Words \cup {None, ""}

Types ==
  /\ pc \in Reads \cup {"seed", "select"} \cup Selected \cup Runs \cup {"exited"}
  /\ cases \in Seq(Names) /\ ran \in Seq(Names)
  /\ cheated \in Nat
  /\ cli \in [stage : Names, dir : Names, help : BOOLEAN, version : BOOLEAN]
  /\ env \in [json : Json, stage : Names, dir : Names, skip : {None, "true", "other"}]

\* Nothing has run before the test cases have been validated, and at least one
\* has been selected then.
Selection ==
  /\ pc # "exited" => code = 3
  /\ pc \notin Runs \cup {"exited"} => ran = <<>> /\ cheated = 0
  /\ pc \in Selected \cup Runs => cases # <<>>

\* The steps that have passed are the first of those selected; the anti-cheat
\* steps come after all of them.
Progress ==
  /\ Len(ran) <= Len(cases) \/ pc \notin Runs
  /\ pc \in Runs => \A i \in 1..Len(ran) : ran[i] = cases[i]
  /\ pc = "anticheat" => ran = cases

-----------------------------------------------------------------------------
(***************************************************************************)
(* Which test cases run, and what exit code 0 stands for.                  *)
(***************************************************************************)

\* A JSON list is one of plain words.
LEMMA JsonList ==
  ASSUME NEW json \in Json, json # <<None>>, json # <<"bad">>
  PROVE  json[2] \in Seq(Names)
<1>1. PICK l \in Lists : json = <<"list", l>>
  BY DEF Json
<1>2. l \in Seq(Plain)
  BY <1>1 DEF Lists
<1>3. Plain \subseteq Names
  BY DEF Names, Words
<1>4. l \in Seq(Names)
  BY <1>2, <1>3, SeqMonotonic
<1> QED
  BY <1>1, <1>4

\* What is selected is a sequence of names.
LEMMA SelectionType ==
  ASSUME NEW json \in Json, json # <<"bad">>, NEW stage,
         json = <<None>> => stage \in Defined \cup {None}
  PROVE  TestCases(json, stage) \in Seq(Names)
<1>1. CASE json # <<None>>
  BY <1>1, JsonList DEF TestCases
<1>2. CASE json = <<None>> /\ stage # None
  <2>1. stage \in Names
    BY <1>2 DEF Names, Words, Plain
  <2> QED
    BY <1>2, <2>1 DEF TestCases
<1>3. CASE json = <<None>> /\ stage = None
  <2>1. Slugs \in Seq(Defined) /\ Defined \subseteq Names
    BY SlugsAreUnique DEF Names, Words, Plain, Defined
  <2>2. Slugs \in Seq(Names)
    BY <2>1, SeqMonotonic
  <2> QED
    BY <1>3, <2>2 DEF TestCases
<1> QED
  BY <1>1, <1>2, <1>3

LEMMA TypesStep == ASSUME Types, [Next]_vars PROVE Types'
<1> USE DEF Types, parsing, Exit, Reads, Selected, Runs
<1>1. ASSUME NEW w \in Words, ReadWord(w) PROVE Types'
  <2>1. w \in Names
    BY DEF Names
  <2>2. /\ pc' \in Reads /\ UNCHANGED <<cases, ran, cheated, env>>
    BY <1>1 DEF ReadWord, context, runs
  <2>3. cli' \in {cli, [cli EXCEPT !.stage = w], [cli EXCEPT !.dir = w],
                  [cli EXCEPT !.help = TRUE], [cli EXCEPT !.version = TRUE]}
    BY <1>1 DEF ReadWord
  <2>4. cli' \in [stage : Names, dir : Names, help : BOOLEAN, version : BOOLEAN]
    BY <2>1, <2>3
  <2> QED
    BY <2>2, <2>4
<1>2. ASSUME NEW w \in Words, ReadRest(w) PROVE Types'
  <2>1. w \in Names
    BY DEF Names
  <2> QED
    BY <1>2, <2>1 DEF ReadRest, context, runs
<1>3. ASSUME NEW stage \in Names, NEW dir \in Names, EndOfLine(stage, dir) PROVE Types'
  <2>1. MergeArgsIntoEnv(stage, dir)
          \in [json : Json, stage : Names, dir : Names, skip : {None, "true", "other"}]
    BY DEF MergeArgsIntoEnv
  <2>2. env' \in {env, MergeArgsIntoEnv(stage, dir)} /\ pc' \in {"exited", "seed"}
    BY <1>3 DEF EndOfLine
  <2> QED
    BY <1>3, <2>1, <2>2 DEF EndOfLine, context, runs
<1>4. CASE InitRandom
  BY <1>4 DEF InitRandom, context, runs
<1>5. ASSUME NEW json \in Json, SelectTestCases(json) PROVE Types'
  <2>1. cases' = cases \/ cases' \in Seq(Names)
    BY <1>5, SelectionType DEF SelectTestCases
  <2>2. pc' \in {"exited", "files"} /\ UNCHANGED <<cli, runs>>
    BY <1>5 DEF SelectTestCases, parsing
  <2>3. env' \in [json : Json, stage : Names, dir : Names, skip : {None, "true", "other"}]
    BY <1>5 DEF SelectTestCases
  <2> QED
    BY <2>1, <2>2, <2>3 DEF runs
<1>6. ASSUME NEW new, NEW legacy, ChooseExecutable(new, legacy) PROVE Types'
  BY <1>6 DEF ChooseExecutable, runs
<1>7. CASE ReadConfig \/ ValidateContext
  BY <1>7 DEF ReadConfig, ValidateContext, context, runs
<1>8. CASE StepPasses
  <2>1. CASE pc = "stages"
    <3>1. Len(ran) + 1 \in 1..Len(cases)
      BY <1>8, <2>1, LenProperties DEF StepPasses
    <3>2. cases[Len(ran) + 1] \in Names
      BY <3>1, ElementOfSeq
    <3>3. ran' \in Seq(Names)
      BY <1>8, <2>1, <3>2 DEF StepPasses
    <3> QED
      BY <1>8, <2>1, <3>3 DEF StepPasses, context
  <2>2. CASE pc = "anticheat"
    BY <1>8, <2>2 DEF StepPasses, context
  <2> QED
    BY <1>8, <2>1, <2>2 DEF StepPasses
<1>9. ASSUME NEW n, StepFails(n) PROVE Types'
  BY <1>9 DEF StepFails, context, runs
<1>10. ASSUME NEW skip \in {None, "true", "other"}, StagesPassed(skip) PROVE Types'
  BY <1>10 DEF StagesPassed, context, runs
<1>11. CASE AntiCheatsPassed
  BY <1>11 DEF AntiCheatsPassed, context, runs
<1>12. CASE UNCHANGED vars
  BY <1>12 DEF vars, context, runs
<1>13. {None, ""} \cup Plain \subseteq Names /\ {None} \cup Foreign \subseteq Names
  BY DEF Names, Words, Plain
<1> HIDE DEF Types, Exit, Reads, Selected, Runs
<1> QED
  BY <1>1, <1>2, <1>3, <1>4, <1>5, <1>6, <1>7, <1>8, <1>9, <1>10, <1>11, <1>12,
     <1>13 DEF Next

\* An empty selection is an error, and only defined test cases pass the check.
LEMMA SelectionStep == ASSUME Types, Selection, [Next]_vars PROVE Selection'
<1> USE DEF Types, Selection, Exit, Reads, Selected, Runs
<1>1. ASSUME NEW w \in Words, ReadWord(w) PROVE Selection'
  BY <1>1 DEF ReadWord, context, runs
<1>2. ASSUME NEW w \in Words, ReadRest(w) PROVE Selection'
  BY <1>2 DEF ReadRest, context, runs
<1>3. ASSUME NEW stage, NEW dir, EndOfLine(stage, dir) PROVE Selection'
  BY <1>3 DEF EndOfLine, context, runs
<1>4. CASE InitRandom
  BY <1>4 DEF InitRandom, context, runs
<1>5. ASSUME NEW json \in Json, SelectTestCases(json) PROVE Selection'
  <2>1. pc' = "files" => cases' # <<>> /\ code' = code
    BY <1>5 DEF SelectTestCases
  <2>2. pc = "select" /\ pc' \in {"exited", "files"} /\ UNCHANGED runs
    BY <1>5 DEF SelectTestCases
  <2> QED
    BY <2>1, <2>2 DEF runs
<1>6. ASSUME NEW new, NEW legacy, ChooseExecutable(new, legacy) PROVE Selection'
  BY <1>6 DEF ChooseExecutable, runs
<1>7. CASE ReadConfig
  BY <1>7 DEF ReadConfig, context, runs
<1>8. CASE ValidateContext
  BY <1>8 DEF ValidateContext, context, runs
<1>9. CASE StepPasses
  BY <1>9 DEF StepPasses, context
<1>10. ASSUME NEW n, StepFails(n) PROVE Selection'
  BY <1>10 DEF StepFails, context, runs
<1>11. ASSUME NEW skip, StagesPassed(skip) PROVE Selection'
  BY <1>11 DEF StagesPassed, context, runs
<1>12. CASE AntiCheatsPassed
  BY <1>12 DEF AntiCheatsPassed, context, runs
<1>13. CASE UNCHANGED vars
  BY <1>13 DEF vars, context, runs
<1> QED
  BY <1>1, <1>2, <1>3, <1>4, <1>5, <1>6, <1>7, <1>8, <1>9, <1>10, <1>11, <1>12,
     <1>13 DEF Next

\* What has run is a beginning of what was selected.
LEMMA ProgressStep == ASSUME Types, Selection, Progress, [Next]_vars PROVE Progress'
<1> USE DEF Types, Progress, Exit, Reads, Selected, Runs
<1>1. CASE pc' \notin Runs
  BY <1>1
<1>2. ASSUME UNCHANGED <<cases, ran>>, pc \in Runs, pc' = pc PROVE Progress'
  BY <1>2
<1>3. CASE ValidateContext
  <2>1. ran' = <<>> /\ cases' = cases /\ pc' \in {"stages", "exited"}
    BY <1>3 DEF ValidateContext, Selection, context, runs
  <2> QED
    BY <2>1
<1>4. CASE StepPasses
  <2>1. CASE pc = "stages"
    <3>1. /\ ran' = Append(ran, cases[Len(ran) + 1]) /\ Len(ran) < Len(cases)
          /\ cases' = cases /\ pc' = "stages"
      BY <1>4, <2>1 DEF StepPasses, context
    <3>2. /\ Len(ran') = Len(ran) + 1 /\ Len(ran) \in Nat /\ Len(cases) \in Nat
          /\ \A i \in 1..Len(ran) : ran'[i] = ran[i]
          /\ ran'[Len(ran) + 1] = cases[Len(ran) + 1]
      BY <3>1
    <3> QED
      BY <2>1, <3>1, <3>2
  <2>2. CASE pc = "anticheat"
    BY <1>2, <1>4, <2>2 DEF StepPasses, context
  <2> QED
    BY <1>4, <2>1, <2>2 DEF StepPasses
<1>5. ASSUME NEW skip, StagesPassed(skip) PROVE Progress'
  <2>1. /\ pc = "stages" /\ Len(ran) = Len(cases) /\ UNCHANGED <<cases, ran>>
        /\ pc' \in {"exited", "anticheat"}
    BY <1>5 DEF StagesPassed, context, runs
  <2>2. ran = cases
    BY <2>1, SeqEqual
  <2> QED
    BY <2>1, <2>2
<1>6. CASE UNCHANGED vars
  BY <1>1, <1>2, <1>6 DEF vars, context, runs
<1>7. CASE \/ \E w \in Words : ReadWord(w) \/ ReadRest(w)
           \/ InitRandom \/ ReadConfig \/ AntiCheatsPassed
  BY <1>1, <1>7 DEF ReadWord, ReadRest, InitRandom, ReadConfig, AntiCheatsPassed
<1>8. ASSUME NEW stage, NEW dir, EndOfLine(stage, dir) PROVE Progress'
  BY <1>1, <1>8 DEF EndOfLine
<1>9. ASSUME NEW json, SelectTestCases(json) PROVE Progress'
  BY <1>1, <1>9 DEF SelectTestCases
<1>10. ASSUME NEW new, NEW legacy, ChooseExecutable(new, legacy) PROVE Progress'
  BY <1>1, <1>10 DEF ChooseExecutable
<1>11. ASSUME NEW n, StepFails(n) PROVE Progress'
  BY <1>1, <1>11 DEF StepFails
<1> QED
  BY <1>3, <1>4, <1>5, <1>6, <1>7, <1>8, <1>9, <1>10, <1>11 DEF Next

\* Exit code 0 is given by help and version, or after all that was to run.
LEMMA PassStep ==
  ASSUME Types, Selection, Progress, PassIsEarned, [Next]_vars
  PROVE  PassIsEarned'
<1> USE DEF PassIsEarned, Exit
<1>1. CASE code' # 0
  BY <1>1
<1>2. CASE UNCHANGED <<code, cli, env, cases, ran, cheated>>
  BY <1>2
<1>3. CASE pc # "exited" /\ code' = code
  BY <1>1, <1>3 DEF Selection
<1>4. ASSUME NEW w \in Words, ReadWord(w) \/ ReadRest(w) PROVE PassIsEarned'
  BY <1>3, <1>4 DEF ReadWord, ReadRest
<1>5. ASSUME NEW stage, NEW dir, EndOfLine(stage, dir) PROVE PassIsEarned'
  <2>1. CASE cli.help \/ cli.version
    BY <1>5, <2>1 DEF EndOfLine
  <2>2. CASE ~(cli.help \/ cli.version)
    BY <1>3, <1>5, <2>2 DEF EndOfLine
  <2> QED
    BY <2>1, <2>2
<1>6. CASE InitRandom
  BY <1>1, <1>3, <1>6 DEF InitRandom
<1>7. ASSUME NEW json \in Json, SelectTestCases(json) PROVE PassIsEarned'
  BY <1>1, <1>3, <1>7 DEF SelectTestCases
<1>8. ASSUME NEW new, NEW legacy, ChooseExecutable(new, legacy) PROVE PassIsEarned'
  BY <1>3, <1>8 DEF ChooseExecutable
<1>9. CASE ReadConfig
  BY <1>1, <1>3, <1>9 DEF ReadConfig
<1>10. CASE ValidateContext
  BY <1>1, <1>3, <1>10 DEF ValidateContext
<1>11. CASE StepPasses
  BY <1>3, <1>11 DEF StepPasses
<1>12. ASSUME NEW n \in {1, 2}, StepFails(n) PROVE PassIsEarned'
  BY <1>1, <1>12 DEF StepFails
<1>13. ASSUME NEW skip, StagesPassed(skip) PROVE PassIsEarned'
  <2>1. pc = "stages" /\ Len(ran) = Len(cases) /\ UNCHANGED <<cases, ran>>
    BY <1>13 DEF StagesPassed, context, runs
  <2>2. ran = cases /\ cases # <<>>
    BY <2>1, SeqEqual DEF Types, Selection, Progress, Runs
  <2>3. CASE skip = "true"
    <3>1. env'.skip = "true"
      BY <1>13, <2>3 DEF StagesPassed, Types
    <3> QED
      BY <2>1, <2>2, <3>1
  <2>4. CASE skip # "true"
    BY <1>3, <1>13, <2>1, <2>4 DEF StagesPassed
  <2> QED
    BY <2>3, <2>4
<1>14. CASE AntiCheatsPassed
  BY <1>14 DEF AntiCheatsPassed, context, runs, Selection, Progress, Runs
<1>15. CASE UNCHANGED vars
  BY <1>2, <1>15 DEF vars, parsing, context, runs
<1> HIDE DEF PassIsEarned, Exit
<1> QED
  BY <1>4, <1>5, <1>6, <1>7, <1>8, <1>9, <1>10, <1>11, <1>12, <1>13, <1>14, <1>15
  DEF Next

-----------------------------------------------------------------------------
(***************************************************************************)
(* What a command line asks for, word by word.                             *)
(***************************************************************************)

\* The words of l up to n are options, each followed by a plain word; the last
\* one may still be without its value.
Options(l, n) ==
  \A i \in 1..n : IF i % 2 = 1 THEN l[i] \in Valued ELSE l[i] \in Plain

\* l is nothing else, or is that and one plain word more.
OnlyOptions(l) == Options(l, Len(l))
ThenWord(l) == Len(l) % 2 = 1 /\ Options(l, Len(l) - 1) /\ l[Len(l)] \in Plain

\* Where an option o that has a value stands, the last such place, and that there
\* is a last one.
At(o, l) == {i \in 1..(Len(l) - 1) : l[i] = o}
LastAt(o, l) == CHOOSE i \in At(o, l) : \A j \in At(o, l) : j <= i
HasLast(o, l) == At(o, l) # {} => \E i \in At(o, l) : \A j \in At(o, l) : j <= i

LEMMA LastValueAt ==
  ASSUME NEW o, NEW l
  PROVE  LastValue(o, l) = IF At(o, l) = {} THEN None ELSE l[1 + LastAt(o, l)]
  BY DEF LastValue, At, LastAt

\* A word is the value of the option before it, if there is one, and changes the
\* value of no other.
LEMMA LastValueAppend ==
  ASSUME NEW l \in Seq(Words), NEW w \in Words, NEW o, HasLast(o, l)
  PROVE  /\ HasLast(o, Append(l, w))
         /\ LastValue(o, Append(l, w)) =
              IF l # <<>> /\ l[Len(l)] = o THEN w ELSE LastValue(o, l)
<1> DEFINE m == Append(l, w)
<1>1. /\ Len(l) \in Nat /\ Len(m) = Len(l) + 1 /\ m[Len(l) + 1] = w
      /\ \A i \in 1..Len(l) : m[i] = l[i]
  OBVIOUS
<1> HIDE DEF m
<1>2. CASE l # <<>> /\ l[Len(l)] = o
  <2>1. Len(l) \in At(o, m) /\ \A j \in At(o, m) : j <= Len(l)
    BY <1>1, <1>2, EmptySeq DEF At
  <2>2. LastAt(o, m) = Len(l)
    <3>1. \A i \in At(o, m) : (\A j \in At(o, m) : j <= i) <=> i = Len(l)
      BY <1>1, <2>1 DEF At
    <3> QED
      BY <2>1, <3>1 DEF LastAt
  <2>3. LastValue(o, m) = w
    BY <1>1, <2>1, <2>2, LastValueAt
  <2> QED
    BY <1>2, <2>1, <2>3 DEF HasLast, m
<1>3. CASE ~(l # <<>> /\ l[Len(l)] = o)
  <2>1. At(o, m) = At(o, l)
    BY <1>1, <1>3, EmptySeq DEF At
  <2>2. HasLast(o, m) /\ LastAt(o, m) = LastAt(o, l)
    BY <2>1 DEF HasLast, LastAt
  <2>3. ASSUME At(o, l) # {} PROVE m[1 + LastAt(o, l)] = l[1 + LastAt(o, l)]
    <3>1. LastAt(o, l) \in At(o, l)
      BY <2>3 DEF HasLast, LastAt
    <3> QED
      BY <1>1, <3>1 DEF At
  <2>4. LastValue(o, m) = LastValue(o, l)
    BY <2>1, <2>2, <2>3, LastValueAt
  <2> QED
    BY <1>3, <2>2, <2>4 DEF m
<1> QED
  BY <1>2, <1>3

LEMMA OptionsAppend ==
  ASSUME NEW l \in Seq(Words), NEW w \in Words
  PROVE  /\ OnlyOptions(Append(l, w)) <=>
              /\ OnlyOptions(l)
              /\ IF Len(l) % 2 = 0 THEN w \in Valued ELSE w \in Plain
         /\ ThenWord(Append(l, w)) <=>
              OnlyOptions(l) /\ Len(l) % 2 = 0 /\ w \in Plain
<1> DEFINE m == Append(l, w)
<1>1. /\ Len(l) \in Nat /\ Len(m) = Len(l) + 1 /\ m[Len(l) + 1] = w
      /\ \A i \in 1..Len(l) : m[i] = l[i]
  OBVIOUS
<1>2. /\ Len(m) % 2 = 1 <=> Len(l) % 2 = 0
      /\ Len(l) % 2 = 0 \/ Len(l) % 2 = 1
  BY <1>1
<1> HIDE DEF m
<1>3. Options(m, Len(l)) <=> OnlyOptions(l)
  BY <1>1 DEF Options, OnlyOptions
<1>4. OnlyOptions(m) <=>
        Options(m, Len(l)) /\ IF Len(m) % 2 = 1 THEN w \in Valued ELSE w \in Plain
  BY <1>1 DEF Options, OnlyOptions
<1>5. ThenWord(m) <=> Len(m) % 2 = 1 /\ Options(m, Len(l)) /\ w \in Plain
  BY <1>1 DEF ThenWord
<1> QED
  BY <1>2, <1>3, <1>4, <1>5 DEF m

\* What ParseArgs has made of a line that names options with their values and at
\* most one word. (Of no other line does AskedIsRun say anything.)
Reading ==
  pc \in Reads =>
    /\ line \in Seq(Words)
    /\ \A o \in Valued : HasLast(o, line)
    /\ OnlyOptions(line) =>
         /\ pc = "parse"
         /\ option = IF Len(line) % 2 = 1 THEN line[Len(line)] ELSE None
         /\ cli.stage = LastValue("-s", line)
         /\ cli.dir = LastValue("-d", line)
    /\ ThenWord(line) =>
         /\ pc = "ignored"
         /\ cli.stage = IF LastValue("-s", line) # None THEN LastValue("-s", line)
                        ELSE line[Len(line)]
         /\ cli.dir = LastValue("-d", line)

\* A word that fs.Parse takes.
LEMMA ReadWordReads ==
  ASSUME Types, Reading, NEW w \in Words, ReadWord(w)
  PROVE  Reading'
<1>1. /\ pc = "parse" /\ line' = Append(line, w) /\ line \in Seq(Words)
      /\ \A o \in Valued : HasLast(o, line)
  BY <1>1 DEF ReadWord, Reading, Reads
<1>2. line' \in Seq(Words) /\ \A o \in Valued : HasLast(o, line')
  BY <1>1, LastValueAppend
<1>3. "-s" \in Valued /\ "-d" \in Valued
  BY DEF Valued
<1>4. \A o \in Valued :
        LastValue(o, line') =
          IF line # <<>> /\ line[Len(line)] = o THEN w ELSE LastValue(o, line)
  BY <1>1, LastValueAppend
<1>5. Len(line') = Len(line) + 1 /\ Len(line) \in Nat /\ line'[Len(line')] = w
  BY <1>1
<1> /\ Len(line') % 2 = 1 <=> Len(line) % 2 = 0
    /\ Len(line') % 2 \in {0, 1} /\ Len(line) % 2 \in {0, 1}
  BY <1>5
<1>6. CASE OnlyOptions(line) /\ Len(line) % 2 = 0
  <2>1. /\ option = None
        /\ cli.stage = LastValue("-s", line) /\ cli.dir = LastValue("-d", line)
    BY <1>1, <1>6 DEF Reading, Reads
  <2>2. line # <<>> => line[Len(line)] \in Plain
    BY <1>1, <1>5, <1>6, EmptySeq DEF OnlyOptions, Options
  <2>3. \A o \in Valued : LastValue(o, line') = LastValue(o, line)
    BY <1>4, <2>2, PlainAssumption
  <2>4. CASE w \in Valued
    <3>1. option' = w /\ UNCHANGED <<pc, cli>>
      BY <1>1, <2>1, <2>4 DEF ReadWord
    <3>2. w \notin Plain
      BY <2>4, PlainAssumption
    <3>3. OnlyOptions(line') /\ ~ThenWord(line')
      BY <1>1, <1>6, <2>4, <3>2, OptionsAppend
    <3> QED
      BY <1>1, <1>2, <1>3, <1>5, <1>6, <2>1, <2>3, <3>1, <3>3 DEF Reading
  <2>5. CASE w \in Plain
    <3>1. w \notin Valued \cup Switches \cup {"-x", None}
      BY <2>5, PlainAssumption
    <3>2. /\ pc' = "ignored"
          /\ cli' = IF cli.stage = None THEN [cli EXCEPT !.stage = w] ELSE cli
      BY <2>1, <2>5, <3>1 DEF ReadWord, Switches
    <3>3. /\ cli'.stage = IF cli.stage = None THEN w ELSE cli.stage
          /\ cli'.dir = cli.dir
      BY <3>2 DEF Types
    <3>4. ~OnlyOptions(line') /\ ThenWord(line')
      BY <1>1, <1>6, <2>5, <3>1, OptionsAppend
    <3> QED
      BY <1>2, <1>3, <1>5, <2>1, <2>3, <3>2, <3>3, <3>4 DEF Reading
  <2>6. CASE w \notin Valued \cup Plain
    <3>1. ~OnlyOptions(line') /\ ~ThenWord(line')
      BY <1>1, <1>6, <2>6, OptionsAppend
    <3> QED
      BY <1>2, <3>1 DEF Reading
  <2> QED
    BY <2>4, <2>5, <2>6
<1>7. CASE OnlyOptions(line) /\ Len(line) % 2 = 1
  <2>1. /\ option = line[Len(line)] /\ line # <<>>
        /\ cli.stage = LastValue("-s", line) /\ cli.dir = LastValue("-d", line)
    BY <1>1, <1>7 DEF Reading, Reads
  <2>2. option \in Valued
    BY <1>1, <1>5, <1>7, <2>1, EmptySeq DEF OnlyOptions, Options
  <2>3. /\ pc' = "parse" /\ option' = None
        /\ cli' = IF option = "-s" THEN [cli EXCEPT !.stage = w]
                                   ELSE [cli EXCEPT !.dir = w]
    BY <1>1, <2>2 DEF ReadWord, Valued, None
  <2>4. /\ cli'.stage = IF option = "-s" THEN w ELSE cli.stage
        /\ cli'.dir = IF option = "-d" THEN w ELSE cli.dir
    BY <2>2, <2>3 DEF Types, Valued
  <2>5. cli'.stage = LastValue("-s", line') /\ cli'.dir = LastValue("-d", line')
    BY <1>3, <1>4, <2>1, <2>4
  <2>6. ~ThenWord(line')
    BY <1>1, <1>7, OptionsAppend
  <2> QED
    BY <1>2, <1>7, <2>3, <2>5, <2>6 DEF Reading
<1>8. CASE ~OnlyOptions(line)
  <2>1. ~OnlyOptions(line') /\ ~ThenWord(line')
    BY <1>1, <1>8, OptionsAppend
  <2> QED
    BY <1>2, <2>1 DEF Reading
<1> QED
  BY <1>5, <1>6, <1>7, <1>8

\* A word behind what fs.Parse has taken.
LEMMA ReadRestReads ==
  ASSUME Reading, NEW w \in Words, ReadRest(w)
  PROVE  Reading'
<1>1. /\ pc \in {"rest", "ignored"} /\ line' = Append(line, w) /\ line \in Seq(Words)
      /\ \A o \in Valued : HasLast(o, line)
  BY DEF ReadRest, Reading, Reads
<1>2. line' \in Seq(Words) /\ \A o \in Valued : HasLast(o, line')
  BY <1>1, LastValueAppend
<1>3. ~OnlyOptions(line)
  BY <1>1 DEF Reading, Reads
<1>4. ~OnlyOptions(line') /\ ~ThenWord(line')
  BY <1>1, <1>3, OptionsAppend
<1> QED
  BY <1>2, <1>4 DEF Reading

LEMMA ReadingStep == ASSUME Types, Reading, [Next]_vars PROVE Reading'
<1>1. ASSUME NEW w \in Words, ReadWord(w) \/ ReadRest(w) PROVE Reading'
  BY <1>1, ReadWordReads, ReadRestReads
<1>2. CASE pc' \notin Reads
  BY <1>2 DEF Reading
<1>3. ASSUME NEW stage, NEW dir, EndOfLine(stage, dir) PROVE Reading'
  BY <1>2, <1>3 DEF EndOfLine, Exit, Reads
<1>4. ASSUME NEW json, SelectTestCases(json) PROVE Reading'
  BY <1>2, <1>4 DEF SelectTestCases, Exit, Reads
<1>5. ASSUME NEW new, NEW legacy, ChooseExecutable(new, legacy) PROVE Reading'
  BY <1>2, <1>5 DEF ChooseExecutable, Reads
<1>6. CASE InitRandom \/ ReadConfig \/ ValidateContext \/ StepPasses \/ AntiCheatsPassed
  BY <1>2, <1>6 DEF InitRandom, ReadConfig, ValidateContext, StepPasses,
     AntiCheatsPassed, Exit, Reads
<1>7. ASSUME NEW n, StepFails(n) PROVE Reading'
  BY <1>2, <1>7 DEF StepFails, Exit, Reads
<1>8. ASSUME NEW skip, StagesPassed(skip) PROVE Reading'
  BY <1>2, <1>8 DEF StagesPassed, Exit, Reads
<1>9. CASE UNCHANGED vars
  BY <1>9 DEF vars, parsing, Reading
<1> QED
  BY <1>1, <1>3, <1>4, <1>5, <1>6, <1>7, <1>8, <1>9 DEF Next

\* A line that the usage text offers is of that form.
LEMMA UsageShape ==
  ASSUME NEW u \in Usage
  PROVE  /\ u \in Seq(Words)
         /\ \/ Len(u) = 0
            \/ Len(u) = 2 /\ u[1] \in Valued /\ u[2] \in Plain
<1>1. CASE u = <<>>
  BY <1>1
<1>2. CASE u # <<>>
  <2>1. PICK a \in Valued, x \in Plain : u = <<a, x>>
    BY <1>2 DEF Usage
  <2>2. a \in Words /\ x \in Words
    BY DEF Words
  <2> QED
    BY <2>1, <2>2
<1> QED
  BY <1>1, <1>2

LEMMA PairsAreOptions ==
  ASSUME NEW q,
         \/ Len(q) = 2 /\ q[1] \in Valued /\ q[2] \in Plain
         \/ /\ Len(q) = 4
            /\ {q[1], q[3]} \subseteq Valued /\ {q[2], q[4]} \subseteq Plain
  PROVE  OnlyOptions(q)
<1> SUFFICES ASSUME NEW i \in 1..Len(q)
             PROVE  IF i % 2 = 1 THEN q[i] \in Valued ELSE q[i] \in Plain
  BY DEF OnlyOptions, Options
<1>1. 1 % 2 = 1 /\ 2 % 2 = 0 /\ 3 % 2 = 1 /\ 4 % 2 = 0
  OBVIOUS
<1>2. CASE Len(q) = 2
  <2>1. i = 1 \/ i = 2
    BY <1>2
  <2> QED
    BY <1>1, <1>2, <2>1
<1>3. CASE Len(q) = 4
  <2>1. i = 1 \/ i = 2 \/ i = 3 \/ i = 4
    BY <1>3
  <2> QED
    BY <1>1, <1>3, <2>1
<1> QED
  BY <1>2, <1>3

LEMMA OptionedShape ==
  ASSUME NEW q \in Optioned
  PROVE  q \in Seq(Words) /\ Len(q) % 2 = 0 /\ OnlyOptions(q)
<1> 0 % 2 = 0 /\ 2 % 2 = 0 /\ 4 % 2 = 0
  OBVIOUS
<1>1. PICK o \in Usage, p \in Usage : q = o \o p
  BY DEF Optioned
<1>2. /\ o \in Seq(Words) /\ p \in Seq(Words)
      /\ Len(o) = 0 \/ (Len(o) = 2 /\ o[1] \in Valued /\ o[2] \in Plain)
      /\ Len(p) = 0 \/ (Len(p) = 2 /\ p[1] \in Valued /\ p[2] \in Plain)
  BY UsageShape
<1>3. /\ q \in Seq(Words) /\ Len(q) = Len(o) + Len(p)
      /\ \A i \in 1..Len(o) + Len(p) : q[i] = IF i <= Len(o) THEN o[i] ELSE p[i - Len(o)]
  BY <1>1, <1>2, ConcatProperties
<1>4. CASE Len(o) = 0 /\ Len(p) = 0
  BY <1>3, <1>4 DEF OnlyOptions, Options
<1>5. CASE \/ Len(o) = 0 /\ Len(p) = 2
           \/ Len(o) = 2 /\ Len(p) = 0
  <2>1. Len(q) = 2 /\ q[1] \in Valued /\ q[2] \in Plain
    BY <1>2, <1>3, <1>5
  <2>2. OnlyOptions(q)
    BY <2>1, PairsAreOptions
  <2> QED
    BY <1>3, <2>1, <2>2
<1>6. CASE Len(o) = 2 /\ Len(p) = 2
  <2>1. Len(q) = 4 /\ {q[1], q[3]} \subseteq Valued /\ {q[2], q[4]} \subseteq Plain
    BY <1>2, <1>3, <1>6
  <2>2. OnlyOptions(q)
    BY <2>1, PairsAreOptions
  <2> QED
    BY <1>3, <2>1, <2>2
<1> QED
  <2>1. \/ Len(o) = 0 /\ Len(p) = 0
        \/ Len(o) = 0 /\ Len(p) = 2
        \/ Len(o) = 2 /\ Len(p) = 0
        \/ Len(o) = 2 /\ Len(p) = 2
    BY <1>2, Zenon
  <2> QED
    BY <1>4, <1>5, <1>6, <2>1, Zenon

LEMMA OfferedShape ==
  ASSUME NEW l \in Offered
  PROVE  \/ OnlyOptions(l) /\ Len(l) % 2 = 0
         \/ ThenWord(l)
<1>1. PICK q \in Optioned, s \in StageArg : l = q \o s
  BY DEF Offered
<1>2. q \in Seq(Words) /\ Len(q) % 2 = 0 /\ OnlyOptions(q)
  BY OptionedShape
<1>3. CASE s = <<>>
  BY <1>1, <1>2, <1>3, ConcatEmptySeq
<1>4. CASE s # <<>>
  <2>1. PICK x \in Plain : s = <<x>>
    BY <1>4 DEF StageArg
  <2>2. x \in Words
    BY DEF Words
  <2>3. l = Append(q, x)
    BY <1>1, <1>2, <2>1, <2>2
  <2> QED
    BY <1>2, <2>2, <2>3, OptionsAppend
<1> QED
  BY <1>3, <1>4

\* What the command line asks for, from its end on: it is in the environment, in
\* what has been selected, and in the executable's path.
Asking ==
  /\ pc \in {"seed", "select"} \cup Selected \cup Runs =>
       /\ asked.stage # None => env.stage = asked.stage
       /\ asked.dir # None => env.dir = asked.dir
  /\ pc \in Selected \cup Runs =>
       (asked.stage # None /\ env.json = <<None>> => cases = <<asked.stage>>)
  /\ pc \in {"config", "validate"} \cup Runs =>
       (asked.dir # None => exe[1] = asked.dir)

LEMMA EndOfLineAsks ==
  ASSUME Types, Reading, NEW stage \in Names, NEW dir \in Names, EndOfLine(stage, dir)
  PROVE  Asking'
<1>1. /\ pc \in Reads /\ asked' = Meaning(line)
      /\ \/ pc' = "exited"
         \/ pc' = "seed" /\ env' = MergeArgsIntoEnv(stage, dir)
  BY DEF EndOfLine, Exit, Reads
<1>2. CASE line \notin Offered
  <2>1. asked'.stage = None /\ asked'.dir = None
    BY <1>1, <1>2 DEF Meaning
  <2> QED
    BY <1>1, <2>1 DEF Asking, Selected, Runs
<1>3. CASE line \in Offered
  <2>1. /\ asked'.stage = IF LastValue("-s", line) # None THEN LastValue("-s", line)
                          ELSE IF Len(line) % 2 = 1 THEN line[Len(line)] ELSE None
        /\ asked'.dir = LastValue("-d", line)
    BY <1>1, <1>3 DEF Meaning
  <2>2. asked'.stage = cli.stage /\ asked'.dir = cli.dir
    <3>1. CASE OnlyOptions(line) /\ Len(line) % 2 = 0
      <4>1. cli.stage = LastValue("-s", line) /\ cli.dir = LastValue("-d", line)
        BY <1>1, <3>1 DEF Reading
      <4> QED
        BY <2>1, <3>1, <4>1
    <3>2. CASE ThenWord(line)
      <4>1. /\ cli.stage = IF LastValue("-s", line) # None THEN LastValue("-s", line)
                           ELSE line[Len(line)]
            /\ cli.dir = LastValue("-d", line)
        BY <1>1, <3>2 DEF Reading
      <4> QED
        BY <2>1, <3>2, <4>1 DEF ThenWord
    <3> QED
      BY <1>3, <3>1, <3>2, OfferedShape
  <2>3. env' = MergeArgsIntoEnv(stage, dir) =>
          /\ cli.stage # None => env'.stage = cli.stage
          /\ cli.dir # None => env'.dir = cli.dir
    BY DEF MergeArgsIntoEnv, Types
  <2> QED
    BY <1>1, <2>2, <2>3 DEF Asking, Selected, Runs
<1> QED
  BY <1>2, <1>3

LEMMA AskingStep ==
  ASSUME Types, Reading, Selection, Asking, [Next]_vars
  PROVE  Asking'
<1> USE DEF Selected, Runs, Exit
<1>1. ASSUME NEW w \in Words, ReadWord(w) \/ ReadRest(w) PROVE Asking'
  BY <1>1 DEF ReadWord, ReadRest, Asking
<1>2. ASSUME NEW stage \in Names, NEW dir \in Names, EndOfLine(stage, dir) PROVE Asking'
  BY <1>2, EndOfLineAsks
<1>3. CASE InitRandom
  BY <1>3 DEF InitRandom, parsing, Asking
<1>4. ASSUME NEW json \in Json, SelectTestCases(json) PROVE Asking'
  <2>1. /\ pc = "select" /\ env' = [env EXCEPT !.json = json] /\ UNCHANGED asked
        /\ \/ pc' = "exited"
           \/ pc' = "files" /\ cases' = TestCases(json, env.stage)
    BY <1>4 DEF SelectTestCases, parsing
  <2>2. /\ env'.json = json /\ env'.stage = env.stage /\ env'.dir = env.dir
    BY <2>1 DEF Types
  <2>3. json = <<None>> /\ env.stage # None => TestCases(json, env.stage) = <<env.stage>>
    BY DEF TestCases
  <2> QED
    BY <2>1, <2>2, <2>3 DEF Asking
<1>5. ASSUME NEW new, NEW legacy, ChooseExecutable(new, legacy) PROVE Asking'
  <2>1. exe'[1] = IF env.dir = None THEN "." ELSE env.dir
    BY <1>5 DEF ChooseExecutable
  <2> QED
    BY <1>5, <2>1 DEF ChooseExecutable, parsing, Asking
<1>6. CASE ReadConfig
  BY <1>6 DEF ReadConfig, parsing, context, Asking
<1>7. CASE ValidateContext
  BY <1>7 DEF ValidateContext, parsing, context, Asking
<1>8. CASE StepPasses
  BY <1>8 DEF StepPasses, parsing, context, Asking
<1>9. ASSUME NEW n, StepFails(n) PROVE Asking'
  BY <1>9 DEF StepFails, parsing, context, Asking
<1>10. ASSUME NEW skip, StagesPassed(skip) PROVE Asking'
  <2>1. /\ env'.json = env.json /\ env'.stage = env.stage /\ env'.dir = env.dir
        /\ pc = "stages" /\ pc' \in {"exited", "anticheat"}
        /\ UNCHANGED <<asked, cases, exe>>
    BY <1>10 DEF StagesPassed, parsing, context, Types
  <2> QED
    BY <2>1 DEF Asking
<1>11. CASE AntiCheatsPassed
  BY <1>11 DEF AntiCheatsPassed, parsing, context, Asking
<1>12. CASE UNCHANGED vars
  BY <1>12 DEF vars, parsing, context, Asking
<1>13. {None, ""} \cup Plain \subseteq Names /\ {None} \cup Foreign \subseteq Names
  BY DEF Names, Words, Plain
<1> HIDE DEF Selected, Runs, Exit
<1> QED
  BY <1>1, <1>2, <1>3, <1>4, <1>5, <1>6, <1>7, <1>8, <1>9, <1>10, <1>11, <1>12,
     <1>13 DEF Next

-----------------------------------------------------------------------------
(***************************************************************************)
(* The theorems.                                                           *)
(***************************************************************************)

IInv == Types /\ Selection /\ Progress /\ PassIsEarned /\ Reading /\ Asking

LEMMA Invariance == Spec => []IInv
<1>1. ASSUME Init PROVE IInv
  <2>1. Types
    BY <1>1 DEF Init, Types, Reads, Names, Json
  <2>2. Selection /\ Progress /\ PassIsEarned /\ Asking
    BY <1>1 DEF Init, Selection, Progress, PassIsEarned, Asking,
       Selected, Runs
  <2>3. Reading
    <3>1. /\ line = <<>> /\ pc = "parse" /\ option = None
          /\ cli.stage = None /\ cli.dir = None
      BY <1>1 DEF Init
    <3>2. \A o : At(o, line) = {}
      BY <3>1 DEF At
    <3>3. \A o : HasLast(o, line) /\ LastValue(o, line) = None
      BY <3>2, LastValueAt DEF HasLast
    <3>4. Len(line) % 2 = 0
      BY <3>1
    <3> QED
      BY <3>1, <3>3, <3>4 DEF Reading, ThenWord
  <2> QED
    BY <2>1, <2>2, <2>3 DEF IInv
<1>2. IInv /\ [Next]_vars => IInv'
  BY TypesStep, SelectionStep, ProgressStep, PassStep, ReadingStep, AskingStep DEF IInv
<1> QED
  BY <1>1, <1>2, PTL DEF Spec

\* Exit code 0 means that what was selected, and that was not nothing, has passed
\* in full and in order, and the anti-cheat test cases after it
\* (tester.go:171-195, tester_context.go:84-92).
THEOREM ZeroMeansAllPassed == Spec => []PassIsEarned
<1>1. IInv => PassIsEarned
  BY DEF IInv
<1> QED
  BY <1>1, Invariance, PTL

\* A command line that the usage text offers, of whatever words, is obeyed: the
\* stage and the directory it names are those that are run
\* (tester.go:76-101, 150-164, tester_context.go:66-82).
THEOREM CommandLineObeyed == Spec => []AskedIsRun
<1>1. IInv => AskedIsRun
  BY DEF IInv, Asking, AskedIsRun, Runs
<1> QED
  BY <1>1, Invariance, PTL

=============================================================================
