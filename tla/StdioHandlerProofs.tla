------------------------- MODULE StdioHandlerProofs -------------------------
(***************************************************************************)
(* Proofs about StdioHandler, for any number of calls of Start, each with  *)
(* pipes or with terminals.                                                *)
(***************************************************************************)
EXTENDS StdioHandler, TLAPS

\* While the streams are being set up: s has been made.
Made(s) == CASE pc = "stdin" -> FALSE [] pc = "stdout" -> s = "stdin"
             [] pc = "stderr" -> s # "stderr" [] OTHER -> TRUE

\* The tester holds of the six ends exactly those in ends, the others it has
\* closed.
Holds(ends) == \A e \in Ends : fd[e] = IF e \in ends THEN "open" ELSE "closed"

\* What is open where, between a Start and the end of its Wait.
Descriptors ==
  /\ pc \in Streams =>
       \A e \in Ends : fd[e] = IF Made(e[1]) THEN "open" ELSE "none"
  /\ pc = "exec" => Holds(Ends)
  /\ pc = "closechild" => Holds(IF pty THEN Ends ELSE IF ok THEN ParentEnds ELSE {})
  /\ pc = "running" => Holds(ParentEnds)
  /\ pc = "waiting" =>
       Holds(IF pty THEN ParentEnds ELSE ParentEnds \ {<<"stdin", "parent">>})
  /\ pc = "closeparent" => Holds(IF pty THEN ParentEnds ELSE {})

\* The relays run from the end of a Start that succeeds until Wait reaps.
Relaying ==
  /\ relays # {} => pc \in {"running", "waiting"}
  /\ pc \in Streams \cup {"exec"} => ~ok

IInv == TypeOK /\ Descriptors /\ Relaying /\ ClosedOnce /\ NothingLost

-----------------------------------------------------------------------------

LEMMA TypeStep == ASSUME TypeOK, [Next]_vars PROVE TypeOK'
<1> USE MaxStartsAssumption DEF TypeOK, Streams, Outputs
<1>1. ASSUME NEW ends PROVE Closed(ends) \in [Ends -> {"none", "open", "closed"}]
  BY DEF Closed
<1>2. CASE Start
  <2>1. starts' \in 0..MaxStarts
    BY <1>2 DEF Start
  <2>2. fd' \in [Ends -> {"none", "open", "closed"}]
    BY <1>2 DEF Start
  <2> QED
    BY <1>2, <2>1, <2>2 DEF Start, program
<1>3. CASE OpenStream
  BY <1>3 DEF OpenStream, program
<1>4. CASE SetupFails
  BY <1>1, <1>4 DEF SetupFails, CloseIfNotNil, CloseIfOpen, program
<1>5. CASE ExecOk
  BY <1>1, <1>5 DEF ExecOk
<1>6. CASE ExecFails
  BY <1>1, <1>6 DEF ExecFails, program
<1>7. CASE CloseChildStreams
  BY <1>1, <1>7 DEF CloseChildStreams, CloseIfNotNil, program
<1>8. CASE CloseParentStreams
  BY <1>1, <1>8 DEF CloseParentStreams, CloseIfNotNil, CloseIfOpen, program
<1>9. CASE TerminateStdin
  BY <1>1, <1>9 DEF TerminateStdin, CloseIfNotNil, program
<1>10. CASE Reap
  BY <1>1, <1>10 DEF Reap, program
<1>11. ASSUME NEW s \in Outputs, RelayEnds(s) \/ RelayFull(s) PROVE TypeOK'
  BY <1>11 DEF RelayEnds, RelayFull, program
<1>12. CASE (\E s \in Streams : ProgramCloses(s)) \/ ProgramEnds \/ DescendantsEnd
  BY <1>12 DEF ProgramCloses, ProgramEnds, DescendantsEnd
<1>13. CASE UNCHANGED vars
  BY <1>13 DEF vars, program
<1> QED
  BY <1>2, <1>3, <1>4, <1>5, <1>6, <1>7, <1>8, <1>9, <1>10, <1>11, <1>12, <1>13
  DEF Next, Handler

\* No step leaves IInv, one action at a time.
LEMMA InvStep == ASSUME IInv, [Next]_vars PROVE IInv'
<1> USE DEF IInv
<1>1. TypeOK'
  BY TypeStep
<1>2. SUFFICES Descriptors' /\ Relaying' /\ ClosedOnce' /\ NothingLost'
  BY <1>1
<1> USE DEF Descriptors, Relaying, ClosedOnce, NothingLost, Holds, Made, Streams,
           Outputs, Ends, ParentEnds, ChildEnds, Open, Closed, TypeOK
<1>3. CASE Start
  BY <1>3 DEF Start, program
<1>4. CASE OpenStream
  BY <1>4 DEF OpenStream, program
<1>5. CASE SetupFails
  BY <1>5 DEF SetupFails, CloseIfNotNil, CloseIfOpen, program
<1>6. CASE ExecOk
  BY <1>6 DEF ExecOk
<1>7. CASE ExecFails
  BY <1>7 DEF ExecFails, program
<1>8. CASE CloseChildStreams
  BY <1>8 DEF CloseChildStreams, CloseIfNotNil, program
<1>9. CASE CloseParentStreams
  BY <1>9 DEF CloseParentStreams, CloseIfNotNil, CloseIfOpen, program
<1>10. CASE TerminateStdin
  BY <1>10 DEF TerminateStdin, CloseIfNotNil, program
<1>11. CASE Reap
  BY <1>11 DEF Reap, program
<1>12. ASSUME NEW s \in Outputs, RelayEnds(s) \/ RelayFull(s)
       PROVE  Descriptors' /\ Relaying' /\ ClosedOnce' /\ NothingLost'
  BY <1>12 DEF RelayEnds, RelayFull, program
<1>13. CASE (\E s \in Streams : ProgramCloses(s)) \/ ProgramEnds \/ DescendantsEnd
  BY <1>13 DEF ProgramCloses, ProgramEnds, DescendantsEnd
<1>14. CASE UNCHANGED vars
  BY <1>14 DEF vars, program
<1> QED
  BY <1>3, <1>4, <1>5, <1>6, <1>7, <1>8, <1>9, <1>10, <1>11, <1>12, <1>13, <1>14
  DEF Next, Handler

LEMMA Invariance == Spec => []IInv
<1>1. ASSUME Init PROVE IInv
  <2>1. starts \in 0..MaxStarts
    BY <1>1, MaxStartsAssumption DEF Init
  <2>2. fd \in [Ends -> {"none", "open", "closed"}] /\ Open(Ends) = {}
    BY <1>1 DEF Init, Open
  <2>3. TypeOK
    BY <1>1, <2>1, <2>2 DEF Init, TypeOK
  <2> QED
    BY <1>1, <2>2, <2>3 DEF Init, IInv, Descriptors, Relaying, ClosedOnce,
       NothingLost, Streams, Outputs
<1>2. IInv /\ [Next]_vars => IInv'
  BY InvStep
<1> QED
  BY <1>1, <1>2, PTL DEF Spec

-----------------------------------------------------------------------------

\* Every variable keeps its type, whichever of its calls fail.
THEOREM TypeCorrect == Spec => []TypeOK
<1>1. IInv => TypeOK
  BY DEF IInv
<1> QED
  BY <1>1, Invariance, PTL

\* Between two uses the tester holds no descriptor, but for the child's ends of
\* pipes whose SetupStreams has failed half-way: every path through Start and
\* Wait gives back what it has opened (stdio_handler.go:53-72, 138-161).
THEOREM DescriptorsReturned == Spec => []NothingLost
<1>1. IInv => NothingLost
  BY DEF IInv
<1> QED
  BY <1>1, Invariance, PTL

\* closeIfNotNil, which does not tolerate a second close, never meets one
\* (stdio_handler.go:181-182).
THEOREM NoDoubleClose == Spec => []ClosedOnce
<1>1. IInv => ClosedOnce
  BY DEF IInv
<1> QED
  BY <1>1, Invariance, PTL

\* A relay's end of its stream stays open until the relay has seen the end of it:
\* neither TerminateStdin nor cmd.Wait closes it too early
\* (executable.go:345-348).
THEOREM RelaysUndisturbed == Spec => []RelaysReadOpenEnds
<1>1. ASSUME IInv, NEW s \in relays PROVE fd[<<s, "parent">>] = "open"
  <2>1. s \in Outputs /\ pc \in {"running", "waiting"}
    BY <1>1 DEF IInv, TypeOK, Relaying
  <2>2. <<s, "parent">> \in ParentEnds \ {<<"stdin", "parent">>}
    BY <2>1 DEF ParentEnds, Streams, Outputs
  <2>3. <<s, "parent">> \in Ends
    BY <2>1 DEF Ends, Streams
  <2> QED
    BY <1>1, <2>1, <2>2, <2>3 DEF IInv, Descriptors, Holds
<1>2. IInv => RelaysReadOpenEnds
  BY <1>1 DEF RelaysReadOpenEnds
<1> QED
  BY <1>2, Invariance, PTL

=============================================================================
