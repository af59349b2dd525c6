---------------------------- MODULE StdioHandler ----------------------------
(***************************************************************************)
(* executable.stdioHandler, as Start and Wait use it: which descriptors of *)
(* the three pipes, or of the three PTY pairs, the tester holds, who       *)
(* closes them, and when the program and the relays see the end of a       *)
(* stream. Executable takes for granted what is shown here: that a stream  *)
(* ends when the program and its descendants have closed it.               *)
(*                                                                         *)
(* os/exec is external: it makes the pipes, and closes the child's ends    *)
(* when it has tried to start the program and the parent's ends when that  *)
(* has failed or when the program has been waited for.                     *)
(***************************************************************************)
EXTENDS Naturals

CONSTANT MaxStarts  \* bound: calls of Start

ASSUME MaxStartsAssumption == MaxStarts \in Nat

Outputs == {"stdout", "stderr"}
Streams == {"stdin"} \cup Outputs

\* The end of a stream the tester works with (of a PTY, the master) and the one
\* that is for the program (the slave).
Ends == Streams \X {"parent", "child"}
ParentEnds == Streams \X {"parent"}
ChildEnds == Streams \X {"child"}

VARIABLES
  pty,     \* ShouldUsePty: ptyStdioHandler, else pipeStdioHandler
  pc,      \* where Start and Wait are; the stream that SetupStreams makes next
  fd,      \* fd[e]: the tester's descriptor of e: "none", "open", "closed"
  err,     \* a closer has returned an error
  ok,      \* cmd.Start has succeeded
  alive,   \* the program runs
  dup,     \* the streams the program or a descendant holds its end of
  eot,     \* the end-of-file character has been written to the stdin PTY
  relays,  \* the streams whose relay has not sent on readDone yet
  starts   \* how often Start has been called

program == <<alive, dup>>
vars == <<pty, pc, fd, err, ok, program, eot, relays, starts>>

Open(ends) == {e \in ends : fd[e] = "open"}

\* The descriptors after closing ends. A closed one stays closed.
Closed(ends) == [e \in Ends |-> IF e \in Open(ends) THEN "closed" ELSE fd[e]]

\* closeAllWithCloserFunc with closeIfOpen, which tolerates a descriptor that is
\* closed already, and with closeIfNotNil, which tolerates one never opened.
CloseIfOpen(ends) == fd' = Closed(ends) /\ UNCHANGED err

CloseIfNotNil(ends) ==
  /\ fd' = Closed(ends)
  /\ err' = (err \/ \E e \in ends : fd[e] = "closed")

Init ==
  /\ pty \in BOOLEAN /\ pc = "idle"
  /\ fd = [e \in Ends |-> "none"] /\ err = FALSE /\ ok = FALSE
  /\ alive = FALSE /\ dup = {} /\ eot = FALSE /\ relays = {}
  /\ starts = 0

-----------------------------------------------------------------------------
(***************************************************************************)
(* Start.                                                                  *)
(***************************************************************************)

\* initializeStdioHandler: a new handler. Whatever is open in the old one is
\* left to the garbage collector.
Start ==
  /\ pc = "idle" /\ starts < MaxStarts
  /\ pty' \in BOOLEAN
  /\ pc' = "stdin"
  /\ fd' = [e \in Ends |-> "none"] /\ ok' = FALSE /\ eot' = FALSE /\ relays' = {}
  /\ starts' = starts + 1
  /\ UNCHANGED <<err, program>>

\* SetupStreams, openAll: the pipes or PTYs are made one after the other.
OpenStream ==
  /\ pc \in Streams
  /\ fd' = [e \in Ends |-> IF e[1] = pc THEN "open" ELSE fd[e]]
  /\ pc' = CASE pc = "stdin" -> "stdout" [] pc = "stdout" -> "stderr"
             [] OTHER -> "exec"
  /\ UNCHANGED <<pty, err, ok, program, eot, relays, starts>>

\* Mutant: the cleanup for a missing third pipe forgets the second.
SetupFailsForgetful ==
  /\ pc \in Streams
  /\ IF pty THEN CloseIfNotNil(Ends) ELSE CloseIfOpen({<<"stdin", "parent">>})
  /\ pc' = "idle"
  /\ UNCHANGED <<pty, ok, program, eot, relays, starts>>

\* One cannot be made. A ptyStdioHandler closes all it has opened (closeAll), a
\* pipeStdioHandler the parent's ends: the child's are in cmd's keeping, which
\* is never started.
SetupFails ==
  /\ pc \in Streams
  /\ IF pty THEN CloseIfNotNil(Ends) ELSE CloseIfOpen(ParentEnds)
  /\ pc' = "idle"
  /\ UNCHANGED <<pty, ok, program, eot, relays, starts>>

\* cmd.Start: the program has copies of the child's ends. os/exec closes the
\* tester's if they are its own, that is those of pipes.
ExecOk ==
  /\ pc = "exec"
  /\ pc' = "closechild"
  /\ ok' = TRUE /\ alive' = TRUE /\ dup' = Streams
  /\ fd' = IF pty THEN fd ELSE Closed(ChildEnds)
  /\ UNCHANGED <<pty, err, eot, relays, starts>>

\* cmd.Start fails: os/exec closes all its own.
ExecFails ==
  /\ pc = "exec"
  /\ pc' = "closechild"
  /\ fd' = IF pty THEN fd ELSE Closed(Ends)
  /\ UNCHANGED <<pty, err, ok, program, eot, relays, starts>>

\* CloseChildStreams, whether cmd.Start has succeeded or not: the slaves are
\* closed, for pipes there is nothing to do. Then Start returns, with two
\* relays running (setupIORelay), or goes on to close the parent's ends.
CloseChildStreams ==
  /\ pc = "closechild"
  /\ IF pty THEN CloseIfNotNil(ChildEnds) ELSE UNCHANGED <<fd, err>>
  /\ IF ok THEN pc' = "running" /\ relays' = Outputs
           ELSE pc' = "closeparent" /\ UNCHANGED relays
  /\ UNCHANGED <<pty, ok, program, eot, starts>>

\* Mutant: all ends are closed.
CloseParentStreamsAll ==
  /\ pc = "closeparent"
  /\ IF pty THEN CloseIfNotNil(Ends) ELSE CloseIfOpen(ParentEnds)
  /\ pc' = "idle"
  /\ UNCHANGED <<pty, ok, program, eot, relays, starts>>

\* CloseParentStreams, of a failed Start or at the end of Wait.
CloseParentStreams ==
  /\ pc = "closeparent"
  /\ IF pty THEN CloseIfNotNil(ParentEnds) ELSE CloseIfOpen(ParentEnds)
  /\ pc' = "idle"
  /\ UNCHANGED <<pty, ok, program, eot, relays, starts>>

-----------------------------------------------------------------------------
(***************************************************************************)
(* Wait, the relays and the program.                                       *)
(***************************************************************************)

\* Mutant: the terminal's stdin is not terminated.
TerminateStdinPipesOnly ==
  /\ pc = "running"
  /\ pc' = "waiting"
  /\ IF pty THEN UNCHANGED <<fd, err>> ELSE CloseIfNotNil({<<"stdin", "parent">>})
  /\ UNCHANGED <<pty, ok, program, eot, relays, starts>>

\* TerminateStdin: the pipe is closed; to a terminal, which stays open, a newline
\* and the end-of-file character are written.
TerminateStdin ==
  /\ pc = "running"
  /\ pc' = "waiting"
  /\ IF pty THEN eot' = TRUE /\ UNCHANGED <<fd, err>>
            ELSE CloseIfNotNil({<<"stdin", "parent">>}) /\ UNCHANGED eot
  /\ UNCHANGED <<pty, ok, program, relays, starts>>

\* A relay reads the end of its stream: nobody holds the other end any more, not
\* the tester itself either.
RelayEnds(s) ==
  /\ s \in relays \ dup
  /\ fd[<<s, "child">>] # "open"
  /\ relays' = relays \ {s}
  /\ UNCHANGED <<pty, pc, fd, err, ok, program, eot, starts>>

\* A relay has copied maxOutputBytes. What it discards afterwards is left out.
RelayFull(s) ==
  /\ s \in relays
  /\ relays' = relays \ {s}
  /\ UNCHANGED <<pty, pc, fd, err, ok, program, eot, starts>>

\* Mutant: cmd.Wait is called while the relays are reading.
ReapEarly ==
  /\ pc = "waiting" /\ ~alive
  /\ fd' = IF pty THEN fd ELSE Closed(ParentEnds)
  /\ pc' = "closeparent"
  /\ UNCHANGED <<pty, err, ok, program, eot, relays, starts>>

\* cmd.Wait, after the two receives on readDone; it closes the parent's ends of
\* pipes. Wait's deferred function closes those of PTYs.
Reap ==
  /\ pc = "waiting" /\ relays = {} /\ ~alive
  /\ fd' = IF pty THEN fd ELSE Closed(ParentEnds)
  /\ pc' = "closeparent"
  /\ UNCHANGED <<pty, err, ok, program, eot, relays, starts>>

\* The program closes a stream, or ends and leaves some to its descendants, or
\* these end.
ProgramCloses(s) ==
  /\ alive /\ s \in dup
  /\ dup' = dup \ {s}
  /\ UNCHANGED <<pty, pc, fd, err, ok, alive, eot, relays, starts>>

ProgramEnds ==
  /\ alive
  /\ alive' = FALSE /\ dup' \in SUBSET dup
  /\ UNCHANGED <<pty, pc, fd, err, ok, eot, relays, starts>>

DescendantsEnd ==
  /\ ~alive /\ dup # {}
  /\ dup' = {}
  /\ UNCHANGED <<pty, pc, fd, err, ok, alive, eot, relays, starts>>

\* What it reads from its stdin has an end.
StdinEnded == IF pty THEN eot ELSE fd[<<"stdin", "parent">>] = "closed"

\* The steps of Start and Wait, but for those a caller may never ask for.
Handler ==
  \/ OpenStream \/ SetupFails \/ ExecOk \/ ExecFails
  \/ CloseChildStreams \/ CloseParentStreams \/ Reap

Next ==
  \/ Start \/ Handler \/ TerminateStdin
  \/ \E s \in Outputs : RelayEnds(s) \/ RelayFull(s)
  \/ \E s \in Streams : ProgramCloses(s)
  \/ ProgramEnds \/ DescendantsEnd

Spec == Init /\ [][Next]_vars

\* Goroutines are scheduled; the program is one that ends once its input has
\* ended, as a filter does, and its descendants end.
FairSpec ==
  /\ Spec
  /\ WF_vars(Handler)
  /\ \A s \in Outputs : WF_vars(RelayEnds(s))
  /\ WF_vars(StdinEnded /\ ProgramEnds) /\ WF_vars(DescendantsEnd)

-----------------------------------------------------------------------------

\* Every variable has its type.
TypeOK ==
  /\ {pty, err, ok, alive, eot} \subseteq BOOLEAN
  /\ pc \in Streams \cup {"idle", "exec", "closechild", "running", "waiting",
                          "closeparent"}
  /\ fd \in [Ends -> {"none", "open", "closed"}]
  /\ dup \subseteq Streams /\ relays \subseteq Outputs
  /\ starts \in 0..MaxStarts

\* Neither a Start that fails half-way nor a run leaves a descriptor behind, but
\* for the child's ends of the pipes made before one could not be
\* (stdio_handler.go:53-72, 138-161, executable.go:200-214, 326).
NothingLost ==
  pc = "idle" /\ Open(Ends) # {} =>
    /\ ~pty /\ fd[<<"stderr", "parent">>] = "none"
    /\ Open(Ends) \subseteq ChildEnds

\* "PTY are managed by ptyStdioHandler alone ... closeIfOpen() is not needed"
\* (stdio_handler.go:181-182): nothing is closed twice where that is an error,
\* on no path through a failing or succeeding Start and Wait.
ClosedOnce == ~err

\* No relay reads from a descriptor the tester has closed, so none loses what is
\* still in the pipe or the terminal (executable.go:345-348).
RelaysReadOpenEnds == \A s \in relays : fd[<<s, "parent">>] = "open"

\* Wait on a program that reads its input to the end returns, with pipes and with
\* terminals: the program is told that its input has ended and, the tester
\* keeping none of its ends, the relays that its output has.
WaitReturns == pc = "waiting" ~> pc = "idle"

=============================================================================
