----------------------------- MODULE Executable -----------------------------
(***************************************************************************)
(* executable.Executable: one program run at a time, its three concurrent  *)
(* helpers (an I/O relay per output stream, the context watcher of         *)
(* os/exec, the memory monitor) and the callers of Start, Wait, Run,       *)
(* RunWithStdin and Kill. Pipe mode on Linux.                              *)
(*                                                                         *)
(* The program is an environment: it writes, closes its output, forks,     *)
(* exceeds its memory and exits as it likes. Output is counted, not        *)
(* represented: captured, piped and wrote are numbers of bytes.            *)
(***************************************************************************)
EXTENDS Naturals, FiniteSets

CONSTANTS
  Owner,      \* the goroutine that starts the program and waits for it
  Killers,    \* other goroutines, which only call Kill
  MaxOut,     \* maxOutputBytes
  PipeCap,    \* bytes the kernel buffers in a pipe
  MaxWrite,   \* bound: bytes written in one run, to both streams together
  MaxStarts,  \* bound: calls of Start that get past the checks of the path
  Limited,    \* whether MemoryLimitInBytes > 0
  MayFork,    \* whether the program may leave descendants behind
  MayLeave    \* whether these may leave its process group

Callers == {Owner} \cup Killers

Streams == {"stdout", "stderr"}
Files == Streams \cup {"stdin"}

ASSUME OwnerAssumption == Owner \notin Killers
ASSUME BoundsAssumption ==
  /\ MaxOut \in Nat \ {0} /\ PipeCap \in Nat \ {0}
  /\ MaxWrite \in Nat /\ MaxStarts \in Nat
  /\ {Limited, MayFork, MayLeave} \subseteq BOOLEAN

VARIABLES
  \* Fields of the Executable.
  cmd,       \* e.cmd # nil, what isRunning reads
  handle,    \* the other fields Start sets and Wait clears are set
  torn,      \* history: the latest Start fell into another Wait's clearing of them
  exited,    \* atleastOneReadDone, what HasExited reads
  ctx,       \* the deadline: "none", "armed", "expired", "cancelled"
  lw,        \* the two line writers: "none", "live", "ended"
  oom,       \* memoryMonitor.oomKilled
  \* The helper goroutines.
  watch,     \* os/exec's watchCtx: "off", "watching", "killed", "ended"
  mon,       \* the monitor: "off", "poll", "found" (over the limit),
             \* "over" (and flagged, about to be killed), "ended"
  relay,     \* relay[s]: "none", "copy", "send" (on readDone), "drain", "ended"
  \* The program of the latest run.
  child,     \* "none", "running", "zombie", "reaped"
  status,    \* how it ended: by itself ("zero", "nonzero") or by whose signal
  term,      \* a SIGTERM has reached it
  held,      \* the streams it has not closed
  desc,      \* the files its living descendants hold
  strays,    \* those held by descendants that have left its process group
  open,      \* the parent's ends of the pipes are open
  wrote,     \* wrote[s]: bytes written to s
  piped,     \* piped[s]: of those, bytes in the pipe
  captured,  \* captured[s]: of those, bytes in e.stdoutBuffer or e.stderrBuffer
  \* The callers.
  starts,    \* how often Start got past the checks of the path
  call,      \* call[c]: "idle", "start" (of which it died), "stdin", "waiting",
             \* "check" (Kill has found a program), "kill", "killed"
  target,    \* target[c]: the run whose cmd c's Kill captured
  wpc,       \* wpc[c]: where c, or the goroutine of c's Kill, is in Wait
  res        \* res[c]: what c's latest call came to

fields == <<cmd, handle, torn>>
program == <<child, status, term>>
ends == <<held, desc, strays>>
output == <<wrote, piped, captured>>
callers == <<call, target, wpc, res>>
helpers == <<ctx, watch, mon, oom>>
vars == <<cmd, handle, torn, exited, ctx, lw, oom, watch, mon, relay, child, status,
          term, held, desc, strays, open, wrote, piped, captured, starts, call,
          target, wpc, res>>

Min(a, b) == IF a < b THEN a ELSE b

Zero == [s \in Streams |-> 0]

\* readDone is replaced: a Wait that still receives on it is stuck for good.
Stranded ==
  [c \in Callers |-> IF wpc[c] \in {"recv2", "recv1"} THEN "stuck" ELSE wpc[c]]

\* Nobody can write to s any more.
Eof(s) == s \notin desc \cup strays /\ ~(child = "running" /\ s \in held)

Init ==
  /\ cmd = FALSE /\ handle = FALSE /\ torn = FALSE /\ exited = FALSE
  /\ ctx = "none" /\ lw = "none" /\ oom = FALSE
  /\ watch = "off" /\ mon = "off" /\ relay = [s \in Streams |-> "none"]
  /\ child = "none" /\ status = "none" /\ term = FALSE
  /\ held = {} /\ desc = {} /\ strays = {} /\ open = FALSE
  /\ wrote = Zero /\ piped = Zero /\ captured = Zero
  /\ starts = 0
  /\ call = [c \in Callers |-> "idle"] /\ target = [c \in Callers |-> 0]
  /\ wpc = [c \in Callers |-> "none"] /\ res = [c \in Callers |-> "none"]

-----------------------------------------------------------------------------
(***************************************************************************)
(* Start, and Run and RunWithStdin up to their Wait. Start is one action,  *)
(* so a call that falls into it sees it as a whole; but it may itself fall *)
(* into the clearing of the fields by another goroutine's Wait.            *)
(***************************************************************************)

\* Some Wait has found its program gone, reset cmd, and not yet the other fields.
Clearing == \E c \in Callers : wpc[c] = "clear"

\* "process already in progress", or the path is not an executable file: Start
\* returns before it has touched anything.
StartRefused ==
  /\ call[Owner] = "idle"
  /\ UNCHANGED vars

\* What Start sets before it knows whether the program runs.
SetFields ==
  /\ call[Owner] = "idle"
  /\ ~cmd
  /\ starts < MaxStarts
  /\ starts' = starts + 1
  /\ handle' = TRUE
  /\ torn' = Clearing
  /\ ctx' = "armed"
  /\ oom' = FALSE
  /\ exited' = FALSE
  /\ lw' = "live"

\* A pipe, or cmd.Start, fails. The deadline and the line writers stay behind.
StartFails ==
  /\ SetFields
  /\ mon' = "off"
  /\ open' = FALSE
  /\ res' = [res EXCEPT ![Owner] = "starterr"]
  /\ wpc' = Stranded
  /\ UNCHANGED <<cmd, watch, relay, program, ends, output, call, target>>

\* A field that Start has set, stdioHandler or memoryMonitor, is reset under its
\* hands: the goroutine panics and the tester with it. (What the model does after
\* a panic says nothing; no property but NoNilDereference looks at it.)
StartPanics ==
  /\ call[Owner] = "idle"
  /\ ~cmd
  /\ Clearing
  /\ call' = [call EXCEPT ![Owner] = "start"]
  /\ wpc' = [wpc EXCEPT ![Owner] = "panic"]
  /\ UNCHANGED <<fields, exited, helpers, lw, relay, program, ends, open,
                 output, starts, target, res>>

\* The program runs. Start returns to its caller, RunWithStdin goes on to write
\* the input and Run to wait.
StartOk(next) ==
  /\ SetFields
  /\ cmd' = TRUE
  /\ watch' = "watching"
  /\ mon' = IF Limited THEN "poll" ELSE "off"
  /\ relay' = [s \in Streams |-> "copy"]
  /\ child' = "running" /\ status' = "none" /\ term' = FALSE
  /\ held' = Streams /\ desc' = {} /\ strays' = {} /\ open' = TRUE
  /\ wrote' = Zero /\ piped' = Zero /\ captured' = Zero
  /\ call' = [call EXCEPT ![Owner] = next]
  /\ wpc' = [Stranded EXCEPT ![Owner] = IF next = "waiting" THEN "enter" ELSE "none"]
  /\ res' = [res EXCEPT ![Owner] = "none"]
  /\ UNCHANGED <<target>>

\* RunWithStdin's write returns, taken by the pipe or refused because nobody can
\* read it any more (its error is ignored), and RunWithStdin waits.
StdinWritten ==
  /\ call[Owner] = "stdin"
  /\ call' = [call EXCEPT ![Owner] = "waiting"]
  /\ wpc' = [wpc EXCEPT ![Owner] = "enter"]
  /\ UNCHANGED <<fields, exited, helpers, lw, relay, program, ends, open,
                 output, starts, target, res>>

\* Wait is called. It does not ask whether there is a program to wait for.
CallWait ==
  /\ call[Owner] = "idle"
  /\ call' = [call EXCEPT ![Owner] = "waiting"]
  /\ wpc' = [wpc EXCEPT ![Owner] = "enter"]
  /\ UNCHANGED <<fields, exited, helpers, lw, relay, program, ends, open,
                 output, starts, target, res>>

-----------------------------------------------------------------------------
(***************************************************************************)
(* Wait, in its caller or in the goroutine Kill starts.                    *)
(***************************************************************************)

\* Mutant: the line writers are flushed before the relays are done.
WaitEnterFlushing(c) ==
  /\ wpc[c] = "enter"
  /\ handle
  /\ lw' = "ended"
  /\ wpc' = [wpc EXCEPT ![c] = "recv2"]
  /\ UNCHANGED <<fields, exited, helpers, relay, program, ends, open, output,
                 starts, call, target, res>>

\* TerminateStdin through e.stdioHandler.
WaitEnter(c) ==
  /\ wpc[c] = "enter"
  /\ handle
  /\ wpc' = [wpc EXCEPT ![c] = "recv2"]
  /\ UNCHANGED <<fields, exited, helpers, lw, relay, program, ends, open,
                 output, starts, call, target, res>>

\* A field is needed that a Wait has cleared: stdioHandler first, later the line
\* writers, ctxWithTimeout, ctxCancelFunc.
WaitPanics(c) ==
  /\ wpc[c] \in {"enter", "flush", "judge", "cleanup"}
  /\ ~handle
  /\ wpc' = [wpc EXCEPT ![c] = "panic"]
  /\ UNCHANGED <<fields, exited, helpers, lw, relay, program, ends, open,
                 output, starts, call, target, res>>

\* Mutant: Wait receives once, as if there were one relay.
WaitReceiveOnce(c, s) ==
  /\ wpc[c] \in {"recv2", "recv1"}
  /\ relay[s] = "send"
  /\ relay' = [relay EXCEPT ![s] = "drain"]
  /\ wpc' = [wpc EXCEPT ![c] = "reap"]
  /\ UNCHANGED <<fields, exited, helpers, lw, program, ends, open, output,
                 starts, call, target, res>>

\* One of the two receives on readDone, from the relay of s.
WaitReceive(c, s) ==
  /\ wpc[c] \in {"recv2", "recv1"}
  /\ relay[s] = "send"
  /\ relay' = [relay EXCEPT ![s] = "drain"]
  /\ wpc' = [wpc EXCEPT ![c] = IF @ = "recv2" THEN "recv1" ELSE "reap"]
  /\ UNCHANGED <<fields, exited, helpers, lw, program, ends, open, output,
                 starts, call, target, res>>

\* cmd.Wait: the program has ended; it is reaped, the watcher answers and the
\* pipes are closed. When the watcher has signalled a program that had already
\* ended well, cmd.Wait returns the context's error and Wait gives up the result.
WaitReap(c) ==
  /\ wpc[c] = "reap"
  /\ child = "zombie"
  /\ child' = "reaped"
  /\ watch' = "ended"
  /\ open' = FALSE
  /\ IF watch = "killed" /\ status = "zero"
       THEN /\ wpc' = [wpc EXCEPT ![c] = "cleanup"]
            /\ res' = [res EXCEPT ![c] = "ctxerr"]
       ELSE wpc' = [wpc EXCEPT ![c] = "flush"] /\ UNCHANGED res
  /\ UNCHANGED <<fields, exited, ctx, mon, oom, lw, relay, status, term, ends,
                 output, starts, call, target>>

\* Both line writers are flushed, which ends their goroutines.
WaitFlush(c) ==
  /\ wpc[c] = "flush"
  /\ handle
  /\ lw = "live"
  /\ lw' = "ended"
  /\ wpc' = [wpc EXCEPT ![c] = "judge"]
  /\ UNCHANGED <<fields, exited, helpers, relay, program, ends, open, output,
                 starts, call, target, res>>

\* Mutant: the deadline is not judged.
WaitJudgeForgiving(c) ==
  /\ wpc[c] = "judge"
  /\ handle
  /\ wpc' = [wpc EXCEPT ![c] = "cleanup"]
  /\ res' = [res EXCEPT ![c] = IF oom THEN "oom" ELSE "ok"]
  /\ UNCHANGED <<fields, exited, helpers, lw, relay, program, ends, open,
                 output, starts, call, target>>

\* The result is made and judged: the deadline first, then the memory limit.
WaitJudge(c) ==
  /\ wpc[c] = "judge"
  /\ handle
  /\ wpc' = [wpc EXCEPT ![c] = "cleanup"]
  /\ res' = [res EXCEPT ![c] = IF ctx = "expired" THEN "timeout"
                               ELSE IF oom THEN "oom" ELSE "ok"]
  /\ UNCHANGED <<fields, exited, helpers, lw, relay, program, ends, open,
                 output, starts, call, target>>

\* Mutant: stop does not wait for the monitor (no wg.Wait).
WaitCleanupHasty(c) ==
  /\ wpc[c] = "cleanup"
  /\ handle
  /\ mon' = IF mon = "poll" THEN "ended" ELSE mon
  /\ ctx' = "cancelled"
  /\ open' = FALSE
  /\ exited' = FALSE
  /\ cmd' = FALSE
  /\ wpc' = [wpc EXCEPT ![c] = "clear"]
  /\ UNCHANGED <<handle, torn, watch, oom, lw, relay, program, ends, output,
                 starts, call, target, res>>

\* The deferred function, up to the reset of cmd: it stops the monitor, waiting for
\* one that is at its reading or about to kill.
WaitCleanup(c) ==
  /\ wpc[c] = "cleanup"
  /\ handle
  /\ mon \notin {"found", "over"}
  /\ mon' = IF mon = "poll" THEN "ended" ELSE mon
  /\ ctx' = "cancelled"
  /\ open' = FALSE
  /\ exited' = FALSE
  /\ cmd' = FALSE
  /\ wpc' = [wpc EXCEPT ![c] = "clear"]
  /\ UNCHANGED <<handle, torn, watch, oom, lw, relay, program, ends, output,
                 starts, call, target, res>>

\* The rest of it, with no lock: the other fields, whosever they are by now. Of a
\* Start that has fallen in between the code may lose fewer than all.
WaitClear(c) ==
  /\ wpc[c] = "clear"
  /\ handle' = FALSE
  /\ call' = [call EXCEPT ![c] = IF @ = "waiting" THEN "idle" ELSE @]
  /\ wpc' = [Stranded EXCEPT ![c] = IF call[c] = "waiting" THEN "none" ELSE "done"]
  /\ UNCHANGED <<cmd, torn, exited, helpers, lw, relay, program, ends, open,
                 output, starts, target, res>>

-----------------------------------------------------------------------------
(***************************************************************************)
(* Kill.                                                                   *)
(***************************************************************************)

\* Nothing is running: Kill returns nil.
KillNothing(c) ==
  /\ call[c] = "idle"
  /\ ~cmd
  /\ UNCHANGED vars

\* Kill has found a program; what isRunning has read it will read again.
KillCheck(c) ==
  /\ call[c] = "idle"
  /\ cmd
  /\ call' = [call EXCEPT ![c] = "check"]
  /\ UNCHANGED <<fields, exited, helpers, lw, relay, program, ends, open,
                 output, starts, target, wpc, res>>

\* Kill captures cmd and starts its goroutine.
CallKill(c) ==
  /\ call[c] = "check"
  /\ cmd
  /\ call' = [call EXCEPT ![c] = "kill"]
  /\ target' = [target EXCEPT ![c] = starts]
  /\ wpc' = [wpc EXCEPT ![c] = "term"]
  /\ UNCHANGED <<fields, exited, helpers, lw, relay, program, ends, open,
                 output, starts, res>>

\* A Wait has reset cmd in between: Kill captures nil and its goroutine panics.
KillPanics(c) ==
  /\ call[c] = "check"
  /\ ~cmd
  /\ call' = [call EXCEPT ![c] = "kill"]
  /\ wpc' = [wpc EXCEPT ![c] = "panic"]
  /\ UNCHANGED <<fields, exited, helpers, lw, relay, program, ends, open,
                 output, starts, target, res>>

\* The goroutine sends SIGTERM to the program and its group and calls Wait.
KillTerm(c) ==
  /\ wpc[c] = "term"
  /\ wpc' = [wpc EXCEPT ![c] = "enter"]
  /\ term' = (term \/ (child = "running" /\ target[c] = starts))
  /\ UNCHANGED <<fields, exited, helpers, lw, relay, child, status, ends, open,
                 output, starts, call, target, res>>

\* by sends SIGKILL to the program and its group. A program that has ended
\* already keeps its status. Descendants that have left the group get no signal.
KillGroup(by) ==
  /\ IF child = "running" THEN child' = "zombie" /\ status' = by
                          ELSE UNCHANGED <<child, status>>
  /\ desc' = {}
  /\ UNCHANGED strays

\* Mutant: SIGKILL to the program only, not to its group.
KillTimeoutAlone(c) ==
  /\ call[c] = "kill"
  /\ call' = [call EXCEPT ![c] = "killed"]
  /\ IF child = "running" THEN child' = "zombie" /\ status' = "kill"
                          ELSE UNCHANGED <<child, status>>
  /\ UNCHANGED <<fields, exited, helpers, lw, relay, term, ends, open, output,
                 starts, target, wpc, res>>

\* Two seconds have passed: SIGKILL.
KillTimeout(c) ==
  /\ call[c] = "kill"
  /\ call' = [call EXCEPT ![c] = "killed"]
  /\ IF target[c] = starts THEN KillGroup("kill")
                           ELSE UNCHANGED <<child, status, desc, strays>>
  /\ UNCHANGED <<fields, exited, helpers, lw, relay, term, held, open, output,
                 starts, target, wpc, res>>

\* Mutant: after its SIGKILL Kill does not wait for the goroutine.
KillReturnHasty(c) ==
  /\ call[c] = "killed" \/ (call[c] = "kill" /\ wpc[c] = "done")
  /\ call' = [call EXCEPT ![c] = "idle"]
  /\ wpc' = [wpc EXCEPT ![c] = "none"]
  /\ res' = [res EXCEPT ![c] = IF call[c] = "killed" THEN "sigterm" ELSE @]
  /\ UNCHANGED <<fields, exited, helpers, lw, relay, program, ends, open,
                 output, starts, target>>

\* Wait has returned in the goroutine. Kill returns its error, or after the
\* timeout its own.
KillReturn(c) ==
  /\ call[c] \in {"kill", "killed"}
  /\ wpc[c] = "done"
  /\ call' = [call EXCEPT ![c] = "idle"]
  /\ wpc' = [wpc EXCEPT ![c] = "none"]
  /\ res' = [res EXCEPT ![c] = IF call[c] = "killed" THEN "sigterm" ELSE @]
  /\ UNCHANGED <<fields, exited, helpers, lw, relay, program, ends, open,
                 output, starts, target>>

-----------------------------------------------------------------------------
(***************************************************************************)
(* The deadline, the relays and the memory monitor.                        *)
(***************************************************************************)

Expire ==
  /\ ctx = "armed"
  /\ ctx' = "expired"
  /\ UNCHANGED <<fields, exited, watch, mon, oom, lw, relay, program, ends,
                 open, output, starts, callers>>

\* watchCtx kills the program, not its group. The signal also succeeds on a
\* program that has ended and is not reaped.
WatchKill ==
  /\ watch = "watching"
  /\ ctx = "expired"
  /\ watch' = "killed"
  /\ IF child = "running" THEN child' = "zombie" /\ status' = "watch"
                          ELSE UNCHANGED <<child, status>>
  /\ UNCHANGED <<fields, exited, ctx, mon, oom, lw, relay, term, ends, open,
                 output, starts, callers>>

\* Mutant: no LimitReader.
RelayCopyUnlimited(s) ==
  /\ relay[s] = "copy"
  /\ lw = "live"
  /\ piped[s] > 0
  /\ piped' = [piped EXCEPT ![s] = @ - 1]
  /\ captured' = [captured EXCEPT ![s] = @ + 1]
  /\ UNCHANGED <<fields, exited, helpers, lw, relay, program, ends, open, wrote,
                 starts, callers>>

\* The relay of s copies a byte to the buffer and the line writer.
RelayCopy(s) ==
  /\ relay[s] = "copy"
  /\ lw = "live"
  /\ piped[s] > 0 /\ captured[s] < MaxOut
  /\ piped' = [piped EXCEPT ![s] = @ - 1]
  /\ captured' = [captured EXCEPT ![s] = @ + 1]
  /\ UNCHANGED <<fields, exited, helpers, lw, relay, program, ends, open, wrote,
                 starts, callers>>

\* Mutants: the relay forgets readDone; it forgets atleastOneReadDone.
RelayEndSilent(s) ==
  /\ relay[s] = "copy"
  /\ captured[s] = MaxOut \/ (piped[s] = 0 /\ Eof(s))
  /\ relay' = [relay EXCEPT ![s] = "drain"]
  /\ exited' = TRUE
  /\ UNCHANGED <<fields, helpers, lw, program, ends, open, output, starts,
                 callers>>

RelayEndUnnoticed(s) ==
  /\ relay[s] = "copy"
  /\ captured[s] = MaxOut \/ (piped[s] = 0 /\ Eof(s))
  /\ relay' = [relay EXCEPT ![s] = "send"]
  /\ UNCHANGED <<fields, exited, helpers, lw, program, ends, open, output,
                 starts, callers>>

\* It has copied the limit or reached the end of the stream; it says so to
\* HasExited and then blocks on readDone.
RelayEnd(s) ==
  /\ relay[s] = "copy"
  /\ captured[s] = MaxOut \/ (piped[s] = 0 /\ Eof(s))
  /\ relay' = [relay EXCEPT ![s] = "send"]
  /\ exited' = TRUE
  /\ UNCHANGED <<fields, helpers, lw, program, ends, open, output, starts,
                 callers>>

\* What is left over is read and dropped, but only once a Wait has received.
RelayDrain(s) ==
  /\ relay[s] = "drain"
  /\ open
  /\ piped[s] > 0
  /\ piped' = [piped EXCEPT ![s] = @ - 1]
  /\ UNCHANGED <<fields, exited, helpers, lw, relay, program, ends, open, wrote,
                 captured, starts, callers>>

RelayExit(s) ==
  /\ relay[s] = "drain"
  /\ ~open \/ (piped[s] = 0 /\ Eof(s))
  /\ relay' = [relay EXCEPT ![s] = "ended"]
  /\ UNCHANGED <<fields, exited, helpers, lw, program, ends, open, output,
                 starts, callers>>

\* A tick finds the process tree over the limit. Whether the program outlives the
\* reading does not matter to what follows.
MonitorFound ==
  /\ mon = "poll"
  /\ child = "running"
  /\ mon' = "found"
  /\ UNCHANGED <<fields, exited, ctx, watch, oom, lw, relay, program, ends,
                 open, output, starts, callers>>

\* Mutant: oomKilled is not stored before the kill.
MonitorOverUnflagged ==
  /\ mon = "found"
  /\ oom' = oom
  /\ mon' = "over"
  /\ UNCHANGED <<fields, exited, ctx, watch, lw, relay, program, ends, open,
                 output, starts, callers>>

\* First the flag.
MonitorOver ==
  /\ mon = "found"
  /\ oom' = TRUE
  /\ mon' = "over"
  /\ UNCHANGED <<fields, exited, ctx, watch, lw, relay, program, ends, open,
                 output, starts, callers>>

\* Then the signal, whatever has become of the program since.
MonitorKill ==
  /\ mon = "over"
  /\ mon' = "ended"
  /\ KillGroup("oom")
  /\ UNCHANGED <<fields, exited, ctx, watch, oom, lw, relay, term, held, open,
                 output, starts, callers>>

\* getProcessTreeRSS finds /proc/<pid>. A zombie still has an entry, of size 0
\* and without children, so only a running program is ever found too large.
InProc == child \in {"running", "zombie"}

\* A tick finds no such process.
MonitorGone ==
  /\ mon = "poll"
  /\ ~InProc
  /\ mon' = "ended"
  /\ UNCHANGED <<fields, exited, ctx, watch, oom, lw, relay, program, ends,
                 open, output, starts, callers>>

-----------------------------------------------------------------------------
(***************************************************************************)
(* The program and its descendants.                                        *)
(***************************************************************************)

ProgramWrites(s) ==
  /\ ~Eof(s)
  /\ open
  /\ piped[s] < PipeCap
  /\ wrote["stdout"] + wrote["stderr"] < MaxWrite
  /\ wrote' = [wrote EXCEPT ![s] = @ + 1]
  /\ piped' = [piped EXCEPT ![s] = @ + 1]
  /\ UNCHANGED <<fields, exited, helpers, lw, relay, program, ends, open,
                 captured, starts, callers>>

ProgramCloses(s) ==
  /\ child = "running"
  /\ s \in held
  /\ held' = held \ {s}
  /\ UNCHANGED <<fields, exited, helpers, lw, relay, program, desc, strays,
                 open, output, starts, callers>>

\* It ends by itself, or of the SIGTERM it has got.
ProgramExits(st) ==
  /\ child = "running"
  /\ st = "term" => term
  /\ child' = "zombie"
  /\ status' = st
  /\ UNCHANGED <<fields, exited, helpers, lw, relay, term, ends, open, output,
                 starts, callers>>

ProgramForks ==
  /\ MayFork
  /\ child = "running"
  /\ ~(held \cup {"stdin"} \subseteq desc)
  /\ desc' = desc \cup held \cup {"stdin"}
  /\ UNCHANGED <<fields, exited, helpers, lw, relay, program, held, strays,
                 open, output, starts, callers>>

\* The descendants leave for a process group or session of their own.
DescendantsLeave ==
  /\ MayLeave
  /\ desc # {}
  /\ desc' = {}
  /\ strays' = strays \cup desc
  /\ UNCHANGED <<fields, exited, helpers, lw, relay, program, held, open,
                 output, starts, callers>>

DescendantsExit ==
  /\ desc # {}
  /\ desc' = {}
  /\ UNCHANGED <<fields, exited, helpers, lw, relay, program, held, strays,
                 open, output, starts, callers>>

StraysExit ==
  /\ strays # {}
  /\ strays' = {}
  /\ UNCHANGED <<fields, exited, helpers, lw, relay, program, held, desc, open,
                 output, starts, callers>>

Program ==
  \/ \E s \in Streams : ProgramWrites(s) \/ ProgramCloses(s)
  \/ \E st \in {"zero", "nonzero", "term"} : ProgramExits(st)
  \/ ProgramForks
  \/ DescendantsLeave \/ DescendantsExit \/ StraysExit

Starting ==
  \/ StartRefused
  \/ StartFails
  \/ StartPanics
  \/ \E next \in {"idle", "stdin", "waiting"} : StartOk(next)
  \/ StdinWritten

Waiting ==
  \/ CallWait
  \/ \E c \in Callers :
       \/ WaitEnter(c) \/ (\E s \in Streams : WaitReceive(c, s)) \/ WaitReap(c)
       \/ WaitFlush(c) \/ WaitJudge(c) \/ WaitCleanup(c) \/ WaitClear(c)
       \/ WaitPanics(c)

Killing ==
  \E c \in Callers :
    \/ KillNothing(c) \/ KillCheck(c) \/ CallKill(c) \/ KillPanics(c)
    \/ KillTerm(c) \/ KillTimeout(c) \/ KillReturn(c)

Helper ==
  \/ Expire \/ WatchKill
  \/ \E s \in Streams :
       RelayCopy(s) \/ RelayEnd(s) \/ RelayDrain(s) \/ RelayExit(s)
  \/ MonitorFound \/ MonitorOver \/ MonitorKill \/ MonitorGone

Next == Starting \/ Waiting \/ Killing \/ Helper \/ Program

Spec == Init /\ [][Next]_vars

\* The steps of a caller that is inside a call.
CallStep(c) ==
  \/ WaitEnter(c) \/ (\E s \in Streams : WaitReceive(c, s)) \/ WaitReap(c)
  \/ WaitFlush(c) \/ WaitJudge(c) \/ WaitCleanup(c) \/ WaitClear(c) \/ WaitPanics(c)
  \/ CallKill(c) \/ KillPanics(c) \/ KillTerm(c) \/ KillReturn(c)

RelayStep(s) == RelayCopy(s) \/ RelayEnd(s) \/ RelayDrain(s) \/ RelayExit(s)

\* Goroutines are scheduled and timers fire. What the program does, what it
\* weighs and when callers call is theirs; a write to its input is only certain
\* to return when nobody is left to read it.
Fairness ==
  /\ \A c \in Callers : WF_vars(CallStep(c)) /\ WF_vars(KillTimeout(c))
  /\ \A s \in Streams : WF_vars(RelayStep(s))
  /\ WF_vars(Expire \/ WatchKill)
  /\ WF_vars(MonitorOver \/ MonitorKill)
  /\ WF_vars(child # "running" /\ "stdin" \notin desc \cup strays /\ StdinWritten)

FairSpec == Spec /\ Fairness

-----------------------------------------------------------------------------

\* Every variable has its type.
TypeOK ==
  /\ {cmd, handle, torn, exited, oom, term, open} \subseteq BOOLEAN
  /\ ctx \in {"none", "armed", "expired", "cancelled"}
  /\ lw \in {"none", "live", "ended"}
  /\ watch \in {"off", "watching", "killed", "ended"}
  /\ mon \in {"off", "poll", "found", "over", "ended"}
  /\ relay \in [Streams -> {"none", "copy", "send", "drain", "ended"}]
  /\ child \in {"none", "running", "zombie", "reaped"}
  /\ status \in {"none", "zero", "nonzero", "term", "watch", "oom", "kill"}
  /\ held \subseteq Streams /\ desc \subseteq Files /\ strays \subseteq Files
  /\ wrote \in [Streams -> 0..MaxWrite]
  /\ piped \in [Streams -> 0..PipeCap]
  /\ captured \in [Streams -> 0..MaxOut]
  /\ starts \in 0..MaxStarts
  /\ call \in [Callers -> {"idle", "start", "stdin", "waiting", "check",
                           "kill", "killed"}]
  /\ target \in [Callers -> 0..MaxStarts]
  /\ wpc \in [Callers -> {"none", "term", "enter", "recv2", "recv1", "reap",
                          "flush", "judge", "cleanup", "clear", "done", "stuck",
                          "panic"}]
  /\ res \in [Callers -> {"none", "ok", "timeout", "oom", "ctxerr", "starterr",
                          "sigterm"}]

\* A Wait of c has made up its mind and is about to return res[c].
Delivers(c, outcomes) == wpc[c] = "cleanup" /\ res[c] \in outcomes

\* A result carries, of each stream, all that was ever written to it, up to
\* maxOutputBytes: Wait does not go on before both relays have seen the end,
\* although the program may be dead long before (executable.go:343-378).
CaptureComplete ==
  \A c \in Callers : Delivers(c, {"ok", "oom"}) =>
    \A s \in Streams : captured[s] = Min(wrote[s], MaxOut)

\* A program the watcher or the monitor has killed is never reported as one that
\* ended by itself, although the flag, the deadline and the death are seen by
\* different goroutines (executable.go:380-389, memory_limit_linux.go:75-78);
\* and a Wait that gives up the result does so only for a program that ended
\* well at the very deadline.
HonestVerdict ==
  \A c \in Callers :
    /\ Delivers(c, {"ok"}) => child = "reaped" /\ status \notin {"watch", "oom"}
    /\ Delivers(c, {"timeout", "ctxerr"}) => ctx = "expired"
    /\ Delivers(c, {"ctxerr"}) => status = "zero"

\* When Wait has reset cmd nothing of the run is left, although other goroutines may
\* Start and Kill before it has reset the rest: the program is reaped, its pipes are
\* closed, and the watcher, the monitor and the relays have ended or have nothing
\* left to wait for. Once it has, the deadline is cancelled too, unless the fields it
\* cleared were those of a Start that came between (executable.go:322-341).
NothingLeft ==
  ~cmd =>
    /\ child \in {"none", "reaped"} /\ ~open
    /\ watch \in {"off", "ended"} /\ mon \in {"off", "ended"}
    /\ \A s \in Streams : relay[s] \in {"none", "drain", "ended"}
    /\ ~handle /\ ~torn => ctx \in {"none", "cancelled"}

\* However many goroutines Wait, in Kill or on their own, only one of them gets
\* past readDone to reap the program and judge it, and it finds the fields of
\* the run in place until it clears them itself, unless the Start of that program
\* has itself fallen into an earlier Wait's clearing (executable.go:329-389).
OneJudge ==
  \A c \in Callers : wpc[c] \in {"reap", "flush", "judge", "cleanup"} =>
    /\ cmd /\ (handle \/ torn)
    /\ \A d \in Callers \ {c} : wpc[d] \notin {"reap", "flush", "judge", "cleanup"}

\* A relay that may still hand bytes to its line writer finds it alive: after
\* its Flush a LineWriter takes no byte and the relay would block for good.
LineWriterListens == \A s \in Streams : relay[s] = "copy" => lw = "live"

\* Kill takes care "to avoid a race with Wait()'s deferred cleanup"
\* (executable.go:398-399), so no call meets fields that have been cleared.
NoNilDereference == \A c \in Callers : wpc[c] # "panic"

\* The relay of s has a message for readDone yet to be received.
Coming(s) == relay[s] \in {"copy", "send"}

\* There is a message to come for every receive that a Wait has still to do, and a
\* program to be reaped once it has done them (executable.go:345-348).
NeverStranded ==
  \A c \in Callers :
    /\ wpc[c] = "recv2" => \A s \in Streams : Coming(s)
    /\ wpc[c] = "recv1" => \E s \in Streams : Coming(s)
    /\ wpc[c] = "reap" => child \in {"running", "zombie"}
    /\ wpc[c] # "stuck"

\* Kill returns, be it that the program ignores SIGTERM and has descendants that
\* hold its output: "Wait for Wait() to return" (executable.go:420). Only those
\* out of reach of kill(-pid) may keep it, for as long as they live.
KillReturns ==
  []<>(strays \cap Streams = {}) =>
    \A c \in Callers : call[c] = "kill" ~> (call[c] = "idle" \/ ~NoNilDereference)

\* Run and RunWithStdin, and a Wait for a program, return, with one that never
\* exits, never reads and never closes its output, unless descendants keep that
\* open for good.
RunReturns ==
  []<>(desc \cup strays = {}) =>
    (call[Owner] \in {"stdin", "waiting"} /\ cmd ~> call[Owner] = "idle")

\* A program that has ended, and whose output no descendant holds, is noticed by
\* whoever polls HasExited, without a Wait.
ExitNoticed ==
  child = "zombie" /\ (desc \cup strays) \cap Streams = {} ~> (exited \/ ~cmd)

\* However many goroutines use it, an Executable does what ProgramRun promises:
\* the verdict is that of the one caller who judges the run.
Judging == {c \in Callers : wpc[c] = "cleanup"}
Verdict == IF Judging = {} THEN "none" ELSE res[CHOOSE c \in Judging : TRUE]

Run == INSTANCE ProgramRun WITH
  phase <- IF ~cmd THEN "idle" ELSE IF child = "running" THEN "running" ELSE "ended",
  printed <- wrote,
  overdue <- (ctx = "expired"),
  overweight <- oom,
  verdict <- Verdict,
  delivered <- IF Verdict \in {"ok", "oom"} THEN captured ELSE Zero

ImplementsProgramRun == Run!Spec

=============================================================================
