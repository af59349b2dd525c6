----------------------------- MODULE ProgramRun -----------------------------
(***************************************************************************)
(* What executable.Executable promises the one goroutine that uses it,     *)
(* whatever pipes, relays, watchers and monitors it is made of: a program  *)
(* is started, prints, ends, and only then is it judged, once. A verdict   *)
(* that carries a result carries all it has printed, up to the limit.      *)
(***************************************************************************)
EXTENDS Naturals

CONSTANTS
  Streams,  \* the output streams
  MaxOut    \* the most that is captured of each

VARIABLES
  phase,      \* "idle", "running", "ended"
  printed,    \* printed[s]: bytes the run has written to s
  overdue,    \* its deadline has passed
  overweight, \* it has been found over its memory limit
  verdict,    \* "none" until it is judged
  delivered   \* delivered[s]: bytes of s the verdict carries

vars == <<phase, printed, overdue, overweight, verdict, delivered>>

Nothing == [s \in Streams |-> 0]

Captured == [s \in Streams |-> IF printed[s] < MaxOut THEN printed[s] ELSE MaxOut]

Init ==
  /\ phase = "idle"
  /\ printed = Nothing
  /\ overdue = FALSE
  /\ overweight = FALSE
  /\ verdict = "none"
  /\ delivered = Nothing

Begin ==
  /\ phase = "idle"
  /\ phase' = "running"
  /\ printed' = Nothing
  /\ overdue' = FALSE
  /\ overweight' = FALSE
  /\ UNCHANGED <<verdict, delivered>>

\* A Start that does not start the program.
BeginFails ==
  /\ phase = "idle"
  /\ overdue' = FALSE
  /\ overweight' = FALSE
  /\ UNCHANGED <<phase, printed, verdict, delivered>>

\* The program prints, or a descendant it has left behind.
Prints(s) ==
  /\ phase # "idle"
  /\ verdict = "none"
  /\ printed' = [printed EXCEPT ![s] = @ + 1]
  /\ UNCHANGED <<phase, overdue, overweight, verdict, delivered>>

Ends ==
  /\ phase = "running"
  /\ phase' = "ended"
  /\ UNCHANGED <<printed, overdue, overweight, verdict, delivered>>

DeadlinePasses ==
  /\ overdue' = TRUE
  /\ UNCHANGED <<phase, printed, overweight, verdict, delivered>>

\* It has been found over its limit, and may have ended since.
Weighed ==
  /\ phase # "idle"
  /\ overweight' = TRUE
  /\ UNCHANGED <<phase, printed, overdue, verdict, delivered>>

\* The verdict: too late, too much memory, or the result, in this order.
Judge(v) ==
  /\ phase = "ended"
  /\ verdict = "none"
  /\ \/ v \in {"timeout", "ctxerr"} /\ overdue /\ delivered' = Nothing
     \/ v = "oom" /\ ~overdue /\ overweight /\ delivered' = Captured
     \/ v = "ok" /\ ~overdue /\ ~overweight /\ delivered' = Captured
  /\ verdict' = v
  /\ UNCHANGED <<phase, printed, overdue, overweight>>

\* The verdict is handed over and the run forgotten.
Deliver ==
  /\ verdict # "none"
  /\ phase' = "idle"
  /\ verdict' = "none"
  /\ delivered' = Nothing
  /\ overdue' = FALSE
  /\ UNCHANGED <<printed, overweight>>

Next ==
  \/ Begin \/ BeginFails \/ Ends \/ DeadlinePasses \/ Weighed \/ Deliver
  \/ \E s \in Streams : Prints(s)
  \/ \E v \in {"timeout", "ctxerr", "oom", "ok"} : Judge(v)

Spec == Init /\ [][Next]_vars

=============================================================================
