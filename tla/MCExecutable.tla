---------------------------- MODULE MCExecutable ----------------------------
(***************************************************************************)
(* Executable for TLC: states that differ only in what is never read again *)
(* are the same.                                                           *)
(***************************************************************************)
EXTENDS Executable

\* Nothing reads exited but ExitNoticed, a SIGTERM but a program that runs, the
\* status once cmd has been reset, the captured cmd outside Kill, or a result but
\* when it is delivered; and a panic is the end of the process.
View ==
  IF NoNilDereference
  THEN <<cmd, handle, torn, ctx, lw, oom, watch, mon, relay, child, ends, open,
         output, starts, call, wpc,
         IF cmd THEN status ELSE "none",
         child = "running" /\ term,
         [c \in Callers |-> call[c] \in {"kill", "killed"} /\ target[c] = starts],
         {<<c, res[c]>> : c \in Judging}>>
  ELSE <<>>

=============================================================================
