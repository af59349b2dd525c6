-------------------------- MODULE ExecutableProofs --------------------------
(***************************************************************************)
(* Proofs about Executable, for every size of the buffers and the pipes,   *)
(* any number of runs and, unless a theorem says otherwise, any number of  *)
(* goroutines that call Kill while the owner waits.                        *)
(***************************************************************************)
EXTENDS Executable, TLAPS

\* The relay of s has handed in its readDone.
Received(s) == relay[s] \in {"drain", "ended"}

\* c has received from both relays; it has also reaped the program.
Past(c) == wpc[c] \in {"reap", "flush", "judge", "cleanup"}
Reaped(c) == wpc[c] \in {"flush", "judge", "cleanup"}

\* The two messages on readDone go to one Wait, or to two that both hang: who
\* has them both is alone.
Receipts ==
  /\ \A c \in Callers : Past(c) =>
       /\ cmd
       /\ \A s \in Streams : Received(s)
       /\ \A d \in Callers \ {c} : ~Past(d) /\ wpc[d] # "recv1"
  /\ \A c \in Callers : wpc[c] = "recv1" => cmd /\ \E s \in Streams : Received(s)
  /\ \A c, d \in Callers : c # d /\ wpc[c] = "recv1" /\ wpc[d] = "recv1" =>
       \A s \in Streams : Received(s)

\* Without a program nothing is left of one, and only Start's fields remain. A Wait
\* that clears them has no other run's before it, unless a Start has come between.
Idle ==
  /\ ~cmd => /\ child \in {"none", "reaped"} /\ ~open
             /\ watch \in {"off", "ended"} /\ mon \in {"off", "ended"}
             /\ \A s \in Streams : relay[s] = "none" \/ Received(s)
  /\ ~handle => torn \/ (~cmd /\ ctx \in {"none", "cancelled"})
  /\ Clearing => torn \/ (~cmd /\ ctx = "cancelled")
  /\ \A c \in Callers : Reaped(c) => child = "reaped" /\ watch = "ended" /\ ~open

\* Who kills leaves its reason behind first.
Reasons ==
  /\ cmd /\ (status = "watch" \/ watch = "killed") => ctx = "expired"
  /\ cmd /\ status = "oom" => oom
  /\ mon = "over" => oom

\* What of the output is where.
Accounts ==
  \A s \in Streams :
    /\ relay[s] = "copy" => captured[s] + piped[s] = wrote[s]
    /\ cmd /\ relay[s] # "copy" =>
         /\ captured[s] = Min(wrote[s], MaxOut)
         /\ captured[s] = MaxOut \/ Eof(s)

IInv ==
  /\ TypeOK
  /\ Receipts
  /\ Idle
  /\ Reasons
  /\ Accounts
  /\ LineWriterListens
  /\ HonestVerdict

-----------------------------------------------------------------------------
(***************************************************************************)
(* Types.                                                                  *)
(***************************************************************************)

\* Where a Wait can be.
Places == {"none", "term", "enter", "recv2", "recv1", "reap", "flush", "judge",
           "cleanup", "clear", "done", "stuck", "panic"}

LEMMA StrandedType ==
  ASSUME wpc \in [Callers -> Places] PROVE Stranded \in [Callers -> Places]
  BY DEF Stranded, Places

LEMMA TypeStep == ASSUME TypeOK, [Next]_vars PROVE TypeOK'
<1> USE BoundsAssumption DEF TypeOK, ends, Files
<1>1. CASE StartRefused
  BY <1>1 DEF StartRefused, vars, fields
<1>2. CASE StartPanics
  BY <1>2 DEF StartPanics, Callers, fields, helpers, program, output
<1>3. ASSUME NEW c \in Callers, WaitPanics(c) PROVE TypeOK'
  BY <1>3 DEF WaitPanics, fields, helpers, program, output
<1>4. ASSUME NEW c \in Callers, WaitClear(c) PROVE TypeOK'
  <2>1. wpc' \in [Callers -> Places]
    BY <1>4, StrandedType DEF WaitClear, Places
  <2>2. call' \in [Callers -> {"idle", "start", "stdin", "waiting", "check", "kill", "killed"}]
    BY <1>4 DEF WaitClear
  <2>3. /\ handle' = FALSE
        /\ UNCHANGED <<cmd, torn, exited, helpers, lw, relay, program, ends, open,
                       output, starts, target, res>>
    BY <1>4 DEF WaitClear
  <2>4. UNCHANGED <<wrote, piped, captured, child, status, term, ctx, watch, mon, oom,
                    held, desc, strays>>
    BY <2>3 DEF helpers, program, output
  <2>5. {cmd', handle', torn', exited', oom', term', open'} \subseteq BOOLEAN
    BY <2>3, <2>4
  <2> QED
    BY <2>1, <2>2, <2>3, <2>4, <2>5 DEF Places
<1>5. ASSUME NEW c \in Callers, KillCheck(c) \/ KillPanics(c) PROVE TypeOK'
  BY <1>5 DEF KillCheck, KillPanics, fields, helpers, program, output
<1>6. CASE MonitorFound
  BY <1>6 DEF MonitorFound, fields, program, output, callers
<1>7. CASE StartFails
  <2>1. wpc' \in [Callers -> Places]
    BY <1>7, StrandedType DEF StartFails, Places
  <2>2. starts' \in 0..MaxStarts
    BY <1>7 DEF StartFails, SetFields
  <2>3. res' \in [Callers -> {"none", "ok", "timeout", "oom", "ctxerr", "starterr",
                              "sigterm"}]
    BY <1>7 DEF StartFails
  <2> QED
    BY <1>7, <2>1, <2>2, <2>3 DEF StartFails, SetFields, Clearing, program, output,
       Places
<1>8. ASSUME NEW next \in {"idle", "stdin", "waiting"}, StartOk(next) PROVE TypeOK'
  <2>1. wpc' \in [Callers -> Places]
    <3>1. wpc' = [Stranded EXCEPT ![Owner] =
                    IF next = "waiting" THEN "enter" ELSE "none"]
      BY <1>8 DEF StartOk
    <3> QED
      BY <3>1, StrandedType DEF Places
  <2>2. starts' \in 0..MaxStarts
    BY <1>8 DEF StartOk, SetFields
  <2>3. /\ res' \in [Callers -> {"none", "ok", "timeout", "oom", "ctxerr",
                                  "starterr", "sigterm"}]
        /\ call' \in [Callers -> {"idle", "start", "stdin", "waiting", "check",
                               "kill", "killed"}]
        /\ target' \in [Callers -> 0..MaxStarts]
    BY <1>8 DEF StartOk
  <2>4. /\ wrote' \in [Streams -> 0..MaxWrite]
        /\ piped' \in [Streams -> 0..PipeCap]
        /\ captured' \in [Streams -> 0..MaxOut]
        /\ relay' \in [Streams -> {"none", "copy", "send", "drain", "ended"}]
    BY <1>8 DEF StartOk, Zero
  <2>5. /\ {cmd', handle', torn', exited', oom', term', open'} \subseteq BOOLEAN
        /\ ctx' = "armed" /\ lw' = "live" /\ watch' = "watching"
        /\ mon' \in {"poll", "off"} /\ child' = "running" /\ status' = "none"
        /\ held' \subseteq Streams /\ desc' \subseteq Files /\ strays' \subseteq Files
    BY <1>8 DEF StartOk, SetFields, Clearing
  <2> QED
    BY <2>1, <2>2, <2>3, <2>4, <2>5 DEF Places
<1>9. CASE StdinWritten
  BY <1>9 DEF StdinWritten, Callers, fields, helpers, program, output
<1>10. CASE CallWait
  BY <1>10 DEF CallWait, Callers, fields, helpers, program, output
<1>11. ASSUME NEW c \in Callers, WaitEnter(c) PROVE TypeOK'
  BY <1>11 DEF WaitEnter, fields, helpers, program, output
<1>12. ASSUME NEW c \in Callers, WaitReap(c) PROVE TypeOK'
  BY <1>12 DEF WaitReap, fields, helpers, program, output
<1>13. ASSUME NEW c \in Callers, WaitFlush(c) PROVE TypeOK'
  BY <1>13 DEF WaitFlush, fields, helpers, program, output
<1>14. ASSUME NEW c \in Callers, WaitJudge(c) PROVE TypeOK'
  BY <1>14 DEF WaitJudge, fields, helpers, program, output
<1>15. ASSUME NEW c \in Callers, WaitCleanup(c) PROVE TypeOK'
  BY <1>15 DEF WaitCleanup, program, output
<1>16. ASSUME NEW c \in Callers, KillNothing(c) PROVE TypeOK'
  BY <1>16 DEF KillNothing, vars
<1>17. ASSUME NEW c \in Callers, CallKill(c) PROVE TypeOK'
  BY <1>17 DEF CallKill, fields, helpers, program, output
<1>18. ASSUME NEW c \in Callers, KillTerm(c) PROVE TypeOK'
  BY <1>18 DEF KillTerm, fields, helpers, program, output
<1>19. ASSUME NEW c \in Callers, KillTimeout(c) PROVE TypeOK'
  BY <1>19 DEF KillTimeout, KillGroup, fields, helpers, program, output
<1>20. ASSUME NEW c \in Callers, KillReturn(c) PROVE TypeOK'
  BY <1>20 DEF KillReturn, fields, helpers, program, output
<1>21. ASSUME NEW c \in Callers, NEW s \in Streams, WaitReceive(c, s) PROVE TypeOK'
  BY <1>21 DEF WaitReceive, fields, helpers, program, output
<1>22. CASE Expire
  BY <1>22 DEF Expire, KillGroup, fields, program, output, callers
<1>23. CASE WatchKill
  BY <1>23 DEF WatchKill, KillGroup, fields, program, output, callers
<1>24. CASE MonitorOver
  BY <1>24 DEF MonitorOver, KillGroup, fields, program, output, callers
<1>25. CASE MonitorKill
  BY <1>25 DEF MonitorKill, KillGroup, fields, program, output, callers
<1>26. CASE MonitorGone
  BY <1>26 DEF MonitorGone, InProc, KillGroup, fields, program, output, callers
<1>27. ASSUME NEW s \in Streams, RelayCopy(s) PROVE TypeOK'
  BY <1>27 DEF RelayCopy, fields, helpers, program, output, callers
<1>28. ASSUME NEW s \in Streams, RelayEnd(s) PROVE TypeOK'
  BY <1>28 DEF RelayEnd, fields, helpers, program, output, callers
<1>29. ASSUME NEW s \in Streams, RelayDrain(s) PROVE TypeOK'
  BY <1>29 DEF RelayDrain, fields, helpers, program, output, callers
<1>30. ASSUME NEW s \in Streams, RelayExit(s) PROVE TypeOK'
  BY <1>30 DEF RelayExit, fields, helpers, program, output, callers
<1>31. ASSUME NEW s \in Streams, ProgramWrites(s) PROVE TypeOK'
  <2>1. wrote[s] + 1 \in 0..MaxWrite
    BY <1>31 DEF ProgramWrites, Streams
  <2>2. /\ wrote' \in [Streams -> 0..MaxWrite]
        /\ piped' \in [Streams -> 0..PipeCap]
    BY <2>1, <1>31 DEF ProgramWrites
  <2> QED
    BY <2>2, <1>31 DEF ProgramWrites, fields, helpers, program, callers
<1>32. ASSUME NEW s \in Streams, ProgramCloses(s) PROVE TypeOK'
  BY <1>32 DEF ProgramCloses, fields, helpers, program, output, callers
<1>33. ASSUME NEW st \in {"zero", "nonzero", "term"}, ProgramExits(st) PROVE TypeOK'
  BY <1>33 DEF ProgramExits, fields, helpers, output, callers
<1>34. CASE ProgramForks
  BY <1>34 DEF ProgramForks, fields, helpers, program, output, callers
<1>35. CASE DescendantsLeave \/ DescendantsExit \/ StraysExit
  BY <1>35 DEF DescendantsLeave, DescendantsExit, StraysExit, fields, helpers, program,
     output, callers
<1>36. CASE UNCHANGED vars
  BY <1>36 DEF vars
<1> QED
  BY <1>1, <1>2, <1>3, <1>4, <1>5, <1>6, <1>7, <1>8, <1>9, <1>10, <1>11, <1>12,
     <1>13, <1>14, <1>15, <1>16, <1>17, <1>18, <1>19, <1>20, <1>21, <1>22, <1>23,
     <1>24, <1>25, <1>26, <1>27, <1>28, <1>29, <1>30, <1>31, <1>32, <1>33, <1>34,
     <1>35, <1>36
  DEF Next, Starting, Waiting, Killing, Helper, Program

-----------------------------------------------------------------------------
(***************************************************************************)
(* Who has received what.                                                  *)
(***************************************************************************)

\* Receipts cannot be lost by anything but a receive or a new readDone.
LEMMA ReceiptsKept ==
  ASSUME Receipts, cmd' = cmd,
         \A s \in Streams : Received(s) => Received(s)',
         \A c \in Callers : /\ Past(c)' => Past(c)
                            /\ wpc'[c] = "recv1" => wpc[c] = "recv1"
  PROVE  Receipts'
  BY DEF Receipts

\* A new readDone leaves nobody with a receipt.
LEMMA ReceiptsVoid ==
  ASSUME \A c \in Callers : ~Past(c)' /\ wpc'[c] # "recv1"
  PROVE  Receipts'
  BY DEF Receipts

LEMMA NobodyPast ==
  ASSUME TypeOK, Receipts, ~cmd, NEW c \in Callers
  PROVE  ~Past(c) /\ wpc[c] # "recv1"
  BY DEF Receipts

LEMMA ReceiptsStep == ASSUME TypeOK, Receipts, Idle, [Next]_vars PROVE Receipts'
<1>1. CASE StartFails
  <2>1. \A c \in Callers : ~Past(c)' /\ wpc'[c] # "recv1"
    BY <1>1, NobodyPast DEF StartFails, SetFields, Stranded, Past, TypeOK
  <2> QED
    BY <2>1, ReceiptsVoid
<1>2. ASSUME NEW next \in {"idle", "stdin", "waiting"}, StartOk(next) PROVE Receipts'
  <2>1. wpc' = [Stranded EXCEPT ![Owner] = IF next = "waiting" THEN "enter" ELSE "none"]
    BY <1>2 DEF StartOk
  <2>2. \A c \in Callers : ~Past(c)' /\ wpc'[c] # "recv1"
    BY <1>2, <2>1, NobodyPast DEF StartOk, SetFields, Stranded, Past, TypeOK
  <2> QED
    BY <2>2, ReceiptsVoid
<1>3. ASSUME NEW c \in Callers, WaitCleanup(c) PROVE Receipts'
  <2>1. \A d \in Callers \ {c} : ~Past(d) /\ wpc[d] # "recv1"
    BY <1>3 DEF Receipts, Past, WaitCleanup
  <2>2. \A d \in Callers : ~Past(d)' /\ wpc'[d] # "recv1"
    BY <1>3, <2>1 DEF WaitCleanup, Past, TypeOK
  <2> QED
    BY <2>2, ReceiptsVoid
<1>4. ASSUME NEW c \in Callers, NEW s \in Streams, WaitReceive(c, s) PROVE Receipts'
  <2>1. /\ relay[s] = "send" /\ relay'[s] = "drain" /\ cmd' = cmd
        /\ \A t \in Streams \ {s} : relay'[t] = relay[t]
        /\ wpc[c] \in {"recv2", "recv1"}
        /\ wpc'[c] = IF wpc[c] = "recv2" THEN "recv1" ELSE "reap"
        /\ \A d \in Callers \ {c} : wpc'[d] = wpc[d]
    BY <1>4 DEF WaitReceive, fields, TypeOK
  <2>2. Received(s)' /\ ~Received(s) /\ \A t \in Streams : Received(t) => Received(t)'
    BY <2>1 DEF Received
  <2>3. \A d \in Callers : ~Past(d)
    BY <2>2 DEF Receipts
  <2>4. \A t \in Streams \ {s} : \A d \in Callers : wpc[d] = "recv1" => Received(t)
    BY <2>2 DEF Receipts, Streams
  <2>5. \A d, e \in Callers : wpc[d] = "recv1" /\ wpc[e] = "recv1" => d = e
    BY <2>2 DEF Receipts
  <2>6. CASE wpc[c] = "recv2"
    <3>1. cmd
      BY <2>1 DEF Idle, Received
    <3> QED
      BY <2>1, <2>2, <2>3, <2>4, <2>5, <2>6, <3>1 DEF Receipts, Past
  <2>7. CASE wpc[c] = "recv1"
    <3>1. cmd /\ \A t \in Streams : Received(t)'
      BY <2>2, <2>4, <2>7 DEF Receipts
    <3>2. \A d \in Callers \ {c} : ~Past(d)' /\ wpc'[d] # "recv1"
      BY <2>1, <2>3, <2>5, <2>7 DEF Past
    <3>3. wpc'[c] = "reap"
      BY <2>1, <2>7
    <3> QED
      BY <2>1, <3>1, <3>2, <3>3 DEF Receipts, Past
  <2> QED
    BY <2>1, <2>6, <2>7
<1>5. CASE StdinWritten
  BY <1>5, ReceiptsKept DEF StdinWritten, Callers, fields, Past, Received,
     TypeOK
<1>6. CASE CallWait
  BY <1>6, ReceiptsKept DEF CallWait, Callers, fields, Past, Received, TypeOK
<1>7. ASSUME NEW c \in Callers, WaitEnter(c) PROVE Receipts'
  BY <1>7, ReceiptsKept DEF WaitEnter, fields, Past, Received, TypeOK
<1>8. ASSUME NEW c \in Callers, WaitReap(c) PROVE Receipts'
  BY <1>8, ReceiptsKept DEF WaitReap, fields, Past, Received, TypeOK
<1>9. ASSUME NEW c \in Callers, WaitFlush(c) PROVE Receipts'
  BY <1>9, ReceiptsKept DEF WaitFlush, fields, Past, Received, TypeOK
<1>10. ASSUME NEW c \in Callers, WaitJudge(c) PROVE Receipts'
  BY <1>10, ReceiptsKept DEF WaitJudge, fields, Past, Received, TypeOK
<1>11. ASSUME NEW c \in Callers, CallKill(c) PROVE Receipts'
  BY <1>11, ReceiptsKept DEF CallKill, fields, Past, Received, TypeOK
<1>12. ASSUME NEW c \in Callers, KillTerm(c) PROVE Receipts'
  BY <1>12, ReceiptsKept DEF KillTerm, fields, Past, Received, TypeOK
<1>13. ASSUME NEW c \in Callers, KillTimeout(c) PROVE Receipts'
  BY <1>13, ReceiptsKept DEF KillTimeout, fields, Past, Received, TypeOK
<1>14. ASSUME NEW c \in Callers, KillReturn(c) PROVE Receipts'
  BY <1>14, ReceiptsKept DEF KillReturn, fields, Past, Received, TypeOK
<1>15. ASSUME NEW s \in Streams, RelayEnd(s) PROVE Receipts'
  BY <1>15, ReceiptsKept DEF RelayEnd, fields, callers, Past, Received, TypeOK
<1>16. ASSUME NEW s \in Streams, RelayExit(s) PROVE Receipts'
  BY <1>16, ReceiptsKept DEF RelayExit, fields, callers, Past, Received, TypeOK
<1>17. CASE StartPanics
  BY <1>17, ReceiptsKept DEF StartPanics, Callers, fields, Past, Received, TypeOK
<1>18. ASSUME NEW c \in Callers, WaitPanics(c) PROVE Receipts'
  BY <1>18, ReceiptsKept DEF WaitPanics, fields, Past, Received, TypeOK
<1>19. ASSUME NEW c \in Callers, KillPanics(c) PROVE Receipts'
  BY <1>19, ReceiptsKept DEF KillPanics, fields, Past, Received, TypeOK
<1>20. ASSUME NEW c \in Callers, WaitClear(c) PROVE Receipts'
  BY <1>20, ReceiptsKept DEF WaitClear, Stranded, Past, Received, TypeOK
<1>21. CASE UNCHANGED <<cmd, relay, wpc>>
  BY <1>21, ReceiptsKept DEF Past, Received
<1>22. CASE \/ StartRefused \/ UNCHANGED vars \/ \E c \in Callers : KillNothing(c)
  BY <1>22, <1>21 DEF StartRefused, KillNothing, vars
<1>23. CASE \/ Expire \/ WatchKill \/ MonitorFound \/ MonitorOver \/ MonitorKill
            \/ MonitorGone \/ Program
         \/ \E s \in Streams : RelayCopy(s) \/ RelayDrain(s)
  BY <1>23, <1>21 DEF Expire, WatchKill, MonitorFound, MonitorOver, MonitorKill,
     MonitorGone,
     Program, ProgramWrites, ProgramCloses, ProgramExits, ProgramForks,
     DescendantsLeave, DescendantsExit, StraysExit, RelayCopy, RelayDrain, fields,
     callers
<1>24. CASE Starting
  BY <1>1, <1>2, <1>5, <1>17, <1>22, <1>24 DEF Starting
<1>25. CASE Waiting
  BY <1>3, <1>4, <1>6, <1>7, <1>8, <1>9, <1>10, <1>18, <1>20, <1>25 DEF Waiting
<1>26. ASSUME NEW c \in Callers, KillCheck(c) PROVE Receipts'
  BY <1>26, ReceiptsKept DEF KillCheck, fields, Past, Received, TypeOK
<1>27. CASE Killing
  BY <1>11, <1>12, <1>13, <1>14, <1>19, <1>22, <1>26, <1>27 DEF Killing
<1>28. CASE Helper
  BY <1>15, <1>16, <1>23, <1>28 DEF Helper
<1> QED
  BY <1>22, <1>23, <1>24, <1>25, <1>27, <1>28 DEF Next

-----------------------------------------------------------------------------
(***************************************************************************)
(* What a run leaves behind, and why a program was killed.                 *)
(***************************************************************************)

LEMMA IdleStep ==
  ASSUME TypeOK, Receipts, Idle, [Next]_vars
  PROVE  Idle'
<1>1. CASE StartFails
  BY <1>1 DEF StartFails, SetFields, Stranded, program, output, Idle, Clearing,
     Receipts,
     Past, Reaped, Received, TypeOK
<1>2. ASSUME NEW next \in {"idle", "stdin", "waiting"}, StartOk(next) PROVE Idle'
  BY <1>2 DEF StartOk, SetFields, Stranded, Zero, Idle, Clearing, Receipts, Past,
     Reaped,
     Received, TypeOK
<1>3. CASE StdinWritten
  BY <1>3 DEF StdinWritten, Callers, fields, helpers, program, output, Idle, Clearing,
     Receipts, Past, Reaped, Received, TypeOK
<1>4. CASE CallWait
  BY <1>4 DEF CallWait, Callers, fields, helpers, program, output, Idle, Clearing,
     Receipts, Past, Reaped, Received, TypeOK
<1>5. ASSUME NEW c \in Callers, WaitEnter(c) PROVE Idle'
  BY <1>5 DEF WaitEnter, fields, helpers, program, output, Idle, Clearing, Receipts,
     Past,
     Reaped, Received, TypeOK
<1>6. ASSUME NEW c \in Callers, NEW s \in Streams, WaitReceive(c, s) PROVE Idle'
  BY <1>6 DEF WaitReceive, fields, helpers, program, output, Idle, Clearing, Receipts,
     Past, Reaped, Received, TypeOK
<1>7. ASSUME NEW c \in Callers, WaitReap(c) PROVE Idle'
  BY <1>7 DEF WaitReap, fields, output, Idle, Clearing, Receipts, Past, Reaped,
     Received,
     TypeOK
<1>8. ASSUME NEW c \in Callers, WaitFlush(c) PROVE Idle'
  BY <1>8 DEF WaitFlush, fields, helpers, program, output, Idle, Clearing, Receipts,
     Past,
     Reaped, Received, TypeOK
<1>9. ASSUME NEW c \in Callers, WaitJudge(c) PROVE Idle'
  BY <1>9 DEF WaitJudge, fields, helpers, program, output, Idle, Clearing, Receipts,
     Past,
     Reaped, Received, TypeOK
<1>10. ASSUME NEW c \in Callers, WaitCleanup(c) PROVE Idle'
  BY <1>10 DEF WaitCleanup, program, output, Idle, Clearing, Receipts, Past,
     Reaped, Received, TypeOK
<1>11. ASSUME NEW c \in Callers, CallKill(c) PROVE Idle'
  BY <1>11 DEF CallKill, fields, helpers, program, output, Idle, Clearing, Receipts,
     Past,
     Reaped, Received, TypeOK
<1>12. ASSUME NEW c \in Callers, KillTerm(c) PROVE Idle'
  BY <1>12 DEF KillTerm, fields, helpers, output, Idle, Clearing, Receipts, Past,
     Reaped,
     Received, TypeOK
<1>13. ASSUME NEW c \in Callers, KillTimeout(c) PROVE Idle'
  BY <1>13 DEF KillTimeout, KillGroup, fields, helpers, output, Idle, Clearing,
     Receipts,
     Past, Reaped, Received, TypeOK
<1>14. ASSUME NEW c \in Callers, KillReturn(c) PROVE Idle'
  BY <1>14 DEF KillReturn, fields, helpers, program, output, Idle, Clearing, Receipts,
     Past, Reaped, Received, TypeOK
<1>15. CASE StartPanics
  BY <1>15 DEF StartPanics, Callers, fields, helpers, program, output, Idle, Clearing,
     Receipts, Past, Reaped, Received, TypeOK
<1>16. ASSUME NEW c \in Callers, WaitPanics(c) \/ KillPanics(c) PROVE Idle'
  BY <1>16 DEF WaitPanics, KillPanics, fields, helpers, program, output, Idle, Clearing,
     Receipts, Past, Reaped, Received, TypeOK
<1>17. ASSUME NEW c \in Callers, WaitClear(c) PROVE Idle'
  <2>1. torn \/ (~cmd /\ ctx = "cancelled")
    BY <1>17 DEF WaitClear, Idle, Clearing
  <2>2. \A d \in Callers : Reaped(d)' => Reaped(d)
    BY <1>17 DEF WaitClear, Stranded, Reaped, TypeOK
  <2> QED
    BY <1>17, <2>1, <2>2 DEF WaitClear, helpers, program, Idle, Clearing, Received
<1>18. CASE MonitorFound
  BY <1>18 DEF MonitorFound, fields, program, output, callers, Idle, Clearing, Receipts,
     Past, Reaped, Received, TypeOK
<1>19. CASE Expire
  BY <1>19 DEF Expire, fields, program, output, callers, Idle, Clearing, Receipts, Past,
     Reaped, Received, TypeOK
<1>20. CASE WatchKill
  BY <1>20 DEF WatchKill, fields, output, callers, Idle, Clearing, Receipts, Past,
     Reaped,
     Received, TypeOK
<1>21. CASE MonitorOver
  BY <1>21 DEF MonitorOver, fields, program, output, callers, Idle, Clearing, Receipts,
     Past, Reaped, Received, TypeOK
<1>22. CASE MonitorKill
  BY <1>22 DEF MonitorKill, KillGroup, fields, output, callers, Idle, Clearing,
     Receipts,
     Past, Reaped, Received, TypeOK
<1>23. CASE MonitorGone
  BY <1>23 DEF MonitorGone, InProc, fields, program, output, callers, Idle, Clearing,
     Receipts,
     Past, Reaped, Received, TypeOK
<1>24. ASSUME NEW s \in Streams, RelayEnd(s) PROVE Idle'
  BY <1>24 DEF RelayEnd, fields, helpers, program, output, callers, Idle, Clearing,
     Receipts, Past, Reaped, Received, TypeOK
<1>25. ASSUME NEW s \in Streams, RelayExit(s) PROVE Idle'
  BY <1>25 DEF RelayExit, fields, helpers, program, output, callers, Idle, Clearing,
     Receipts, Past, Reaped, Received, TypeOK
<1>26. ASSUME NEW st \in {"zero", "nonzero", "term"}, ProgramExits(st) PROVE Idle'
  BY <1>26 DEF ProgramExits, fields, helpers, output, callers, Idle, Clearing, Receipts,
     Past, Reaped, Received, TypeOK
<1>27. CASE UNCHANGED <<fields, child, open, watch, mon, relay, ctx, wpc>>
  BY <1>27 DEF Idle, Clearing, fields, Receipts, Past, Reaped, Received
<1>28. CASE StartRefused \/ UNCHANGED vars \/ \E c \in Callers : KillNothing(c)
  BY <1>28, <1>27 DEF StartRefused, KillNothing, vars, fields
<1>29. CASE \/ ProgramForks \/ DescendantsLeave \/ DescendantsExit \/ StraysExit
            \/ \E s \in Streams :
                  \/ RelayCopy(s) \/ RelayDrain(s) \/ ProgramWrites(s)
                  \/ ProgramCloses(s)
            \/ \E c \in Callers : KillCheck(c)
  BY <1>29, <1>27 DEF KillCheck, RelayCopy, RelayDrain, ProgramWrites, ProgramCloses,
     ProgramForks, DescendantsLeave, DescendantsExit, StraysExit, callers, fields,
     helpers, output, program
<1> QED
  BY <1>1, <1>2, <1>3, <1>4, <1>5, <1>6, <1>7, <1>8, <1>9, <1>10, <1>11, <1>12,
     <1>13, <1>14, <1>15, <1>16, <1>17, <1>18, <1>19, <1>20, <1>21, <1>22, <1>23,
     <1>24, <1>25, <1>26, <1>27, <1>28, <1>29
  DEF Next, Starting, Waiting, Killing, Helper, Program

LEMMA ReasonsStep ==
  ASSUME TypeOK, Receipts, Idle, Reasons, [Next]_vars
  PROVE  Reasons'
<1>1. CASE StartFails
  BY <1>1 DEF StartFails, SetFields, Stranded, program, output, Idle, Reasons,
     Receipts, Past, TypeOK
<1>2. ASSUME NEW next \in {"idle", "stdin", "waiting"}, StartOk(next) PROVE Reasons'
  BY <1>2 DEF StartOk, SetFields, Stranded, Zero, Idle, Reasons, Receipts, Past,
     TypeOK
<1>3. ASSUME NEW c \in Callers, WaitReap(c) PROVE Reasons'
  BY <1>3 DEF WaitReap, fields, output, Idle, Reasons, Receipts, Past, TypeOK
<1>4. ASSUME NEW c \in Callers, WaitCleanup(c) PROVE Reasons'
  BY <1>4 DEF WaitCleanup, program, output, Idle, Reasons, Receipts,
     Past, TypeOK
<1>5. ASSUME NEW c \in Callers, KillTimeout(c) PROVE Reasons'
  BY <1>5 DEF KillTimeout, KillGroup, fields, helpers, output, Idle, Reasons,
     Receipts, Past, TypeOK
<1>6. CASE Expire
  BY <1>6 DEF Expire, fields, program, output, callers, Idle, Reasons, Receipts,
     Past, TypeOK
<1>7. CASE WatchKill
  BY <1>7 DEF WatchKill, fields, output, callers, Idle, Reasons, Receipts, Past,
     TypeOK
<1>8. CASE MonitorOver
  BY <1>8 DEF MonitorOver, fields, program, output, callers, Idle, Reasons,
     Receipts, Past, TypeOK
<1>9. CASE MonitorFound
  BY <1>9 DEF MonitorFound, fields, program, output, callers, Idle, Reasons,
     Receipts, Past, TypeOK
<1>10. CASE MonitorKill
  BY <1>10 DEF MonitorKill, KillGroup, fields, output, callers, Idle, Reasons,
     Receipts, Past, TypeOK
<1>11. CASE MonitorGone
  BY <1>11 DEF MonitorGone, InProc, fields, program, output, callers, Idle, Reasons,
     Receipts, Past, TypeOK
<1>12. ASSUME NEW st \in {"zero", "nonzero", "term"}, ProgramExits(st) PROVE Reasons'
  BY <1>12 DEF ProgramExits, fields, helpers, output, callers, Idle, Reasons,
     Receipts, Past, TypeOK
<1>13. CASE UNCHANGED <<cmd, status, watch, ctx, oom, mon>>
  BY <1>13 DEF Idle, Reasons, Receipts, Past
<1>14. CASE StartRefused \/ UNCHANGED vars \/ \E c \in Callers : KillNothing(c)
  BY <1>14, <1>13 DEF StartRefused, KillNothing, vars
<1>15. CASE \/ StartPanics \/ StdinWritten \/ CallWait \/ ProgramForks
            \/ DescendantsLeave \/ DescendantsExit \/ StraysExit
            \/ \E c \in Callers :
                  \/ WaitEnter(c) \/ WaitFlush(c) \/ WaitJudge(c) \/ CallKill(c)
                  \/ KillTerm(c) \/ KillReturn(c) \/ WaitPanics(c) \/ WaitClear(c)
                  \/ KillCheck(c) \/ KillPanics(c)
            \/ \E c \in Callers, s \in Streams : WaitReceive(c, s)
            \/ \E s \in Streams :
                  \/ RelayCopy(s) \/ RelayEnd(s) \/ RelayDrain(s)
                  \/ RelayExit(s) \/ ProgramWrites(s) \/ ProgramCloses(s)
  BY <1>15, <1>13 DEF StartPanics, WaitPanics, WaitClear, KillCheck, KillPanics,
     StdinWritten, CallWait, WaitEnter, WaitReceive, WaitFlush,
     WaitJudge, CallKill, KillTerm, KillReturn, RelayCopy, RelayEnd, RelayDrain,
     RelayExit, ProgramWrites, ProgramCloses, ProgramForks, DescendantsLeave,
     DescendantsExit, StraysExit,
     callers, fields, helpers, output, program
<1> QED
  BY <1>1, <1>2, <1>3, <1>4, <1>5, <1>6, <1>7, <1>8, <1>9, <1>10, <1>11, <1>12,
     <1>13, <1>14, <1>15
  DEF Next, Starting, Waiting, Killing, Helper, Program

LEMMA ListensStep ==
  ASSUME TypeOK, Receipts, Idle, LineWriterListens, [Next]_vars
  PROVE  LineWriterListens'
<1>1. CASE StartFails
  BY <1>1 DEF StartFails, SetFields, Stranded, program, output, Idle,
     LineWriterListens, Receipts, Past, Received, TypeOK
<1>2. ASSUME NEW next \in {"idle", "stdin", "waiting"}, StartOk(next) PROVE LineWriterListens'
  BY <1>2 DEF StartOk, SetFields, Stranded, Zero, Idle, LineWriterListens,
     Receipts, Past, Received, TypeOK
<1>3. ASSUME NEW c \in Callers, NEW s \in Streams, WaitReceive(c, s) PROVE LineWriterListens'
  BY <1>3 DEF WaitReceive, fields, helpers, program, output, Idle,
     LineWriterListens, Receipts, Past, Received, TypeOK
<1>4. ASSUME NEW c \in Callers, WaitFlush(c) PROVE LineWriterListens'
  BY <1>4 DEF WaitFlush, fields, helpers, program, output, Idle,
     LineWriterListens, Receipts, Past, Received, TypeOK
<1>5. ASSUME NEW s \in Streams, RelayEnd(s) PROVE LineWriterListens'
  BY <1>5 DEF RelayEnd, fields, helpers, program, output, callers, Idle,
     LineWriterListens, Receipts, Past, Received, TypeOK
<1>6. ASSUME NEW s \in Streams, RelayExit(s) PROVE LineWriterListens'
  BY <1>6 DEF RelayExit, fields, helpers, program, output, callers, Idle,
     LineWriterListens, Receipts, Past, Received, TypeOK
<1>7. CASE UNCHANGED <<relay, lw>>
  BY <1>7 DEF Idle, LineWriterListens, Receipts, Past, Received
<1>8. CASE StartRefused \/ UNCHANGED vars \/ \E c \in Callers : KillNothing(c)
  BY <1>8, <1>7 DEF StartRefused, KillNothing, vars
<1>9. CASE \/ StartPanics \/ StdinWritten \/ CallWait \/ Expire \/ WatchKill
           \/ MonitorFound \/ MonitorOver
           \/ MonitorKill \/ MonitorGone \/ ProgramForks \/ DescendantsLeave
           \/ DescendantsExit \/ StraysExit
           \/ \E c \in Callers :
                 \/ WaitEnter(c) \/ WaitReap(c) \/ WaitJudge(c)
                 \/ WaitCleanup(c) \/ CallKill(c) \/ KillTerm(c)
                 \/ KillTimeout(c) \/ KillReturn(c) \/ WaitPanics(c)
                 \/ WaitClear(c) \/ KillCheck(c) \/ KillPanics(c)
           \/ \E s \in Streams :
                 \/ RelayCopy(s) \/ RelayDrain(s) \/ ProgramWrites(s)
                 \/ ProgramCloses(s)
           \/ \E st \in {"zero", "nonzero", "term"} : ProgramExits(st)
  BY <1>9, <1>7 DEF StartPanics, WaitPanics, WaitClear, KillCheck, KillPanics,
     StdinWritten, CallWait, WaitEnter, WaitReap, WaitJudge,
     WaitCleanup, CallKill, KillTerm, KillTimeout, KillReturn, Expire,
     WatchKill, MonitorFound, MonitorOver, MonitorKill, MonitorGone, RelayCopy,
     RelayDrain,
     ProgramWrites, ProgramCloses, ProgramExits, ProgramForks, DescendantsLeave,
     DescendantsExit, StraysExit,
     callers, fields, helpers, output, program
<1> QED
  BY <1>1, <1>2, <1>3, <1>4, <1>5, <1>6, <1>7, <1>8, <1>9
  DEF Next, Starting, Waiting, Killing, Helper, Program

LEMMA VerdictStep ==
  ASSUME TypeOK, Receipts, Idle, Reasons, HonestVerdict, [Next]_vars
  PROVE  HonestVerdict'
<1>1. CASE StartFails
  BY <1>1 DEF StartFails, SetFields, Stranded, program, output, Idle, Reasons,
     Receipts, Past, Reaped, HonestVerdict, Delivers, TypeOK
<1>2. ASSUME NEW next \in {"idle", "stdin", "waiting"}, StartOk(next) PROVE HonestVerdict'
  BY <1>2 DEF StartOk, SetFields, Stranded, Zero, Idle, Reasons, Receipts, Past,
     Reaped, HonestVerdict, Delivers, TypeOK
<1>3. CASE StdinWritten
  BY <1>3 DEF StdinWritten, Callers, fields, helpers, program, output, Idle,
     Reasons, Receipts, Past, Reaped, HonestVerdict, Delivers, TypeOK
<1>4. CASE CallWait
  BY <1>4 DEF CallWait, Callers, fields, helpers, program, output, Idle,
     Reasons, Receipts, Past, Reaped, HonestVerdict, Delivers, TypeOK
<1>5. ASSUME NEW c \in Callers, WaitEnter(c) PROVE HonestVerdict'
  BY <1>5 DEF WaitEnter, fields, helpers, program, output, Idle, Reasons,
     Receipts, Past, Reaped, HonestVerdict, Delivers, TypeOK
<1>6. ASSUME NEW c \in Callers, NEW s \in Streams, WaitReceive(c, s) PROVE HonestVerdict'
  BY <1>6 DEF WaitReceive, fields, helpers, program, output, Idle, Reasons,
     Receipts, Past, Reaped, HonestVerdict, Delivers, TypeOK
<1>7. ASSUME NEW c \in Callers, WaitReap(c) PROVE HonestVerdict'
  BY <1>7 DEF WaitReap, fields, output, Idle, Reasons, Receipts, Past, Reaped,
     HonestVerdict, Delivers, TypeOK
<1>8. ASSUME NEW c \in Callers, WaitFlush(c) PROVE HonestVerdict'
  BY <1>8 DEF WaitFlush, fields, helpers, program, output, Idle, Reasons,
     Receipts, Past, Reaped, HonestVerdict, Delivers, TypeOK
<1>9. ASSUME NEW c \in Callers, WaitJudge(c) PROVE HonestVerdict'
  BY <1>9 DEF WaitJudge, fields, helpers, program, output, Idle, Reasons,
     Receipts, Past, Reaped, HonestVerdict, Delivers, TypeOK
<1>10. ASSUME NEW c \in Callers, WaitCleanup(c) PROVE HonestVerdict'
  BY <1>10 DEF WaitCleanup, program, output, Idle, Reasons, Receipts,
     Past, Reaped, HonestVerdict, Delivers, TypeOK
<1>11. ASSUME NEW c \in Callers, CallKill(c) PROVE HonestVerdict'
  BY <1>11 DEF CallKill, fields, helpers, program, output, Idle, Reasons,
     Receipts, Past, Reaped, HonestVerdict, Delivers, TypeOK
<1>12. ASSUME NEW c \in Callers, KillTerm(c) PROVE HonestVerdict'
  BY <1>12 DEF KillTerm, fields, helpers, output, Idle, Reasons, Receipts, Past,
     Reaped, HonestVerdict, Delivers, TypeOK
<1>13. ASSUME NEW c \in Callers, KillTimeout(c) PROVE HonestVerdict'
  BY <1>13 DEF KillTimeout, KillGroup, fields, helpers, output, Idle, Reasons,
     Receipts, Past, Reaped, HonestVerdict, Delivers, TypeOK
<1>14. ASSUME NEW c \in Callers, KillReturn(c) PROVE HonestVerdict'
  BY <1>14 DEF KillReturn, fields, helpers, program, output, Idle, Reasons,
     Receipts, Past, Reaped, HonestVerdict, Delivers, TypeOK
<1>15. CASE StartPanics
  BY <1>15 DEF StartPanics, helpers, program, HonestVerdict, Delivers, Callers, TypeOK
<1>16. ASSUME NEW c \in Callers, WaitPanics(c) \/ KillPanics(c) PROVE HonestVerdict'
  BY <1>16 DEF WaitPanics, KillPanics, helpers, program, HonestVerdict, Delivers, TypeOK
<1>17. ASSUME NEW c \in Callers, WaitClear(c) PROVE HonestVerdict'
  BY <1>17 DEF WaitClear, Stranded, helpers, program, HonestVerdict, Delivers, TypeOK
<1>18. CASE Expire
  BY <1>18 DEF Expire, fields, program, output, callers, Idle, Reasons,
     Receipts, Past, Reaped, HonestVerdict, Delivers, TypeOK
<1>19. CASE WatchKill
  BY <1>19 DEF WatchKill, fields, output, callers, Idle, Reasons, Receipts,
     Past, Reaped, HonestVerdict, Delivers, TypeOK
<1>20. CASE MonitorKill
  BY <1>20 DEF MonitorKill, KillGroup, fields, output, callers, Idle, Reasons,
     Receipts, Past, Reaped, HonestVerdict, Delivers, TypeOK
<1>21. ASSUME NEW st \in {"zero", "nonzero", "term"}, ProgramExits(st) PROVE HonestVerdict'
  BY <1>21 DEF ProgramExits, fields, helpers, output, callers, Idle, Reasons,
     Receipts, Past, Reaped, HonestVerdict, Delivers, TypeOK
<1>22. CASE UNCHANGED <<wpc, res, child, status, ctx>>
  BY <1>22 DEF Idle, Reasons, Receipts, Past, Reaped, HonestVerdict, Delivers
<1>23. CASE StartRefused \/ UNCHANGED vars \/ \E c \in Callers : KillNothing(c)
  BY <1>23, <1>22 DEF StartRefused, KillNothing, vars
<1>24. CASE \/ MonitorFound \/ MonitorOver \/ MonitorGone \/ ProgramForks
            \/ DescendantsLeave \/ DescendantsExit \/ StraysExit
            \/ \E s \in Streams :
                  \/ RelayCopy(s) \/ RelayEnd(s) \/ RelayDrain(s)
                  \/ RelayExit(s) \/ ProgramWrites(s) \/ ProgramCloses(s)
            \/ \E c \in Callers : KillCheck(c)
  BY <1>24, <1>22 DEF KillCheck, MonitorFound, MonitorOver, MonitorGone, RelayCopy,
     RelayEnd, RelayDrain,
     RelayExit, ProgramWrites, ProgramCloses, ProgramForks, DescendantsLeave,
     DescendantsExit, StraysExit,
     callers, fields, helpers, output, program
<1> QED
  BY <1>1, <1>2, <1>3, <1>4, <1>5, <1>6, <1>7, <1>8, <1>9, <1>10, <1>11, <1>12,
     <1>13, <1>14, <1>15, <1>16, <1>17, <1>18, <1>19, <1>20, <1>21, <1>22, <1>23,
     <1>24
  DEF Next, Starting, Waiting, Killing, Helper, Program

-----------------------------------------------------------------------------
(***************************************************************************)
(* Where the output is.                                                    *)
(***************************************************************************)

LEMMA AccountsStep ==
  ASSUME TypeOK, Receipts, Idle, Accounts, [Next]_vars
  PROVE  Accounts'
<1>1. CASE StartFails
  BY <1>1 DEF StartFails, SetFields, Stranded, program, output, Accounts, Idle,
     Eof, ends, Min, Received, TypeOK
<1>2. ASSUME NEW next \in {"idle", "stdin", "waiting"}, StartOk(next) PROVE Accounts'
  BY <1>2 DEF StartOk, SetFields, Stranded, Zero, Accounts, Idle, Eof, ends, Min,
     Received, TypeOK
<1>3. ASSUME NEW c \in Callers, NEW s \in Streams, WaitReceive(c, s) PROVE Accounts'
  BY <1>3 DEF WaitReceive, fields, helpers, program, output, Accounts, Idle,
     Eof, ends, Min, Received, TypeOK
<1>4. ASSUME NEW c \in Callers, WaitReap(c) PROVE Accounts'
  BY <1>4 DEF WaitReap, fields, output, Accounts, Idle, Eof, ends, Min, Received,
     TypeOK
<1>5. ASSUME NEW c \in Callers, WaitCleanup(c) PROVE Accounts'
  BY <1>5 DEF WaitCleanup, program, output, Accounts, Idle, Eof, ends, Min,
     Received, TypeOK
<1>6. ASSUME NEW c \in Callers, KillTimeout(c) PROVE Accounts'
  BY <1>6 DEF KillTimeout, KillGroup, fields, helpers, output, Accounts, Idle,
     Eof, ends, Min, Received, TypeOK
<1>7. CASE WatchKill
  BY <1>7 DEF WatchKill, fields, output, callers, Accounts, Idle, Eof, ends, Min,
     Received, TypeOK
<1>8. CASE MonitorKill
  BY <1>8 DEF MonitorKill, KillGroup, fields, output, callers, Accounts, Idle,
     Eof, ends, Min, Received, TypeOK
<1>9. ASSUME NEW s \in Streams, RelayCopy(s) PROVE Accounts'
  BY <1>9 DEF RelayCopy, fields, helpers, program, callers, Accounts, Idle, Eof, ends,
     Min, Received, TypeOK
<1>10. ASSUME NEW s \in Streams, RelayEnd(s) PROVE Accounts'
  <2>1. /\ relay[s] = "copy" /\ captured[s] + piped[s] = wrote[s]
        /\ captured[s] = MaxOut \/ (piped[s] = 0 /\ Eof(s))
    BY <1>10 DEF RelayEnd, Accounts
  <2>2. /\ captured[s] \in 0..MaxOut /\ piped[s] \in 0..PipeCap
        /\ wrote[s] \in 0..MaxWrite
    BY DEF TypeOK
  <2>3. captured[s] = Min(wrote[s], MaxOut) /\ (captured[s] = MaxOut \/ Eof(s))
    BY <2>1, <2>2, BoundsAssumption DEF Min
  <2>4. \A t \in Streams \ {s} : relay'[t] = relay[t]
    BY <1>10 DEF RelayEnd, TypeOK
  <2>5. /\ UNCHANGED <<cmd, captured, piped, wrote, child, held, desc, strays>>
        /\ relay'[s] = "send"
    BY <1>10 DEF RelayEnd, fields, program, ends, output, TypeOK
  <2> QED
    BY <2>3, <2>4, <2>5 DEF Accounts, Eof, ends, Min
<1>11. ASSUME NEW s \in Streams, RelayDrain(s) PROVE Accounts'
  BY <1>11 DEF RelayDrain, fields, helpers, program, callers, Accounts, Idle,
     Eof, ends, Min, Received, TypeOK
<1>12. ASSUME NEW s \in Streams, RelayExit(s) PROVE Accounts'
  BY <1>12 DEF RelayExit, fields, helpers, program, output, callers, Accounts,
     Idle, Eof, ends, Min, Received, TypeOK
<1>13. ASSUME NEW s \in Streams, ProgramWrites(s) PROVE Accounts'
  BY <1>13 DEF ProgramWrites, fields, helpers, program, callers, Accounts, Idle,
     Eof, ends, Min, Received, TypeOK
<1>14. ASSUME NEW s \in Streams, ProgramCloses(s) PROVE Accounts'
  BY <1>14 DEF ProgramCloses, fields, helpers, program, output, callers,
     Accounts, Idle, Eof, ends, Min, Received, TypeOK
<1>15. ASSUME NEW st \in {"zero", "nonzero", "term"}, ProgramExits(st) PROVE Accounts'
  BY <1>15 DEF ProgramExits, fields, helpers, output, callers, Accounts, Idle,
     Eof, ends, Min, Received, TypeOK
<1>16. CASE ProgramForks
  BY <1>16 DEF ProgramForks, Streams, fields, helpers, program, output, callers,
     Accounts, Idle, Eof, ends, Min, Received, TypeOK
<1>17. CASE DescendantsLeave \/ DescendantsExit \/ StraysExit
  BY <1>17 DEF DescendantsLeave, DescendantsExit, StraysExit, fields, helpers, program,
     output, callers,
     Accounts, Idle, Eof, ends, Min, Received, TypeOK
<1>18. CASE UNCHANGED <<relay, captured, piped, wrote, cmd, child, ends>>
  BY <1>18 DEF Accounts, Idle, Eof, ends, Min, Received
<1>19. CASE StartRefused \/ UNCHANGED vars \/ \E c \in Callers : KillNothing(c)
  BY <1>19, <1>18 DEF StartRefused, KillNothing, vars, ends
<1>20. CASE \/ StartPanics \/ StdinWritten \/ CallWait \/ Expire \/ MonitorFound
            \/ MonitorOver \/ MonitorGone
            \/ \E c \in Callers :
                  \/ WaitEnter(c) \/ WaitFlush(c) \/ WaitJudge(c) \/ CallKill(c)
                  \/ KillTerm(c) \/ KillReturn(c) \/ WaitPanics(c) \/ WaitClear(c)
                  \/ KillCheck(c) \/ KillPanics(c)
  BY <1>20, <1>18 DEF StartPanics, WaitPanics, WaitClear, KillCheck, KillPanics,
     StdinWritten, CallWait, WaitEnter, WaitFlush, WaitJudge,
     CallKill, KillTerm, KillReturn, Expire, MonitorFound, MonitorOver, MonitorGone,
     callers,
     fields, helpers, output, program
<1> QED
  BY <1>1, <1>2, <1>3, <1>4, <1>5, <1>6, <1>7, <1>8, <1>9, <1>10, <1>11, <1>12,
     <1>13, <1>14, <1>15, <1>16, <1>17, <1>18, <1>19, <1>20
  DEF Next, Starting, Waiting, Killing, Helper, Program

-----------------------------------------------------------------------------
(***************************************************************************)
(* The invariant, and what follows from it.                                *)
(***************************************************************************)

LEMMA InitIInv == Init => IInv
<1> SUFFICES ASSUME Init PROVE IInv
  OBVIOUS
<1> USE DEF Init
<1>1. TypeOK
  <2>1. /\ wrote \in [Streams -> 0..MaxWrite] /\ piped \in [Streams -> 0..PipeCap]
        /\ captured \in [Streams -> 0..MaxOut]
    BY BoundsAssumption DEF Zero
  <2>2. starts \in 0..MaxStarts /\ target \in [Callers -> 0..MaxStarts]
    BY BoundsAssumption
  <2> QED
    BY <2>1, <2>2 DEF TypeOK
<1>2. Receipts /\ Idle
  BY DEF Receipts, Idle, Clearing, Past, Reaped, Received
<1>3. Reasons /\ Accounts
  BY DEF Reasons, Accounts
<1>4. LineWriterListens /\ HonestVerdict
  BY DEF LineWriterListens, HonestVerdict, Delivers
<1> QED
  BY <1>1, <1>2, <1>3, <1>4 DEF IInv

LEMMA NextIInv == IInv /\ [Next]_vars => IInv'
<1> SUFFICES ASSUME IInv, [Next]_vars PROVE IInv'
  OBVIOUS
<1>1. TypeOK /\ Receipts /\ Idle /\ Reasons /\ Accounts
  BY DEF IInv
<1>2. TypeOK' /\ Receipts' /\ Idle' /\ Reasons' /\ Accounts'
  BY <1>1, TypeStep, ReceiptsStep, IdleStep, ReasonsStep, AccountsStep
<1>3. LineWriterListens' /\ HonestVerdict'
  BY <1>1, ListensStep, VerdictStep DEF IInv
<1> QED
  BY <1>2, <1>3 DEF IInv

LEMMA Invariance == Spec => []IInv
<1>1. Init => IInv
  BY InitIInv
<1>2. IInv /\ [Next]_vars => IInv'
  BY NextIInv
<1> QED
  BY <1>1, <1>2, PTL DEF Spec

\* Every variable of Executable keeps its type, with any callers.
THEOREM TypeCorrect == Spec => []TypeOK
<1>1. IInv => TypeOK
  BY DEF IInv
<1> QED
  BY <1>1, Invariance, PTL

\* A result of Wait carries all the program and its descendants have written, up
\* to the limit, however the relays, the program and other callers interleave.
THEOREM CaptureCorrect == Spec => []CaptureComplete
<1>1. IInv => CaptureComplete
  <2> SUFFICES ASSUME IInv, NEW c \in Callers, wpc[c] = "cleanup", NEW s \in Streams
               PROVE  captured[s] = Min(wrote[s], MaxOut)
    BY DEF CaptureComplete, Delivers
  <2>1. cmd /\ relay[s] # "copy"
    BY DEF IInv, Receipts, Past, Received
  <2> QED
    BY <2>1 DEF IInv, Accounts
<1> QED
  BY <1>1, Invariance, PTL

\* The verdict of Wait on a program the watcher or the monitor has killed is
\* never "ok", and its other verdicts have their reason.
THEOREM VerdictCorrect == Spec => []HonestVerdict
<1>1. IInv => HonestVerdict
  BY DEF IInv
<1> QED
  BY <1>1, Invariance, PTL

\* Between two runs nothing is left of the first.
THEOREM CleanupCorrect == Spec => []NothingLeft
<1>1. IInv => NothingLeft
  BY DEF IInv, Idle, NothingLeft, Received
<1> QED
  BY <1>1, Invariance, PTL

\* No relay offers bytes to a line writer that has been flushed.
THEOREM ListeningCorrect == Spec => []LineWriterListens
<1>1. IInv => LineWriterListens
  BY DEF IInv
<1> QED
  BY <1>1, Invariance, PTL

\* However many goroutines wait, at most one reaps and judges the program.
THEOREM JudgeCorrect == Spec => []OneJudge
<1>1. IInv => OneJudge
  BY DEF IInv, Receipts, Idle, Past, OneJudge
<1> QED
  BY <1>1, Invariance, PTL

-----------------------------------------------------------------------------
(***************************************************************************)
(* Executable implements ProgramRun, whoever calls Kill meanwhile: each of *)
(* its steps is one of ProgramRun's, or changes nothing that ProgramRun    *)
(* speaks of.                                                              *)
(***************************************************************************)

\* A goroutine outside its calls is nowhere in Wait, and one that hands over a
\* verdict has one, with any number of them.
Calls ==
  \A c \in Callers :
    /\ call[c] \in {"idle", "stdin", "check"} => wpc[c] = "none"
    /\ wpc[c] = "cleanup" => res[c] \in {"ok", "timeout", "oom", "ctxerr"}

LEMMA CallsStep ==
  ASSUME TypeOK, Calls, [Next]_vars
  PROVE  Calls'
<1>1. CASE StartFails
  BY <1>1 DEF StartFails, SetFields, Stranded, output, Calls, TypeOK
<1>2. ASSUME NEW next \in {"idle", "stdin", "waiting"}, StartOk(next) PROVE Calls'
  <2>1. /\ wpc'[Owner] \in {"enter", "none"} /\ (next # "waiting" => wpc'[Owner] = "none")
        /\ call'[Owner] = next
    BY <1>2 DEF StartOk, Callers, Stranded, TypeOK
  <2>2. \A c \in Callers \ {Owner} :
          /\ call'[c] = call[c] /\ res'[c] = res[c]
          /\ wpc'[c] = wpc[c] \/ (wpc[c] # "none" /\ wpc'[c] = "stuck")
    BY <1>2 DEF StartOk, Stranded, TypeOK
  <2> QED
    BY <2>1, <2>2 DEF Calls
<1>3. CASE StdinWritten
  BY <1>3 DEF StdinWritten, Calls, TypeOK
<1>4. CASE CallWait
  BY <1>4 DEF CallWait, Calls, TypeOK
<1>5. ASSUME NEW c \in Callers, WaitEnter(c) PROVE Calls'
  BY <1>5 DEF WaitEnter, Calls, TypeOK
<1>6. ASSUME NEW c \in Callers, NEW s \in Streams, WaitReceive(c, s) PROVE Calls'
  BY <1>6 DEF WaitReceive, Calls, TypeOK
<1>7. ASSUME NEW c \in Callers, WaitReap(c) PROVE Calls'
  BY <1>7 DEF WaitReap, Calls, TypeOK
<1>8. ASSUME NEW c \in Callers, WaitFlush(c) PROVE Calls'
  BY <1>8 DEF WaitFlush, Calls, TypeOK
<1>9. ASSUME NEW c \in Callers, WaitJudge(c) PROVE Calls'
  BY <1>9 DEF WaitJudge, Calls, TypeOK
<1>10. ASSUME NEW c \in Callers, WaitCleanup(c) PROVE Calls'
  BY <1>10 DEF WaitCleanup, Calls, TypeOK
<1>11. ASSUME NEW c \in Callers, CallKill(c) PROVE Calls'
  BY <1>11 DEF CallKill, Calls, TypeOK
<1>12. ASSUME NEW c \in Callers, KillTerm(c) PROVE Calls'
  BY <1>12 DEF KillTerm, Calls, TypeOK
<1>13. ASSUME NEW c \in Callers, KillTimeout(c) PROVE Calls'
  BY <1>13 DEF KillTimeout, Calls, TypeOK
<1>14. ASSUME NEW c \in Callers, KillReturn(c) PROVE Calls'
  BY <1>14 DEF KillReturn, Calls, TypeOK
<1>15. CASE StartPanics
  BY <1>15 DEF StartPanics, Calls, TypeOK
<1>16. ASSUME NEW c \in Callers, WaitPanics(c) \/ KillPanics(c) PROVE Calls'
  BY <1>16 DEF WaitPanics, KillPanics, Calls, TypeOK
<1>17. ASSUME NEW c \in Callers, WaitClear(c) PROVE Calls'
  BY <1>17 DEF WaitClear, Stranded, Calls, TypeOK
<1>18. ASSUME NEW c \in Callers, KillCheck(c) PROVE Calls'
  BY <1>18 DEF KillCheck, Calls, TypeOK
<1>19. CASE UNCHANGED <<call, wpc, res>>
  BY <1>19 DEF Calls
<1>20. CASE StartRefused \/ UNCHANGED vars \/ \E c \in Callers : KillNothing(c)
  BY <1>20, <1>19 DEF StartRefused, KillNothing, vars
<1>21. CASE \/ Expire \/ WatchKill \/ MonitorFound \/ MonitorOver \/ MonitorKill
            \/ MonitorGone
            \/ ProgramForks \/ DescendantsLeave \/ DescendantsExit \/ StraysExit
            \/ \E s \in Streams :
                  \/ RelayCopy(s) \/ RelayEnd(s) \/ RelayDrain(s)
                  \/ RelayExit(s) \/ ProgramWrites(s) \/ ProgramCloses(s)
            \/ \E st \in {"zero", "nonzero", "term"} : ProgramExits(st)
  BY <1>21, <1>19 DEF Expire, WatchKill, MonitorFound, MonitorOver, MonitorKill,
     MonitorGone,
     RelayCopy, RelayEnd, RelayDrain, RelayExit, ProgramWrites, ProgramCloses,
     ProgramExits, ProgramForks, DescendantsLeave, DescendantsExit, StraysExit, callers
<1> QED
  BY <1>1, <1>2, <1>3, <1>4, <1>5, <1>6, <1>7, <1>8, <1>9, <1>10, <1>11, <1>12,
     <1>13, <1>14, <1>15, <1>16, <1>17, <1>18, <1>19, <1>20, <1>21
  DEF Next, Starting, Waiting, Killing, Helper, Program

\* It is the verdict of who judges the run that ProgramRun speaks of. Without a
\* program, while it lives and while there is something to read from it nobody does.
OneVerdict ==
  /\ \A c \in Callers : wpc[c] = "cleanup" => Verdict = res[c]
  /\ (\A c \in Callers : wpc[c] # "cleanup") => Verdict = "none"
  /\ ~cmd \/ child # "reaped" \/ open \/ (\E s \in Streams : relay[s] = "copy") =>
       \A c \in Callers : wpc[c] # "cleanup"

LEMMA Judges == IInv => OneVerdict
<1> SUFFICES ASSUME IInv PROVE OneVerdict
  OBVIOUS
<1>1. ASSUME NEW c \in Callers, wpc[c] = "cleanup" PROVE Verdict = res[c]
  <2>1. Judging = {c}
    BY <1>1 DEF IInv, Receipts, Past, Judging
  <2> QED
    BY <2>1 DEF Verdict
<1>2. (\A c \in Callers : wpc[c] # "cleanup") => Verdict = "none"
  BY DEF Verdict, Judging
<1>3. ASSUME NEW c \in Callers, wpc[c] = "cleanup"
      PROVE  cmd /\ child = "reaped" /\ ~open /\ \A s \in Streams : relay[s] # "copy"
  BY <1>3 DEF IInv, Receipts, Idle, Past, Reaped, Received
<1> QED
  BY <1>1, <1>2, <1>3 DEF OneVerdict

LEMMA NoVerdict ==
  ASSUME OneVerdict,
         ~cmd \/ child # "reaped" \/ open \/ \E s \in Streams : relay[s] = "copy"
  PROVE  Verdict = "none" /\ \A c \in Callers : wpc[c] # "cleanup"
BY DEF OneVerdict

\* Unless somebody comes to his verdict or hands it over, it stays.
LEMMA VerdictStays ==
  ASSUME OneVerdict, OneVerdict',
         \A c \in Callers : wpc[c] = "cleanup" <=> wpc'[c] = "cleanup",
         \A c \in Callers : wpc[c] = "cleanup" => res'[c] = res[c]
  PROVE  Verdict' = Verdict
<1>1. CASE \A c \in Callers : wpc[c] # "cleanup"
  BY <1>1 DEF OneVerdict
<1>2. CASE \E c \in Callers : wpc[c] = "cleanup"
  BY <1>2 DEF OneVerdict
<1> QED
  BY <1>1, <1>2

\* A step that ProgramRun does not see.
LEMMA Unseen ==
  ASSUME UNCHANGED <<cmd, wrote, ctx, oom, captured>>, Verdict' = Verdict,
         child' = child \/ (child # "running" /\ child' # "running")
  PROVE  UNCHANGED Run!vars
BY DEF Run!vars

\* The program ends, by itself or by a signal.
LEMMA ProgramEnds ==
  ASSUME cmd, child = "running", child' = "zombie", Verdict' = Verdict,
         UNCHANGED <<cmd, wrote, ctx, oom, captured>>
  PROVE  Run!Ends
BY DEF Run!Ends

LEMMA RefinementStep ==
  ASSUME IInv, OneVerdict, OneVerdict', Calls, NoNilDereference', [Next]_vars
  PROVE  [Run!Next]_Run!vars
<1>0. /\ TypeOK /\ Idle /\ Reasons /\ (child = "running" => cmd)
      /\ wpc \in [Callers -> Places] /\ Owner \in Callers
  BY DEF IInv, Idle, Callers, TypeOK, Places
<1>1. CASE StartFails
  <2>1. ~cmd /\ ~cmd'
    BY <1>1 DEF StartFails, SetFields
  <2>2. Verdict = "none" /\ Verdict' = "none"
    BY <2>1 DEF OneVerdict
  <2> QED
    BY <1>1, <2>1, <2>2 DEF StartFails, SetFields, output, Run!Next, Run!BeginFails
<1>2. ASSUME NEW next \in {"idle", "stdin", "waiting"}, StartOk(next) PROVE Run!Begin
  <2>1. ~cmd /\ child' # "reaped"
    BY <1>2 DEF StartOk, SetFields
  <2>2. Verdict = "none"
    BY <2>1, NoVerdict
  <2>3. Verdict' = "none"
    BY <2>1 DEF OneVerdict
  <2> QED
    BY <1>2, <2>1, <2>2, <2>3 DEF StartOk, SetFields, Zero, Run!Begin, Run!Nothing
<1>3. ~StartPanics /\ \A c \in Callers : ~WaitPanics(c) /\ ~KillPanics(c)
  BY <1>0 DEF StartPanics, WaitPanics, KillPanics, NoNilDereference
<1>4. ASSUME NEW c \in Callers, WaitClear(c) PROVE UNCHANGED Run!vars
  <2>1. \A d \in Callers : wpc[d] = "cleanup" <=> wpc'[d] = "cleanup"
    BY <1>4 DEF WaitClear, Stranded
  <2>2. Verdict' = Verdict
    BY <1>4, <2>1, VerdictStays DEF WaitClear
  <2> QED
    BY <1>4, <2>2, Unseen DEF WaitClear, helpers, program, output
<1>5. CASE StdinWritten \/ CallWait
  <2>1. /\ wpc[Owner] = "none" /\ wpc'[Owner] = "enter" /\ res' = res
        /\ \A c \in Callers \ {Owner} : wpc'[c] = wpc[c]
    BY <1>0, <1>5 DEF StdinWritten, CallWait, Calls
  <2>2. Verdict' = Verdict
    BY <2>1, VerdictStays
  <2> QED
    BY <1>5, <2>2, Unseen
    DEF StdinWritten, CallWait, fields, helpers, program, output
<1>6. ASSUME NEW c \in Callers,
             \/ WaitEnter(c) \/ (\E s \in Streams : WaitReceive(c, s)) \/ WaitFlush(c)
             \/ KillCheck(c) \/ CallKill(c) \/ KillTerm(c) \/ KillReturn(c)
      PROVE  UNCHANGED Run!vars
  <2>1. /\ wpc[c] # "cleanup" /\ wpc'[c] # "cleanup"
        /\ \A d \in Callers \ {c} : wpc'[d] = wpc[d] /\ res'[d] = res[d]
    BY <1>0, <1>6 DEF WaitEnter, WaitReceive, WaitFlush, KillCheck, CallKill, KillTerm,
       KillReturn, Calls, TypeOK
  <2>2. Verdict' = Verdict
    BY <2>1, VerdictStays
  <2> QED
    BY <1>6, <2>2, Unseen DEF WaitEnter, WaitReceive, WaitFlush, KillCheck, CallKill,
       KillTerm,
       KillReturn, fields, helpers, program, output
<1>7. ASSUME NEW c \in Callers, WaitReap(c) PROVE [Run!Next]_Run!vars
  <2>1. /\ cmd /\ wpc[c] = "reap" /\ child = "zombie" /\ child' = "reaped"
    BY <1>7 DEF WaitReap, IInv, Receipts, Past
  <2>2. UNCHANGED <<cmd, wrote, ctx, oom, captured>>
    BY <1>7 DEF WaitReap, fields, output
  <2>3. Verdict = "none" /\ \A d \in Callers : wpc[d] # "cleanup"
    BY <2>1, NoVerdict
  <2>4. CASE watch = "killed" /\ status = "zero"
    <3>1. ctx = "expired"
      BY <1>0, <2>1, <2>4 DEF Reasons
    <3>2. wpc'[c] = "cleanup" /\ res'[c] = "ctxerr"
      BY <1>0, <1>7, <2>4 DEF WaitReap, TypeOK
    <3>3. Verdict' = "ctxerr"
      BY <3>2 DEF OneVerdict
    <3>4. Run!Judge("ctxerr")
      BY <2>1, <2>2, <2>3, <3>1, <3>3 DEF Run!Judge, Run!Nothing, Zero
    <3> QED
      BY <3>4 DEF Run!Next
  <2>5. CASE ~(watch = "killed" /\ status = "zero")
    <3>1. \A d \in Callers : wpc'[d] # "cleanup"
      BY <1>0, <1>7, <2>3, <2>5 DEF WaitReap
    <3>2. Verdict' = "none"
      BY <3>1 DEF OneVerdict
    <3> QED
      BY <2>1, <2>2, <2>3, <3>2, Unseen
  <2> QED
    BY <2>4, <2>5
<1>8. ASSUME NEW c \in Callers, WaitJudge(c) PROVE Run!Next
  <2>1. /\ cmd /\ wpc[c] = "judge" /\ child = "reaped" /\ wpc'[c] = "cleanup"
        /\ \A d \in Callers : wpc[d] # "cleanup"
    BY <1>0, <1>8 DEF WaitJudge, IInv, Receipts, Past, Idle, Reaped
  <2>2. UNCHANGED <<cmd, child, wrote, ctx, oom, captured>>
    BY <1>8 DEF WaitJudge, fields, helpers, program, output
  <2>3. res'[c] = IF ctx = "expired" THEN "timeout" ELSE IF oom THEN "oom" ELSE "ok"
    BY <1>0, <1>8, <2>1 DEF WaitJudge, TypeOK
  <2>4. captured = Run!Captured
    <3>1. \A s \in Streams : captured[s] = Min(wrote[s], MaxOut)
      BY <2>1 DEF IInv, Receipts, Past, Received, Accounts
    <3>2. captured = [s \in Streams |-> captured[s]]
      BY <1>0 DEF TypeOK
    <3> QED
      BY <3>1, <3>2 DEF Run!Captured, Min
  <2>5. Verdict = "none" /\ Verdict' = res'[c]
    BY <2>1 DEF OneVerdict
  <2>6. CASE ctx = "expired"
    <3>1. Run!Judge("timeout")
      BY <2>1, <2>2, <2>3, <2>5, <2>6 DEF Run!Judge, Run!Nothing, Zero
    <3> QED
      BY <3>1 DEF Run!Next
  <2>7. CASE ctx # "expired" /\ oom
    <3>1. Run!Judge("oom")
      BY <2>1, <2>2, <2>3, <2>4, <2>5, <2>7 DEF Run!Judge
    <3> QED
      BY <3>1 DEF Run!Next
  <2>8. CASE ctx # "expired" /\ ~oom
    <3>1. Run!Judge("ok")
      BY <2>1, <2>2, <2>3, <2>4, <2>5, <2>8 DEF Run!Judge
    <3> QED
      BY <3>1 DEF Run!Next
  <2> QED
    BY <2>6, <2>7, <2>8
<1>9. ASSUME NEW c \in Callers, WaitCleanup(c) PROVE Run!Deliver
  <2>1. wpc[c] = "cleanup" /\ ~cmd' /\ ctx' = "cancelled"
    BY <1>9 DEF WaitCleanup
  <2>2. Verdict = res[c] /\ Verdict' = "none"
    BY <2>1 DEF OneVerdict
  <2>3. UNCHANGED <<wrote, oom>>
    BY <1>9 DEF WaitCleanup, output
  <2>4. res[c] \in {"ok", "timeout", "oom", "ctxerr"}
    BY <2>1 DEF Calls
  <2> QED
    BY <2>1, <2>2, <2>3, <2>4 DEF Run!Deliver, Run!Nothing, Zero
<1>10. ASSUME UNCHANGED <<wpc, res>> PROVE Verdict' = Verdict
  BY <1>10, VerdictStays
<1>11. ASSUME NEW by, KillGroup(by), UNCHANGED <<cmd, wrote, ctx, oom, captured, wpc, res>>
      PROVE  [Run!Next]_Run!vars
  <2>1. CASE child = "running"
    BY <1>0, <1>10, <1>11, <2>1, ProgramEnds DEF KillGroup, Run!Next
  <2>2. CASE child # "running"
    BY <1>10, <1>11, <2>2, Unseen DEF KillGroup
  <2> QED
    BY <2>1, <2>2
<1>12. ASSUME NEW c \in Callers, KillTimeout(c) PROVE [Run!Next]_Run!vars
  <2>1. UNCHANGED <<cmd, wrote, ctx, oom, captured, wpc, res>>
    BY <1>12 DEF KillTimeout, fields, helpers, output
  <2>2. CASE target[c] = starts
    BY <1>11, <1>12, <2>1, <2>2 DEF KillTimeout
  <2>3. CASE target[c] # starts
    BY <1>10, <1>12, <2>1, <2>3, Unseen DEF KillTimeout
  <2> QED
    BY <2>2, <2>3
<1>13. CASE Expire
  <2>1. ctx' = "expired" /\ UNCHANGED <<cmd, child, wrote, oom, captured, wpc, res>>
    BY <1>13 DEF Expire, fields, program, output, callers
  <2> QED
    BY <1>10, <2>1 DEF Run!Next, Run!DeadlinePasses
<1>14. CASE WatchKill
  <2>1. UNCHANGED <<cmd, wrote, ctx, oom, captured, wpc, res>>
    BY <1>14 DEF WatchKill, fields, output, callers
  <2>2. CASE child = "running"
    BY <1>0, <1>10, <1>14, <2>1, <2>2, ProgramEnds DEF WatchKill, Run!Next
  <2>3. CASE child # "running"
    BY <1>10, <1>14, <2>1, <2>3, Unseen DEF WatchKill
  <2> QED
    BY <2>2, <2>3
<1>15. CASE MonitorOver
  <2>1. /\ cmd /\ oom' = TRUE
        /\ UNCHANGED <<cmd, child, wrote, ctx, captured, wpc, res>>
    BY <1>0, <1>15 DEF MonitorOver, Idle, fields, program, output, callers
  <2> QED
    BY <1>10, <2>1 DEF Run!Next, Run!Weighed
<1>16. CASE MonitorKill
  <2>1. UNCHANGED <<cmd, wrote, ctx, oom, captured, wpc, res>> /\ KillGroup("oom")
    BY <1>16 DEF MonitorKill, fields, output, callers
  <2> QED
    BY <1>11, <2>1
<1>17. ASSUME NEW s \in Streams, RelayCopy(s) PROVE UNCHANGED Run!vars
  <2>1. relay[s] = "copy" /\ UNCHANGED <<cmd, child, wrote, ctx, oom, wpc, res>>
    BY <1>17 DEF RelayCopy, fields, helpers, program, callers
  <2>2. Verdict = "none"
    BY <2>1, NoVerdict
  <2> QED
    BY <1>10, <2>1, <2>2 DEF Run!vars
<1>18. ASSUME NEW s \in Streams, ProgramWrites(s) PROVE Run!Prints(s)
  <2>1. open /\ cmd
    BY <1>0, <1>18 DEF ProgramWrites, Idle
  <2>2. /\ wrote' = [wrote EXCEPT ![s] = @ + 1]
        /\ UNCHANGED <<cmd, child, ctx, oom, captured, wpc, res>>
    BY <1>18 DEF ProgramWrites, fields, helpers, program, callers
  <2>3. Verdict = "none"
    BY <2>1, NoVerdict
  <2> QED
    BY <1>10, <2>1, <2>2, <2>3 DEF Run!Prints
<1>19. ASSUME NEW st \in {"zero", "nonzero", "term"}, ProgramExits(st) PROVE Run!Ends
  BY <1>0, <1>10, <1>19, ProgramEnds DEF ProgramExits, fields, helpers, output, callers
<1>20. CASE UNCHANGED <<cmd, child, wrote, ctx, oom, captured, wpc, res>>
  BY <1>10, <1>20, Unseen
<1>21. CASE StartRefused \/ UNCHANGED vars \/ \E c \in Callers : KillNothing(c)
  BY <1>21, <1>20 DEF StartRefused, KillNothing, vars
<1>22. CASE \/ MonitorFound \/ MonitorGone \/ ProgramForks \/ DescendantsLeave
            \/ DescendantsExit \/ StraysExit
            \/ \E s \in Streams :
                  RelayEnd(s) \/ RelayDrain(s) \/ RelayExit(s) \/ ProgramCloses(s)
  BY <1>22, <1>20 DEF MonitorFound, MonitorGone, ProgramForks, DescendantsLeave,
     DescendantsExit, StraysExit, RelayEnd, RelayDrain,
     RelayExit, ProgramCloses, fields, helpers, program, output, callers
<1> QED
  BY <1>1, <1>2, <1>3, <1>4, <1>5, <1>6, <1>7, <1>8, <1>9, <1>12, <1>13, <1>14,
     <1>15, <1>16, <1>17, <1>18, <1>19, <1>21, <1>22
  DEF Next, Starting, Waiting, Killing, Helper, Program, Run!Next

\* However many goroutines call Kill while the owner starts programs and waits, an
\* Executable does what ProgramRun promises, until a call that meets cleared fields
\* panics and ends the process: a program is judged once, after it has ended and by
\* the reasons it has given, and the verdict carries what it has printed
\* (executable.go:212-391).
THEOREM RunRefined == Spec /\ []NoNilDereference => ImplementsProgramRun
<1>1. Init => Run!Init
  BY DEF Init, Run!Init, Run!Nothing, Zero, Verdict, Judging
<1>2. Init => Calls
  BY DEF Init, Calls
<1>3. IInv /\ Calls /\ [Next]_vars => Calls'
  BY CallsStep DEF IInv
<1>4. IInv /\ OneVerdict /\ OneVerdict' /\ Calls /\ NoNilDereference' /\ [Next]_vars
      => [Run!Next]_Run!vars
  BY RefinementStep
<1> QED
  BY <1>1, <1>2, <1>3, <1>4, Judges, Invariance, PTL
  DEF Spec, ImplementsProgramRun, Run!Spec

-----------------------------------------------------------------------------
(***************************************************************************)
(* One goroutine at a time. What goes wrong when two are inside calls at   *)
(* once, or when Wait is called without a program to wait for, that it     *)
(* meets cleared fields, or waits for messages on readDone that do not     *)
(* come, goes wrong in no other way, however many goroutines take turns.   *)
(***************************************************************************)

\* No two goroutines are inside calls.
OneInside == \A c, d \in Callers : c # d => call[c] = "idle" \/ call[d] = "idle"

\* Somebody calls Start (which may be over in a step), Wait, or a Kill that has
\* something to do.
Begins == starts' # starts \/ \E c \in Callers : call[c] = "idle" /\ call'[c] # "idle"

AllOutside == \A c \in Callers : call[c] = "idle"

\* Nobody calls while another is inside a call, and Wait is called only for a program
\* that has been started and not been waited for.
InTurn == (Begins => AllOutside) /\ (CallWait => cmd)

TakingTurns == [][InTurn]_vars

\* Nobody has received a message, or has done so and cleared the fields.
Unreceived == {"none", "term", "enter", "recv2", "clear", "done"}

\* Whoever is on the way to its receives has a program, both of whose messages are
\* to come; it is reaped by a Wait that has received them, before its cleanup.
Attended ==
  /\ ~torn
  /\ \A c \in Callers :
       /\ wpc[c] \notin {"stuck", "panic"}
       /\ call[c] \in {"stdin", "check"} \/ wpc[c] \notin {"none", "clear", "done"} => cmd
       /\ wpc[c] = "recv1" => \E s \in Streams : Coming(s)
  /\ cmd /\ (\A c \in Callers : wpc[c] \in Unreceived) => \A s \in Streams : Coming(s)
  /\ cmd /\ (\A c \in Callers : wpc[c] \in Unreceived \cup {"recv1", "reap"}) =>
       child \in {"running", "zombie"}

\* A caller inside a call has the Wait to itself.
LEMMA OthersOutside ==
  ASSUME OneInside, Calls, NEW c \in Callers, call[c] # "idle"
  PROVE  \A d \in Callers \ {c} : call[d] = "idle" /\ wpc[d] = "none"
BY DEF OneInside, Calls

LEMMA Served ==
  ASSUME TypeOK, Calls, OneInside, Attended
  PROVE  NeverStranded /\ NoNilDereference
<1> SUFFICES ASSUME NEW c \in Callers
             PROVE  /\ wpc[c] = "recv2" => \A s \in Streams : Coming(s)
                    /\ wpc[c] = "reap" => child \in {"running", "zombie"}
  BY DEF NeverStranded, NoNilDereference, Attended
<1>1. wpc[c] # "none" => cmd \/ wpc[c] \in {"clear", "done"}
  BY DEF Attended
<1>2. wpc[c] # "none" => \A d \in Callers \ {c} : wpc[d] = "none"
  BY OthersOutside DEF Calls
<1> QED
  BY <1>1, <1>2 DEF Attended, Unreceived

LEMMA InitAttended == Init => Attended /\ OneInside /\ Calls
BY DEF Init, Attended, OneInside, Calls

LEMMA AttendedStep ==
  ASSUME TypeOK, Calls, OneInside, Idle, Attended, [Next]_vars, vars' # vars => InTurn
  PROVE  Attended'
<1> USE DEF Attended, Coming, Unreceived, TypeOK
<1>0. Owner \in Callers /\ (cmd => handle)
  BY DEF Callers, Idle
<1>1. ASSUME SetFields PROVE ~torn' /\ \A c \in Callers : call[c] = "idle" /\ wpc[c] = "none"
  <2>0. starts' # starts
    BY <1>1, BoundsAssumption DEF SetFields
  <2>1. Begins /\ vars' # vars
    BY <2>0 DEF Begins, vars
  <2>2. \A c \in Callers : call[c] = "idle" /\ wpc[c] = "none"
    BY <2>1 DEF InTurn, AllOutside, Calls
  <2> QED
    BY <1>1, <2>2 DEF SetFields, Clearing
<1>2. CASE StartFails
  BY <1>2, <1>0, <1>1 DEF StartFails, SetFields, Stranded, program, Calls
<1>3. CASE StartPanics
  <2>1. Begins /\ vars' # vars
    BY <1>0, <1>3 DEF StartPanics, Begins, vars
  <2>2. \A c \in Callers : wpc[c] = "none"
    BY <2>1 DEF InTurn, AllOutside, Calls
  <2> QED
    BY <1>3, <2>2 DEF StartPanics, Clearing
<1>4. ASSUME NEW c \in Callers, WaitPanics(c) \/ KillPanics(c) PROVE Attended'
  BY <1>0, <1>4 DEF WaitPanics, KillPanics
<1>5. ASSUME NEW c \in Callers, WaitClear(c) PROVE Attended'
  <2>1. call[c] # "idle" /\ call[c] \notin {"stdin", "check"} /\ wpc[c] = "clear"
    BY <1>5 DEF WaitClear, Calls
  <2>2. \A d \in Callers \ {c} : call[d] = "idle" /\ wpc[d] = "none"
    BY <2>1, OthersOutside
  <2>3. \A d \in Callers : wpc'[d] \in {"none", "done"} /\ call'[d] \notin {"stdin", "check"}
    BY <1>5, <2>1, <2>2 DEF WaitClear, Stranded
  <2>4. ~cmd /\ ~cmd' /\ ~torn'
    BY <1>5 DEF WaitClear, Idle, Clearing
  <2> QED
    BY <2>3, <2>4
<1>6. ASSUME NEW c \in Callers, KillCheck(c) PROVE Attended'
  BY <1>6 DEF KillCheck, fields, program
<1>7. ASSUME NEW next \in {"idle", "stdin", "waiting"}, StartOk(next) PROVE Attended'
  <2>1. ~cmd /\ cmd' /\ child' = "running" /\ relay' = [s \in Streams |-> "copy"]
    BY <1>7 DEF StartOk, SetFields
  <2>2. wpc' = [Stranded EXCEPT ![Owner] = IF next = "waiting" THEN "enter" ELSE "none"]
    BY <1>7 DEF StartOk
  <2>3. \A c \in Callers : wpc'[c] \in {"none", "done", "enter"}
    BY <1>7, <1>1, <2>1, <2>2 DEF StartOk, Stranded
  <2>4. ~torn'
    BY <1>7, <1>1 DEF StartOk
  <2> QED
    BY <2>1, <2>3, <2>4
<1>8. CASE StdinWritten \/ CallWait
  <2>1. vars' # vars
    BY <1>0, <1>8 DEF StdinWritten, CallWait, vars
  <2>2. cmd
    BY <1>0, <1>8, <2>1 DEF StdinWritten, InTurn
  <2>3. /\ UNCHANGED <<cmd, torn, child, relay>> /\ call'[Owner] = "waiting"
        /\ wpc[Owner] = "none" /\ wpc'[Owner] = "enter"
        /\ \A c \in Callers \ {Owner} : call'[c] = call[c] /\ wpc'[c] = wpc[c]
    BY <1>8, <1>0 DEF StdinWritten, CallWait, fields, helpers, program, Calls
  <2> QED
    BY <1>0, <2>2, <2>3
<1>9. ASSUME NEW c \in Callers, WaitEnter(c) PROVE Attended'
  BY <1>9 DEF WaitEnter, fields, helpers, program
<1>10. ASSUME NEW c \in Callers, WaitFlush(c) \/ WaitJudge(c) PROVE Attended'
  BY <1>10 DEF WaitFlush, WaitJudge, fields, helpers, program
<1>11. ASSUME NEW c \in Callers, NEW s \in Streams, WaitReceive(c, s) PROVE Attended'
  <2>1. wpc[c] \in {"recv2", "recv1"} /\ cmd /\ UNCHANGED <<cmd, torn, child, call>>
    BY <1>11 DEF WaitReceive, fields, program
  <2>2. \A d \in Callers \ {c} : wpc[d] = "none" /\ wpc'[d] = "none"
    BY <1>11, <2>1, OthersOutside DEF WaitReceive, Calls
  <2>3. \A t \in Streams \ {s} : relay'[t] = relay[t]
    BY <1>11 DEF WaitReceive
  <2>4. CASE wpc[c] = "recv2"
    <3>1. (\A t \in Streams : Coming(t)) /\ child \in {"running", "zombie"}
      BY <2>1, <2>2, <2>4
    <3>2. wpc'[c] = "recv1"
      BY <1>11, <2>4 DEF WaitReceive
    <3>3. \E t \in Streams : Coming(t)'
      BY <2>3, <3>1 DEF Streams
    <3> QED
      BY <2>1, <2>2, <3>1, <3>2, <3>3
  <2>5. CASE wpc[c] = "recv1"
    <3>1. child \in {"running", "zombie"}
      BY <2>1, <2>2, <2>5
    <3>2. wpc'[c] = "reap"
      BY <1>11, <2>5 DEF WaitReceive
    <3> QED
      BY <2>1, <2>2, <3>1, <3>2
  <2> QED
    BY <2>1, <2>4, <2>5
<1>12. ASSUME NEW c \in Callers, WaitReap(c) PROVE Attended'
  BY <1>12 DEF WaitReap, fields
<1>13. ASSUME NEW c \in Callers, WaitCleanup(c) PROVE Attended'
  <2>1. call[c] # "idle" /\ ~cmd'
    BY <1>13 DEF WaitCleanup, Calls
  <2>2. \A d \in Callers \ {c} : call[d] = "idle" /\ wpc[d] = "none"
    BY <2>1, OthersOutside
  <2>3. \A d \in Callers : wpc'[d] \in {"none", "clear"} /\ call'[d] \notin {"stdin", "check"}
    BY <1>13, <2>2 DEF WaitCleanup, Calls
  <2> QED
    BY <1>13, <2>1, <2>3 DEF WaitCleanup
<1>14. ASSUME NEW c \in Callers, CallKill(c) \/ KillTerm(c) \/ KillTimeout(c) PROVE Attended'
  BY <1>14 DEF CallKill, KillTerm, KillTimeout, KillGroup, fields, helpers, program,
     Calls
<1>15. ASSUME NEW c \in Callers, KillReturn(c) PROVE Attended'
  BY <1>15 DEF KillReturn, fields, helpers, program
<1>16. CASE StartRefused \/ UNCHANGED vars \/ \E c \in Callers : KillNothing(c)
  BY <1>16 DEF StartRefused, KillNothing, vars, fields, program, callers
<1>17. CASE Helper
  <2>1. /\ UNCHANGED <<cmd, torn, call, wpc>> /\ (child' = child \/ child' = "zombie")
    BY <1>17 DEF Helper, Expire, WatchKill, RelayCopy, RelayEnd, RelayDrain, RelayExit,
       MonitorFound, MonitorOver, MonitorKill, MonitorGone, KillGroup, fields, helpers,
       program, callers
  <2>2. \A s \in Streams : Coming(s) => Coming(s)'
    BY <1>17 DEF Helper, Expire, WatchKill, RelayCopy, RelayEnd, RelayDrain, RelayExit,
       MonitorFound, MonitorOver, MonitorKill, MonitorGone
  <2> QED
    BY <2>1, <2>2
<1>18. CASE Program
  <2>1. UNCHANGED <<cmd, torn, call, relay, wpc>> /\ (child' = child \/ child' = "zombie")
    BY <1>18 DEF Program, ProgramWrites, ProgramCloses, ProgramExits, ProgramForks,
       DescendantsLeave, DescendantsExit, StraysExit, fields, program, callers
  <2> QED
    BY <2>1
<1> QED
  BY <1>2, <1>3, <1>4, <1>5, <1>6, <1>7, <1>8, <1>9, <1>10, <1>11, <1>12, <1>13,
     <1>14, <1>15, <1>16, <1>17, <1>18
  DEF Next, Starting, Waiting, Killing

\* Only a Start changes starts.
LEMMA StartsOnly == ASSUME [Next]_vars, starts' # starts PROVE SetFields
<1>1. CASE Starting
  BY <1>1 DEF Starting, StartRefused, StartFails, StartPanics, StartOk, StdinWritten,
     vars
<1>2. CASE Waiting
  BY <1>2 DEF Waiting, CallWait, WaitEnter, WaitReceive, WaitReap, WaitFlush, WaitJudge,
     WaitCleanup, WaitClear, WaitPanics
<1>3. CASE Killing
  BY <1>3 DEF Killing, KillNothing, KillCheck, CallKill, KillPanics, KillTerm,
     KillTimeout,
     KillReturn, vars
<1>4. CASE Helper
  BY <1>4 DEF Helper, Expire, WatchKill, RelayCopy, RelayEnd, RelayDrain, RelayExit,
     MonitorFound, MonitorOver, MonitorKill, MonitorGone
<1>5. CASE Program
  BY <1>5 DEF Program, ProgramWrites, ProgramCloses, ProgramExits, ProgramForks,
     DescendantsLeave, DescendantsExit, StraysExit
<1> QED
  BY <1>1, <1>2, <1>3, <1>4, <1>5 DEF Next, vars

LEMMA OneInsideStep ==
  ASSUME TypeOK, OneInside, [Next]_vars, vars' # vars => InTurn
  PROVE  OneInside'
<1>1. \E c \in Callers : \A d \in Callers \ {c} : call'[d] = call[d]
  <2>1. Owner \in Callers
    BY DEF Callers
  <2>2. CASE Starting
    BY <2>1, <2>2 DEF Starting, StartRefused, StartFails, StartPanics, StartOk,
       StdinWritten,
       vars, TypeOK
  <2>3. CASE Waiting
    BY <2>1, <2>3 DEF Waiting, CallWait, WaitEnter, WaitReceive, WaitReap, WaitFlush,
       WaitJudge, WaitCleanup, WaitClear, WaitPanics, TypeOK
  <2>4. CASE Killing
    BY <2>4 DEF Killing, KillNothing, KillCheck, CallKill, KillPanics, KillTerm,
       KillTimeout, KillReturn, vars, TypeOK
  <2>5. CASE Helper
    BY <2>1, <2>5 DEF Helper, Expire, WatchKill, RelayCopy, RelayEnd, RelayDrain,
       RelayExit,
       MonitorFound, MonitorOver, MonitorKill, MonitorGone, callers
  <2>6. CASE Program
    BY <2>1, <2>6 DEF Program, ProgramWrites, ProgramCloses, ProgramExits, ProgramForks,
       DescendantsLeave, DescendantsExit, StraysExit, callers
  <2>7. CASE UNCHANGED vars
    BY <2>1, <2>7 DEF vars
  <2> QED
    BY <2>2, <2>3, <2>4, <2>5, <2>6, <2>7 DEF Next
<1>2. CASE Begins
  <2>1. vars' # vars
    BY <1>2 DEF Begins, vars
  <2> QED
    BY <1>1, <1>2, <2>1 DEF InTurn, AllOutside, OneInside
<1>3. CASE ~Begins
  BY <1>3 DEF Begins, OneInside
<1> QED
  BY <1>2, <1>3

\* However many goroutines use an Executable, as long as they take turns no Wait meets
\* cleared fields, waits for a message that both relays have already sent or for a
\* program that has been reaped, or is left with a channel that has been replaced
\* (executable.go:323-348).
THEOREM TakingTurnsServed ==
  Spec /\ TakingTurns => [](NeverStranded /\ NoNilDereference)
<1>1. TypeOK /\ Calls /\ OneInside /\ Idle /\ Attended /\ [Next]_vars /\ [InTurn]_vars
      => Attended' /\ OneInside'
  BY AttendedStep, OneInsideStep
<1>2. TypeOK /\ Calls /\ [Next]_vars => Calls'
  BY CallsStep
<1>3. IInv => TypeOK /\ Idle
  BY DEF IInv
<1>4. TypeOK /\ Calls /\ OneInside /\ Attended => NeverStranded /\ NoNilDereference
  BY Served
<1> QED
  BY <1>1, <1>2, <1>3, <1>4, InitAttended, Invariance, PTL DEF Spec, TakingTurns

\* A goroutine that has the Executable to itself need only see to it that there is a
\* program when it calls Wait: then no call of it, Kill included, meets cleared fields
\* or waits for what cannot come (executable.go:325-348).
THEOREM OneCallerServed ==
  ASSUME Killers = {}
  PROVE  Spec /\ [][CallWait => cmd]_vars => [](NeverStranded /\ NoNilDereference)
<1>1. TypeOK /\ [Next]_vars /\ [CallWait => cmd]_vars => [InTurn]_vars
  <2> SUFFICES ASSUME [Next]_vars, CallWait => cmd, Begins PROVE AllOutside
    BY DEF InTurn
  <2>1. CASE starts' # starts
    <3>1. SetFields
      BY <2>1, StartsOnly
    <3> QED
      BY <3>1 DEF SetFields, AllOutside, Callers
  <2>2. CASE \E c \in Callers : call[c] = "idle" /\ call'[c] # "idle"
    BY <2>2 DEF AllOutside, Callers
  <2> QED
    BY <2>1, <2>2 DEF Begins
<1>2. IInv => TypeOK
  BY DEF IInv
<1> QED
  BY <1>1, <1>2, TakingTurnsServed, Invariance, PTL DEF Spec, TakingTurns

-----------------------------------------------------------------------------
(***************************************************************************)
(* What Kill achieves, whoever else is inside the Executable and whether   *)
(* or not it comes to return.                                              *)
(***************************************************************************)

\* After its SIGKILL no Kill waits for its program or for what is left of the group:
\* the relays come to the end of their streams and the program can be reaped, unless
\* descendants that have left the group hold its output.
KilledGroup ==
  \A c \in Callers : call[c] = "killed" /\ target[c] = starts =>
    /\ child # "running"
    /\ \A s \in Streams : Eof(s) \/ s \in strays
    /\ wpc[c] = "reap" => child = "zombie"

\* A Kill that returns leaves the program it has captured reaped, unless that has
\* made room for another one.
KillTerminates ==
  [][\A c \in Callers : KillReturn(c) => child = "reaped" \/ starts # target[c]]_vars

\* Only a new program, which no Kill has captured yet, is neither killed nor reaped.
KInv ==
  /\ cmd => child # "none"
  /\ cmd /\ child = "reaped" => \A s \in Streams : Received(s)
  /\ \A c \in Callers :
       /\ target[c] <= starts
       /\ call[c] = "killed" /\ target[c] = starts => child # "running" /\ desc = {}
       /\ wpc[c] \in {"clear", "done"} /\ target[c] = starts => child = "reaped"
       /\ wpc[c] = "reap" => child # "reaped"

\* A program that has been killed or reaped stays so, and gets no descendants.
LEMMA KInvKept ==
  ASSUME TypeOK, KInv, UNCHANGED <<starts, target>>,
         child # "running" => child' # "running" /\ desc' \subseteq desc,
         child = "reaped" <=> child' = "reaped", child' = "none" => child = "none",
         cmd' => cmd,
         \A s \in Streams : Received(s) => Received(s)',
         \A c \in Callers :
           /\ call'[c] = "killed" /\ target[c] = starts =>
                call[c] = "killed" \/ (child' # "running" /\ desc' = {})
           /\ wpc'[c] \in {"clear", "done"} =>
                wpc[c] \in {"clear", "done"} \/ child' = "reaped"
           /\ wpc'[c] = "reap" => wpc[c] = "reap"
  PROVE  KInv'
BY DEF KInv

LEMMA KInvStep ==
  ASSUME TypeOK, Receipts, Idle, KInv, [Next]_vars
  PROVE  KInv'
<1> USE DEF TypeOK
<1>0. /\ starts \in Nat /\ \A c \in Callers : target[c] \in Nat
      /\ \A c \in Callers : target[c] <= starts
  BY BoundsAssumption DEF KInv
<1>1. CASE StartFails \/ \E next \in {"idle", "stdin", "waiting"} : StartOk(next)
  <2>1. starts' = starts + 1 /\ target' = target
    BY <1>1 DEF StartFails, StartOk, SetFields
  <2>2. \A c \in Callers : target'[c] < starts'
    BY <1>0, <2>1
  <2>3. ~cmd /\ (child' = child \/ child' = "running") /\ (cmd' => child' = "running")
    BY <1>1 DEF StartFails, StartOk, SetFields, program
  <2>4. \A c \in Callers : wpc'[c] # "reap"
    <3>1. \A c \in Callers : wpc[c] # "reap"
      BY <2>3, NobodyPast DEF Past
    <3>2. wpc' = Stranded \/ \E p \in {"enter", "none"} : wpc' = [Stranded EXCEPT ![Owner] = p]
      BY <1>1 DEF StartFails, StartOk
    <3> QED
      BY <3>1, <3>2 DEF Stranded
  <2> QED
    BY <1>0, <2>1, <2>2, <2>3, <2>4 DEF KInv
<1>2. CASE StartPanics \/ StdinWritten \/ CallWait
  BY <1>2, KInvKept DEF StartPanics, StdinWritten, CallWait, fields, program, ends,
     Received
<1>3. ASSUME NEW c \in Callers,
             \/ WaitEnter(c) \/ WaitFlush(c) \/ WaitJudge(c) \/ WaitPanics(c)
             \/ KillCheck(c) \/ KillPanics(c) \/ KillTerm(c) \/ KillReturn(c)
      PROVE  KInv'
  BY <1>3, KInvKept DEF WaitEnter, WaitFlush, WaitJudge, WaitPanics, KillCheck,
     KillPanics,
     KillTerm, KillReturn, fields, program, ends, Received
<1>4. ASSUME NEW c \in Callers, NEW s \in Streams, WaitReceive(c, s) PROVE KInv'
  <2>1. /\ relay[s] = "send" /\ \A t \in Streams : Received(t) => Received(t)'
        /\ UNCHANGED <<cmd, child, desc, starts, target, call>>
        /\ wpc'[c] \in {"recv1", "reap"} /\ \A d \in Callers \ {c} : wpc'[d] = wpc[d]
    BY <1>4 DEF WaitReceive, Received, fields, program, ends
  <2>2. child # "reaped"
    BY <2>1 DEF KInv, Idle, Received
  <2> QED
    BY <1>0, <2>1, <2>2 DEF KInv
<1>5. ASSUME NEW c \in Callers, WaitReap(c) PROVE KInv'
  <2>1. /\ child' = "reaped" /\ wpc[c] = "reap" /\ wpc'[c] \in {"cleanup", "flush"}
        /\ \A d \in Callers \ {c} : wpc'[d] = wpc[d]
        /\ UNCHANGED <<cmd, desc, starts, target, call, relay>>
    BY <1>5 DEF WaitReap, fields, ends
  <2>2. (\A s \in Streams : Received(s)) /\ \A d \in Callers \ {c} : wpc[d] # "reap"
    BY <2>1 DEF Receipts, Past
  <2>3. child = "zombie"
    BY <1>5 DEF WaitReap
  <2> QED
    BY <1>0, <2>1, <2>2, <2>3 DEF KInv, Received
<1>6. ASSUME NEW c \in Callers, WaitClear(c) PROVE KInv'
  <2>1. /\ wpc[c] = "clear" /\ wpc'[c] \in {"none", "done"}
        /\ \A d \in Callers \ {c} : wpc'[d] = wpc[d] \/ wpc'[d] = "stuck"
        /\ call'[c] = call[c] \/ call'[c] = "idle"
        /\ \A d \in Callers \ {c} : call'[d] = call[d]
    BY <1>6 DEF WaitClear, Stranded
  <2>2. UNCHANGED <<cmd, child, desc, starts, target, relay>>
    BY <1>6 DEF WaitClear, program, ends
  <2> QED
    BY <1>0, <2>1, <2>2 DEF KInv, Received
<1>7. ASSUME NEW c \in Callers, WaitCleanup(c) PROVE KInv'
  <2>1. child = "reaped" /\ child' = child
    BY <1>7 DEF WaitCleanup, Idle, Reaped, program
  <2> QED
    BY <1>7, <2>1, KInvKept DEF WaitCleanup, ends, Received
<1>8. ASSUME NEW c \in Callers, KillTimeout(c) PROVE KInv'
  <2>1. \A d \in Callers \ {c} : call'[d] = call[d]
    BY <1>8 DEF KillTimeout
  <2>2. target[c] = starts => child' # "running" /\ desc' = {}
    BY <1>8 DEF KillTimeout, KillGroup
  <2>3. child # "running" => child' = child /\ desc' \subseteq desc
    BY <1>8 DEF KillTimeout, KillGroup
  <2>4. /\ UNCHANGED <<cmd, starts, target, wpc, relay>>
        /\ child = "reaped" <=> child' = "reaped"
        /\ (child' = "none" => child = "none")
    BY <1>8 DEF KillTimeout, KillGroup, fields
  <2> QED
    BY <2>1, <2>2, <2>3, <2>4, KInvKept DEF Received
<1>9. ASSUME NEW c \in Callers, CallKill(c) PROVE KInv'
  <2>1. /\ target'[c] = starts /\ call'[c] = "kill" /\ wpc'[c] = "term"
        /\ \A d \in Callers \ {c} :
             target'[d] = target[d] /\ call'[d] = call[d] /\ wpc'[d] = wpc[d]
        /\ UNCHANGED <<cmd, starts, child, desc, relay>>
    BY <1>9 DEF CallKill, program, fields, ends
  <2> QED
    BY <1>0, <2>1 DEF KInv, Received
<1>10. CASE StartRefused \/ UNCHANGED vars \/ \E c \in Callers : KillNothing(c)
  BY <1>10 DEF StartRefused, KillNothing, vars, KInv, Received
<1>11. CASE Helper
  <2>1. UNCHANGED <<cmd, starts, target, call, wpc>>
    BY <1>11 DEF Helper, Expire, WatchKill, RelayCopy, RelayEnd, RelayDrain, RelayExit,
       MonitorFound, MonitorOver, MonitorKill, MonitorGone, fields, callers
  <2>2. /\ child # "running" => child' = child /\ desc' \subseteq desc
    BY <1>11 DEF Helper, Expire, WatchKill, RelayCopy, RelayEnd, RelayDrain, RelayExit,
       MonitorFound, MonitorOver, MonitorKill, MonitorGone, KillGroup, program, ends
  <2>3. (child = "reaped" <=> child' = "reaped") /\ (child' = "none" => child = "none")
    BY <1>11 DEF Helper, Expire, WatchKill, RelayCopy, RelayEnd, RelayDrain, RelayExit,
       MonitorFound, MonitorOver, MonitorKill, MonitorGone, KillGroup, program
  <2>4. \A s \in Streams : Received(s) => Received(s)'
    BY <1>11 DEF Helper, Expire, WatchKill, RelayCopy, RelayEnd, RelayDrain, RelayExit,
       MonitorFound, MonitorOver, MonitorKill, MonitorGone, Received
  <2> QED
    BY <2>1, <2>2, <2>3, <2>4, KInvKept
<1>12. CASE Program
  <2>1. UNCHANGED <<cmd, starts, target, call, wpc, relay>>
    BY <1>12 DEF Program, ProgramWrites, ProgramCloses, ProgramExits, ProgramForks,
       DescendantsLeave, DescendantsExit, StraysExit, fields, callers
  <2>2. child # "running" => child' = child /\ desc' \subseteq desc
    BY <1>12 DEF Program, ProgramWrites, ProgramCloses, ProgramExits, ProgramForks,
       DescendantsLeave, DescendantsExit, StraysExit, program, ends
  <2>3. (child = "reaped" <=> child' = "reaped") /\ (child' = "none" => child = "none")
    BY <1>12 DEF Program, ProgramWrites, ProgramCloses, ProgramExits, ProgramForks,
       DescendantsLeave, DescendantsExit, StraysExit, program
  <2> QED
    BY <2>1, <2>2, <2>3, KInvKept DEF Received
<1> QED
  BY <1>1, <1>2, <1>3, <1>4, <1>5, <1>6, <1>7, <1>8, <1>9, <1>10, <1>11, <1>12
  DEF Next, Starting, Waiting, Killing

LEMMA KillInvariance == Spec => []KInv
<1>1. Init => KInv
  BY DEF Init, KInv
<1>2. IInv /\ KInv /\ [Next]_vars => KInv'
  BY KInvStep DEF IInv
<1> QED
  BY <1>1, <1>2, Invariance, PTL DEF Spec

\* Two seconds after it was called a Kill has seen to it that the program can be
\* reaped and that both its streams end, descendants in its group included, whatever
\* became of the SIGTERM and whoever else is inside: what may keep it from returning is
\* a descendant that has left the group, or another Wait (executable.go:413-420).
THEOREM KillReachesGroup == Spec => []KilledGroup
<1>1. IInv /\ KInv => KilledGroup
  <2> SUFFICES ASSUME IInv, KInv, NEW c \in Callers, call[c] = "killed", target[c] = starts
               PROVE  /\ child # "running"
                      /\ \A s \in Streams : Eof(s) \/ s \in strays
                      /\ wpc[c] = "reap" => child = "zombie"
    BY DEF KilledGroup
  <2>1. child # "running" /\ desc = {}
    BY DEF KInv
  <2>2. ASSUME wpc[c] = "reap" PROVE child = "zombie"
    <3>1. cmd /\ child \notin {"none", "reaped"}
      BY <2>2 DEF IInv, Receipts, Past, KInv
    <3> QED
      BY <2>1, <3>1 DEF IInv, TypeOK
  <2> QED
    BY <2>1, <2>2 DEF Eof
<1> QED
  BY <1>1, KillInvariance, Invariance, PTL

\* However many goroutines call Kill and Wait at once, one that returns from Kill
\* finds its program dead and reaped: no Kill returns on the strength of a Wait
\* that was for another program or has not reaped it (executable.go:391-425).
THEOREM KillLeavesNone == Spec => KillTerminates
<1>1. KInv /\ [Next]_vars
      => [\A c \in Callers : KillReturn(c) => child = "reaped" \/ starts # target[c]]_vars
  BY DEF KInv, KillReturn
<1> QED
  BY <1>1, KillInvariance, PTL DEF Spec, KillTerminates

=============================================================================
