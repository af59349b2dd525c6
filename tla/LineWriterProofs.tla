-------------------------- MODULE LineWriterProofs --------------------------
(***************************************************************************)
(* What LineWriter promises, for any bytes, writers and flushers, however  *)
(* they are interleaved.                                                   *)
(*                                                                         *)
(* The invariant adds to the properties that the buffer never holds a      *)
(* newline (a newline is written at once), and that the goroutine, once it *)
(* has left its loop, has an empty buffer.                                 *)
(***************************************************************************)
EXTENDS LineWriter, SequenceTheorems, TLAPS

\* A line writer's errors are those of its calls of the underlying writer.
ErrorsKnown == lastErr <=> \E i \in 1..Len(lines) : ~lines[i].ok

\* The buffer is the beginning of a line, and empty after the loop.
BufferIsPartial ==
  /\ \A i \in 1..Len(accumulated) : accumulated[i] # Newline
  /\ pc # "select" => accumulated = <<>>

\* A Flush that has returned has ended the goroutine and reported its errors.
FlushEnds ==
  \A f \in Flushers : flush[f] = "returned" =>
    pc = "exited" /\ (result[f] <=> lastErr)

IInv == TypeOK /\ WholeLines /\ ErrorsKnown /\ BufferIsPartial /\ FlushEnds

\* The calls so far and one more.
WithCall(text, padded, ok) ==
  Append(lines, [text |-> text, padded |-> padded, ok |-> ok])

-----------------------------------------------------------------------------

\* A call of the underlying writer with a whole line keeps what is known of the
\* calls.
LEMMA CallKeeps ==
  ASSUME TypeOK, WholeLines, ErrorsKnown,
         NEW text \in Seq(Byte), NEW padded \in BOOLEAN, IsWholeLine(text),
         FlushAccumulated(text, padded)
  PROVE  /\ lines' \in Seq(Line) /\ lastErr' \in BOOLEAN /\ accumulated' = <<>>
         /\ WholeLines' /\ ErrorsKnown'
<1>1. PICK ok \in BOOLEAN : /\ lines' = WithCall(text, padded, ok)
                            /\ lastErr' = (lastErr \/ ~ok)
  BY DEF FlushAccumulated, WithCall
<1> DEFINE call == [text |-> text, padded |-> padded, ok |-> ok]
<1>2. call \in Line /\ lines \in Seq(Line)
  BY DEF Line, TypeOK
<1>3. /\ Len(lines') = Len(lines) + 1
      /\ \A i \in 1..Len(lines) : lines'[i] = lines[i]
      /\ lines'[Len(lines) + 1] = call
      /\ lines' \in Seq(Line)
      /\ Len(lines) \in Nat
  BY <1>1, <1>2 DEF WithCall
<1>4. WholeLines'
  <2> SUFFICES ASSUME NEW i \in 1..Len(lines') PROVE IsWholeLine(lines'[i].text)
    BY DEF WholeLines, IsWholeLine
  <2>1. CASE i \in 1..Len(lines)
    BY <2>1, <1>3 DEF WholeLines
  <2>2. CASE i = Len(lines) + 1
    BY <2>2, <1>3
  <2> QED
    BY <2>1, <2>2, <1>3
<1>5. ErrorsKnown'
  <2>1. lines'[Len(lines) + 1].ok = ok
    BY <1>3
  <2>2. 1..Len(lines') = 1..Len(lines) \cup {Len(lines) + 1}
    BY <1>3
  <2>3. ASSUME ~ok PROVE lastErr' /\ \E i \in 1..Len(lines') : ~lines'[i].ok
    BY <2>1, <2>2, <2>3, <1>1
  <2>4. ASSUME ok, lastErr PROVE lastErr' /\ \E i \in 1..Len(lines') : ~lines'[i].ok
    BY <2>2, <2>4, <1>1, <1>3, Zenon DEF ErrorsKnown
  <2>5. ASSUME ok, ~lastErr PROVE ~lastErr' /\ \A i \in 1..Len(lines') : lines'[i].ok
    BY <2>1, <2>2, <2>5, <1>1, <1>3, Zenon DEF ErrorsKnown
  <2> QED
    BY <2>3, <2>4, <2>5, Zenon DEF ErrorsKnown
<1> QED
  BY <1>1, <1>3, <1>4, <1>5 DEF FlushAccumulated, TypeOK

\* Ending the beginning of a line with a newline makes it a whole line.
LEMMA NewlineEnds ==
  ASSUME NEW s \in Seq(Byte), \A i \in 1..Len(s) : s[i] # Newline
  PROVE  Append(s, Newline) \in Seq(Byte) /\ IsWholeLine(Append(s, Newline))
<1> DEFINE t == Append(s, Newline)
<1>1. /\ t \in Seq(Byte) /\ Len(t) = Len(s) + 1 /\ Len(s) \in Nat
      /\ t[Len(s) + 1] = Newline
      /\ \A i \in 1..Len(s) : t[i] = s[i]
  BY NewlineIsAByte
<1>2. t # <<>>
  BY <1>1
<1>3. ASSUME NEW i \in 1..Len(t) PROVE (t[i] = Newline) <=> (i = Len(t))
  <2> i \in 1..Len(s) \/ i = Len(s) + 1
    BY <1>1
  <2> QED
    BY <1>1
<1> QED
  BY <1>1, <1>2, <1>3 DEF IsWholeLine

\* Flushing a partial line keeps what is known and empties the buffer.
LEMMA PartialKeeps ==
  ASSUME TypeOK, WholeLines, ErrorsKnown, BufferIsPartial, FlushPartialLine
  PROVE  /\ lines' \in Seq(Line) /\ lastErr' \in BOOLEAN /\ accumulated' = <<>>
         /\ WholeLines' /\ ErrorsKnown'
<1>1. CASE accumulated = <<>>
  BY <1>1 DEF FlushPartialLine, TypeOK, WholeLines, ErrorsKnown, IsWholeLine
<1>2. CASE accumulated # <<>>
  <2>1. /\ Append(accumulated, Newline) \in Seq(Byte)
        /\ IsWholeLine(Append(accumulated, Newline))
    BY NewlineEnds DEF TypeOK, BufferIsPartial
  <2>2. FlushAccumulated(Append(accumulated, Newline), TRUE)
    BY <1>2 DEF FlushPartialLine
  <2> QED
    BY <2>1, <2>2, CallKeeps
<1> QED
  BY <1>1, <1>2

LEMMA InitIInv == Init => IInv
<1> SUFFICES ASSUME Init PROVE IInv
  OBVIOUS
<1> USE MaxBytesAssumption DEF Init
<1>1. TypeOK
  <2>1. accumulated \in Seq(Byte) /\ received \in Seq(Byte) /\ lines \in Seq(Line)
    BY SMT
  <2>2. left \in [Writers -> 0..MaxBytes]
    BY SMT
  <2>3. /\ flush \in [Flushers -> {"idle", "sending", "waiting", "returned"}]
        /\ result \in [Flushers -> BOOLEAN]
    BY SMT
  <2> QED
    BY <2>1, <2>2, <2>3 DEF TypeOK
<1>2. WholeLines /\ ErrorsKnown
  BY DEF WholeLines, ErrorsKnown
<1>3. BufferIsPartial /\ FlushEnds
  BY DEF BufferIsPartial, FlushEnds
<1> QED
  BY <1>1, <1>2, <1>3 DEF IInv

\* A step that leaves the goroutine and its buffer alone.
LEMMA CallersStep ==
  ASSUME IInv, TypeOK', UNCHANGED <<pc, accumulated, lastErr, result, lines>>,
         \A f \in Flushers : flush'[f] = "returned" => flush[f] = "returned"
  PROVE  IInv'
BY DEF IInv, WholeLines, IsWholeLine, ErrorsKnown, BufferIsPartial, FlushEnds

LEMMA NextIInv == IInv /\ [Next]_vars => IInv'
<1> SUFFICES ASSUME IInv, [Next]_vars PROVE IInv'
  OBVIOUS
<1> USE MaxBytesAssumption DEF IInv
<1>1. ASSUME NEW w \in Writers, NEW n \in 1..MaxBytes, Write(w, n) PROVE IInv'
  <2>1. TypeOK'
    BY <1>1 DEF Write, TypeOK
  <2> QED
    BY <1>1, <2>1, CallersStep DEF Write
<1>2. ASSUME NEW w \in Writers, ReceiveSomeByte(w) PROVE IInv'
  <2>1. PICK b \in Byte : ReceiveByte(w, b)
    BY <1>2 DEF ReceiveSomeByte
  <2>2. /\ left' \in [Writers -> 0..MaxBytes]
        /\ received' \in Seq(Byte)
        /\ pc = "select" /\ UNCHANGED <<pc, flush, result>>
    BY <2>1 DEF ReceiveByte, TypeOK
  <2>3. CASE b = Newline
    <3>1. FlushAccumulated(Append(accumulated, Newline), FALSE)
      BY <2>1, <2>3 DEF ReceiveByte
    <3>2. /\ Append(accumulated, Newline) \in Seq(Byte)
          /\ IsWholeLine(Append(accumulated, Newline))
      BY NewlineEnds DEF TypeOK, BufferIsPartial
    <3>3. /\ lines' \in Seq(Line) /\ lastErr' \in BOOLEAN /\ accumulated' = <<>>
          /\ WholeLines' /\ ErrorsKnown'
      BY <3>1, <3>2, CallKeeps
    <3> QED
      BY <2>2, <3>3 DEF TypeOK, BufferIsPartial, FlushEnds
  <2>4. CASE b # Newline
    <3>1. accumulated' = Append(accumulated, b) /\ UNCHANGED <<lines, lastErr>>
      BY <2>1, <2>4 DEF ReceiveByte
    <3>2. TypeOK'
      BY <2>2, <3>1 DEF TypeOK
    <3>3. BufferIsPartial'
      <4> SUFFICES ASSUME NEW i \in 1..Len(accumulated')
                   PROVE  accumulated'[i] # Newline
        BY <2>2 DEF BufferIsPartial
      <4> QED
        BY <3>1, <2>4 DEF BufferIsPartial, TypeOK
    <3> QED
      BY <2>2, <3>1, <3>2, <3>3
         DEF WholeLines, IsWholeLine, ErrorsKnown, FlushEnds
  <2> QED
    BY <2>3, <2>4
<1>3. CASE Timeout
  <2>1. /\ lines' \in Seq(Line) /\ lastErr' \in BOOLEAN /\ accumulated' = <<>>
        /\ WholeLines' /\ ErrorsKnown'
    BY <1>3, PartialKeeps DEF Timeout
  <2> QED
    BY <1>3, <2>1 DEF Timeout, TypeOK, BufferIsPartial, FlushEnds
<1>4. ASSUME NEW f \in Flushers, CallFlush(f) PROVE IInv'
  <2>1. TypeOK'
    BY <1>4 DEF CallFlush, TypeOK
  <2> QED
    BY <1>4, <2>1, CallersStep DEF CallFlush, TypeOK
<1>5. ASSUME NEW f \in Flushers, ReceiveFlush(f) PROVE IInv'
  <2>1. /\ lines' \in Seq(Line) /\ lastErr' \in BOOLEAN /\ accumulated' = <<>>
        /\ WholeLines' /\ ErrorsKnown'
    BY <1>5, PartialKeeps DEF ReceiveFlush
  <2>2. TypeOK'
    BY <1>5, <2>1 DEF ReceiveFlush, TypeOK
  <2>3. FlushEnds'
    BY <1>5 DEF ReceiveFlush, FlushEnds, TypeOK
  <2> QED
    BY <2>1, <2>2, <2>3 DEF BufferIsPartial
<1>6. ASSUME NEW f \in Flushers, FlushReturns(f) PROVE IInv'
  <2>1. TypeOK'
    BY <1>6 DEF FlushReturns, TypeOK
  <2>2. FlushEnds'
    BY <1>6 DEF FlushReturns, FlushEnds, TypeOK
  <2> QED
    BY <1>6, <2>1, <2>2
       DEF FlushReturns, BufferIsPartial, WholeLines, IsWholeLine, ErrorsKnown
<1>7. CASE UNCHANGED vars
  BY <1>7 DEF vars, TypeOK, BufferIsPartial, WholeLines, IsWholeLine, ErrorsKnown,
     FlushEnds
<1> QED
  BY <1>1, <1>2, <1>3, <1>4, <1>5, <1>6, <1>7 DEF Next

LEMMA Invariance == Spec => []IInv
  BY InitIInv, NextIInv, PTL DEF Spec

-----------------------------------------------------------------------------

\* LineWriter keeps its types.
THEOREM TypeCorrect == Spec => []TypeOK
<1>1. IInv => TypeOK
  BY DEF IInv
<1> QED
  BY Invariance, <1>1, PTL

\* The underlying writer is only given whole lines (executable.go:79-82).
THEOREM LinesAreWhole == Spec => []WholeLines
<1>1. IInv => WholeLines
  BY DEF IInv
<1> QED
  BY Invariance, <1>1, PTL

\* A Flush that returns has emptied the buffer and reports every error
\* (linewriter.go:27-28).
THEOREM FlushCorrect == Spec => []FlushDelivers
<1>1. IInv => FlushDelivers
  BY DEF IInv, FlushDelivers, FlushEnds, BufferIsPartial, ErrorsKnown
<1> QED
  BY Invariance, <1>1, PTL

\* After a Flush the underlying writer is left alone (linewriter.go:84).
THEOREM FlushIsFinal == Spec => SilentAfterFlush
<1>1. IInv /\ [Next]_vars =>
        [(\E f \in Flushers : flush[f] = "returned") => lines' = lines]_vars
  <2> SUFFICES ASSUME IInv, Next, NEW f \in Flushers, flush[f] = "returned"
               PROVE  lines' = lines
    OBVIOUS
  <2>1. pc = "exited"
    BY DEF IInv, FlushEnds
  <2> QED
    BY <2>1 DEF Next, Write, ReceiveSomeByte, ReceiveByte, Timeout, CallFlush,
       ReceiveFlush, FlushReturns
<1> QED
  BY Invariance, <1>1, PTL DEF Spec, SilentAfterFlush

-----------------------------------------------------------------------------
(***************************************************************************)
(* All callers of Flush wait on one pair of channels, yet no answer goes   *)
(* to the wrong one, because only one is ever given. This is the safety    *)
(* half of CallsReturn, and says why that property has to except those     *)
(* who come after a Flush that has returned.                               *)
(***************************************************************************)

\* f alone has been heard, and is where pc says.
Heard(f) ==
  /\ flush[f] = (IF pc = "flushed" THEN "waiting" ELSE "returned")
  /\ \A g \in Flushers \ {f} : flush[g] \in {"idle", "sending"}

\* As long as the goroutine is in its loop no Flush has been heard; when it has
\* left it exactly one has, which waits for the answer or has got it.
OneFlushHeard ==
  IF pc = "select" THEN \A f \in Flushers : flush[f] \in {"idle", "sending"}
                   ELSE \E f \in Flushers : Heard(f)

LEMMA HeardStep == TypeOK /\ OneFlushHeard /\ [Next]_vars => OneFlushHeard'
<1> SUFFICES ASSUME TypeOK, OneFlushHeard, [Next]_vars PROVE OneFlushHeard'
  OBVIOUS
<1>1. CASE UNCHANGED <<pc, flush>>
  BY <1>1 DEF OneFlushHeard, Heard
<1>2. CASE \/ UNCHANGED vars
           \/ \E w \in Writers, n \in 1..MaxBytes : Write(w, n)
           \/ \E w \in Writers : ReceiveSomeByte(w)
           \/ Timeout
  BY <1>1, <1>2 DEF vars, Write, ReceiveSomeByte, ReceiveByte, Timeout
<1>3. ASSUME NEW f \in Flushers, CallFlush(f) PROVE OneFlushHeard'
  <2>1. /\ pc' = pc /\ flush[f] = "idle" /\ flush'[f] = "sending"
        /\ \A g \in Flushers \ {f} : flush'[g] = flush[g]
    BY <1>3 DEF CallFlush, TypeOK
  <2>2. ASSUME NEW h \in Flushers, Heard(h) PROVE Heard(h)'
    BY <2>1, <2>2 DEF Heard
  <2> QED
    BY <2>1, <2>2 DEF OneFlushHeard
<1>4. ASSUME NEW f \in Flushers, ReceiveFlush(f) PROVE OneFlushHeard'
  <2>1. /\ pc = "select" /\ pc' = "flushed" /\ flush'[f] = "waiting"
        /\ \A g \in Flushers \ {f} : flush'[g] = flush[g]
    BY <1>4 DEF ReceiveFlush, TypeOK
  <2>2. Heard(f)'
    BY <2>1 DEF Heard, OneFlushHeard
  <2> QED
    BY <2>1, <2>2 DEF OneFlushHeard
<1>5. ASSUME NEW f \in Flushers, FlushReturns(f) PROVE OneFlushHeard'
  <2>1. /\ pc = "flushed" /\ pc' = "exited"
        /\ flush[f] = "waiting" /\ flush'[f] = "returned"
        /\ \A g \in Flushers \ {f} : flush'[g] = flush[g]
    BY <1>5 DEF FlushReturns, TypeOK
  <2>2. Heard(f)
    BY <2>1 DEF Heard, OneFlushHeard
  <2>3. Heard(f)'
    BY <2>1, <2>2 DEF Heard
  <2> QED
    BY <2>1, <2>3 DEF OneFlushHeard
<1> QED
  BY <1>2, <1>3, <1>4, <1>5 DEF Next

\* However many goroutines flush, one Flush is answered, with its own answer, and
\* the goroutine ends with it (linewriter.go:29-33,78-84).
THEOREM OneFlushServed == Spec => []OneFlushHeard
<1>1. Init => OneFlushHeard
  BY DEF Init, OneFlushHeard
<1> QED
  BY TypeCorrect, HeardStep, <1>1, PTL DEF Spec

-----------------------------------------------------------------------------
(***************************************************************************)
(* Nothing is dropped, repeated or reordered. The argument keeps the cuts: *)
(* a byte that is received lengthens what is behind the last one, and a    *)
(* call of the underlying writer makes a new one at the end.               *)
(***************************************************************************)

\* cut divides the bytes r among the calls calls and the buffer rest.
Divides(cut, calls, r, rest) ==
  /\ cut \in [0..Len(calls) -> 0..Len(r)]
  /\ cut[0] = 0
  /\ \A i \in 1..Len(calls) :
       /\ cut[i - 1] <= cut[i]
       /\ OwnText(calls[i]) = SubSeq(r, cut[i - 1] + 1, cut[i])
  /\ rest = SubSeq(r, cut[Len(calls)] + 1, Len(r))

\* A byte appended to a sequence changes none of its parts but the last.
LEMMA PartOfAppended ==
  ASSUME NEW r \in Seq(Byte), NEW b \in Byte, NEW m \in 0..Len(r), NEW n \in 0..Len(r)
  PROVE  /\ SubSeq(Append(r, b), m + 1, n) = SubSeq(r, m + 1, n)
         /\ SubSeq(Append(r, b), m + 1, Len(r) + 1) = Append(SubSeq(r, m + 1, Len(r)), b)
<1>1. /\ Append(r, b) \in Seq(Byte) /\ Len(Append(r, b)) = Len(r) + 1 /\ Len(r) \in Nat
      /\ \A i \in 1..Len(r) : Append(r, b)[i] = r[i]
      /\ Append(r, b)[Len(r) + 1] = b
      /\ \A i \in 1..Len(r) : r[i] \in Byte
  OBVIOUS
<1>2. \A i \in (m + 1)..n : Append(r, b)[i] \in Byte /\ r[i] \in Byte
  BY <1>1
<1>3. /\ SubSeq(Append(r, b), m + 1, n) \in Seq(Byte)
      /\ Len(SubSeq(Append(r, b), m + 1, n)) = IF m + 1 <= n THEN n - (m + 1) + 1 ELSE 0
      /\ \A i \in 1..(n - (m + 1) + 1) :
           SubSeq(Append(r, b), m + 1, n)[i] = Append(r, b)[m + 1 + i - 1]
  BY <1>1, <1>2, SubSeqProperties
<1>4. /\ SubSeq(r, m + 1, n) \in Seq(Byte)
      /\ Len(SubSeq(r, m + 1, n)) = IF m + 1 <= n THEN n - (m + 1) + 1 ELSE 0
      /\ \A i \in 1..(n - (m + 1) + 1) : SubSeq(r, m + 1, n)[i] = r[m + 1 + i - 1]
  BY <1>1, <1>2, SubSeqProperties
<1>5. SubSeq(Append(r, b), m + 1, n) = SubSeq(r, m + 1, n)
  <2>1. \A i \in 1..Len(SubSeq(r, m + 1, n)) :
          SubSeq(Append(r, b), m + 1, n)[i] = SubSeq(r, m + 1, n)[i]
    BY <1>1, <1>3, <1>4
  <2> QED
    BY <1>3, <1>4, <2>1, SeqEqual
<1>6. \A i \in (m + 1)..Len(r) : r[i] \in Byte
  BY <1>1
<1>7. \A i \in (m + 1)..(Len(r) + 1) : Append(r, b)[i] \in Byte
  BY <1>1
<1>8. /\ SubSeq(Append(r, b), m + 1, Len(r) + 1) \in Seq(Byte)
      /\ Len(SubSeq(Append(r, b), m + 1, Len(r) + 1)) = Len(r) + 1 - m
      /\ \A i \in 1..(Len(r) + 1 - m) :
           SubSeq(Append(r, b), m + 1, Len(r) + 1)[i] = Append(r, b)[m + i]
  BY <1>1, <1>7, SubSeqProperties
<1>9. /\ SubSeq(r, m + 1, Len(r)) \in Seq(Byte)
      /\ Len(SubSeq(r, m + 1, Len(r))) = Len(r) - m
      /\ \A i \in 1..(Len(r) - m) : SubSeq(r, m + 1, Len(r))[i] = r[m + i]
  BY <1>1, <1>6, SubSeqProperties
<1>10. SubSeq(Append(r, b), m + 1, Len(r) + 1) = Append(SubSeq(r, m + 1, Len(r)), b)
  <2> DEFINE s == SubSeq(Append(r, b), m + 1, Len(r) + 1)
             t == Append(SubSeq(r, m + 1, Len(r)), b)
  <2>1. /\ t \in Seq(Byte) /\ Len(t) = Len(r) - m + 1
        /\ \A i \in 1..(Len(r) - m) : t[i] = r[m + i]
        /\ t[Len(r) - m + 1] = b
    BY <1>1, <1>9
  <2>2. ASSUME NEW i \in 1..Len(t) PROVE s[i] = t[i]
    <3>1. CASE i \in 1..(Len(r) - m)
      <4> HIDE DEF s, t
      <4>1. /\ i \in 1..(Len(r) + 1 - m)
            /\ m + i \in 1..Len(r)
        BY <1>1, <3>1
      <4>2. s[i] = Append(r, b)[m + i]
        BY <1>8, <4>1 DEF s
      <4>3. Append(r, b)[m + i] = r[m + i]
        BY <1>1, <4>1
      <4>4. t[i] = r[m + i]
        BY <2>1, <3>1
      <4> QED
        BY <4>2, <4>3, <4>4
    <3>2. CASE i = Len(r) - m + 1
      BY <1>1, <1>8, <2>1, <3>2
    <3>3. i \in 1..(Len(r) - m) \/ i = Len(r) - m + 1
      BY <1>1, <2>1
    <3> QED
      BY <3>1, <3>2, <3>3
  <2>3. s \in Seq(Byte) /\ Len(s) = Len(t)
    BY <1>1, <1>8, <2>1
  <2> QED
    BY <2>1, <2>2, <2>3, SeqEqual
<1> QED
  BY <1>5, <1>10

\* A byte is received.
LEMMA DividesReceived ==
  ASSUME NEW calls \in Seq(Line), NEW r \in Seq(Byte), NEW rest, NEW cut,
         Divides(cut, calls, r, rest), NEW b \in Byte
  PROVE  Divides(cut, calls, Append(r, b), Append(rest, b))
<1>1. Len(Append(r, b)) = Len(r) + 1 /\ Len(r) \in Nat /\ Len(calls) \in Nat
  OBVIOUS
<1>2. \A i \in 0..Len(calls) : cut[i] \in 0..Len(r)
  BY DEF Divides
<1>3. cut \in [0..Len(calls) -> 0..Len(Append(r, b))]
  BY <1>1 DEF Divides
<1>4. ASSUME NEW i \in 1..Len(calls)
      PROVE  SubSeq(Append(r, b), cut[i - 1] + 1, cut[i]) = SubSeq(r, cut[i - 1] + 1, cut[i])
  <2>1. cut[i - 1] \in 0..Len(r) /\ cut[i] \in 0..Len(r)
    BY <1>1, <1>2
  <2> QED
    BY <2>1, PartOfAppended
<1>5. Append(rest, b) = SubSeq(Append(r, b), cut[Len(calls)] + 1, Len(Append(r, b)))
  <2>1. cut[Len(calls)] \in 0..Len(r)
    BY <1>1, <1>2
  <2>2. Len(r) \in 0..Len(r)
    BY <1>1
  <2> QED
    BY <1>1, <2>1, <2>2, PartOfAppended DEF Divides
<1> QED
  BY <1>3, <1>4, <1>5 DEF Divides

\* The buffer is written out.
LEMMA DividesWritten ==
  ASSUME NEW calls \in Seq(Line), NEW r \in Seq(Byte), NEW call \in Line, NEW cut,
         Divides(cut, calls, r, OwnText(call))
  PROVE  \E c : Divides(c, Append(calls, call), r, <<>>)
<1> DEFINE n == Len(calls)
           c == [i \in 0..(n + 1) |-> IF i <= n THEN cut[i] ELSE Len(r)]
           more == Append(calls, call)
<1>1. /\ n \in Nat /\ Len(r) \in Nat /\ more \in Seq(Line) /\ Len(more) = n + 1
      /\ \A i \in 1..n : more[i] = calls[i]
      /\ more[n + 1] = call
  OBVIOUS
<1>2. \A i \in 0..n : cut[i] \in 0..Len(r)
  BY DEF Divides
<1>3. c \in [0..Len(more) -> 0..Len(r)] /\ c[0] = 0
  <2>1. \A i \in 0..(n + 1) : (IF i <= n THEN cut[i] ELSE Len(r)) \in 0..Len(r)
    BY <1>1, <1>2
  <2>2. c \in [0..(n + 1) -> 0..Len(r)]
    BY <2>1
  <2>3. c[0] = cut[0]
    BY <1>1
  <2> QED
    BY <1>1, <2>2, <2>3 DEF Divides
<1>4. /\ \A i \in 0..n : c[i] = cut[i]
      /\ c[n + 1] = Len(r)
  BY <1>1
<1> HIDE DEF c, more
<1>5. ASSUME NEW i \in 1..Len(more)
      PROVE  /\ c[i - 1] <= c[i]
             /\ OwnText(more[i]) = SubSeq(r, c[i - 1] + 1, c[i])
  <2>1. CASE i \in 1..n
    <3>1. i - 1 \in 0..n /\ i \in 0..n
      BY <1>1, <2>1
    <3>2. c[i - 1] = cut[i - 1] /\ c[i] = cut[i] /\ more[i] = calls[i]
      BY <1>1, <1>4, <2>1, <3>1
    <3>3. cut[i - 1] <= cut[i] /\ OwnText(calls[i]) = SubSeq(r, cut[i - 1] + 1, cut[i])
      BY <2>1 DEF Divides
    <3> QED
      BY <3>2, <3>3
  <2>2. CASE i = n + 1
    <3>1. c[i - 1] = cut[n] /\ c[i] = Len(r) /\ more[i] = call /\ cut[n] \in 0..Len(r)
      BY <1>1, <1>2, <1>4, <2>2
    <3> QED
      BY <1>1, <3>1 DEF Divides
  <2> QED
    BY <1>1, <2>1, <2>2
<1>6. <<>> = SubSeq(r, c[Len(more)] + 1, Len(r))
  BY <1>1, <1>4, SubSeqEmpty
<1>7. Divides(c, more, r, <<>>)
  BY <1>3, <1>5, <1>6 DEF Divides
<1> QED
  BY <1>7 DEF more

\* What FlushAccumulated and FlushPartialLine make of it.
LEMMA FaithfulWritten ==
  ASSUME TypeOK, NEW text \in Seq(Byte), NEW padded \in BOOLEAN, NEW r \in Seq(Byte),
         NEW cut,
         Divides(cut, lines, r,
                 IF padded THEN SubSeq(text, 1, Len(text) - 1) ELSE text),
         FlushAccumulated(text, padded)
  PROVE  \E c : Divides(c, lines', r, accumulated')
<1>1. PICK ok \in BOOLEAN : lines' = WithCall(text, padded, ok)
  BY DEF FlushAccumulated, WithCall
<1> DEFINE call == [text |-> text, padded |-> padded, ok |-> ok]
<1>2. call \in Line /\ lines \in Seq(Line)
  BY DEF Line, TypeOK
<1>3. OwnText(call) = IF padded THEN SubSeq(text, 1, Len(text) - 1) ELSE text
  BY DEF OwnText
<1>4. lines' = Append(lines, call) /\ accumulated' = <<>>
  BY <1>1 DEF WithCall, FlushAccumulated
<1> HIDE DEF call
<1>5. Divides(cut, lines, r, OwnText(call))
  BY <1>3
<1>6. \E c : Divides(c, Append(lines, call), r, <<>>)
  BY <1>2, <1>5, DividesWritten
<1> QED
  BY <1>4, <1>6

LEMMA FaithfulIs == Faithful <=> \E cut : Divides(cut, lines, received, accumulated)
BY DEF Faithful, Divides

LEMMA FaithfulFlushed ==
  ASSUME TypeOK, NEW cut, Divides(cut, lines, received, accumulated), FlushPartialLine
  PROVE  \E c : Divides(c, lines', received, accumulated')
<1>1. CASE accumulated = <<>>
  BY <1>1 DEF FlushPartialLine
<1>2. CASE accumulated # <<>>
  <2> DEFINE text == Append(accumulated, Newline)
  <2>1. text \in Seq(Byte) /\ received \in Seq(Byte) /\ accumulated \in Seq(Byte)
    BY NewlineIsAByte DEF TypeOK
  <2>2. SubSeq(text, 1, Len(text) - 1) = accumulated
    <3>1. /\ Len(text) = Len(accumulated) + 1 /\ Len(accumulated) \in Nat
          /\ \A i \in 1..Len(accumulated) : text[i] = accumulated[i]
          /\ \A i \in 1..Len(accumulated) : accumulated[i] \in Byte
      BY <2>1, NewlineIsAByte
    <3>2. Len(text) - 1 = Len(accumulated)
      BY <3>1
    <3> HIDE DEF text
    <3>3. \A i \in 1..Len(accumulated) : text[i] \in Byte
      BY <3>1
    <3>4. /\ SubSeq(text, 1, Len(accumulated)) \in Seq(Byte)
          /\ Len(SubSeq(text, 1, Len(accumulated))) = Len(accumulated)
          /\ \A i \in 1..Len(accumulated) :
               SubSeq(text, 1, Len(accumulated))[i] = accumulated[i]
      BY <3>1, <3>3, SubSeqProperties
    <3> QED
      BY <2>1, <3>2, <3>4, SeqEqual
  <2>3. FlushAccumulated(text, TRUE)
    BY <1>2 DEF FlushPartialLine
  <2> HIDE DEF text
  <2>4. Divides(cut, lines, received,
                IF TRUE THEN SubSeq(text, 1, Len(text) - 1) ELSE text)
    BY <2>2
  <2> QED
    BY <2>1, <2>3, <2>4, FaithfulWritten
<1> QED
  BY <1>1, <1>2

LEMMA FaithfulStep ==
  ASSUME TypeOK, NEW cut, Divides(cut, lines, received, accumulated), [Next]_vars
  PROVE  \E c : Divides(c, lines', received', accumulated')
<1>1. ASSUME NEW w \in Writers, ReceiveSomeByte(w)
      PROVE  \E c : Divides(c, lines', received', accumulated')
  <2>1. PICK b \in Byte : ReceiveByte(w, b)
    BY <1>1 DEF ReceiveSomeByte
  <2>2. /\ received' = Append(received, b) /\ received \in Seq(Byte)
        /\ lines \in Seq(Line) /\ Append(received, b) \in Seq(Byte)
        /\ Append(accumulated, b) \in Seq(Byte)
    BY <2>1 DEF ReceiveByte, TypeOK
  <2>3. Divides(cut, lines, received', Append(accumulated, b))
    BY <2>2, DividesReceived
  <2>4. CASE b = Newline
    <3>1. FlushAccumulated(Append(accumulated, b), FALSE)
      BY <2>1, <2>4 DEF ReceiveByte
    <3>2. received' \in Seq(Byte)
      BY <2>2
    <3> QED
      BY <2>2, <2>3, <3>1, <3>2, FaithfulWritten
  <2>5. CASE b # Newline
    BY <2>1, <2>3, <2>5 DEF ReceiveByte
  <2> QED
    BY <2>4, <2>5
<1>2. CASE Timeout \/ \E f \in Flushers : ReceiveFlush(f)
  <2>1. FlushPartialLine /\ received' = received
    BY <1>2 DEF Timeout, ReceiveFlush
  <2> QED
    BY <2>1, FaithfulFlushed
<1>3. CASE UNCHANGED <<lines, received, accumulated>>
  BY <1>3
<1>4. CASE \/ UNCHANGED vars
           \/ \E w \in Writers, n \in 1..MaxBytes : Write(w, n)
           \/ \E f \in Flushers : CallFlush(f) \/ FlushReturns(f)
  BY <1>3, <1>4 DEF vars, Write, CallFlush, FlushReturns
<1> QED
  BY <1>1, <1>2, <1>4 DEF Next

\* What Write was given reaches the underlying writer in order, with nothing
\* dropped, repeated or reordered, whoever writes and flushes and however long it
\* takes them (linewriter.go:41-116).
THEOREM FaithfulCorrect == Spec => []Faithful
<1>1. Init => Faithful
  <2> SUFFICES ASSUME Init PROVE Divides([i \in {0} |-> 0], lines, received, accumulated)
    BY FaithfulIs
  <2>1. Len(lines) = 0 /\ Len(received) = 0 /\ 0..0 = {0}
    BY DEF Init
  <2>2. SubSeq(received, 1, 0) = <<>>
    BY SubSeqEmpty
  <2> QED
    BY <2>1, <2>2 DEF Divides, Init
<1>2. TypeOK /\ Faithful /\ [Next]_vars => Faithful'
  <2> SUFFICES ASSUME TypeOK, Faithful, [Next]_vars PROVE Faithful'
    OBVIOUS
  <2>1. \E cut : Divides(cut, lines, received, accumulated)
    BY FaithfulIs
  <2>2. \E c : Divides(c, lines', received', accumulated')
    BY <2>1, FaithfulStep
  <2> QED
    BY <2>2 DEF Faithful, Divides
<1> QED
  BY TypeCorrect, <1>1, <1>2, PTL DEF Spec

=============================================================================
