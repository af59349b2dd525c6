----------------------------- MODULE LineWriter -----------------------------
(***************************************************************************)
(* linewriter.LineWriter: an io.Writer that hands its bytes, one at a time *)
(* over an unbuffered channel, to a goroutine that calls the underlying    *)
(* writer with whole lines: at a newline, when nothing has arrived for a   *)
(* while, and at Flush, which also ends the goroutine.                     *)
(*                                                                         *)
(* The goroutine serves one channel operation at a time, so each case of   *)
(* its select statement is one action.                                     *)
(***************************************************************************)
EXTENDS Naturals, Sequences

LOCAL INSTANCE SequencesExt

CONSTANTS
  Byte,      \* the bytes that may be written
  Newline,   \* '\n', one of them
  Writers,   \* goroutines that call Write
  Flushers,  \* goroutines that call Flush
  MaxBytes   \* bound: bytes the goroutine receives

ASSUME NewlineIsAByte == Newline \in Byte
ASSUME MaxBytesAssumption == MaxBytes \in Nat

VARIABLES
  pc,           \* the goroutine: "select", "flushed" (owes flushedChan), "exited"
  accumulated,  \* its buffer
  lastErr,      \* whether an underlying write has failed
  left,         \* left[w]: bytes writer w's Write call has still to hand over
  flush,        \* flush[f]: where flusher f is in Flush
  result,       \* result[f]: whether the Flush of f reported an error
  received,     \* history: every byte handed over
  lines         \* history: the calls of the underlying writer

vars == <<pc, accumulated, lastErr, left, flush, result, received, lines>>

\* One call of the underlying writer: what it was given, whether the goroutine
\* ended the text with a newline nobody wrote, and whether the call succeeded.
Line == [text : Seq(Byte), padded : BOOLEAN, ok : BOOLEAN]

Init ==
  /\ pc = "select"
  /\ accumulated = <<>>
  /\ lastErr = FALSE
  /\ left = [w \in Writers |-> 0]
  /\ flush = [f \in Flushers |-> "idle"]
  /\ result = [f \in Flushers |-> FALSE]
  /\ received = <<>>
  /\ lines = <<>>

\* Mutants of FlushAccumulated: the buffer is not reset; only the last error is
\* remembered.
FlushAccumulatedKept(text, padded) ==
  /\ UNCHANGED accumulated
  /\ \E ok \in BOOLEAN :
       /\ lines' = Append(lines, [text |-> text, padded |-> padded, ok |-> ok])
       /\ lastErr' = (lastErr \/ ~ok)

FlushAccumulatedForgets(text, padded) ==
  /\ accumulated' = <<>>
  /\ \E ok \in BOOLEAN :
       /\ lines' = Append(lines, [text |-> text, padded |-> padded, ok |-> ok])
       /\ lastErr' = ~ok

\* The underlying writer is called with text; whether it fails or not, the
\* buffer starts afresh, so a failed call loses its text.
FlushAccumulated(text, padded) ==
  /\ accumulated' = <<>>
  /\ \E ok \in BOOLEAN :
       /\ lines' = Append(lines, [text |-> text, padded |-> padded, ok |-> ok])
       /\ lastErr' = (lastErr \/ ~ok)

\* Mutant: a partial line is written as it is.
FlushPartialLineBare ==
  IF accumulated = <<>>
    THEN UNCHANGED <<accumulated, lines, lastErr>>
    ELSE FlushAccumulated(accumulated, FALSE)

\* A partial line is ended with a newline and written; nothing is written
\* when the buffer is empty.
FlushPartialLine ==
  IF accumulated = <<>>
    THEN UNCHANGED <<accumulated, lines, lastErr>>
    ELSE FlushAccumulated(Append(accumulated, Newline), TRUE)

-----------------------------------------------------------------------------

\* w calls Write with n bytes.
Write(w, n) ==
  /\ left[w] = 0
  /\ left' = [left EXCEPT ![w] = n]
  /\ UNCHANGED <<pc, accumulated, lastErr, flush, result, received, lines>>

\* The goroutine takes the next byte of w's Write.
ReceiveByte(w, b) ==
  /\ pc = "select"
  /\ left[w] > 0
  /\ left' = [left EXCEPT ![w] = @ - 1]
  /\ received' = Append(received, b)
  /\ IF b = Newline
       THEN FlushAccumulated(Append(accumulated, b), FALSE)
       ELSE accumulated' = Append(accumulated, b) /\ UNCHANGED <<lines, lastErr>>
  /\ UNCHANGED <<pc, flush, result>>

\* Mutant: the off-by-one test accumulated.Len() > 1.
TimeoutOffByOne ==
  /\ pc = "select"
  /\ Len(accumulated) > 1
  /\ FlushPartialLine
  /\ UNCHANGED <<pc, left, flush, result, received>>

\* time.After fires: the timeout has passed since the last case of the select, be
\* it that no byte came or that none was in time. With an empty buffer the
\* goroutine only arms it again.
Timeout ==
  /\ pc = "select"
  /\ accumulated # <<>>
  /\ FlushPartialLine
  /\ UNCHANGED <<pc, left, flush, result, received>>

\* f calls Flush and offers its request on flushChan.
CallFlush(f) ==
  /\ flush[f] = "idle"
  /\ flush' = [flush EXCEPT ![f] = "sending"]
  /\ UNCHANGED <<pc, accumulated, lastErr, left, result, received, lines>>

\* Mutant: the goroutine leaves the loop without the answer on flushedChan.
ReceiveFlushSilently(f) ==
  /\ pc = "select"
  /\ flush[f] = "sending"
  /\ flush' = [flush EXCEPT ![f] = "waiting"]
  /\ pc' = "exited"
  /\ FlushPartialLine
  /\ UNCHANGED <<left, result, received>>

\* The goroutine takes the request.
ReceiveFlush(f) ==
  /\ pc = "select"
  /\ flush[f] = "sending"
  /\ flush' = [flush EXCEPT ![f] = "waiting"]
  /\ pc' = "flushed"
  /\ FlushPartialLine
  /\ UNCHANGED <<left, result, received>>

\* Mutant: the break leaves the select statement and not the loop.
FlushReturnsToLoop(f) ==
  /\ pc = "flushed"
  /\ flush[f] = "waiting"
  /\ pc' = "select"
  /\ flush' = [flush EXCEPT ![f] = "returned"]
  /\ result' = [result EXCEPT ![f] = lastErr]
  /\ UNCHANGED <<accumulated, lastErr, left, received, lines>>

\* The goroutine answers on flushedChan and ends; Flush returns lastErr.
FlushReturns(f) ==
  /\ pc = "flushed"
  /\ flush[f] = "waiting"
  /\ pc' = "exited"
  /\ flush' = [flush EXCEPT ![f] = "returned"]
  /\ result' = [result EXCEPT ![f] = lastErr]
  /\ UNCHANGED <<accumulated, lastErr, left, received, lines>>

ReceiveSomeByte(w) == \E b \in Byte : ReceiveByte(w, b)

\* The bound of the model: no more than MaxBytes bytes are offered in all.
Offered == Len(received) + MapThenSumSet(LAMBDA w : left[w], Writers)

Next ==
  \/ \E w \in Writers, n \in 1..MaxBytes : Offered + n <= MaxBytes /\ Write(w, n)
  \/ \E w \in Writers : ReceiveSomeByte(w)
  \/ Timeout
  \/ \E f \in Flushers : CallFlush(f) \/ ReceiveFlush(f) \/ FlushReturns(f)

Spec == Init /\ [][Next]_vars

\* The goroutine is scheduled and the channel hand-overs it and a caller both wait
\* for take place: senders queue in order, and of the ready cases of a select
\* statement Go picks one at random. Every byte sets the timer back, so that it
\* need only fire while the writers pause. When callers write and flush is theirs.
Fairness ==
  /\ \A w \in Writers : WF_vars(ReceiveSomeByte(w))
  /\ WF_vars(Timeout /\ \A w \in Writers : left[w] = 0)
  /\ \A f \in Flushers : WF_vars(ReceiveFlush(f)) /\ WF_vars(FlushReturns(f))

FairSpec == Spec /\ Fairness

-----------------------------------------------------------------------------

\* Every variable has its type.
TypeOK ==
  /\ pc \in {"select", "flushed", "exited"}
  /\ accumulated \in Seq(Byte)
  /\ lastErr \in BOOLEAN
  /\ left \in [Writers -> 0..MaxBytes]
  /\ flush \in [Flushers -> {"idle", "sending", "waiting", "returned"}]
  /\ result \in [Flushers -> BOOLEAN]
  /\ received \in Seq(Byte)
  /\ lines \in Seq(Line)

\* text is one line: its only newline is its last byte.
IsWholeLine(text) ==
  /\ text # <<>>
  /\ \A i \in 1..Len(text) : (text[i] = Newline) <=> (i = Len(text))

\* The underlying writer is only ever given whole lines. loggerWriter.Write
\* (executable.go:79-82) drops the last byte unseen and logs the rest as one
\* line: it would panic on an empty text and eat a byte of a partial one.
WholeLines == \A i \in 1..Len(lines) : IsWholeLine(lines[i].text)

\* A line without the newline the goroutine added to it.
OwnText(line) ==
  IF line.padded THEN SubSeq(line.text, 1, Len(line.text) - 1) ELSE line.text

\* What Write was given is what the underlying writer is given, in order, with
\* nothing dropped, repeated or reordered, but for the newlines that end
\* partial lines and the bytes still in the buffer: the i-th call gets the bytes
\* behind cut[i - 1] up to cut[i], and the buffer those behind the last cut.
Faithful ==
  \E cut \in [0..Len(lines) -> 0..Len(received)] :
    /\ cut[0] = 0
    /\ \A i \in 1..Len(lines) :
         /\ cut[i - 1] <= cut[i]
         /\ OwnText(lines[i]) = SubSeq(received, cut[i - 1] + 1, cut[i])
    /\ accumulated = SubSeq(received, cut[Len(lines)] + 1, Len(received))

\* "Flush flushes any pending strings, and returns an error if any writes failed
\* in the past" (linewriter.go:27-28): once a Flush has returned, no byte that
\* was handed over is still in the buffer and its error says whether any call of
\* the underlying writer, not only the last one, has failed.
FlushDelivers ==
  \A f \in Flushers : flush[f] = "returned" =>
    /\ accumulated = <<>>
    /\ result[f] <=> \E i \in 1..Len(lines) : ~lines[i].ok

\* Once a Flush has returned the underlying writer is never called again, so
\* nothing is logged after Wait has handed the result over.
SilentAfterFlush ==
  [][(\E f \in Flushers : flush[f] = "returned") => lines' = lines]_vars

\* Write and Flush return, however callers compete for the goroutine, unless
\* another Flush has returned before: executable.go has one of each and calls
\* Flush once, when the relay will write no more (executable.go:345-369).
CallsReturn ==
  /\ \A w \in Writers : left[w] > 0 ~>
       (left[w] = 0 \/ \E f \in Flushers : flush[f] = "returned")
  /\ \A f \in Flushers : flush[f] = "sending" ~>
       \E g \in Flushers : flush[g] = "returned"

\* A prompt without a newline is shown in the end although nobody flushes: once
\* the writers pause, which they do as they write no more than MaxBytes in all.
\* While bytes keep coming faster than the timeout it stays in the buffer, as
\* every byte sets the timer back (linewriter.go:65-77).
PartialLineAppears == accumulated # <<>> ~> accumulated = <<>>

=============================================================================
