----------------------------- MODULE ByteDisplay -----------------------------
(***************************************************************************)
(* How bytes are shown to the user: VisualizeByteDiff, which shows a       *)
(* window of two byte slices around their first difference, and            *)
(* InspectableByteString, which shows a window of one around an offset and *)
(* puts a caret under it.                                                  *)
(*                                                                         *)
(* Bytes are positions, 0, 1, ...: of a diff only the lengths and where    *)
(* the slices differ matter, of a string how wide %q prints each byte.     *)
(***************************************************************************)
EXTENDS Integers, Sequences

LOCAL INSTANCE FiniteSetsExt

-----------------------------------------------------------------------------
(***************************************************************************)
(* VisualizeByteDiff. A diff is [actual, expected : lengths, differ : the  *)
(* positions within both that differ].                                     *)
(***************************************************************************)

TotalByteCountToDisplay == 100
ByteCountPerLine == 20

Shorter(d) == Min({d.actual, d.expected})
Longer(d) == Max({d.actual, d.expected})

Same(d) == d.differ = {} /\ d.actual = d.expected

\* The first position that differs, or the one where the shorter slice ends.
FirstDiffIndex(d) == IF d.differ = {} THEN Shorter(d) ELSE Min(d.differ)

ByteRangeStart(d) == Max({0, FirstDiffIndex(d) - TotalByteCountToDisplay \div 2})

\* Mutant: the window ends with the shorter slice.
ByteRangeEndShorter(d) ==
  Min({ByteRangeStart(d) + TotalByteCountToDisplay, Shorter(d)})

ByteRangeEnd(d) ==
  Min({ByteRangeStart(d) + TotalByteCountToDisplay, Longer(d)})

\* The lines of a slice of n bytes: [from, to), and the colored byte if any.
LinesOf(d, n) ==
  LET first == ByteRangeStart(d)
      stop == Min({ByteRangeEnd(d), n})
      count == IF first < stop
                 THEN (stop - first + ByteCountPerLine - 1) \div ByteCountPerLine
                 ELSE 0
      from(k) == first + (k - 1) * ByteCountPerLine
      to(k) == Min({from(k) + ByteCountPerLine, n})
  IN [k \in 1..count |->
       [from |-> from(k), to |-> to(k),
        colored |-> {FirstDiffIndex(d)} \cap (from(k)..(to(k) - 1))]]

VisualizeByteDiff(d) ==
  IF Same(d) THEN [expected |-> <<>>, actual |-> <<>>]
             ELSE [expected |-> LinesOf(d, d.expected), actual |-> LinesOf(d, d.actual)]

-----------------------------------------------------------------------------
(***************************************************************************)
(* InspectableByteString. A string is the sequence of the widths %q prints *)
(* its bytes with: 1, 2 (\n) or 4 (\x00). Bytes of one rune, whose width   *)
(* depends on their neighbours, are left out.                              *)
(***************************************************************************)

\* Mutant: the window ends right before the offset.
TruncateAroundOffsetShort(s, offset) ==
  LET start == Max({0, offset - 20})
  IN [truncationStartIndex |-> start,
      bytes |-> SubSeq(s, start + 1, Min({Len(s), start + 20}))]

TruncateAroundOffset(s, offset) ==
  LET start == Max({0, offset - 20})
  IN [truncationStartIndex |-> start,
      bytes |-> SubSeq(s, start + 1, Min({Len(s), start + 30}))]

\* The columns of the quoted string: the position of the byte each belongs to,
\* and -1 for the quotes.
Columns(shown) ==
  LET Width(i) == shown.bytes[i]
      before(i) == MapThenSumSet(Width, 1..(i - 1))
      total == MapThenSumSet(Width, 1..Len(shown.bytes))
  IN [c \in 0..(total + 1) |->
       IF c \in {0, total + 1} THEN -1
       ELSE shown.truncationStartIndex - 1
            + (CHOOSE i \in 1..Len(shown.bytes) :
                 before(i) < c /\ c <= before(i) + Width(i))]

\* The quoted bytes before the offset end in a quote too many.
GetOffsetInFormattedString(shown, byteOffset) ==
  LET Width(i) == shown.bytes[i]
  IN 2 + MapThenSumSet(Width, 1..(byteOffset - shown.truncationStartIndex)) - 1

\* The columns and where the caret is.
FormatWithHighlightedOffset(s, offset) ==
  LET shown == TruncateAroundOffset(s, offset)
  IN [columns |-> Columns(shown),
      caret |-> GetOffsetInFormattedString(shown, offset)]

=============================================================================
