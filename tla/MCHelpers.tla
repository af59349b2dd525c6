------------------------------ MODULE MCHelpers ------------------------------
(***************************************************************************)
(* The pure helpers against what they should compute, over bounded inputs: *)
(* a behaviour is one call of one of them and its result.                  *)
(***************************************************************************)
EXTENDS ByteDisplay, ProcessTree, Sampling

LOCAL INSTANCE FiniteSetsExt

CONSTANTS
  Lengths,   \* lengths of the byte slices of a diff
  Strings,   \* strings that are inspected
  Pids,      \* process ids, 1 the program's
  MaxLen,    \* bound: elements of a sampled array
  MaxCount   \* bound: elements drawn from it

VARIABLES call, result, returned
vars == <<call, result, returned>>

\* Two slices that differ nowhere, in one place or in two.
Diffs ==
  UNION {{[actual |-> a, expected |-> e, differ |-> D] :
            D \in {{}} \cup {{i, Max({i, Min({a, e}) - 1})} : i \in 0..(Min({a, e}) - 1)}}
         : a \in Lengths, e \in Lengths}

\* Each process weighs a power of two, so that a sum tells which were counted.
Procs ==
  {[p \in Pids |-> [gone |-> p \in g, rss |-> 2 ^ (p - 1), children |-> c[p]]] :
     g \in SUBSET Pids, c \in [Pids -> SUBSET Pids]}

Calls ==
  {[fn |-> "VisualizeByteDiff", diff |-> d] : d \in Diffs}
  \cup UNION {{[fn |-> "FormatWithHighlightedOffset", string |-> s, offset |-> o] :
                 o \in 0..Len(s)} : s \in Strings}
  \cup {[fn |-> "GetProcessTreeRSS", proc |-> p] : p \in Procs}
  \cup {[fn |-> "RandomElementsFromArray", len |-> n, count |-> k] :
          n \in 1..MaxLen, k \in 0..MaxCount}

Init == call \in Calls /\ result = <<>> /\ returned = FALSE

Returns(fn, r) ==
  /\ ~returned /\ call.fn = fn
  /\ result' = r /\ returned' = TRUE
  /\ UNCHANGED call

Next ==
  \/ Returns("VisualizeByteDiff", VisualizeByteDiff(call.diff))
  \/ Returns("FormatWithHighlightedOffset",
             FormatWithHighlightedOffset(call.string, call.offset))
  \/ Returns("GetProcessTreeRSS", GetProcessTreeRSS(call.proc, 1))
  \/ /\ call.fn = "RandomElementsFromArray"
     /\ \E r \in RandomElements(call.len, call.count) :
          Returns("RandomElementsFromArray", r)

Spec == Init /\ [][Next]_vars

Answered(fn) == returned /\ call.fn = fn

-----------------------------------------------------------------------------

\* The bytes on some lines.
Shown(lines) == UNION {lines[k].from..(lines[k].to - 1) : k \in DOMAIN lines}

\* Different slices are never shown as if they were the same: the first difference
\* is inside the window, colored in every slice that reaches it; each slice is
\* shown without gap, repetition or a byte that it or the announced range does
\* not have, in at most five lines (bytes_diff_visualizer.go:42-71).
DiffIsShown ==
  Answered("VisualizeByteDiff") /\ ~Same(call.diff) =>
    LET d == call.diff
        at == FirstDiffIndex(d)
        Fine(lines, n) ==
          /\ Len(lines) <= 5
          /\ Shown(lines) = ByteRangeStart(d)..(Min({ByteRangeEnd(d), n}) - 1)
          /\ \A j, k \in DOMAIN lines : j < k => lines[j].to <= lines[k].from
          /\ at < n <=> at \in UNION {lines[k].colored : k \in DOMAIN lines}
    IN /\ Fine(result.expected, d.expected) /\ Fine(result.actual, d.actual)
       /\ at \in Shown(result.expected) \cup Shown(result.actual)

\* The caret is under the first column of the byte it speaks of, at both ends of
\* the string and with bytes printed as escapes before it, or under the closing
\* quote when the offset is the end (inspectable_byte_string.go:41-66).
CaretAtByte ==
  Answered("FormatWithHighlightedOffset") =>
    LET col == result.columns
        at == result.caret
    IN /\ at \in DOMAIN col
       /\ col[at] = IF call.offset = Len(call.string) THEN -1 ELSE call.offset
       /\ at > 0 /\ col[at - 1] # call.offset

\* The processes that can be reached from pid through ones that can be read.
Tree(proc, pid) ==
  LET Closed(S) == \A p \in S : proc[p].gone \/ proc[p].children \subseteq S
  IN {q \in Pids : \A S \in SUBSET Pids : pid \in S /\ Closed(S) => q \in S}

\* Whatever /proc looks like to the monitor, the walk ends and counts every
\* process it can reach once: none twice, though it may be seen under two
\* parents, and none is left out because another has gone. It only fails when
\* the program itself has gone (memory_limit_linux.go:102-133).
TreeCountedOnce ==
  Answered("GetProcessTreeRSS") =>
    LET counted == {p \in Tree(call.proc, 1) : ~call.proc[p].gone}
        Weight(p) == call.proc[p].rss
    IN /\ result.err <=> call.proc[1].gone
       /\ result.rss = MapThenSumSet(Weight, counted)

\* No element is drawn more often than the array had to be doubled to hold count
\* elements: up to its length they are distinct (random/helpers.go:147-162).
SampleWithoutReplacement ==
  Answered("RandomElementsFromArray") =>
    LET copies == Min({m \in {2 ^ k : k \in 0..call.count} : m * call.len >= call.count})
    IN \A e \in 1..call.len :
         Cardinality({i \in 1..call.count : result[i] = e}) <= copies

-----------------------------------------------------------------------------

MCLengths == {0, 1, 19, 20, 21, 50, 51, 99, 100, 101, 130, 170}

\* Strings of every interesting length, of three patterns of widths.
MCStrings ==
  {[i \in 1..n |-> IF i % m = 0 THEN w ELSE 1] :
     n \in {0, 1, 19, 20, 21, 29, 30, 31, 51, 60}, m \in {1, 3}, w \in {1, 2, 4}}

=============================================================================
