------------------------------- MODULE Logger -------------------------------
(***************************************************************************)
(* logger.Logger: loggers with stacks of secondary prefixes. A stack is a  *)
(* Go slice, that is a length and a reference to an array that other       *)
(* slices may refer to as well, and the text in front of each line is a    *)
(* copy that every method that changes the stack renews.                   *)
(*                                                                         *)
(* The methods are not synchronized: each is one step. What is printed is  *)
(* left out but for the prefixes in front of it.                           *)
(***************************************************************************)
EXTENDS Naturals, Sequences

CONSTANTS
  Loggers,   \* the loggers of the tester
  Prefix,    \* secondary prefixes
  MaxLen,    \* bound: prefixes on a stack
  MaxArrays  \* bound: arrays allocated

ASSUME BoundsAssumption == MaxLen \in Nat /\ MaxArrays \in Nat

VARIABLES
  heap,   \* the arrays; the first is the empty one, behind nil and []string{}
  live,   \* the loggers made so far
  slice,  \* slice[l]: l.secondaryPrefixes
  shown,  \* shown[l]: the prefixes in the text that l puts in front of a line
  saved,  \* a slice that a caller of GetSecondaryPrefixes holds
  \* History.
  want,      \* want[l]: the stack as the calls on l alone make it
  savedWant, \* what was on the stack when saved was got
  holders,   \* the loggers that have, or have had, saved for their stack
  mixed,     \* the loggers that share a slice with another one, or got a spoilt one
  spoilt     \* a holder has popped an element of saved, or there are two of them

history == <<want, savedWant, holders, mixed, spoilt>>
vars == <<heap, live, slice, shown, saved, history>>

Nil == [arr |-> 1, len |-> 0]

Content(h, s) == SubSeq(h[s.arr], 1, s.len)

\* append(s, p): in place when the array has room, else in a new array of twice
\* the length.
Pushed(h, s, p) ==
  IF s.len < Len(h[s.arr])
    THEN [heap  |-> [h EXCEPT ![s.arr][s.len + 1] = p],
          slice |-> [s EXCEPT !.len = @ + 1]]
    ELSE LET room == IF s.len = 0 THEN 1 ELSE 2 * s.len
         IN  [heap  |-> Append(h, [i \in 1..room |->
                                     IF i <= s.len THEN h[s.arr][i] ELSE p]),
              slice |-> [arr |-> Len(h) + 1, len |-> s.len + 1]]

\* s[:len(s)-1], of an empty slice nothing.
Popped(s) == IF s.len = 0 THEN s ELSE [s EXCEPT !.len = @ - 1]

Dropped(stack) == IF stack = <<>> THEN stack ELSE SubSeq(stack, 1, Len(stack) - 1)

Init ==
  /\ heap = << <<>> >>
  /\ live = {} /\ slice = [l \in Loggers |-> Nil]
  /\ shown = [l \in Loggers |-> <<>>] /\ saved = Nil
  /\ want = [l \in Loggers |-> <<>>] /\ savedWant = <<>>
  /\ holders = {} /\ mixed = {} /\ spoilt = FALSE

\* l has the slice s over the arrays h, and its text is renewed
\* (updateLoggerPrefix).
Set(l, h, s) ==
  /\ heap' = h /\ Len(h) <= MaxArrays
  /\ slice' = [slice EXCEPT ![l] = s]
  /\ shown' = [shown EXCEPT ![l] = Content(h, s)]

\* The call on l leaves the stack w on l. It pops down to length low.
Remember(l, w, low) ==
  /\ want' = [want EXCEPT ![l] = w]
  /\ spoilt' = (spoilt \/ (l \in holders /\ low < Len(savedWant)))
  /\ UNCHANGED <<saved, savedWant, holders, mixed>>

-----------------------------------------------------------------------------

\* GetLogger and GetQuietLogger.
GetLogger(l) ==
  /\ l \notin live
  /\ live' = live \cup {l}
  /\ UNCHANGED <<heap, slice, shown, saved, history>>

\* Mutant: the clone takes the slice itself.
CloneSharing(l, m) ==
  /\ l \in live /\ m \notin live
  /\ live' = live \cup {m}
  /\ Set(m, heap, slice[l])
  /\ want' = [want EXCEPT ![m] = want[l]]
  /\ mixed' = IF l \in mixed THEN mixed \cup {m} ELSE mixed
  /\ UNCHANGED <<saved, savedWant, holders, spoilt>>

\* Clone: the prefixes are copied to an array that has no room for more.
Clone(l, m) ==
  /\ l \in live /\ m \notin live
  /\ live' = live \cup {m}
  /\ IF slice[l].len = 0
       THEN Set(m, heap, Nil)
       ELSE Set(m, Append(heap, Content(heap, slice[l])),
                [arr |-> Len(heap) + 1, len |-> slice[l].len])
  /\ want' = [want EXCEPT ![m] = want[l]]
  /\ mixed' = IF l \in mixed THEN mixed \cup {m} ELSE mixed
  /\ UNCHANGED <<saved, savedWant, holders, spoilt>>

PushSecondaryPrefix(l, p) ==
  /\ l \in live /\ slice[l].len < MaxLen
  /\ LET new == Pushed(heap, slice[l], p) IN Set(l, new.heap, new.slice)
  /\ Remember(l, Append(want[l], p), Len(want[l]))
  /\ UNCHANGED live

\* With no prefixes it does nothing at all.
PopSecondaryPrefix(l) ==
  /\ l \in live /\ slice[l].len > 0
  /\ Set(l, heap, Popped(slice[l]))
  /\ Remember(l, Dropped(want[l]), Len(want[l]) - 1)
  /\ UNCHANGED live

\* A pop and a push, which writes over the popped element.
UpdateLastSecondaryPrefix(l, p) ==
  /\ l \in live
  /\ LET new == Pushed(heap, Popped(slice[l]), p) IN Set(l, new.heap, new.slice)
  /\ Remember(l, Append(Dropped(want[l]), p), Len(Dropped(want[l])))
  /\ UNCHANGED live

\* WithAdditionalSecondaryPrefix: p is pushed, fn runs, and p is popped in the end
\* even if fn panics. fn may change it to q.
WithAdditionalSecondaryPrefix(l, p, q) ==
  /\ l \in live /\ slice[l].len < MaxLen
  /\ LET in  == Pushed(heap, slice[l], p)
         upd == Pushed(in.heap, Popped(in.slice), q)
     IN  Set(l, upd.heap, Popped(upd.slice))
  /\ Remember(l, want[l], Len(want[l]))
  /\ UNCHANGED live

\* l lets go of the slice it had.
LetGo(l) ==
  /\ want' = [want EXCEPT ![l] = <<>>]
  /\ holders' = holders \ {l} /\ mixed' = mixed \ {l}
  /\ UNCHANGED <<saved, savedWant, spoilt>>

\* Mutant: the slice is cut to length 0 and keeps its array.
ResetSecondaryPrefixesInPlace(l) ==
  /\ l \in live
  /\ Set(l, heap, [slice[l] EXCEPT !.len = 0])
  /\ LetGo(l)
  /\ UNCHANGED live

\* A new empty slice.
ResetSecondaryPrefixes(l) ==
  /\ l \in live
  /\ Set(l, heap, Nil)
  /\ LetGo(l)
  /\ UNCHANGED live

\* GetSecondaryPrefixes hands out the slice of l, not a copy.
GetSecondaryPrefixes(l) ==
  /\ l \in live
  /\ saved' = slice[l] /\ savedWant' = want[l]
  /\ holders' = {l} /\ spoilt' = (l \in mixed)
  /\ UNCHANGED <<heap, live, slice, shown, want, mixed>>

\* UpdateSecondaryPrefixes with the slice that was handed out.
UpdateSecondaryPrefixes(l) ==
  /\ l \in live
  /\ Set(l, heap, saved)
  /\ want' = [want EXCEPT ![l] = savedWant]
  /\ holders' = holders \cup {l}
  /\ spoilt' = (spoilt \/ holders' # {l})
  /\ mixed' = IF spoilt' THEN mixed \cup holders' ELSE mixed \ {l}
  /\ UNCHANGED <<saved, savedWant, live>>

Next ==
  \E l \in Loggers :
    \/ GetLogger(l) \/ (\E m \in Loggers : Clone(l, m))
    \/ PopSecondaryPrefix(l) \/ ResetSecondaryPrefixes(l)
    \/ GetSecondaryPrefixes(l) \/ UpdateSecondaryPrefixes(l)
    \/ \E p \in Prefix : PushSecondaryPrefix(l, p) \/ UpdateLastSecondaryPrefix(l, p)
    \/ \E p, q \in Prefix : WithAdditionalSecondaryPrefix(l, p, q)

Spec == Init /\ [][Next]_vars

-----------------------------------------------------------------------------

\* Every variable has its type, and no slice is longer than its array.
TypeOK ==
  /\ heap \in Seq(Seq(Prefix)) /\ heap # <<>>
  /\ live \subseteq Loggers /\ holders \cup mixed \subseteq Loggers
  /\ spoilt \in BOOLEAN
  /\ shown \in [Loggers -> Seq(Prefix)] /\ want \in [Loggers -> Seq(Prefix)]
  /\ savedWant \in Seq(Prefix)
  /\ \A s \in {slice[l] : l \in Loggers} \cup {saved} :
       s.arr \in 1..Len(heap) /\ s.len \in 0..Len(heap[s.arr])

\* A logger's lines carry the prefixes that the calls on this logger have put
\* there, whatever is done with its clones and originals: no slice and no text
\* in front of its lines changes behind its back, unless its array has been
\* handed from one logger to another (logger.go:106-122, 125-142, 157-184).
LinesCarryOwnPrefixes ==
  \A l \in live \ mixed : Content(heap, slice[l]) = want[l] /\ shown[l] = want[l]

\* What GetSecondaryPrefixes has returned can be given back to
\* UpdateSecondaryPrefixes later on and restores the stack, until one of its
\* elements is popped, by UpdateLastSecondaryPrefix too: a push then writes over
\* it (logger.go:126-128, 139-148, 170-172).
SavedPrefixesKept == ~spoilt => Content(heap, saved) = savedWant

=============================================================================
