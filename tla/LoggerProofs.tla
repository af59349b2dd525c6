---------------------------- MODULE LoggerProofs ----------------------------
(***************************************************************************)
(* Proofs about Logger, for any number of loggers and prefixes, stacks of  *)
(* any height and any number of arrays.                                    *)
(***************************************************************************)
EXTENDS Logger, SequenceTheorems, TLAPS

\* s is a slice of one of the arrays h.
SliceOf(h, s) ==
  /\ s \in [arr : Nat, len : Nat]
  /\ s.arr \in 1..Len(h) /\ s.len <= Len(h[s.arr])

\* The arrays g are the arrays h and perhaps more: but for the elements of array
\* a behind the n-th nothing has been written over.
Grows(h, g, a, n) ==
  /\ g \in Seq(Seq(Prefix)) /\ Len(h) <= Len(g)
  /\ \A b \in 1..Len(h) :
       /\ Len(g[b]) = Len(h[b])
       /\ \A i \in 1..Len(h[b]) : b # a \/ i <= n => g[b][i] = h[b][i]

Types ==
  /\ heap \in Seq(Seq(Prefix)) /\ heap # <<>> /\ heap[1] = <<>>
  /\ live \subseteq Loggers /\ holders \subseteq live /\ mixed \subseteq live
  /\ spoilt \in BOOLEAN
  /\ slice \in [Loggers -> [arr : Nat, len : Nat]]
  /\ shown \in [Loggers -> Seq(Prefix)] /\ want \in [Loggers -> Seq(Prefix)]
  /\ savedWant \in Seq(Prefix)
  /\ SliceOf(heap, saved) /\ \A l \in Loggers : SliceOf(heap, slice[l])

\* A stack is as high as the calls make it, whatever it holds.
Heights ==
  /\ saved.len = Len(savedWant)
  /\ \A l \in Loggers : slice[l].len = Len(want[l])

\* Two slices of one array that is not the empty one.
Share(s, t) == s.arr = t.arr /\ s.arr # 1

\* A logger that is not mixed has its array for itself, and only the holders of
\* saved, or a mixed logger, have that array.
Ownership ==
  /\ \A l \in Loggers \ mixed : \A k \in Loggers \ {l} : ~Share(slice[l], slice[k])
  /\ \A k \in Loggers \ (holders \cup mixed) : ~Share(slice[k], saved)

\* As long as saved is not spoilt nobody but a holder has its array, and no holder
\* has a stack in it that ends below saved.
Unspoilt ==
  ~spoilt =>
    /\ holders \cap mixed = {}
    /\ \A k \in Loggers \ holders : ~Share(slice[k], saved)
    /\ \A k \in holders : Share(slice[k], saved) => saved.len <= slice[k].len

\* LinesCarryOwnPrefixes, of the loggers that are not live yet, too.
Contents ==
  \A l \in Loggers \ mixed : Content(heap, slice[l]) = want[l] /\ shown[l] = want[l]

IInv == Types /\ Heights /\ Ownership /\ Unspoilt /\ Contents /\ SavedPrefixesKept

-----------------------------------------------------------------------------
(***************************************************************************)
(* Arrays and slices.                                                      *)
(***************************************************************************)

Arrays(h) == h \in Seq(Seq(Prefix)) /\ h # <<>> /\ h[1] = <<>>

\* What a slice shows.
LEMMA ContentIs ==
  ASSUME NEW h, Arrays(h), NEW s, SliceOf(h, s)
  PROVE  /\ Content(h, s) \in Seq(Prefix)
         /\ Len(Content(h, s)) = s.len
         /\ \A i \in 1..s.len : Content(h, s)[i] = h[s.arr][i]
<1>1. h[s.arr] \in Seq(Prefix) /\ s.len \in Nat
  BY DEF Arrays, SliceOf
<1>2. \A i \in 1..s.len : h[s.arr][i] \in Prefix
  BY <1>1 DEF SliceOf
<1> QED
  BY <1>1, <1>2, SubSeqProperties DEF Content

\* A slice of the empty array is empty.
LEMMA EmptyArray ==
  ASSUME NEW h, Arrays(h), NEW s, SliceOf(h, s), s.arr = 1
  PROVE  s.len = 0 /\ Content(h, s) = <<>>
<1>1. s.len = 0
  BY DEF Arrays, SliceOf
<1>2. Content(h, s) \in Seq(Prefix) /\ Len(Content(h, s)) = 0
  BY <1>1, ContentIs
<1> QED
  BY <1>1, <1>2, EmptySeq

LEMMA SameContent ==
  ASSUME NEW h, Arrays(h), NEW s, SliceOf(h, s), NEW g, Arrays(g), NEW t, SliceOf(g, t),
         s.len = t.len, \A i \in 1..s.len : h[s.arr][i] = g[t.arr][i]
  PROVE  Content(h, s) = Content(g, t)
<1>1. /\ Content(h, s) \in Seq(Prefix) /\ Content(g, t) \in Seq(Prefix)
      /\ Len(Content(h, s)) = Len(Content(g, t)) /\ Len(Content(h, s)) = s.len
      /\ \A i \in 1..s.len : Content(h, s)[i] = Content(g, t)[i]
  BY ContentIs
<1> QED
  BY <1>1, SeqEqual

\* Growing arrays stay arrays and their slices stay slices. One whose elements are
\* not written over shows what it has shown.
LEMMA GrowsArrays ==
  ASSUME NEW h, Arrays(h), NEW g, NEW a, NEW n \in Nat, Grows(h, g, a, n)
  PROVE  Arrays(g) /\ \A s : SliceOf(h, s) => SliceOf(g, s)
<1>1. /\ g \in Seq(Seq(Prefix)) /\ Len(h) \in Nat \ {0} /\ Len(h) <= Len(g)
      /\ Len(g) \in Nat /\ g[1] \in Seq(Prefix)
  BY EmptySeq DEF Grows, Arrays
<1>2. Len(g[1]) = 0
  <2>1. 1 \in 1..Len(h) /\ Len(h[1]) = 0
    BY <1>1, EmptySeq DEF Arrays
  <2> QED
    BY <2>1 DEF Grows
<1>3. g[1] = <<>>
  BY <1>1, <1>2, EmptySeq
<1>4. Arrays(g)
  BY <1>1, <1>3 DEF Arrays
<1>5. ASSUME NEW s, SliceOf(h, s) PROVE SliceOf(g, s)
  BY <1>1, <1>5 DEF Grows, SliceOf
<1> QED
  BY <1>4, <1>5

LEMMA GrowsContent ==
  ASSUME NEW h, Arrays(h), NEW g, NEW a, NEW n \in Nat, Grows(h, g, a, n),
         NEW s, SliceOf(h, s), s.arr # a \/ s.len <= n
  PROVE  Content(g, s) = Content(h, s)
<1>1. Arrays(g) /\ SliceOf(g, s)
  BY GrowsArrays
<1>2. ASSUME NEW i \in 1..s.len PROVE h[s.arr][i] = g[s.arr][i]
  <2>1. h[s.arr] \in Seq(Prefix) /\ s.len \in Nat /\ s.arr \in 1..Len(h)
    BY DEF Arrays, SliceOf
  <2>2. Len(h[s.arr]) \in Nat /\ s.len <= Len(h[s.arr])
    BY <2>1 DEF SliceOf
  <2>3. i \in 1..Len(h[s.arr]) /\ (s.arr # a \/ i <= n)
    BY <2>1, <2>2
  <2> QED
    BY <2>1, <2>3 DEF Grows
<1> QED
  BY <1>1, <1>2, SameContent

LEMMA GrowsTwice ==
  ASSUME NEW h, Arrays(h), NEW g, NEW f, NEW a, NEW b, NEW n \in Nat, NEW m \in Nat,
         Grows(h, g, a, n), Grows(g, f, b, m),
         (b = a /\ n <= m) \/ b > Len(h)
  PROVE  Grows(h, f, a, n)
<1>1. /\ f \in Seq(Seq(Prefix)) /\ Len(h) <= Len(f)
      /\ \A c \in 1..Len(h) : c \in 1..Len(g)
  <2>1. h \in Seq(Seq(Prefix)) /\ g \in Seq(Seq(Prefix)) /\ f \in Seq(Seq(Prefix))
    BY DEF Grows, Arrays
  <2>2. Len(h) \in Nat /\ Len(g) \in Nat /\ Len(f) \in Nat
    BY <2>1
  <2>3. Len(h) <= Len(g) /\ Len(g) <= Len(f)
    BY DEF Grows
  <2> QED
    BY <2>1, <2>2, <2>3
<1>2. ASSUME NEW c \in 1..Len(h)
      PROVE  /\ Len(f[c]) = Len(h[c])
             /\ \A i \in 1..Len(h[c]) : c # a \/ i <= n => f[c][i] = h[c][i]
  <2>1. Len(g[c]) = Len(h[c]) /\ Len(f[c]) = Len(g[c])
    BY <1>1 DEF Grows
  <2>2. ASSUME NEW i \in 1..Len(h[c]), c # a \/ i <= n PROVE f[c][i] = h[c][i]
    <3>1. g[c][i] = h[c][i]
      BY <2>2 DEF Grows
    <3>2. c # b \/ i <= m
      BY <2>2 DEF Arrays
    <3> QED
      BY <1>1, <2>1, <3>1, <3>2 DEF Grows
  <2> QED
    BY <2>1, <2>2
<1> QED
  BY <1>1, <1>2 DEF Grows

\* append: nothing but the element behind the slice is written, and only if the
\* array has room; else the slice gets a new array.
LEMMA PushedGrows ==
  ASSUME NEW h, Arrays(h), NEW s, SliceOf(h, s), NEW p \in Prefix,
         NEW N, N = Pushed(h, s, p)
  PROVE  /\ Grows(h, N.heap, s.arr, s.len)
         /\ SliceOf(N.heap, N.slice) /\ N.slice.len = s.len + 1
         /\ Content(N.heap, N.slice) = Append(Content(h, s), p)
         /\ N.slice.arr = s.arr \/ N.slice.arr > Len(h)
<1> DEFINE g == N.heap
           t == N.slice
           a == h[s.arr]
<1>1. /\ s.arr \in 1..Len(h) /\ s.len \in Nat /\ a \in Seq(Prefix)
      /\ s.len <= Len(a) /\ Len(a) \in Nat /\ Len(h) \in Nat
      /\ h \in Seq(Seq(Prefix)) /\ s = [arr |-> s.arr, len |-> s.len]
  BY DEF Arrays, SliceOf
<1>2. /\ Append(Content(h, s), p) \in Seq(Prefix)
      /\ Len(Append(Content(h, s), p)) = s.len + 1
      /\ \A i \in 1..(s.len + 1) :
           Append(Content(h, s), p)[i] = IF i <= s.len THEN a[i] ELSE p
  BY <1>1, ContentIs
<1>3. SUFFICES /\ Grows(h, g, s.arr, s.len)
               /\ SliceOf(g, t) /\ t.len = s.len + 1
               /\ t.arr = s.arr \/ t.arr > Len(h)
               /\ \A i \in 1..(s.len + 1) : g[t.arr][i] = IF i <= s.len THEN a[i] ELSE p
  <2>1. Arrays(g)
    BY <1>1, <1>3, GrowsArrays
  <2>2. /\ Content(g, t) \in Seq(Prefix) /\ Len(Content(g, t)) = s.len + 1
        /\ \A i \in 1..(s.len + 1) : Content(g, t)[i] = g[t.arr][i]
    BY <1>3, <2>1, ContentIs
  <2>3. Content(g, t) = Append(Content(h, s), p)
    BY <1>2, <1>3, <2>2, SeqEqual
  <2> QED
    BY <1>3, <2>3
<1>4. CASE s.len < Len(a)
  <2>1. /\ g = [h EXCEPT ![s.arr] = [a EXCEPT ![s.len + 1] = p]]
        /\ t = [s EXCEPT !.len = s.len + 1]
    BY <1>4 DEF Pushed
  <2>2. /\ [a EXCEPT ![s.len + 1] = p] \in Seq(Prefix)
        /\ Len([a EXCEPT ![s.len + 1] = p]) = Len(a)
        /\ \A i \in 1..Len(a) :
             [a EXCEPT ![s.len + 1] = p][i] = IF i = s.len + 1 THEN p ELSE a[i]
    BY <1>1, <1>4, ExceptSeq
  <2>3. /\ g \in Seq(Seq(Prefix)) /\ Len(g) = Len(h)
        /\ \A b \in 1..Len(h) :
             g[b] = IF b = s.arr THEN [a EXCEPT ![s.len + 1] = p] ELSE h[b]
    BY <1>1, <2>1, <2>2, ExceptSeq
  <2>4. t = [arr |-> s.arr, len |-> s.len + 1]
    BY <1>1, <2>1
  <2>5. g[s.arr] = [a EXCEPT ![s.len + 1] = p]
    BY <1>1, <2>3
  <2>6. Grows(h, g, s.arr, s.len)
    <3>1. ASSUME NEW b \in 1..Len(h)
          PROVE  /\ Len(g[b]) = Len(h[b])
                 /\ \A i \in 1..Len(h[b]) : b # s.arr \/ i <= s.len => g[b][i] = h[b][i]
      <4>1. CASE b = s.arr
        <5>1. ASSUME NEW i \in 1..Len(a), i <= s.len
              PROVE  [a EXCEPT ![s.len + 1] = p][i] = a[i]
          BY <1>1, <2>2, <5>1
        <5> QED
          BY <2>2, <2>5, <4>1, <5>1
      <4>2. CASE b # s.arr
        <5>1. g[b] = h[b]
          BY <2>3, <4>2
        <5> QED
          BY <5>1
      <4> QED
        BY <4>1, <4>2
    <3>2. Len(h) <= Len(g)
      BY <1>1, <2>3
    <3> QED
      BY <2>3, <3>1, <3>2 DEF Grows
  <2>7. SliceOf(g, t)
    BY <1>1, <1>4, <2>2, <2>3, <2>4, <2>5 DEF SliceOf
  <2>8. \A i \in 1..(s.len + 1) : g[t.arr][i] = IF i <= s.len THEN a[i] ELSE p
    <3>1. ASSUME NEW i \in 1..(s.len + 1)
          PROVE  [a EXCEPT ![s.len + 1] = p][i] = IF i <= s.len THEN a[i] ELSE p
      <4>1. i \in 1..Len(a) /\ (i <= s.len <=> i # s.len + 1)
        BY <1>1, <1>4
      <4> QED
        BY <2>2, <4>1
    <3>2. g[t.arr] = [a EXCEPT ![s.len + 1] = p]
      BY <2>4, <2>5
    <3> QED
      BY <3>1, <3>2
  <2> QED
    BY <2>4, <2>6, <2>7, <2>8
<1>5. CASE ~(s.len < Len(a))
  <2> DEFINE room == IF s.len = 0 THEN 1 ELSE 2 * s.len
             new == [i \in 1..room |-> IF i <= s.len THEN a[i] ELSE p]
  <2>1. g = Append(h, new) /\ t = [arr |-> Len(h) + 1, len |-> s.len + 1]
    BY <1>5 DEF Pushed
  <2>2. room \in Nat /\ s.len + 1 <= room
    BY <1>1
  <2>3. \A i \in 1..s.len : a[i] \in Prefix
    BY <1>1
  <2>4. new \in Seq(Prefix) /\ Len(new) = room
    <3>1. ASSUME NEW i \in 1..room PROVE (IF i <= s.len THEN a[i] ELSE p) \in Prefix
      BY <1>1, <2>2, <2>3, <3>1
    <3> HIDE DEF room
    <3>2. new \in [1..room -> Prefix]
      BY <3>1
    <3> QED
      BY <2>2, <3>2
  <2>5. \A i \in 1..(s.len + 1) : new[i] = IF i <= s.len THEN a[i] ELSE p
    BY <1>1, <2>2
  <2> HIDE DEF new, room
  <2>6. /\ g \in Seq(Seq(Prefix)) /\ Len(g) = Len(h) + 1 /\ g[Len(h) + 1] = new
        /\ \A b \in 1..Len(h) : g[b] = h[b]
    BY <1>1, <2>1, <2>4
  <2>7. Grows(h, g, s.arr, s.len)
    <3>1. ASSUME NEW b \in 1..Len(h)
          PROVE  /\ Len(g[b]) = Len(h[b])
                 /\ \A i \in 1..Len(h[b]) : b # s.arr \/ i <= s.len => g[b][i] = h[b][i]
      <4>1. g[b] = h[b]
        BY <2>6
      <4> QED
        BY <4>1
    <3>2. Len(h) <= Len(g)
      BY <1>1, <2>6
    <3> QED
      BY <2>6, <3>1, <3>2 DEF Grows
  <2>8. SliceOf(g, t)
    BY <1>1, <2>1, <2>2, <2>4, <2>6 DEF SliceOf
  <2>9. \A i \in 1..(s.len + 1) : g[t.arr][i] = IF i <= s.len THEN a[i] ELSE p
    BY <2>1, <2>5, <2>6
  <2> QED
    BY <1>1, <2>1, <2>7, <2>8, <2>9
<1> QED
  BY <1>4, <1>5

\* s[:len(s)-1] shows what the stack without its last element is.
LEMMA PoppedContent ==
  ASSUME NEW h, Arrays(h), NEW s, SliceOf(h, s)
  PROVE  /\ SliceOf(h, Popped(s)) /\ Popped(s).arr = s.arr
         /\ Popped(s).len = IF s.len = 0 THEN 0 ELSE s.len - 1
         /\ Content(h, Popped(s)) = Dropped(Content(h, s))
<1>1. /\ s.arr \in 1..Len(h) /\ s.len \in Nat /\ h[s.arr] \in Seq(Prefix)
      /\ s.len <= Len(h[s.arr]) /\ Len(h[s.arr]) \in Nat
      /\ s = [arr |-> s.arr, len |-> s.len]
  BY DEF Arrays, SliceOf
<1>2. /\ Content(h, s) \in Seq(Prefix) /\ Len(Content(h, s)) = s.len
      /\ \A i \in 1..s.len : Content(h, s)[i] = h[s.arr][i]
  BY ContentIs
<1>3. CASE s.len = 0
  <2>1. Content(h, s) = <<>>
    BY <1>2, <1>3, EmptySeq
  <2> QED
    BY <1>1, <1>3, <2>1 DEF Popped, Dropped
<1>4. CASE s.len # 0
  <2>1. Popped(s) = [arr |-> s.arr, len |-> s.len - 1] /\ s.len - 1 \in Nat
    BY <1>1, <1>4 DEF Popped
  <2>2. SliceOf(h, Popped(s))
    BY <1>1, <2>1 DEF SliceOf
  <2>3. /\ Content(h, Popped(s)) \in Seq(Prefix)
        /\ Len(Content(h, Popped(s))) = s.len - 1
        /\ \A i \in 1..(s.len - 1) : Content(h, Popped(s))[i] = h[s.arr][i]
    BY <2>1, <2>2, ContentIs
  <2>4. Dropped(Content(h, s)) = SubSeq(Content(h, s), 1, s.len - 1)
    BY <1>2, <1>4, EmptySeq DEF Dropped
  <2>5. /\ Dropped(Content(h, s)) \in Seq(Prefix)
        /\ Len(Dropped(Content(h, s))) = s.len - 1
        /\ \A i \in 1..(s.len - 1) : Dropped(Content(h, s))[i] = h[s.arr][i]
    <3>1. \A i \in 1..(s.len - 1) : Content(h, s)[i] \in Prefix
      BY <1>1, <1>2
    <3> QED
      BY <1>1, <1>2, <2>1, <2>4, <3>1, SubSeqProperties
  <2>6. Content(h, Popped(s)) = Dropped(Content(h, s))
    BY <2>3, <2>5, SeqEqual
  <2> QED
    BY <1>4, <2>1, <2>2, <2>6
<1> QED
  BY <1>3, <1>4

\* A stack without its last element.
LEMMA DroppedIs ==
  ASSUME NEW w \in Seq(Prefix)
  PROVE  /\ Dropped(w) \in Seq(Prefix)
         /\ Len(Dropped(w)) = IF Len(w) = 0 THEN 0 ELSE Len(w) - 1
<1>1. CASE w = <<>>
  BY <1>1 DEF Dropped
<1>2. CASE w # <<>>
  <2>1. Len(w) \in Nat /\ Len(w) # 0 /\ Len(w) - 1 \in Nat
    BY <1>2, EmptySeq
  <2>2. Dropped(w) = SubSeq(w, 1, Len(w) - 1)
    BY <1>2 DEF Dropped
  <2>3. Len(w) - 1 <= Len(w)
    BY <2>1
  <2>4. ASSUME NEW n \in Nat, n <= Len(w)
        PROVE  SubSeq(w, 1, n) \in Seq(Prefix) /\ Len(SubSeq(w, 1, n)) = n
    <3>1. \A i \in 1..n : w[i] \in Prefix
      BY <2>1, <2>4
    <3>2. /\ SubSeq(w, 1, n) \in Seq(Prefix)
          /\ Len(SubSeq(w, 1, n)) = IF 1 <= n THEN n - 1 + 1 ELSE 0
      BY <3>1, SubSeqProperties
    <3> QED
      BY <3>2
  <2> QED
    BY <2>1, <2>2, <2>3, <2>4
<1> QED
  BY <1>1, <1>2

\* A pop takes back a push.
LEMMA DroppedAppend ==
  ASSUME NEW w \in Seq(Prefix), NEW p \in Prefix
  PROVE  Dropped(Append(w, p)) = w
<1>1. /\ Append(w, p) \in Seq(Prefix) /\ Len(Append(w, p)) = Len(w) + 1
      /\ \A i \in 1..Len(w) : Append(w, p)[i] = w[i]
      /\ Len(w) \in Nat
  OBVIOUS
<1>2. Dropped(Append(w, p)) = SubSeq(Append(w, p), 1, Len(w))
  BY <1>1, EmptySeq DEF Dropped
<1>3. /\ Dropped(Append(w, p)) \in Seq(Prefix)
      /\ Len(Dropped(Append(w, p))) = Len(w)
      /\ \A i \in 1..Len(w) : Dropped(Append(w, p))[i] = w[i]
  <2>1. \A i \in 1..Len(w) : Append(w, p)[i] \in Prefix
    BY <1>1
  <2> QED
    BY <1>1, <1>2, <2>1, SubSeqProperties
<1> QED
  BY <1>3, SeqEqual

\* The arrays as they are are the arrays and no more.
LEMMA GrowsSelf ==
  ASSUME NEW h, Arrays(h), NEW a, NEW n
  PROVE  Grows(h, h, a, n)
<1>1. h \in Seq(Seq(Prefix)) /\ Len(h) \in Nat
  BY DEF Arrays
<1> QED
  BY <1>1 DEF Grows

LEMMA SharedArray ==
  ASSUME NEW h, Arrays(h), NEW s, SliceOf(h, s), NEW t, ~Share(s, t), NEW n \in Nat
  PROVE  s.arr # t.arr \/ s.len <= n
BY EmptyArray DEF Share

-----------------------------------------------------------------------------
(***************************************************************************)
(* The invariant.                                                          *)
(***************************************************************************)

LEMMA Start == Init => IInv
<1> SUFFICES ASSUME Init PROVE IInv
  OBVIOUS
<1>1. /\ heap \in Seq(Seq(Prefix)) /\ Len(heap) = 1 /\ heap[1] = <<>>
      /\ <<>> \in Seq(Prefix) /\ Len(<<>>) = 0
  BY DEF Init
<1>2. SliceOf(heap, Nil) /\ Arrays(heap) /\ Nil.len = 0 /\ Nil.arr = 1
  BY <1>1, EmptySeq DEF SliceOf, Nil, Arrays
<1>3. Content(heap, Nil) = <<>>
  BY <1>2, EmptyArray
<1>4. Types
  BY <1>1, <1>2 DEF Types, Init, Nil, Arrays
<1>5. Heights /\ Ownership /\ Unspoilt
  BY <1>1, <1>2 DEF Heights, Ownership, Unspoilt, Share, Init
<1>6. Contents /\ SavedPrefixesKept
  BY <1>3 DEF Contents, SavedPrefixesKept, Init
<1> QED
  BY <1>4, <1>5, <1>6 DEF IInv

\* A push, a pop and what is made of them: l keeps its array, or gets a new one,
\* and writes over what is behind length low at most.
LEMMA OwnChange ==
  ASSUME IInv, NEW l \in live, NEW g, NEW t, NEW w \in Seq(Prefix), NEW low \in Nat,
         Set(l, g, t), Remember(l, w, low), UNCHANGED live,
         Grows(heap, g, slice[l].arr, low), SliceOf(g, t),
         t.arr = slice[l].arr \/ t.arr > Len(heap),
         t.len = Len(w), low <= t.len,
         l \notin mixed => Content(g, t) = w
  PROVE  IInv'
<1>1. l \in Loggers /\ Arrays(heap) /\ SliceOf(heap, saved)
  BY DEF IInv, Types, Arrays
<1>2. \A k \in Loggers : SliceOf(heap, slice[k]) /\ slice[k].arr \in 1..Len(heap)
  BY DEF IInv, Types, SliceOf
<1>3. /\ heap' = g /\ saved' = saved /\ savedWant' = savedWant /\ live' = live
      /\ holders' = holders /\ mixed' = mixed
      /\ slice'[l] = t /\ want'[l] = w /\ shown'[l] = Content(g, t)
      /\ \A k \in Loggers \ {l} :
           slice'[k] = slice[k] /\ want'[k] = want[k] /\ shown'[k] = shown[k]
  BY <1>1 DEF IInv, Types, Set, Remember
<1>4. Arrays(g) /\ \A s : SliceOf(heap, s) => SliceOf(g, s)
  BY <1>1, GrowsArrays
<1>5. Types'
  <2>1. Content(g, t) \in Seq(Prefix)
    BY <1>4, ContentIs
  <2>2. t \in [arr : Nat, len : Nat]
    BY DEF SliceOf
  <2>3. /\ slice' \in [Loggers -> [arr : Nat, len : Nat]]
        /\ shown' \in [Loggers -> Seq(Prefix)] /\ want' \in [Loggers -> Seq(Prefix)]
    BY <1>1, <2>1, <2>2 DEF IInv, Types, Set, Remember
  <2>4. SliceOf(heap', saved') /\ \A k \in Loggers : SliceOf(heap', slice'[k])
    BY <1>1, <1>2, <1>3, <1>4
  <2>5. heap' \in Seq(Seq(Prefix)) /\ heap' # <<>> /\ heap'[1] = <<>>
    BY <1>3, <1>4 DEF Arrays
  <2>6. spoilt' \in BOOLEAN
    BY DEF IInv, Types, Remember
  <2> QED
    BY <1>3, <2>3, <2>4, <2>5, <2>6 DEF IInv, Types
<1>6. Heights'
  BY <1>3 DEF IInv, Heights
<1>7. /\ \A k \in Loggers : Share(slice'[l], slice[k]) => Share(slice[l], slice[k])
      /\ \A k \in Loggers : Share(slice[k], slice'[l]) => Share(slice[k], slice[l])
      /\ Share(slice'[l], saved) => Share(slice[l], saved)
  <2>1. saved.arr \in 1..Len(heap) /\ Len(heap) \in Nat /\ t.arr \in Nat
    BY <1>1 DEF SliceOf, Arrays
  <2> QED
    BY <1>2, <1>3, <2>1 DEF Share
<1>8. Ownership'
  BY <1>3, <1>7 DEF IInv, Ownership
<1>9. ASSUME ~spoilt'
      PROVE  ~spoilt /\ (l \notin holders \/ saved.len <= low)
  <2>1. Len(savedWant) \in Nat /\ saved.len = Len(savedWant)
    BY DEF IInv, Types, Heights
  <2>2. ~spoilt /\ ~(l \in holders /\ low < Len(savedWant))
    BY <1>9, Zenon DEF Remember
  <2> QED
    BY <2>1, <2>2
<1>10. Unspoilt'
  <2> SUFFICES ASSUME ~spoilt'
               PROVE  /\ holders \cap mixed = {}
                      /\ \A k \in Loggers \ holders : ~Share(slice'[k], saved)
                      /\ \A k \in holders :
                           Share(slice'[k], saved) => saved.len <= slice'[k].len
    BY <1>3 DEF Unspoilt
  <2>1. /\ holders \cap mixed = {}
        /\ \A k \in Loggers \ holders : ~Share(slice[k], saved)
        /\ \A k \in holders : Share(slice[k], saved) => saved.len <= slice[k].len
    BY <1>9 DEF IInv, Unspoilt
  <2>2. \A k \in Loggers \ holders : ~Share(slice'[k], saved)
    BY <1>3, <1>7, <2>1
  <2>3. l \in holders => saved.len <= t.len
    BY <1>1, <1>9 DEF SliceOf
  <2>4. holders \subseteq Loggers
    BY DEF IInv, Types
  <2> QED
    BY <1>3, <2>1, <2>2, <2>3, <2>4
<1>11. Contents'
  <2> SUFFICES ASSUME NEW j \in Loggers \ mixed
               PROVE  Content(g, slice'[j]) = want'[j] /\ shown'[j] = want'[j]
    BY <1>3 DEF Contents
  <2>1. CASE j = l
    BY <1>3, <2>1
  <2>2. CASE j # l
    <3>1. ~Share(slice[j], slice[l])
      BY <1>1, <2>2 DEF IInv, Ownership
    <3>2. slice[j].arr # slice[l].arr \/ slice[j].len <= low
      BY <1>1, <1>2, <3>1, SharedArray
    <3>3. Content(g, slice[j]) = Content(heap, slice[j])
      BY <1>1, <1>2, <3>2, GrowsContent
    <3> QED
      BY <1>3, <2>2, <3>3 DEF IInv, Contents
  <2> QED
    BY <2>1, <2>2
<1>12. SavedPrefixesKept'
  <2> SUFFICES ASSUME ~spoilt' PROVE Content(g, saved) = savedWant
    BY <1>3 DEF SavedPrefixesKept
  <2>1. saved.arr # slice[l].arr \/ saved.len <= low
    <3>1. CASE l \notin holders
      <4>1. ~Share(saved, slice[l])
        BY <1>1, <1>9, <3>1 DEF IInv, Unspoilt, Share
      <4> QED
        BY <1>1, <4>1, SharedArray
    <3> QED
      BY <1>9, <3>1
  <2>2. Content(g, saved) = Content(heap, saved)
    BY <1>1, <2>1, GrowsContent
  <2> QED
    BY <1>9, <2>2 DEF IInv, SavedPrefixesKept
<1> QED
  BY <1>5, <1>6, <1>8, <1>10, <1>11, <1>12 DEF IInv

\* A clone and a reset: m gets the empty slice, or one of a new array.
LEMMA FreshSlice ==
  ASSUME IInv, NEW m \in Loggers, NEW g, NEW t, NEW w \in Seq(Prefix),
         Set(m, g, t), want' = [want EXCEPT ![m] = w],
         UNCHANGED <<saved, savedWant, spoilt>>,
         Grows(heap, g, 0, 0), SliceOf(g, t), t.arr = 1 \/ t.arr > Len(heap),
         t.len = Len(w),
         live' \subseteq Loggers, holders' \subseteq live', mixed' \subseteq live',
         holders \ {m} = holders' \ {m}, mixed \ {m} = mixed' \ {m},
         m \notin holders',
         m \notin mixed' => Content(g, t) = w
  PROVE  IInv'
<1>1. Arrays(heap) /\ SliceOf(heap, saved)
  BY DEF IInv, Types, Arrays
<1>2. \A k \in Loggers : SliceOf(heap, slice[k]) /\ slice[k].arr \in 1..Len(heap)
  BY DEF IInv, Types, SliceOf
<1>3. /\ heap' = g /\ saved' = saved /\ savedWant' = savedWant /\ spoilt' = spoilt
      /\ slice'[m] = t /\ want'[m] = w /\ shown'[m] = Content(g, t)
      /\ \A k \in Loggers \ {m} :
           slice'[k] = slice[k] /\ want'[k] = want[k] /\ shown'[k] = shown[k]
  BY DEF IInv, Types, Set
<1>4. Arrays(g) /\ \A s : SliceOf(heap, s) => SliceOf(g, s)
  BY <1>1, GrowsArrays
<1>5. ASSUME NEW s, SliceOf(heap, s) PROVE Content(g, s) = Content(heap, s)
  <2>1. s.arr # 0
    BY <1>5 DEF SliceOf
  <2> QED
    BY <1>1, <1>5, <2>1, GrowsContent
<1>6. Types'
  <2>1. Content(g, t) \in Seq(Prefix)
    BY <1>4, ContentIs
  <2>2. t \in [arr : Nat, len : Nat]
    BY DEF SliceOf
  <2>3. /\ slice' \in [Loggers -> [arr : Nat, len : Nat]]
        /\ shown' \in [Loggers -> Seq(Prefix)] /\ want' \in [Loggers -> Seq(Prefix)]
    BY <2>1, <2>2 DEF IInv, Types, Set
  <2>4. SliceOf(heap', saved') /\ \A k \in Loggers : SliceOf(heap', slice'[k])
    BY <1>1, <1>2, <1>3, <1>4
  <2>5. heap' \in Seq(Seq(Prefix)) /\ heap' # <<>> /\ heap'[1] = <<>>
    BY <1>3, <1>4 DEF Arrays
  <2> QED
    BY <1>3, <2>3, <2>4, <2>5 DEF IInv, Types
<1>7. Heights'
  BY <1>3 DEF IInv, Heights
<1>8. /\ \A k \in Loggers : ~Share(slice'[m], slice[k]) /\ ~Share(slice[k], slice'[m])
      /\ ~Share(slice'[m], saved)
  <2>1. saved.arr \in 1..Len(heap) /\ Len(heap) \in Nat /\ t.arr \in Nat
    BY <1>1 DEF SliceOf, Arrays
  <2> QED
    BY <1>2, <1>3, <2>1 DEF Share
<1>9. Ownership'
  <2>1. ASSUME NEW j \in Loggers \ mixed', NEW k \in Loggers \ {j}
        PROVE  ~Share(slice'[j], slice'[k])
    <3>1. CASE j = m \/ k = m
      BY <1>3, <1>8, <3>1
    <3>2. CASE j # m /\ k # m
      <4>1. j \in Loggers \ mixed
        BY <3>2
      <4> QED
        BY <1>3, <3>2, <4>1 DEF IInv, Ownership
    <3> QED
      BY <3>1, <3>2
  <2>2. ASSUME NEW k \in Loggers \ (holders' \cup mixed')
        PROVE  ~Share(slice'[k], saved')
    <3>1. CASE k = m
      BY <1>3, <1>8, <3>1
    <3>2. CASE k # m
      <4>1. k \in Loggers \ (holders \cup mixed)
        BY <3>2
      <4> QED
        BY <1>3, <3>2, <4>1 DEF IInv, Ownership
    <3> QED
      BY <3>1, <3>2
  <2> QED
    BY <2>1, <2>2 DEF Ownership
<1>10. Unspoilt'
  <2> SUFFICES ASSUME ~spoilt
               PROVE  /\ holders' \cap mixed' = {}
                      /\ \A k \in Loggers \ holders' : ~Share(slice'[k], saved)
                      /\ \A k \in holders' :
                           Share(slice'[k], saved) => saved.len <= slice'[k].len
    BY <1>3 DEF Unspoilt
  <2>1. /\ holders \cap mixed = {}
        /\ \A k \in Loggers \ holders : ~Share(slice[k], saved)
        /\ \A k \in holders : Share(slice[k], saved) => saved.len <= slice[k].len
    BY DEF IInv, Unspoilt
  <2>2. holders' \cap mixed' = {}
    BY <2>1
  <2>3. \A k \in Loggers \ holders' : ~Share(slice'[k], saved)
    BY <1>3, <1>8, <2>1
  <2>4. \A k \in holders' : k # m /\ k \in holders /\ k \in Loggers
    OBVIOUS
  <2> QED
    BY <1>3, <2>1, <2>2, <2>3, <2>4
<1>11. Contents'
  <2> SUFFICES ASSUME NEW j \in Loggers \ mixed'
               PROVE  Content(g, slice'[j]) = want'[j] /\ shown'[j] = want'[j]
    BY <1>3 DEF Contents
  <2>1. CASE j = m
    BY <1>3, <2>1
  <2>2. CASE j # m
    <3>1. Content(g, slice[j]) = Content(heap, slice[j])
      BY <1>2, <1>5
    <3>2. j \in Loggers \ mixed
      BY <2>2
    <3> QED
      BY <1>3, <2>2, <3>1, <3>2 DEF IInv, Contents
  <2> QED
    BY <2>1, <2>2
<1>12. SavedPrefixesKept'
  BY <1>1, <1>3, <1>5 DEF IInv, SavedPrefixesKept
<1> QED
  BY <1>6, <1>7, <1>9, <1>10, <1>11, <1>12 DEF IInv

\* What the actions of a live logger start from.
LEMMA OfLogger ==
  ASSUME IInv, NEW l \in Loggers
  PROVE  /\ Arrays(heap) /\ SliceOf(heap, slice[l])
         /\ want[l] \in Seq(Prefix) /\ Len(want[l]) \in Nat
         /\ slice[l].len = Len(want[l])
         /\ l \notin mixed => Content(heap, slice[l]) = want[l]
BY DEF IInv, Types, Heights, Contents, Arrays

LEMMA GetLoggerStep ==
  ASSUME IInv, NEW l \in Loggers, GetLogger(l)
  PROVE  IInv'
<1> USE DEF GetLogger, history
<1>1. Types'
  BY DEF IInv, Types
<1>2. Heights' /\ Ownership' /\ Unspoilt'
  BY DEF IInv, Heights, Ownership, Unspoilt
<1>3. Contents' /\ SavedPrefixesKept'
  BY DEF IInv, Contents, SavedPrefixesKept
<1> QED
  BY <1>1, <1>2, <1>3 DEF IInv

LEMMA CloneStep ==
  ASSUME IInv, NEW l \in Loggers, NEW m \in Loggers, Clone(l, m)
  PROVE  IInv'
<1>1. /\ Arrays(heap) /\ SliceOf(heap, slice[l])
      /\ want[l] \in Seq(Prefix) /\ slice[l].len = Len(want[l])
      /\ l \notin mixed => Content(heap, slice[l]) = want[l]
  BY OfLogger
<1>2. /\ l \in live /\ m \notin live /\ live' = live \cup {m}
      /\ want' = [want EXCEPT ![m] = want[l]]
      /\ mixed' = IF l \in mixed THEN mixed \cup {m} ELSE mixed
      /\ UNCHANGED <<saved, savedWant, holders, spoilt>>
  BY DEF Clone
<1>3. /\ live' \subseteq Loggers /\ holders' \subseteq live' /\ mixed' \subseteq live'
      /\ holders \ {m} = holders' \ {m} /\ mixed \ {m} = mixed' \ {m}
      /\ m \notin holders' /\ (m \notin mixed' => l \notin mixed)
  BY <1>2 DEF IInv, Types
<1>4. CASE slice[l].len = 0
  <2>1. Set(m, heap, Nil)
    BY <1>4 DEF Clone
  <2>2. Grows(heap, heap, 0, 0)
    BY <1>1, GrowsSelf
  <2>3. SliceOf(heap, Nil) /\ Nil.arr = 1 /\ Nil.len = 0
    BY <1>1, EmptySeq DEF SliceOf, Nil, Arrays
  <2>4. Content(heap, Nil) = Content(heap, slice[l])
    BY <1>1, <1>4, <2>3, SameContent
  <2> QED
    BY <1>1, <1>2, <1>3, <1>4, <2>1, <2>2, <2>3, <2>4, FreshSlice
<1>5. CASE slice[l].len # 0
  <2> DEFINE c == Content(heap, slice[l])
             g == Append(heap, c)
             t == [arr |-> Len(heap) + 1, len |-> slice[l].len]
  <2>1. Set(m, g, t)
    BY <1>5 DEF Clone
  <2>2. /\ c \in Seq(Prefix) /\ Len(c) = slice[l].len
        /\ heap \in Seq(Seq(Prefix)) /\ Len(heap) \in Nat
    BY <1>1, ContentIs DEF Arrays
  <2>3. /\ g \in Seq(Seq(Prefix)) /\ Len(g) = Len(heap) + 1 /\ g[Len(heap) + 1] = c
        /\ \A b \in 1..Len(heap) : g[b] = heap[b]
    BY <2>2
  <2>4. t.arr = Len(heap) + 1 /\ t.len = slice[l].len /\ t \in [arr : Nat, len : Nat]
    BY <1>1, <2>2 DEF SliceOf
  <2> HIDE DEF g, t
  <2>5. Grows(heap, g, 0, 0)
    <3>1. ASSUME NEW b \in 1..Len(heap)
          PROVE  /\ Len(g[b]) = Len(heap[b])
                 /\ \A i \in 1..Len(heap[b]) : b # 0 \/ i <= 0 => g[b][i] = heap[b][i]
      <4>1. g[b] = heap[b]
        BY <2>3
      <4> QED
        BY <4>1
    <3>2. Len(heap) <= Len(g)
      BY <2>2, <2>3
    <3> QED
      BY <2>3, <3>1, <3>2 DEF Grows
  <2>6. SliceOf(g, t)
    BY <2>2, <2>3, <2>4 DEF SliceOf
  <2>7. Content(g, t) = c
    <3>1. \A i \in 1..slice[l].len : c[i] = heap[slice[l].arr][i]
      BY <1>1, ContentIs
    <3>2. Arrays(g)
      BY <1>1, <2>5, GrowsArrays
    <3>3. g[t.arr] = c
      BY <2>3, <2>4
    <3> QED
      BY <1>1, <2>4, <2>6, <3>1, <3>2, <3>3, SameContent
  <2>8. t.arr > Len(heap)
    BY <2>2, <2>4
  <2> HIDE DEF c
  <2>9. m \notin mixed' => Content(g, t) = want[l]
    BY <1>1, <1>3, <2>7 DEF c
  <2> QED
    BY <1>1, <1>2, <1>3, <2>1, <2>4, <2>5, <2>6, <2>8, <2>9, FreshSlice
<1> QED
  BY <1>4, <1>5

LEMMA ResetStep ==
  ASSUME IInv, NEW l \in Loggers, ResetSecondaryPrefixes(l)
  PROVE  IInv'
<1>1. Arrays(heap)
  BY OfLogger
<1>2. /\ l \in live /\ live' = live /\ Set(l, heap, Nil)
      /\ want' = [want EXCEPT ![l] = <<>>]
      /\ holders' = holders \ {l} /\ mixed' = mixed \ {l}
      /\ UNCHANGED <<saved, savedWant, spoilt>>
  BY DEF ResetSecondaryPrefixes, LetGo
<1>3. Grows(heap, heap, 0, 0)
  BY <1>1, GrowsSelf
<1>4. SliceOf(heap, Nil) /\ Nil.arr = 1 /\ Nil.len = 0
  BY <1>1, EmptySeq DEF SliceOf, Nil, Arrays
<1>5. Content(heap, Nil) = <<>> /\ <<>> \in Seq(Prefix) /\ Len(<<>>) = 0
  BY <1>1, <1>4, EmptyArray
<1>6. /\ live' \subseteq Loggers /\ holders' \subseteq live' /\ mixed' \subseteq live'
      /\ holders \ {l} = holders' \ {l} /\ mixed \ {l} = mixed' \ {l}
      /\ l \notin holders'
  BY <1>2 DEF IInv, Types
<1> QED
  BY <1>2, <1>3, <1>4, <1>5, <1>6, FreshSlice

LEMMA PushStep ==
  ASSUME IInv, NEW l \in Loggers, NEW p \in Prefix, PushSecondaryPrefix(l, p)
  PROVE  IInv'
<1>1. /\ Arrays(heap) /\ SliceOf(heap, slice[l])
      /\ want[l] \in Seq(Prefix) /\ Len(want[l]) \in Nat
      /\ slice[l].len = Len(want[l])
      /\ l \notin mixed => Content(heap, slice[l]) = want[l]
  BY OfLogger
<1> DEFINE N == Pushed(heap, slice[l], p)
<1>2. /\ l \in live /\ Set(l, N.heap, N.slice) /\ UNCHANGED live
      /\ Remember(l, Append(want[l], p), Len(want[l]))
  BY DEF PushSecondaryPrefix
<1>3. /\ Grows(heap, N.heap, slice[l].arr, slice[l].len)
      /\ SliceOf(N.heap, N.slice) /\ N.slice.len = slice[l].len + 1
      /\ Content(N.heap, N.slice) = Append(Content(heap, slice[l]), p)
      /\ N.slice.arr = slice[l].arr \/ N.slice.arr > Len(heap)
  BY <1>1, PushedGrows
<1>4. Append(want[l], p) \in Seq(Prefix) /\ Len(Append(want[l], p)) = Len(want[l]) + 1
  BY <1>1
<1> HIDE DEF N
<1>5. /\ N.slice.len = Len(Append(want[l], p)) /\ Len(want[l]) <= N.slice.len
      /\ l \notin mixed => Content(N.heap, N.slice) = Append(want[l], p)
  BY <1>1, <1>3, <1>4
<1> QED
  BY <1>1, <1>2, <1>3, <1>4, <1>5, OwnChange

LEMMA PopStep ==
  ASSUME IInv, NEW l \in Loggers, PopSecondaryPrefix(l)
  PROVE  IInv'
<1>1. /\ Arrays(heap) /\ SliceOf(heap, slice[l])
      /\ want[l] \in Seq(Prefix) /\ Len(want[l]) \in Nat
      /\ slice[l].len = Len(want[l])
      /\ l \notin mixed => Content(heap, slice[l]) = want[l]
  BY OfLogger
<1>2. /\ l \in live /\ Set(l, heap, Popped(slice[l])) /\ UNCHANGED live
      /\ Remember(l, Dropped(want[l]), Len(want[l]) - 1) /\ slice[l].len > 0
  BY DEF PopSecondaryPrefix
<1>3. /\ SliceOf(heap, Popped(slice[l])) /\ Popped(slice[l]).arr = slice[l].arr
      /\ Popped(slice[l]).len = IF slice[l].len = 0 THEN 0 ELSE slice[l].len - 1
      /\ Content(heap, Popped(slice[l])) = Dropped(Content(heap, slice[l]))
  BY <1>1, PoppedContent
<1>4. Dropped(want[l]) \in Seq(Prefix) /\ Len(Dropped(want[l])) = Len(want[l]) - 1
  BY <1>1, <1>2, DroppedIs
<1>5. /\ Len(want[l]) - 1 \in Nat /\ Len(want[l]) - 1 <= Popped(slice[l]).len
      /\ Popped(slice[l]).len = Len(Dropped(want[l]))
  BY <1>1, <1>2, <1>3, <1>4
<1>6. Grows(heap, heap, slice[l].arr, Len(want[l]) - 1)
  BY <1>1, GrowsSelf
<1> QED
  BY <1>1, <1>2, <1>3, <1>4, <1>5, <1>6, OwnChange

LEMMA UpdateLastStep ==
  ASSUME IInv, NEW l \in Loggers, NEW p \in Prefix, UpdateLastSecondaryPrefix(l, p)
  PROVE  IInv'
<1>1. /\ Arrays(heap) /\ SliceOf(heap, slice[l])
      /\ want[l] \in Seq(Prefix) /\ Len(want[l]) \in Nat
      /\ slice[l].len = Len(want[l])
      /\ l \notin mixed => Content(heap, slice[l]) = want[l]
  BY OfLogger
<1> DEFINE s == Popped(slice[l])
           d == Dropped(want[l])
           N == Pushed(heap, s, p)
<1>2. /\ l \in live /\ Set(l, N.heap, N.slice) /\ UNCHANGED live
      /\ Remember(l, Append(d, p), Len(d))
  BY DEF UpdateLastSecondaryPrefix
<1>3. /\ SliceOf(heap, s) /\ s.arr = slice[l].arr
      /\ s.len = IF slice[l].len = 0 THEN 0 ELSE slice[l].len - 1
      /\ Content(heap, s) = Dropped(Content(heap, slice[l]))
  BY <1>1, PoppedContent
<1>4. /\ Grows(heap, N.heap, s.arr, s.len)
      /\ SliceOf(N.heap, N.slice) /\ N.slice.len = s.len + 1
      /\ Content(N.heap, N.slice) = Append(Content(heap, s), p)
      /\ N.slice.arr = s.arr \/ N.slice.arr > Len(heap)
  BY <1>1, <1>3, PushedGrows
<1>5. d \in Seq(Prefix) /\ Len(d) = IF Len(want[l]) = 0 THEN 0 ELSE Len(want[l]) - 1
  BY <1>1, DroppedIs
<1>6. l \notin mixed => Content(N.heap, N.slice) = Append(d, p)
  BY <1>1, <1>3, <1>4
<1> HIDE DEF s, d, N
<1>7. Append(d, p) \in Seq(Prefix) /\ Len(Append(d, p)) = Len(d) + 1 /\ Len(d) \in Nat
  BY <1>5
<1>8. s.len = Len(d) /\ N.slice.len = Len(Append(d, p)) /\ Len(d) <= N.slice.len
  BY <1>1, <1>3, <1>4, <1>5, <1>7
<1> QED
  BY <1>1, <1>2, <1>3, <1>4, <1>6, <1>7, <1>8, OwnChange

LEMMA WithAdditionalStep ==
  ASSUME IInv, NEW l \in Loggers, NEW p \in Prefix, NEW q \in Prefix,
         WithAdditionalSecondaryPrefix(l, p, q)
  PROVE  IInv'
<1>1. /\ Arrays(heap) /\ SliceOf(heap, slice[l])
      /\ want[l] \in Seq(Prefix) /\ Len(want[l]) \in Nat
      /\ slice[l].len = Len(want[l])
      /\ l \notin mixed => Content(heap, slice[l]) = want[l]
  BY OfLogger
<1> DEFINE s   == slice[l]
           n   == Len(want[l])
           in  == Pushed(heap, s, p)
           u   == Popped(in.slice)
           upd == Pushed(in.heap, u, q)
           t   == Popped(upd.slice)
<1>2. /\ l \in live /\ Set(l, upd.heap, t) /\ UNCHANGED live
      /\ Remember(l, want[l], n)
  BY DEF WithAdditionalSecondaryPrefix
<1>3. /\ Grows(heap, in.heap, s.arr, n) /\ SliceOf(in.heap, in.slice)
      /\ in.slice.len = n + 1
      /\ Content(in.heap, in.slice) = Append(Content(heap, s), p)
      /\ in.slice.arr = s.arr \/ in.slice.arr > Len(heap)
  BY <1>1, PushedGrows
<1>4. Arrays(in.heap)
  BY <1>1, <1>3, GrowsArrays
<1>5. /\ SliceOf(in.heap, u) /\ u.arr = in.slice.arr /\ u.len = n
      /\ Content(in.heap, u) = Dropped(Content(in.heap, in.slice))
  <2>1. in.slice.len # 0 /\ in.slice.len - 1 = n
    BY <1>1, <1>3
  <2> QED
    BY <1>3, <1>4, <2>1, PoppedContent
<1>6. Content(heap, s) \in Seq(Prefix)
  BY <1>1, ContentIs
<1>7. Content(in.heap, u) = Content(heap, s)
  BY <1>3, <1>5, <1>6, DroppedAppend
<1> HIDE DEF u, in
<1>8. /\ Grows(in.heap, upd.heap, u.arr, n) /\ SliceOf(upd.heap, upd.slice)
      /\ upd.slice.len = n + 1
      /\ Content(upd.heap, upd.slice) = Append(Content(heap, s), q)
      /\ upd.slice.arr = u.arr \/ upd.slice.arr > Len(in.heap)
  BY <1>4, <1>5, <1>7, PushedGrows
<1>9. Arrays(upd.heap)
  BY <1>1, <1>4, <1>8, GrowsArrays
<1>10. /\ SliceOf(upd.heap, t) /\ t.arr = upd.slice.arr /\ t.len = n
       /\ Content(upd.heap, t) = Dropped(Content(upd.heap, upd.slice))
  <2>1. upd.slice.len # 0 /\ upd.slice.len - 1 = n
    BY <1>1, <1>8
  <2> QED
    BY <1>8, <1>9, <2>1, PoppedContent
<1>11. Content(upd.heap, t) = Content(heap, s)
  BY <1>6, <1>8, <1>10, DroppedAppend
<1> HIDE DEF upd, t
<1>12. Grows(heap, upd.heap, s.arr, n)
  <2>1. u.arr = s.arr \/ u.arr > Len(heap)
    BY <1>3, <1>5
  <2>2. n <= n
    BY <1>1
  <2> QED
    BY <1>1, <1>3, <1>8, <2>1, <2>2, GrowsTwice
<1>13. t.arr = s.arr \/ t.arr > Len(heap)
  <2>1. Len(heap) \in Nat /\ Len(in.heap) \in Nat /\ Len(heap) <= Len(in.heap)
    <3>1. heap \in Seq(Seq(Prefix)) /\ in.heap \in Seq(Seq(Prefix))
      BY <1>1, <1>4 DEF Arrays
    <3>2. Len(heap) <= Len(in.heap)
      BY <1>3 DEF Grows
    <3> QED
      BY <3>1, <3>2
  <2>2. t.arr = u.arr \/ t.arr > Len(in.heap)
    BY <1>8, <1>10
  <2>3. t.arr \in Nat
    BY <1>10 DEF SliceOf
  <2> QED
    BY <1>3, <1>5, <2>1, <2>2, <2>3
<1>14. n <= t.len /\ t.len = Len(want[l])
  BY <1>1, <1>10
<1>15. l \notin mixed => Content(upd.heap, t) = want[l]
  BY <1>1, <1>11
<1> QED
  BY <1>1, <1>2, <1>10, <1>12, <1>13, <1>14, <1>15, OwnChange

LEMMA GetPrefixesStep ==
  ASSUME IInv, NEW l \in Loggers, GetSecondaryPrefixes(l)
  PROVE  IInv'
<1>1. /\ l \in live /\ saved' = slice[l] /\ savedWant' = want[l]
      /\ holders' = {l} /\ spoilt' = (l \in mixed)
      /\ UNCHANGED <<heap, live, slice, shown, want, mixed>>
  BY DEF GetSecondaryPrefixes
<1>2. spoilt' \in BOOLEAN /\ (~spoilt' => l \notin mixed)
  <2>1. spoilt' = (l \in mixed)
    BY <1>1
  <2>2. (l \in mixed) \in BOOLEAN
    OBVIOUS
  <2>3. spoilt' \in BOOLEAN
    BY <2>1, <2>2, Zenon
  <2>4. ~spoilt' => l \notin mixed
    BY <2>1, Zenon
  <2> QED
    BY <2>3, <2>4
<1>3. Types' /\ Heights'
  BY <1>1, <1>2 DEF IInv, Types, Heights
<1>4. Ownership'
  BY <1>1 DEF IInv, Ownership, Share
<1>5. Unspoilt'
  <2> SUFFICES ASSUME ~spoilt'
               PROVE  /\ {l} \cap mixed = {}
                      /\ \A k \in Loggers \ {l} : ~Share(slice[k], slice[l])
                      /\ slice[l].len <= slice[l].len
    BY <1>1 DEF Unspoilt
  <2>1. l \notin mixed /\ slice[l].len \in Nat
    BY <1>2 DEF IInv, Types
  <2> QED
    BY <2>1 DEF IInv, Ownership, Share
<1>6. Contents' /\ SavedPrefixesKept'
  BY <1>1, <1>2 DEF IInv, Contents, SavedPrefixesKept
<1> QED
  BY <1>3, <1>4, <1>5, <1>6 DEF IInv

LEMMA UpdatePrefixesStep ==
  ASSUME IInv, NEW l \in Loggers, UpdateSecondaryPrefixes(l)
  PROVE  IInv'
<1>1. /\ l \in live /\ heap' = heap /\ live' = live /\ saved' = saved
      /\ savedWant' = savedWant /\ holders' = holders \cup {l}
      /\ slice'[l] = saved /\ want'[l] = savedWant
      /\ shown'[l] = Content(heap, saved)
      /\ \A k \in Loggers \ {l} :
           slice'[k] = slice[k] /\ want'[k] = want[k] /\ shown'[k] = shown[k]
  BY DEF IInv, Types, UpdateSecondaryPrefixes, Set
<1>2. mixed' = IF spoilt' THEN mixed \cup holders' ELSE mixed \ {l}
  BY DEF UpdateSecondaryPrefixes
<1>3. spoilt' \in BOOLEAN /\ (~spoilt' => ~spoilt /\ holders' = {l})
  BY Zenon DEF UpdateSecondaryPrefixes
<1>4. Types'
  <2>1. Arrays(heap) /\ SliceOf(heap, saved)
    BY DEF IInv, Types, Arrays
  <2>2. Content(heap, saved) \in Seq(Prefix) /\ saved \in [arr : Nat, len : Nat]
    BY <2>1, ContentIs DEF SliceOf
  <2>3. /\ slice' \in [Loggers -> [arr : Nat, len : Nat]]
        /\ shown' \in [Loggers -> Seq(Prefix)] /\ want' \in [Loggers -> Seq(Prefix)]
    BY <2>2 DEF IInv, Types, UpdateSecondaryPrefixes, Set
  <2>4. SliceOf(heap', saved') /\ \A k \in Loggers : SliceOf(heap', slice'[k])
    BY <1>1, <2>1 DEF IInv, Types
  <2>5. holders' \subseteq live' /\ mixed' \subseteq live' /\ live' \subseteq Loggers
    BY <1>1, <1>2 DEF IInv, Types
  <2> QED
    BY <1>1, <1>3, <2>3, <2>4, <2>5 DEF IInv, Types
<1>5. Heights'
  BY <1>1 DEF IInv, Heights
<1>6. /\ \A j \in Loggers \ mixed : \A k \in Loggers \ {j} : ~Share(slice[j], slice[k])
      /\ \A k \in Loggers \ (holders \cup mixed) : ~Share(slice[k], saved)
      /\ \A k \in Loggers \ mixed : Content(heap, slice[k]) = want[k] /\ shown[k] = want[k]
  BY DEF IInv, Ownership, Contents
<1>7. CASE spoilt'
  <2>1. mixed' = mixed \cup holders \cup {l}
    BY <1>1, <1>2, <1>7
  <2>2. Ownership'
    <3>1. ASSUME NEW j \in Loggers \ mixed', NEW k \in Loggers \ {j}
          PROVE  ~Share(slice'[j], slice'[k])
      <4>1. j # l /\ j \in Loggers \ (holders \cup mixed) /\ slice'[j] = slice[j]
        BY <1>1, <2>1
      <4>2. CASE k = l
        BY <1>1, <1>6, <4>1, <4>2
      <4>3. CASE k # l
        BY <1>1, <1>6, <4>1, <4>3
      <4> QED
        BY <4>2, <4>3
    <3>2. ASSUME NEW k \in Loggers \ (holders' \cup mixed')
          PROVE  ~Share(slice'[k], saved')
      BY <1>1, <1>6, <2>1
    <3> QED
      BY <3>1, <3>2 DEF Ownership
  <2>3. Unspoilt' /\ SavedPrefixesKept'
    BY <1>7 DEF Unspoilt, SavedPrefixesKept
  <2>4. Contents'
    BY <1>1, <1>6, <2>1 DEF Contents
  <2> QED
    BY <1>4, <1>5, <2>2, <2>3, <2>4 DEF IInv
<1>8. CASE ~spoilt'
  <2>1. /\ ~spoilt /\ holders' = {l} /\ holders \subseteq {l} /\ mixed' = mixed \ {l}
    BY <1>1, <1>2, <1>3, <1>8
  <2>2. /\ \A k \in Loggers \ holders : ~Share(slice[k], saved)
        /\ Content(heap, saved) = savedWant
    BY <2>1 DEF IInv, Unspoilt, SavedPrefixesKept
  <2>3. \A k \in Loggers \ {l} : ~Share(slice'[k], saved) /\ ~Share(saved, slice'[k])
    BY <1>1, <2>1, <2>2 DEF Share
  <2>4. Ownership'
    <3>1. ASSUME NEW j \in Loggers \ mixed', NEW k \in Loggers \ {j}
          PROVE  ~Share(slice'[j], slice'[k])
      <4>1. CASE j = l \/ k = l
        BY <1>1, <2>3, <4>1
      <4>2. CASE j # l /\ k # l
        <5>1. j \in Loggers \ mixed
          BY <2>1, <4>2
        <5> QED
          BY <1>1, <1>6, <4>2, <5>1
      <4> QED
        BY <4>1, <4>2
    <3>2. ASSUME NEW k \in Loggers \ (holders' \cup mixed')
          PROVE  ~Share(slice'[k], saved')
      BY <1>1, <2>1, <2>3
    <3> QED
      BY <3>1, <3>2 DEF Ownership
  <2>5. Unspoilt'
    <3>1. saved.len <= saved.len
      BY DEF IInv, Types, SliceOf
    <3> QED
      BY <1>1, <2>1, <2>3, <3>1 DEF Unspoilt
  <2>6. Contents' /\ SavedPrefixesKept'
    BY <1>1, <1>6, <2>1, <2>2 DEF Contents, SavedPrefixesKept
  <2> QED
    BY <1>4, <1>5, <2>4, <2>5, <2>6 DEF IInv
<1> QED
  BY <1>7, <1>8

THEOREM Invariance == Spec => []IInv
<1>1. IInv /\ [Next]_vars => IInv'
  <2> SUFFICES ASSUME IInv, [Next]_vars PROVE IInv'
    OBVIOUS
  <2>1. CASE Next
    <3> PICK l \in Loggers :
          \/ GetLogger(l) \/ (\E m \in Loggers : Clone(l, m))
          \/ PopSecondaryPrefix(l) \/ ResetSecondaryPrefixes(l)
          \/ GetSecondaryPrefixes(l) \/ UpdateSecondaryPrefixes(l)
          \/ \E p \in Prefix : PushSecondaryPrefix(l, p) \/ UpdateLastSecondaryPrefix(l, p)
          \/ \E p, q \in Prefix : WithAdditionalSecondaryPrefix(l, p, q)
      BY <2>1 DEF Next
    <3>1. CASE GetLogger(l)
      BY <3>1, GetLoggerStep
    <3>2. CASE \E m \in Loggers : Clone(l, m)
      BY <3>2, CloneStep
    <3>3. CASE PopSecondaryPrefix(l) \/ ResetSecondaryPrefixes(l)
      BY <3>3, PopStep, ResetStep
    <3>4. CASE GetSecondaryPrefixes(l) \/ UpdateSecondaryPrefixes(l)
      BY <3>4, GetPrefixesStep, UpdatePrefixesStep
    <3>5. CASE \E p \in Prefix : PushSecondaryPrefix(l, p) \/ UpdateLastSecondaryPrefix(l, p)
      BY <3>5, PushStep, UpdateLastStep
    <3>6. CASE \E p, q \in Prefix : WithAdditionalSecondaryPrefix(l, p, q)
      BY <3>6, WithAdditionalStep
    <3> QED
      BY <3>1, <3>2, <3>3, <3>4, <3>5, <3>6
  <2>2. CASE UNCHANGED vars
    BY <2>2 DEF vars, history, IInv, Types, Heights, Ownership, Unspoilt, Contents,
                SavedPrefixesKept
  <2> QED
    BY <2>1, <2>2
<1> QED
  BY Start, <1>1, PTL DEF Spec

\* Every variable keeps its type and no slice is longer than its array
\* (logger.go:106-148).
THEOREM TypeCorrect == Spec => []TypeOK
<1>1. IInv => TypeOK
  <2> SUFFICES ASSUME IInv PROVE TypeOK
    OBVIOUS
  <2>1. \A s : SliceOf(heap, s) => s.arr \in 1..Len(heap) /\ s.len \in 0..Len(heap[s.arr])
    <3> SUFFICES ASSUME NEW s, SliceOf(heap, s)
                 PROVE  s.arr \in 1..Len(heap) /\ s.len \in 0..Len(heap[s.arr])
      OBVIOUS
    <3>1. heap[s.arr] \in Seq(Prefix) /\ s.arr \in 1..Len(heap) /\ s.len \in Nat
      BY DEF IInv, Types, SliceOf
    <3> QED
      BY <3>1 DEF SliceOf
  <2>2. \A s \in {slice[l] : l \in Loggers} \cup {saved} : SliceOf(heap, s)
    BY DEF IInv, Types
  <2>3. holders \cup mixed \subseteq Loggers
    BY DEF IInv, Types
  <2> QED
    BY <2>1, <2>2, <2>3 DEF IInv, Types, TypeOK
<1> QED
  BY <1>1, Invariance, PTL

\* The prefixes in front of the lines of a logger are those that the calls on it
\* have put there: a stack that shares an array with no other logger's stays as it
\* is whatever is pushed on and popped from the others (logger.go:106-122,
\* 125-142, 157-184).
THEOREM OwnPrefixes == Spec => []LinesCarryOwnPrefixes
<1>1. IInv => LinesCarryOwnPrefixes
  BY DEF IInv, Types, Contents, LinesCarryOwnPrefixes
<1> QED
  BY <1>1, Invariance, PTL

\* What GetSecondaryPrefixes has returned restores the stack, until one of its
\* elements has been popped or two loggers have got it (logger.go:126-128, 139-148,
\* 170-172).
THEOREM SavedKept == Spec => []SavedPrefixesKept
<1>1. IInv => SavedPrefixesKept
  BY DEF IInv
<1> QED
  BY <1>1, Invariance, PTL

=============================================================================
