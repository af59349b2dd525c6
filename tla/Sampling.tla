------------------------------- MODULE Sampling -------------------------------
(***************************************************************************)
(* RandomElementsFromArray, on which RandomWords, RandomString, the        *)
(* choice of one element and ShuffleArray rest. What the random number     *)
(* generator returns is any of the values it may return.                   *)
(***************************************************************************)
EXTENDS Naturals, Sequences, FiniteSets

\* The length of the array once it has been appended to itself often enough. (An
\* empty array never gets there: the call does not return.)
GrownLength(len, count) ==
  LET grown[n \in Nat \ {0}] == IF count > n THEN grown[2 * n] ELSE n
  IN grown[len]

\* rng.Perm(n)[:count]
PermPrefixes(n, count) ==
  {p \in [1..count -> 1..n] : \A i, j \in 1..count : p[i] = p[j] => i = j}

\* Mutant: every index is drawn anew.
RandomElementsDrawn(len, count) ==
  {[i \in 1..count |-> ((p[i] - 1) % len) + 1] :
     p \in [1..count -> 1..GrownLength(len, count)]}

\* The results of RandomElementsFromArray for an array of len elements, by the
\* index of each element.
RandomElements(len, count) ==
  {[i \in 1..count |-> ((p[i] - 1) % len) + 1] :
     p \in PermPrefixes(GrownLength(len, count), count)}

=============================================================================
