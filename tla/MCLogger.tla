------------------------------ MODULE MCLogger ------------------------------
(***************************************************************************)
(* Logger for TLC: loggers and prefixes are interchangeable.               *)
(***************************************************************************)
EXTENDS Logger, TLC

Symmetry == Permutations(Loggers) \cup Permutations(Prefix)

=============================================================================
