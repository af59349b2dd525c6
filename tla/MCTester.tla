------------------------------ MODULE MCTester ------------------------------
(***************************************************************************)
(* Tester for TLC: the sequence of slugs.                                  *)
(***************************************************************************)
EXTENDS Tester

MCSlugs == <<"hello", "world">>

=============================================================================
