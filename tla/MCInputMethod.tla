--------------------------- MODULE MCInputMethod ----------------------------
(* A small instance of InputMethod for TLC. *)
EXTENDS InputMethod, TLC

\* Goroutines are interchangeable (no temporal property is checked with it).
UserSymmetry == Permutations(Users)
=============================================================================
