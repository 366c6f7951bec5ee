---------------------------- MODULE MCAppSession ----------------------------
(* Small instances of AppSession for TLC. *)
EXTENDS AppSession, TLC

\* Goroutines are interchangeable (no temporal property is checked with it).
UserSymmetry == Permutations(Users)
=============================================================================
