--------------------------- MODULE MCUiautomator ----------------------------
(* Small instances of Uiautomator for TLC. *)
EXTENDS Uiautomator, TLC

\* Goroutines are interchangeable (no temporal property is checked with it).
ThreadSymmetry == Permutations(Threads)
=============================================================================
