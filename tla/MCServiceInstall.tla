-------------------------- MODULE MCServiceInstall --------------------------
(* Small instances of ServiceInstall for TLC. *)
EXTENDS ServiceInstall, TLC

\* Installers are interchangeable (no temporal property is checked with it).
InstallerSymmetry == Permutations(Installers)
=============================================================================
