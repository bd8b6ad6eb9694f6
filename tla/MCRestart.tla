----------------------------- MODULE MCRestart -----------------------------
(* Instances of Restart for TLC. *)
EXTENDS Restart, TLC

CONSTANTS alice, bob

\* The two students are interchangeable in every safety run.
Symmetry == Permutations(Principals)
=============================================================================
