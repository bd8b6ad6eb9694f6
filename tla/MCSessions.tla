----------------------------- MODULE MCSessions -----------------------------
(* Instances of Sessions for TLC. *)
EXTENDS Sessions, TLC

CONSTANTS alice, bob

\* The two students are interchangeable in every safety run.
Symmetry == Permutations(Principals)
=============================================================================
