------------------------------ MODULE MCRoster ------------------------------
(* Instances of Roster for TLC. *)
EXTENDS Roster, TLC

CONSTANTS alice, bob

\* The two students are interchangeable in every safety run.
Symmetry == Permutations(Principals)
=============================================================================
