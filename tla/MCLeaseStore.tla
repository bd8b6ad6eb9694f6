---------------------------- MODULE MCLeaseStore ----------------------------
(* Instances of LeaseStore for TLC. *)
EXTENDS LeaseStore, TLC

CONSTANTS alice, bob

\* The two students are interchangeable in every safety run.
Symmetry == Permutations(Principals)
=============================================================================
