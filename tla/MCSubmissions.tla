--------------------------- MODULE MCSubmissions ---------------------------
(* Instances of Submissions for TLC. *)
EXTENDS Submissions, TLC

CONSTANTS r1, r2, r3, r4

\* Requests are interchangeable; never used with liveness.
Symmetry == Permutations(Requests)
=============================================================================
