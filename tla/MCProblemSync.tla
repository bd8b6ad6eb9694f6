--------------------------- MODULE MCProblemSync ---------------------------
(* Instances of ProblemSync for TLC. *)
EXTENDS ProblemSync, TLC

CONSTANTS r1, r2, r3

\* Two pairs that encode to one id, as ("ab", "cd?ef") and ("ab?cd", "ef") do.
OneClash == {<<"c1", "p1">>, <<"c2", "p2">>}

NoClash == {}

\* Requests are interchangeable.
Symmetry == Permutations(Requests)
=============================================================================
