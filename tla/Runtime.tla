------------------------------ MODULE Runtime ------------------------------
(***************************************************************************)
(* The container runtime as pkg/runtime uses it.  A service container is   *)
(* known to Docker by its name, svc-<principal>, which is unique while the *)
(* container exists, and by an identifier that is never used again.        *)
(* Its labels name the course and problem it was made for, as one number.  *)
(*                                                                         *)
(* An operation is modelled by the set of its outcomes: what it reports    *)
(* (ok), and what the name stands for by then.  faults says which failures *)
(* Docker may answer with:                                                 *)
(*   create   a create or a start fails, and whatever was made is removed  *)
(*   leftover a start fails, and so does the removal of what was made      *)
(*   stop     a stop fails, and so does the forced removal after it        *)
(*   stopGone a stop fails, and the forced removal after it succeeds       *)
(*   remove   a stop succeeds and the removal fails                        *)
(***************************************************************************)
EXTENDS Naturals

Container == [id : Nat, running : BOOLEAN, problem : Nat]

\* The name is not in use.
NoContainer == [id |-> 0, running |-> FALSE, problem |-> 0]

Exited(c) == [c EXCEPT !.running = FALSE]

Outcome(ok, c) == [ok |-> ok, container |-> c]

Failing(fault, faults, cs) == IF fault \in faults THEN {Outcome(FALSE, c) : c \in cs} ELSE {}

\* CreateContainer when the name now stands for c: identifier i, for problem w.
CreateContainer(c, i, w, faults) ==
  LET made == [id |-> i, running |-> TRUE, problem |-> w] IN
  IF c.id # 0
  THEN {Outcome(FALSE, c)}
  ELSE {Outcome(TRUE, made)}
       \union Failing("create", faults, {NoContainer})
       \union Failing("leftover", faults, {made, Exited(made)})

\* StopAndRemoveContainer of container i when the name now stands for c.
StopAndRemoveContainer(c, i, faults) ==
  IF i = 0 \/ c.id # i
  THEN {Outcome(FALSE, c)}
  ELSE {Outcome(TRUE, NoContainer)}
       \union Failing("stop", faults, {c})
       \union Failing("stopGone", faults, {NoContainer})
       \union Failing("remove", faults, {Exited(c)})
=============================================================================
