---------------------------- MODULE AtomicLeases ----------------------------
(***************************************************************************)
(* What the lease store promises to the students, the bastion and the      *)
(* release triggers, with each create and each release as a single step:   *)
(* a principal holds at most one service, gets a new one only when it      *)
(* holds none, and never gets back a service that was given out before.    *)
(***************************************************************************)
EXTENDS Naturals

CONSTANTS Principals,   \* the students
          Service       \* the identifiers of services, a set of positive numbers

VARIABLES held,     \* the service that each principal holds, 0 for none
          issued    \* the newest service that was ever given out or thrown away

vars == <<held, issued>>

Init == /\ held = [p \in Principals |-> 0]
        /\ issued = 0

Acquire(p) == /\ held[p] = 0
              /\ \E c \in Service : /\ c > issued
                                    /\ held' = [held EXCEPT ![p] = c]
                                    /\ issued' = c

Release(p) == /\ held[p] # 0
              /\ held' = [held EXCEPT ![p] = 0]
              /\ UNCHANGED issued

\* A service that was made and given to nobody.
Discard == /\ \E c \in Service : c > issued /\ issued' = c
           /\ UNCHANGED held

Next == Discard \/ \E p \in Principals : Acquire(p) \/ Release(p)

Spec == Init /\ [][Next]_vars
=============================================================================
