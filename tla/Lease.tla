------------------------------- MODULE Lease -------------------------------
(***************************************************************************)
(* The lease record of pkg/lease and its pure methods.  A lease is one     *)
(* student's service container with its time budget and release state.     *)
(*                                                                         *)
(* Time is a natural number; the zero of time.Time is 0 and the clock of   *)
(* every specification starts at 1, so DeadlineAt.IsZero() is deadline = 0.*)
(* Endpoint and container name carry no control and are left out, and so   *)
(* is ReleasedAt, which no code reads.                                     *)
(***************************************************************************)
EXTENDS Naturals

CONSTANTS MaxLife,      \* maximum lifetime of a lease (8h in the program)
          IdleTimeout   \* inactivity allowed to a lease (30m in the program)

ASSUME LeaseAssumption == MaxLife \in Nat /\ IdleTimeout \in Nat

ReleaseState == {"Active", "Closing", "Draining", "Stopped", "Reclaimed"}

Trigger == {"manual", "max_life", "idle"}

\* The triggers that a background loop fires.
Sweeper == {"max_life", "idle"}

\* "Absent" is the state of NoLease, which stands for a missing map entry.
LeaseRecord == [cid      : Nat,
                started  : Nat,
                deadline : Nat,
                lastSeen : Nat,
                channels : Nat,
                state    : ReleaseState \union {"Absent"},
                by       : Trigger \union {"none"}]

NoLease == [cid |-> 0, started |-> 0, deadline |-> 0, lastSeen |-> 0,
            channels |-> 0, state |-> "Absent", by |-> "none"]

validTransitions == {<<"Active", "Closing">>, <<"Closing", "Draining">>,
                     <<"Draining", "Stopped">>, <<"Stopped", "Reclaimed">>}

CanTransition(current, next) == <<current, next>> \in validTransitions

\* A lease that is created at time t for container c.
NewLease(c, t) ==
  [cid |-> c, started |-> t, deadline |-> IF MaxLife > 0 THEN t + MaxLife ELSE 0,
   lastSeen |-> t, channels |-> 0, state |-> "Active", by |-> "none"]

IsExpired(l, t) == l.deadline # 0 /\ t > l.deadline

IsIdle(l, t) == /\ IdleTimeout > 0
                /\ l.channels = 0
                /\ t > l.lastSeen + IdleTimeout

\* The condition of each release trigger.
Due(trigger, l, t) == CASE trigger = "manual"   -> TRUE
                        [] trigger = "max_life" -> IsExpired(l, t)
                        [] trigger = "idle"     -> IsIdle(l, t)

Transition(l, next) ==
  [l EXCEPT !.state = IF CanTransition(l.state, next) THEN next ELSE @]

Release(l, trigger) == Transition([l EXCEPT !.by = trigger], "Closing")

\* Mutated form: the trigger stays on record.
UnreleaseState(l) == [l EXCEPT !.state = "Active"]

\* The undoing of a release when one of its steps fails.
Unrelease(l) == [l EXCEPT !.state = "Active", !.by = "none"]
=============================================================================
