------------------------------- MODULE Roster -------------------------------
(***************************************************************************)
(* The lease store with the bastion's rosters (handleBastionRoster).  A    *)
(* roster is reconciled with the leases without a lock of its own: it      *)
(* looks a lease up, changes the copy and upserts it, session by session,  *)
(* then does the same for every Active lease without a session.  Between a *)
(* look-up and its upsert any create or release may run.                   *)
(*                                                                         *)
(* The bastion posts one roster at a time.  Here a session says anything:   *)
(* any channel count up to MaxChannels and any time of last activity that  *)
(* is not in the future.  Sessions has the bastion's own.                  *)
(***************************************************************************)
EXTENDS LeaseStore

CONSTANT MaxChannels   \* bound on the channels of a session

ASSUME RosterAssumption == MaxChannels \in Nat

VARIABLE roster   \* the roster that is being reconciled
(* pc    "none", then "sessions", then "others"                            *)
(* at    the time at which the handler started                             *)
(* todo  the sessions it has still to look at                              *)
(* seen  the principals of the sessions that had an Active lease           *)
(* copy  the copies that are looked up and not yet upserted                *)

rvars == <<vars, roster>>

\* What the bastion says of a principal; every session it lists has a time.
Session == [channels : 0..MaxChannels, active : 1..MaxTime]

NoSession == [channels |-> 0, active |-> 0]

NoSessions == [p \in Principals |-> NoSession]

NoRoster == [pc |-> "none", at |-> 0, todo |-> NoSessions, seen |-> {}, copy |-> NoLeases]

RosterInit == Init /\ roster = NoRoster

RosterPost(sessions) ==
  /\ roster.pc = "none"
  /\ roster' = [NoRoster EXCEPT !.pc = "sessions", !.at = now, !.todo = sessions]
  /\ UNCHANGED vars

\* Mutated form: activity puts the deadline off.
ReportedExtending(l, s) ==
  [l EXCEPT !.channels = s.channels, !.lastSeen = roster.at,
            !.deadline = IF s.channels > 0 THEN roster.at + MaxLife ELSE @]

\* Mutated form: only the time of the last activity counts.
ReportedByActivity(l, s) ==
  [l EXCEPT !.lastSeen = IF s.active > @ THEN s.active ELSE @]

\* The copy l after session s.
Reported(l, s) ==
  LET seenAt == IF s.channels > 0 THEN roster.at ELSE l.lastSeen IN
  [l EXCEPT !.channels = s.channels,
            !.lastSeen = IF s.active > seenAt THEN s.active ELSE seenAt]

\* The loop over the sessions comes to that of p.
AtSession(p) == /\ roster.pc = "sessions" /\ roster.todo[p] # NoSession
                /\ roster.copy = NoLeases
                /\ ~Locked

\* LookupByPrincipal finds an Active lease.
RosterLookup(p) ==
  /\ AtSession(p)
  /\ leases[p].state = "Active"
  /\ roster' = [roster EXCEPT !.todo[p] = NoSession, !.seen = @ \union {p},
                              !.copy[p] = Reported(leases[p], roster.todo[p])]
  /\ UNCHANGED vars

RosterLookupNone(p) ==
  /\ AtSession(p)
  /\ leases[p].state # "Active"
  /\ roster' = [roster EXCEPT !.todo[p] = NoSession]
  /\ UNCHANGED vars

\* Mutated form: the state of the copies is not looked at.
RosterListAll ==
  /\ roster.pc = "sessions" /\ roster.todo = NoSessions /\ roster.copy = NoLeases
  /\ ~Locked
  /\ roster' = [roster EXCEPT !.pc = "others", !.copy =
        [p \in Principals |-> IF leases[p] # NoLease /\ p \notin roster.seen
                              THEN [leases[p] EXCEPT !.channels = 0] ELSE NoLease]]
  /\ UNCHANGED vars

\* AllLeases, once the sessions are done.
RosterList ==
  /\ roster.pc = "sessions" /\ roster.todo = NoSessions /\ roster.copy = NoLeases
  /\ ~Locked
  /\ roster' = [roster EXCEPT !.pc = "others", !.copy =
        [p \in Principals |-> IF leases[p].state = "Active" /\ p \notin roster.seen
                              THEN [leases[p] EXCEPT !.channels = 0] ELSE NoLease]]
  /\ UNCHANGED vars

\* Mutated form: the lease is changed in memory and not saved.
RosterUpsertUnsaved(p) ==
  /\ roster.copy[p] # NoLease
  /\ ~Locked
  /\ Put(p, roster.copy[p])
  /\ roster' = [roster EXCEPT !.copy[p] = NoLease]
  /\ UNCHANGED <<disk, phase, prior, sweep, runtime, now>>

\* UpsertLease of a copy; its error is dropped.
RosterUpsert(p) ==
  /\ roster.copy[p] # NoLease
  /\ ~Locked
  /\ Put(p, roster.copy[p])
  /\ \E ok \in BOOLEAN : Save(ok)
  /\ roster' = [roster EXCEPT !.copy[p] = NoLease]
  /\ UNCHANGED <<phase, prior, sweep, runtime, now>>

RosterDone == /\ roster.pc = "others" /\ roster.copy = NoLeases
              /\ roster' = NoRoster
              /\ UNCHANGED vars

Reconcile == \/ \E p \in Principals : RosterLookup(p) \/ RosterLookupNone(p) \/ RosterUpsert(p)
             \/ RosterList
             \/ RosterDone

PastSession == {s \in Session : s.active <= now}

RosterNext == \/ \E sessions \in [Principals -> PastSession \union {NoSession}] :
                   RosterPost(sessions)
              \/ Reconcile
              \/ Next /\ UNCHANGED roster

RosterSpec == RosterInit /\ [][RosterNext]_rvars

-----------------------------------------------------------------------------
(* Properties *)

\* Type invariant.  Every copy in flight is of an Active lease.
RosterTypeOK ==
  /\ TypeOK
  /\ roster \in [pc : {"none", "sessions", "others"}, at : Nat,
                 todo : [Principals -> Session \union {NoSession}], seen : SUBSET Principals,
                 copy : [Principals -> {l \in LeaseRecord : l.state = "Active"} \union {NoLease}]]

\* Every write of a lease reaches the disk, so a restart sees what the bastion
\* and the students saw.  Holds when no save fails.
SnapshotCurrent == ~Locked => disk = leases

\* A lease that was reclaimed stays so: its record changes only when a new
\* create replaces it ("validTransitions defines the allowed state
\* transitions", of which Reclaimed has none, pkg/lease/lease.go:34-40).
ReclaimedIsTerminal ==
  [][\A p \in Principals :
       leases[p].state = "Reclaimed" /\ leases'[p].cid = leases[p].cid
         => leases'[p].state = "Reclaimed"]_rvars
=============================================================================
