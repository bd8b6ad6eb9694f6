--------------------------- MODULE SessionsProofs ---------------------------
(***************************************************************************)
(* Proofs about Roster and Sessions: the store under rosters that say      *)
(* anything, then under those of the bastion's own table, for every set of *)
(* students, every combination of faults and every value of the bounds.    *)
(***************************************************************************)
EXTENDS Sessions, LeaseStoreAgreement

USE DEF ReleaseState, Trigger, Sweeper, CreatePhase, ReleasePhase, Unheld

RosterRecord ==
  [pc : {"none", "sessions", "others"}, at : Nat,
   todo : [Principals -> Session \union {NoSession}], seen : SUBSET Principals,
   copy : [Principals -> {l \in LeaseRecord : l.state = "Active"} \union {NoLease}]]

\* A copy in flight is of a lease whose release has not begun, and the clock
\* is one that a session can report.
RosterInv == /\ IInv
             /\ now \in 1..MaxTime
             /\ roster \in RosterRecord
             /\ \A p \in Principals : Settled(roster.copy[p])

\* The records that are kept of one container, the copy in flight included,
\* have one deadline.
DatedWithCopy(p) == /\ leases[p].cid < nextID /\ prior[p].cid < nextID
                    /\ roster.copy[p].cid < nextID
                    /\ SameDeadline(leases[p], prior[p])
                    /\ SameDeadline(leases[p], roster.copy[p])
                    /\ SameDeadline(prior[p], roster.copy[p])

RosterDated == \A p \in Principals : DatedWithCopy(p)

\* Every lease is on disk, but for the create or release in progress.
Saved == \A p \in Principals : disk[p] = Undone(p)

\* What the bastion knows is bounded by the channels there are.
TableInv == /\ open \in [Principals -> Nat] /\ closing \in [Principals -> Nat]
            /\ \A p \in Principals : open[p] + closing[p] <= MaxChannels
            /\ table \in [Principals -> PastSession \union {NoSession}]
            /\ NoPhantomChannel
            /\ posted \in BOOLEAN
            /\ since \in [Principals -> 0..now]

\* p's lease is Active, or a release has not stopped its container yet.
Reachable(p) == \/ phase[p] = "idle" /\ leases[p].state = "Active"
                \/ phase[p] \in {"drain", "stop", "rollback"}

\* Channels go to the running container of a lease that is Active, or that a
\* release has not stopped yet.
ChannelInv ==
  \A p \in Principals : open[p] > 0 => containers[p].running /\ Reachable(p)

\* A roster is reconciled before the next tick, and looks at each student once.
TurnInv == /\ roster.pc # "none" => roster.at = now
           /\ roster.pc = "none" => roster.copy = NoLeases
           /\ \A p \in roster.seen : roster.todo[p] = NoSession

\* The copy of p's lease in flight, or else the lease, has channels.
Counted(p) == IF roster.copy[p] = NoLease THEN leases[p].channels > 0
                                          ELSE roster.copy[p].channels > 0

\* A student who has had a channel, counted by the table, since an earlier
\* tick: the roster of this tick says so, and the lease one tick later.
CountedSince(p) ==
  /\ since[p] < now =>
       /\ roster.copy[p] # NoLease => Counted(p)
       /\ roster.pc = "sessions" => roster.todo[p].channels > 0 \/ (p \in roster.seen /\ Counted(p))
       /\ roster.pc = "others" => Counted(p)
       /\ roster.pc = "none" /\ posted => Counted(p)
  /\ since[p] + 1 < now => leases[p].channels > 0

CountedInv == \A p \in Principals : since[p] # 0 => /\ open[p] > 0 /\ table[p].channels > 0
                                                    /\ CountedSince(p)

-----------------------------------------------------------------------------
(* The actions on the roster, field by field *)

CopyType == {l \in LeaseRecord : l.state = "Active"} \union {NoLease}

LEMMA PassedOver ==
  ASSUME NEW r \in RosterRecord, NEW p \in Principals
  PROVE  LET r2 == [r EXCEPT !.todo[p] = NoSession] IN
         /\ r2 \in RosterRecord
         /\ r2.pc = r.pc /\ r2.at = r.at /\ r2.seen = r.seen /\ r2.copy = r.copy
         /\ r2.todo = [r.todo EXCEPT ![p] = NoSession]
BY DEF RosterRecord

LEMMA Upserted ==
  ASSUME NEW r \in RosterRecord, NEW p \in Principals
  PROVE  LET r2 == [r EXCEPT !.copy[p] = NoLease] IN
         /\ r2 \in RosterRecord
         /\ r2.pc = r.pc /\ r2.at = r.at /\ r2.seen = r.seen /\ r2.todo = r.todo
         /\ r2.copy = [r.copy EXCEPT ![p] = NoLease]
BY DEF RosterRecord

LEMMA OthersListed ==
  ASSUME NEW r \in RosterRecord, NEW c \in [Principals -> CopyType]
  PROVE  LET r2 == [r EXCEPT !.pc = "others", !.copy = c] IN
         /\ r2 \in RosterRecord
         /\ r2.pc = "others" /\ r2.at = r.at /\ r2.seen = r.seen /\ r2.todo = r.todo
         /\ r2.copy = c
BY DEF RosterRecord, CopyType

LEMMA NoRosterFields ==
  /\ NoRoster \in RosterRecord
  /\ NoRoster.pc = "none" /\ NoRoster.at = 0 /\ NoRoster.todo = NoSessions
  /\ NoRoster.seen = {} /\ NoRoster.copy = NoLeases
BY DEF NoRoster, RosterRecord, NoSessions, NoLeases

LEMMA PostedFields ==
  ASSUME NEW t \in Nat, NEW sessions \in [Principals -> Session \union {NoSession}]
  PROVE  LET r2 == [NoRoster EXCEPT !.pc = "sessions", !.at = t, !.todo = sessions] IN
         /\ r2 \in RosterRecord
         /\ r2.pc = "sessions" /\ r2.at = t /\ r2.todo = sessions /\ r2.seen = {}
         /\ r2.copy = NoLeases
BY NoRosterFields DEF RosterRecord

\* What a session makes of a lease that is Active.
LEMMA ReportedType ==
  ASSUME RosterInv, NEW l \in LeaseRecord, NEW s \in Session
  PROVE  /\ Reported(l, s) \in LeaseRecord
         /\ Reported(l, s).cid = l.cid /\ Reported(l, s).deadline = l.deadline
         /\ Reported(l, s).state = l.state /\ Reported(l, s).by = l.by
         /\ Reported(l, s).channels = s.channels
<1> DEFINE seenAt == IF s.channels > 0 THEN roster.at ELSE l.lastSeen
           last == IF s.active > seenAt THEN s.active ELSE seenAt
<1>1. s.channels \in Nat /\ s.active \in Nat /\ roster.at \in Nat /\ l.lastSeen \in Nat
  BY RosterAssumption, StoreAssumption DEF RosterInv, RosterRecord, Session, LeaseRecord
<1>2. last \in Nat
  BY <1>1
<1> HIDE DEF last
<1>3. LET m == [l EXCEPT !.channels = s.channels, !.lastSeen = last] IN
      /\ m \in LeaseRecord
      /\ m.cid = l.cid /\ m.deadline = l.deadline /\ m.state = l.state /\ m.by = l.by
      /\ m.channels = s.channels
  BY <1>1, <1>2 DEF LeaseRecord
<1>4. QED
  BY <1>3 DEF Reported, last

-----------------------------------------------------------------------------
(* What a step of the reconciliation does *)

LEMMA LookupStep ==
  ASSUME RosterInv, NEW p \in Principals, RosterLookup(p)
  PROVE  /\ UNCHANGED vars /\ ~Locked
         /\ roster.pc = "sessions" /\ roster.copy = NoLeases
         /\ roster.todo[p] \in Session
         /\ leases[p] \in LeaseRecord /\ leases[p].state = "Active" /\ leases[p].by = "none"
         /\ roster' \in RosterRecord
         /\ roster'.pc = roster.pc /\ roster'.at = roster.at
         /\ roster'.todo = [roster.todo EXCEPT ![p] = NoSession]
         /\ roster'.seen = roster.seen \union {p}
         /\ roster'.copy = [roster.copy EXCEPT ![p] = Reported(leases[p], roster.todo[p])]
<1> DEFINE l == Reported(leases[p], roster.todo[p])
<1>1. /\ UNCHANGED vars /\ ~Locked
      /\ roster.pc = "sessions" /\ roster.copy = NoLeases
      /\ roster.todo[p] # NoSession /\ leases[p].state = "Active"
      /\ roster' = [roster EXCEPT !.todo[p] = NoSession, !.seen = @ \union {p}, !.copy[p] = l]
  BY DEF RosterLookup, AtSession
<1>2. roster.todo[p] \in Session
  BY <1>1 DEF RosterInv, RosterRecord
<1>3. leases[p] \in LeaseRecord /\ leases[p].by = "none"
  BY <1>1 DEF RosterInv, IInv, TypeOK, PhaseOK, Settled, NoLease, Locked
<1>4. l \in CopyType
  BY <1>1, <1>2, <1>3, ReportedType DEF CopyType
<1> HIDE DEF l
<1>5. /\ roster' \in RosterRecord
      /\ roster'.pc = roster.pc /\ roster'.at = roster.at
      /\ roster'.todo = [roster.todo EXCEPT ![p] = NoSession]
      /\ roster'.seen = roster.seen \union {p}
      /\ roster'.copy = [roster.copy EXCEPT ![p] = l]
  <2>1. roster \in RosterRecord
    BY DEF RosterInv
  <2>2. LET r2 == [roster EXCEPT !.todo[p] = NoSession, !.seen = @ \union {p}, !.copy[p] = l] IN
        /\ r2 \in RosterRecord
        /\ r2.pc = roster.pc /\ r2.at = roster.at
        /\ r2.todo = [roster.todo EXCEPT ![p] = NoSession]
        /\ r2.seen = roster.seen \union {p}
        /\ r2.copy = [roster.copy EXCEPT ![p] = l]
    BY <1>4, <2>1 DEF RosterRecord, CopyType
  <2>3. QED
    BY <1>1, <2>2
<1>6. QED
  BY <1>1, <1>2, <1>3, <1>5 DEF l

LEMMA LookupNoneStep ==
  ASSUME RosterInv, NEW p \in Principals, RosterLookupNone(p)
  PROVE  /\ UNCHANGED vars /\ ~Locked
         /\ roster.pc = "sessions" /\ roster.copy = NoLeases /\ leases[p].state # "Active"
         /\ roster' \in RosterRecord
         /\ roster'.pc = roster.pc /\ roster'.at = roster.at
         /\ roster'.todo = [roster.todo EXCEPT ![p] = NoSession]
         /\ roster'.seen = roster.seen /\ roster'.copy = roster.copy
<1>1. /\ UNCHANGED vars /\ ~Locked
      /\ roster.pc = "sessions" /\ roster.copy = NoLeases /\ leases[p].state # "Active"
      /\ roster' = [roster EXCEPT !.todo[p] = NoSession]
  BY DEF RosterLookupNone, AtSession
<1>2. QED
  BY <1>1, PassedOver DEF RosterInv

LEMMA ListStep ==
  ASSUME RosterInv, RosterList
  PROVE  /\ UNCHANGED vars /\ ~Locked
         /\ roster.pc = "sessions" /\ roster.copy = NoLeases /\ roster.todo = NoSessions
         /\ roster' \in RosterRecord
         /\ roster'.pc = "others" /\ roster'.at = roster.at
         /\ roster'.todo = roster.todo /\ roster'.seen = roster.seen
         /\ \A p \in Principals :
              \/ roster'.copy[p] = NoLease
              \/ /\ p \notin roster.seen /\ roster'.copy[p].state = "Active"
                 /\ roster'.copy[p].by = "none"
                 /\ roster'.copy[p].cid = leases[p].cid
                 /\ roster'.copy[p].deadline = leases[p].deadline
<1> DEFINE c == [p \in Principals |-> IF leases[p].state = "Active" /\ p \notin roster.seen
                                      THEN [leases[p] EXCEPT !.channels = 0] ELSE NoLease]
<1>1. /\ UNCHANGED vars /\ ~Locked
      /\ roster.pc = "sessions" /\ roster.copy = NoLeases /\ roster.todo = NoSessions
      /\ roster' = [roster EXCEPT !.pc = "others", !.copy = c]
  BY DEF RosterList
<1>2. ASSUME NEW p \in Principals
      PROVE  /\ c[p] \in CopyType
             /\ \/ c[p] = NoLease
                \/ /\ p \notin roster.seen /\ c[p].state = "Active" /\ c[p].by = "none"
                   /\ c[p].cid = leases[p].cid /\ c[p].deadline = leases[p].deadline
  <2>1. CASE ~(leases[p].state = "Active" /\ p \notin roster.seen)
    BY <2>1 DEF CopyType
  <2>2. CASE leases[p].state = "Active" /\ p \notin roster.seen
    <3>1. leases[p] \in LeaseRecord /\ leases[p].by = "none"
      BY <1>1, <2>2 DEF RosterInv, IInv, TypeOK, PhaseOK, Settled, NoLease, Locked
    <3>2. c[p] = [leases[p] EXCEPT !.channels = 0]
      BY <2>2
    <3>3. QED
      BY <2>2, <3>1, <3>2 DEF LeaseRecord, CopyType
  <2>3. QED
    BY <2>1, <2>2
<1>3. c \in [Principals -> CopyType]
  BY <1>2
<1> HIDE DEF c
<1>4. /\ roster' \in RosterRecord
      /\ roster'.pc = "others" /\ roster'.at = roster.at
      /\ roster'.todo = roster.todo /\ roster'.seen = roster.seen /\ roster'.copy = c
  BY <1>1, <1>3, OthersListed DEF RosterInv
<1>5. QED
  BY <1>1, <1>2, <1>4

LEMMA UpsertStep ==
  ASSUME RosterInv, NEW p \in Principals, RosterUpsert(p)
  PROVE  /\ UNCHANGED <<phase, prior, sweep, containers, homes, nextID, now>> /\ ~Locked
         /\ roster.copy[p] \in LeaseRecord /\ roster.copy[p].state = "Active"
         /\ leases' = [leases EXCEPT ![p] = roster.copy[p]]
         /\ \E ok \in BOOLEAN : Save(ok)
         /\ roster' \in RosterRecord
         /\ roster'.pc = roster.pc /\ roster'.at = roster.at
         /\ roster'.todo = roster.todo /\ roster'.seen = roster.seen
         /\ roster.copy[p] # NoLease
         /\ roster'.copy = [roster.copy EXCEPT ![p] = NoLease]
<1>1. /\ roster.copy[p] # NoLease /\ ~Locked
      /\ leases' = [leases EXCEPT ![p] = roster.copy[p]]
      /\ \E ok \in BOOLEAN : Save(ok)
      /\ roster' = [roster EXCEPT !.copy[p] = NoLease]
      /\ UNCHANGED <<phase, prior, sweep, containers, homes, nextID, now>>
  BY DEF RosterUpsert, Put, runtime
<1>2. roster.copy[p] \in LeaseRecord /\ roster.copy[p].state = "Active"
  BY <1>1 DEF RosterInv, RosterRecord
<1>3. QED
  BY <1>1, <1>2, Upserted DEF RosterInv

\* An upsert finds every lease settled, and leaves one that is.
LEMMA UpsertInv ==
  ASSUME RosterInv, NEW p \in Principals, RosterUpsert(p)
  PROVE  IInv'
<1>1. leases \in [Principals -> LeaseRecord]
  BY DEF RosterInv, IInv, TypeOK
<1>2. leases' \in [Principals -> LeaseRecord]
  BY <1>1, UpsertStep
<1>3. \A q \in Principals : phase[q] = "idle" /\ Settled(leases[q]) /\ Settled(disk[q])
  BY UpsertStep DEF RosterInv, IInv, PhaseOK, Locked
<1>4. \A q \in Principals : Settled(leases'[q])
  BY <1>1, <1>3, UpsertStep DEF RosterInv
<1>5. /\ disk' \in [Principals -> LeaseRecord]
      /\ \A q \in Principals : Settled(disk'[q])
  <2>1. PICK ok \in BOOLEAN : Save(ok)
    BY UpsertStep
  <2>2. disk \in [Principals -> LeaseRecord]
    BY DEF RosterInv, IInv, TypeOK
  <2>3. QED
    BY <1>2, <1>3, <1>4, <2>1, <2>2, SaveSettles
<1>6. UNCHANGED <<phase, prior, sweep, containers, homes, nextID, now>>
  BY UpsertStep
<1>7. TypeOK'
  BY <1>2, <1>5, <1>6 DEF RosterInv, IInv, TypeOK
<1>8. \A q \in Principals : PhaseOK(q)'
  BY <1>3, <1>4, <1>5, <1>6 DEF RosterInv, IInv, PhaseOK
<1>9. QED
  BY <1>6, <1>7, <1>8 DEF RosterInv, IInv, MutualExclusion

LEMMA DoneStep ==
  ASSUME RosterDone
  PROVE  /\ UNCHANGED vars /\ roster.pc = "others" /\ roster.copy = NoLeases
         /\ roster' = NoRoster
BY DEF RosterDone

LEMMA PostStep ==
  ASSUME RosterInv, NEW sessions \in [Principals -> PastSession \union {NoSession}],
         RosterPost(sessions)
  PROVE  /\ UNCHANGED vars /\ roster.pc = "none"
         /\ roster' \in RosterRecord
         /\ roster'.pc = "sessions" /\ roster'.at = now /\ roster'.todo = sessions
         /\ roster'.seen = {} /\ roster'.copy = NoLeases
<1>1. sessions \in [Principals -> Session \union {NoSession}] /\ now \in Nat
  BY DEF PastSession, RosterInv
<1>2. /\ UNCHANGED vars /\ roster.pc = "none"
      /\ roster' = [NoRoster EXCEPT !.pc = "sessions", !.at = now, !.todo = sessions]
  BY DEF RosterPost
<1>3. LET r2 == [NoRoster EXCEPT !.pc = "sessions", !.at = now, !.todo = sessions] IN
      /\ r2 \in RosterRecord
      /\ r2.pc = "sessions" /\ r2.at = now /\ r2.todo = sessions /\ r2.seen = {}
      /\ r2.copy = NoLeases
  BY <1>1, PostedFields
<1>4. QED
  BY <1>2, <1>3

-----------------------------------------------------------------------------
(* The store under rosters *)

LEMMA RosterInvInit == RosterInit => RosterInv
<1> SUFFICES ASSUME RosterInit PROVE RosterInv
  OBVIOUS
<1>1. IInv /\ now \in 1..MaxTime
  BY StoreAssumption, InitInv DEF RosterInit, Init
<1>2. roster \in RosterRecord /\ roster.copy = NoLeases
  BY NoRosterFields DEF RosterInit
<1>3. QED
  BY <1>1, <1>2, NoLeaseType DEF RosterInv, NoLeases

LEMMA ClockStep ==
  now \in 1..MaxTime /\ [Next]_vars => now' \in 1..MaxTime /\ now <= now' /\ now' <= now + 1
<1> SUFFICES ASSUME now \in 1..MaxTime, [Next]_vars PROVE now' = now \/ Tick
  BY StoreAssumption DEF Tick
<1>1. ASSUME NEW p \in Principals, Creating(p) \/ ReleaseStep(p) \/ ManualRelease(p)
                                   \/ ContainerExits(p)
      PROVE  now' = now
  BY <1>1 DEF Creating, CreateBegin, CreateSucceeds, CreateFails, CreateSaved, CreateNotSaved,
     CreateCleanup, ReleaseStep, ReleaseDrain, ReleaseStop, ReleaseCommit, ReleaseRollback,
     ManualRelease, ContainerExits
<1>2. ASSUME NEW t \in Sweeper, SweepStart(t) \/ \E p \in Principals : Sweeping(t, p)
      PROVE  now' = now
  BY <1>2 DEF SweepStart, Sweeping, SweepSkip, SweepRelease, SweepStale
<1>3. CASE SaveOther \/ UNCHANGED vars
  BY <1>3 DEF SaveOther, vars
<1>4. QED
  BY <1>1, <1>2, <1>3 DEF Next

LEMMA RosterInvNext == RosterInv /\ [RosterNext]_rvars => RosterInv'
<1> SUFFICES ASSUME RosterInv, [RosterNext]_rvars PROVE RosterInv'
  OBVIOUS
<1>1. IInv /\ now \in 1..MaxTime /\ \A q \in Principals : Settled(roster.copy[q])
  BY DEF RosterInv
<1>2. CASE UNCHANGED vars /\ roster' \in RosterRecord
           /\ \A q \in Principals : Settled(roster'.copy[q])
  <2>1. IInv' /\ now' = now
    BY <1>1, <1>2, NextInv DEF vars
  <2>2. QED
    BY <1>1, <1>2, <2>1 DEF RosterInv
<1>3. CASE \E sessions \in [Principals -> PastSession \union {NoSession}] : RosterPost(sessions)
  BY <1>2, <1>3, PostStep, NoLeaseType DEF NoLeases
<1>4. ASSUME NEW p \in Principals, RosterLookup(p) PROVE RosterInv'
  <2>1. roster.copy \in [Principals -> CopyType]
    BY DEF RosterInv, RosterRecord, CopyType
  <2>2. Settled(Reported(leases[p], roster.todo[p]))
    <3>1. /\ leases[p] \in LeaseRecord /\ leases[p].state = "Active" /\ leases[p].by = "none"
          /\ roster.todo[p] \in Session
      BY <1>4, LookupStep
    <3>2. QED
      BY <3>1, ReportedType DEF Settled
  <2>3. QED
    BY <1>1, <1>2, <1>4, <2>1, <2>2, LookupStep
<1>5. ASSUME NEW p \in Principals, RosterLookupNone(p) PROVE RosterInv'
  BY <1>1, <1>2, <1>5, LookupNoneStep
<1>6. ASSUME NEW p \in Principals, RosterUpsert(p) PROVE RosterInv'
  <2>1. roster.copy \in [Principals -> CopyType]
    BY DEF RosterInv, RosterRecord, CopyType
  <2>2. \A q \in Principals : Settled(roster'.copy[q])
    BY <1>1, <1>6, <2>1, UpsertStep, NoLeaseType
  <2>3. QED
    BY <1>1, <1>6, <2>2, UpsertStep, UpsertInv DEF RosterInv
<1>7. CASE RosterList
  BY <1>2, <1>7, ListStep, NoLeaseType DEF Settled
<1>8. CASE RosterDone
  BY <1>2, <1>8, DoneStep, NoRosterFields, NoLeaseType DEF NoLeases
<1>9. CASE Next /\ UNCHANGED roster
  BY <1>1, <1>9, ClockStep, NextInv DEF RosterInv
<1>10. CASE UNCHANGED rvars
  BY <1>1, <1>2, <1>10 DEF rvars, RosterInv
<1>11. QED
  BY <1>3, <1>4, <1>5, <1>6, <1>7, <1>8, <1>9, <1>10 DEF RosterNext, Reconcile

\* Whatever a roster says, and wherever releases and creates come between its
\* look-ups and its upserts (handleBastionRoster), a lease that is read keeps
\* its type and every copy in flight is of an Active lease.
THEOREM RosterTypeCorrect == RosterSpec => []RosterTypeOK
<1>1. RosterInv => RosterTypeOK
  BY DEF RosterInv, RosterRecord, RosterTypeOK, IInv
<1>2. QED
  BY <1>1, RosterInvInit, RosterInvNext, PTL DEF RosterSpec

\* A roster changes no lease, or that of one student whose copy it upserts
\* while nothing is in progress, or it is a step of the store.
LEMMA RosterSteps ==
  ASSUME RosterInv, [RosterNext]_rvars
  PROVE  \/ UNCHANGED vars
         \/ \E p \in Principals : RosterUpsert(p)
         \/ Next /\ UNCHANGED roster
<1>1. ASSUME NEW p \in Principals, RosterLookup(p) \/ RosterLookupNone(p)
      PROVE  UNCHANGED vars
  BY <1>1 DEF RosterLookup, RosterLookupNone
<1>2. CASE \E sessions \in [Principals -> PastSession \union {NoSession}] : RosterPost(sessions)
  BY <1>2 DEF RosterPost
<1>3. CASE RosterList \/ RosterDone \/ UNCHANGED rvars
  BY <1>3 DEF RosterList, RosterDone, rvars
<1>4. QED
  BY <1>1, <1>2, <1>3 DEF RosterNext, Reconcile

LEMMA RosterJustifiedNext ==
  RosterInv /\ ReleaseJustified /\ [RosterNext]_rvars => ReleaseJustified'
<1> SUFFICES ASSUME RosterInv, ReleaseJustified, [RosterNext]_rvars PROVE ReleaseJustified'
  OBVIOUS
<1>1. ASSUME NEW p \in Principals, RosterUpsert(p) PROVE ReleaseJustified'
  <2>1. \A q \in Principals : phase'[q] = "idle"
    BY <1>1, UpsertStep DEF Locked
  <2>2. QED
    BY <2>1 DEF ReleaseJustified
<1>2. CASE [Next]_vars
  BY <1>2, NextInv, JustifiedNext DEF RosterInv
<1>3. QED
  BY <1>1, <1>2, RosterSteps

\* A release is justified when its trigger asked for it and stays so while it
\* goes on, also with rosters that upsert copies they read earlier.
THEOREM RosterReleasesJustified == RosterSpec => []ReleaseJustified
<1>1. RosterInit => ReleaseJustified
  BY JustifiedInit DEF RosterInit
<1>2. QED
  BY <1>1, RosterInvInit, RosterInvNext, RosterJustifiedNext, PTL DEF RosterSpec

-----------------------------------------------------------------------------
(* The deadline of a container, with copies in flight *)

LEMMA RosterDatedNext == RosterInv /\ RosterDated /\ [RosterNext]_rvars => RosterDated'
<1> SUFFICES ASSUME RosterInv, RosterDated, [RosterNext]_rvars, NEW p \in Principals
             PROVE  DatedWithCopy(p)'
  BY DEF RosterDated
<1>1. /\ nextID \in Nat /\ nextID > 0 /\ NoLease \in LeaseRecord /\ NoLease.cid = 0
      /\ leases \in [Principals -> LeaseRecord]
      /\ leases[p].cid \in Nat /\ prior[p].cid \in Nat /\ roster.copy[p].cid \in Nat
      /\ roster.copy \in [Principals -> CopyType]
  BY StoreAssumption, NoLeaseType
     DEF RosterInv, RosterRecord, CopyType, IInv, TypeOK, LeaseRecord, NoLease
<1>2. DatedWithCopy(p)
  BY DEF RosterDated
<1>3. CASE /\ UNCHANGED <<leases, prior, nextID>>
           /\ \/ roster'.copy[p] = roster.copy[p] \/ roster'.copy[p] = NoLease
              \/ /\ roster'.copy[p].cid = leases[p].cid
                 /\ roster'.copy[p].deadline = leases[p].deadline
  BY <1>1, <1>2, <1>3 DEF SameDeadline, DatedWithCopy
<1>4. CASE \E sessions \in [Principals -> PastSession \union {NoSession}] : RosterPost(sessions)
  BY <1>3, <1>4, PostStep DEF vars, NoLeases
<1>5. ASSUME NEW q \in Principals, RosterLookup(q) PROVE DatedWithCopy(p)'
  <2>1. /\ Reported(leases[q], roster.todo[q]).cid = leases[q].cid
        /\ Reported(leases[q], roster.todo[q]).deadline = leases[q].deadline
    BY <1>5, LookupStep, ReportedType
  <2>2. \/ roster'.copy[p] = roster.copy[p]
        \/ /\ roster'.copy[p].cid = leases[p].cid
           /\ roster'.copy[p].deadline = leases[p].deadline
    BY <1>1, <1>5, <2>1, LookupStep
  <2>3. QED
    BY <1>3, <1>5, <2>2, LookupStep DEF vars
<1>6. ASSUME NEW q \in Principals, RosterLookupNone(q) PROVE DatedWithCopy(p)'
  BY <1>3, <1>6, LookupNoneStep DEF vars
<1>7. CASE RosterList \/ RosterDone \/ UNCHANGED rvars
  BY <1>3, <1>7, ListStep, DoneStep, NoRosterFields DEF rvars, vars, NoLeases
<1>8. ASSUME NEW q \in Principals, RosterUpsert(q) PROVE DatedWithCopy(p)'
  <2>1. CASE p = q
    <3>1. leases'[p] = roster.copy[p] /\ roster'.copy[p] = NoLease /\ UNCHANGED <<prior, nextID>>
      BY <1>1, <1>8, <2>1, UpsertStep
    <3>2. QED
      BY <1>1, <1>2, <3>1 DEF SameDeadline, DatedWithCopy
  <2>2. CASE p # q
    <3>1. /\ leases'[p] = leases[p] /\ roster'.copy[p] = roster.copy[p]
          /\ UNCHANGED <<prior, nextID>>
      BY <1>1, <1>8, <2>2, UpsertStep
    <3>2. QED
      BY <1>2, <3>1 DEF DatedWithCopy
  <2>3. QED
    BY <2>1, <2>2
<1>9. CASE Next /\ UNCHANGED roster
  <2>1. IInv
    BY DEF RosterInv
  <2>2. QED
    BY <1>1, <1>2, <1>9, <2>1, RecordSteps DEF SameDeadline, DatedWithCopy
<1>10. QED
  BY <1>4, <1>5, <1>6, <1>7, <1>8, <1>9 DEF RosterNext, Reconcile

LEMMA RosterLifetime ==
  ASSUME RosterInv, RosterDated, [RosterNext]_rvars, NEW p \in Principals,
         leases[p].cid # 0, leases'[p].cid = leases[p].cid
  PROVE  leases'[p].deadline = leases[p].deadline
<1>1. DatedWithCopy(p) /\ leases \in [Principals -> LeaseRecord]
  BY DEF RosterDated, RosterInv, IInv, TypeOK
<1>2. ASSUME NEW q \in Principals, RosterUpsert(q)
      PROVE  leases'[p].deadline = leases[p].deadline
  BY <1>1, <1>2, UpsertStep DEF DatedWithCopy, SameDeadline
<1>3. CASE Next /\ UNCHANGED roster
  BY <1>3, LifetimeStep DEF RosterInv, RosterDated, DatedWithCopy, Dated
<1>4. CASE UNCHANGED vars
  BY <1>4 DEF vars
<1>5. QED
  BY <1>2, <1>3, <1>4, RosterSteps

\* No roster puts a deadline off, the one of a copy that was read before a
\* release and a create included (handleBastionRoster, UpsertLease).
THEOREM RosterLifetimesKept == RosterSpec => LifetimeKept
<1>1. RosterInit => RosterDated
  <2> SUFFICES ASSUME RosterInit, NEW p \in Principals PROVE DatedWithCopy(p)
    BY DEF RosterDated
  <2>1. leases = NoLeases /\ prior = NoLeases /\ roster.copy = NoLeases /\ nextID = 1
    BY NoRosterFields DEF RosterInit, Init
  <2>2. NoLeases[p].cid = 0
    BY DEF NoLeases, NoLease
  <2>3. QED
    BY <2>1, <2>2 DEF DatedWithCopy, SameDeadline
<1>2. RosterInv /\ RosterDated /\ [RosterNext]_rvars =>
        [\A p \in Principals :
           leases[p].cid # 0 /\ leases'[p].cid = leases[p].cid
             => leases'[p].deadline = leases[p].deadline]_vars
  BY RosterLifetime
<1>3. QED
  BY <1>1, <1>2, RosterInvInit, RosterInvNext, RosterDatedNext, PTL DEF RosterSpec, LifetimeKept

-----------------------------------------------------------------------------
(* The snapshot, when no save fails *)

LEMMA SavedNext ==
  RosterInv /\ Saved /\ Persistent /\ "save" \notin Faults /\ [RosterNext]_rvars => Saved'
<1> SUFFICES ASSUME RosterInv, Saved, Persistent, "save" \notin Faults, [RosterNext]_rvars
             PROVE  Saved'
  OBVIOUS
<1>1. CASE UNCHANGED vars
  BY <1>1 DEF vars, Saved, Undone
<1>2. ASSUME NEW p \in Principals, RosterUpsert(p) PROVE Saved'
  <2>1. disk' = leases'
    BY <1>2, UpsertStep DEF Save
  <2>2. \A q \in Principals : phase'[q] = "idle"
    BY <1>2, UpsertStep DEF Locked
  <2>3. QED
    BY <2>1, <2>2 DEF Saved, Undone
<1>3. CASE Next /\ UNCHANGED roster
  <2>1. \/ disk' = disk /\ \A q \in Principals : Undone(q)' = Undone(q)
        \/ disk' = leases' /\ \A q \in Principals : phase'[q] = "idle"
    BY <1>3, UndoneStep DEF RosterInv, Unsaved
  <2>2. QED
    BY <2>1 DEF Saved, Undone
<1>4. QED
  BY <1>1, <1>2, <1>3, RosterSteps

\* As long as no save fails, what is on disk is what is in memory whenever the
\* mutex is free: neither a roster's copies nor a release that is undone leave
\* a write out (UpsertLease, CreateLeaseForPrincipal, ReleaseLeaseIf).
THEOREM SnapshotKeptCurrent ==
  ASSUME Persistent, "save" \notin Faults
  PROVE  RosterSpec => []SnapshotCurrent
<1>1. RosterInit => Saved
  BY DEF RosterInit, Init, Saved, Undone
<1>2. RosterInv /\ Saved /\ [RosterNext]_rvars => Saved'
  BY SavedNext
<1>3. RosterInv /\ Saved => SnapshotCurrent
  <2> SUFFICES ASSUME RosterInv, Saved, ~Locked PROVE disk = leases
    BY DEF SnapshotCurrent
  <2>1. \A p \in Principals : disk[p] = leases[p]
    BY DEF Saved, Undone, Locked
  <2>2. QED
    BY <2>1 DEF RosterInv, IInv, TypeOK
<1>4. QED
  BY <1>1, <1>2, <1>3, RosterInvInit, RosterInvNext, PTL DEF RosterSpec

-----------------------------------------------------------------------------
(* The session table *)

LEMMA Opened ==
  ASSUME now \in 1..MaxTime, NEW s \in PastSession \union {NoSession}, s.channels < MaxChannels
  PROVE  openChannel(s) \in PastSession /\ openChannel(s).channels = s.channels + 1
<1>1. s.channels \in Nat
  BY RosterAssumption DEF PastSession, Session, NoSession
<1>2. s.channels + 1 \in 0..MaxChannels
  BY <1>1, RosterAssumption
<1>3. now \in Nat /\ now <= now
  BY StoreAssumption
<1>4. QED
  BY <1>2, <1>3 DEF openChannel, PastSession, Session

LEMMA Closed ==
  ASSUME now \in 1..MaxTime, NEW s \in PastSession \union {NoSession}
  PROVE  /\ closeChannel(s) \in PastSession \union {NoSession}
         /\ s.channels > 0 => closeChannel(s).channels = s.channels - 1
         /\ s.channels = 0 => closeChannel(s).channels = 0
<1>1. s.channels \in 0..MaxChannels
  BY RosterAssumption DEF PastSession, Session, NoSession
<1>2. now \in Nat /\ now <= now /\ MaxChannels \in Nat
  BY StoreAssumption, RosterAssumption
<1>3. CASE s = NoSession
  BY <1>3 DEF closeChannel, NoSession
<1>4. CASE s # NoSession /\ s.channels > 1
  <2>1. closeChannel(s) = [s EXCEPT !.channels = @ - 1]
    BY <1>4 DEF closeChannel
  <2>2. s \in Session /\ s.active <= now /\ s.channels - 1 \in 0..MaxChannels
    BY <1>1, <1>2, <1>4 DEF PastSession
  <2>3. /\ closeChannel(s) \in Session /\ closeChannel(s).active = s.active
        /\ closeChannel(s).channels = s.channels - 1
    BY <2>1, <2>2 DEF Session
  <2>4. QED
    BY <1>4, <2>2, <2>3 DEF PastSession
<1>5. CASE s # NoSession /\ ~(s.channels > 1)
  <2>1. closeChannel(s) = [channels |-> 0, active |-> now]
    BY <1>5 DEF closeChannel
  <2>2. closeChannel(s) \in PastSession /\ closeChannel(s).channels = 0
    BY <1>2, <2>1 DEF PastSession, Session
  <2>3. s.channels \in {0, 1}
    BY <1>1, <1>2, <1>5
  <2>4. QED
    BY <2>2, <2>3
<1>6. QED
  BY <1>3, <1>4, <1>5

\* A controller step breaks channels, and forgets sessions only by a drain.
LEMMA BrokenStep ==
  ASSUME TableInv, Broken
  PROVE  /\ open' \in [Principals -> Nat] /\ closing' \in [Principals -> Nat]
         /\ \A q \in Principals : /\ open'[q] + closing'[q] = open[q] + closing[q]
                                  /\ open'[q] <= open[q]
                                  /\ open'[q] > 0 => containers'[q].running
BY DEF TableInv, Broken

LEMMA DrainedStep ==
  ASSUME TableInv, Drained
  PROVE  /\ table' \in [Principals -> PastSession \union {NoSession}]
         /\ \A q \in Principals :
              /\ table'[q] \in {table[q], NoSession}
              /\ table'[q] # table[q] => phase[q] = "drain"
              /\ phase[q] = "drain" /\ phase'[q] = "stop" => table'[q] = NoSession
BY DEF TableInv, Drained

LEMMA LaterSessions ==
  ASSUME now \in Nat, now' \in Nat, now <= now'
  PROVE  PastSession \subseteq PastSession'
BY StoreAssumption DEF PastSession, Session

LEMMA SessionsStep ==
  TableInv /\ [SessionsNext]_svars => [RosterNext]_rvars
<1> SUFFICES ASSUME TableInv, [SessionsNext]_svars PROVE [RosterNext]_rvars
  OBVIOUS
<1>1. CASE (\E p \in Principals : Open(p) \/ Close(p) \/ CloseReported(p)) \/ BastionRestart
  BY <1>1 DEF Open, Close, CloseReported, BastionRestart
<1>2. CASE Report
  BY <1>2 DEF Report, RosterNext, TableInv
<1>3. CASE Reconcile \/ Controller
  BY <1>3 DEF RosterNext, Controller
<1>4. CASE UNCHANGED svars
  BY <1>4 DEF svars
<1>5. QED
  BY <1>1, <1>2, <1>3, <1>4 DEF SessionsNext

LEMMA SinceType ==
  ASSUME Watch, now \in 1..MaxTime, now' \in 1..MaxTime, now <= now',
         since \in [Principals -> 0..now]
  PROVE  since' \in [Principals -> 0..now']
BY StoreAssumption DEF Watch

LEMMA TableInvNext ==
  RosterInv /\ TableInv /\ [SessionsNext]_svars => TableInv'
<1> SUFFICES ASSUME RosterInv, TableInv, [SessionsNext]_svars PROVE TableInv'
  OBVIOUS
<1>1. /\ now \in 1..MaxTime /\ MaxChannels \in Nat
      /\ open \in [Principals -> Nat] /\ closing \in [Principals -> Nat]
      /\ table \in [Principals -> PastSession \union {NoSession}]
      /\ posted \in BOOLEAN /\ since \in [Principals -> 0..now]
  BY RosterAssumption DEF RosterInv, TableInv
<1>2. \A p \in Principals : /\ open[p] \in Nat /\ closing[p] \in Nat /\ table[p].channels \in Nat
                            /\ table[p] \in PastSession \union {NoSession}
                            /\ open[p] + closing[p] <= MaxChannels
                            /\ table[p].channels <= open[p] + closing[p]
  BY <1>1 DEF TableInv, NoPhantomChannel, PastSession, Session, NoSession
<1>3. ASSUME now' \in 1..MaxTime, now <= now', Watch, posted' \in BOOLEAN,
             open' \in [Principals -> Nat], closing' \in [Principals -> Nat],
             table' \in [Principals -> PastSession \union {NoSession}],
             \A p \in Principals : /\ open'[p] + closing'[p] <= MaxChannels
                                   /\ table'[p].channels <= open'[p] + closing'[p]
      PROVE  TableInv'
  <2>1. PastSession \subseteq PastSession'
    BY <1>1, <1>3, LaterSessions, StoreAssumption
  <2>2. table' \in [Principals -> PastSession' \union {NoSession}]
    BY <1>3, <2>1
  <2>3. since' \in [Principals -> 0..now']
    BY <1>1, <1>3, SinceType
  <2>4. QED
    BY <1>3, <2>2, <2>3 DEF TableInv, NoPhantomChannel
<1>4. ASSUME NEW p \in Principals, Open(p), Watch PROVE TableInv'
  <2>1. /\ UNCHANGED <<now, closing, posted>> /\ open[p] + closing[p] < MaxChannels
        /\ open' = [open EXCEPT ![p] = @ + 1]
        /\ table' = [table EXCEPT ![p] = openChannel(table[p])]
    BY <1>4 DEF Open, rvars, vars
  <2>2. table[p].channels < MaxChannels
    BY <1>1, <1>2, <2>1
  <2>3. openChannel(table[p]) \in PastSession /\ openChannel(table[p]).channels = table[p].channels + 1
    BY <1>1, <1>2, <2>2, Opened
  <2>4. /\ open' \in [Principals -> Nat]
        /\ table' \in [Principals -> PastSession \union {NoSession}]
    BY <1>1, <2>1, <2>3
  <2>5. \A q \in Principals : /\ open'[q] + closing[q] <= MaxChannels
                              /\ table'[q].channels <= open'[q] + closing[q]
    BY <1>1, <1>2, <2>1, <2>3
  <2>6. QED
    BY <1>1, <1>3, <1>4, <2>1, <2>4, <2>5, StoreAssumption
<1>5. ASSUME NEW p \in Principals, Close(p), Watch PROVE TableInv'
  <2>1. /\ UNCHANGED <<now, table, posted>> /\ open[p] > 0
        /\ open' = [open EXCEPT ![p] = @ - 1] /\ closing' = [closing EXCEPT ![p] = @ + 1]
    BY <1>5 DEF Close, rvars, vars
  <2>2. open' \in [Principals -> Nat] /\ closing' \in [Principals -> Nat]
    BY <1>1, <2>1
  <2>3. \A q \in Principals : open'[q] + closing'[q] = open[q] + closing[q]
    BY <1>1, <1>2, <2>1
  <2>4. QED
    BY <1>1, <1>2, <1>3, <1>5, <2>1, <2>2, <2>3, StoreAssumption
<1>6. ASSUME NEW p \in Principals, CloseReported(p), Watch PROVE TableInv'
  <2>1. /\ UNCHANGED <<now, open, posted>> /\ closing[p] > 0
        /\ closing' = [closing EXCEPT ![p] = @ - 1]
        /\ table' = [table EXCEPT ![p] = closeChannel(table[p])]
    BY <1>6 DEF CloseReported, rvars, vars
  <2>2. /\ closeChannel(table[p]) \in PastSession \union {NoSession}
        /\ table[p].channels > 0 => closeChannel(table[p]).channels = table[p].channels - 1
        /\ table[p].channels = 0 => closeChannel(table[p]).channels = 0
    BY <1>1, <1>2, Closed
  <2>3. /\ closing' \in [Principals -> Nat]
        /\ table' \in [Principals -> PastSession \union {NoSession}]
    BY <1>1, <2>1, <2>2
  <2>4. \A q \in Principals : /\ open[q] + closing'[q] <= MaxChannels
                              /\ table'[q].channels <= open[q] + closing'[q]
    <3>1. ASSUME NEW q \in Principals, q # p
          PROVE  closing'[q] = closing[q] /\ table'[q] = table[q]
      BY <1>1, <2>1, <3>1
    <3>2. closing'[p] = closing[p] - 1 /\ table'[p] = closeChannel(table[p])
      BY <1>1, <2>1
    <3>3. /\ open[p] + closing'[p] <= MaxChannels
          /\ table'[p].channels <= open[p] + closing'[p]
      BY <1>1, <1>2, <2>1, <2>2, <3>2
    <3>4. QED
      BY <1>2, <3>1, <3>3
  <2>5. QED
    BY <1>1, <1>3, <1>6, <2>1, <2>3, <2>4, StoreAssumption
<1>7. CASE BastionRestart /\ Watch
  <2>1. UNCHANGED <<now, open, closing, posted>> /\ table' = NoSessions
    BY <1>7 DEF BastionRestart, rvars, vars
  <2>2. table' \in [Principals -> PastSession \union {NoSession}]
    BY <2>1 DEF NoSessions
  <2>3. \A q \in Principals : table'[q].channels = 0
    BY <2>1 DEF NoSessions, NoSession
  <2>4. QED
    BY <1>1, <1>2, <1>3, <1>7, <2>1, <2>2, <2>3, StoreAssumption
<1>8. CASE /\ Report \/ (Reconcile /\ UNCHANGED <<bastion, posted>>)
           /\ Watch
  <2>1. UNCHANGED <<now, open, closing, table>> /\ posted' \in BOOLEAN
    <3>1. UNCHANGED now
      BY <1>8 DEF Report, RosterPost, Reconcile, RosterLookup, RosterLookupNone, RosterUpsert,
         RosterList, RosterDone, vars
    <3>2. UNCHANGED bastion /\ posted' \in BOOLEAN
      BY <1>1, <1>8 DEF Report
    <3>3. QED
      BY <3>1, <3>2 DEF bastion
  <2>2. QED
    BY <1>1, <1>2, <1>3, <1>8, <2>1, StoreAssumption
<1>9. CASE Controller /\ Watch
  <2>1. now' \in 1..MaxTime /\ now <= now' /\ posted' \in BOOLEAN
    BY <1>1, <1>9, ClockStep DEF Controller
  <2>2. /\ open' \in [Principals -> Nat] /\ closing' \in [Principals -> Nat]
        /\ \A q \in Principals : open'[q] + closing'[q] = open[q] + closing[q]
    BY <1>9, BrokenStep DEF Controller
  <2>3. /\ table' \in [Principals -> PastSession \union {NoSession}]
        /\ \A q \in Principals : table'[q] \in {table[q], NoSession}
    BY <1>9, DrainedStep DEF Controller
  <2>4. \A q \in Principals : table'[q].channels <= open'[q] + closing'[q]
    BY <1>2, <2>2, <2>3 DEF NoSession
  <2>5. QED
    BY <1>2, <1>3, <1>9, <2>1, <2>2, <2>3, <2>4
<1>10. CASE UNCHANGED svars
  BY <1>10 DEF svars, rvars, vars, bastion, TableInv, NoPhantomChannel, PastSession
<1>11. QED
  BY <1>4, <1>5, <1>6, <1>7, <1>8, <1>9, <1>10 DEF SessionsNext

LEMMA TableInvInit == SessionsInit => TableInv
<1> SUFFICES ASSUME SessionsInit PROVE TableInv
  OBVIOUS
<1>1. now = 1 /\ MaxChannels \in Nat
  BY RosterAssumption DEF SessionsInit, RosterInit, Init
<1>2. table \in [Principals -> PastSession \union {NoSession}]
  BY DEF SessionsInit, NoSessions
<1>3. \A p \in Principals : open[p] = 0 /\ closing[p] = 0 /\ table[p].channels = 0
  BY DEF SessionsInit, NoSessions, NoSession
<1>4. /\ open \in [Principals -> Nat] /\ closing \in [Principals -> Nat]
      /\ posted \in BOOLEAN /\ since \in [Principals -> 0..now]
  <2>1. 0 \in 0..now /\ 0 \in Nat
    BY <1>1
  <2>2. QED
    BY <2>1 DEF SessionsInit
<1>5. \A p \in Principals : open[p] + closing[p] <= MaxChannels
  BY <1>1, <1>3
<1>6. NoPhantomChannel
  BY <1>3 DEF NoPhantomChannel
<1>7. QED
  BY <1>2, <1>4, <1>5, <1>6 DEF TableInv

\* The rosters that the bastion's table makes are among those that Roster
\* allows for, so all that holds of the store under any rosters holds under
\* the bastion's (sessionTracker.roster in cmd/bastion-mgmt, handleBastionRoster).
THEOREM SessionsPostRosters == SessionsSpec => RosterSpec
<1>1. SessionsInit => RosterInit
  BY DEF SessionsInit
<1>2. RosterInv /\ TableInv /\ [SessionsNext]_svars => [RosterNext]_rvars /\ RosterInv' /\ TableInv'
  BY SessionsStep, RosterInvNext, TableInvNext
<1>3. QED
  BY <1>1, <1>2, RosterInvInit, TableInvInit, PTL DEF SessionsSpec, RosterSpec

LEMMA SessionsInvariance == SessionsSpec => [](RosterInv /\ TableInv)
<1>1. SessionsInit => RosterInit
  BY DEF SessionsInit
<1>2. RosterInv /\ TableInv /\ [SessionsNext]_svars => RosterInv' /\ TableInv'
  BY SessionsStep, RosterInvNext, TableInvNext
<1>3. QED
  BY <1>1, <1>2, RosterInvInit, TableInvInit, PTL DEF SessionsSpec

\* The table counts no channel that is not there, however late a close is
\* reported and whatever a drain forgets (openChannel, closeChannel, drain).
THEOREM NoPhantoms == SessionsSpec => []NoPhantomChannel
<1>1. TableInv => NoPhantomChannel
  BY DEF TableInv
<1>2. QED
  BY <1>1, SessionsInvariance, PTL

\* Type correctness of the whole, the table's bound on what it counts included.
THEOREM SessionsTypeCorrect == SessionsSpec => []SessionsTypeOK
<1>1. RosterInv /\ TableInv => SessionsTypeOK
  <2> SUFFICES ASSUME RosterInv, TableInv PROVE SessionsTypeOK
    OBVIOUS
  <2>1. RosterTypeOK
    BY DEF RosterInv, RosterRecord, RosterTypeOK, IInv
  <2>2. open \in [Principals -> 0..MaxChannels] /\ closing \in [Principals -> 0..MaxChannels]
    <3>1. \A p \in Principals : /\ open[p] \in Nat /\ closing[p] \in Nat
                                /\ open[p] + closing[p] <= MaxChannels
      BY DEF TableInv
    <3>2. \A p \in Principals : open[p] \in 0..MaxChannels /\ closing[p] \in 0..MaxChannels
      BY <3>1, RosterAssumption
    <3>3. QED
      BY <3>2 DEF TableInv
  <2>3. table \in [Principals -> Session \union {NoSession}]
    BY DEF TableInv, PastSession
  <2>4. since \in [Principals -> 0..MaxTime]
    <3>1. 0..now \subseteq 0..MaxTime
      BY StoreAssumption DEF RosterInv
    <3>2. QED
      BY <3>1 DEF TableInv
  <2>5. QED
    BY <2>1, <2>2, <2>3, <2>4 DEF TableInv, SessionsTypeOK
<1>2. QED
  BY <1>1, SessionsInvariance, PTL

-----------------------------------------------------------------------------
(* The table loses count only when it is cleared *)

\* What a step does to the channels of p and the count of them.
LEMMA CountStep ==
  ASSUME RosterInv, TableInv, [SessionsNext]_svars, NEW p \in Principals
  PROVE  \/ /\ open'[p] + closing'[p] = open[p] + closing[p]
            /\ \/ table'[p] = table[p]
               \/ table'[p] = NoSession /\ phase[p] = "drain"
               \/ table' = NoSessions /\ UNCHANGED <<open, closing>>
         \/ /\ open'[p] = open[p] + 1 /\ closing'[p] = closing[p]
            /\ table'[p].channels = table[p].channels + 1
         \/ /\ open'[p] = open[p] /\ closing'[p] = closing[p] - 1 /\ closing[p] > 0
            /\ table[p].channels > 0 => table'[p].channels = table[p].channels - 1
            /\ table[p].channels = 0 => table'[p].channels = 0
<1>1. /\ now \in 1..MaxTime
      /\ open \in [Principals -> Nat] /\ closing \in [Principals -> Nat]
      /\ table \in [Principals -> PastSession \union {NoSession}]
      /\ open[p] \in Nat /\ closing[p] \in Nat /\ table[p].channels \in Nat
      /\ table[p].channels <= open[p] + closing[p] /\ MaxChannels \in Nat
  BY RosterAssumption DEF RosterInv, TableInv, NoPhantomChannel, PastSession, Session, NoSession
<1>2. ASSUME NEW q \in Principals, Open(q)
      PROVE  /\ q # p => open'[p] = open[p] /\ closing'[p] = closing[p] /\ table'[p] = table[p]
             /\ q = p => /\ open'[p] = open[p] + 1 /\ closing'[p] = closing[p]
                         /\ table'[p].channels = table[p].channels + 1
  <2>1. /\ closing' = closing /\ open[q] + closing[q] < MaxChannels
        /\ open' = [open EXCEPT ![q] = @ + 1]
        /\ table' = [table EXCEPT ![q] = openChannel(table[q])]
    BY <1>2 DEF Open
  <2>2. q = p => openChannel(table[p]).channels = table[p].channels + 1
    BY <1>1, <2>1, Opened
  <2>3. QED
    BY <1>1, <2>1, <2>2
<1>3. ASSUME NEW q \in Principals, Close(q)
      PROVE  open'[p] + closing'[p] = open[p] + closing[p] /\ table'[p] = table[p]
  BY <1>1, <1>3 DEF Close
<1>4. ASSUME NEW q \in Principals, CloseReported(q)
      PROVE  /\ q # p => open'[p] = open[p] /\ closing'[p] = closing[p] /\ table'[p] = table[p]
             /\ q = p => /\ open'[p] = open[p] /\ closing'[p] = closing[p] - 1 /\ closing[p] > 0
                         /\ table[p].channels > 0 => table'[p].channels = table[p].channels - 1
                         /\ table[p].channels = 0 => table'[p].channels = 0
  <2>1. /\ open' = open /\ closing[q] > 0
        /\ closing' = [closing EXCEPT ![q] = @ - 1]
        /\ table' = [table EXCEPT ![q] = closeChannel(table[q])]
    BY <1>4 DEF CloseReported
  <2>2. /\ table[p].channels > 0 => closeChannel(table[p]).channels = table[p].channels - 1
        /\ table[p].channels = 0 => closeChannel(table[p]).channels = 0
    BY <1>1, Closed
  <2>3. QED
    BY <1>1, <2>1, <2>2
<1>5. CASE BastionRestart
  BY <1>1, <1>5 DEF BastionRestart
<1>6. CASE Report \/ (Reconcile /\ UNCHANGED <<bastion, posted>>) \/ UNCHANGED svars
  BY <1>1, <1>6 DEF Report, bastion, svars
<1>7. CASE Controller
  BY <1>7, BrokenStep, DrainedStep DEF Controller
<1>8. QED
  BY <1>2, <1>3, <1>4, <1>5, <1>6, <1>7 DEF SessionsNext

LEMMA ForgetsStep ==
  ASSUME RosterInv, TableInv, [SessionsNext]_svars, NEW p \in Principals,
         table[p].channels = open[p] + closing[p],
         table'[p].channels # open'[p] + closing'[p]
  PROVE  phase[p] = "drain" \/ (table' = NoSessions /\ UNCHANGED <<open, closing>>)
<1>1. open[p] \in Nat /\ closing[p] \in Nat
  BY DEF TableInv
<1>2. QED
  BY <1>1, CountStep

\* The table loses count of a student only by a drain of the student's own
\* lease, or with everything else it knows when the bastion restarts.
THEOREM ForgetsWhenCleared == SessionsSpec => ForgetsOnlyWhenCleared
<1>1. RosterInv /\ TableInv /\ [SessionsNext]_svars =>
        [\A p \in Principals :
           table[p].channels = open[p] + closing[p] /\ table'[p].channels # open'[p] + closing'[p]
             => \/ phase[p] = "drain"
                \/ table' = NoSessions /\ UNCHANGED <<open, closing>>]_svars
  BY ForgetsStep
<1>2. QED
  BY <1>1, SessionsInvariance, PTL DEF SessionsSpec, ForgetsOnlyWhenCleared

-----------------------------------------------------------------------------
(* Nobody who is connected is released as idle *)

\* The steps of a release count no channels.
LEMMA ReleaseChannels ==
  ASSUME IInv, NEW p \in Principals, ReleaseStep(p) \/ \E t \in Trigger : ReleaseBegin(p, t)
  PROVE  leases'[p].channels = leases[p].channels
<1>1. leases \in [Principals -> LeaseRecord] /\ leases[p] \in LeaseRecord
  BY DEF IInv, TypeOK
<1>2. \/ leases' = leases
      \/ \E next \in ReleaseState : Put(p, Transition(leases[p], next))
      \/ \E t \in Trigger : Put(p, Release(leases[p], t)) /\ leases[p].state = "Active"
      \/ Put(p, Unrelease(leases[p]))
  BY DEF ReleaseStep, ReleaseDrain, ReleaseStop, ReleaseCommit, ReleaseRollback, ReleaseBegin,
     Releasable
<1>3. ASSUME NEW next \in ReleaseState
      PROVE  Transition(leases[p], next).channels = leases[p].channels
  BY <1>1, <1>3, TransitionType
<1>4. ASSUME NEW t \in Trigger, leases[p].state = "Active"
      PROVE  Release(leases[p], t).channels = leases[p].channels
  BY <1>1, <1>4, ReleaseType
<1>5. Unrelease(leases[p]).channels = leases[p].channels
  BY <1>1 DEF Unrelease, LeaseRecord
<1>6. QED
  BY <1>1, <1>2, <1>3, <1>4, <1>5 DEF Put

\* A release as idle finds no channels counted.
LEMMA IdleFindsNone ==
  ASSUME IInv, [Next]_vars, NEW p \in Principals,
         phase[p] = "idle", phase'[p] = "drain", leases'[p].by = "idle"
  PROVE  leases[p].channels = 0
<1>1. TypeOK /\ leases \in [Principals -> LeaseRecord] /\ leases[p] \in LeaseRecord
  BY DEF IInv, TypeOK
<1>2. ~Creating(p)
  <2>1. ~CreateBegin(p)
    BY <1>1, AdvanceType DEF CreateBegin
  <2>2. QED
    BY <2>1 DEF Creating, CreateSucceeds, CreateFails, CreateSaved, CreateNotSaved,
       CreateCleanup, Advance
<1>3. ~ReleaseStep(p)
  BY DEF ReleaseStep, ReleaseDrain, ReleaseStop, ReleaseCommit, ReleaseRollback, Advance
<1>4. PICK t \in Trigger : ReleaseBegin(p, t)
  BY <1>2, <1>3, OwnSteps
<1>5. /\ leases[p].state = "Active" /\ Due(t, leases[p], now)
      /\ leases'[p] = Release(leases[p], t)
  BY <1>1, <1>4 DEF ReleaseBegin, Releasable, Put
<1>6. t = "idle"
  BY <1>1, <1>5, ReleaseType
<1>7. QED
  BY <1>5, <1>6 DEF Due, IsIdle

\* As long as the container runs, the lease stays reachable, and the rosters
\* alone change its count of channels.
LEMMA ReachableStep ==
  ASSUME IInv, [Next]_vars, NEW p \in Principals, Reachable(p), containers'[p].running
  PROVE  Reachable(p)' /\ leases'[p].channels = leases[p].channels
<1>1. TypeOK /\ leases \in [Principals -> LeaseRecord] /\ leases[p] \in LeaseRecord
  BY DEF IInv, TypeOK
<1>2. phase[p] \in {"idle", "drain", "stop", "rollback"}
  BY DEF Reachable
<1>3. CASE leases'[p] = leases[p] /\ phase'[p] = phase[p]
  BY <1>3 DEF Reachable
<1>4. CASE Creating(p)
  BY <1>2, <1>4 DEF Reachable, Creating, CreateBegin, CreateSucceeds, CreateFails, CreateSaved,
     CreateNotSaved, CreateCleanup, Advance
<1>5. ASSUME NEW t \in Trigger, ReleaseBegin(p, t)
      PROVE  phase'[p] = "drain"
  BY <1>1, <1>5, AdvanceType DEF ReleaseBegin
<1>6. CASE ReleaseStep(p)
  <2>1. phase[p] # "idle"
    BY <1>6 DEF ReleaseStep, ReleaseDrain, ReleaseStop, ReleaseCommit, ReleaseRollback, Advance
  <2>2. CASE \E ok \in BOOLEAN : ReleaseDrain(p, ok)
    <3>1. phase'[p] \in {"stop", "rollback"}
      BY <1>1, <2>2, AdvanceType DEF ReleaseDrain
    <3>2. QED
      BY <1>6, <2>1, <3>1, ReleaseChannels DEF Reachable
  <2>3. CASE \E ok \in BOOLEAN : ReleaseStop(p, ok)
    <3>1. PICK ok \in BOOLEAN : ReleaseStop(p, ok)
      BY <2>3
    <3>2. PICK o \in StopAnswers(p) : o.ok = ok /\ containers' = [containers EXCEPT ![p] = o.container]
      BY <3>1 DEF ReleaseStop
    <3>3. containers'[p] = o.container
      BY <1>1, <3>2 DEF TypeOK
    <3>4. ~ok
      BY <3>2, <3>3, StopOutcomes, ContainerFacts DEF StopAnswers
    <3>5. phase'[p] = "rollback"
      BY <1>1, <3>1, <3>4, AdvanceType DEF ReleaseStop
    <3>6. QED
      BY <1>6, <2>1, <3>5, ReleaseChannels DEF Reachable
  <2>4. CASE ReleaseRollback(p)
    <3>1. phase'[p] = "idle" /\ leases'[p] = Unrelease(leases[p])
      BY <1>1, <2>4, AdvanceType DEF ReleaseRollback, Put
    <3>2. leases'[p].state = "Active"
      BY <1>1, <3>1, UnreleaseUndoes
    <3>3. QED
      BY <1>6, <2>1, <3>1, <3>2, ReleaseChannels DEF Reachable
  <2>5. CASE ReleaseCommit(p)
    BY <1>2, <2>5 DEF ReleaseCommit, Advance
  <2>6. QED
    BY <1>6, <2>2, <2>3, <2>4, <2>5 DEF ReleaseStep
<1>7. CASE \E t \in Trigger : ReleaseBegin(p, t)
  BY <1>5, <1>7, ReleaseChannels DEF Reachable
<1>8. QED
  BY <1>3, <1>4, <1>6, <1>7, OwnSteps

\* A step of the controller that leaves p channels.
LEMMA ControllerStep ==
  ASSUME RosterInv, TableInv, ChannelInv, Controller, NEW p \in Principals, open'[p] > 0
  PROVE  /\ open[p] > 0 /\ containers'[p].running /\ Reachable(p)'
         /\ leases'[p].channels = leases[p].channels
<1>1. open[p] > 0 /\ containers'[p].running
  <2>1. open[p] \in Nat /\ open'[p] \in Nat /\ open'[p] <= open[p] /\ containers'[p].running
    BY BrokenStep DEF Controller, TableInv
  <2>2. QED
    BY <2>1
<1>2. Reachable(p)
  BY <1>1 DEF ChannelInv
<1>3. QED
  BY <1>1, <1>2, ReachableStep DEF Controller, RosterInv

LEMMA ChannelInvNext ==
  RosterInv /\ TableInv /\ ChannelInv /\ [SessionsNext]_svars => ChannelInv'
<1> SUFFICES ASSUME RosterInv, TableInv, ChannelInv, [SessionsNext]_svars,
                    NEW p \in Principals, open'[p] > 0
             PROVE  containers'[p].running /\ Reachable(p)'
  BY DEF ChannelInv
<1>1. open \in [Principals -> Nat] /\ leases \in [Principals -> LeaseRecord]
  BY DEF TableInv, RosterInv, IInv, TypeOK
<1>2. CASE UNCHANGED vars /\ open[p] > 0
  BY <1>2 DEF vars, ChannelInv, Reachable
<1>3. ASSUME NEW q \in Principals, Open(q) PROVE containers'[p].running /\ Reachable(p)'
  <2>1. UNCHANGED vars
    BY <1>3 DEF Open, rvars
  <2>2. CASE q = p
    BY <1>3, <2>1, <2>2 DEF Open, Locked, vars, Reachable
  <2>3. CASE q # p
    <3>1. open'[p] = open[p]
      BY <1>1, <1>3, <2>3 DEF Open
    <3>2. QED
      BY <1>2, <2>1, <3>1
  <2>4. QED
    BY <2>2, <2>3
<1>4. ASSUME NEW q \in Principals, Close(q) PROVE containers'[p].running /\ Reachable(p)'
  <2>1. UNCHANGED vars /\ open' = [open EXCEPT ![q] = @ - 1] /\ open[q] > 0
    BY <1>4 DEF Close, rvars
  <2>2. open[p] > 0
    BY <1>1, <2>1
  <2>3. QED
    BY <1>2, <2>1, <2>2
<1>5. CASE \/ \E q \in Principals : CloseReported(q)
           \/ BastionRestart \/ Report \/ UNCHANGED svars
  BY <1>2, <1>5 DEF CloseReported, BastionRestart, Report, RosterPost, bastion, svars, rvars
<1>6. CASE Reconcile /\ UNCHANGED <<bastion, posted>>
  <2>1. open[p] > 0
    BY <1>6 DEF bastion
  <2>2. ASSUME NEW q \in Principals, RosterUpsert(q)
        PROVE  containers'[p].running /\ Reachable(p)'
    <3>1. /\ UNCHANGED <<phase, containers>> /\ phase[p] = "idle"
          /\ leases' = [leases EXCEPT ![q] = roster.copy[q]] /\ roster.copy[q].state = "Active"
      BY <2>2, UpsertStep DEF Locked
    <3>2. QED
      BY <1>1, <2>1, <3>1 DEF ChannelInv, Reachable
  <2>3. CASE ~\E q \in Principals : RosterUpsert(q)
    BY <1>2, <1>6, <2>1, <2>3
       DEF Reconcile, RosterLookup, RosterLookupNone, RosterList, RosterDone
  <2>4. QED
    BY <2>2, <2>3
<1>7. CASE Controller
  BY <1>7, ControllerStep
<1>8. QED
  BY <1>3, <1>4, <1>5, <1>6, <1>7 DEF SessionsNext

LEMMA TurnInvNext ==
  RosterInv /\ TableInv /\ TurnInv /\ [SessionsNext]_svars => TurnInv'
<1> SUFFICES ASSUME RosterInv, TableInv, TurnInv, [SessionsNext]_svars PROVE TurnInv'
  OBVIOUS
<1>1. /\ roster.todo \in [Principals -> Session \union {NoSession}]
      /\ roster.seen \subseteq Principals
  BY DEF RosterInv, RosterRecord
<1>2. CASE UNCHANGED <<roster, now>>
  BY <1>2 DEF TurnInv
<1>3. CASE (\E p \in Principals : Open(p) \/ Close(p) \/ CloseReported(p)) \/ BastionRestart
           \/ UNCHANGED svars
  BY <1>2, <1>3 DEF Open, Close, CloseReported, BastionRestart, svars, rvars, vars
<1>4. CASE Report
  <2>1. RosterPost(table) /\ table \in [Principals -> PastSession \union {NoSession}]
    BY <1>4 DEF Report, TableInv
  <2>2. QED
    BY <2>1, PostStep DEF TurnInv, vars
<1>5. ASSUME NEW p \in Principals, RosterLookup(p) PROVE TurnInv'
  <2>1. /\ roster'.pc = "sessions" /\ roster'.at = roster.at /\ now' = now
        /\ roster.pc = "sessions"
        /\ roster'.todo = [roster.todo EXCEPT ![p] = NoSession]
        /\ roster'.seen = roster.seen \union {p}
    BY <1>5, LookupStep DEF vars
  <2>2. QED
    BY <1>1, <2>1 DEF TurnInv
<1>6. ASSUME NEW p \in Principals, RosterLookupNone(p) PROVE TurnInv'
  <2>1. /\ roster'.pc = "sessions" /\ roster'.at = roster.at /\ now' = now
        /\ roster.pc = "sessions"
        /\ roster'.todo = [roster.todo EXCEPT ![p] = NoSession]
        /\ roster'.seen = roster.seen
    BY <1>6, LookupNoneStep DEF vars
  <2>2. QED
    BY <1>1, <2>1 DEF TurnInv
<1>7. ASSUME NEW p \in Principals, RosterUpsert(p) PROVE TurnInv'
  <2>1. /\ roster'.pc = roster.pc /\ roster'.at = roster.at /\ now' = now
        /\ roster'.todo = roster.todo /\ roster'.seen = roster.seen
        /\ roster.copy[p] # NoLease
    BY <1>7, UpsertStep
  <2>2. roster.pc # "none"
    BY <2>1 DEF TurnInv, NoLeases
  <2>3. QED
    BY <2>1, <2>2 DEF TurnInv
<1>8. CASE RosterList
  BY <1>8, ListStep DEF TurnInv, vars
<1>9. CASE RosterDone
  BY <1>9, DoneStep, NoRosterFields DEF TurnInv
<1>10. CASE Controller
  <2>1. roster' = roster /\ (now' # now => roster.pc = "none")
    BY <1>10 DEF Controller
  <2>2. QED
    BY <2>1 DEF TurnInv
<1>11. QED
  BY <1>3, <1>4, <1>5, <1>6, <1>7, <1>8, <1>9, <1>10 DEF SessionsNext, Reconcile

\* Only the controller lets time pass, between two rosters.
LEMMA TurnsOver ==
  ASSUME RosterInv, TurnInv, SessionsNext, now' # now
  PROVE  /\ Controller /\ now' = now + 1 /\ ~posted' /\ posted
         /\ roster' = roster /\ roster.pc = "none" /\ roster.copy = NoLeases
<1>1. Controller
  BY DEF SessionsNext, Open, Close, CloseReported, BastionRestart, Report, RosterPost, Reconcile,
     RosterLookup, RosterLookupNone, RosterUpsert, RosterList, RosterDone, rvars, vars
<1>2. now \in Nat /\ now' \in Nat /\ now <= now' /\ now' <= now + 1
  BY <1>1, ClockStep, StoreAssumption DEF Controller, RosterInv
<1>3. now' = now + 1
  BY <1>2
<1>4. ~posted' /\ posted /\ roster' = roster /\ roster.pc = "none"
  BY <1>1 DEF Controller
<1>5. QED
  BY <1>1, <1>3, <1>4 DEF TurnInv

\* A student who has just got a first channel that counts.
LEMMA CountedFirst ==
  ASSUME RosterInv, TurnInv, SessionsNext, NEW p \in Principals, since'[p] = now
  PROVE  CountedSince(p)'
<1>1. now \in Nat
  BY StoreAssumption DEF RosterInv
<1>2. CASE now' = now
  BY <1>1, <1>2 DEF CountedSince
<1>3. CASE now' # now
  <2>1. /\ now' = now + 1 /\ ~posted'
        /\ roster'.pc = "none" /\ roster'.copy[p] = NoLease
    BY <1>3, TurnsOver DEF NoLeases
  <2>2. QED
    BY <1>1, <2>1 DEF CountedSince
<1>4. QED
  BY <1>2, <1>3

LEMMA CountedController ==
  ASSUME RosterInv, TableInv, ChannelInv, TurnInv, SessionsNext, Controller,
         NEW p \in Principals, open'[p] > 0, since'[p] = since[p], CountedSince(p)
  PROVE  CountedSince(p)'
<1>1. now \in Nat /\ since[p] \in Nat /\ leases'[p].channels = leases[p].channels
  <2>1. since[p] \in 0..now /\ now \in Nat
    BY StoreAssumption DEF TableInv, RosterInv
  <2>2. QED
    BY <2>1, ControllerStep
<1>2. CASE now' = now
  BY <1>1, <1>2 DEF Controller, CountedSince, Counted
<1>3. CASE now' # now
  <2>1. /\ now' = now + 1 /\ ~posted' /\ posted
        /\ roster'.pc = "none" /\ roster'.copy[p] = NoLease
        /\ roster.pc = "none" /\ roster.copy[p] = NoLease
    BY <1>3, TurnsOver DEF NoLeases
  <2>2. since[p] < now => leases[p].channels > 0
    BY <2>1 DEF CountedSince, Counted
  <2>3. since[p] + 1 < now' => leases'[p].channels > 0
    BY <1>1, <2>1, <2>2
  <2>4. QED
    BY <2>1, <2>3 DEF CountedSince
<1>4. QED
  BY <1>2, <1>3

\* A step of a roster, of a student whom the table counts.
LEMMA CountedReconcile ==
  ASSUME RosterInv, TableInv, ChannelInv, TurnInv, Reconcile, UNCHANGED posted,
         NEW p \in Principals, open[p] > 0, since'[p] = since[p], CountedSince(p)
  PROVE  CountedSince(p)'
<1>1. /\ leases \in [Principals -> LeaseRecord]
      /\ roster.todo \in [Principals -> Session \union {NoSession}]
      /\ roster.copy \in [Principals -> CopyType]
      /\ Reachable(p)
  BY DEF RosterInv, RosterRecord, CopyType, IInv, TypeOK, ChannelInv
<1>2. NoSession.channels = 0 /\ ~(0 > 0)
  BY DEF NoSession
<1>3. ASSUME NEW q \in Principals, RosterLookup(q) PROVE CountedSince(p)'
  <2>1. /\ UNCHANGED <<leases, now>> /\ roster.pc = "sessions" /\ roster'.pc = "sessions"
        /\ roster.copy = NoLeases /\ roster.todo[q] \in Session /\ leases[q] \in LeaseRecord
        /\ roster.todo[q] # NoSession
        /\ roster'.todo = [roster.todo EXCEPT ![q] = NoSession]
        /\ roster'.seen = roster.seen \union {q}
        /\ roster'.copy = [roster.copy EXCEPT ![q] = Reported(leases[q], roster.todo[q])]
    BY <1>3, LookupStep DEF vars, RosterLookup, AtSession
  <2>2. CASE q = p
    <3>1. since[p] < now => roster.todo[p].channels > 0
      BY <2>1, <2>2 DEF CountedSince, TurnInv
    <3>2. Reported(leases[p], roster.todo[p]).channels = roster.todo[p].channels
      BY <2>1, <2>2, ReportedType
    <3>3. roster'.copy[p].channels = roster.todo[p].channels /\ p \in roster'.seen
      BY <1>1, <2>1, <2>2, <3>2
    <3>4. roster'.copy[p] # NoLease
      <4>1. leases[p].state = "Active"
        BY <1>3, <2>2, LookupStep
      <4>2. roster'.copy[p].state = "Active"
        BY <1>1, <2>1, <2>2, <4>1, ReportedType
      <4>3. QED
        BY <4>2 DEF NoLease
    <3>5. since'[p] < now' => Counted(p)'
      BY <2>1, <3>1, <3>3, <3>4 DEF Counted
    <3>6. QED
      BY <2>1, <3>3, <3>5 DEF CountedSince
  <2>3. CASE q # p
    <3>1. roster'.todo[p] = roster.todo[p] /\ roster'.copy[p] = roster.copy[p]
      BY <1>1, <2>1, <2>3
    <3>2. QED
      BY <2>1, <3>1 DEF CountedSince, Counted
  <2>4. QED
    BY <2>2, <2>3
<1>4. ASSUME NEW q \in Principals, RosterLookupNone(q) PROVE CountedSince(p)'
  <2>1. /\ UNCHANGED <<leases, now, phase>> /\ roster.pc = "sessions" /\ roster'.pc = "sessions"
        /\ leases[q].state # "Active" /\ phase[p] = "idle"
        /\ roster'.todo = [roster.todo EXCEPT ![q] = NoSession]
        /\ roster'.seen = roster.seen /\ roster'.copy = roster.copy
    BY <1>4, LookupNoneStep DEF vars, Locked
  <2>2. q # p
    BY <1>1, <2>1 DEF Reachable
  <2>3. roster'.todo[p] = roster.todo[p]
    BY <1>1, <2>1, <2>2
  <2>4. QED
    BY <2>1, <2>3 DEF CountedSince, Counted
<1>5. ASSUME NEW q \in Principals, RosterUpsert(q) PROVE CountedSince(p)'
  <2>1. /\ now' = now /\ leases' = [leases EXCEPT ![q] = roster.copy[q]]
        /\ roster'.pc = roster.pc /\ roster'.todo = roster.todo /\ roster'.seen = roster.seen
        /\ roster.copy[q] # NoLease
        /\ roster'.copy = [roster.copy EXCEPT ![q] = NoLease]
    BY <1>5, UpsertStep
  <2>2. CASE q = p
    <3>1. leases'[p] = roster.copy[p] /\ roster'.copy[p] = NoLease
      BY <1>1, <2>1, <2>2
    <3>2. since[p] < now => leases'[p].channels > 0
      BY <2>1, <2>2, <3>1 DEF CountedSince, Counted
    <3>3. since[p] + 1 < now => since[p] < now
      <4>1. since[p] \in 0..now /\ now \in Nat
        BY StoreAssumption DEF TableInv, RosterInv
      <4>2. QED
        BY <4>1
    <3>4. since'[p] < now' => Counted(p)'
      BY <2>1, <3>1, <3>2 DEF Counted
    <3>5. QED
      BY <2>1, <3>1, <3>2, <3>3, <3>4 DEF CountedSince
  <2>3. CASE q # p
    <3>1. leases'[p] = leases[p] /\ roster'.copy[p] = roster.copy[p]
      BY <1>1, <2>1, <2>3
    <3>2. QED
      BY <2>1, <3>1 DEF CountedSince, Counted
  <2>4. QED
    BY <2>2, <2>3
<1>6. CASE RosterList
  <2>1. /\ UNCHANGED <<leases, now>> /\ roster.pc = "sessions" /\ roster'.pc = "others"
        /\ roster.copy[p] = NoLease /\ roster.todo[p] = NoSession
        /\ roster'.copy[p] = NoLease \/ p \notin roster.seen
    BY <1>6, ListStep DEF vars, NoLeases, NoSessions
  <2>2. since[p] < now => p \in roster.seen /\ Counted(p)
    BY <1>2, <2>1 DEF CountedSince
  <2>3. since'[p] < now' => roster'.copy[p] = NoLease /\ Counted(p)'
    BY <2>1, <2>2 DEF Counted
  <2>4. QED
    BY <2>1, <2>3 DEF CountedSince
<1>7. CASE RosterDone
  <2>1. /\ UNCHANGED <<leases, now>> /\ roster.pc = "others" /\ roster'.pc = "none"
        /\ roster.copy[p] = NoLease /\ roster'.copy[p] = NoLease
    BY <1>7, DoneStep, NoRosterFields DEF vars, NoLeases
  <2>2. QED
    BY <2>1 DEF CountedSince, Counted
<1>8. QED
  BY <1>3, <1>4, <1>5, <1>6, <1>7 DEF Reconcile

LEMMA CountedInvNext ==
  /\ RosterInv /\ TableInv /\ ChannelInv /\ TurnInv /\ CountedInv
  /\ TableInv' /\ [SessionsNext]_svars
  => CountedInv'
<1> SUFFICES ASSUME RosterInv, TableInv, ChannelInv, TurnInv, CountedInv, TableInv',
                    [SessionsNext]_svars, NEW p \in Principals, since'[p] # 0
             PROVE  open'[p] > 0 /\ table'[p].channels > 0 /\ CountedSince(p)'
  BY DEF CountedInv
<1>1. CASE UNCHANGED svars
  <2>1. /\ open' = open /\ table' = table /\ since' = since /\ now' = now /\ leases' = leases
        /\ roster' = roster /\ posted' = posted
    BY <1>1 DEF svars, rvars, vars, bastion
  <2>2. QED
    BY <2>1 DEF CountedInv, CountedSince, Counted
<1>2. CASE SessionsNext
  <2>1. /\ since'[p] = IF open'[p] = 0 \/ table'[p].channels = 0 THEN 0
                       ELSE IF since[p] = 0 THEN now ELSE since[p]
    BY <1>2 DEF SessionsNext, Watch
  <2>2. open'[p] \in Nat /\ table'[p].channels \in Nat
    BY RosterAssumption DEF TableInv, PastSession, Session, NoSession
  <2>3. /\ open'[p] > 0 /\ table'[p].channels > 0
        /\ since'[p] = now \/ (since[p] # 0 /\ since'[p] = since[p])
    BY <2>1, <2>2
  <2>4. CASE since'[p] = now
    BY <1>2, <2>3, <2>4, CountedFirst
  <2>5. CASE since[p] # 0 /\ since'[p] = since[p]
    <3>1. open[p] > 0 /\ table[p].channels > 0 /\ CountedSince(p)
      BY <2>5 DEF CountedInv
    <3>2. CASE (\E q \in Principals : Open(q) \/ Close(q) \/ CloseReported(q)) \/ BastionRestart
      <4>1. /\ now' = now /\ leases' = leases /\ roster' = roster /\ posted' = posted
        BY <3>2 DEF Open, Close, CloseReported, BastionRestart, rvars, vars
      <4>2. QED
        BY <2>3, <2>5, <3>1, <4>1 DEF CountedSince, Counted
    <3>3. CASE Report
      <4>1. RosterPost(table) /\ table \in [Principals -> PastSession \union {NoSession}]
        BY <3>3 DEF Report, TableInv
      <4>2. /\ now' = now /\ leases' = leases /\ roster'.pc = "sessions"
            /\ roster'.todo[p] = table[p] /\ roster'.copy[p] = NoLease
        BY <4>1, PostStep DEF vars, NoLeases
      <4>3. QED
        BY <2>3, <2>5, <3>1, <4>2 DEF CountedSince
    <3>4. CASE Reconcile /\ UNCHANGED <<bastion, posted>>
      BY <2>3, <2>5, <3>1, <3>4, CountedReconcile
    <3>5. CASE Controller
      BY <1>2, <2>3, <2>5, <3>1, <3>5, CountedController
    <3>6. QED
      BY <1>2, <3>2, <3>3, <3>4, <3>5 DEF SessionsNext
  <2>6. QED
    BY <2>3, <2>4, <2>5
<1>3. QED
  BY <1>1, <1>2

LEMMA ConnectedStep ==
  ASSUME RosterInv, TableInv, ChannelInv, CountedInv, [SessionsNext]_svars, NEW p \in Principals,
         phase[p] = "idle", phase'[p] = "drain", leases'[p].by = "idle"
  PROVE  since[p] = 0 \/ now <= since[p] + 1
<1>1. Controller
  BY UpsertStep
     DEF SessionsNext, Open, Close, CloseReported, BastionRestart, Report, RosterPost, Reconcile,
     RosterLookup, RosterLookupNone, RosterList, RosterDone, svars, rvars, vars
<1> SUFFICES ASSUME since[p] # 0 PROVE now <= since[p] + 1
  OBVIOUS
<1>2. Reachable(p) /\ IInv /\ [Next]_vars
  BY <1>1 DEF CountedInv, ChannelInv, RosterInv, Controller
<1>3. leases[p].channels = 0
  BY <1>2, IdleFindsNone
<1>4. ~(since[p] + 1 < now)
  BY <1>3 DEF CountedInv, CountedSince
<1>5. since[p] \in 0..now /\ now \in Nat
  BY StoreAssumption DEF TableInv, RosterInv
<1>6. QED
  BY <1>4, <1>5

\* Nobody is released as idle whose channel the table has counted for longer
\* than a roster takes, whatever fails and however rosters, creates, releases
\* and the idle loop interleave.
THEOREM ConnectedStay == SessionsSpec => ConnectedStays
<1>1. SessionsInit => RosterInit /\ ChannelInv /\ TurnInv /\ CountedInv
  <2> SUFFICES ASSUME SessionsInit PROVE ChannelInv /\ TurnInv /\ CountedInv
    BY DEF SessionsInit
  <2>1. roster = NoRoster /\ \A p \in Principals : since[p] = 0 /\ open[p] = 0
    BY DEF SessionsInit, RosterInit
  <2>2. QED
    BY <2>1, NoRosterFields DEF ChannelInv, TurnInv, CountedInv
<1>2. RosterInv /\ TableInv /\ ChannelInv /\ TurnInv /\ CountedInv /\ [SessionsNext]_svars
        => RosterInv' /\ TableInv' /\ ChannelInv' /\ TurnInv' /\ CountedInv'
  BY SessionsStep, RosterInvNext, TableInvNext, ChannelInvNext, TurnInvNext, CountedInvNext
<1>3. RosterInv /\ TableInv /\ ChannelInv /\ CountedInv /\ [SessionsNext]_svars =>
        [\A p \in Principals :
           phase[p] = "idle" /\ phase'[p] = "drain" /\ leases'[p].by = "idle"
             => since[p] = 0 \/ now <= since[p] + 1]_svars
  BY ConnectedStep
<1>4. QED
  BY <1>1, <1>2, <1>3, RosterInvInit, TableInvInit, PTL DEF SessionsSpec, ConnectedStays

=============================================================================
