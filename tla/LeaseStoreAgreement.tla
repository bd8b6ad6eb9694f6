------------------------ MODULE LeaseStoreAgreement ------------------------
(***************************************************************************)
(* Memory, snapshot and containers agree: proofs about what the store      *)
(* keeps in different places for one student.                              *)
(***************************************************************************)
EXTENDS LeaseStoreRefinement

USE DEF ReleaseState, Trigger, Sweeper, CreatePhase, ReleasePhase, Unheld

\* The lease that p has if the create or release in progress is undone.
Undone(p) == IF phase[p] \in CreatePhase THEN prior[p]
             ELSE IF phase[p] \in ReleasePhase THEN Unrelease(leases[p])
             ELSE leases[p]

\* d is l, or l as it was before a release that d has not seen.
Lags(d, l) == \/ d = l
              \/ l.state = "Reclaimed" /\ d.state = "Active" /\ d.cid = l.cid

SnapshotInv == Persistent => \A p \in Principals : Lags(disk[p], Undone(p))

\* Two records of one container have one deadline.
SameDeadline(l, m) == l.cid # 0 /\ l.cid = m.cid => l.deadline = m.deadline

Dated == \A p \in Principals : /\ leases[p].cid < nextID /\ prior[p].cid < nextID
                               /\ SameDeadline(leases[p], prior[p])

\* The phases in which p's lease is Active or may become so again.
Serves(p) == \/ phase[p] \in {"save", "drain", "stop", "rollback"}
             \/ phase[p] = "idle" /\ leases[p].state = "Active"

RunningInv == \A p \in Principals : Serves(p) =>
                 containers[p].id = leases[p].cid /\ containers[p].running

NothingRuns == \A p \in Principals : containers[p].id = 0 => ~containers[p].running

-----------------------------------------------------------------------------
(* What undoing a release gives back *)

\* Records are equal when their fields are.
LEMMA SameRecord ==
  ASSUME NEW l \in LeaseRecord, NEW m \in LeaseRecord,
         l.cid = m.cid, l.started = m.started, l.deadline = m.deadline,
         l.lastSeen = m.lastSeen, l.channels = m.channels, l.state = m.state, l.by = m.by
  PROVE  l = m
BY DEF LeaseRecord

\* The steps of a release change nothing but the state and the trigger.
LEMMA UnreleaseUndoes ==
  ASSUME NEW l \in LeaseRecord
  PROVE  /\ \A next \in ReleaseState : Unrelease(Transition(l, next)) = Unrelease(l)
         /\ \A t \in Trigger : l.state = "Active" /\ l.by = "none"
                               => Unrelease(Release(l, t)) = l
         /\ Unrelease(l).state = "Active" /\ Unrelease(l).cid = l.cid
         /\ Unrelease(l).deadline = l.deadline
<1>1. ASSUME NEW m \in LeaseRecord
      PROVE  /\ Unrelease(m) \in LeaseRecord
             /\ Unrelease(m).cid = m.cid /\ Unrelease(m).started = m.started
             /\ Unrelease(m).deadline = m.deadline /\ Unrelease(m).lastSeen = m.lastSeen
             /\ Unrelease(m).channels = m.channels
             /\ Unrelease(m).state = "Active" /\ Unrelease(m).by = "none"
  BY DEF Unrelease, LeaseRecord
<1>2. ASSUME NEW next \in ReleaseState
      PROVE  Unrelease(Transition(l, next)) = Unrelease(l)
  <2>1. /\ Transition(l, next) \in LeaseRecord
        /\ Transition(l, next).cid = l.cid /\ Transition(l, next).started = l.started
        /\ Transition(l, next).deadline = l.deadline /\ Transition(l, next).lastSeen = l.lastSeen
        /\ Transition(l, next).channels = l.channels
    BY DEF Transition, LeaseRecord
  <2>2. QED
    BY <1>1, <2>1, SameRecord
<1>3. ASSUME NEW t \in Trigger, l.state = "Active", l.by = "none"
      PROVE  Unrelease(Release(l, t)) = l
  <2>1. /\ Release(l, t) \in LeaseRecord
        /\ Release(l, t).cid = l.cid /\ Release(l, t).started = l.started
        /\ Release(l, t).deadline = l.deadline /\ Release(l, t).lastSeen = l.lastSeen
        /\ Release(l, t).channels = l.channels
    BY <1>3 DEF Release, Transition, LeaseRecord
  <2>2. QED
    BY <1>1, <1>3, <2>1, SameRecord
<1>4. QED
  BY <1>1, <1>2, <1>3

-----------------------------------------------------------------------------
(* Every step either can be undone, or saves, or ends a release.           *)

\* A step on p alone leaves what everyone else would go back to.
LEMMA UndoneOne ==
  ASSUME IInv, NEW p \in Principals, NEW from, NEW to,
         to \in {"idle"} \union CreatePhase \union ReleasePhase, Advance(p, from, to),
         \A q \in Principals : q # p => leases'[q] = leases[q] /\ prior'[q] = prior[q],
         Undone(p)' = Undone(p)
  PROVE  \A q \in Principals : Undone(q)' = Undone(q)
BY AdvanceType DEF IInv, Undone

LEMMA CreatingUndone ==
  ASSUME IInv, Persistent, NEW p \in Principals, Creating(p)
  PROVE  \/ disk' = disk /\ \A q \in Principals : Undone(q)' = Undone(q)
         \/ disk' = leases' /\ \A q \in Principals : phase'[q] = "idle"
<1>1. leases \in [Principals -> LeaseRecord] /\ prior \in [Principals -> LeaseRecord]
  BY DEF IInv, TypeOK
<1>2. CASE CreateBegin(p)
  <2>1. /\ Advance(p, "idle", "create") /\ phase[p] = "idle" /\ phase'[p] = "create"
        /\ prior'[p] = leases[p] /\ disk' = disk
        /\ \A q \in Principals : q # p => leases'[q] = leases[q] /\ prior'[q] = prior[q]
    BY <1>1, <1>2, AdvanceType DEF CreateBegin, Put, IInv
  <2>2. QED
    BY <2>1, UndoneOne DEF Undone
<1>3. CASE CreateSucceeds(p)
  <2>1. /\ Advance(p, "create", "save") /\ phase[p] = "create" /\ phase'[p] = "save"
        /\ prior' = prior /\ disk' = disk
        /\ \A q \in Principals : q # p => leases'[q] = leases[q]
    BY <1>3, Made, AdvanceType DEF CreateSucceeds, IInv
  <2>2. QED
    BY <2>1, UndoneOne DEF Undone
<1>4. CASE CreateFails(p) \/ CreateCleanup(p)
  <2>1. /\ Restore(p) /\ disk' = disk
        /\ Advance(p, "create", "idle") \/ Advance(p, "cleanup", "idle")
    BY <1>4 DEF CreateFails, CreateCleanup
  <2>2. /\ phase[p] \in CreatePhase /\ phase'[p] = "idle" /\ leases'[p] = prior[p]
        /\ \A q \in Principals : q # p => leases'[q] = leases[q] /\ prior'[q] = prior[q]
    BY <1>1, <2>1, AdvanceType DEF Restore, Put, IInv
  <2>3. QED
    BY <2>1, <2>2, UndoneOne DEF Undone
<1>5. CASE CreateSaved(p)
  <2>1. disk' = leases' /\ Advance(p, "save", "idle") /\ phase[p] = "save"
    BY <1>5 DEF CreateSaved, Save, Advance
  <2>2. QED
    BY <2>1, AdvanceType DEF IInv, MutualExclusion
<1>6. CASE CreateNotSaved(p)
  <2>1. /\ Advance(p, "save", "cleanup") /\ phase[p] = "save" /\ phase'[p] = "cleanup"
        /\ leases' = leases /\ prior' = prior /\ disk' = disk
    BY <1>6, AdvanceType DEF CreateNotSaved, Save, IInv
  <2>2. QED
    BY <2>1, UndoneOne DEF Undone
<1>7. QED
  BY <1>2, <1>3, <1>4, <1>5, <1>6 DEF Creating

\* The end of a release whose snapshot cannot be written.
Unsaved(p) == /\ "save" \in Faults
              /\ Undone(p).state = "Active"
              /\ Undone(p)'.state = "Reclaimed" /\ Undone(p)'.cid = Undone(p).cid
              /\ \A q \in Principals : q # p => Undone(q)' = Undone(q)

\* A save that succeeds with the mutex about to be free, or one that fails.
LEMMA SaveOutcome ==
  ASSUME IInv, Persistent, NEW p \in Principals, NEW from, from # "idle",
         Advance(p, from, "idle"), NEW ok \in BOOLEAN, Save(ok)
  PROVE  \/ disk' = leases' /\ \A q \in Principals : phase'[q] = "idle"
         \/ disk' = disk /\ "save" \in Faults
<1>1. \A q \in Principals : phase'[q] = "idle"
  BY AdvanceType DEF IInv, MutualExclusion
<1>2. QED
  BY <1>1 DEF Save

LEMMA ReleasingUndone ==
  ASSUME IInv, Persistent, NEW p \in Principals, UNCHANGED prior,
         ReleaseStep(p) \/ \E t \in Trigger : ReleaseBegin(p, t) /\ disk' = disk
  PROVE  \/ disk' = disk /\ \A q \in Principals : Undone(q)' = Undone(q)
         \/ disk' = leases' /\ \A q \in Principals : phase'[q] = "idle"
         \/ disk' = disk /\ Unsaved(p)
<1>1. leases \in [Principals -> LeaseRecord] /\ leases[p] \in LeaseRecord
  BY DEF IInv, TypeOK
<1>2. ASSUME NEW t \in Trigger, ReleaseBegin(p, t), disk' = disk
      PROVE  \A q \in Principals : Undone(q)' = Undone(q)
  <2>1. /\ Advance(p, "idle", "drain") /\ phase[p] = "idle" /\ phase'[p] = "drain"
        /\ leases'[p] = Release(leases[p], t) /\ leases[p].state = "Active"
        /\ \A q \in Principals : q # p => leases'[q] = leases[q]
    BY <1>1, <1>2, AdvanceType DEF ReleaseBegin, Releasable, Put, IInv
  <2>2. leases[p].by = "none"
    BY <2>1 DEF IInv, PhaseOK, Settled, NoLease
  <2>3. Undone(p)' = Undone(p)
    BY <1>1, <2>1, <2>2, UnreleaseUndoes DEF Undone
  <2>4. QED
    BY <2>1, <2>3, UndoneOne
<1>3. ASSUME NEW ok \in BOOLEAN, ReleaseDrain(p, ok) \/ ReleaseStop(p, ok)
      PROVE  disk' = disk /\ \A q \in Principals : Undone(q)' = Undone(q)
  <2>1. PICK to \in ReleasePhase : /\ Advance(p, "drain", to) \/ Advance(p, "stop", to)
                                   /\ disk' = disk
    BY <1>3 DEF ReleaseDrain, ReleaseStop
  <2>2. \/ leases' = leases
        \/ \E next \in ReleaseState : leases' = [leases EXCEPT ![p] = Transition(leases[p], next)]
    BY <1>3 DEF ReleaseDrain, ReleaseStop, Put
  <2>3. /\ phase[p] \in ReleasePhase /\ phase'[p] \in ReleasePhase
        /\ \A q \in Principals : q # p => leases'[q] = leases[q]
    BY <1>1, <2>1, <2>2, AdvanceType DEF IInv
  <2>4. Unrelease(leases'[p]) = Unrelease(leases[p])
    BY <1>1, <2>2, UnreleaseUndoes
  <2>5. Undone(p)' = Undone(p)
    BY <2>3, <2>4 DEF Undone
  <2>6. QED
    BY <2>1, <2>3, <2>5, UndoneOne
<1>4. CASE ReleaseRollback(p)
  <2>1. PICK ok \in BOOLEAN : Save(ok)
    BY <1>4 DEF ReleaseRollback
  <2>2. /\ Advance(p, "rollback", "idle") /\ phase[p] = "rollback" /\ phase'[p] = "idle"
        /\ leases'[p] = Unrelease(leases[p])
        /\ \A q \in Principals : q # p => leases'[q] = leases[q]
    BY <1>1, <1>4, AdvanceType DEF ReleaseRollback, Put, IInv
  <2>3. Undone(p)' = Undone(p)
    BY <2>2 DEF Undone
  <2>4. QED
    BY <2>1, <2>2, <2>3, UndoneOne, SaveOutcome
<1>5. CASE ReleaseCommit(p)
  <2>1. PICK ok \in BOOLEAN : Save(ok)
    BY <1>5 DEF ReleaseCommit
  <2>2. /\ Advance(p, "commit", "idle") /\ phase[p] = "commit" /\ phase'[p] = "idle"
        /\ leases'[p] = Transition(leases[p], "Reclaimed")
        /\ \A q \in Principals : q # p => leases'[q] = leases[q] /\ phase'[q] = phase[q]
    BY <1>1, <1>5, AdvanceType DEF ReleaseCommit, Put, IInv
  <2>3. leases'[p].state = "Reclaimed" /\ leases'[p].cid = leases[p].cid
    <3>1. leases[p].state = "Stopped"
      BY <2>2 DEF IInv, PhaseOK
    <3>2. leases'[p].state = "Reclaimed"
      BY <1>1, <2>2, <3>1, TransitionType, TransitionsAllowed
    <3>3. "Reclaimed" \in ReleaseState /\ "manual" \in Trigger
      OBVIOUS
    <3>4. QED
      BY <1>1, <2>2, <3>2, <3>3, CidStays
  <2>4. /\ Undone(p)' = leases'[p] /\ Undone(p) = Unrelease(leases[p])
        /\ \A q \in Principals : q # p => Undone(q)' = Undone(q)
    BY <2>2 DEF Undone
  <2>5. "save" \in Faults => Unsaved(p)
    BY <1>1, <2>3, <2>4, UnreleaseUndoes DEF Unsaved
  <2>6. QED
    BY <2>1, <2>2, <2>5, SaveOutcome
<1>6. QED
  BY <1>2, <1>3, <1>4, <1>5 DEF ReleaseStep

LEMMA UndoneStep ==
  ASSUME IInv, Persistent, [Next]_vars
  PROVE  \/ disk' = disk /\ \A q \in Principals : Undone(q)' = Undone(q)
         \/ disk' = leases' /\ \A q \in Principals : phase'[q] = "idle"
         \/ disk' = disk /\ \E p \in Principals : Unsaved(p)
<1>1. ASSUME NEW p \in Principals,
             \/ ReleaseStep(p) \/ ManualRelease(p)
             \/ \E t \in Sweeper : SweepRelease(t, p)
      PROVE  /\ UNCHANGED prior
             /\ ReleaseStep(p) \/ \E t \in Trigger : ReleaseBegin(p, t) /\ disk' = disk
  BY <1>1 DEF ReleaseStep, ReleaseDrain, ReleaseStop, ReleaseCommit, ReleaseRollback,
     ManualRelease, SweepRelease
<1>2. CASE SaveOther
  BY <1>2 DEF SaveOther, Save, Locked
<1>3. CASE \/ \E p \in Principals : ContainerExits(p)
           \/ \E t \in Sweeper : \/ SweepStart(t)
                                 \/ \E p \in Principals : SweepSkip(t, p) \/ SweepStale(t, p)
           \/ Tick \/ UNCHANGED vars
  <2>1. UNCHANGED <<leases, prior, phase, disk>>
    BY <1>3 DEF ContainerExits, SweepStart, SweepSkip, SweepStale, Tick, vars
  <2>2. QED
    BY <2>1 DEF Undone
<1>4. QED
  BY <1>1, <1>2, <1>3, CreatingUndone, ReleasingUndone DEF Next, Sweeping

LEMMA SnapshotNext == IInv /\ SnapshotInv /\ [Next]_vars => SnapshotInv'
<1> SUFFICES ASSUME IInv, SnapshotInv, [Next]_vars, Persistent
             PROVE  \A p \in Principals : Lags(disk'[p], Undone(p)')
  BY DEF SnapshotInv, Lags
<1>1. CASE disk' = disk /\ \A q \in Principals : Undone(q)' = Undone(q)
  BY <1>1 DEF SnapshotInv, Lags
<1>2. CASE disk' = leases' /\ \A q \in Principals : phase'[q] = "idle"
  BY <1>2 DEF Undone, Lags
<1>3. ASSUME NEW p \in Principals, disk' = disk, Unsaved(p)
      PROVE  \A q \in Principals : Lags(disk'[q], Undone(q)')
  BY <1>3 DEF SnapshotInv, Lags, Unsaved
<1>4. QED
  BY <1>1, <1>2, <1>3, UndoneStep

\* Whichever saves fail, a lease that a student holds is on disk as it is in
\* memory; only the end of a release may be missing there (FileStore's saves
\* and rollbacks in CreateLeaseForPrincipal and ReleaseLeaseIf).
THEOREM SnapshotOnlyLags == Spec => []SnapshotLags
<1>1. Init => SnapshotInv
  BY DEF Init, SnapshotInv, Undone, Lags
<1>2. IInv /\ SnapshotInv => SnapshotLags
  BY DEF SnapshotInv, SnapshotLags, Undone, Lags
<1>3. QED
  BY <1>1, <1>2, InitInv, NextInv, SnapshotNext, PTL DEF Spec

-----------------------------------------------------------------------------
(* The deadline of a container *)

\* A release leaves everyone's container and deadline alone.
LEMMA ReleaseRecord ==
  ASSUME IInv, NEW p \in Principals, NEW q \in Principals,
         ReleaseStep(q) \/ \E t \in Trigger : ReleaseBegin(q, t)
  PROVE  leases'[p].cid = leases[p].cid /\ leases'[p].deadline = leases[p].deadline
<1>1. leases \in [Principals -> LeaseRecord] /\ leases[p] \in LeaseRecord
  BY DEF IInv, TypeOK
<1>2. \/ leases' = leases
      \/ \E next \in ReleaseState : Put(q, Transition(leases[q], next))
      \/ \E t \in Trigger : Put(q, Release(leases[q], t)) /\ leases[q].state = "Active"
      \/ Put(q, Unrelease(leases[q]))
  BY DEF ReleaseStep, ReleaseDrain, ReleaseStop, ReleaseCommit, ReleaseRollback, ReleaseBegin,
     Releasable
<1>3. "Closing" \in ReleaseState /\ "manual" \in Trigger
  OBVIOUS
<1>4. ASSUME NEW next \in ReleaseState
      PROVE  /\ Transition(leases[p], next).cid = leases[p].cid
             /\ Transition(leases[p], next).deadline = leases[p].deadline
  BY <1>1, <1>3, CidStays, TransitionType
<1>5. ASSUME NEW t \in Trigger, leases[p].state = "Active"
      PROVE  /\ Release(leases[p], t).cid = leases[p].cid
             /\ Release(leases[p], t).deadline = leases[p].deadline
  <2>1. Release(leases[p], t).cid = leases[p].cid
    BY <1>1, <1>3, CidStays
  <2>2. QED
    BY <1>1, <1>5, <2>1, ReleaseType
<1>6. QED
  BY <1>1, <1>2, <1>4, <1>5, UnreleaseUndoes DEF Put

\* A step that changes p's part is one of the create or release of p.
LEMMA OwnSteps ==
  ASSUME IInv, [Next]_vars, NEW p \in Principals
  PROVE  \/ Creating(p) \/ ReleaseStep(p)
         \/ \E t \in Trigger : ReleaseBegin(p, t) /\ UNCHANGED <<disk, prior, runtime, now>>
         \/ leases'[p] = leases[p] /\ phase'[p] = phase[p] /\ prior'[p] = prior[p]
<1>1. /\ leases \in [Principals -> LeaseRecord] /\ prior \in [Principals -> LeaseRecord]
      /\ phase \in [Principals -> {"idle"} \union CreatePhase \union ReleasePhase]
  BY DEF IInv, TypeOK
<1>2. ASSUME NEW q \in Principals, q # p, Creating(q)
      PROVE  leases'[p] = leases[p] /\ phase'[p] = phase[p] /\ prior'[p] = prior[p]
  BY <1>1, <1>2 DEF Creating, CreateBegin, CreateSucceeds, CreateFails, CreateSaved,
     CreateNotSaved, CreateCleanup, Advance, Restore, Put
<1>3. ASSUME NEW q \in Principals, q # p, ReleaseStep(q)
      PROVE  leases'[p] = leases[p] /\ phase'[p] = phase[p] /\ prior'[p] = prior[p]
  BY <1>1, <1>3 DEF ReleaseStep, ReleaseDrain, ReleaseStop, ReleaseCommit, ReleaseRollback,
     Advance, Put
<1>4. ASSUME NEW q \in Principals, ManualRelease(q) \/ \E t \in Sweeper : SweepRelease(t, q)
      PROVE  \E t \in Trigger : ReleaseBegin(q, t) /\ UNCHANGED <<disk, prior, runtime, now>>
  BY <1>4 DEF ManualRelease, SweepRelease
<1>5. ASSUME NEW q \in Principals, q # p, NEW t \in Trigger, ReleaseBegin(q, t), UNCHANGED prior
      PROVE  leases'[p] = leases[p] /\ phase'[p] = phase[p] /\ prior'[p] = prior[p]
  BY <1>1, <1>5 DEF ReleaseBegin, Advance, Put
<1>6. CASE \/ \E q \in Principals : ContainerExits(q)
           \/ \E t \in Sweeper : \/ SweepStart(t)
                                 \/ \E q \in Principals : SweepSkip(t, q) \/ SweepStale(t, q)
           \/ SaveOther \/ Tick \/ UNCHANGED vars
  BY <1>6 DEF ContainerExits, SweepStart, SweepSkip, SweepStale, SaveOther, Tick, vars
<1>7. QED
  BY <1>2, <1>3, <1>4, <1>5, <1>6 DEF Next, Sweeping

\* What a step does to the two records that are kept for p: it leaves their
\* container and deadline alone, reserves the name, makes a new lease, or
\* restores the prior one.
LEMMA RecordSteps ==
  ASSUME IInv, [Next]_vars, NEW p \in Principals
  PROVE  /\ nextID' = nextID \/ nextID' = nextID + 1
         /\ \/ /\ leases'[p].cid = leases[p].cid
               /\ leases'[p].deadline = leases[p].deadline
               /\ prior'[p] = prior[p] \/ prior'[p] = NoLease
            \/ leases'[p].cid = 0 /\ prior'[p] = leases[p]
            \/ leases'[p].cid = nextID /\ nextID' = nextID + 1 /\ prior'[p] = prior[p]
            \/ leases'[p] = prior[p] /\ prior'[p] = NoLease
<1>1. /\ leases \in [Principals -> LeaseRecord] /\ prior \in [Principals -> LeaseRecord]
      /\ leases[p] \in LeaseRecord
  BY DEF IInv, TypeOK
<1>2. ASSUME NEW q \in Principals, CreateBegin(q)
      PROVE  /\ nextID' = nextID
             /\ \/ leases'[p] = leases[p] /\ prior'[p] = prior[p]
                \/ leases'[p].cid = 0 /\ prior'[p] = leases[p]
  <2>1. [NoLease EXCEPT !.state = "Closing"].cid = 0
    BY DEF NoLease
  <2>2. QED
    BY <1>1, <1>2, <2>1 DEF CreateBegin, Put, runtime
<1>3. ASSUME NEW q \in Principals, CreateSucceeds(q)
      PROVE  /\ nextID' = nextID + 1
             /\ prior'[p] = prior[p]
             /\ leases'[p] = leases[p] \/ leases'[p].cid = nextID
  BY <1>1, <1>3, Made DEF CreateSucceeds
<1>4. ASSUME NEW q \in Principals,
             CreateFails(q) \/ CreateSaved(q) \/ CreateNotSaved(q) \/ CreateCleanup(q)
      PROVE  /\ nextID' = nextID \/ nextID' = nextID + 1
             /\ prior'[p] = prior[p] \/ prior'[p] = NoLease
             /\ leases'[p] = leases[p] \/ (leases'[p] = prior[p] /\ prior'[p] = NoLease)
  BY <1>1, <1>4, NextIDSteps DEF CreateFails, CreateSaved, CreateNotSaved, CreateCleanup,
     Restore, Put, runtime
<1>5. ASSUME NEW q \in Principals,
             \/ ReleaseStep(q) \/ ManualRelease(q)
             \/ \E t \in Sweeper : SweepRelease(t, q)
      PROVE  /\ nextID' = nextID /\ prior'[p] = prior[p]
             /\ leases'[p].cid = leases[p].cid /\ leases'[p].deadline = leases[p].deadline
  <2>1. nextID' = nextID /\ prior' = prior
    BY <1>5 DEF ReleaseStep, ReleaseDrain, ReleaseStop, ReleaseCommit, ReleaseRollback,
       ManualRelease, SweepRelease, runtime
  <2>2. ReleaseStep(q) \/ \E t \in Trigger : ReleaseBegin(q, t)
    BY <1>5 DEF ManualRelease, SweepRelease
  <2>3. QED
    BY <2>1, <2>2, ReleaseRecord
<1>6. CASE \/ \E q \in Principals : ContainerExits(q)
           \/ \E t \in Sweeper : \/ SweepStart(t)
                                 \/ \E q \in Principals : SweepSkip(t, q) \/ SweepStale(t, q)
           \/ SaveOther \/ Tick \/ UNCHANGED vars
  BY <1>6 DEF ContainerExits, SweepStart, SweepSkip, SweepStale, SaveOther, Tick, vars, runtime
<1>7. QED
  BY <1>2, <1>3, <1>4, <1>5, <1>6 DEF Next, Creating, Sweeping

LEMMA DatedNext == IInv /\ Dated /\ [Next]_vars => Dated'
<1> SUFFICES ASSUME IInv, Dated, [Next]_vars, NEW p \in Principals
             PROVE  /\ leases'[p].cid < nextID' /\ prior'[p].cid < nextID'
                    /\ SameDeadline(leases'[p], prior'[p])
  BY DEF Dated, SameDeadline
<1>1. /\ nextID \in Nat /\ nextID > 0
      /\ leases[p].cid \in Nat /\ prior[p].cid \in Nat /\ NoLease.cid = 0
  BY StoreAssumption DEF IInv, TypeOK, LeaseRecord, NoLease
<1>2. QED
  BY <1>1, RecordSteps DEF Dated, SameDeadline

LEMMA DatedInit == Init => Dated
BY DEF Init, Dated, SameDeadline, NoLeases, NoLease

LEMMA LifetimeStep ==
  ASSUME IInv, Dated, [Next]_vars, NEW p \in Principals,
         leases[p].cid # 0, leases'[p].cid = leases[p].cid
  PROVE  leases'[p].deadline = leases[p].deadline
<1>1. nextID \in Nat /\ leases[p].cid \in Nat
  BY StoreAssumption DEF IInv, TypeOK, LeaseRecord
<1>2. QED
  BY <1>1, RecordSteps DEF Dated, SameDeadline

\* The deadline of a container is set once: no failed create or release gives
\* the container that a lease has a longer life (NewLease is the only writer
\* of DeadlineAt, and no identifier is used again).
THEOREM LifetimesKept == Spec => LifetimeKept
<1>1. IInv /\ Dated /\ [Next]_vars =>
        [\A p \in Principals :
           leases[p].cid # 0 /\ leases'[p].cid = leases[p].cid
             => leases'[p].deadline = leases[p].deadline]_vars
  BY LifetimeStep
<1>2. QED
  BY <1>1, InitInv, NextInv, DatedInit, DatedNext, PTL DEF Spec, LifetimeKept

-----------------------------------------------------------------------------
(* Leases and containers *)

\* What the name stands for after a create, and what is reported.
LEMMA CreateOutcomes ==
  ASSUME NEW c, NEW i, NEW w, NEW fs, NEW o \in CreateContainer(c, i, w, fs)
  PROVE  LET made == [id |-> i, running |-> TRUE, problem |-> w] IN
         \/ c.id # 0 /\ ~o.ok /\ o.container = c
         \/ c.id = 0 /\ o.ok /\ o.container = made
         \/ c.id = 0 /\ ~o.ok /\ o.container = NoContainer
         \/ c.id = 0 /\ ~o.ok /\ "leftover" \in fs /\ o.container \in {made, Exited(made)}
<1> DEFINE made == [id |-> i, running |-> TRUE, problem |-> w]
<1>1. \/ c.id # 0 /\ o = Outcome(FALSE, c)
      \/ c.id = 0 /\ o = Outcome(TRUE, made)
      \/ c.id = 0 /\ o \in Failing("create", fs, {NoContainer})
      \/ c.id = 0 /\ o \in Failing("leftover", fs, {made, Exited(made)})
  BY DEF CreateContainer
<1> HIDE DEF made
<1>2. \/ c.id # 0 /\ ~o.ok /\ o.container = c
      \/ c.id = 0 /\ o.ok /\ o.container = made
      \/ c.id = 0 /\ ~o.ok /\ o.container = NoContainer
      \/ c.id = 0 /\ ~o.ok /\ "leftover" \in fs /\ o.container \in {made, Exited(made)}
  BY <1>1 DEF Failing, Outcome
<1>3. QED
  BY <1>2 DEF made

\* The same of a stop and removal.
LEMMA StopOutcomes ==
  ASSUME NEW c, NEW i, NEW fs, NEW o \in StopAndRemoveContainer(c, i, fs)
  PROVE  \/ /\ ~o.ok /\ o.container = c
            /\ i = 0 \/ c.id # i \/ "stop" \in fs
         \/ c.id = i /\ i # 0 /\ o.ok /\ o.container = NoContainer
         \/ c.id = i /\ i # 0 /\ ~o.ok /\ o.container = NoContainer /\ "stopGone" \in fs
         \/ c.id = i /\ i # 0 /\ ~o.ok /\ o.container = Exited(c) /\ "remove" \in fs
BY DEF StopAndRemoveContainer, Failing, Outcome

LEMMA ContainerFacts ==
  /\ NoContainer.id = 0 /\ ~NoContainer.running
  /\ \A c \in Container :
       Exited(c).id = c.id /\ ~Exited(c).running /\ Exited(c).problem = c.problem
  /\ \A i, w \in Nat : LET made == [id |-> i, running |-> TRUE, problem |-> w] IN
       /\ made \in Container
       /\ made.id = i /\ made.running /\ Exited(made).id = i
       /\ made.problem = w /\ Exited(made).problem = w
<1>1. /\ NoContainer.id = 0 /\ ~NoContainer.running
      /\ \A c \in Container :
           Exited(c).id = c.id /\ ~Exited(c).running /\ Exited(c).problem = c.problem
  BY DEF NoContainer, Exited, Container
<1>2. ASSUME NEW i \in Nat, NEW w \in Nat
      PROVE  LET made == [id |-> i, running |-> TRUE, problem |-> w] IN
             /\ made \in Container
             /\ made.id = i /\ made.running /\ Exited(made).id = i
             /\ made.problem = w /\ Exited(made).problem = w
  <2> DEFINE made == [id |-> i, running |-> TRUE, problem |-> w]
  <2>1. made \in Container /\ made.id = i /\ made.running /\ made.problem = w
    BY DEF Container
  <2> HIDE DEF made
  <2>2. Exited(made).id = i /\ Exited(made).problem = w
    BY <1>1, <2>1
  <2>3. QED
    BY <2>1, <2>2 DEF made
<1>3. QED
  BY <1>1, <1>2

\* The steps that touch the container of p, and what they leave.
LEMMA ContainerSteps ==
  ASSUME IInv, [Next]_vars, NEW p \in Principals, containers'[p] # containers[p]
  PROVE  \/ /\ CreateSucceeds(p) /\ containers[p].id = 0
            /\ containers'[p].id = nextID /\ containers'[p].running
            /\ containers'[p].problem \in 1..MaxProblems
         \/ /\ CreateFails(p) /\ containers[p].id = 0
            /\ \/ containers'[p] = NoContainer
               \/ /\ "leftover" \in Faults /\ containers'[p].id = nextID
                  /\ containers'[p].problem \in 1..MaxProblems
         \/ /\ CreateCleanup(p) \/ (\E ok \in BOOLEAN : ReleaseStop(p, ok))
            /\ containers[p].id = leases[p].cid /\ leases[p].cid # 0
            /\ \/ containers'[p] = NoContainer
               \/ "remove" \in Faults /\ containers'[p] = Exited(containers[p])
         \/ /\ ContainerExits(p) /\ UNCHANGED <<leases, phase>>
            /\ \/ "exit" \in Faults /\ containers'[p] = Exited(containers[p])
               \/ "lost" \in Faults /\ containers'[p] = NoContainer
<1>1. /\ containers \in [Principals -> Container] /\ containers[p] \in Container
      /\ nextID \in Nat
  BY StoreAssumption DEF IInv, TypeOK
<1>2. ASSUME NEW q \in Principals, CreateSucceeds(q) \/ CreateFails(q)
      PROVE  /\ q = p
             /\ \E w \in 1..MaxProblems : \E o \in CreateAnswers(p, w) :
                   /\ containers'[p] = o.container
                   /\ IF CreateSucceeds(q) THEN o.ok ELSE ~o.ok
  <2>1. PICK w \in 1..MaxProblems : \E o \in CreateAnswers(q, w) :
           /\ CreateService(q, w, o)
           /\ IF CreateSucceeds(q) THEN o.ok ELSE ~o.ok
    BY <1>2 DEF CreateSucceeds, CreateFails
  <2>2. PICK o \in CreateAnswers(q, w) :
           /\ CreateService(q, w, o)
           /\ IF CreateSucceeds(q) THEN o.ok ELSE ~o.ok
    BY <2>1
  <2>3. containers' = [containers EXCEPT ![q] = o.container]
    BY <2>2 DEF CreateService
  <2>4. q = p /\ containers'[p] = o.container
    BY <1>1, <2>3
  <2>5. QED
    BY <2>2, <2>4
<1>3. CASE \E q \in Principals : CreateSucceeds(q) \/ CreateFails(q)
  <2>1. PICK q \in Principals : CreateSucceeds(q) \/ CreateFails(q)
    BY <1>3
  <2>2. q = p
    BY <1>2, <2>1
  <2>3. PICK w \in 1..MaxProblems : \E o \in CreateAnswers(p, w) :
           containers'[p] = o.container /\ IF CreateSucceeds(p) THEN o.ok ELSE ~o.ok
    BY <1>2, <2>1, <2>2
  <2>4. PICK o \in CreateAnswers(p, w) :
           containers'[p] = o.container /\ IF CreateSucceeds(p) THEN o.ok ELSE ~o.ok
    BY <2>3
  <2> DEFINE made == [id |-> nextID, running |-> TRUE, problem |-> w]
  <2>5. /\ made.id = nextID /\ made.running /\ Exited(made).id = nextID
        /\ made.problem \in 1..MaxProblems /\ Exited(made).problem \in 1..MaxProblems
    <3>1. w \in Nat
      BY StoreAssumption
    <3>2. QED
      BY <1>1, <3>1, ContainerFacts
  <2>6. \/ containers[p].id # 0 /\ ~o.ok /\ o.container = containers[p]
        \/ containers[p].id = 0 /\ o.ok /\ o.container = made
        \/ containers[p].id = 0 /\ ~o.ok /\ o.container = NoContainer
        \/ /\ containers[p].id = 0 /\ ~o.ok /\ "leftover" \in Faults
           /\ o.container \in {made, Exited(made)}
    BY CreateOutcomes DEF CreateAnswers
  <2> HIDE DEF made
  <2>7. QED
    BY <2>1, <2>2, <2>4, <2>5, <2>6
<1>4. ASSUME NEW q \in Principals,
             CreateCleanup(q) \/ \E ok \in BOOLEAN : ReleaseStop(q, ok)
      PROVE  /\ q = p
             /\ containers[p].id = leases[p].cid /\ leases[p].cid # 0
             /\ \/ containers'[p] = NoContainer
                \/ "remove" \in Faults /\ containers'[p] = Exited(containers[p])
  <2>1. PICK o \in StopAnswers(q) : containers' = [containers EXCEPT ![q] = o.container]
    BY <1>4 DEF CreateCleanup, ReleaseStop
  <2>2. q = p /\ containers'[p] = o.container
    BY <1>1, <2>1
  <2>3. QED
    BY <2>1, <2>2, StopOutcomes DEF StopAnswers
<1>5. ASSUME NEW q \in Principals, ContainerExits(q)
      PROVE  /\ q = p /\ UNCHANGED <<leases, phase>>
             /\ \/ "exit" \in Faults /\ containers'[p] = Exited(containers[p])
                \/ "lost" \in Faults /\ containers'[p] = NoContainer
  BY <1>1, <1>5 DEF ContainerExits
<1>6. ASSUME NEW q \in Principals,
             \/ CreateBegin(q) \/ CreateSaved(q) \/ CreateNotSaved(q)
             \/ (\E ok \in BOOLEAN : ReleaseDrain(q, ok))
             \/ ReleaseCommit(q) \/ ReleaseRollback(q) \/ ManualRelease(q)
             \/ \E t \in Sweeper : Sweeping(t, q)
      PROVE  FALSE
  BY <1>6 DEF CreateBegin, CreateSaved, CreateNotSaved, ReleaseDrain, ReleaseCommit,
     ReleaseRollback, ManualRelease, Sweeping, SweepSkip, SweepRelease, SweepStale, runtime
<1>7. ~(\E t \in Sweeper : SweepStart(t)) /\ ~SaveOther /\ ~Tick /\ ~UNCHANGED vars
  BY DEF SweepStart, SaveOther, Tick, vars, runtime
<1>8. QED
  BY <1>2, <1>3, <1>4, <1>5, <1>6, <1>7 DEF Next, Creating, ReleaseStep

LEMMA NothingRunsNext == IInv /\ NothingRuns /\ [Next]_vars => NothingRuns'
<1> SUFFICES ASSUME IInv, NothingRuns, [Next]_vars, NEW p \in Principals,
                    containers'[p].id = 0
             PROVE  ~containers'[p].running
  BY DEF NothingRuns
<1>1. /\ containers[p] \in Container /\ nextID # 0
      /\ \A c \in Container : ~Exited(c).running
      /\ ~NoContainer.running
  BY ContainerFacts DEF IInv, TypeOK
<1>2. CASE containers'[p] = containers[p]
  BY <1>2 DEF NothingRuns
<1>3. CASE containers'[p] # containers[p]
  BY <1>1, <1>3, ContainerSteps
<1>4. QED
  BY <1>2, <1>3

LEMMA NothingRunsInit == Init => NothingRuns
BY DEF Init, NothingRuns, NoContainer

LEMMA StopsStep ==
  ASSUME IInv, NothingRuns, [Next]_vars, Faults \intersect {"exit", "lost"} = {},
         NEW p \in Principals, containers[p].running, ~containers'[p].running
  PROVE  phase[p] = "cleanup" \/ leases[p].state = "Draining"
<1>1. containers'[p] # containers[p] /\ containers[p].id # 0
  BY DEF NothingRuns
<1>2. CreateCleanup(p) \/ \E ok \in BOOLEAN : ReleaseStop(p, ok)
  BY <1>1, ContainerSteps
<1>3. phase[p] \in {"cleanup", "stop"}
  BY <1>2 DEF CreateCleanup, ReleaseStop, Advance
<1>4. QED
  BY <1>3 DEF IInv, PhaseOK

\* As long as containers do not stop by themselves, one that runs is stopped
\* only after the bastion has drained its channels, or when its create is
\* undone (the callback of ExecuteRelease before Stopped comes after the one
\* before Draining).
THEOREM StopsOnlyAfterDrain ==
  ASSUME Faults \intersect {"exit", "lost"} = {}
  PROVE  Spec => StopsAfterDrain
<1>1. IInv /\ NothingRuns /\ [Next]_vars =>
        [\A p \in Principals : containers[p].running /\ ~containers'[p].running =>
           phase[p] = "cleanup" \/ leases[p].state = "Draining"]_vars
  BY StopsStep
<1>2. QED
  BY <1>1, InitInv, NextInv, NothingRunsInit, NothingRunsNext, PTL DEF Spec, StopsAfterDrain

\* The faults after which an Active lease may stand for nothing that runs.
Surprises == {"exit", "lost", "stopGone", "remove"}

LEMMA RunningNext ==
  ASSUME IInv, RunningInv, [Next]_vars, Faults \intersect Surprises = {}
  PROVE  RunningInv'
<1> SUFFICES ASSUME NEW p \in Principals, Serves(p)'
             PROVE  containers'[p].id = leases'[p].cid /\ containers'[p].running
  BY DEF RunningInv, Serves
<1> USE DEF Surprises
<1>1. /\ leases \in [Principals -> LeaseRecord] /\ containers[p] \in Container
      /\ prior[p] \in LeaseRecord /\ prior[p].state \in Unheld
  BY DEF IInv, TypeOK
<1>2. CASE CreateSucceeds(p)
  <2>1. leases'[p].cid = nextID /\ phase[p] = "create"
    BY <1>2, Made DEF CreateSucceeds, Advance
  <2>2. PICK w \in 1..MaxProblems : \E o \in CreateAnswers(p, w) :
           o.ok /\ CreateService(p, w, o)
    BY <1>2 DEF CreateSucceeds
  <2>3. PICK o \in CreateAnswers(p, w) : o.ok /\ CreateService(p, w, o)
    BY <2>2
  <2>4. containers'[p] = o.container
    BY <2>3 DEF CreateService, IInv, TypeOK
  <2>5. o.container = [id |-> nextID, running |-> TRUE, problem |-> w]
    BY <2>3, CreateOutcomes DEF CreateAnswers
  <2>6. QED
    BY <2>1, <2>4, <2>5
<1>3. CASE CreateFails(p) \/ CreateCleanup(p)
  <2>1. leases'[p] = prior[p] /\ phase'[p] = "idle"
    BY <1>1, <1>3, AdvanceType DEF CreateFails, CreateCleanup, Restore, Put, IInv
  <2>2. QED
    BY <1>1, <2>1 DEF Serves
<1>4. CASE \E ok \in BOOLEAN : ReleaseStop(p, ok)
  <2>1. PICK ok \in BOOLEAN : ReleaseStop(p, ok)
    BY <1>4
  <2>2. ~ok /\ phase[p] = "stop" /\ leases' = leases
    BY <2>1, AdvanceType DEF ReleaseStop, Serves, IInv
  <2>3. PICK o \in StopAnswers(p) : o.ok = ok /\ containers' = [containers EXCEPT ![p] = o.container]
    BY <2>1 DEF ReleaseStop
  <2>4. containers'[p] = containers[p]
    BY <2>2, <2>3, StopOutcomes DEF StopAnswers, IInv, TypeOK
  <2>5. QED
    BY <2>2, <2>4 DEF RunningInv, Serves
<1>5. CASE /\ ~CreateSucceeds(p) /\ ~CreateFails(p) /\ ~CreateCleanup(p)
           /\ ~\E ok \in BOOLEAN : ReleaseStop(p, ok)
  <2>1. containers'[p] = containers[p]
    BY <1>5, ContainerSteps
  <2>2. leases'[p].cid = leases[p].cid /\ Serves(p)
    <3>1. CASE leases'[p] = leases[p] /\ phase'[p] = phase[p]
      BY <3>1 DEF Serves
    <3>2. CASE ReleaseStep(p) \/ \E t \in Trigger : ReleaseBegin(p, t)
      <4>1. \/ \E from \in {"drain", "rollback"} : phase[p] = from
            \/ phase[p] = "idle" /\ leases[p].state = "Active"
            \/ phase'[p] = "idle" /\ leases'[p].state = "Reclaimed"
        <5>1. CASE ReleaseCommit(p)
          <6>1. /\ phase'[p] = "idle" /\ leases[p].state = "Stopped"
                /\ leases'[p] = Transition(leases[p], "Reclaimed")
            BY <1>1, <5>1, AdvanceType DEF ReleaseCommit, Put, IInv, PhaseOK
          <6>2. QED
            BY <1>1, <6>1, TransitionType, TransitionsAllowed DEF IInv, TypeOK
        <5>2. CASE ~ReleaseCommit(p)
          BY <1>5, <3>2, <5>2 DEF ReleaseStep, ReleaseDrain, ReleaseRollback, ReleaseBegin,
             Releasable, Advance
        <5>3. QED
          BY <5>1, <5>2
      <4>2. QED
        BY <3>2, <4>1, ReleaseRecord DEF Serves
    <3>3. CASE CreateBegin(p) \/ CreateSaved(p) \/ CreateNotSaved(p)
      <4>1. ~CreateBegin(p) /\ ~CreateNotSaved(p)
        <5>1. TypeOK /\ phase'[p] \notin {"create", "cleanup"}
          BY DEF Serves, IInv
        <5>2. ~Advance(p, "idle", "create") /\ ~Advance(p, "save", "cleanup")
          BY <5>1, AdvanceType
        <5>3. QED
          BY <5>2 DEF CreateBegin, CreateNotSaved
      <4>2. phase[p] = "save" /\ leases' = leases
        BY <3>3, <4>1 DEF CreateSaved, Advance
      <4>3. QED
        BY <4>2 DEF Serves
    <3>4. QED
      BY <1>5, <3>1, <3>2, <3>3, OwnSteps DEF Creating
  <2>3. QED
    BY <2>1, <2>2 DEF RunningInv
<1>6. QED
  BY <1>2, <1>3, <1>4, <1>5

\* As long as no container stops by itself and no stop fails after it has
\* changed something, every Active lease is that of a running container
\* whenever the lease can be read ("Active -- container is running",
\* lease.go:18), whatever else fails.
THEOREM ActiveRuns ==
  ASSUME Faults \intersect Surprises = {}
  PROVE  Spec => []ActiveIsRunning
<1>1. Init => RunningInv
  BY DEF Init, RunningInv, Serves, NoLeases, NoLease
<1>2. RunningInv => ActiveIsRunning
  BY DEF RunningInv, ActiveIsRunning, Serves, Locked
<1>3. IInv /\ RunningInv /\ [Next]_vars => RunningInv'
  BY RunningNext
<1>4. QED
  BY <1>1, <1>2, <1>3, InitInv, NextInv, PTL DEF Spec
=============================================================================
