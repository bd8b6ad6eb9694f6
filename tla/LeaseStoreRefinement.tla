------------------------ MODULE LeaseStoreRefinement ------------------------
(***************************************************************************)
(* The lease store implements AtomicLeases: seen from outside, a create    *)
(* happens when its snapshot is written and a release when it ends.        *)
(***************************************************************************)
EXTENDS LeaseStoreProofs

USE DEF ReleaseState, Trigger, Sweeper, CreatePhase, ReleasePhase, Unheld

\* A lease that stands for a service names it; a service that is made and not
\* yet given out is the newest one.
Named == \A p \in Principals :
           /\ phase[p] # "create" /\ leases[p].state \notin Unheld => leases[p].cid # 0
           /\ phase[p] = "save" => leases[p].cid = nextID - 1

LInv == IInv /\ Named

-----------------------------------------------------------------------------
(* Named is invariant *)

LEMMA CidStays ==
  ASSUME NEW l \in LeaseRecord, NEW next \in ReleaseState, NEW t \in Trigger
  PROVE  /\ Transition(l, next).cid = l.cid
         /\ Release(l, t).cid = l.cid
         /\ Unrelease(l).cid = l.cid
         /\ Unrelease(l).state = "Active"
BY DEF Transition, Release, Unrelease, LeaseRecord

LEMMA NewLeaseCid ==
  ASSUME NEW c \in Nat, NEW t \in Nat
  PROVE  NewLease(c, t).cid = c /\ NewLease(c, t).state = "Active"
BY DEF NewLease

\* Made: what CreateSucceeds puts in the place of the reservation.
LEMMA Made ==
  ASSUME IInv, NEW p \in Principals, CreateSucceeds(p)
  PROVE  /\ leases'[p].cid = nextID /\ leases'[p].state = "Active"
         /\ nextID' = nextID + 1
         /\ \A q \in Principals : q # p => leases'[q] = leases[q]
<1>0. PICK w \in 1..MaxProblems : \E o \in CreateAnswers(p, w) :
         /\ o.ok
         /\ CreateService(p, w, o)
         /\ Put(p, NewLease(o.container.id, now))
  BY DEF CreateSucceeds
<1>1. PICK o \in CreateAnswers(p, w) : /\ o.ok
                                      /\ CreateService(p, w, o)
                                      /\ Put(p, NewLease(o.container.id, now))
  BY <1>0
<1>2. o.container.id = nextID
  <2>1. containers[p] \in Container /\ nextID \in Nat /\ now \in Nat /\ w \in Nat
    BY StoreAssumption DEF IInv, TypeOK
  <2>2. QED
    BY <1>1, <2>1, CreateContainerType DEF CreateAnswers
<1>3. NewLease(nextID, now).cid = nextID /\ NewLease(nextID, now).state = "Active"
  BY NewLeaseCid DEF IInv, TypeOK
<1>4. QED
  BY <1>1, <1>2, <1>3 DEF CreateService, Put, IInv, TypeOK

\* Only an answer to a create changes nextID, and then only to the next one.
LEMMA NextIDSteps ==
  ASSUME IInv, NEW p \in Principals, CreateFails(p)
  PROVE  nextID' = nextID \/ nextID' = nextID + 1
BY DEF CreateFails, CreateService

\* A step on p alone keeps Named when it keeps it of p and no one else makes
\* a service meanwhile.
LEMMA NamedOne ==
  ASSUME LInv, NEW p \in Principals, NEW from, NEW to,
         to \in {"idle"} \union CreatePhase \union ReleasePhase, Advance(p, from, to),
         from # "idle" \/ ~Locked,
         \A q \in Principals : q # p => leases'[q] = leases[q],
         to # "create" /\ leases'[p].state \notin Unheld => leases'[p].cid # 0,
         to = "save" => leases'[p].cid = nextID' - 1
  PROVE  Named'
<1>1. /\ phase'[p] = to
      /\ \A q \in Principals : q # p => phase[q] = "idle" /\ phase'[q] = "idle"
  BY AdvanceType DEF LInv, IInv, MutualExclusion, Locked
<1>2. QED
  BY <1>1 DEF LInv, Named

LEMMA NamedCreating ==
  ASSUME LInv, NEW p \in Principals, Creating(p)
  PROVE  Named'
<1>1. CASE CreateBegin(p)
  BY <1>1, NamedOne DEF CreateBegin, Put, LInv, IInv, TypeOK
<1>2. CASE CreateSucceeds(p)
  <2>1. nextID \in Nat /\ nextID # 0
    BY StoreAssumption DEF LInv, IInv, TypeOK
  <2>2. /\ Advance(p, "create", "save") /\ leases'[p].cid # 0
        /\ leases'[p].cid = nextID' - 1
        /\ \A q \in Principals : q # p => leases'[q] = leases[q]
    BY <1>2, <2>1, Made DEF CreateSucceeds, LInv
  <2>3. QED
    BY <2>2, NamedOne
<1>3. CASE CreateFails(p) \/ CreateCleanup(p)
  <2>1. Restore(p) /\ \/ Advance(p, "create", "idle")
                      \/ Advance(p, "cleanup", "idle")
    BY <1>3 DEF CreateFails, CreateCleanup
  <2>2. /\ leases'[p].state \in Unheld
        /\ \A q \in Principals : q # p => leases'[q] = leases[q]
    BY <2>1 DEF Restore, Put, LInv, IInv, TypeOK
  <2>3. QED
    BY <2>1, <2>2, NamedOne
<1>4. CASE CreateSaved(p) \/ CreateNotSaved(p)
  <2>1. /\ UNCHANGED leases
        /\ Advance(p, "save", "idle") \/ Advance(p, "save", "cleanup")
    BY <1>4 DEF CreateSaved, CreateNotSaved
  <2>2. phase[p] = "save" /\ leases[p].state = "Active"
    BY <2>1 DEF Advance, LInv, IInv, PhaseOK
  <2>3. leases[p].cid # 0
    BY <2>2 DEF LInv, Named
  <2>4. QED
    BY <2>1, <2>3, NamedOne
<1>5. QED
  BY <1>1, <1>2, <1>3, <1>4 DEF Creating

\* A release neither takes the name away nor gives another one.
LEMMA ReleaseNames ==
  ASSUME LInv, NEW p \in Principals,
         ReleaseStep(p) \/ \E t \in Trigger : ReleaseBegin(p, t)
  PROVE  /\ leases'[p].cid = leases[p].cid /\ leases[p].cid # 0
         /\ \A q \in Principals : q # p => leases'[q] = leases[q]
         /\ phase[p] \notin CreatePhase /\ leases[p].state \notin Unheld
<1>1. phase[p] \in ReleasePhase \/ (phase[p] = "idle" /\ leases[p].state = "Active")
  BY DEF ReleaseStep, ReleaseDrain, ReleaseStop, ReleaseCommit, ReleaseRollback, ReleaseBegin,
     Releasable, Advance
<1>2. leases[p].state \notin Unheld
  BY <1>1 DEF LInv, IInv, PhaseOK
<1>3. leases[p].cid # 0
  BY <1>1, <1>2 DEF LInv, Named
<1>4. \/ leases' = leases
      \/ \E next \in ReleaseState : Put(p, Transition(leases[p], next))
      \/ \E t \in Trigger : Put(p, Release(leases[p], t))
      \/ Put(p, Unrelease(leases[p]))
  BY DEF ReleaseStep, ReleaseDrain, ReleaseStop, ReleaseCommit, ReleaseRollback, ReleaseBegin
<1>5. QED
  BY <1>1, <1>2, <1>3, <1>4, CidStays DEF Put, LInv, IInv, TypeOK

LEMMA NamedReleasing ==
  ASSUME LInv, NEW p \in Principals,
         ReleaseStep(p) \/ \E t \in Trigger : ReleaseBegin(p, t)
  PROVE  Named'
<1>1. \E from \in {"idle"} \union ReleasePhase, to \in {"idle"} \union ReleasePhase :
         Advance(p, from, to) /\ (from # "idle" \/ ~Locked)
  BY DEF ReleaseStep, ReleaseDrain, ReleaseStop, ReleaseCommit, ReleaseRollback, ReleaseBegin
<1>2. QED
  BY <1>1, ReleaseNames, NamedOne

LEMMA NamedQuiet ==
  ASSUME LInv, UNCHANGED <<leases, phase, nextID>>
  PROVE  Named'
BY DEF LInv, Named

LEMMA LInvariant == /\ Init => LInv
                    /\ LInv /\ [Next]_vars => LInv'
<1>1. Init => LInv
  BY InitInv DEF Init, LInv, Named, NoLeases, NoLease
<1>2. ASSUME LInv, [Next]_vars PROVE LInv'
  <2>1. IInv'
    BY <1>2, NextInv DEF LInv
  <2>2. ASSUME NEW p \in Principals, Creating(p) PROVE Named'
    BY <1>2, <2>2, NamedCreating
  <2>3. ASSUME NEW p \in Principals, ManualRelease(p) \/ ReleaseStep(p) PROVE Named'
    BY <1>2, <2>3, NamedReleasing DEF ManualRelease
  <2>4. ASSUME NEW t \in Sweeper, NEW p \in Principals, SweepRelease(t, p) PROVE Named'
    BY <1>2, <2>4, NamedReleasing DEF SweepRelease
  <2>5. CASE \/ \E p \in Principals : ContainerExits(p)
             \/ \E t \in Sweeper : \/ SweepStart(t)
                                   \/ \E p \in Principals : SweepSkip(t, p) \/ SweepStale(t, p)
             \/ SaveOther \/ Tick \/ UNCHANGED vars
    <3>1. UNCHANGED <<leases, phase, nextID>>
      BY <2>5 DEF ContainerExits, SweepStart, SweepSkip, SweepStale, SaveOther, Tick, vars, runtime
    <3>2. QED
      BY <1>2, <2>1, <3>1, NamedQuiet DEF LInv
  <2>6. QED
    BY <1>2, <2>1, <2>2, <2>3, <2>4, <2>5 DEF Next, Sweeping, LInv
<1>3. QED
  BY <1>1, <1>2

-----------------------------------------------------------------------------
(* Steps of the store as steps of AtomicLeases *)

\* With p alone in a create or release, only p's service may change.
LEMMA HeldOne ==
  ASSUME LInv, NEW p \in Principals, NEW from, NEW to,
         to \in {"idle"} \union CreatePhase \union ReleasePhase, Advance(p, from, to),
         from # "idle" \/ ~Locked,
         \A q \in Principals : q # p => leases'[q] = leases[q]
  PROVE  /\ heldService' = [heldService EXCEPT ![p] = heldService'[p]]
         /\ issuedService = IF from = "save" THEN nextID - 2 ELSE nextID - 1
         /\ issuedService' = IF to = "save" THEN nextID' - 2 ELSE nextID' - 1
<1>1. /\ phase[p] = from /\ phase'[p] = to
      /\ \A q \in Principals : q # p => phase[q] = "idle" /\ phase'[q] = "idle"
  BY AdvanceType DEF LInv, IInv, MutualExclusion, Locked
<1>2. \A q \in Principals : q # p => heldService'[q] = heldService[q]
  BY <1>1 DEF heldService
<1>3. QED
  BY <1>1, <1>2 DEF heldService, issuedService

LEMMA QuietHeld ==
  ASSUME UNCHANGED <<leases, phase, nextID>>
  PROVE  UNCHANGED <<heldService, issuedService>>
BY DEF heldService, issuedService

LEMMA NextIDType == LInv => nextID \in Nat /\ nextID # 0 /\ nextID <= MaxContainers + 1
BY StoreAssumption DEF LInv, IInv, TypeOK

LEMMA HeldEntry ==
  ASSUME NEW p \in Principals
  PROVE  /\ heldService[p] = IF phase[p] \in CreatePhase \/ leases[p].state \in Unheld
                             THEN 0 ELSE leases[p].cid
         /\ heldService'[p] = IF phase'[p] \in CreatePhase \/ leases'[p].state \in Unheld
                              THEN 0 ELSE leases'[p].cid
         /\ [heldService EXCEPT ![p] = heldService[p]] = heldService
BY DEF heldService

\* A create is atomic: its save gives the service out, a failure throws away
\* what was made, and its other steps are not seen.
LEMMA CreatingRefines ==
  ASSUME LInv, NEW p \in Principals, Creating(p)
  PROVE  [Atomic!Next]_(Atomic!vars)
<1>0. nextID \in Nat /\ nextID # 0 /\ nextID <= MaxContainers + 1 /\ MaxContainers \in Nat
  BY NextIDType, StoreAssumption
<1>1. CASE CreateBegin(p)
  <2>1. /\ Advance(p, "idle", "create") /\ ~Locked /\ UNCHANGED nextID
        /\ leases[p].state \in Unheld
        /\ \A q \in Principals : q # p => leases'[q] = leases[q]
    BY <1>1 DEF CreateBegin, Put, runtime, LInv, IInv, TypeOK
  <2>2. phase'[p] = "create"
    BY <2>1, AdvanceType DEF LInv, IInv
  <2>3. heldService[p] = 0 /\ heldService'[p] = 0
    BY <2>1, <2>2, HeldEntry
  <2>4. UNCHANGED <<heldService, issuedService>>
    BY <2>1, <2>3, HeldOne, HeldEntry
  <2>5. QED
    BY <2>4 DEF Atomic!vars
<1>2. CASE CreateSucceeds(p)
  <2>1. /\ Advance(p, "create", "save") /\ nextID' = nextID + 1
        /\ \A q \in Principals : q # p => leases'[q] = leases[q]
    BY <1>2, Made DEF CreateSucceeds, LInv
  <2>2. phase[p] = "create" /\ phase'[p] = "save"
    BY <2>1, AdvanceType DEF LInv, IInv
  <2>3. heldService[p] = 0 /\ heldService'[p] = 0
    BY <2>2, HeldEntry
  <2>4. UNCHANGED <<heldService, issuedService>>
    BY <1>0, <2>1, <2>3, HeldOne, HeldEntry
  <2>5. QED
    BY <2>4 DEF Atomic!vars
<1>3. CASE CreateFails(p)
  <2>1. /\ Advance(p, "create", "idle") /\ Restore(p)
        /\ nextID' = nextID \/ nextID' = nextID + 1
    BY <1>3, NextIDSteps DEF CreateFails, LInv
  <2>2. /\ leases'[p].state \in Unheld
        /\ \A q \in Principals : q # p => leases'[q] = leases[q]
    BY <2>1 DEF Restore, Put, LInv, IInv, TypeOK
  <2>3. phase[p] = "create" /\ nextID <= MaxContainers
    BY <2>1, AdvanceType DEF LInv, IInv, PhaseOK
  <2>4. heldService[p] = 0 /\ heldService'[p] = 0
    BY <2>2, <2>3, HeldEntry
  <2>5. /\ UNCHANGED heldService
        /\ issuedService = nextID - 1 /\ issuedService' = nextID' - 1
    BY <2>1, <2>2, <2>4, HeldOne, HeldEntry
  <2>6. CASE nextID' = nextID
    BY <2>5, <2>6 DEF Atomic!vars
  <2>7. CASE nextID' = nextID + 1
    BY <1>0, <2>3, <2>5, <2>7 DEF Atomic!Next, Atomic!Discard
  <2>8. QED
    BY <2>1, <2>6, <2>7
<1>4. CASE CreateSaved(p)
  <2>1. /\ Advance(p, "save", "idle") /\ UNCHANGED <<leases, nextID>>
    BY <1>4 DEF CreateSaved, runtime
  <2>2. /\ phase[p] = "save" /\ phase'[p] = "idle"
        /\ leases[p].state = "Active" /\ leases[p].cid = nextID - 1 /\ leases[p].cid # 0
    BY <2>1, AdvanceType DEF LInv, IInv, PhaseOK, Named
  <2>3. heldService[p] = 0 /\ heldService'[p] = nextID - 1
    BY <2>1, <2>2, HeldEntry
  <2>4. /\ heldService' = [heldService EXCEPT ![p] = nextID - 1]
        /\ issuedService = nextID - 2 /\ issuedService' = nextID - 1
    BY <2>1, <2>3, HeldOne
  <2>5. /\ nextID - 1 \in 1..MaxContainers /\ nextID - 1 > issuedService
    BY <1>0, <2>2, <2>4
  <2>6. Atomic!Acquire(p)
    BY <2>3, <2>4, <2>5 DEF Atomic!Acquire
  <2>7. QED
    BY <2>6 DEF Atomic!Next
<1>5. CASE CreateNotSaved(p)
  <2>1. /\ Advance(p, "save", "cleanup") /\ UNCHANGED <<leases, nextID>>
    BY <1>5 DEF CreateNotSaved, runtime
  <2>2. /\ phase[p] = "save" /\ phase'[p] = "cleanup"
        /\ leases[p].cid = nextID - 1 /\ leases[p].cid # 0
    BY <2>1, AdvanceType DEF LInv, IInv, PhaseOK, Named
  <2>3. heldService[p] = 0 /\ heldService'[p] = 0
    BY <2>2, HeldEntry
  <2>4. /\ UNCHANGED heldService
        /\ issuedService = nextID - 2 /\ issuedService' = nextID - 1
    BY <2>1, <2>3, HeldOne, HeldEntry
  <2>5. QED
    BY <1>0, <2>2, <2>4 DEF Atomic!Next, Atomic!Discard
<1>6. CASE CreateCleanup(p)
  <2>1. /\ Advance(p, "cleanup", "idle") /\ Restore(p) /\ UNCHANGED nextID
    BY <1>6 DEF CreateCleanup
  <2>2. /\ leases'[p].state \in Unheld
        /\ \A q \in Principals : q # p => leases'[q] = leases[q]
    BY <2>1 DEF Restore, Put, LInv, IInv, TypeOK
  <2>3. phase[p] = "cleanup"
    BY <2>1 DEF Advance
  <2>4. heldService[p] = 0 /\ heldService'[p] = 0
    BY <2>2, <2>3, HeldEntry
  <2>5. UNCHANGED <<heldService, issuedService>>
    BY <2>1, <2>2, <2>4, HeldOne, HeldEntry
  <2>6. QED
    BY <2>5 DEF Atomic!vars
<1>7. QED
  BY <1>1, <1>2, <1>3, <1>4, <1>5, <1>6 DEF Creating

\* Until its last step a release is not seen: p holds the service.
LEMMA ReleasingHolds ==
  ASSUME LInv, NEW p \in Principals,
         \/ \E t \in Trigger : ReleaseBegin(p, t)
         \/ \E ok \in BOOLEAN : ReleaseDrain(p, ok) \/ ReleaseStop(p, ok)
         \/ ReleaseRollback(p)
  PROVE  leases'[p].state \notin Unheld
<1>1. leases \in [Principals -> LeaseRecord] /\ leases[p] \in LeaseRecord
  BY DEF LInv, IInv, TypeOK
<1>2. leases[p].state \notin Unheld
  BY ReleaseNames DEF ReleaseStep
<1>3. CASE UNCHANGED leases
  BY <1>2, <1>3
<1>4. ASSUME NEW t \in Trigger, ReleaseBegin(p, t)
      PROVE  leases'[p].state \notin Unheld
  <2>1. leases'[p] = Release(leases[p], t) /\ leases[p].state = "Active"
    BY <1>1, <1>4 DEF ReleaseBegin, Releasable, Put
  <2>2. QED
    BY <1>1, <2>1, ReleaseType
<1>5. CASE ReleaseRollback(p)
  BY <1>1, <1>5, CidStays DEF ReleaseRollback, Put
<1>6. ASSUME NEW ok \in BOOLEAN, ReleaseDrain(p, ok)
      PROVE  leases'[p].state \notin Unheld
  <2>1. CASE ok
    <3>1. leases'[p] = Transition(leases[p], "Draining") /\ leases[p].state = "Closing"
      BY <1>1, <1>6, <2>1 DEF ReleaseDrain, Put, Advance, LInv, IInv, PhaseOK
    <3>2. QED
      BY <1>1, <3>1, TransitionType, TransitionsAllowed
  <2>2. CASE ~ok
    BY <1>3, <1>6, <2>2 DEF ReleaseDrain
  <2>3. QED
    BY <2>1, <2>2
<1>7. ASSUME NEW ok \in BOOLEAN, ReleaseStop(p, ok)
      PROVE  leases'[p].state \notin Unheld
  <2>1. CASE ok
    <3>1. leases'[p] = Transition(leases[p], "Stopped") /\ leases[p].state = "Draining"
      BY <1>1, <1>7, <2>1 DEF ReleaseStop, Put, Advance, LInv, IInv, PhaseOK
    <3>2. QED
      BY <1>1, <3>1, TransitionType, TransitionsAllowed
  <2>2. CASE ~ok
    BY <1>3, <1>7, <2>2 DEF ReleaseStop
  <2>3. QED
    BY <2>1, <2>2
<1>8. QED
  BY <1>4, <1>5, <1>6, <1>7

\* Every step of a release moves the phase of p to one outside CreatePhase.
LEMMA ReleasingAdvances ==
  ASSUME LInv, NEW p \in Principals,
         ReleaseStep(p) \/ \E t \in Trigger : ReleaseBegin(p, t),
         UNCHANGED nextID
  PROVE  /\ heldService' = [heldService EXCEPT ![p] = heldService'[p]]
         /\ UNCHANGED issuedService
         /\ phase'[p] \notin CreatePhase
<1>1. PICK from \in {"idle"} \union ReleasePhase, to \in {"idle"} \union ReleasePhase :
         Advance(p, from, to) /\ (from # "idle" \/ ~Locked)
  BY DEF ReleaseStep, ReleaseDrain, ReleaseStop, ReleaseCommit, ReleaseRollback, ReleaseBegin
<1>2. \A q \in Principals : q # p => leases'[q] = leases[q]
  BY ReleaseNames
<1>3. phase'[p] = to
  BY <1>1, AdvanceType DEF LInv, IInv
<1>4. QED
  BY <1>1, <1>2, <1>3, HeldOne

LEMMA ReleasingRefines ==
  ASSUME LInv, NEW p \in Principals, UNCHANGED nextID,
         ReleaseStep(p) \/ \E t \in Trigger : ReleaseBegin(p, t)
  PROVE  [Atomic!Next]_(Atomic!vars)
<1>1. heldService[p] = leases[p].cid /\ leases[p].cid # 0 /\ leases'[p].cid = leases[p].cid
  BY ReleaseNames, HeldEntry
<1>2. CASE ReleaseCommit(p)
  <2>1. phase[p] = "commit" /\ leases'[p] = Transition(leases[p], "Reclaimed")
    BY <1>2 DEF ReleaseCommit, Put, Advance, LInv, IInv, TypeOK
  <2>2. leases'[p].state = "Reclaimed"
    BY <2>1, TransitionType, TransitionsAllowed DEF LInv, IInv, TypeOK, PhaseOK
  <2>3. heldService'[p] = 0
    BY <2>2, HeldEntry
  <2>4. Atomic!Release(p)
    BY <1>1, <2>3, ReleasingAdvances DEF Atomic!Release
  <2>5. QED
    BY <2>4 DEF Atomic!Next
<1>3. CASE ~ReleaseCommit(p)
  <2>1. leases'[p].state \notin Unheld
    BY <1>3, ReleasingHolds DEF ReleaseStep
  <2>2. heldService'[p] = heldService[p]
    BY <1>1, <2>1, HeldEntry, ReleasingAdvances
  <2>3. QED
    BY <2>2, HeldEntry, ReleasingAdvances DEF Atomic!vars
<1>4. QED
  BY <1>2, <1>3

LEMMA NextRefines == LInv /\ [Next]_vars => [Atomic!Next]_(Atomic!vars)
<1> SUFFICES ASSUME LInv, [Next]_vars PROVE [Atomic!Next]_(Atomic!vars)
  OBVIOUS
<1>1. ASSUME NEW p \in Principals, Creating(p) PROVE [Atomic!Next]_(Atomic!vars)
  BY <1>1, CreatingRefines
<1>2. ASSUME NEW p \in Principals, ReleaseStep(p) PROVE [Atomic!Next]_(Atomic!vars)
  <2>1. UNCHANGED nextID
    BY <1>2 DEF ReleaseStep, ReleaseDrain, ReleaseStop, ReleaseCommit, ReleaseRollback, runtime
  <2>2. QED
    BY <1>2, <2>1, ReleasingRefines
<1>3. ASSUME NEW p \in Principals,
             ManualRelease(p) \/ \E t \in Sweeper : SweepRelease(t, p)
      PROVE  [Atomic!Next]_(Atomic!vars)
  <2>1. UNCHANGED nextID /\ \E t \in Trigger : ReleaseBegin(p, t)
    BY <1>3 DEF ManualRelease, SweepRelease, runtime
  <2>2. QED
    BY <2>1, ReleasingRefines
<1>4. CASE \/ \E p \in Principals : ContainerExits(p)
           \/ \E t \in Sweeper : \/ SweepStart(t)
                                 \/ \E p \in Principals : SweepSkip(t, p) \/ SweepStale(t, p)
           \/ SaveOther \/ Tick \/ UNCHANGED vars
  <2>1. UNCHANGED <<leases, phase, nextID>>
    BY <1>4 DEF ContainerExits, SweepStart, SweepSkip, SweepStale, SaveOther, Tick, vars, runtime
  <2>2. QED
    BY <2>1, QuietHeld DEF Atomic!vars
<1>5. QED
  BY <1>1, <1>2, <1>3, <1>4 DEF Next, Sweeping

LEMMA InitRefines == Init => Atomic!Init
BY DEF Init, Atomic!Init, heldService, issuedService, NoLeases, NoLease

\* The store's creates and releases, with all their failures and with the
\* callers that race for its mutex, are atomic acquisitions and releases of
\* one fresh service per student (CreateLeaseForPrincipal, ReleaseLeaseIf).
THEOREM Refines == Spec => AtomicSpec
<1>1. Spec => []LInv
  BY LInvariant, PTL DEF Spec
<1>2. QED
  BY <1>1, InitRefines, NextRefines, PTL DEF Spec, AtomicSpec, Atomic!Spec
=============================================================================
