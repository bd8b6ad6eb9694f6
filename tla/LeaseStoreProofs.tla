-------------------------- MODULE LeaseStoreProofs --------------------------
(***************************************************************************)
(* Proofs about LeaseStore, for every set of students, every combination   *)
(* of faults and every value of the bounds.                                *)
(***************************************************************************)
EXTENDS LeaseStore, TLAPS

USE DEF ReleaseState, Trigger, Sweeper, CreatePhase, ReleasePhase, Unheld

\* The mutex serialises creates and releases: two are never in progress.
MutualExclusion ==
  \A p, q \in Principals : phase[p] # "idle" /\ phase[q] # "idle" => p = q

\* What the lease of p looks like at each step of a create or release.
PhaseOK(p) ==
  /\ phase[p] = "idle" => Settled(leases[p])
  /\ phase[p] = "create" => nextID <= MaxContainers
  /\ phase[p] \in {"save", "cleanup"} => leases[p].state = "Active" /\ leases[p].by = "none"
  /\ phase[p] \in ReleasePhase => leases[p].by \in Trigger
  /\ phase[p] = "drain" => leases[p].state = "Closing"
  /\ phase[p] = "stop" => leases[p].state = "Draining"
  /\ phase[p] = "commit" => leases[p].state = "Stopped"
  /\ phase[p] = "rollback" => leases[p].state \in {"Closing", "Draining"}
  /\ Settled(prior[p]) /\ Settled(disk[p])

IInv == TypeOK /\ MutualExclusion /\ \A p \in Principals : PhaseOK(p)

-----------------------------------------------------------------------------
(* The pure operators return what their types say. *)

LEMMA NoLeaseType == NoLease \in LeaseRecord /\ Settled(NoLease) /\ NoLease.state \in Unheld
BY DEF NoLease, LeaseRecord, Settled

LEMMA NewLeaseType ==
  ASSUME NEW c \in Nat, NEW t \in Nat
  PROVE  /\ NewLease(c, t) \in LeaseRecord
         /\ NewLease(c, t).state = "Active" /\ NewLease(c, t).by = "none"
BY LeaseAssumption DEF NewLease, LeaseRecord

\* The three transitions that a release makes, and the undoing of it.
LEMMA TransitionType ==
  ASSUME NEW l \in LeaseRecord, NEW next \in ReleaseState
  PROVE  /\ Transition(l, next) \in LeaseRecord
         /\ Transition(l, next).by = l.by
         /\ Transition(l, next).deadline = l.deadline
         /\ Transition(l, next).lastSeen = l.lastSeen
         /\ Transition(l, next).channels = l.channels
         /\ CanTransition(l.state, next) => Transition(l, next).state = next
BY DEF Transition, LeaseRecord

LEMMA TransitionsAllowed ==
  /\ CanTransition("Active", "Closing") /\ CanTransition("Closing", "Draining")
  /\ CanTransition("Draining", "Stopped") /\ CanTransition("Stopped", "Reclaimed")
BY DEF CanTransition, validTransitions

LEMMA ReleaseType ==
  ASSUME NEW l \in LeaseRecord, l.state = "Active", NEW t \in Trigger
  PROVE  /\ Release(l, t) \in LeaseRecord
         /\ Release(l, t).state = "Closing" /\ Release(l, t).by = t
         /\ Release(l, t).deadline = l.deadline
         /\ Release(l, t).lastSeen = l.lastSeen
         /\ Release(l, t).channels = l.channels
BY TransitionsAllowed DEF Release, Transition, LeaseRecord

LEMMA UnreleaseType ==
  ASSUME NEW l \in LeaseRecord
  PROVE  Unrelease(l) \in LeaseRecord /\ Settled(Unrelease(l))
BY DEF Unrelease, LeaseRecord, Settled

LEMMA ExitedType ==
  ASSUME NEW c \in Container
  PROVE  Exited(c) \in Container
BY DEF Exited, Container

LEMMA FailingType ==
  ASSUME NEW fault, NEW fs, NEW cs, NEW o \in Failing(fault, fs, cs)
  PROVE  ~o.ok /\ o.container \in cs
BY DEF Failing, Outcome

LEMMA CreateContainerType ==
  ASSUME NEW c \in Container, NEW i \in Nat, NEW w \in Nat, NEW fs,
         NEW o \in CreateContainer(c, i, w, fs)
  PROVE  /\ o.container \in Container
         /\ o.ok => o.container.id = i
<1> DEFINE made == [id |-> i, running |-> TRUE, problem |-> w]
<1>1. /\ made \in Container /\ Exited(made) \in Container /\ NoContainer \in Container
      /\ made.id = i
  <2>1. made \in Container /\ made.id = i /\ NoContainer \in Container
    BY DEF Container, NoContainer
  <2>2. QED
    BY <2>1, ExitedType
<1> HIDE DEF made
<1>2. CASE o \in {Outcome(FALSE, c), Outcome(TRUE, made)}
  BY <1>1, <1>2 DEF Outcome
<1>3. CASE \/ o \in Failing("create", fs, {NoContainer})
           \/ o \in Failing("leftover", fs, {made, Exited(made)})
  BY <1>1, <1>3, FailingType
<1>4. QED
  BY <1>2, <1>3 DEF CreateContainer, made

LEMMA StopContainerType ==
  ASSUME NEW c \in Container, NEW i \in Nat, NEW fs,
         NEW o \in StopAndRemoveContainer(c, i, fs)
  PROVE  o.container \in Container
<1>1. Exited(c) \in Container /\ NoContainer \in Container
  BY ExitedType DEF Container, NoContainer
<1>2. CASE o \in {Outcome(FALSE, c), Outcome(TRUE, NoContainer)}
  BY <1>1, <1>2 DEF Outcome
<1>3. CASE \/ o \in Failing("stop", fs, {c})
           \/ o \in Failing("stopGone", fs, {NoContainer})
           \/ o \in Failing("remove", fs, {Exited(c)})
  BY <1>1, <1>3, FailingType
<1>4. QED
  BY <1>2, <1>3 DEF StopAndRemoveContainer

-----------------------------------------------------------------------------
(* Steps of a create or release: they hold, or take, the mutex.            *)

LEMMA AdvanceType ==
  ASSUME TypeOK, NEW p \in Principals, NEW from, NEW to,
         to \in {"idle"} \union CreatePhase \union ReleasePhase, Advance(p, from, to)
  PROVE  /\ phase' \in [Principals -> {"idle"} \union CreatePhase \union ReleasePhase]
         /\ phase[p] = from /\ phase'[p] = to
         /\ \A q \in Principals : q # p => phase'[q] = phase[q]
BY DEF TypeOK, Advance

\* A step that concerns the lease of p alone keeps everyone else's invariant.
LEMMA OnlyOne ==
  ASSUME IInv, NEW p \in Principals, NEW from, NEW to,
         to \in {"idle"} \union CreatePhase \union ReleasePhase, Advance(p, from, to),
         from # "idle" \/ ~Locked,
         \A q \in Principals : q # p => leases'[q] = leases[q] /\ prior'[q] = prior[q],
         \A q \in Principals : Settled(disk'[q]),
         PhaseOK(p)'
  PROVE  MutualExclusion' /\ \A q \in Principals : PhaseOK(q)'
<1>1. \A q \in Principals : q # p => phase[q] = "idle" /\ phase'[q] = "idle"
  BY AdvanceType DEF IInv, MutualExclusion, Locked
<1>2. MutualExclusion'
  BY <1>1 DEF MutualExclusion
<1>3. ASSUME NEW q \in Principals, q # p
      PROVE  PhaseOK(q)'
  BY <1>1, <1>3 DEF IInv, PhaseOK
<1>4. QED
  BY <1>2, <1>3

\* A snapshot is written only when every lease in memory is settled.
LEMMA SaveSettles ==
  ASSUME NEW ok \in BOOLEAN, Save(ok),
         disk \in [Principals -> LeaseRecord], leases' \in [Principals -> LeaseRecord],
         \A q \in Principals : Settled(disk[q]) /\ Settled(leases'[q])
  PROVE  /\ disk' \in [Principals -> LeaseRecord]
         /\ \A q \in Principals : Settled(disk'[q])
BY DEF Save

LEMMA CreateBeginInv ==
  ASSUME IInv, NEW p \in Principals, CreateBegin(p)
  PROVE  IInv'
<1> DEFINE placeholder == [NoLease EXCEPT !.state = "Closing"]
<1>1. placeholder \in LeaseRecord
  BY DEF NoLease, LeaseRecord
<1>2. TypeOK'
  BY <1>1, AdvanceType DEF IInv, TypeOK, CreateBegin, Put, runtime
<1>3. PhaseOK(p)'
  BY AdvanceType DEF IInv, TypeOK, PhaseOK, CreateBegin, runtime, Locked
<1>4. MutualExclusion' /\ \A q \in Principals : PhaseOK(q)'
  BY <1>3, OnlyOne DEF IInv, TypeOK, PhaseOK, CreateBegin, Put
<1>5. QED
  BY <1>2, <1>4 DEF IInv

\* What both outcomes of the runtime's answer to a create share.
LEMMA CreateServiceType ==
  ASSUME IInv, NEW p \in Principals, phase[p] = "create",
         NEW w \in 1..MaxProblems, NEW o \in CreateAnswers(p, w), CreateService(p, w, o)
  PROVE  /\ containers' \in [Principals -> Container]
         /\ homes' \in [Principals -> Nat]
         /\ nextID' \in 1..(MaxContainers + 1)
         /\ o.ok => o.container.id \in Nat
<1>1. o.container \in Container
  BY CreateContainerType DEF IInv, TypeOK, CreateAnswers
<1>2. nextID <= MaxContainers
  BY DEF IInv, PhaseOK
<1>3. containers' \in [Principals -> Container] /\ homes' \in [Principals -> Nat]
  BY <1>1 DEF IInv, TypeOK, CreateService
<1>4. nextID' \in 1..(MaxContainers + 1)
  BY <1>2, StoreAssumption DEF IInv, TypeOK, CreateService
<1>5. QED
  BY <1>1, <1>3, <1>4 DEF Container

LEMMA CreateSucceedsInv ==
  ASSUME IInv, NEW p \in Principals, CreateSucceeds(p)
  PROVE  IInv'
<1>0. PICK w \in 1..MaxProblems : \E o \in CreateAnswers(p, w) :
         /\ o.ok
         /\ CreateService(p, w, o)
         /\ Put(p, NewLease(o.container.id, now))
  BY DEF CreateSucceeds
<1>1. PICK o \in CreateAnswers(p, w) : /\ o.ok
                                      /\ CreateService(p, w, o)
                                      /\ Put(p, NewLease(o.container.id, now))
  BY <1>0
<1>2. /\ Advance(p, "create", "save") /\ phase[p] = "create" /\ phase'[p] = "save"
      /\ UNCHANGED <<disk, prior, sweep, now>>
  BY AdvanceType DEF CreateSucceeds, IInv
<1> DEFINE l == NewLease(o.container.id, now)
<1>3. l \in LeaseRecord /\ l.state = "Active" /\ l.by = "none"
  BY <1>1, <1>2, CreateServiceType, NewLeaseType DEF IInv, TypeOK
<1> HIDE DEF l
<1>4. leases' = [leases EXCEPT ![p] = l]
  BY <1>1 DEF Put, l
<1>5. TypeOK'
  BY <1>1, <1>2, <1>3, <1>4, CreateServiceType, AdvanceType DEF IInv, TypeOK
<1>6. PhaseOK(p)'
  BY <1>2, <1>3, <1>4 DEF IInv, TypeOK, PhaseOK
<1>7. MutualExclusion' /\ \A q \in Principals : PhaseOK(q)'
  BY <1>2, <1>4, <1>6, OnlyOne DEF IInv, TypeOK, PhaseOK
<1>8. QED
  BY <1>5, <1>7 DEF IInv

\* Restoring the prior lease settles p.
LEMMA RestoreSettles ==
  ASSUME IInv, NEW p \in Principals, Restore(p)
  PROVE  /\ leases' \in [Principals -> LeaseRecord]
         /\ prior' \in [Principals -> {l \in LeaseRecord : l.state \in Unheld}]
         /\ Settled(leases'[p]) /\ Settled(prior'[p])
         /\ \A q \in Principals : q # p => leases'[q] = leases[q] /\ prior'[q] = prior[q]
BY NoLeaseType DEF IInv, TypeOK, PhaseOK, Restore, Put

LEMMA CreateFailsInv ==
  ASSUME IInv, NEW p \in Principals, CreateFails(p)
  PROVE  IInv'
<1>0. PICK w \in 1..MaxProblems : \E o \in CreateAnswers(p, w) : CreateService(p, w, o)
  BY DEF CreateFails
<1>1. PICK o \in CreateAnswers(p, w) : CreateService(p, w, o)
  BY <1>0
<1>2. /\ Advance(p, "create", "idle") /\ phase[p] = "create" /\ phase'[p] = "idle"
      /\ Restore(p) /\ UNCHANGED <<disk, sweep, now>>
  BY AdvanceType DEF CreateFails, IInv
<1>3. TypeOK'
  BY <1>1, <1>2, CreateServiceType, RestoreSettles, AdvanceType DEF IInv, TypeOK
<1>4. PhaseOK(p)'
  BY <1>2, RestoreSettles DEF IInv, PhaseOK
<1>5. MutualExclusion' /\ \A q \in Principals : PhaseOK(q)'
  BY <1>2, <1>4, RestoreSettles, OnlyOne DEF IInv, PhaseOK
<1>6. QED
  BY <1>3, <1>5 DEF IInv

\* Everyone is settled when the only create or release in progress is.
LEMMA AllSettled ==
  ASSUME IInv, NEW p \in Principals, phase[p] # "idle", Settled(leases'[p]),
         \A q \in Principals : q # p => leases'[q] = leases[q]
  PROVE  \A q \in Principals : Settled(disk[q]) /\ Settled(leases'[q])
BY DEF IInv, MutualExclusion, PhaseOK

LEMMA CreateSavedInv ==
  ASSUME IInv, NEW p \in Principals, CreateSaved(p)
  PROVE  IInv'
<1>1. /\ Advance(p, "save", "idle") /\ phase[p] = "save" /\ phase'[p] = "idle"
      /\ prior' = [prior EXCEPT ![p] = NoLease] /\ Save(TRUE)
      /\ UNCHANGED <<leases, sweep, containers, homes, nextID, now>>
  BY AdvanceType DEF CreateSaved, IInv, runtime
<1>2. Settled(leases'[p])
  BY <1>1 DEF IInv, PhaseOK, Settled
<1>3. /\ disk' \in [Principals -> LeaseRecord]
      /\ \A q \in Principals : Settled(disk'[q])
  <2>1. \A q \in Principals : Settled(disk[q]) /\ Settled(leases'[q])
    BY <1>1, <1>2, AllSettled
  <2>2. QED
    BY <1>1, <2>1, SaveSettles DEF IInv, TypeOK
<1>4. TypeOK'
  BY <1>1, <1>3, AdvanceType, NoLeaseType DEF IInv, TypeOK
<1>5. PhaseOK(p)'
  BY <1>1, <1>2, <1>3, NoLeaseType DEF IInv, TypeOK, PhaseOK
<1>6. MutualExclusion' /\ \A q \in Principals : PhaseOK(q)'
  BY <1>1, <1>3, <1>5, OnlyOne DEF IInv, TypeOK
<1>7. QED
  BY <1>4, <1>6 DEF IInv

LEMMA CreateNotSavedInv ==
  ASSUME IInv, NEW p \in Principals, CreateNotSaved(p)
  PROVE  IInv'
<1>1. /\ Advance(p, "save", "cleanup") /\ phase[p] = "save" /\ phase'[p] = "cleanup"
      /\ UNCHANGED <<leases, disk, prior, sweep, containers, homes, nextID, now>>
  BY AdvanceType DEF CreateNotSaved, Save, IInv, runtime
<1>2. TypeOK'
  BY <1>1, AdvanceType DEF IInv, TypeOK
<1>3. PhaseOK(p)'
  BY <1>1 DEF IInv, PhaseOK
<1>4. MutualExclusion' /\ \A q \in Principals : PhaseOK(q)'
  BY <1>1, <1>3, OnlyOne DEF IInv, PhaseOK
<1>5. QED
  BY <1>2, <1>4 DEF IInv

LEMMA StopAnswersType ==
  ASSUME TypeOK, NEW p \in Principals, NEW o \in StopAnswers(p),
         containers' = [containers EXCEPT ![p] = o.container]
  PROVE  containers' \in [Principals -> Container]
<1>1. leases[p].cid \in Nat /\ containers[p] \in Container
  BY DEF TypeOK, LeaseRecord
<1>2. o.container \in Container
  BY <1>1, StopContainerType DEF StopAnswers
<1>3. QED
  BY <1>2 DEF TypeOK

LEMMA CreateCleanupInv ==
  ASSUME IInv, NEW p \in Principals, CreateCleanup(p)
  PROVE  IInv'
<1>1. /\ Advance(p, "cleanup", "idle") /\ phase[p] = "cleanup" /\ phase'[p] = "idle"
      /\ Restore(p) /\ UNCHANGED <<disk, sweep, homes, nextID, now>>
  BY AdvanceType DEF CreateCleanup, IInv
<1>2. containers' \in [Principals -> Container]
  BY StopAnswersType DEF CreateCleanup, IInv
<1>3. TypeOK'
  BY <1>1, <1>2, RestoreSettles, AdvanceType DEF IInv, TypeOK
<1>4. PhaseOK(p)'
  BY <1>1, RestoreSettles DEF IInv, PhaseOK
<1>5. MutualExclusion' /\ \A q \in Principals : PhaseOK(q)'
  BY <1>1, <1>4, RestoreSettles, OnlyOne DEF IInv, PhaseOK
<1>6. QED
  BY <1>3, <1>5 DEF IInv

\* Whoever asks for the release: manual, or a loop that drops its copy.
LEMMA ReleaseBeginInv ==
  ASSUME IInv, NEW p \in Principals, NEW t \in Trigger, ReleaseBegin(p, t),
         sweep' \in [Sweeper -> [Principals -> LeaseRecord]],
         UNCHANGED <<disk, prior, runtime, now>>
  PROVE  IInv'
<1>1. /\ Advance(p, "idle", "drain") /\ phase'[p] = "drain" /\ ~Locked
      /\ leases' = [leases EXCEPT ![p] = Release(leases[p], t)]
      /\ UNCHANGED <<disk, prior, containers, homes, nextID, now>>
  BY AdvanceType DEF ReleaseBegin, Put, IInv, runtime
<1>2. /\ Release(leases[p], t) \in LeaseRecord
      /\ Release(leases[p], t).state = "Closing" /\ Release(leases[p], t).by = t
  BY ReleaseType DEF ReleaseBegin, Releasable, IInv, TypeOK
<1>3. TypeOK'
  BY <1>1, <1>2, AdvanceType DEF IInv, TypeOK
<1>4. PhaseOK(p)'
  BY <1>1, <1>2 DEF IInv, TypeOK, PhaseOK
<1>5. MutualExclusion' /\ \A q \in Principals : PhaseOK(q)'
  BY <1>1, <1>4, OnlyOne DEF IInv, TypeOK, PhaseOK
<1>6. QED
  BY <1>3, <1>5 DEF IInv

LEMMA ReleaseDrainInv ==
  ASSUME IInv, NEW p \in Principals, NEW ok \in BOOLEAN, ReleaseDrain(p, ok)
  PROVE  IInv'
<1> DEFINE l == Transition(leases[p], "Draining")
<1>1. UNCHANGED <<disk, prior, sweep, containers, homes, nextID, now>>
  BY DEF ReleaseDrain, runtime
<1>2. CASE ok
  <2>1. /\ Advance(p, "drain", "stop") /\ phase[p] = "drain" /\ phase'[p] = "stop"
        /\ leases' = [leases EXCEPT ![p] = l]
    BY <1>2, AdvanceType DEF ReleaseDrain, Put, IInv
  <2>2. l \in LeaseRecord /\ l.state = "Draining" /\ l.by \in Trigger
    BY <2>1, TransitionType, TransitionsAllowed DEF IInv, TypeOK, PhaseOK
  <2> HIDE DEF l
  <2>3. TypeOK'
    BY <1>1, <2>1, <2>2, AdvanceType DEF IInv, TypeOK
  <2>4. PhaseOK(p)'
    BY <1>1, <2>1, <2>2 DEF IInv, TypeOK, PhaseOK
  <2>5. MutualExclusion' /\ \A q \in Principals : PhaseOK(q)'
    BY <1>1, <2>1, <2>4, OnlyOne DEF IInv, TypeOK, PhaseOK
  <2>6. QED
    BY <2>3, <2>5 DEF IInv
<1>3. CASE ~ok
  <2>1. /\ Advance(p, "drain", "rollback") /\ phase[p] = "drain" /\ phase'[p] = "rollback"
        /\ UNCHANGED leases
    BY <1>3, AdvanceType DEF ReleaseDrain, IInv
  <2>2. TypeOK'
    BY <1>1, <2>1, AdvanceType DEF IInv, TypeOK
  <2>3. PhaseOK(p)'
    BY <1>1, <2>1 DEF IInv, PhaseOK
  <2>4. MutualExclusion' /\ \A q \in Principals : PhaseOK(q)'
    BY <1>1, <2>1, <2>3, OnlyOne DEF IInv, PhaseOK
  <2>5. QED
    BY <2>2, <2>4 DEF IInv
<1>4. QED
  BY <1>2, <1>3

LEMMA ReleaseStopInv ==
  ASSUME IInv, NEW p \in Principals, NEW ok \in BOOLEAN, ReleaseStop(p, ok)
  PROVE  IInv'
<1> DEFINE l == Transition(leases[p], "Stopped")
<1>1. UNCHANGED <<disk, prior, sweep, homes, nextID, now>>
  BY DEF ReleaseStop
<1>2. containers' \in [Principals -> Container]
  BY StopAnswersType DEF ReleaseStop, IInv
<1>3. CASE ok
  <2>1. /\ Advance(p, "stop", "commit") /\ phase[p] = "stop" /\ phase'[p] = "commit"
        /\ leases' = [leases EXCEPT ![p] = l]
    BY <1>3, AdvanceType DEF ReleaseStop, Put, IInv
  <2>2. l \in LeaseRecord /\ l.state = "Stopped" /\ l.by \in Trigger
    BY <2>1, TransitionType, TransitionsAllowed DEF IInv, TypeOK, PhaseOK
  <2> HIDE DEF l
  <2>3. TypeOK'
    BY <1>1, <1>2, <2>1, <2>2, AdvanceType DEF IInv, TypeOK
  <2>4. PhaseOK(p)'
    BY <1>1, <2>1, <2>2 DEF IInv, TypeOK, PhaseOK
  <2>5. MutualExclusion' /\ \A q \in Principals : PhaseOK(q)'
    BY <1>1, <2>1, <2>4, OnlyOne DEF IInv, TypeOK, PhaseOK
  <2>6. QED
    BY <2>3, <2>5 DEF IInv
<1>4. CASE ~ok
  <2>1. /\ Advance(p, "stop", "rollback") /\ phase[p] = "stop" /\ phase'[p] = "rollback"
        /\ UNCHANGED leases
    BY <1>4, AdvanceType DEF ReleaseStop, IInv
  <2>2. TypeOK'
    BY <1>1, <1>2, <2>1, AdvanceType DEF IInv, TypeOK
  <2>3. PhaseOK(p)'
    BY <1>1, <2>1 DEF IInv, PhaseOK
  <2>4. MutualExclusion' /\ \A q \in Principals : PhaseOK(q)'
    BY <1>1, <2>1, <2>3, OnlyOne DEF IInv, PhaseOK
  <2>5. QED
    BY <2>2, <2>4 DEF IInv
<1>5. QED
  BY <1>3, <1>4

\* The last step of a release, one way or the other, with its save.
LEMMA ReleaseEndInv ==
  ASSUME IInv, NEW p \in Principals, NEW from, from # "idle", NEW l \in LeaseRecord,
         Settled(l), NEW ok \in BOOLEAN,
         Advance(p, from, "idle"), Put(p, l), Save(ok),
         UNCHANGED <<prior, sweep, runtime, now>>
  PROVE  IInv'
<1>1. /\ phase[p] # "idle" /\ phase'[p] = "idle"
      /\ leases' = [leases EXCEPT ![p] = l] /\ leases' \in [Principals -> LeaseRecord]
      /\ UNCHANGED <<prior, sweep, containers, homes, nextID, now>>
  BY AdvanceType DEF Put, IInv, TypeOK, runtime
<1>2. /\ disk' \in [Principals -> LeaseRecord]
      /\ \A q \in Principals : Settled(disk'[q])
  <2>1. \A q \in Principals : Settled(disk[q]) /\ Settled(leases'[q])
    BY <1>1, AllSettled DEF IInv, TypeOK
  <2>2. QED
    BY <1>1, <2>1, SaveSettles DEF IInv, TypeOK
<1>3. TypeOK'
  BY <1>1, <1>2, AdvanceType DEF IInv, TypeOK
<1>4. PhaseOK(p)'
  BY <1>1, <1>2 DEF IInv, TypeOK, PhaseOK
<1>5. MutualExclusion' /\ \A q \in Principals : PhaseOK(q)'
  BY <1>1, <1>2, <1>4, OnlyOne DEF IInv, TypeOK
<1>6. QED
  BY <1>3, <1>5 DEF IInv

LEMMA ReleaseCommitInv ==
  ASSUME IInv, NEW p \in Principals, ReleaseCommit(p)
  PROVE  IInv'
<1> DEFINE l == Transition(leases[p], "Reclaimed")
<1>1. phase[p] = "commit"
  BY DEF ReleaseCommit, Advance
<1>2. l \in LeaseRecord /\ Settled(l)
  BY <1>1, TransitionType, TransitionsAllowed DEF IInv, TypeOK, PhaseOK, Settled
<1>3. QED
  BY <1>2, ReleaseEndInv DEF ReleaseCommit

LEMMA ReleaseRollbackInv ==
  ASSUME IInv, NEW p \in Principals, ReleaseRollback(p)
  PROVE  IInv'
<1>1. Unrelease(leases[p]) \in LeaseRecord /\ Settled(Unrelease(leases[p]))
  BY UnreleaseType DEF IInv, TypeOK
<1>2. QED
  BY <1>1, ReleaseEndInv DEF ReleaseRollback

-----------------------------------------------------------------------------
(* Steps that leave leases, snapshot and mutex alone *)

LEMMA QuietInv ==
  ASSUME IInv, UNCHANGED <<leases, disk, phase, prior, nextID>>,
         sweep' \in [Sweeper -> [Principals -> LeaseRecord]],
         containers' \in [Principals -> Container],
         homes' = homes, now' \in Nat
  PROVE  IInv'
BY DEF IInv, TypeOK, MutualExclusion, PhaseOK

LEMMA SweptType ==
  ASSUME IInv, NEW t \in Sweeper, NEW p \in Principals, Swept(t, p)
  PROVE  sweep' \in [Sweeper -> [Principals -> LeaseRecord]]
BY NoLeaseType DEF IInv, TypeOK, Swept

\* What a loop keeps of a lease is typed as a lease.
LEMMA CopyForType ==
  ASSUME NEW t, NEW l \in LeaseRecord
  PROVE  CopyFor(t, l) \in LeaseRecord
<1>1. l.deadline \in Nat /\ l.lastSeen \in Nat /\ l.channels \in Nat
  BY DEF LeaseRecord
<1>2. [NoLease EXCEPT !.state = "Active", !.deadline = l.deadline] \in LeaseRecord
  BY <1>1 DEF NoLease, LeaseRecord, ReleaseState
<1>3. [NoLease EXCEPT !.state = "Active", !.lastSeen = l.lastSeen, !.channels = l.channels]
        \in LeaseRecord
  BY <1>1 DEF NoLease, LeaseRecord, ReleaseState
<1>4. QED
  BY <1>2, <1>3, NoLeaseType DEF CopyFor

LEMMA SweepStartInv ==
  ASSUME IInv, NEW t \in Sweeper, SweepStart(t)
  PROVE  IInv'
<1>1. \A p \in Principals : CopyFor(t, leases[p]) \in LeaseRecord
  BY CopyForType DEF IInv, TypeOK
<1>2. [p \in Principals |-> CopyFor(t, leases[p])] \in [Principals -> LeaseRecord]
  BY <1>1
<1>3. sweep' \in [Sweeper -> [Principals -> LeaseRecord]]
  BY <1>2 DEF IInv, TypeOK, SweepStart
<1>4. QED
  BY <1>3, QuietInv DEF SweepStart, runtime, IInv, TypeOK

LEMMA SweepingInv ==
  ASSUME IInv, NEW t \in Sweeper, NEW p \in Principals, Sweeping(t, p)
  PROVE  IInv'
<1>1. sweep' \in [Sweeper -> [Principals -> LeaseRecord]]
  BY SweptType DEF Sweeping, SweepSkip, SweepRelease, SweepStale
<1>2. CASE SweepSkip(t, p)
  BY <1>1, <1>2, QuietInv DEF SweepSkip, runtime, IInv, TypeOK
<1>3. CASE SweepRelease(t, p)
  BY <1>1, <1>3, ReleaseBeginInv DEF SweepRelease
<1>4. CASE SweepStale(t, p)
  BY <1>1, <1>4, QuietInv DEF SweepStale, runtime, IInv, TypeOK
<1>5. QED
  BY <1>2, <1>3, <1>4 DEF Sweeping

LEMMA ContainerExitsInv ==
  ASSUME IInv, NEW p \in Principals, ContainerExits(p)
  PROVE  IInv'
<1>1. Exited(containers[p]) \in Container /\ NoContainer \in Container
  BY ExitedType DEF IInv, TypeOK, Container, NoContainer
<1>2. containers' \in [Principals -> Container]
  BY <1>1 DEF IInv, TypeOK, ContainerExits
<1>3. QED
  BY <1>2, QuietInv DEF ContainerExits, IInv, TypeOK

LEMMA TickInv ==
  ASSUME IInv, Tick
  PROVE  IInv'
BY QuietInv DEF Tick, runtime, IInv, TypeOK

\* With the mutex free every lease in memory is settled, so the snapshot is.
LEMMA SaveOtherInv ==
  ASSUME IInv, SaveOther
  PROVE  IInv'
<1>1. \A p \in Principals : Settled(leases[p])
  BY DEF SaveOther, Locked, IInv, PhaseOK
<1>2. disk' \in [Principals -> LeaseRecord] /\ \A p \in Principals : Settled(disk'[p])
  BY <1>1 DEF SaveOther, Save, IInv, TypeOK, PhaseOK
<1>3. QED
  BY <1>2 DEF SaveOther, runtime, IInv, TypeOK, MutualExclusion, PhaseOK

-----------------------------------------------------------------------------
(* The inductive invariant *)

LEMMA InitInv == Init => IInv
<1> SUFFICES ASSUME Init PROVE IInv
  OBVIOUS
<1>1. NoContainer \in Container
  BY DEF NoContainer, Container
<1>2. NoLeases \in [Principals -> LeaseRecord]
  BY NoLeaseType DEF NoLeases
<1>3. TypeOK
  BY <1>1, <1>2, NoLeaseType, StoreAssumption DEF Init, TypeOK, NoLeases
<1>4. MutualExclusion
  BY DEF Init, MutualExclusion
<1>5. \A p \in Principals : PhaseOK(p)
  BY NoLeaseType DEF Init, PhaseOK, NoLeases
<1>6. QED
  BY <1>3, <1>4, <1>5 DEF IInv

LEMMA NextInv == IInv /\ [Next]_vars => IInv'
<1> SUFFICES ASSUME IInv, [Next]_vars PROVE IInv'
  OBVIOUS
<1>1. ASSUME NEW p \in Principals, Creating(p) PROVE IInv'
  BY <1>1, CreateBeginInv, CreateSucceedsInv, CreateFailsInv, CreateSavedInv,
     CreateNotSavedInv, CreateCleanupInv DEF Creating
<1>2. ASSUME NEW p \in Principals, ManualRelease(p) PROVE IInv'
  BY <1>2, ReleaseBeginInv DEF ManualRelease, IInv, TypeOK
<1>3. ASSUME NEW p \in Principals, ReleaseStep(p) PROVE IInv'
  BY <1>3, ReleaseDrainInv, ReleaseStopInv, ReleaseCommitInv, ReleaseRollbackInv
     DEF ReleaseStep
<1>4. ASSUME NEW p \in Principals, ContainerExits(p) PROVE IInv'
  BY <1>4, ContainerExitsInv
<1>5. ASSUME NEW t \in Sweeper, SweepStart(t) PROVE IInv'
  BY <1>5, SweepStartInv
<1>6. ASSUME NEW t \in Sweeper, NEW p \in Principals, Sweeping(t, p) PROVE IInv'
  BY <1>6, SweepingInv
<1>7. CASE Tick
  BY <1>7, TickInv
<1>8. CASE UNCHANGED vars
  BY <1>8 DEF IInv, TypeOK, MutualExclusion, PhaseOK, vars
<1>9. CASE SaveOther
  BY <1>9, SaveOtherInv
<1>10. QED
  BY <1>1, <1>2, <1>3, <1>4, <1>5, <1>6, <1>7, <1>8, <1>9 DEF Next

\* IInv is an invariant of the store.
THEOREM Invariance == Spec => []IInv
BY InitInv, NextInv, PTL DEF Spec

\* Type correctness, for every set of students and every fault.
THEOREM TypeCorrect == Spec => []TypeOK
<1>1. IInv => TypeOK
  BY DEF IInv
<1>2. QED
  BY <1>1, Invariance, PTL

\* Creates and releases never overlap: Docker and the bastion are asked on
\* behalf of one student at a time (the store's mutex, held throughout).
LEMMA Serialised == Spec => []MutualExclusion
<1>1. IInv => MutualExclusion
  BY DEF IInv
<1>2. QED
  BY <1>1, Invariance, PTL

\* Whatever fails, a create or release ends with a settled lease, and no
\* snapshot ever holds a lease halfway through (FileStore's rollbacks).
THEOREM Settles == Spec => []LeasesSettled
<1>1. IInv => LeasesSettled
  BY DEF IInv, PhaseOK, LeasesSettled
<1>2. QED
  BY <1>1, Invariance, PTL

-----------------------------------------------------------------------------
(* A release in progress is justified *)

\* A condition that holds of a lease goes on to hold as time passes, as long
\* as nothing but the lease's state changes.
LEMMA DueStays ==
  ASSUME NEW l \in LeaseRecord, NEW m \in LeaseRecord, NEW t \in Nat, NEW u \in Nat,
         NEW trigger \in Trigger,
         m.deadline = l.deadline, m.lastSeen = l.lastSeen, m.channels = l.channels,
         t <= u, Due(trigger, l, t)
  PROVE  Due(trigger, m, u)
<1>1. l.deadline \in Nat /\ l.lastSeen \in Nat
  BY DEF LeaseRecord
<1>2. CASE trigger = "manual"
  BY <1>2 DEF Due
<1>3. CASE trigger = "max_life"
  <2>1. IsExpired(l, t)
    BY <1>3 DEF Due
  <2>2. IsExpired(m, u)
    BY <1>1, <2>1 DEF IsExpired
  <2>3. QED
    BY <1>3, <2>2 DEF Due
<1>4. CASE trigger = "idle"
  <2>1. IsIdle(l, t)
    BY <1>4 DEF Due
  <2>2. IsIdle(m, u)
    BY <1>1, <2>1, LeaseAssumption DEF IsIdle
  <2>3. QED
    BY <1>4, <2>2 DEF Due
<1>5. QED
  BY <1>2, <1>3, <1>4

\* Every step that a release in progress survives keeps what its trigger
\* looked at.
LEMMA ReleaseKeeps ==
  ASSUME IInv, IInv', [Next]_vars, NEW p \in Principals,
         phase[p] \in ReleasePhase, phase'[p] \in ReleasePhase
  PROVE  /\ leases'[p].by = leases[p].by
         /\ leases'[p].deadline = leases[p].deadline
         /\ leases'[p].lastSeen = leases[p].lastSeen
         /\ leases'[p].channels = leases[p].channels
         /\ now <= now'
<1>1. leases \in [Principals -> LeaseRecord] /\ now \in Nat
  BY DEF IInv, TypeOK
<1>2. CASE leases'[p] = leases[p] /\ (now' = now \/ now' = now + 1)
  BY <1>1, <1>2
<1>3. ASSUME NEW q \in Principals, ReleaseStep(q)
      PROVE  now' = now /\ (q # p => leases'[p] = leases[p])
  BY <1>1, <1>3 DEF ReleaseStep, ReleaseDrain, ReleaseStop, ReleaseCommit, ReleaseRollback, Put
<1>4. ASSUME NEW ok \in BOOLEAN, ReleaseDrain(p, ok) \/ ReleaseStop(p, ok)
      PROVE  /\ now' = now
             /\ \/ leases'[p] = leases[p]
                \/ \E next \in ReleaseState : leases'[p] = Transition(leases[p], next)
  BY <1>1, <1>4 DEF ReleaseDrain, ReleaseStop, Put
<1>5. CASE \E ok \in BOOLEAN : ReleaseDrain(p, ok) \/ ReleaseStop(p, ok)
  BY <1>1, <1>4, <1>5, TransitionType
<1>6. ~ReleaseCommit(p) /\ ~ReleaseRollback(p)
  BY AdvanceType DEF ReleaseCommit, ReleaseRollback, IInv
<1>7. ASSUME NEW q \in Principals, Creating(q)
      PROVE  now' = now /\ leases'[p] = leases[p]
  <2>1. q # p
    BY <1>7 DEF Creating, CreateBegin, CreateSucceeds, CreateFails, CreateSaved,
       CreateNotSaved, CreateCleanup, Advance
  <2>2. QED
    BY <1>1, <1>7, <2>1 DEF Creating, CreateBegin, CreateSucceeds, CreateFails, CreateSaved,
       CreateNotSaved, CreateCleanup, Put, Restore
<1>8. Locked
  BY DEF Locked
<1>9. \A q \in Principals, t \in Trigger : ~ReleaseBegin(q, t)
  BY <1>8 DEF ReleaseBegin
<1>10. CASE \/ \E q \in Principals : ContainerExits(q)
            \/ \E t \in Sweeper : SweepStart(t) \/ \E q \in Principals : Sweeping(t, q)
            \/ SaveOther \/ Tick \/ UNCHANGED vars
  BY <1>2, <1>9, <1>10 DEF ContainerExits, SweepStart, Sweeping, SweepSkip, SweepRelease,
     SweepStale, SaveOther, Tick, vars
<1>11. QED
  BY <1>2, <1>3, <1>5, <1>6, <1>7, <1>9, <1>10 DEF Next, ManualRelease, ReleaseStep

\* What a step that begins a release found.
LEMMA ReleaseBegins ==
  ASSUME IInv, [Next]_vars, NEW p \in Principals,
         phase[p] \notin ReleasePhase, phase'[p] \in ReleasePhase
  PROVE  \E t \in Trigger : ReleaseBegin(p, t) /\ now' = now
<1>1. ASSUME NEW q \in Principals, NEW from, NEW to, Advance(q, from, to),
             to \notin ReleasePhase \/ from \in ReleasePhase
      PROVE  FALSE
  BY <1>1 DEF Advance, IInv, TypeOK
<1>2. ASSUME NEW q \in Principals, NEW t \in Trigger, ReleaseBegin(q, t)
      PROVE  q = p
  BY <1>2 DEF ReleaseBegin, Advance, IInv, TypeOK
<1>3. ASSUME NEW q \in Principals PROVE ~Creating(q)
  BY <1>1, <1>3 DEF Creating, CreateBegin, CreateSucceeds, CreateFails, CreateSaved,
     CreateNotSaved, CreateCleanup
<1>4. ASSUME NEW q \in Principals PROVE ~ReleaseStep(q)
  BY <1>1, <1>4 DEF ReleaseStep, ReleaseDrain, ReleaseStop, ReleaseCommit, ReleaseRollback
<1>5. phase' # phase
  OBVIOUS
<1>6. \/ \E q \in Principals : ManualRelease(q)
      \/ \E t \in Sweeper, q \in Principals : SweepRelease(t, q)
  BY <1>3, <1>4, <1>5 DEF Next, ContainerExits, SweepStart, Sweeping, SweepSkip, SweepStale,
     SaveOther, Tick, vars
<1>7. QED
  BY <1>2, <1>6 DEF ManualRelease, SweepRelease

LEMMA JustifiedInit == Init => ReleaseJustified
BY DEF Init, ReleaseJustified

LEMMA JustifiedNext ==
  IInv /\ IInv' /\ ReleaseJustified /\ [Next]_vars => ReleaseJustified'
<1> SUFFICES ASSUME IInv, IInv', ReleaseJustified, [Next]_vars,
                    NEW p \in Principals, phase'[p] \in ReleasePhase
             PROVE  Due(leases'[p].by, leases'[p], now')
  BY DEF ReleaseJustified
<1>1. /\ leases[p] \in LeaseRecord /\ leases'[p] \in LeaseRecord
      /\ now \in Nat /\ now' \in Nat
  BY DEF IInv, TypeOK
<1>2. CASE phase[p] \in ReleasePhase
  <2>1. leases[p].by \in Trigger /\ Due(leases[p].by, leases[p], now)
    BY <1>2 DEF IInv, PhaseOK, ReleaseJustified
  <2>2. QED
    BY <1>1, <1>2, <2>1, ReleaseKeeps, DueStays
<1>3. CASE phase[p] \notin ReleasePhase
  <2>1. PICK t \in Trigger : ReleaseBegin(p, t) /\ now' = now
    BY <1>3, ReleaseBegins
  <2>2. /\ Due(t, leases[p], now) /\ leases[p].state = "Active"
        /\ leases'[p] = Release(leases[p], t)
    BY <2>1 DEF ReleaseBegin, Releasable, Put, IInv, TypeOK
  <2>3. QED
    BY <1>1, <2>1, <2>2, ReleaseType, DueStays
<1>4. QED
  BY <1>2, <1>3

\* A trigger releases only a lease that is past its deadline, or idle, at that
\* time: what its loop read from a copy is checked again on the lease itself.
THEOREM Justified == Spec => []ReleaseJustified
<1>1. Spec => [](IInv /\ ReleaseJustified)
  <2>1. Init => IInv /\ ReleaseJustified
    BY InitInv, JustifiedInit
  <2>2. IInv /\ ReleaseJustified /\ [Next]_vars => (IInv /\ ReleaseJustified)'
    BY NextInv, JustifiedNext
  <2>3. QED
    BY <2>1, <2>2, PTL DEF Spec
<1>2. QED
  BY <1>1, PTL
=============================================================================
