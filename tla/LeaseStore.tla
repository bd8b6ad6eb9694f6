----------------------------- MODULE LeaseStore -----------------------------
(***************************************************************************)
(* The lease store of pkg/controller (FileStore, and serializedStore when  *)
(* Persistent is FALSE) with its callers: the up and release requests, the *)
(* max-life and the idle trigger loops, and the container runtime.         *)
(*                                                                         *)
(* A create and a release are long: they call Docker and the bastion while *)
(* they hold the store's mutex.  phase[p] says how far the create or the   *)
(* release of principal p's lease has come; the mutex is held exactly when *)
(* some phase is not "idle".  Every other method of the store is a single  *)
(* step that needs the mutex to be free.                                   *)
(***************************************************************************)
EXTENDS Lease, Runtime, FiniteSets

CONSTANTS Principals,     \* the students
          Persistent,     \* whether the store writes a snapshot to disk
          Faults,         \* the failures that the environment may produce
          MaxProblems,    \* bound on the problems that students work on
          MaxTime,        \* bound on the clock
          MaxContainers   \* bound on the containers ever made

\* "drain": the bastion refuses or times out; "save": a snapshot cannot be
\* written; "exit", "lost": a container stops, or disappears, by itself;
\* "list": the containers cannot be listed (see Restart).
Fault == {"create", "leftover", "stop", "stopGone", "remove",
          "drain", "save", "exit", "lost", "list"}

ASSUME StoreAssumption == /\ Persistent \in BOOLEAN
                          /\ Faults \subseteq Fault
                          /\ MaxTime \in Nat \ {0} /\ MaxContainers \in Nat
                          /\ MaxProblems \in Nat

VARIABLES leases,       \* the map of leases in memory
          disk,         \* the map of leases in the last snapshot written
          phase,        \* how far the create or release of each lease has come
          prior,        \* the lease that a create in progress would restore
          sweep,        \* the copies each trigger loop has still to look at
          containers,   \* what each service container name stands for
          homes,        \* the problem in the labels of each home volume, 0 if none
          nextID,       \* the next container identifier
          now           \* the clock

runtime == <<containers, homes, nextID>>
vars == <<leases, disk, phase, prior, sweep, containers, homes, nextID, now>>

CreatePhase == {"create", "save", "cleanup"}
ReleasePhase == {"drain", "stop", "commit", "rollback"}

-----------------------------------------------------------------------------
NoLeases == [p \in Principals |-> NoLease]

Init == /\ leases = NoLeases
        /\ disk = NoLeases
        /\ phase = [p \in Principals |-> "idle"]
        /\ prior = NoLeases
        /\ sweep = [t \in Sweeper |-> NoLeases]
        /\ containers = [p \in Principals |-> NoContainer]
        /\ homes = [p \in Principals |-> 0]
        /\ nextID = 1
        /\ now = 1

Locked == \E p \in Principals : phase[p] # "idle"

\* unsafeSaveLocked with outcome ok, once memory holds leases'.
Save(ok) == /\ ok \/ (Persistent /\ "save" \in Faults)
            /\ disk' = IF ok /\ Persistent THEN leases' ELSE disk

Advance(p, from, to) == phase[p] = from /\ phase' = [phase EXCEPT ![p] = to]

Put(p, l) == leases' = [leases EXCEPT ![p] = l]

Restore(p) == /\ Put(p, prior[p])
              /\ prior' = [prior EXCEPT ![p] = NoLease]

-----------------------------------------------------------------------------
(* CreateLeaseForPrincipal *)

\* Mutated form: the conflict check is missing.
CreateBeginUnchecked(p) ==
  /\ ~Locked /\ nextID <= MaxContainers
  /\ Advance(p, "idle", "create")
  /\ prior' = [prior EXCEPT ![p] = leases[p]]
  /\ Put(p, [NoLease EXCEPT !.state = "Closing"])
  /\ UNCHANGED <<disk, sweep, runtime, now>>

\* Mutated form: the reservation is saved.
CreateBeginSaved(p) ==
  /\ ~Locked /\ nextID <= MaxContainers
  /\ leases[p].state \in {"Absent", "Reclaimed"}
  /\ Advance(p, "idle", "create")
  /\ prior' = [prior EXCEPT ![p] = leases[p]]
  /\ Put(p, [NoLease EXCEPT !.state = "Closing"])
  /\ Save(TRUE)
  /\ UNCHANGED <<sweep, runtime, now>>

\* The conflict check lets the principal pass, and the name is reserved.
CreateBegin(p) ==
  /\ ~Locked
  /\ nextID <= MaxContainers
  /\ leases[p].state \in {"Absent", "Reclaimed"}
  /\ Advance(p, "idle", "create")
  /\ prior' = [prior EXCEPT ![p] = leases[p]]
  /\ Put(p, [NoLease EXCEPT !.state = "Closing"])
  /\ UNCHANGED <<disk, sweep, runtime, now>>

\* The runtime's answer to a create for p and problem w.  The home volume is
\* created first, so a create may fail before it or after it; a volume that
\* exists keeps the labels it has.
CreateService(p, w, o) ==
  /\ containers' = [containers EXCEPT ![p] = o.container]
  /\ homes' \in {homes, [homes EXCEPT ![p] = IF @ = 0 THEN w ELSE @]}
  /\ o.container.id # 0 => homes'[p] # 0
  /\ nextID' = IF o.container.id = nextID THEN nextID + 1 ELSE nextID

CreateAnswers(p, w) == CreateContainer(containers[p], nextID, w, Faults)

CreateSucceeds(p) ==
  /\ Advance(p, "create", "save")
  /\ \E w \in 1..MaxProblems : \E o \in CreateAnswers(p, w) :
        /\ o.ok
        /\ CreateService(p, w, o)
        /\ Put(p, NewLease(o.container.id, now))
  /\ UNCHANGED <<disk, prior, sweep, now>>

CreateFails(p) ==
  /\ Advance(p, "create", "idle")
  /\ \E w \in 1..MaxProblems : \E o \in CreateAnswers(p, w) :
        ~o.ok /\ CreateService(p, w, o)
  /\ Restore(p)
  /\ UNCHANGED <<disk, sweep, now>>

CreateSaved(p) ==
  /\ Advance(p, "save", "idle")
  /\ prior' = [prior EXCEPT ![p] = NoLease]
  /\ UNCHANGED leases
  /\ Save(TRUE)
  /\ UNCHANGED <<sweep, runtime, now>>

\* Mutated form: the error of the save is ignored.
CreateNotSavedIgnored(p) ==
  /\ Advance(p, "save", "idle")
  /\ prior' = [prior EXCEPT ![p] = NoLease]
  /\ UNCHANGED leases
  /\ Save(FALSE)
  /\ UNCHANGED <<sweep, runtime, now>>

CreateNotSaved(p) ==
  /\ Advance(p, "save", "cleanup")
  /\ UNCHANGED leases
  /\ Save(FALSE)
  /\ UNCHANGED <<prior, sweep, runtime, now>>

StopAnswers(p) == StopAndRemoveContainer(containers[p], leases[p].cid, Faults)

\* Mutated form: the new lease stays in memory.
CreateCleanupOnly(p) ==
  /\ Advance(p, "cleanup", "idle")
  /\ \E o \in StopAnswers(p) : containers' = [containers EXCEPT ![p] = o.container]
  /\ prior' = [prior EXCEPT ![p] = NoLease]
  /\ UNCHANGED <<leases, disk, sweep, homes, nextID, now>>

\* The prior lease comes back whether or not the container could be stopped.
CreateCleanup(p) ==
  /\ Advance(p, "cleanup", "idle")
  /\ \E o \in StopAnswers(p) : containers' = [containers EXCEPT ![p] = o.container]
  /\ Restore(p)
  /\ UNCHANGED <<disk, sweep, homes, nextID, now>>

-----------------------------------------------------------------------------
(* ReleaseLeaseIf: Release, then the callbacks of ExecuteRelease *)

\* Mutated form: the trigger's condition is not checked again.
ReleasableUnchecked(p, t) == leases[p].state = "Active"

\* The condition is the one of the trigger, evaluated with the mutex held.
Releasable(p, t) == leases[p].state = "Active" /\ Due(t, leases[p], now)

ReleaseBegin(p, t) == /\ ~Locked
                      /\ Releasable(p, t)
                      /\ Advance(p, "idle", "drain")
                      /\ Put(p, Release(leases[p], t))

\* Mutated form: an error of the bastion does not end the release.
ReleaseDrainIgnored(p, ok) ==
  /\ Advance(p, "drain", "stop")
  /\ IF ok THEN Put(p, Transition(leases[p], "Draining"))
           ELSE "drain" \in Faults /\ UNCHANGED leases
  /\ UNCHANGED <<disk, prior, sweep, runtime, now>>

\* The callback before Draining: the bastion's answer.
ReleaseDrain(p, ok) ==
  /\ IF ok THEN /\ Advance(p, "drain", "stop")
                /\ Put(p, Transition(leases[p], "Draining"))
           ELSE /\ "drain" \in Faults
                /\ Advance(p, "drain", "rollback") /\ UNCHANGED leases
  /\ UNCHANGED <<disk, prior, sweep, runtime, now>>

\* Mutated forms: the runtime's error is ignored; its sense is inverted.
ReleaseStopIgnored(p, ok) ==
  /\ \E o \in StopAnswers(p) : /\ o.ok = ok
                               /\ containers' = [containers EXCEPT ![p] = o.container]
  /\ Advance(p, "stop", "commit")
  /\ Put(p, Transition(leases[p], "Stopped"))
  /\ UNCHANGED <<disk, prior, sweep, homes, nextID, now>>

ReleaseStopInverted(p, ok) ==
  /\ \E o \in StopAnswers(p) : /\ o.ok = ~ok
                               /\ containers' = [containers EXCEPT ![p] = o.container]
  /\ IF ok THEN /\ Advance(p, "stop", "commit")
                /\ Put(p, Transition(leases[p], "Stopped"))
           ELSE Advance(p, "stop", "rollback") /\ UNCHANGED leases
  /\ UNCHANGED <<disk, prior, sweep, homes, nextID, now>>

\* The callback before Stopped: the runtime's answer.
ReleaseStop(p, ok) ==
  /\ \E o \in StopAnswers(p) : /\ o.ok = ok
                               /\ containers' = [containers EXCEPT ![p] = o.container]
  /\ IF ok THEN /\ Advance(p, "stop", "commit")
                /\ Put(p, Transition(leases[p], "Stopped"))
           ELSE Advance(p, "stop", "rollback") /\ UNCHANGED leases
  /\ UNCHANGED <<disk, prior, sweep, homes, nextID, now>>

\* A snapshot that cannot be written leaves memory Reclaimed.
ReleaseCommit(p) ==
  /\ Advance(p, "commit", "idle")
  /\ Put(p, Transition(leases[p], "Reclaimed"))
  /\ \E ok \in BOOLEAN : Save(ok)
  /\ UNCHANGED <<prior, sweep, runtime, now>>

\* Mutated form: the rollback leaves the state where the release had come.
ReleaseRollbackNothing(p) ==
  /\ Advance(p, "rollback", "idle")
  /\ UNCHANGED leases
  /\ \E ok \in BOOLEAN : Save(ok)
  /\ UNCHANGED <<prior, sweep, runtime, now>>

ReleaseRollback(p) ==
  /\ Advance(p, "rollback", "idle")
  /\ Put(p, Unrelease(leases[p]))
  /\ \E ok \in BOOLEAN : Save(ok)
  /\ UNCHANGED <<prior, sweep, runtime, now>>

-----------------------------------------------------------------------------
(* The callers of ReleaseLeaseIf *)

\* handleRelease
ManualRelease(p) == /\ ReleaseBegin(p, "manual")
                    /\ UNCHANGED <<disk, prior, sweep, runtime, now>>

\* A loop is inside ReleaseLeaseIf; it looks at nothing else meanwhile.
Releasing(t) == \E p \in Principals : phase[p] \in ReleasePhase /\ leases[p].by = t

Swept(t, p) == sweep' = [sweep EXCEPT ![t][p] = NoLease]

\* What loop t will look at in a copy of lease l: nothing if it is not
\* Active, for the loop skips it, and else what its condition depends on.
CopyFor(t, l) ==
  IF l.state # "Active" THEN NoLease
  ELSE IF t = "max_life"
       THEN [NoLease EXCEPT !.state = "Active", !.deadline = l.deadline]
       ELSE [NoLease EXCEPT !.state = "Active", !.lastSeen = l.lastSeen, !.channels = l.channels]

\* AllLeases at a tick.
SweepStart(t) ==
  /\ ~Locked
  /\ sweep[t] = NoLeases
  /\ sweep' = [sweep EXCEPT ![t] = [p \in Principals |-> CopyFor(t, leases[p])]]
  /\ UNCHANGED <<leases, disk, phase, prior, runtime, now>>

\* The loop comes to the copy of p's lease, in the map's random order.
Reaches(t, p) == ~Releasing(t) /\ sweep[t][p].state = "Active"

\* The copy is not due: the store is not asked.
SweepSkip(t, p) ==
  /\ Reaches(t, p) /\ ~Due(t, sweep[t][p], now)
  /\ Swept(t, p)
  /\ UNCHANGED <<leases, disk, phase, prior, runtime, now>>

\* The copy is due, and so is the lease itself once the mutex is held.
SweepRelease(t, p) ==
  /\ Reaches(t, p) /\ Due(t, sweep[t][p], now)
  /\ ReleaseBegin(p, t)
  /\ Swept(t, p)
  /\ UNCHANGED <<disk, prior, runtime, now>>

\* The copy is due, but the lease has changed: "release not applicable".
SweepStale(t, p) ==
  /\ Reaches(t, p) /\ Due(t, sweep[t][p], now)
  /\ ~Locked /\ ~Releasable(p, t)
  /\ Swept(t, p)
  /\ UNCHANGED <<leases, disk, phase, prior, runtime, now>>

-----------------------------------------------------------------------------
(* The store's other methods, and the environment *)

\* Keys, submissions and the problem map are in the same snapshot, so a save
\* of any of them writes the leases too.
SaveOther == /\ ~Locked /\ Persistent /\ disk # leases
             /\ UNCHANGED leases
             /\ Save(TRUE)
             /\ UNCHANGED <<phase, prior, sweep, runtime, now>>

Tick == /\ now < MaxTime
        /\ now' = now + 1
        /\ UNCHANGED <<leases, disk, phase, prior, sweep, runtime>>

ContainerExits(p) ==
  /\ containers[p].running
  /\ \/ "exit" \in Faults /\ containers' = [containers EXCEPT ![p] = Exited(@)]
     \/ "lost" \in Faults /\ containers' = [containers EXCEPT ![p] = NoContainer]
  /\ UNCHANGED <<leases, disk, phase, prior, sweep, homes, nextID, now>>

-----------------------------------------------------------------------------
Creating(p) == \/ CreateBegin(p)
               \/ CreateSucceeds(p) \/ CreateFails(p)
               \/ CreateSaved(p) \/ CreateNotSaved(p)
               \/ CreateCleanup(p)

ReleaseStep(p) == \/ \E ok \in BOOLEAN : ReleaseDrain(p, ok) \/ ReleaseStop(p, ok)
                  \/ ReleaseCommit(p)
                  \/ ReleaseRollback(p)

Sweeping(t, p) == SweepSkip(t, p) \/ SweepRelease(t, p) \/ SweepStale(t, p)

Next == \/ \E p \in Principals : \/ Creating(p)
                                 \/ ManualRelease(p)
                                 \/ ReleaseStep(p)
                                 \/ ContainerExits(p)
        \/ \E t \in Sweeper : \/ SweepStart(t)
                              \/ \E p \in Principals : Sweeping(t, p)
        \/ SaveOther
        \/ Tick

Spec == Init /\ [][Next]_vars

(***************************************************************************)
(* Fairness.  Docker, the disk and the bastion answer every call (steps of *)
(* a create or release in progress), and answer well if they are asked     *)
(* again and again; the trigger loops tick for ever and go through their   *)
(* copies; sync.Mutex does not starve a loop that waits for it.            *)
(***************************************************************************)
Fairness ==
  /\ \A p \in Principals :
       /\ WF_vars(phase[p] # "idle" /\ (Creating(p) \/ ReleaseStep(p)))
       /\ SF_vars(ReleaseDrain(p, TRUE))
       /\ SF_vars(ReleaseStop(p, TRUE))
  /\ \A t \in Sweeper :
       /\ SF_vars(SweepStart(t))
       /\ \A p \in Principals : SF_vars(Sweeping(t, p))

FairSpec == Spec /\ Fairness

-----------------------------------------------------------------------------
(* Properties *)

Unheld == {"Absent", "Reclaimed"}

\* Type invariant.  A create keeps aside only a lease that it may replace,
\* identifiers are below the next one, and the bounds are respected.
TypeOK ==
  /\ leases \in [Principals -> LeaseRecord]
  /\ disk \in [Principals -> LeaseRecord]
  /\ phase \in [Principals -> {"idle"} \union CreatePhase \union ReleasePhase]
  /\ prior \in [Principals -> {l \in LeaseRecord : l.state \in Unheld}]
  /\ sweep \in [Sweeper -> [Principals -> LeaseRecord]]
  /\ containers \in [Principals -> Container]
  /\ homes \in [Principals -> Nat]
  /\ nextID \in 1..(MaxContainers + 1)
  /\ now \in Nat

\* Whatever failed on the way, a create or release that gives the mutex back
\* leaves a lease that is Active, with no trigger recorded, or Reclaimed, or
\* no lease at all, and no snapshot ever holds a lease halfway through
\* (the rollbacks of FileStore.ReleaseLeaseIf and CreateLeaseForPrincipal).
Settled(l) == \/ l = NoLease
              \/ l.state = "Active" /\ l.by = "none"
              \/ l.state = "Reclaimed" /\ l.by \in Trigger

LeasesSettled == \A p \in Principals : /\ phase[p] = "idle" => Settled(leases[p])
                                       /\ Settled(disk[p])

\* The snapshot may lag behind memory only by a release: a lease that a
\* student holds is on disk, whichever saves failed before or since.
SnapshotLags ==
  \A p \in Principals : phase[p] = "idle" /\ Persistent =>
     \/ disk[p] = leases[p]
     \/ /\ leases[p].state = "Reclaimed" /\ disk[p].state = "Active"
        /\ disk[p].cid = leases[p].cid

\* No container outlives the create or the release that should have removed
\* it.  Holds unless a removal fails for a container that no lease is left for.
NoOrphanContainer ==
  \A p \in Principals : phase[p] = "idle" /\ containers[p].id # 0 =>
     leases[p].state = "Active" /\ leases[p].cid = containers[p].id

\* "Active -- container is running" (pkg/lease/lease.go:18), whenever the
\* mutex is free and so the lease can be read.
ActiveIsRunning ==
  \A p \in Principals : ~Locked /\ leases[p].state = "Active" =>
     containers[p].id = leases[p].cid /\ containers[p].running

\* A release in progress is justified by its trigger: what made the loop ask
\* for it, in a copy read earlier, still holds of the lease that is released.
ReleaseJustified ==
  \A p \in Principals : phase[p] \in ReleasePhase => Due(leases[p].by, leases[p], now)

\* The deadline of a container is set once: no roster and no failed
\* release gives the container that a lease has a longer life.
LifetimeKept ==
  [][\A p \in Principals :
        leases[p].cid # 0 /\ leases'[p].cid = leases[p].cid
          => leases'[p].deadline = leases[p].deadline]_vars

\* A container is stopped only after the bastion has drained its channels,
\* unless its create is being undone: a failed drain never leads to a stop.
StopsAfterDrain ==
  [][\A p \in Principals : containers[p].running /\ ~containers'[p].running =>
        phase[p] = "cleanup" \/ leases[p].state = "Draining"]_vars

\* Creates and releases are atomic to everyone else: the service that p holds
\* counts from the moment its create can no longer fail to the last step of
\* its release, and a service that was given back is never held again.
heldService == [p \in Principals |->
                  IF phase[p] \in CreatePhase \/ leases[p].state \in Unheld
                  THEN 0 ELSE leases[p].cid]

issuedService == IF \E p \in Principals : phase[p] = "save"
                 THEN nextID - 2 ELSE nextID - 1

Atomic == INSTANCE AtomicLeases WITH Service <- 1..MaxContainers,
                                     held <- heldService,
                                     issued <- issuedService

AtomicSpec == Atomic!Spec

\* A lease that is past its deadline, or idle, is released in the end, however
\* often Docker or the bastion refuse, as long as a refusal changes nothing.
DueIsReleased ==
  \A t \in Sweeper, p \in Principals :
     (phase[p] = "idle" /\ leases[p].state = "Active" /\ Due(t, leases[p], now))
        ~> (leases[p].state = "Reclaimed")
=============================================================================
