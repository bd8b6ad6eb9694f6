--------------------------- MODULE RestartProofs ---------------------------
(***************************************************************************)
(* Proofs about Restart: what a crash at any step leaves behind, for every *)
(* set of students, any number of crashes and every value of the bounds.   *)
(***************************************************************************)
EXTENDS Restart, LeaseStoreAgreement

USE DEF ReleaseState, Trigger, Sweeper, CreatePhase, ReleasePhase, Unheld

\* Nothing is in progress while the controller is down or starting, and what
\* is to be reattached was listed.
RestartInv == /\ IInv
              /\ mode \in {"serving", "blind", "down", "reattach"}
              /\ ~Serving => ~Locked
              /\ found \in [Principals -> Container]
              /\ todo \subseteq {p \in Principals : found[p].id # 0}

\* The container of p is that of a lease that p holds, or of a create or a
\* release of p that has still to give it up.
Owned(p) == containers[p].id # 0 => /\ phase[p] \notin {"create", "commit"}
                                    /\ leases[p].state \notin Unheld
                                    /\ leases[p].cid = containers[p].id

\* During a restart: it was listed, and has its lease or will get one.
Listed(p) == containers[p].id # 0 => /\ found[p].id = containers[p].id
                                     /\ p \in todo \/ Owned(p)

OwnedInv == /\ mode = "serving" => \A p \in Principals : Owned(p)
            /\ mode = "reattach" => \A p \in Principals : Listed(p)

\* What was listed of a container is what it is still labelled with.
Labelled == mode = "reattach" =>
              \A p \in Principals : containers[p].id # 0 =>
                 found[p].problem = containers[p].problem

-----------------------------------------------------------------------------
(* The invariant of the store survives crashes *)

LEMMA RestartInvInit == RestartInit => RestartInv
<1>1. NoContainer \in Container
  BY DEF NoContainer, Container
<1>2. QED
  BY <1>1, InitInv DEF RestartInit, RestartInv, Serving, None

\* A step that empties memory or loads the snapshot into it.
LEMMA MemoryReplaced ==
  ASSUME IInv, leases' \in {NoLeases, disk},
         (phase' = phase /\ ~Locked) \/ phase' = [p \in Principals |-> "idle"],
         prior' = prior \/ prior' = NoLeases,
         sweep' = sweep \/ sweep' = [t \in Sweeper |-> NoLeases],
         UNCHANGED <<disk, runtime, now>>
  PROVE  IInv' /\ ~Locked'
<1>1. \A p \in Principals : phase'[p] = "idle"
  BY DEF Locked
<1>2. NoLeases \in [Principals -> LeaseRecord] /\ NoLeases \in [Principals -> {l \in LeaseRecord : l.state \in Unheld}]
  BY NoLeaseType DEF NoLeases
<1>3. UNCHANGED <<disk, containers, homes, nextID, now>>
  BY DEF runtime
<1>4. TypeOK'
  BY <1>2, <1>3 DEF IInv, TypeOK
<1>5. \A p \in Principals : Settled(leases'[p]) /\ Settled(prior'[p]) /\ Settled(disk'[p])
  BY <1>3, NoLeaseType DEF IInv, PhaseOK, NoLeases
<1>6. \A p \in Principals : PhaseOK(p)'
  BY <1>1, <1>5 DEF PhaseOK
<1>7. QED
  BY <1>1, <1>4, <1>6 DEF IInv, MutualExclusion, Locked

LEMMA CrashInv ==
  ASSUME RestartInv, Crash
  PROVE  RestartInv'
<1>1. IInv' /\ ~Locked'
  BY MemoryReplaced DEF RestartInv, Crash
<1>2. NoContainer \in Container
  BY DEF NoContainer, Container
<1>3. QED
  BY <1>1, <1>2 DEF RestartInv, Crash, Serving, None

LEMMA StartInv ==
  ASSUME RestartInv, Start \/ StartBlind
  PROVE  RestartInv'
<1>1. ~Locked
  BY DEF RestartInv, Start, StartBlind, Serving
<1>2. IInv' /\ ~Locked'
  BY <1>1, MemoryReplaced DEF RestartInv, Start, StartBlind
<1>3. CASE Start
  <2>1. containers \in [Principals -> Container]
    BY DEF RestartInv, IInv, TypeOK
  <2>2. QED
    BY <1>2, <1>3, <2>1 DEF RestartInv, Start, Serving
<1>4. CASE StartBlind
  BY <1>2, <1>4 DEF RestartInv, StartBlind, Serving
<1>5. QED
  BY <1>3, <1>4

LEMMA ReattachInv ==
  ASSUME RestartInv, NEW p \in Principals, Reattach(p)
  PROVE  /\ RestartInv'
         /\ leases'[p].cid = found[p].id /\ leases'[p].state = "Active"
         /\ \A q \in Principals : q # p => leases'[q] = leases[q]
<1> DEFINE l == NewLease(found[p].id, now)
<1>1. found[p].id \in Nat /\ now \in Nat /\ leases \in [Principals -> LeaseRecord]
  BY DEF RestartInv, IInv, TypeOK, Container
<1>2. /\ l \in LeaseRecord /\ l.cid = found[p].id /\ l.state = "Active" /\ Settled(l)
  BY <1>1, NewLeaseType, NewLeaseCid DEF Settled
<1> HIDE DEF l
<1>3. /\ leases' = [leases EXCEPT ![p] = l]
      /\ UNCHANGED <<phase, prior, sweep, containers, homes, nextID, now, mode, found>>
  BY DEF Reattach, Put, runtime, l
<1>4. ~Locked /\ mode = "reattach"
  BY DEF RestartInv, Reattach, Serving
<1>5. \A q \in Principals : Settled(leases'[q]) /\ leases'[q] \in LeaseRecord
  BY <1>1, <1>2, <1>3, <1>4 DEF RestartInv, IInv, PhaseOK, Locked
<1>6. leases' \in [Principals -> LeaseRecord]
  BY <1>1, <1>2, <1>3
<1>7. /\ disk' \in [Principals -> LeaseRecord]
      /\ \A q \in Principals : Settled(disk'[q])
  <2>1. PICK ok \in BOOLEAN : Save(ok)
    BY DEF Reattach
  <2>2. /\ disk \in [Principals -> LeaseRecord]
        /\ \A q \in Principals : Settled(disk[q]) /\ Settled(leases'[q])
    BY <1>5 DEF RestartInv, IInv, TypeOK, PhaseOK
  <2>3. QED
    BY <1>6, <2>1, <2>2, SaveSettles
<1>8. TypeOK'
  BY <1>3, <1>6, <1>7 DEF RestartInv, IInv, TypeOK
<1>9. \A q \in Principals : PhaseOK(q)'
  BY <1>3, <1>4, <1>5, <1>7 DEF RestartInv, IInv, PhaseOK, Locked
<1>10. IInv' /\ ~Locked'
  BY <1>3, <1>4, <1>8, <1>9 DEF IInv, MutualExclusion, Locked
<1>11. mode' = mode /\ found' = found /\ todo' \subseteq todo
  BY <1>3 DEF Reattach
<1>12. QED
  BY <1>1, <1>2, <1>3, <1>10, <1>11 DEF RestartInv

LEMMA RemoveOrphanVolumesInv ==
  ASSUME RestartInv, RemoveOrphanVolumes
  PROVE  RestartInv' /\ ~Locked
<1>1. ~Locked /\ UNCHANGED <<leases, disk, phase, prior, sweep, containers, nextID, now>>
  BY DEF RestartInv, RemoveOrphanVolumes, Serving
<1>2. homes' \in [Principals -> Nat]
  BY DEF RestartInv, IInv, TypeOK, RemoveOrphanVolumes
<1>3. IInv'
  BY <1>1, <1>2 DEF RestartInv, IInv, TypeOK, MutualExclusion, PhaseOK
<1>4. NoContainer \in Container
  BY DEF NoContainer, Container
<1>5. QED
  BY <1>1, <1>3, <1>4 DEF RestartInv, RemoveOrphanVolumes, Serving, None

\* A step of the store, or of the world while the controller is down.
LEMMA StoreStepInv ==
  ASSUME RestartInv, UNCHANGED <<mode, found, todo>>,
         (Serving /\ [Next]_vars) \/ (~Serving /\ Meanwhile)
  PROVE  RestartInv' /\ [Next]_vars
<1>1. [Next]_vars
  BY DEF Meanwhile, Next
<1>2. IInv'
  BY <1>1, NextInv DEF RestartInv
<1>3. ~Serving => phase' = phase
  BY DEF Meanwhile, Tick, ContainerExits
<1>4. ~Serving' => ~Locked'
  BY <1>3 DEF RestartInv, Serving, Locked
<1>5. QED
  BY <1>1, <1>2, <1>4 DEF RestartInv

LEMMA RestartInvNext == RestartInv /\ [RestartNext]_svars => RestartInv'
<1> SUFFICES ASSUME RestartInv, [RestartNext]_svars PROVE RestartInv'
  OBVIOUS
<1>1. CASE RestartStep
  BY <1>1, CrashInv, StartInv, ReattachInv, RemoveOrphanVolumesInv DEF RestartStep
<1>2. CASE \/ Serving /\ Next /\ UNCHANGED <<mode, found, todo>>
           \/ ~Serving /\ Meanwhile /\ UNCHANGED <<mode, found, todo>>
  BY <1>2, StoreStepInv
<1>3. CASE UNCHANGED svars
  <2>1. UNCHANGED vars /\ UNCHANGED <<mode, found, todo>>
    BY <1>3 DEF svars
  <2>2. IInv'
    BY <2>1, NextInv DEF RestartInv
  <2>3. QED
    BY <2>1, <2>2 DEF RestartInv, Serving, Locked, vars
<1>4. QED
  BY <1>1, <1>2, <1>3 DEF RestartNext

THEOREM RestartInvariance == RestartSpec => []RestartInv
BY RestartInvInit, RestartInvNext, PTL DEF RestartSpec

\* Type correctness with crashes.
THEOREM RestartTypeCorrect == RestartSpec => []RestartTypeOK
<1>1. RestartInv => RestartTypeOK
  BY DEF RestartInv, RestartTypeOK, IInv
<1>2. QED
  BY <1>1, RestartInvariance, PTL

\* Wherever a crash cuts a create or a release short, no lease is ever read,
\* saved or loaded halfway through (FileStore, NewFileStore, ReattachLeases).
THEOREM RestartSettles == RestartSpec => []LeasesSettled
<1>1. RestartInv => LeasesSettled
  BY DEF RestartInv, IInv, PhaseOK, LeasesSettled
<1>2. QED
  BY <1>1, RestartInvariance, PTL

-----------------------------------------------------------------------------
(* Containers and leases *)

\* The faults that leave a container behind for which no lease is left.
Leaving == {"leftover", "stop", "remove"}

\* A stop that is asked for takes the container away, or finds another one.
LEMMA StopTakesAway ==
  ASSUME IInv, NEW p \in Principals, Faults \intersect Leaving = {},
         CreateCleanup(p) \/ (\E ok \in BOOLEAN : ReleaseStop(p, ok)),
         containers[p].id # 0, containers[p].id = leases[p].cid
  PROVE  containers'[p] = NoContainer
<1>1. PICK o \in StopAnswers(p) : containers' = [containers EXCEPT ![p] = o.container]
  BY DEF CreateCleanup, ReleaseStop
<1>2. containers'[p] = o.container
  BY <1>1 DEF IInv, TypeOK
<1>3. o.container = NoContainer
  BY StopOutcomes DEF StopAnswers, Leaving
<1>4. QED
  BY <1>2, <1>3

LEMMA OwnedStep ==
  ASSUME IInv, [Next]_vars, Faults \intersect Leaving = {},
         NEW p \in Principals, Owned(p)
  PROVE  Owned(p)'
<1>1. /\ TypeOK /\ IInv' /\ NoContainer.id = 0 /\ containers[p] \in Container
      /\ leases \in [Principals -> LeaseRecord] /\ leases[p] \in LeaseRecord
  BY NextInv, ContainerFacts DEF IInv, TypeOK
<1>2. phase'[p] \in {"save", "cleanup", "drain", "stop", "rollback"}
        => leases'[p].state \notin Unheld
  BY <1>1 DEF IInv, PhaseOK
<1>3. CASE containers'[p] # containers[p]
  <2>1. CASE CreateSucceeds(p)
    <3>1. phase'[p] = "save" /\ leases'[p].cid = nextID
      BY <1>1, <2>1, AdvanceType, Made DEF CreateSucceeds
    <3>2. containers'[p].id = nextID
      <4>1. phase[p] = "create"
        BY <2>1 DEF CreateSucceeds, Advance
      <4>2. ~CreateFails(p) /\ ~CreateCleanup(p) /\ ~\E ok \in BOOLEAN : ReleaseStop(p, ok)
        BY <1>1, <3>1, <4>1, AdvanceType DEF CreateFails, CreateCleanup, ReleaseStop
      <4>3. ~UNCHANGED phase
        BY <3>1, <4>1
      <4>4. QED
        BY <1>3, <4>2, <4>3, ContainerSteps
    <3>3. QED
      BY <1>2, <3>1, <3>2 DEF Owned
  <2>2. CASE ContainerExits(p) /\ UNCHANGED <<leases, phase>>
    <3>1. containers'[p].id = containers[p].id \/ containers'[p] = NoContainer
      BY <1>1, <2>2, ContainerFacts DEF ContainerExits, IInv, TypeOK
    <3>2. QED
      BY <1>1, <2>2, <3>1 DEF Owned
  <2>3. CASE containers'[p] = NoContainer
    BY <1>1, <2>3 DEF Owned
  <2>4. QED
    BY <1>3, <2>1, <2>2, <2>3, ContainerSteps DEF Leaving
<1>4. CASE containers'[p] = containers[p]
  <2> SUFFICES ASSUME containers[p].id # 0
               PROVE  /\ phase'[p] \notin {"create", "commit"}
                      /\ leases'[p].state \notin Unheld
                      /\ leases'[p].cid = containers[p].id
    BY <1>4 DEF Owned
  <2>1. /\ phase[p] \notin {"create", "commit"} /\ leases[p].state \notin Unheld
        /\ leases[p].cid = containers[p].id
    BY DEF Owned
  <2>2. ~CreateCleanup(p) /\ ~\E ok \in BOOLEAN : ReleaseStop(p, ok)
    BY <1>1, <1>4, <2>1, StopTakesAway
  <2>3. CASE leases'[p] = leases[p] /\ phase'[p] = phase[p]
    BY <2>1, <2>3
  <2>4. CASE Creating(p)
    <3>1. CreateSaved(p) \/ CreateNotSaved(p)
      BY <2>1, <2>2, <2>4 DEF Creating, CreateBegin, CreateSucceeds, CreateFails, Advance
    <3>2. phase'[p] \in {"idle", "cleanup"} /\ leases' = leases
      BY <1>1, <3>1, AdvanceType DEF CreateSaved, CreateNotSaved
    <3>3. QED
      BY <2>1, <3>2
  <2>5. CASE ReleaseStep(p) \/ \E t \in Trigger : ReleaseBegin(p, t)
    <3>1. leases'[p].cid = leases[p].cid
      BY <2>5, ReleaseRecord
    <3>2. CASE ReleaseRollback(p)
      <4>1. phase'[p] = "idle" /\ leases'[p] = Unrelease(leases[p])
        BY <1>1, <3>2, AdvanceType DEF ReleaseRollback, Put
      <4>2. leases'[p].state = "Active"
        BY <1>1, <4>1, UnreleaseUndoes
      <4>3. QED
        BY <2>1, <3>1, <4>1, <4>2
    <3>3. CASE \/ \E ok \in BOOLEAN : ReleaseDrain(p, ok)
               \/ \E t \in Trigger : ReleaseBegin(p, t)
      <4>1. phase'[p] \in {"drain", "stop", "rollback"}
        BY <1>1, <3>3, AdvanceType DEF ReleaseDrain, ReleaseBegin
      <4>2. QED
        BY <1>2, <2>1, <3>1, <4>1
    <3>4. CASE ReleaseCommit(p)
      BY <2>1, <3>4 DEF ReleaseCommit, Advance
    <3>5. QED
      BY <2>2, <2>5, <3>2, <3>3, <3>4 DEF ReleaseStep
  <2>6. QED
    BY <2>3, <2>4, <2>5, OwnSteps
<1>5. QED
  BY <1>3, <1>4

\* During a restart, p's container changes only by stopping.
LEMMA ListedStep ==
  ASSUME RestartInv, mode = "reattach", Meanwhile, UNCHANGED <<mode, found, todo>>,
         NEW p \in Principals, Listed(p)
  PROVE  Listed(p)'
<1>1. UNCHANGED <<leases, phase>>
  BY DEF Meanwhile, Tick, ContainerExits
<1>2. containers \in [Principals -> Container] /\ containers[p] \in Container
  BY DEF RestartInv, IInv, TypeOK
<1>3. containers'[p].id \in {0, containers[p].id}
  BY <1>2, ContainerFacts DEF Meanwhile, Tick, ContainerExits, runtime
<1>4. QED
  BY <1>1, <1>3 DEF Listed, Owned

\* A container that was rebuilt a lease has it; the others wait for theirs.
LEMMA ReattachListed ==
  ASSUME RestartInv, OwnedInv, NEW q \in Principals, Reattach(q), NEW p \in Principals
  PROVE  Listed(p)'
<1>1. /\ mode = "reattach" /\ todo' = todo \ {q} /\ ~Locked
      /\ UNCHANGED <<phase, containers, found>>
  BY DEF RestartInv, Serving, Reattach, runtime
<1>2. Listed(p)
  BY <1>1 DEF OwnedInv
<1>3. CASE p = q
  <2>1. leases'[p].cid = found[p].id /\ leases'[p].state = "Active" /\ phase[p] = "idle"
    BY <1>1, <1>3, ReattachInv DEF Locked
  <2>2. QED
    BY <1>1, <1>2, <2>1 DEF Listed, Owned
<1>4. CASE p # q
  <2>1. leases'[p] = leases[p]
    BY <1>4, ReattachInv
  <2>2. QED
    BY <1>1, <1>2, <1>4, <2>1 DEF Listed, Owned
<1>5. QED
  BY <1>3, <1>4

LEMMA OwnedNext ==
  RestartInv /\ OwnedInv /\ [RestartNext]_svars /\ Faults \intersect Leaving = {} => OwnedInv'
<1> SUFFICES ASSUME RestartInv, OwnedInv, [RestartNext]_svars, Faults \intersect Leaving = {}
             PROVE  OwnedInv'
  OBVIOUS
<1>1. CASE Crash \/ StartBlind
  BY <1>1 DEF OwnedInv, Crash, StartBlind
<1>2. CASE Start
  BY <1>2 DEF OwnedInv, Listed, Start, runtime
<1>3. CASE \E p \in Principals : Reattach(p)
  <2>1. PICK q \in Principals : Reattach(q)
    BY <1>3
  <2>2. mode' = "reattach"
    BY <2>1 DEF Reattach
  <2>3. QED
    BY <2>1, <2>2, ReattachListed DEF OwnedInv
<1>4. CASE RemoveOrphanVolumes
  <2>1. /\ mode = "reattach" /\ todo = {} /\ mode' = "serving"
        /\ UNCHANGED <<leases, phase, containers>>
    BY <1>4 DEF RemoveOrphanVolumes
  <2>2. ASSUME NEW p \in Principals PROVE Owned(p)
    <3>1. Listed(p) /\ p \notin todo
      BY <2>1 DEF OwnedInv
    <3>2. QED
      BY <3>1 DEF Listed, Owned
  <2>3. QED
    BY <2>1, <2>2 DEF OwnedInv, Owned
<1>5. CASE Serving /\ Next /\ UNCHANGED <<mode, found, todo>>
  <2>1. mode = "serving" => \A p \in Principals : Owned(p)'
    BY <1>5, OwnedStep DEF OwnedInv, RestartInv
  <2>2. mode' # "reattach"
    BY <1>5 DEF Serving
  <2>3. QED
    BY <1>5, <2>1, <2>2 DEF OwnedInv
<1>6. CASE ~Serving /\ Meanwhile /\ UNCHANGED <<mode, found, todo>>
  <2>1. mode = "reattach" => \A p \in Principals : Listed(p)'
    BY <1>6, ListedStep DEF OwnedInv
  <2>2. mode' # "serving"
    BY <1>6 DEF Serving
  <2>3. QED
    BY <1>6, <2>1, <2>2 DEF OwnedInv
<1>7. CASE UNCHANGED svars
  BY <1>7 DEF svars, vars, OwnedInv, Owned, Listed
<1>8. QED
  BY <1>1, <1>2, <1>3, <1>4, <1>5, <1>6, <1>7 DEF RestartNext, RestartStep

\* As long as no removal fails that leaves a container for which there is no
\* lease, every container is that of an Active lease of its owner once the
\* controller serves, wherever crashes cut creates and releases short: what
\* the snapshot does not know of is found again (ReattachLeases).
THEOREM NoOrphans ==
  ASSUME Faults \intersect Leaving = {}
  PROVE  RestartSpec => []NoOrphanServing
<1>1. RestartInit => OwnedInv
  BY DEF RestartInit, Init, OwnedInv, Owned, NoContainer
<1>2. RestartInv /\ OwnedInv /\ [RestartNext]_svars => OwnedInv'
  BY OwnedNext
<1>3. RestartInv /\ OwnedInv => NoOrphanServing
  <2> SUFFICES ASSUME RestartInv, OwnedInv, mode = "serving", NEW p \in Principals,
                      phase[p] = "idle", containers[p].id # 0
               PROVE  leases[p].state = "Active" /\ leases[p].cid = containers[p].id
    BY DEF NoOrphanServing, NoOrphanContainer
  <2>1. leases[p].cid = containers[p].id /\ leases[p].state \notin Unheld
    BY DEF OwnedInv, Owned
  <2>2. Settled(leases[p])
    BY DEF RestartInv, IInv, PhaseOK
  <2>3. QED
    BY <2>1, <2>2 DEF Settled, NoLease
<1>4. QED
  BY <1>1, <1>2, <1>3, RestartInvInit, RestartInvNext, PTL DEF RestartSpec

-----------------------------------------------------------------------------
(* Volumes *)

\* During a restart nobody makes a container, and one that stops keeps its labels.
LEMMA LabelledNext == RestartInv /\ Labelled /\ [RestartNext]_svars => Labelled'
<1> SUFFICES ASSUME RestartInv, Labelled, [RestartNext]_svars, mode' = "reattach"
             PROVE  \A p \in Principals : containers'[p].id # 0 =>
                       found'[p].problem = containers'[p].problem
  BY DEF Labelled
<1>1. CASE Start
  BY <1>1 DEF Start, runtime
<1>2. CASE UNCHANGED <<mode, found, containers>>
  BY <1>2 DEF Labelled
<1>3. CASE UNCHANGED <<mode, found>> /\ \E q \in Principals : ContainerExits(q)
  <2>1. PICK q \in Principals : ContainerExits(q)
    BY <1>3
  <2>2. /\ containers \in [Principals -> Container]
        /\ NoContainer.id = 0 /\ NoContainer.running = FALSE
        /\ Exited(containers[q]).id = containers[q].id
        /\ Exited(containers[q]).problem = containers[q].problem
    BY ContainerFacts DEF RestartInv, IInv, TypeOK, Exited, Container, NoContainer
  <2>3. containers' = [containers EXCEPT ![q] = Exited(@)]
        \/ containers' = [containers EXCEPT ![q] = NoContainer]
    BY <2>1 DEF ContainerExits
  <2> QED BY <1>3, <2>2, <2>3 DEF Labelled
<1>4. CASE Crash \/ StartBlind \/ RemoveOrphanVolumes
  BY <1>4 DEF Crash, StartBlind, RemoveOrphanVolumes
<1>5. QED
  BY <1>1, <1>2, <1>3, <1>4 DEF RestartNext, RestartStep, Reattach, Meanwhile, Tick,
     Serving, runtime, svars, vars

\* Of the homes that containers use, a restart asks for the removal of those
\* alone whose labels name another problem than the container's: whatever
\* crashed, stopped or failed before and meanwhile, and however many problems
\* students work on (ReattachLeases, and ListContainers with stopped ones).
THEOREM MislabelledOnly == RestartSpec => []OnlyMislabelledReclaimed
<1>1. RestartInit => Labelled
  BY DEF RestartInit, Labelled
<1>2. Labelled => OnlyMislabelledReclaimed
  BY DEF Labelled, OnlyMislabelledReclaimed, OrphanVolume
<1>3. QED
  BY <1>1, <1>2, LabelledNext, RestartInvInit, RestartInvNext, PTL DEF RestartSpec

=============================================================================
