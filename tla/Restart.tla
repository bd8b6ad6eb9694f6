------------------------------ MODULE Restart ------------------------------
(***************************************************************************)
(* The lease store with crashes of the controller.  A crash takes all of   *)
(* memory with it, also in the middle of a create or a release; the disk   *)
(* and the containers stay.  A restart loads the snapshot (NewFileStore),  *)
(* rebuilds the leases of the containers it can list, removes the volumes  *)
(* and networks of nobody's container (ReattachLeases), and only then does *)
(* the controller serve again (cmd/controller/main.go:24-40).              *)
(*                                                                         *)
(* No network is ever made by the program, so none is modelled.            *)
(***************************************************************************)
EXTENDS LeaseStore

VARIABLES mode,      \* "down", "reattach" during a restart, "serving" after it,
                     \* or "blind" after one that could not list containers
          found,     \* the container that was listed for each principal
          todo       \* the listed principals with no rebuilt lease yet

svars == <<vars, mode, found, todo>>

None == [p \in Principals |-> NoContainer]

RestartInit == /\ Init
               /\ mode = "serving" /\ found = None /\ todo = {}

\* Docker may finish a call that the crash cuts off; that is the crash right
\* after the step of the call.
Crash ==
  /\ mode # "down"
  /\ mode' = "down" /\ found' = None /\ todo' = {}
  /\ leases' = NoLeases
  /\ phase' = [p \in Principals |-> "idle"]
  /\ prior' = NoLeases
  /\ sweep' = [t \in Sweeper |-> NoLeases]
  /\ UNCHANGED <<disk, runtime, now>>

\* Mutated form: only running containers are listed.
StartRunning ==
  /\ mode = "down"
  /\ leases' = disk
  /\ mode' = "reattach"
  /\ found' = [p \in Principals |-> IF containers[p].running THEN containers[p]
                                    ELSE NoContainer]
  /\ todo' = {p \in Principals : containers[p].running}
  /\ UNCHANGED <<disk, phase, prior, sweep, runtime, now>>

\* Load, then ListContainers, which includes the containers that have stopped.
Start ==
  /\ mode = "down"
  /\ leases' = disk
  /\ mode' = "reattach"
  /\ found' = containers
  /\ todo' = {p \in Principals : containers[p].id # 0}
  /\ UNCHANGED <<disk, phase, prior, sweep, runtime, now>>

\* The containers cannot be listed: the error is logged and the controller
\* serves with what the snapshot held.
StartBlind ==
  /\ mode = "down"
  /\ "list" \in Faults
  /\ leases' = disk
  /\ mode' = "blind"
  /\ UNCHANGED <<disk, phase, prior, sweep, runtime, now, found, todo>>

\* Mutated form: a lease that the snapshot held is kept.
ReattachKeepingLease(p) ==
  /\ mode = "reattach" /\ p \in todo
  /\ IF leases[p] = NoLease THEN Put(p, NewLease(found[p].id, now)) ELSE UNCHANGED leases
  /\ \E ok \in BOOLEAN : Save(ok)
  /\ todo' = todo \ {p}
  /\ UNCHANGED <<phase, prior, sweep, runtime, now, mode, found>>

\* A new lease replaces the persisted one; the error of the upsert is logged.
Reattach(p) ==
  /\ mode = "reattach" /\ p \in todo
  /\ Put(p, NewLease(found[p].id, now))
  /\ \E ok \in BOOLEAN : Save(ok)
  /\ todo' = todo \ {p}
  /\ UNCHANGED <<phase, prior, sweep, runtime, now, mode, found>>

\* A home volume whose owner, course and problem are those of no container.
OrphanVolume(p) == homes[p] # 0 /\ found[p].problem # homes[p]

\* Every orphan volume is asked to be removed.  A removal may fail, which is
\* logged, and the runtime (external) removes no volume that a container uses.
RemoveOrphanVolumes ==
  /\ mode = "reattach" /\ todo = {}
  /\ \E removed \in SUBSET {p \in Principals : OrphanVolume(p) /\ containers[p].id = 0} :
        homes' = [p \in Principals |-> IF p \in removed THEN 0 ELSE homes[p]]
  /\ mode' = "serving" /\ found' = None
  /\ UNCHANGED <<leases, disk, phase, prior, sweep, containers, nextID, now, todo>>

\* Time passes, and containers stop, whether or not the controller runs.
Meanwhile == Tick \/ \E p \in Principals : ContainerExits(p)

RestartStep == \/ Crash \/ Start \/ StartBlind
               \/ \E p \in Principals : Reattach(p)
               \/ RemoveOrphanVolumes

Serving == mode \in {"serving", "blind"}

RestartNext == \/ RestartStep
               \/ Serving /\ Next /\ UNCHANGED <<mode, found, todo>>
               \/ ~Serving /\ Meanwhile /\ UNCHANGED <<mode, found, todo>>

RestartSpec == RestartInit /\ [][RestartNext]_svars

-----------------------------------------------------------------------------
(* Properties *)

\* Type invariant.  What is to be reattached was listed.
RestartTypeOK ==
  /\ TypeOK
  /\ mode \in {"serving", "blind", "down", "reattach"}
  /\ found \in [Principals -> Container]
  /\ todo \subseteq {p \in Principals : found[p].id # 0}

\* Once the controller serves, every container is that of an Active lease of
\* its owner, wherever a crash cut a create or a release short: reattaching
\* finds what the snapshot does not know of, if Docker lets it.
NoOrphanServing == mode = "serving" => NoOrphanContainer

\* "Orphan volumes (svc- prefixed, no matching container)"
\* (pkg/controller/reattach.go:65): of the homes that containers use, stopped
\* or not, a restart asks for the removal of those alone whose labels name
\* another problem than the container's.  A volume keeps the labels of the
\* create that made it, so that happens to students who have gone on to another
\* problem, and to nobody else.
OnlyMislabelledReclaimed ==
  mode = "reattach" => \A p \in Principals : OrphanVolume(p) /\ containers[p].id # 0
                         => containers[p].problem # homes[p]

\* Serving leases stand for running containers (see ActiveIsRunning).
ServingActiveIsRunning == mode = "serving" => ActiveIsRunning
=============================================================================
