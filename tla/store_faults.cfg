CONSTANTS
  alice = alice
  bob = bob
  Principals = {alice, bob}
  MaxLife = 2
  IdleTimeout = 1
  Persistent = TRUE
  Faults = {"create", "leftover", "stop", "stopGone", "remove", "drain", "save", "exit", "lost"}
  MaxProblems = 1
  MaxTime = 4
  MaxContainers = 3

SPECIFICATION Spec

SYMMETRY Symmetry

INVARIANTS
  TypeOK
  LeasesSettled
  SnapshotLags
  ReleaseJustified

PROPERTIES
  AtomicSpec
