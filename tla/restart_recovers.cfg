CONSTANTS
  alice = alice
  bob = bob
  Principals = {alice, bob}
  MaxLife = 2
  IdleTimeout = 1
  Persistent = TRUE
  Faults = {"create", "stopGone", "drain", "save", "exit", "lost", "list"}
  MaxProblems = 2
  MaxTime = 2
  MaxContainers = 2

SPECIFICATION RestartSpec

SYMMETRY Symmetry

INVARIANTS
  RestartTypeOK
  LeasesSettled
  OnlyMislabelledReclaimed
  NoOrphanServing
