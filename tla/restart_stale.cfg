CONSTANTS
  alice = alice
  bob = bob
  Principals = {alice}
  MaxLife = 2
  IdleTimeout = 1
  Persistent = TRUE
  Faults = {}
  MaxProblems = 1
  MaxTime = 3
  MaxContainers = 2

SPECIFICATION RestartSpec

INVARIANTS
  ServingActiveIsRunning
