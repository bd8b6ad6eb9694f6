CONSTANTS
  alice = alice
  bob = bob
  Principals = {alice, bob}
  MaxLife = 1
  IdleTimeout = 1
  Persistent = FALSE
  Faults = {"create", "drain", "stop"}
  MaxProblems = 1
  MaxTime = 3
  MaxContainers = 2

SPECIFICATION FairSpec

INVARIANTS
  ActiveIsRunning

PROPERTIES
  StopsAfterDrain
  DueIsReleased
