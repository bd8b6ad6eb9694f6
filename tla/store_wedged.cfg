CONSTANTS
  alice = alice
  bob = bob
  Principals = {alice}
  MaxLife = 1
  IdleTimeout = 1
  Persistent = TRUE
  Faults = {"stopGone"}
  MaxProblems = 1
  MaxTime = 3
  MaxContainers = 2

SPECIFICATION FairSpec

PROPERTIES
  DueIsReleased
