CONSTANTS
  alice = alice
  bob = bob
  Principals = {alice}
  MaxLife = 2
  IdleTimeout = 1
  Persistent = TRUE
  Faults = {}
  MaxProblems = 1
  MaxTime = 3
  MaxContainers = 2
  MaxChannels = 1

SPECIFICATION RosterSpec

PROPERTIES
  ReclaimedIsTerminal
