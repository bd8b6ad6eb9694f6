CONSTANTS
  alice = alice
  bob = bob
  Principals = {alice}
  MaxLife = 1
  IdleTimeout = 1
  Persistent = TRUE
  Faults = {"create", "drain", "stop"}
  MaxProblems = 1
  MaxTime = 3
  MaxContainers = 2
  MaxChannels = 2
  BastionRestarts = TRUE

SPECIFICATION SessionsSpec

INVARIANTS
  SessionsTypeOK
  NoPhantomChannel
  SnapshotCurrent
  ReleaseJustified

PROPERTIES
  LifetimeKept
  ConnectedStays
  ForgetsOnlyWhenCleared
