CONSTANTS
  r1 = r1
  r2 = r2
  r3 = r3
  r4 = r4
  Requests = {r1, r2, r3, r4}
  NoRequest = NoRequest
  Scopes = {"s"}
  Payloads = {"a", "b"}
  MaxRetries = 1
  Faults = {"lost", "unreached", "refused", "garbled", "cancel", "save", "restart"}

SYMMETRY Symmetry

SPECIFICATION SubmissionsSpec

INVARIANTS
  SubmissionsTypeOK
  DuplicatesMatch
  WaitersServed
  ReservationsOwned
  SecondAfterWaiter
