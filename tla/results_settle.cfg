CONSTANTS
  ann = ann
  ben = ben
  Pollers = {ann}
  Readers = {ben}
  NoRecord = NoRecord
  MaxRestarts = 1

SPECIFICATION ResultsSpec

INVARIANTS
  ResultsTypeOK
  StoreFollows

PROPERTIES
  AskedIsShown
