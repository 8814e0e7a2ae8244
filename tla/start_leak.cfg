SPECIFICATION Spec
CONSTANTS
  MaxOps = 2
  MaxGuests = 1
INVARIANTS EveryWriterIsOwned
