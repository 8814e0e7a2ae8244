SPECIFICATION LossySpec
CONSTANTS
  MaxRuns = 1
  MaxWrites = 1
INVARIANTS SuccessStays
CHECK_DEADLOCK FALSE
