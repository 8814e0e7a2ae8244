SPECIFICATION MCSpec
CONSTANTS
  MaxOps = 2
  MaxGuests = 2
  MaxRuns = 2
  MaxWrites = 1
INVARIANTS GuestInv CleanedIsQuiet UpdateSafety
PROPERTIES NoRevival LifecycleSettles RunsFinish
CHECK_DEADLOCK FALSE
