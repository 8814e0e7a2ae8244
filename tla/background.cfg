SPECIFICATION MCSpec
CONSTANTS
  Item = {i1, i2}
  Sched = i1
  Claim = {c1, c2}
  NoClaim = NoClaim
  Task = {i1}
  Trigger = {i1}
  Of <- OneTrigger
  MaxEdits = 2
  MaxDue = 1
  MaxDrops = 1
  MaxFires = 1
INVARIANTS LeaseInv RunSafety
PROPERTIES RunsEnd OccurrencesSettle ExecutionsSettle
