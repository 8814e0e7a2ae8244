SPECIFICATION MCSpec
CONSTANTS
  Msg = {1, 2}
  Owner = {o1, o2}
  FirstOwner = o1
  Stamp = {1}
  Lane = {l1}
  NoLane = NoLane
  Relayed = {1}
  WakeLane = {a, b}
  Watched = a
  MaxParallel = 1
  Sem = {s1, s2}
  NoSem = NoSem
  MaxRows = 1
INVARIANTS QueueSafety IInv WakeSafety
PROPERTIES RowRules ClaimsTheHead RefinesTurnLane ClaimableIsServed
