SPECIFICATION MCSpec
CONSTANTS
  Msg = {1, 2}
  Owner = {1, 2}
  Stamp = {1}
  Orig = {x1, x2, x3}
  Quiet = 3
  Window = 4
  PendingMax = 2
  BatchMax = 2
  MaxPasses = 2
  MaxGen = 1
SYMMETRY Symmetry
INVARIANTS IInv LaneOrder BurstIntegrity CancelledIsSilent
PROPERTIES BurstRules RefinesTurnLane
