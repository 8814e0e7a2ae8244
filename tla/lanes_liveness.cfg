SPECIFICATION MCSpec
CONSTANTS
  Msg = {1, 2}
  Owner = {o1}
  Stamp = {1}
  Lane = {l1}
  NoLane = NoLane
  Relayed = {}
  Orig = {x1}
  Web = {w1}
  Event = {e1, e2}
  Group = {e2}
  Hook = {h1}
  Body = {b1}
  NoBody = NoBody
  MaxSockets = 2
PROPERTIES QueueProgress WaitingMovesOn TurnsSettle
CHECK_DEADLOCK FALSE
