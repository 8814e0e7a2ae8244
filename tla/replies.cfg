SPECIFICATION MCSpec
CONSTANTS
  Intent = {im, ag}
  ImIntent = {im}
  Token = {k1, k2}
  NoToken = NoToken
  Lease = 2
  Deadline = 1
  MaxChunks = 2
  MaxDelay = 1
  Cmd = {c1}
  Run = {t1}
  MaxGen = 1
  Proc = {p1}
  Agents = 2
  Page = 1
  Rows = 1
  Receipts = 1
  MaxRow = 1
  MaxEpoch = 1
  Kinds = {"media"}
  Verdicts = {"yes"}
INVARIANTS RelaySafety RelayInv
PROPERTIES RelayRules EventuallyDone RepliesSettle RepliesShown
CHECK_DEADLOCK FALSE
