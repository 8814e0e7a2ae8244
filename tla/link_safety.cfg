SPECIFICATION LinkMCSpec
CONSTANTS
  Intent = {i1}
  ImIntent = {i1}
  Token = {k1}
  NoToken = NoToken
  Lease = 1
  Deadline = 0
  MaxChunks = 1
  MaxDelay = 1
  Cmd = {c1}
  Run = {t1, t2}
  MaxGen = 2
  Proc = {p1, p2}
  Agents = 1
  Page = 1
  Rows = 1
  Receipts = 1
  MaxRow = 2
  MaxEpoch = 2
  Kinds = {"text", "media", "file", "native"}
  Verdicts = {"yes", "no", "expired"}
SYMMETRY Symmetry
INVARIANTS LinkInv RecoveryInv
PROPERTIES RefinesChunkSend RecoveryRules
CHECK_DEADLOCK FALSE
