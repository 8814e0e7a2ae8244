SPECIFICATION FairSpec
CONSTANTS
  Proc = {p1}
  Agents = 2
  Page = 1
  Rows = 1
  Receipts = 1
  MaxRow = 1
  MaxEpoch = 1
  Kinds = {"media"}
  Verdicts = {"yes", "expired"}
PROPERTIES ShownInTheEnd
CHECK_DEADLOCK FALSE
