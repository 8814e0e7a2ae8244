SPECIFICATION FairSpec
CONSTANTS
  Msg = {m1, m2}
  Owner = {o1}
  Stamp = {1}
  Lane = {l1}
  NoLane = NoLane
  Relayed = {}
PROPERTIES StaleClaimIsReturned
