SPECIFICATION FairSpec
CONSTANTS
  MaxAction = 2
  ActionTypes = {"comment"}
  FloorTypes = {"comment"}
  PolicyTypes = {}
  PolicyTier = "notify"
  Brokers = {b1}
  Outboxes = {o1}
  MaxLapse = 0
PROPERTY ApprovedIsServed
CHECK_DEADLOCK FALSE
