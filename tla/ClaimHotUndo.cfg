SPECIFICATION Spec
CONSTANTS
  c1 = c1  c2 = c2  c3 = c3
  p1 = p1  p2 = p2
  Kind = {"rolling-sharded"}
  Calls <- CallsOf
  Process = {p1, p2}
  Nowhere = Nowhere
  Txn <- Payments
  Amount <- Amounts
  MaxAmount = 2
  Threshold <- Limits
  Unlimited = Unlimited
  Factors = {2, 3}
  Boundaries = {0, 4}
  Hour = 2
  Horizon = 4
  Day = 4
  Grace = 1
  Refresh = 1
  Poll = 1
  Slow = 1
  MaxTime <- Clocks
  MaxEdits = 1
INVARIANTS
  RecordedBucketIsDecremented
CHECK_DEADLOCK FALSE
