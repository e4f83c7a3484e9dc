SPECIFICATION Spec
CONSTANTS
  t1 = t1  t2 = t2
  r1 = r1  r2 = r2  r3 = r3
  v1 = v1  v2 = v2
  k1 = k1  k2 = k2
  Txn <- MCTxn
  Request <- MCRequest
  Reversal <- OneReversalCall
  Key <- MCKey
  Hot = {}
  Rolling = {}
  Deactivatable = {k2}
  Submits <- MCSubmits
  Reverses <- OneReverses
  Amount <- MCAmount
  MaxAmount = 2
  Plan <- MCPlan
  Threshold <- MCThreshold
  Unlimited = Unlimited
  Faults = {"unconfirmed"}
  MaxRetries = 0
INVARIANTS
  NeverOverApproves
CHECK_DEADLOCK FALSE
