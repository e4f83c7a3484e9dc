SPECIFICATION FairSpec
CONSTANTS
  t1 = t1  t2 = t2
  r1 = r1  r2 = r2  r3 = r3
  v1 = v1  v2 = v2
  k1 = k1  k2 = k2
  Txn <- MCTxn
  Request = {r1, r3}
  Reversal <- OneReversalCall
  Key <- MCKey
  Hot = {k1}
  Rolling = {}
  Deactivatable = {k2}
  Submits <- TwoSubmits
  Reverses <- OneReverses
  Amount <- MCAmount
  MaxAmount = 2
  Plan <- MixedPlan
  Threshold <- MCThreshold
  Unlimited = Unlimited
  Faults = {"throw", "slow", "unconfirmed", "retried"}
  MaxRetries = 1
INVARIANTS
  ApprovedInFull
PROPERTIES
  StatusLifecycle
  ClaimsAreDecided
  SubmitsEnd
  ReversalsEnd
CHECK_DEADLOCK FALSE
