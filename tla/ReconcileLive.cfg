SPECIFICATION FairSpec
CONSTANTS
  t1 = t1  t2 = t2
  k1 = k1  k2 = k2
  d1 = d1  d2 = d2
  s1 = s1  s2 = s2
  Txn = {t1, t2}
  Key = {k1, k2}
  Rolling = {}
  Drainer = {d1}
  Sweeper = {s1}
  Amount <- TxnAmount
  MaxAmount = 2
  Absent = Absent
  NoSignal = NoSignal
  QueueLimit = 1
  SweepLimit = 1
  AutoCorrectOpenWindows = FALSE
  Faults = {"crash", "ttl"}
INVARIANTS
  TypeOK
  NeverUndercounts
PROPERTIES
  SignalsAreResolved
  DriftIsRepaired
CHECK_DEADLOCK FALSE
