SPECIFICATION Spec
CONSTANTS
  t1 = t1  t2 = t2
  k1 = k1  k2 = k2
  d1 = d1  d2 = d2
  s1 = s1  s2 = s2
  Txn = {t1, t2}
  Key = {k1}
  Rolling = {}
  Drainer = {d1}
  Sweeper = {s1}
  Amount <- TxnAmount
  MaxAmount = 2
  Absent = Absent
  NoSignal = NoSignal
  QueueLimit = 2
  SweepLimit = 1
  AutoCorrectOpenWindows = FALSE
  Faults = {}
INVARIANTS
  RepairsAreSound
CHECK_DEADLOCK FALSE
