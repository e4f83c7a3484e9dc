SPECIFICATION FairSpec
CONSTANTS
  t1 = t1  t2 = t2
  Txn = {t1, t2}
  Sweeper = {s1, s2}
  Reader = {g1}
  BatchLimit = 1
  MaxClaims <- Claims
  Outcome = {"APPROVED"}
  MaxStops = 1
  Absent = Absent
INVARIANTS
  TypeOK
  LookupsFind
  ArchiveIsLast
  DecisionsStay
PROPERTIES
  OldRecordsLeave
CHECK_DEADLOCK FALSE
