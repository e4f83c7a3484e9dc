SPECIFICATION FairSpec
CONSTANTS
  i1 = i1  OUTWARD = OUTWARD  INWARD = INWARD
  GLOBAL = GLOBAL  PAYER = PAYER  PAYEE = PAYEE
  outCap = outCap  inCap = inCap
  a1 = a1  a2 = a2  p1 = p1  x1 = x1
  Instance = {i1}
  Direction <- Directions
  Dimension <- Dimensions
  Global = GLOBAL
  Definition = {outCap, inCap}
  DirectionOf <- CapDirection
  Mandatory = {outCap, inCap}
  Admin = {a1, a2}
  RequestOf <- ServingRequests
  Poll = {p1}
  Txn = {x1}
  TxnDirection <- OneDirection
  Home <- AllAtOne
  Enabled0 = {OUTWARD}
  Registry0 <- Configured
  Active0 = {outCap}
  Warmed = {i1}
  Absent = Absent
  Unread = Unread
  Faults = {"call", "refresh"}
INVARIANTS
  TypeOK
  
  
  EnabledWasReady
PROPERTIES
  LastGoodStays
  CachesConverge
CHECK_DEADLOCK FALSE
