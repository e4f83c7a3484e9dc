SPECIFICATION Spec
CONSTANTS
  i1 = i1  OUTWARD = OUTWARD  INWARD = INWARD
  GLOBAL = GLOBAL  PAYER = PAYER  PAYEE = PAYEE
  outCap = outCap  inCap = inCap
  a1 = a1  a2 = a2  p1 = p1  x1 = x1
  Instance = {i1}
  Direction <- Directions
  Dimension <- Dimensions
  Global = GLOBAL
  Definition = {outCap, inCap}
  DirectionOf <- CapDirection
  Mandatory = {outCap, inCap}
  Admin = {a1, a2}
  RequestOf <- DirectionRequests
  Poll = {p1}
  Txn = {}
  TxnDirection <- NoTxn
  Home <- OnePoll
  Enabled0 = {OUTWARD}
  Registry0 <- Configured
  Active0 = {outCap}
  Warmed = {i1}
  Absent = Absent
  Unread = Unread
  Faults = {}
PROPERTIES
  CarriesForward
CHECK_DEADLOCK FALSE
