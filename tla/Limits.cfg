SPECIFICATION Spec
CONSTANTS
  few = few  more = more  c1 = c1  c2 = c2
  Shape = {few, more}
  Customer = {c1, c2}
  Has <- Attributes
  Policy <- Policies
  Payload <- Payloads
  Change <- Changes
  Day = 1
  Month = 2
  MaxTime = 3
  MaxEdits = 4
  MaxRecords = 1
  Unlimited = Unlimited
  Never = Never
  Default = Default
  Undeclared = Undeclared
INVARIANTS
  TypeOK
  ConsultedIsReported
  ReportedIsConsulted
  WholeWindows
PROPERTIES
  EnforcementStands
CHECK_DEADLOCK FALSE
