CONSTANTS
  lunch = lunch
  None = None
  h1 = h1
  Others <- MCOthers
  StartTolerance = 20
  OverlapPercent = 80
  Names <- MCNames
  Times <- MCTimes
  Details <- MCDetails
  Handlers = {h1}
  Plans <- MCPlans
  Day <- MCDay
  UserSlots <- MCUserSlots
  Unreadable = {}
  MaxRequests = 3
  MaxEdits = 1
SPECIFICATION Spec
INVARIANTS
  TypeOK
  CommittedIsRealised
  ResubmitConverges
PROPERTIES
  ForeignUntouched
  UndoRestores
CHECK_DEADLOCK FALSE
